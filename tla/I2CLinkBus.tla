----------------------------- MODULE I2CLinkBus -----------------------------
(***************************************************************************)
(* The link implements the single arbiter of I2CBus.  The abstract owner   *)
(* changes when the first endpoint takes a start that wins or a stop: from *)
(* then on the endpoints that have not yet taken it are merely behind.     *)
(***************************************************************************)
EXTENDS I2CLink

Ahead == {e \in Endpoints : ~OwnerPending(e)}

Owner ==
  current_master[CHOOSE e \in Endpoints : Ahead # {} => e \in Ahead]

Client ==
  [m \in Masters |->
     IF device[m] = "idle" THEN "idle"
     ELSE IF device[m] \in {"startR", "startW"} THEN "asking"
     ELSE "using"]

Bus == INSTANCE I2CBus WITH owner <- Owner, client <- Client

(***************************************************************************)
(* Every step of the link is a step of the arbiter or leaves it unchanged, *)
(* and every start is won, lost or answered in the end.                    *)
(***************************************************************************)
ImplementsBus == Bus!FairSpec
=============================================================================
