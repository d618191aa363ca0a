---------------------------- MODULE MCBlueprint ----------------------------
EXTENDS Blueprint

CONSTANTS top, a

(* The state at a may become an alias of the one at its parent. *)
Path == (top :> <<top>>) @@ (a :> <<a, top>>)
OneAlias == {<<a, top>>}
SomeWrites == (Nodes \X {NORMAL} \X Vals) \cup {<<a, DEFAULT, 1>>, <<a, OVERRIDE, 0>>}

(* A preset at one of the states, so that the other one may be unset. *)
OnePreset == {[n \in Nodes |-> IF n = chosen THEN <<1>> ELSE <<>>] : chosen \in Nodes}
=============================================================================
