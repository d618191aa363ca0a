-------------------------- MODULE MCInstrumentation --------------------------
EXTENDS Instrumentation, TLC

CONSTANTS t1, t2, p1, p2, f1, f2

(* The filter f2 does not take connections to p2. *)
AllButOne == ({f1, f2} \X {p1, p2}) \ {<<f2, p2>>}

ToolSymmetry == Permutations({t1, t2})
=============================================================================
