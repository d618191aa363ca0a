--------------------------- MODULE MCScriptBranch ---------------------------
(***************************************************************************)
(* The instance of ScriptBranch that TLC checks: the branches are alike.   *)
(***************************************************************************)
EXTENDS ScriptBranch, TLC

BranchSymmetry == Permutations(Branch)
=============================================================================
