--------------------------- MODULE MCDeployReport ---------------------------
(***************************************************************************)
(* What is shipped, and what is reported of it after a restart.  The two   *)
(* meet in lines of the deploy journal only and share no state, so that a  *)
(* behaviour takes one of them as its focus and leaves the other alone.    *)
(***************************************************************************)
EXTENDS DeployReport, CodeTools

CONSTANT sql

VARIABLE focus

\* The shell may leave any tree, anything staged, and a branch of one commit.
MCCheckouts ==
  [tree : SUBSET Edits, index : SUBSET Edits, head : BoundedSeq(SUBSET Edits, 1)]

\* Shipped commits are interchangeable.
Symmetry == Permutations(Commits)

DeploysInit == focus \in {"ship", "report"} /\ CodeInit /\ Init

DeploysNext ==
  /\ UNCHANGED focus
  /\ \/ focus = "ship" /\ CodeNext /\ UNCHANGED vars
     \/ focus = "report" /\ Next /\ UNCHANGED codeVars

DeploysSpec == DeploysInit /\ [][DeploysNext]_<<focus, codeVars, vars>>
=============================================================================
