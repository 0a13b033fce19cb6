--------------------------- MODULE MCRunLifecycle ---------------------------
(* RunLifecycle for TLC, with the inductive invariant its proofs use.       *)
EXTENDS RunLifecycleProofs, TLC

RunSymmetry == Permutations(Runs)
PassSymmetry == Permutations(Ticks) \cup Permutations(Pollers)
=============================================================================
