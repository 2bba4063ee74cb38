--------------------------- MODULE MCRunLifecycle ---------------------------
(* Instances of RunLifecycle for TLC.                                      *)
EXTENDS RunLifecycle, TLC

(* Run ids are interchangeable; sessions (one is ACP) and deleters are not. *)
Symmetry == Permutations(Runs)

=============================================================================
