--------------------------- MODULE MCToolApprovals ---------------------------
(* Instances of ToolApprovals for TLC.                                     *)
EXTENDS ToolApprovals, TLC

(* Approval ids are interchangeable (no run that uses this checks liveness). *)
Symmetry == Permutations(Approvals)

=============================================================================
