----------------------------- MODULE MCApproval ------------------------------
(* TLC instances of Approval.                                                *)
EXTENDS Approval, TLC

IdSymmetry == Permutations(Decisions) \cup Permutations(Requests)
              \cup Permutations(Keys) \cup Permutations(Preparers)
              \cup Permutations(Approvers) \cup Permutations(Operations)
=============================================================================
