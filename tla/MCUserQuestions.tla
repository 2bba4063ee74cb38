-------------------------- MODULE MCUserQuestions --------------------------
(* Questions of one kind are interchangeable.                              *)
EXTENDS UserQuestions, TLC

Symmetry == Permutations(Inputs) \cup Permutations(Elicitations)

=============================================================================
