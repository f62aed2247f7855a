----------------------------- MODULE MCBudgets -----------------------------
(* TLC instances of Budgets.                                               *)
EXTENDS Budgets, TLC

Symm == Permutations(Procs) \cup Permutations(Deliverables) \cup Permutations(Activities)

=============================================================================
