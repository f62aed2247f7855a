---------------------------- MODULE MCSettlement ----------------------------
(* TLC instances of Settlement: an invoice of 3, payments of 1 to 3 and two *)
(* memos of 1 and 2, so that any two or three of them can settle it.        *)
EXTENDS Settlement, Functions, TLC

CONSTANTS m1, m2

Credits == m1 :> 1 @@ m2 :> 2
CreditSums == [S \in SUBSET Memos |-> SumFunctionOnSet(Credits, S)]

Symm == Permutations(Procs)

=============================================================================
