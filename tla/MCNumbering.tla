---------------------------- MODULE MCNumbering ----------------------------
(* TLC instances of Numbering: two processes, and hand-typed codes that     *)
(* look like the ones the sequence of the first period issues.              *)
EXTENDS Numbering, TLC

TypedOrCleared == {<<1, 1>>, NoCode}

Symm == Permutations(Procs)

=============================================================================
