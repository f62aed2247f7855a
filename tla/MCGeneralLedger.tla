-------------------------- MODULE MCGeneralLedger --------------------------
(* TLC instances of GeneralLedger: two accounts, the entry date and the     *)
(* reversal date, a few line arrays: an even one, one that passes the check *)
(* off by 0.005 and whose halves round up to two cents too many, one that   *)
(* must not pass.  Who waits for whom depends on the accounts only, so the  *)
(* run on waiting has lines of nothing.                                     *)
EXTENDS GeneralLedger, TLC

CONSTANTS cash, expense, p1, p2

Line(a, n) == [account |-> a, amount |-> n]
Even == <<Line(cash, 10), Line(expense, -10)>>
Rough == <<Line(cash, 5), Line(cash, 5), Line(cash, 5), Line(expense, -10)>>
Uneven == <<Line(cash, 30)>>

OnePair == {Even}
OneRough == {Rough}
RoughAndUneven == {Rough, Uneven}
Nothing == {<<Line(cash, 0), Line(expense, 0)>>}

Cents == -3..3
NoCents == {0}

Symm == Permutations(Procs) \cup Permutations(Entries)

=============================================================================
