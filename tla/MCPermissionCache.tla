-------------------------- MODULE MCPermissionCache --------------------------
(* TLC instances of PermissionCache.                                       *)
EXTENDS PermissionCache, TLC

Symm == Permutations(Procs) \cup Permutations(Roles)

=============================================================================
