---------------------------- MODULE MCDeployment ----------------------------
(* TLC instances of Deployment.                                            *)
EXTENDS Deployment, TLC

Symm == Permutations(Procs) \cup Permutations(Tenants \ {Root})

=============================================================================
