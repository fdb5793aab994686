-------------------------- MODULE MCServerLifecycle --------------------------
(* Model-checking instance of ServerLifecycle.                               *)
EXTENDS ServerLifecycle, TLC

Perms == Permutations(Containers) \cup Permutations(Servers)
=============================================================================
