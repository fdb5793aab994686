---------------------------- MODULE MCSelfHealing ----------------------------
(* Model-checking instance of SelfHealing.                                   *)
EXTENDS SelfHealing, TLC

Perms == Permutations(Containers) \cup Permutations(Healers)
           \cup Permutations(Callers \ (Healers \cup CliCallers))
=============================================================================
