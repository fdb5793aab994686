----------------------------- MODULE MCFrpTunnel -----------------------------
EXTENDS FrpTunnel, TLC

Perms == Permutations(Servers) \cup Permutations(Ports)
=============================================================================
