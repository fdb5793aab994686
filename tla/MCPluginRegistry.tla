-------------------------- MODULE MCPluginRegistry --------------------------
(* An instance of PluginRegistry: only the first plugin receives events. *)
EXTENDS PluginRegistry

AllowFirst == [i \in Plugins |-> IF i = 1 THEN Types ELSE {}]
=============================================================================
