----------------------------- MODULE MCNodeSetup -----------------------------
EXTENDS NodeSetup, TLC

\* A new data directory, one of the first oikos, and one of an oikos before the plugin
\* columns.
MCLegacy == {{}, {"base"}, Pieces \ {"plugin_columns"}}

Perms == Permutations(Procs) \cup Permutations(Tokens) \cup Permutations(Panels)
=============================================================================
