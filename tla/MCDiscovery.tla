---------------------------- MODULE MCDiscovery ----------------------------
(* Discovery with one control of each kind that the agent tells apart.     *)
EXTENDS Discovery

CONSTANTS commit, read
=============================================================================
