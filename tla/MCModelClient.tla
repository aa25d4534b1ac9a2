--------------------------- MODULE MCModelClient ---------------------------
(* Two threads, one call with two retries each, two slots in a window of   *)
(* three, and a chain that falls back from the paced provider.             *)
EXTENDS ModelClient

CONSTANTS c1, c2

MCConfigured == <<"openai", "nvidia">>
MCBackoff    == [a \in 0..MaxRetries |-> 2 ^ a]
=============================================================================
