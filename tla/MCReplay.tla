------------------------------ MODULE MCReplay ------------------------------
(* Replay on small instances: the shape of MERIDIAN's outcome library, and *)
(* an artifact with a hand-authored pattern whose recovery is risky.       *)
EXTENDS Replay

CONSTANTS denial, dialog, maintenance, broken

MCOutcome ==
  [p \in Patterns |-> CASE p = denial -> "business_outcome"
                       [] p = broken -> "hard_failure"
                       [] OTHER      -> "recoverable"]

MCMaxRetries == [p \in Patterns |-> CASE p = dialog -> 2 [] p = maintenance -> 1 [] OTHER -> 0]

MCRecovery ==
  [p \in Patterns |-> CASE p = dialog      -> "risky"
                       [] p = maintenance -> "safe"
                       [] OTHER           -> "none"]

=============================================================================
