------------------------------- MODULE MCChat -------------------------------
(* Two requests at a time, one capability, one session.                    *)
EXTENDS Chat

CONSTANTS q1, q2, balance
=============================================================================
