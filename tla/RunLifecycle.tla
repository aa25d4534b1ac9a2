---------------------------- MODULE RunLifecycle ----------------------------
(***************************************************************************)
(* What the capability server promises about ONE run, whatever the threads *)
(* behind it do: the statuses a caller polling GET /runs/{run_id} may see  *)
(* in a row, and the handoff between the agent and a human.  The agent     *)
(* opens a gate (an escalation), one human answer closes it again, and the *)
(* agent may walk through a gate only once, and only if it was answered.   *)
(***************************************************************************)
EXTENDS Naturals

VARIABLES
  state,     \* what a caller sees of the run
  opened,    \* gates the agent has opened
  answered,  \* gates a human has answered
  passed     \* gates the agent has walked through

vars == <<state, opened, answered, passed>>

Active   == {"running", "escalated"}
Terminal == {"done", "error", "interrupted"}
State    == Active \cup Terminal \cup {"absent", "deleted"}

Init ==
  /\ state = "absent"
  /\ opened = 0
  /\ answered = 0
  /\ passed = 0

Start ==
  /\ state = "absent"
  /\ state' = "running"
  /\ UNCHANGED <<opened, answered, passed>>

(* A new gate only opens when every earlier one has been walked through.   *)
Open ==
  /\ state = "running"
  /\ opened = passed
  /\ state' = "escalated"
  /\ opened' = opened + 1
  /\ UNCHANGED <<answered, passed>>

Answer ==
  /\ state = "escalated"
  /\ answered < opened
  /\ state' = "running"
  /\ answered' = answered + 1
  /\ UNCHANGED <<opened, passed>>

Pass ==
  /\ state = "running"
  /\ passed < answered
  /\ passed' = passed + 1
  /\ UNCHANGED <<state, opened, answered>>

(* A run may end from either active status: an operator can give up on it  *)
(* while it waits for a human.                                             *)
Finish ==
  /\ state \in Active
  /\ state' \in Terminal
  /\ UNCHANGED <<opened, answered, passed>>

Delete ==
  /\ state \in Terminal
  /\ state' = "deleted"
  /\ UNCHANGED <<opened, answered, passed>>

Next == Start \/ Open \/ Answer \/ Pass \/ Finish \/ Delete

Spec == Init /\ [][Next]_vars
=============================================================================
