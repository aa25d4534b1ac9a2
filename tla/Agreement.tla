------------------------------ MODULE Agreement ------------------------------
(***************************************************************************)
(* What a chat session promises to the person who types: proposals are     *)
(* made one after the other, and none is made twice.  The open one is      *)
(* withdrawn or agreed to.  What was agreed to is settled before anything  *)
(* else is proposed: it is given up only if it cannot be run in the store  *)
(* as it is when it is looked at, and otherwise started, once.             *)
(***************************************************************************)
CONSTANTS
  Proposals,   \* records with an id
  Stores,      \* what may be published
  Runnable,    \* for each store, the proposals that can be run in it
  None         \* no proposal

VARIABLES
  store,
  open,      \* the proposal that awaits an answer
  agreed,    \* the proposal that was agreed to and is not settled
  cleared,   \* it was found runnable
  made,      \* the ids of all that was proposed
  started    \* the ids of all that was started

vars == <<store, open, agreed, cleared, made, started>>

Init ==
  /\ store \in Stores
  /\ open = None /\ agreed = None /\ ~cleared
  /\ made = {} /\ started = {}

Publish ==
  /\ store' \in Stores
  /\ UNCHANGED <<open, agreed, cleared, made, started>>

Make(p) ==
  /\ open = None /\ agreed = None /\ p.id \notin made
  /\ open' = p /\ made' = made \cup {p.id}
  /\ UNCHANGED <<store, agreed, cleared, started>>

Withdraw ==
  /\ open # None
  /\ open' = None
  /\ UNCHANGED <<store, agreed, cleared, made, started>>

Agree ==
  /\ open # None /\ agreed = None
  /\ open' = None /\ agreed' = open
  /\ UNCHANGED <<store, cleared, made, started>>

Clear ==
  /\ agreed # None /\ ~cleared /\ agreed \in Runnable[store]
  /\ cleared'
  /\ UNCHANGED <<store, open, agreed, made, started>>

Start ==
  /\ agreed # None /\ cleared /\ agreed.id \notin started
  /\ agreed' = None /\ ~cleared' /\ started' = started \cup {agreed.id}
  /\ UNCHANGED <<store, open, made>>

GiveUp ==
  /\ agreed # None /\ ~cleared /\ agreed \notin Runnable[store]
  /\ agreed' = None
  /\ UNCHANGED <<store, open, cleared, made, started>>

Next ==
  \/ Publish \/ Withdraw \/ Agree \/ Clear \/ Start \/ GiveUp
  \/ \E p \in Proposals : Make(p)

Spec == Init /\ [][Next]_vars
=============================================================================
