----------------------------- MODULE ChatProofs -----------------------------
(***************************************************************************)
(* What holds of a chat session for any number of concurrent requests and  *)
(* messages.                                                               *)
(*                                                                         *)
(* OneRunPerProposal is not inductive: it needs that whoever is about to   *)
(* start a proposal has it to itself.  That is the work of session.lock    *)
(* (Exclusive) and of clearing pending_action under it (Settling).  The    *)
(* same invariant makes each step one of Agreement, or none.  And what a   *)
(* run still has to load could be loaded when it was checked (Checked).    *)
(***************************************************************************)
EXTENDS Chat, TLAPS

USE DEF runs

-----------------------------------------------------------------------------
(* The inductive invariant                                                 *)

Inside == {"turn", "resolving", "thinking", "starting", "cleared"}

(* The requests inside a turn are the holder of the lock.                  *)
Exclusive == \A q \in Requests : pc[q] \in Inside <=> lock = q

(* No two requests serve the same message, and a message that is being     *)
(* served has not made its proposal.                                       *)
Numbered ==
  /\ \A q \in Requests : pc[q] # "idle" => number[q] \in 1 .. sent
  /\ \A q, r \in Requests :
       q # r /\ pc[q] # "idle" /\ pc[r] # "idle" => number[q] # number[r]
  /\ \A q \in Requests : pc[q] \in Inside \cup {"sent"} => fate[number[q]] = "none"
  /\ \A i \in Ids : i > sent => fate[i] = "none"

(* What a request has read of the pending action is still so, and what it  *)
(* is about to start has not been started.                                 *)
Settling ==
  \A q \in Requests :
    /\ pc[q] = "resolving" => held[q] = pending /\ pending # None
    /\ pc[q] = "thinking" => pending = None
    /\ pc[q] \in {"starting", "cleared"} =>
         /\ held[q] \in Proposal
         /\ fate[held[q].id] = "confirmed" /\ starts[held[q].id] = 0

(* What is cleared, or started and not loaded, was found runnable.         *)
Checked ==
  /\ \A q \in Requests : pc[q] = "cleared" => Loads(held[q], checked[held[q].id])
  /\ \A i \in Ids : run[i] # None =>
       run[i].id = i /\ starts[i] > 0 /\ Loads(run[i], checked[i])

IInv ==
  /\ TypeOK /\ Exclusive /\ Numbered /\ Settling /\ OneRunPerProposal /\ OpenIsPending
  /\ Checked

LEMMA InitIInv == Init => IInv
<1>. SUFFICES ASSUME Init PROVE IInv
  OBVIOUS
<1>. USE ChatAssumption
<1>1. TypeOK
  <2>1. /\ pc \in [Requests -> Pcs] /\ message \in [Requests -> Messages]
        /\ catalog \in [Requests -> [Capabilities -> States]]
        /\ held \in [Requests -> Proposal \cup {None}]
    BY DEF Init, Pcs, Messages, NoCatalog, States
  <2>2. /\ number \in [Requests -> 0 .. MaxMessages]
        /\ sent \in 0 .. MaxMessages
    BY DEF Init
  <2>3. /\ fate \in [Ids -> Fates] /\ starts \in [Ids -> Nat]
        /\ run \in [Ids -> Proposal \cup {None}] /\ checked \in [Ids -> States]
        /\ failed \subseteq Ids
    BY DEF Init, Fates, States
  <2>. QED BY <2>1, <2>2, <2>3 DEF Init, TypeOK
<1>2. Exclusive /\ Numbered /\ Settling /\ Checked
  BY DEF Init, Exclusive, Numbered, Settling, Checked, Inside, Ids
<1>3. OneRunPerProposal /\ OpenIsPending
  BY DEF Init, OneRunPerProposal, OpenIsPending, Ids
<1>. QED BY <1>1, <1>2, <1>3 DEF IInv

-----------------------------------------------------------------------------
(* Entering and leaving a turn                                             *)

(* The others stay where they are, outside.                                *)
Others(q) ==
  \A r \in Requests \ {q} :
    /\ pc[r] \notin Inside /\ pc'[r] = pc[r]
    /\ held'[r] = held[r] /\ number'[r] = number[r]

(* A request that holds the lock moves on in its turn.                     *)
LEMMA MovesOn ==
  ASSUME IInv, NEW q \in Requests, pc[q] \in Inside, NEW label \in Inside, Goto(q, label),
         held' \in [Requests -> Proposal \cup {None}],
         \A r \in Requests \ {q} : held'[r] = held[r],
         UNCHANGED <<number, lock>>
  PROVE  pc' \in [Requests -> Pcs] /\ pc'[q] = label /\ Exclusive' /\ Others(q)
<1>. USE DEF IInv, TypeOK
<1>1. pc' \in [Requests -> Pcs] /\ pc'[q] = label
  BY DEF Goto, Inside, Pcs
<1>2. \A r \in Requests \ {q} : pc[r] \notin Inside /\ pc'[r] = pc[r]
  BY DEF Goto, Exclusive
<1>3. Exclusive'
  BY <1>1, <1>2 DEF Exclusive
<1>. QED BY <1>1, <1>2, <1>3 DEF Others

(* A request that holds the lock leaves its turn, and nobody is inside.    *)
LEMMA MovesOut ==
  ASSUME IInv, NEW q \in Requests, pc[q] \in Inside, Leave(q), number' = number
  PROVE  /\ pc' \in [Requests -> Pcs] /\ pc'[q] = "replied"
         /\ message' \in [Requests -> Messages]
         /\ catalog' \in [Requests -> [Capabilities -> States]]
         /\ held' \in [Requests -> Proposal \cup {None}]
         /\ lock' \in Requests \cup {None}
         /\ Exclusive' /\ Others(q)
<1>. USE DEF IInv, TypeOK, Leave
<1>1. pc' \in [Requests -> Pcs] /\ pc'[q] = "replied"
  BY DEF Goto, Pcs
<1>2. \A r \in Requests \ {q} : pc[r] \notin Inside /\ pc'[r] = pc[r]
  BY DEF Goto, Exclusive
<1>3. Exclusive'
  BY <1>1, <1>2, ChatAssumption DEF Exclusive, Inside
<1>4. message' \in [Requests -> Messages] /\ catalog' \in [Requests -> [Capabilities -> States]]
  BY DEF Messages, NoCatalog, States
<1>5. held' \in [Requests -> Proposal \cup {None}]
      /\ \A r \in Requests \ {q} : held'[r] = held[r]
  OBVIOUS
<1>. QED BY <1>1, <1>2, <1>3, <1>4, <1>5 DEF Others

-----------------------------------------------------------------------------
(* The actions preserve the invariant                                      *)

LEMMA CheckedKept ==
  ASSUME IInv, UNCHANGED runs,
         \A r \in Requests : pc'[r] = "cleared" => pc[r] = "cleared" /\ held'[r] = held[r]
  PROVE  Checked'
BY DEF IInv, Checked

LEMMA SurroundingsIInv ==
  ASSUME IInv, NEW q \in Requests, User(q)
  PROVE  IInv'
<1>. USE ChatAssumption DEF IInv
<1>1. CASE \E m \in Messages : Send(q, m)
  <2>1. PICK m \in Messages : Send(q, m)
    BY <1>1
  <2>2. /\ pc' = [pc EXCEPT ![q] = "sent"] /\ number' = [number EXCEPT ![q] = sent + 1]
        /\ pc[q] = "idle" /\ sent' = sent + 1 /\ sent \in Nat /\ sent < MaxMessages
        /\ UNCHANGED <<held, lock, pending, fate, runs>>
    BY <2>1 DEF Send, Goto, TypeOK, session, history
  <2>3. TypeOK'
    BY <2>1, <2>2 DEF Send, TypeOK, Pcs, session, history
  <2>4. Exclusive'
    BY <2>2 DEF Exclusive, Inside, TypeOK
  <2>5. Numbered'
    <3>1. \A r \in Requests \ {q} :
            /\ pc'[r] = pc[r] /\ number'[r] = number[r]
            /\ pc[r] # "idle" => number[r] \in 1 .. sent
      BY <2>2 DEF TypeOK, Numbered
    <3>2. pc'[q] = "sent" /\ number'[q] = sent + 1 /\ sent + 1 \in Ids
      BY <2>2 DEF TypeOK, Ids, Numbered
    <3>3. fate[sent + 1] = "none"
      BY <3>2, <2>2 DEF Numbered
    <3>. QED BY <2>2, <3>1, <3>2, <3>3 DEF Numbered, Ids
  <2>6. Settling'
    BY <2>2 DEF Settling, TypeOK
  <2>7. OneRunPerProposal' /\ OpenIsPending'
    BY <2>2 DEF OneRunPerProposal, OpenIsPending
  <2>8. Checked'
    <3>1. \A r \in Requests : pc'[r] = "cleared" => pc[r] = "cleared" /\ held'[r] = held[r]
      BY <2>2 DEF TypeOK
    <3>. QED BY <2>2, <3>1, CheckedKept
  <2>. QED BY <2>3, <2>4, <2>5, <2>6, <2>7, <2>8
<1>2. CASE Reply(q)
  <2>1. /\ pc' = [pc EXCEPT ![q] = "idle"] /\ pc[q] = "replied"
        /\ number' = [number EXCEPT ![q] = 0]
        /\ UNCHANGED <<message, catalog, held, lock, site, pending, store, sent, fate, runs>>
    BY <1>2 DEF Reply, Goto, session, history
  <2>2. TypeOK'
    BY <2>1 DEF TypeOK, Pcs
  <2>3. Exclusive'
    BY <2>1 DEF Exclusive, Inside, TypeOK
  <2>4. Numbered'
    BY <2>1 DEF Numbered, Inside, TypeOK
  <2>5. Settling'
    BY <2>1 DEF Settling, TypeOK
  <2>6. OneRunPerProposal' /\ OpenIsPending'
    BY <2>1 DEF OneRunPerProposal, OpenIsPending
  <2>7. Checked'
    <3>1. \A r \in Requests : pc'[r] = "cleared" => pc[r] = "cleared" /\ held'[r] = held[r]
      BY <2>1 DEF TypeOK
    <3>. QED BY <2>1, <3>1, CheckedKept
  <2>. QED BY <2>2, <2>3, <2>4, <2>5, <2>6, <2>7
<1>. QED BY <1>1, <1>2 DEF User

LEMMA PublishIInv ==
  ASSUME IInv, NEW c \in Capabilities, NEW s \in States, Publish(c, s)
  PROVE  IInv'
<1>. USE DEF IInv, Publish, local, session, history
<1>1. TypeOK'
  BY DEF TypeOK
<1>2. Exclusive' /\ Numbered' /\ Settling'
  BY DEF Exclusive, Numbered, Settling
<1>3. OneRunPerProposal' /\ OpenIsPending'
  BY DEF OneRunPerProposal, OpenIsPending
<1>4. Checked'
  BY CheckedKept
<1>. QED BY <1>1, <1>2, <1>3, <1>4

(* Steps of a turn that settle nothing.                                    *)
LEMMA QuietIInv ==
  ASSUME IInv, NEW q \in Requests,
         \/ Acquire(q) \/ SelectSite(q) \/ ReadPending(q) \/ NormalTurn(q)
         \/ Talk(q) \/ ModelFails(q) \/ Refuse(q)
  PROVE  IInv'
<1>. USE ChatAssumption DEF IInv
<1>1. CASE Acquire(q)
  <2>1. /\ pc' = [pc EXCEPT ![q] = "turn"] /\ pc[q] = "sent" /\ lock = None /\ lock' = q
        /\ UNCHANGED <<message, held, number, site, pending, store, sent, fate, runs>>
    BY <1>1 DEF Acquire, TakesLock, Goto, history
  <2>2. TypeOK'
    BY <1>1, <2>1 DEF Acquire, TypeOK, Pcs
  <2>3. Exclusive'
    BY <2>1 DEF Exclusive, Inside, TypeOK
  <2>4. Numbered' /\ Settling'
    BY <2>1 DEF Numbered, Settling, Inside, TypeOK
  <2>5. OneRunPerProposal' /\ OpenIsPending'
    BY <2>1 DEF OneRunPerProposal, OpenIsPending
  <2>6. Checked'
    <3>1. \A r \in Requests : pc'[r] = "cleared" => pc[r] = "cleared" /\ held'[r] = held[r]
      BY <2>1 DEF TypeOK
    <3>. QED BY <2>1, <3>1, CheckedKept
  <2>. QED BY <2>2, <2>3, <2>4, <2>5, <2>6
<1>2. CASE ReadPending(q) \/ NormalTurn(q)
  <2>1. /\ pc[q] = "turn" /\ held' \in [Requests -> Proposal \cup {None}]
        /\ \A r \in Requests \ {q} : held'[r] = held[r]
        /\ \/ Goto(q, "resolving") /\ held'[q] = pending /\ pending # None
           \/ Goto(q, "thinking") /\ pending = None
        /\ UNCHANGED <<message, catalog, number, lock, site, pending, store, sent,
                       fate, runs>>
    BY <1>2 DEF ReadPending, NormalTurn, TypeOK, local, session, history
  <2>2. /\ pc' \in [Requests -> Pcs] /\ pc'[q] \in {"resolving", "thinking"}
        /\ pc'[q] = "resolving" => held'[q] = pending /\ pending # None
        /\ pc'[q] = "thinking" => pending = None
        /\ Exclusive' /\ Others(q)
    <3>1. CASE Goto(q, "resolving") /\ held'[q] = pending /\ pending # None
      BY <2>1, <3>1, MovesOn DEF Inside
    <3>2. CASE Goto(q, "thinking") /\ pending = None
      BY <2>1, <3>2, MovesOn DEF Inside
    <3>. QED BY <2>1, <3>1, <3>2
  <2>3. TypeOK'
    BY <2>1, <2>2 DEF TypeOK
  <2>4. Numbered'
    BY <2>1, <2>2 DEF Numbered, Others, Inside, TypeOK
  <2>5. Settling'
    BY <2>1, <2>2 DEF Settling, Others, Inside
  <2>6. OneRunPerProposal' /\ OpenIsPending'
    BY <2>1 DEF OneRunPerProposal, OpenIsPending
  <2>7. Checked'
    BY <2>1, <2>2, CheckedKept DEF Others, Inside
  <2>. QED BY <2>2, <2>3, <2>4, <2>5, <2>6, <2>7
<1>3. CASE SelectSite(q) \/ Talk(q) \/ ModelFails(q) \/ Refuse(q)
  <2>1. /\ pc[q] \in Inside /\ Leave(q) /\ site' \in BOOLEAN
        /\ UNCHANGED <<number, pending, store, sent, fate, runs>>
    BY <1>3 DEF SelectSite, Talk, ModelFails, CallsModel, Refuse, Inside, TypeOK, history
  <2>2. /\ pc' \in [Requests -> Pcs] /\ pc'[q] = "replied"
        /\ message' \in [Requests -> Messages]
        /\ catalog' \in [Requests -> [Capabilities -> States]]
        /\ held' \in [Requests -> Proposal \cup {None}]
        /\ lock' \in Requests \cup {None}
        /\ Exclusive' /\ Others(q)
    BY <2>1, MovesOut DEF TypeOK
  <2>3. TypeOK'
    BY <2>1, <2>2 DEF TypeOK
  <2>4. Numbered'
    BY <2>1, <2>2 DEF Numbered, Others, Inside, TypeOK
  <2>5. Settling'
    BY <2>1, <2>2 DEF Settling, Others, Inside
  <2>6. OneRunPerProposal' /\ OpenIsPending'
    BY <2>1 DEF OneRunPerProposal, OpenIsPending
  <2>7. Checked'
    BY <2>1, <2>2, CheckedKept DEF Others, Inside
  <2>. QED BY <2>2, <2>3, <2>4, <2>5, <2>6, <2>7
<1>. QED BY <1>1, <1>2, <1>3

(* The three answers to a proposal.                                        *)
LEMMA ResolveIInv ==
  ASSUME IInv, NEW q \in Requests, Confirm(q) \/ Cancel(q) \/ Amend(q)
  PROVE  IInv'
<1>. USE ChatAssumption DEF IInv
<1>. DEFINE p == held[q]
<1>1. /\ pc[q] = "resolving" /\ pending' = None /\ p = pending /\ p \in Proposal
      /\ p.id \in Ids /\ fate[p.id] = "open" /\ starts[p.id] = 0
  <2>1. pc[q] = "resolving" /\ pending' = None
    BY DEF Confirm, Cancel, Amend
  <2>2. p = pending /\ pending # None /\ p \in Proposal
    BY <2>1 DEF Settling, TypeOK
  <2>3. p.id \in Ids /\ fate[p.id] = "open"
    BY <2>2 DEF Proposal, OpenIsPending
  <2>4. starts[p.id] = 0
    <3>1. starts[p.id] \in Nat /\ starts[p.id] <= 0
      BY <2>3 DEF OneRunPerProposal, TypeOK
    <3>. QED BY <3>1
  <2>. QED BY <2>1, <2>2, <2>3, <2>4
<1>2. PICK what \in {"confirmed", "withdrawn"} :
        /\ fate' = [fate EXCEPT ![p.id] = what]
        /\ Confirm(q) => what = "confirmed"
        /\ UNCHANGED <<number, site, store, sent, runs>>
  BY DEF Confirm, Cancel, Amend, Becomes, local
<1>3. /\ pc' \in [Requests -> Pcs]
      /\ message' \in [Requests -> Messages]
      /\ catalog' \in [Requests -> [Capabilities -> States]]
      /\ held' \in [Requests -> Proposal \cup {None}]
      /\ lock' \in Requests \cup {None}
      /\ \/ pc'[q] = "starting" /\ held'[q] = p /\ what = "confirmed"
         \/ pc'[q] \in {"thinking", "replied"}
      /\ Exclusive' /\ Others(q)
  <2>1. CASE Confirm(q)
    <3>1. Goto(q, "starting") /\ UNCHANGED <<message, catalog, held, number, lock>>
      BY <2>1 DEF Confirm, local
    <3>2. pc' \in [Requests -> Pcs] /\ pc'[q] = "starting" /\ Exclusive' /\ Others(q)
      BY <1>1, <3>1, MovesOn DEF Inside, TypeOK
    <3>. QED BY <1>2, <2>1, <3>1, <3>2 DEF TypeOK
  <2>2. CASE Amend(q)
    <3>1. Goto(q, "thinking") /\ UNCHANGED <<message, catalog, held, number, lock>>
      BY <2>2 DEF Amend, local
    <3>2. pc' \in [Requests -> Pcs] /\ pc'[q] = "thinking" /\ Exclusive' /\ Others(q)
      BY <1>1, <3>1, MovesOn DEF Inside, TypeOK
    <3>. QED BY <3>1, <3>2 DEF TypeOK
  <2>3. CASE Cancel(q)
    <3>1. Leave(q)
      BY <2>3 DEF Cancel
    <3>. QED BY <1>1, <1>2, <3>1, MovesOut DEF Inside, TypeOK
  <2>. QED BY <2>1, <2>2, <2>3
<1>4. TypeOK'
  BY <1>1, <1>2, <1>3 DEF TypeOK, Fates
<1>5. Numbered'
  <2>1. \A r \in Requests : pc[r] \in Inside \cup {"sent"} => number[r] # p.id
    BY <1>1 DEF Numbered
  <2>2. pc[q] # "idle" /\ pc[q] \in Inside
    BY <1>1 DEF Inside
  <2>3. \A r \in Requests : pc'[r] \in Inside \cup {"sent"} => pc[r] \in Inside \cup {"sent"}
    BY <1>3, <2>2 DEF Others
  <2>4. \A r \in Requests : pc'[r] # "idle" => pc[r] # "idle"
    BY <1>3, <2>2 DEF Others
  <2>5. \A r \in Requests : pc'[r] \in Inside \cup {"sent"} => fate'[number[r]] = "none"
    BY <1>2, <2>1, <2>3 DEF Numbered, TypeOK
  <2>6. \A i \in Ids : i > sent => fate'[i] = "none"
    BY <1>1, <1>2 DEF Numbered, TypeOK
  <2>. QED BY <1>2, <2>4, <2>5, <2>6 DEF Numbered
<1>6. Settling'
  BY <1>1, <1>2, <1>3 DEF Settling, Others, Inside, TypeOK
<1>7. OneRunPerProposal'
  BY <1>1, <1>2 DEF OneRunPerProposal, TypeOK
<1>8. OpenIsPending'
  BY <1>1, <1>2 DEF OpenIsPending, TypeOK
<1>9. Checked'
  BY <1>2, <1>3, CheckedKept DEF Others, Inside
<1>. QED BY <1>3, <1>4, <1>5, <1>6, <1>7, <1>8, <1>9

LEMMA ProposeIInv ==
  ASSUME IInv, NEW q \in Requests, pc[q] = "thinking", NEW kind \in {"invoke", "discover"},
         NEW c \in Capabilities, NEW params \in Params, Propose(q, kind, c, params)
  PROVE  IInv'
<1>. USE ChatAssumption DEF IInv
<1>. DEFINE n == number[q]
<1>1. n \in Ids /\ n \in 1 .. sent /\ fate[n] = "none" /\ pending = None
  BY DEF Numbered, Settling, Inside, TypeOK, Ids
<1>2. pending' \in Proposal /\ pending' # None /\ pending'.id = n
  BY <1>1 DEF Propose, Proposal
<1>3. /\ fate' = [fate EXCEPT ![n] = "open"] /\ Leave(q)
      /\ UNCHANGED <<number, site, store, sent, runs>>
  BY DEF Propose
<1>4. /\ pc' \in [Requests -> Pcs] /\ pc'[q] = "replied"
      /\ message' \in [Requests -> Messages]
      /\ catalog' \in [Requests -> [Capabilities -> States]]
      /\ held' \in [Requests -> Proposal \cup {None}]
      /\ lock' \in Requests \cup {None}
      /\ Exclusive'
  BY <1>3, MovesOut DEF Inside
<1>5. \A r \in Requests \ {q} : pc[r] \notin Inside /\ pc'[r] = pc[r]
  BY <1>3 DEF Leave, Goto, Exclusive, Inside, TypeOK
<1>6. TypeOK'
  BY <1>2, <1>3, <1>4 DEF TypeOK, Fates
<1>7. Numbered'
  <2>1. \A r \in Requests \ {q} : pc[r] # "idle" => number[r] # n
    BY DEF Numbered
  <2>2. \A r \in Requests : pc'[r] \in Inside \cup {"sent"} => fate'[number[r]] = "none"
    BY <1>3, <1>4, <1>5, <2>1 DEF Numbered, Inside, TypeOK
  <2>3. \A r \in Requests : pc'[r] # "idle" => pc[r] # "idle"
    BY <1>5
  <2>4. \A i \in Ids : i > sent => fate'[i] = "none"
    BY <1>1, <1>3 DEF Numbered, TypeOK, Ids
  <2>. QED BY <1>3, <2>2, <2>3, <2>4 DEF Numbered
<1>8. Settling'
  BY <1>4, <1>5 DEF Settling, Inside
<1>9. OneRunPerProposal'
  BY <1>1, <1>3 DEF OneRunPerProposal, TypeOK
<1>10. OpenIsPending'
  BY <1>1, <1>2, <1>3 DEF OpenIsPending, TypeOK
<1>11. Checked'
  BY <1>3, <1>4, <1>5, CheckedKept DEF Inside
<1>. QED BY <1>4, <1>6, <1>7, <1>8, <1>9, <1>10, <1>11

LEMMA StartIInv ==
  ASSUME IInv, NEW q \in Requests, Start(q)
  PROVE  IInv'
<1>. USE ChatAssumption DEF IInv
<1>. DEFINE p == held[q]
<1>1. /\ pc[q] = "cleared" /\ p \in Proposal /\ p.id \in Ids
      /\ fate[p.id] = "confirmed" /\ starts[p.id] = 0 /\ Loads(p, checked[p.id])
  BY DEF Start, Settling, Checked, Proposal
<1>2. /\ starts' = [starts EXCEPT ![p.id] = starts[p.id] + 1] /\ Leave(q)
      /\ run' = [run EXCEPT ![p.id] = p]
      /\ UNCHANGED <<number, site, pending, store, sent, fate, checked, failed>>
  BY DEF Start
<1>3. /\ pc' \in [Requests -> Pcs] /\ pc'[q] = "replied"
      /\ message' \in [Requests -> Messages]
      /\ catalog' \in [Requests -> [Capabilities -> States]]
      /\ held' \in [Requests -> Proposal \cup {None}]
      /\ lock' \in Requests \cup {None}
      /\ Exclusive' /\ Others(q)
  BY <1>1, <1>2, MovesOut DEF Inside, TypeOK
<1>4. TypeOK'
  BY <1>1, <1>2, <1>3 DEF TypeOK
<1>5. Numbered'
  <2>1. \A r \in Requests : pc'[r] # "idle" => pc[r] # "idle"
    BY <1>1, <1>3 DEF Others
  <2>2. \A r \in Requests : pc'[r] \in Inside \cup {"sent"} => pc[r] \in Inside \cup {"sent"}
    BY <1>3 DEF Others, Inside
  <2>. QED BY <1>2, <2>1, <2>2 DEF Numbered
<1>6. Settling'
  BY <1>1, <1>2, <1>3 DEF Settling, Others, Inside
<1>7. OneRunPerProposal'
  BY <1>1, <1>2 DEF OneRunPerProposal, TypeOK
<1>8. OpenIsPending'
  BY <1>2 DEF OpenIsPending
<1>9. Checked'
  <2>1. \A r \in Requests : pc'[r] # "cleared"
    BY <1>3 DEF Others, Inside
  <2>2. \A i \in Ids : run'[i] # None =>
          run'[i].id = i /\ starts'[i] > 0 /\ Loads(run'[i], checked'[i])
    BY <1>1, <1>2 DEF Checked, TypeOK
  <2>. QED BY <2>1, <2>2 DEF Checked
<1>. QED BY <1>3, <1>4, <1>5, <1>6, <1>7, <1>8, <1>9

LEMMA CheckIInv ==
  ASSUME IInv, NEW q \in Requests, Check(q)
  PROVE  IInv'
<1>. USE ChatAssumption DEF IInv
<1>. DEFINE p == held[q]
<1>1. /\ pc[q] = "starting" /\ p \in Proposal /\ p.id \in Ids
      /\ fate[p.id] = "confirmed" /\ starts[p.id] = 0 /\ Loads(p, store[p.capability])
  BY DEF Check, Startable, Settling, Proposal
<1>2. /\ checked' = [checked EXCEPT ![p.id] = store[p.capability]] /\ Goto(q, "cleared")
      /\ UNCHANGED <<message, catalog, held, number, lock, site, pending, store, sent, fate,
                     starts, run, failed>>
  BY DEF Check, local, session
<1>3. pc' \in [Requests -> Pcs] /\ pc'[q] = "cleared" /\ Exclusive' /\ Others(q)
  BY <1>1, <1>2, MovesOn DEF Inside, TypeOK
<1>4. TypeOK'
  <2>1. store[p.capability] \in States
    BY <1>1 DEF Proposal, TypeOK
  <2>. QED BY <1>2, <1>3, <2>1 DEF TypeOK
<1>5. Numbered'
  BY <1>1, <1>2, <1>3 DEF Numbered, Others, Inside, TypeOK
<1>6. Settling'
  BY <1>1, <1>2, <1>3 DEF Settling, Others, Inside
<1>7. OneRunPerProposal' /\ OpenIsPending'
  BY <1>2 DEF OneRunPerProposal, OpenIsPending
<1>8. Checked'
  <2>1. \A r \in Requests : pc'[r] = "cleared" => r = q
    BY <1>3 DEF Others, Inside
  <2>2. checked'[p.id] = store[p.capability]
    BY <1>1, <1>2 DEF TypeOK
  <2>3. \A i \in Ids : run[i] # None => i # p.id
    BY <1>1 DEF Checked
  <2>. QED BY <1>1, <1>2, <2>1, <2>2, <2>3 DEF Checked, TypeOK
<1>. QED BY <1>3, <1>4, <1>5, <1>6, <1>7, <1>8

(* The thread of a run loads its capability.                               *)
LEMMA LoadIInv ==
  ASSUME IInv, NEW i \in Ids, Load(i)
  PROVE  IInv'
<1>. USE DEF IInv
<1>1. /\ run[i] # None /\ run' = [run EXCEPT ![i] = None]
      /\ checked' = [checked EXCEPT ![i] = "absent"] /\ failed' \in {failed, failed \cup {i}}
      /\ UNCHANGED <<pc, message, catalog, held, number, lock, site, pending, store, sent, fate,
                     starts>>
  BY DEF Load, local, session
<1>2. TypeOK'
  BY <1>1 DEF TypeOK, States
<1>3. Exclusive' /\ Numbered' /\ Settling'
  BY <1>1 DEF Exclusive, Numbered, Settling
<1>4. OneRunPerProposal' /\ OpenIsPending'
  BY <1>1 DEF OneRunPerProposal, OpenIsPending
<1>5. Checked'
  <2>1. ASSUME NEW q \in Requests, pc[q] = "cleared" PROVE held[q].id \in Ids \ {i}
    <3>1. held[q].id \in Ids /\ starts[held[q].id] = 0
      BY <2>1 DEF Settling, Proposal
    <3>2. starts[i] > 0
      BY <1>1 DEF Checked
    <3>. QED BY <3>1, <3>2
  <2>2. \A q \in Requests : pc'[q] = "cleared" => Loads(held'[q], checked'[held'[q].id])
    BY <1>1, <2>1 DEF Checked, TypeOK
  <2>3. \A j \in Ids : run'[j] # None =>
          run'[j].id = j /\ starts'[j] > 0 /\ Loads(run'[j], checked'[j])
    BY <1>1 DEF Checked, TypeOK
  <2>. QED BY <2>2, <2>3 DEF Checked
<1>. QED BY <1>2, <1>3, <1>4, <1>5

LEMMA NextIInv ==
  ASSUME IInv, [Next]_vars
  PROVE  IInv'
<1>1. ASSUME NEW q \in Requests, Turn(q)
      PROVE  IInv'
  <2>1. CASE \/ Acquire(q) \/ SelectSite(q) \/ ReadPending(q) \/ NormalTurn(q)
             \/ Talk(q) \/ ModelFails(q) \/ Refuse(q)
    BY <2>1, QuietIInv
  <2>2. CASE Confirm(q) \/ Cancel(q) \/ Amend(q)
    BY <2>2, ResolveIInv
  <2>3. ASSUME NEW c \in Capabilities, ProposeDiscovery(q, c)
        PROVE  IInv'
    BY <2>3, ProposeIInv DEF ProposeDiscovery, Params
  <2>4. ASSUME NEW c \in Capabilities, NEW p \in Params, ProposeInvoke(q, c, p)
        PROVE  IInv'
    BY <2>4, ProposeIInv DEF ProposeInvoke
  <2>5. CASE Check(q) \/ Start(q)
    BY <2>5, CheckIInv, StartIInv
  <2>. QED BY <1>1, <2>1, <2>2, <2>3, <2>4, <2>5 DEF Turn
<1>2. ASSUME NEW q \in Requests, User(q)
      PROVE  IInv'
  BY <1>2, SurroundingsIInv
<1>3. ASSUME NEW c \in Capabilities, NEW s \in States, Publish(c, s)
      PROVE  IInv'
  BY <1>3, PublishIInv
<1>4. CASE UNCHANGED vars
  BY <1>4 DEF vars, IInv, TypeOK, Exclusive, Numbered, Settling, OneRunPerProposal,
              OpenIsPending, Checked
<1>5. ASSUME NEW i \in Ids, Load(i)
      PROVE  IInv'
  BY <1>5, LoadIInv
<1>. QED BY <1>1, <1>2, <1>3, <1>4, <1>5 DEF Next

THEOREM Invariance == Spec => []IInv
<1>1. Init => IInv
  BY InitIInv
<1>2. IInv /\ [Next]_vars => IInv'
  BY NextIInv
<1>. QED BY <1>1, <1>2, PTL DEF Spec

-----------------------------------------------------------------------------
(* What follows                                                            *)

(* Every variable of the session keeps its type.                           *)
THEOREM TypeCorrect == Spec => []TypeOK
<1>1. IInv => TypeOK
  BY DEF IInv
<1>. QED BY <1>1, Invariance, PTL

(* However many requests overlap, a proposal starts at most one run, and   *)
(* only when it was agreed to.                                             *)
THEOREM OneRun == Spec => []OneRunPerProposal
<1>1. IInv => OneRunPerProposal
  BY DEF IInv
<1>. QED BY <1>1, Invariance, PTL

(* The open proposal is the pending action, and there is no other.         *)
THEOREM Accounted == Spec => []OpenIsPending
<1>1. IInv => OpenIsPending
  BY DEF IInv
<1>. QED BY <1>1, Invariance, PTL

(* Only the load of a run makes it fail.                                   *)
LEMMA FailsAsItLoads ==
  ASSUME IInv, [Next]_vars, NEW i \in Ids, i \in failed' \ failed
  PROVE  Load(i)
<1>1. ASSUME NEW q \in Requests, Turn(q)
      PROVE  failed' = failed
  BY <1>1 DEF Turn, Acquire, SelectSite, ReadPending, NormalTurn, Confirm, Cancel, Amend, Talk,
              ModelFails, ProposeDiscovery, ProposeInvoke, Propose, Check, Refuse, Start, history
<1>2. ASSUME NEW q \in Requests, User(q)
      PROVE  failed' = failed
  BY <1>2 DEF User, Send, Reply, history
<1>3. ASSUME NEW c \in Capabilities, NEW s \in States, Publish(c, s)
      PROVE  failed' = failed
  BY <1>3 DEF Publish, history
<1>4. CASE UNCHANGED vars
  BY <1>4 DEF vars
<1>5. ASSUME NEW j \in Ids, Load(j)
      PROVE  Load(i)
  BY <1>5 DEF Load
<1>. QED BY <1>1, <1>2, <1>3, <1>4, <1>5 DEF Next

(* A run that the user was told of fails to load its capability only when  *)
(* what is live was changed after the last check of its request, for any   *)
(* number of requests, proposals and edits in between.                     *)
THEOREM OvertakenOnly == Spec => FailsOnlyWhenOvertaken
<1>1. ASSUME IInv, [Next]_vars
      PROVE  [\A i \in Ids :
                i \in failed' \ failed => store[run[i].capability] # checked[i]]_vars
  <2>. SUFFICES ASSUME NEW i \in Ids, i \in failed' \ failed
                PROVE  store[run[i].capability] # checked[i]
    OBVIOUS
  <2>1. Load(i)
    BY <1>1, FailsAsItLoads
  <2>2. run[i] # None /\ ~Loads(run[i], store[run[i].capability])
    BY <2>1 DEF Load
  <2>3. Loads(run[i], checked[i])
    BY <1>1, <2>2 DEF IInv, Checked
  <2>. QED BY <2>2, <2>3
<1>. QED BY <1>1, Invariance, PTL DEF Spec, FailsOnlyWhenOvertaken

-----------------------------------------------------------------------------
(* The threads keep to the agreement                                       *)

Made    == {i \in Ids : fate[i] # "none"}
Started == {i \in Ids : starts[i] > 0}
Cleared == lock # None /\ pc[lock] = "cleared"

(* What is under way is what the one request inside a turn is starting.    *)
LEMMA UnderWayInside ==
  ASSUME IInv, NEW q \in Requests, pc[q] \in Inside
  PROVE  /\ underWay = IF pc[q] \in {"starting", "cleared"} THEN held[q] ELSE None
         /\ Cleared <=> pc[q] = "cleared"
BY ChatAssumption DEF IInv, Exclusive, underWay, Cleared

(* A step that settles nothing changes nothing that the user was promised. *)
LEMMA QuietAgreement ==
  ASSUME IInv, UNCHANGED <<store, pending, fate, starts>>, underWay' = underWay,
         Cleared' <=> Cleared
  PROVE  UNCHANGED Agreed!vars
<1>1. Cleared \in BOOLEAN /\ Cleared' \in BOOLEAN
  BY DEF Cleared
<1>2. Cleared' = Cleared
  BY <1>1
<1>. QED BY <1>2 DEF Agreed!vars, Cleared

(* Messages come in and replies go out, the site is chosen, a turn begins  *)
(* or ends without a proposal.                                             *)
LEMMA TalkAgreement ==
  ASSUME IInv, NEW q \in Requests,
         \/ User(q) \/ Acquire(q) \/ SelectSite(q) \/ ReadPending(q) \/ NormalTurn(q)
         \/ Talk(q) \/ ModelFails(q)
  PROVE  UNCHANGED Agreed!vars
<1>. USE DEF IInv, TypeOK
<1>1. UNCHANGED <<store, pending, fate, runs>>
  BY DEF User, Send, Reply, Acquire, SelectSite, ReadPending, NormalTurn, Talk, ModelFails,
         local, session, history
<1>2. CASE User(q)
  <2>1. PICK label \in {"sent", "idle"} : Goto(q, label)
    BY <1>2 DEF User, Send, Reply
  <2>2. pc[q] \notin {"starting", "cleared"} /\ UNCHANGED <<held, lock>>
    BY <1>2 DEF User, Send, Reply, session, local
  <2>3. underWay' = underWay /\ (Cleared' <=> Cleared)
    BY <2>1, <2>2 DEF underWay, Cleared, Goto
  <2>. QED BY <1>1, <2>3, QuietAgreement
<1>3. CASE Acquire(q)
  <2>1. underWay = None /\ ~Cleared /\ pc'[q] = "turn" /\ lock' = q
    BY <1>3 DEF Acquire, TakesLock, Goto, underWay, Cleared
  <2>2. underWay' = None /\ ~Cleared'
    BY <2>1 DEF underWay, Cleared
  <2>. QED BY <1>1, <2>1, <2>2, QuietAgreement
<1>4. CASE SelectSite(q) \/ ReadPending(q) \/ NormalTurn(q) \/ Talk(q) \/ ModelFails(q)
  <2>1. pc[q] \in Inside /\ pc[q] \notin {"starting", "cleared"}
    BY <1>4 DEF SelectSite, ReadPending, NormalTurn, Talk, ModelFails, CallsModel, Inside
  <2>2. underWay = None /\ ~Cleared
    BY <2>1, UnderWayInside
  <2>3. lock = q
    BY <2>1 DEF Exclusive
  <2>4. \/ lock' = None
        \/ lock' = lock /\ pc'[q] \in {"resolving", "thinking"}
    BY <1>4 DEF SelectSite, ReadPending, NormalTurn, Talk, ModelFails, Leave, Goto, local, session
  <2>5. underWay' = None /\ ~Cleared'
    BY <2>3, <2>4 DEF underWay, Cleared
  <2>. QED BY <1>1, <2>2, <2>5, QuietAgreement
<1>. QED BY <1>2, <1>3, <1>4

(* A yes is an agreement to the open proposal, and to no other; a no or a  *)
(* new request withdraws it.                                               *)
LEMMA ResolveAgreement ==
  ASSUME IInv, NEW q \in Requests, Confirm(q) \/ Cancel(q) \/ Amend(q)
  PROVE  Agreed!Agree \/ Agreed!Withdraw
<1>. USE DEF IInv, TypeOK
<1>1. /\ pc[q] = "resolving" /\ pending' = None /\ held[q] = pending /\ pending # None
      /\ UNCHANGED <<store, starts>>
  BY DEF Confirm, Cancel, Amend, Settling
<1>2. underWay = None /\ ~Cleared /\ lock = q
  BY <1>1, UnderWayInside DEF Inside, Exclusive
<1>3. pending.id \in Ids /\ fate[pending.id] = "open"
  BY <1>1 DEF Proposal, OpenIsPending
<1>4. Made' = Made /\ Started' = Started
  <2>1. PICK what \in {"confirmed", "withdrawn"} : fate' = [fate EXCEPT ![pending.id] = what]
    BY <1>1 DEF Confirm, Cancel, Amend, Becomes
  <2>2. \A i \in Ids : fate'[i] # "none" <=> fate[i] # "none"
    BY <1>3, <2>1
  <2>. QED BY <1>1, <2>2 DEF Made, Started
<1>5. CASE Confirm(q)
  <2>1. pc'[q] = "starting" /\ UNCHANGED <<held, lock>>
    BY <1>5 DEF Confirm, Goto, local
  <2>2. underWay' = pending /\ ~Cleared'
    BY <1>1, <1>2, <2>1, ChatAssumption DEF underWay, Cleared
  <2>3. UNCHANGED Cleared
    BY <1>2, <2>2 DEF Cleared
  <2>. QED BY <1>1, <1>2, <1>4, <2>2, <2>3 DEF Agreed!Agree, Made, Started, Cleared
<1>6. CASE Cancel(q) \/ Amend(q)
  <2>1. lock' = None \/ (lock' = lock /\ pc'[q] = "thinking")
    BY <1>6 DEF Cancel, Amend, Leave, Goto
  <2>2. underWay' = None /\ ~Cleared'
    BY <1>2, <2>1 DEF underWay, Cleared
  <2>3. UNCHANGED Cleared
    BY <1>2, <2>2 DEF Cleared
  <2>. QED BY <1>1, <1>2, <1>4, <2>2, <2>3 DEF Agreed!Withdraw, Made, Started, Cleared
<1>. QED BY <1>5, <1>6

(* A proposal is made when none is open, with the number of its message.   *)
LEMMA ProposeAgreement ==
  ASSUME IInv, NEW q \in Requests, pc[q] = "thinking", NEW kind \in {"invoke", "discover"},
         NEW c \in Capabilities, NEW params \in Params, Propose(q, kind, c, params)
  PROVE  \E p \in Proposal : Agreed!Make(p)
<1>. USE DEF IInv, TypeOK
<1>. DEFINE n == number[q]
            p == [id |-> n, kind |-> kind, capability |-> c, params |-> params]
<1>1. n \in Ids /\ fate[n] = "none" /\ pending = None
  BY ChatAssumption DEF Numbered, Settling, Inside, Ids
<1>2. p \in Proposal /\ p.id = n
  BY <1>1 DEF Proposal
<1>3. underWay = None /\ ~Cleared
  BY UnderWayInside DEF Inside
<1>4. /\ pending' = p /\ fate' = [fate EXCEPT ![n] = "open"] /\ lock' = None
      /\ UNCHANGED <<store, starts>>
  BY DEF Propose, Leave
<1>5. underWay' = None /\ ~Cleared'
  BY <1>4 DEF underWay, Cleared
<1>6. UNCHANGED Cleared
  BY <1>3, <1>5 DEF Cleared
<1>7. n \notin Made /\ Made' = Made \cup {n} /\ Started' = Started
  BY <1>1, <1>4 DEF Made, Started
<1>8. Agreed!Make(p)
  BY <1>1, <1>2, <1>3, <1>4, <1>5, <1>6, <1>7 DEF Agreed!Make, Made, Started, Cleared
<1>. HIDE DEF p
<1>. QED BY <1>2, <1>8 DEF Agreed!Make

(* What can be run of a store is what the check before the start lets by.  *)
LEMMA RunnableIsStartable ==
  ASSUME TypeOK, NEW q \in Requests, held[q] \in Proposal
  PROVE  held[q] \in Runnable[store] <=> Startable(q)
BY DEF TypeOK, Runnable, Startable, Proposal

(* What was agreed to is looked at, and given up if it cannot be run.      *)
LEMMA CheckAgreement ==
  ASSUME IInv, NEW q \in Requests, Check(q) \/ Refuse(q)
  PROVE  Agreed!Clear \/ Agreed!GiveUp
<1>. USE DEF IInv, TypeOK
<1>. DEFINE p == held[q]
<1>1. pc[q] = "starting" /\ UNCHANGED <<store, pending, fate, starts>> /\ p \in Proposal
  BY DEF Check, Refuse, Settling, session, history
<1>2. underWay = p /\ p # None /\ ~Cleared /\ lock = q
  BY <1>1, UnderWayInside, ChatAssumption DEF Inside, Exclusive
<1>3. Made' = Made /\ Started' = Started
  BY <1>1 DEF Made, Started
<1>4. p \in Runnable[store] <=> Startable(q)
  BY <1>1, RunnableIsStartable
<1>5. CASE Check(q)
  <2>1. pc'[q] = "cleared" /\ UNCHANGED <<held, lock>> /\ Startable(q)
    BY <1>5 DEF Check, Goto, local, session
  <2>2. underWay' = p /\ Cleared'
    BY <1>2, <2>1, ChatAssumption DEF underWay, Cleared
  <2>. QED BY <1>1, <1>2, <1>3, <1>4, <2>1, <2>2 DEF Agreed!Clear, Made, Started, Cleared
<1>6. CASE Refuse(q)
  <2>1. lock' = None /\ ~Startable(q)
    BY <1>6 DEF Refuse, Leave
  <2>2. underWay' = None /\ ~Cleared'
    BY <2>1 DEF underWay, Cleared
  <2>3. UNCHANGED Cleared
    BY <1>2, <2>2 DEF Cleared
  <2>. QED BY <1>1, <1>2, <1>3, <1>4, <2>1, <2>2, <2>3
           DEF Agreed!GiveUp, Made, Started, Cleared
<1>. QED BY <1>5, <1>6

(* What was found runnable is started, for the first time.                 *)
LEMMA StartAgreement ==
  ASSUME IInv, NEW q \in Requests, Start(q)
  PROVE  Agreed!Start
<1>. USE DEF IInv, TypeOK
<1>. DEFINE p == held[q]
<1>1. /\ pc[q] = "cleared" /\ lock' = None /\ UNCHANGED <<store, pending, fate>>
      /\ p \in Proposal /\ starts[p.id] = 0
  BY DEF Start, Leave, Settling
<1>2. underWay = p /\ Cleared /\ p # None /\ p.id \in Ids
  BY <1>1, UnderWayInside, ChatAssumption DEF Inside, Proposal
<1>3. underWay' = None /\ ~Cleared'
  BY <1>1 DEF underWay, Cleared
<1>4. Made' = Made /\ p.id \notin Started
  BY <1>1 DEF Made, Started
<1>5. starts' = [starts EXCEPT ![p.id] = starts[p.id] + 1]
  BY DEF Start
<1>6. Started' = Started \cup {p.id}
  BY <1>1, <1>2, <1>5 DEF Started
<1>. QED BY <1>1, <1>2, <1>3, <1>4, <1>6 DEF Agreed!Start, Made, Started, Cleared

(* What becomes of a run in its own thread is no part of the agreement.    *)
LEMMA LoadAgreement ==
  ASSUME IInv, NEW i \in Ids, Load(i)
  PROVE  UNCHANGED Agreed!vars
<1>1. UNCHANGED <<store, pending, fate, starts, pc, held, lock>>
  BY DEF Load, local, session
<1>2. underWay' = underWay /\ (Cleared' <=> Cleared)
  BY <1>1 DEF underWay, Cleared
<1>. QED BY <1>1, <1>2, QuietAgreement

LEMMA PublishAgreement ==
  ASSUME IInv, NEW c \in Capabilities, NEW s \in States, Publish(c, s)
  PROVE  Agreed!Publish
<1>1. store' \in [Capabilities -> States]
  BY DEF Publish, IInv, TypeOK
<1>2. UNCHANGED <<pending, underWay, Cleared, Made, Started>>
  BY DEF Publish, local, session, history, underWay, Cleared, Made, Started
<1>. QED BY <1>1, <1>2 DEF Agreed!Publish, Made, Started, Cleared

LEMMA InitAgreement == Init => Agreed!Init
<1>. SUFFICES ASSUME Init PROVE Agreed!Init
  OBVIOUS
<1>1. Made = {} /\ Started = {}
  BY DEF Init, Made, Started
<1>2. store \in [Capabilities -> States] /\ pending = None /\ underWay = None /\ ~Cleared
  BY DEF Init, underWay, Cleared
<1>. QED BY <1>1, <1>2 DEF Agreed!Init, Made, Started, Cleared

LEMMA NextAgreement ==
  ASSUME IInv, [Next]_vars
  PROVE  [Agreed!Next]_(Agreed!vars)
<1>1. ASSUME NEW q \in Requests, Turn(q) \/ User(q)
      PROVE  [Agreed!Next]_(Agreed!vars)
  <2>1. CASE \/ User(q) \/ Acquire(q) \/ SelectSite(q) \/ ReadPending(q) \/ NormalTurn(q)
             \/ Talk(q) \/ ModelFails(q)
    BY <2>1, TalkAgreement
  <2>2. CASE Confirm(q) \/ Cancel(q) \/ Amend(q)
    BY <2>2, ResolveAgreement DEF Agreed!Next
  <2>3. ASSUME NEW c \in Capabilities, ProposeDiscovery(q, c)
        PROVE  Agreed!Next
    BY <2>3, ProposeAgreement DEF ProposeDiscovery, Params, Agreed!Next
  <2>4. ASSUME NEW c \in Capabilities, NEW p \in Params, ProposeInvoke(q, c, p)
        PROVE  Agreed!Next
    BY <2>4, ProposeAgreement DEF ProposeInvoke, Agreed!Next
  <2>5. CASE Check(q) \/ Refuse(q) \/ Start(q)
    BY <2>5, CheckAgreement, StartAgreement DEF Agreed!Next
  <2>. QED BY <1>1, <2>1, <2>2, <2>3, <2>4, <2>5 DEF Turn
<1>2. ASSUME NEW c \in Capabilities, NEW s \in States, Publish(c, s)
      PROVE  Agreed!Next
  BY <1>2, PublishAgreement DEF Agreed!Next
<1>3. CASE UNCHANGED vars
  <2>1. UNCHANGED <<store, pending, fate, starts, underWay>> /\ (Cleared' <=> Cleared)
    BY <1>3 DEF vars, underWay, Cleared
  <2>. QED BY <2>1, QuietAgreement
<1>4. ASSUME NEW i \in Ids, Load(i)
      PROVE  UNCHANGED Agreed!vars
  BY <1>4, LoadAgreement
<1>. QED BY <1>1, <1>2, <1>3, <1>4 DEF Next

(* The threads of a session, with its lock and its pending action, do for  *)
(* the user what Agreement says, however many messages overlap.            *)
THEOREM AgreementImplemented == Spec => ImplementsAgreement
<1>1. Init => Agreed!Init
  BY InitAgreement
<1>2. IInv /\ [Next]_vars => [Agreed!Next]_(Agreed!vars)
  BY NextAgreement
<1>. QED BY <1>1, <1>2, Invariance, PTL DEF Spec, ImplementsAgreement, Agreed!Spec
=============================================================================
