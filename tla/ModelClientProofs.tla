------------------------- MODULE ModelClientProofs -------------------------
(***************************************************************************)
(* The sliding window holds for any number of threads, any limit and any   *)
(* window.                                                                 *)
(*                                                                         *)
(* WindowNeverExceeded counts and is not inductive; Spaced, from which it  *)
(* follows, does not count.  Why that holds: a slot is handed out when     *)
(* fewer than MaxRequests are in the deque, so that the slot MaxRequests   *)
(* before it has left the deque, and a slot leaves the deque when it is a  *)
(* window old (Dropped).  The time of the new slot is not older than that, *)
(* for it was read under the lock (Exclusive, Read).                       *)
(***************************************************************************)
EXTENDS ModelClient, FiniteSetTheorems, WellFoundedInduction, TLAPS

(* Whoever is between reading the time and leaving the lock holds it.      *)
Exclusive == \A c \in Threads : pc[c] \in {"look", "grant"} <=> lock = c

(* The time last read is not before any slot.                              *)
Read == now <= clock /\ \A i \in DOMAIN slots : slots[i] <= now

Dropped == \A i \in 1..dropped : now - slots[i] >= Window

(* The deque is not overfull, and there is room for a slot to be granted.  *)
Room ==
  /\ InDeque <= MaxRequests
  /\ \A c \in Threads : pc[c] = "grant" => InDeque < MaxRequests

(* Slots are in order, and two that are MaxRequests apart are a window     *)
(* apart.                                                                  *)
Spaced ==
  /\ \A i, j \in DOMAIN slots : i < j => slots[i] <= slots[j]
  /\ \A i \in DOMAIN slots :
       i + MaxRequests \in DOMAIN slots => slots[i + MaxRequests] - slots[i] >= Window

(* Only a request to the paced provider waits for a slot.                  *)
PacedWaits == \A c \in Threads : pc[c] \in Waiting => Paced(link[c])

(* Whoever backs off has an attempt left.                                  *)
Retrying == \A c \in Threads : pc[c] = "backoff" => attempt[c] < MaxRetries

IInv ==
  /\ TypeOK /\ Exclusive /\ Read /\ Dropped /\ Room /\ PacedWaits /\ Retrying
  /\ Spaced /\ NapsAreBounded /\ EveryRequestPaced

LEMMA InitIInv == Init => IInv
<1>. SUFFICES ASSUME Init PROVE IInv
  OBVIOUS
<1>. USE ModelClientAssumption DEF Init
<1>1. TypeOK
  BY DEF TypeOK, Places
<1>2. Exclusive /\ Read /\ Dropped /\ Room /\ PacedWaits /\ Retrying
  BY DEF Exclusive, Read, Dropped, Room, InDeque, PacedWaits, Waiting, Retrying
<1>3. Spaced /\ NapsAreBounded /\ EveryRequestPaced
  BY DEF Spaced, NapsAreBounded, EveryRequestPaced
<1>. QED BY <1>1, <1>2, <1>3 DEF IInv

(* A deque that is full and has nothing to drop: the oldest slot in it is  *)
(* younger than a window.                                                  *)
LEMMA OldestIsYoung ==
  ASSUME IInv, NEW c \in Threads, SeeNoRoom(c)
  PROVE  Window - (now - slots[dropped + 1]) \in 1..Window
<1>1. slots \in Seq(Nat) /\ dropped \in 0..Len(slots) /\ now \in Nat
  BY DEF IInv, TypeOK
<1>2. InDeque >= MaxRequests /\ ~Expired
  BY DEF SeeNoRoom
<1>3. InDeque > 0
  BY <1>1, <1>2, ModelClientAssumption DEF InDeque
<1>4. dropped + 1 \in 1..Len(slots) /\ DOMAIN slots = 1..Len(slots)
  BY <1>1, <1>3 DEF InDeque
<1>5. slots[dropped + 1] \in Nat /\ slots[dropped + 1] <= now
  BY <1>1, <1>4 DEF IInv, Read
<1>6. ~(now - slots[dropped + 1] >= Window)
  BY <1>2, <1>3 DEF Expired
<1>. QED BY <1>1, <1>5, <1>6, ModelClientAssumption

(* The place where an attempt starts is one of two.                        *)
LEMMA AttemptTypes ==
  ASSUME TypeOK, NEW c \in Threads, NEW i, Attempt(c, i)
  PROVE  pc' \in [Threads -> Places]
<1>1. Goto(c, "acquire") \/ Goto(c, "send")
  BY DEF Attempt, Paced
<1>. QED BY <1>1 DEF Goto, TypeOK, Places, Waiting

LEMMA SleepTypes ==
  ASSUME TypeOK, NEW c \in Threads, NEW time \in Nat, Sleep(c, time)
  PROVE  nap' \in [Threads -> Nat] /\ until' \in [Threads -> Nat]
<1>1. clock + time \in Nat
  BY DEF TypeOK
<1>. QED BY <1>1 DEF Sleep, TypeOK

(* The types.                                                              *)
LEMMA TypeStep == IInv /\ [Next]_vars => TypeOK'
<1>. SUFFICES ASSUME IInv, [Next]_vars PROVE TypeOK'
  OBVIOUS
<1>. USE DEF Places, Waiting, limiter, call, sleep, history, Goto
<1>0. TypeOK
  BY DEF IInv
<1>1. CASE Tick
  BY <1>0, <1>1 DEF Tick, TypeOK
<1>2. ASSUME NEW c \in Threads, Begin(c) PROVE TypeOK'
  <2>1. pc' \in [Threads -> Places]
    BY <1>0, <1>2, AttemptTypes DEF Begin
  <2>2. link' \in [Threads -> Nat]
    BY <1>0, <1>2 DEF Begin, TypeOK
  <2>3. attempt' \in [Threads -> 0..MaxRetries]
    BY <1>0, <1>2, ModelClientAssumption DEF Begin, TypeOK
  <2>4. calls' \in [Threads -> 0..MaxCalls]
    <3>1. calls[c] \in 0..MaxCalls /\ calls[c] < MaxCalls
      BY <1>0, <1>2 DEF Begin, TypeOK
    <3>2. calls[c] + 1 \in 0..MaxCalls
      BY <3>1, ModelClientAssumption
    <3>. QED BY <1>0, <1>2, <3>2 DEF Begin, TypeOK
  <2>. QED BY <1>0, <1>2, <2>1, <2>2, <2>3, <2>4 DEF Begin, TypeOK
<1>3. ASSUME NEW c \in Threads, Lock(c) PROVE TypeOK'
  BY <1>0, <1>3 DEF Lock, TypeOK
<1>4. ASSUME NEW c \in Threads, Pop(c) PROVE TypeOK'
  <2>1. dropped' \in 0..Len(slots)
    BY <1>0, <1>4 DEF Pop, Expired, InDeque, TypeOK
  <2>. QED BY <1>0, <1>4, <2>1 DEF Pop, TypeOK
<1>5. ASSUME NEW c \in Threads, SeeRoom(c) PROVE TypeOK'
  BY <1>0, <1>5 DEF SeeRoom, TypeOK
<1>6. ASSUME NEW c \in Threads, Grant(c) PROVE TypeOK'
  <2>1. slots' \in Seq(Nat) /\ Len(slots') = Len(slots) + 1
    BY <1>0, <1>6 DEF Grant, TypeOK
  <2>2. got' \in [Threads -> Nat] /\ pc' \in [Threads -> Places]
    BY <1>0, <1>6 DEF Grant, TypeOK
  <2>3. dropped' \in 0..Len(slots')
    BY <1>0, <1>6, <2>1 DEF Grant, TypeOK
  <2>. QED BY <1>0, <1>6, <2>1, <2>2, <2>3 DEF Grant, TypeOK
<1>7. ASSUME NEW c \in Threads, SeeNoRoom(c) PROVE TypeOK'
  <2>. DEFINE time == Window - (now - slots[dropped + 1])
  <2>1. Sleep(c, time)
    BY <1>7 DEF SeeNoRoom
  <2>2. time \in 1..Window
    BY <1>7, OldestIsYoung
  <2>. HIDE DEF time
  <2>3. time \in Nat
    BY <2>2, ModelClientAssumption
  <2>4. nap' \in [Threads -> Nat] /\ until' \in [Threads -> Nat]
    BY <1>0, <2>1, <2>3, SleepTypes
  <2>. QED BY <1>0, <1>7, <2>4 DEF SeeNoRoom, TypeOK
<1>8. ASSUME NEW c \in Threads, WakeUp(c) PROVE TypeOK'
  BY <1>0, <1>8 DEF WakeUp, Awake, TypeOK
<1>9. ASSUME NEW c \in Threads, Post(c) PROVE TypeOK'
  <2>1. sent' \in [Threads -> Nat]
    <3>1. sent' = [sent EXCEPT ![c] = sent[c] + 1] \/ sent' = [sent EXCEPT ![c] = sent[c]]
      BY <1>9 DEF Post, Paced
    <3>2. sent[c] \in Nat /\ sent[c] + 1 \in Nat
      BY <1>0 DEF TypeOK
    <3>. QED BY <1>0, <3>1, <3>2 DEF TypeOK
  <2>. QED BY <1>0, <1>9, <2>1 DEF Post, TypeOK
<1>10. ASSUME NEW c \in Threads, Answered(c) PROVE TypeOK'
  BY <1>0, <1>10 DEF Answered, TypeOK
<1>11. ASSUME NEW c \in Threads, BackOff(c) PROVE TypeOK'
  <2>. DEFINE time == Backoff[attempt[c]]
  <2>1. Sleep(c, time)
    BY <1>11 DEF BackOff
  <2>2. time \in Nat
    BY <1>0, ModelClientAssumption DEF TypeOK
  <2>. HIDE DEF time
  <2>3. nap' \in [Threads -> Nat] /\ until' \in [Threads -> Nat]
    BY <1>0, <2>1, <2>2, SleepTypes
  <2>. QED BY <1>0, <1>11, <2>3 DEF BackOff, TypeOK
<1>12. ASSUME NEW c \in Threads, Retry(c) PROVE TypeOK'
  <2>1. pc' \in [Threads -> Places]
    BY <1>0, <1>12, AttemptTypes DEF Retry
  <2>2. attempt[c] + 1 \in 0..MaxRetries
    <3>1. attempt[c] \in 0..MaxRetries /\ attempt[c] < MaxRetries
      BY <1>0, <1>12 DEF Retry, IInv, Retrying, TypeOK
    <3>. QED BY <3>1, ModelClientAssumption
  <2>3. attempt' \in [Threads -> 0..MaxRetries]
    BY <1>0, <1>12, <2>2 DEF Retry, TypeOK
  <2>4. nap' \in [Threads -> Nat] /\ until' \in [Threads -> Nat]
    BY <1>0, <1>12 DEF Retry, Awake, TypeOK
  <2>. QED BY <1>0, <1>12, <2>1, <2>3, <2>4 DEF Retry, TypeOK
<1>13. ASSUME NEW c \in Threads, Fails(c) PROVE TypeOK'
  <2>1. pc' \in [Threads -> Places]
    BY <1>0, <1>13, AttemptTypes DEF Fails, TypeOK
  <2>2. \/ link' = [link EXCEPT ![c] = link[c] + 1] /\ attempt' = [attempt EXCEPT ![c] = 0]
        \/ UNCHANGED <<link, attempt>>
    BY <1>13 DEF Fails
  <2>3. link[c] + 1 \in Nat /\ 0 \in 0..MaxRetries
    <3>1. link[c] \in Nat
      BY <1>0 DEF TypeOK
    <3>. QED BY <3>1, ModelClientAssumption
  <2>4. link' \in [Threads -> Nat] /\ attempt' \in [Threads -> 0..MaxRetries]
    BY <1>0, <2>2, <2>3 DEF TypeOK
  <2>. QED BY <1>0, <1>13, <2>1, <2>4 DEF Fails, TypeOK
<1>14. CASE UNCHANGED vars
  BY <1>0, <1>14 DEF vars, TypeOK
<1>. QED BY <1>1, <1>2, <1>3, <1>4, <1>5, <1>6, <1>7, <1>8, <1>9, <1>10, <1>11,
  <1>12, <1>13, <1>14 DEF Next, Acquires, Asks

(* The lock is taken with the time, and left with a slot or with none.     *)
LEMMA ExclusiveStep == IInv /\ [Next]_vars => Exclusive'
<1>. SUFFICES ASSUME IInv, [Next]_vars PROVE Exclusive'
  OBVIOUS
<1>. USE ModelClientAssumption DEF Exclusive, limiter, call, sleep, history, Goto
<1>0. TypeOK /\ Exclusive
  BY DEF IInv
<1>1. CASE Tick
  BY <1>0, <1>1 DEF Tick
<1>2. ASSUME NEW c \in Threads, Begin(c) PROVE Exclusive'
  BY <1>0, <1>2 DEF Begin, Attempt, Paced, TypeOK
<1>3. ASSUME NEW c \in Threads, Lock(c) PROVE Exclusive'
  BY <1>0, <1>3 DEF Lock, TypeOK
<1>4. ASSUME NEW c \in Threads, Pop(c) PROVE Exclusive'
  BY <1>0, <1>4 DEF Pop
<1>5. ASSUME NEW c \in Threads, SeeRoom(c) PROVE Exclusive'
  BY <1>0, <1>5 DEF SeeRoom, TypeOK
<1>6. ASSUME NEW c \in Threads, Grant(c) PROVE Exclusive'
  BY <1>0, <1>6 DEF Grant, TypeOK
<1>7. ASSUME NEW c \in Threads, SeeNoRoom(c) PROVE Exclusive'
  BY <1>0, <1>7 DEF SeeNoRoom, TypeOK
<1>8. ASSUME NEW c \in Threads, WakeUp(c) PROVE Exclusive'
  BY <1>0, <1>8 DEF WakeUp, TypeOK
<1>9. ASSUME NEW c \in Threads, Post(c) PROVE Exclusive'
  BY <1>0, <1>9 DEF Post, TypeOK
<1>10. ASSUME NEW c \in Threads, Answered(c) PROVE Exclusive'
  BY <1>0, <1>10 DEF Answered, TypeOK
<1>11. ASSUME NEW c \in Threads, BackOff(c) PROVE Exclusive'
  BY <1>0, <1>11 DEF BackOff, TypeOK
<1>12. ASSUME NEW c \in Threads, Retry(c) PROVE Exclusive'
  BY <1>0, <1>12 DEF Retry, Attempt, Paced, TypeOK
<1>13. ASSUME NEW c \in Threads, Fails(c) PROVE Exclusive'
  BY <1>0, <1>13 DEF Fails, Attempt, Paced, TypeOK
<1>14. CASE UNCHANGED vars
  BY <1>0, <1>14 DEF vars
<1>. QED BY <1>1, <1>2, <1>3, <1>4, <1>5, <1>6, <1>7, <1>8, <1>9, <1>10, <1>11,
  <1>12, <1>13, <1>14 DEF Next, Acquires, Asks

(* What only Lock, Pop, SeeRoom and Grant can disturb.                     *)
Slots == Read /\ Dropped /\ Room /\ Spaced

(* A step that leaves the deque alone, and nobody comes to grant.          *)
LEMMA SlotsKept ==
  ASSUME IInv, UNCHANGED <<now, slots, dropped>>, clock' \in Nat, clock' >= clock,
         \A c \in Threads : pc'[c] = "grant" => pc[c] = "grant"
  PROVE  Slots'
<1>1. Read'
  BY DEF IInv, Read, TypeOK
<1>2. Dropped' /\ Room' /\ Spaced'
  BY DEF IInv, Dropped, Room, InDeque, Spaced
<1>. QED BY <1>1, <1>2 DEF Slots

(* The slot MaxRequests before a new one has left the deque.               *)
LEMMA GrantKeepsSlots ==
  ASSUME IInv, NEW c \in Threads, Grant(c)
  PROVE  Slots'
<1>1. /\ slots \in Seq(Nat) /\ dropped \in 0..Len(slots) /\ now \in Nat /\ clock \in Nat
      /\ InDeque < MaxRequests
  BY DEF IInv, TypeOK, Room, Grant
<1>2. /\ slots' = Append(slots, now) /\ Len(slots') = Len(slots) + 1
      /\ DOMAIN slots = 1..Len(slots) /\ DOMAIN slots' = 1..Len(slots) + 1
      /\ UNCHANGED <<now, dropped, clock>>
  BY <1>1 DEF Grant
<1>3. slots'[Len(slots) + 1] = now /\ \A i \in 1..Len(slots) : slots'[i] = slots[i]
  BY <1>1, <1>2
<1>4. Read'
  BY <1>1, <1>2, <1>3 DEF IInv, Read
<1>5. Dropped'
  BY <1>1, <1>2, <1>3 DEF IInv, Dropped
<1>6. Room'
  <2>1. InDeque' = InDeque + 1 /\ InDeque \in Nat
    BY <1>1, <1>2 DEF InDeque
  <2>2. \A d \in Threads : pc'[d] # "grant"
    BY DEF IInv, TypeOK, Exclusive, Grant, Goto
  <2>. QED BY <1>1, <2>1, <2>2, ModelClientAssumption DEF Room
<1>7. \A i, j \in DOMAIN slots' : i < j => slots'[i] <= slots'[j]
  BY <1>1, <1>2, <1>3 DEF IInv, Read, Spaced
<1>8. ASSUME NEW i \in DOMAIN slots', i + MaxRequests \in DOMAIN slots'
      PROVE  slots'[i + MaxRequests] - slots'[i] >= Window
  <2>1. i \in 1..Len(slots)
    BY <1>1, <1>2, <1>8, ModelClientAssumption
  <2>2. CASE i + MaxRequests <= Len(slots)
    BY <1>1, <1>2, <1>3, <2>1, <2>2, ModelClientAssumption DEF IInv, Spaced
  <2>3. CASE i + MaxRequests = Len(slots) + 1
    <3>1. i \in 1..dropped
      BY <1>1, <2>1, <2>3, ModelClientAssumption DEF InDeque
    <3>. QED BY <1>3, <2>1, <2>3, <3>1 DEF IInv, Dropped
  <2>. QED BY <1>1, <1>2, <1>8, <2>1, <2>2, <2>3, ModelClientAssumption
<1>9. Spaced'
  BY <1>2, <1>7, <1>8, ModelClientAssumption DEF Spaced
<1>. QED BY <1>4, <1>5, <1>6, <1>9 DEF Slots

LEMMA SlotsStep == IInv /\ [Next]_vars => Slots'
<1>. SUFFICES ASSUME IInv, [Next]_vars PROVE Slots'
  OBVIOUS
<1>. USE DEF limiter, call, sleep, history, Goto
<1>0. TypeOK
  BY DEF IInv
<1>1. CASE Tick
  <2>1. clock' \in Nat /\ clock' >= clock
    BY <1>0, <1>1 DEF Tick, TypeOK
  <2>. QED BY <1>1, <2>1, SlotsKept DEF Tick
<1>2. ASSUME NEW c \in Threads,
             Begin(c) \/ Post(c) \/ Answered(c) \/ Retry(c) \/ Fails(c)
      PROVE  Slots'
  <2>1. UNCHANGED <<clock, now, slots, dropped>>
    BY <1>2 DEF Begin, Post, Answered, Retry, Fails
  <2>2. \A d \in Threads : pc'[d] = "grant" => pc[d] = "grant"
    BY <1>0, <1>2 DEF Begin, Post, Answered, Retry, Fails, Attempt, Paced, TypeOK
  <2>. QED BY <1>0, <2>1, <2>2, SlotsKept DEF TypeOK
<1>3. ASSUME NEW c \in Threads, BackOff(c) \/ SeeNoRoom(c) \/ WakeUp(c)
      PROVE  Slots'
  <2>1. UNCHANGED <<clock, now, slots, dropped>>
    BY <1>3 DEF BackOff, SeeNoRoom, WakeUp
  <2>2. \A d \in Threads : pc'[d] = "grant" => pc[d] = "grant"
    BY <1>0, <1>3 DEF BackOff, SeeNoRoom, WakeUp, TypeOK
  <2>. QED BY <1>0, <2>1, <2>2, SlotsKept DEF TypeOK
<1>4. ASSUME NEW c \in Threads, Lock(c) PROVE Slots'
  <2>1. /\ now' = clock /\ now <= clock /\ UNCHANGED <<clock, slots, dropped>>
        /\ now \in Nat /\ clock \in Nat /\ slots \in Seq(Nat) /\ dropped \in 0..Len(slots)
    BY <1>0, <1>4 DEF Lock, TypeOK, IInv, Read
  <2>2. \A i \in 1..Len(slots) : slots[i] \in Nat /\ slots[i] <= now
    BY <2>1 DEF IInv, Read
  <2>3. Read'
    BY <2>1, <2>2 DEF Read
  <2>4. Dropped'
    <3>1. \A i \in 1..dropped : now - slots[i] >= Window
      BY DEF IInv, Dropped
    <3>2. ASSUME NEW i \in 1..dropped PROVE clock - slots[i] >= Window
      <4>1. i \in 1..Len(slots)
        BY <2>1
      <4>2. slots[i] \in Nat /\ now - slots[i] >= Window
        BY <2>2, <3>1, <4>1
      <4>. QED BY <2>1, <4>2, ModelClientAssumption
    <3>. QED BY <2>1, <3>2 DEF Dropped
  <2>5. Room'
    BY <1>0, <1>4, <2>1 DEF IInv, Room, InDeque, Lock, TypeOK
  <2>6. Spaced'
    BY <2>1 DEF IInv, Spaced
  <2>. QED BY <2>3, <2>4, <2>5, <2>6 DEF Slots
<1>5. ASSUME NEW c \in Threads, Pop(c) PROVE Slots'
  <2>1. /\ dropped' = dropped + 1 /\ UNCHANGED <<clock, now, slots, pc, lock>>
        /\ pc[c] = "look" /\ Expired
    BY <1>5 DEF Pop
  <2>2. /\ slots \in Seq(Nat) /\ dropped \in 0..Len(slots)
        /\ InDeque \in Nat /\ InDeque' = InDeque - 1
    BY <1>0, <2>1 DEF InDeque, TypeOK
  <2>3. Read' /\ Spaced'
    BY <2>1 DEF IInv, Read, Spaced
  <2>4. Dropped'
    BY <2>1, <2>2 DEF IInv, Dropped, Expired
  <2>5. Room'
    BY <2>1, <2>2, ModelClientAssumption DEF IInv, Room
  <2>. QED BY <2>3, <2>4, <2>5 DEF Slots
<1>6. ASSUME NEW c \in Threads, SeeRoom(c) PROVE Slots'
  <2>1. UNCHANGED <<clock, now, slots, dropped>> /\ InDeque < MaxRequests
    BY <1>6 DEF SeeRoom
  <2>2. Read' /\ Dropped' /\ Spaced'
    BY <2>1 DEF IInv, Read, Dropped, Spaced
  <2>3. Room'
    BY <2>1 DEF IInv, Room, InDeque
  <2>. QED BY <2>2, <2>3 DEF Slots
<1>7. ASSUME NEW c \in Threads, Grant(c) PROVE Slots'
  BY <1>7, GrantKeepsSlots
<1>8. CASE UNCHANGED vars
  BY <1>0, <1>8, SlotsKept DEF vars, TypeOK
<1>. QED BY <1>1, <1>2, <1>3, <1>4, <1>5, <1>6, <1>7, <1>8 DEF Next, Acquires, Asks

(* A step that begins or ends no wait.                                     *)
LEMMA WaitersStep == IInv /\ [Next]_vars => PacedWaits'
<1>. SUFFICES ASSUME IInv, [Next]_vars, NEW d \in Threads, pc'[d] \in Waiting
     PROVE  Paced(link'[d])
  BY DEF PacedWaits, Paced
<1>. USE DEF limiter, call, sleep, history, Goto
<1>0. TypeOK /\ (pc[d] \in Waiting => Paced(link[d]))
  BY DEF IInv, PacedWaits
<1>1. CASE Tick
  BY <1>0, <1>1 DEF Tick
<1>2. ASSUME NEW c \in Threads, NEW i, Attempt(c, i), link'[c] = i,
             \A e \in Threads : e # c => link'[e] = link[e]
      PROVE  Paced(link'[d])
  <2>1. CASE Paced(i)
    <3>1. CASE d = c
      BY <1>2, <2>1, <3>1
    <3>2. CASE d # c
      <4>1. pc'[d] = pc[d] /\ link'[d] = link[d]
        BY <1>0, <1>2, <3>2 DEF Attempt, Paced, TypeOK
      <4>. QED BY <1>0, <4>1
    <3>. QED BY <3>1, <3>2
  <2>2. CASE ~Paced(i)
    <3>1. pc' = [pc EXCEPT ![c] = "send"]
      BY <1>2, <2>2 DEF Attempt
    <3>2. d # c
      BY <1>0, <3>1 DEF TypeOK, Waiting
    <3>3. pc'[d] = pc[d] /\ link'[d] = link[d]
      BY <1>0, <1>2, <3>1, <3>2 DEF TypeOK
    <3>. QED BY <1>0, <3>3
  <2>. QED BY <2>1, <2>2
<1>3. ASSUME NEW c \in Threads, Begin(c) PROVE Paced(link'[d])
  <2>1. Attempt(c, 1) /\ link'[c] = 1 /\ \A e \in Threads : e # c => link'[e] = link[e]
    BY <1>0, <1>3 DEF Begin, TypeOK
  <2>. QED BY <1>2, <2>1
<1>4. ASSUME NEW c \in Threads, Retry(c) PROVE Paced(link'[d])
  <2>1. Attempt(c, link[c]) /\ link' = link
    BY <1>4 DEF Retry
  <2>. QED BY <1>2, <2>1
<1>5. ASSUME NEW c \in Threads, Fails(c) PROVE Paced(link'[d])
  <2>1. CASE link[c] < Len(Chain)
    <3>1. /\ Attempt(c, link[c] + 1) /\ link'[c] = link[c] + 1
          /\ \A e \in Threads : e # c => link'[e] = link[e]
      BY <1>0, <1>5, <2>1 DEF Fails, TypeOK
    <3>. QED BY <1>2, <3>1
  <2>2. CASE ~(link[c] < Len(Chain))
    <3>1. pc' = [pc EXCEPT ![c] = "idle"] /\ link' = link
      BY <1>5, <2>2 DEF Fails
    <3>. QED BY <1>0, <3>1 DEF Waiting, TypeOK
  <2>. QED BY <2>1, <2>2
<1>6. ASSUME NEW c \in Threads, Acquires(c) PROVE Paced(link'[d])
  <2>1. link' = link /\ (\A e \in Threads : pc'[e] \in Waiting => pc[e] \in Waiting)
    BY <1>0, <1>6 DEF Acquires, Lock, Pop, SeeRoom, Grant, SeeNoRoom, WakeUp, Waiting, TypeOK
  <2>. QED BY <1>0, <2>1
<1>7. ASSUME NEW c \in Threads, Post(c) \/ Answered(c) \/ BackOff(c)
      PROVE  Paced(link'[d])
  <2>1. link' = link /\ (\A e \in Threads : pc'[e] \in Waiting => pc[e] \in Waiting)
    BY <1>0, <1>7 DEF Post, Answered, BackOff, Waiting, TypeOK
  <2>. QED BY <1>0, <2>1
<1>8. CASE UNCHANGED vars
  BY <1>0, <1>8 DEF vars
<1>. QED BY <1>1, <1>3, <1>4, <1>5, <1>6, <1>7, <1>8 DEF Next, Asks

(* Sleeps, and the attempts they are between.                              *)
LEMMA SleepersStep == IInv /\ [Next]_vars => Retrying' /\ NapsAreBounded'
<1>. SUFFICES ASSUME IInv, [Next]_vars, NEW d \in Threads
     PROVE  /\ pc'[d] = "backoff" => attempt'[d] < MaxRetries
            /\ pc'[d] = "nap" => nap'[d] \in 1..Window
  BY DEF Retrying, NapsAreBounded
<1>. USE DEF limiter, call, sleep, history, Goto
<1>0. /\ TypeOK
      /\ pc[d] = "backoff" => attempt[d] < MaxRetries
      /\ pc[d] = "nap" => nap[d] \in 1..Window
  BY DEF IInv, Retrying, NapsAreBounded
<1>. DEFINE Calm == /\ pc'[d] = "backoff" => pc[d] = "backoff" /\ attempt'[d] = attempt[d]
                    /\ pc'[d] = "nap" => pc[d] = "nap" /\ nap'[d] = nap[d]
            Goal == /\ pc'[d] = "backoff" => attempt'[d] < MaxRetries
                    /\ pc'[d] = "nap" => nap'[d] \in 1..Window
<1>1. CASE Calm
  BY <1>0, <1>1
<1>2. CASE Tick \/ UNCHANGED vars
  BY <1>0, <1>2 DEF Tick, vars
<1>3. ASSUME NEW c \in Threads, Begin(c) PROVE Goal
  <2>1. Calm
    BY <1>0, <1>3 DEF Begin, Attempt, Paced, TypeOK
  <2>. QED BY <1>1, <2>1
<1>4. ASSUME NEW c \in Threads, Lock(c) \/ Pop(c) \/ SeeRoom(c) \/ Grant(c) PROVE Goal
  <2>1. Calm
    BY <1>0, <1>4 DEF Lock, Pop, SeeRoom, Grant, TypeOK
  <2>. QED BY <1>1, <2>1
<1>5. ASSUME NEW c \in Threads, SeeNoRoom(c) PROVE Goal
  <2>. DEFINE time == Window - (now - slots[dropped + 1])
  <2>1. time \in 1..Window
    BY <1>5, OldestIsYoung
  <2>2. /\ nap' = [nap EXCEPT ![c] = time] /\ pc' = [pc EXCEPT ![c] = "nap"]
        /\ attempt' = attempt
    BY <1>5 DEF SeeNoRoom, Sleep
  <2>. HIDE DEF time
  <2>3. CASE d = c
    BY <1>0, <2>1, <2>2, <2>3 DEF TypeOK
  <2>4. CASE d # c
    BY <1>0, <2>2, <2>4 DEF TypeOK
  <2>. QED BY <2>3, <2>4
<1>6. ASSUME NEW c \in Threads, BackOff(c) PROVE Goal
  <2>1. /\ \E time : nap' = [nap EXCEPT ![c] = time]
        /\ pc' = [pc EXCEPT ![c] = "backoff"]
        /\ attempt' = attempt /\ attempt[c] < MaxRetries
    BY <1>6 DEF BackOff, Sleep
  <2>. QED BY <1>0, <2>1 DEF TypeOK
<1>7. ASSUME NEW c \in Threads, WakeUp(c) PROVE Goal
  <2>1. Calm
    BY <1>0, <1>7 DEF WakeUp, Awake, TypeOK
  <2>. QED BY <1>1, <2>1
<1>8. ASSUME NEW c \in Threads, Post(c) \/ Answered(c) PROVE Goal
  <2>1. Calm
    BY <1>0, <1>8 DEF Post, Answered, TypeOK
  <2>. QED BY <1>1, <2>1
<1>9. ASSUME NEW c \in Threads, Retry(c) PROVE Goal
  <2>1. pc' = [pc EXCEPT ![c] = "acquire"] \/ pc' = [pc EXCEPT ![c] = "send"]
    BY <1>9 DEF Retry, Attempt, Paced
  <2>2. d # c => nap'[d] = nap[d] /\ attempt'[d] = attempt[d]
    BY <1>0, <1>9 DEF Retry, Awake, TypeOK
  <2>3. Calm
    BY <1>0, <2>1, <2>2 DEF TypeOK
  <2>. QED BY <1>1, <2>3
<1>10. ASSUME NEW c \in Threads, Fails(c) PROVE Goal
  <2>1. \/ pc' = [pc EXCEPT ![c] = "acquire"]
        \/ pc' = [pc EXCEPT ![c] = "send"]
        \/ pc' = [pc EXCEPT ![c] = "idle"]
    BY <1>10 DEF Fails, Attempt, Paced
  <2>2. nap' = nap /\ (d # c => attempt'[d] = attempt[d])
    BY <1>0, <1>10 DEF Fails, TypeOK
  <2>3. Calm
    BY <1>0, <2>1, <2>2 DEF TypeOK
  <2>. QED BY <1>1, <2>3
<1>. QED BY <1>2, <1>3, <1>4, <1>5, <1>6, <1>7, <1>8, <1>9, <1>10 DEF Next, Acquires, Asks

(* The slot and the request that uses it.                                  *)
LEMMA PacedStep == IInv /\ [Next]_vars => EveryRequestPaced'
<1>. SUFFICES ASSUME IInv, [Next]_vars, NEW d \in Threads
     PROVE  got'[d] = IF pc'[d] = "send" /\ Paced(link'[d]) THEN sent'[d] + 1 ELSE sent'[d]
  BY DEF EveryRequestPaced, Paced
<1>. USE DEF limiter, call, sleep, history, Goto
<1>0. /\ TypeOK /\ PacedWaits
      /\ got[d] = IF pc[d] = "send" /\ Paced(link[d]) THEN sent[d] + 1 ELSE sent[d]
      /\ got[d] \in Nat /\ sent[d] \in Nat
  BY DEF IInv, EveryRequestPaced, TypeOK
<1>. DEFINE Goal == got'[d] = IF pc'[d] = "send" /\ Paced(link'[d]) THEN sent'[d] + 1 ELSE sent'[d]
            Calm == /\ UNCHANGED history
                    /\ (pc'[d] = "send" /\ Paced(link'[d])) = (pc[d] = "send" /\ Paced(link[d]))
<1>1. CASE Calm
  BY <1>0, <1>1 DEF Paced
<1>2. CASE Tick \/ UNCHANGED vars
  BY <1>0, <1>2 DEF Tick, vars, Paced
<1>3. ASSUME NEW c \in Threads, NEW i, Attempt(c, i), link'[c] = i, pc[c] # "send",
             \A e \in Threads : e # c => link'[e] = link[e], UNCHANGED history
      PROVE  Goal
  <2>1. CASE d # c
    <3>1. pc'[d] = pc[d] /\ link'[d] = link[d]
      BY <1>0, <1>3, <2>1 DEF Attempt, Paced, TypeOK
    <3>. QED BY <1>1, <1>3, <3>1 DEF Paced
  <2>2. CASE d = c
    <3>1. CASE Paced(i)
      <4>1. pc' = [pc EXCEPT ![c] = "acquire"]
        BY <1>3, <3>1 DEF Attempt
      <4>2. pc'[d] # "send" /\ pc[d] # "send"
        BY <1>0, <1>3, <2>2, <4>1 DEF TypeOK
      <4>. QED BY <1>0, <1>3, <4>2
    <3>2. CASE ~Paced(i)
      <4>1. ~Paced(link'[d]) /\ pc[d] # "send"
        BY <1>3, <2>2, <3>2
      <4>. QED BY <1>0, <1>3, <4>1
    <3>. QED BY <3>1, <3>2
  <2>. QED BY <2>1, <2>2
<1>4. ASSUME NEW c \in Threads, Begin(c) PROVE Goal
  <2>1. /\ Attempt(c, 1) /\ link'[c] = 1 /\ pc[c] # "send" /\ UNCHANGED history
        /\ \A e \in Threads : e # c => link'[e] = link[e]
    BY <1>0, <1>4 DEF Begin, TypeOK
  <2>. QED BY <1>3, <2>1
<1>5. ASSUME NEW c \in Threads, Retry(c) PROVE Goal
  <2>1. Attempt(c, link[c]) /\ link' = link /\ pc[c] # "send" /\ UNCHANGED history
    BY <1>5 DEF Retry
  <2>. QED BY <1>3, <2>1
<1>6. ASSUME NEW c \in Threads, Fails(c) PROVE Goal
  <2>0. pc[c] = "posted" /\ UNCHANGED history
    BY <1>6 DEF Fails
  <2>1. CASE link[c] < Len(Chain)
    <3>1. /\ Attempt(c, link[c] + 1) /\ link'[c] = link[c] + 1
          /\ \A e \in Threads : e # c => link'[e] = link[e]
      BY <1>0, <1>6, <2>1 DEF Fails, TypeOK
    <3>. QED BY <1>3, <2>0, <3>1
  <2>2. CASE ~(link[c] < Len(Chain))
    <3>1. pc' = [pc EXCEPT ![c] = "idle"] /\ link' = link
      BY <1>6, <2>2 DEF Fails
    <3>2. (pc'[d] = "send") = (pc[d] = "send")
      BY <1>0, <2>0, <3>1 DEF TypeOK
    <3>. QED BY <1>1, <2>0, <3>1, <3>2 DEF Paced
  <2>. QED BY <2>1, <2>2
<1>7. ASSUME NEW c \in Threads,
             Lock(c) \/ Pop(c) \/ SeeRoom(c) \/ SeeNoRoom(c) \/ WakeUp(c)
               \/ Answered(c) \/ BackOff(c)
      PROVE  Goal
  <2>1. UNCHANGED <<link, got, sent>>
    BY <1>7 DEF Lock, Pop, SeeRoom, SeeNoRoom, WakeUp, Answered, BackOff
  <2>2. (pc'[d] = "send") = (pc[d] = "send")
    BY <1>0, <1>7 DEF Lock, Pop, SeeRoom, SeeNoRoom, WakeUp, Answered, BackOff, TypeOK
  <2>. QED BY <1>1, <2>1, <2>2 DEF Paced
<1>8. ASSUME NEW c \in Threads, Grant(c) PROVE Goal
  <2>1. /\ pc[c] = "grant" /\ pc' = [pc EXCEPT ![c] = "send"] /\ Paced(link[c])
        /\ got' = [got EXCEPT ![c] = got[c] + 1] /\ UNCHANGED <<link, sent>>
    BY <1>0, <1>8 DEF Grant, PacedWaits, Waiting
  <2>2. CASE d = c
    <3>1. pc'[d] = "send" /\ pc[d] # "send" /\ Paced(link'[d])
      BY <1>0, <2>1, <2>2 DEF TypeOK
    <3>2. got'[d] = got[d] + 1 /\ sent'[d] = sent[d]
      BY <1>0, <2>1, <2>2 DEF TypeOK
    <3>. QED BY <1>0, <3>1, <3>2
  <2>3. CASE d # c
    <3>1. pc'[d] = pc[d] /\ got'[d] = got[d]
      BY <1>0, <2>1, <2>3 DEF TypeOK
    <3>. QED BY <1>0, <2>1, <3>1
  <2>. QED BY <2>2, <2>3
<1>9. ASSUME NEW c \in Threads, Post(c) PROVE Goal
  <2>1. /\ pc[c] = "send" /\ pc' = [pc EXCEPT ![c] = "posted"] /\ UNCHANGED <<link, got>>
        /\ sent' = [sent EXCEPT ![c] = IF Paced(link[c]) THEN @ + 1 ELSE @]
    BY <1>9 DEF Post
  <2>2. CASE d = c
    <3>1. pc'[d] = "posted" /\ pc[d] = "send"
      BY <1>0, <2>1, <2>2 DEF TypeOK
    <3>2. sent'[d] = IF Paced(link[d]) THEN sent[d] + 1 ELSE sent[d]
      BY <1>0, <2>1, <2>2 DEF TypeOK, Paced
    <3>3. got'[d] = got[d]
      BY <2>1
    <3>. QED BY <1>0, <3>1, <3>2, <3>3
  <2>3. CASE d # c
    <3>1. pc'[d] = pc[d] /\ sent'[d] = sent[d]
      BY <1>0, <2>1, <2>3 DEF TypeOK, Paced
    <3>. QED BY <1>0, <2>1, <3>1
  <2>. QED BY <2>2, <2>3
<1>. QED BY <1>2, <1>4, <1>5, <1>6, <1>7, <1>8, <1>9 DEF Next, Acquires, Asks

LEMMA Invariance == Spec => []IInv
<1>1. IInv /\ [Next]_vars => IInv'
  BY TypeStep, ExclusiveStep, SlotsStep, WaitersStep, SleepersStep, PacedStep DEF IInv, Slots
<1>. QED BY <1>1, InitIInv, PTL DEF Spec

(* The types hold.                                                         *)
THEOREM TypeCorrect == Spec => []TypeOK
<1>1. IInv => TypeOK
  BY DEF IInv
<1>. QED BY <1>1, Invariance, PTL

(* The slots of a window are at most MaxRequests in a row, counted from    *)
(* the first of them.                                                      *)
LEMMA SpacedFitsWindow ==
  ASSUME IInv
  PROVE  WindowNeverExceeded
<1>. SUFFICES ASSUME NEW t \in 0..clock
     PROVE  Cardinality({i \in DOMAIN slots : slots[i] \in t..t + Window - 1}) <= MaxRequests
  BY DEF WindowNeverExceeded
<1>. DEFINE S == {i \in DOMAIN slots : slots[i] \in t..t + Window - 1}
<1>. USE ModelClientAssumption
<1>0. slots \in Seq(Nat) /\ DOMAIN slots = 1..Len(slots) /\ t \in Nat /\ S \subseteq Nat
  BY DEF IInv, TypeOK
<1>1. CASE S = {}
  BY <1>1, FS_EmptySet
<1>2. CASE S # {}
  <2>1. PICK k \in S : \A i \in S : <<i, k>> \notin OpToRel(<, Nat)
    BY <1>0, <1>2, NatLessThanWellFounded, WFMin
  <2>2. ASSUME NEW i \in S PROVE k <= i
    <3>. SUFFICES ASSUME i < k PROVE FALSE
      BY <1>0
    <3>. QED BY <1>0, <2>1 DEF OpToRel
  <2>3. k \in Nat /\ slots[k] \in t..t + Window - 1
    BY <1>0
  <2>4. ASSUME NEW i \in S, i >= k + MaxRequests PROVE FALSE
    <3>1. i \in 1..Len(slots) /\ k \in 1..Len(slots) /\ slots[i] \in t..t + Window - 1
      BY <1>0, <2>4
    <3>2. k + MaxRequests \in DOMAIN slots /\ slots[k + MaxRequests] \in Nat
      BY <1>0, <2>4, <3>1
    <3>3. slots[k + MaxRequests] - slots[k] >= Window
      BY <3>1, <3>2, <1>0 DEF IInv, Spaced
    <3>4. slots[k + MaxRequests] <= slots[i]
      BY <1>0, <2>4, <3>1, <3>2 DEF IInv, Spaced
    <3>. QED BY <1>0, <2>3, <3>1, <3>2, <3>3, <3>4
  <2>5. S \subseteq k..k + MaxRequests - 1
    BY <1>0, <2>2, <2>3, <2>4
  <2>6. /\ IsFiniteSet(k..k + MaxRequests - 1)
        /\ Cardinality(k..k + MaxRequests - 1) = MaxRequests
    <3>. DEFINE last == k + MaxRequests - 1
    <3>1. last \in Int /\ k \in Int /\ k <= last /\ last - k + 1 = MaxRequests
      BY <2>3
    <3>. HIDE DEF last
    <3>2. IsFiniteSet(k..last) /\ Cardinality(k..last) = IF k > last THEN 0 ELSE last - k + 1
      BY <3>1, FS_Interval
    <3>3. Cardinality(k..last) = MaxRequests
      BY <3>1, <3>2
    <3>. QED BY <3>2, <3>3 DEF last
  <2>7. Cardinality(S) <= Cardinality(k..k + MaxRequests - 1)
    BY <2>5, <2>6, FS_Subset
  <2>. QED BY <2>6, <2>7
<1>. QED BY <1>1, <1>2

(* No window sees more than MaxRequests acquisitions of RateLimiter.       *)
THEOREM WindowKept == Spec => []WindowNeverExceeded
<1>1. IInv => WindowNeverExceeded
  BY SpacedFitsWindow
<1>. QED BY <1>1, Invariance, PTL

(* What acquire tells a waiter to sleep is positive and within the window. *)
THEOREM NapsBounded == Spec => []NapsAreBounded
<1>1. IInv => NapsAreBounded
  BY DEF IInv
<1>. QED BY <1>1, Invariance, PTL

(* Requests to the paced provider and slots are one to one, whichever of   *)
(* the retries and the providers of the chain they come from.              *)
THEOREM RequestsArePaced == Spec => []EveryRequestPaced
<1>1. IInv => EveryRequestPaced
  BY DEF IInv
<1>. QED BY <1>1, Invariance, PTL
=============================================================================
