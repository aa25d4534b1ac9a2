-------------------------- MODULE DiscoveryProofs --------------------------
(***************************************************************************)
(* What holds of discovery for every set of controls, every budget and     *)
(* every threshold.                                                        *)
(*                                                                         *)
(* TypeOK bounds the counters, and is not inductive: that an iteration may *)
(* still be charged needs an index below MaxSteps wherever the loop goes   *)
(* on, and a finish or a vain iteration is always one of those charged.    *)
(* FinishIsHeard needs to know where the finishes went: each one refused   *)
(* has used up one of the two questions.                                   *)
(*                                                                         *)
(* StuckAgentAsksForHelp has an invariant of its own, ChurnInv.  The bound *)
(* is spread over counters that are cleared at different times, so what    *)
(* is kept is an allowance: every attempt the loop guard has on record     *)
(* pays for the skips that a usable decision cleared and for its own       *)
(* failure.                                                                *)
(***************************************************************************)
EXTENDS Discovery, FiniteSetTheorems, TLAPS

-----------------------------------------------------------------------------
(* The inductive invariant                                                 *)

Looping == pc \in {"boundary", "decide", "act", "look", "recover"}

(* The loop stops at MaxSteps, and counts no more than it has turns.       *)
Charged ==
  /\ Looping \/ (pc = "asked" /\ asked # "stuck") => index < MaxSteps
  /\ pc # "done" => finishes <= index
  /\ churn <= index

Once(question) == IF question THEN 1 ELSE 0

(* Every finish that was refused cost one of the two questions.            *)
Refused == pc # "done" => finishes = Once(askedParams) + Once(askedExtract)

(* A result is there when the run is over, and not before.                 *)
Ended == pc = "done" <=> result # "none"

(* Who is about to act on a risky control has just been told to.           *)
Consented ==
  pc = "act" /\ control \in Risky /\ call.attended /\ ~call.confirmRisky
    => handedFor = "risky"

IInv ==
  /\ TypeOK /\ Charged /\ Refused /\ Ended /\ Consented
  /\ FinishIsHeard

(* TypeOK in two parts: what is true or false, and the rest.               *)
Flags ==
  /\ call \in Call /\ trace \in Trace
  /\ escalated \in BOOLEAN /\ committed \in BOOLEAN
  /\ askedParams \in BOOLEAN /\ askedExtract \in BOOLEAN

Values ==
  /\ pc \in Pcs /\ index \in 0 .. MaxSteps /\ control \in Controls \cup {None}
  /\ asked \in Reasons /\ skips \in 0 .. DeadEndThreshold - 1
  /\ counts \in [Controls -> 0 .. LoopThreshold - 1]
  /\ rejections \in 0 .. MaxExtractRejections
  /\ result \in Results /\ handedFor \in Reasons
  /\ finishes \in 0 .. MaxSteps /\ churn \in 0 .. MaxSteps

LEMMA InitIInv == Init => IInv
<1>. SUFFICES ASSUME Init PROVE IInv
  OBVIOUS
<1>1. TypeOK
  <2>1. Flags
    BY DEF Init, Flags, Trace
  <2>2. Values
    BY DiscoveryAssumption DEF Init, Values, Pcs, Reasons, Results
  <2>. QED BY <2>1, <2>2 DEF TypeOK, Flags, Values
<1>2. Charged /\ Refused /\ Ended /\ Consented /\ FinishIsHeard
  BY DiscoveryAssumption
     DEF Init, Charged, Refused, Ended, Consented, FinishIsHeard, Looping, Once
<1>. QED BY <1>1, <1>2 DEF IInv

-----------------------------------------------------------------------------
(* The actions preserve it                                                 *)

(* What a further turn of the loop changes.                                *)
Turn ==
  /\ index \in Nat /\ index' = index + 1 /\ index' \in 0 .. MaxSteps
  /\ pc' \in {"boundary", "exhausted"} /\ (pc' = "boundary" => index' < MaxSteps)
  /\ control' = None /\ escalated' = FALSE

LEMMA TurnTaken ==
  ASSUME index \in 0 .. MaxSteps, index < MaxSteps, NextIteration
  PROVE  Turn
BY DiscoveryAssumption DEF NextIteration, Turn

(* A skip is charged, or a human is asked in its place.                    *)
Skipped ==
  /\ skips' \in 0 .. DeadEndThreshold - 1
  /\ index' \in 0 .. MaxSteps /\ index <= index'
  /\ churn' \in 0 .. MaxSteps /\ churn' <= index'
  /\ \/ pc' = "asked" /\ asked' = "deadEnd" /\ index' < MaxSteps
     \/ pc' = "boundary" /\ asked' = asked /\ index' < MaxSteps
     \/ pc' = "exhausted" /\ asked' = asked
  /\ control' \in {control, None}

LEMMA SkipNoted ==
  ASSUME Flags, Values, index < MaxSteps, churn <= index, NoteSkip(skips)
  PROVE  Skipped /\ escalated' \in BOOLEAN
<1>. USE DiscoveryAssumption
<1>1. CASE skips + 1 >= DeadEndThreshold
  <2>1. Skipped
    BY <1>1 DEF Values, NoteSkip, Ask, Skipped
  <2>2. escalated' = escalated
    BY <1>1 DEF NoteSkip
  <2>. QED BY <2>1, <2>2 DEF Flags
<1>2. CASE ~(skips + 1 >= DeadEndThreshold)
  <2>1. NextIteration /\ skips' = skips + 1 /\ churn' = churn + 1 /\ asked' = asked
    BY <1>2 DEF NoteSkip, InVain
  <2>2. Turn
    BY <2>1, TurnTaken DEF Values
  <2>3. Skipped
    BY <1>2, <2>1, <2>2 DEF Values, Turn, Skipped
  <2>. QED BY <2>2, <2>3 DEF Turn
<1>. QED BY <1>1, <1>2

LEMMA NextIInv ==
  ASSUME IInv, [Next]_vars
  PROVE  IInv'
<1>. USE DiscoveryAssumption DEF IInv
<1>1. CASE Interrupted
  BY <1>1
     DEF Interrupted, Return, loopVars, gateVars, historyVars,
         TypeOK, Pcs, Reasons, Results, Charged, Refused, Ended, Consented,
         FinishIsHeard, Looping, Once
<1>2. CASE TakeOver
  BY <1>2
     DEF TakeOver, Ask, loopVars, gateVars, historyVars,
         TypeOK, Pcs, Reasons, Results, Charged, Refused, Ended, Consented,
         FinishIsHeard, Looping, Once
<1>3. CASE Observe
  BY <1>3
     DEF Observe, loopVars, gateVars, historyVars,
         TypeOK, Pcs, Reasons, Results, Charged, Refused, Ended, Consented,
         FinishIsHeard, Looping, Once
<1>4. CASE Raises
  BY <1>4
     DEF Raises, Return, loopVars, gateVars, historyVars,
         TypeOK, Pcs, Reasons, Results, Charged, Refused, Ended, Consented,
         FinishIsHeard, Looping, Once
<1>5. CASE Skip
  <2>1. index < MaxSteps /\ churn <= index
    BY <1>5 DEF Skip, Charged, Looping
  <2>2. Skipped /\ escalated' \in BOOLEAN
    BY <1>5, <2>1, SkipNoted DEF Skip, TypeOK, Flags, Values
  <2>3. TypeOK'
    <3>1. Flags'
      BY <1>5, <2>1, <2>2
         DEF Skipped, Skip, loopVars, gateVars, historyVars, TypeOK, Flags, Trace
    <3>2. Values'
      BY <1>5, <2>1, <2>2
         DEF Skipped, Skip, loopVars, gateVars, historyVars, TypeOK, Values, Charged,
             Pcs, Reasons, Results, Looping
    <3>. QED BY <3>1, <3>2 DEF TypeOK, Flags, Values
  <2>4. Charged' /\ Refused' /\ Ended' /\ Consented'
    BY <1>5, <2>1, <2>2
       DEF Skipped, Skip, loopVars, gateVars, historyVars, TypeOK, Charged, Refused,
           Ended, Consented, Looping, Once
  <2>5. FinishIsHeard'
    BY <1>5, <2>1, <2>2
       DEF Skipped, Skip, loopVars, gateVars, historyVars, TypeOK, Refused, Ended, Once,
           FinishIsHeard
  <2>. QED BY <2>3, <2>4, <2>5
<1>6. ASSUME NEW c \in Controls, Decide(c) PROVE IInv'
  <2>1. TypeOK'
    <3>1. Flags'
      BY <1>6
         DEF Decide, Ask, loopVars, gateVars, historyVars, TypeOK, Flags, Trace
    <3>2. Values'
      BY <1>6
         DEF Decide, Ask, loopVars, gateVars, historyVars, TypeOK, Values, Charged,
             Pcs, Reasons, Results, Looping
    <3>. QED BY <3>1, <3>2 DEF TypeOK, Flags, Values
  <2>2. Charged' /\ Refused' /\ Ended' /\ Consented'
    BY <1>6
       DEF Decide, Ask, loopVars, gateVars, historyVars, TypeOK, Charged, Refused,
           Ended, Consented, Looping, Once
  <2>3. FinishIsHeard'
    BY <1>6
       DEF Decide, Ask, loopVars, gateVars, historyVars, TypeOK, Refused, Ended, Once,
           FinishIsHeard
  <2>. QED BY <2>1, <2>2, <2>3
<1>7. CASE RejectFinish
  <2>1. NextIteration /\ index < MaxSteps /\ pc # "done" /\ pc # "asked"
    BY <1>7 DEF RejectFinish, Charged, Looping
  <2>2. Turn
    BY <2>1, TurnTaken DEF TypeOK
  <2>3. TypeOK'
    <3>1. Flags'
      BY <1>7, <2>1, <2>2
         DEF Turn, RejectFinish, ParamsMissing, NothingToReport, InVain, loopVars,
             gateVars, historyVars, TypeOK, Flags, Trace
    <3>2. Values'
      BY <1>7, <2>1, <2>2
         DEF Turn, RejectFinish, ParamsMissing, NothingToReport, InVain, loopVars,
             gateVars, historyVars, TypeOK, Values, Charged,
             Pcs, Reasons, Results, Looping
    <3>. QED BY <3>1, <3>2 DEF TypeOK, Flags, Values
  <2>4. Charged' /\ Refused' /\ Ended' /\ Consented'
    BY <1>7, <2>1, <2>2
       DEF Turn, RejectFinish, ParamsMissing, NothingToReport, InVain, loopVars,
           gateVars, historyVars, TypeOK, Charged, Refused,
           Ended, Consented, Looping, Once
  <2>5. FinishIsHeard'
    BY <1>7, <2>1, <2>2
       DEF Turn, RejectFinish, ParamsMissing, NothingToReport, InVain, loopVars,
           gateVars, historyVars, TypeOK, Refused, Ended, Once,
           FinishIsHeard
  <2>. QED BY <2>3, <2>4, <2>5
<1>8. CASE AcceptFinish
  BY <1>8
     DEF AcceptFinish, ParamsMissing, NothingToReport, Return, Call, Trace, loopVars,
         gateVars, historyVars,
         TypeOK, Pcs, Reasons, Results, Charged, Refused, Ended, Consented,
         FinishIsHeard, Looping, Once
<1>9. CASE ActWorks
  BY <1>9
     DEF ActWorks, loopVars, gateVars, historyVars,
         TypeOK, Pcs, Reasons, Results, Charged, Refused, Ended, Consented,
         FinishIsHeard, Looping, Once
<1>10. CASE ActFails
  <2>1. index < MaxSteps /\ churn <= index
    BY <1>10 DEF ActFails, Charged, Looping
  <2>2. CASE escalated
    BY <1>10, <2>2
       DEF ActFails, loopVars, gateVars, historyVars,
           TypeOK, Pcs, Reasons, Results, Charged, Refused, Ended, Consented,
           FinishIsHeard, Looping, Once
  <2>3. CASE ~escalated
    <3>1. Skipped /\ escalated' \in BOOLEAN
      BY <1>10, <2>1, <2>3, SkipNoted DEF ActFails, TypeOK, Flags, Values
    <3>2. TypeOK'
      <4>1. Flags'
        BY <1>10, <3>1 DEF ActFails, loopVars, gateVars, historyVars, TypeOK, Flags
      <4>2. Values'
        BY <1>10, <2>3, <3>1
           DEF Skipped, ActFails, loopVars, gateVars, historyVars, TypeOK, Values, Pcs,
               Reasons, Results
      <4>. QED BY <4>1, <4>2 DEF TypeOK, Flags, Values
    <3>3. Charged' /\ Refused' /\ Ended' /\ Consented'
      BY <1>10, <2>3, <3>1
         DEF Skipped, ActFails, loopVars, gateVars, historyVars, TypeOK, Charged,
             Refused,
             Ended, Consented, Looping, Once
    <3>4. FinishIsHeard'
      BY <1>10, <3>1
         DEF Skipped, ActFails, loopVars, gateVars, historyVars, TypeOK, Ended,
             FinishIsHeard
    <3>. QED BY <3>2, <3>3, <3>4
  <2>. QED BY <2>2, <2>3 DEF TypeOK
<1>11. CASE OffAllowlist
  BY <1>11
     DEF OffAllowlist, Ask, loopVars, gateVars, historyVars,
         TypeOK, Pcs, Reasons, Results, Charged, Refused, Ended, Consented,
         FinishIsHeard, Looping, Once
<1>12. CASE RecoverableFault
  BY <1>12
     DEF RecoverableFault, loopVars, gateVars, historyVars,
         TypeOK, Pcs, Reasons, Results, Charged, Refused, Ended, Consented,
         FinishIsHeard, Looping, Once
<1>13. CASE Recover
  <2>1. NextIteration /\ index < MaxSteps /\ pc # "done" /\ pc # "asked"
    BY <1>13 DEF Recover, Charged, Looping
  <2>2. Turn
    BY <2>1, TurnTaken DEF TypeOK
  <2>3. TypeOK'
    <3>1. Flags'
      BY <1>13, <2>1, <2>2
         DEF Turn, Recover, InVain, loopVars, gateVars, historyVars, TypeOK, Flags,
             Trace
    <3>2. Values'
      BY <1>13, <2>1, <2>2
         DEF Turn, Recover, InVain, loopVars, gateVars, historyVars, TypeOK, Values,
             Charged,
             Pcs, Reasons, Results, Looping
    <3>. QED BY <3>1, <3>2 DEF TypeOK, Flags, Values
  <2>4. Charged' /\ Refused' /\ Ended' /\ Consented'
    BY <1>13, <2>1, <2>2
       DEF Turn, Recover, InVain, loopVars, gateVars, historyVars, TypeOK, Charged,
           Refused,
           Ended, Consented, Looping, Once
  <2>5. FinishIsHeard'
    BY <1>13, <2>1, <2>2
       DEF Turn, Recover, InVain, loopVars, gateVars, historyVars, TypeOK, Refused,
           Ended, Once,
           FinishIsHeard
  <2>. QED BY <2>3, <2>4, <2>5
<1>14. CASE OtherFault
  BY <1>14
     DEF OtherFault, Ask, loopVars, gateVars, historyVars,
         TypeOK, Pcs, Reasons, Results, Charged, Refused, Ended, Consented,
         FinishIsHeard, Looping, Once
<1>15. CASE RejectExtract
  <2>1. NextIteration /\ index < MaxSteps /\ pc # "done" /\ pc # "asked"
    BY <1>15 DEF RejectExtract, Charged, Looping
  <2>2. Turn
    BY <2>1, TurnTaken DEF TypeOK
  <2>3. TypeOK'
    <3>1. Flags'
      BY <1>15, <2>1, <2>2
         DEF Turn, RejectExtract, InVain, loopVars, gateVars, historyVars, TypeOK,
             Flags, Trace
    <3>2. Values'
      BY <1>15, <2>1, <2>2
         DEF Turn, RejectExtract, InVain, loopVars, gateVars, historyVars, TypeOK,
             Values, Charged,
             Pcs, Reasons, Results, Looping
    <3>. QED BY <3>1, <3>2 DEF TypeOK, Flags, Values
  <2>4. Charged' /\ Refused' /\ Ended' /\ Consented'
    BY <1>15, <2>1, <2>2
       DEF Turn, RejectExtract, InVain, loopVars, gateVars, historyVars, TypeOK,
           Charged, Refused,
           Ended, Consented, Looping, Once
  <2>5. FinishIsHeard'
    BY <1>15, <2>1, <2>2
       DEF Turn, RejectExtract, InVain, loopVars, gateVars, historyVars, TypeOK,
           Refused, Ended, Once,
           FinishIsHeard
  <2>. QED BY <2>3, <2>4, <2>5
<1>16. CASE Record
  <2>1. NextIteration /\ index < MaxSteps /\ pc # "done" /\ pc # "asked"
    BY <1>16 DEF Record, Charged, Looping
  <2>2. Turn
    BY <2>1, TurnTaken DEF TypeOK
  <2>3. TypeOK'
    <3>1. Flags'
      <4>1. trace' \in Trace
        BY <1>16 DEF Record, Trace, TypeOK
      <4>. QED BY <1>16, <2>2, <4>1 DEF Turn, Record, TypeOK, Flags
    <3>2. Values'
      BY <1>16, <2>1, <2>2
         DEF Turn, Record, loopVars, gateVars, historyVars, TypeOK, Values, Charged,
             Pcs, Reasons, Results, Looping
    <3>. QED BY <3>1, <3>2 DEF TypeOK, Flags, Values
  <2>4. Charged' /\ Refused' /\ Ended' /\ Consented'
    BY <1>16, <2>1, <2>2
       DEF Turn, Record, loopVars, gateVars, historyVars, TypeOK, Charged, Refused,
           Ended, Consented, Looping, Once
  <2>5. FinishIsHeard'
    BY <1>16, <2>1, <2>2
       DEF Turn, Record, loopVars, gateVars, historyVars, TypeOK, Refused, Ended, Once,
           FinishIsHeard
  <2>. QED BY <2>3, <2>4, <2>5
<1>17. CASE Exhausted
  BY <1>17
     DEF Exhausted, Ask, loopVars, gateVars, historyVars,
         TypeOK, Pcs, Reasons, Results, Charged, Refused, Ended, Consented,
         FinishIsHeard, Looping, Once
<1>18. CASE HandBack
  <2>1. TypeOK'
    <3>1. Flags'
      BY <1>18
         DEF HandBack, Consent, Return, NextIteration, loopVars, gateVars,
             historyVars, TypeOK, Flags, Trace
    <3>2. Values'
      BY <1>18
         DEF HandBack, Consent, Return, NextIteration, loopVars, gateVars,
             historyVars, TypeOK, Values, Charged,
             Pcs, Reasons, Results, Looping
    <3>. QED BY <3>1, <3>2 DEF TypeOK, Flags, Values
  <2>2. Charged' /\ Refused' /\ Ended' /\ Consented'
    BY <1>18
       DEF HandBack, Consent, Return, NextIteration, loopVars, gateVars, historyVars,
           TypeOK, Charged, Refused,
           Ended, Consented, Looping, Once
  <2>3. FinishIsHeard'
    BY <1>18
       DEF HandBack, Consent, Return, NextIteration, loopVars, gateVars, historyVars,
           TypeOK, Refused, Ended, Once,
           FinishIsHeard
  <2>. QED BY <2>1, <2>2, <2>3
<1>19. CASE EscalationFails
  BY <1>19
     DEF EscalationFails, Return, loopVars, gateVars, historyVars,
         TypeOK, Pcs, Reasons, Results, Charged, Refused, Ended, Consented,
         FinishIsHeard, Looping, Once
<1>20. CASE UNCHANGED vars
  BY <1>20
     DEF vars, loopVars, gateVars, historyVars,
         TypeOK, Pcs, Reasons, Results, Charged, Refused, Ended, Consented,
         FinishIsHeard, Looping, Once
<1>. QED
  BY <1>1, <1>2, <1>3, <1>4, <1>5, <1>6, <1>7, <1>8, <1>9, <1>10, <1>11, <1>12,
  <1>13, <1>14, <1>15, <1>16, <1>17, <1>18, <1>19, <1>20
     DEF Next, Agent, Operator

-----------------------------------------------------------------------------
(* How long a stuck agent may go on by itself                              *)

(* The attempts that the loop guard has on record: attempt n of control c  *)
(* is one of them when c has been tried n times since it was last cleared. *)
Tries(f) == {x \in Controls \X (1 .. LoopThreshold - 1) : x[2] <= f[x[1]]}

Questions == Once(askedParams) + Once(askedExtract)

(* What the agent may have wasted: before each attempt on record fewer     *)
(* skips than a dead end takes, and the attempt itself; the skips since;   *)
(* and the questions of the gates.                                         *)
Allowance == Cardinality(Tries(counts)) * DeadEndThreshold + skips + Questions

(* Whoever is trying, or is about to when the human agrees, is on record.  *)
Trying == pc \in {"act", "look", "recover"}

Counted ==
  Trying \/ (pc = "asked" /\ asked = "risky")
    => control \in Controls /\ counts[control] >= 1

(* The attempt under way may still be wasted, so it is not yet used up.    *)
Wasted ==
  /\ pc \in {"boundary", "decide", "exhausted"} => churn <= Allowance
  /\ Trying => churn + 1 <= Allowance

ChurnInv == Counted /\ Wasted /\ StuckAgentAsksForHelp

(* However the attempts are spread over the controls, they are finitely    *)
(* many: fewer than LoopThreshold of each.                                 *)
LEMMA TriesBounded ==
  ASSUME NEW f \in [Controls -> 0 .. LoopThreshold - 1]
  PROVE  /\ IsFiniteSet(Tries(f))
         /\ Cardinality(Tries(f)) \in Nat /\ Cardinality(Tries(f)) <= MaxTries
         /\ MaxTries \in Nat
<1>. DEFINE All == Controls \X (1 .. LoopThreshold - 1)
<1>1. IsFiniteSet(1 .. LoopThreshold - 1)
        /\ Cardinality(1 .. LoopThreshold - 1) = LoopThreshold - 1
  BY FS_Interval, DiscoveryAssumption
<1>2. IsFiniteSet(All)
        /\ Cardinality(All) = Cardinality(Controls) * (LoopThreshold - 1)
  BY <1>1, FS_Product, FiniteControls
<1>3. Cardinality(Controls) \in Nat
  BY FS_CardinalityType, FiniteControls
<1>4. Cardinality(All) = MaxTries /\ MaxTries \in Nat
  BY <1>2, <1>3, DiscoveryAssumption DEF MaxTries
<1>5. Tries(f) \in SUBSET All
  BY DEF Tries
<1>6. IsFiniteSet(Tries(f)) /\ Cardinality(Tries(f)) <= Cardinality(All)
  BY <1>2, <1>5, FS_Subset
<1>. QED BY <1>4, <1>6, FS_CardinalityType

(* One more attempt of a control is one more on record.                    *)
LEMMA TriesGrow ==
  ASSUME NEW f \in [Controls -> 0 .. LoopThreshold - 1], NEW c \in Controls,
         f[c] + 1 < LoopThreshold
  PROVE  Cardinality(Tries([f EXCEPT ![c] = f[c] + 1])) = Cardinality(Tries(f)) + 1
<1>. DEFINE g == [f EXCEPT ![c] = f[c] + 1]
<1>1. <<c, f[c] + 1>> \notin Tries(f)
  BY DEF Tries
<1>2. ASSUME NEW x \in Controls \X (1 .. LoopThreshold - 1)
      PROVE  x \in Tries(g) <=> x \in Tries(f) \cup {<<c, f[c] + 1>>}
  <2>1. PICK d \in Controls, n \in 1 .. LoopThreshold - 1 : x = <<d, n>>
    OBVIOUS
  <2>2. CASE d = c
    BY <2>1, <2>2, DiscoveryAssumption DEF Tries
  <2>3. CASE d # c
    BY <2>1, <2>3 DEF Tries
  <2>. QED BY <2>2, <2>3
<1>3. <<c, f[c] + 1>> \in Controls \X (1 .. LoopThreshold - 1)
  BY DiscoveryAssumption
<1>4. Tries(g) = Tries(f) \cup {<<c, f[c] + 1>>}
  BY <1>2, <1>3 DEF Tries
<1>. QED BY <1>1, <1>4, TriesBounded, FS_AddElement

(* A control that was tried is on record.                                  *)
LEMMA TriedIsOnRecord ==
  ASSUME NEW f \in [Controls -> 0 .. LoopThreshold - 1], NEW c \in Controls, f[c] >= 1
  PROVE  Cardinality(Tries(f)) >= 1
<1>1. <<c, 1>> \in Tries(f)
  BY DiscoveryAssumption DEF Tries
<1>. QED BY <1>1, TriesBounded, FS_EmptySet

(* The arithmetic of the bound.                                            *)
LEMMA Budget ==
  ASSUME NEW n \in Nat, NEW m \in Nat, n <= m, NEW d \in Nat \ {0}
  PROVE  /\ n * d \in Nat /\ n * d <= m * d
         /\ (n + 1) * d = n * d + d
         /\ n >= 1 => n * d >= d
         /\ m + (m + 1) * (d - 1) + 2 = m * d + d + 1
<1>1. n * d \in Nat /\ m * d \in Nat /\ (n + 1) * d = n * d + d
  OBVIOUS
<1>2. m - n \in Nat /\ m = n + (m - n)
  OBVIOUS
<1>3. m * d = n * d + (m - n) * d /\ (m - n) * d \in Nat
  BY <1>2
<1>4. ASSUME n >= 1 PROVE n * d >= d
  <2>1. n - 1 \in Nat
    BY <1>4
  <2>2. n * d = (n - 1) * d + d /\ (n - 1) * d \in Nat
    BY <2>1
  <2>. QED BY <2>2
<1>5. (m + 1) * (d - 1) = m * d - m + d - 1
  OBVIOUS
<1>. QED BY <1>1, <1>3, <1>4, <1>5

(* What Allowance comes to, and that it is never more than MaxChurn.       *)
LEMMA AllowanceBounded ==
  ASSUME NEW f \in [Controls -> 0 .. LoopThreshold - 1],
         NEW s \in 0 .. DeadEndThreshold - 1, NEW q \in 0 .. 2
  PROVE  /\ Cardinality(Tries(f)) * DeadEndThreshold \in Nat
         /\ Cardinality(Tries(f)) * DeadEndThreshold + s + q <= MaxChurn
<1>. DEFINE n == Cardinality(Tries(f))
<1>1. n \in Nat /\ MaxTries \in Nat /\ n <= MaxTries
  BY TriesBounded
<1>2. DeadEndThreshold \in Nat \ {0}
  BY DiscoveryAssumption
<1>3. n * DeadEndThreshold \in Nat /\ MaxTries * DeadEndThreshold \in Int
        /\ n * DeadEndThreshold <= MaxTries * DeadEndThreshold
        /\ MaxChurn = MaxTries * DeadEndThreshold + DeadEndThreshold + 1
  <2>. HIDE DEF n
  <2>. QED BY <1>1, <1>2, Budget DEF MaxChurn
<1>. QED BY <1>2, <1>3

(* What the counters give for the state and for the next one.              *)
LEMMA AllowanceTyped ==
  ASSUME IInv, IInv'
  PROVE  /\ Cardinality(Tries(counts)) * DeadEndThreshold \in Nat
         /\ Cardinality(Tries(counts')) * DeadEndThreshold \in Nat
         /\ Questions \in 0 .. 2 /\ Questions' \in 0 .. 2
         /\ skips \in 0 .. DeadEndThreshold - 1 /\ skips' \in 0 .. DeadEndThreshold - 1
         /\ churn \in Nat /\ churn' \in Nat /\ index \in Nat
         /\ Allowance' <= MaxChurn
<1>1. counts \in [Controls -> 0 .. LoopThreshold - 1]
        /\ counts' \in [Controls -> 0 .. LoopThreshold - 1]
        /\ skips \in 0 .. DeadEndThreshold - 1 /\ skips' \in 0 .. DeadEndThreshold - 1
        /\ churn \in Nat /\ churn' \in Nat /\ index \in Nat
  BY DiscoveryAssumption DEF IInv, TypeOK
<1>2. Questions \in 0 .. 2 /\ Questions' \in 0 .. 2
  BY DEF Questions, Once
<1>. QED BY <1>1, <1>2, AllowanceBounded DEF Allowance

LEMMA InitChurnInv == Init => ChurnInv
<1>. SUFFICES ASSUME Init PROVE ChurnInv
  OBVIOUS
<1>1. IInv
  BY InitIInv
<1>2. Questions \in 0 .. 2
  BY DEF Questions, Once
<1>3. counts \in [Controls -> 0 .. LoopThreshold - 1]
        /\ skips \in 0 .. DeadEndThreshold - 1
  BY <1>1 DEF IInv, TypeOK
<1>4. Cardinality(Tries(counts)) * DeadEndThreshold \in Nat /\ Allowance <= MaxChurn
  BY <1>2, <1>3, AllowanceBounded DEF Allowance
<1>5. 0 <= Allowance /\ Allowance \in Int
  BY <1>2, <1>3, <1>4, DiscoveryAssumption DEF Allowance
<1>6. MaxChurn \in Int
  <2>1. MaxTries \in Nat
    BY <1>3, TriesBounded
  <2>. QED BY <2>1, DiscoveryAssumption DEF MaxChurn
<1>. QED
  BY <1>4, <1>5, <1>6
     DEF Init, ChurnInv, Counted, Wasted, Trying, StuckAgentAsksForHelp

(* An iteration in vain uses up what was set aside for it, a skip or a     *)
(* question of the gates.                                                  *)
LEMMA NextChurnInv ==
  ASSUME IInv, IInv', ChurnInv, [Next]_vars
  PROVE  ChurnInv'
<1>. USE DiscoveryAssumption, AllowanceTyped
<1>0. MaxChurn \in Nat
  <2>1. MaxTries \in Nat
    BY TriesBounded DEF IInv, TypeOK
  <2>. QED BY <2>1 DEF MaxChurn
<1>. DEFINE Spent == Cardinality(Tries(counts)) * DeadEndThreshold
<1>1. ASSUME counts' = counts, skips' = skips, Questions' = Questions, churn' = churn,
             \/ Interrupted \/ TakeOver \/ Observe \/ Raises \/ AcceptFinish \/ ActWorks
             \/ OffAllowlist \/ RecoverableFault \/ OtherFault \/ Exhausted
             \/ EscalationFails \/ UNCHANGED vars
      PROVE  ChurnInv'
  <2>1. Allowance' = Allowance
    BY <1>1 DEF Allowance
  <2>2. Counted'
    BY <1>1
       DEF ChurnInv, Counted, Trying, Interrupted, TakeOver, Observe, Raises,
           AcceptFinish, ActWorks, OffAllowlist, RecoverableFault, OtherFault, Exhausted,
           EscalationFails, vars, Return, Ask, loopVars
  <2>3. Wasted'
    BY <1>1, <2>1
       DEF ChurnInv, Wasted, Trying, Interrupted, TakeOver, Observe, Raises,
           AcceptFinish, ActWorks, OffAllowlist, RecoverableFault, OtherFault, Exhausted,
           EscalationFails, vars, Return, Ask, loopVars
  <2>. QED BY <1>1, <2>2, <2>3 DEF ChurnInv, StuckAgentAsksForHelp
<1>2. ASSUME Skip \/ (ActFails /\ ~escalated) PROVE ChurnInv'
  <2>1. counts' = counts /\ Questions' = Questions /\ NoteSkip(skips)
    BY <1>2 DEF Skip, ActFails, gateVars, Questions
  <2>2. CASE skips + 1 >= DeadEndThreshold
    BY <2>1, <2>2
       DEF NoteSkip, Ask, ChurnInv, Counted, Wasted, Trying, StuckAgentAsksForHelp
  <2>3. CASE ~(skips + 1 >= DeadEndThreshold)
    <3>1. skips' = skips + 1 /\ churn' = churn + 1 /\ pc' \in {"boundary", "exhausted"}
      BY <2>1, <2>3 DEF NoteSkip, NextIteration, InVain
    <3>2. churn <= Allowance
      BY <1>2 DEF Skip, ActFails, ChurnInv, Wasted, Trying, Allowance
    <3>3. churn' <= Allowance'
      BY <2>1, <3>1, <3>2 DEF Allowance
    <3>. QED
      BY <3>1, <3>3, <1>0
         DEF Allowance, ChurnInv, Counted, Wasted, Trying, StuckAgentAsksForHelp
  <2>. QED BY <2>2, <2>3
<1>3. ASSUME ActFails /\ escalated PROVE ChurnInv'
  <2>1. counts' = counts /\ skips' = skips /\ Questions' = Questions /\ churn' = churn
    BY <1>3 DEF ActFails, gateVars, Questions
  <2>2. Allowance' = Allowance
    BY <2>1 DEF Allowance
  <2>. QED
    BY <1>3, <2>1, <2>2
       DEF ActFails, ChurnInv, Counted, Wasted, Trying, StuckAgentAsksForHelp
<1>4. ASSUME NEW c \in Controls, Decide(c) PROVE ChurnInv'
  <2>1. counts \in [Controls -> 0 .. LoopThreshold - 1] /\ counts[c] \in Nat
    BY DEF IInv, TypeOK
  <2>2. churn' = churn /\ Questions' = Questions /\ skips' = 0 /\ control' = c
    BY <1>4 DEF Decide, gateVars, historyVars, Questions
  <2>3. CASE counts[c] + 1 >= LoopThreshold
    BY <1>4, <2>2, <2>3
       DEF Decide, Ask, ChurnInv, Counted, Wasted, Trying, StuckAgentAsksForHelp
  <2>4. CASE ~(counts[c] + 1 >= LoopThreshold)
    <3>1. counts' = [counts EXCEPT ![c] = counts[c] + 1]
      BY <1>4, <2>4 DEF Decide
    <3>2. Cardinality(Tries(counts')) = Cardinality(Tries(counts)) + 1
      <4>1. counts[c] + 1 < LoopThreshold
        BY <2>1, <2>4
      <4>2. Cardinality(Tries([counts EXCEPT ![c] = counts[c] + 1]))
              = Cardinality(Tries(counts)) + 1
        BY ONLY <2>1, <4>1, TriesGrow
      <4>. QED BY ONLY <3>1, <4>2
    <3>3. Cardinality(Tries(counts')) * DeadEndThreshold = Spent + DeadEndThreshold
      <4>1. Cardinality(Tries(counts)) \in Nat
        BY <2>1, TriesBounded
      <4>. QED BY <3>2, <4>1, Budget
    <3>4. churn <= Allowance
      BY <1>4 DEF Decide, ChurnInv, Wasted
    <3>5. churn' + 1 <= Allowance'
      BY <2>2, <3>3, <3>4 DEF Allowance
    <3>6. pc' \in {"act", "asked"} /\ counts'[control'] >= 1
      BY <1>4, <2>1, <2>2, <2>4, <3>1 DEF Decide, Ask
    <3>. QED
      BY <2>2, <3>5, <3>6 DEF ChurnInv, Counted, Wasted, Trying, StuckAgentAsksForHelp
  <2>. QED BY <2>3, <2>4
<1>5. ASSUME RejectFinish PROVE ChurnInv'
  <2>1. counts' = counts /\ skips' = skips /\ Questions' = Questions + 1
          /\ churn' = churn + 1 /\ pc' \in {"boundary", "exhausted"}
    BY <1>5
       DEF RejectFinish, ParamsMissing, NothingToReport, NextIteration, InVain, Questions,
           Once, IInv, TypeOK
  <2>2. churn' <= Allowance'
    BY <1>5, <2>1 DEF RejectFinish, ChurnInv, Wasted, Allowance
  <2>. QED
    BY <2>1, <2>2, <1>0
       DEF Allowance, ChurnInv, Counted, Wasted, Trying, StuckAgentAsksForHelp
<1>6. ASSUME Recover \/ RejectExtract PROVE ChurnInv'
  <2>1. counts' = counts /\ skips' = skips /\ Questions' = Questions
          /\ churn' = churn + 1 /\ pc' \in {"boundary", "exhausted"} /\ Trying
    BY <1>6
       DEF Recover, RejectExtract, NextIteration, InVain, gateVars, Questions, Trying
  <2>2. churn' <= Allowance'
    BY <2>1 DEF ChurnInv, Wasted, Allowance
  <2>. QED
    BY <2>1, <2>2, <1>0
       DEF Allowance, ChurnInv, Counted, Wasted, Trying, StuckAgentAsksForHelp
<1>7. ASSUME Record PROVE ChurnInv'
  <2>1. churn' = 0 /\ pc' \in {"boundary", "exhausted"}
    BY <1>7 DEF Record, NextIteration
  <2>2. churn' <= Allowance'
    BY <2>1 DEF Allowance
  <2>. QED
    BY <2>1, <2>2, <1>0
       DEF Allowance, ChurnInv, Counted, Wasted, Trying, StuckAgentAsksForHelp
<1>8. ASSUME HandBack PROVE ChurnInv'
  <2>1. churn' = 0 /\ counts' = counts /\ pc = "asked" /\ asked' = "none"
    BY <1>8 DEF HandBack
  <2>2. churn' <= Allowance'
    BY <2>1 DEF Allowance
  <2>3. CASE asked = "risky"
    <3>1. pc' = "act" /\ control' = control
      BY <1>8, <2>3 DEF HandBack, Consent
    <3>2. control \in Controls /\ counts[control] >= 1
      BY <2>1, <2>3 DEF ChurnInv, Counted
    <3>3. Cardinality(Tries(counts)) >= 1 /\ Cardinality(Tries(counts)) \in Nat
      <4>1. counts \in [Controls -> 0 .. LoopThreshold - 1]
        BY DEF IInv, TypeOK
      <4>. QED BY <3>2, <4>1, TriedIsOnRecord, TriesBounded
    <3>4. Spent >= DeadEndThreshold
      BY <3>3, Budget
    <3>5. churn' + 1 <= Allowance'
      BY <2>1, <3>4 DEF Allowance
    <3>. QED
      BY <1>0, <2>1, <3>1, <3>2, <3>5
         DEF ChurnInv, Counted, Wasted, Trying, StuckAgentAsksForHelp
  <2>4. CASE asked # "risky"
    <3>1. pc' \in {"boundary", "exhausted", "decide", "done"}
      BY <1>8, <2>4 DEF HandBack, Consent, NextIteration, Return
    <3>. QED
      BY <1>0, <2>1, <2>2, <3>1
         DEF ChurnInv, Counted, Wasted, Trying, StuckAgentAsksForHelp
  <2>. QED BY <2>3, <2>4
<1>9. ASSUME \/ Interrupted \/ TakeOver \/ Observe \/ Raises \/ AcceptFinish \/ ActWorks
             \/ OffAllowlist \/ RecoverableFault \/ OtherFault \/ Exhausted
             \/ EscalationFails \/ UNCHANGED vars
      PROVE  counts' = counts /\ skips' = skips /\ Questions' = Questions /\ churn' = churn
  BY <1>9
     DEF Interrupted, TakeOver, Observe, Raises, AcceptFinish, ActWorks, OffAllowlist,
         RecoverableFault, OtherFault, Exhausted, EscalationFails, vars, loopVars,
         gateVars, historyVars, Questions
<1>. QED
  BY <1>1, <1>2, <1>3, <1>4, <1>5, <1>6, <1>7, <1>8, <1>9 DEF Next, Agent, Operator

-----------------------------------------------------------------------------
(* The theorems                                                            *)

THEOREM Invariance == Spec => []IInv
BY InitIInv, NextIInv, PTL DEF Spec

(* Every variable keeps its type; the counters keep their bounds.          *)
THEOREM TypeCorrect == Spec => []TypeOK
<1>1. IInv => TypeOK
  BY DEF IInv
<1>. QED BY Invariance, <1>1, PTL

(* The gates refuse a finish at most twice in a run, whatever the model    *)
(* does in between and however long the run is.                            *)
THEOREM GatesDoNotTrap == Spec => []FinishIsHeard
<1>1. IInv => FinishIsHeard
  BY DEF IInv
<1>. QED BY Invariance, <1>1, PTL

(* A stuck agent asks for a human: the iterations that neither record a    *)
(* step nor ask anybody are bounded, however skips, failed attempts,       *)
(* dismissed pages and refused finishes take turns, and whatever budget    *)
(* the run has left.                                                       *)
THEOREM StuckIsNoticed == Spec => []StuckAgentAsksForHelp
<1>1. IInv /\ ChurnInv /\ [Next]_vars => ChurnInv'
  BY NextIInv, NextChurnInv
<1>2. ChurnInv => StuckAgentAsksForHelp
  BY DEF ChurnInv
<1>. QED BY Invariance, InitChurnInv, <1>1, <1>2, PTL DEF Spec

(* Every attempt of an irreversible action follows directly on the         *)
(* operator's answer to the question about it.                             *)
THEOREM RiskConfirmed == Spec => RiskyActionsConfirmed
<1>1. IInv /\ [Next]_vars
        => [\A c \in Risky :
              ActsOn(c) /\ call.attended /\ ~call.confirmRisky => handedFor = "risky"]_vars
  BY DEF IInv, Consented, ActsOn
<1>. QED BY Invariance, <1>1, PTL DEF Spec, RiskyActionsConfirmed
=============================================================================
