---------------------------- MODULE ReplayProofs ----------------------------
(***************************************************************************)
(* What holds of Replay for artifacts of every length, for all sets of     *)
(* outcome patterns and for all retry budgets.                             *)
(*                                                                         *)
(* What a step of run() may rely on was established some steps before it,  *)
(* with the environment moving in between: that a step about to act has    *)
(* its confirmation, that a step about to be passed is accounted for, that *)
(* the budget charged is that of the pattern retried.  IInv carries each   *)
(* of those facts from where it is established to where it is used.        *)
(***************************************************************************)
EXTENDS Replay, TLAPS

(* Where run() is at a step, and the reasons it may have handed over.      *)
AtStep == {"match", "rematch", "confirm", "bind", "act", "actFailed", "screenAfter"}

PlaceInv ==
  /\ pc \in AtStep => index \in Step
  /\ pc = "human" => asked # "none"
  /\ pc = "human" /\ asked # "recovery" => index \in Step
  /\ pc # "done" => result = "none"

(* A confirmation is at hand wherever the next thing is the risky action.  *)
ConsentInv ==
  /\ pc \in {"bind", "act"} /\ NeedsConfirmation => lastHanded = "risky"
  /\ pc = "recover" /\ Recovery[pending] = "risky"
       /\ call.attended /\ ~call.confirmRisky => lastHanded = "recovery"
  /\ pc = "act" /\ index \notin call.targeted => page = "screened"
  /\ page = "landed" => pc \in {"screenAfter", "screenRecovered", "done"}

(* What run() is about to take for done has been done.                     *)
ProgressInv ==
  /\ pc \in {"bind", "act", "actFailed", "screenAfter"} /\ escalated => index \in handed
  /\ pc = "screenAfter" => index \in performed \cup handed
  /\ NothingSkipped
  /\ SuccessEarned

(* Retries are charged to the pattern, and leave a trace.                  *)
BudgetInv ==
  /\ \A p \in Own : used[p] = retried[p] /\ retried[p] <= MaxRetries[p]
  /\ recoveredFrom = None => \A p \in Patterns : retried[p] = 0
  /\ RecoveryNotBlamed

IInv == TypeOK /\ PlaceInv /\ ConsentInv /\ ProgressInv /\ BudgetInv

USE DEF Step, Patterns, Objects, Outcomes, Looking, AtStep, Closing, Goto,
        retryVars, resultVars, historyVars

LEMMA InitEstablishes == Init => IInv
<1> SUFFICES ASSUME Init PROVE IInv
  OBVIOUS
<1> USE ReplayAssumption DEF Init
<1>1. TypeOK
  <2>1. used \in [Objects -> Nat] /\ retried \in [Patterns -> Nat]
    OBVIOUS
  <2>2. index \in 1 .. NSteps + 1
    OBVIOUS
  <2>. QED BY <2>1, <2>2 DEF TypeOK
<1>2. PlaceInv /\ ConsentInv
  BY DEF PlaceInv, ConsentInv
<1>3. ProgressInv
  BY DEF ProgressInv, NothingSkipped, SuccessEarned
<1>4. BudgetInv
  BY DEF BudgetInv, RecoveryNotBlamed
<1>. QED BY <1>1, <1>2, <1>3, <1>4 DEF IInv

(* The page matches a pattern: the budget that is charged is that of the   *)
(* object matched, and it is the pattern's own only for the artifact's.    *)
LEMMA MatchedPreserves ==
  ASSUME IInv, Matched
  PROVE  IInv'
<1> USE ReplayAssumption
        DEF IInv, TypeOK, PlaceInv, ConsentInv, ProgressInv, BudgetInv,
            NothingSkipped, SuccessEarned, RecoveryNotBlamed, NeedsConfirmation
<1>1. PICK p \in Patterns :
        \/ AskAboutOutcome(p)
        \/ \E o \in Identities(p) : Retry(p, o) \/ Report(p, o)
  BY DEF Matched
<1>2. CASE AskAboutOutcome(p)
  BY <1>2 DEF AskAboutOutcome, Unexpected
<1>3. ASSUME NEW o \in Identities(p), Retry(p, o)
      PROVE  IInv'
  BY <1>3 DEF Retry, Retriable, Remember, Identities
<1>4. ASSUME NEW o \in Identities(p), Report(p, o)
      PROVE  IInv'
  BY <1>4 DEF Report, Remember, Return, Identities
<1>. QED BY <1>1, <1>2, <1>3, <1>4

(* Everything else the engine does.                                        *)
LEMMA EnginePreserves ==
  ASSUME IInv, Engine
  PROVE  IInv'
<1> USE ReplayAssumption
        DEF IInv, TypeOK, PlaceInv, ConsentInv, ProgressInv, BudgetInv,
            NothingSkipped, SuccessEarned, RecoveryNotBlamed, NeedsConfirmation
<1>1. CASE RejectInput
  BY <1>1 DEF RejectInput, Return
<1>2. CASE AcceptInput
  BY <1>2 DEF AcceptInput
<1>3. CASE BeginStep
  BY <1>3 DEF BeginStep
<1>4. CASE NothingUnexpected
  BY <1>4 DEF NothingUnexpected
<1>5. CASE AssumeDoneManually
  BY <1>5 DEF AssumeDoneManually
<1>6. CASE UnclassifiedFailure
  BY <1>6 DEF UnclassifiedFailure, Return
<1>7. CASE ScreenRecovery
  BY <1>7 DEF ScreenRecovery
<1>8. CASE Recover
  <2>1. pc' = "top" \/ pc' = "screenRecovered"
    BY <1>8 DEF Recover
  <2>2. TypeOK' /\ PlaceInv'
    BY <1>8, <2>1 DEF Recover
  <2>3. ConsentInv' /\ ProgressInv'
    BY <1>8, <2>1 DEF Recover
  <2>4. BudgetInv'
    BY <1>8, <2>1 DEF Recover
  <2>. QED BY <2>2, <2>3, <2>4
<1>9. CASE ScreenRecovered
  <2>1. TypeOK' /\ PlaceInv'
    BY <1>9 DEF ScreenRecovered
  <2>2. ConsentInv' /\ ProgressInv'
    BY <1>9 DEF ScreenRecovered
  <2>3. BudgetInv'
    BY <1>9 DEF ScreenRecovered
  <2>. QED BY <2>1, <2>2, <2>3
<1>10. CASE MissingParam
  BY <1>10 DEF MissingParam, Return
<1>11. CASE ScreenStep
  BY <1>11 DEF ScreenStep
<1>12. CASE ScreenAfter
  BY <1>12 DEF ScreenAfter
<1>13. CASE AllowlistViolation
  BY <1>13 DEF AllowlistViolation, Return
<1>14. CASE Succeed
  BY <1>14 DEF Succeed, Return
<1>15. CASE SuccessNotReached
  BY <1>15 DEF SuccessNotReached
<1>16. CASE Confirm
  <2>1. index \in Step
    BY <1>16 DEF Confirm
  <2>2. TypeOK'
    <3>1. pc' \in {"human", "bind"} /\ asked' \in {asked, "risky"}
      BY <1>16 DEF Confirm
    <3>2. UNCHANGED <<call, index, pending, recoveredFrom, used, result, cause,
                      performed, handed, lastHanded, page, retried>>
      BY <1>16 DEF Confirm
    <3>3. escalated' \in BOOLEAN
      BY <1>16 DEF Confirm
    <3>. QED BY <3>1, <3>2, <3>3
  <2>3. PlaceInv'
    BY <1>16, <2>1 DEF Confirm
  <2>4. ConsentInv'
    BY <1>16 DEF Confirm
  <2>5. ProgressInv'
    BY <1>16 DEF Confirm
  <2>6. BudgetInv'
    BY <1>16 DEF Confirm
  <2>. QED BY <2>2, <2>3, <2>4, <2>5, <2>6
<1>17. CASE Act
  <2>1. index \in Step
    BY <1>17 DEF Act
  <2>2. TypeOK' /\ PlaceInv'
    BY <1>17, <2>1 DEF Act
  <2>3. ConsentInv'
    BY <1>17 DEF Act
  <2>4. ProgressInv'
    BY <1>17, <2>1 DEF Act
  <2>5. BudgetInv'
    BY <1>17 DEF Act
  <2>. QED BY <2>2, <2>3, <2>4, <2>5
<1>18. CASE Matched
  BY <1>18, MatchedPreserves
<1>. QED
  BY <1>1, <1>2, <1>3, <1>4, <1>5, <1>6, <1>7, <1>8, <1>9, <1>10, <1>11, <1>12,
     <1>13, <1>14, <1>15, <1>16, <1>17, <1>18
     DEF Engine

LEMMA HumanPreserves ==
  ASSUME IInv, Human
  PROVE  IInv'
<1> USE ReplayAssumption
        DEF IInv, TypeOK, PlaceInv, ConsentInv, ProgressInv, BudgetInv,
            NothingSkipped, SuccessEarned, RecoveryNotBlamed, NeedsConfirmation
<1>1. CASE TakeOver
  BY <1>1 DEF TakeOver
<1>2. CASE Resume
  BY <1>2 DEF Resume, HandBack
<1>3. CASE FinishIfAlreadySucceeded
  BY <1>3 DEF FinishIfAlreadySucceeded, HandBack, Return
<1>4. CASE EscalationFails
  BY <1>4 DEF EscalationFails, Return
<1>5. CASE Interrupted
  BY <1>5 DEF Interrupted, Return
<1>. QED BY <1>1, <1>2, <1>3, <1>4, <1>5 DEF Human

(* Init => IInv and IInv /\ [Next]_vars => IInv'.                          *)
THEOREM Invariance == Spec => []IInv
<1>1. IInv /\ [Next]_vars => IInv'
  <2> SUFFICES ASSUME IInv, [Next]_vars PROVE IInv'
    OBVIOUS
  <2>1. CASE Next
    BY <2>1, EnginePreserves, HumanPreserves DEF Next
  <2>2. CASE UNCHANGED vars
    BY <2>2
       DEF vars, IInv, TypeOK, PlaceInv, ConsentInv, ProgressInv, BudgetInv,
           NothingSkipped, SuccessEarned, RecoveryNotBlamed, NeedsConfirmation
  <2>. QED BY <2>1, <2>2
<1>. QED BY InitEstablishes, <1>1, PTL DEF Spec

-----------------------------------------------------------------------------
(* Every variable of a replay keeps its type.                              *)
THEOREM TypeCorrect == Spec => []TypeOK
<1>1. IInv => TypeOK
  BY DEF IInv
<1>. QED BY <1>1, Invariance, PTL

(* Whatever the artifact, no step is passed over: ReplayEngine.run moves   *)
(* past a step it performed, or one at which a human had control.          *)
THEOREM NoStepSkipped == Spec => []NothingSkipped
<1>1. IInv => NothingSkipped
  BY DEF IInv, ProgressInv
<1>. QED BY <1>1, Invariance, PTL

(* A success went through every step, or a human handed it back.           *)
THEOREM SuccessIsEarned == Spec => []SuccessEarned
<1>1. IInv => SuccessEarned
  BY DEF IInv, ProgressInv
<1>. QED BY <1>1, Invariance, PTL

(* For every artifact and every retry budget, the patterns the artifact    *)
(* declares itself are retried within their max_retries.  Nothing of the   *)
(* kind holds of the outcome library's.                                    *)
THEOREM OwnBudgetKept == Spec => []OwnRetriesWithinBudget
<1>1. IInv => OwnRetriesWithinBudget
  BY DEF IInv, BudgetInv, OwnRetriesWithinBudget
<1>. QED BY <1>1, Invariance, PTL

(* A run that recovered from a recognised condition never ends in an       *)
(* unexplained hard failure.                                               *)
THEOREM InterruptionExplains == Spec => []RecoveryNotBlamed
<1>1. IInv => RecoveryNotBlamed
  BY DEF IInv, BudgetInv
<1>. QED BY <1>1, Invariance, PTL

(* Every attempt of a risky step, and every risky recovery action, is      *)
(* confirmed by an operator right before it, when there is one to ask and  *)
(* the caller has not confirmed beforehand.                                *)
THEOREM RiskConfirmed == Spec => RiskyActionsConfirmed
<1> DEFINE Confirmed ==
      call.attended /\ ~call.confirmRisky =>
        /\ ActsOnStep /\ index \in call.risky => lastHanded = "risky"
        /\ ActsToRecover /\ Recovery[pending] = "risky" => lastHanded = "recovery"
<1>1. IInv => Confirmed
  BY DEF IInv, ConsentInv, NeedsConfirmation, ActsOnStep, ActsToRecover
<1> HIDE DEF Confirmed
<1>2. IInv /\ [Next]_vars => [Confirmed]_vars
  BY <1>1
<1>3. Spec => [][Confirmed]_vars
  BY <1>2, Invariance, PTL DEF Spec
<1>. QED BY <1>3 DEF Confirmed, RiskyActionsConfirmed

(* The engine never acts on a page its own last action led to before that  *)
(* page passed the allowlist, and a step without a target never on any     *)
(* page that did not.                                                      *)
THEOREM LandingsAreScreened == Spec => LandingsScreened
<1> DEFINE Screened ==
      /\ ActsOnStep \/ ActsToRecover => page # "landed"
      /\ ActsOnStep /\ index \notin call.targeted => page = "screened"
<1>1. IInv => Screened
  BY DEF IInv, ConsentInv, ActsOnStep, ActsToRecover
<1> HIDE DEF Screened
<1>2. IInv /\ [Next]_vars => [Screened]_vars
  BY <1>1
<1>3. Spec => [][Screened]_vars
  BY <1>2, Invariance, PTL DEF Spec
<1>. QED BY <1>3 DEF Screened, LandingsScreened
=============================================================================
