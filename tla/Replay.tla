------------------------------- MODULE Replay -------------------------------
(***************************************************************************)
(* ReplayEngine.run: one deterministic replay of a recorded artifact,      *)
(* against a page, an operator and a policy it does not control.           *)
(*                                                                         *)
(* The page is the environment: every look at it (a checkpoint, an outcome *)
(* pattern, the URL) may find anything, because steps, operators, waiting  *)
(* and the host itself change it.  What an operator does while he has      *)
(* control is in what the next look finds.  The engine's polls for an      *)
(* interrupt and the handoff itself are RunControl's; here an escalation   *)
(* ends by a handback, a failure or an interrupt.                          *)
(*                                                                         *)
(* Steps are numbered from 1, artifact.steps[i] being step i+1; the index  *)
(* past the last step is the engine's closing loop.                        *)
(***************************************************************************)
EXTENDS Naturals

CONSTANTS
  NSteps,      \* len(artifact.steps)
  Own,         \* artifact.outcome_patterns
  Library,     \* outcome_patterns_for_target(artifact.target)
  Outcome,     \* OutcomePattern.outcome, by pattern
  MaxRetries,  \* OutcomePattern.max_retries, by pattern
  Recovery,    \* the risk tier of its recovery_action, "none" without one
  Elsewhere,   \* patterns whose recovery_action has a target URL of its own
  Addresses,   \* what id() may say of an object built during the run
  None         \* None

Step     == 1 .. NSteps
Patterns == Own \cup Library
Objects  == Own \cup Addresses
Outcomes == {"input_error", "success", "business_outcome", "recoverable",
             "hard_failure"}

ASSUME ReplayAssumption ==
  /\ NSteps \in Nat
  /\ Own \cap Library = {} /\ Own \cap Addresses = {}
  /\ None \notin Patterns \cup Addresses
  /\ Outcome \in [Patterns -> {"business_outcome", "recoverable", "hard_failure"}]
  /\ MaxRetries \in [Patterns -> Nat]
  /\ Recovery \in [Patterns -> {"none", "safe", "risky"}]
  /\ Elsewhere \subseteq Patterns

(* What a caller hands to run(), and the part of the artifact that decides *)
(* its control flow.                                                       *)
Call == [confirmRisky : BOOLEAN,       \* the caller has confirmed risky steps
         attended     : BOOLEAN,       \* there is an EscalationController
         valid        : BOOLEAN,       \* validate_required_params(...) is None
         risky        : SUBSET Step,   \* steps of risk tier "risky"
         targeted     : SUBSET Step,   \* steps recorded with a target URL
         checked      : SUBSET Step,   \* steps with a checkpoint of their own
         unsupplied   : SUBSET Step]   \* steps whose parameter is not in params

VARIABLES
  call,           \* the Call, fixed
  pc,             \* where run() is
  index,          \* the step run() is at
  asked,          \* why a human has control
  pending,        \* the pattern being recovered from
  recoveredFrom,  \* recovered_from, as the object it is
  used,           \* retries_used, by object
  escalated,      \* escalated_for_this_step
  result,         \* the ReplayResult's outcome, "interrupted" for none at all
  cause,          \* what ended the run: which kind of return statement
  performed,      \* history: steps whose action the engine performed
  handed,         \* history: steps at which an operator was given control
  lastHanded,     \* history: the last handback, "none" after a later action
  page,           \* history: who moved the page last, or that it was screened since
  retried         \* history: retries, by pattern

controlVars == <<pc, index, asked, pending, escalated>>
retryVars   == <<recoveredFrom, used, retried>>
resultVars  == <<result, cause>>
historyVars == <<performed, handed, lastHanded, page>>
vars == <<call, pc, index, asked, pending, recoveredFrom, used, escalated,
          result, cause, performed, handed, lastHanded, page, retried>>

Init ==
  /\ call \in Call
  /\ pc = "validate" /\ index = 1 /\ asked = "none" /\ pending = None
  /\ recoveredFrom = None /\ used = [o \in Objects |-> 0]
  /\ escalated = FALSE
  /\ result = "none" /\ cause = "none"
  /\ performed = {} /\ handed = {} /\ lastHanded = "none"
  /\ page = "opened"
  /\ retried = [p \in Patterns |-> 0]

(* Mutant: the loop takes one step too many.                               *)
ClosingLate == index > NSteps + 1

(* The loop over the steps is over.                                        *)
Closing == index > NSteps

Goto(from, to) == pc = from /\ pc' = to

(* run() returns a result, for a reason of this kind.                      *)
Return(outcome, why) ==
  /\ pc' = "done" /\ result' = outcome /\ cause' = why
  /\ UNCHANGED <<index, asked, pending, escalated>>

-----------------------------------------------------------------------------
(* Entering the loop                                                       *)

(* validate_required_params, before anything else.                         *)
RejectInput ==
  /\ pc = "validate" /\ ~call.valid
  /\ Return("input_error", "input")
  /\ UNCHANGED <<call, retryVars, historyVars>>

AcceptInput ==
  /\ Goto("validate", "top") /\ call.valid
  /\ UNCHANGED <<call, index, asked, pending, escalated, retryVars, resultVars, historyVars>>

(* raise_if_interrupted: RunInterrupted leaves run() uncaught, whether it  *)
(* is raised by the poll or out of an escalation.                          *)
Interrupted ==
  /\ call.attended
  /\ \/ pc = "top" /\ ~Closing
     \/ pc = "human"
  /\ Return("interrupted", "interrupt")
  /\ UNCHANGED <<call, retryVars, historyVars>>

(* A takeover was requested: a human gets control before the step.         *)
TakeOver ==
  /\ Goto("top", "human") /\ ~Closing /\ call.attended
  /\ asked' = "takeover"
  /\ UNCHANGED <<call, index, pending, escalated, retryVars, resultVars, historyVars>>

BeginStep ==
  /\ Goto("top", "match") /\ ~Closing
  /\ UNCHANGED <<call, index, asked, pending, escalated, retryVars, resultVars, historyVars>>

-----------------------------------------------------------------------------
(* A human has control                                                     *)

(* escalate() raises: its transport failed, or the run was cancelled.      *)
EscalationFails ==
  /\ pc = "human"
  /\ Return("hard_failure", "handoff")
  /\ UNCHANGED <<call, retryVars, historyVars>>

HandBack ==
  /\ lastHanded' = asked
  /\ handed' = IF asked = "risky" THEN handed \cup {index} ELSE handed
  /\ page' = "handedBack"
  /\ UNCHANGED <<call, retryVars, performed>>

(* The operator hands back, and run() goes on from where it asked.         *)
Resume ==
  /\ pc = "human" /\ HandBack
  /\ pc' = CASE asked = "takeover"   -> "match"
             [] asked = "unexpected" -> "rematch"
             [] asked = "risky"      -> "bind"
             [] asked = "recovery"   -> "recover"
  /\ escalated' = IF asked = "risky" THEN TRUE ELSE escalated
  /\ UNCHANGED <<index, asked, pending, resultVars>>

(* Mutant: success is looked for before every step.                        *)
FinishWheneverSucceeded ==
  /\ pc = "match" \/ (pc = "human" /\ asked # "recovery")
  /\ UNCHANGED <<call, retryVars, historyVars>>
  /\ Return("success", "checkpoint")

(* _finish_if_already_succeeded: he has finished the whole task himself.   *)
(* Not looked at before a recovery action.                                 *)
FinishIfAlreadySucceeded ==
  /\ pc = "human" /\ asked # "recovery" /\ HandBack
  /\ Return("success", "checkpoint")

-----------------------------------------------------------------------------
(* The page shows an outcome pattern                                       *)

(* Where run() calls _match_outcome_pattern.                               *)
Looking == {"match", "rematch", "actFailed", "checkpointFailed"}

(* The artifact's own patterns live as long as the run; the library's are  *)
(* built anew by every call, and id() of a new object may be that of any   *)
(* object already freed: of any but the one recovered_from still holds.    *)
Identities(p) == IF p \in Own THEN {p} ELSE Addresses \ {recoveredFrom}

(* Steps from this one on that a human confirmed as risky in discovery.    *)
RiskyAhead == {i \in call.risky : i >= index}

Unexpected(p) == /\ pc = "match" /\ Outcome[p] = "business_outcome"
                 /\ RiskyAhead # {} /\ call.attended

(* A business outcome on the way to a risky step: a human looks first.     *)
AskAboutOutcome(p) ==
  /\ Unexpected(p)
  /\ pc' = "human" /\ asked' = "unexpected"
  /\ UNCHANGED <<call, index, pending, escalated, retryVars, resultVars, historyVars>>

(* Mutant: one retry too many.                                             *)
RetriableOffByOne(p, o) == Outcome[p] = "recoverable" /\ used[o] <= MaxRetries[p]

(* A recoverable pattern, with retry budget left.                          *)
Retriable(p, o) == Outcome[p] = "recoverable" /\ used[o] < MaxRetries[p]

Remember(p, o) ==
  recoveredFrom' = IF Outcome[p] = "recoverable" THEN o ELSE recoveredFrom

(* Mutant: the retry is not counted.                                       *)
RetryUncounted(p, o) ==
  /\ pc \in Looking /\ Retriable(p, o)
  /\ Remember(p, o)
  /\ pending' = p
  /\ pc' = IF Recovery[p] = "none" THEN "top" ELSE "screenRecovery"
  /\ UNCHANGED <<call, index, asked, escalated, used, retried, resultVars, historyVars>>

(* _should_retry is true: the budget is charged, the recovery action, if   *)
(* there is one, is attempted, and the same step is begun again.           *)
Retry(p, o) ==
  /\ pc \in Looking /\ Retriable(p, o)
  /\ Remember(p, o)
  /\ used' = [used EXCEPT ![o] = @ + 1]
  /\ retried' = [retried EXCEPT ![p] = @ + 1]
  /\ pending' = p
  /\ pc' = IF Recovery[p] = "none" THEN "top" ELSE "screenRecovery"
  /\ UNCHANGED <<call, index, asked, escalated, resultVars, historyVars>>

(* It is false: the pattern's own outcome is the result.                   *)
Report(p, o) ==
  /\ pc \in Looking /\ ~Unexpected(p) /\ ~Retriable(p, o)
  /\ Remember(p, o)
  /\ Return(Outcome[p], "recognised")
  /\ UNCHANGED <<call, used, retried, historyVars>>

Matched == \E p \in Patterns :
             \/ AskAboutOutcome(p)
             \/ \E o \in Identities(p) : Retry(p, o) \/ Report(p, o)

(* No pattern matches: the step is begun, or begun again after the human   *)
(* has cleared the page.                                                   *)
NothingUnexpected ==
  /\ Goto("match", "confirm") \/ Goto("rematch", "top")
  /\ UNCHANGED <<call, index, asked, pending, escalated, retryVars, resultVars, historyVars>>

(* Mutant: the manual-completion assumption is made of any step.           *)
AssumeDoneManuallyAlways ==
  /\ Goto("actFailed", "screenAfter")
  /\ UNCHANGED <<call, index, asked, pending, escalated, retryVars, resultVars, historyVars>>

(* The action failed, no pattern explains it, and a human had control at   *)
(* this very step: he must have performed it.                              *)
AssumeDoneManually ==
  /\ Goto("actFailed", "screenAfter") /\ escalated
  /\ UNCHANGED <<call, index, asked, pending, escalated, retryVars, resultVars, historyVars>>

(* Mutant: the failure is blamed on the automation, whatever came before.  *)
UnclassifiedIsHard ==
  /\ \/ pc = "actFailed" /\ ~escalated
     \/ pc = "checkpointFailed"
  /\ Return("hard_failure", "unexplained")
  /\ UNCHANGED <<call, retryVars, historyVars>>

(* _unclassified_failure                                                   *)
UnclassifiedFailure ==
  /\ \/ pc = "actFailed" /\ ~escalated
     \/ pc = "checkpointFailed"
  /\ Return(IF recoveredFrom # None THEN "recoverable" ELSE "hard_failure",
            "unexplained")
  /\ UNCHANGED <<call, retryVars, historyVars>>

-----------------------------------------------------------------------------
(* _attempt_recovery                                                       *)

(* The allowlist, for the action's own target if it has one and for the    *)
(* page otherwise, then a human for a risky recovery action.               *)
ScreenRecovery ==
  /\ pc = "screenRecovery"
  /\ page' = IF pending \in Elsewhere THEN page ELSE "screened"
  /\ IF Recovery[pending] = "risky" /\ ~call.confirmRisky /\ call.attended
       THEN pc' = "human" /\ asked' = "recovery"
       ELSE pc' = "recover" /\ UNCHANGED asked
  /\ UNCHANGED <<call, index, pending, escalated, retryVars, resultVars,
                 performed, handed, lastHanded>>

(* Mutant: the page a recovery leads to is not looked at.                  *)
RecoverUnscreened ==
  /\ Goto("recover", "top")
  /\ page' \in {"landed", "failed"}
  /\ lastHanded' = "none"
  /\ UNCHANGED <<call, index, asked, pending, escalated, retryVars, resultVars,
                 performed, handed>>

(* The action is best-effort: one that raises is logged.                   *)
Recover ==
  /\ pc = "recover"
  /\ \/ pc' = "top" /\ page' = "failed"
     \/ pc' = "screenRecovered" /\ page' = "landed"
  /\ lastHanded' = "none"
  /\ UNCHANGED <<call, index, asked, pending, escalated, retryVars, resultVars,
                 performed, handed>>

ScreenRecovered ==
  /\ Goto("screenRecovered", "top")
  /\ page' = "screened"
  /\ UNCHANGED <<call, index, asked, pending, escalated, retryVars, resultVars,
                 performed, handed, lastHanded>>

-----------------------------------------------------------------------------
(* The step itself                                                         *)

NeedsConfirmation == index \in call.risky /\ ~call.confirmRisky /\ call.attended

(* Mutant: one confirmation serves every later attempt.                    *)
ConfirmOnce ==
  /\ pc = "confirm"
  /\ IF NeedsConfirmation /\ ~escalated
       THEN pc' = "human" /\ asked' = "risky"
       ELSE pc' = "bind" /\ UNCHANGED asked
  /\ UNCHANGED <<call, index, pending, escalated, retryVars, resultVars, historyVars>>

(* requires_confirmation, for every attempt of the step.                   *)
Confirm ==
  /\ pc = "confirm"
  /\ escalated' = FALSE
  /\ IF NeedsConfirmation
       THEN pc' = "human" /\ asked' = "risky"
       ELSE pc' = "bind" /\ UNCHANGED asked
  /\ UNCHANGED <<call, index, pending, retryVars, resultVars, historyVars>>

(* The step's value: a parameter the caller did not give ends the run.     *)
MissingParam ==
  /\ pc = "bind" /\ index \in call.unsupplied
  /\ Return("input_error", "input")
  /\ UNCHANGED <<call, retryVars, historyVars>>

(* check_allowlist before the action: the step's own target if it has one, *)
(* and the page otherwise.                                                 *)
ScreenStep ==
  /\ Goto("bind", "act") /\ index \notin call.unsupplied
  /\ page' = IF index \in call.targeted THEN page ELSE "screened"
  /\ UNCHANGED <<call, index, asked, pending, escalated, retryVars, resultVars,
                 performed, handed, lastHanded>>

(* surface.act: it returns, or raises.                                     *)
Act ==
  /\ pc = "act"
  /\ \/ /\ pc' = "screenAfter" /\ page' = "landed"
        /\ performed' = performed \cup {index}
     \/ pc' = "actFailed" /\ page' = "failed" /\ UNCHANGED performed
  /\ lastHanded' = "none"
  /\ UNCHANGED <<call, index, asked, pending, escalated, retryVars, resultVars, handed>>

(* check_allowlist after the action, then the step's checkpoint.           *)
ScreenAfter ==
  /\ pc = "screenAfter"
  /\ page' = "screened"
  /\ \/ pc' = "top" /\ index' = index + 1
     \/ index \in call.checked /\ pc' = "checkpointFailed" /\ UNCHANGED index
  /\ UNCHANGED <<call, asked, pending, escalated, retryVars, resultVars,
                 performed, handed, lastHanded>>

(* check_allowlist raises, at any of its four calls.                       *)
AllowlistViolation ==
  /\ \/ pc \in {"screenRecovery", "screenRecovered", "screenAfter"}
     \/ pc = "bind" /\ index \notin call.unsupplied
  /\ Return("hard_failure", "policy")
  /\ UNCHANGED <<call, retryVars, historyVars>>

(* The closing loop looks at the success checkpoint.                       *)
Succeed ==
  /\ pc = "top" /\ Closing
  /\ Return("success", "checkpoint")
  /\ UNCHANGED <<call, retryVars, historyVars>>

SuccessNotReached ==
  /\ Goto("top", "checkpointFailed") /\ Closing
  /\ UNCHANGED <<call, index, asked, pending, escalated, retryVars, resultVars, historyVars>>

-----------------------------------------------------------------------------
Engine == RejectInput \/ AcceptInput \/ BeginStep \/ Matched
            \/ NothingUnexpected \/ AssumeDoneManually \/ UnclassifiedFailure
            \/ ScreenRecovery \/ Recover \/ ScreenRecovered \/ Confirm
            \/ MissingParam \/ ScreenStep \/ Act \/ ScreenAfter
            \/ AllowlistViolation \/ Succeed \/ SuccessNotReached

Human == TakeOver \/ Resume \/ FinishIfAlreadySucceeded \/ EscalationFails
           \/ Interrupted

Next == Engine \/ Human

Spec == Init /\ [][Next]_vars

(* run() is a thread that never stops between two of its own steps; an     *)
(* operator need not answer.                                               *)
FairSpec == Spec /\ WF_vars(Engine)

-----------------------------------------------------------------------------
(* Properties                                                              *)

(* Every variable keeps its type.                                          *)
TypeOK ==
  /\ call \in Call
  /\ pc \in {"validate", "top", "human", "confirm", "bind", "act", "screenAfter",
            "screenRecovery", "recover", "screenRecovered", "done"} \cup Looking
  /\ index \in 1 .. NSteps + 1
  /\ asked \in {"none", "takeover", "unexpected", "risky", "recovery"}
  /\ pending \in Patterns \cup {None}
  /\ recoveredFrom \in Objects \cup {None}
  /\ used \in [Objects -> Nat]
  /\ escalated \in BOOLEAN
  /\ result \in Outcomes \cup {"none", "interrupted"}
  /\ cause \in {"none", "input", "interrupt", "handoff", "checkpoint", "recognised",
               "unexplained", "policy"}
  /\ performed \subseteq Step /\ handed \subseteq Step
  /\ lastHanded \in {"none", "takeover", "unexpected", "risky", "recovery"}
  /\ page \in {"opened", "screened", "landed", "failed", "handedBack"}
  /\ retried \in [Patterns -> Nat]

ActsOnStep   == pc = "act" /\ pc' # "act"
ActsToRecover == pc = "recover" /\ pc' # "recover"

(* With an operator to ask, nothing risky the caller has not confirmed is  *)
(* carried out on an old confirmation: the last thing before a risky step  *)
(* is the handback of the escalation about this attempt of this step, and  *)
(* likewise before a risky recovery action, however often either is        *)
(* retried and whatever the other did in between.                          *)
RiskyActionsConfirmed ==
  [][call.attended /\ ~call.confirmRisky =>
       /\ ActsOnStep /\ index \in call.risky => lastHanded = "risky"
       /\ ActsToRecover /\ Recovery[pending] = "risky" => lastHanded = "recovery"]_vars

(* No step is passed over: one the engine has moved past was performed by  *)
(* it, or a human was given control at that very step.  The assumption     *)
(* that he did it never covers for a failed step he did not have.          *)
NothingSkipped ==
  \A i \in Step : i < index => i \in performed \cup handed

(* A success that did not go through every step is one a human handed      *)
(* back, with no action of the engine since.                               *)
SuccessEarned ==
  result = "success" =>
    Step \subseteq performed \cup handed \/ lastHanded # "none"

(* Nothing is done on a page that a completed action of the engine led to  *)
(* and nobody held to the allowlist since, whether a step or a recovery    *)
(* led there and whichever of them is next.  A page that an operator hands *)
(* back, or that an action left behind when it raised, is screened before  *)
(* the next step too, but only when that step has no target of its own.    *)
LandingsScreened ==
  [][/\ ActsOnStep \/ ActsToRecover => page # "landed"
     /\ ActsOnStep /\ index \notin call.targeted => page = "screened"]_vars

(* A pattern of the artifact's own is retried within its max_retries in    *)
(* one run, however its matches interleave with those of other patterns,   *)
(* with steps that pass in between and with operators' interventions.      *)
OwnRetriesWithinBudget == \A p \in Own : retried[p] <= MaxRetries[p]

(* A failure nothing explains is not blamed on the automation once the run *)
(* has recovered from a recognised condition: the interruption may be why. *)
RecoveryNotBlamed ==
  (result = "hard_failure" /\ cause = "unexplained") =>
    \A p \in Patterns : retried[p] = 0

(* Left to itself run() returns: only operators taking control again and   *)
(* again, or one who never hands back, keep it going.                      *)
EngineReturns == <>[](pc # "human") => <>(pc = "done")

=============================================================================
