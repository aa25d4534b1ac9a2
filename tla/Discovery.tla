------------------------------ MODULE Discovery ------------------------------
(***************************************************************************)
(* DiscoveryAgent.run: a language model decides, action by action, how to  *)
(* reach a goal in a browser, and what it did is recorded as the steps of  *)
(* a new capability.                                                       *)
(*                                                                         *)
(* The model may decide anything in any iteration: finish, a decision that *)
(* is of no use, or one of the actions that the page offers.  The page may *)
(* answer anything: the action fails, it leaves the allowlist, it lands on *)
(* a page the host's outcome library recognises, or it works.  Operators   *)
(* hand back whenever they like.  What is modelled is what the agent makes *)
(* of it: when it asks for a human, when it takes a finish for an answer,  *)
(* and what it records.                                                    *)
(***************************************************************************)
EXTENDS Integers, FiniteSets

CONSTANTS
  Controls,              \* signatures: an action on a locator at a URL
  Risky,                 \* those that _classify_risk holds to be irreversible
  Extracts,              \* those that read a value off the page
  MaxSteps,              \* max_discovery_steps
  DeadEndThreshold,      \* _DEAD_END_THRESHOLD
  LoopThreshold,         \* _LOOP_THRESHOLD
  MaxExtractRejections,  \* _MAX_EXTRACT_REJECTIONS
  None                   \* no control

ASSUME DiscoveryAssumption ==
  /\ Risky \subseteq Controls /\ Extracts \subseteq Controls
  /\ Risky \cap Extracts = {}
  /\ MaxSteps \in Nat \ {0}
  /\ DeadEndThreshold \in Nat \ {0} /\ LoopThreshold \in Nat \ {0}
  /\ MaxExtractRejections \in Nat
  /\ None \notin Controls

(* A run decides on finitely many signatures.                              *)
ASSUME FiniteControls == IsFiniteSet(Controls)

VARIABLES
  call,         \* how the agent was called
  pc,           \* where _run_loop is
  index,        \* step_index
  control,      \* the decision of this iteration
  asked,        \* why a human is asked
  escalated,    \* escalated_for_this_step
  skips,        \* consecutive_skips
  counts,       \* loop_signature_counts
  trace,        \* what trace.steps holds, as far as finish looks at it
  askedParams,  \* asked_for_missing_params
  askedExtract, \* asked_to_extract
  rejections,   \* extract_rejections
  result,       \* how the run ended
  handedFor,    \* history: why a human last had control, if nothing was done since
  committed,    \* history: an irreversible action went through
  finishes,     \* history: finishes the model has declared
  churn         \* history: iterations since a step was recorded or a human asked

loopVars == <<index, control, asked, escalated, skips, counts>>
gateVars == <<trace, askedParams, askedExtract, rejections>>
historyVars == <<handedFor, committed, finishes, churn>>
vars == <<call, pc, index, control, asked, escalated, skips, counts, trace,
          askedParams, askedExtract, rejections, result, handedFor, committed,
          finishes, churn>>

(* Whether there is an escalation controller, confirm_risky, param_hints.  *)
Call == [attended : BOOLEAN, confirmRisky : BOOLEAN, hinted : BOOLEAN]

(* A risky step, an extract, the declared parameters: are they recorded?   *)
Trace == [risky : BOOLEAN, extract : BOOLEAN, params : BOOLEAN]

Pcs     == {"boundary", "decide", "act", "look", "recover", "asked", "exhausted", "done"}
Reasons == {"none", "takeover", "deadEnd", "loop", "risky", "offAllowlist", "fault", "stuck"}
Results == {"none", "succeeded", "stuck", "aborted", "unanswered", "interrupted",
             "raised"}

Init ==
  /\ call \in Call
  /\ pc = "boundary" /\ index = 0 /\ control = None
  /\ asked = "none" /\ escalated = FALSE
  /\ skips = 0 /\ counts = [c \in Controls |-> 0]
  /\ trace = [risky |-> FALSE, extract |-> FALSE, params |-> FALSE]
  /\ askedParams = FALSE /\ askedExtract = FALSE /\ rejections = 0
  /\ result = "none"
  /\ handedFor = "none" /\ committed = FALSE /\ finishes = 0 /\ churn = 0

-----------------------------------------------------------------------------
(* Iterations                                                              *)

(* Mutant: a turn in which a human was asked is not charged.               *)
NextIterationUncharged ==
  /\ index' = IF asked = "none" THEN index + 1 ELSE index
  /\ pc' = IF index' = MaxSteps THEN "exhausted" ELSE "boundary"
  /\ control' = None /\ escalated' = FALSE

(* The next turn of the for loop, if there is one.                         *)
NextIteration ==
  /\ index' = index + 1
  /\ pc' = IF index + 1 = MaxSteps THEN "exhausted" ELSE "boundary"
  /\ control' = None /\ escalated' = FALSE

Return(how) == pc' = "done" /\ result' = how

Ask(reason) == pc' = "asked" /\ asked' = reason

(* One more iteration that neither recorded a step nor asked a human.      *)
InVain == churn' = churn + 1

(* RunInterrupted is raised at the top of an iteration, and by the wait    *)
(* for an answer.                                                          *)
Interrupted ==
  /\ pc \in {"boundary", "asked"} /\ call.attended
  /\ Return("interrupted")
  /\ UNCHANGED <<call, loopVars, gateVars, historyVars>>

TakeOver ==
  /\ pc = "boundary" /\ call.attended
  /\ Ask("takeover")
  /\ UNCHANGED <<call, index, control, escalated, skips, counts, gateVars, result,
                 historyVars>>

Observe ==
  /\ pc = "boundary"
  /\ pc' = "decide"
  /\ UNCHANGED <<call, loopVars, gateVars, result, historyVars>>

(* observe, current_url and what the model sent are used without a handler *)
(* around them: what they raise leaves run().                              *)
Raises ==
  /\ pc \in {"boundary", "decide", "look"}
  /\ Return("raised")
  /\ UNCHANGED <<call, loopVars, gateVars, historyVars>>

-----------------------------------------------------------------------------
(* Decisions                                                               *)

(* _note_skip, on a decision there is nothing to do with.                  *)
NoteSkip(before) ==
  IF before + 1 >= DeadEndThreshold
    THEN /\ Ask("deadEnd") /\ skips' = 0
         /\ UNCHANGED <<index, control, escalated, churn>>
    ELSE NextIteration /\ skips' = before + 1 /\ InVain /\ UNCHANGED asked

(* The call to the model failed, or what it sent is not an action, lacks a *)
(* locator or a target, has a malformed value source or is off the list.   *)
Skip ==
  /\ pc = "decide"
  /\ NoteSkip(skips)
  /\ UNCHANGED <<call, counts, gateVars, result, handedFor, committed, finishes>>

(* Mutant: a decision that can be carried out forgets the attempts before. *)
DecideForgetfully(c) ==
  /\ pc = "decide"
  /\ control' = c /\ skips' = 0
  /\ IF c \in Risky /\ ~call.confirmRisky /\ call.attended
       THEN Ask("risky") /\ escalated' = TRUE
       ELSE pc' = "act" /\ UNCHANGED <<asked, escalated>>
  /\ UNCHANGED <<call, index, counts, gateVars, result, historyVars>>

(* Something to carry out: unless it was tried too often, and not before a *)
(* human has agreed when it is risky.                                      *)
Decide(c) ==
  /\ pc = "decide"
  /\ control' = c /\ skips' = 0
  /\ counts' = [counts EXCEPT ![c] = IF @ + 1 >= LoopThreshold THEN 0 ELSE @ + 1]
  /\ IF counts[c] + 1 >= LoopThreshold
       THEN Ask("loop") /\ UNCHANGED escalated
       ELSE IF c \in Risky /\ ~call.confirmRisky /\ call.attended
              THEN Ask("risky") /\ escalated' = TRUE
              ELSE pc' = "act" /\ UNCHANGED <<asked, escalated>>
  /\ UNCHANGED <<call, index, gateVars, result, historyVars>>

(* The gates of a finish: a declared parameter was never entered, nothing  *)
(* was extracted.  Each is put to the model once, and none when an         *)
(* irreversible step is on record.                                         *)
ParamsMissing  == call.hinted /\ ~trace.params /\ ~askedParams /\ ~trace.risky
NothingToReport == ~trace.extract /\ ~askedExtract /\ ~trace.risky

(* Mutant: the question is not remembered.                                 *)
RejectFinishAgain ==
  /\ pc = "decide" /\ (ParamsMissing \/ NothingToReport)
  /\ NextIteration /\ InVain
  /\ finishes' = finishes + 1
  /\ UNCHANGED <<call, asked, skips, counts, gateVars, result, handedFor, committed>>

RejectFinish ==
  /\ pc = "decide" /\ (ParamsMissing \/ NothingToReport)
  /\ IF ParamsMissing
       THEN askedParams' = TRUE /\ UNCHANGED askedExtract
       ELSE askedExtract' = TRUE /\ UNCHANGED askedParams
  /\ NextIteration /\ InVain
  /\ finishes' = finishes + 1
  /\ UNCHANGED <<call, asked, skips, counts, trace, rejections, result, handedFor,
                 committed>>

AcceptFinish ==
  /\ pc = "decide" /\ ~ParamsMissing /\ ~NothingToReport
  /\ Return("succeeded")
  /\ finishes' = finishes + 1
  /\ UNCHANGED <<call, loopVars, gateVars, handedFor, committed, churn>>

-----------------------------------------------------------------------------
(* Acting, and what comes of it                                            *)

ActWorks ==
  /\ pc = "act"
  /\ pc' = "look"
  /\ committed' = (committed \/ control \in Risky)
  /\ handedFor' = "none"
  /\ UNCHANGED <<call, loopVars, gateVars, result, finishes, churn>>

(* The action fails.  After a handover the human did it; otherwise it is a *)
(* decision skipped, the first since consecutive_skips was reset.          *)
ActFails ==
  /\ pc = "act"
  /\ handedFor' = "none"
  /\ IF escalated
       THEN /\ pc' = "look"
            /\ UNCHANGED <<index, control, asked, escalated, skips, churn>>
       ELSE NoteSkip(skips)
  /\ UNCHANGED <<call, counts, gateVars, result, committed, finishes>>

OffAllowlist ==
  /\ pc = "look"
  /\ Ask("offAllowlist")
  /\ UNCHANGED <<call, index, control, escalated, skips, counts, gateVars, result,
                 historyVars>>

(* The page is one the host's library recognises.  The step is not         *)
(* recorded: either the page is dismissed, or a human is asked.            *)
RecoverableFault ==
  /\ pc = "look"
  /\ pc' = "recover"
  /\ UNCHANGED <<call, loopVars, gateVars, result, historyVars>>

Recover ==
  /\ pc = "recover"
  /\ NextIteration /\ InVain
  /\ handedFor' = "none"
  /\ UNCHANGED <<call, asked, skips, counts, gateVars, result, committed, finishes>>

OtherFault ==
  /\ pc = "look"
  /\ Ask("fault")
  /\ UNCHANGED <<call, index, control, escalated, skips, counts, gateVars, result,
                 historyVars>>

(* _unusable_extract_reason: a locator that takes the whole page, or one   *)
(* that restates what was read, may be that of any extract.                *)
MaybeUnusable == control \in Extracts

RejectExtract ==
  /\ pc = "look" /\ MaybeUnusable /\ rejections < MaxExtractRejections
  /\ rejections' = rejections + 1
  /\ NextIteration /\ InVain
  /\ UNCHANGED <<call, asked, skips, counts, trace, askedParams, askedExtract, result,
                 handedFor, committed, finishes>>

(* The step goes on record, with its risk, whoever carried it out.         *)
Record ==
  /\ pc = "look"
  /\ \E binds \in BOOLEAN :
       trace' = [risky   |-> trace.risky \/ control \in Risky,
                 extract |-> trace.extract \/ control \in Extracts,
                 params  |-> trace.params \/ (binds /\ call.hinted)]
  /\ NextIteration /\ churn' = 0
  /\ UNCHANGED <<call, asked, skips, counts, askedParams, askedExtract, rejections, result,
                 handedFor, committed, finishes>>

(* max_steps iterations and no finish.                                     *)
Exhausted ==
  /\ pc = "exhausted"
  /\ Ask("stuck")
  /\ UNCHANGED <<call, index, control, escalated, skips, counts, gateVars, result,
                 historyVars>>

-----------------------------------------------------------------------------
(* _escalate                                                               *)

(* Mutant: whoever hands back agrees to what the agent was about to do.    *)
AnyAnswerIsConsent == asked \in {"risky", "loop"}

(* Only the handover for a risky action goes on to carry it out.           *)
Consent == asked = "risky"

(* The operator hands back.  With nobody to ask it returns at once, which  *)
(* counts as having asked.                                                 *)
HandBack ==
  /\ pc = "asked"
  /\ handedFor' = IF call.attended THEN asked ELSE handedFor
  /\ churn' = 0
  /\ asked' = "none"
  /\ \/ /\ asked = "takeover"
        /\ pc' = "decide"
        /\ UNCHANGED <<index, control, escalated, result>>
     \/ /\ Consent
        /\ pc' = "act"
        /\ UNCHANGED <<index, control, escalated, result>>
     \/ asked \in {"deadEnd", "loop", "fault"} /\ NextIteration /\ UNCHANGED result
     \/ /\ asked = "offAllowlist"
        /\ Return("aborted") /\ UNCHANGED <<index, control, escalated>>
     \/ /\ asked = "stuck"
        /\ Return("stuck") /\ UNCHANGED <<index, control, escalated>>
  /\ UNCHANGED <<call, skips, counts, gateVars, committed, finishes>>

(* The transport fails, or the escalation is abandoned.                    *)
EscalationFails ==
  /\ pc = "asked" /\ call.attended
  /\ Return("unanswered")
  /\ UNCHANGED <<call, loopVars, gateVars, historyVars>>

Agent ==
  \/ Observe \/ Raises \/ Skip \/ (\E c \in Controls : Decide(c)) \/ RejectFinish \/ AcceptFinish
  \/ ActWorks \/ ActFails \/ OffAllowlist \/ RecoverableFault \/ Recover \/ OtherFault
  \/ RejectExtract \/ Record \/ Exhausted

Operator == Interrupted \/ TakeOver \/ HandBack \/ EscalationFails

Next == Agent \/ Operator

Spec == Init /\ [][Next]_vars

(* The loop goes on by itself, and _escalate returns at once when there is *)
(* nobody to ask.  Nothing makes an operator answer.                       *)
Fairness == WF_vars(Agent) /\ WF_vars(HandBack /\ ~call.attended)

FairSpec == Spec /\ Fairness

-----------------------------------------------------------------------------
(* Properties                                                              *)

(* Every variable keeps its type.                                          *)
TypeOK ==
  /\ call \in Call /\ pc \in Pcs /\ index \in 0 .. MaxSteps
  /\ control \in Controls \cup {None}
  /\ asked \in Reasons /\ escalated \in BOOLEAN
  /\ skips \in 0 .. DeadEndThreshold - 1
  /\ counts \in [Controls -> 0 .. LoopThreshold - 1]
  /\ trace \in Trace
  /\ askedParams \in BOOLEAN /\ askedExtract \in BOOLEAN
  /\ rejections \in 0 .. MaxExtractRejections
  /\ result \in Results
  /\ handedFor \in Reasons /\ committed \in BOOLEAN
  /\ finishes \in 0 .. MaxSteps /\ churn \in 0 .. MaxSteps

ActsOn(c) == pc = "act" /\ pc' # "act" /\ control = c

(* An attended agent that was not told confirm_risky never performs an     *)
(* irreversible action that a human was not asked about for this very      *)
(* attempt: not on the agreement to an earlier one of the same control,    *)
(* and not on a handover for another reason.                               *)
RiskyActionsConfirmed ==
  [][\A c \in Risky :
       ActsOn(c) /\ call.attended /\ ~call.confirmRisky => handedFor = "risky"]_vars

(* A stuck agent does not burn its budget unnoticed.  The two counters     *)
(* reset each other's ground: a usable decision clears consecutive_skips,  *)
(* and the loop guard counts per control over the whole run.  Together     *)
(* they still bound the iterations that neither record a step nor ask a    *)
(* human.                                                                  *)
MaxTries == (LoopThreshold - 1) * Cardinality(Controls)
MaxChurn == MaxTries + (MaxTries + 1) * (DeadEndThreshold - 1) + 2

StuckAgentAsksForHelp == churn <= MaxChurn

(* The gates push back, they do not trap: a run whose model has declared   *)
(* itself finished three times is not reported as stuck.                   *)
FinishIsHeard == result = "stuck" => finishes <= 2

(* Whatever the model decides and the page does, run() returns, unless an  *)
(* operator who was asked never answers.                                   *)
DiscoveryReturns == <>(pc = "done" \/ [](pc = "asked"))

-----------------------------------------------------------------------------
(* What comments and docstrings of the code say and the code does not do   *)

(* agent.py: "Once an irreversible step has run, a finish is FINAL.        *)
(* Neither gate below may send the agent round again".  The gates look at  *)
(* the steps on record, and an irreversible step that landed on a page of  *)
(* the outcome library is not recorded.                                    *)
FinishIsFinalAfterCommit ==
  [][committed => askedParams' = askedParams /\ askedExtract' = askedExtract]_vars
=============================================================================
