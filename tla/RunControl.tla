----------------------------- MODULE RunControl -----------------------------
(***************************************************************************)
(* The control plane of one capability run: RunManager's record of it, the *)
(* QueueTransport between its worker thread and the HTTP request threads,  *)
(* EscalationController.escalate and the step loop that DiscoveryAgent and *)
(* ReplayEngine share (poll for an interrupt, poll for a takeover, do the  *)
(* step, which may itself escalate).                                       *)
(*                                                                         *)
(* The worker and every HTTP request are threads.  A critical section of   *)
(* RunManager._lock is one step, and so is one operation of a              *)
(* threading.Event or queue.Queue; everything between two of those may     *)
(* interleave with the other threads.                                      *)
(*                                                                         *)
(* Runs share nothing but the lock, so one run with several concurrent     *)
(* requests is the whole of their interaction.                             *)
(***************************************************************************)
EXTENDS Naturals, Sequences

CONSTANTS
  Requests,       \* HTTP request threads that may be in flight at once
  MaxIterations,  \* iterations the step loop makes before it ends by itself
  MaxPasses       \* passes of the closing loop before it ends by itself

ASSUME MaxIterationsAssumption == MaxIterations \in Nat \ {0}
ASSUME MaxPassesAssumption == MaxPasses \in Nat

VARIABLES
  status,       \* RunRecord.status, "absent" when not in RunManager._runs
  shown,        \* RunRecord.escalation: the number of the escalation, 0 is None
  queue,        \* QueueTransport._resume_queue
  takeoverEv,   \* QueueTransport._takeover_event
  cancelEv,     \* QueueTransport._cancel_event
  interruptEv,  \* QueueTransport._interrupt_event
  wpc,          \* where the worker thread is
  cause,        \* what this iteration's escalate() was called for
  iteration,    \* iterations of the loop begun
  closing,      \* passes of ReplayEngine.run's last loop begun: it polls nothing
  exit,         \* how target_fn ended
  req,          \* where each request thread is
  opened,       \* escalations notified so far
  answered,     \* history: resume requests accepted so far
  passed,       \* history: wait_for_resume calls that returned so far
  lateSteps,    \* history: the steps' own actions after an interrupt was set
  lateRecoveries, \* history: recovery actions after an interrupt was set
  forced        \* history: a force-cancel has set the cancel event

recordVars == <<status, shown>>
transportVars == <<queue, takeoverEv, cancelEv, interruptEv>>
workerVars == <<wpc, cause, iteration, closing, exit>>
loopVars == <<cause, iteration, closing>>
lateVars == <<lateSteps, lateRecoveries>>
historyVars == <<opened, answered, passed, lateVars, forced>>
vars == <<status, shown, queue, takeoverEv, cancelEv, interruptEv, wpc, cause,
          iteration, closing, exit, req, opened, answered, passed, lateSteps,
          lateRecoveries, forced>>

Active   == {"running", "escalated"}
Terminal == {"done", "error", "interrupted"}

(* A resume note.  The HTTP body is free text with no escalation id, so    *)
(* nothing says which escalation its sender saw; "for" is the one that was *)
(* open when RunManager.resume accepted the request.                       *)
Note   == [for : Nat]
NoNote == [for |-> 0]

(* Places of the worker.  Between "drain" and "get" it is inside           *)
(* wait_for_resume; from "enter" to "get" a human has control.             *)
Waiting   == {"drain", "checkInterrupt", "checkCancel", "get"}
Driving   == {"boundary", "poll", "work", "enter", "notify", "resumed", "act",
              "recover"}
WorkerPc  == {"none", "ended", "finish"} \cup Waiting \cup Driving
RequestPc == {"idle", "viewed", "put", "setInterrupt", "setCancelToo",
              "setCancel", "delete"}
Request   == [pc : RequestPc, note : Note]
Idle      == [pc |-> "idle", note |-> NoNote]

Init ==
  /\ status = "absent" /\ shown = 0
  /\ queue = <<>>
  /\ takeoverEv = FALSE /\ cancelEv = FALSE /\ interruptEv = FALSE
  /\ wpc = "none" /\ cause = "none" /\ iteration = 0 /\ closing = 0
  /\ exit = "none"
  /\ req = [r \in Requests |-> Idle]
  /\ opened = 0 /\ answered = 0 /\ passed = 0
  /\ lateSteps = 0 /\ lateRecoveries = 0 /\ forced = FALSE

(* RunManager.start: the record and its transport are published under one  *)
(* lock, then the worker thread is started.                                *)
Start ==
  /\ status = "absent" /\ wpc = "none"
  /\ status' = "running"
  /\ wpc' = "boundary"
  /\ iteration' = 1
  /\ UNCHANGED <<shown, transportVars, cause, closing, exit, req, historyVars>>

-----------------------------------------------------------------------------
(* The worker: one iteration of the step loop                              *)

Goto(from, to) == wpc = from /\ wpc' = to

(* Mutant: the loop forgets to poll for an interrupt.                      *)
PollInterruptForgotten ==
  /\ Goto("boundary", "poll")
  /\ UNCHANGED <<recordVars, transportVars, loopVars, exit, req, historyVars>>

(* raise_if_interrupted, at the top of every iteration.                    *)
PollInterrupt ==
  /\ wpc = "boundary"
  /\ IF interruptEv
       THEN wpc' = "finish" /\ exit' = "interrupted"
       ELSE wpc' = "poll" /\ UNCHANGED exit
  /\ UNCHANGED <<recordVars, transportVars, loopVars, req, historyVars>>

PollTakeover ==
  /\ wpc = "poll"
  /\ IF takeoverEv
       THEN wpc' = "enter" /\ cause' = "takeover"
       ELSE wpc' = "work" /\ UNCHANGED cause
  /\ UNCHANGED <<recordVars, transportVars, iteration, closing, exit, req,
                 historyVars>>

(* The step needs a human: it is risky, it met an unexpected business      *)
(* outcome, the agent is stuck, ...                                        *)
EscalateStep ==
  /\ closing = 0
  /\ Goto("work", "enter")
  /\ cause' = "step"
  /\ UNCHANGED <<recordVars, transportVars, iteration, closing, exit, req,
                 historyVars>>

(* The step needs nobody.  The closing loop has no step left to perform.   *)
ProceedToAct ==
  /\ closing = 0
  /\ Goto("work", "act")
  /\ UNCHANGED <<recordVars, transportVars, loopVars, exit, req, historyVars>>

(* The page shows a host error with a recovery: a safe one is performed at *)
(* once, for a risky one a human is asked first.                           *)
Recovering ==
  \/ wpc' = "recover" /\ UNCHANGED cause
  \/ cause # "recovery" /\ wpc' = "enter" /\ cause' = "recovery"

(* ... before the step was performed, or in a pass of the closing loop.    *)
RecoverInstead ==
  /\ wpc = "work"
  /\ Recovering
  /\ UNCHANGED <<recordVars, transportVars, iteration, closing, exit, req,
                 historyVars>>

(* The iteration ends the run before acting: a reported outcome, or the    *)
(* success checkpoint of the closing loop, is a return, a browser or       *)
(* programming error escapes as an exception.                              *)
StopBeforeActing ==
  /\ Goto("work", "finish")
  /\ exit' \in {"returned", "raised"}
  /\ UNCHANGED <<recordVars, transportVars, loopVars, req, historyVars>>

(* Another iteration begins: the next step, or the same one again.         *)
NextIteration ==
  /\ iteration < MaxIterations
  /\ iteration' = iteration + 1
  /\ cause' = "none"
  /\ wpc' = "boundary"
  /\ UNCHANGED <<closing, exit>>

(* The steps are done: the success checkpoint is looked at, and again after*)
(* each recovery, in a loop that polls nothing.                            *)
ClosingPass ==
  /\ closing < MaxPasses
  /\ closing' = closing + 1
  /\ cause' = "none"
  /\ wpc' = "work"
  /\ UNCHANGED <<iteration, exit>>

(* The run ends here.                                                      *)
Stop ==
  /\ wpc' = "finish"
  /\ exit' \in {"returned", "raised"}
  /\ UNCHANGED loopVars

(* The step's own action is performed.  The iteration ends with it, or the *)
(* page it led to calls for a recovery in this same iteration, or for a    *)
(* human (a fault with no recovery, a page off the allowlist).             *)
Act ==
  /\ wpc = "act"
  /\ lateSteps' = IF interruptEv THEN lateSteps + 1 ELSE lateSteps
  /\ \/ NextIteration
     \/ ClosingPass
     \/ Stop
     \/ Recovering /\ UNCHANGED <<iteration, closing, exit>>
  /\ UNCHANGED <<recordVars, transportVars, req, opened, answered, passed,
                 lateRecoveries, forced>>

(* The recovery action is performed, with no poll since the step's action, *)
(* and the step is tried again, or the closing loop passes once more.      *)
Recover ==
  /\ wpc = "recover"
  /\ lateRecoveries' = IF interruptEv THEN lateRecoveries + 1
                                      ELSE lateRecoveries
  /\ \/ closing = 0 /\ NextIteration
     \/ closing > 0 /\ ClosingPass
     \/ Stop
  /\ UNCHANGED <<recordVars, transportVars, req, opened, answered, passed,
                 lateSteps, forced>>

-----------------------------------------------------------------------------
(* The worker inside EscalationController.escalate                         *)

(* clear_takeover; screenshots and the accessibility tree follow, so that  *)
(* there is time between this step and the next.                           *)
ClearTakeover ==
  /\ Goto("enter", "notify")
  /\ takeoverEv' = FALSE
  /\ UNCHANGED <<recordVars, queue, cancelEv, interruptEv, loopVars, exit, req,
                 historyVars>>

(* transport.notify, RunManager's on_notify under the lock.                *)
Notify ==
  /\ Goto("notify", "drain")
  /\ status' = "escalated"
  /\ opened' = opened + 1
  /\ shown' = opened + 1
  /\ UNCHANGED <<transportVars, loopVars, exit, req, answered, passed,
                 lateVars, forced>>

(* wait_for_resume first throws away whatever is queued, an item a time.   *)
Drain ==
  /\ wpc = "drain"
  /\ IF queue # <<>>
       THEN queue' = Tail(queue) /\ UNCHANGED wpc
       ELSE wpc' = "checkInterrupt" /\ UNCHANGED queue
  /\ UNCHANGED <<recordVars, takeoverEv, cancelEv, interruptEv, loopVars,
                 exit, req, historyVars>>

CheckInterrupt ==
  /\ wpc = "checkInterrupt"
  /\ IF interruptEv
       THEN wpc' = "finish" /\ exit' = "interrupted"
       ELSE wpc' = "checkCancel" /\ UNCHANGED exit
  /\ UNCHANGED <<recordVars, transportVars, loopVars, req, historyVars>>

(* Mutants: a cancelled wait returns as if resumed; the event is not seen; *)
(* the queue is drained before every slice of the wait.                    *)
CheckCancelReturns ==
  /\ wpc = "checkCancel"
  /\ wpc' = IF cancelEv THEN "resumed" ELSE "get"
  /\ UNCHANGED <<recordVars, transportVars, loopVars, exit, req, historyVars>>

CheckCancelForgotten ==
  /\ Goto("checkCancel", "get")
  /\ UNCHANGED <<recordVars, transportVars, loopVars, exit, req, historyVars>>

CheckCancelDrains ==
  /\ wpc = "checkCancel"
  /\ IF cancelEv
       THEN wpc' = "finish" /\ exit' = "abandoned" /\ UNCHANGED queue
       ELSE wpc' = "get" /\ queue' = <<>> /\ UNCHANGED exit
  /\ UNCHANGED <<recordVars, takeoverEv, cancelEv, interruptEv, loopVars, req,
                 historyVars>>

(* EscalationAbandoned: ReplayEngine.run and DiscoveryAgent.run catch it   *)
(* and return a failed result.                                             *)
CheckCancel ==
  /\ wpc = "checkCancel"
  /\ IF cancelEv
       THEN wpc' = "finish" /\ exit' = "abandoned"
       ELSE wpc' = "get" /\ UNCHANGED exit
  /\ UNCHANGED <<recordVars, transportVars, loopVars, req, historyVars>>

(* Mutant: a timeout counts as an answer.                                  *)
GetNoteOrTimeout ==
  /\ Goto("get", "resumed")
  /\ passed' = passed + 1
  /\ UNCHANGED <<recordVars, transportVars, loopVars, exit, req, opened, answered,
                 lateVars, forced>>

(* queue.get(timeout=1.0) returns a note ...                               *)
GetNote ==
  /\ queue # <<>>
  /\ Goto("get", "resumed")
  /\ queue' = Tail(queue)
  /\ passed' = passed + 1
  /\ UNCHANGED <<recordVars, takeoverEv, cancelEv, interruptEv, loopVars,
                 exit, req, opened, answered, lateVars,
                 forced>>

(* Mutant: queue.get without a timeout.                                    *)
GetUntimed == FALSE

(* ... or times out, and the events are looked at again.                   *)
GetTimeout ==
  /\ queue = <<>>
  /\ Goto("get", "checkInterrupt")
  /\ UNCHANGED <<recordVars, transportVars, loopVars, exit, req, historyVars>>

(* After a takeover the step goes on where it was.  After the step's own   *)
(* escalation it acts, or a recovery follows for the page the human left,  *)
(* or the iteration ends because the human has dealt with it; after the    *)
(* escalation of a recovery or a fault the recovery is performed, or the   *)
(* iteration ends.  In every case the human may have finished the task.    *)
AfterResume ==
  /\ wpc = "resumed"
  /\ \/ cause = "takeover" /\ wpc' = "work" /\ UNCHANGED <<loopVars, exit>>
     \/ cause = "step" /\ wpc' = "act" /\ UNCHANGED <<loopVars, exit>>
     \/ cause = "step" /\ Recovering /\ UNCHANGED <<iteration, closing, exit>>
     \/ cause = "recovery" /\ wpc' = "recover" /\ UNCHANGED <<loopVars, exit>>
     \/ cause # "takeover" /\ closing = 0 /\ NextIteration
     \/ Stop
  /\ UNCHANGED <<recordVars, transportVars, req, historyVars>>

(* RunManager's worker(): the terminal status, under the lock.             *)
StatusOf(how) ==
  CASE how = "interrupted"             -> "interrupted"
    [] how = "raised"                  -> "error"
    [] how \in {"returned", "abandoned"} -> "done"

Finish ==
  /\ Goto("finish", "ended")
  /\ status' = StatusOf(exit)
  /\ UNCHANGED <<shown, transportVars, loopVars, exit, req, historyVars>>

Escalate == ClearTakeover \/ Notify \/ Drain \/ CheckInterrupt \/ CheckCancel
              \/ GetNote \/ GetTimeout \/ AfterResume

Worker == PollInterrupt \/ PollTakeover \/ EscalateStep \/ ProceedToAct
            \/ RecoverInstead \/ StopBeforeActing \/ Act \/ Recover
            \/ Escalate \/ Finish

-----------------------------------------------------------------------------
(* HTTP requests                                                           *)

Await(r, pc) == req[r].pc = pc
Move(r, pc)  == req' = [req EXCEPT ![r] = [@ EXCEPT !.pc = pc]]
Return(r)    == req' = [req EXCEPT ![r] = Idle]

(* GET /runs/{run_id}: an operator sees an escalation and decides to       *)
(* answer it.                                                              *)
View(r) ==
  /\ Await(r, "idle")
  /\ shown # 0
  /\ Move(r, "viewed")
  /\ UNCHANGED <<recordVars, transportVars, workerVars, historyVars>>

(* Mutant: resume() does not look at the status.                           *)
ResumeUngated(r) ==
  /\ Await(r, "viewed")
  /\ status' = "running"
  /\ shown' = 0
  /\ answered' = answered + 1
  /\ req' = [req EXCEPT ![r] = [pc |-> "put", note |-> [for |-> opened]]]
  /\ UNCHANGED <<transportVars, workerVars, opened, passed, lateVars, forced>>

(* POST /runs/{run_id}/resume, under the lock: accepted only in status     *)
(* "escalated", which it ends.                                             *)
ResumeAccepted(r) ==
  /\ Await(r, "viewed")
  /\ status = "escalated"
  /\ status' = "running"
  /\ shown' = 0
  /\ answered' = answered + 1
  /\ req' = [req EXCEPT ![r] = [pc |-> "put", note |-> [for |-> opened]]]
  /\ UNCHANGED <<transportVars, workerVars, opened, passed, lateVars, forced>>

ResumeRefused(r) ==
  /\ Await(r, "viewed")
  /\ status # "escalated"
  /\ Return(r)
  /\ UNCHANGED <<recordVars, transportVars, workerVars, historyVars>>

(* ... and outside the lock the note is queued.                            *)
PutNote(r) ==
  /\ Await(r, "put")
  /\ queue' = Append(queue, req[r].note)
  /\ Return(r)
  /\ UNCHANGED <<recordVars, takeoverEv, cancelEv, interruptEv, workerVars,
                 historyVars>>

(* POST /runs/{run_id}/takeover: all of it under the lock.                 *)
RequestTakeover(r) ==
  /\ Await(r, "idle")
  /\ status = "running"
  /\ takeoverEv' = TRUE
  /\ UNCHANGED <<recordVars, queue, cancelEv, interruptEv, workerVars, req,
                 historyVars>>

(* POST /runs/{run_id}/interrupt: the status is read under the lock, the   *)
(* two events are set after it, one after the other.                       *)
InterruptAccepted(r) ==
  /\ Await(r, "idle")
  /\ status \in Active
  /\ Move(r, "setInterrupt")
  /\ UNCHANGED <<recordVars, transportVars, workerVars, historyVars>>

SetInterrupt(r) ==
  /\ Await(r, "setInterrupt")
  /\ interruptEv' = TRUE
  /\ Move(r, "setCancelToo")
  /\ UNCHANGED <<recordVars, queue, takeoverEv, cancelEv, workerVars,
                 historyVars>>

(* DELETE /runs/{run_id}?force=true of an active run: RunManager.cancel.   *)
CancelAccepted(r) ==
  /\ Await(r, "idle")
  /\ status \in Active
  /\ Move(r, "setCancel")
  /\ UNCHANGED <<recordVars, transportVars, workerVars, historyVars>>

SetCancel(r) ==
  /\ Await(r, "setCancel") \/ Await(r, "setCancelToo")
  /\ cancelEv' = TRUE
  /\ forced' = (forced \/ Await(r, "setCancel"))
  /\ Return(r)
  /\ UNCHANGED <<recordVars, queue, takeoverEv, interruptEv, workerVars,
                 opened, answered, passed, lateVars>>

(* DELETE /runs/{run_id}: the endpoint reads the record without the lock   *)
(* and goes on to RunManager.delete when the run is not active, ...        *)
DeleteRequested(r) ==
  /\ Await(r, "idle")
  /\ status \notin Active
  /\ Move(r, "delete")
  /\ UNCHANGED <<recordVars, transportVars, workerVars, historyVars>>

(* Mutant: RunManager.delete trusts the status the endpoint read.          *)
DeleteUnchecked(r) ==
  /\ Await(r, "delete")
  /\ status' = "absent" /\ shown' = 0
  /\ Return(r)
  /\ UNCHANGED <<transportVars, workerVars, historyVars>>

(* ... which looks at the status again, under the lock.                    *)
Delete(r) ==
  /\ Await(r, "delete")
  /\ IF status \in Terminal
       THEN status' = "absent" /\ shown' = 0
       ELSE UNCHANGED recordVars
  /\ Return(r)
  /\ UNCHANGED <<transportVars, workerVars, historyVars>>

Serve(r) == PutNote(r) \/ SetInterrupt(r) \/ SetCancel(r) \/ Delete(r)

Arrive(r) == View(r) \/ ResumeAccepted(r) \/ ResumeRefused(r)
               \/ RequestTakeover(r) \/ InterruptAccepted(r)
               \/ CancelAccepted(r) \/ DeleteRequested(r)

Next == Start \/ Worker \/ \E r \in Requests : Serve(r) \/ Arrive(r)

Spec == Init /\ [][Next]_vars

(* The threads run: the worker never stops between two of its steps, and a *)
(* request past its first critical section returns.  No request has to     *)
(* arrive, and no operator has to answer what he saw.                      *)
Fairness == WF_vars(Worker) /\ \A r \in Requests : WF_vars(Serve(r))

FairSpec == Spec /\ Fairness

-----------------------------------------------------------------------------
(* Properties                                                              *)

(* Every variable keeps its type.                                          *)
TypeOK ==
  /\ status \in Active \cup Terminal \cup {"absent"}
  /\ shown \in Nat
  /\ queue \in Seq(Note)
  /\ takeoverEv \in BOOLEAN /\ cancelEv \in BOOLEAN /\ interruptEv \in BOOLEAN
  /\ wpc \in WorkerPc
  /\ cause \in {"none", "takeover", "step", "recovery"}
  /\ iteration \in Nat /\ closing \in Nat
  /\ exit \in {"none", "returned", "raised", "abandoned", "interrupted"}
  /\ req \in [Requests -> Request]
  /\ opened \in Nat /\ answered \in Nat /\ passed \in Nat
  /\ lateSteps \in Nat /\ lateRecoveries \in Nat /\ forced \in BOOLEAN

(* The agent never drives the browser while the run says a human does: in  *)
(* every step of the loop outside wait_for_resume the status is "running", *)
(* because a note is only ever queued after resume() flipped the status.   *)
AgentNeverDrivesWhileEscalated == wpc \in Driving => status = "running"

(* Two resume requests can never be accepted for one escalation, and no    *)
(* note outlives the escalation it was accepted for: at most one note is   *)
(* between RunManager.resume and wait_for_resume, and it was accepted for  *)
(* the escalation that is open.  So the drain of wait_for_resume never has *)
(* a leftover of an earlier escalation to throw away.                      *)
OneAnswerPerEscalation ==
  /\ \A r \in Requests : Await(r, "put") =>
       /\ req[r].note.for = opened
       /\ queue = <<>>
       /\ \A s \in Requests \ {r} : ~Await(s, "put")
  /\ Len(queue) <= 1
  /\ queue # <<>> => Head(queue).for = opened

(* RunManager.delete never drops the record of a run whose worker is still *)
(* going, although the endpoint reads the status without the lock.         *)
DeletedOnlyAfterWorkerEnded == status = "absent" => wpc \in {"none", "ended"}

(* "The loop raises RunInterrupted at its next step boundary": once        *)
(* interrupt() has set its event, at most the step under way performs its  *)
(* action, and at most one recovery action follows it in the same          *)
(* iteration, even when the worker was parked on an escalation and a resume*)
(* came in beside it.  Only when that step was the last may recoveries go  *)
(* on, at most one for each pass of the closing loop, which polls nothing. *)
InterruptHeardAtNextBoundary ==
  /\ lateSteps <= 1
  /\ lateRecoveries <= 1 \/ lateRecoveries <= closing

(* The run as its callers see it obeys the lifecycle promised to them, and *)
(* each gate is walked through once, after its own answer.                 *)
lifecycleState ==
  IF wpc = "none" THEN "absent" ELSE IF status = "absent" THEN "deleted" ELSE status

Lifecycle == INSTANCE RunLifecycle WITH state <- lifecycleState

ImplementsLifecycle == Lifecycle!Spec

(* An interrupt ends the run, wherever its worker is, parked on an         *)
(* escalation nobody answers included.                                     *)
InterruptEndsRun == interruptEv ~> wpc = "ended"

(* A force-cancel unblocks the escalation and the run comes to an end.     *)
CancelEndsRun == cancelEv ~> wpc = "ended"

(* A note that is queued once the drain is over gets the worker out of     *)
(* wait_for_resume.                                                        *)
QueuedNoteWakesWorker ==
  (wpc \in Waiting \ {"drain"} /\ queue # <<>>) ~> wpc \notin Waiting

-----------------------------------------------------------------------------
(* What comments and docstrings of the code say and the code does not do   *)

(* transport.py: "a real resume() still wakes this up within one slice at  *)
(* most".  A resume accepted between on_notify and the drain is drained.   *)
ResumeWakesWorker == (answered > passed) ~> (answered = passed \/ wpc = "ended")

(* transport.py: an interrupt "must not be reported as an abandoned        *)
(* escalation".  interrupt() sets its event and then the cancel event; a   *)
(* worker that has just found the first unset finds the second set.        *)
AbandonedOnlyWhenForced == exit = "abandoned" => forced
=============================================================================
