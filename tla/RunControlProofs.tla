-------------------------- MODULE RunControlProofs --------------------------
(***************************************************************************)
(* What holds of RunControl for every number of request threads and every  *)
(* length of the step loop.                                                *)
(*                                                                         *)
(* None of the safety properties is inductive alone: that a note in flight *)
(* answers the open escalation needs to know where the worker may be while *)
(* the note is in flight (so that no new escalation opens beside it),      *)
(* which in turn needs the status to agree with the worker's place.  IInv  *)
(* is that agreement.                                                      *)
(***************************************************************************)
EXTENDS RunControl, TLAPS

(* A note between RunManager.resume and the return of wait_for_resume.     *)
NoteInFlight == queue # <<>> \/ \E r \in Requests : req[r].pc = "put"

(* The status agrees with the place of the worker.                         *)
StatusInv ==
  /\ wpc = "none" => status = "absent" /\ shown = 0
  /\ status = "absent" => wpc \in {"none", "ended"}
  /\ status \in Terminal => wpc = "ended"
  /\ wpc \in Driving => status = "running"
  /\ wpc = "finish" => exit # "none"

(* The counters agree with the status and with the notes in flight.        *)
HandoffInv ==
  /\ wpc = "none" => opened = 0 /\ answered = 0 /\ passed = 0
  /\ wpc \in Driving => opened = passed /\ answered = passed
  /\ wpc \in Waiting => opened = passed + 1
  /\ status = "escalated" => opened = passed + 1 /\ answered = passed
  /\ NoteInFlight => /\ answered = passed + 1
                     /\ wpc \in Waiting \cup {"finish", "ended"}

(* Where the worker may be once an action was carried out after an         *)
(* interrupt: on the way to the poll that ends the run, or in the closing  *)
(* loop, one recovery a pass.                                              *)
LateInv ==
  /\ lateSteps > 0 \/ lateRecoveries > 0 => interruptEv
  /\ closing = 0 =>
       /\ lateSteps > 0 =>
            wpc \in {"boundary", "recover", "enter", "notify", "drain",
                     "checkInterrupt", "finish", "ended"}
       /\ lateRecoveries > 0 => wpc \in {"boundary", "finish", "ended"}
  /\ closing > 0 =>
       /\ cause \in {"none", "recovery"}
       /\ wpc \in {"work", "enter", "notify", "resumed", "recover", "finish",
                   "ended"} \cup Waiting
       /\ lateRecoveries <= closing
       /\ wpc \notin {"finish", "ended"} => lateRecoveries < closing

IInv ==
  /\ TypeOK
  /\ StatusInv
  /\ HandoffInv
  /\ OneAnswerPerEscalation
  /\ LateInv
  /\ InterruptHeardAtNextBoundary

USE DEF Active, Terminal, Waiting, Driving, WorkerPc, Await, Goto,
        recordVars, transportVars, workerVars, loopVars, lateVars, historyVars

(* The moves of a request thread, and what they keep of its type.          *)
LEMMA RequestMoves ==
  ASSUME req \in [Requests -> Request], NEW r \in Requests
  PROVE  /\ req[r].note \in Note
         /\ NoNote \in Note
         /\ [req EXCEPT ![r] = Idle] \in [Requests -> Request]
         /\ \A pc \in RequestPc :
              [req EXCEPT ![r] = [@ EXCEPT !.pc = pc]] \in [Requests -> Request]
         /\ \A n \in Nat :
              [req EXCEPT ![r] = [pc |-> "put", note |-> [for |-> n]]]
                \in [Requests -> Request]
  BY DEF Request, RequestPc, Note, NoNote, Idle

(* The operations of the resume queue keep its type.                       *)
LEMMA QueueMoves ==
  ASSUME queue \in Seq(Note), NEW n \in Note
  PROVE  /\ Append(queue, n) \in Seq(Note)
         /\ queue # <<>> => /\ Tail(queue) \in Seq(Note)
                            /\ Head(queue) \in Note
  OBVIOUS

LEMMA InitInv == Init => IInv
  <1> SUFFICES ASSUME Init PROVE IInv
    OBVIOUS
  <1> USE DEF Init
  <1>1. NoNote \in Note /\ Idle \in Request /\ <<>> \in Seq(Note)
    BY DEF Note, NoNote, Request, RequestPc, Idle
  <1>2. TypeOK
    BY <1>1 DEF TypeOK
  <1>3. StatusInv /\ LateInv /\ InterruptHeardAtNextBoundary
    BY DEF StatusInv, LateInv, InterruptHeardAtNextBoundary
  <1>4. HandoffInv /\ OneAnswerPerEscalation
    BY DEF HandoffInv, NoteInFlight, OneAnswerPerEscalation, Idle
  <1> QED BY <1>2, <1>3, <1>4 DEF IInv

(* The ways an iteration ends.                                             *)
LEMMA EndsKeepTypes ==
  ASSUME TypeOK, NextIteration \/ ClosingPass \/ Stop
  PROVE  /\ wpc' \in {"boundary", "work", "finish"}
         /\ cause' \in {"none", "takeover", "step", "recovery"}
         /\ iteration' \in Nat /\ closing' \in Nat
         /\ exit' \in {"none", "returned", "raised", "abandoned", "interrupted"}
  BY DEF TypeOK, NextIteration, ClosingPass, Stop

(* A step of the worker keeps the types.                                   *)
LEMMA WorkerTypeOK == TypeOK /\ StatusInv /\ Worker => TypeOK'
  <1> SUFFICES ASSUME TypeOK, StatusInv, Worker PROVE TypeOK'
    OBVIOUS
  <1> USE DEF TypeOK
  <1>1. CASE PollInterrupt \/ PollTakeover \/ EscalateStep \/ ProceedToAct
               \/ StopBeforeActing
    BY <1>1 DEF PollInterrupt, PollTakeover, EscalateStep, ProceedToAct,
                StopBeforeActing
  <1>2. CASE RecoverInstead \/ Act \/ Recover \/ AfterResume
    <2>1. wpc' \in WorkerPc /\ cause' \in {"none", "takeover", "step", "recovery"}
      BY <1>2, EndsKeepTypes DEF RecoverInstead, Act, Recover, AfterResume, Recovering
    <2>2. iteration' \in Nat /\ closing' \in Nat
      BY <1>2, EndsKeepTypes DEF RecoverInstead, Act, Recover, AfterResume
    <2>3. exit' \in {"none", "returned", "raised", "abandoned", "interrupted"}
      BY <1>2, EndsKeepTypes DEF RecoverInstead, Act, Recover, AfterResume
    <2>4. lateSteps' \in Nat /\ lateRecoveries' \in Nat
      BY <1>2 DEF RecoverInstead, Act, Recover, AfterResume
    <2>5. UNCHANGED <<recordVars, transportVars, req, opened, answered, passed,
                      forced>>
      BY <1>2 DEF RecoverInstead, Act, Recover, AfterResume
    <2> QED BY <2>1, <2>2, <2>3, <2>4, <2>5
  <1>3. CASE ClearTakeover \/ Notify \/ CheckInterrupt \/ CheckCancel \/ GetTimeout
    <2>1. CASE Notify
      BY <2>1 DEF Notify
    <2> QED BY <1>3, <2>1 DEF ClearTakeover, CheckInterrupt, CheckCancel, GetTimeout
  <1>4. CASE Drain
    BY <1>4, QueueMoves DEF Drain
  <1>5. CASE GetNote
    <2>1. queue' \in Seq(Note)
      BY <1>5, QueueMoves DEF GetNote
    <2> QED BY <1>5, <2>1 DEF GetNote
  <1>7. CASE Finish
    <2>1. exit \in {"returned", "raised", "abandoned", "interrupted"}
      BY <1>7 DEF Finish, StatusInv
    <2> QED BY <1>7, <2>1 DEF Finish, StatusOf
  <1> QED BY <1>1, <1>2, <1>3, <1>4, <1>5, <1>7 DEF Worker, Escalate

(* So does a step of a request.                                            *)
LEMMA RequestTypeOK ==
  ASSUME TypeOK, NEW r \in Requests, Serve(r) \/ Arrive(r)
  PROVE  TypeOK'
  <1> USE DEF TypeOK
  <1> DEFINE Moves == [Requests -> Request]
  <1>1. CASE PutNote(r)
    <2>1. queue' \in Seq(Note) /\ req' \in Moves
      BY <1>1, RequestMoves, QueueMoves DEF PutNote, Return
    <2> QED BY <1>1, <2>1 DEF PutNote
  <1>2. CASE SetInterrupt(r)
    <2>1. req' \in Moves
      BY <1>2, RequestMoves DEF SetInterrupt, Move, RequestPc
    <2> QED BY <1>2, <2>1 DEF SetInterrupt
  <1>3. CASE SetCancel(r)
    <2>1. req' \in Moves
      BY <1>3, RequestMoves DEF SetCancel, Return
    <2> QED BY <1>3, <2>1 DEF SetCancel
  <1>4. CASE Delete(r)
    <2>1. req' \in Moves
      BY <1>4, RequestMoves DEF Delete, Return
    <2> QED BY <1>4, <2>1 DEF Delete
  <1>5. CASE View(r)
    <2>1. req' \in Moves
      BY <1>5, RequestMoves DEF View, Move, RequestPc
    <2> QED BY <1>5, <2>1 DEF View
  <1>6. CASE ResumeAccepted(r)
    <2>1. req' \in Moves
      BY <1>6, RequestMoves DEF ResumeAccepted
    <2> QED BY <1>6, <2>1 DEF ResumeAccepted
  <1>7. CASE ResumeRefused(r)
    <2>1. req' \in Moves
      BY <1>7, RequestMoves DEF ResumeRefused, Return
    <2> QED BY <1>7, <2>1 DEF ResumeRefused
  <1>8. CASE RequestTakeover(r)
    BY <1>8 DEF RequestTakeover
  <1>9. CASE InterruptAccepted(r) \/ CancelAccepted(r) \/ DeleteRequested(r)
    <2>1. \E pc \in RequestPc : Move(r, pc)
      BY <1>9 DEF InterruptAccepted, CancelAccepted, DeleteRequested, RequestPc
    <2>2. req' \in Moves
      BY <2>1, RequestMoves DEF Move
    <2> QED BY <1>9, <2>2 DEF InterruptAccepted, CancelAccepted, DeleteRequested
  <1> QED BY <1>1, <1>2, <1>3, <1>4, <1>5, <1>6, <1>7, <1>8, <1>9
          DEF Serve, Arrive

LEMMA NextTypeOK == TypeOK /\ StatusInv /\ [Next]_vars => TypeOK'
  <1> SUFFICES ASSUME TypeOK, StatusInv, [Next]_vars PROVE TypeOK'
    OBVIOUS
  <1>1. CASE Start
    BY <1>1 DEF Start, TypeOK
  <1>2. CASE UNCHANGED vars
    BY <1>2 DEF vars, TypeOK
  <1> QED BY <1>1, <1>2, WorkerTypeOK, RequestTypeOK DEF Next
-----------------------------------------------------------------------------
(* The status follows the worker.                                          *)
LEMMA NextStatusInv ==
  TypeOK /\ StatusInv /\ HandoffInv /\ [Next]_vars => StatusInv'
  <1> SUFFICES ASSUME TypeOK, StatusInv, HandoffInv, [Next]_vars
               PROVE  StatusInv'
    OBVIOUS
  <1> USE DEF StatusInv
  <1>1. CASE Start
    BY <1>1 DEF Start
  <1>2. CASE Worker
    <2>1. CASE PollInterrupt \/ PollTakeover \/ EscalateStep \/ ProceedToAct
                 \/ StopBeforeActing
      BY <2>1 DEF PollInterrupt, PollTakeover, EscalateStep, ProceedToAct,
                  StopBeforeActing
    <2>2. CASE RecoverInstead \/ Act \/ Recover
      BY <2>2 DEF RecoverInstead, Act, Recover, Recovering, NextIteration,
                  ClosingPass, Stop
    <2>3. CASE ClearTakeover \/ Notify \/ Drain \/ CheckInterrupt
                 \/ CheckCancel \/ GetTimeout
      BY <2>3 DEF ClearTakeover, Notify, Drain, CheckInterrupt, CheckCancel,
                  GetTimeout
    <2>4. CASE GetNote
      <3>1. status = "running"
        BY <2>4 DEF GetNote, HandoffInv, NoteInFlight, TypeOK
      <3> QED BY <2>4, <3>1 DEF GetNote
    <2>5. CASE AfterResume
      BY <2>5 DEF AfterResume, Recovering, NextIteration, Stop
    <2>6. CASE Finish
      BY <2>6 DEF Finish, TypeOK
    <2> QED BY <1>2, <2>1, <2>2, <2>3, <2>4, <2>5, <2>6 DEF Worker, Escalate
  <1>3. ASSUME NEW r \in Requests, Serve(r) \/ Arrive(r)
        PROVE  StatusInv'
    <2>1. CASE PutNote(r) \/ SetInterrupt(r) \/ SetCancel(r) \/ Delete(r)
      BY <2>1 DEF PutNote, SetInterrupt, SetCancel, Delete, TypeOK
    <2>2. CASE ResumeAccepted(r)
      BY <2>2 DEF ResumeAccepted
    <2>3. CASE View(r) \/ ResumeRefused(r) \/ RequestTakeover(r)
                 \/ InterruptAccepted(r) \/ CancelAccepted(r)
                 \/ DeleteRequested(r)
      BY <2>3 DEF View, ResumeRefused, RequestTakeover, InterruptAccepted,
                  CancelAccepted, DeleteRequested
    <2> QED BY <1>3, <2>1, <2>2, <2>3 DEF Serve, Arrive
  <1>4. CASE UNCHANGED vars
    BY <1>4 DEF vars
  <1> QED BY <1>1, <1>2, <1>3, <1>4 DEF Next
(* Where a request thread goes: only resume() sends one to "put".          *)
LEMMA OnlyResumePuts ==
  ASSUME TypeOK, NEW r \in Requests, Serve(r) \/ Arrive(r), ~ResumeAccepted(r)
  PROVE  \A s \in Requests : req'[s].pc = "put" =>
            /\ req[s].pc = "put"
            /\ req'[s] = req[s]
            /\ ~PutNote(r) \/ s # r
  BY DEF TypeOK, Serve, Arrive, PutNote, SetInterrupt, SetCancel, Delete, View,
         ResumeRefused, RequestTakeover, InterruptAccepted, CancelAccepted,
         DeleteRequested, Move, Return, Idle, Request, RequestPc

(* The counters follow the handoff.                                        *)
LEMMA NextHandoffInv ==
  TypeOK /\ StatusInv /\ HandoffInv /\ OneAnswerPerEscalation /\ [Next]_vars
    => HandoffInv'
  <1> SUFFICES ASSUME TypeOK, StatusInv, HandoffInv, OneAnswerPerEscalation,
                      [Next]_vars
               PROVE  HandoffInv'
    OBVIOUS
  <1> USE DEF HandoffInv
  <1>1. CASE Start
    BY <1>1 DEF Start, StatusInv, NoteInFlight
  <1>2. CASE Worker
    <2>1. CASE PollInterrupt \/ PollTakeover \/ EscalateStep \/ ProceedToAct
                 \/ StopBeforeActing
      BY <2>1 DEF PollInterrupt, PollTakeover, EscalateStep, ProceedToAct,
                  StopBeforeActing, NoteInFlight, StatusInv
    <2>2. CASE RecoverInstead \/ Act \/ Recover
      BY <2>2 DEF RecoverInstead, Act, Recover, Recovering, NextIteration,
                  ClosingPass, Stop, NoteInFlight, StatusInv
    <2>3. CASE ClearTakeover \/ CheckInterrupt \/ CheckCancel \/ GetTimeout
      BY <2>3 DEF ClearTakeover, CheckInterrupt, CheckCancel, GetTimeout,
                  NoteInFlight
    <2>4. CASE Notify
      BY <2>4 DEF Notify, NoteInFlight, TypeOK
    <2>5. CASE Drain
      <3>1. NoteInFlight' => NoteInFlight
        BY <2>5 DEF Drain, NoteInFlight
      <3> QED BY <2>5, <3>1 DEF Drain
    <2>6. CASE GetNote
      <3>1. NoteInFlight /\ answered = passed + 1 /\ opened = passed + 1
        BY <2>6 DEF GetNote, NoteInFlight
      <3>2. queue' = <<>>
        BY <2>6 DEF GetNote, OneAnswerPerEscalation, TypeOK
      <3>3. \A r \in Requests : req'[r].pc # "put"
        BY <2>6 DEF GetNote, OneAnswerPerEscalation
      <3>4. status' # "escalated"
        BY <2>6, <3>1 DEF GetNote, TypeOK
      <3> QED BY <2>6, <3>1, <3>2, <3>3, <3>4 DEF GetNote, NoteInFlight, TypeOK
    <2>7. CASE AfterResume
      BY <2>7 DEF AfterResume, Recovering, NextIteration, Stop, NoteInFlight,
                  StatusInv
    <2>8. CASE Finish
      <3>1. status' # "escalated"
        BY <2>8 DEF Finish, StatusOf, TypeOK, StatusInv
      <3> QED BY <2>8, <3>1 DEF Finish, NoteInFlight
    <2> QED BY <1>2, <2>1, <2>2, <2>3, <2>4, <2>5, <2>6, <2>7, <2>8
            DEF Worker, Escalate
  <1>3. ASSUME NEW r \in Requests, Serve(r) \/ Arrive(r)
        PROVE  HandoffInv'
    <2>1. CASE PutNote(r)
      <3>1. NoteInFlight
        BY <2>1 DEF PutNote, NoteInFlight
      <3> QED BY <2>1, <3>1 DEF PutNote
    <2>2. CASE ResumeAccepted(r)
      <3>1. opened = passed + 1 /\ answered = passed
        BY <2>2 DEF ResumeAccepted
      <3>2. wpc \in Waiting \cup {"finish", "ended"}
        BY <2>2 DEF ResumeAccepted, StatusInv, TypeOK
      <3> QED BY <2>2, <3>1, <3>2 DEF ResumeAccepted, TypeOK
    <2>3. CASE ~PutNote(r) /\ ~ResumeAccepted(r)
      <3>1. NoteInFlight' => NoteInFlight
        BY <1>3, <2>3, OnlyResumePuts
           DEF Serve, Arrive, SetInterrupt, SetCancel, Delete, View,
               ResumeRefused, RequestTakeover, InterruptAccepted,
               CancelAccepted, DeleteRequested, NoteInFlight
      <3>2. /\ UNCHANGED <<wpc, opened, answered, passed>>
            /\ status' = "escalated" => status = "escalated"
        BY <1>3, <2>3
           DEF Serve, Arrive, SetInterrupt, SetCancel, Delete, View,
               ResumeRefused, RequestTakeover, InterruptAccepted,
               CancelAccepted, DeleteRequested
      <3> QED BY <3>1, <3>2
    <2> QED BY <2>1, <2>2, <2>3
  <1>4. CASE UNCHANGED vars
    BY <1>4 DEF vars, NoteInFlight
  <1> QED BY <1>1, <1>2, <1>3, <1>4 DEF Next
(* At most one note is in flight, for the open escalation.                 *)
LEMMA NextOneAnswer ==
  TypeOK /\ StatusInv /\ HandoffInv /\ OneAnswerPerEscalation /\ [Next]_vars
    => OneAnswerPerEscalation'
  <1> SUFFICES ASSUME TypeOK, StatusInv, HandoffInv, OneAnswerPerEscalation,
                      [Next]_vars
               PROVE  OneAnswerPerEscalation'
    OBVIOUS
  <1> USE DEF OneAnswerPerEscalation
  <1>1. CASE UNCHANGED <<queue, req, opened>>
    BY <1>1
  <1>2. CASE Notify
    <2>1. ~NoteInFlight
      BY <1>2 DEF Notify, HandoffInv
    <2> QED BY <1>2, <2>1 DEF Notify, NoteInFlight
  <1>3. CASE Drain \/ GetNote
    <2>1. UNCHANGED <<req, opened>> /\ (queue' = queue \/ queue' = <<>>)
      BY <1>3 DEF Drain, GetNote, TypeOK
    <2> QED BY <2>1
  <1>4. ASSUME NEW r \in Requests, Serve(r) \/ Arrive(r)
        PROVE  OneAnswerPerEscalation'
    <2>1. CASE PutNote(r)
      <3>1. queue = <<>> /\ req[r].note \in Note /\ req[r].note.for = opened
        BY <2>1, RequestMoves DEF PutNote, TypeOK
      <3>2. queue' = <<req[r].note>>
        BY <2>1, <3>1 DEF PutNote
      <3>3. \A s \in Requests : req'[s].pc # "put"
        BY <2>1 DEF PutNote, Return, Idle, TypeOK
      <3> QED BY <2>1, <3>1, <3>2, <3>3 DEF PutNote
    <2>2. CASE ResumeAccepted(r)
      <3>1. ~NoteInFlight
        BY <2>2 DEF ResumeAccepted, HandoffInv, TypeOK
      <3>2. queue' = <<>> /\ opened' = opened
        BY <2>2, <3>1 DEF ResumeAccepted, NoteInFlight
      <3>3. \A s \in Requests \ {r} : req'[s].pc # "put"
        BY <2>2, <3>1 DEF ResumeAccepted, NoteInFlight, TypeOK
      <3>4. req'[r].note.for = opened
        BY <2>2 DEF ResumeAccepted, TypeOK
      <3> QED BY <3>2, <3>3, <3>4
    <2>3. CASE ~PutNote(r) /\ ~ResumeAccepted(r)
      <3>1. UNCHANGED <<queue, opened>>
        BY <1>4, <2>3
           DEF Serve, Arrive, SetInterrupt, SetCancel, Delete, View,
               ResumeRefused, RequestTakeover, InterruptAccepted,
               CancelAccepted, DeleteRequested
      <3>2. \A s \in Requests : req'[s].pc = "put" =>
              req[s].pc = "put" /\ req'[s] = req[s]
        BY <1>4, <2>3, OnlyResumePuts
      <3> QED BY <3>1, <3>2
    <2> QED BY <2>1, <2>2, <2>3
  <1>5. CASE Worker /\ ~Notify /\ ~Drain /\ ~GetNote
    BY <1>1, <1>5
       DEF Worker, Escalate, PollInterrupt, PollTakeover, EscalateStep,
           ProceedToAct, RecoverInstead, StopBeforeActing, Act, Recover,
           ClearTakeover, CheckInterrupt, CheckCancel, GetTimeout, AfterResume,
           Finish
  <1> QED BY <1>1, <1>2, <1>3, <1>4, <1>5 DEF Next, Start, vars

(* Only the iteration under way, or the closing loop, acts after an        *)
(* interrupt.                                                              *)
LEMMA NextLateInv ==
  TypeOK /\ StatusInv /\ LateInv /\ InterruptHeardAtNextBoundary /\ [Next]_vars
    => LateInv' /\ InterruptHeardAtNextBoundary'
  <1> SUFFICES ASSUME TypeOK, StatusInv, LateInv,
                      InterruptHeardAtNextBoundary, [Next]_vars
               PROVE  LateInv' /\ InterruptHeardAtNextBoundary'
    OBVIOUS
  <1> USE DEF LateInv, InterruptHeardAtNextBoundary
  <1>0. lateSteps \in Nat /\ lateRecoveries \in Nat /\ closing \in Nat
    BY DEF TypeOK
  <1>1. CASE Start
    BY <1>0, <1>1 DEF Start
  <1>2. CASE Worker
    <2>1. CASE PollInterrupt \/ PollTakeover \/ EscalateStep \/ ProceedToAct
                 \/ StopBeforeActing \/ RecoverInstead
      BY <1>0, <2>1 DEF PollInterrupt, PollTakeover, EscalateStep,
                        ProceedToAct, StopBeforeActing, RecoverInstead,
                        Recovering
    <2>2. CASE Act
      <3>1. closing = 0 /\ lateSteps = 0 /\ lateRecoveries = 0
        BY <1>0, <2>2 DEF Act
      <3>2. /\ lateSteps' \in {0, 1} /\ (lateSteps' = 1 => interruptEv')
            /\ lateRecoveries' = 0
        BY <2>2, <3>1 DEF Act
      <3>3. CASE NextIteration \/ Stop \/ (Recovering /\ UNCHANGED closing)
        BY <3>1, <3>2, <3>3 DEF NextIteration, Stop, Recovering
      <3>4. CASE ClosingPass
        BY <3>1, <3>2, <3>4 DEF ClosingPass
      <3> QED BY <2>2, <3>3, <3>4 DEF Act
    <2>3. CASE Recover
      <3>1. /\ lateRecoveries' \in {lateRecoveries, lateRecoveries + 1}
            /\ lateRecoveries' # lateRecoveries => interruptEv'
            /\ UNCHANGED <<lateSteps, interruptEv>>
        BY <1>0, <2>3 DEF Recover
      <3>2. CASE closing = 0
        <4>1. lateRecoveries = 0
          BY <1>0, <2>3, <3>2 DEF Recover
        <4> QED BY <1>0, <2>3, <3>1, <3>2, <4>1 DEF Recover, NextIteration, Stop
      <3>3. CASE closing > 0
        <4>1. lateRecoveries < closing
          BY <2>3, <3>3 DEF Recover
        <4> QED BY <1>0, <2>3, <3>1, <3>3, <4>1 DEF Recover, ClosingPass, Stop
      <3> QED BY <1>0, <3>2, <3>3
    <2>4. CASE ClearTakeover \/ Notify \/ Drain \/ CheckInterrupt
                 \/ CheckCancel \/ GetNote \/ GetTimeout
      BY <1>0, <2>4 DEF ClearTakeover, Notify, Drain, CheckInterrupt,
                        CheckCancel, GetNote, GetTimeout
    <2>5. CASE AfterResume
      <3>1. closing = 0 => lateSteps = 0 /\ lateRecoveries = 0
        BY <1>0, <2>5 DEF AfterResume
      <3>2. UNCHANGED <<lateSteps, lateRecoveries, interruptEv, closing>>
        BY <2>5 DEF AfterResume, Recovering, NextIteration, Stop
      <3>3. CASE closing = 0
        BY <1>0, <3>1, <3>2, <3>3
      <3>4. CASE closing > 0
        <4>1. /\ cause' \in {"none", "recovery"}
              /\ wpc' \in {"recover", "finish"}
          BY <2>5, <3>4 DEF AfterResume, Stop
        <4>2. lateRecoveries < closing
          BY <2>5, <3>4 DEF AfterResume
        <4> QED BY <1>0, <3>2, <3>4, <4>1, <4>2
      <3> QED BY <1>0, <3>3, <3>4
    <2>6. CASE Finish
      BY <1>0, <2>6 DEF Finish
    <2> QED BY <1>2, <2>1, <2>2, <2>3, <2>4, <2>5, <2>6 DEF Worker, Escalate
  <1>3. ASSUME NEW r \in Requests, Serve(r) \/ Arrive(r)
        PROVE  LateInv' /\ InterruptHeardAtNextBoundary'
    <2>1. /\ UNCHANGED <<wpc, cause, closing, lateSteps, lateRecoveries>>
          /\ interruptEv => interruptEv'
      BY <1>3 DEF Serve, Arrive, PutNote, SetInterrupt, SetCancel, Delete,
                  View, ResumeAccepted, ResumeRefused, RequestTakeover,
                  InterruptAccepted, CancelAccepted, DeleteRequested
    <2> QED BY <2>1
  <1>4. CASE UNCHANGED vars
    BY <1>4 DEF vars
  <1> QED BY <1>1, <1>2, <1>3, <1>4 DEF Next

-----------------------------------------------------------------------------
(* The inductive invariant.                                                *)
THEOREM Invariance == Spec => []IInv
  <1>1. IInv /\ [Next]_vars => IInv'
    BY NextTypeOK, NextStatusInv, NextHandoffInv, NextOneAnswer, NextLateInv
       DEF IInv
  <1> QED BY <1>1, InitInv, PTL DEF Spec

(* Every variable keeps its type, for any set of request threads.          *)
THEOREM TypeCorrect == Spec => []TypeOK
  <1>1. IInv => TypeOK
    BY DEF IInv
  <1> QED BY <1>1, Invariance, PTL

(* The agent never drives the browser of an escalated run.                 *)
THEOREM AgentAndHumanExclude == Spec => []AgentNeverDrivesWhileEscalated
  <1>1. IInv => AgentNeverDrivesWhileEscalated
    BY DEF IInv, StatusInv, AgentNeverDrivesWhileEscalated
  <1> QED BY <1>1, Invariance, PTL

(* One accepted resume per escalation, and no leftover note, however many  *)
(* requests race.                                                          *)
THEOREM OneAnswer == Spec => []OneAnswerPerEscalation
  <1>1. IInv => OneAnswerPerEscalation
    BY DEF IInv
  <1> QED BY <1>1, Invariance, PTL

(* A record is only dropped once its worker is gone.                       *)
THEOREM DeleteIsSafe == Spec => []DeletedOnlyAfterWorkerEnded
  <1>1. IInv => DeletedOnlyAfterWorkerEnded
    BY DEF IInv, StatusInv, DeletedOnlyAfterWorkerEnded
  <1> QED BY <1>1, Invariance, PTL

(* At most one step's action and one recovery follow an interrupt, or one  *)
(* recovery a pass of the closing loop.                                    *)
THEOREM InterruptIsPrompt == Spec => []InterruptHeardAtNextBoundary
  <1>1. IInv => InterruptHeardAtNextBoundary
    BY DEF IInv
  <1> QED BY <1>1, Invariance, PTL
-----------------------------------------------------------------------------
(* Each step of the threads is a step of the lifecycle promised to the     *)
(* callers, or none.                                                       *)
LEMMA StepRefines == IInv /\ [Next]_vars => [Lifecycle!Next]_(Lifecycle!vars)
  <1> SUFFICES ASSUME TypeOK, StatusInv, HandoffInv, [Next]_vars
               PROVE  [Lifecycle!Next]_(Lifecycle!vars)
    BY DEF IInv
  <1> USE DEF lifecycleState, Lifecycle!Next, Lifecycle!vars, Lifecycle!Active,
              Lifecycle!Terminal
  <1>1. CASE Start
    BY <1>1 DEF Start, Lifecycle!Start
  <1>2. CASE Notify
    <2>1. status = "running" /\ opened = passed /\ answered = passed
      BY <1>2 DEF Notify, StatusInv, HandoffInv
    <2>2. Lifecycle!Open
      BY <1>2, <2>1 DEF Notify, Lifecycle!Open
    <2> QED BY <2>2
  <1>3. CASE GetNote
    <2>1. status = "running" /\ answered = passed + 1
      BY <1>3 DEF GetNote, StatusInv, HandoffInv, NoteInFlight, TypeOK
    <2>2. Lifecycle!Pass
      BY <1>3, <2>1 DEF GetNote, Lifecycle!Pass, TypeOK
    <2> QED BY <2>2
  <1>4. CASE Finish
    <2>1. status \in Active /\ status' \in Terminal /\ wpc' = "ended"
      BY <1>4 DEF Finish, StatusOf, StatusInv, TypeOK
    <2>2. Lifecycle!Finish
      BY <1>4, <2>1 DEF Finish, Lifecycle!Finish
    <2> QED BY <2>2
  <1>5. CASE Worker /\ ~Notify /\ ~GetNote /\ ~Finish
    <2>1. /\ UNCHANGED <<status, opened, answered, passed>>
          /\ wpc # "none" /\ wpc' # "none"
      BY <1>5 DEF Worker, Escalate, PollInterrupt, PollTakeover, EscalateStep,
                  ProceedToAct, RecoverInstead, StopBeforeActing, Act, Recover,
                  Recovering, NextIteration, ClosingPass, Stop, ClearTakeover,
                  Drain, CheckInterrupt, CheckCancel, GetTimeout, AfterResume
    <2> QED BY <2>1
  <1>6. ASSUME NEW r \in Requests, Serve(r) \/ Arrive(r)
        PROVE  [Lifecycle!Next]_(Lifecycle!vars)
    <2>1. CASE ResumeAccepted(r)
      <3>1. wpc # "none" /\ answered < opened
        BY <2>1 DEF ResumeAccepted, StatusInv, HandoffInv, TypeOK
      <3>2. Lifecycle!Answer
        BY <2>1, <3>1 DEF ResumeAccepted, Lifecycle!Answer
      <3> QED BY <3>2
    <2>2. CASE Delete(r)
      <3>1. CASE status \in Terminal
        <4>1. wpc = "ended" /\ wpc' = "ended" /\ status' = "absent"
          BY <2>2, <3>1 DEF Delete, StatusInv
        <4>2. Lifecycle!Delete
          BY <2>2, <3>1, <4>1 DEF Delete, Lifecycle!Delete
        <4> QED BY <4>2
      <3>2. CASE status \notin Terminal
        BY <2>2, <3>2 DEF Delete
      <3> QED BY <3>1, <3>2
    <2>3. CASE ~ResumeAccepted(r) /\ ~Delete(r)
      <3>1. UNCHANGED <<status, wpc, opened, answered, passed>>
        BY <1>6, <2>3
           DEF Serve, Arrive, PutNote, SetInterrupt, SetCancel, View,
               ResumeRefused, RequestTakeover, InterruptAccepted,
               CancelAccepted, DeleteRequested
      <3> QED BY <3>1
    <2> QED BY <2>1, <2>2, <2>3
  <1>7. CASE UNCHANGED vars
    BY <1>7 DEF vars
  <1> QED BY <1>1, <1>2, <1>3, <1>4, <1>5, <1>6, <1>7 DEF Next

(* The threads implement the lifecycle: the statuses follow one another as *)
(* promised, and the agent walks through each gate once, after an answer.  *)
THEOREM LifecycleImplemented == Spec => ImplementsLifecycle
  <1>1. Init => Lifecycle!Init
    BY DEF Init, Lifecycle!Init, lifecycleState
  <1> QED BY <1>1, StepRefines, Invariance, PTL
          DEF Spec, ImplementsLifecycle, Lifecycle!Spec
=============================================================================
