# A TLA+ development of comp-use

comp-use records what a language model does in a browser to reach a goal
(*discovery*), compiles it into a reviewed *artifact*, and repeats it without a
model (*replay*), handing the browser to a human when it must.  A capability
server runs discoveries and replays as background threads and exposes them, the
artifacts and a chat to a dashboard.

The modules here model the parts of that program in which the order of events
matters: who may drive the browser, what may be repeated, what may go live, what
a "yes" starts.  They are checked by TLC on small instances and, where TLAPS
reaches, proved for every value of the constants.  Every definition that models
code has an entry in `PROJECT.json` ("map") with the lines it translates; paths
below are relative to `src/`.

Contents: [1 The system](#1-the-system) ·
[2 Modules](#2-the-modules-and-the-code) ·
[3 Runs](#3-what-the-runs-check) ·
[4 Bounds, fairness, deadlock](#4-bounds-fairness-and-deadlock) ·
[5 Proofs](#5-what-is-proved) ·
[6 Where code and text disagree](#6-where-code-and-text-disagree) ·
[7 Not modelled](#7-what-is-not-modelled) ·
[8 Plan](#8-plan)

## 1 The system

### Components

| Component | State it keeps | Operations | Module |
|---|---|---|---|
| Run control: `server/run_manager.py`, `escalation/transport.py`, `escalation/controller.py` | `_runs` (one record per run, with a status), `_transports`; per transport a queue of notes and the events takeover, cancel, interrupt | start, resume, takeover, interrupt, cancel, delete; in the worker: poll, escalate, wait, finish | `RunControl`, `RunLifecycle` |
| Replay engine: `replay/engine.py` | the step index, retries used per pattern, what was recovered from, who was handed the step | `run()`: match, confirm, bind, act, screen, check, retry, recover, escalate, closing loop | `Replay` |
| Discovery agent: `discovery/agent.py` | step index, skip counter, loop counters, the trace, which finish gates have asked | `_run_loop`: observe, decide, skip, act, classify the page, record, escalate, finish | `Discovery` |
| Artifact store: `cli.py` (files), `pg/store.py` (rows), the version endpoints of `server/app.py`, `drift.py` | versions of a capability with status, default flag and content; a process-wide lock for numbering | record, approve, reject, retire, set and clear default, patch, delete | `ArtifactStore` |
| Chat: `chat/`, `send_chat_message` | per session: messages, target site, pending action, a lock | site choice, propose, confirm, cancel, amend, start | `Chat`, `Agreement` |
| Outcome library: `discovery/outcome_library.py` | none; builds patterns anew at each call | lookup by host | in `Replay` |
| Guardrail: `guardrail.py` | the allowlist and risk policy | check_allowlist, requires_confirmation, redaction | its outcomes, in `Replay` and `Discovery` |
| Compiler: `discovery/compiler.py`, the end of `run_discover` | none | trace to artifact: drop duplicates and superseded extracts, derive the schemas, insert the opening step | `Compiler`, with the recording and the replay around it |
| Run records and sandbox: `pg/store.py`, `sandbox.py`, the ends of `run_discover` and `run_replay`, `RunManager`'s worker | rows of runs, events, screenshots; a pool of connections; one container per session | insert, finish, abandon orphans, delete; spawn, connect, remove | `RunRecords` (without events, screenshots and listings) |
| Model client: `llm_client.py`, `build_llm_client` | a sliding window of request times shared by all runs | acquire, post, back off, retry, fall back | `ModelClient`; the answers are arbitrary where they are used |
| Surface, tokenizer, evidence, configuration, mock bank, dashboard | see section 7 | | not modelled, or only their outcomes |

### How they interact

* `RunManager.start` makes a record, a `QueueTransport` and a worker thread.
  The thread calls `run_replay` or `run_discover`, which build an
  `EscalationController` on that transport and run the engine or the agent.
* The engine and the agent poll the controller at the top of each step
  (`raise_if_interrupted`, takeover) and call `escalate` to hand over.  The
  callback `on_notify` sets the record's status to `escalated`; the call blocks in
  `wait_for_resume` on the queue.
* HTTP requests run on a thread pool.  They change the record under the
  manager's lock and signal the worker through the transport, after the lock is
  released.
* A discovery that succeeds is compiled and saved as a new version; a replay
  whose recorded locator no longer matches may save a patch, as another version.
  Operators approve, reject, retire and pick versions from the dashboard or the
  command line, possibly in another process.
* The chat proposes an invocation or a discovery and, when the user agrees,
  starts it as an ordinary run.
* Every run, of the server or of the command line, writes a row when it starts and
  when it ends, through a pool of connections that the API's threads use as well.
  A starting server closes the rows that say `running`.
* Discovery, chat and drift diagnosis call the model through one chain of
  providers per run; the limiter of one provider is shared by all runs.

### What is hard, and what correctness means

* **Run control.** A human and the agent must never drive one browser at the
  same time.  One escalation accepts one answer, and an answer opens the gate it
  was accepted for.  An interrupt or a cancel reaches a worker that is blocked on
  a queue.  A record is deleted only when nothing runs any more.  All of it is
  spread over one lock, one queue and three events, set in different orders by
  different threads.
* **Replay.** Irreversible steps need a confirmation for each attempt; nothing
  is skipped or reported as done unless it was done; retries are bounded; every
  address that an action leads to is screened before the next one.  The page changes
  between any two looks at it.
* **Discovery.** The model may do anything, and the loop has six ways to go on
  without progress.  It must return, ask for help before its budget is gone, not
  be trapped by its own finish gates, and not do anything irreversible unasked.
* **Artifact store.** Every edit is load, change, save, without a lock.  No steps
  may become live that nobody approved, and no recording may overwrite another.
* **Chat.** The lock of a session is held while a slow model is called; meanwhile
  more messages arrive and the dashboard changes the catalog.  One agreement
  starts one run, of something that was live when it was last checked.
* **Run records.** Store calls promise never to raise, and lose what they cannot
  write.  The row, the record and the container of a run must tell one story,
  whichever of the three ways out the run takes and whichever process dies.
* **Model client.** No window of time may hold more requests than the provider
  allows, though threads wait outside the lock, retry and fall back.
* **Compiler.** Steps are dropped on the claim that this preserves the outputs; two
  passes and two schemas have to agree on which steps are left.

The full list, each with the line where it bites, is under "hazards" in
`PROJECT.json`.

## 2 The modules and the code

Module structure: each `X.tla` declares CONSTANTS, one action per step of the
code, `Spec`, `FairSpec` where liveness is claimed, and its properties; `MCX.tla`
only names the model values; `XProofs.tla` extends `X` with theorems.  Each
property has a *mutant* beside the definition it changes: an operator that is a
plausible bug of that code.  With the mutant in its place the property must fail.

**RunLifecycle** is what the server promises to a caller who polls a run: statuses
`running` and `escalated` alternate until one of `done`, `error`, `interrupted`;
a gate is opened, answered and walked through, in that order, once each.

**RunControl** is the worker and the request threads of one run.  The worker's
program counter follows `escalate` and `wait_for_resume` statement by statement
(`ClearTakeover`, `Notify`, `Drain`, `CheckInterrupt`, `CheckCancel`, `GetNote` or
`GetTimeout`, `AfterResume`), because requests interleave between any two of
them.  Requests are two-phase where the code is: `ResumeAccepted` flips the status
under the lock, `PutNote` queues the note after it.  `interrupt()` sets two events
in two steps, after the lock is released.  The step loop is either the engine's or the agent's; what
matters here is only where it polls.  An iteration performs the step's own action (`Act`)
and may then, with no poll in between, perform a recovery action (`Recover`); after the
last step the closing loop makes passes (`ClosingPass`), each of which may recover, and polls nothing.  `ImplementsLifecycle` is the refinement
mapping to RunLifecycle: the state a caller sees is the status, and the counters
`opened`, `answered`, `passed` are the same.

**Replay** is `ReplayEngine.run` with a caller (`Call`) fixed in `Init` and the page
as environment: any look finds any pattern, any URL, any checkpoint result.
`Objects` models what the code does with `id(pattern)`: artifact patterns keep
their identity, library patterns are built anew at each lookup and get any
address.  `ScreenStep` and `ScreenRecovery` check the target where a step or a recovery has
one (`call.targeted`, `Elsewhere`), and the page only otherwise; `page` is history: who
moved the page last.  An operator's handback is one step; RunControl has its inside.

**Discovery** is `DiscoveryAgent._run_loop`.  `Controls` are loop signatures; the
model picks any decision in each turn.  `trace` keeps only what the finish gates
read of it.  `churn`, `finishes`, `committed` and `handedFor` are history.

**ArtifactStore** is one capability.  A thread's request carries its in-memory
copy, so a save writes back exactly what the load saw: the source of every race.
A version has steps (`body`), which only a recording or a patch makes, and `extras` that
reach it by other ways: corrected examples, written before the approval that carries them is looked
at, and outcome patterns, which `Carry` takes over from the version before.
Queries may fail (`MaxFaults`): reads then find nothing and writes are lost, which
is what the swallowed exceptions of `pg/store.py` do.

**Chat** is one session.  `Acquire` is `with session.lock` and the catalog snapshot;
`Leave` is the end of the block, by reply or exception.  Reading the pending action
and settling it are separate steps, so that dropping the lock shows.  `Publish` is
the dashboard.  A proposal is numbered by the message that led to it, which gives
it an identity that the code does not have.  `Check` (load and validate), `Start`
(`run_manager.start`) and `Load` (what `run_replay` loads in its own thread) are three steps, with
the dashboard between them.  `besideBroken` is a capability with
a live version next to a file that does not parse: the catalog lists it, an
unpinned load raises.

**Agreement** is what a session promises the person who types: one open proposal, never
made twice; what is agreed to is settled before the next is made: it is cleared and then
started, once, or given up when it cannot run in the store as it is when looked at.  `ImplementsAgreement`
is Chat's refinement mapping: `open` is the pending action, `agreed` what the holder of the
lock is starting, `cleared` that it passed `Check`, `made` and `started` are read off the histories.  `Runnable` is
stated for any store and any proposal, and shown to be `Startable` of what a request holds.

**RunRecords** is the runs of one server and of command lines on the same database.
A store call is as many steps as its threads can be caught between: `SeeNoPool` and
`MakePool` (the unguarded test and set), `UsePool`, `PutBack`; `PoolExhausted` and
`NoDatabase` are its failures.  `Spawn`, `Connect` and `EndSession` are
`_browser_session`, `Publish` the end of the worker, `SweepAtStart` and `Delete`
the server's own writes.  `ServerExits` and `LocalExits` may come at any moment.
What happens inside a session is the other modules' and ends here in any way.
`disturbed`, `taken`, `leaked` and `raised` are history: what a fault concerned.
`Sight` is `GET /runs/{id}`, which answers with the status of the record while there is one and with
that of the row, as it is, afterwards.  "outcome" stands for the outcomes of a replay and for
`failed`, where the record says `done`.

**ModelClient** is threads that each make calls along `Chain`.  `acquire()` is split
where its lock is: `Lock` reads the clock, `Pop`, `SeeRoom`, `Grant` and `SeeNoRoom`
run under it, `WakeUp` looks again.  `slots` keeps every slot handed out and `dropped`
counts those that have left the deque, so that a property can speak of all of them.
Time is a clock that `Tick` advances; sleepers wake at any time after they are due.

**Compiler** records any steps and any computed outputs (`Record`), compiles them
(`Compile`: `Dedup`, `DropSuperseded`, the schemas, the inserted step) and replays the
result (`Invoke`, `Open`, `Perform`, `Return`), on a host that is a constant: `After`
is the page after a step, `Read` the text at a place.  An artifact is given by the places
of the recording that were kept, so a replay can be compared with what
discovery saw at the same place (`pages`, `reads`).  `MCCompiler`'s host is
the list of what was done to it, shortened only where `HostAssumption` demands it, and so
tells apart whatever can be told apart.

## 3 What the runs check

| Run | Shows |
|---|---|
| `run_control` | Agent and human exclude each other; one answer per escalation; deletion only after the worker ended; after an interrupt at most the step under way and one recovery, or one for each pass of the closing loop; the lifecycle is implemented; interrupt and cancel end the run; a note queued after the drain wakes the worker. |
| `replay` | No step is skipped; a success is earned at every step; retries of the artifact's own patterns keep their budget; an interrupted recovery is not blamed on the page; irreversible actions are confirmed for each attempt; a page that the engine led to is screened before anything is done there, and a step without a target acts on a screened page, whoever moved it; `run()` returns. |
| `artifact_store` | No steps are live that nobody approved; new versions never collide within a process; `set_default_version` alone repairs whatever races left behind. |
| `discovery` | A stuck agent asks for help within a bound; gates do not trap; irreversible actions are confirmed for each attempt; `run()` returns. |
| `chat` | One run per agreed proposal; the open proposal is the pending action; a run that was announced fails as it loads only when what is live was changed after the check; Agreement is implemented; every message is answered. |
| `run_records` | A row that no fault disturbed agrees with the worker and with the record; what it says of the end is written once; a container goes with its session; with the pool made at startup no store call raises; an end that callers have seen of a run that no fault concerned stays across restarts, but for two changes of words (section 6). |
| `model_client` | No window, wherever it begins, holds more slots than its limit; each request to the paced provider, retries included, uses one slot; every call ends.  The chain is the configured one, which falls back from the paced provider; `RequestsArePaced` is for every chain. |
| `compiler` | A replay returns what discovery read last, however it repeated and refined its steps - except for a click meant twice in a row, and a first navigation that comes late (section 6); no replay that was let through lacks a parameter; each extracted output is read by one step. |
| four `violation` runs | One sentence of the repository each that the code does not keep, see section 6. |

## 4 Bounds, fairness and deadlock

**Bounds.**

* RunControl: two request threads, two iterations of the step loop and two passes of the
  closing loop.  Every
  race in this code is between the worker and one request, or between two
  requests; a second iteration lets a note or an event of the first escalation
  meet the second one.  The threads serve any number of requests one after the other.
* Replay: two steps and the closing loop; four patterns of different kinds (a
  business denial, a risky dialog of the artifact, a dismissible library page, a
  failure); one pattern recovers at a target of its own; two addresses, so that a fresh object
  may or may not repeat one.
* ArtifactStore: two threads of one process, two bodies of steps, one failing
  query; the store is empty at first or holds the version that the repository ships.  Two
  versions are the least with which a default can move and patterns can be carried over.
* Discovery: one irreversible control and one extract, thresholds 3 and 2,
  eleven turns.  `MaxChurn` is then 10, and a run of eleven turns can reach it, so
  that the bound is tight.
* Chat: two overlapping requests, four messages (choose the site, propose,
  and two more that agree, cancel or amend), one capability that any number of
  publications may change.

* RunRecords: one run of the server and one of a command line, which share nothing
  but the sweep, beside the request that deletes; a pool of one connection, so that any
  two calls meet at its limit; two faults and two exits, as many as it
  takes to lose a write, restart, and lose the sweep or the next write as well.
* ModelClient: two threads, each with one call that may make three attempts at each of two
  providers; two slots in a window of three ticks, fewer than the attempts, so that the
  threads wait for and pass each other.  The limiter does not read who asks.
* Compiler: four steps out of seven.  That the order of the two passes matters shows
  with four (a step, two extracts of one name around it, and the step again); the
  seven differ in all that the compiler looks at.

**Symmetry** is used in ArtifactStore only, on the request threads; that run has
no liveness property.

**Fairness** is weak fairness of program threads, never of people:

* RunControl: the worker, and each request once accepted.  Nobody must resume an
  escalation.
* Replay, Discovery: the engine and the agent go on by themselves, since every
  Playwright and model call has a timeout.  The two liveness properties say "returns,
  or waits for a human for ever".  An unattended agent's `_escalate` returns at
  once, so that `HandBack` is fair for it alone.
* ModelClient: threads run, a request is answered or times out after 60 seconds, the clock
  goes on.  Nobody must begin a call.  `EveryCallEnds` rests on the bound on calls: the
  limiter keeps no queue, and a waiter may be passed over as long as others come.
* Chat: request threads run and model calls end.  `threading.Lock` is not fair; that a
  waiting message gets it is due to the bound on messages.

**Deadlock** is checked in RunControl, ArtifactStore and Compiler.  In Replay, Discovery,
Chat, RunRecords and ModelClient the system stops by design: `run()` has returned, the
conversation is over, all runs have ended and been deleted, all calls are made.

## 5 What is proved

TLAPS proves each of these for every value of the constants.

| Module | Theorem | Property |
|---|---|---|
| RunControlProofs | TypeCorrect, AgentAndHumanExclude, OneAnswer, DeleteIsSafe, InterruptIsPrompt | the run's invariants, for any threads and iterations |
| | LifecycleImplemented | the refinement of RunLifecycle |
| ReplayProofs | TypeCorrect, NoStepSkipped, SuccessIsEarned, OwnBudgetKept, InterruptionExplains, RiskConfirmed, LandingsAreScreened | the run's safety properties, for any artifact, library and budgets |
| ArtifactStoreProofs | TypeCorrect, LiveIsReviewed, NewVersionsNeverCollide, SetDefaultHeals | for any threads, versions and failing queries |
| DiscoveryProofs | TypeCorrect, StuckIsNoticed, GatesDoNotTrap, RiskConfirmed | for any controls, budget and thresholds |
| ChatProofs | TypeCorrect, OneRun, Accounted, OvertakenOnly | for any requests, messages and capabilities |
| | AgreementImplemented | the refinement of Agreement |
| RunRecordsProofs | TypeCorrect, RowsAreTrue, ContainersGoWithTheirRuns, FirstPoolIsSafe, EndsAreWrittenOnce, EndsStayInSight | for any runs, pool, faults and exits |
| ModelClientProofs | TypeCorrect, WindowKept, NapsBounded, RequestsArePaced | for any threads, providers, window and limit |
| CompilerProofs | TypeCorrect, OutputsPreserved, SchemasFit | for recordings of any length on any host that meets `HostAssumption` |

Replay and ArtifactStore check their `TypeOK` in a run as well; that of the others is
proved only.

**The inductive invariants** (`IInv`), and why the properties need them:

* RunControl.  `StatusInv` ties the status to the worker's place, `HandoffInv` the
  three counters to the status and to the notes in flight: a note in flight
  answers the open escalation only because no other can open beside it.  `LateInv`
  says where the worker may be after a late step and after a late recovery: on the way to
  its next poll, or in the closing loop, whose passes then bound the recoveries.
* Replay.  `ConsentInv` carries a confirmation from the handback to the action,
  `ProgressInv` what was performed or handed over to where a step is passed,
  `BudgetInv` the retries to the pattern they are charged to, `PlaceInv` the range
  of the index.
* ArtifactStore.  Four invariants.  For *live is reviewed*: every copy a thread
  holds, not only the store, has approved steps if it says so.  For *versions
  never collide*: whoever numbers holds the lock, and its number is still free at
  the save, though edits take no lock.  For the types (`Within`): no version has a number
  larger than the number of versions that have been given one, also when numbers are
  given twice or versions deleted.  For *set-default heals* (`Clearing`): while
  nobody else is busy, every other default is in the list still to be cleared, or is the
  one whose clearing is under way.
* Discovery.  `Charged`: wherever the loop goes on, a turn is left, and finishes
  and vain turns are among those charged.  `ChurnInv`: each attempt on record allows for
  itself and for fewer skips before it than make a dead end, and a control is attempted
  fewer times than the loop threshold; the sum over the controls is the cardinality of a
  set of pairs, control and attempt.  `Refused`: each refused finish used up one of two
  questions.  `Consented`: who is about to act was just told to.
* Chat.  `Exclusive`: the requests inside a turn are the holder of the lock.
  `Numbered`: no two requests serve one message, and a message in service has not
  made its proposal.  `Settling`: what was read of the pending action is still so,
  and what is about to start has not been started.  The refinement needs no more: each
  action of Chat is one of Agreement or changes nothing in it.  `Checked`: what is cleared,
  or started and not yet loaded, could run in the store that its check saw.
* RunRecords.  `RowInv` and `EarlyInv` say what the row is at each place of the worker,
  before and after its statement is executed; `RecordInv` that the record moves with
  the worker; `CallInv` that no call outlives its server; `PoolInv` that a pool
  made at startup is never replaced; `ContainerInv` where a container may be up.
  What callers see changes hands only when the record goes, and the row then says the same
  or what `done` stood for, or the run never had a row.
* ModelClient.  The count in `WindowNeverExceeded` follows from `Spaced`: slots are in order
  and two that are `MaxRequests` apart are a window apart.  A slot is granted when fewer than `MaxRequests` are in the deque, so the
  slot that many before it has left (`Room`), which happens only when it is a window
  old (`Dropped`); and the time of the new slot is not older, for it was read under
  the lock (`Exclusive`, `Read`).
* Compiler.  `Abreast`: during a replay the page is the one discovery had at the same
  place, and each output has the value it had there or an extract still to come.
  `PassedWell` says that whatever is dropped has an equal neighbour or a later
  extract of its name that is itself kept; it is shown along the recording, step by
  step, since induction over sequences is out of the prover's reach.

**Assumptions.**  Each module names one for its constants (`MaxIterationsAssumption`,
`ReplayAssumption`, `StoreAssumption`, `DiscoveryAssumption`, `ChatAssumption`,
`RunRecordsAssumption`, `ModelClientAssumption`, `ProvidersAssumption`,
`CompilerAssumption`): ranges of numbers, disjointness of kinds, and that None is
none of them; and `FiniteControls`, since the bound of `StuckAgentAsksForHelp` counts
the controls.  `HostAssumption` is about the host: reading changes nothing, neither
does opening or filling in the same again, and a page that is opened does not
depend on the start page opened before it.  TLC evaluates them in every run.  `NewVersionsNeverCollide` also assumes `SharedLock`: all threads
are of one process.  That is a real restriction: the lock is a `threading.Lock`,
and a command line recording next to a server is not covered by it (section 6).

**Only model-checked:** all liveness (`InterruptEndsRun`, `CancelEndsRun`,
`QueuedNoteWakesWorker`, `EngineReturns`, `DiscoveryReturns`, `MessagesAreAnswered`, `EveryCallEnds`):
the prover has no rule for fairness.  Every safety property of a passing run is a theorem.

## 6 Where code and text disagree

Each of these is a `violation` run; the quotations are under "findings".

* *A resume can be lost* (`ResumeWakesWorker`).  The status becomes `escalated`
  before `wait_for_resume` drains the queue.  A resume in between is answered 202
  and its note drained; the worker waits for ever, and further resumes are refused.
* *An interrupted run is reported as abandoned* (`AbandonedOnlyWhenForced`).  `interrupt()`
  sets the interrupt event and then the cancel event; a worker that looks at the first too early
  sees the second, raises `EscalationAbandoned`, and the run ends `done`.
* *A rejected draft is approved* (`RejectedIsFinal`), when both requests overlap.
* *A finish is not final* (`FinishIsFinalAfterCommit`), when the irreversible
  action landed on a page that the outcome library recognises.

Seen while modelling, allowed by the models, and not repeated by a run:

* Retries are counted per `id(pattern)`, and patterns of the library are rebuilt at
  each lookup, so that theirs exceed `max_retries` (`engine.py:243`).
* A drift patch copies the default flag of the version it patches: two defaults, where
  `schemas.py:185` has at most one.
* A resume names no escalation.  A duplicate that arrives when the next
  escalation is open answers that one.  Likewise a chat "yes" names no proposal: one
  that waited for the session's lock settles what it finds, also a proposal that
  was made while it waited and that nobody has read.
* A refused invocation is told to the user, but the session's transcript, which the
  model reads, still says "Starting invoke".
* A force-cancelled run ends `done` with a failed result; the docstring at
  `run_manager.py:196` says `error`.
* A takeover requested between `clear_takeover` and the notification survives its
  escalation, and the run escalates again.  A recorded escalation is only cleared
  by `resume`, so that the banner outlives a cancelled one.
* "Its next step boundary" lets a step and a recovery of the same iteration follow an interrupt.
  In the last step there is no next boundary: the closing loop goes on with a recovery in each pass, as
  long as retries last, and the run ends `done`.
* A step that has a target, or a recovery that has one, has the target checked in place
  of the page it acts on (`engine.py:469`, `:208`).  What an operator hands back is then acted on
  unchecked; so it is by a risky recovery, which is checked before its escalation and not after.
* A step whose checkpoint meets a recoverable page is performed again, an irreversible one
  included, for this is how `_should_retry` is documented (`engine.py:243`).  An attended run that is not
  pre-confirmed asks again; others do not.
* Corrected examples are saved before `approve_artifact` looks at the status
  (`app.py:533`): an approved version gets them although the request is then answered 409.  And an
  approval that loaded the version before they were saved writes it back without them, so that "a caller
  can never see an approved capability whose defaults are still the un-reviewed ones" (`app.py:544`) does
  not hold of two requests at once.
* A recording takes over the outcome patterns, recovery actions included, of the version
  before it, whatever the status of that one and after the operator's yes (`cli.py:535`).
  `LiveStepsReviewed` is therefore about steps and not about all that a version holds.
* `GET /runs/{id}` shows the status of the row as it is when the record is gone
  (`app.py:400`): a replay that was `done` is `success`, `input_error` or another outcome after a
  restart, none of which is a `RunRecord.status`, and who polls for `done` (`README.md:167`) waits in
  vain.  An error from before `start_run` is a 404 then.
* The chat's check before a start (`app.py:653`) is followed by the start and by another load in
  the run's own thread, with no lock against the dashboard.  The run error beside "Starting invoke"
  that `app.py:650` wants to avoid can still come, if the capability changes in that time.
* In discovery a recovery action is neither screened nor confirmed, and an
  action that landed on a dismissed page may be repeated by the model.
* In discovery, failing actions on ever new locators meet neither the dead-end
  counter, which each decision clears, nor the loop guard; only `max_steps` ends them.
* `pg/store.py:1` says that its functions never raise.  When two threads make a pool each,
  `putconn` returns a connection to the wrong one and raises out of the `finally`, in the
  run: one whose end was already stored is then stored again, as an error.
* `pg/store.py:100` has "no race to lose" in closing open rows at startup.  A run of the
  command line on the same database is closed with them, and later writes its own end.
* A lost `finish_run` leaves its row `running` until the next start of a server, which
  reports it as interrupted.  DELETE answers "deleted" when only the row's deletion
  was lost, and removes the row of a command line run that is still going on.  A Ctrl-C
  leaves a command line run's row `running`.
* `connect_over_cdp` that fails leaves its container behind (`cli.py:86`).
* The limiter bounds the slots handed out in a window, not the requests sent: a thread
  may post long after it was given its slot.
* `FallbackLLMClient.chat` and `diagnose_drift` do not set `_last_used`, so that
  `last_usage` is that of an earlier call.
* `CODEMAP.md:1051` says that an artifact always starts with a navigation to `start_url`.
  It is inserted only when nothing navigates (`cli.py:497`), and the agent's own
  opening is not recorded: a recording whose first navigation comes late
  replays its first steps on the page of a new session.
* Two equal clicks in a row become one, which `compiler.py:6` calls harmless; for a button
  that is meant to be pressed twice it is not.
* A computed output named like an extracted one is silently dropped, and a parameter
  used only by a superseded extract is still required of every caller.
* Recordings by two processes (server and command line) can take one version number.
* One unreadable version file makes every unpinned load of its capability fail,
  while the chat catalog, which skips it, goes on offering the capability.

## 7 What is not modelled

* **Strings**: redaction, tokenizing, URL and locator matching, prompts, slugs.
  The models keep the outcome of each check as a choice.
* **Surface, evidence**: I/O.  Any surface call may fail in `Replay` and `Discovery`, and
  is a deterministic step in `Compiler`; how a locator is resolved through its
  fallbacks is left out.  Evidence is written and never read by a run.
* **The inside of the sandbox**, and the liveness of its ports: only that a
  container is up or not is in `RunRecords`.
* **Events, screenshots and listings of runs**: appended to and read, never decided
  upon.  An event written outside the `try` (`cli.py:709`, `:715`) may raise as well, which
  would leave the row `running`: `RunRecords` does not have it.
* **A `docker rm` that fails**: `sandbox.stop` ignores its result (`sandbox.py:120`), and the model
  takes the container for removed.
* **Arithmetic**: the sum of the amounts in a text is a constant of `Compiler`.
* **Chat sessions** share nothing, so one is modelled.  A restart drops them with
  their threads, and what remains is a 404.
* **Mock applications, dashboard**: test equipment and a client without state the
  server depends on.
* `LocalSharedBrowserTransport` is `input()`.

## 8 Plan

Order: what can hurt most first.  1 to 8 are done.

1. `RunLifecycle`, `RunControl` and its proofs: the handoff.
2. `Replay` and its proofs.
3. `ArtifactStore` and its proofs.
4. `Discovery` and its proofs.
5. `Chat` and its proofs.
6. `RunRecords` and its proofs: rows, records, the pool and containers.
7. `ModelClient` and its proofs: the sliding window, retries and the fallback.
8. `Compiler` and its proofs: dropping steps preserves the outputs.
9. Composition: a replay whose escalations are RunControl's, so that a confirmation
   is shown to be an accepted resume; a chat whose `Startable` reads ArtifactStore;
   and RunRecords' `Publish` as RunControl's `Finish`.
10. Proofs: the refinements of 9.
11. `Surface`: the walk along a locator's fallbacks, where a first attempt that timed
    out after it went through is followed by a second one.
