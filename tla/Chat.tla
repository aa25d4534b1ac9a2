-------------------------------- MODULE Chat --------------------------------
(***************************************************************************)
(* One chat session.  A message either names the site, answers a proposal, *)
(* or is a request which a language model turns into a new proposal or     *)
(* into talk; a proposal that the user agrees to is started as a run.      *)
(*                                                                         *)
(* Each POST /chat/sessions/{id}/message is served by a thread of its own, *)
(* and nothing keeps a second one from being sent while the first is being *)
(* answered: a retry, a second tab.  session.lock is held from the catalog *)
(* to the start of the run, the calls to the model included.  Meanwhile    *)
(* the dashboard records, approves, retires and deletes versions, which no *)
(* lock keeps it from: what the request has checked may be gone when the   *)
(* run is started, and again when the thread of the run loads it.          *)
(***************************************************************************)
EXTENDS Naturals

CONSTANTS
  Requests,      \* threads that serve messages of this session
  Capabilities,
  MaxMessages,   \* bound: messages sent in the session
  None           \* no lock holder, no proposal

VARIABLES
  pc,        \* where each request is
  message,   \* what each request says, as far as turn() looks at it
  catalog,   \* what build_chat_catalog found for each request
  held,      \* each request's local `pending`
  number,    \* history: the number of each request's message; proposals bear it
  lock,      \* the holder of session.lock
  site,      \* session.target_site is set
  pending,   \* session.pending_action
  store,     \* what is live of each capability
  sent,      \* history: messages sent
  fate,      \* history: what became of each proposal
  starts,    \* history: runs started for each proposal
  run,       \* what the run of each proposal has still to load
  checked,   \* history: what was live when the proposal was checked
  failed     \* history: runs that ended before a browser was opened

session == <<lock, site, pending>>
runs    == <<starts, run, checked, failed>>
history == <<fate, runs>>
local   == <<message, catalog, held, number>>
vars == <<pc, message, catalog, held, number, lock, site, pending, store, sent,
          fate, starts, run, checked, failed>>

Ids == 1 .. MaxMessages

(* The parameters that a call supplies, or that a version requires.        *)
Params == {"few", "all"}

(* Nothing approved; a live version that requires few or all parameters;   *)
(* one that requires few, next to a version that cannot be read.           *)
States == {"absent", "few", "all", "besideBroken"}

(* A name by itself, or one of the words that _parse_explicit_decision     *)
(* knows, or anything else.                                                *)
Messages == {"site", "yes", "no", "other"}

Proposal == [id : Ids, kind : {"invoke", "discover"}, capability : Capabilities, params : Params]

ASSUME ChatAssumption ==
  MaxMessages \in Nat /\ None \notin Requests /\ None \notin Proposal

Pcs   == {"idle", "sent", "turn", "resolving", "thinking", "starting", "cleared", "replied"}
Fates == {"none", "open", "withdrawn", "confirmed"}

Listed(state) == state # "absent"
Satisfies(state, params) == state = "all" => params = "all"

NoCatalog == [c \in Capabilities |-> "absent"]

Init ==
  /\ pc = [q \in Requests |-> "idle"]
  /\ message = [q \in Requests |-> "other"]
  /\ catalog = [q \in Requests |-> NoCatalog]
  /\ held = [q \in Requests |-> None]
  /\ number = [q \in Requests |-> 0]
  /\ lock = None /\ site = FALSE /\ pending = None
  /\ store \in [Capabilities -> States]
  /\ sent = 0
  /\ fate = [i \in Ids |-> "none"] /\ starts = [i \in Ids |-> 0]
  /\ run = [i \in Ids |-> None] /\ checked = [i \in Ids |-> "absent"] /\ failed = {}

Goto(q, label) == pc' = [pc EXCEPT ![q] = label]

-----------------------------------------------------------------------------
(* The surroundings: users and the dashboard                               *)

Send(q, m) ==
  /\ pc[q] = "idle" /\ sent < MaxMessages
  /\ Goto(q, "sent")
  /\ message' = [message EXCEPT ![q] = m]
  /\ sent' = sent + 1 /\ number' = [number EXCEPT ![q] = sent + 1]
  /\ UNCHANGED <<catalog, held, session, store, history>>

(* The reply reaches the user, or is lost with the connection.             *)
Reply(q) ==
  /\ pc[q] = "replied"
  /\ Goto(q, "idle")
  /\ number' = [number EXCEPT ![q] = 0]
  /\ UNCHANGED <<message, catalog, held, session, store, sent, history>>

Publish(c, state) ==
  /\ store' = [store EXCEPT ![c] = state]
  /\ UNCHANGED <<pc, local, session, sent, history>>

-----------------------------------------------------------------------------
(* send_chat_message and ChatAgent.turn                                    *)

(* Mutant: no lock, so a second request may come in.                       *)
Enters(q) == lock' = q

(* with session.lock                                                       *)
TakesLock(q) == lock = None /\ lock' = q

Acquire(q) ==
  /\ pc[q] = "sent"
  /\ TakesLock(q)
  /\ catalog' = [catalog EXCEPT ![q] = store]
  /\ Goto(q, "turn")
  /\ UNCHANGED <<message, held, number, site, pending, store, sent, history>>

(* The end of the with block, whether by a reply or by an exception.  What *)
(* the thread knew is of no further use.                                   *)
Leave(q) ==
  /\ lock' = None
  /\ Goto(q, "replied")
  /\ message' = [message EXCEPT ![q] = "other"]
  /\ catalog' = [catalog EXCEPT ![q] = NoCatalog]
  /\ held' = [held EXCEPT ![q] = None]

(* The site is chosen once, before anything else is looked at.             *)
SelectSite(q) ==
  /\ pc[q] = "turn" /\ ~site
  /\ site' = (message[q] = "site")
  /\ Leave(q)
  /\ UNCHANGED <<number, pending, store, sent, history>>

(* pending = session.pending_action                                        *)
ReadPending(q) ==
  /\ pc[q] = "turn" /\ site /\ pending # None
  /\ held' = [held EXCEPT ![q] = pending]
  /\ Goto(q, "resolving")
  /\ UNCHANGED <<message, catalog, number, session, store, sent, history>>

NormalTurn(q) ==
  /\ pc[q] = "turn" /\ site /\ pending = None
  /\ Goto(q, "thinking")
  /\ UNCHANGED <<local, session, store, sent, history>>

(* An exact word decides; only what is neither goes to the model, and what *)
(* the model fails to say counts as an amendment.                          *)
Decisions(m) ==
  CASE m = "yes" -> {"confirm"} [] m = "no" -> {"cancel"}
    [] OTHER -> {"confirm", "cancel", "amend"}

Becomes(q, what) == fate' = [fate EXCEPT ![held[q].id] = what]

(* Mutant: the confirmed proposal stays the pending action.                *)
ConfirmAndKeep(q) ==
  /\ pc[q] = "resolving" /\ "confirm" \in Decisions(message[q])
  /\ Becomes(q, "confirmed")
  /\ Goto(q, "starting")
  /\ UNCHANGED <<local, lock, site, pending, store, sent, runs>>

Confirm(q) ==
  /\ pc[q] = "resolving" /\ "confirm" \in Decisions(message[q])
  /\ pending' = None /\ Becomes(q, "confirmed")
  /\ Goto(q, "starting")
  /\ UNCHANGED <<local, lock, site, store, sent, runs>>

Cancel(q) ==
  /\ pc[q] = "resolving" /\ "cancel" \in Decisions(message[q])
  /\ pending' = None /\ Becomes(q, "withdrawn")
  /\ Leave(q)
  /\ UNCHANGED <<number, site, store, sent, runs>>

(* Mutant: the amended proposal is left for the next turn to replace.      *)
AmendAndKeep(q) ==
  /\ pc[q] = "resolving" /\ "amend" \in Decisions(message[q])
  /\ Becomes(q, "withdrawn")
  /\ Goto(q, "thinking")
  /\ UNCHANGED <<local, lock, site, pending, store, sent, runs>>

Amend(q) ==
  /\ pc[q] = "resolving" /\ "amend" \in Decisions(message[q])
  /\ pending' = None /\ Becomes(q, "withdrawn")
  /\ Goto(q, "thinking")
  /\ UNCHANGED <<local, lock, site, store, sent, runs>>

(* Text, a tool it was not offered, a capability that is not listed, or    *)
(* parameters that are missing: the reply says so.                         *)
Talk(q) ==
  /\ pc[q] = "thinking"
  /\ Leave(q)
  /\ UNCHANGED <<number, site, pending, store, sent, history>>

Propose(q, kind, c, params) ==
  /\ pending' = [id |-> number[q], kind |-> kind, capability |-> c, params |-> params]
  /\ fate' = [fate EXCEPT ![number[q]] = "open"]
  /\ Leave(q)
  /\ UNCHANGED <<number, site, store, sent, runs>>

ProposeInvoke(q, c, params) ==
  /\ pc[q] = "thinking"
  /\ Listed(catalog[q][c]) /\ Satisfies(catalog[q][c], params)
  /\ Propose(q, "invoke", c, params)

ProposeDiscovery(q, c) ==
  /\ pc[q] = "thinking"
  /\ Propose(q, "discover", c, "all")

CallsModel(q) ==
  pc[q] = "thinking" \/ (pc[q] = "resolving" /\ message[q] \notin {"yes", "no"})

(* Mutant: the lock is not released on the way out.                        *)
ModelFailsHolding(q) ==
  /\ CallsModel(q)
  /\ Goto(q, "replied")
  /\ UNCHANGED <<local, session, store, sent, history>>

(* Both providers fail, or send a call without its arguments.  The request *)
(* is an error.  A proposal that was to be resolved stays; one that was    *)
(* amended is gone.                                                        *)
ModelFails(q) ==
  /\ CallsModel(q)
  /\ Leave(q)
  /\ UNCHANGED <<number, site, pending, store, sent, history>>

(* load_artifact and validate_required_params.  Loading without a version  *)
(* reads every version, so one that cannot be read is an error.  A         *)
(* discovery loads nothing.                                                *)
Loads(p, state) ==
  p.kind = "invoke" => state \in {"few", "all"} /\ Satisfies(state, p.params)

(* Mutant: the check before the start trusts the catalog of this turn.     *)
StartableInCatalog(q) == Loads(held[q], catalog[q][held[q].capability])

Startable(q) == Loads(held[q], store[held[q].capability])

Check(q) ==
  /\ pc[q] = "starting" /\ Startable(q)
  /\ checked' = [checked EXCEPT ![held[q].id] = store[held[q].capability]]
  /\ Goto(q, "cleared")
  /\ UNCHANGED <<local, session, store, sent, fate, starts, run, failed>>

Refuse(q) ==
  /\ pc[q] = "starting" /\ ~Startable(q)
  /\ Leave(q)
  /\ UNCHANGED <<number, site, pending, store, sent, history>>

(* run_manager.start: a thread with the proposal in its closure.           *)
Start(q) ==
  /\ pc[q] = "cleared"
  /\ starts' = [starts EXCEPT ![held[q].id] = @ + 1]
  /\ run' = [run EXCEPT ![held[q].id] = held[q]]
  /\ Leave(q)
  /\ UNCHANGED <<number, site, pending, store, sent, fate, checked, failed>>

(* run_replay, in that thread, loads and validates once more, and ends in  *)
(* an error or as input_error when it cannot.                              *)
Load(i) ==
  /\ run[i] # None
  /\ failed' = IF Loads(run[i], store[run[i].capability]) THEN failed ELSE failed \cup {i}
  /\ run' = [run EXCEPT ![i] = None]
  /\ checked' = [checked EXCEPT ![i] = "absent"]
  /\ UNCHANGED <<pc, local, session, store, sent, fate, starts>>

Turn(q) ==
  \/ Acquire(q) \/ SelectSite(q) \/ ReadPending(q) \/ NormalTurn(q)
  \/ Confirm(q) \/ Cancel(q) \/ Amend(q)
  \/ Talk(q) \/ ModelFails(q)
  \/ \E c \in Capabilities : ProposeDiscovery(q, c) \/ \E p \in Params : ProposeInvoke(q, c, p)
  \/ Check(q) \/ Refuse(q) \/ Start(q)

User(q) == Reply(q) \/ \E m \in Messages : Send(q, m)

Next ==
  \/ \E q \in Requests : Turn(q) \/ User(q)
  \/ \E i \in Ids : Load(i)
  \/ \E c \in Capabilities, s \in States : Publish(c, s)

Spec == Init /\ [][Next]_vars

(* Threads run, and the calls to the model time out.  The lock is not      *)
(* fair; that it is passed on is due to the bound on messages.             *)
Fairness == \A q \in Requests : WF_vars(Turn(q)) /\ WF_vars(Reply(q))

FairSpec == Spec /\ Fairness

-----------------------------------------------------------------------------
(* Properties                                                              *)

(* Every variable keeps its type.                                          *)
TypeOK ==
  /\ pc \in [Requests -> Pcs] /\ message \in [Requests -> Messages]
  /\ catalog \in [Requests -> [Capabilities -> States]]
  /\ held \in [Requests -> Proposal \cup {None}]
  /\ number \in [Requests -> 0 .. MaxMessages]
  /\ lock \in Requests \cup {None} /\ site \in BOOLEAN
  /\ pending \in Proposal \cup {None}
  /\ store \in [Capabilities -> States]
  /\ sent \in 0 .. MaxMessages
  /\ fate \in [Ids -> Fates] /\ starts \in [Ids -> Nat]
  /\ run \in [Ids -> Proposal \cup {None}] /\ checked \in [Ids -> States]
  /\ failed \subseteq Ids

(* However requests overlap, a proposal is started once at the most, and   *)
(* only one that was agreed to, not cancelled and not amended.             *)
OneRunPerProposal ==
  \A i \in Ids : starts[i] <= (IF fate[i] = "confirmed" THEN 1 ELSE 0)

(* What awaits a decision is the session's pending action: no proposal is  *)
(* overwritten by a concurrent one, and none that was settled comes back   *)
(* for a later yes, also when the model failed half way.                   *)
OpenIsPending ==
  \A i \in Ids : fate[i] = "open" <=> (pending # None /\ pending.id = i)

(* An invocation that was agreed to turns after it was proposed is checked *)
(* again before it is started: the user is told "Starting" of a run that   *)
(* ends as it loads its capability only if what is live was changed after  *)
(* that check, before the start or between the start and the load.         *)
FailsOnlyWhenOvertaken ==
  [][\A i \in Ids :
       i \in failed' \ failed => store[run[i].capability] # checked[i]]_vars

(* The proposal that the holder of the lock is about to start.             *)
underWay == IF lock # None /\ pc[lock] \in {"starting", "cleared"} THEN held[lock] ELSE None

(* What each store can run.                                                *)
Runnable ==
  [live \in [Capabilities -> States] |-> {p \in Proposal : Loads(p, live[p.capability])}]

Agreed == INSTANCE Agreement WITH
  Proposals <- Proposal, Stores <- [Capabilities -> States],
  open <- pending, agreed <- underWay, cleared <- (lock # None /\ pc[lock] = "cleared"),
  made <- {i \in Ids : fate[i] # "none"}, started <- {i \in Ids : starts[i] > 0}

(* The threads of a session keep to the agreement with its user: one open  *)
(* proposal, never made twice, and what was agreed to is checked and then  *)
(* started once, or given up because it cannot run any more, before the    *)
(* next is made.                                                           *)
ImplementsAgreement == Agreed!Spec

(* Every message is answered, if only by an error: no turn keeps the lock  *)
(* from those that follow.                                                 *)
MessagesAreAnswered ==
  \A q \in Requests : pc[q] = "sent" ~> pc[q] = "replied"
=============================================================================
