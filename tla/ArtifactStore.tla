---------------------------- MODULE ArtifactStore ----------------------------
(***************************************************************************)
(* The versions of one capability and everything that edits them: the      *)
(* approve, reject, retire, set-default, clear-default and delete requests *)
(* of the capability server, the recording of a new version by a discovery *)
(* run, and the patch that a drift diagnosis proposes.                     *)
(*                                                                         *)
(* Every edit loads a version, changes its copy and saves the copy back;   *)
(* a load, a listing and a save are one query each (or one file), and      *)
(* nothing but the numbering of a new version is under a lock.  A failing  *)
(* query is logged and swallowed: a read finds nothing, a write is lost.   *)
(*                                                                         *)
(* Capabilities share nothing but the lock, so one is modelled.            *)
(***************************************************************************)
EXTENDS Integers, FiniteSetsExt

CONSTANTS
  Requests,      \* threads that edit the store: HTTP requests, runs, CLI calls
  Processes,     \* the processes they run in: the server, a CLI
  Process,       \* the process of each
  MaxBodies,     \* bound: new versions made in a behaviour
  MaxFaults,     \* bound: queries that fail in a behaviour
  None           \* no artifact, no holder of a lock

Statuses == {"draft", "approved", "rejected", "retired"}

ASSUME StoreAssumption ==
  /\ Process \in [Requests -> Processes]
  /\ MaxBodies \in Nat /\ MaxFaults \in Nat
  /\ None \notin Requests
  /\ None \notin [version : Nat, status : Statuses, default : BOOLEAN, body : Nat,
                  extras : SUBSET {"examples", "patterns"}]

(* An artifact.  Its recorded steps are a number given to each recording   *)
(* and each patch; its extras say what came to it otherwise: input         *)
(* examples a reviewer corrected, outcome patterns somebody wrote by hand. *)
Bodies   == 1 .. MaxBodies
Versions == 1 .. MaxBodies
Extras   == {"examples", "patterns"}
Artifact == [version : 0 .. MaxBodies, status : Statuses, default : BOOLEAN, body : Bodies,
             extras : SUBSET Extras]

Edits == {"approve", "approveWithExamples", "reject", "retire", "setDefault",
          "clearDefault"}
Pcs   == {"idle", "load", "save", "list", "others", "saveOther", "lock",
          "number", "carry", "saveNew"}

VARIABLES
  store,        \* version -> artifact, None when there is none
  lock,         \* _version_lock of each process
  req,          \* the local state of each thread
  bodies,       \* new versions made so far
  approvedEver, \* history: bodies somebody approved
  resurrected,  \* history: a save brought a deleted version back
  faults        \* queries that failed so far

vars == <<store, lock, req, bodies, approvedEver, resurrected, faults>>

Request == [pc : Pcs, op : Edits \cup {"none", "record", "patch"}, version : 0 .. MaxBodies,
            copy : Artifact \cup {None},    \* artifact
            other : Artifact \cup {None},   \* set_default_version's other
            todo : SUBSET Versions,         \* versions it has still to look at
            alone : BOOLEAN]                \* history: nobody else ran meanwhile

Idle == [pc |-> "idle", op |-> "none", version |-> 0, copy |-> None, other |-> None,
         todo |-> {}, alone |-> FALSE]

(* What the repository ships with some capabilities: a version 1 in use,   *)
(* with outcome patterns written by hand.                                  *)
Shipped == [version |-> 1, status |-> "approved", default |-> FALSE, body |-> 1,
            extras |-> {"patterns"}]

Init ==
  /\ \/ store = [v \in Versions |-> None] /\ bodies = 0 /\ approvedEver = {}
     \/ /\ MaxBodies > 0
        /\ store = [v \in Versions |-> IF v = 1 THEN Shipped ELSE None]
        /\ bodies = 1 /\ approvedEver = {1}
  /\ lock = [p \in Processes |-> None]
  /\ req = [r \in Requests |-> Idle]
  /\ resurrected = FALSE /\ faults = 0

At(r, pc)   == req[r].pc = pc
Existing    == {v \in Versions : store[v] # None}
Defaults    == {v \in Existing : store[v].default}
Busy        == {r \in Requests : ~At(r, "idle")}
Fault       == faults < MaxFaults /\ faults' = faults + 1
NoFault     == UNCHANGED faults
Continue(r, local) == req' = [req EXCEPT ![r] = local]
Return(r)   == Continue(r, Idle)

(* A thread begins: whoever is in flight is not alone any more.            *)
Enter(r, local) ==
  req' = [s \in Requests |->
            IF s = r THEN [local EXCEPT !.alone = Busy = {}]
            ELSE [req[s] EXCEPT !.alone = FALSE]]

-----------------------------------------------------------------------------
(* Editing a version                                                       *)

(* Which versions an edit applies to: another is a 409, or left alone.     *)
Permitted(op, a) ==
  CASE op = "approve"      -> a.status \in {"draft", "retired"}
    [] op = "reject"       -> a.status = "draft"
    [] op = "retire"       -> a.status = "approved"
    [] op = "setDefault"   -> a.status = "approved"
    [] op = "clearDefault" -> a.default
    [] op = "approveWithExamples" -> TRUE

(* What it changes.  The examples are written before the approval is even  *)
(* looked at, on a version of any status, a live one included.             *)
Edited(op, a) ==
  CASE op = "approve"      -> [a EXCEPT !.status = "approved"]
    [] op = "reject"       -> [a EXCEPT !.status = "rejected"]
    [] op = "retire"       -> [a EXCEPT !.status = "retired"]
    [] op = "setDefault"   -> [a EXCEPT !.default = TRUE]
    [] op = "clearDefault" -> [a EXCEPT !.default = FALSE]
    [] op = "approveWithExamples" -> [a EXCEPT !.extras = @ \cup {"examples"}]

Begin(r, op, v) ==
  /\ At(r, "idle")
  /\ Enter(r, [Idle EXCEPT !.pc = "load", !.op = op, !.version = v])
  /\ UNCHANGED <<store, lock, bodies, approvedEver, resurrected, faults>>

(* Loaded, checked and changed in memory.                                  *)
Load(r) ==
  LET a == store[req[r].version]  op == req[r].op IN
  /\ At(r, "load")
  /\ IF a # None /\ Permitted(op, a)
       THEN /\ Continue(r, [req[r] EXCEPT !.copy = Edited(op, a),
                                          !.pc = IF op = "setDefault" THEN "list" ELSE "save"])
            /\ approvedEver' = IF op = "approve" THEN approvedEver \cup {a.body}
                               ELSE approvedEver
       ELSE Return(r) /\ UNCHANGED approvedEver
  /\ UNCHANGED <<store, lock, bodies, resurrected, faults>>

(* A save is an upsert: it creates the version when it is gone.            *)
Upsert(a) ==
  \/ /\ store' = [store EXCEPT ![a.version] = a]
     /\ resurrected' = (resurrected \/ store[a.version] = None)
     /\ NoFault
  \/ Fault /\ UNCHANGED <<store, resurrected>>

Save(r) ==
  /\ At(r, "save")
  /\ Upsert(req[r].copy)
  /\ IF req[r].op = "approveWithExamples"
       THEN Continue(r, [req[r] EXCEPT !.op = "approve", !.pc = "load", !.copy = None])
       ELSE Return(r)
  /\ UNCHANGED <<lock, bodies, approvedEver>>

(* A version that cannot be read is one that does not exist: a 404.        *)
ReadFails(r) ==
  /\ At(r, "load") \/ (At(r, "others") /\ req[r].todo # {})
  /\ Fault
  /\ Return(r)
  /\ UNCHANGED <<store, lock, bodies, approvedEver, resurrected>>

-----------------------------------------------------------------------------
(* set_default_version: the others are cleared first                       *)

(* Mutant: only the other approved versions are looked at.                 *)
ListApprovedOthers(r) ==
  /\ At(r, "list")
  /\ Continue(r, [req[r] EXCEPT !.pc = "others",
                    !.todo = {v \in Existing \ {req[r].version} : store[v].status = "approved"}])
  /\ UNCHANGED <<store, lock, bodies, approvedEver, resurrected, faults>>

ListOthers(r) ==
  /\ At(r, "list")
  /\ \/ Continue(r, [req[r] EXCEPT !.pc = "others", !.todo = Existing \ {req[r].version}])
        /\ NoFault
     \/ Continue(r, [req[r] EXCEPT !.pc = "others"]) /\ Fault
  /\ UNCHANGED <<store, lock, bodies, approvedEver, resurrected>>

LoadOther(r) ==
  LET v == Min(req[r].todo) IN
  /\ At(r, "others") /\ req[r].todo # {}
  /\ IF store[v] = None
       THEN Return(r)
       ELSE Continue(r, [req[r] EXCEPT
              !.todo = @ \ {v},
              !.other = IF store[v].default THEN [store[v] EXCEPT !.default = FALSE] ELSE None,
              !.pc = IF store[v].default THEN "saveOther" ELSE "others"])
  /\ UNCHANGED <<store, lock, bodies, approvedEver, resurrected, faults>>

(* Mutant: it is saved under the number of the new default.               *)
SaveOtherMisplaced(r) ==
  /\ At(r, "saveOther")
  /\ store' = [store EXCEPT ![req[r].version] = req[r].other]
  /\ Continue(r, [req[r] EXCEPT !.pc = "others", !.other = None])
  /\ UNCHANGED <<lock, bodies, approvedEver, resurrected, faults>>

SaveOther(r) ==
  /\ At(r, "saveOther")
  /\ Upsert(req[r].other)
  /\ Continue(r, [req[r] EXCEPT !.pc = "others", !.other = None])
  /\ UNCHANGED <<lock, bodies, approvedEver>>

OthersDone(r) ==
  /\ At(r, "others") /\ req[r].todo = {}
  /\ Continue(r, [req[r] EXCEPT !.pc = "save"])
  /\ UNCHANGED <<store, lock, bodies, approvedEver, resurrected, faults>>

-----------------------------------------------------------------------------
(* New versions                                                            *)

(* A discovery run has compiled an artifact: a draft, or approved at once  *)
(* by the operator of an interactive CLI.                                  *)
BeginRecording(r) ==
  /\ At(r, "idle") /\ bodies < MaxBodies
  /\ bodies' = bodies + 1
  /\ \E status \in {"draft", "approved"} :
       /\ Enter(r, [Idle EXCEPT !.pc = "lock", !.op = "record",
                      !.copy = [version |-> 0, status |-> status, default |-> FALSE,
                                body |-> bodies + 1, extras |-> {}]])
       /\ approvedEver' = IF status = "approved" THEN approvedEver \cup {bodies + 1}
                          ELSE approvedEver
  /\ UNCHANGED <<store, lock, resurrected, faults>>

(* Mutant: the patch is saved with the status of what it patches.          *)
BeginPatchLive(r, v) ==
  /\ At(r, "idle") /\ bodies < MaxBodies
  /\ store[v] # None /\ store[v].status = "approved"
  /\ bodies' = bodies + 1
  /\ Enter(r, [Idle EXCEPT !.pc = "lock", !.op = "patch",
                 !.copy = [store[v] EXCEPT !.body = bodies + 1]])
  /\ UNCHANGED <<store, lock, approvedEver, resurrected, faults>>

(* A replay of an approved version has failed and the diagnosis proposes a *)
(* patch: a deep copy of that version, as a draft.                         *)
BeginPatch(r, v) ==
  /\ At(r, "idle") /\ bodies < MaxBodies
  /\ store[v] # None /\ store[v].status = "approved"
  /\ bodies' = bodies + 1
  /\ Enter(r, [Idle EXCEPT !.pc = "lock", !.op = "patch",
                 !.copy = [store[v] EXCEPT !.status = "draft", !.body = bodies + 1]])
  /\ UNCHANGED <<store, lock, approvedEver, resurrected, faults>>

(* Mutant: the lock is not taken.                                          *)
AcquireNothing(r) ==
  /\ At(r, "lock")
  /\ Continue(r, [req[r] EXCEPT !.pc = "number"])
  /\ UNCHANGED <<store, lock, bodies, approvedEver, resurrected, faults>>

Acquire(r) ==
  /\ At(r, "lock") /\ lock[Process[r]] = None
  /\ lock' = [lock EXCEPT ![Process[r]] = r]
  /\ Continue(r, [req[r] EXCEPT !.pc = "number"])
  /\ UNCHANGED <<store, bodies, approvedEver, resurrected, faults>>

(* next_artifact_version                                                   *)
NextVersion == Max(Existing \cup {0}) + 1

Number(r) ==
  /\ At(r, "number")
  /\ \/ Continue(r, [req[r] EXCEPT
          !.copy.version = NextVersion,
          !.pc = IF req[r].op = "record" /\ NextVersion > 1 THEN "carry" ELSE "saveNew"])
        /\ NoFault
     \/ Continue(r, [req[r] EXCEPT !.copy.version = 1, !.pc = "saveNew"]) /\ Fault
  /\ UNCHANGED <<store, lock, bodies, approvedEver, resurrected>>

(* A recording takes over the outcome patterns of the version before it,   *)
(* whatever the status of that one, after an operator has approved it.  A  *)
(* version that is gone, or cannot be read, leaves it without.             *)
Carry(r) ==
  LET before == store[req[r].copy.version - 1] IN
  /\ At(r, "carry")
  /\ \/ /\ Continue(r, [req[r] EXCEPT
             !.pc = "saveNew",
             !.copy.extras = IF before # None THEN @ \cup (before.extras \cap {"patterns"})
                             ELSE @])
        /\ NoFault
     \/ Continue(r, [req[r] EXCEPT !.pc = "saveNew"]) /\ Fault
  /\ UNCHANGED <<store, lock, bodies, approvedEver, resurrected>>

SaveNew(r) ==
  /\ At(r, "saveNew")
  /\ \/ store' = [store EXCEPT ![req[r].copy.version] = req[r].copy] /\ NoFault
     \/ Fault /\ UNCHANGED store
  /\ lock' = [lock EXCEPT ![Process[r]] = None]
  /\ Return(r)
  /\ UNCHANGED <<bodies, approvedEver, resurrected>>

-----------------------------------------------------------------------------
(* DELETE /capabilities/{name}: every version, in one statement.           *)
Delete ==
  /\ Existing # {}
  /\ store' = [v \in Versions |-> None]
  /\ req' = [r \in Requests |-> IF r \in Busy THEN [req[r] EXCEPT !.alone = FALSE] ELSE req[r]]
  /\ UNCHANGED <<lock, bodies, approvedEver, resurrected, faults>>

Arrive(r) == \/ BeginRecording(r)
             \/ \E v \in Versions : BeginPatch(r, v) \/ \E op \in Edits : Begin(r, op, v)

Serve(r) == Load(r) \/ Save(r) \/ ReadFails(r) \/ ListOthers(r) \/ LoadOther(r)
              \/ SaveOther(r) \/ OthersDone(r) \/ Acquire(r) \/ Number(r) \/ Carry(r)
              \/ SaveNew(r)

Next == Delete \/ \E r \in Requests : Arrive(r) \/ Serve(r)

Spec == Init /\ [][Next]_vars

-----------------------------------------------------------------------------
(* Properties                                                              *)

(* Every variable keeps its type, and a version is stored under its number.*)
TypeOK ==
  /\ store \in [Versions -> Artifact \cup {None}]
  /\ \A v \in Existing : store[v].version = v
  /\ lock \in [Processes -> Requests \cup {None}]
  /\ req \in [Requests -> Request]
  /\ bodies \in 0 .. MaxBodies
  /\ approvedEver \subseteq Bodies
  /\ resurrected \in BOOLEAN
  /\ faults \in 0 .. MaxFaults

(* Whatever races, fails or is deleted meanwhile, a version is live only   *)
(* when the steps recorded in it were approved by somebody: no stale copy, *)
(* patch or upsert ever puts unreviewed steps behind the status "approved".*)
(* Nothing of the kind holds of its extras: corrected examples and outcome *)
(* patterns reach a live version with no approval of their own.            *)
LiveStepsReviewed ==
  \A v \in Existing : store[v].status = "approved" => store[v].body \in approvedEver

(* set_default_version(), when nothing else runs meanwhile, leaves its     *)
(* version the one default, whatever earlier races have left behind.       *)
LoneSetDefaultHeals ==
  [][\A r \in Requests :
       (At(r, "save") /\ req[r].op = "setDefault" /\ req[r].alone
          /\ req'[r].pc = "idle" /\ faults' = 0)
         => Defaults' = {req[r].version}]_vars

(* Two new versions never get one number, however the runs that make them  *)
(* interleave with each other and with every edit: a save of a new version *)
(* replaces nothing.  A failed query, or an edit that brings a deleted     *)
(* version back, is all that can break this.                               *)
RecordingsNeverCollide ==
  [][\A r \in Requests :
       (At(r, "saveNew") /\ req'[r].pc = "idle" /\ faults' = 0 /\ ~resurrected)
         => req[r].copy.version \notin Existing]_vars

-----------------------------------------------------------------------------
(* What comments and docstrings of the code say and the code does not do   *)

(* cli.py, approve_artifact: "a rejected draft was never approved and      *)
(* stays a one-way door".                                                  *)
RejectedIsFinal ==
  [][\A v \in Existing :
       store[v].status = "rejected" /\ store'[v] # None /\ store'[v].body = store[v].body
         => store'[v].status = "rejected"]_vars
=============================================================================
