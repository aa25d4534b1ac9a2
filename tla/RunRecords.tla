----------------------------- MODULE RunRecords -----------------------------
(***************************************************************************)
(* A run is on record twice: as a RunRecord in the memory of the server    *)
(* that executes it and as a row of the table runs.  Here are the writes   *)
(* of both by run_discover and run_replay, from start_run to the last      *)
(* finish_run and the status that RunManager's worker sets after it, with  *)
(* the browser session in between; the connection pool that these writes   *)
(* share with the requests of the API; the start of a server, which closes *)
(* the rows that an earlier one left open; and DELETE of a run.            *)
(*                                                                         *)
(* The runs in Local are those of the command line: each is a process of   *)
(* its own, on the same database, with no RunRecord.  What happens inside  *)
(* a session, escalations included, is the subject of RunControl, Replay   *)
(* and Discovery; here it ends in any way.  Events, screenshots and the    *)
(* noVNC address change no status and are left out.                        *)
(***************************************************************************)
EXTENDS Naturals, FiniteSets

CONSTANTS
  Runs,       \* the runs
  Local,      \* those started from the command line
  Http,       \* the request thread that deletes a run
  PoolSize,   \* maxconn of the ThreadedConnectionPool
  MaxFaults,  \* bound: statements that fail, databases that do not answer
  MaxDeaths   \* bound: processes that exit while they have work

ASSUME RunRecordsAssumption ==
  /\ Local \subseteq Runs /\ Http \notin Runs
  /\ PoolSize \in Nat \ {0} /\ MaxFaults \in Nat /\ MaxDeaths \in Nat

VARIABLES
  row,        \* runs.status of each run, "none" when it has no row
  rec,        \* RunRecord.status of each run, "none" when not in _runs
  pc,         \* where the thread, or process, of a run is
  out,        \* how it will say that it ended
  caught,     \* runs whose finish_run at hand is outside the try, or in a handler of it
  containers, \* containers that are up
  server,     \* the server process, by its pg.store._pool
  conn,       \* the connection of each of its threads
  deleting,   \* the run whose row Http deletes, or Http for none
  faults, deaths,
  disturbed,  \* history: runs whose row a fault concerned since the last sweep
  taken,      \* history: runs that a sweep took for dead while they went on
  leaked,     \* history: runs whose container nobody was left to stop
  raised      \* history: threads a call raised in since the start of the server

recordVars  == <<row, rec>>
workerVars  == <<pc, out, caught>>
poolVars    == <<server, conn>>
boundVars   == <<faults, deaths>>
historyVars == <<disturbed, taken, leaked, raised>>
vars == <<row, rec, pc, out, caught, containers, server, conn, deleting, faults, deaths,
          disturbed, taken, leaked, raised>>

Served  == Runs \ Local
Threads == Served \cup {Http}

(* "outcome" stands for the outcomes of a replay, input_error among them,  *)
(* and for failed.  Where a row says one of these the record says done; of *)
(* a discovery that saved its artifact both do.                            *)
Reported  == {"done", "outcome"}
Ended     == {"done", "outcome", "error", "interrupted"}
RowStatus == {"none", "running"} \cup Ended
RecStatus == {"none", "running", "done", "error", "interrupted"}

(* From "ready" to "session" nothing is written; "insert" and "finish" are *)
(* calls of start_run and finish_run.                                      *)
Open   == {"insert", "ready", "connect", "session", "finish", "publish"}
Places == {"new", "ended", "dead"} \cup Open

(* No process; _pool is None; a pool made by create_app; one made by a     *)
(* call since.                                                             *)
Server == {"down", "poolless", "pooledAtStart", "pooledLater"}
Pooled == {"pooledAtStart", "pooledLater"}

(* None; the pool seen to be None; from the pool; from a pool that another *)
(* one has since replaced.                                                 *)
Conn == {"none", "noPool", "held", "stale"}

Init ==
  /\ row = [r \in Runs |-> "none"] /\ rec = [r \in Runs |-> "none"]
  /\ pc = [r \in Runs |-> "new"] /\ out = [r \in Runs |-> "error"]
  /\ caught = {}
  /\ containers = {}
  /\ server = "down" /\ conn = [t \in Threads |-> "none"]
  /\ deleting = Http
  /\ faults = 0 /\ deaths = 0
  /\ disturbed = {} /\ taken = {} /\ leaked = {} /\ raised = {}

Fault(concerned) ==
  /\ faults < MaxFaults /\ faults' = faults + 1
  /\ disturbed' = disturbed \cup concerned

-----------------------------------------------------------------------------
(* The statements                                                          *)

(* INSERT ... ON CONFLICT (id) DO NOTHING                                  *)
Inserted(r) == [row EXCEPT ![r] = IF @ = "none" THEN "running" ELSE @]

(* UPDATE runs SET status ... WHERE id                                     *)
Finished(r) == [row EXCEPT ![r] = IF @ = "none" THEN @ ELSE out[r]]

(* Mutant: every row is closed.                                            *)
SweptRegardless == [r \in Runs |-> IF row[r] = "none" THEN "none" ELSE "interrupted"]

(* abandon_orphaned_runs: UPDATE ... WHERE status IN ('running', ...)      *)
Swept == [r \in Runs |-> IF row[r] = "running" THEN "interrupted" ELSE row[r]]

(* What the call of a thread does to the table.                            *)
Effect(t) ==
  IF t = Http THEN [row EXCEPT ![deleting] = "none"]
  ELSE IF pc[t] = "insert" THEN Inserted(t) ELSE Finished(t)

Concerns(t) == IF t = Http THEN {deleting} ELSE {t}

InCall(t) == IF t = Http THEN deleting # Http ELSE pc[t] \in {"insert", "finish"}

-----------------------------------------------------------------------------
(* The worker, where a call of the store returns or raises                 *)

Goto(r, place) == pc' = [pc EXCEPT ![r] = place]

AfterInsert(r) == Goto(r, "ready") /\ UNCHANGED <<out, caught>>

(* RunManager's worker sets the status; a process of the command line has  *)
(* none to set and exits.                                                  *)
AfterFinish(r) ==
  /\ Goto(r, IF r \in Local THEN "ended" ELSE "publish")
  /\ UNCHANGED <<out, caught>>

(* start_run, and the refusals of run_replay, are outside the try.  Inside *)
(* it the handler for Exception writes finish_run("error"), once.          *)
RaisedIn(r) ==
  IF pc[r] = "finish" /\ r \notin caught
    THEN /\ out' = [out EXCEPT ![r] = "error"] /\ caught' = caught \cup {r}
         /\ UNCHANGED pc
    ELSE /\ out' = [out EXCEPT ![r] = "error"]
         /\ Goto(r, "publish")
         /\ UNCHANGED caught

(* The call of a thread is over.                                           *)
Returns(t) ==
  IF t = Http THEN deleting' = Http /\ UNCHANGED workerVars
  ELSE /\ IF pc[t] = "insert" THEN AfterInsert(t) ELSE AfterFinish(t)
       /\ UNCHANGED deleting

Raises(t) ==
  /\ raised' = raised \cup {t}
  /\ disturbed' = disturbed \cup Concerns(t)
  /\ IF t = Http THEN deleting' = Http /\ UNCHANGED workerVars
                 ELSE RaisedIn(t) /\ UNCHANGED deleting

-----------------------------------------------------------------------------
(* A call of _execute, or of delete_run, by a thread of the server         *)

InUse == {t \in Threads : conn[t] = "held"}

(* _get_pool finds _pool None.                                             *)
SeeNoPool(t) ==
  /\ server = "poolless" /\ InCall(t) /\ conn[t] = "none"
  /\ conn' = [conn EXCEPT ![t] = "noPool"]
  /\ UNCHANGED <<recordVars, workerVars, containers, server, deleting, boundVars, historyVars>>

(* getconn and the statement.  A statement that fails is rolled back; the  *)
(* connection is held either way.                                          *)
Executes(t) ==
  \/ row' = Effect(t) /\ UNCHANGED <<faults, disturbed>>
  \/ Fault(Concerns(t)) /\ UNCHANGED row

(* Mutant: the pool is built anew for each call.                           *)
UsePoolRebuilt(t) ==
  /\ server \in Pooled /\ InCall(t) /\ conn[t] = "none"
  /\ conn' = [u \in Threads |-> IF u = t THEN "held"
                                ELSE IF conn[u] = "held" THEN "stale" ELSE conn[u]]
  /\ Executes(t)
  /\ UNCHANGED <<rec, workerVars, containers, server, deleting, deaths,
                 taken, leaked, raised>>

UsePool(t) ==
  /\ server \in Pooled /\ InCall(t) /\ conn[t] = "none"
  /\ Cardinality(InUse) < PoolSize
  /\ conn' = [conn EXCEPT ![t] = "held"]
  /\ Executes(t)
  /\ UNCHANGED <<rec, workerVars, containers, server, deleting, deaths,
                 taken, leaked, raised>>

(* getconn raises when every connection is in use: the write is lost.      *)
PoolExhausted(t) ==
  /\ server \in Pooled /\ InCall(t) /\ conn[t] = "none"
  /\ Cardinality(InUse) >= PoolSize
  /\ disturbed' = disturbed \cup Concerns(t)
  /\ Returns(t)
  /\ UNCHANGED <<recordVars, containers, poolVars, boundVars, taken, leaked, raised>>

(* Whoever saw None makes a pool and puts it in the place of whatever is   *)
(* there by now.                                                           *)
MakePool(t) ==
  /\ conn[t] = "noPool"
  /\ server' = "pooledLater"
  /\ conn' = [u \in Threads |-> IF u = t THEN "held"
                                ELSE IF conn[u] = "held" THEN "stale" ELSE conn[u]]
  /\ Executes(t)
  /\ UNCHANGED <<rec, workerVars, containers, deleting, deaths, taken, leaked, raised>>

(* The database does not answer: the constructor of the pool raises.       *)
NoDatabase(t) ==
  /\ conn[t] = "noPool"
  /\ Fault(Concerns(t))
  /\ conn' = [conn EXCEPT ![t] = "none"]
  /\ Returns(t)
  /\ UNCHANGED <<recordVars, containers, server, deaths, taken, leaked, raised>>

(* putconn goes to the global _pool, in the finally, past the except.  A   *)
(* pool refuses a connection that it did not give.                         *)
PutBack(t) ==
  /\ conn[t] \in {"held", "stale"}
  /\ conn' = [conn EXCEPT ![t] = "none"]
  /\ IF conn[t] = "held" THEN Returns(t) /\ UNCHANGED <<disturbed, raised>> ELSE Raises(t)
  /\ UNCHANGED <<recordVars, containers, server, boundVars, taken, leaked>>

(* A process of the command line has one thread, which meets no limit and  *)
(* no other maker of its pool.                                             *)
LocalWrite(r) ==
  /\ r \in Local /\ pc[r] \in {"insert", "finish"}
  /\ Executes(r)
  /\ Returns(r)
  /\ UNCHANGED <<rec, containers, poolVars, deaths, taken, leaked, raised>>


-----------------------------------------------------------------------------
(* A run, from start_run to the status of its RunRecord                    *)

(* RunManager.start: the record, and then the thread.                      *)
StartServed(r) ==
  /\ r \in Served /\ pc[r] = "new" /\ server # "down"
  /\ rec' = [rec EXCEPT ![r] = "running"]
  /\ Goto(r, "insert")
  /\ UNCHANGED <<row, out, caught, containers, poolVars, deleting, boundVars, historyVars>>

StartLocal(r) ==
  /\ r \in Local /\ pc[r] = "new"
  /\ Goto(r, "insert")
  /\ UNCHANGED <<recordVars, out, caught, containers, poolVars, deleting, boundVars, historyVars>>

(* The settings, or the artifact of a replay, cannot be loaded.            *)
NeverInserted(r) ==
  /\ pc[r] = "insert" /\ (r \in Served => conn[r] = "none")
  /\ out' = [out EXCEPT ![r] = "error"]
  /\ Goto(r, IF r \in Local THEN "ended" ELSE "publish")
  /\ UNCHANGED <<recordVars, caught, containers, poolVars, deleting, boundVars, historyVars>>

(* Mutant: there is no handler for RunInterrupted.                         *)
EndsUnhandled(r, o, handler) ==
  /\ out' = [out EXCEPT ![r] = o]
  /\ caught' = IF handler THEN caught \cup {r} ELSE caught
  /\ Goto(r, IF o = "interrupted" THEN "publish" ELSE "finish")

(* How a run ends, before finish_run is called.  An operator's stop comes  *)
(* as RunInterrupted and has a handler of its own; the handlers are all    *)
(* outside the try.                                                        *)
EndsAs(r, o, handler) ==
  /\ out' = [out EXCEPT ![r] = o]
  /\ caught' = IF handler THEN caught \cup {r} ELSE caught
  /\ Goto(r, "finish")

(* A replay of a version that nobody approved, or without its parameters.  *)
Refuse(r) ==
  /\ pc[r] = "ready"
  /\ \E o \in {"outcome", "error"} : EndsAs(r, o, TRUE)
  /\ UNCHANGED <<recordVars, containers, poolVars, deleting, boundVars, historyVars>>

(* _browser_session without a sandbox: the browser opens or does not.      *)
Launch(r) ==
  /\ pc[r] = "ready"
  /\ \/ Goto(r, "session") /\ UNCHANGED <<out, caught>>
     \/ EndsAs(r, "error", TRUE)
  /\ UNCHANGED <<recordVars, containers, poolVars, deleting, boundVars, historyVars>>

(* sandbox.spawn: a container that does not become ready is removed there. *)
Spawn(r) ==
  /\ pc[r] = "ready"
  /\ \/ /\ containers' = containers \cup {r}
        /\ Goto(r, "connect") /\ UNCHANGED <<out, caught>>
     \/ EndsAs(r, "error", TRUE) /\ UNCHANGED containers
  /\ UNCHANGED <<recordVars, poolVars, deleting, boundVars, historyVars>>

(* connect_over_cdp stands before the try whose finally calls stop().      *)
Connect(r) ==
  /\ pc[r] = "connect"
  /\ \/ Goto(r, "session") /\ UNCHANGED <<out, caught, leaked>>
     \/ EndsAs(r, "error", TRUE) /\ leaked' = leaked \cup {r}
  /\ UNCHANGED <<recordVars, containers, poolVars, deleting, boundVars,
                 disturbed, taken, raised>>

(* Mutant: the container is stopped where the session ends well.           *)
EndSessionStopsOnSuccess(r) ==
  /\ pc[r] = "session"
  /\ \E o \in Ended :
       /\ o = "interrupted" => r \in Served
       /\ containers' = IF o \in Reported THEN containers \ {r} ELSE containers
       /\ EndsAs(r, o, o \notin Reported)
  /\ UNCHANGED <<recordVars, poolVars, deleting, boundVars, historyVars>>

(* The finally of _browser_session, and the end of what was done in it.    *)
(* Only RunManager raises RunInterrupted.                                  *)
EndSession(r) ==
  /\ pc[r] = "session"
  /\ containers' = containers \ {r}
  /\ \E o \in Ended : (o = "interrupted" => r \in Served) /\ EndsAs(r, o, o \notin Reported)
  /\ UNCHANGED <<recordVars, poolVars, deleting, boundVars, historyVars>>

Published(o) == IF o = "outcome" THEN "done" ELSE o

(* The end of RunManager's worker.                                         *)
Publish(r) ==
  /\ pc[r] = "publish"
  /\ rec' = [rec EXCEPT ![r] = Published(out[r])]
  /\ Goto(r, "ended")
  /\ UNCHANGED <<row, out, caught, containers, poolVars, deleting, boundVars, historyVars>>

-----------------------------------------------------------------------------
(* The server and the processes of the command line                        *)

OpenRuns(S) == {r \in S : pc[r] \in Open}

(* The threads of the workers are daemons: they end with the server, and   *)
(* their containers do not.                                                *)
ServerExits ==
  /\ server # "down" /\ deaths < MaxDeaths /\ deaths' = deaths + 1
  /\ server' = "down" /\ conn' = [t \in Threads |-> "none"]
  /\ rec' = [r \in Runs |-> "none"]
  /\ pc' = [r \in Runs |-> IF r \in OpenRuns(Served) THEN "dead" ELSE pc[r]]
  /\ disturbed' = disturbed \cup OpenRuns(Served)
  /\ leaked' = leaked \cup (containers \cap Served)
  /\ deleting' = Http
  /\ UNCHANGED <<row, out, caught, containers, faults, taken, raised>>

(* create_app: abandon_orphaned_runs, before the first request.            *)
SweepAtStart ==
  /\ row' = Swept
  /\ server' = "pooledAtStart"
  /\ taken' = taken \cup {r \in OpenRuns(Local) : row[r] = "running"}
  /\ disturbed' = {} /\ raised' = {}
  /\ UNCHANGED faults

(* The database does not answer, or fails the statement.                   *)
NoSweepAtStart ==
  /\ Fault({})
  /\ server' \in {"poolless", "pooledAtStart"}
  /\ raised' = {}
  /\ UNCHANGED <<row, taken>>

Startup ==
  /\ server = "down"
  /\ SweepAtStart \/ NoSweepAtStart
  /\ UNCHANGED <<rec, workerVars, containers, conn, deleting, deaths, leaked>>

(* Ctrl-C unwinds through the finally of _browser_session and past the     *)
(* handlers of Exception; a kill leaves the container as well.             *)
LocalExits(r) ==
  /\ r \in OpenRuns(Local) /\ deaths < MaxDeaths /\ deaths' = deaths + 1
  /\ Goto(r, "dead")
  /\ disturbed' = disturbed \cup {r}
  /\ \/ pc[r] = "session" /\ containers' = containers \ {r} /\ UNCHANGED leaked
     \/ leaked' = leaked \cup (containers \cap {r}) /\ UNCHANGED containers
  /\ UNCHANGED <<recordVars, out, caught, poolVars, deleting, faults, taken, raised>>

(* Mutant: an active run is not refused.                                   *)
DeleteUnchecked(r) ==
  /\ server # "down" /\ deleting = Http
  /\ rec[r] # "none" \/ row[r] # "none"
  /\ rec' = [rec EXCEPT ![r] = "none"]
  /\ deleting' = r
  /\ UNCHANGED <<row, workerVars, containers, poolVars, boundVars, historyVars>>

(* DELETE /runs/{id}: RunManager.delete refuses an active run; then the    *)
(* row, in a call of its own.                                              *)
Delete(r) ==
  /\ server # "down" /\ deleting = Http
  /\ rec[r] # "running"
  /\ rec[r] # "none" \/ row[r] # "none"
  /\ rec' = [rec EXCEPT ![r] = "none"]
  /\ deleting' = r
  /\ UNCHANGED <<row, workerVars, containers, poolVars, boundVars, historyVars>>

-----------------------------------------------------------------------------

Call(t) ==
  \/ SeeNoPool(t) \/ UsePool(t) \/ PoolExhausted(t)
  \/ MakePool(t) \/ NoDatabase(t) \/ PutBack(t)

RunStep(r) ==
  \/ StartServed(r) \/ StartLocal(r) \/ NeverInserted(r) \/ LocalWrite(r)
  \/ Refuse(r) \/ Launch(r) \/ Spawn(r) \/ Connect(r) \/ EndSession(r) \/ Publish(r)

Next ==
  \/ \E t \in Threads : Call(t)
  \/ \E r \in Runs : RunStep(r) \/ LocalExits(r) \/ Delete(r)
  \/ ServerExits \/ Startup

Spec == Init /\ [][Next]_vars

-----------------------------------------------------------------------------
(* Properties                                                              *)

TypeOK ==
  /\ row \in [Runs -> RowStatus] /\ rec \in [Runs -> RecStatus]
  /\ pc \in [Runs -> Places] /\ out \in [Runs -> Ended] /\ caught \subseteq Runs
  /\ containers \subseteq Runs
  /\ server \in Server /\ conn \in [Threads -> Conn]
  /\ deleting \in Runs \cup {Http}
  /\ faults \in 0..MaxFaults /\ deaths \in 0..MaxDeaths
  /\ disturbed \subseteq Runs /\ taken \subseteq Local /\ leaked \subseteq Runs
  /\ raised \subseteq Threads

(* A row that is not disturbed is true.  While it says running, somebody   *)
(* still works on the run; and once the RunRecord has ended, the row has   *)
(* ended in the same way, however that was - only a run that failed before *)
(* start_run has none.  Disturbed are the runs whose writes the store lost *)
(* or raised in since the last sweep, and those whose process exited.      *)
RowTellsTheTruth == \A r \in Runs \ disturbed :
  /\ row[r] = "running" => pc[r] \in Open
  /\ \/ rec[r] \in {"none", "running"}
     \/ row[r] \in Ended /\ rec[r] = Published(row[r])
     \/ row[r] = "none" /\ rec[r] = "error"

(* What a row says of the end of a run is not written over: it changes by  *)
(* deletion, by the finish of a run of the command line that a starting    *)
(* server had taken for dead, or by a handler after a write that raised.   *)
EndedRowsStayEnded == [][\A r \in Runs :
  row[r] \in Ended /\ row'[r] # row[r] => row'[r] = "none" \/ r \in taken \/ r \in raised]_vars

(* A container is there for a session that is open or about to be, unless  *)
(* nobody was left to stop it; so a run that its RunRecord gives as        *)
(* interrupted has none (the comment in RunManager's worker).              *)
NoContainerOutlivesItsRun ==
  /\ \A r \in containers : pc[r] \in {"connect", "session"} \/ r \in leaked
  /\ \A r \in Runs : rec[r] = "interrupted" => r \notin containers \cup leaked

(* No write raises in the run that makes it, once the start of the server  *)
(* has made the pool: it is then the only pool there is.                   *)
CallsNeverRaise == server = "pooledAtStart" => raised = {}

(* GET /runs/{id}: the status of the record if the server has one, and     *)
(* otherwise that of the row, as it is there.                              *)
Sight(r) ==
  IF rec[r] # "none" THEN rec[r]
  ELSE IF row[r] # "none" THEN row[r]
  ELSE IF pc[r] = "new" THEN "absent" ELSE "gone"

(* How one sight of a run may follow another.                              *)
Follows(r, seen, next) ==
  \/ seen = "absent" /\ next = "running"
  \/ seen = "running" /\ next \in {"done", "error", "interrupted"}
  \/ seen = "done" /\ next = "outcome"
  \/ seen \in Ended /\ next = "gone" /\ (seen = "error" \/ r \in {deleting, deleting'})

(* Callers see one story of a run of the server when record and row take   *)
(* turns, across restarts: an end is never followed by another end or by   *)
(* a life, and is there until a DELETE takes it away.  Two words of it     *)
(* change when the record is gone: done becomes the outcome of the replay, *)
(* and an error from before start_run, which has no row, is not found any  *)
(* more.  Runs that a fault concerned are left out.                        *)
SeenEndsStay ==
  [][\A r \in Served \ disturbed' :
       Sight(r)' # Sight(r) => Follows(r, Sight(r), Sight(r)')]_vars
=============================================================================
