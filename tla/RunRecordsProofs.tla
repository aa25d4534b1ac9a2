-------------------------- MODULE RunRecordsProofs --------------------------
(***************************************************************************)
(* What holds of the records of any number of runs and threads, with a     *)
(* pool of any size and any number of faults and deaths.                   *)
(*                                                                         *)
(* RowTellsTheTruth is not inductive.  It needs to know what the row says  *)
(* at each place of the worker (RowInv, EarlyInv), that the record moves   *)
(* with the worker (RecordInv) and that nothing is left of the calls of a  *)
(* server that has exited (CallInv).  With it goes what callers see when   *)
(* the record is gone and the row answers in its place.                    *)
(***************************************************************************)
EXTENDS RunRecords, TLAPS

(* The thread of a run has executed its statement and still has to put the *)
(* connection back.                                                        *)
Wrote(r) == r \in Served /\ conn[r] \in {"held", "stale"}

Written(r) == row[r] = out[r] \/ (row[r] = "none" /\ out[r] = "error")

(* Connections belong to calls of a server that is up.                     *)
CallInv ==
  /\ \A t \in Threads : conn[t] # "none" => server # "down" /\ InCall(t)
  /\ deleting # Http => server # "down"
  /\ \A r \in Served : pc[r] \in Open => server # "down"

(* A pool made by the start of the server is not replaced.                 *)
PoolInv ==
  server = "pooledAtStart" =>
    raised = {} /\ \A t \in Threads : conn[t] \in {"none", "held"}

(* The record follows the worker.                                          *)
RecordInv == \A r \in Runs :
  /\ rec[r] = "running" <=> (r \in Served /\ pc[r] \in Open)
  /\ rec[r] \notin {"none", "running"} =>
       r \in Served /\ server # "down" /\ pc[r] = "ended" /\ rec[r] = Published(out[r])
  /\ pc[r] = "publish" => r \in Served
  /\ deleting = r => rec[r] = "none" /\ (r \in Served => pc[r] \in {"ended", "dead"})

(* No row before start_run; no ended row before finish_run.                *)
EarlyInv == \A r \in Runs :
  /\ pc[r] = "new" => row[r] = "none"
  /\ pc[r] = "insert" => row[r] = "none" \/ (Wrote(r) /\ row[r] = "running")
  /\ pc[r] \in {"ready", "connect", "session", "finish"} /\ ~Wrote(r) =>
       row[r] \in {"none", "running"} \/ r \in taken \/ r \in raised

(* The row of a run that nothing disturbed follows the worker.             *)
RowInv == \A r \in Runs \ disturbed :
  /\ row[r] = "running" => pc[r] \in Open
  /\ r \in Served =>
       /\ pc[r] = "insert" /\ Wrote(r) => row[r] = "running"
       /\ pc[r] \in {"ready", "connect", "session"} => row[r] = "running"
       /\ pc[r] = "finish" => row[r] = (IF Wrote(r) THEN out[r] ELSE "running")
       /\ pc[r] = "publish" => Written(r)
       /\ pc[r] = "ended" /\ rec[r] # "none" => Written(r)

ContainerInv == \A r \in Runs :
  /\ r \in containers => pc[r] \in {"connect", "session"} \/ r \in leaked
  /\ r \in leaked =>
       pc[r] = "dead" \/ (pc[r] \in {"finish", "publish", "ended"} /\ out[r] = "error")

IInv == TypeOK /\ CallInv /\ PoolInv /\ RecordInv /\ EarlyInv /\ RowInv /\ ContainerInv

-----------------------------------------------------------------------------
(* The actions preserve the invariant                                      *)

LEMMA InitIInv == Init => IInv
<1>. SUFFICES ASSUME Init PROVE IInv
  OBVIOUS
<1>. USE RunRecordsAssumption DEF Init, Served, Threads
<1>1. TypeOK
  BY DEF TypeOK, RowStatus, RecStatus, Places, Ended, Conn, Server
<1>2. CallInv /\ PoolInv /\ RecordInv
  BY DEF CallInv, PoolInv, RecordInv, InCall, Open
<1>3. EarlyInv /\ RowInv /\ ContainerInv
  BY DEF EarlyInv, RowInv, ContainerInv
<1>. QED BY <1>1, <1>2, <1>3 DEF IInv


(* What a call of a thread may do to the table, and its return, keep the   *)
(* types.                                                                  *)
LEMMA ExecutesTypes ==
  ASSUME TypeOK, NEW t \in Threads, InCall(t), Executes(t)
  PROVE  /\ row' \in [Runs -> RowStatus]
         /\ faults' \in 0..MaxFaults /\ disturbed' \subseteq Runs
<1>. USE RunRecordsAssumption
         DEF TypeOK, RowStatus, Ended, Served, Threads, Executes, Fault, InCall, Concerns
<1>1. CASE t = Http
  BY <1>1 DEF Effect
<1>2. CASE t # Http
  BY <1>2 DEF Effect, Inserted, Finished
<1>. QED BY <1>1, <1>2

LEMMA ReturnsTypes ==
  ASSUME TypeOK, NEW t \in Threads, Returns(t)
  PROVE  /\ pc' \in [Runs -> Places] /\ UNCHANGED <<out, caught>>
         /\ deleting' \in Runs \cup {Http}
<1>. USE RunRecordsAssumption DEF TypeOK, Served, Threads, Returns, workerVars
<1>1. CASE t = Http
  BY <1>1
<1>2. CASE t # Http
  BY <1>2 DEF AfterInsert, AfterFinish, Goto, Places, Open
<1>. QED BY <1>1, <1>2

(* The types.                                                               *)
LEMMA TypeStep == IInv /\ [Next]_vars => TypeOK'
<1>. SUFFICES ASSUME IInv, [Next]_vars PROVE TypeOK'
  OBVIOUS
<1>. USE RunRecordsAssumption DEF InCall, Published, IInv, TypeOK, RowStatus, RecStatus, Ended,
       Places, Open, Conn, Server, Served, Threads
<1>1. ASSUME NEW t \in Threads, SeeNoPool(t)
      PROVE  TypeOK'
BY <1>1 DEF SeeNoPool, recordVars, workerVars, boundVars, historyVars
<1>2. ASSUME NEW t \in Threads, UsePool(t)
      PROVE  TypeOK'
BY <1>2 DEF UsePool, Executes, Effect, Concerns, Fault, Inserted, Finished,
    workerVars
<1>3. ASSUME NEW t \in Threads, PoolExhausted(t)
      PROVE  TypeOK'
BY <1>3 DEF PoolExhausted, Concerns, Returns, AfterInsert, AfterFinish,
    Goto, recordVars, workerVars, poolVars, boundVars
<1>4. ASSUME NEW t \in Threads, MakePool(t)
      PROVE  TypeOK'
  <2>1. InCall(t)
    BY <1>4 DEF MakePool, CallInv
  <2>2. row' \in [Runs -> RowStatus] /\ faults' \in 0..MaxFaults /\ disturbed' \subseteq Runs
    BY <1>4, <2>1, ExecutesTypes DEF MakePool
  <2>3. conn' \in [Threads -> Conn] /\ server' \in Server
    BY <1>4 DEF MakePool
  <2>. QED BY <1>4, <2>2, <2>3 DEF MakePool, workerVars
<1>5. ASSUME NEW t \in Threads, NoDatabase(t)
      PROVE  TypeOK'
  <2>1. InCall(t)
    BY <1>5 DEF NoDatabase, CallInv
  <2>2. disturbed' \subseteq Runs /\ faults' \in 0..MaxFaults
    BY <1>5, <2>1 DEF NoDatabase, Fault, Concerns, InCall
  <2>3. pc' \in [Runs -> Places] /\ deleting' \in Runs \cup {Http} /\ UNCHANGED <<out, caught>>
    BY <1>5, ReturnsTypes DEF NoDatabase
  <2>. QED BY <1>5, <2>2, <2>3 DEF NoDatabase, recordVars
<1>6. ASSUME NEW t \in Threads, PutBack(t)
      PROVE  TypeOK'
  <2>1. InCall(t)
    BY <1>6 DEF PutBack, CallInv
  <2>2. CASE Returns(t) /\ UNCHANGED <<disturbed, raised>>
    <3>1. pc' \in [Runs -> Places] /\ deleting' \in Runs \cup {Http} /\ UNCHANGED <<out, caught>>
      BY <2>2, ReturnsTypes
    <3>. QED BY <1>6, <2>2, <3>1 DEF PutBack, recordVars, boundVars
  <2>3. CASE Raises(t)
    <3>1. disturbed' \subseteq Runs /\ raised' \subseteq Threads
      BY <2>1, <2>3 DEF Raises, Concerns, InCall
    <3>2. pc' \in [Runs -> Places] /\ out' \in [Runs -> Ended] /\ caught' \subseteq Runs
      BY <2>1, <2>3 DEF Raises, RaisedIn, InCall, Goto, workerVars
    <3>3. deleting' \in Runs \cup {Http}
      BY <2>3 DEF Raises
    <3>. QED BY <1>6, <3>1, <3>2, <3>3 DEF PutBack, recordVars, boundVars
  <2>. QED BY <1>6, <2>2, <2>3 DEF PutBack
<1>7. ASSUME NEW q \in Runs, StartServed(q)
      PROVE  TypeOK'
BY <1>7 DEF StartServed, Goto, poolVars, boundVars, historyVars
<1>8. ASSUME NEW q \in Runs, StartLocal(q)
      PROVE  TypeOK'
BY <1>8 DEF StartLocal, Goto, recordVars, poolVars, boundVars, historyVars
<1>9. ASSUME NEW q \in Runs, NeverInserted(q)
      PROVE  TypeOK'
BY <1>9 DEF NeverInserted, Goto, recordVars, poolVars, boundVars,
    historyVars
<1>10. ASSUME NEW q \in Runs, LocalWrite(q)
      PROVE  TypeOK'
BY <1>10 DEF LocalWrite, Executes, Effect, Concerns, Fault, Inserted,
    Finished, Returns, AfterInsert, AfterFinish, Goto, workerVars, poolVars
<1>11. ASSUME NEW q \in Runs, Refuse(q)
      PROVE  TypeOK'
BY <1>11 DEF Refuse, EndsAs, Goto, recordVars, poolVars, boundVars,
    historyVars
<1>12. ASSUME NEW q \in Runs, Launch(q)
      PROVE  TypeOK'
BY <1>12 DEF Launch, EndsAs, Goto, recordVars, poolVars, boundVars,
    historyVars
<1>13. ASSUME NEW q \in Runs, Spawn(q)
      PROVE  TypeOK'
BY <1>13 DEF Spawn, EndsAs, Goto, recordVars, poolVars, boundVars,
    historyVars
<1>14. ASSUME NEW q \in Runs, Connect(q)
      PROVE  TypeOK'
BY <1>14 DEF Connect, EndsAs, Goto, recordVars, poolVars, boundVars
<1>15. ASSUME NEW q \in Runs, EndSession(q)
      PROVE  TypeOK'
BY <1>15 DEF EndSession, EndsAs, Goto, recordVars, poolVars, boundVars,
    historyVars
<1>16. ASSUME NEW q \in Runs, Publish(q)
      PROVE  TypeOK'
BY <1>16 DEF Publish, Goto, poolVars, boundVars, historyVars
<1>17. ASSUME NEW q \in Runs, LocalExits(q)
      PROVE  TypeOK'
BY <1>17 DEF LocalExits, OpenRuns, Goto, recordVars, poolVars
<1>18. ASSUME NEW q \in Runs, Delete(q)
      PROVE  TypeOK'
BY <1>18 DEF Delete, workerVars, poolVars, boundVars, historyVars
<1>19. CASE ServerExits
BY <1>19 DEF ServerExits, OpenRuns
<1>20. CASE Startup
BY <1>20 DEF Startup, SweepAtStart, NoSweepAtStart, Swept, OpenRuns, Fault,
    workerVars
<1>21. CASE UNCHANGED vars
  BY <1>21 DEF vars
<1>. QED BY <1>1, <1>2, <1>3, <1>4, <1>5, <1>6, <1>7, <1>8, <1>9, <1>10,
  <1>11, <1>12, <1>13, <1>14, <1>15, <1>16, <1>17, <1>18, <1>19, <1>20,
  <1>21 DEF Next, Call, RunStep

(* Nobody keeps a connection past its call, or a call past its server.      *)
LEMMA CallStep == IInv /\ [Next]_vars => CallInv'
<1>. SUFFICES ASSUME IInv, [Next]_vars PROVE CallInv'
  OBVIOUS
<1>. USE RunRecordsAssumption DEF IInv, TypeOK, CallInv, RecordInv, InCall,
       Pooled, Conn, Places, Open, Served, Threads
<1>1. ASSUME NEW t \in Threads, SeeNoPool(t)
      PROVE  CallInv'
BY <1>1 DEF SeeNoPool, recordVars, workerVars, boundVars, historyVars
<1>2. ASSUME NEW t \in Threads, UsePool(t)
      PROVE  CallInv'
BY <1>2 DEF UsePool, Executes, Effect, Concerns, Fault, Inserted, Finished,
    workerVars
<1>3. ASSUME NEW t \in Threads, PoolExhausted(t)
      PROVE  CallInv'
BY <1>3 DEF PoolExhausted, Concerns, Returns, AfterInsert, AfterFinish,
    Goto, recordVars, workerVars, poolVars, boundVars
<1>4. ASSUME NEW t \in Threads, MakePool(t)
      PROVE  CallInv'
BY <1>4 DEF MakePool, Executes, Effect, Concerns, Fault, Inserted, Finished,
    workerVars
<1>5. ASSUME NEW t \in Threads, NoDatabase(t)
      PROVE  CallInv'
BY <1>5 DEF NoDatabase, Concerns, Fault, Returns, AfterInsert, AfterFinish,
    Goto, recordVars, workerVars
<1>6. ASSUME NEW t \in Threads, PutBack(t)
      PROVE  CallInv'
BY <1>6 DEF PutBack, Concerns, Returns, Raises, RaisedIn, AfterInsert,
    AfterFinish, Goto, recordVars, workerVars, boundVars
<1>7. ASSUME NEW q \in Runs, StartServed(q)
      PROVE  CallInv'
BY <1>7 DEF StartServed, Goto, poolVars, boundVars, historyVars
<1>8. ASSUME NEW q \in Runs, StartLocal(q)
      PROVE  CallInv'
BY <1>8 DEF StartLocal, Goto, recordVars, poolVars, boundVars, historyVars
<1>9. ASSUME NEW q \in Runs, NeverInserted(q)
      PROVE  CallInv'
BY <1>9 DEF NeverInserted, Goto, recordVars, poolVars, boundVars,
    historyVars
<1>10. ASSUME NEW q \in Runs, LocalWrite(q)
      PROVE  CallInv'
BY <1>10 DEF LocalWrite, Executes, Effect, Concerns, Fault, Inserted,
    Finished, Returns, AfterInsert, AfterFinish, Goto, workerVars, poolVars
<1>11. ASSUME NEW q \in Runs, Refuse(q)
      PROVE  CallInv'
BY <1>11 DEF Refuse, EndsAs, Goto, recordVars, poolVars, boundVars,
    historyVars
<1>12. ASSUME NEW q \in Runs, Launch(q)
      PROVE  CallInv'
BY <1>12 DEF Launch, EndsAs, Goto, recordVars, poolVars, boundVars,
    historyVars
<1>13. ASSUME NEW q \in Runs, Spawn(q)
      PROVE  CallInv'
BY <1>13 DEF Spawn, EndsAs, Goto, recordVars, poolVars, boundVars,
    historyVars
<1>14. ASSUME NEW q \in Runs, Connect(q)
      PROVE  CallInv'
BY <1>14 DEF Connect, EndsAs, Goto, recordVars, poolVars, boundVars
<1>15. ASSUME NEW q \in Runs, EndSession(q)
      PROVE  CallInv'
BY <1>15 DEF EndSession, EndsAs, Goto, recordVars, poolVars, boundVars,
    historyVars
<1>16. ASSUME NEW q \in Runs, Publish(q)
      PROVE  CallInv'
BY <1>16 DEF Publish, Goto, poolVars, boundVars, historyVars
<1>17. ASSUME NEW q \in Runs, LocalExits(q)
      PROVE  CallInv'
BY <1>17 DEF LocalExits, OpenRuns, Goto, recordVars, poolVars
<1>18. ASSUME NEW q \in Runs, Delete(q)
      PROVE  CallInv'
BY <1>18 DEF Delete, workerVars, poolVars, boundVars, historyVars
<1>19. CASE ServerExits
BY <1>19 DEF ServerExits, OpenRuns
<1>20. CASE Startup
BY <1>20 DEF Startup, SweepAtStart, NoSweepAtStart, Swept, OpenRuns, Fault,
    workerVars
<1>21. CASE UNCHANGED vars
  BY <1>21 DEF vars
<1>. QED BY <1>1, <1>2, <1>3, <1>4, <1>5, <1>6, <1>7, <1>8, <1>9, <1>10,
  <1>11, <1>12, <1>13, <1>14, <1>15, <1>16, <1>17, <1>18, <1>19, <1>20,
  <1>21 DEF Next, Call, RunStep

(* A pool that is there from the start is never made again.                 *)
LEMMA PoolStep == IInv /\ [Next]_vars => PoolInv'
<1>. SUFFICES ASSUME IInv, [Next]_vars PROVE PoolInv'
  OBVIOUS
<1>. USE RunRecordsAssumption DEF IInv, TypeOK, CallInv, PoolInv, InCall,
       Pooled, Conn, Served, Threads
<1>1. ASSUME NEW t \in Threads, SeeNoPool(t)
      PROVE  PoolInv'
BY <1>1 DEF SeeNoPool, recordVars, workerVars, boundVars, historyVars
<1>2. ASSUME NEW t \in Threads, UsePool(t)
      PROVE  PoolInv'
BY <1>2 DEF UsePool, Executes, Effect, Concerns, Fault, Inserted, Finished,
    workerVars
<1>3. ASSUME NEW t \in Threads, PoolExhausted(t)
      PROVE  PoolInv'
BY <1>3 DEF PoolExhausted, Concerns, Returns, AfterInsert, AfterFinish,
    Goto, recordVars, workerVars, poolVars, boundVars
<1>4. ASSUME NEW t \in Threads, MakePool(t)
      PROVE  PoolInv'
BY <1>4 DEF MakePool, Executes, Effect, Concerns, Fault, Inserted, Finished,
    workerVars
<1>5. ASSUME NEW t \in Threads, NoDatabase(t)
      PROVE  PoolInv'
BY <1>5 DEF NoDatabase, Concerns, Fault, Returns, AfterInsert, AfterFinish,
    Goto, recordVars, workerVars
<1>6. ASSUME NEW t \in Threads, PutBack(t)
      PROVE  PoolInv'
BY <1>6 DEF PutBack, Concerns, Returns, Raises, RaisedIn, AfterInsert,
    AfterFinish, Goto, recordVars, workerVars, boundVars
<1>7. ASSUME NEW q \in Runs, StartServed(q)
      PROVE  PoolInv'
BY <1>7 DEF StartServed, Goto, poolVars, boundVars, historyVars
<1>8. ASSUME NEW q \in Runs, StartLocal(q)
      PROVE  PoolInv'
BY <1>8 DEF StartLocal, Goto, recordVars, poolVars, boundVars, historyVars
<1>9. ASSUME NEW q \in Runs, NeverInserted(q)
      PROVE  PoolInv'
BY <1>9 DEF NeverInserted, Goto, recordVars, poolVars, boundVars,
    historyVars
<1>10. ASSUME NEW q \in Runs, LocalWrite(q)
      PROVE  PoolInv'
BY <1>10 DEF LocalWrite, Executes, Effect, Concerns, Fault, Inserted,
    Finished, Returns, AfterInsert, AfterFinish, Goto, workerVars, poolVars
<1>11. ASSUME NEW q \in Runs, Refuse(q)
      PROVE  PoolInv'
BY <1>11 DEF Refuse, EndsAs, Goto, recordVars, poolVars, boundVars,
    historyVars
<1>12. ASSUME NEW q \in Runs, Launch(q)
      PROVE  PoolInv'
BY <1>12 DEF Launch, EndsAs, Goto, recordVars, poolVars, boundVars,
    historyVars
<1>13. ASSUME NEW q \in Runs, Spawn(q)
      PROVE  PoolInv'
BY <1>13 DEF Spawn, EndsAs, Goto, recordVars, poolVars, boundVars,
    historyVars
<1>14. ASSUME NEW q \in Runs, Connect(q)
      PROVE  PoolInv'
BY <1>14 DEF Connect, EndsAs, Goto, recordVars, poolVars, boundVars
<1>15. ASSUME NEW q \in Runs, EndSession(q)
      PROVE  PoolInv'
BY <1>15 DEF EndSession, EndsAs, Goto, recordVars, poolVars, boundVars,
    historyVars
<1>16. ASSUME NEW q \in Runs, Publish(q)
      PROVE  PoolInv'
BY <1>16 DEF Publish, Goto, poolVars, boundVars, historyVars
<1>17. ASSUME NEW q \in Runs, LocalExits(q)
      PROVE  PoolInv'
BY <1>17 DEF LocalExits, OpenRuns, Goto, recordVars, poolVars
<1>18. ASSUME NEW q \in Runs, Delete(q)
      PROVE  PoolInv'
BY <1>18 DEF Delete, workerVars, poolVars, boundVars, historyVars
<1>19. CASE ServerExits
BY <1>19 DEF ServerExits, OpenRuns
<1>20. CASE Startup
BY <1>20 DEF Startup, SweepAtStart, NoSweepAtStart, Swept, OpenRuns, Fault,
    workerVars
<1>21. CASE UNCHANGED vars
  BY <1>21 DEF vars
<1>. QED BY <1>1, <1>2, <1>3, <1>4, <1>5, <1>6, <1>7, <1>8, <1>9, <1>10,
  <1>11, <1>12, <1>13, <1>14, <1>15, <1>16, <1>17, <1>18, <1>19, <1>20,
  <1>21 DEF Next, Call, RunStep

(* The record and the worker move together.                                 *)
LEMMA RecordStep == IInv /\ [Next]_vars => RecordInv'
<1>. SUFFICES ASSUME IInv, [Next]_vars PROVE RecordInv'
  OBVIOUS
<1>. USE RunRecordsAssumption DEF IInv, TypeOK, CallInv, RecordInv, InCall,
       Pooled, Places, RecStatus, Ended, Published, Open, Served, Threads
<1>1. ASSUME NEW t \in Threads, SeeNoPool(t)
      PROVE  RecordInv'
BY <1>1 DEF SeeNoPool, recordVars, workerVars, boundVars, historyVars
<1>2. ASSUME NEW t \in Threads, UsePool(t)
      PROVE  RecordInv'
BY <1>2 DEF UsePool, Executes, Effect, Concerns, Fault, Inserted, Finished,
    workerVars
<1>3. ASSUME NEW t \in Threads, PoolExhausted(t)
      PROVE  RecordInv'
BY <1>3 DEF PoolExhausted, Concerns, Returns, AfterInsert, AfterFinish,
    Goto, recordVars, workerVars, poolVars, boundVars
<1>4. ASSUME NEW t \in Threads, MakePool(t)
      PROVE  RecordInv'
BY <1>4 DEF MakePool, Executes, Effect, Concerns, Fault, Inserted, Finished,
    workerVars
<1>5. ASSUME NEW t \in Threads, NoDatabase(t)
      PROVE  RecordInv'
BY <1>5 DEF NoDatabase, Concerns, Fault, Returns, AfterInsert, AfterFinish,
    Goto, recordVars, workerVars
<1>6. ASSUME NEW t \in Threads, PutBack(t)
      PROVE  RecordInv'
BY <1>6 DEF PutBack, Concerns, Returns, Raises, RaisedIn, AfterInsert,
    AfterFinish, Goto, recordVars, workerVars, boundVars
<1>7. ASSUME NEW q \in Runs, StartServed(q)
      PROVE  RecordInv'
BY <1>7 DEF StartServed, Goto, poolVars, boundVars, historyVars
<1>8. ASSUME NEW q \in Runs, StartLocal(q)
      PROVE  RecordInv'
BY <1>8 DEF StartLocal, Goto, recordVars, poolVars, boundVars, historyVars
<1>9. ASSUME NEW q \in Runs, NeverInserted(q)
      PROVE  RecordInv'
BY <1>9 DEF NeverInserted, Goto, recordVars, poolVars, boundVars,
    historyVars
<1>10. ASSUME NEW q \in Runs, LocalWrite(q)
      PROVE  RecordInv'
BY <1>10 DEF LocalWrite, Executes, Effect, Concerns, Fault, Inserted,
    Finished, Returns, AfterInsert, AfterFinish, Goto, workerVars, poolVars
<1>11. ASSUME NEW q \in Runs, Refuse(q)
      PROVE  RecordInv'
BY <1>11 DEF Refuse, EndsAs, Goto, recordVars, poolVars, boundVars,
    historyVars
<1>12. ASSUME NEW q \in Runs, Launch(q)
      PROVE  RecordInv'
BY <1>12 DEF Launch, EndsAs, Goto, recordVars, poolVars, boundVars,
    historyVars
<1>13. ASSUME NEW q \in Runs, Spawn(q)
      PROVE  RecordInv'
BY <1>13 DEF Spawn, EndsAs, Goto, recordVars, poolVars, boundVars,
    historyVars
<1>14. ASSUME NEW q \in Runs, Connect(q)
      PROVE  RecordInv'
BY <1>14 DEF Connect, EndsAs, Goto, recordVars, poolVars, boundVars
<1>15. ASSUME NEW q \in Runs, EndSession(q)
      PROVE  RecordInv'
BY <1>15 DEF EndSession, EndsAs, Goto, recordVars, poolVars, boundVars,
    historyVars
<1>16. ASSUME NEW q \in Runs, Publish(q)
      PROVE  RecordInv'
  <2>. SUFFICES ASSUME NEW r \in Runs
       PROVE  /\ rec'[r] = "running" <=> (r \in Served /\ pc'[r] \in Open)
              /\ rec'[r] \notin {"none", "running"} =>
                   /\ r \in Served /\ server' # "down" /\ pc'[r] = "ended"
                   /\ rec'[r] = Published(out'[r])
              /\ pc'[r] = "publish" => r \in Served
              /\ deleting' = r => rec'[r] = "none" /\ (r \in Served => pc'[r] \in {"ended", "dead"})
    OBVIOUS
  <2>1. CASE r = q
    BY <1>16, <2>1 DEF Publish, Goto, poolVars, boundVars, historyVars
  <2>2. CASE r # q
    BY <1>16, <2>2 DEF Publish, Goto, poolVars, boundVars, historyVars
  <2>. QED BY <2>1, <2>2
<1>17. ASSUME NEW q \in Runs, LocalExits(q)
      PROVE  RecordInv'
BY <1>17 DEF LocalExits, OpenRuns, Goto, recordVars, poolVars
<1>18. ASSUME NEW q \in Runs, Delete(q)
      PROVE  RecordInv'
  <2>. SUFFICES ASSUME NEW r \in Runs
       PROVE  /\ rec'[r] = "running" <=> (r \in Served /\ pc'[r] \in Open)
              /\ rec'[r] \notin {"none", "running"} =>
                   /\ r \in Served /\ server' # "down" /\ pc'[r] = "ended"
                   /\ rec'[r] = Published(out'[r])
              /\ pc'[r] = "publish" => r \in Served
              /\ deleting' = r => rec'[r] = "none" /\ (r \in Served => pc'[r] \in {"ended", "dead"})
    OBVIOUS
  <2>1. CASE r = q
    <3>1. pc[q] # "new" \/ q \notin Served
      BY <1>18 DEF Delete, EarlyInv
    <3>. QED BY <1>18, <2>1, <3>1 DEF Delete, workerVars, poolVars, boundVars, historyVars
  <2>2. CASE r # q
    BY <1>18, <2>2 DEF Delete, workerVars, poolVars, boundVars, historyVars
  <2>. QED BY <2>1, <2>2
<1>19. CASE ServerExits
BY <1>19 DEF ServerExits, OpenRuns
<1>20. CASE Startup
BY <1>20 DEF Startup, SweepAtStart, NoSweepAtStart, Swept, OpenRuns, Fault,
    workerVars
<1>21. CASE UNCHANGED vars
  BY <1>21 DEF vars
<1>. QED BY <1>1, <1>2, <1>3, <1>4, <1>5, <1>6, <1>7, <1>8, <1>9, <1>10,
  <1>11, <1>12, <1>13, <1>14, <1>15, <1>16, <1>17, <1>18, <1>19, <1>20,
  <1>21 DEF Next, Call, RunStep

(* A row appears with start_run and ends with finish_run.                   *)
LEMMA EarlyStep == IInv /\ [Next]_vars => EarlyInv'
<1>. SUFFICES ASSUME IInv, [Next]_vars PROVE EarlyInv'
  OBVIOUS
<1>. USE RunRecordsAssumption DEF IInv, TypeOK, CallInv, RecordInv,
       EarlyInv, InCall, Pooled, Wrote, Conn, Places, RowStatus, Ended,
       Open, Served, Threads
<1>1. ASSUME NEW t \in Threads, SeeNoPool(t)
      PROVE  EarlyInv'
BY <1>1 DEF SeeNoPool, recordVars, workerVars, boundVars, historyVars
<1>2. ASSUME NEW t \in Threads, UsePool(t)
      PROVE  EarlyInv'
BY <1>2 DEF UsePool, Executes, Effect, Concerns, Fault, Inserted, Finished,
    workerVars
<1>3. ASSUME NEW t \in Threads, PoolExhausted(t)
      PROVE  EarlyInv'
BY <1>3 DEF PoolExhausted, Concerns, Returns, AfterInsert, AfterFinish,
    Goto, recordVars, workerVars, poolVars, boundVars
<1>4. ASSUME NEW t \in Threads, MakePool(t)
      PROVE  EarlyInv'
BY <1>4 DEF MakePool, Executes, Effect, Concerns, Fault, Inserted, Finished,
    workerVars
<1>5. ASSUME NEW t \in Threads, NoDatabase(t)
      PROVE  EarlyInv'
BY <1>5 DEF NoDatabase, Concerns, Fault, Returns, AfterInsert, AfterFinish,
    Goto, recordVars, workerVars
<1>6. ASSUME NEW t \in Threads, PutBack(t)
      PROVE  EarlyInv'
BY <1>6 DEF PutBack, Concerns, Returns, Raises, RaisedIn, AfterInsert,
    AfterFinish, Goto, recordVars, workerVars, boundVars
<1>7. ASSUME NEW q \in Runs, StartServed(q)
      PROVE  EarlyInv'
BY <1>7 DEF StartServed, Goto, poolVars, boundVars, historyVars
<1>8. ASSUME NEW q \in Runs, StartLocal(q)
      PROVE  EarlyInv'
BY <1>8 DEF StartLocal, Goto, recordVars, poolVars, boundVars, historyVars
<1>9. ASSUME NEW q \in Runs, NeverInserted(q)
      PROVE  EarlyInv'
BY <1>9 DEF NeverInserted, Goto, recordVars, poolVars, boundVars,
    historyVars
<1>10. ASSUME NEW q \in Runs, LocalWrite(q)
      PROVE  EarlyInv'
BY <1>10 DEF LocalWrite, Executes, Effect, Concerns, Fault, Inserted,
    Finished, Returns, AfterInsert, AfterFinish, Goto, workerVars, poolVars
<1>11. ASSUME NEW q \in Runs, Refuse(q)
      PROVE  EarlyInv'
BY <1>11 DEF Refuse, EndsAs, Goto, recordVars, poolVars, boundVars,
    historyVars
<1>12. ASSUME NEW q \in Runs, Launch(q)
      PROVE  EarlyInv'
BY <1>12 DEF Launch, EndsAs, Goto, recordVars, poolVars, boundVars,
    historyVars
<1>13. ASSUME NEW q \in Runs, Spawn(q)
      PROVE  EarlyInv'
BY <1>13 DEF Spawn, EndsAs, Goto, recordVars, poolVars, boundVars,
    historyVars
<1>14. ASSUME NEW q \in Runs, Connect(q)
      PROVE  EarlyInv'
BY <1>14 DEF Connect, EndsAs, Goto, recordVars, poolVars, boundVars
<1>15. ASSUME NEW q \in Runs, EndSession(q)
      PROVE  EarlyInv'
BY <1>15 DEF EndSession, EndsAs, Goto, recordVars, poolVars, boundVars,
    historyVars
<1>16. ASSUME NEW q \in Runs, Publish(q)
      PROVE  EarlyInv'
BY <1>16 DEF Publish, Goto, poolVars, boundVars, historyVars
<1>17. ASSUME NEW q \in Runs, LocalExits(q)
      PROVE  EarlyInv'
BY <1>17 DEF LocalExits, OpenRuns, Goto, recordVars, poolVars
<1>18. ASSUME NEW q \in Runs, Delete(q)
      PROVE  EarlyInv'
BY <1>18 DEF Delete, workerVars, poolVars, boundVars, historyVars
<1>19. CASE ServerExits
BY <1>19 DEF ServerExits, OpenRuns
<1>20. CASE Startup
BY <1>20 DEF Startup, SweepAtStart, NoSweepAtStart, Swept, OpenRuns, Fault,
    workerVars
<1>21. CASE UNCHANGED vars
  BY <1>21 DEF vars
<1>. QED BY <1>1, <1>2, <1>3, <1>4, <1>5, <1>6, <1>7, <1>8, <1>9, <1>10,
  <1>11, <1>12, <1>13, <1>14, <1>15, <1>16, <1>17, <1>18, <1>19, <1>20,
  <1>21 DEF Next, Call, RunStep

(* The row of a run that nothing disturbs follows its worker.               *)
LEMMA RowStep == IInv /\ [Next]_vars => RowInv'
<1>. SUFFICES ASSUME IInv, [Next]_vars PROVE RowInv'
  OBVIOUS
<1>. USE RunRecordsAssumption DEF IInv, TypeOK, CallInv, RecordInv,
       EarlyInv, RowInv, InCall, Pooled, Wrote, Written, Conn, Places,
       RowStatus, Ended, Published, Open, Served, Threads
<1>1. ASSUME NEW t \in Threads, SeeNoPool(t)
      PROVE  RowInv'
BY <1>1 DEF SeeNoPool, recordVars, workerVars, boundVars, historyVars
<1>2. ASSUME NEW t \in Threads, UsePool(t)
      PROVE  RowInv'
BY <1>2 DEF UsePool, Executes, Effect, Concerns, Fault, Inserted, Finished,
    workerVars
<1>3. ASSUME NEW t \in Threads, PoolExhausted(t)
      PROVE  RowInv'
BY <1>3 DEF PoolExhausted, Concerns, Returns, AfterInsert, AfterFinish,
    Goto, recordVars, workerVars, poolVars, boundVars
<1>4. ASSUME NEW t \in Threads, MakePool(t)
      PROVE  RowInv'
BY <1>4 DEF MakePool, Executes, Effect, Concerns, Fault, Inserted, Finished,
    workerVars
<1>5. ASSUME NEW t \in Threads, NoDatabase(t)
      PROVE  RowInv'
BY <1>5 DEF NoDatabase, Concerns, Fault, Returns, AfterInsert, AfterFinish,
    Goto, recordVars, workerVars
<1>6. ASSUME NEW t \in Threads, PutBack(t)
      PROVE  RowInv'
BY <1>6 DEF PutBack, Concerns, Returns, Raises, RaisedIn, AfterInsert,
    AfterFinish, Goto, recordVars, workerVars, boundVars
<1>7. ASSUME NEW q \in Runs, StartServed(q)
      PROVE  RowInv'
BY <1>7 DEF StartServed, Goto, poolVars, boundVars, historyVars
<1>8. ASSUME NEW q \in Runs, StartLocal(q)
      PROVE  RowInv'
BY <1>8 DEF StartLocal, Goto, recordVars, poolVars, boundVars, historyVars
<1>9. ASSUME NEW q \in Runs, NeverInserted(q)
      PROVE  RowInv'
BY <1>9 DEF NeverInserted, Goto, recordVars, poolVars, boundVars,
    historyVars
<1>10. ASSUME NEW q \in Runs, LocalWrite(q)
      PROVE  RowInv'
BY <1>10 DEF LocalWrite, Executes, Effect, Concerns, Fault, Inserted,
    Finished, Returns, AfterInsert, AfterFinish, Goto, workerVars, poolVars
<1>11. ASSUME NEW q \in Runs, Refuse(q)
      PROVE  RowInv'
BY <1>11 DEF Refuse, EndsAs, Goto, recordVars, poolVars, boundVars,
    historyVars
<1>12. ASSUME NEW q \in Runs, Launch(q)
      PROVE  RowInv'
BY <1>12 DEF Launch, EndsAs, Goto, recordVars, poolVars, boundVars,
    historyVars
<1>13. ASSUME NEW q \in Runs, Spawn(q)
      PROVE  RowInv'
BY <1>13 DEF Spawn, EndsAs, Goto, recordVars, poolVars, boundVars,
    historyVars
<1>14. ASSUME NEW q \in Runs, Connect(q)
      PROVE  RowInv'
BY <1>14 DEF Connect, EndsAs, Goto, recordVars, poolVars, boundVars
<1>15. ASSUME NEW q \in Runs, EndSession(q)
      PROVE  RowInv'
BY <1>15 DEF EndSession, EndsAs, Goto, recordVars, poolVars, boundVars,
    historyVars
<1>16. ASSUME NEW q \in Runs, Publish(q)
      PROVE  RowInv'
BY <1>16 DEF Publish, Goto, poolVars, boundVars, historyVars
<1>17. ASSUME NEW q \in Runs, LocalExits(q)
      PROVE  RowInv'
BY <1>17 DEF LocalExits, OpenRuns, Goto, recordVars, poolVars
<1>18. ASSUME NEW q \in Runs, Delete(q)
      PROVE  RowInv'
BY <1>18 DEF Delete, workerVars, poolVars, boundVars, historyVars
<1>19. CASE ServerExits
BY <1>19 DEF ServerExits, OpenRuns
<1>20. CASE Startup
BY <1>20 DEF Startup, SweepAtStart, NoSweepAtStart, Swept, OpenRuns, Fault,
    workerVars
<1>21. CASE UNCHANGED vars
  BY <1>21 DEF vars
<1>. QED BY <1>1, <1>2, <1>3, <1>4, <1>5, <1>6, <1>7, <1>8, <1>9, <1>10,
  <1>11, <1>12, <1>13, <1>14, <1>15, <1>16, <1>17, <1>18, <1>19, <1>20,
  <1>21 DEF Next, Call, RunStep

(* A container goes with its session, or is leaked.                         *)
LEMMA ContainerStep == IInv /\ [Next]_vars => ContainerInv'
<1>. SUFFICES ASSUME IInv, [Next]_vars PROVE ContainerInv'
  OBVIOUS
<1>. USE RunRecordsAssumption DEF IInv, TypeOK, CallInv, ContainerInv,
       InCall, Places, Ended, Open, Served, Threads
<1>1. ASSUME NEW t \in Threads, SeeNoPool(t)
      PROVE  ContainerInv'
BY <1>1 DEF SeeNoPool, recordVars, workerVars, boundVars, historyVars
<1>2. ASSUME NEW t \in Threads, UsePool(t)
      PROVE  ContainerInv'
BY <1>2 DEF UsePool, Executes, Effect, Concerns, Fault, Inserted, Finished,
    workerVars
<1>3. ASSUME NEW t \in Threads, PoolExhausted(t)
      PROVE  ContainerInv'
BY <1>3 DEF PoolExhausted, Concerns, Returns, AfterInsert, AfterFinish,
    Goto, recordVars, workerVars, poolVars, boundVars
<1>4. ASSUME NEW t \in Threads, MakePool(t)
      PROVE  ContainerInv'
BY <1>4 DEF MakePool, Executes, Effect, Concerns, Fault, Inserted, Finished,
    workerVars
<1>5. ASSUME NEW t \in Threads, NoDatabase(t)
      PROVE  ContainerInv'
BY <1>5 DEF NoDatabase, Concerns, Fault, Returns, AfterInsert, AfterFinish,
    Goto, recordVars, workerVars
<1>6. ASSUME NEW t \in Threads, PutBack(t)
      PROVE  ContainerInv'
BY <1>6 DEF PutBack, Concerns, Returns, Raises, RaisedIn, AfterInsert,
    AfterFinish, Goto, recordVars, workerVars, boundVars
<1>7. ASSUME NEW q \in Runs, StartServed(q)
      PROVE  ContainerInv'
BY <1>7 DEF StartServed, Goto, poolVars, boundVars, historyVars
<1>8. ASSUME NEW q \in Runs, StartLocal(q)
      PROVE  ContainerInv'
BY <1>8 DEF StartLocal, Goto, recordVars, poolVars, boundVars, historyVars
<1>9. ASSUME NEW q \in Runs, NeverInserted(q)
      PROVE  ContainerInv'
BY <1>9 DEF NeverInserted, Goto, recordVars, poolVars, boundVars,
    historyVars
<1>10. ASSUME NEW q \in Runs, LocalWrite(q)
      PROVE  ContainerInv'
BY <1>10 DEF LocalWrite, Executes, Effect, Concerns, Fault, Inserted,
    Finished, Returns, AfterInsert, AfterFinish, Goto, workerVars, poolVars
<1>11. ASSUME NEW q \in Runs, Refuse(q)
      PROVE  ContainerInv'
BY <1>11 DEF Refuse, EndsAs, Goto, recordVars, poolVars, boundVars,
    historyVars
<1>12. ASSUME NEW q \in Runs, Launch(q)
      PROVE  ContainerInv'
BY <1>12 DEF Launch, EndsAs, Goto, recordVars, poolVars, boundVars,
    historyVars
<1>13. ASSUME NEW q \in Runs, Spawn(q)
      PROVE  ContainerInv'
BY <1>13 DEF Spawn, EndsAs, Goto, recordVars, poolVars, boundVars,
    historyVars
<1>14. ASSUME NEW q \in Runs, Connect(q)
      PROVE  ContainerInv'
BY <1>14 DEF Connect, EndsAs, Goto, recordVars, poolVars, boundVars
<1>15. ASSUME NEW q \in Runs, EndSession(q)
      PROVE  ContainerInv'
BY <1>15 DEF EndSession, EndsAs, Goto, recordVars, poolVars, boundVars,
    historyVars
<1>16. ASSUME NEW q \in Runs, Publish(q)
      PROVE  ContainerInv'
BY <1>16 DEF Publish, Goto, poolVars, boundVars, historyVars
<1>17. ASSUME NEW q \in Runs, LocalExits(q)
      PROVE  ContainerInv'
BY <1>17 DEF LocalExits, OpenRuns, Goto, recordVars, poolVars
<1>18. ASSUME NEW q \in Runs, Delete(q)
      PROVE  ContainerInv'
BY <1>18 DEF Delete, workerVars, poolVars, boundVars, historyVars
<1>19. CASE ServerExits
BY <1>19 DEF ServerExits, OpenRuns
<1>20. CASE Startup
BY <1>20 DEF Startup, SweepAtStart, NoSweepAtStart, Swept, OpenRuns, Fault,
    workerVars
<1>21. CASE UNCHANGED vars
  BY <1>21 DEF vars
<1>. QED BY <1>1, <1>2, <1>3, <1>4, <1>5, <1>6, <1>7, <1>8, <1>9, <1>10,
  <1>11, <1>12, <1>13, <1>14, <1>15, <1>16, <1>17, <1>18, <1>19, <1>20,
  <1>21 DEF Next, Call, RunStep

-----------------------------------------------------------------------------
(* Theorems                                                                *)

LEMMA Invariance == Spec => []IInv
<1>1. IInv /\ [Next]_vars => IInv'
  BY TypeStep, CallStep, PoolStep, RecordStep, EarlyStep, RowStep, ContainerStep DEF IInv
<1>. QED BY InitIInv, <1>1, PTL DEF Spec

(* Every variable keeps its type.                                          *)
THEOREM TypeCorrect == Spec => []TypeOK
<1>1. IInv => TypeOK
  BY DEF IInv
<1>. QED BY Invariance, <1>1, PTL

(* A row that nothing disturbed says running only while somebody works on  *)
(* the run, and ends as the RunRecord ends.                                *)
THEOREM RowsAreTrue == Spec => []RowTellsTheTruth
<1>1. IInv => RowTellsTheTruth
  BY DEF IInv, TypeOK, RowInv, RecordInv, RowTellsTheTruth, Written, Published, Ended, Served
<1>. QED BY Invariance, <1>1, PTL

(* A container is there for an open session, or nobody was left to stop    *)
(* it; an interrupted run has none.                                        *)
THEOREM ContainersGoWithTheirRuns == Spec => []NoContainerOutlivesItsRun
<1>1. IInv => NoContainerOutlivesItsRun
  BY DEF IInv, TypeOK, RecordInv, ContainerInv, NoContainerOutlivesItsRun, Published, Ended, RecStatus
<1>. QED BY Invariance, <1>1, PTL

(* With a pool from the start no call raises.                              *)
THEOREM FirstPoolIsSafe == Spec => []CallsNeverRaise
<1>1. IInv => CallsNeverRaise
  BY DEF IInv, PoolInv, CallsNeverRaise
<1>. QED BY Invariance, <1>1, PTL

-----------------------------------------------------------------------------
(* What changes an ended row                                               *)

LEMMA ExecutesKeepsEnded ==
  ASSUME IInv, NEW t \in Threads, InCall(t), conn[t] \in {"none", "noPool"}, Executes(t),
         NEW r \in Runs, row[r] \in Ended, row'[r] # row[r]
  PROVE  row'[r] = "none" \/ r \in taken \/ r \in raised
<1>. USE RunRecordsAssumption
         DEF IInv, TypeOK, EarlyInv, Wrote, Served, Threads, Executes, Effect, InCall, Ended
<1>1. CASE t = Http
  BY <1>1
<1>2. CASE t # Http
  BY <1>2 DEF Inserted, Finished
<1>. QED BY <1>1, <1>2

LEMMA EndedRowsStep ==
  ASSUME IInv, [Next]_vars, NEW r \in Runs, row[r] \in Ended, row'[r] # row[r]
  PROVE  row'[r] = "none" \/ r \in taken \/ r \in raised
<1>. USE RunRecordsAssumption DEF Served, Threads
<1>1. ASSUME NEW t \in Threads, SeeNoPool(t)
      PROVE  row'[r] = "none" \/ r \in taken \/ r \in raised
  BY <1>1 DEF SeeNoPool, recordVars
<1>2. ASSUME NEW t \in Threads, UsePool(t)
      PROVE  row'[r] = "none" \/ r \in taken \/ r \in raised
  BY <1>2, ExecutesKeepsEnded DEF UsePool
<1>3. ASSUME NEW t \in Threads, PoolExhausted(t)
      PROVE  row'[r] = "none" \/ r \in taken \/ r \in raised
  BY <1>3 DEF PoolExhausted, recordVars
<1>4. ASSUME NEW t \in Threads, MakePool(t)
      PROVE  row'[r] = "none" \/ r \in taken \/ r \in raised
  BY <1>4, ExecutesKeepsEnded DEF MakePool, IInv, CallInv
<1>5. ASSUME NEW t \in Threads, NoDatabase(t)
      PROVE  row'[r] = "none" \/ r \in taken \/ r \in raised
  BY <1>5 DEF NoDatabase, recordVars
<1>6. ASSUME NEW t \in Threads, PutBack(t)
      PROVE  row'[r] = "none" \/ r \in taken \/ r \in raised
  BY <1>6 DEF PutBack, recordVars
<1>7. ASSUME NEW q \in Runs, StartServed(q)
      PROVE  row'[r] = "none" \/ r \in taken \/ r \in raised
  BY <1>7 DEF StartServed
<1>8. ASSUME NEW q \in Runs, StartLocal(q)
      PROVE  row'[r] = "none" \/ r \in taken \/ r \in raised
  BY <1>8 DEF StartLocal, recordVars
<1>9. ASSUME NEW q \in Runs, NeverInserted(q)
      PROVE  row'[r] = "none" \/ r \in taken \/ r \in raised
  BY <1>9 DEF NeverInserted, recordVars
<1>10. ASSUME NEW q \in Runs, LocalWrite(q)
      PROVE  row'[r] = "none" \/ r \in taken \/ r \in raised
  BY <1>10 DEF LocalWrite, Executes, Effect, Inserted, Finished, Ended, IInv, TypeOK, EarlyInv, Wrote
<1>11. ASSUME NEW q \in Runs, Refuse(q)
      PROVE  row'[r] = "none" \/ r \in taken \/ r \in raised
  BY <1>11 DEF Refuse, recordVars
<1>12. ASSUME NEW q \in Runs, Launch(q)
      PROVE  row'[r] = "none" \/ r \in taken \/ r \in raised
  BY <1>12 DEF Launch, recordVars
<1>13. ASSUME NEW q \in Runs, Spawn(q)
      PROVE  row'[r] = "none" \/ r \in taken \/ r \in raised
  BY <1>13 DEF Spawn, recordVars
<1>14. ASSUME NEW q \in Runs, Connect(q)
      PROVE  row'[r] = "none" \/ r \in taken \/ r \in raised
  BY <1>14 DEF Connect, recordVars
<1>15. ASSUME NEW q \in Runs, EndSession(q)
      PROVE  row'[r] = "none" \/ r \in taken \/ r \in raised
  BY <1>15 DEF EndSession, recordVars
<1>16. ASSUME NEW q \in Runs, Publish(q)
      PROVE  row'[r] = "none" \/ r \in taken \/ r \in raised
  BY <1>16 DEF Publish
<1>17. ASSUME NEW q \in Runs, LocalExits(q)
      PROVE  row'[r] = "none" \/ r \in taken \/ r \in raised
  BY <1>17 DEF LocalExits, recordVars
<1>18. ASSUME NEW q \in Runs, Delete(q)
      PROVE  row'[r] = "none" \/ r \in taken \/ r \in raised
  BY <1>18 DEF Delete
<1>19. CASE ServerExits
  BY <1>19 DEF ServerExits
<1>20. CASE Startup
  BY <1>20 DEF Startup, SweepAtStart, NoSweepAtStart, Swept, Ended, IInv, TypeOK
<1>21. CASE UNCHANGED vars
  BY <1>21 DEF vars
<1>. QED BY <1>1, <1>2, <1>3, <1>4, <1>5, <1>6, <1>7, <1>8, <1>9, <1>10,
  <1>11, <1>12, <1>13, <1>14, <1>15, <1>16, <1>17, <1>18, <1>19, <1>20,
  <1>21 DEF Next, Call, RunStep

(* The end of a run is written once, but for the exceptions that the       *)
(* property names.                                                         *)
THEOREM EndsAreWrittenOnce == Spec => EndedRowsStayEnded
<1>1. IInv /\ [Next]_vars =>
        [\A r \in Runs : row[r] \in Ended /\ row'[r] # row[r] =>
           row'[r] = "none" \/ r \in taken \/ r \in raised]_vars
  BY EndedRowsStep
<1>. QED BY Invariance, <1>1, PTL DEF Spec, EndedRowsStayEnded

-----------------------------------------------------------------------------
(* What callers see                                                        *)

Story(r) == Sight(r)' # Sight(r) => Follows(r, Sight(r), Sight(r)')

(* A run that is on record nowhere was never started, or is gone.          *)
LEMMA SightOf ==
  ASSUME IInv, NEW r \in Served
  PROVE  /\ pc[r] = "new" => Sight(r) = "absent"
         /\ rec[r] = "running" => Sight(r) = "running"
         /\ rec[r] = "none" /\ row[r] = "none" /\ pc[r] # "new" => Sight(r) = "gone"
BY RunRecordsAssumption DEF IInv, TypeOK, RecStatus, RecordInv, EarlyInv, Sight, Served, Open

(* Nothing is seen of a step that leaves the record and the row alone.     *)
LEMMA SightKept ==
  ASSUME NEW r \in Served, rec'[r] = rec[r], row'[r] = row[r], pc'[r] = "new" <=> pc[r] = "new"
  PROVE  Story(r)
BY DEF Sight, Story

(* A statement touches the row of a run of the server while its record     *)
(* says running, or deletes it when the record is gone and the row ended.  *)
LEMMA ExecutesSeen ==
  ASSUME IInv, NEW t \in Threads, InCall(t), Executes(t), UNCHANGED <<rec, pc>>,
         NEW r \in Served, r \notin disturbed'
  PROVE  Story(r)
<1>. USE RunRecordsAssumption DEF IInv, TypeOK, Served, Threads
<1>1. CASE row'[r] = row[r]
  BY <1>1, SightKept
<1>2. CASE row'[r] # row[r] /\ t = Http
  <2>1. deleting = r /\ row'[r] = "none" /\ row[r] # "none" /\ r \notin disturbed
    BY <1>2 DEF Executes, Effect, InCall
  <2>2. rec[r] = "none" /\ pc[r] \in {"ended", "dead"}
    BY <2>1 DEF RecordInv
  <2>3. row[r] \in Ended
    BY <2>1, <2>2 DEF RowInv, RowStatus, Open
  <2>4. Sight(r) \in Ended /\ Sight(r)' = "gone"
    BY <2>1, <2>2, <2>3 DEF Sight
  <2>. QED BY <2>1, <2>4 DEF Story, Follows
<1>3. CASE row'[r] # row[r] /\ t # Http
  <2>1. t = r
    BY <1>2, <1>3 DEF Executes, Effect, Inserted, Finished
  <2>2. rec[r] = "running"
    BY <1>3, <2>1 DEF InCall, RecordInv, Open
  <2>. QED BY <2>2 DEF Sight, Story
<1>. QED BY <1>1, <1>2, <1>3

(* The end of a call keeps a run where it is on record.                    *)
LEMMA ReturnSeen ==
  ASSUME IInv, NEW t \in Threads, InCall(t), Returns(t) \/ Raises(t), UNCHANGED <<row, rec>>,
         NEW r \in Served
  PROVE  Story(r)
<1>1. pc'[r] = "new" <=> pc[r] = "new"
  BY RunRecordsAssumption
     DEF IInv, TypeOK, Served, Threads, Returns, Raises, RaisedIn, AfterInsert, AfterFinish, Goto, InCall,
         workerVars
<1>. QED BY <1>1, SightKept

(* When the record goes, with the server or by DELETE, the row tells the   *)
(* same in its own words, or the run failed before it had one.             *)
LEMMA RecordGoesSeen ==
  ASSUME IInv, NEW r \in Served, r \notin disturbed, rec[r] # "running",
         rec'[r] = "none", row'[r] = row[r], pc'[r] = pc[r]
  PROVE  Story(r)
<1>1. CASE rec[r] = "none"
  BY <1>1, SightKept
<1>2. CASE rec[r] # "none"
  <2>1. pc[r] = "ended" /\ rec[r] = Published(out[r]) /\ Written(r) /\ out[r] \in Ended
    BY <1>2 DEF IInv, TypeOK, RecordInv, RowInv, Served
  <2>2. CASE row[r] = out[r]
    <3>1. Sight(r) = Published(out[r]) /\ Sight(r)' = out[r]
      BY <1>2, <2>1, <2>2 DEF Sight, Ended, Published
    <3>. QED BY <2>1, <3>1 DEF Story, Follows, Published, Ended
  <2>3. CASE row[r] = "none" /\ out[r] = "error"
    <3>1. Sight(r) = "error" /\ Sight(r)' = "gone"
      BY <1>2, <2>1, <2>3 DEF Sight, Published
    <3>. QED BY <3>1 DEF Story, Follows, Ended
  <2>. QED BY <2>1, <2>2, <2>3 DEF Written
<1>. QED BY <1>1, <1>2

LEMMA CallSeen ==
  ASSUME IInv, NEW t \in Threads, Call(t), NEW r \in Served, r \notin disturbed'
  PROVE  Story(r)
<1>. USE DEF recordVars, workerVars
<1>1. conn[t] # "none" => InCall(t)
  BY DEF IInv, CallInv
<1>2. CASE SeeNoPool(t)
  BY <1>2, SightKept DEF SeeNoPool
<1>3. CASE UsePool(t) \/ MakePool(t)
  <2>1. InCall(t) /\ Executes(t) /\ UNCHANGED <<rec, pc>>
    BY <1>1, <1>3 DEF UsePool, MakePool
  <2>. QED BY <2>1, ExecutesSeen
<1>4. CASE PoolExhausted(t) \/ NoDatabase(t) \/ PutBack(t)
  <2>1. InCall(t) /\ (Returns(t) \/ Raises(t)) /\ UNCHANGED <<row, rec>>
    BY <1>1, <1>4 DEF PoolExhausted, NoDatabase, PutBack
  <2>. QED BY <2>1, ReturnSeen
<1>. QED BY <1>2, <1>3, <1>4 DEF Call

LEMMA RunStepSeen ==
  ASSUME IInv, NEW q \in Runs, RunStep(q), NEW r \in Served, r \notin disturbed'
  PROVE  Story(r)
<1>. USE RunRecordsAssumption DEF IInv, TypeOK, Served, recordVars, Goto
<1>1. CASE StartServed(q)
  <2>1. CASE q = r
    <3>1. Sight(r) = "absent" /\ Sight(r)' = "running"
      BY <1>1, <2>1, SightOf DEF StartServed, Sight
    <3>. QED BY <3>1 DEF Story, Follows
  <2>2. CASE q # r
    BY <1>1, <2>2, SightKept DEF StartServed
  <2>. QED BY <2>1, <2>2
<1>2. CASE StartLocal(q) \/ LocalWrite(q)
  <2>1. q # r /\ rec' = rec
    BY <1>2 DEF StartLocal, LocalWrite
  <2>2. row'[r] = row[r]
    BY <1>2, <2>1 DEF StartLocal, LocalWrite, Executes, Effect, Inserted, Finished
  <2>3. pc'[r] = pc[r]
    BY <1>2, <2>1 DEF StartLocal, LocalWrite, Returns, AfterInsert, AfterFinish, workerVars
  <2>. QED BY <2>1, <2>2, <2>3, SightKept
<1>3. CASE \/ NeverInserted(q) \/ Refuse(q) \/ Launch(q) \/ Spawn(q) \/ Connect(q)
           \/ EndSession(q)
  <2>1. UNCHANGED <<row, rec>>
    BY <1>3 DEF NeverInserted, Refuse, Launch, Spawn, Connect, EndSession
  <2>2. pc'[r] = "new" <=> pc[r] = "new"
    BY <1>3 DEF NeverInserted, Refuse, Launch, Spawn, Connect, EndSession, EndsAs
  <2>. QED BY <2>1, <2>2, SightKept
<1>4. CASE Publish(q)
  <2>1. CASE q = r
    <3>1. rec[r] = "running" /\ rec'[r] = Published(out[r]) /\ out[r] \in Ended
      BY <1>4, <2>1 DEF Publish, RecordInv, Open
    <3>2. Sight(r) = "running" /\ Sight(r)' \in {"done", "error", "interrupted"}
      BY <3>1 DEF Sight, Published, Ended
    <3>. QED BY <3>2 DEF Story, Follows
  <2>2. CASE q # r
    BY <1>4, <2>2, SightKept DEF Publish
  <2>. QED BY <2>1, <2>2
<1>. QED BY <1>1, <1>2, <1>3, <1>4 DEF RunStep

(* Processes come and go.                                                  *)
LEMMA ProcessSeen ==
  ASSUME IInv, ServerExits \/ Startup \/ \E q \in Runs : LocalExits(q) \/ Delete(q),
         NEW r \in Served, r \notin disturbed'
  PROVE  Story(r)
<1>. USE RunRecordsAssumption DEF IInv, TypeOK, Served, recordVars
<1>1. CASE ServerExits
  <2>1. r \notin disturbed /\ pc[r] \notin Open
    BY <1>1 DEF ServerExits, OpenRuns
  <2>2. rec[r] # "running" /\ rec'[r] = "none" /\ row'[r] = row[r] /\ pc'[r] = pc[r]
    BY <1>1, <2>1 DEF ServerExits, OpenRuns, RecordInv
  <2>. QED BY <2>1, <2>2, RecordGoesSeen
<1>2. CASE Startup
  <2>1. UNCHANGED <<rec, pc>> /\ rec[r] = "none"
    BY <1>2 DEF Startup, workerVars, RecordInv, CallInv
  <2>2. CASE row'[r] = row[r]
    BY <2>1, <2>2, SightKept
  <2>3. CASE row'[r] # row[r]
    <3>1. row[r] = "running" /\ row'[r] = "interrupted"
      BY <1>2, <2>3 DEF Startup, SweepAtStart, NoSweepAtStart, Swept
    <3>2. Sight(r) = "running" /\ Sight(r)' = "interrupted"
      BY <2>1, <3>1 DEF Sight
    <3>. QED BY <3>2 DEF Story, Follows
  <2>. QED BY <2>2, <2>3
<1>3. ASSUME NEW q \in Runs, LocalExits(q) PROVE Story(r)
  <2>1. UNCHANGED <<row, rec>> /\ pc'[r] = pc[r]
    BY <1>3 DEF LocalExits, OpenRuns, Goto
  <2>. QED BY <2>1, SightKept
<1>4. ASSUME NEW q \in Runs, Delete(q) PROVE Story(r)
  <2>1. UNCHANGED <<row, pc, disturbed>>
    BY <1>4 DEF Delete, workerVars, historyVars
  <2>2. CASE q = r
    <3>1. rec[r] # "running" /\ rec'[r] = "none"
      BY <1>4, <2>2 DEF Delete
    <3>. QED BY <2>1, <3>1, RecordGoesSeen
  <2>3. CASE q # r
    BY <1>4, <2>1, <2>3, SightKept DEF Delete
  <2>. QED BY <2>2, <2>3
<1>. QED BY <1>1, <1>2, <1>3, <1>4

(* Across restarts of the server, and whichever of record and row answers, *)
(* an end that a caller has seen of a run that no fault concerned stays,   *)
(* but for the outcome that takes the place of done and the errors that    *)
(* have no row, until the run is deleted.                                  *)
THEOREM EndsStayInSight == Spec => SeenEndsStay
<1>1. ASSUME IInv, Next, NEW r \in Served \ disturbed'
      PROVE  Story(r)
  BY <1>1, CallSeen, RunStepSeen, ProcessSeen DEF Next
<1>2. IInv /\ [Next]_vars =>
        [\A r \in Served \ disturbed' :
           Sight(r)' # Sight(r) => Follows(r, Sight(r), Sight(r)')]_vars
  BY <1>1 DEF Story
<1>. QED BY Invariance, <1>2, PTL DEF Spec, SeenEndsStay
=============================================================================
