------------------------ MODULE ArtifactStoreProofs ------------------------
(***************************************************************************)
(* What holds of the artifact store for every number of concurrent         *)
(* requests, of versions and of failing queries.                           *)
(*                                                                         *)
(* Four facts, each with an invariant of its own.  No steps are live that  *)
(* nobody approved: the invariant says so of the store and of every copy a *)
(* thread still has in hand.  A new version replaces nothing, as long as   *)
(* all threads are of one process: the invariant says that who numbers a   *)
(* version holds the lock, and that the number is still free when it is    *)
(* saved, whatever the edits, which take no lock, have done meanwhile.     *)
(* Version numbers stay within bounds: none exceeds how many versions have *)
(* been given one.  And a set-default that runs alone clears every other   *)
(* default: each is still on its list, or is the one it is about to save.  *)
(***************************************************************************)
EXTENDS ArtifactStore, FiniteSetTheorems, WellFoundedInduction, TLAPS

-----------------------------------------------------------------------------
(* The largest of some versions                                            *)

LEMMA MaxExists ==
  ASSUME NEW n \in Nat, NEW S \in SUBSET (0 .. n), S # {}
  PROVE  Max(S) \in S /\ \A y \in S : Max(S) >= y
<1> DEFINE T == {n - x : x \in S}
<1>1. T \subseteq Nat /\ T # {}
  <2>1. \A x \in S : n - x \in Nat
    OBVIOUS
  <2>2. PICK x \in S : TRUE
    OBVIOUS
  <2>3. n - x \in T
    BY <2>2
  <2>. QED BY <2>1, <2>3
<1>2. PICK t \in T : \A u \in T : <<u, t>> \notin OpToRel(<, Nat)
  BY <1>1, NatLessThanWellFounded, WFMin
<1>3. \A u \in T : t <= u
  <2>. SUFFICES ASSUME NEW u \in T, u < t PROVE FALSE
    BY <1>1
  <2>. QED BY <1>1, <1>2 DEF OpToRel
<1>4. PICK x \in S : t = n - x
  OBVIOUS
<1>5. \A y \in S : x >= y
  <2>. SUFFICES ASSUME NEW y \in S PROVE x >= y
    OBVIOUS
  <2>1. n - y \in T
    OBVIOUS
  <2>2. t <= n - y
    BY <1>3, <2>1
  <2>. QED BY <1>4, <2>2
<1>. QED BY <1>5 DEF Max

LEMMA MinExists ==
  ASSUME NEW S \in SUBSET Nat, S # {}
  PROVE  Min(S) \in S
<1>1. PICK x \in S : \A y \in S : <<y, x>> \notin OpToRel(<, Nat)
  BY NatLessThanWellFounded, WFMin
<1>2. \A y \in S : x <= y
  <2>. SUFFICES ASSUME NEW y \in S, y < x PROVE FALSE
    OBVIOUS
  <2>. QED BY <1>1 DEF OpToRel
<1>. QED BY <1>2 DEF Min

(* A new version gets a number that no version has.                        *)
LEMMA NextVersionIsFree ==
  NextVersion \in Nat /\ NextVersion \notin Existing
<1>1. Existing \cup {0} \in SUBSET (0 .. MaxBodies) /\ Existing \cup {0} # {}
  BY StoreAssumption DEF Existing, Versions
<1>2. Max(Existing \cup {0}) \in 0 .. MaxBodies
        /\ \A v \in Existing : Max(Existing \cup {0}) >= v
  BY <1>1, MaxExists, StoreAssumption
<1>3. Existing \subseteq Nat
  BY <1>1
<1>. QED BY <1>2, <1>3 DEF NextVersion

-----------------------------------------------------------------------------
(* Types, as far as the proofs need them: a version is any number          *)

Stored == [version : Nat, status : Statuses, default : BOOLEAN, body : Bodies,
           extras : SUBSET Extras]

Local == [pc : Pcs, op : Edits \cup {"none", "record", "patch"}, version : Nat,
          copy : Stored \cup {None}, other : Stored \cup {None},
          todo : SUBSET Versions, alone : BOOLEAN]

(* A thread that edits a version knows which; one that makes a version has *)
(* it in hand.                                                             *)
Sound(l) ==
  /\ l \in Local
  /\ l.pc \in {"load", "save", "list", "others", "saveOther"} =>
       l.op \in Edits /\ l.version \in Versions
  /\ l.pc \in {"lock", "number", "carry", "saveNew"} => l.copy \in Stored

Typed ==
  /\ store \in [Versions -> Stored \cup {None}]
  /\ lock \in [Processes -> Requests \cup {None}]
  /\ req \in [Requests -> Local]
  /\ \A r \in Requests : Sound(req[r])
  /\ bodies \in Nat /\ faults \in Nat
  /\ resurrected \in BOOLEAN

USE DEF At, Continue, Return, Fault, NoFault

LEMMA NoneIsNotStored == None \notin Stored
<1>1. Bodies \subseteq Nat
  BY StoreAssumption DEF Bodies
<1>2. ASSUME NEW a \in Stored
      PROVE  a \in [version : Nat, status : Statuses, default : BOOLEAN, body : Nat,
                   extras : SUBSET {"examples", "patterns"}]
  BY <1>1, <1>2 DEF Stored, Extras
<1>. QED BY <1>2, StoreAssumption

LEMMA ContinueSound ==
  ASSUME Typed, NEW r \in Requests, NEW l, Sound(l), Continue(r, l)
  PROVE  req' \in [Requests -> Local] /\ \A s \in Requests : Sound(req'[s])
BY DEF Typed, Sound

LEMMA EnterSound ==
  ASSUME Typed, NEW r \in Requests, NEW l, Sound(l), Enter(r, l)
  PROVE  req' \in [Requests -> Local] /\ \A s \in Requests : Sound(req'[s])
<1>1. \A s \in Requests : Sound([req[s] EXCEPT !.alone = FALSE])
  BY DEF Typed, Sound, Local
<1>2. Sound([l EXCEPT !.alone = (Busy = {})])
  BY DEF Sound, Local
<1>. QED BY <1>1, <1>2 DEF Enter, Sound

LEMMA IdleSound == Sound(Idle)
BY DEF Idle, Sound, Local, Pcs

LEMMA EditedStored ==
  ASSUME NEW op \in Edits, NEW a \in Stored
  PROVE  /\ Edited(op, a) \in Stored
         /\ Edited(op, a).body = a.body
         /\ Edited(op, a).version = a.version
         /\ Edited(op, a).status = "approved" => op = "approve" \/ a.status = "approved"
<1>1. CASE op # "approveWithExamples"
  BY <1>1 DEF Edited, Edits, Stored, Statuses
<1>2. CASE op = "approveWithExamples"
  <2>1. Edited(op, a) = [a EXCEPT !.extras = a.extras \cup {"examples"}]
    BY <1>2 DEF Edited
  <2>2. a.extras \cup {"examples"} \in SUBSET Extras
    BY DEF Stored, Extras
  <2>. QED BY <2>1, <2>2 DEF Stored
<1>. QED BY <1>1, <1>2

(* What the number of a new version changes, and what is carried into it.  *)
NumberAs(r, n, p) == [req[r] EXCEPT !.copy.version = n, !.pc = p]

LEMMA NumberGives ==
  ASSUME Typed, NEW r \in Requests, Number(r)
  PROVE  \E n \in Nat, p \in {"carry", "saveNew"} :
           /\ Continue(r, NumberAs(r, n, p))
           /\ n \in {1, NextVersion} /\ (faults' = faults => n = NextVersion)
<1>1. CASE NoFault
  <2>1. \E p \in {"carry", "saveNew"} : Continue(r, NumberAs(r, NextVersion, p))
    <3>1. faults # faults + 1
      BY DEF Typed
    <3>2. CASE req[r].op = "record" /\ NextVersion > 1
      BY <1>1, <3>1, <3>2 DEF Number, NumberAs
    <3>3. CASE ~(req[r].op = "record" /\ NextVersion > 1)
      BY <1>1, <3>1, <3>3 DEF Number, NumberAs
    <3>. QED BY <3>2, <3>3
  <2>. QED BY <1>1, <2>1, NextVersionIsFree
<1>2. CASE Fault /\ Continue(r, NumberAs(r, 1, "saveNew"))
  <2>1. faults' # faults
    BY <1>2 DEF Typed
  <2>. QED BY <1>2, <2>1
<1>. QED BY <1>1, <1>2 DEF Number, NumberAs

LEMMA CarryGives ==
  ASSUME Typed, NEW r \in Requests, Carry(r)
  PROVE  \E l \in Local :
           /\ Continue(r, l) /\ Sound(l)
           /\ l.pc = "saveNew" /\ l.op = req[r].op /\ l.version = req[r].version
           /\ l.other = req[r].other /\ l.alone = req[r].alone
           /\ l.copy \in Stored /\ req[r].copy \in Stored
           /\ l.copy.version = req[r].copy.version /\ l.copy.status = req[r].copy.status
           /\ l.copy.body = req[r].copy.body
<1> DEFINE l(e) == [req[r] EXCEPT !.pc = "saveNew", !.copy.extras = e]
           m    == [req[r] EXCEPT !.pc = "saveNew"]
<1>1. req[r] \in Local /\ req[r].copy \in Stored
  BY DEF Typed, Carry, Sound
<1>2. req[r].copy.extras \subseteq Extras
  BY <1>1 DEF Stored
<1>3. (\E e \in SUBSET Extras : Continue(r, l(e))) \/ Continue(r, m)
  BY <1>2 DEF Carry, Extras
<1>4. ASSUME NEW e \in SUBSET Extras, Continue(r, l(e))
      PROVE  \E k \in Local :
               /\ Continue(r, k) /\ k.pc = "saveNew" /\ k.op = req[r].op
               /\ k.version = req[r].version
               /\ k.other = req[r].other /\ k.alone = req[r].alone
               /\ k.copy = [req[r].copy EXCEPT !.extras = e]
  <2>1. [req[r].copy EXCEPT !.extras = e] \in Stored
    BY <1>1 DEF Stored
  <2>2. l(e) \in Local
    BY <1>1, <2>1 DEF Local, Pcs
  <2>. QED BY <1>1, <1>4, <2>2 DEF Local
<1>5. CASE \E e \in SUBSET Extras : Continue(r, l(e))
  <2>1. PICK e \in SUBSET Extras : Continue(r, l(e))
    BY <1>5
  <2>2. PICK k \in Local :
               /\ Continue(r, k) /\ k.pc = "saveNew" /\ k.op = req[r].op
               /\ k.version = req[r].version
               /\ k.other = req[r].other /\ k.alone = req[r].alone
               /\ k.copy = [req[r].copy EXCEPT !.extras = e]
    BY <1>4, <2>1
  <2>3. /\ k.copy \in Stored
        /\ k.copy.version = req[r].copy.version /\ k.copy.status = req[r].copy.status
        /\ k.copy.body = req[r].copy.body
    BY <1>1, <2>2 DEF Stored
  <2>4. Sound(k)
    BY <2>2, <2>3 DEF Sound
  <2>. QED BY <1>1, <2>2, <2>3, <2>4
<1>6. CASE Continue(r, m)
  <2>1. /\ m \in Local /\ m.pc = "saveNew" /\ m.op = req[r].op
        /\ m.version = req[r].version /\ m.other = req[r].other
        /\ m.alone = req[r].alone /\ m.copy = req[r].copy
    BY <1>1 DEF Local, Pcs
  <2>2. Sound(m)
    BY <1>1, <2>1 DEF Sound
  <2> HIDE DEF m
  <2>. QED BY <1>1, <1>6, <2>1, <2>2
<1>. QED BY <1>3, <1>5, <1>6

LEMMA UpsertTyped ==
  ASSUME Typed, NEW a \in Stored \cup {None}, Upsert(a)
  PROVE  /\ store' \in [Versions -> Stored \cup {None}]
         /\ resurrected' \in BOOLEAN /\ faults' \in Nat
<1>1. CASE store' = [store EXCEPT ![a.version] = a]
             /\ resurrected' = (resurrected \/ store[a.version] = None) /\ NoFault
  <2>1. store' \in [Versions -> Stored \cup {None}]
    BY <1>1 DEF Typed
  <2>2. resurrected' \in BOOLEAN
    BY <1>1
  <2>. QED BY <1>1, <2>1, <2>2 DEF Typed
<1>2. CASE Fault /\ UNCHANGED <<store, resurrected>>
  BY <1>2 DEF Typed
<1>. QED BY <1>1, <1>2 DEF Upsert

LEMMA ShippedStored == MaxBodies > 0 => Shipped \in Stored
BY StoreAssumption DEF Shipped, Stored, Statuses, Bodies, Extras

LEMMA TypedInit == Init => Typed
<1>. SUFFICES ASSUME Init PROVE Typed
  OBVIOUS
<1>1. store \in [Versions -> Stored \cup {None}] /\ bodies \in Nat
  BY ShippedStored DEF Init
<1>. QED BY <1>1, IdleSound DEF Init, Typed, Sound

LEMMA TypedStep == Typed /\ [Next]_vars => Typed'
<1>. SUFFICES ASSUME Typed, [Next]_vars PROVE Typed'
  OBVIOUS
<1>. USE DEF Typed
<1>1. CASE UNCHANGED vars
  BY <1>1 DEF vars
<1>2. CASE Delete
  <2>1. \A r \in Requests : Sound([req[r] EXCEPT !.alone = FALSE])
    BY DEF Sound, Local
  <2>. QED BY <1>2, <2>1 DEF Delete, Sound
<1>3. ASSUME NEW r \in Requests, BeginRecording(r) PROVE Typed'
  <2>1. PICK status \in {"draft", "approved"} :
          Enter(r, [Idle EXCEPT !.pc = "lock", !.op = "record",
                      !.copy = [version |-> 0, status |-> status, default |-> FALSE,
                                body |-> bodies + 1, extras |-> {}]])
    BY <1>3 DEF BeginRecording
  <2>2. bodies + 1 \in Bodies
    BY <1>3, StoreAssumption DEF BeginRecording, Bodies
  <2>3. Sound([Idle EXCEPT !.pc = "lock", !.op = "record",
                 !.copy = [version |-> 0, status |-> status, default |-> FALSE,
                           body |-> bodies + 1, extras |-> {}]])
    BY <2>2, IdleSound DEF Idle, Sound, Local, Stored, Statuses, Pcs
  <2>4. req' \in [Requests -> Local] /\ \A s \in Requests : Sound(req'[s])
    BY <2>1, <2>3, EnterSound
  <2>. QED BY <1>3, <2>4 DEF BeginRecording
<1>4. ASSUME NEW r \in Requests, NEW v \in Versions, BeginPatch(r, v) PROVE Typed'
  <2>1. bodies + 1 \in Bodies /\ store[v] \in Stored
    BY <1>4, StoreAssumption DEF BeginPatch, Bodies
  <2>2. Sound([Idle EXCEPT !.pc = "lock", !.op = "patch",
                 !.copy = [store[v] EXCEPT !.status = "draft", !.body = bodies + 1]])
    BY <2>1, IdleSound DEF Idle, Sound, Local, Stored, Statuses, Pcs
  <2>3. req' \in [Requests -> Local] /\ \A s \in Requests : Sound(req'[s])
    BY <1>4, <2>2, EnterSound DEF BeginPatch
  <2>. QED BY <1>4, <2>3 DEF BeginPatch
<1>5. ASSUME NEW r \in Requests, NEW v \in Versions, NEW op \in Edits, Begin(r, op, v)
      PROVE  Typed'
  <2>1. Sound([Idle EXCEPT !.pc = "load", !.op = op, !.version = v])
    <3>1. v \in Nat
      BY StoreAssumption DEF Versions
    <3>. QED BY <3>1, IdleSound DEF Idle, Sound, Local, Pcs
  <2>2. req' \in [Requests -> Local] /\ \A s \in Requests : Sound(req'[s])
    BY <1>5, <2>1, EnterSound DEF Begin
  <2>. QED BY <1>5, <2>2 DEF Begin
<1>6. ASSUME NEW r \in Requests, Serve(r) PROVE Typed'
  <2>1. Sound(req[r]) /\ req[r] \in Local
    OBVIOUS
  <2>2. CASE Load(r)
    <3>1. CASE Return(r)
      BY <3>1, <2>2, IdleSound, ContinueSound DEF Load
    <3>2. CASE ~Return(r)
      <4> DEFINE a == store[req[r].version]
      <4>1. a \in Stored /\ req[r].op \in Edits
        BY <2>1, <2>2, <3>2 DEF Load, Sound
      <4>2. Edited(req[r].op, a) \in Stored
        BY <4>1, EditedStored
      <4>3. Sound([req[r] EXCEPT !.copy = Edited(req[r].op, a),
                     !.pc = IF req[r].op = "setDefault" THEN "list" ELSE "save"])
        BY <2>1, <2>2, <4>2 DEF Load, Sound, Local, Pcs
      <4>. QED BY <2>2, <3>2, <4>3, ContinueSound DEF Load
    <3>. QED BY <3>1, <3>2
  <2>3. CASE Save(r)
    <3>1. Sound([req[r] EXCEPT !.op = "approve", !.pc = "load", !.copy = None])
      BY <2>1, <2>3 DEF Save, Sound, Local, Pcs, Edits
    <3>2. req' \in [Requests -> Local] /\ \A s \in Requests : Sound(req'[s])
      BY <2>3, <3>1, IdleSound, ContinueSound DEF Save
    <3>. QED BY <2>1, <2>3, <3>2, UpsertTyped DEF Save, Local
  <2>4. CASE ReadFails(r)
    <3>1. req' \in [Requests -> Local] /\ \A s \in Requests : Sound(req'[s])
      BY <2>4, IdleSound, ContinueSound DEF ReadFails
    <3>. QED BY <2>4, <3>1 DEF ReadFails
  <2>5. CASE ListOthers(r)
    <3>1. /\ Sound([req[r] EXCEPT !.pc = "others"])
          /\ Sound([req[r] EXCEPT !.pc = "others", !.todo = Existing \ {req[r].version}])
      BY <2>1, <2>5 DEF ListOthers, Sound, Local, Pcs, Existing
    <3>2. req' \in [Requests -> Local] /\ \A s \in Requests : Sound(req'[s])
      BY <2>5, <3>1, ContinueSound DEF ListOthers
    <3>. QED BY <2>5, <3>2 DEF ListOthers
  <2>6. CASE LoadOther(r)
    <3> DEFINE v == Min(req[r].todo)
    <3>1. v \in Versions
      BY <2>1, <2>6, MinExists DEF LoadOther, Local, Versions
    <3>2. CASE store[v] = None
      BY <2>6, <3>2, IdleSound, ContinueSound DEF LoadOther
    <3>3. CASE store[v] # None
      <4>1. store[v] \in Stored
        BY <3>1, <3>3
      <4>2. /\ req[r] \in Local /\ req[r].pc = "others"
            /\ req[r].op \in Edits /\ req[r].version \in Versions
        BY <2>1, <2>6 DEF LoadOther, Sound
      <4>3. [store[v] EXCEPT !.default = FALSE] \in Stored
        BY <4>1 DEF Stored
      <4>4. ASSUME NEW other \in Stored \cup {None}, NEW place \in {"others", "saveOther"}
            PROVE  Sound([req[r] EXCEPT !.todo = @ \ {v}, !.other = other, !.pc = place])
        <5>1. [req[r] EXCEPT !.todo = @ \ {v}, !.other = other, !.pc = place] \in Local
          BY <4>2 DEF Local, Pcs
        <5>. QED BY <4>2, <5>1 DEF Sound, Local
      <4>5. Sound([req[r] EXCEPT
              !.todo = @ \ {v},
              !.other = IF store[v].default THEN [store[v] EXCEPT !.default = FALSE] ELSE None,
              !.pc = IF store[v].default THEN "saveOther" ELSE "others"])
        BY <4>3, <4>4
      <4>. QED BY <2>6, <3>3, <4>5, ContinueSound DEF LoadOther
    <3>. QED BY <3>2, <3>3
  <2>7. CASE SaveOther(r)
    <3>1. Sound([req[r] EXCEPT !.pc = "others", !.other = None])
      BY <2>1, <2>7 DEF SaveOther, Sound, Local, Pcs
    <3>2. req' \in [Requests -> Local] /\ \A s \in Requests : Sound(req'[s])
      BY <2>7, <3>1, ContinueSound DEF SaveOther
    <3>. QED BY <2>1, <2>7, <3>2, UpsertTyped DEF SaveOther, Local
  <2>8. CASE OthersDone(r)
    <3>1. Sound([req[r] EXCEPT !.pc = "save"])
      BY <2>1, <2>8 DEF OthersDone, Sound, Local, Pcs
    <3>. QED BY <2>8, <3>1, ContinueSound DEF OthersDone
  <2>9. CASE Acquire(r)
    <3>1. Sound([req[r] EXCEPT !.pc = "number"])
      BY <2>1, <2>9 DEF Acquire, Sound, Local, Pcs
    <3>2. req' \in [Requests -> Local] /\ \A s \in Requests : Sound(req'[s])
      BY <2>9, <3>1, ContinueSound DEF Acquire
    <3>. QED BY <2>9, <3>2 DEF Acquire
  <2>10. CASE Number(r)
    <3>1. \A n \in Nat, p \in {"carry", "saveNew"} :
            Sound(NumberAs(r, n, p))
      BY <2>1, <2>10 DEF NumberAs, Number, Sound, Local, Pcs, Stored
    <3>2. req' \in [Requests -> Local] /\ \A s \in Requests : Sound(req'[s])
      <4>1. PICK n \in Nat, p \in {"carry", "saveNew"} : Continue(r, NumberAs(r, n, p))
        BY <2>10, NumberGives
      <4>. QED BY <3>1, <4>1, ContinueSound
    <3>. QED BY <2>10, <3>2 DEF Number
  <2>11. CASE SaveNew(r)
    <3>1. req' \in [Requests -> Local] /\ \A s \in Requests : Sound(req'[s])
      BY <2>11, IdleSound, ContinueSound DEF SaveNew
    <3>2. req[r].copy \in Stored
      BY <2>1, <2>11 DEF SaveNew, Sound
    <3>3. store' \in [Versions -> Stored \cup {None}] /\ faults' \in Nat
      BY <2>11, <3>2 DEF SaveNew
    <3>4. lock' \in [Processes -> Requests \cup {None}]
      BY <2>11 DEF SaveNew
    <3>. QED BY <2>11, <3>1, <3>3, <3>4 DEF SaveNew
  <2>12. CASE Carry(r)
    <3>1. req' \in [Requests -> Local] /\ \A s \in Requests : Sound(req'[s])
      BY <2>12, CarryGives, ContinueSound
    <3>. QED BY <2>12, <3>1 DEF Carry
  <2>. QED
    BY <1>6, <2>2, <2>3, <2>4, <2>5, <2>6, <2>7, <2>8, <2>9, <2>10, <2>11, <2>12 DEF Serve
<1>. QED BY <1>1, <1>2, <1>3, <1>4, <1>5, <1>6 DEF Next, Arrive

(* The store keeps its type.                                               *)
THEOREM StoreTyped == Spec => []Typed
BY TypedInit, TypedStep, PTL DEF Spec

-----------------------------------------------------------------------------
(* Nothing is live that nobody approved                                    *)

Vouched(a, approved) == a # None /\ a.status = "approved" => a.body \in approved

(* Every copy that could still be saved is as good as what is stored.      *)
Reviewed ==
  /\ \A v \in Versions : Vouched(store[v], approvedEver)
  /\ \A r \in Requests : Vouched(req[r].copy, approvedEver)
                         /\ Vouched(req[r].other, approvedEver)

(* A step of one thread needs to be looked at only in what that thread     *)
(* holds and in the version it saves.                                      *)
LEMMA ReviewedByThread ==
  ASSUME Typed, Typed', Reviewed, NEW r \in Requests, NEW l \in Local,
         Continue(r, l), approvedEver \subseteq approvedEver',
         Vouched(l.copy, approvedEver'), Vouched(l.other, approvedEver'),
         \A v \in Versions : store'[v] \in {store[v], req[r].copy, req[r].other}
  PROVE  Reviewed'
<1>1. \A s \in Requests : Vouched(req'[s].copy, approvedEver')
                         /\ Vouched(req'[s].other, approvedEver')
  BY DEF Reviewed, Vouched, Typed
<1>2. \A v \in Versions : Vouched(store'[v], approvedEver')
  BY DEF Reviewed, Vouched
<1>. QED BY <1>1, <1>2 DEF Reviewed

LEMMA ReviewedByEntry ==
  ASSUME Typed, Reviewed, NEW r \in Requests, NEW l \in Local, Enter(r, l),
         UNCHANGED store, approvedEver \subseteq approvedEver',
         Vouched(l.copy, approvedEver'), Vouched(l.other, approvedEver')
  PROVE  Reviewed'
<1>1. \A s \in Requests \ {r} :
        req'[s].copy = req[s].copy /\ req'[s].other = req[s].other
  BY DEF Enter, Typed, Local
<1>2. req'[r].copy = l.copy /\ req'[r].other = l.other
  BY DEF Enter, Local
<1>3. \A s \in Requests : Vouched(req'[s].copy, approvedEver')
                         /\ Vouched(req'[s].other, approvedEver')
  BY <1>1, <1>2 DEF Reviewed, Vouched
<1>4. \A v \in Versions : Vouched(store'[v], approvedEver')
  BY DEF Reviewed, Vouched
<1>. QED BY <1>3, <1>4 DEF Reviewed

LEMMA IdleHoldsNothing ==
  Idle \in Local /\ Idle.copy = None /\ Idle.other = None
BY IdleSound DEF Idle, Sound

LEMMA ReviewedInit == Init => Reviewed
<1>. SUFFICES ASSUME Init PROVE Reviewed
  OBVIOUS
<1>1. \A v \in Versions : Vouched(store[v], approvedEver)
  BY DEF Init, Vouched, Shipped
<1>. QED BY <1>1, IdleHoldsNothing DEF Init, Reviewed, Vouched, Idle

LEMMA ReviewedStep == Typed /\ Typed' /\ Reviewed /\ [Next]_vars => Reviewed'
<1>. SUFFICES ASSUME Typed, Typed', Reviewed, [Next]_vars PROVE Reviewed'
  OBVIOUS
<1>1. CASE UNCHANGED vars
  BY <1>1 DEF vars, Reviewed, Vouched
<1>2. CASE Delete
  <2>1. \A s \in Requests : req'[s].copy = req[s].copy /\ req'[s].other = req[s].other
    BY <1>2 DEF Delete, Typed, Local
  <2>. QED BY <1>2, <2>1 DEF Delete, Reviewed, Vouched
<1>3. ASSUME NEW r \in Requests, BeginRecording(r) PROVE Reviewed'
  <2>1. PICK status \in {"draft", "approved"} :
          /\ Enter(r, [Idle EXCEPT !.pc = "lock", !.op = "record",
                         !.copy = [version |-> 0, status |-> status, default |-> FALSE,
                                   body |-> bodies + 1, extras |-> {}]])
          /\ approvedEver' = IF status = "approved" THEN approvedEver \cup {bodies + 1}
                             ELSE approvedEver
    BY <1>3 DEF BeginRecording
  <2> DEFINE a == [version |-> 0, status |-> status, default |-> FALSE, body |-> bodies + 1, extras |-> {}]
             l == [Idle EXCEPT !.pc = "lock", !.op = "record", !.copy = a]
  <2>2. a \in Stored
    BY <1>3, StoreAssumption DEF BeginRecording, Typed, Stored, Statuses, Bodies
  <2>3. l \in Local /\ l.copy = a /\ l.other = None
    BY <2>2, IdleHoldsNothing DEF Local, Idle, Pcs
  <2>4. Vouched(a, approvedEver') /\ Vouched(None, approvedEver')
    BY <2>1 DEF Vouched
  <2>. QED BY <1>3, <2>1, <2>3, <2>4, ReviewedByEntry DEF BeginRecording
<1>4. ASSUME NEW r \in Requests, NEW v \in Versions, BeginPatch(r, v) PROVE Reviewed'
  <2> DEFINE a == [store[v] EXCEPT !.status = "draft", !.body = bodies + 1]
             l == [Idle EXCEPT !.pc = "lock", !.op = "patch", !.copy = a]
  <2>0. bodies + 1 \in Bodies /\ store[v] \in Stored
    BY <1>4, StoreAssumption DEF BeginPatch, Bodies, Typed
  <2>1. a \in Stored /\ a.status = "draft"
    BY <2>0 DEF Stored, Statuses
  <2>2. l \in Local /\ l.copy = a /\ l.other = None
    BY <2>1, IdleHoldsNothing DEF Local, Idle, Pcs
  <2>3. Vouched(a, approvedEver') /\ Vouched(None, approvedEver')
    BY <2>1 DEF Vouched
  <2>. QED BY <1>4, <2>2, <2>3, ReviewedByEntry DEF BeginPatch
<1>5. ASSUME NEW r \in Requests, NEW v \in Versions, NEW op \in Edits, Begin(r, op, v)
      PROVE  Reviewed'
  <2> DEFINE l == [Idle EXCEPT !.pc = "load", !.op = op, !.version = v]
  <2>1. v \in Nat
    BY StoreAssumption DEF Versions
  <2>2. l \in Local /\ l.copy = None /\ l.other = None
    BY <2>1, IdleHoldsNothing DEF Local, Idle, Pcs
  <2>3. Vouched(None, approvedEver')
    BY DEF Vouched
  <2>. QED BY <1>5, <2>2, <2>3, ReviewedByEntry DEF Begin
<1>6. ASSUME NEW r \in Requests, Serve(r) PROVE Reviewed'
  <2>1. /\ req[r] \in Local /\ Sound(req[r])
        /\ Vouched(req[r].copy, approvedEver) /\ Vouched(req[r].other, approvedEver)
    BY DEF Typed, Reviewed
  <2>2. \A approved : Vouched(None, approved)
    BY DEF Vouched
  <2>3. CASE Load(r)
    <3> DEFINE a == store[req[r].version]  op == req[r].op
               l == [req[r] EXCEPT !.copy = Edited(op, a),
                                   !.pc = IF op = "setDefault" THEN "list" ELSE "save"]
    <3>1. CASE a # None /\ Permitted(op, a)
      <4>1. op \in Edits /\ a \in Stored /\ Vouched(a, approvedEver)
        BY <2>1, <2>3, <3>1 DEF Load, Sound, Typed, Reviewed
      <4>2. Edited(op, a) \in Stored
        BY <4>1, EditedStored
      <4>3. l \in Local /\ l.copy = Edited(op, a) /\ l.other = req[r].other
        BY <2>1, <4>2 DEF Local, Pcs
      <4>4. approvedEver' = IF op = "approve" THEN approvedEver \cup {a.body}
                            ELSE approvedEver
        BY <2>3, <3>1 DEF Load
      <4>5. Vouched(Edited(op, a), approvedEver') /\ Vouched(req[r].other, approvedEver')
        BY <2>1, <3>1, <4>1, <4>4, EditedStored DEF Vouched
      <4>6. Continue(r, l) /\ UNCHANGED store
        BY <2>3, <3>1 DEF Load
      <4>7. approvedEver \subseteq approvedEver'
        BY <4>4
      <4> HIDE DEF l
      <4>. QED BY <4>3, <4>5, <4>6, <4>7, ReviewedByThread
    <3>2. CASE ~(a # None /\ Permitted(op, a))
      BY <2>2, <2>3, <3>2, IdleHoldsNothing, ReviewedByThread DEF Load
    <3>. QED BY <3>1, <3>2
  <2>4. CASE Save(r)
    <3> DEFINE l == [req[r] EXCEPT !.op = "approve", !.pc = "load", !.copy = None]
    <3>1. l \in Local /\ l.copy = None /\ l.other = req[r].other
      BY <2>1 DEF Local, Pcs, Edits
    <3>2. \A v \in Versions : store'[v] \in {store[v], req[r].copy, req[r].other}
      BY <2>4 DEF Save, Upsert, Typed
    <3>3. approvedEver' = approvedEver
      BY <2>4 DEF Save
    <3>4. Continue(r, l) \/ Return(r)
      BY <2>4 DEF Save
    <3> HIDE DEF l
    <3>5. CASE Continue(r, l)
      BY <2>1, <2>2, <3>1, <3>2, <3>3, <3>5, ReviewedByThread
    <3>6. CASE Return(r)
      BY <2>2, <3>2, <3>3, <3>6, IdleHoldsNothing, ReviewedByThread
    <3>. QED BY <3>4, <3>5, <3>6
  <2>5. CASE ReadFails(r)
    BY <2>2, <2>5, IdleHoldsNothing, ReviewedByThread DEF ReadFails
  <2>6. CASE LoadOther(r)
    <3> DEFINE v == Min(req[r].todo)
               o == IF store[v].default THEN [store[v] EXCEPT !.default = FALSE] ELSE None
               l == [req[r] EXCEPT !.todo = @ \ {v}, !.other = o,
                       !.pc = IF store[v].default THEN "saveOther" ELSE "others"]
    <3>1. CASE store[v] = None
      BY <2>2, <2>6, <3>1, IdleHoldsNothing, ReviewedByThread DEF LoadOther
    <3>2. CASE store[v] # None
      <4>1. v \in Versions
        BY <2>1, <2>6, MinExists DEF LoadOther, Local, Versions
      <4>2. store[v] \in Stored /\ Vouched(store[v], approvedEver)
        BY <3>2, <4>1 DEF Typed, Reviewed
      <4>3. o \in Stored \cup {None} /\ Vouched(o, approvedEver)
        BY <4>2, <3>2 DEF Vouched, Stored
      <4>4. l \in Local /\ l.copy = req[r].copy /\ l.other = o
        BY <2>1, <4>3 DEF Local, Pcs
      <4>. QED BY <2>1, <2>6, <3>2, <4>3, <4>4, ReviewedByThread DEF LoadOther
    <3>. QED BY <3>1, <3>2
  <2>7. CASE SaveOther(r)
    <3> DEFINE l == [req[r] EXCEPT !.pc = "others", !.other = None]
    <3>1. l \in Local /\ l.copy = req[r].copy /\ l.other = None
      BY <2>1 DEF Local, Pcs
    <3>2. \A v \in Versions : store'[v] \in {store[v], req[r].copy, req[r].other}
      BY <2>7 DEF SaveOther, Upsert, Typed
    <3>. QED BY <2>1, <2>2, <2>7, <3>1, <3>2, ReviewedByThread DEF SaveOther
  <2>8. CASE SaveNew(r)
    <3>1. \A v \in Versions : store'[v] \in {store[v], req[r].copy, req[r].other}
      BY <2>8 DEF SaveNew, Typed
    <3>. QED BY <2>2, <2>8, <3>1, IdleHoldsNothing, ReviewedByThread DEF SaveNew
  <2>9. CASE Number(r)
    <3>1. PICK n \in Nat, p \in {"carry", "saveNew"} :
            Continue(r, NumberAs(r, n, p))
      BY <2>9, NumberGives
    <3> DEFINE l == NumberAs(r, n, p)
    <3>2. req[r].copy \in Stored /\ req[r].copy # None
      BY <2>1, <2>9, NoneIsNotStored DEF Number, Sound
    <3>3. l \in Local /\ l.copy = [req[r].copy EXCEPT !.version = n] /\ l.other = req[r].other
      BY <2>1, <3>2 DEF NumberAs, Local, Pcs, Stored
    <3>4. l.copy.status = req[r].copy.status /\ l.copy.body = req[r].copy.body
      BY <3>2, <3>3 DEF Stored
    <3>5. UNCHANGED <<store, approvedEver>>
      BY <2>9 DEF Number
    <3> HIDE DEF l
    <3>6. Vouched(l.copy, approvedEver)
      BY <2>1, <3>2, <3>4 DEF Vouched
    <3>. QED BY <2>1, <3>1, <3>3, <3>5, <3>6, ReviewedByThread DEF l
  <2>10. ASSUME NEW l \in Local, Continue(r, l), UNCHANGED <<store, approvedEver>>,
                l.copy = req[r].copy, l.other = req[r].other
         PROVE  Reviewed'
    BY <2>1, <2>10, ReviewedByThread
  <2>11. CASE ListOthers(r)
    <3> DEFINE l(todo) == [req[r] EXCEPT !.pc = "others", !.todo = todo]
               m == [req[r] EXCEPT !.pc = "others"]
    <3>1. Existing \ {req[r].version} \in SUBSET Versions
      BY DEF Existing
    <3>2. \A t \in SUBSET Versions :
            l(t) \in Local /\ l(t).copy = req[r].copy /\ l(t).other = req[r].other
      BY <2>1 DEF Local, Pcs
    <3>3. m \in Local /\ m.copy = req[r].copy /\ m.other = req[r].other
      BY <2>1 DEF Local, Pcs
    <3>4. Continue(r, l(Existing \ {req[r].version})) \/ Continue(r, m)
      BY <2>11 DEF ListOthers
    <3>5. UNCHANGED <<store, approvedEver>>
      BY <2>11 DEF ListOthers
    <3> HIDE DEF l, m
    <3>. QED BY <2>10, <3>1, <3>2, <3>3, <3>4, <3>5
  <2>12. CASE OthersDone(r) \/ Acquire(r)
    <3> DEFINE l(p) == [req[r] EXCEPT !.pc = p]
    <3>1. \A p \in Pcs : l(p) \in Local /\ l(p).copy = req[r].copy /\ l(p).other = req[r].other
      BY <2>1 DEF Local
    <3>2. \E p \in Pcs : Continue(r, l(p))
      BY <2>12 DEF OthersDone, Acquire, Pcs
    <3>3. UNCHANGED <<store, approvedEver>>
      BY <2>12 DEF OthersDone, Acquire
    <3> HIDE DEF l
    <3>. QED BY <2>10, <3>1, <3>2, <3>3
  <2>13. CASE Carry(r)
    <3>1. PICK l \in Local :
            /\ Continue(r, l) /\ l.other = req[r].other
            /\ l.copy \in Stored /\ req[r].copy \in Stored
            /\ l.copy.status = req[r].copy.status /\ l.copy.body = req[r].copy.body
      BY <2>13, CarryGives
    <3>2. UNCHANGED <<store, approvedEver>>
      BY <2>13 DEF Carry
    <3>3. Vouched(l.copy, approvedEver)
      BY <2>1, <3>1, NoneIsNotStored DEF Vouched
    <3>. QED BY <2>1, <3>1, <3>2, <3>3, ReviewedByThread
  <2>. QED BY <1>6, <2>3, <2>4, <2>5, <2>6, <2>7, <2>8, <2>9, <2>11, <2>12, <2>13 DEF Serve
<1>. QED BY <1>1, <1>2, <1>3, <1>4, <1>5, <1>6 DEF Next, Arrive

(* For every number of requests, versions and failing queries: the steps   *)
(* recorded in a version that is live are steps that somebody approved.    *)
THEOREM LiveIsReviewed == Spec => []LiveStepsReviewed
<1>1. Reviewed => LiveStepsReviewed
  BY DEF Reviewed, Vouched, LiveStepsReviewed, Existing
<1>. QED BY <1>1, TypedInit, TypedStep, ReviewedInit, ReviewedStep, PTL DEF Spec

-----------------------------------------------------------------------------
(* Version numbers stay within what has been made                          *)

(* New versions that have no number yet, and how many others there are.    *)
Unnumbered == {"lock", "number"}
Pending    == {r \in Requests : req[r].pc \in Unnumbered}
Headroom   == bodies - Cardinality(Pending)

(* A thread knows what it is about to save, and by what number.            *)
Numbered(l, h) ==
  /\ l.version \in 0 .. MaxBodies
  /\ l.copy # None => l.copy.version \in 0 .. MaxBodies
  /\ l.copy # None /\ l.pc \notin Unnumbered => l.copy.version \in 1 .. h
  /\ l.other # None => l.other.version \in 1 .. h
  /\ l.pc \in {"list", "others", "saveOther", "save", "carry", "saveNew"} => l.copy # None
  /\ l.pc = "saveOther" => l.other # None

Shelved(shelf, h) ==
  \A v \in Versions : shelf[v] # None => shelf[v].version = v /\ v <= h

(* No number is larger than the number of versions that have been given    *)
(* one, however often numbers were given twice or versions deleted.        *)
Within ==
  /\ bodies <= MaxBodies /\ faults <= MaxFaults /\ approvedEver \subseteq Bodies
  /\ IsFiniteSet(Pending) /\ Headroom >= 0
  /\ Shelved(store, Headroom)
  /\ \A r \in Requests : Numbered(req[r], Headroom)

LEMMA HeadroomTyped ==
  ASSUME Typed, Within
  PROVE  Headroom \in 0 .. MaxBodies /\ Cardinality(Pending) \in Nat
BY FS_CardinalityType, StoreAssumption DEF Typed, Within, Headroom

(* More headroom is no harm.                                               *)
LEMMA NumberedWidens ==
  ASSUME NEW l, NEW g \in Nat, NEW h \in Nat, g <= h, Numbered(l, g)
  PROVE  Numbered(l, h)
<1>1. 1 .. g \subseteq 1 .. h
  OBVIOUS
<1>. QED BY <1>1 DEF Numbered

LEMMA ShelvedWidens ==
  ASSUME NEW shelf, NEW g \in Nat, NEW h \in Nat, g <= h, Shelved(shelf, g)
  PROVE  Shelved(shelf, h)
BY StoreAssumption DEF Shelved, Versions

LEMMA IdleNumbered ==
  ASSUME NEW h PROVE Numbered(Idle, h)
BY StoreAssumption DEF Numbered, Idle, Unnumbered

(* A save under a number within the headroom.                              *)
LEMMA PutShelved ==
  ASSUME Typed, Within, NEW a \in Stored, a.version \in 1 .. Headroom
  PROVE  Shelved([store EXCEPT ![a.version] = a], Headroom)
BY HeadroomTyped DEF Typed, Within, Shelved

LEMMA UpsertShelved ==
  ASSUME Typed, Within, NEW a \in Stored, a.version \in 1 .. Headroom, Upsert(a)
  PROVE  Shelved(store', Headroom) /\ faults' <= MaxFaults
<1>1. CASE store' = [store EXCEPT ![a.version] = a] /\ NoFault
  BY <1>1, PutShelved DEF Within
<1>2. CASE Fault /\ UNCHANGED <<store, resurrected>>
  BY <1>2, StoreAssumption DEF Within, Typed
<1>. QED BY <1>1, <1>2 DEF Upsert

(* A step of one thread that numbers nothing.                              *)
LEMMA WithinByThread ==
  ASSUME Typed, Within, NEW r \in Requests, NEW l \in Local, Continue(r, l),
         UNCHANGED bodies, l.pc \in Unnumbered <=> req[r].pc \in Unnumbered,
         Numbered(l, Headroom), Shelved(store', Headroom),
         faults' <= MaxFaults, approvedEver' \subseteq Bodies
  PROVE  Within'
<1>1. req'[r] = l /\ \A s \in Requests \ {r} : req'[s] = req[s]
  BY DEF Typed
<1>2. Pending' = Pending
  BY <1>1 DEF Pending
<1>3. Headroom' = Headroom
  BY <1>2 DEF Headroom
<1>4. \A s \in Requests : Numbered(req'[s], Headroom)
  BY <1>1 DEF Within
<1>. QED BY <1>2, <1>3, <1>4 DEF Within

(* A thread that begins an edit, and one that begins to make a version.    *)
LEMMA WithinByEntry ==
  ASSUME Typed, Within, NEW r \in Requests, At(r, "idle"), NEW l \in Local, Enter(r, l),
         \/ l.pc \notin Unnumbered /\ UNCHANGED bodies
         \/ l.pc \in Unnumbered /\ bodies < MaxBodies /\ bodies' = bodies + 1,
         Numbered(l, Headroom), UNCHANGED <<store, faults>>,
         approvedEver' \subseteq Bodies
  PROVE  Within'
<1>1. \A s \in Requests \ {r} : req'[s] = [req[s] EXCEPT !.alone = FALSE]
  BY DEF Enter
<1>2. req'[r] = [l EXCEPT !.alone = (Busy = {})]
  BY DEF Enter
<1>3. \A s \in Requests \ {r} : req'[s].pc = req[s].pc
  BY <1>1 DEF Typed, Local
<1>4. req'[r].pc = l.pc
  BY <1>2 DEF Local
<1>5. r \notin Pending
  BY DEF Pending, Unnumbered
<1>6. Pending' = IF l.pc \in Unnumbered THEN Pending \cup {r} ELSE Pending
  BY <1>3, <1>4, <1>5 DEF Pending
<1>7. IsFiniteSet(Pending') /\ Headroom' = Headroom
  <2>1. IsFiniteSet(Pending) /\ Cardinality(Pending) \in Nat /\ bodies \in Nat
    BY HeadroomTyped DEF Within, Typed
  <2>2. CASE l.pc \in Unnumbered
    <3>1. IsFiniteSet(Pending') /\ Cardinality(Pending') = Cardinality(Pending) + 1
      BY <1>5, <1>6, <2>1, <2>2, FS_AddElement
    <3>. QED BY <2>1, <2>2, <3>1 DEF Headroom
  <2>3. CASE l.pc \notin Unnumbered
    BY <1>6, <2>1, <2>3 DEF Headroom
  <2>. QED BY <2>2, <2>3
<1>8. \A s \in Requests : Numbered(req'[s], Headroom)
  <2>1. ASSUME NEW k \in Local, NEW b, Numbered(k, Headroom)
        PROVE  Numbered([k EXCEPT !.alone = b], Headroom)
    BY <2>1 DEF Numbered, Local
  <2>2. \A s \in Requests : req[s] \in Local /\ Numbered(req[s], Headroom)
    BY DEF Typed, Within
  <2>3. Numbered(req'[r], Headroom)
    BY <1>2, <2>1
  <2>4. ASSUME NEW s \in Requests \ {r} PROVE Numbered(req'[s], Headroom)
    <3>1. req[s] \in Local /\ Numbered(req[s], Headroom)
      BY <2>2
    <3>2. Numbered([req[s] EXCEPT !.alone = FALSE], Headroom)
      BY <2>1, <3>1
    <3>3. req'[s] = [req[s] EXCEPT !.alone = FALSE]
      BY <1>1
    <3>. QED BY <3>2, <3>3
  <2>. QED BY <2>3, <2>4
<1>9. bodies' <= MaxBodies /\ faults' <= MaxFaults /\ Shelved(store', Headroom)
  BY StoreAssumption DEF Within, Typed
<1>. QED BY <1>7, <1>8, <1>9 DEF Within

LEMMA WithinInit == Init => Within
<1>. SUFFICES ASSUME Init PROVE Within
  OBVIOUS
<1>1. Pending = {}
  BY DEF Init, Pending, Idle, Unnumbered
<1>2. IsFiniteSet(Pending) /\ Headroom = bodies
  BY <1>1, FS_EmptySet, StoreAssumption DEF Init, Headroom
<1>3. Shelved(store, bodies) /\ bodies \in 0 .. MaxBodies /\ approvedEver \subseteq Bodies
  BY StoreAssumption DEF Init, Shelved, Shipped, Versions, Bodies
<1>. QED BY <1>2, <1>3, IdleNumbered, StoreAssumption DEF Init, Within

LEMMA WithinStep == Typed /\ Typed' /\ Within /\ [Next]_vars => Within'
<1>. SUFFICES ASSUME Typed, Typed', Within, [Next]_vars PROVE Within'
  OBVIOUS
<1>1. CASE UNCHANGED vars
  BY <1>1 DEF vars, Within, Headroom, Pending
<1>2. CASE Delete
  <2>1. \A r \in Requests : req'[r] \in {req[r], [req[r] EXCEPT !.alone = FALSE]}
    BY <1>2 DEF Delete
  <2>2. \A r \in Requests : req'[r].pc = req[r].pc /\ Numbered(req'[r], Headroom)
    BY <2>1 DEF Typed, Local, Within, Numbered
  <2>3. Pending' = Pending
    BY <2>2 DEF Pending
  <2>4. Headroom' = Headroom
    BY <1>2, <2>3 DEF Delete, Headroom
  <2>. QED BY <1>2, <2>2, <2>3, <2>4 DEF Delete, Within, Shelved
<1>3. ASSUME NEW r \in Requests, BeginRecording(r) PROVE Within'
  <2>1. PICK status \in {"draft", "approved"} :
          /\ Enter(r, [Idle EXCEPT !.pc = "lock", !.op = "record",
                         !.copy = [version |-> 0, status |-> status, default |-> FALSE,
                                   body |-> bodies + 1, extras |-> {}]])
          /\ approvedEver' = IF status = "approved" THEN approvedEver \cup {bodies + 1}
                             ELSE approvedEver
    BY <1>3 DEF BeginRecording
  <2> DEFINE a == [version |-> 0, status |-> status, default |-> FALSE, body |-> bodies + 1, extras |-> {}]
             l == [Idle EXCEPT !.pc = "lock", !.op = "record", !.copy = a]
  <2>2. a \in Stored /\ bodies + 1 \in Bodies
    BY <1>3, StoreAssumption DEF BeginRecording, Typed, Stored, Statuses, Bodies
  <2>3. l \in Local /\ l.pc = "lock"
    BY <2>2, IdleHoldsNothing DEF Local, Idle, Pcs
  <2>4. Numbered(l, Headroom)
    BY StoreAssumption DEF Numbered, Idle, Unnumbered
  <2>5. approvedEver' \subseteq Bodies
    BY <2>1, <2>2 DEF Within
  <2> HIDE DEF l
  <2>. QED
    BY <1>3, <2>1, <2>3, <2>4, <2>5, WithinByEntry DEF BeginRecording, l, Unnumbered
<1>4. ASSUME NEW r \in Requests, NEW v \in Versions, BeginPatch(r, v) PROVE Within'
  <2> DEFINE a == [store[v] EXCEPT !.status = "draft", !.body = bodies + 1]
             l == [Idle EXCEPT !.pc = "lock", !.op = "patch", !.copy = a]
  <2>1. bodies + 1 \in Bodies /\ store[v] \in Stored
    BY <1>4, StoreAssumption DEF BeginPatch, Bodies, Typed
  <2>2. a \in Stored /\ a.version = v
    BY <1>4, <2>1 DEF BeginPatch, Stored, Statuses, Within, Shelved
  <2>3. l \in Local /\ l.pc = "lock"
    BY <2>2, IdleHoldsNothing DEF Local, Idle, Pcs
  <2>4. Numbered(l, Headroom)
    <3>1. l.version = 0 /\ l.copy = a /\ l.other = None /\ l.pc = "lock"
      BY DEF Idle
    <3>2. a.version \in 0 .. MaxBodies
      BY <2>2, StoreAssumption DEF Versions
    <3> HIDE DEF l, a
    <3>. QED BY <3>1, <3>2, StoreAssumption DEF Numbered, Unnumbered
  <2> HIDE DEF l
  <2>. QED
    BY <1>4, <2>3, <2>4, WithinByEntry DEF BeginPatch, l, Unnumbered, Within
<1>5. ASSUME NEW r \in Requests, NEW v \in Versions, NEW op \in Edits, Begin(r, op, v)
      PROVE  Within'
  <2> DEFINE l == [Idle EXCEPT !.pc = "load", !.op = op, !.version = v]
  <2>1. v \in Nat /\ v <= MaxBodies
    BY StoreAssumption DEF Versions
  <2>2. l \in Local /\ l.pc = "load"
    BY <2>1, IdleHoldsNothing DEF Local, Idle, Pcs
  <2>3. Numbered(l, Headroom)
    BY <2>1, StoreAssumption DEF Numbered, Idle, Unnumbered
  <2> HIDE DEF l
  <2>. QED BY <1>5, <2>2, <2>3, WithinByEntry DEF Begin, l, Unnumbered, Within
<1>6. ASSUME NEW r \in Requests, Serve(r) PROVE Within'
  <2>1. /\ req[r] \in Local /\ Sound(req[r]) /\ Numbered(req[r], Headroom)
        /\ Shelved(store, Headroom) /\ approvedEver \subseteq Bodies
        /\ bodies \in Nat /\ bodies <= MaxBodies /\ Headroom \in 0 .. MaxBodies
    BY HeadroomTyped DEF Typed, Within
  <2>2. NoFault \/ Fault => faults' <= MaxFaults
    BY StoreAssumption DEF Typed, Within
  <2>3. Idle \in Local /\ Idle.pc = "idle" /\ Numbered(Idle, Headroom)
    BY IdleHoldsNothing, IdleNumbered DEF Idle
  <2>4. CASE Load(r)
    <3> DEFINE a == store[req[r].version]  op == req[r].op
               l == [req[r] EXCEPT !.copy = Edited(op, a),
                                   !.pc = IF op = "setDefault" THEN "list" ELSE "save"]
    <3>1. CASE a # None /\ Permitted(op, a)
      <4>1. op \in Edits /\ a \in Stored /\ req[r].version \in Versions
        BY <2>1, <2>4, <3>1 DEF Load, Sound, Typed
      <4>2. a.version \in 1 .. Headroom
        BY <2>1, <3>1, <4>1 DEF Shelved, Versions
      <4>3. Edited(op, a) \in Stored /\ Edited(op, a).version = a.version
        BY <4>1, EditedStored
      <4>4. l \in Local /\ l.pc \notin Unnumbered
        BY <2>1, <4>3 DEF Local, Pcs, Unnumbered
      <4>5. Numbered(l, Headroom)
        <5>1. l.version = req[r].version /\ l.copy = Edited(op, a) /\ l.other = req[r].other
                /\ l.pc \in {"list", "save"}
          BY <2>1 DEF Local
        <5>2. l.copy.version \in 1 .. Headroom /\ l.copy.version \in 0 .. MaxBodies
          BY <2>1, <4>2, <4>3, <5>1, StoreAssumption
        <5>. QED
          BY <2>1, <4>3, <5>1, <5>2, NoneIsNotStored DEF Numbered, Unnumbered
      <4>6. approvedEver' \subseteq Bodies
        BY <2>1, <2>4, <3>1, <4>1 DEF Load, Stored
      <4>7. Continue(r, l) /\ UNCHANGED <<store, bodies, faults>>
        BY <2>4, <3>1 DEF Load
      <4> HIDE DEF l
      <4>. QED
        BY <2>1, <2>2, <2>4, <4>4, <4>5, <4>6, <4>7, WithinByThread DEF Load, Unnumbered
    <3>2. CASE ~(a # None /\ Permitted(op, a))
      BY <2>1, <2>2, <2>3, <2>4, <3>2, WithinByThread DEF Load, Unnumbered
    <3>. QED BY <3>1, <3>2
  <2>5. CASE Save(r)
    <3> DEFINE l == [req[r] EXCEPT !.op = "approve", !.pc = "load", !.copy = None]
    <3>1. l \in Local /\ l.pc = "load"
      BY <2>1 DEF Local, Pcs, Edits
    <3>2. Numbered(l, Headroom)
      BY <2>1 DEF Local, Numbered, Unnumbered
    <3>3. req[r].copy \in Stored /\ req[r].copy.version \in 1 .. Headroom
      BY <2>1, <2>5 DEF Save, Local, Numbered, Unnumbered
    <3>4. Shelved(store', Headroom) /\ faults' <= MaxFaults
      BY <2>5, <3>3, UpsertShelved DEF Save
    <3>5. UNCHANGED <<bodies, approvedEver>> /\ (Continue(r, l) \/ Return(r))
      BY <2>5 DEF Save
    <3> HIDE DEF l
    <3>6. CASE Continue(r, l)
      BY <2>1, <2>5, <3>1, <3>2, <3>4, <3>5, <3>6, WithinByThread DEF Save, Unnumbered
    <3>7. CASE Return(r)
      BY <2>1, <2>3, <2>5, <3>4, <3>5, <3>7, WithinByThread DEF Save, Unnumbered
    <3>. QED BY <3>5, <3>6, <3>7
  <2>6. CASE ReadFails(r)
    BY <2>1, <2>2, <2>3, <2>6, WithinByThread DEF ReadFails, Unnumbered
  <2>7. ASSUME NEW l \in Local, Continue(r, l), UNCHANGED <<store, bodies, approvedEver>>,
               NoFault \/ Fault, l.pc \in Unnumbered <=> req[r].pc \in Unnumbered,
               Numbered(l, Headroom)
        PROVE  Within'
    BY <2>1, <2>2, <2>7, WithinByThread
  <2>8. CASE ListOthers(r)
    <3> DEFINE l(todo) == [req[r] EXCEPT !.pc = "others", !.todo = todo]
               m == [req[r] EXCEPT !.pc = "others"]
    <3>1. Existing \ {req[r].version} \in SUBSET Versions
      BY DEF Existing
    <3>2. \A t \in SUBSET Versions :
            l(t) \in Local /\ l(t).pc = "others" /\ Numbered(l(t), Headroom)
      BY <2>1, <2>8 DEF Local, Pcs, Numbered, Unnumbered, ListOthers
    <3>3. m \in Local /\ m.pc = "others" /\ Numbered(m, Headroom)
      BY <2>1, <2>8 DEF Local, Pcs, Numbered, Unnumbered, ListOthers
    <3>4. Continue(r, l(Existing \ {req[r].version})) \/ Continue(r, m)
      BY <2>8 DEF ListOthers
    <3>5. /\ UNCHANGED <<store, bodies, approvedEver>> /\ (NoFault \/ Fault)
          /\ req[r].pc \notin Unnumbered
      BY <2>8 DEF ListOthers, Unnumbered
    <3> HIDE DEF l, m
    <3>. QED BY <2>7, <3>1, <3>2, <3>3, <3>4, <3>5 DEF Unnumbered
  <2>9. CASE LoadOther(r)
    <3> DEFINE v == Min(req[r].todo)
               o == IF store[v].default THEN [store[v] EXCEPT !.default = FALSE] ELSE None
               l == [req[r] EXCEPT !.todo = @ \ {v}, !.other = o,
                       !.pc = IF store[v].default THEN "saveOther" ELSE "others"]
    <3>1. CASE store[v] = None
      BY <2>3, <2>7, <2>9, <3>1 DEF LoadOther, Unnumbered
    <3>2. CASE store[v] # None
      <4>1. v \in Versions
        BY <2>1, <2>9, MinExists DEF LoadOther, Local, Versions
      <4>2. store[v] \in Stored /\ store[v].version = v /\ v \in 1 .. Headroom
        BY <2>1, <3>2, <4>1 DEF Typed, Shelved, Versions
      <4>3. o # None => o \in Stored /\ o.version \in 1 .. Headroom
        BY <4>2 DEF Stored
      <4>4. store[v].default => o # None
        <5>1. ASSUME store[v].default PROVE o \in Stored
          BY <4>2, <5>1 DEF Stored
        <5>. QED BY <5>1, NoneIsNotStored
      <4>5. req[r].copy # None
        BY <2>1, <2>9 DEF LoadOther, Numbered
      <4>6. /\ l.version = req[r].version /\ l.copy = req[r].copy /\ l.other = o
            /\ l.pc \in {"others", "saveOther"} /\ (l.pc = "saveOther" => store[v].default)
        BY <2>1 DEF Local
      <4>7. l \in Local
        BY <2>1, <4>3 DEF Local, Pcs
      <4>8. Numbered(l, Headroom)
        <5> HIDE DEF l, o
        <5>. QED BY <2>1, <2>9, <4>3, <4>4, <4>5, <4>6 DEF Numbered, Unnumbered, LoadOther
      <4>9. /\ Continue(r, l) /\ UNCHANGED <<store, bodies, approvedEver>> /\ NoFault
            /\ req[r].pc \notin Unnumbered
        BY <2>9, <3>2 DEF LoadOther, Unnumbered
      <4> HIDE DEF l
      <4>. QED BY <2>7, <4>6, <4>7, <4>8, <4>9 DEF Unnumbered
    <3>. QED BY <3>1, <3>2
  <2>10. CASE SaveOther(r)
    <3> DEFINE l == [req[r] EXCEPT !.pc = "others", !.other = None]
    <3>1. l \in Local /\ l.pc = "others"
      BY <2>1 DEF Local, Pcs
    <3>2. Numbered(l, Headroom)
      BY <2>1, <2>10 DEF Local, Numbered, Unnumbered, SaveOther
    <3>3. req[r].other \in Stored /\ req[r].other.version \in 1 .. Headroom
      BY <2>1, <2>10 DEF SaveOther, Local, Numbered
    <3>4. Shelved(store', Headroom) /\ faults' <= MaxFaults
      BY <2>10, <3>3, UpsertShelved DEF SaveOther
    <3>5. UNCHANGED <<bodies, approvedEver>> /\ Continue(r, l)
      BY <2>10 DEF SaveOther
    <3> HIDE DEF l
    <3>. QED
      BY <2>1, <2>10, <3>1, <3>2, <3>4, <3>5, WithinByThread DEF SaveOther, Unnumbered
  <2>11. CASE OthersDone(r)
    <3> DEFINE l == [req[r] EXCEPT !.pc = "save"]
    <3>1. l \in Local /\ l.pc = "save" /\ Numbered(l, Headroom)
      BY <2>1, <2>11 DEF Local, Pcs, Numbered, Unnumbered, OthersDone
    <3>2. /\ Continue(r, l) /\ UNCHANGED <<store, bodies, approvedEver>> /\ NoFault
          /\ req[r].pc \notin Unnumbered
      BY <2>11 DEF OthersDone, Unnumbered
    <3> HIDE DEF l
    <3>. QED BY <2>7, <3>1, <3>2 DEF Unnumbered
  <2>12. CASE Acquire(r)
    <3> DEFINE l == [req[r] EXCEPT !.pc = "number"]
    <3>1. l \in Local /\ l.pc = "number" /\ Numbered(l, Headroom)
      BY <2>1, <2>12 DEF Local, Pcs, Numbered, Unnumbered, Acquire
    <3>2. /\ Continue(r, l) /\ UNCHANGED <<store, bodies, approvedEver>> /\ NoFault
          /\ req[r].pc \in Unnumbered
      BY <2>12 DEF Acquire, Unnumbered
    <3> HIDE DEF l
    <3>. QED BY <2>7, <3>1, <3>2 DEF Unnumbered
  <2>13. CASE Number(r)
    <3>1. PICK n \in Nat, p \in {"carry", "saveNew"} :
            Continue(r, NumberAs(r, n, p)) /\ n \in {1, NextVersion}
      BY <2>13, NumberGives
    <3> DEFINE l == NumberAs(r, n, p)
    <3>2. n \in 1 .. Headroom + 1
      <4>1. Existing \cup {0} \in SUBSET (0 .. Headroom)
        BY <2>1 DEF Existing, Shelved, Versions
      <4>2. Max(Existing \cup {0}) \in 0 .. Headroom
        <5>1. Headroom \in Nat /\ Existing \cup {0} # {}
          BY <2>1, StoreAssumption
        <5>2. Max(Existing \cup {0}) \in Existing \cup {0}
          BY <4>1, <5>1, MaxExists
        <5>. QED BY <4>1, <5>2
      <4>. QED BY <2>1, <3>1, <4>2 DEF NextVersion
    <3>3. req[r].copy \in Stored
      BY <2>1, <2>13 DEF Number, Sound
    <3>4. l.copy = [req[r].copy EXCEPT !.version = n] /\ l.pc \in {"carry", "saveNew"}
            /\ l.version = req[r].version /\ l.other = req[r].other
      BY <2>1 DEF NumberAs, Local
    <3>5. l.copy \in Stored /\ l.copy.version = n
      BY <2>1, <3>2, <3>3, <3>4 DEF Stored
    <3>6. r \in Pending /\ req' = [req EXCEPT ![r] = l]
      BY <2>13, <3>1 DEF Number, Pending, Unnumbered
    <3> HIDE DEF l
    <3>7. req'[r] = l /\ \A s \in Requests \ {r} : req'[s] = req[s]
      BY <3>6 DEF Typed
    <3>8. Pending' = Pending \ {r}
      BY <3>4, <3>7 DEF Pending, Unnumbered
    <3>9. UNCHANGED <<store, bodies, approvedEver>> /\ (NoFault \/ Fault)
      BY <2>13 DEF Number
    <3>10. IsFiniteSet(Pending')
             /\ Cardinality(Pending') = Cardinality(Pending) - 1
      BY <3>6, <3>8, FS_RemoveElement DEF Within
    <3>11. Headroom' = Headroom + 1
      BY <2>1, <3>9, <3>10, HeadroomTyped DEF Headroom
    <3>12. Headroom + 1 <= MaxBodies
      <4>1. Headroom' <= bodies'
        <5>1. Cardinality(Pending') \in Nat
          BY <3>10, FS_CardinalityType
        <5>. QED BY <2>1, <3>9, <5>1 DEF Headroom
      <4>. QED BY <2>1, <3>9, <3>11, <4>1, StoreAssumption
    <3>13. Numbered(l, Headroom + 1)
      <4>1. Numbered(req[r], Headroom + 1)
        BY <2>1, NumberedWidens
      <4>2. l.copy.version \in 1 .. Headroom + 1 /\ l.copy.version \in 0 .. MaxBodies
        BY <2>1, <3>2, <3>5, <3>12, StoreAssumption
      <4>. QED
        BY <3>4, <3>5, <4>1, <4>2, NoneIsNotStored DEF Numbered, Unnumbered
    <3>14. \A s \in Requests : Numbered(req'[s], Headroom + 1)
      BY <2>1, <3>7, <3>13, NumberedWidens DEF Within
    <3>15. Shelved(store', Headroom + 1)
      BY <2>1, <3>9, ShelvedWidens
    <3>. QED
      BY <2>1, <2>2, <3>9, <3>10, <3>11, <3>14, <3>15 DEF Within
  <2>14. CASE SaveNew(r)
    <3>1. req[r].copy \in Stored /\ req[r].copy.version \in 1 .. Headroom
      BY <2>1, <2>14, NoneIsNotStored DEF SaveNew, Sound, Numbered, Unnumbered
    <3>2. Shelved(store', Headroom) /\ faults' <= MaxFaults
      BY <2>1, <2>2, <2>14, <3>1, PutShelved DEF SaveNew
    <3>. QED
      BY <2>1, <2>3, <2>14, <3>2, WithinByThread DEF SaveNew, Unnumbered
  <2>15. CASE Carry(r)
    <3>1. PICK l \in Local :
            /\ Continue(r, l) /\ l.pc = "saveNew" /\ l.version = req[r].version
            /\ l.other = req[r].other /\ l.copy \in Stored /\ req[r].copy \in Stored
            /\ l.copy.version = req[r].copy.version
      BY <2>15, CarryGives
    <3>2. Numbered(l, Headroom)
      BY <2>1, <2>15, <3>1, NoneIsNotStored DEF Numbered, Unnumbered, Carry
    <3>3. /\ UNCHANGED <<store, bodies, approvedEver>> /\ (NoFault \/ Fault)
          /\ req[r].pc \notin Unnumbered
      BY <2>15 DEF Carry, Unnumbered
    <3>. QED BY <2>7, <3>1, <3>2, <3>3 DEF Unnumbered
  <2>. QED
    BY <1>6, <2>4, <2>5, <2>6, <2>8, <2>9, <2>10, <2>11, <2>12, <2>13, <2>14, <2>15
       DEF Serve
<1>. QED BY <1>1, <1>2, <1>3, <1>4, <1>5, <1>6 DEF Next, Arrive

(* Every variable keeps its type, and a version is stored under its        *)
(* number, which is within the versions made: for every number of          *)
(* threads, and of recordings that read a failing listing or get one       *)
(* number twice.                                                           *)
THEOREM TypeCorrect == Spec => []TypeOK
<1>1. ASSUME Typed, Within PROVE TypeOK
  <2>1. ASSUME NEW a \in Stored, a.version \in 0 .. MaxBodies PROVE a \in Artifact
    BY <2>1 DEF Stored, Artifact
  <2>2. store \in [Versions -> Artifact \cup {None}]
    <3>1. \A v \in Versions : store[v] # None => store[v] \in Artifact
      BY <1>1, <2>1 DEF Typed, Within, Shelved, Versions
    <3>. QED BY <1>1, <3>1 DEF Typed
  <2>3. \A v \in Existing : store[v].version = v
    BY <1>1 DEF Existing, Within, Shelved
  <2>4. req \in [Requests -> Request]
    <3>1. ASSUME NEW r \in Requests PROVE req[r] \in Request
      <4>1. req[r] \in Local /\ Numbered(req[r], Headroom) /\ Headroom \in 0 .. MaxBodies
        BY <1>1, HeadroomTyped DEF Typed, Within
      <4>2. req[r].copy \in Artifact \cup {None}
        BY <2>1, <4>1 DEF Local, Numbered
      <4>3. req[r].other \in Artifact \cup {None}
        <5>1. req[r].other # None => req[r].other.version \in 0 .. MaxBodies
          BY <4>1, StoreAssumption DEF Numbered
        <5>. QED BY <2>1, <4>1, <5>1 DEF Local
      <4>4. req[r].version \in 0 .. MaxBodies
        BY <4>1 DEF Numbered
      <4>. QED BY <4>1, <4>2, <4>3, <4>4 DEF Local, Request
    <3>. QED BY <1>1, <3>1 DEF Typed
  <2>5. bodies \in 0 .. MaxBodies /\ faults \in 0 .. MaxFaults
    BY <1>1, StoreAssumption DEF Typed, Within
  <2>. QED BY <1>1, <2>2, <2>3, <2>4, <2>5 DEF Typed, Within, TypeOK
<1>. QED BY <1>1, TypedInit, TypedStep, WithinInit, WithinStep, PTL DEF Spec

-----------------------------------------------------------------------------
(* New versions of one process never collide                               *)

SharedLock == \A r, s \in Requests : Process[r] = Process[s]

Numberers == {r \in Requests : req[r].pc \in {"number", "carry", "saveNew"}}

(* Whoever numbers a version holds the lock, and its number stays free.    *)
Numbering ==
  /\ \A r \in Numberers : lock[Process[r]] = r
  /\ \A r \in Requests :
       req[r].pc \in {"carry", "saveNew"} /\ faults = 0 /\ ~resurrected
         => req[r].copy.version \notin Existing

(* Nothing that the numbers depend on has got worse, or it shows.          *)
Harmless ==
  /\ faults' = 0 /\ ~resurrected' => Existing' \subseteq Existing
  /\ faults' = 0 => faults = 0
  /\ ~resurrected' => ~resurrected

LEMMA UpsertIsHarmless ==
  ASSUME Typed, NEW a \in Stored \cup {None}, Upsert(a)
  PROVE  Harmless
<1>1. CASE store' = [store EXCEPT ![a.version] = a]
             /\ resurrected' = (resurrected \/ store[a.version] = None) /\ NoFault
  <2>1. ASSUME ~resurrected' PROVE Existing' \subseteq Existing
    <3>1. store[a.version] # None
      BY <1>1, <2>1
    <3>. QED BY <1>1, <3>1 DEF Existing, Typed
  <2>. QED BY <1>1, <2>1 DEF Harmless
<1>2. CASE Fault /\ UNCHANGED <<store, resurrected>>
  BY <1>2 DEF Harmless, Typed
<1>. QED BY <1>1, <1>2 DEF Upsert

(* Steps of threads that number nothing.                                   *)
LEMMA NumberingKept ==
  ASSUME Numbering, Harmless, UNCHANGED lock,
         \A s \in Requests : s \in Numberers' =>
            s \in Numberers /\ req'[s].pc = req[s].pc /\ req'[s].copy = req[s].copy
  PROVE  Numbering'
<1>1. \A s \in Requests : req'[s].pc \in {"carry", "saveNew"} => s \in Numberers'
  BY DEF Numberers
<1>2. \A s \in Numberers' : lock'[Process[s]] = s
  BY DEF Numberers, Numbering
<1>3. ASSUME NEW s \in Requests, req'[s].pc \in {"carry", "saveNew"}, faults' = 0, ~resurrected'
      PROVE  req'[s].copy.version \notin Existing'
  BY <1>1, <1>3 DEF Numbering, Harmless
<1>. QED BY <1>2, <1>3 DEF Numbering

LEMMA NumberingKeptByThread ==
  ASSUME Typed, Numbering, Harmless, UNCHANGED lock, NEW r \in Requests,
         NEW l, Continue(r, l), l.pc \notin {"number", "carry", "saveNew"}
  PROVE  Numbering'
<1>1. \A s \in Requests : s \in Numberers' => s # r
  BY DEF Typed, Numberers
<1>2. \A s \in Requests : s # r => req'[s] = req[s]
  BY DEF Typed
<1>. QED BY <1>1, <1>2, NumberingKept DEF Numberers

LEMMA NumberingKeptByEntry ==
  ASSUME Typed, Numbering, NEW r \in Requests, NEW l \in Local, Enter(r, l),
         l.pc \notin {"number", "carry", "saveNew"},
         UNCHANGED <<store, lock, resurrected, faults>>
  PROVE  Numbering'
<1>1. Harmless
  BY DEF Harmless, Existing
<1>2. req'[r].pc = l.pc
  BY DEF Enter, Local
<1>3. \A s \in Requests : s # r => req'[s].pc = req[s].pc /\ req'[s].copy = req[s].copy
  BY DEF Enter, Typed, Local
<1>. QED BY <1>1, <1>2, <1>3, NumberingKept DEF Numberers

LEMMA OneNumberer ==
  ASSUME SharedLock, Numbering, NEW r \in Requests, NEW s \in Numberers,
         lock[Process[r]] \in {r, None}
  PROVE  s = r
BY StoreAssumption DEF SharedLock, Numbering, Numberers

LEMMA NumberingInit == Init => Numbering
BY DEF Init, Numbering, Numberers, Idle

LEMMA NumberingStep ==
  ASSUME SharedLock, Typed, Numbering, [Next]_vars
  PROVE  Numbering'
<1>1. CASE UNCHANGED vars
  BY <1>1 DEF vars, Numbering, Numberers, Existing
<1>2. CASE Delete
  <2>1. \A s \in Requests : req'[s].pc = req[s].pc /\ req'[s].copy = req[s].copy
    BY <1>2 DEF Delete, Typed, Local
  <2>2. Existing' = {}
    BY <1>2 DEF Delete, Existing
  <2>3. Harmless
    BY <1>2, <2>2 DEF Delete, Harmless
  <2>4. UNCHANGED lock
    BY <1>2 DEF Delete
  <2>. QED BY <2>1, <2>3, <2>4, NumberingKept DEF Numberers
<1>3. ASSUME NEW r \in Requests, BeginRecording(r) PROVE Numbering'
  <2>1. bodies + 1 \in Bodies
    BY <1>3, StoreAssumption DEF BeginRecording, Bodies, Typed
  <2> DEFINE l(status) == [Idle EXCEPT !.pc = "lock", !.op = "record",
                             !.copy = [version |-> 0, status |-> status, default |-> FALSE,
                                       body |-> bodies + 1, extras |-> {}]]
  <2>2. \A status \in {"draft", "approved"} : l(status) \in Local /\ l(status).pc = "lock"
    BY <2>1, IdleHoldsNothing DEF Local, Idle, Pcs, Stored, Statuses
  <2>3. PICK status \in {"draft", "approved"} : Enter(r, l(status))
    BY <1>3 DEF BeginRecording
  <2>4. UNCHANGED <<store, lock, resurrected, faults>>
    BY <1>3 DEF BeginRecording
  <2> HIDE DEF l
  <2>. QED BY <2>2, <2>3, <2>4, NumberingKeptByEntry
<1>4. ASSUME NEW r \in Requests, NEW v \in Versions, BeginPatch(r, v) PROVE Numbering'
  <2>1. bodies + 1 \in Bodies /\ store[v] \in Stored
    BY <1>4, StoreAssumption DEF BeginPatch, Bodies, Typed
  <2> DEFINE l == [Idle EXCEPT !.pc = "lock", !.op = "patch",
                     !.copy = [store[v] EXCEPT !.status = "draft", !.body = bodies + 1]]
  <2>2. l \in Local /\ l.pc = "lock"
    BY <2>1, IdleHoldsNothing DEF Local, Idle, Pcs, Stored, Statuses
  <2>3. Enter(r, l) /\ UNCHANGED <<store, lock, resurrected, faults>>
    BY <1>4 DEF BeginPatch
  <2> HIDE DEF l
  <2>. QED BY <2>2, <2>3, NumberingKeptByEntry
<1>5. ASSUME NEW r \in Requests, NEW v \in Versions, NEW op \in Edits, Begin(r, op, v)
      PROVE  Numbering'
  <2> DEFINE l == [Idle EXCEPT !.pc = "load", !.op = op, !.version = v]
  <2>1. v \in Nat
    BY StoreAssumption DEF Versions
  <2>2. l \in Local /\ l.pc = "load"
    BY <2>1, IdleHoldsNothing DEF Local, Idle, Pcs
  <2>3. Enter(r, l) /\ UNCHANGED <<store, lock, resurrected, faults>>
    BY <1>5 DEF Begin
  <2> HIDE DEF l
  <2>. QED BY <2>2, <2>3, NumberingKeptByEntry
<1>6. ASSUME NEW r \in Requests, Serve(r) PROVE Numbering'
  <2>1. req[r] \in Local /\ Idle.pc = "idle"
    BY DEF Typed, Idle
  <2>2. ASSUME UNCHANGED <<store, lock, resurrected>>, UNCHANGED faults \/ Fault,
               NEW l, Continue(r, l), l.pc \notin {"number", "carry", "saveNew"}
        PROVE  Numbering'
    <3>1. Harmless
      BY <2>2 DEF Harmless, Existing, Typed
    <3>. QED BY <2>2, <3>1, NumberingKeptByThread
  <2>3. CASE Load(r) \/ ReadFails(r) \/ ListOthers(r) \/ LoadOther(r) \/ OthersDone(r)
    <3>1. UNCHANGED <<store, lock, resurrected>> /\ (UNCHANGED faults \/ Fault)
      BY <2>3 DEF Load, ReadFails, ListOthers, LoadOther, OthersDone
    <3>2. Continue(r, req'[r])
      BY <2>3 DEF Load, ReadFails, ListOthers, LoadOther, OthersDone, Typed
    <3>3. req'[r].pc \in {"idle", "save", "list", "others", "saveOther"}
      <4>1. CASE Load(r)
        BY <2>1, <4>1 DEF Load, Typed, Local
      <4>2. CASE LoadOther(r)
        <5> DEFINE v == Min(req[r].todo)
        <5>1. CASE store[v] = None
          BY <2>1, <4>2, <5>1 DEF LoadOther, Typed
        <5>2. CASE store[v] # None
          <6>1. req'[r] = [req[r] EXCEPT
                  !.todo = @ \ {v},
                  !.other = IF store[v].default THEN [store[v] EXCEPT !.default = FALSE]
                            ELSE None,
                  !.pc = IF store[v].default THEN "saveOther" ELSE "others"]
            BY <4>2, <5>2 DEF LoadOther, Typed
          <6> HIDE DEF v
          <6>. QED BY <2>1, <6>1 DEF Local
        <5>. QED BY <5>1, <5>2
      <4>3. CASE ReadFails(r) \/ ListOthers(r) \/ OthersDone(r)
        BY <2>1, <4>3 DEF ReadFails, ListOthers, OthersDone, Typed, Local
      <4>. QED BY <2>3, <4>1, <4>2, <4>3
    <3>. QED BY <2>2, <3>1, <3>2, <3>3
  <2>4. CASE Save(r) \/ SaveOther(r)
    <3>1. Harmless
      BY <2>1, <2>4, UpsertIsHarmless DEF Save, SaveOther, Local
    <3>2. UNCHANGED lock
      BY <2>4 DEF Save, SaveOther
    <3>3. Continue(r, req'[r])
      BY <2>4 DEF Save, SaveOther, Typed
    <3>4. req'[r].pc \in {"idle", "load", "others"}
      BY <2>1, <2>4 DEF Save, SaveOther, Typed, Local
    <3>. QED BY <3>1, <3>2, <3>3, <3>4, NumberingKeptByThread
  <2>5. CASE Acquire(r)
    <3>1. Numberers = {}
      <4>1. \A s \in Numberers : s = r
        BY <2>5, OneNumberer DEF Acquire
      <4>. QED BY <2>5, <4>1 DEF Acquire, Numberers
    <3>2. req'[r].pc = "number" /\ \A s \in Requests : s # r => req'[s] = req[s]
      BY <2>1, <2>5 DEF Acquire, Typed, Local
    <3>3. Numberers' = {r} /\ lock'[Process[r]] = r
      BY <2>5, <3>1, <3>2, StoreAssumption DEF Acquire, Numberers, Typed
    <3>. QED BY <3>1, <3>2, <3>3 DEF Numbering, Numberers
  <2>6. CASE Number(r)
    <3>1. UNCHANGED <<store, lock, resurrected>>
      BY <2>6 DEF Number
    <3>2. \A s \in Requests : s # r => req'[s] = req[s]
      BY <2>6 DEF Number, Typed
    <3>3. r \in Numberers
      BY <2>6 DEF Number, Numberers
    <3>4. \A s \in Numberers' : lock'[Process[s]] = s
      BY <3>1, <3>2, <3>3 DEF Numbering, Numberers
    <3>5. ASSUME NEW s \in Requests, req'[s].pc \in {"carry", "saveNew"}, faults' = 0, ~resurrected'
          PROVE  req'[s].copy.version \notin Existing'
      <4>1. faults = 0 /\ Existing' = Existing
        BY <2>6, <3>1, <3>5 DEF Number, Typed, Existing
      <4>2. CASE s = r
        <5>1. PICK p \in {"carry", "saveNew"} : Continue(r, NumberAs(r, NextVersion, p))
          BY <2>6, <3>5, <4>1, NumberGives
        <5>2. req[r].copy \in Stored
          BY <2>6 DEF Number, Typed, Sound
        <5>3. req'[r].copy.version = NextVersion
          BY <2>1, <5>1, <5>2 DEF NumberAs, Local, Stored, Typed
        <5>. QED BY <4>1, <4>2, <5>3, NextVersionIsFree
      <4>3. CASE s # r
        BY <3>1, <3>2, <3>5, <4>1, <4>3 DEF Numbering
      <4>. QED BY <4>2, <4>3
    <3>. QED BY <3>4, <3>5 DEF Numbering
  <2>7. CASE SaveNew(r)
    <3>1. r \in Numberers
      BY <2>7 DEF SaveNew, Numberers
    <3>2. \A s \in Numberers : s = r
      BY <3>1, OneNumberer DEF Numbering
    <3>3. req'[r].pc = "idle" /\ \A s \in Requests : s # r => req'[s] = req[s]
      BY <2>1, <2>7 DEF SaveNew, Typed
    <3>4. Numberers' = {}
      BY <3>2, <3>3 DEF Numberers
    <3>. QED BY <3>4 DEF Numbering, Numberers
  <2>8. CASE Carry(r)
    <3>1. UNCHANGED <<store, lock, resurrected>>
      BY <2>8 DEF Carry
    <3>2. PICK l \in Local :
            Continue(r, l) /\ l.pc = "saveNew" /\ l.copy.version = req[r].copy.version
      BY <2>8, CarryGives
    <3>3. req'[r] = l /\ \A s \in Requests : s # r => req'[s] = req[s]
      BY <3>2 DEF Typed
    <3>4. \A s \in Numberers' : lock'[Process[s]] = s
      BY <2>8, <3>1, <3>3 DEF Numbering, Numberers, Carry
    <3>5. ASSUME NEW s \in Requests, req'[s].pc \in {"carry", "saveNew"},
                 faults' = 0, ~resurrected'
          PROVE  req'[s].copy.version \notin Existing'
      <4>1. faults = 0 /\ Existing' = Existing
        BY <2>8, <3>1, <3>5 DEF Carry, Typed, Existing
      <4>2. req[s].pc \in {"carry", "saveNew"} /\ req'[s].copy.version = req[s].copy.version
        BY <2>8, <3>2, <3>3, <3>5 DEF Carry
      <4>. QED BY <3>1, <3>5, <4>1, <4>2 DEF Numbering
    <3>. QED BY <3>4, <3>5 DEF Numbering
  <2>. QED BY <1>6, <2>3, <2>4, <2>5, <2>6, <2>7, <2>8 DEF Serve
<1>. QED BY <1>1, <1>2, <1>3, <1>4, <1>5, <1>6 DEF Next, Arrive

LEMMA FaultsStay == Typed /\ [Next]_vars /\ faults' = 0 => faults = 0
<1>. SUFFICES ASSUME Typed, [Next]_vars, faults' = 0 PROVE faults = 0
  OBVIOUS
<1>1. faults' = faults \/ faults' = faults + 1
  <2>1. CASE UNCHANGED vars
    BY <2>1 DEF vars
  <2>2. CASE Delete
    BY <2>2 DEF Delete
  <2>3. ASSUME NEW r \in Requests, Arrive(r) PROVE faults' = faults
    BY <2>3 DEF Arrive, BeginRecording, BeginPatch, Begin
  <2>4. ASSUME NEW r \in Requests, Serve(r) PROVE faults' = faults \/ faults' = faults + 1
    BY <2>4 DEF Serve, Load, Save, Upsert, ReadFails, ListOthers, LoadOther, SaveOther,
                OthersDone, Acquire, Number, Carry, SaveNew
  <2>. QED BY <2>1, <2>2, <2>3, <2>4 DEF Next
<1>. QED BY <1>1 DEF Typed

(* When all that make versions are of one process, and so share its lock,  *)
(* a new version replaces nothing: for every number of them, and of edits, *)
(* which take no lock.  Only a failed query or a version brought back by a *)
(* stale copy can break it, and the run with two processes does.           *)
THEOREM NewVersionsNeverCollide ==
  ASSUME SharedLock PROVE Spec => RecordingsNeverCollide
<1>1. ASSUME Typed, Numbering, [Next]_vars
      PROVE  [\A r \in Requests :
                (At(r, "saveNew") /\ req'[r].pc = "idle" /\ faults' = 0 /\ ~resurrected)
                  => req[r].copy.version \notin Existing]_vars
  <2>. SUFFICES ASSUME NEW r \in Requests, At(r, "saveNew"), faults' = 0, ~resurrected
                PROVE  req[r].copy.version \notin Existing
    OBVIOUS
  <2>1. faults = 0
    BY <1>1, FaultsStay
  <2>. QED BY <1>1, <2>1 DEF Numbering
<1>2. SharedLock /\ Typed /\ Numbering /\ [Next]_vars => Numbering'
  BY NumberingStep
<1>. QED BY <1>1, <1>2, TypedInit, TypedStep, NumberingInit, PTL DEF Spec, RecordingsNeverCollide

-----------------------------------------------------------------------------
(* A set-default that runs alone leaves one default                        *)

(* What has been cleared so far, and what is still to do: the listing      *)
(* names every default, and each is looked at before the save.             *)
Cleared(l) ==
  /\ l.pc \in {"list", "others", "saveOther", "save"} =>
       l.copy.default /\ l.copy.version = l.version
  /\ l.pc = "others" => Defaults \subseteq l.todo \cup {l.version}
  /\ l.pc = "saveOther" =>
       ~l.other.default /\ Defaults \subseteq l.todo \cup {l.version, l.other.version}
  /\ l.pc = "save" => Defaults \subseteq {l.version}

(* A thread is alone only as long as nobody else is under way.             *)
Clearing ==
  \A r \in Requests :
     req[r].alone => /\ Busy = {r}
                     /\ req[r].op = "setDefault" /\ faults = 0 => Cleared(req[r])

LEMMA ClearingInit == Init => Clearing
BY DEF Init, Clearing, Idle

(* A step of the thread that is alone.                                     *)
LEMMA ClearingByThread ==
  ASSUME Typed, Clearing, NEW r \in Requests, ~At(r, "idle"), NEW l, Continue(r, l),
         l = Idle \/ (l.pc # "idle" /\ l.alone = req[r].alone),
         req[r].alone /\ l.op = "setDefault" /\ faults' = 0 => Cleared(req[r])' \/ l = Idle
  PROVE  Clearing'
<1>1. req'[r] = l /\ \A s \in Requests \ {r} : req'[s] = req[s]
  BY DEF Typed
<1>2. ASSUME NEW s \in Requests \ {r} PROVE ~req'[s].alone
  <2>1. r \in Busy
    BY DEF Busy
  <2>. QED BY <1>1, <2>1 DEF Clearing
<1>3. CASE l = Idle
  BY <1>1, <1>2, <1>3 DEF Clearing, Idle
<1>4. CASE l # Idle
  <2>1. l.pc # "idle" /\ l.alone = req[r].alone
    BY <1>4
  <2>2. ASSUME l.alone
        PROVE  Busy' = {r} /\ (l.op = "setDefault" /\ faults' = 0 => Cleared(req[r])')
    <3>1. Busy = {r}
      BY <2>1, <2>2 DEF Clearing
    <3>2. Busy' = {r}
      BY <1>1, <2>1, <3>1 DEF Busy
    <3>. QED BY <1>4, <2>1, <2>2, <3>2
  <2>. QED BY <1>1, <1>2, <2>2 DEF Clearing
<1>. QED BY <1>3, <1>4

(* A thread that begins has cleared nothing yet.                           *)
LEMMA ClearingByEntry ==
  ASSUME Typed, Clearing, NEW r \in Requests, NEW l \in Local, Enter(r, l),
         l.pc \in {"load", "lock"}
  PROVE  Clearing'
<1>1. \A s \in Requests \ {r} : req'[s] = [req[s] EXCEPT !.alone = FALSE]
  BY DEF Enter
<1>2. \A s \in Requests \ {r} : req'[s].pc = req[s].pc /\ ~req'[s].alone
  BY <1>1 DEF Typed, Local
<1>3. req'[r] = [l EXCEPT !.alone = (Busy = {})]
  BY DEF Enter
<1>4. req'[r].pc = l.pc /\ (req'[r].alone <=> Busy = {})
  BY <1>3 DEF Local
<1>5. ASSUME Busy = {} PROVE Busy' = {r}
  BY <1>2, <1>4, <1>5 DEF Busy
<1>6. Cleared(req[r])'
  BY <1>4 DEF Cleared
<1>. QED BY <1>2, <1>4, <1>5, <1>6 DEF Clearing

LEMMA ClearingStep ==
  Typed /\ Typed' /\ Within /\ Clearing /\ [Next]_vars => Clearing'
<1>. SUFFICES ASSUME Typed, Typed', Within, Clearing, [Next]_vars PROVE Clearing'
  OBVIOUS
<1>1. CASE UNCHANGED vars
  BY <1>1 DEF vars, Clearing, Cleared, Busy, Defaults, Existing
<1>2. CASE Delete
  <2>1. ASSUME NEW r \in Requests PROVE ~req'[r].alone
    <3>1. CASE r \in Busy
      BY <1>2, <3>1 DEF Delete, Typed, Local
    <3>2. CASE r \notin Busy
      BY <1>2, <3>2 DEF Delete, Clearing
    <3>. QED BY <3>1, <3>2
  <2>. QED BY <2>1 DEF Clearing
<1>3. ASSUME NEW r \in Requests, Arrive(r) PROVE Clearing'
  <2>1. ASSUME NEW l \in Local, Enter(r, l), l.pc \in {"load", "lock"} PROVE Clearing'
    BY <2>1, ClearingByEntry
  <2>2. CASE BeginRecording(r)
    <3> DEFINE l(status) == [Idle EXCEPT !.pc = "lock", !.op = "record",
                               !.copy = [version |-> 0, status |-> status,
                                         default |-> FALSE, body |-> bodies + 1, extras |-> {}]]
    <3>1. bodies + 1 \in Bodies
      BY <2>2, StoreAssumption DEF BeginRecording, Bodies, Typed
    <3>2. \A status \in {"draft", "approved"} : l(status) \in Local /\ l(status).pc = "lock"
      BY <3>1, IdleHoldsNothing DEF Local, Idle, Pcs, Stored, Statuses
    <3>3. PICK status \in {"draft", "approved"} : Enter(r, l(status))
      BY <2>2 DEF BeginRecording
    <3> HIDE DEF l
    <3>. QED BY <2>1, <3>2, <3>3
  <2>3. ASSUME NEW v \in Versions, BeginPatch(r, v) PROVE Clearing'
    <3> DEFINE l == [Idle EXCEPT !.pc = "lock", !.op = "patch",
                       !.copy = [store[v] EXCEPT !.status = "draft", !.body = bodies + 1]]
    <3>1. bodies + 1 \in Bodies /\ store[v] \in Stored
      BY <2>3, StoreAssumption DEF BeginPatch, Bodies, Typed
    <3>2. l \in Local /\ l.pc = "lock" /\ Enter(r, l)
      BY <2>3, <3>1, IdleHoldsNothing DEF BeginPatch, Local, Idle, Pcs, Stored, Statuses
    <3> HIDE DEF l
    <3>. QED BY <2>1, <3>2
  <2>4. ASSUME NEW v \in Versions, NEW op \in Edits, Begin(r, op, v) PROVE Clearing'
    <3> DEFINE l == [Idle EXCEPT !.pc = "load", !.op = op, !.version = v]
    <3>1. v \in Nat
      BY StoreAssumption DEF Versions
    <3>2. l \in Local /\ l.pc = "load" /\ Enter(r, l)
      BY <2>4, <3>1, IdleHoldsNothing DEF Begin, Local, Idle, Pcs
    <3> HIDE DEF l
    <3>. QED BY <2>1, <3>2
  <2>. QED BY <1>3, <2>2, <2>3, <2>4 DEF Arrive
<1>4. ASSUME NEW r \in Requests, Serve(r) PROVE Clearing'
  <2>1. /\ req[r] \in Local /\ Sound(req[r]) /\ Numbered(req[r], Headroom)
        /\ Shelved(store, Headroom) /\ Headroom \in 0 .. MaxBodies
    BY HeadroomTyped DEF Typed, Within
  <2>2. req'[r] \in Local /\ req' = [req EXCEPT ![r] = req'[r]] /\ ~At(r, "idle")
    BY <1>4
       DEF Typed, Serve, Load, Save, ReadFails, ListOthers, LoadOther, SaveOther,
           OthersDone, Acquire, Number, Carry, SaveNew
  <2>3. faults' = 0 => faults = 0
    BY <1>4, FaultsStay DEF Next
  <2>4. ASSUME req[r].alone, req[r].op = "setDefault", faults' = 0 PROVE Cleared(req[r])
    BY <2>3, <2>4 DEF Clearing
  <2>5. ASSUME req'[r] = Idle PROVE Clearing'
    BY <2>2, <2>5, ClearingByThread
  <2>6. ASSUME req'[r].pc # "idle", req'[r].alone = req[r].alone,
               req[r].alone /\ req'[r].op = "setDefault" /\ faults' = 0 => Cleared(req[r])'
        PROVE  Clearing'
    BY <2>2, <2>6, ClearingByThread
  <2>7. CASE Load(r)
    <3> DEFINE a == store[req[r].version]  op == req[r].op
               l == [req[r] EXCEPT !.copy = Edited(op, a),
                                   !.pc = IF op = "setDefault" THEN "list" ELSE "save"]
    <3>1. CASE a # None /\ Permitted(op, a)
      <4>1. req'[r] = l
        BY <2>7, <3>1 DEF Load, Typed
      <4>2. a \in Stored /\ a.version = req[r].version
        BY <2>1, <2>7, <3>1 DEF Load, Sound, Typed, Shelved
      <4>3. l.pc \in {"list", "save"} /\ l.alone = req[r].alone /\ l.op = op
              /\ l.version = req[r].version /\ l.copy = Edited(op, a)
        BY <2>1 DEF Local
      <4>4. ASSUME op = "setDefault" PROVE Cleared(req[r])'
        <5>1. l.pc = "list"
          BY <2>1, <4>4 DEF Local
        <5>2. Edited(op, a).default /\ Edited(op, a).version = a.version
          BY <4>2, <4>4 DEF Edited, Stored
        <5> HIDE DEF l
        <5>. QED BY <4>1, <4>2, <4>3, <5>1, <5>2 DEF Cleared
      <4> HIDE DEF l
      <4>. QED BY <2>6, <4>1, <4>3, <4>4
    <3>2. CASE ~(a # None /\ Permitted(op, a))
      BY <2>5, <2>7, <3>2 DEF Load, Typed
    <3>. QED BY <3>1, <3>2
  <2>8. CASE Save(r)
    <3> DEFINE l == [req[r] EXCEPT !.op = "approve", !.pc = "load", !.copy = None]
    <3>1. l.op = "approve" /\ l.pc = "load" /\ l.alone = req[r].alone
      BY <2>1 DEF Local
    <3>2. req'[r] = l \/ req'[r] = Idle
      BY <2>8 DEF Save, Typed
    <3> HIDE DEF l
    <3>. QED BY <2>5, <2>6, <3>1, <3>2
  <2>9. CASE ReadFails(r) \/ SaveNew(r)
    BY <2>5, <2>9 DEF ReadFails, SaveNew, Typed
  <2>10. CASE ListOthers(r)
    <3>1. /\ req'[r].pc = "others" /\ req'[r].alone = req[r].alone /\ req'[r].op = req[r].op
          /\ req'[r].copy = req[r].copy /\ req'[r].version = req[r].version
          /\ faults' = 0 => req'[r].todo = Existing \ {req[r].version}
      <4>1. /\ req'[r] \in {[req[r] EXCEPT !.pc = "others"],
                            [req[r] EXCEPT !.pc = "others", !.todo = Existing \ {req[r].version}]}
            /\ faults' = 0 =>
                 req'[r] = [req[r] EXCEPT !.pc = "others", !.todo = Existing \ {req[r].version}]
        BY <2>3, <2>10 DEF ListOthers, Typed
      <4>. QED BY <2>1, <4>1 DEF Local
    <3>2. Defaults' = Defaults /\ Defaults \subseteq Existing
      BY <2>10 DEF ListOthers, Defaults, Existing
    <3>3. ASSUME req[r].alone, req'[r].op = "setDefault", faults' = 0
          PROVE  Cleared(req[r])'
      <4>1. req[r].copy.default /\ req[r].copy.version = req[r].version
        BY <2>4, <2>10, <3>1, <3>3 DEF ListOthers, Cleared
      <4>. QED BY <3>1, <3>2, <3>3, <4>1 DEF Cleared
    <3>. QED BY <2>6, <3>1, <3>3
  <2>11. CASE LoadOther(r)
    <3> DEFINE v == Min(req[r].todo)
               o == IF store[v].default THEN [store[v] EXCEPT !.default = FALSE] ELSE None
               l == [req[r] EXCEPT !.todo = @ \ {v}, !.other = o,
                       !.pc = IF store[v].default THEN "saveOther" ELSE "others"]
    <3>1. CASE store[v] = None
      BY <2>5, <2>11, <3>1 DEF LoadOther, Typed
    <3>2. CASE store[v] # None
      <4>1. v \in Versions
        BY <2>1, <2>11, MinExists DEF LoadOther, Local, Versions
      <4>2. store[v] \in Stored /\ store[v].version = v
        BY <2>1, <3>2, <4>1 DEF Typed, Shelved
      <4>3. req'[r] = l
        BY <2>11, <3>2 DEF LoadOther, Typed
      <4>4. /\ l.pc = IF store[v].default THEN "saveOther" ELSE "others"
            /\ l.alone = req[r].alone /\ l.op = req[r].op /\ l.copy = req[r].copy
            /\ l.version = req[r].version /\ l.todo = req[r].todo \ {v} /\ l.other = o
        BY <2>1 DEF Local
      <4>5. Defaults' = Defaults /\ (~store[v].default => v \notin Defaults)
        BY <2>11 DEF LoadOther, Defaults, Existing
      <4>6. store[v].default => ~o.default /\ o.version = v
        BY <4>2 DEF Stored
      <4>7. ASSUME req[r].alone, req[r].op = "setDefault", faults' = 0
            PROVE  Cleared(req[r])'
        <5>1. /\ req[r].copy.default /\ req[r].copy.version = req[r].version
              /\ Defaults \subseteq req[r].todo \cup {req[r].version}
          BY <2>4, <2>11, <4>7 DEF LoadOther, Cleared
        <5> HIDE DEF l, v, o
        <5>2. Defaults \subseteq l.todo \cup {l.version, v}
          BY <4>4, <5>1
        <5>3. CASE store[v].default
          BY <4>3, <4>4, <4>5, <4>6, <5>1, <5>2, <5>3 DEF Cleared
        <5>4. CASE ~store[v].default
          BY <4>3, <4>4, <4>5, <5>1, <5>2, <5>4 DEF Cleared
        <5>. QED BY <5>3, <5>4
      <4> HIDE DEF l
      <4>. QED BY <2>6, <4>3, <4>4, <4>7
    <3>. QED BY <3>1, <3>2
  <2>12. CASE SaveOther(r)
    <3> DEFINE o == req[r].other
    <3>1. /\ req'[r].pc = "others" /\ req'[r].alone = req[r].alone /\ req'[r].op = req[r].op
          /\ req'[r].copy = req[r].copy /\ req'[r].version = req[r].version
          /\ req'[r].todo = req[r].todo
      BY <2>1, <2>12 DEF SaveOther, Typed, Local
    <3>2. o \in Stored /\ o.version \in Versions
      BY <2>1, <2>12, StoreAssumption DEF SaveOther, Local, Numbered, Versions
    <3>3. ASSUME req[r].alone, req[r].op = "setDefault", faults' = 0
          PROVE  Cleared(req[r])'
      <4>1. /\ req[r].copy.default /\ req[r].copy.version = req[r].version
            /\ ~o.default /\ Defaults \subseteq req[r].todo \cup {req[r].version, o.version}
        BY <2>4, <2>12, <3>3 DEF SaveOther, Cleared
      <4>2. store' = [store EXCEPT ![o.version] = o]
        BY <2>12, <3>3, <2>3 DEF SaveOther, Upsert
      <4>3. Defaults' \subseteq Defaults \ {o.version}
        BY <3>2, <4>1, <4>2 DEF Defaults, Existing, Typed
      <4>. QED BY <3>1, <4>1, <4>3 DEF Cleared
    <3>. QED BY <2>6, <3>1, <3>3
  <2>13. CASE OthersDone(r)
    <3>1. /\ req'[r].pc = "save" /\ req'[r].alone = req[r].alone /\ req'[r].op = req[r].op
          /\ req'[r].copy = req[r].copy /\ req'[r].version = req[r].version
          /\ req[r].pc = "others" /\ req[r].todo = {}
      BY <2>1, <2>13 DEF OthersDone, Typed, Local
    <3>2. Defaults' = Defaults
      BY <2>13 DEF OthersDone, Defaults, Existing
    <3>3. ASSUME req[r].alone, req[r].op = "setDefault", faults' = 0
          PROVE  Cleared(req[r])'
      BY <2>4, <3>1, <3>2, <3>3 DEF Cleared
    <3>. QED BY <2>6, <3>1, <3>3
  <2>14. CASE Acquire(r) \/ Number(r) \/ Carry(r)
    <3>1. req'[r].pc \in {"number", "carry", "saveNew"} /\ req'[r].alone = req[r].alone
      <4>1. CASE Acquire(r)
        BY <2>1, <4>1 DEF Acquire, Typed, Local
      <4>2. CASE Number(r)
        <5>1. PICK n \in Nat, p \in {"carry", "saveNew"} : Continue(r, NumberAs(r, n, p))
          BY <4>2, NumberGives
        <5>. QED BY <2>1, <5>1 DEF NumberAs, Local, Typed
      <4>3. CASE Carry(r)
        BY <4>3, CarryGives DEF Typed
      <4>. QED BY <2>14, <4>1, <4>2, <4>3
    <3>2. Cleared(req[r])'
      BY <3>1 DEF Cleared
    <3>. QED BY <2>6, <3>1, <3>2
  <2>. QED
    BY <1>4, <2>7, <2>8, <2>9, <2>10, <2>11, <2>12, <2>13, <2>14 DEF Serve
<1>. QED BY <1>1, <1>2, <1>3, <1>4 DEF Next

(* set_default_version() that runs alone leaves its version the one        *)
(* default, whatever earlier races left behind and however many versions   *)
(* and threads there are.                                                  *)
THEOREM SetDefaultHeals == Spec => LoneSetDefaultHeals
<1>1. ASSUME Typed, Within, Clearing, [Next]_vars
      PROVE  [\A r \in Requests :
                (At(r, "save") /\ req[r].op = "setDefault" /\ req[r].alone
                   /\ req'[r].pc = "idle" /\ faults' = 0)
                  => Defaults' = {req[r].version}]_vars
  <2>. SUFFICES ASSUME NEW r \in Requests, Next, At(r, "save"), req[r].op = "setDefault",
                       req[r].alone, req'[r].pc = "idle", faults' = 0
                PROVE  Defaults' = {req[r].version}
    BY <1>1
  <2>1. Busy = {r} /\ Cleared(req[r])
    BY <1>1, FaultsStay DEF Clearing
  <2>2. /\ req[r] \in Local /\ Numbered(req[r], Headroom) /\ Headroom \in 0 .. MaxBodies
        /\ Shelved(store, Headroom)
    BY <1>1, HeadroomTyped DEF Typed, Within
  <2>3. ~Delete
    BY <1>1, <2>2 DEF Delete, Typed, Local
  <2>4. \A s \in Requests : ~Arrive(s)
    <3>. SUFFICES ASSUME NEW s \in Requests, Arrive(s) PROVE FALSE
      OBVIOUS
    <3>1. s # r
      BY DEF Arrive, BeginRecording, BeginPatch, Begin
    <3>2. \E l : Enter(s, l)
      BY DEF Arrive, BeginRecording, BeginPatch, Begin
    <3>3. req'[r] = [req[r] EXCEPT !.alone = FALSE]
      BY <3>1, <3>2 DEF Enter
    <3>. QED BY <2>2, <3>3 DEF Local
  <2>5. \A s \in Requests : Serve(s) => s = r
    BY <2>1
       DEF Busy, Serve, Load, Save, ReadFails, ListOthers, LoadOther, SaveOther,
           OthersDone, Acquire, Number, Carry, SaveNew
  <2>6. Save(r)
    BY <2>3, <2>4, <2>5
       DEF Next, Serve, Load, ReadFails, ListOthers, LoadOther, SaveOther, OthersDone,
           Acquire, Number, Carry, SaveNew
  <2> DEFINE a == req[r].copy
  <2>7. a \in Stored /\ a.version \in Versions /\ a.default /\ a.version = req[r].version
          /\ Defaults \subseteq {a.version}
    BY <2>1, <2>2 DEF Cleared, Local, Numbered, Unnumbered, Versions
  <2>8. store' = [store EXCEPT ![a.version] = a]
    <3>1. faults \in Nat
      BY <1>1 DEF Typed
    <3>. QED BY <2>6, <3>1 DEF Save, Upsert
  <2>9. Existing' = Existing \cup {a.version}
    BY <1>1, <2>7, <2>8, NoneIsNotStored DEF Existing, Typed
  <2>. QED BY <1>1, <2>7, <2>8, <2>9 DEF Defaults, Existing, Typed
<1>. QED
  BY <1>1, TypedInit, TypedStep, WithinInit, WithinStep, ClearingInit, ClearingStep, PTL
     DEF Spec, LoneSetDefaultHeals

=============================================================================
