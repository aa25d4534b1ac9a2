--------------------------- MODULE CompilerProofs ---------------------------
(***************************************************************************)
(* A compiled artifact returns what discovery read, for every recording,   *)
(* every deterministic host of the kind HostAssumption describes and any   *)
(* number of replays.                                                      *)
(*                                                                         *)
(* Why: while a replay goes on, its page is the one that discovery had at  *)
(* the same place of the recording, and every output has either the value  *)
(* it had there or an extract of it still to come (Abreast).  A step that  *)
(* is passed over did not move the page, and reads again what was read or  *)
(* what will be.  That the extract that supersedes another one is kept     *)
(* itself (PassedWell) is shown along the recording, step by step.         *)
(***************************************************************************)
EXTENDS Compiler, TLAPS

Places == 1..Len(trace)

(* The histories are what the host and the reader say.                     *)
Told ==
  /\ pages[1] = After(Blank, OpeningStep) /\ reads[1] = Nothing
  /\ \A i \in Places : /\ pages[i + 1] = After(pages[i], trace[i])
                       /\ reads[i + 1] = Noted(reads[i], pages[i], trace[i])

Distinct(s) == Dedup(s, DOMAIN s)

(* Of equal neighbours one is kept, and for every extract there is a last  *)
(* one of its name.                                                        *)
PassedWell(s) ==
  /\ \A i \in 1..Len(s) : \E j \in Distinct(s) : s[j] = s[i]
  /\ \A i \in Distinct(s) : s[i].name # None =>
       \E j \in Kept(s) : i <= j /\ s[j].name = s[i].name

Compiled == phase # "recording" =>
  /\ kept = Kept(trace) /\ opening = ~Navigates(trace)
  /\ inputs = {trace[i].param : i \in Places} \ {None}

Sound == NoRepeatedClick /\ OpensFirst

SamePage ==
  \/ page = pages[at]
  \/ at = 1 /\ Places # {} /\ page = Blank /\ trace[1].action = "navigate"

SameOutputs == \A n \in Outputs :
  \/ outputs[n] = reads[at][n]
  \/ \E m \in kept : at <= m /\ Extracts(trace[m], n)

Abreast == phase = "replaying" =>
  /\ inputs \subseteq supplied
  /\ at = 0 => page = Blank /\ outputs = Nothing
  /\ at # 0 /\ Sound => SamePage /\ SameOutputs

IInv ==
  /\ TypeOK /\ Told /\ PassedWell(trace) /\ Compiled /\ Abreast
  /\ ReplayReturnsWhatWasRead

-----------------------------------------------------------------------------
(* The compiler                                                            *)

(* The first pass compares each step with the one before it.               *)
LEMMA DistinctIs ==
  ASSUME NEW S, NEW s \in Seq(S), NEW i \in 1..Len(s)
  PROVE  i \in Distinct(s) <=> (i = 1 \/ s[i - 1] # s[i])
<1>1. DOMAIN s = 1..Len(s) /\ Len(s) \in Nat
  OBVIOUS
<1>2. ASSUME i # 1, s[i - 1] = s[i] PROVE i \notin Distinct(s)
  <2>1. i - 1 \in 1..Len(s) /\ i - 1 < i
    BY <1>1, <1>2
  <2>2. \A k \in 1..Len(s) : ~(i - 1 < k /\ k < i)
    BY <1>1
  <2>. QED BY <1>1, <1>2, <2>1, <2>2 DEF Distinct, Dedup
<1>3. ASSUME i \notin Distinct(s) PROVE i # 1 /\ s[i - 1] = s[i]
  <2>1. PICK j \in 1..Len(s) : /\ j < i /\ s[j] = s[i]
                               /\ \A k \in 1..Len(s) : ~(j < k /\ k < i)
    BY <1>1, <1>3 DEF Distinct, Dedup
  <2>2. CASE j = i - 1
    BY <1>1, <2>1, <2>2
  <2>3. CASE j # i - 1
    <3>1. i - 1 \in 1..Len(s) /\ j < i - 1 /\ i - 1 < i
      BY <1>1, <2>1, <2>3
    <3>. QED BY <2>1, <3>1
  <2>. QED BY <2>2, <2>3
<1>. QED BY <1>2, <1>3

LEMMA DistinctPlaces ==
  ASSUME NEW S, NEW s \in Seq(S)
  PROVE  Distinct(s) \subseteq 1..Len(s) /\ Kept(s) \subseteq Distinct(s)
BY DEF Distinct, Dedup, Kept, DropSuperseded

(* What the passes promise is kept by recording one step more.             *)
LEMMA AppendPasses ==
  ASSUME NEW S, NEW s \in Seq(S), PassedWell(s), NEW e \in S, NEW t, t = Append(s, e)
  PROVE  PassedWell(t)
<1>. DEFINE next == Len(s) + 1
<1>1. Len(s) \in Nat
  OBVIOUS
<1>2. /\ t \in Seq(S) /\ Len(t) = next /\ t[next] = e
      /\ \A i \in 1..Len(s) : t[i] = s[i]
      /\ \A i \in 1..Len(s) : i \in Distinct(t) <=> i \in Distinct(s)
  <2>1. /\ t \in Seq(S) /\ Len(t) = next /\ t[next] = e
        /\ \A i \in 1..Len(s) : t[i] = s[i]
    OBVIOUS
  <2>2. ASSUME NEW i \in 1..Len(s) PROVE i \in Distinct(t) <=> i \in Distinct(s)
    <3>1. i \in 1..Len(t) /\ t[i] = s[i] /\ (i # 1 => t[i - 1] = s[i - 1])
      BY <1>1, <2>1
    <3>2. i \in Distinct(t) <=> (i = 1 \/ t[i - 1] # t[i])
      BY <2>1, <3>1, DistinctIs
    <3>3. i \in Distinct(s) <=> (i = 1 \/ s[i - 1] # s[i])
      BY DistinctIs
    <3>. QED BY <3>1, <3>2, <3>3
  <2>. QED BY <2>1, <2>2
<1>3. Distinct(s) \subseteq 1..Len(s) /\ Distinct(t) \subseteq 1..next
  BY <1>2, DistinctPlaces
<1>4. next \in Distinct(t) \/ (next # 1 /\ t[next - 1] = t[next])
  <2>1. next \in 1..Len(t)
    BY <1>1, <1>2
  <2>. QED BY <1>2, <2>1, DistinctIs
<1>5. ASSUME NEW i \in 1..next PROVE \E j \in Distinct(t) : t[j] = t[i]
  <2>1. ASSUME NEW k \in 1..Len(s) PROVE \E j \in Distinct(t) : t[j] = t[k]
    <3>1. PICK j \in Distinct(s) : s[j] = s[k]
      BY DEF PassedWell
    <3>. QED BY <1>2, <1>3, <3>1
  <2>2. \E j \in Distinct(t) : t[j] = t[next]
    <3>1. CASE next # 1 /\ t[next - 1] = t[next]
      <4>1. next - 1 \in 1..Len(s)
        BY <1>1, <3>1
      <4>. QED BY <2>1, <3>1, <4>1
    <3>. QED BY <1>4, <3>1
  <2>3. i \in 1..Len(s) \/ i = next
    BY <1>1
  <2>. QED BY <2>1, <2>2, <2>3
<1>6. ASSUME NEW i \in Distinct(t), t[i].name # None
      PROVE  \E j \in Kept(t) : i <= j /\ t[j].name = t[i].name
  <2>1. i \in 1..next
    BY <1>3
  <2>2. CASE next \in Distinct(t) /\ t[next].name = t[i].name
    <3>1. next \in Kept(t)
      BY <1>1, <1>3, <2>2 DEF Kept, DropSuperseded, Distinct
    <3>. QED BY <1>1, <2>1, <2>2, <3>1
  <2>3. CASE ~(next \in Distinct(t) /\ t[next].name = t[i].name)
    <3>1. i \in 1..Len(s) /\ i \in Distinct(s) /\ t[i] = s[i]
      BY <1>1, <1>2, <2>1, <2>3
    <3>2. PICK j \in Kept(s) : i <= j /\ s[j].name = s[i].name
      BY <1>6, <3>1 DEF PassedWell
    <3>3. j \in Distinct(s) /\ j \in 1..Len(s)
      BY <1>3, <3>2, DistinctPlaces
    <3>4. j \in Distinct(t) /\ t[j] = s[j]
      BY <1>2, <3>3
    <3>5. ASSUME NEW k \in Distinct(t), t[k].name = t[j].name PROVE k <= j
      <4>1. k \in 1..Len(s)
        BY <1>1, <1>3, <2>3, <3>1, <3>2, <3>4, <3>5
      <4>2. k \in Distinct(s) /\ s[k].name = s[j].name /\ s[j].name # None
        BY <1>2, <1>6, <3>1, <3>2, <3>4, <3>5, <4>1
      <4>. QED BY <3>2, <4>2 DEF Kept, DropSuperseded, Distinct
    <3>6. j \in Kept(t)
      BY <3>4, <3>5 DEF Kept, DropSuperseded, Distinct
    <3>. QED BY <3>1, <3>2, <3>4, <3>6
  <2>. QED BY <2>2, <2>3
<1>. QED BY <1>2, <1>5, <1>6 DEF PassedWell

(* A step that is not in the artifact repeats the one before it, or is an  *)
(* extract of a name that is extracted again later.                        *)
LEMMA NotKept ==
  ASSUME NEW S, NEW s \in Seq(S), PassedWell(s), NEW k \in 1..Len(s), k \notin Kept(s)
  PROVE  \/ k # 1 /\ s[k - 1] = s[k]
         \/ s[k].name # None /\ \E m \in Kept(s) : k + 1 <= m /\ s[m].name = s[k].name
<1>1. CASE k \notin Distinct(s)
  BY <1>1, DistinctIs
<1>2. CASE k \in Distinct(s)
  <2>1. s[k].name # None
    BY <1>2 DEF Kept, DropSuperseded, Distinct
  <2>2. PICK m \in Kept(s) : k <= m /\ s[m].name = s[k].name
    BY <1>2, <2>1 DEF PassedWell
  <2>3. m \in 1..Len(s)
    BY <2>2, DistinctPlaces
  <2>4. k # m
    BY <2>2
  <2>5. k + 1 <= m
    BY <2>2, <2>3, <2>4
  <2>. QED BY <2>1, <2>2, <2>5
<1>. QED BY <1>1, <1>2

(* Only the values of the outputs count for those that are computed.       *)
LEMMA ResolvedAlike ==
  ASSUME NEW o, NEW r, \A n \in Outputs : o[n] = r[n],
         NEW from \in [Outputs -> Outputs \cup {None}]
  PROVE  Resolved(o, from) = Resolved(r, from)
<1>1. ASSUME NEW n \in Outputs
      PROVE  (IF from[n] # None /\ o[from[n]] # None /\ Sum(o[from[n]]) # None
                THEN Sum(o[from[n]]) ELSE o[n])
             = (IF from[n] # None /\ r[from[n]] # None /\ Sum(r[from[n]]) # None
                  THEN Sum(r[from[n]]) ELSE r[n])
  <2>1. CASE from[n] = None
    BY <2>1
  <2>2. CASE from[n] # None
    <3>1. o[from[n]] = r[from[n]]
      BY <2>2
    <3>. QED BY <3>1
  <2>. QED BY <2>1, <2>2
<1>. QED BY <1>1 DEF Resolved

-----------------------------------------------------------------------------
(* The invariant                                                           *)

LEMMA InitIInv == Init => IInv
<1>. SUFFICES ASSUME Init PROVE IInv
  OBVIOUS
<1>. USE DEF Init
<1>1. Len(trace) = 0 /\ Places = {} /\ trace \in Seq(Recordable)
  BY DEF Places
<1>2. TypeOK
  <2>1. After(Blank, OpeningStep) \in Page /\ Blank \in Page
    BY HostAssumption
  <2>2. 1..Len(trace) + 1 = 1..1 /\ at \in 0..Len(trace) + 1
    BY <1>1
  <2>3. DOMAIN pages = 1..1 /\ DOMAIN reads = 1..1 /\ \A i \in 1..1 : pages[i] \in Page
    BY <2>1
  <2>4. derived \in [Outputs -> Outputs \cup {None}]
    BY DEF Nothing
  <2>. QED BY <1>1, <2>1, <2>2, <2>3, <2>4 DEF TypeOK
<1>3. Told
  BY <1>1 DEF Told
<1>4. PassedWell(trace)
  <2>1. Distinct(trace) = {}
    <3>1. Distinct(trace) \subseteq 1..Len(trace)
      BY <1>1, DistinctPlaces
    <3>. QED BY <1>1, <3>1
  <2>. QED BY <1>1, <2>1 DEF PassedWell
<1>5. Compiled /\ Abreast /\ ReplayReturnsWhatWasRead
  BY DEF Compiled, Abreast, ReplayReturnsWhatWasRead
<1>. QED BY <1>2, <1>3, <1>4, <1>5 DEF IInv

LEMMA RecordStep ==
  ASSUME IInv, NEW s \in Recordable, NEW d \in Outputs \cup {None}, Record(s, d)
  PROVE  IInv'
<1>. DEFINE next == Len(trace) + 1
<1>1. /\ phase = "recording" /\ phase' = "recording" /\ UNCHANGED <<artifact, replay>>
      /\ trace' = Append(trace, s)
      /\ pages' = [i \in 1..next + 1 |-> IF i <= next THEN pages[i] ELSE After(pages[next], s)]
      /\ reads' = [i \in 1..next + 1 |->
                     IF i <= next THEN reads[i] ELSE Noted(reads[next], pages[next], s)]
      /\ derived' = [n \in Outputs |->
                       IF n = d /\ derived[n] = None THEN s.name ELSE derived[n]]
  BY DEF Record
<1>2. TypeOK
  BY DEF IInv
<1>3. trace \in Seq(Recordable) /\ Len(trace) \in Nat
  BY <1>2 DEF TypeOK
<1>4. /\ trace' \in Seq(Recordable) /\ Len(trace') = next /\ trace'[next] = s
      /\ \A i \in 1..Len(trace) : trace'[i] = trace[i]
  BY <1>1, <1>3
<1>5. TypeOK'
  <2>1. s.name \in Outputs \cup {None}
    BY CompilerAssumption DEF Steps
  <2>2. derived' \in [Outputs -> Outputs \cup {None}]
    BY <1>1, <1>2, <2>1 DEF TypeOK
  <2>3. pages[next] \in Page
    BY <1>2, <1>3 DEF TypeOK
  <2>4. After(pages[next], s) \in Page
    BY <2>3, HostAssumption
  <2>5. \A i \in 1..next + 1 : pages'[i] \in Page
    <3>1. ASSUME NEW i \in 1..next + 1 PROVE pages'[i] \in Page
      <4>1. CASE i <= next
        <5>1. i \in 1..Len(trace) + 1 /\ pages'[i] = pages[i]
          BY <1>1, <1>3, <4>1
        <5>. QED BY <1>2, <5>1 DEF TypeOK
      <4>2. CASE ~(i <= next)
        BY <1>1, <2>4, <4>2
      <4>. QED BY <4>1, <4>2
    <3>. QED BY <3>1
  <2>6. kept' \subseteq 1..Len(trace') /\ at' \in 0..Len(trace') + 1
    BY <1>1, <1>2, <1>3, <1>4 DEF TypeOK, artifact, replay
  <2>7. /\ opening' \in BOOLEAN /\ inputs' \subseteq Params /\ supplied' \subseteq Params
        /\ page' \in Page /\ phase' = "recording"
    BY <1>1, <1>2 DEF TypeOK, artifact, replay
  <2>8. DOMAIN pages' = 1..Len(trace') + 1 /\ DOMAIN reads' = 1..Len(trace') + 1
    BY <1>1, <1>4
  <2>. QED BY <1>4, <2>2, <2>5, <2>6, <2>7, <2>8 DEF TypeOK
<1>6. Told'
  <2>1. pages'[1] = pages[1] /\ reads'[1] = reads[1]
    BY <1>1, <1>3
  <2>2. ASSUME NEW i \in 1..next
        PROVE  /\ pages'[i + 1] = After(pages'[i], trace'[i])
               /\ reads'[i + 1] = Noted(reads'[i], pages'[i], trace'[i])
    <3>1. pages'[i] = pages[i] /\ reads'[i] = reads[i]
      BY <1>1, <1>3
    <3>2. CASE i = next
      BY <1>1, <1>3, <1>4, <3>1, <3>2
    <3>3. CASE i # next
      <4>1. i \in Places /\ i + 1 <= next /\ trace'[i] = trace[i]
        BY <1>3, <1>4, <3>3 DEF Places
      <4>2. pages'[i + 1] = pages[i + 1] /\ reads'[i + 1] = reads[i + 1]
        BY <1>1, <1>3, <4>1
      <4>. QED BY <3>1, <4>1, <4>2 DEF IInv, Told
    <3>. QED BY <3>2, <3>3
  <2>. QED BY <1>4, <2>1, <2>2 DEF IInv, Told, Places
<1>7. PassedWell(trace)'
  BY <1>1, <1>3, AppendPasses DEF IInv
<1>8. Compiled' /\ Abreast' /\ ReplayReturnsWhatWasRead'
  BY <1>1 DEF Compiled, Abreast, ReplayReturnsWhatWasRead
<1>. QED BY <1>5, <1>6, <1>7, <1>8 DEF IInv

LEMMA CompileStep == ASSUME IInv, Compile PROVE IInv'
<1>1. /\ phase' = "ready" /\ UNCHANGED <<trace, derived, pages, reads, supplied, at, page, outputs>>
      /\ kept' = Kept(trace) /\ opening' = ~Navigates(trace)
      /\ inputs' = {trace[i].param : i \in DOMAIN trace} \ {None}
  BY DEF Compile, recording, replay
<1>2. TypeOK
  BY DEF IInv
<1>3. DOMAIN trace = Places /\ trace \in Seq(Recordable)
  BY <1>2 DEF TypeOK, Places
<1>4. kept' \subseteq 1..Len(trace)
  BY <1>1, <1>3, DistinctPlaces
<1>5. inputs' \subseteq Params
  <2>1. \A i \in Places : trace[i].param \in Params \cup {None}
    BY <1>3, CompilerAssumption DEF Steps, Places
  <2>. QED BY <1>1, <1>3, <2>1
<1>6. TypeOK'
  BY <1>1, <1>2, <1>4, <1>5 DEF TypeOK, Navigates
<1>7. Told' /\ PassedWell(trace)'
  BY <1>1 DEF IInv, Told, Places
<1>8. Compiled'
  BY <1>1, <1>3 DEF Compiled, Places
<1>9. Abreast' /\ ReplayReturnsWhatWasRead'
  BY <1>1 DEF Abreast, ReplayReturnsWhatWasRead
<1>. QED BY <1>6, <1>7, <1>8, <1>9 DEF IInv

LEMMA InvokeStep ==
  ASSUME IInv, NEW params \in SUBSET Params, Invoke(params)
  PROVE  IInv'
<1>1. /\ phase # "recording" /\ phase' = "replaying"
      /\ UNCHANGED <<trace, derived, pages, reads, kept, opening, inputs>>
      /\ supplied' = params /\ inputs \subseteq params
      /\ at' = 0 /\ page' = Blank /\ outputs' = Nothing
  BY DEF Invoke, recording, artifact
<1>2. TypeOK'
  <2>1. TypeOK /\ Blank \in Page
    BY HostAssumption DEF IInv
  <2>2. 0 \in 0..Len(trace) + 1
    BY <2>1 DEF TypeOK
  <2>. QED BY <1>1, <2>1, <2>2 DEF TypeOK
<1>3. Told' /\ PassedWell(trace)' /\ Compiled'
  BY <1>1 DEF IInv, Told, Places, Compiled
<1>4. Abreast' /\ ReplayReturnsWhatWasRead'
  BY <1>1 DEF Abreast, ReplayReturnsWhatWasRead, Nothing
<1>. QED BY <1>2, <1>3, <1>4 DEF IInv

(* The first step of a replay that has opened a page.                      *)
LEMMA OpenStep == ASSUME IInv, Open PROVE IInv'
<1>1. /\ phase = "replaying" /\ at = 0 /\ at' = 1
      /\ UNCHANGED <<phase, trace, derived, pages, reads, kept, opening, inputs, supplied, outputs>>
      /\ page' = IF opening THEN After(Blank, OpeningStep) ELSE page
  BY DEF Open, recording, artifact
<1>2. TypeOK /\ trace \in Seq(Recordable) /\ Len(trace) \in Nat
  BY DEF IInv, TypeOK
<1>3. After(Blank, OpeningStep) \in Page
  BY HostAssumption
<1>4. TypeOK'
  <2>1. page' \in Page
    BY <1>1, <1>2, <1>3 DEF TypeOK
  <2>2. at' \in 0..Len(trace) + 1
    BY <1>1, <1>2
  <2>. QED BY <1>1, <1>2, <2>1, <2>2 DEF TypeOK
<1>5. Told' /\ PassedWell(trace)' /\ Compiled' /\ ReplayReturnsWhatWasRead'
  BY <1>1 DEF IInv, Told, Places, Compiled, ReplayReturnsWhatWasRead
<1>6. page = Blank /\ outputs = Nothing /\ inputs \subseteq supplied
  BY <1>1 DEF IInv, Abreast
<1>7. SamePage' \/ ~Sound'
  <2>1. CASE opening
    BY <1>1, <2>1 DEF IInv, Told, SamePage
  <2>2. CASE ~opening /\ OpensFirst
    <3>1. Navigates(trace)
      BY <1>1, <1>2, <2>2 DEF IInv, Compiled, TypeOK
    <3>2. PICK i \in Kept(trace) : trace[i].action = "navigate"
      BY <3>1 DEF Navigates
    <3>3. i \in Places
      BY <1>2, <3>2, DistinctPlaces DEF Places
    <3>4. trace[1].action = "navigate" /\ Places # {}
      BY <2>2, <3>2, <3>3 DEF OpensFirst, Places
    <3>. QED BY <1>1, <1>6, <2>2, <3>4 DEF SamePage, Places
  <2>3. CASE ~opening /\ ~OpensFirst
    BY <1>1, <2>3 DEF Sound, OpensFirst
  <2>. QED BY <2>1, <2>2, <2>3
<1>8. SameOutputs'
  BY <1>1, <1>6 DEF IInv, Told, SameOutputs, Nothing
<1>9. Abreast'
  BY <1>1, <1>6, <1>7, <1>8 DEF Abreast
<1>. QED BY <1>4, <1>5, <1>9 DEF IInv

(* What a step of the trace is.                                            *)
LEMMA StepFacts ==
  ASSUME TypeOK, NEW k \in Places
  PROVE  /\ trace[k] \in Recordable /\ pages[k] \in Page
         /\ \A n \in Outputs : Extracts(trace[k], n) <=> trace[k].name = n
         /\ trace[k].action = "extract" \/ trace[k].name = None
<1>1. trace[k] \in Recordable
  BY DEF TypeOK, Places
<1>2. k \in 1..Len(trace) + 1
  BY DEF TypeOK, Places
<1>3. trace[k].name # None => trace[k].action = "extract"
  BY <1>1, CompilerAssumption
<1>4. None \notin Outputs
  BY CompilerAssumption
<1>. QED BY <1>1, <1>2, <1>3, <1>4 DEF TypeOK, Extracts

(* A step that is passed over moved nothing, and read nothing that is not  *)
(* known or read later.                                                    *)
LEMMA PassOverStep == ASSUME IInv, PassOver PROVE IInv'
<1>1. /\ phase = "replaying" /\ at \in DOMAIN trace /\ at \notin kept /\ at' = at + 1
      /\ UNCHANGED <<phase, trace, derived, pages, reads, kept, opening, inputs, supplied,
                     page, outputs>>
  BY DEF PassOver, recording, artifact
<1>2. TypeOK /\ trace \in Seq(Recordable) /\ Len(trace) \in Nat /\ PassedWell(trace)
  BY DEF IInv, TypeOK
<1>3. at \in Places /\ at \in 1..Len(trace) /\ at # 0 /\ kept = Kept(trace)
  BY <1>1, <1>2 DEF IInv, Compiled, Places
<1>4. TypeOK'
  <2>1. at' \in 0..Len(trace) + 1
    BY <1>1, <1>2, <1>3
  <2>. QED BY <1>1, <1>2, <2>1 DEF TypeOK
<1>5. Told' /\ PassedWell(trace)' /\ Compiled' /\ ReplayReturnsWhatWasRead'
  BY <1>1 DEF IInv, Told, Places, Compiled, ReplayReturnsWhatWasRead
<1>6. ASSUME Sound PROVE SamePage' /\ SameOutputs'
  <2>1. SamePage /\ SameOutputs
    BY <1>1, <1>3, <1>6 DEF IInv, Abreast
  <2>2. \/ at # 1 /\ trace[at - 1] = trace[at]
        \/ trace[at].name # None /\ \E m \in kept : at + 1 <= m /\ trace[m].name = trace[at].name
    BY <1>1, <1>2, <1>3, NotKept
  <2>3. /\ trace[at] \in Recordable /\ pages[at] \in Page
        /\ \A n \in Outputs : Extracts(trace[at], n) <=> trace[at].name = n
        /\ trace[at].action = "extract" \/ trace[at].name = None
    BY <1>2, <1>3, StepFacts
  <2>4. /\ pages[at + 1] = After(pages[at], trace[at])
        /\ reads[at + 1] = Noted(reads[at], pages[at], trace[at])
    BY <1>3 DEF IInv, Told
  <2>5. at # 1 /\ trace[at - 1] = trace[at] =>
          /\ at - 1 \in Places
          /\ pages[at] = After(pages[at - 1], trace[at])
          /\ reads[at] = Noted(reads[at - 1], pages[at - 1], trace[at])
    <3>. SUFFICES ASSUME at # 1, trace[at - 1] = trace[at]
         PROVE  /\ at - 1 \in Places
                /\ pages[at] = After(pages[at - 1], trace[at])
                /\ reads[at] = Noted(reads[at - 1], pages[at - 1], trace[at])
      OBVIOUS
    <3>1. at - 1 \in Places /\ (at - 1) + 1 = at
      BY <1>2, <1>3 DEF Places
    <3>2. /\ pages[(at - 1) + 1] = After(pages[at - 1], trace[at - 1])
          /\ reads[(at - 1) + 1] = Noted(reads[at - 1], pages[at - 1], trace[at - 1])
      BY <3>1 DEF IInv, Told
    <3>. QED BY <3>1, <3>2
  <2>6. pages[at + 1] = pages[at]
    <3>1. CASE trace[at].action = "extract"
      BY <2>3, <2>4, <3>1, HostAssumption
    <3>2. CASE trace[at].action # "extract"
      <4>1. at # 1 /\ trace[at - 1] = trace[at]
        BY <2>2, <2>3, <3>2
      <4>2. at - 1 \in 1..Len(trace) /\ (at - 1) + 1 = at /\ at <= Len(trace)
        BY <1>2, <1>3, <2>5, <4>1 DEF Places
      <4>3. trace[at].action # "click"
        BY <1>6, <4>1, <4>2 DEF Sound, NoRepeatedClick
      <4>4. pages[at - 1] \in Page
        BY <1>2, <2>5, <4>1, StepFacts
      <4>5. After(After(pages[at - 1], trace[at]), trace[at]) = After(pages[at - 1], trace[at])
        BY <2>3, <3>2, <4>3, <4>4, HostAssumption
      <4>. QED BY <2>4, <2>5, <4>1, <4>5
    <3>. QED BY <3>1, <3>2
  <2>7. SamePage'
    <3>1. CASE page = pages[at]
      BY <1>1, <2>6, <3>1 DEF SamePage
    <3>2. CASE at = 1 /\ trace[1].action = "navigate"
      BY <2>2, <2>3, <3>2
    <3>. QED BY <2>1, <3>1, <3>2 DEF SamePage
  <2>8. ASSUME NEW n \in Outputs
        PROVE  \/ outputs[n] = reads[at + 1][n]
               \/ \E m \in kept : at + 1 <= m /\ Extracts(trace[m], n)
    <3>1. CASE ~Extracts(trace[at], n)
      <4>1. reads[at + 1][n] = reads[at][n]
        BY <2>4, <3>1 DEF Noted
      <4>2. CASE outputs[n] = reads[at][n]
        BY <4>1, <4>2
      <4>3. ASSUME NEW m \in kept, at <= m, Extracts(trace[m], n)
            PROVE  at + 1 <= m
        <5>1. m # at /\ m \in 1..Len(trace)
          BY <1>1, <1>2, <4>3 DEF TypeOK
        <5>. QED BY <1>2, <1>3, <4>3, <5>1
      <4>. QED BY <2>1, <4>2, <4>3 DEF SameOutputs
    <3>2. CASE Extracts(trace[at], n)
      <4>1. trace[at].name = n /\ trace[at].action = "extract"
        BY <3>2 DEF Extracts
      <4>2. CASE at # 1 /\ trace[at - 1] = trace[at]
        <5>1. pages[at - 1] \in Page
          BY <1>2, <2>5, <4>2, StepFacts
        <5>2. pages[at] = pages[at - 1]
          BY <2>3, <2>5, <4>1, <4>2, <5>1, HostAssumption
        <5>3. reads[at + 1][n] = reads[at][n]
          BY <2>4, <2>5, <3>2, <4>2, <5>2 DEF Noted
        <5>4. CASE outputs[n] = reads[at][n]
          BY <5>3, <5>4
        <5>5. ASSUME NEW m \in kept, at <= m, Extracts(trace[m], n)
              PROVE  at + 1 <= m
          <6>1. m # at /\ m \in 1..Len(trace)
            BY <1>1, <1>2, <5>5 DEF TypeOK
          <6>. QED BY <1>2, <1>3, <5>5, <6>1
        <5>. QED BY <2>1, <5>4, <5>5 DEF SameOutputs
      <4>3. CASE \E m \in kept : at + 1 <= m /\ trace[m].name = trace[at].name
        <5>1. PICK m \in kept : at + 1 <= m /\ trace[m].name = n
          BY <4>1, <4>3
        <5>2. Extracts(trace[m], n)
          BY <1>2, <5>1, StepFacts DEF TypeOK, Places
        <5>. QED BY <5>1, <5>2
      <4>. QED BY <2>2, <4>2, <4>3
    <3>. QED BY <3>1, <3>2
  <2>. QED BY <1>1, <2>7, <2>8 DEF SameOutputs
<1>7. Abreast'
  <2>1. Sound' => Sound
    BY <1>1 DEF Sound, NoRepeatedClick, OpensFirst
  <2>2. inputs' \subseteq supplied' /\ at' # 0
    BY <1>1, <1>2, <1>3 DEF IInv, Abreast
  <2>. QED BY <1>6, <2>1, <2>2 DEF Abreast
<1>. QED BY <1>4, <1>5, <1>7 DEF IInv

(* A step that is performed does what it did in discovery.                 *)
LEMMA PerformStep == ASSUME IInv, Perform PROVE IInv'
<1>1. /\ phase = "replaying" /\ at \in kept /\ at' = at + 1
      /\ UNCHANGED <<phase, trace, derived, pages, reads, kept, opening, inputs, supplied>>
      /\ page' = After(page, trace[at]) /\ outputs' = Noted(outputs, page, trace[at])
  BY DEF Perform, recording, artifact
<1>2. TypeOK /\ trace \in Seq(Recordable) /\ Len(trace) \in Nat
  BY DEF IInv, TypeOK
<1>3. at \in Places /\ at \in 1..Len(trace) /\ at # 0
  BY <1>1, <1>2 DEF TypeOK, Places
<1>4. /\ trace[at] \in Recordable /\ pages[at] \in Page
      /\ \A n \in Outputs : Extracts(trace[at], n) <=> trace[at].name = n
      /\ trace[at].action = "extract" \/ trace[at].name = None
  BY <1>2, <1>3, StepFacts
<1>5. TypeOK'
  <2>1. at' \in 0..Len(trace) + 1
    BY <1>1, <1>2, <1>3
  <2>2. page' \in Page
    BY <1>1, <1>2, <1>4, HostAssumption DEF TypeOK
  <2>. QED BY <1>1, <1>2, <2>1, <2>2 DEF TypeOK
<1>6. Told' /\ PassedWell(trace)' /\ Compiled' /\ ReplayReturnsWhatWasRead'
  BY <1>1 DEF IInv, Told, Places, Compiled, ReplayReturnsWhatWasRead
<1>7. ASSUME Sound PROVE SamePage' /\ SameOutputs'
  <2>1. SamePage /\ SameOutputs
    BY <1>1, <1>3, <1>7 DEF IInv, Abreast
  <2>2. /\ pages[at + 1] = After(pages[at], trace[at])
        /\ reads[at + 1] = Noted(reads[at], pages[at], trace[at])
    BY <1>3 DEF IInv, Told
  <2>3. SamePage'
    <3>1. CASE page = pages[at]
      BY <1>1, <2>2, <3>1 DEF SamePage
    <3>2. CASE at = 1 /\ page = Blank /\ trace[1].action = "navigate"
      <4>1. After(After(Blank, OpeningStep), trace[1]) = After(Blank, trace[1])
        BY <1>4, <3>2, HostAssumption
      <4>2. pages[1] = After(Blank, OpeningStep)
        BY DEF IInv, Told
      <4>3. page' = pages[at + 1]
        BY <1>1, <2>2, <3>2, <4>1, <4>2
      <4>. QED BY <1>1, <4>3 DEF SamePage
    <3>. QED BY <2>1, <3>1, <3>2 DEF SamePage
  <2>4. ASSUME NEW n \in Outputs
        PROVE  \/ outputs'[n] = reads[at + 1][n]
               \/ \E m \in kept : at + 1 <= m /\ Extracts(trace[m], n)
    <3>1. CASE Extracts(trace[at], n)
      <4>1. page = pages[at]
        BY <2>1, <3>1 DEF SamePage, Extracts
      <4>. QED BY <1>1, <2>2, <3>1, <4>1 DEF Noted
    <3>2. CASE ~Extracts(trace[at], n)
      <4>1. outputs'[n] = outputs[n] /\ reads[at + 1][n] = reads[at][n]
        BY <1>1, <2>2, <3>2 DEF Noted
      <4>2. CASE outputs[n] = reads[at][n]
        BY <4>1, <4>2
      <4>3. ASSUME NEW m \in kept, at <= m, Extracts(trace[m], n)
            PROVE  at + 1 <= m
        <5>1. m # at /\ m \in 1..Len(trace)
          BY <1>2, <3>2, <4>3 DEF TypeOK
        <5>. QED BY <1>2, <1>3, <4>3, <5>1
      <4>. QED BY <2>1, <4>2, <4>3 DEF SameOutputs
    <3>. QED BY <3>1, <3>2
  <2>. QED BY <1>1, <2>3, <2>4 DEF SameOutputs
<1>8. Abreast'
  <2>1. Sound' => Sound
    BY <1>1 DEF Sound, NoRepeatedClick, OpensFirst
  <2>2. inputs' \subseteq supplied' /\ at' # 0
    BY <1>1, <1>2, <1>3 DEF IInv, Abreast
  <2>. QED BY <1>7, <2>1, <2>2 DEF Abreast
<1>. QED BY <1>5, <1>6, <1>8 DEF IInv

(* Past the last step no extract is still to come.                         *)
LEMMA ReturnStep == ASSUME IInv, Return PROVE IInv'
<1>1. /\ phase = "replaying" /\ phase' = "done" /\ at = Len(trace) + 1
      /\ UNCHANGED <<trace, derived, pages, reads, kept, opening, inputs, supplied, at, page>>
      /\ outputs' = Resolved(Resolved(outputs, Declared), OwnDerived)
  BY DEF Return, recording, artifact
<1>2. TypeOK /\ Len(trace) \in Nat
  BY DEF IInv, TypeOK
<1>3. TypeOK' /\ Told' /\ PassedWell(trace)' /\ Compiled' /\ Abreast'
  BY <1>1 DEF IInv, TypeOK, Told, Places, Compiled, Abreast
<1>4. ASSUME Sound PROVE outputs' = Promised
  <2>1. SameOutputs
    BY <1>1, <1>2, <1>4 DEF IInv, Abreast
  <2>2. \A n \in Outputs : outputs[n] = reads[Len(trace) + 1][n]
    <3>1. \A m \in kept : ~(at <= m)
      BY <1>1, <1>2 DEF TypeOK
    <3>. QED BY <1>1, <2>1, <3>1 DEF SameOutputs
  <2>3. Declared \in [Outputs -> Outputs \cup {None}]
    BY CompilerAssumption
  <2>. QED BY <1>1, <2>2, <2>3, ResolvedAlike DEF Promised
<1>5. ReplayReturnsWhatWasRead'
  <2>1. Promised' = Promised
    BY <1>1 DEF Promised, OwnDerived, Extracted
  <2>2. NoRepeatedClick' /\ OpensFirst' => Sound
    BY <1>1 DEF Sound, NoRepeatedClick, OpensFirst
  <2>. QED BY <1>4, <2>1, <2>2 DEF ReplayReturnsWhatWasRead
<1>. QED BY <1>3, <1>5 DEF IInv

LEMMA Invariance == Spec => []IInv
<1>1. IInv /\ [Next]_vars => IInv'
  <2>. SUFFICES ASSUME IInv, [Next]_vars PROVE IInv'
    OBVIOUS
  <2>1. CASE UNCHANGED vars
    BY <2>1 DEF vars, IInv, TypeOK, Told, Places, Compiled, Abreast, Sound, SamePage,
      SameOutputs, ReplayReturnsWhatWasRead, NoRepeatedClick, OpensFirst, Promised,
      OwnDerived, Extracted
  <2>. QED BY <2>1, RecordStep, CompileStep, InvokeStep, OpenStep, PassOverStep,
    PerformStep, ReturnStep DEF Next
<1>. QED BY <1>1, InitIInv, PTL DEF Spec

-----------------------------------------------------------------------------

(* The types hold.                                                         *)
THEOREM TypeCorrect == Spec => []TypeOK
<1>1. IInv => TypeOK
  BY DEF IInv
<1>. QED BY <1>1, Invariance, PTL

(* Compilation is output-preserving, for recordings of any length without  *)
(* a click repeated at once and without a late first navigation.           *)
THEOREM OutputsPreserved == Spec => []ReplayReturnsWhatWasRead
<1>1. IInv => ReplayReturnsWhatWasRead
  BY DEF IInv
<1>. QED BY <1>1, Invariance, PTL

(* No validated call lacks a parameter at a step, and every output that    *)
(* was extracted has one extract left.                                     *)
THEOREM SchemasFit == Spec => []ArtifactFitsItsSchemas
<1>1. IInv => ArtifactFitsItsSchemas
  <2>. SUFFICES ASSUME IInv PROVE ArtifactFitsItsSchemas
    OBVIOUS
  <2>1. /\ TypeOK /\ trace \in Seq(Recordable) /\ PassedWell(trace) /\ DOMAIN trace = Places
        /\ Kept(trace) \subseteq Places /\ Distinct(trace) \subseteq Places
    BY DistinctPlaces DEF IInv, TypeOK, Places
  <2>2. ASSUME phase = "replaying", NEW i \in kept
        PROVE  trace[i].param \in supplied \cup {None}
    <3>1. inputs \subseteq supplied /\ inputs = {trace[k].param : k \in Places} \ {None}
      BY <2>2 DEF IInv, Abreast, Compiled
    <3>2. i \in Places
      BY <2>1, <2>2 DEF TypeOK, Places
    <3>. QED BY <3>1, <3>2
  <2>3. ASSUME phase # "recording", NEW n \in Extracted
        PROVE  \E i \in kept : \A j \in kept : trace[j].name = n <=> j = i
    <3>1. PICK k \in Places : trace[k].name = n /\ n # None
      BY <2>1, <2>3 DEF Extracted
    <3>2. PICK l \in Distinct(trace) : trace[l] = trace[k]
      BY <2>1, <3>1 DEF PassedWell, Places
    <3>3. PICK i \in Kept(trace) : trace[i].name = n
      BY <2>1, <3>1, <3>2 DEF PassedWell
    <3>4. kept = Kept(trace)
      BY <2>3 DEF IInv, Compiled
    <3>5. ASSUME NEW j \in Kept(trace), trace[j].name = n PROVE j = i
      <4>1. i <= j /\ j <= i
        BY <3>1, <3>3, <3>5 DEF Kept, DropSuperseded
      <4>2. i \in Nat /\ j \in Nat
        BY <2>1, <3>3, <3>5 DEF Places
      <4>. QED BY <4>1, <4>2
    <3>. QED BY <3>3, <3>4, <3>5
  <2>. QED BY <2>2, <2>3 DEF ArtifactFitsItsSchemas
<1>. QED BY <1>1, Invariance, PTL
=============================================================================
