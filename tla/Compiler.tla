------------------------------- MODULE Compiler -------------------------------
(***************************************************************************)
(* What compile_artifact and run_discover make of a successful recording,  *)
(* and what a replay of it then returns: discovery records its steps, the  *)
(* compiler drops the superfluous ones and derives the schemas, and        *)
(* ReplayEngine.run performs what is left, time and again.                 *)
(*                                                                         *)
(* The host is a deterministic one, in the state in which it was recorded. *)
(* Failures of a step, patterns and handovers are Replay's.                *)
(*                                                                         *)
(* The artifact's steps are the places of the trace that were kept, in     *)
(* order; a replay passes over the others.                                 *)
(***************************************************************************)
EXTENDS Naturals, Sequences

CONSTANTS
  Recordable,    \* the steps that discovery may record
  Place,         \* URLs and locators
  StartUrl,      \* start_url
  Outputs,       \* names of outputs
  Params,        \* names of parameters
  Declared,      \* run_discover's derived_outputs: from_output, by name
  Page,          \* the states of the host and of its page
  Blank,         \* the page of a new browser session
  After(_, _),   \* the page after a step: Surface.act
  Read(_, _),    \* the text at a place of a page
  Sum(_),        \* the sum of the amounts in a text, None without any
  MaxSteps,      \* bound: steps of a recording
  None           \* None

Steps == [action : {"navigate", "click", "type_text", "select_option", "extract"},
          place  : Place,                \* target or locator
          name   : Outputs \cup {None},  \* extract_as
          param  : Params \cup {None}]   \* value_source.param_name

(* agent.run and the inserted step open the page that discovery is given.  *)
OpeningStep == [action |-> "navigate", place |-> StartUrl, name |-> None, param |-> None]

ASSUME CompilerAssumption ==
  /\ StartUrl \in Place /\ None \notin Outputs \cup Params
  /\ Recordable \subseteq Steps
  /\ \A s \in Recordable : s.name # None => s.action = "extract"
  /\ Declared \in [Outputs -> Outputs \cup {None}]
  /\ MaxSteps \in Nat

(* Reading changes nothing; to open or to fill in the same again changes   *)
(* nothing either; and opening the start page leaves no trace on the page  *)
(* that is opened next.                                                    *)
ASSUME HostAssumption ==
  /\ Blank \in Page
  /\ \A p \in Page, s \in Recordable \cup {OpeningStep} :
       /\ After(p, s) \in Page
       /\ s.action = "extract" => After(p, s) = p
       /\ s.action \notin {"click", "extract"} => After(After(p, s), s) = After(p, s)
  /\ \A s \in Recordable : s.action = "navigate" =>
       After(After(Blank, OpeningStep), s) = After(Blank, s)

VARIABLES
  phase,     \* recording, ready, replaying, done
  trace,     \* RunTrace.steps
  derived,   \* RunTrace.derived_outputs: from_output, by name
  pages,     \* history: the page before each step of the trace, and after all
  reads,     \* history: what had been read for each output by then
  kept,      \* the places of the trace that are steps of the artifact
  opening,   \* the artifact begins with an inserted OpeningStep
  inputs,    \* Artifact.input_schema
  supplied,  \* params of the replay
  at,        \* the place that the replay is at, 0 before the first
  page,      \* its page
  outputs    \* its outputs

recording == <<trace, derived, pages, reads>>
artifact  == <<kept, opening, inputs>>
replay    == <<supplied, at, page, outputs>>
vars == <<phase, trace, derived, pages, reads, kept, opening, inputs, supplied, at, page, outputs>>

Nothing == [n \in Outputs |-> None]

Extracts(s, n) == s.action = "extract" /\ s.name = n

(* What has been read for every output after a step.                       *)
Noted(o, p, s) ==
  [n \in Outputs |-> IF Extracts(s, n) THEN Read(p, s.place) ELSE o[n]]

Init ==
  /\ phase = "recording" /\ trace = <<>> /\ derived = Nothing
  /\ pages = [i \in 1..1 |-> After(Blank, OpeningStep)]
  /\ reads = [i \in 1..1 |-> Nothing]
  /\ kept = {} /\ opening = FALSE /\ inputs = {}
  /\ supplied = {} /\ at = 0 /\ page = Blank /\ outputs = Nothing

-----------------------------------------------------------------------------
(* Recording                                                               *)

(* A step is recorded; an extract may declare an output computed from what *)
(* it reads, once for every name.                                          *)
Record(s, d) ==
  /\ phase = "recording" /\ Len(trace) < MaxSteps
  /\ d # None => s.name # None
  /\ LET next == Len(trace) + 1
     IN /\ trace' = Append(trace, s)
        /\ pages' = [i \in 1..next + 1 |->
                       IF i <= next THEN pages[i] ELSE After(pages[next], s)]
        /\ reads' = [i \in 1..next + 1 |->
                       IF i <= next THEN reads[i] ELSE Noted(reads[next], pages[next], s)]
  /\ derived' = [n \in Outputs |-> IF n = d /\ derived[n] = None THEN s.name ELSE derived[n]]
  /\ UNCHANGED <<phase, artifact, replay>>

-----------------------------------------------------------------------------
(* Compiling                                                               *)

(* _dedup_consecutive_steps, of the steps of s at the places K: the step   *)
(* before is the last one that was kept, or equal to it.                   *)
Dedup(s, K) == {i \in K : ~ \E j \in K :
                  /\ j < i /\ s[j] = s[i]
                  /\ \A k \in K : ~(j < k /\ k < i)}

(* _drop_superseded_extracts: only the last extract of a name is kept.     *)
DropSuperseded(s, K) == {i \in K : s[i].name # None =>
                           \A j \in K : s[j].name = s[i].name => j <= i}

(* Mutant: the other way round.                                            *)
DropThenDedup(s) == Dedup(s, DropSuperseded(s, DOMAIN s))

(* Mutant: the last extract is looked for among all steps recorded.        *)
KeptByTrace(s) == Dedup(s, DOMAIN s) \cap DropSuperseded(s, DOMAIN s)

Kept(s) == DropSuperseded(s, Dedup(s, DOMAIN s))

Navigates(s) == \E i \in Kept(s) : s[i].action = "navigate"

(* An artifact without any navigation begins with one.                     *)
Compile ==
  /\ phase = "recording" /\ phase' = "ready"
  /\ kept' = Kept(trace)
  /\ opening' = ~Navigates(trace)
  /\ inputs' = {trace[i].param : i \in DOMAIN trace} \ {None}
  /\ UNCHANGED <<recording, replay>>

Extracted == {trace[i].name : i \in DOMAIN trace} \ {None}

(* The derived outputs of the output schema that discovery declared itself *)
OwnDerived == [n \in Outputs |->
  IF Declared[n] # None \/ n \in Extracted THEN None ELSE derived[n]]

-----------------------------------------------------------------------------
(* Replaying                                                               *)

(* validate_required_params, and a new browser session.                    *)
Invoke(params) ==
  /\ phase \in {"ready", "done"} /\ inputs \subseteq params
  /\ phase' = "replaying" /\ supplied' = params
  /\ at' = 0 /\ page' = Blank /\ outputs' = Nothing
  /\ UNCHANGED <<recording, artifact>>

Open ==
  /\ phase = "replaying" /\ at = 0
  /\ at' = 1
  /\ page' = IF opening THEN After(Blank, OpeningStep) ELSE page
  /\ UNCHANGED <<phase, recording, artifact, supplied, outputs>>

PassOver ==
  /\ phase = "replaying" /\ at \in DOMAIN trace \ kept
  /\ at' = at + 1
  /\ UNCHANGED <<phase, recording, artifact, supplied, page, outputs>>

Perform ==
  /\ phase = "replaying" /\ at \in kept
  /\ at' = at + 1
  /\ page' = After(page, trace[at])
  /\ outputs' = Noted(outputs, page, trace[at])
  /\ UNCHANGED <<phase, recording, artifact, supplied>>

(* _resolve_derived_outputs: what cannot be computed is left as it is.     *)
Resolved(o, from) == [n \in Outputs |->
  IF from[n] # None /\ o[from[n]] # None /\ Sum(o[from[n]]) # None
    THEN Sum(o[from[n]]) ELSE o[n]]

(* The output schema lists those that were declared in advance first.      *)
Return ==
  /\ phase = "replaying" /\ at = Len(trace) + 1
  /\ phase' = "done"
  /\ outputs' = Resolved(Resolved(outputs, Declared), OwnDerived)
  /\ UNCHANGED <<recording, artifact, supplied, at, page>>

Next ==
  \/ \E s \in Recordable, d \in Outputs \cup {None} : Record(s, d)
  \/ Compile
  \/ \E params \in SUBSET Params : Invoke(params)
  \/ Open \/ PassOver \/ Perform \/ Return

Spec == Init /\ [][Next]_vars

-----------------------------------------------------------------------------
(* Properties                                                              *)

TypeOK ==
  /\ phase \in {"recording", "ready", "replaying", "done"}
  /\ trace \in Seq(Recordable)
  /\ derived \in [Outputs -> Outputs \cup {None}]
  /\ DOMAIN pages = 1..Len(trace) + 1 /\ DOMAIN reads = 1..Len(trace) + 1
  /\ \A i \in 1..Len(trace) + 1 : pages[i] \in Page
  /\ kept \subseteq 1..Len(trace) /\ opening \in BOOLEAN
  /\ inputs \subseteq Params /\ supplied \subseteq Params
  /\ at \in 0..Len(trace) + 1 /\ page \in Page

(* A click that was meant twice in a row would be dropped.                 *)
NoRepeatedClick == \A i \in 1..Len(trace) :
  i + 1 <= Len(trace) /\ trace[i].action = "click" => trace[i] # trace[i + 1]

(* A navigation recorded later keeps the first one from being inserted.    *)
OpensFirst ==
  (\E i \in 1..Len(trace) : trace[i].action = "navigate") => trace[1].action = "navigate"

(* What discovery last read for every output, with the sums declared.      *)
Promised == Resolved(Resolved(reads[Len(trace) + 1], Declared), OwnDerived)

(* Dropping steps is output-preserving: with the same host every replay    *)
(* returns, for every output, what discovery read last, however often it   *)
(* extracted the output, repeated a step or refined a locator between      *)
(* them - of a recording without the two forms above.                      *)
ReplayReturnsWhatWasRead ==
  phase = "done" /\ NoRepeatedClick /\ OpensFirst => outputs = Promised

(* The artifact asks for what it uses and reads what it promises: a call   *)
(* that validate_required_params lets through lacks no parameter at any    *)
(* step - the input_error in the middle of a replay is for edited          *)
(* artifacts - and every output that was extracted is read by one step.    *)
ArtifactFitsItsSchemas ==
  /\ phase = "replaying" => {trace[i].param : i \in kept} \subseteq supplied \cup {None}
  /\ phase # "recording" => \A n \in Extracted :
       \E i \in kept : \A j \in kept : trace[j].name = n <=> j = i
=============================================================================
