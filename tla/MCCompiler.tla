------------------------------ MODULE MCCompiler ------------------------------
(***************************************************************************)
(* The host that tells apart what it can: its state is everything that was *)
(* done to it, up to a length that no run reaches.                         *)
(***************************************************************************)
EXTENDS Compiler

MCStep(a, p, n, q) == [action |-> a, place |-> p, name |-> n, param |-> q]

MCRecordable == {
  MCStep("navigate", "page", None, None), MCStep("click", "button", None, None),
  MCStep("type_text", "field", None, "member"),
  MCStep("extract", "table", "balance", None), MCStep("extract", "cell", "balance", None),
  MCStep("extract", "cell", "total", "date"), MCStep("extract", "cell", None, None)}

MCDeclared == [n \in Outputs |-> IF n = "sum" THEN "total" ELSE None]

Marks == {"start", "page", "button", "field"}
MCBlank == <<>>
MCPage == UNION {[1..k -> Marks] : k \in 0..MaxSteps + 1}

Opens(mark) == mark \in {"start", "page"}

(* Only the last of several pages opened in a row counts, and only one of  *)
(* several times that the same is filled in.                               *)
MCAfter(p, s) ==
  LET last == IF p = <<>> THEN None ELSE p[Len(p)]
      done == IF Opens(s.place) /\ Opens(last) THEN SubSeq(p, 1, Len(p) - 1) ELSE p
  IN IF s.action = "extract" \/ s.place \notin Marks THEN p
     ELSE IF s.action # "click" /\ s.place = last THEN p
     ELSE IF Len(done) > MaxSteps THEN p ELSE Append(done, s.place)

MCRead(p, place) == <<place, p>>
MCSum(text) == IF text[1] = "table" THEN <<"sum", text>> ELSE None
=============================================================================
