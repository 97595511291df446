--------------------------- MODULE WorkflowLanguage ---------------------------
(* The pure parts of src/browser/workflow.ts: validation of untrusted steps
   and the bounding of a result to a byte budget.  An input is chosen, then
   the code's answer to it is computed in one step.                          *)
EXTENDS PureInput, FiniteSets, SequencesExt

CONSTANTS MaxBytes,     \* budgets a caller may ask for
          ContentSizes, \* bytes of a snapshot's content
          MaxReports    \* bound: reports in a result

Invalid == [op |-> "invalid", fields |-> {}, target |-> {}]

----------------------------------------------------------------------------
(* normalizeStep: which well-typed fields a step may and must carry *)

AllowedFields ==
    [open |-> {"url", "waitUntil", "timeoutMs"}, click |-> {"target", "timeoutMs"},
     type |-> {"target", "text", "clear", "clearFirst", "submit"},
     select |-> {"target", "value", "label", "choice", "values"},
     scroll |-> {"direction", "amount", "target"},
     wait |-> {"milliseconds", "durationMs", "condition", "target", "timeoutMs"},
     snapshot |-> {"maxBytes", "compact", "format"}]
Operations == DOMAIN AllowedFields
TargetFields == {"role", "name", "label", "testId", "ref", "exact"}

\* validateTarget: exactly one strategy; role and name go together, and exact
\* belongs to role/name or label.
TargetOK(t) ==
    LET role == t \cap {"role", "name"} # {}
        others == t \cap {"label", "testId", "ref"} IN
    /\ (IF role THEN 1 ELSE 0) + Cardinality(others) = 1
    /\ role => {"role", "name"} \subseteq t
    /\ "exact" \in t => role \/ "label" \in t

SelectOK(f) ==
    IF "values" \in f THEN f \cap {"value", "label", "choice"} = {}
    ELSE IF "choice" \in f THEN f \cap {"value", "label"} = {}
    ELSE ("value" \in f) # ("label" \in f)

WaitOK(f) ==
    LET duration == f \cap {"milliseconds", "durationMs"} IN
    /\ Cardinality(duration) < 2
    /\ duration # {} \/ f \cap {"condition", "target"} # {}
    /\ duration # {} => f \cap {"condition", "target"} = {}
    /\ ~({"condition", "target"} \subseteq f)

\* The normalized step: value and label become a choice, the two names of a
\* duration and the compact flag become one.
Normalize(s) ==
    LET f == s.fields IN
    IF /\ f \subseteq AllowedFields[s.op]
       /\ "target" \in f => TargetOK(s.target)
       /\ CASE s.op = "open" -> "url" \in f
            [] s.op = "click" -> "target" \in f
            [] s.op = "type" -> {"target", "text"} \subseteq f
            [] s.op = "select" -> "target" \in f /\ SelectOK(f)
            [] s.op = "scroll" -> "direction" \in f
            [] s.op = "wait" -> WaitOK(f)
            [] s.op = "snapshot" -> TRUE
    THEN [op |-> s.op, target |-> s.target,
          fields |-> IF s.op = "select" /\ "values" \notin f THEN (f \ {"value", "label"}) \cup {"choice"}
                     ELSE IF s.op = "wait" /\ "milliseconds" \in f THEN (f \ {"milliseconds"}) \cup {"durationMs"}
                     ELSE f]
    ELSE Invalid

\* invoke(): the calls of the adapter that the fields of a step stand for.
Calls(n) ==
    CASE n.op = "select" -> n.fields \cap {"values", "choice"}
      [] n.op = "wait" -> n.fields \cap {"durationMs", "condition", "target"}
      [] OTHER -> {n.op}

Strategies(t) == {s \in {{"role", "name"}, {"label"}, {"testId"}, {"ref"}} : s \cap t # {}}

----------------------------------------------------------------------------
(* boundResult *)

\* A report: bytes of snapshot content or 0, its optional fields, success.
Reports == [content : ContentSizes \cup {0}, optional : 0..1, ok : BOOLEAN]
ResultFrame == 96            \* bytes of a result without reports
ReportBytes == 50      \* bytes of a report without optional fields
FieldBytes == 20
FallbackBytes == 90

Digits(n) == IF n < 10 THEN 1 ELSE IF n < 100 THEN 2 ELSE IF n < 1000 THEN 3 ELSE 4

Bytes(steps, count) ==
    FoldLeft(LAMBDA sum, r : sum + ReportBytes + r.content + FieldBytes * r.optional, ResultFrame, steps) + Digits(count)

\* measuredResultBytes: the byte count is part of what is counted, so the
\* measurement is repeated until it agrees with itself.
RECURSIVE Measure(_, _, _)
Measure(steps, count, attempts) ==
    IF attempts = 0 THEN Bytes(steps, count)
    ELSE IF Bytes(steps, count) = count THEN count
    ELSE Measure(steps, Bytes(steps, count), attempts - 1)

Oversized(steps, max) == {k \in DOMAIN steps : steps[k].content > max \div 4}
Optional(steps) == {k \in DOMAIN steps : steps[k].content > 0 \/ steps[k].optional > 0}
Least(S) == CHOOSE k \in S : \A j \in S : k <= j

\* Content over a quarter of the budget is cut first, then optional fields go,
\* from the first report on; whole reports go last, from the end.
RECURSIVE Bound(_, _)
Bound(steps, max) ==
    IF Measure(steps, 0, 8) <= max THEN [steps |-> steps, bytes |-> Measure(steps, 0, 8), fallback |-> FALSE]
    ELSE IF Oversized(steps, max) # {}
         THEN Bound([steps EXCEPT ![Least(Oversized(steps, max))].content = max \div 4], max)
    ELSE IF Optional(steps) # {}
         THEN LET k == Least(Optional(steps)) IN
              Bound([steps EXCEPT ![k] = IF @.content > 0 THEN [@ EXCEPT !.content = 0]
                                         ELSE [@ EXCEPT !.optional = @ - 1]], max)
    ELSE IF Len(steps) > 1 THEN Bound(Front(steps), max)
    ELSE [steps |-> << >>, bytes |-> FallbackBytes + Digits(FallbackBytes), fallback |-> TRUE]

----------------------------------------------------------------------------
\* A step carries only fields of its operation: others are refused by name.
\* Two fields of a target stand for all the shapes validateTarget tells apart.
StepInputs == UNION {[op : {o}, fields : SUBSET AllowedFields[o], target : {{"ref"}}] : o \in Operations}
              \cup [op : {"click"}, fields : {{"target"}}, target : SUBSET TargetFields]
ResultInputs == [steps : BoundedSeq(Reports, MaxReports), max : MaxBytes]

LangGiven == Given("step", StepInputs) \/ Given("result", ResultInputs)
LangAnswers == \/ Answers("step", Normalize(input.value))
               \/ Answers("result", Bound(input.value.steps, input.value.max))

\* A step that passed validation stands for exactly one call of the adapter and
\* one way to find its target, and a refused one never does: invoke() may rely
\* on step.choice, on one kind of wait and on one strategy without looking.
ValidIsInvokable ==
    Evaluated("step") =>
        \/ answer[1] = Invalid
        \/ /\ Cardinality(Calls(answer[1])) = 1
           /\ "target" \in answer[1].fields => Cardinality(Strategies(answer[1].target)) = 1

\* A bounded result fits its budget and states its own size exactly, unless no
\* single report fits; reports are dropped from the end only, after every
\* optional field is gone, and each keeps its status.
ResultFits ==
    Evaluated("result") =>
        LET in == input.value IN
        /\ answer[1].fallback \/ (answer[1].bytes <= in.max /\ answer[1].bytes = Bytes(answer[1].steps, answer[1].bytes))
        /\ \A k \in DOMAIN answer[1].steps : answer[1].steps[k].ok = in.steps[k].ok
        /\ Len(answer[1].steps) < Len(in.steps) => Optional(answer[1].steps) = {}
=============================================================================
