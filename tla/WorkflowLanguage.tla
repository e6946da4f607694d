--------------------------- MODULE WorkflowLanguage ---------------------------
(***************************************************************************)
(* The declarative workflow language of src/browser/workflow.ts: which     *)
(* JSON values normalizeWorkflow accepts.  A JSON object is the set of its *)
(* fields, each well formed or not on its own (type, length, range); what  *)
(* is modelled is how the fields of one object may be combined.            *)
(***************************************************************************)
EXTENDS Naturals, Sequences, FiniteSets

CONSTANT MaxSteps      \* limits.maxSteps
ASSUME MaxStepsAssumption == MaxSteps \in Nat \ {0}

\* has: the fields present.  bad: those malformed by themselves.  agree: two
\* fields that say the same thing (clear and clearFirst, compact and format)
\* have the same value.  target: the fields of an object target, {"string"}
\* for a reference.  n: the number of select values.
Ops == {"open", "click", "type", "select", "scroll", "wait", "snapshot"}

\* assertKeys of every operation.
Allowed(op) ==
    CASE op = "open"     -> {"url", "waitUntil", "timeoutMs"}
      [] op = "click"    -> {"target", "timeoutMs"}
      [] op = "type"     -> {"target", "text", "clear", "clearFirst", "submit", "sensitive", "timeoutMs"}
      [] op = "select"   -> {"target", "value", "label", "choice", "values", "timeoutMs"}
      [] op = "scroll"   -> {"direction", "amount", "target"}
      [] op = "wait"     -> {"milliseconds", "durationMs", "condition", "target", "timeoutMs"}
      [] op = "snapshot" -> {"maxNodes", "maxChars", "maxBytes", "includeText", "compact", "format"}

Required(op) ==
    CASE op = "open"                -> {"url"}
      [] op \in {"click", "select"} -> {"target"}
      [] op = "type"                -> {"target", "text"}
      [] op = "scroll"              -> {"direction"}
      [] OTHER                      -> {}

Has(step, f) == f \in step.has
HasBoth(step, f, g) == Has(step, f) /\ Has(step, g)

\* validateTarget: a reference, or an object with one strategy, where name
\* counts as the role strategy and exact belongs to role and label only.
ValidTarget(t) ==
    LET hasRole == "role" \in t \/ "name" \in t
        strategies == {f \in {"label", "testId", "ref"} : f \in t}
                          \cup (IF hasRole THEN {"role"} ELSE {})
    IN  \/ t = {"string"}
        \/ /\ t \subseteq {"role", "name", "exact", "label", "testId", "ref"}
           /\ Cardinality(strategies) = 1
           /\ hasRole => {"role", "name"} \subseteq t
           /\ "exact" \in t => hasRole \/ "label" \in t

\* The branch of select: values alone, or choice alone, or value or label.
ValidSelect(step) ==
    IF Has(step, "values")
    THEN step.has \cap {"value", "label", "choice"} = {} /\ step.n \in 1..32
    ELSE IF Has(step, "choice")
    THEN step.has \cap {"value", "label"} = {}
    ELSE Has(step, "value") # Has(step, "label")

\* The branch of wait.
ValidWait(step) ==
    LET duration == Has(step, "milliseconds") \/ Has(step, "durationMs")
    IN  /\ ~HasBoth(step, "milliseconds", "durationMs")
        /\ duration \/ Has(step, "condition") \/ Has(step, "target")
        /\ duration => ~Has(step, "condition") /\ ~Has(step, "target")
        /\ ~HasBoth(step, "condition", "target")

\* normalizeStep
ValidStep(step) ==
    /\ step.op \in Ops
    /\ step.has \subseteq Allowed(step.op)
    /\ Required(step.op) \subseteq step.has
    /\ step.bad = {}
    /\ Has(step, "target") => ValidTarget(step.target)
    /\ step.op = "type" /\ HasBoth(step, "clear", "clearFirst") => step.agree
    /\ step.op = "snapshot" /\ HasBoth(step, "compact", "format") => step.agree
    /\ step.op = "select" => ValidSelect(step)
    /\ step.op = "wait" => ValidWait(step)

StopTriggers == {"navigation", "challenge", "dialog", "download", "interrupt",
                 "revision_mismatch", "error", "ambiguity", "timeout"}

\* normalizeWorkflow
ValidWorkflow(steps, stopOn) ==
    /\ Len(steps) \in 1..MaxSteps
    /\ stopOn \subseteq StopTriggers
    /\ \A i \in 1..Len(steps) : ValidStep(steps[i])

\* isWriteStep
IsWrite(step) == step.op \in {"open", "click", "type", "select", "scroll"}

\* The adapter calls of one step: one for every select value, else one.
Calls(step) == IF Has(step, "values") THEN step.n ELSE 1

-----------------------------------------------------------------------------
(* What an accepted step means, stated without the branches above.         *)

ExactlyOne(S) == Cardinality(S) = 1

\* The ways an accepted step says what to act on.
Meaning(step) ==
    /\ step.op = "select" => ExactlyOne(step.has \cap {"value", "label", "choice", "values"})
    /\ step.op = "wait" => ExactlyOne(step.has \cap {"milliseconds", "durationMs", "condition", "target"})
    /\ Has(step, "target") =>
           \/ step.target = {"string"}
           \/ ExactlyOne({S \in {{"role", "name"}, {"label"}, {"testId"}, {"ref"}} :
                              S \subseteq step.target})

=============================================================================
