------------------------------ MODULE WorkflowMC ------------------------------
(* Requests for model checking Workflow: workflows that look before they       *)
(* write, write twice in one step, are malformed or too large for the result,  *)
(* the same call under the same action id, and other callers.                  *)
EXTENDS Workflow

Ref == {"string"}
StepOf(op, has, target, n) ==
    [op |-> op, has |-> has, bad |-> {}, agree |-> TRUE, target |-> target, n |-> n]

Click == StepOf("click", {"target"}, Ref, 0)
Open == StepOf("open", {"url"}, {}, 0)
Clear == StepOf("type", {"target", "text", "clear"}, Ref, 0)
Wait == StepOf("wait", {"target"}, {"role", "name"}, 0)
SelectTwo == StepOf("select", {"target", "values"}, Ref, 2)
SelectMixed == StepOf("select", {"target", "values", "label"}, Ref, 2)
WaitTwice == StepOf("wait", {"milliseconds", "target"}, Ref, 0)
ClickVague == StepOf("click", {"target"}, {"role", "name", "label"}, 0)

Request(kind, steps, id, expect, stopOn, room) ==
    [kind |-> kind, steps |-> steps, id |-> id, expect |-> expect, stopOn |-> stopOn, room |-> room]

LookThenClick == Request("workflow", <<Wait, Click>>, "a", TRUE, {}, 4)
SelectThenOpen == Request("workflow", <<SelectTwo, Open>>, None, TRUE, {"navigation"}, 1)
OpenOnly(stopOn) == Request("workflow", <<Open>>, "a", FALSE, stopOn, 0)
Malformed(step) == Request("workflow", <<step>>, "b", FALSE, {}, 4)
WriteOne(id, expect) == Request("write", <<Click>>, id, expect, {}, 0)
Retype == Request("write", <<Clear>>, "b", TRUE, {}, 0)
HandOff == Request("handoff", <<Click>>, None, FALSE, {}, 0)

MCBatches ==
    { <<LookThenClick, WriteOne("b", TRUE)>>,
      <<LookThenClick, HandOff>>, <<WriteOne("b", FALSE), WriteOne("b", FALSE)>>,
      <<SelectThenOpen, WriteOne(None, FALSE)>>,
      <<OpenOnly({}), OpenOnly({"dialog"})>>, <<Malformed(SelectMixed), Retype>>,
      <<Malformed(WaitTwice), WriteOne("a", TRUE)>>, <<Malformed(ClickVague), HandOff>> }

=============================================================================
