-------------------------- MODULE MCWorkflowEngine --------------------------
(* Instances of WorkflowEngine for TLC.                                    *)
EXTENDS WorkflowEngine

CONSTANTS probe, retry, fix, check, review, choose, each, split, cut, build, sign

\* probe                            a command that may fail
\* retry   while:  fix, check       a loop with a gate in its body
\* choose  if:     each             a fan-out, or nothing
\* each    fan-out: review          over up to two items
\* review  do-while: split, build   a loop inside the fan-out
\* split   fan-out: cut             and a fan-out inside that
\* sign                             a gate with continue_on_error
\* build has the id of choose: nested in a template, that is valid.
MCSteps == {probe, retry, fix, check, choose, each, review, split, cut, build, sign}

MCId == [s \in Steps |-> IF s = build THEN choose ELSE s]

MCKind ==
    [s \in Steps |->
        CASE s \in {probe, fix, cut, build} -> "command"
          [] s \in {check, sign}            -> "gate"
          [] s = retry                      -> "while"
          [] s = review                     -> "do-while"
          [] s \in {each, split}            -> "fan-out"
          [] s = choose                     -> "branch"]

MCTop == <<probe, retry, choose, sign>>

MCBodies ==
    [s \in Steps |->
        CASE s = retry  -> {<<fix, check>>}
          [] s = choose -> {<<each>>, <<>>}
          [] s = each   -> {<<review>>}
          [] s = review -> {<<split, build>>}
          [] s = split  -> {<<cut>>}
          [] OTHER      -> {}]

MCOnReject == [s \in Steps |-> IF s = check THEN "retry" ELSE "abort"]

\* A loop whose body asks for approval.
LoopTop == <<retry>>

=============================================================================
