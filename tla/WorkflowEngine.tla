--------------------------- MODULE WorkflowEngine ---------------------------
(***************************************************************************)
(* One run of the spec-kit workflow engine                                 *)
(* (tools/spec-kit/src/specify_cli/workflows): WorkflowEngine.execute and  *)
(* resume, the recursive interpreter _execute_steps, and the RunState it   *)
(* saves to state.json on its way.  The recursion is an explicit stack:    *)
(* one frame per list being run, with the round of the loop or fan-out it  *)
(* belongs to; each call that returns goes back to the list it was made    *)
(* from, and there the status of the run decides what happens.             *)
(*                                                                         *)
(* Expressions and commands are abstracted to their outcome: a condition   *)
(* is true or false, a command succeeds, fails or raises.  A result is     *)
(* kept for each step id of the definition, that of its latest execution;  *)
(* the copies the engine makes per iteration or item share it.             *)
(***************************************************************************)
EXTENDS Naturals, Sequences

CONSTANTS
    Steps,              \* the steps of the definition, at all depths
    Id,                 \* Id[s]: the name under which results of s are kept
    Kind,               \* Kind[s]: the type of step s, see Kinds
    Top,                \* definition.steps
    Bodies,             \* Bodies[s]: the step lists s may run: the branches of
                        \* an if or switch, the body of a loop, the template
    ContinueOnError,    \* the steps with continue_on_error: true
    OnReject,           \* OnReject[g]: on_reject of gate g
    Loose,              \* the gates with an option to reject that is not spelled
                        \* "reject" or "abort" exactly: "Reject" is valid
    MaxIterations,      \* max_iterations of the loops
    MaxItems,           \* bound: the items of a fan-out
    MaxStops            \* bound: kills of a process, interrupts and resumes

\* "command" stands for every step without nested steps that is not a gate.
Kinds == {"command", "gate", "branch", "while", "do-while", "fan-out"}
Loops == {"while", "do-while"}

ASSUME EngineAssumption ==
    /\ Kind \in [Steps -> Kinds]
    /\ Top \in Seq(Steps) /\ Top # <<>>
    /\ \A s \in Steps : Bodies[s] \subseteq Seq(Steps)
    /\ \A s \in Steps : Kind[s] \in Loops \cup {"fan-out", "branch"} => Bodies[s] # {}
    /\ \A s \in Steps : Kind[s] = "fan-out" => \A body \in Bodies[s] : Len(body) <= 1
    /\ ContinueOnError \subseteq Steps
    /\ \A s \in Steps : Kind[s] = "gate" => OnReject[s] \in {"abort", "retry", "skip"}
    /\ Loose \subseteq Steps
    /\ MaxIterations \in Nat \ {0}
    /\ MaxItems \in Nat
    /\ MaxStops \in Nat

\* A definition is a tree: a step of Top is at one place in it and not nested.
Tree ==
    /\ \A j, k \in DOMAIN Top : Top[j] = Top[k] => j = k
    /\ \A s \in Steps : \A body \in Bodies[s] : \A k \in DOMAIN body :
          \A j \in DOMAIN Top : body[k] # Top[j]

\* Steps may share an id.  _validate_steps refuses that, but it checks the
\* template of a fan-out with an empty set of its own: what is nested in a
\* template may repeat an id from outside, and then overwrites its result.
Ids == {Id[s] : s \in Steps}

VARIABLES
    disk,       \* state.json of the run
    mem,        \* the RunState of the process that executes it
    stack,      \* the active calls of _execute_steps, outermost first
    offset,     \* step_offset of the outermost call
    item,       \* context.item: the fan-out it is of and its number, or NoItem
    pc,         \* where the process is; "idle": there is none
    stops       \* how often the run was killed, interrupted or resumed

vars == <<disk, mem, stack, offset, item, pc, stops>>

Statuses == {"running", "paused", "completed", "failed", "aborted"}

\* "rejected": the gate completed, although the operator chose to reject.
Results  == {"none", "completed", "failed", "paused", "rejected"}
RunState == [status: Statuses \cup {"none", "torn"}, index: Nat, results: [Ids -> Results]]

\* A frame runs steps, of which the first i are done, for the step of (or for
\* the workflow), in round of at most rounds.
Workflow == "workflow"

ASSUME TreeAssumption == Tree /\ Workflow \notin Steps

Frame == [steps: Seq(Steps), i: Nat, of: Steps \cup {Workflow}, round: Nat, rounds: Nat]

NoItem == <<>>

NoRun == [status |-> "none", index |-> 0, results |-> [id \in Ids |-> "none"]]

frame == stack[Len(stack)]

step == frame.steps[frame.i + 1]

\* "next": the next step of the list is up; "step": it is under way; "returned":
\* the call is back in the one that made it.
TypeOK ==
    /\ disk \in RunState /\ disk.index < Len(Top)
    /\ mem \in RunState /\ mem.index < Len(Top)
    /\ stack \in Seq(Frame)
    /\ \A k \in DOMAIN stack : stack[k].i <= Len(stack[k].steps) /\ stack[k].round <= stack[k].rounds
    /\ offset \in 0..(Len(Top) - 1)
    /\ item \in {NoItem} \cup (Steps \X (1..MaxItems))
    /\ pc \in {"idle", "next", "step", "returned"}
    /\ stack = <<>> <=> pc = "idle"
    /\ pc \in {"next", "step"} => frame.i < Len(frame.steps)
    /\ stops \in 0..MaxStops

Init ==
    /\ disk = NoRun
    /\ mem = NoRun
    /\ stack = <<>>
    /\ offset = 0
    /\ item = NoItem
    /\ pc = "idle"
    /\ stops = 0

-----------------------------------------------------------------------------
Call(steps, s, rounds) ==
    [steps |-> steps, i |-> 0, of |-> s, round |-> 1, rounds |-> rounds]

\* The stack with its top frame replaced by f.
WithTop(f) == SubSeq(stack, 1, Len(stack) - 1) \o <<f>>

\* The stack without its top frame.
Below == SubSeq(stack, 1, Len(stack) - 1)

Result(s, r) == [mem EXCEPT !.results[Id[s]] = r]

\* The call returns with the current step of f: it was the last of the list, or,
\* in the later rounds of a loop, each step is a call of its own.
EndsCall(f) == f.i + 1 = Len(f.steps) \/ f.round > 1

\* The current step of the list at depth d is done.
CompleteAt(d) ==
    LET f == stack[d] IN
    /\ stack' = Append(SubSeq(stack, 1, d - 1), [f EXCEPT !.i = @ + 1])
    /\ pc' = IF EndsCall(f) THEN "returned" ELSE "next"

\* What executing s may result in.
Outcomes(s) ==
    CASE Kind[s] \in {"command", "fan-out"} -> {"completed", "failed"}
      [] Kind[s] = "gate" -> {"completed", "paused", "rejected"} \cup
                             (IF OnReject[s] = "abort" THEN {"failed"} ELSE {})
      [] OTHER -> {"completed"}

\* The run has its status and is saved, and the call returns.
Halt(state) ==
    /\ mem' = state
    /\ disk' = state
    /\ pc' = "returned"
    /\ UNCHANGED <<stack, item>>

\* The process ends, with state as the last it saved.
Exit(state) ==
    /\ disk' = state
    /\ mem' = NoRun
    /\ stack' = <<>>
    /\ offset' = 0
    /\ item' = NoItem
    /\ pc' = "idle"

Stop ==
    /\ stops < MaxStops
    /\ stops' = stops + 1

-----------------------------------------------------------------------------
(* execute and resume *)

Start(state, from) ==
    /\ pc = "idle"
    /\ mem' = [state EXCEPT !.status = "running"]
    /\ disk' = mem'
    /\ stack' = <<Call(SubSeq(Top, from + 1, Len(Top)), Workflow, 1)>>
    /\ item' = NoItem
    /\ pc' = "next"

Execute ==
    /\ disk.status = "none"
    /\ Start(NoRun, 0)
    /\ offset' = 0
    /\ UNCHANGED stops

\* The bug of counting the remaining steps from zero.
Resume_NoOffset ==
    /\ disk.status \in {"paused", "failed"}
    /\ Start(disk, disk.index)
    /\ offset' = 0
    /\ Stop

\* The bug of resuming a run that an operator aborted.
Resume_Aborted ==
    /\ disk.status \in {"paused", "failed", "aborted"}
    /\ Start(disk, disk.index)
    /\ offset' = disk.index
    /\ Stop

\* A paused or failed run goes on with the top-level step it stopped in.
Resume ==
    /\ disk.status \in {"paused", "failed"}
    /\ Start(disk, disk.index)
    /\ offset' = disk.index
    /\ Stop

\* The bug of completing every run that comes back.
Finish_AlwaysCompletes ==
    /\ pc = "returned" /\ Len(stack) = 1
    /\ Exit([mem EXCEPT !.status = "completed"])
    /\ UNCHANGED stops

\* The outermost call has returned: a run that nothing stopped is completed.
Finish ==
    /\ pc = "returned" /\ Len(stack) = 1
    /\ Exit(IF mem.status = "running" THEN [mem EXCEPT !.status = "completed"] ELSE mem)
    /\ UNCHANGED stops

-----------------------------------------------------------------------------
(* _execute_steps *)

\* The next step of the list is announced and saved.  Nested calls have offset
\* -1 and leave the index alone.
Begin ==
    /\ pc = "next"
    /\ mem' = IF Len(stack) = 1 THEN [mem EXCEPT !.index = offset + frame.i] ELSE mem
    /\ disk' = mem'
    /\ pc' = "step"
    /\ UNCHANGED <<stack, offset, item, stops>>

\* The step is done and nothing stops the run.
Proceed(state) ==
    /\ mem' = state
    /\ CompleteAt(Len(stack))

Succeed ==
    /\ pc = "step" /\ Kind[step] = "command"
    /\ Proceed(Result(step, "completed"))
    /\ UNCHANGED <<disk, offset, item, stops>>

\* A command fails, or the items of a fan-out are no list.  With
\* continue_on_error the run goes on.
Fail ==
    /\ pc = "step" /\ Kind[step] \in {"command", "fan-out"}
    /\ IF step \in ContinueOnError
       THEN Proceed(Result(step, "failed")) /\ disk' = mem' /\ UNCHANGED item
       ELSE Halt([Result(step, "failed") EXCEPT !.status = "failed"])
    /\ UNCHANGED <<offset, stops>>

\* Nobody registered the type of the step: the run fails without a result.
UnknownType ==
    /\ pc = "step" /\ Kind[step] = "command"
    /\ Halt([mem EXCEPT !.status = "failed"])
    /\ UNCHANGED <<offset, stops>>

\* A loop whose body is done evaluates its condition if an iteration is left.
AtCondition ==
    /\ pc = "returned" /\ mem.status = "running" /\ Len(stack) > 1
    /\ frame.i = Len(frame.steps)
    /\ Kind[frame.of] \in Loops /\ frame.round < frame.rounds

\* A step or the condition of a loop raises: every call is left, no result is
\* recorded, and the process ends with the run failed.
Raise ==
    /\ pc = "step" \/ AtCondition
    /\ Exit([mem EXCEPT !.status = "failed"])
    /\ UNCHANGED stops

\* The bug of a pause that does not return.
GatePauses_Proceeds ==
    /\ pc = "step" /\ Kind[step] = "gate"
    /\ Proceed([Result(step, "paused") EXCEPT !.status = "paused"]) /\ disk' = mem'
    /\ UNCHANGED <<offset, item, stops>>

\* Without a terminal a gate pauses the run.
GatePauses ==
    /\ pc = "step" /\ Kind[step] = "gate"
    /\ Halt([Result(step, "paused") EXCEPT !.status = "paused"])
    /\ UNCHANGED <<offset, stops>>

\* The operator chooses an option that is no rejection.
GateApproved ==
    /\ pc = "step" /\ Kind[step] = "gate"
    /\ Proceed(Result(step, "completed"))
    /\ UNCHANGED <<disk, offset, item, stops>>

\* The bug of letting continue_on_error override a rejection.
GateRejected_Continues ==
    /\ pc = "step" /\ Kind[step] = "gate"
    /\ CASE OnReject[step] = "abort" ->
              IF step \in ContinueOnError
              THEN Proceed(Result(step, "failed")) /\ disk' = mem' /\ UNCHANGED item
              ELSE Halt([Result(step, "failed") EXCEPT !.status = "aborted"])
         [] OnReject[step] = "retry" -> Halt([Result(step, "paused") EXCEPT !.status = "paused"])
         [] OTHER -> Proceed(Result(step, "rejected")) /\ UNCHANGED <<disk, item>>
    /\ UNCHANGED <<offset, stops>>

\* The operator chooses "reject" or "abort"; an interrupt or the end of the input
\* at the prompt does the same when, as usual, that is the last option.
GateRejected ==
    /\ pc = "step" /\ Kind[step] = "gate"
    /\ CASE OnReject[step] = "abort" -> Halt([Result(step, "failed") EXCEPT !.status = "aborted"])
         [] OnReject[step] = "retry" -> Halt([Result(step, "paused") EXCEPT !.status = "paused"])
         [] OTHER -> Proceed(Result(step, "rejected")) /\ UNCHANGED <<disk, item>>
    /\ UNCHANGED <<offset, stops>>

\* The operator rejects with an option that validate accepts as a rejection in any
\* case, but that execute compares exactly: the gate completes.
GateRejectedLoosely ==
    /\ pc = "step" /\ Kind[step] = "gate" /\ step \in Loose
    /\ Proceed(Result(step, "rejected"))
    /\ UNCHANGED <<disk, offset, item, stops>>

\* A control-flow step completes and its nested list is called, if it has one.
Nest(body, rounds) ==
    /\ IF body = <<>> \/ rounds = 0
       THEN Proceed(Result(step, "completed"))
       ELSE /\ mem' = Result(step, "completed")
            /\ stack' = Append(stack, Call(body, step, rounds))
            /\ pc' = "next"
    /\ UNCHANGED <<disk, offset, stops>>

\* if and switch choose among their branches; a switch may have no default.
Branch ==
    /\ pc = "step" /\ Kind[step] = "branch"
    /\ \E body \in Bodies[step] : Nest(body, 1)
    /\ UNCHANGED item

\* A loop runs its body; a while loop may find its condition false at once.
EnterLoop ==
    /\ pc = "step" /\ Kind[step] \in Loops
    /\ \E body \in Bodies[step] \cup (IF Kind[step] = "while" THEN {<<>>} ELSE {}) :
          Nest(body, MaxIterations)
    /\ UNCHANGED item

FanOut ==
    /\ pc = "step" /\ Kind[step] = "fan-out"
    /\ \E body \in Bodies[step], n \in 0..MaxItems :
          /\ Nest(body, n)
          /\ item' = IF body = <<>> \/ n = 0 THEN item ELSE <<step, 1>>

-----------------------------------------------------------------------------
(* A call of _execute_steps has returned to the one that made it *)

\* The bug of a loop that looks at the status after its first round only.
Unwind_LoopGoesOn ==
    /\ pc = "returned" /\ Len(stack) > 1
    /\ mem.status \in {"paused", "failed", "aborted"}
    /\ IF frame.round > 1 /\ Kind[frame.of] \in Loops /\ frame.i + 1 < Len(frame.steps)
       THEN /\ stack' = WithTop([frame EXCEPT !.i = @ + 1])
            /\ pc' = "next"
            /\ UNCHANGED item
       ELSE /\ stack' = Below
            /\ item' = IF Kind[frame.of] = "fan-out" THEN NoItem ELSE item
            /\ UNCHANGED pc
    /\ UNCHANGED <<disk, mem, offset, stops>>

\* The run has stopped: the step that made the call returns too, from whatever
\* round it is in.  A fan-out resets context.item.
Unwind ==
    /\ pc = "returned" /\ Len(stack) > 1
    /\ mem.status \in {"paused", "failed", "aborted"}
    /\ stack' = Below
    /\ item' = IF Kind[frame.of] = "fan-out" THEN NoItem ELSE item
    /\ UNCHANGED <<disk, mem, offset, pc, stops>>

\* A later round of a loop calls its next step.
NextOfRound ==
    /\ pc = "returned" /\ mem.status = "running" /\ Len(stack) > 1
    /\ frame.i < Len(frame.steps)
    /\ pc' = "next"
    /\ UNCHANGED <<disk, mem, stack, offset, item, stops>>

\* The bug of a loop that does not count its iterations.
Again_Uncounted ==
    /\ pc = "returned" /\ mem.status = "running" /\ Len(stack) > 1
    /\ frame.i = Len(frame.steps)
    /\ Kind[frame.of] \in Loops \cup {"fan-out"}
    /\ frame.round < frame.rounds
    /\ stack' = WithTop([frame EXCEPT !.i = 0, !.round = IF Kind[frame.of] = "fan-out" THEN @ + 1 ELSE @])
    /\ item' = IF Kind[frame.of] = "fan-out" THEN <<frame.of, frame.round + 1>> ELSE item
    /\ pc' = "next"
    /\ UNCHANGED <<disk, mem, offset, stops>>

\* The bug of an iteration more than max_iterations.
Again_OffByOne ==
    /\ pc = "returned" /\ mem.status = "running" /\ Len(stack) > 1
    /\ frame.i = Len(frame.steps)
    /\ Kind[frame.of] \in Loops \cup {"fan-out"}
    /\ frame.round <= frame.rounds
    /\ stack' = WithTop([frame EXCEPT !.i = 0, !.round = @ + 1])
    /\ item' = IF Kind[frame.of] = "fan-out" THEN <<frame.of, frame.round + 1>> ELSE item
    /\ pc' = "next"
    /\ UNCHANGED <<disk, mem, offset, stops>>

\* The list is done and runs again: the condition of the loop holds and an
\* iteration is left, or the fan-out has another item.
Again ==
    /\ pc = "returned" /\ mem.status = "running" /\ Len(stack) > 1
    /\ frame.i = Len(frame.steps)
    /\ Kind[frame.of] \in Loops \cup {"fan-out"}
    /\ frame.round < frame.rounds
    /\ stack' = WithTop([frame EXCEPT !.i = 0, !.round = @ + 1])
    /\ item' = IF Kind[frame.of] = "fan-out" THEN <<frame.of, frame.round + 1>> ELSE item
    /\ pc' = "next"
    /\ UNCHANGED <<disk, mem, offset, stops>>

\* The bug of a fan-out that leaves its last item behind.
Leave_KeepsItem ==
    /\ pc = "returned" /\ mem.status = "running" /\ Len(stack) > 1
    /\ frame.i = Len(frame.steps)
    /\ Kind[frame.of] = "fan-out" => frame.round = frame.rounds
    /\ CompleteAt(Len(stack) - 1)
    /\ UNCHANGED <<disk, mem, offset, item, stops>>

\* The list is done for good, and so is the step that ran it.  A fan-out resets
\* context.item.
Leave ==
    /\ pc = "returned" /\ mem.status = "running" /\ Len(stack) > 1
    /\ frame.i = Len(frame.steps)
    /\ Kind[frame.of] = "fan-out" => frame.round = frame.rounds
    /\ CompleteAt(Len(stack) - 1)
    /\ item' = IF Kind[frame.of] = "fan-out" THEN NoItem ELSE item
    /\ UNCHANGED <<disk, mem, offset, stops>>

-----------------------------------------------------------------------------
(* What stops a process *)

\* Ctrl-C, at any moment but the prompt of a gate, which takes it for an answer:
\* it may fall between recording a result and acting on it, and after the status
\* was decided.
Interrupt ==
    /\ pc # "idle"
    /\ \E state \in {mem} \cup (IF pc = "step" THEN {Result(step, r) : r \in Outcomes(step)} ELSE {}) :
          Exit([state EXCEPT !.status = "paused"])
    /\ Stop

\* The process is killed: state.json is what was saved last, or, as save opens
\* the file for writing and then fills it, a torn text that load cannot parse.
Kill ==
    /\ pc # "idle"
    /\ Exit(disk) \/ Exit([disk EXCEPT !.status = "torn"])
    /\ Stop

-----------------------------------------------------------------------------
Run ==
    \/ Begin \/ Succeed \/ Fail \/ UnknownType \/ Raise
    \/ GatePauses \/ GateApproved \/ GateRejected \/ GateRejectedLoosely
    \/ Branch \/ EnterLoop \/ FanOut
    \/ Unwind \/ NextOfRound \/ Again \/ Leave
    \/ Finish

Next == Execute \/ Resume \/ Run \/ Interrupt \/ Kill

Spec == Init /\ [][Next]_vars

\* Commands return or time out, somebody or nobody answers at a gate: the
\* interpreter is never stuck.
FairSpec == Spec /\ WF_vars(Run)

-----------------------------------------------------------------------------
(* Properties *)

\* The result that s left lets the run go on.
Settled(s, results) ==
    \/ results[Id[s]] = "completed"
    \/ results[Id[s]] = "failed" /\ s \in ContinueOnError /\ Kind[s] # "gate"
    \/ results[Id[s]] = "rejected" /\ Kind[s] = "gate" /\ (s \in Loose \/ OnReject[s] = "skip")

\* No other step of the definition writes the result of s.
Own(s) == \A t \in Steps \ {s} : Id[t] # Id[s]

\* A run advances through its top-level steps one at a time, over all the
\* processes that ever execute it: none is skipped, none is done again once the
\* run is past it, and one is left only when its result lets the run go on.  (Of a
\* step whose id a template repeats, the result says nothing.)
OneStepAtATime ==
    [][/\ disk'.index \in {disk.index, disk.index + 1}
       /\ disk'.index # disk.index /\ Own(Top[disk.index + 1]) => Settled(Top[disk.index + 1], disk'.results)
       /\ \A k \in 1..disk.index : Own(Top[k]) => disk'.results[Id[Top[k]]] = disk.results[Id[Top[k]]]]_disk

\* A run that is reported completed has done every top-level step.
CompletedMeansAllDone ==
    disk.status = "completed" => \A k \in DOMAIN Top : Own(Top[k]) => Settled(Top[k], disk.results)

\* Once the run has stopped, no level begins or executes another step: the loop in
\* its later rounds, the fan-out with items left and the list around them all look
\* at the status when the call they made returns.
NothingRunsOnceStopped == pc \in {"next", "step"} => mem.status = "running"

\* Completed is final, and so is aborted once the process has ended: before, an
\* interrupt makes a paused run of it.  (A process killed in its last save leaves a
\* torn file instead.)
FinalIsFinal ==
    [][CASE disk.status = "completed" -> disk'.status \in {"completed", "torn"}
         [] disk.status = "aborted" /\ pc = "idle" -> UNCHANGED disk
         [] disk.status = "aborted" -> disk'.status \in {"aborted", "torn", "paused"}
         [] OTHER -> TRUE]_<<disk, pc>>

\* The gate that is up was rejected in this step.
Rejected ==
    /\ pc = "step" /\ Kind[step] = "gate" /\ pc' # "idle"
    /\ mem'.results[Id[step]] \in {"failed", "rejected"}

\* A rejection at a gate with on_reject: abort aborts the run, whatever its
\* continue_on_error says, unless the option is spelled loosely.  And of an aborted
\* run every further step leaves one more of the levels it was nested in, until the
\* process ends with the run aborted on record, unless it is interrupted or killed.
RejectionAborts ==
    [][/\ Rejected /\ OnReject[step] = "abort" /\ step \notin Loose =>
             mem'.status = "aborted" /\ disk'.status = "aborted"
       /\ mem.status = "aborted" /\ stops' = stops =>
             /\ Len(stack') = Len(stack) - 1
             /\ disk'.status = "aborted"
             /\ mem'.status = "aborted" \/ Len(stack) = 1]_vars

FanOuts == {k \in DOMAIN stack : stack[k].of # Workflow /\ Kind[stack[k].of] = "fan-out"}

\* inside holds all that s may run, at any depth.
Encloses(inside, s) ==
    \A t \in inside \cup {s} : \A body \in Bodies[t] : \A k \in DOMAIN body : body[k] \in inside

\* The fan-outs with another one inside, at some depth.
NestedFanOuts ==
    {s \in Steps : Kind[s] = "fan-out" /\ \A inside \in SUBSET Steps :
                        Encloses(inside, s) => \E t \in inside : Kind[t] = "fan-out"}

\* A step in the template of a fan-out sees the item it is run for, that of the
\* innermost fan-out around it, and a step outside sees none; never is it an item
\* of another fan-out or round.  A fan-out with another inside may lose its item,
\* as the inner one resets context.item for the rest of the outer template.
ItemIsCurrent ==
    /\ FanOuts = {} => item = NoItem
    /\ \A k \in FanOuts : (\A j \in FanOuts : j <= k) =>
          \/ item = <<stack[k].of, stack[k].round>>
          \/ item = NoItem /\ stack[k].of \in NestedFanOuts

\* Whatever the conditions say, every process that executes a run comes to an
\* end.
RunsEnd == []<>(pc = "idle")

\* A completed run has passed all its gates: one at which it paused was asked
\* again ("resume re-runs the parent control-flow step and its nested body").
GatesAnswered ==
    disk.status = "completed" =>
        \A s \in Steps : Kind[s] = "gate" => disk.results[Id[s]] # "paused"

=============================================================================
