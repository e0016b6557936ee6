--------------------------- MODULE OnceExecution ---------------------------
(***************************************************************************)
(* What the idempotency layer of the event workers promises, with no       *)
(* mention of Redis: at any moment an event is in the hands of at most one *)
(* executor, and an event that has a verdict is not run again until that   *)
(* verdict is forgotten (the 7-day TTL of an execution record).            *)
(*                                                                         *)
(* apps/api/src/events/idempotency is the implementation; Idempotency.tla  *)
(* models it step by step and refines this module.                         *)
(***************************************************************************)

CONSTANTS Executors,    \* whatever runs handlers: worker slots of any process
          Events        \* idempotency keys: one per (event type, event id)

VARIABLES runner,       \* runner[e]: the executors that may be running e
          verdict       \* verdict[e]: what is remembered of e

vars == <<runner, verdict>>

Verdicts == {"completed", "failed"}

TypeOK ==
    /\ runner  \in [Events -> SUBSET Executors]
    /\ verdict \in [Events -> Verdicts \cup {"none"}]

Init ==
    /\ runner  = [e \in Events |-> {}]
    /\ verdict = [e \in Events |-> "none"]

\* An executor takes an event nobody is running and nobody has settled.
Take(w, e) ==
    /\ runner[e] = {}
    /\ verdict[e] = "none"
    /\ runner' = [runner EXCEPT ![e] = {w}]
    /\ UNCHANGED verdict

\* The executor that has the event settles it.
Settle(w, e, v) ==
    /\ w \in runner[e]
    /\ runner'  = [runner EXCEPT ![e] = {}]
    /\ verdict' = [verdict EXCEPT ![e] = v]

\* The executor that has the event gives it back unsettled: the attempt
\* failed and will be retried, or the process died.
GiveUp(w, e) ==
    /\ w \in runner[e]
    /\ runner' = [runner EXCEPT ![e] = {}]
    /\ UNCHANGED verdict

\* A verdict is forgotten.
Forget(e) ==
    /\ verdict[e] # "none"
    /\ verdict' = [verdict EXCEPT ![e] = "none"]
    /\ UNCHANGED runner

Next ==
    \/ \E w \in Executors, e \in Events :
          \/ Take(w, e)
          \/ GiveUp(w, e)
          \/ \E v \in Verdicts : Settle(w, e, v)
    \/ \E e \in Events : Forget(e)

Spec == Init /\ [][Next]_vars

=============================================================================
