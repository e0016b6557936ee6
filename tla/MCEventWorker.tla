--------------------------- MODULE MCEventWorker ---------------------------
(* Instances of EventWorker for TLC.                                       *)
EXTENDS EventWorker, TLC

CONSTANTS j1, j2, j3, e1, e2

\* j1 and j2 carry the same event; j3, where there is one, another.
MCEventOf == [j \in Jobs |-> IF j = j3 THEN e2 ELSE e1]

\* The counters are written and never read, so a run that says nothing of them
\* may take two states that differ only there as one.
NoCounters == <<idemVars, slotVars, queueVars, dlq, effects, mishaps>>

\* No slot is special, and neither is a job where all of them carry one event
\* (used where Jobs has no j3, and where nothing temporal but safety is asked).
AnySlotOrJob == Permutations(Slots) \cup Permutations(Jobs)

=============================================================================
