------------------------- MODULE IdempotencyProofs -------------------------
(***************************************************************************)
(* Theorems of Idempotency, for every set of executors and of events.      *)
(*                                                                         *)
(* The safety of the layer rests on one fact about the environment, the    *)
(* constant LocksOutliveRuns: no run of a handler outlives LOCK_TTL.  The  *)
(* theorems that need it assume it; typing does not.                       *)
(***************************************************************************)
EXTENDS Idempotency, TLAPS

\* Typing is preserved by every step.
LEMMA TypeStep == TypeOK /\ [Next]_vars => TypeOK'
<1> SUFFICES ASSUME TypeOK, [Next]_vars PROVE TypeOK'
  OBVIOUS
<1> USE DEF TypeOK, Calls, Resting, Statuses
<1>1. ASSUME NEW w \in Executors, NEW e \in Events, CheckAndLock(w, e) PROVE TypeOK'
  BY <1>1 DEF CheckAndLock, Goto
<1>2. ASSUME NEW w \in Executors, Exists(w) PROVE TypeOK'
  BY <1>2 DEF Exists, Goto
<1>3. ASSUME NEW w \in Executors, Acquire(w) PROVE TypeOK'
  BY <1>3 DEF Acquire, Goto
<1>4. ASSUME NEW w \in Executors, DoubleCheck(w) PROVE TypeOK'
  BY <1>4 DEF DoubleCheck, Goto
<1>5. ASSUME NEW w \in Executors, DropLock(w) PROVE TypeOK'
  BY <1>5 DEF DropLock, Goto
<1>6. ASSUME NEW w \in Executors, NEW s \in Statuses, Mark(w, s) PROVE TypeOK'
  BY <1>6 DEF Mark, Goto
<1>7. ASSUME NEW w \in Executors, Store(w) PROVE TypeOK'
  BY <1>7 DEF Store, Goto
<1>8. ASSUME NEW w \in Executors, Release(w) PROVE TypeOK'
  BY <1>8 DEF Release, Goto
<1>9. ASSUME NEW w \in Executors, Return(w) \/ Abandon(w) \/ Crash(w) PROVE TypeOK'
  BY <1>9 DEF Return, Abandon, Crash, Goto
<1>10. ASSUME NEW e \in Events, LockExpires(e) \/ RecordExpires(e) PROVE TypeOK'
  BY <1>10 DEF LockExpires, RecordExpires
<1>11. CASE UNCHANGED vars
  BY <1>11 DEF vars
<1>12. QED
  BY <1>1, <1>2, <1>3, <1>4, <1>5, <1>6, <1>7, <1>8, <1>9, <1>10, <1>11 DEF Next, Step

\* The state of the layer keeps its type: no step leaves an executor without a
\* next Redis command, or a record with a status the store cannot write.
THEOREM TypeCorrect == Spec => []TypeOK
<1>1. Init => TypeOK
  BY DEF Init, TypeOK, Calls, Resting, Statuses
<1>2. QED
  BY <1>1, TypeStep, PTL DEF Spec

-----------------------------------------------------------------------------
LEMMA InvInit == Init => IInv
BY DEF Init, IInv, TypeOK, LockHeld, OneHolder, NoRunOnceRecorded, Holds, Runs,
       Calls, Resting, Statuses

\* A step of one executor leaves what the others hold and run as it was.
LEMMA InvStep ==
    ASSUME LocksOutliveRuns, IInv, [Next]_vars
    PROVE  IInv'
<1> USE DEF TypeOK, LockHeld, OneHolder, NoRunOnceRecorded, Holds, Runs
<1>0. TypeOK'
  BY TypeStep DEF IInv
<1> SUFFICES LockHeld' /\ OneHolder' /\ NoRunOnceRecorded'
  BY <1>0 DEF IInv
<1> DEFINE Rest == LockHeld' /\ OneHolder' /\ NoRunOnceRecorded'
<1> SUFFICES Rest
  OBVIOUS
<1>1. ASSUME NEW w \in Executors, NEW e \in Events, CheckAndLock(w, e) PROVE Rest
  BY <1>1 DEF CheckAndLock, Goto, IInv
<1>2. ASSUME NEW w \in Executors, Exists(w) PROVE Rest
  BY <1>2 DEF Exists, Goto, IInv
<1>3. ASSUME NEW w \in Executors, Acquire(w) PROVE Rest
  BY <1>3 DEF Acquire, Goto, IInv
<1>4. ASSUME NEW w \in Executors, DoubleCheck(w) PROVE Rest
  BY <1>4 DEF DoubleCheck, Goto, IInv
<1>5. ASSUME NEW w \in Executors, DropLock(w) PROVE Rest
  BY <1>5 DEF DropLock, Goto, IInv
<1>6. ASSUME NEW w \in Executors, NEW s \in Statuses, Mark(w, s) PROVE Rest
  BY <1>6 DEF Mark, Goto, IInv
<1>7. ASSUME NEW w \in Executors, Store(w) PROVE Rest
  BY <1>7 DEF Store, Goto, IInv
<1>8. ASSUME NEW w \in Executors, Release(w) PROVE Rest
  BY <1>8 DEF Release, Goto, IInv
<1>9. ASSUME NEW w \in Executors, Return(w) \/ Abandon(w) \/ Crash(w) PROVE Rest
  BY <1>9 DEF Return, Abandon, Crash, Goto, IInv
<1>10. ASSUME NEW e \in Events, LockExpires(e) PROVE Rest
  BY <1>10 DEF LockExpires, IInv
<1>11. ASSUME NEW e \in Events, RecordExpires(e) PROVE Rest
  BY <1>11 DEF RecordExpires, IInv
<1>12. CASE UNCHANGED vars
  BY <1>12 DEF vars, IInv
<1>13. QED
  BY <1>1, <1>2, <1>3, <1>4, <1>5, <1>6, <1>7, <1>8, <1>9, <1>10, <1>11, <1>12
     DEF Next, Step

\* The inductive invariant holds in every reachable state.
THEOREM Invariance == LocksOutliveRuns => (Spec => []IInv)
<1> SUFFICES ASSUME LocksOutliveRuns PROVE Spec => []IInv
  OBVIOUS
<1>1. IInv /\ [Next]_vars => IInv'
  BY InvStep
<1>2. QED
  BY <1>1, InvInit, PTL DEF Spec

\* No event is ever in the hands of two executors at once.
THEOREM MutualExclusion == LocksOutliveRuns => (Spec => []OneRunner)
<1> SUFFICES ASSUME LocksOutliveRuns PROVE Spec => []OneRunner
  OBVIOUS
<1>1. IInv => OneRunner
  BY DEF IInv, OneHolder, OneRunner, Holds, Runs
<1>2. QED
  BY <1>1, Invariance, PTL

\* A handler never runs while its event has a recorded outcome.
THEOREM NeverAgain == LocksOutliveRuns => (Spec => []NoRunOnceRecorded)
<1> SUFFICES ASSUME LocksOutliveRuns PROVE Spec => []NoRunOnceRecorded
  OBVIOUS
<1>1. IInv => NoRunOnceRecorded
  BY DEF IInv
<1>2. QED
  BY <1>1, Invariance, PTL

\* An outcome is saved once: only its expiry makes room for another.
THEOREM Finality == LocksOutliveRuns => (Spec => RecordIsFinal)
<1> SUFFICES ASSUME LocksOutliveRuns PROVE Spec => RecordIsFinal
  OBVIOUS
<1> DEFINE Final == \A e \in Events : record'[e] # record[e] =>
                        record[e] = "none" \/ record'[e] = "none"
<1>1. ASSUME IInv, [Next]_vars PROVE [Final]_vars
  <2> USE DEF IInv, TypeOK
  <2>1. ASSUME NEW w \in Executors, Store(w) PROVE Final
    BY <1>1, <2>1 DEF Store, Goto, NoRunOnceRecorded, Runs
  <2>2. ASSUME NEW e \in Events, RecordExpires(e) PROVE Final
    BY <1>1, <2>2 DEF RecordExpires
  <2>3. CASE UNCHANGED record
    BY <2>3
  <2>4. QED
    BY <1>1, <2>1, <2>2, <2>3
       DEF Next, Step, CheckAndLock, Exists, Acquire, DoubleCheck, DropLock, Mark,
           Release, Return, Abandon, Crash, LockExpires, vars
<1>2. QED
  BY <1>1, Invariance, PTL DEF Spec, RecordIsFinal

-----------------------------------------------------------------------------
\* The refinement mapping of OnceExecution's runner, and how it changes when only
\* the runners of one event do.
Running == [e \in Events |-> {w \in Executors : Runs(w, e)}]

LEMMA RunningChanges ==
    ASSUME NEW e \in Events, NEW S \in SUBSET Executors,
           \A v \in Executors : Runs(v, e)' <=> v \in S,
           \A v \in Executors : \A x \in Events \ {e} : Runs(v, x)' <=> Runs(v, x)
    PROVE  Running' = [Running EXCEPT ![e] = S]
<1>1. ASSUME NEW x \in Events
      PROVE  {w \in Executors : Runs(w, x)'} =
                IF x = e THEN S ELSE {w \in Executors : Runs(w, x)}
  <2>1. CASE x = e
    BY <2>1
  <2>2. CASE x # e
    BY <2>2
  <2>3. QED
    BY <2>1, <2>2
<1>2. Running' = [x \in Events |-> {w \in Executors : Runs(w, x)'}]
  BY DEF Running
<1>3. QED
  BY <1>1, <1>2 DEF Running

\* The service implements OnceExecution, whatever the number of executors.
THEOREM Implements == LocksOutliveRuns => (Spec => ImplementsOnceExecution)
<1> SUFFICES ASSUME LocksOutliveRuns PROVE Spec => ImplementsOnceExecution
  OBVIOUS
<1>1. Init => Once!Init
  BY DEF Init, Once!Init, Runs, Running
<1>2. ASSUME IInv, IInv', [Next]_vars PROVE [Once!Next]_(Once!vars)
  <2> USE DEF IInv, TypeOK
  <2>a. ASSUME UNCHANGED record, Running' = Running PROVE UNCHANGED Once!vars
    BY <2>a DEF Once!vars, Running
  <2>1. ASSUME NEW w \in Executors, NEW e \in Events, CheckAndLock(w, e)
        PROVE  UNCHANGED Once!vars
    BY <1>2, <2>1, <2>a DEF CheckAndLock, Goto, Runs, Running
  <2>2. ASSUME NEW w \in Executors, Exists(w) \/ Acquire(w) PROVE UNCHANGED Once!vars
    BY <1>2, <2>2, <2>a DEF Exists, Acquire, Goto, Runs, Running
  <2>3. ASSUME NEW w \in Executors, DoubleCheck(w) PROVE Once!Next \/ UNCHANGED Once!vars
    <3>1. CASE record[ev[w]] = "none"
      <4>1. Running[ev[w]] = {}
        BY <1>2, <2>3 DEF DoubleCheck, Goto, OneHolder, Holds, Runs, Running
      <4>2. Running' = [Running EXCEPT ![ev[w]] = {w}]
        <5>0. PICK e \in Events : e = ev[w]
          BY <1>2
        <5>1. \A v \in Executors : Runs(v, e)' <=> v \in {w}
          BY <5>0, <1>2, <2>3, <3>1, <4>1 DEF DoubleCheck, Goto, Runs, Running
        <5>2. \A v \in Executors : \A x \in Events \ {e} : Runs(v, x)' <=> Runs(v, x)
          BY <5>0, <1>2, <2>3, <3>1 DEF DoubleCheck, Goto, Runs, Running
        <5>3. QED
          BY <5>0, <1>2, <5>1, <5>2, RunningChanges
      <4>3. Once!Take(w, ev[w])
        BY <1>2, <2>3, <3>1, <4>1, <4>2 DEF DoubleCheck, Once!Take, Running
      <4>4. QED
        BY <1>2, <4>3 DEF Once!Next
    <3>2. CASE record[ev[w]] # "none"
      BY <1>2, <2>3, <3>2, <2>a DEF DoubleCheck, Goto, Runs, Running
    <3>3. QED
      BY <3>1, <3>2
  <2>4. ASSUME NEW w \in Executors, DropLock(w) \/ Release(w) \/ Return(w)
        PROVE  UNCHANGED Once!vars
    BY <1>2, <2>4, <2>a DEF DropLock, Release, Return, Goto, Runs, Running
  <2>5. ASSUME NEW w \in Executors, NEW s \in Statuses, Mark(w, s)
        PROVE  UNCHANGED Once!vars
    BY <1>2, <2>5, <2>a DEF Mark, Goto, Runs, Running
  <2>6. ASSUME NEW w \in Executors, Store(w) PROVE Once!Next
    <3>1. Running[ev[w]] = {w}
      BY <1>2, <2>6 DEF Store, Goto, OneHolder, Holds, Runs, Running
    <3>2. Running' = [Running EXCEPT ![ev[w]] = {}]
      <4>0. PICK e \in Events : e = ev[w]
        BY <1>2
      <4>1. \A v \in Executors : Runs(v, e)' <=> v \in {}
        BY <4>0, <1>2, <2>6, <3>1 DEF Store, Goto, Runs, Running
      <4>2. \A v \in Executors : \A x \in Events \ {e} : Runs(v, x)' <=> Runs(v, x)
        BY <4>0, <1>2, <2>6 DEF Store, Goto, Runs, Running
      <4>3. QED
        BY <4>0, <1>2, <4>1, <4>2, RunningChanges
    <3>3. Once!Settle(w, ev[w], outcome[w])
      BY <1>2, <2>6, <3>1, <3>2 DEF Store, Once!Settle, Running
    <3>4. QED
      BY <1>2, <3>3 DEF Once!Next, Once!Verdicts, Statuses
  <2>7. ASSUME NEW w \in Executors, Abandon(w) \/ Crash(w)
        PROVE  Once!Next \/ UNCHANGED Once!vars
    <3>1. CASE Runs(w, ev[w])
      <4>1. Running[ev[w]] = {w}
        BY <1>2, <3>1 DEF OneHolder, Holds, Runs, Running
      <4>2. Running' = [Running EXCEPT ![ev[w]] = {}]
        <5>0. PICK e \in Events : e = ev[w]
          BY <1>2
        <5>1. \A v \in Executors : Runs(v, e)' <=> v \in {}
          BY <5>0, <1>2, <2>7, <4>1 DEF Abandon, Crash, Goto, Runs, Running
        <5>2. \A v \in Executors : \A x \in Events \ {e} : Runs(v, x)' <=> Runs(v, x)
          BY <5>0, <1>2, <2>7 DEF Abandon, Crash, Goto, Runs, Running
        <5>3. QED
          BY <5>0, <1>2, <5>1, <5>2, RunningChanges
      <4>3. Once!GiveUp(w, ev[w])
        BY <1>2, <2>7, <4>1, <4>2 DEF Abandon, Crash, Once!GiveUp, Running
      <4>4. QED
        BY <1>2, <4>3 DEF Once!Next
    <3>2. CASE ~Runs(w, ev[w])
      BY <1>2, <2>7, <3>2, <2>a DEF Abandon, Crash, Goto, Runs, Running
    <3>3. QED
      BY <3>1, <3>2
  <2>8. ASSUME NEW e \in Events, LockExpires(e) PROVE UNCHANGED Once!vars
    BY <2>8, <2>a DEF LockExpires, Runs, Running
  <2>9. ASSUME NEW e \in Events, RecordExpires(e) PROVE Once!Next
    <3>1. Running' = Running
      BY <2>9 DEF RecordExpires, Runs, Running
    <3>2. Once!Forget(e)
      BY <2>9, <3>1 DEF RecordExpires, Once!Forget, Running
    <3>3. QED
      BY <3>2 DEF Once!Next
  <2>10. CASE UNCHANGED vars
    BY <2>10, <2>a DEF vars, Runs, Running
  <2>11. QED
    BY <1>2, <2>1, <2>2, <2>3, <2>4, <2>5, <2>6, <2>7, <2>8, <2>9, <2>10 DEF Next, Step
<1>3. QED
  BY <1>1, <1>2, Invariance, PTL DEF Spec, ImplementsOnceExecution, Once!Spec

=============================================================================
