------------------------- MODULE EventWorkerProofs -------------------------
(***************************************************************************)
(* Theorems of EventWorker, for any number of jobs, slots, events and      *)
(* mishaps.                                                                *)
(***************************************************************************)
EXTENDS EventWorker, FiniteSetTheorems, TLAPS

\* How Idempotency sees the place of each slot: the mapping of IdemView.
Seen == [w \in Slots |->
            CASE pc[w] = "catch" -> "granted"
              [] pc[w] \in {"route", "returned", "threw"} -> "idle"
              [] OTHER -> pc[w]]

\* The theorems of Idempotency, read of the worker's slots.
Layer == INSTANCE IdempotencyProofs WITH
    Executors <- Slots, pc <- Seen, LocksOutliveRuns <- TRUE

Pcs == Idem!Calls \cup Idem!Resting \cup WorkerPcs

-----------------------------------------------------------------------------
(* The steps *)

\* What one slot may do, one case for each action.
Acts(w) ==
    \/ \E j \in Jobs : Fetch(w, j)
    \/ Check(w) \/ Grant(w) \/ Skip(w)
    \/ HandlerReturns(w) \/ HandlerThrows(w) \/ SuccessHookThrows(w)
    \/ Retry(w) \/ Exhaust(w) \/ CatchHookThrows(w)
    \/ Save(w) \/ Marked(w) \/ Route(w) \/ RedisFails(w)
    \/ Finish(w) \/ FinishRejected(w) \/ FinishFails(w) \/ Crash(w)

LEMMA Steps ==
    ASSUME [Next]_vars
    PROVE  \/ \E w \in Slots : Acts(w)
           \/ \E j \in Jobs : Promote(j) \/ Stall(j)
           \/ \E e \in Events : LockExpires(e) \/ RecordExpires(e)
           \/ UNCHANGED vars
BY DEF Next, Process, Acts

-----------------------------------------------------------------------------
(* Typing *)

\* A job that is not at rest has attempts and stalls left, and its lock is with
\* the slot that works on it.
QueueInv ==
    \A j \in Jobs :
        /\ state[j] \in {"wait", "delayed", "active"} => attemptsMade[j] < QueueAttempts /\ stalls[j] <= MaxStalled
        /\ owner[j] # NoSlot => state[j] = "active" /\ job[owner[j]] = j /\ pc[owner[j]] # "idle"

\* A slot that is not idle has a job, and its event unless nobody handles that.
SlotInv ==
    \A w \in Slots :
        pc[w] # "idle" => job[w] \in Jobs /\ (pc[w] # "threw" => ev[w] = EventOf[job[w]])

IdemOK ==
    /\ lock    \in [Events -> BOOLEAN]
    /\ record  \in [Events -> {"completed", "failed", "none"}]
    /\ pc      \in [Slots -> Pcs]
    /\ ev      \in [Slots -> Events]
    /\ outcome \in [Slots -> {"completed", "failed"}]

SlotsOK == job \in [Slots -> Jobs \cup {NoJob}] /\ attempt \in [Slots -> 1..QueueAttempts]

QueueOK ==
    /\ state   \in [Jobs -> JobStates]
    /\ attemptsMade \in [Jobs -> 0..QueueAttempts]
    /\ stalls  \in [Jobs -> 0..(MaxStalled + 1)]
    /\ owner   \in [Jobs -> Slots \cup {NoSlot}]

HistoryOK ==
    /\ dlq     \in [Events -> Nat]
    /\ effects \in [Events -> Nat]
    /\ metrics \in [Counters -> Nat]
    /\ mishaps \in [Mishaps -> 0..MaxMishaps]

TypeInv == IdemOK /\ SlotsOK /\ QueueOK /\ HistoryOK /\ QueueInv /\ SlotInv

LEMMA TypeIs == TypeInv => TypeOK
BY DEF TypeInv, IdemOK, SlotsOK, QueueOK, HistoryOK, TypeOK, Pcs, Idem!Statuses

LEMMA TypeInit == Init => TypeInv
<1> SUFFICES ASSUME Init PROVE TypeInv
  OBVIOUS
<1>1. IdemOK
  BY DEF Init, Idem!Init, IdemOK, Pcs, Idem!Resting
<1>2. SlotsOK /\ QueueOK /\ HistoryOK
  BY WorkerAssumption DEF Init, SlotsOK, QueueOK, HistoryOK, JobStates
<1>3. QueueInv /\ SlotInv
  BY WorkerAssumption DEF Init, Idem!Init, QueueInv, SlotInv
<1>4. QED
  BY <1>1, <1>2, <1>3 DEF TypeInv

\* A slot at work goes on to another place of the processor.
LEMMA MoveOK ==
    ASSUME TypeInv, NEW w \in Slots, pc[w] # "idle", pc[w] # "threw",
           NEW x \in Pcs \ {"idle"}, pc' = [pc EXCEPT ![w] = x],
           UNCHANGED <<ev, slotVars, queueVars>>
    PROVE  /\ pc' \in [Slots -> Pcs] /\ ev' \in [Slots -> Events]
           /\ SlotsOK' /\ QueueOK' /\ QueueInv' /\ SlotInv'
<1>1. pc \in [Slots -> Pcs] /\ ev \in [Slots -> Events] /\ SlotsOK /\ QueueOK /\ QueueInv /\ SlotInv
  BY DEF TypeInv, IdemOK
<1>2. pc' \in [Slots -> Pcs] /\ \A v \in Slots : pc'[v] = IF v = w THEN x ELSE pc[v]
  BY <1>1
<1>3. UNCHANGED <<ev, job, attempt, state, attemptsMade, stalls, owner>>
  BY DEF slotVars, queueVars
<1>4. SlotsOK' /\ QueueOK'
  BY <1>1, <1>3 DEF SlotsOK, QueueOK
<1>5. QueueInv'
  BY <1>1, <1>2, <1>3 DEF QueueInv, QueueOK
<1>6. SlotInv'
  BY <1>1, <1>2, <1>3 DEF SlotInv
<1>7. QED
  BY <1>1, <1>2, <1>3, <1>4, <1>5, <1>6

\* The actions of a slot in the middle of the processor.
Works(w) ==
    \/ Check(w) \/ Grant(w) \/ Skip(w)
    \/ HandlerReturns(w) \/ HandlerThrows(w) \/ SuccessHookThrows(w)
    \/ Retry(w) \/ Exhaust(w) \/ CatchHookThrows(w)
    \/ Save(w) \/ Marked(w) \/ Route(w) \/ RedisFails(w)

LEMMA MishapOK ==
    ASSUME HistoryOK, NEW k \in Mishaps, Mishap(k)
    PROVE  /\ mishaps' \in [Mishaps -> 0..MaxMishaps]
           /\ Total(mishaps') = Total(mishaps) + 1 /\ Total(mishaps) \in Nat
           /\ \A i \in Mishaps : /\ mishaps[i] \in Nat
                                 /\ mishaps'[i] = IF i = k THEN mishaps[i] + 1 ELSE mishaps[i]
<1>1. mishaps \in [Mishaps -> 0..MaxMishaps] /\ mishaps' = [mishaps EXCEPT ![k] = @ + 1]
  BY DEF HistoryOK, Mishap
<1>2. MaxMishaps \in Nat /\ \A i \in Mishaps : mishaps[i] \in Nat
  BY <1>1, WorkerAssumption
<1>3. /\ mishaps["crash"] \in Nat /\ mishaps["hook"] \in Nat /\ mishaps["redis"] \in Nat
      /\ mishaps["overrun"] \in Nat /\ mishaps["expiry"] \in Nat
  BY <1>2 DEF Mishaps, Failures
<1>4. mishaps["crash"] + mishaps["hook"] + mishaps["redis"] + mishaps["overrun"] + mishaps["expiry"] < MaxMishaps
  BY DEF Mishap, Total
<1>5. mishaps[k] + 1 \in 0..MaxMishaps
  BY <1>2, <1>3, <1>4 DEF Mishaps, Failures
<1>6. mishaps' \in [Mishaps -> 0..MaxMishaps]
  BY <1>1, <1>5
<1>7. \A i \in Mishaps : mishaps'[i] = IF i = k THEN mishaps[i] + 1 ELSE mishaps[i]
  BY <1>1
<1>8. Total(mishaps') = Total(mishaps) + 1 /\ Total(mishaps) \in Nat
  BY <1>3, <1>7 DEF Mishaps, Failures, Total
<1>9. QED
  BY <1>2, <1>6, <1>7, <1>8

LEMMA CountOK ==
    ASSUME HistoryOK, NEW c \in Counters, Count(c)
    PROVE  metrics' \in [Counters -> Nat]
BY DEF HistoryOK, Count

LEMMA GotoIs ==
    ASSUME NEW w \in Slots, NEW from \in Pcs, NEW to \in Pcs \ {"idle"}, Goto(w, from, to)
    PROVE  pc[w] = from /\ \E x \in Pcs \ {"idle"} : pc' = [pc EXCEPT ![w] = x]
BY DEF Goto, Idem!Goto

\* Wherever a slot goes from the middle of the processor, it keeps its job and
\* writes what Redis and the counters can hold.
LEMMA WorksOK ==
    ASSUME TypeInv, NEW w \in Slots, Works(w)
    PROVE  /\ pc[w] \notin {"idle", "threw", "returned"}
           /\ \E x \in Pcs \ {"idle"} : pc' = [pc EXCEPT ![w] = x]
           /\ UNCHANGED <<ev, slotVars, queueVars>>
           /\ lock' \in [Events -> BOOLEAN]
           /\ record' \in [Events -> {"completed", "failed", "none"}]
           /\ outcome' \in [Slots -> {"completed", "failed"}]
           /\ HistoryOK'
<1> DEFINE Rest == /\ pc[w] \notin {"idle", "threw", "returned"}
                   /\ \E x \in Pcs \ {"idle"} : pc' = [pc EXCEPT ![w] = x]
                   /\ UNCHANGED <<ev, slotVars, queueVars>>
                   /\ lock' \in [Events -> BOOLEAN]
                   /\ record' \in [Events -> {"completed", "failed", "none"}]
                   /\ outcome' \in [Slots -> {"completed", "failed"}]
                   /\ HistoryOK'
<1>0. /\ lock \in [Events -> BOOLEAN] /\ record \in [Events -> {"completed", "failed", "none"}]
      /\ ev \in [Slots -> Events] /\ outcome \in [Slots -> {"completed", "failed"}] /\ HistoryOK
      /\ dlq \in [Events -> Nat] /\ effects \in [Events -> Nat] /\ metrics \in [Counters -> Nat]
      /\ mishaps \in [Mishaps -> 0..MaxMishaps]
  BY DEF TypeInv, IdemOK, HistoryOK
<1> USE DEF Pcs, Idem!Calls, Idem!Resting, WorkerPcs
<1>1. CASE Check(w)
  <2>0. UNCHANGED <<slotVars, queueVars, dlq, effects, metrics, mishaps>>
    BY <1>1 DEF Check
  <2>1. CASE Idem!Exists(w)
    <3>1. PICK to \in {"acquire", "refused"} : Goto(w, "exists", to)
      BY <2>1 DEF Idem!Exists, Goto
    <3>2. QED
      BY <1>0, <2>0, <2>1, <3>1, GotoIs DEF Idem!Exists, HistoryOK
  <2>2. CASE Idem!Acquire(w)
    <3>1. PICK to \in {"double_check", "refused"} : Goto(w, "acquire", to)
      BY <2>2 DEF Idem!Acquire, Goto
    <3>2. QED
      BY <1>0, <2>0, <2>2, <3>1, GotoIs DEF Idem!Acquire, HistoryOK
  <2>3. CASE Idem!DropLock(w)
    BY <1>0, <2>0, <2>3, GotoIs DEF Idem!DropLock, Goto, HistoryOK
  <2>4. QED
    BY <1>1, <2>1, <2>2, <2>3 DEF Check
<1>2. CASE Grant(w)
  <2>1. metrics' \in [Counters -> Nat]
    BY <1>0, <1>2, CountOK DEF Grant, Counters
  <2>2. PICK to \in {"granted", "drop_lock"} : Goto(w, "double_check", to)
    BY <1>2 DEF Grant, Idem!DoubleCheck, Goto
  <2>3. QED
    BY GotoIs, <1>0, <1>2, <2>1, <2>2 DEF Grant, Idem!DoubleCheck, HistoryOK
<1>3. CASE Skip(w)
  <2>1. metrics' \in [Counters -> Nat]
    BY <1>0, <1>3, CountOK DEF Skip, Counters
  <2>2. QED
    BY GotoIs, <1>0, <1>3, <2>1 DEF Skip, HistoryOK
<1>4. CASE HandlerReturns(w)
  BY GotoIs, <1>0, <1>4 DEF HandlerReturns, Idem!Mark, Goto, HistoryOK
<1>5. CASE HandlerThrows(w)
  BY GotoIs, <1>0, <1>5 DEF HandlerThrows, HistoryOK
<1>6. CASE SuccessHookThrows(w)
  <2>1. mishaps' \in [Mishaps -> 0..MaxMishaps]
    BY <1>0, <1>6, MishapOK DEF SuccessHookThrows, Mishaps, Failures
  <2>2. QED
    BY GotoIs, <1>0, <1>6, <2>1 DEF SuccessHookThrows, HistoryOK
<1>7. CASE Retry(w)
  <2>1. metrics' \in [Counters -> Nat]
    BY <1>0, <1>7, CountOK DEF Retry, Counters
  <2>2. QED
    BY GotoIs, <1>0, <1>7, <2>1 DEF Retry, HistoryOK
<1>8. CASE Exhaust(w)
  BY GotoIs, <1>0, <1>8 DEF Exhaust, HistoryOK
<1>9. CASE CatchHookThrows(w)
  <2>1. mishaps' \in [Mishaps -> 0..MaxMishaps]
    BY <1>0, <1>9, MishapOK DEF CatchHookThrows, Mishaps, Failures
  <2>2. QED
    BY GotoIs, <1>0, <1>9, <2>1 DEF CatchHookThrows, HistoryOK
<1>10. CASE Save(w)
  <2>0. UNCHANGED <<slotVars, queueVars, dlq, effects, metrics, mishaps>>
    BY <1>10 DEF Save
  <2>1. CASE Idem!Store(w)
    BY GotoIs, <1>0, <2>0, <2>1 DEF Idem!Store, Goto, HistoryOK
  <2>2. CASE Idem!Release(w)
    BY GotoIs, <1>0, <2>0, <2>2 DEF Idem!Release, Goto, HistoryOK
  <2>3. QED
    BY <1>10, <2>1, <2>2 DEF Save
<1>11. CASE Marked(w)
  <2>1. metrics' \in [Counters -> Nat]
    BY <1>0, <1>11, CountOK DEF Marked, Counters
  <2>2. PICK to \in {"returned", "route"} : Goto(w, "marked", to)
    BY <1>11 DEF Marked
  <2>3. QED
    BY GotoIs, <1>0, <1>11, <2>1, <2>2 DEF Marked, HistoryOK
<1>12. CASE Route(w)
  <2>1. metrics' \in [Counters -> Nat]
    BY <1>0, <1>12, CountOK DEF Route, Counters
  <2>2. dlq' \in [Events -> Nat]
    BY <1>0, <1>12 DEF Route
  <2>3. pc[w] = "route" /\ \E x \in Pcs \ {"idle"} : pc' = [pc EXCEPT ![w] = x]
    BY <1>12, GotoIs DEF Route
  <2>4. QED
    BY <1>0, <1>12, <2>1, <2>2, <2>3 DEF Route, HistoryOK
<1>13. CASE RedisFails(w)
  <2>1. mishaps' \in [Mishaps -> 0..MaxMishaps]
    BY <1>0, <1>13, MishapOK DEF RedisFails, Mishaps, Failures
  <2>2. \E x \in {"threw", "catch"} : pc' = [pc EXCEPT ![w] = x]
    <3>1. CASE pc[w] = "route" \/ (pc[w] \in {"store", "release"} /\ outcome[w] = "failed")
      BY <1>13, <3>1 DEF RedisFails
    <3>2. CASE ~(pc[w] = "route" \/ (pc[w] \in {"store", "release"} /\ outcome[w] = "failed"))
      BY <1>13, <3>2 DEF RedisFails
    <3>3. QED
      BY <3>1, <3>2
  <2>3. /\ lock' \in [Events -> BOOLEAN] /\ record' \in [Events -> {"completed", "failed", "none"}]
        /\ dlq' \in [Events -> Nat]
    <3>1. CASE UNCHANGED <<lock, record, dlq>>
      BY <1>0, <3>1
    <3>2. CASE Applied(w)
      <4>1. lock' \in [Events -> BOOLEAN]
        BY <1>0, <3>2 DEF Applied
      <4>2. record' \in {record, [record EXCEPT ![ev[w]] = outcome[w]]}
        BY <3>2 DEF Applied
      <4>3. dlq' \in {dlq, [dlq EXCEPT ![ev[w]] = @ + 1]}
        BY <3>2 DEF Applied
      <4>4. QED
        BY <1>0, <4>1, <4>2, <4>3
    <3>3. QED
      BY <1>13, <3>1, <3>2 DEF RedisFails
  <2>4. pc[w] \notin {"idle", "threw", "returned"} /\ UNCHANGED <<ev, outcome, slotVars, queueVars, effects, metrics>>
    BY <1>13 DEF RedisFails
  <2>5. QED
    BY <1>0, <2>1, <2>2, <2>3, <2>4 DEF HistoryOK
<1>14. QED
  BY <1>1, <1>2, <1>3, <1>4, <1>5, <1>6, <1>7, <1>8, <1>9, <1>10, <1>11, <1>12, <1>13 DEF Works

\* A slot that settles its job, loses it or dies is idle again.
LEMMA LeaveOK ==
    ASSUME TypeInv, NEW w \in Slots, Leave(w)
    PROVE  IdemOK' /\ SlotsOK' /\ SlotInv' /\ pc' = [pc EXCEPT ![w] = "idle"]
           /\ \A v \in Slots \ {w} : pc'[v] = pc[v] /\ job'[v] = job[v]
<1>1. IdemOK /\ SlotsOK /\ SlotInv
  BY DEF TypeInv
<1>2. /\ pc' = [pc EXCEPT ![w] = "idle"] /\ job' = [job EXCEPT ![w] = NoJob]
      /\ attempt' = [attempt EXCEPT ![w] = 1] /\ UNCHANGED <<lock, record, ev, outcome>>
  BY DEF Leave
<1>3. IdemOK' /\ SlotsOK'
  BY <1>1, <1>2, WorkerAssumption DEF IdemOK, SlotsOK, Pcs, Idem!Resting
<1>4. \A v \in Slots \ {w} : pc'[v] = pc[v] /\ job'[v] = job[v]
  BY <1>1, <1>2 DEF IdemOK, SlotsOK
<1>5. SlotInv'
  BY <1>1, <1>2, <1>4 DEF SlotInv, IdemOK
<1>6. QED
  BY <1>2, <1>3, <1>4, <1>5

LEMMA TypeStep == TypeInv /\ [Next]_vars => TypeInv'
<1> SUFFICES ASSUME TypeInv, [Next]_vars PROVE TypeInv'
  OBVIOUS
<1>0. IdemOK /\ SlotsOK /\ QueueOK /\ HistoryOK /\ QueueInv /\ SlotInv
  BY DEF TypeInv
<1>1. ASSUME NEW w \in Slots, Works(w) PROVE TypeInv'
  <2>1. /\ pc[w] \notin {"idle", "threw", "returned"} /\ UNCHANGED <<ev, slotVars, queueVars>>
        /\ lock' \in [Events -> BOOLEAN] /\ record' \in [Events -> {"completed", "failed", "none"}]
        /\ outcome' \in [Slots -> {"completed", "failed"}] /\ HistoryOK'
    BY <1>1, WorksOK
  <2>2. PICK x \in Pcs \ {"idle"} : pc' = [pc EXCEPT ![w] = x]
    BY <1>1, WorksOK
  <2>3. pc' \in [Slots -> Pcs] /\ ev' \in [Slots -> Events] /\ SlotsOK' /\ QueueOK' /\ QueueInv' /\ SlotInv'
    BY <2>1, <2>2, MoveOK
  <2>4. QED
    BY <2>1, <2>3 DEF TypeInv, IdemOK
<1>2. ASSUME NEW w \in Slots, NEW j \in Jobs, Fetch(w, j) PROVE TypeInv'
  <2>1. /\ pc[w] = "idle" /\ state[j] = "wait"
        /\ state' = [state EXCEPT ![j] = "active"] /\ owner' = [owner EXCEPT ![j] = w]
        /\ job' = [job EXCEPT ![w] = j] /\ attempt' = [attempt EXCEPT ![w] = attemptsMade[j] + 1]
        /\ UNCHANGED <<lock, record, outcome, attemptsMade, stalls, dlq, effects, metrics, mishaps>>
    BY <1>2 DEF Fetch, Idem!CheckAndLock
  <2>2. \/ pc' = [pc EXCEPT ![w] = "exists"] /\ ev' = [ev EXCEPT ![w] = EventOf[j]]
        \/ pc' = [pc EXCEPT ![w] = "threw"] /\ ev' = ev
    BY <1>2 DEF Fetch, Idem!CheckAndLock, Idem!Goto
  <2>3. EventOf[j] \in Events
    BY WorkerAssumption
  <2>4. IdemOK'
    BY <1>0, <2>1, <2>2, <2>3 DEF IdemOK, Pcs, Idem!Calls, WorkerPcs
  <2>5. attemptsMade[j] < QueueAttempts /\ attemptsMade[j] \in Nat /\ stalls[j] <= MaxStalled
    BY <1>0, <2>1, WorkerAssumption DEF QueueInv, QueueOK
  <2>6. attemptsMade[j] + 1 \in 1..QueueAttempts
    BY <2>5, WorkerAssumption
  <2>7. SlotsOK' /\ QueueOK' /\ HistoryOK'
    BY <1>0, <2>1, <2>6 DEF SlotsOK, QueueOK, HistoryOK, JobStates
  <2>8. SlotInv'
    BY <1>0, <2>1, <2>2 DEF SlotInv, IdemOK, SlotsOK
  <2>9. QueueInv'
    <3> SUFFICES ASSUME NEW k \in Jobs
                 PROVE  /\ state'[k] \in {"wait", "delayed", "active"} => attemptsMade'[k] < QueueAttempts /\ stalls'[k] <= MaxStalled
                        /\ owner'[k] # NoSlot => state'[k] = "active" /\ job'[owner'[k]] = k /\ pc'[owner'[k]] # "idle"
      BY DEF QueueInv
    <3>1. CASE k = j
      BY <1>0, <2>1, <2>2, <2>5, <3>1 DEF QueueOK, SlotsOK, IdemOK
    <3>2. CASE k # j
      <4>1. state'[k] = state[k] /\ owner'[k] = owner[k] /\ attemptsMade'[k] = attemptsMade[k] /\ stalls'[k] = stalls[k]
        BY <1>0, <2>1, <3>2 DEF QueueOK
      <4>2. owner[k] # NoSlot => owner[k] # w /\ owner[k] \in Slots
        BY <1>0, <2>1 DEF QueueInv, QueueOK
      <4>3. \A v \in Slots \ {w} : pc'[v] = pc[v] /\ job'[v] = job[v]
        BY <1>0, <2>1, <2>2 DEF IdemOK, SlotsOK
      <4>4. QED
        BY <1>0, <4>1, <4>2, <4>3 DEF QueueInv
    <3>3. QED
      BY <3>1, <3>2
  <2>10. QED
    BY <2>4, <2>7, <2>8, <2>9 DEF TypeInv
<1>3. ASSUME NEW w \in Slots, Finish(w) PROVE TypeInv'
  <2>1. IdemOK' /\ SlotsOK' /\ SlotInv' /\ \A v \in Slots \ {w} : pc'[v] = pc[v] /\ job'[v] = job[v]
    BY <1>3, LeaveOK DEF Finish
  <2>2. PICK j \in Jobs : j = job[w] /\ owner[j] = w
    BY <1>0, <1>3 DEF Finish, SlotInv
  <2>3. PICK s \in {"completed", "delayed", "failed"} :
           /\ state' = [state EXCEPT ![j] = s]
           /\ s = "delayed" => attemptsMade[j] + 1 < QueueAttempts
    <3>1. CASE pc[w] = "returned"
      BY <1>3, <2>2, <3>1 DEF Finish
    <3>2. CASE pc[w] # "returned" /\ attemptsMade[j] + 1 < QueueAttempts
      BY <1>3, <2>2, <3>2 DEF Finish
    <3>3. CASE pc[w] # "returned" /\ ~(attemptsMade[j] + 1 < QueueAttempts)
      BY <1>3, <2>2, <3>3 DEF Finish
    <3>4. QED
      BY <3>1, <3>2, <3>3
  <2>4. /\ attemptsMade' = [attemptsMade EXCEPT ![j] = @ + 1] /\ owner' = [owner EXCEPT ![j] = NoSlot]
        /\ UNCHANGED <<stalls, dlq, effects, metrics, mishaps>>
    BY <1>3, <2>2 DEF Finish
  <2>5. attemptsMade[j] < QueueAttempts /\ attemptsMade[j] \in Nat /\ stalls[j] <= MaxStalled
    BY <1>0, <2>2, WorkerAssumption DEF QueueInv, QueueOK
  <2>6. attemptsMade[j] + 1 \in 0..QueueAttempts
    BY <2>5, WorkerAssumption
  <2>7. QueueOK' /\ HistoryOK'
    BY <1>0, <2>3, <2>4, <2>6 DEF QueueOK, HistoryOK, JobStates
  <2>8. QueueInv'
    <3> SUFFICES ASSUME NEW k \in Jobs
                 PROVE  /\ state'[k] \in {"wait", "delayed", "active"} => attemptsMade'[k] < QueueAttempts /\ stalls'[k] <= MaxStalled
                        /\ owner'[k] # NoSlot => state'[k] = "active" /\ job'[owner'[k]] = k /\ pc'[owner'[k]] # "idle"
      BY DEF QueueInv
    <3>1. CASE k = j
      BY <1>0, <2>3, <2>4, <2>5, <3>1 DEF QueueOK
    <3>2. CASE k # j
      <4>1. state'[k] = state[k] /\ owner'[k] = owner[k] /\ attemptsMade'[k] = attemptsMade[k] /\ stalls'[k] = stalls[k]
        BY <1>0, <2>3, <2>4, <3>2 DEF QueueOK
      <4>2. owner[k] # NoSlot => owner[k] # w /\ owner[k] \in Slots
        BY <1>0, <2>2, <3>2 DEF QueueInv, QueueOK
      <4>3. QED
        BY <1>0, <2>1, <4>1, <4>2 DEF QueueInv
    <3>3. QED
      BY <3>1, <3>2
  <2>9. QED
    BY <2>1, <2>7, <2>8 DEF TypeInv
<1>4. ASSUME NEW w \in Slots, FinishRejected(w) PROVE TypeInv'
  <2>1. IdemOK' /\ SlotsOK' /\ SlotInv' /\ \A v \in Slots \ {w} : pc'[v] = pc[v] /\ job'[v] = job[v]
    BY <1>4, LeaveOK DEF FinishRejected
  <2>2. UNCHANGED <<state, attemptsMade, stalls, owner, dlq, effects, metrics, mishaps>>
    BY <1>4 DEF FinishRejected, queueVars
  <2>3. \A k \in Jobs : owner[k] # NoSlot => owner[k] # w /\ owner[k] \in Slots
    BY <1>0, <1>4 DEF FinishRejected, QueueInv, QueueOK
  <2>4. QueueOK' /\ HistoryOK'
    BY <1>0, <2>2 DEF QueueOK, HistoryOK
  <2>5. QueueInv'
    BY <1>0, <2>1, <2>2, <2>3 DEF QueueInv
  <2>6. QED
    BY <2>1, <2>4, <2>5 DEF TypeInv
<1>5. ASSUME NEW w \in Slots, FinishFails(w) PROVE TypeInv'
  <2>1. IdemOK' /\ SlotsOK' /\ SlotInv' /\ \A v \in Slots \ {w} : pc'[v] = pc[v] /\ job'[v] = job[v]
    BY <1>5, LeaveOK DEF FinishFails
  <2>2. PICK j \in Jobs : j = job[w]
    BY <1>0, <1>5 DEF FinishFails, SlotInv
  <2>3. /\ owner' = [owner EXCEPT ![j] = NoSlot]
        /\ UNCHANGED <<state, attemptsMade, stalls, dlq, effects, metrics>>
    BY <1>5, <2>2 DEF FinishFails
  <2>4. mishaps' \in [Mishaps -> 0..MaxMishaps]
    BY <1>0, <1>5, MishapOK DEF FinishFails, Mishaps, Failures
  <2>5. QueueOK' /\ HistoryOK'
    BY <1>0, <2>3, <2>4 DEF QueueOK, HistoryOK
  <2>6. \A k \in Jobs : owner'[k] # NoSlot => owner'[k] = owner[k] /\ owner[k] # w /\ owner[k] \in Slots
    BY <1>0, <2>2, <2>3 DEF QueueInv, QueueOK
  <2>7. QueueInv'
    BY <1>0, <2>1, <2>3, <2>6 DEF QueueInv
  <2>8. QED
    BY <2>1, <2>5, <2>7 DEF TypeInv
<1>6. ASSUME NEW w \in Slots, Crash(w) PROVE TypeInv'
  <2>1. IdemOK' /\ SlotsOK' /\ SlotInv' /\ \A v \in Slots \ {w} : pc'[v] = pc[v] /\ job'[v] = job[v]
    BY <1>6, LeaveOK DEF Crash
  <2>2. /\ owner' = [k \in Jobs |-> IF owner[k] = w THEN NoSlot ELSE owner[k]]
        /\ UNCHANGED <<state, attemptsMade, stalls, dlq, effects, metrics>>
    BY <1>6 DEF Crash
  <2>3. mishaps' \in [Mishaps -> 0..MaxMishaps]
    BY <1>0, <1>6, MishapOK DEF Crash, Mishaps, Failures
  <2>4. QueueOK' /\ HistoryOK'
    BY <1>0, <2>2, <2>3 DEF QueueOK, HistoryOK
  <2>5. \A k \in Jobs : owner'[k] # NoSlot => owner'[k] = owner[k] /\ owner[k] # w /\ owner[k] \in Slots
    BY <1>0, <2>2, WorkerAssumption DEF QueueOK
  <2>6. QueueInv'
    BY <1>0, <2>1, <2>2, <2>5 DEF QueueInv
  <2>7. QED
    BY <2>1, <2>4, <2>6 DEF TypeInv
<1>7. ASSUME NEW j \in Jobs, Promote(j) PROVE TypeInv'
  <2>1. /\ state[j] = "delayed" /\ state' = [state EXCEPT ![j] = "wait"]
        /\ UNCHANGED <<lock, record, pc, ev, outcome, job, attempt, attemptsMade, stalls, owner,
                       dlq, effects, metrics, mishaps>>
    BY <1>7 DEF Promote, idemVars, slotVars
  <2>2. IdemOK' /\ SlotsOK' /\ SlotInv' /\ HistoryOK'
    BY <1>0, <2>1 DEF IdemOK, SlotsOK, SlotInv, HistoryOK
  <2>3. QueueOK' /\ QueueInv'
    BY <1>0, <2>1 DEF QueueOK, QueueInv, JobStates
  <2>4. QED
    BY <2>2, <2>3 DEF TypeInv
<1>8. ASSUME NEW j \in Jobs, Stall(j) PROVE TypeInv'
  <2>1. /\ state[j] = "active" /\ owner' = [owner EXCEPT ![j] = NoSlot]
        /\ stalls' = [stalls EXCEPT ![j] = @ + 1]
        /\ UNCHANGED <<lock, record, pc, ev, outcome, job, attempt, attemptsMade,
                       dlq, effects, metrics, mishaps>>
    BY <1>8 DEF Stall, idemVars, slotVars
  <2>2. PICK s \in {"wait", "failed"} :
           state' = [state EXCEPT ![j] = s] /\ (s = "wait" => stalls[j] < MaxStalled)
    <3>1. CASE stalls[j] < MaxStalled
      BY <1>8, <3>1 DEF Stall
    <3>2. CASE ~(stalls[j] < MaxStalled)
      BY <1>8, <3>2 DEF Stall
    <3>3. QED
      BY <3>1, <3>2
  <2>3. IdemOK' /\ SlotsOK' /\ SlotInv' /\ HistoryOK'
    BY <1>0, <2>1 DEF IdemOK, SlotsOK, SlotInv, HistoryOK
  <2>4. stalls[j] \in Nat /\ stalls[j] <= MaxStalled /\ attemptsMade[j] < QueueAttempts
    BY <1>0, <2>1, WorkerAssumption DEF QueueOK, QueueInv
  <2>5. stalls[j] + 1 \in 0..(MaxStalled + 1)
    BY <2>4, WorkerAssumption
  <2>6. QueueOK'
    BY <1>0, <2>1, <2>2, <2>5 DEF QueueOK, JobStates
  <2>7. QueueInv'
    <3> SUFFICES ASSUME NEW k \in Jobs
                 PROVE  /\ state'[k] \in {"wait", "delayed", "active"} => attemptsMade'[k] < QueueAttempts /\ stalls'[k] <= MaxStalled
                        /\ owner'[k] # NoSlot => state'[k] = "active" /\ job'[owner'[k]] = k /\ pc'[owner'[k]] # "idle"
      BY DEF QueueInv
    <3>1. CASE k = j
      <4>1. state'[j] = s /\ stalls'[j] = stalls[j] + 1 /\ owner'[j] = NoSlot
        BY <1>0, <2>1, <2>2 DEF QueueOK
      <4>2. s = "wait" => stalls[j] + 1 <= MaxStalled
        BY <2>2, <2>4, WorkerAssumption
      <4>3. QED
        BY <2>1, <2>2, <2>4, <3>1, <4>1, <4>2
    <3>2. CASE k # j
      BY <1>0, <2>1, <2>2, <3>2 DEF QueueOK, QueueInv
    <3>3. QED
      BY <3>1, <3>2
  <2>8. QED
    BY <2>3, <2>6, <2>7 DEF TypeInv
<1>9. ASSUME NEW e \in Events, LockExpires(e) \/ RecordExpires(e) PROVE TypeInv'
  <2>1. /\ lock' \in {lock, [lock EXCEPT ![e] = FALSE]} /\ record' \in {record, [record EXCEPT ![e] = "none"]}
        /\ UNCHANGED <<pc, ev, outcome, job, attempt, state, attemptsMade, stalls, owner, dlq, effects, metrics>>
    BY <1>9 DEF LockExpires, RecordExpires, slotVars, queueVars
  <2>2. mishaps' \in [Mishaps -> 0..MaxMishaps]
    <3>1. mishaps' = mishaps \/ Mishap("overrun") \/ Mishap("expiry")
      BY <1>9 DEF LockExpires, RecordExpires
    <3>2. QED
      BY <1>0, <3>1, MishapOK DEF HistoryOK, Mishaps
  <2>3. IdemOK' /\ HistoryOK'
    BY <1>0, <2>1, <2>2 DEF IdemOK, HistoryOK
  <2>4. SlotsOK' /\ QueueOK' /\ QueueInv' /\ SlotInv'
    BY <1>0, <2>1 DEF SlotsOK, QueueOK, QueueInv, SlotInv
  <2>5. QED
    BY <2>3, <2>4 DEF TypeInv
<1>10. CASE UNCHANGED vars
  BY <1>0, <1>10 DEF vars, idemVars, slotVars, queueVars, TypeInv, IdemOK, SlotsOK, QueueOK,
     HistoryOK, QueueInv, SlotInv
<1>11. QED
  BY <1>1, <1>2, <1>3, <1>4, <1>5, <1>6, <1>7, <1>8, <1>9, <1>10, Steps DEF Acts, Works

\* Jobs, slots and counters keep their type: no job is attempted or taken back
\* more often than its options allow, and a slot's job is the one it was given.
THEOREM TypeCorrect == Spec => []TypeOK
BY TypeInit, TypeStep, TypeIs, PTL DEF Spec

-----------------------------------------------------------------------------
(* The idempotency layer as the worker uses it *)

\* A slot at x is seen where Idempotency puts it.
LEMMA SeenAt ==
    ASSUME NEW w \in Slots
    PROVE  /\ pc[w] = "catch" => Seen[w] = "granted"
           /\ pc[w] \in {"route", "returned", "threw"} => Seen[w] = "idle"
           /\ pc[w] \notin {"catch", "route", "returned", "threw"} => Seen[w] = pc[w]
BY DEF Seen

LEMMA SeenGoto ==
    ASSUME NEW w \in Slots, NEW a, NEW b
    PROVE  IdemView!Goto(w, a, b) <=> Seen[w] = a /\ Seen' = [Seen EXCEPT ![w] = b]
BY DEF IdemView!Goto, Seen

LEMMA SeenMoves ==
    ASSUME pc \in [Slots -> Pcs], NEW w \in Slots, NEW x, pc' = [pc EXCEPT ![w] = x], NEW y,
           \/ x = "catch" /\ y = "granted"
           \/ x \in {"route", "returned", "threw"} /\ y = "idle"
           \/ x \notin {"catch", "route", "returned", "threw"} /\ y = x
    PROVE  Seen' = [Seen EXCEPT ![w] = y]
<1>1. pc'[w] = x /\ \A v \in Slots : v # w => pc'[v] = pc[v]
  OBVIOUS
<1>2. Seen'[w] = y /\ \A v \in Slots : v # w => Seen'[v] = Seen[v]
  BY <1>1 DEF Seen
<1>3. Seen' = [v \in Slots |-> Seen'[v]]
  BY DEF Seen
<1>4. QED
  BY <1>2, <1>3 DEF Seen

\* What the processor does in between is a step of Idempotency, until a Redis
\* call throws.
LEMMA WorksSeen ==
    ASSUME TypeInv, NEW w \in Slots, Works(w), mishaps'["redis"] = 0
    PROVE  IdemView!Next \/ UNCHANGED IdemView!vars
<1>0. /\ pc \in [Slots -> Pcs] /\ ev \in [Slots -> Events] /\ HistoryOK
      /\ record \in [Events -> {"completed", "failed", "none"}]
  BY DEF TypeInv, IdemOK
<1> DEFINE Moves(x, y) == Seen[w] = x /\ Seen' = [Seen EXCEPT ![w] = y]
<1>a. ASSUME IdemView!Step(w) PROVE IdemView!Next
  BY <1>a DEF IdemView!Next
<1>b. ASSUME NEW x, NEW to, Goto(w, x, to), NEW y, NEW z,
             \/ x = "catch" /\ y = "granted"
             \/ x \in {"route", "returned", "threw"} /\ y = "idle"
             \/ x \notin {"catch", "route", "returned", "threw"} /\ y = x,
             \/ to = "catch" /\ z = "granted"
             \/ to \in {"route", "returned", "threw"} /\ z = "idle"
             \/ to \notin {"catch", "route", "returned", "threw"} /\ z = to
      PROVE  IdemView!Goto(w, y, z) /\ Moves(y, z)
  <2>1. pc[w] = x /\ pc' = [pc EXCEPT ![w] = to]
    BY <1>b DEF Goto, Idem!Goto
  <2>2. Seen[w] = y
    BY <1>b, <2>1, SeenAt
  <2>3. Seen' = [Seen EXCEPT ![w] = z]
    BY <1>0, <1>b, <2>1, SeenMoves
  <2>4. QED
    BY <2>2, <2>3, SeenGoto
<1>c. ASSUME Seen' = Seen, UNCHANGED <<lock, record, ev, outcome>> PROVE UNCHANGED IdemView!vars
  BY <1>c DEF IdemView!vars, Seen
<1>d. ASSUME Moves("granted", "granted") \/ Moves("idle", "idle") PROVE Seen' = Seen
  BY <1>d DEF Seen
<1> HIDE DEF Moves
<1>1. CASE Check(w)
  <2>1. CASE Idem!Exists(w)
    <3>1. IdemView!Goto(w, "exists", IF record[ev[w]] = "none" THEN "acquire" ELSE "refused")
      <4>1. PICK to \in {"acquire", "refused"} : Goto(w, "exists", to) /\ to = IF record[ev[w]] = "none" THEN "acquire" ELSE "refused"
        BY <2>1 DEF Idem!Exists, Goto
      <4>2. IdemView!Goto(w, "exists", to)
        BY <1>b, <4>1
      <4>3. QED
        BY <4>1, <4>2 DEF IdemView!Goto
    <3>2. IdemView!Exists(w)
      BY <2>1, <3>1 DEF Idem!Exists, IdemView!Exists
    <3>3. QED
      BY <1>a, <3>2 DEF IdemView!Step
  <2>2. CASE Idem!Acquire(w)
    <3>1. IdemView!Goto(w, "acquire", IF lock[ev[w]] THEN "refused" ELSE "double_check")
      <4>1. PICK to \in {"refused", "double_check"} : Goto(w, "acquire", to) /\ to = IF lock[ev[w]] THEN "refused" ELSE "double_check"
        BY <2>2 DEF Idem!Acquire, Goto
      <4>2. IdemView!Goto(w, "acquire", to)
        BY <1>b, <4>1
      <4>3. QED
        BY <4>1, <4>2 DEF IdemView!Goto
    <3>2. IdemView!Acquire(w)
      BY <2>2, <3>1 DEF Idem!Acquire, IdemView!Acquire
    <3>3. QED
      BY <1>a, <3>2 DEF IdemView!Step
  <2>3. CASE Idem!DropLock(w)
    <3>1. IdemView!Goto(w, "drop_lock", "refused")
      BY <1>b, <2>3 DEF Idem!DropLock, Goto
    <3>2. IdemView!DropLock(w)
      BY <2>3, <3>1 DEF Idem!DropLock, IdemView!DropLock
    <3>3. QED
      BY <1>a, <3>2 DEF IdemView!Step
  <2>4. QED
    BY <1>1, <2>1, <2>2, <2>3 DEF Check
<1>2. CASE Grant(w)
  <2>1. IdemView!Goto(w, "double_check", IF record[ev[w]] = "none" THEN "granted" ELSE "drop_lock")
    <3>1. PICK to \in {"granted", "drop_lock"} : Goto(w, "double_check", to) /\ to = IF record[ev[w]] = "none" THEN "granted" ELSE "drop_lock"
      BY <1>2 DEF Grant, Idem!DoubleCheck, Goto
    <3>2. IdemView!Goto(w, "double_check", to)
      BY <1>b, <3>1
    <3>3. QED
      BY <3>1, <3>2 DEF IdemView!Goto
  <2>2. IdemView!DoubleCheck(w)
    BY <1>2, <2>1 DEF Grant, Idem!DoubleCheck, IdemView!DoubleCheck
  <2>3. QED
    BY <1>a, <2>2 DEF IdemView!Step
<1>3. CASE Skip(w)
  <2>1. Moves("refused", "idle")
    BY <1>b, <1>3 DEF Skip
  <2>2. IdemView!Return(w)
    BY <1>3, <2>1 DEF Skip, IdemView!Return, Moves, Seen
  <2>3. QED
    BY <1>a, <2>2 DEF IdemView!Step
<1>4. CASE HandlerReturns(w)
  <2>1. IdemView!Goto(w, "granted", "store")
    BY <1>b, <1>4 DEF HandlerReturns, Idem!Mark, Goto
  <2>2. IdemView!Mark(w, "completed")
    BY <1>4, <2>1 DEF HandlerReturns, Idem!Mark, IdemView!Mark
  <2>3. QED
    BY <1>a, <2>2 DEF IdemView!Step, IdemView!Statuses
<1>5. CASE HandlerThrows(w) \/ SuccessHookThrows(w)
  <2>1. Moves("granted", "granted")
    BY <1>b, <1>5 DEF HandlerThrows, SuccessHookThrows
  <2>2. QED
    BY <1>5, <1>c, <1>d, <2>1 DEF HandlerThrows, SuccessHookThrows
<1>6. CASE Retry(w) \/ CatchHookThrows(w)
  <2>1. IdemView!Goto(w, "granted", "idle")
    BY <1>b, <1>6 DEF Retry, CatchHookThrows
  <2>2. IdemView!Abandon(w)
    BY <1>6, <2>1 DEF Retry, CatchHookThrows, IdemView!Abandon
  <2>3. QED
    BY <1>a, <2>2 DEF IdemView!Step
<1>7. CASE Exhaust(w)
  <2>1. IdemView!Goto(w, "granted", "store")
    BY <1>b, <1>7 DEF Exhaust
  <2>2. IdemView!Mark(w, "failed")
    BY <1>7, <2>1 DEF Exhaust, IdemView!Mark
  <2>3. QED
    BY <1>a, <2>2 DEF IdemView!Step, IdemView!Statuses
<1>8. CASE Save(w)
  <2>1. CASE Idem!Store(w)
    <3>1. IdemView!Goto(w, "store", "release")
      BY <1>b, <2>1 DEF Idem!Store, Goto
    <3>2. IdemView!Store(w)
      BY <2>1, <3>1 DEF Idem!Store, IdemView!Store
    <3>3. QED
      BY <1>a, <3>2 DEF IdemView!Step
  <2>2. CASE Idem!Release(w)
    <3>1. IdemView!Goto(w, "release", "marked")
      BY <1>b, <2>2 DEF Idem!Release, Goto
    <3>2. IdemView!Release(w)
      BY <2>2, <3>1 DEF Idem!Release, IdemView!Release
    <3>3. QED
      BY <1>a, <3>2 DEF IdemView!Step
  <2>3. QED
    BY <1>8, <2>1, <2>2 DEF Save
<1>9. CASE Marked(w)
  <2>1. Moves("marked", "idle")
    BY <1>b, <1>9 DEF Marked
  <2>2. IdemView!Return(w)
    BY <1>9, <2>1 DEF Marked, IdemView!Return, Moves, Seen
  <2>3. QED
    BY <1>a, <2>2 DEF IdemView!Step
<1>10. CASE Route(w)
  <2>1. Moves("idle", "idle")
    BY <1>b, <1>10 DEF Route
  <2>2. QED
    BY <1>10, <1>c, <1>d, <2>1 DEF Route
<1>11. CASE RedisFails(w)
  <2>1. "redis" \in Mishaps /\ Mishap("redis")
    BY <1>11 DEF RedisFails, Mishaps, Failures
  <2>2. mishaps["redis"] \in Nat /\ mishaps'["redis"] = mishaps["redis"] + 1
    BY <1>0, <2>1, MishapOK
  <2>3. QED
    BY <2>2
<1>12. QED
  BY <1>1, <1>2, <1>3, <1>4, <1>5, <1>6, <1>7, <1>8, <1>9, <1>10, <1>11 DEF Works

\* So is whatever BullMQ and the environment do.
LEMMA LayerStep ==
    ASSUME TypeInv, [Next]_vars, LocksKept'
    PROVE  [IdemView!Next]_(IdemView!vars)
<1>0. pc \in [Slots -> Pcs]
  BY DEF TypeInv, IdemOK
<1>a. ASSUME NEW w \in Slots, IdemView!Step(w) PROVE IdemView!Next
  BY <1>a DEF IdemView!Next
<1>c. ASSUME Seen' = Seen, UNCHANGED <<lock, record, ev, outcome>> PROVE UNCHANGED IdemView!vars
  BY <1>c DEF IdemView!vars, Seen
<1>d. ASSUME pc' = pc PROVE Seen' = Seen
  BY <1>d DEF Seen
<1>1. ASSUME NEW w \in Slots, Works(w) PROVE IdemView!Next \/ UNCHANGED IdemView!vars
  BY <1>1, WorksSeen DEF LocksKept
<1>2. ASSUME NEW w \in Slots, NEW j \in Jobs, Fetch(w, j) PROVE IdemView!Next \/ UNCHANGED IdemView!vars
  <2>0. pc[w] = "idle" /\ Seen[w] = "idle"
    BY <1>2, SeenAt DEF Fetch
  <2>1. CASE EventOf[j] \in Handled
    <3>1. pc' = [pc EXCEPT ![w] = "exists"] /\ ev' = [ev EXCEPT ![w] = EventOf[j]]
          /\ UNCHANGED <<lock, record, outcome>>
      BY <1>2, <2>1 DEF Fetch, Idem!CheckAndLock, Idem!Goto
    <3>2. Seen' = [Seen EXCEPT ![w] = "exists"]
      BY <1>0, <3>1, SeenMoves
    <3>3. IdemView!CheckAndLock(w, EventOf[j])
      BY <2>0, <3>1, <3>2, SeenGoto DEF IdemView!CheckAndLock
    <3>4. IdemView!Step(w)
      BY <3>3, WorkerAssumption DEF IdemView!Step
    <3>5. QED
      BY <1>a, <3>4
  <2>2. CASE EventOf[j] \notin Handled
    <3>1. pc' = [pc EXCEPT ![w] = "threw"] /\ UNCHANGED <<lock, record, ev, outcome>>
      BY <1>2, <2>2 DEF Fetch
    <3>2. Seen' = [Seen EXCEPT ![w] = "idle"]
      BY <1>0, <3>1, SeenMoves
    <3>3. Seen' = Seen
      BY <2>0, <3>2 DEF Seen
    <3>4. QED
      BY <1>c, <3>1, <3>3
  <2>3. QED
    BY <2>1, <2>2
<1>3. ASSUME NEW w \in Slots, Finish(w) \/ FinishRejected(w) \/ FinishFails(w)
      PROVE  UNCHANGED IdemView!vars
  <2>1. Leave(w) /\ pc[w] \in {"returned", "threw"}
    BY <1>3 DEF Finish, FinishRejected, FinishFails
  <2>2. Seen[w] = "idle" /\ pc' = [pc EXCEPT ![w] = "idle"] /\ UNCHANGED <<lock, record, ev, outcome>>
    BY <2>1, SeenAt DEF Leave
  <2>3. Seen' = [Seen EXCEPT ![w] = "idle"]
    BY <1>0, <2>2, SeenMoves
  <2>4. Seen' = Seen
    BY <2>2, <2>3 DEF Seen
  <2>5. QED
    BY <1>c, <2>2, <2>4
<1>4. ASSUME NEW w \in Slots, Crash(w) PROVE IdemView!Next \/ UNCHANGED IdemView!vars
  <2>1. pc' = [pc EXCEPT ![w] = "idle"] /\ UNCHANGED <<lock, record, ev, outcome>>
    BY <1>4 DEF Crash, Leave
  <2>2. Seen' = [Seen EXCEPT ![w] = "idle"]
    BY <1>0, <2>1, SeenMoves
  <2>3. CASE Seen[w] = "idle"
    <3>1. Seen' = Seen
      BY <2>2, <2>3 DEF Seen
    <3>2. QED
      BY <1>c, <2>1, <3>1
  <2>4. CASE Seen[w] # "idle"
    <3>1. IdemView!Crash(w)
      BY <2>1, <2>2, <2>4 DEF IdemView!Crash, Seen
    <3>2. QED
      BY <1>a, <3>1 DEF IdemView!Step
  <2>5. QED
    BY <2>3, <2>4
<1>5. ASSUME NEW j \in Jobs, Promote(j) \/ Stall(j) PROVE UNCHANGED IdemView!vars
  BY <1>5, <1>c, <1>d DEF Promote, Stall, idemVars
<1>6. ASSUME NEW e \in Events, LockExpires(e) PROVE IdemView!Next
  <2>1. lock[e] /\ lock' = [lock EXCEPT ![e] = FALSE] /\ UNCHANGED <<record, pc, ev, outcome>>
    BY <1>6 DEF LockExpires
  <2>2. \A w \in Slots : ~Holds(w, e)
    <3> SUFFICES ASSUME \E w \in Slots : Holds(w, e) PROVE FALSE
      OBVIOUS
    <3>1. Mishap("overrun") /\ "overrun" \in Mishaps
      BY <1>6 DEF LockExpires, Mishaps
    <3>2. mishaps["overrun"] \in Nat /\ mishaps'["overrun"] = mishaps["overrun"] + 1
      BY <3>1, MishapOK DEF TypeInv
    <3>3. QED
      BY <3>2 DEF LocksKept
  <2>3. \A w \in Slots : IdemView!Holds(w, e) => Holds(w, e)
    BY SeenAt DEF IdemView!Holds, Holds, Idem!Holds, Seen
  <2>4. IdemView!LockExpires(e)
    BY <1>d, <2>1, <2>2, <2>3 DEF IdemView!LockExpires, Seen
  <2>5. QED
    BY <2>4 DEF IdemView!Next
<1>9. ASSUME NEW e \in Events, RecordExpires(e) PROVE IdemView!Next
  <2>1. IdemView!RecordExpires(e)
    BY <1>9, <1>d DEF RecordExpires, IdemView!RecordExpires, Seen
  <2>2. QED
    BY <2>1 DEF IdemView!Next
<1>7. CASE UNCHANGED vars
  BY <1>7, <1>c, <1>d DEF vars, idemVars
<1>8. QED
  BY <1>1, <1>2, <1>3, <1>4, <1>5, <1>6, <1>7, <1>9, Steps DEF Acts, Works

\* The worker keeps to the protocol of the idempotency layer until a Redis call
\* throws or a lock runs out under its run, whatever jobs, stalls, crashes, hooks
\* and expiring records do (ImplementsIdempotency).
THEOREM KeepsProtocol == Spec => ImplementsIdempotency
<1>1. Init => IdemView!Init
  <2> SUFFICES ASSUME Init PROVE IdemView!Init
    OBVIOUS
  <2>1. /\ lock = [e \in Events |-> FALSE] /\ record = [e \in Events |-> "none"]
        /\ pc = [w \in Slots |-> "idle"] /\ ev \in [Slots -> Events]
        /\ outcome = [w \in Slots |-> "completed"]
    BY DEF Init, Idem!Init
  <2>2. QED
    BY <2>1 DEF IdemView!Init
<1>2. TypeInv /\ [Next]_vars => [LocksKept' => IdemView!Next]_(IdemView!vars)
  BY LayerStep
<1>3. QED
  BY <1>1, <1>2, TypeInit, TypeStep, PTL DEF Spec, ImplementsIdempotency

\* One view of the layer is as good as the other.
LEMMA ViewIsLayer ==
    /\ (IdemView!Next => Layer!Next)
    /\ (UNCHANGED IdemView!vars => UNCHANGED Layer!vars)
    /\ (IdemView!Init => Layer!Init)
BY DEF Seen, IdemView!Next, Layer!Next, IdemView!Step, Layer!Step, IdemView!Init, Layer!Init,
   IdemView!vars, Layer!vars, IdemView!Goto, Layer!Goto, IdemView!Holds, Layer!Holds,
   IdemView!Statuses, Layer!Statuses,
   IdemView!CheckAndLock, Layer!CheckAndLock, IdemView!Exists, Layer!Exists,
   IdemView!Acquire, Layer!Acquire, IdemView!DoubleCheck, Layer!DoubleCheck,
   IdemView!DropLock, Layer!DropLock, IdemView!Mark, Layer!Mark, IdemView!Store, Layer!Store,
   IdemView!Release, Layer!Release, IdemView!Return, Layer!Return, IdemView!Abandon, Layer!Abandon,
   IdemView!Crash, Layer!Crash, IdemView!LockExpires, Layer!LockExpires,
   IdemView!RecordExpires, Layer!RecordExpires

\* While no lock has been with two slots, the layer's invariant holds of the worker.
Protected == LocksKept => Layer!IInv

LEMMA ProtectedStep ==
    ASSUME TypeInv, Protected, [Next]_vars, LocksKept, LocksKept'
    PROVE  Layer!IInv'
<1>1. [IdemView!Next]_(IdemView!vars)
  BY LayerStep
<1>2. [Layer!Next]_(Layer!vars)
  BY <1>1, ViewIsLayer
<1>3. Layer!IInv
  BY DEF Protected
<1>4. QED
  BY <1>2, <1>3, Layer!InvStep

-----------------------------------------------------------------------------
(* What a step of a slot means to the outcome of its event *)

\* Nobody but w has moved.
Sole(w) == \A v \in Slots \ {w} : pc'[v] = pc[v] /\ ev'[v] = ev[v] /\ outcome'[v] = outcome[v]

Stores(w) ==
    /\ pc[w] = "store" /\ pc'[w] = "release"
    /\ record' = [record EXCEPT ![ev[w]] = outcome[w]]
    /\ UNCHANGED <<ev, outcome, dlq, effects, mishaps>>

Releases(w) ==
    /\ pc[w] = "release" /\ pc'[w] = "marked"
    /\ UNCHANGED <<record, ev, outcome, dlq, effects, mishaps>>

IsMarked(w) ==
    /\ pc[w] = "marked" /\ pc'[w] = IF outcome[w] = "completed" THEN "returned" ELSE "route"
    /\ UNCHANGED <<record, ev, outcome, dlq, effects, mishaps>>

Routes(w) ==
    /\ pc[w] = "route" /\ pc'[w] = "threw"
    /\ dlq' = [dlq EXCEPT ![ev[w]] = @ + 1]
    /\ UNCHANGED <<record, ev, outcome, effects, mishaps>>

TakesEffect(w) ==
    /\ pc[w] = "granted" /\ pc'[w] = "store" /\ outcome'[w] = "completed"
    /\ effects' = [effects EXCEPT ![ev[w]] = @ + 1]
    /\ UNCHANGED <<record, ev, dlq, mishaps>>

Struck == Total(mishaps') = Total(mishaps) + 1 /\ Total(mishaps) \in Nat

\* Any other step: the outcome stays open, and what it costs is a mishap.
Quiet(w) ==
    /\ pc'[w] \notin {"release", "marked", "route"}
    /\ pc'[w] = "drop_lock" => record[ev'[w]] # "none"
    /\ pc'[w] = "store" => outcome'[w] = "failed"
    /\ UNCHANGED <<record, dlq>>
    /\ \/ pc[w] # "store" /\ UNCHANGED <<effects, mishaps>>
       \/ Struck

LEMMA SlotEffects ==
    ASSUME TypeInv, NEW w \in Slots, Acts(w)
    PROVE  /\ Sole(w)
           /\ \/ Stores(w) \/ Releases(w) \/ IsMarked(w) \/ Routes(w) \/ TakesEffect(w) \/ Quiet(w)
              \/ RedisFails(w)
<1>0. /\ pc \in [Slots -> Pcs] /\ ev \in [Slots -> Events] /\ outcome \in [Slots -> {"completed", "failed"}]
      /\ HistoryOK
  BY DEF TypeInv, IdemOK
<1>1. CASE Works(w)
  <2>1. Sole(w)
    <3>1. ev' = ev /\ \A v \in Slots \ {w} : pc'[v] = pc[v]
      BY <1>0, <1>1, WorksOK
    <3>2. \A v \in Slots \ {w} : outcome'[v] = outcome[v]
      BY <1>0, <1>1 DEF Works, Check, Idem!Exists, Idem!Acquire, Idem!DropLock, Grant, Idem!DoubleCheck,
         Skip, HandlerReturns, Idem!Mark, HandlerThrows, SuccessHookThrows, Retry, Exhaust, CatchHookThrows,
         Save, Idem!Store, Idem!Release, Marked, Route, RedisFails
    <3>3. QED
      BY <3>1, <3>2 DEF Sole
  <2> USE DEF Goto, Idem!Goto
  <2>2. CASE Check(w)
    <3>1. CASE Idem!Exists(w)
      BY <1>0, <2>1, <2>2, <3>1 DEF Check, Idem!Exists, Quiet
    <3>2. CASE Idem!Acquire(w)
      BY <1>0, <2>1, <2>2, <3>2 DEF Check, Idem!Acquire, Quiet
    <3>3. CASE Idem!DropLock(w)
      BY <1>0, <2>1, <2>2, <3>3 DEF Check, Idem!DropLock, Quiet
    <3>4. QED
      BY <2>2, <3>1, <3>2, <3>3 DEF Check
  <2>3. CASE Grant(w)
    BY <1>0, <2>1, <2>3 DEF Grant, Idem!DoubleCheck, Quiet
  <2>4. CASE Skip(w)
    BY <1>0, <2>1, <2>4 DEF Skip, Quiet
  <2>5. CASE HandlerReturns(w)
    BY <1>0, <2>1, <2>5 DEF HandlerReturns, Idem!Mark, TakesEffect
  <2>6. CASE HandlerThrows(w)
    BY <1>0, <2>1, <2>6 DEF HandlerThrows, Quiet
  <2>7. CASE SuccessHookThrows(w)
    <3>1. Struck
      BY <1>0, <2>7, MishapOK DEF SuccessHookThrows, Mishaps, Failures, Struck
    <3>2. QED
      BY <1>0, <2>1, <2>7, <3>1 DEF SuccessHookThrows, Quiet
  <2>8. CASE Retry(w)
    BY <1>0, <2>1, <2>8 DEF Retry, Quiet
  <2>9. CASE Exhaust(w)
    BY <1>0, <2>1, <2>9 DEF Exhaust, Quiet
  <2>10. CASE CatchHookThrows(w)
    <3>1. Struck
      BY <1>0, <2>10, MishapOK DEF CatchHookThrows, Mishaps, Failures, Struck
    <3>2. QED
      BY <1>0, <2>1, <2>10, <3>1 DEF CatchHookThrows, Quiet
  <2>11. CASE Save(w)
    <3>1. CASE Idem!Store(w)
      BY <1>0, <2>1, <2>11, <3>1 DEF Save, Idem!Store, Stores
    <3>2. CASE Idem!Release(w)
      BY <1>0, <2>1, <2>11, <3>2 DEF Save, Idem!Release, Releases
    <3>3. QED
      BY <2>11, <3>1, <3>2 DEF Save
  <2>12. CASE Marked(w)
    BY <1>0, <2>1, <2>12 DEF Marked, IsMarked
  <2>13. CASE Route(w)
    BY <1>0, <2>1, <2>13 DEF Route, Routes
  <2>14. CASE RedisFails(w)
    BY <2>1, <2>14
  <2>15. QED
    BY <1>1, <2>2, <2>3, <2>4, <2>5, <2>6, <2>7, <2>8, <2>9, <2>10, <2>11, <2>12, <2>13, <2>14 DEF Works
<1>2. ASSUME NEW j \in Jobs, Fetch(w, j)
      PROVE  Sole(w) /\ Quiet(w)
  <2>1. /\ pc[w] = "idle" /\ pc' \in {[pc EXCEPT ![w] = "exists"], [pc EXCEPT ![w] = "threw"]}
        /\ ev' \in {ev, [ev EXCEPT ![w] = EventOf[j]]}
        /\ UNCHANGED <<record, outcome, dlq, effects, mishaps>>
    BY <1>2 DEF Fetch, Idem!CheckAndLock, Idem!Goto
  <2>2. QED
    BY <1>0, <2>1 DEF Sole, Quiet
<1>3. CASE Finish(w) \/ FinishRejected(w)
  <2>1. /\ Leave(w) /\ pc[w] \in {"returned", "threw"} /\ UNCHANGED <<dlq, effects, mishaps>>
    BY <1>3 DEF Finish, FinishRejected
  <2>2. QED
    BY <1>0, <2>1 DEF Leave, Sole, Quiet
<1>4. CASE FinishFails(w) \/ Crash(w)
  <2>1. Struck
    BY <1>0, <1>4, MishapOK DEF FinishFails, Crash, Mishaps, Failures, Struck
  <2>2. Leave(w) /\ UNCHANGED <<dlq, effects>>
    BY <1>4 DEF FinishFails, Crash
  <2>3. QED
    BY <1>0, <2>1, <2>2 DEF Leave, Sole, Quiet
<1>5. QED
  BY <1>1, <1>2, <1>3, <1>4 DEF Acts, Works

\* BullMQ, the clock and the environment touch no slot, and no record but one that
\* expires.
LEMMA OthersQuiet ==
    ASSUME [Next]_vars, ~ \E w \in Slots : Acts(w)
    PROVE  /\ UNCHANGED <<pc, ev, outcome, job, attempt, dlq, effects, metrics>>
           /\ \/ UNCHANGED <<lock, record, mishaps>>
              \/ \E e \in Events : LockExpires(e) \/ RecordExpires(e)
<1>1. \/ \E j \in Jobs : Promote(j) \/ Stall(j)
      \/ \E e \in Events : LockExpires(e) \/ RecordExpires(e)
      \/ UNCHANGED vars
  BY Steps
<1>2. QED
  BY <1>1 DEF Promote, Stall, LockExpires, RecordExpires, vars, idemVars, slotVars

LEMMA Tally ==
    ASSUME TypeInv
    PROVE  /\ mishaps["crash"] \in Nat /\ mishaps["hook"] \in Nat /\ mishaps["redis"] \in Nat
           /\ mishaps["overrun"] \in Nat /\ mishaps["expiry"] \in Nat /\ Total(mishaps) \in Nat
           /\ Unscathed => LocksKept /\ mishaps["expiry"] = 0
<1>1. mishaps \in [Mishaps -> 0..MaxMishaps] /\ MaxMishaps \in Nat
  BY WorkerAssumption DEF TypeInv, HistoryOK
<1>2. \A k \in Mishaps : mishaps[k] \in Nat
  BY <1>1
<1>3. /\ mishaps["crash"] \in Nat /\ mishaps["hook"] \in Nat /\ mishaps["redis"] \in Nat
      /\ mishaps["overrun"] \in Nat /\ mishaps["expiry"] \in Nat
  BY <1>2 DEF Mishaps, Failures
<1>4. Total(mishaps) \in Nat
  BY <1>3 DEF Total
<1>5. ASSUME Unscathed PROVE LocksKept /\ mishaps["expiry"] = 0
  <2>1. mishaps["crash"] + mishaps["hook"] + mishaps["redis"] + mishaps["overrun"] + mishaps["expiry"] = 0
    BY <1>5 DEF Unscathed, Total
  <2>2. mishaps["redis"] = 0 /\ mishaps["overrun"] = 0 /\ mishaps["expiry"] = 0
    <3>1. \A a, b, c, d, f \in Nat : a + b + c + d + f = 0 => c = 0 /\ d = 0 /\ f = 0
      OBVIOUS
    <3> DEFINE a == mishaps["crash"]
               b == mishaps["hook"]
               c == mishaps["redis"]
               d == mishaps["overrun"]
               f == mishaps["expiry"]
    <3>2. a \in Nat /\ b \in Nat /\ c \in Nat /\ d \in Nat /\ f \in Nat /\ a + b + c + d + f = 0
      BY <1>3, <2>1
    <3> HIDE DEF a, b, c, d, f
    <3>3. c = 0 /\ d = 0 /\ f = 0
      BY <3>1, <3>2
    <3>4. QED
      BY <3>3 DEF c, d, f
  <2>3. QED
    BY <2>2 DEF LocksKept
<1>6. QED
  BY <1>3, <1>4, <1>5

\* Mishaps are counted and never forgotten.
LEMMA MishapsKept ==
    ASSUME TypeInv, [Next]_vars
    PROVE  /\ LocksKept' => LocksKept
           /\ mishaps'["expiry"] = 0 => mishaps["expiry"] = 0
           /\ Undisturbed' => Undisturbed /\ \A k \in Failures : mishaps'[k] = mishaps[k]
           /\ Unscathed' => Unscathed /\ mishaps' = mishaps
           /\ Unscathed => LocksKept /\ mishaps["expiry"] = 0
<1>1. \A k \in Mishaps : mishaps[k] \in Nat
  BY WorkerAssumption DEF TypeInv, HistoryOK
<1>2. mishaps' = mishaps \/ \E k \in Mishaps : Mishap(k)
  <2>1. ASSUME NEW w \in Slots, Acts(w) PROVE mishaps' = mishaps \/ \E k \in Mishaps : Mishap(k)
    BY <2>1 DEF Acts, Fetch, Check, Grant, Skip, HandlerReturns, HandlerThrows, SuccessHookThrows, Retry, Exhaust,
       CatchHookThrows, Save, Marked, Route, RedisFails, Finish, FinishRejected, FinishFails, Crash, Mishaps, Failures
  <2>2. ASSUME NEW e \in Events, LockExpires(e) \/ RecordExpires(e)
        PROVE  mishaps' = mishaps \/ \E k \in Mishaps : Mishap(k)
    BY <2>2 DEF LockExpires, RecordExpires, Mishaps
  <2>3. QED
    BY <2>1, <2>2, OthersQuiet
<1>3. Unscathed => LocksKept /\ mishaps["expiry"] = 0
  BY Tally
<1>4. CASE mishaps' = mishaps
  BY <1>3, <1>4 DEF Unscathed, LocksKept, Undisturbed
<1>5. ASSUME NEW k \in Mishaps, Mishap(k)
      PROVE  /\ LocksKept' => LocksKept
             /\ mishaps'["expiry"] = 0 => mishaps["expiry"] = 0
             /\ Undisturbed' => Undisturbed /\ \A i \in Failures : mishaps'[i] = mishaps[i]
             /\ ~Unscathed'
  <2>1. /\ \A i \in Mishaps : mishaps[i] \in Nat /\ mishaps'[i] = IF i = k THEN mishaps[i] + 1 ELSE mishaps[i]
        /\ Total(mishaps') = Total(mishaps) + 1 /\ Total(mishaps) \in Nat
    BY <1>5, MishapOK DEF TypeInv
  <2>2. \A i \in Mishaps : mishaps'[i] = 0 => mishaps[i] = 0 /\ mishaps'[i] = mishaps[i]
    BY <2>1
  <2>3. (LocksKept' => LocksKept) /\ (mishaps'["expiry"] = 0 => mishaps["expiry"] = 0)
    BY <2>2 DEF LocksKept, Mishaps, Failures
  <2>4. Undisturbed' => Undisturbed /\ \A i \in Failures : mishaps'[i] = mishaps[i]
    BY <2>2 DEF Undisturbed, Mishaps
  <2>5. ~Unscathed'
    BY <2>1 DEF Unscathed
  <2>6. QED
    BY <2>3, <2>4, <2>5
<1>6. QED
  BY <1>2, <1>3, <1>4, <1>5

-----------------------------------------------------------------------------
(* The dead-letter queue and the record *)

\* From the SETEX of its outcome on an event has a record, until that expires; a
\* slot that deletes the lock does not wait for it that long.
Recorded ==
    /\ \A w \in Slots : pc[w] \in {"release", "drop_lock"} => record[ev[w]] # "none"
    /\ mishaps["expiry"] = 0 =>
          /\ \A w \in Slots : pc[w] \in {"marked", "route"} => record[ev[w]] # "none"
          /\ \A e \in Events : dlq[e] > 0 => record[e] # "none"

\* What a Redis call that throws may have done.
LEMMA FailureDoes ==
    ASSUME TypeInv, NEW w \in Slots, RedisFails(w)
    PROVE  /\ pc[w] \in Idem!Calls \cup {"route"} /\ pc'[w] \in {"threw", "catch"}
           /\ pc'[w] = "catch" => pc[w] # "route" /\ (pc[w] \in {"store", "release"} => outcome[w] = "completed")
           /\ UNCHANGED <<ev, outcome, job, effects>> /\ Struck
           /\ record' = record \/ (pc[w] = "store" /\ record' = [record EXCEPT ![ev[w]] = outcome[w]])
           /\ dlq' = dlq \/ (pc[w] = "route" /\ dlq' = [dlq EXCEPT ![ev[w]] = @ + 1])
           /\ mishaps'["redis"] # 0
<1>0. pc \in [Slots -> Pcs] /\ HistoryOK
  BY DEF TypeInv, IdemOK
<1>1. Struck
  BY <1>0, MishapOK DEF RedisFails, Mishaps, Failures, Struck
<1>2. mishaps'["redis"] # 0
  <2>1. Mishap("redis") /\ "redis" \in Mishaps
    BY DEF RedisFails, Mishaps, Failures
  <2>2. mishaps["redis"] \in Nat /\ mishaps'["redis"] = mishaps["redis"] + 1
    BY <1>0, <2>1, MishapOK
  <2>3. QED
    BY <2>2
<1>3. /\ record' = record \/ (pc[w] = "store" /\ record' = [record EXCEPT ![ev[w]] = outcome[w]])
      /\ dlq' = dlq \/ (pc[w] = "route" /\ dlq' = [dlq EXCEPT ![ev[w]] = @ + 1])
  BY DEF RedisFails, Applied
<1>4. pc'[w] = IF pc[w] = "route" \/ (pc[w] \in {"store", "release"} /\ outcome[w] = "failed")
               THEN "threw" ELSE "catch"
  BY <1>0 DEF RedisFails
<1>5. pc[w] \in {"store", "release"} /\ pc'[w] = "catch" => outcome[w] = "completed"
  BY <1>4 DEF TypeInv, IdemOK
<1>6. pc'[w] \in {"threw", "catch"} /\ (pc'[w] = "catch" => pc[w] # "route")
  BY <1>4
<1>7. pc[w] \in Idem!Calls \cup {"route"} /\ UNCHANGED <<ev, outcome, job, effects>>
  BY DEF RedisFails, slotVars
<1>8. QED
  BY <1>1, <1>2, <1>3, <1>5, <1>6, <1>7

LEMMA RecordedStep ==
    ASSUME TypeInv, Recorded, [Next]_vars
    PROVE  Recorded'
<1>0. /\ record \in [Events -> {"completed", "failed", "none"}] /\ ev \in [Slots -> Events]
      /\ outcome \in [Slots -> {"completed", "failed"}] /\ dlq \in [Events -> Nat]
      /\ mishaps'["expiry"] = 0 => mishaps["expiry"] = 0
  BY MishapsKept DEF TypeInv, IdemOK, HistoryOK
<1>1. ASSUME NEW w \in Slots, Acts(w) PROVE Recorded'
  <2>0. Sole(w)
    BY <1>1, SlotEffects
  <2>1. CASE Stores(w)
    BY <1>0, <2>0, <2>1 DEF Stores, Sole, Recorded
  <2>2. CASE Releases(w)
    BY <1>0, <2>0, <2>2 DEF Releases, Sole, Recorded
  <2>3. CASE IsMarked(w)
    BY <1>0, <2>0, <2>3 DEF IsMarked, Sole, Recorded
  <2>4. CASE Routes(w)
    BY <1>0, <2>0, <2>4 DEF Routes, Sole, Recorded
  <2>5. CASE TakesEffect(w)
    BY <1>0, <2>0, <2>5 DEF TakesEffect, Sole, Recorded
  <2>6. CASE Quiet(w)
    BY <1>0, <2>0, <2>6 DEF Quiet, Sole, Recorded
  <2>7. CASE RedisFails(w)
    <3>1. /\ pc'[w] \in {"threw", "catch"} /\ UNCHANGED ev
          /\ record' = record \/ record' = [record EXCEPT ![ev[w]] = outcome[w]]
          /\ dlq' = dlq \/ (pc[w] = "route" /\ dlq' = [dlq EXCEPT ![ev[w]] = @ + 1])
      BY <2>7, FailureDoes
    <3>2. \A e \in Events : record[e] # "none" => record'[e] # "none"
      BY <1>0, <3>1
    <3>3. /\ \A v \in Slots : pc'[v] \in {"release", "drop_lock"} => record'[ev'[v]] # "none"
          /\ mishaps["expiry"] = 0 => \A v \in Slots : pc'[v] \in {"marked", "route"} => record'[ev'[v]] # "none"
      BY <1>0, <2>0, <3>1, <3>2 DEF Sole, Recorded
    <3>4. ASSUME NEW e \in Events, dlq'[e] > 0, mishaps["expiry"] = 0 PROVE record'[e] # "none"
      <4>1. dlq[e] > 0 \/ (pc[w] = "route" /\ ev[w] = e)
        BY <1>0, <3>1, <3>4
      <4>2. QED
        BY <3>2, <3>4, <4>1 DEF Recorded
    <3>5. QED
      BY <1>0, <3>3, <3>4 DEF Recorded
  <2>8. QED
    BY <1>1, <2>1, <2>2, <2>3, <2>4, <2>5, <2>6, <2>7, SlotEffects
<1>2. CASE ~ \E w \in Slots : Acts(w)
  <2>1. UNCHANGED <<pc, ev, dlq>>
    BY <1>2, OthersQuiet
  <2>2. CASE record' = record
    BY <1>0, <2>1, <2>2 DEF Recorded
  <2>3. ASSUME NEW e \in Events, RecordExpires(e) PROVE Recorded'
    <3>1. mishaps'["expiry"] # 0
      <4>1. Mishap("expiry") /\ "expiry" \in Mishaps
        BY <2>3 DEF RecordExpires, Mishaps
      <4>2. mishaps["expiry"] \in Nat /\ mishaps'["expiry"] = mishaps["expiry"] + 1
        BY <4>1, MishapOK DEF TypeInv
      <4>3. QED
        BY <4>2
    <3>2. \A w \in Slots : pc[w] \in {"release", "drop_lock"} => record'[ev[w]] = record[ev[w]]
      BY <1>0, <2>3 DEF RecordExpires
    <3>3. QED
      BY <2>1, <3>1, <3>2 DEF Recorded
  <2>4. QED
    BY <1>2, <2>2, <2>3, OthersQuiet DEF LockExpires
<1>3. QED
  BY <1>1, <1>2

\* No lock has been with two slots and no record has expired.
Sound == LocksKept /\ mishaps["expiry"] = 0

\* While that is so the record is the outcome that was saved, and a failed one if
\* the event is on its way to the dead-letter queue or in it.
Verdict ==
    Sound =>
        /\ \A w \in Slots : /\ pc[w] \in {"release", "marked"} => record[ev[w]] = outcome[w]
                            /\ pc[w] = "route" => record[ev[w]] = "failed"
        /\ \A e \in Events : dlq[e] > 0 => record[e] = "failed"

\* A handler that took effect is recorded as completed, or is about to be.
Effective ==
    Unscathed => \A e \in Events : effects[e] > 0 =>
        \/ record[e] = "completed"
        \/ \E w \in Slots : ev[w] = e /\ pc[w] = "store" /\ outcome[w] = "completed"

\* A slot that stores an outcome is the one that runs the event.
LEMMA StoresFirst ==
    ASSUME Layer!IInv, TypeInv, NEW w \in Slots, pc[w] = "store"
    PROVE  record[ev[w]] = "none"
<1>1. Seen[w] = "store" /\ ev[w] \in Events
  BY SeenAt DEF TypeInv, IdemOK
<1>2. Layer!Runs(w, ev[w])
  BY <1>1 DEF Layer!Runs
<1>3. QED
  BY <1>1, <1>2 DEF Layer!IInv, Layer!NoRunOnceRecorded

LEMMA VerdictStep ==
    ASSUME TypeInv, Protected, Verdict, [Next]_vars
    PROVE  Verdict'
<1> SUFFICES ASSUME Sound', Sound PROVE Verdict'
  BY MishapsKept DEF Verdict, Sound
<1>0. /\ record \in [Events -> {"completed", "failed", "none"}] /\ ev \in [Slots -> Events]
      /\ outcome \in [Slots -> {"completed", "failed"}] /\ dlq \in [Events -> Nat] /\ Layer!IInv
  BY DEF TypeInv, IdemOK, HistoryOK, Protected, Sound
<1>v. /\ \A w \in Slots : /\ pc[w] \in {"release", "marked"} => record[ev[w]] = outcome[w]
                          /\ pc[w] = "route" => record[ev[w]] = "failed"
      /\ \A e \in Events : dlq[e] > 0 => record[e] = "failed"
  BY DEF Verdict
<1>1. ASSUME NEW w \in Slots, Acts(w) PROVE Verdict'
  <2>0. Sole(w)
    BY <1>1, SlotEffects
  <2>1. CASE Stores(w)
    <3>1. record[ev[w]] = "none" /\ record' = [record EXCEPT ![ev[w]] = outcome[w]]
          /\ pc'[w] = "release" /\ UNCHANGED <<ev, outcome, dlq>> /\ record'[ev[w]] = outcome[w]
      BY <1>0, <2>1, StoresFirst DEF Stores
    <3>2. ASSUME NEW v \in Slots \ {w}
          PROVE  /\ pc'[v] = pc[v]
                 /\ pc[v] \in {"release", "marked", "route"} => ev[v] # ev[w] /\ record'[ev[v]] = record[ev[v]]
      BY <1>0, <1>v, <2>0, <3>1 DEF Sole
    <3>3. \A e \in Events : dlq[e] > 0 => record'[e] = record[e]
      BY <1>0, <1>v, <3>1
    <3>4. \A v \in Slots : /\ pc'[v] \in {"release", "marked"} => record'[ev'[v]] = outcome'[v]
                           /\ pc'[v] = "route" => record'[ev'[v]] = "failed"
      BY <1>v, <3>1, <3>2
    <3>5. QED
      BY <1>v, <3>1, <3>3, <3>4 DEF Verdict
  <2>2. CASE Releases(w)
    BY <1>0, <1>v, <2>0, <2>2 DEF Releases, Sole, Verdict
  <2>3. CASE IsMarked(w)
    BY <1>0, <1>v, <2>0, <2>3 DEF IsMarked, Sole, Verdict
  <2>4. CASE Routes(w)
    BY <1>0, <1>v, <2>0, <2>4 DEF Routes, Sole, Verdict
  <2>5. CASE TakesEffect(w)
    BY <1>0, <1>v, <2>0, <2>5 DEF TakesEffect, Sole, Verdict
  <2>6. CASE Quiet(w)
    BY <1>0, <1>v, <2>0, <2>6 DEF Quiet, Sole, Verdict
  <2>7. CASE RedisFails(w)
    BY <2>7, FailureDoes DEF Sound, LocksKept
  <2>8. QED
    BY <1>1, <2>1, <2>2, <2>3, <2>4, <2>5, <2>6, <2>7, SlotEffects
<1>2. CASE ~ \E w \in Slots : Acts(w)
  <2>1. UNCHANGED <<pc, ev, outcome, dlq>>
    BY <1>2, OthersQuiet
  <2>2. ASSUME NEW e \in Events, RecordExpires(e) PROVE FALSE
    <3>1. Mishap("expiry") /\ "expiry" \in Mishaps
      BY <2>2 DEF RecordExpires, Mishaps
    <3>2. mishaps["expiry"] \in Nat /\ mishaps'["expiry"] = mishaps["expiry"] + 1
      BY <3>1, MishapOK DEF TypeInv
    <3>3. QED
      BY <3>2 DEF Sound
  <2>3. record' = record
    BY <1>2, <2>2, OthersQuiet DEF LockExpires
  <2>4. QED
    BY <1>v, <2>1, <2>3 DEF Verdict
<1>3. QED
  BY <1>1, <1>2

LEMMA EffectiveStep ==
    ASSUME TypeInv, Protected, Effective, [Next]_vars
    PROVE  Effective'
<1> SUFFICES ASSUME Unscathed', NEW e \in Events, effects'[e] > 0
             PROVE  \/ record'[e] = "completed"
                    \/ \E w \in Slots : ev'[w] = e /\ pc'[w] = "store" /\ outcome'[w] = "completed"
  BY DEF Effective
<1>0. /\ record \in [Events -> {"completed", "failed", "none"}] /\ ev \in [Slots -> Events]
      /\ outcome \in [Slots -> {"completed", "failed"}] /\ effects \in [Events -> Nat]
      /\ Layer!IInv /\ Unscathed /\ mishaps' = mishaps /\ LocksKept
  BY MishapsKept DEF TypeInv, IdemOK, HistoryOK, Protected
<1>e. effects[e] > 0 => \/ record[e] = "completed"
                        \/ \E w \in Slots : ev[w] = e /\ pc[w] = "store" /\ outcome[w] = "completed"
  BY <1>0 DEF Effective
<1>1. ASSUME NEW w \in Slots, Acts(w)
      PROVE  \/ record'[e] = "completed"
             \/ \E v \in Slots : ev'[v] = e /\ pc'[v] = "store" /\ outcome'[v] = "completed"
  <2>0. Sole(w)
    BY <1>1, SlotEffects
  <2>1. CASE Stores(w)
    <3>1. record' = [record EXCEPT ![ev[w]] = outcome[w]] /\ UNCHANGED <<ev, outcome, effects>>
          /\ record[ev[w]] = "none" /\ pc[w] = "store"
      BY <1>0, <2>1, StoresFirst DEF Stores
    <3>2. CASE record[e] = "completed"
      BY <1>0, <3>1, <3>2
    <3>3. ASSUME NEW v \in Slots, ev[v] = e, pc[v] = "store", outcome[v] = "completed"
          PROVE  record'[e] = "completed" \/ (v # w /\ ev'[v] = e /\ pc'[v] = "store" /\ outcome'[v] = "completed")
      BY <1>0, <2>0, <3>1, <3>3 DEF Sole
    <3>4. QED
      BY <1>e, <3>1, <3>2, <3>3
  <2>2. CASE Releases(w)
    BY <1>e, <2>0, <2>2 DEF Releases, Sole
  <2>3. CASE IsMarked(w)
    BY <1>e, <2>0, <2>3 DEF IsMarked, Sole
  <2>4. CASE Routes(w)
    BY <1>e, <2>0, <2>4 DEF Routes, Sole
  <2>5. CASE TakesEffect(w)
    <3>1. CASE ev[w] = e
      BY <2>5, <3>1 DEF TakesEffect
    <3>2. CASE ev[w] # e
      BY <1>0, <1>e, <2>0, <2>5, <3>2 DEF TakesEffect, Sole
    <3>3. QED
      BY <3>1, <3>2
  <2>6. CASE Quiet(w)
    <3>1. ~Struck
      BY <1>0 DEF Struck
    <3>2. QED
      BY <1>e, <2>0, <2>6, <3>1 DEF Quiet, Sole
  <2>7. CASE RedisFails(w)
    BY <1>0, <2>7, FailureDoes DEF LocksKept
  <2>8. QED
    BY <1>1, <2>1, <2>2, <2>3, <2>4, <2>5, <2>6, <2>7, SlotEffects
<1>2. CASE ~ \E w \in Slots : Acts(w)
  <2>1. \A d \in Events : ~RecordExpires(d)
    BY <1>0, MishapOK DEF RecordExpires, TypeInv, Mishaps
  <2>2. record' = record /\ UNCHANGED <<pc, ev, outcome, effects>>
    BY <1>2, <2>1, OthersQuiet DEF LockExpires
  <2>3. QED
    BY <1>e, <2>2
<1>3. QED
  BY <1>1, <1>2

\* Nothing has happened at the start.
LEMMA StartClean ==
    ASSUME Init
    PROVE  Recorded /\ Verdict /\ Effective /\ Protected
<1>1. /\ pc = [w \in Slots |-> "idle"] /\ dlq = [e \in Events |-> 0] /\ effects = [e \in Events |-> 0]
      /\ lock = [e \in Events |-> FALSE] /\ record = [e \in Events |-> "none"]
      /\ ev \in [Slots -> Events] /\ outcome = [w \in Slots |-> "completed"]
  BY DEF Init, Idem!Init
<1>2. Recorded /\ Effective
  BY <1>1 DEF Recorded, Effective
<1>3. Verdict
  BY <1>1 DEF Verdict
<1>4. IdemView!Init
  BY <1>1 DEF IdemView!Init
<1>5. Layer!Init
  BY <1>4, ViewIsLayer
<1>6. Protected
  <2>1. Layer!Init => Layer!IInv
    BY Layer!InvInit
  <2>2. QED
    BY <1>5, <2>1 DEF Protected
<1>7. QED
  BY <1>2, <1>3, <1>6

\* All of them together.
Outcomes == TypeInv /\ Protected /\ Recorded /\ Verdict /\ Effective

LEMMA OutcomesKept == Spec => []Outcomes
<1>1. Init => Outcomes
  BY StartClean, TypeInit DEF Outcomes
<1>2. Outcomes /\ [Next]_vars => Outcomes'
  <2> SUFFICES ASSUME Outcomes, [Next]_vars PROVE Outcomes'
    OBVIOUS
  <2>1. TypeInv /\ Protected /\ Recorded /\ Verdict /\ Effective
    BY DEF Outcomes
  <2>2. TypeInv'
    BY <2>1, TypeStep
  <2>3. Protected'
    BY <2>1, ProtectedStep, MishapsKept DEF Protected
  <2>4. Recorded' /\ Verdict' /\ Effective'
    BY <2>1, RecordedStep, VerdictStep, EffectiveStep
  <2>5. QED
    BY <2>2, <2>3, <2>4 DEF Outcomes
<1>3. QED
  BY <1>1, <1>2, PTL DEF Spec

\* An event in the dead-letter queue has an outcome on record until that expires, a
\* failed one unless Redis threw or a lock ran out under its run, and its handler
\* took no effect unless something went wrong (DlqMeansFailed).
THEOREM DeadMeansFailed == Spec => []DlqMeansFailed
<1>1. Outcomes => DlqMeansFailed
  <2> SUFFICES ASSUME Outcomes, NEW e \in Events, dlq[e] > 0
               PROVE  /\ mishaps["expiry"] = 0 => record[e] # "none"
                      /\ mishaps["expiry"] = 0 /\ LocksKept => record[e] = "failed"
                      /\ Unscathed => effects[e] = 0
    BY DEF DlqMeansFailed, Routed
  <2>1. /\ mishaps["expiry"] = 0 => record[e] # "none"
        /\ mishaps["expiry"] = 0 /\ LocksKept => record[e] = "failed"
    BY DEF Outcomes, Recorded, Verdict, Sound
  <2>2. ASSUME Unscathed, effects[e] # 0 PROVE FALSE
    <3>1. LocksKept /\ mishaps["expiry"] = 0
      BY <2>2, Tally DEF Outcomes
    <3>2. effects[e] > 0
      BY <2>2 DEF Outcomes, TypeInv, HistoryOK
    <3>3. PICK w \in Slots : ev[w] = e /\ pc[w] = "store"
      BY <2>1, <2>2, <3>1, <3>2 DEF Outcomes, Effective
    <3>4. record[ev[w]] = "none"
      BY <3>1, <3>3, StoresFirst DEF Outcomes, Protected
    <3>5. QED
      BY <2>1, <3>1, <3>3, <3>4
  <2>3. QED
    BY <2>1, <2>2
<1>2. QED
  BY <1>1, OutcomesKept, PTL

-----------------------------------------------------------------------------
(* What a mishap may cost *)

\* The slot may yet add a dead-letter entry of its event.
Owes(w) == \/ pc[w] \in {"granted", "catch", "store", "route"}
           \/ pc[w] \in {"release", "marked"} /\ outcome[w] = "failed"

\* The slot may yet take effect, or let another run its event.
May(w) == pc[w] \in {"granted", "catch"}

\* The slot is about to be granted its event.
Waits(w) == pc[w] = "double_check" /\ record[ev[w]] = "none"

Debtors(e) == {w \in Slots : ev[w] = e /\ (Owes(w) \/ Waits(w))}
Runners(e) == {w \in Slots : ev[w] = e /\ (May(w) \/ Waits(w))}

One(b) == IF b THEN 1 ELSE 0

\* Nothing keeps a slot that comes now from being granted the event, or nobody is
\* there to let go of its lock.
Gap(e) == One(record[e] = "none" /\ (~lock[e] \/ \A w \in Slots : ~Holds(w, e)))

\* The mishaps that may cost a dead-letter entry.
Charges == mishaps["redis"] + mishaps["overrun"] + mishaps["expiry"]

\* Each entry and each effect of an event but one is paid for by a mishap, those
\* that may still follow included.  This holds of an event without lock or record
\* before anyone takes it up: the gap stands for the slot that will.
Paid ==
    \A e \in Events :
        /\ dlq[e] + Cardinality(Debtors(e)) + Gap(e) <= 1 + Charges
        /\ effects[e] + Cardinality(Runners(e)) + Gap(e) <= 1 + Total(mishaps)

LEMMA OneIs == \A b \in BOOLEAN : One(b) \in {0, 1}
BY DEF One

LEMMA Counting ==
    ASSUME NEW S \in SUBSET Slots, NEW w \in Slots
    PROVE  /\ IsFiniteSet(S) /\ Cardinality(S) \in Nat /\ Cardinality(S \ {w}) \in Nat
           /\ Cardinality(S) = Cardinality(S \ {w}) + One(w \in S)
<1>1. IsFiniteSet(S) /\ IsFiniteSet(S \ {w})
  BY FiniteSlots, FS_Subset
<1>2. Cardinality(S) \in Nat /\ Cardinality(S \ {w}) \in Nat
  BY <1>1, FS_CardinalityType
<1>3. CASE w \in S
  <2>1. Cardinality(S \ {w}) = Cardinality(S) - 1 /\ One(w \in S) = 1
    BY <1>1, <1>3, FS_RemoveElement DEF One
  <2>2. QED
    BY <1>1, <1>2, <2>1
<1>4. CASE w \notin S
  <2>1. S \ {w} = S /\ One(w \in S) = 0
    BY <1>4 DEF One
  <2>2. QED
    BY <1>1, <1>2, <2>1
<1>5. QED
  BY <1>3, <1>4

\* Of two sets of slots, when only w may have come to the first.
LEMMA Joins ==
    ASSUME NEW G \in SUBSET Slots, NEW H \in SUBSET Slots, NEW w \in Slots,
           \A v \in Slots \ {w} : v \in G => v \in H
    PROVE  /\ Cardinality(G) \in Nat /\ Cardinality(H) \in Nat
           /\ Cardinality(G) + One(w \in H) <= Cardinality(H) + One(w \in G)
<1>1. G \ {w} \subseteq H \ {w} /\ IsFiniteSet(H \ {w})
  BY Counting
<1>2. Cardinality(G \ {w}) <= Cardinality(H \ {w})
  BY <1>1, FS_Subset
<1>3. /\ Cardinality(G) \in Nat /\ Cardinality(G \ {w}) \in Nat
      /\ Cardinality(G) = Cardinality(G \ {w}) + One(w \in G)
  BY Counting
<1>4. /\ Cardinality(H) \in Nat /\ Cardinality(H \ {w}) \in Nat
      /\ Cardinality(H) = Cardinality(H \ {w}) + One(w \in H)
  BY Counting
<1>5. One(w \in G) \in Nat /\ One(w \in H) \in Nat
  BY DEF One
<1>6. QED
  BY <1>2, <1>3, <1>4, <1>5

\* The cost of w to event e, in entries and in effects.
Entry(w, e)  == One(ev[w] = e /\ (Owes(w) \/ Waits(w)))
Effect(w, e) == One(ev[w] = e /\ (May(w) \/ Waits(w)))

\* What a step of w adds to what the event owes is paid for.
Covered(w, e) ==
    /\ dlq'[e] + Entry(w, e)' + Gap(e)' + Charges <= dlq[e] + Entry(w, e) + Gap(e) + Charges'
    /\ effects'[e] + Effect(w, e)' + Gap(e)' + Total(mishaps)
       <= effects[e] + Effect(w, e) + Gap(e) + Total(mishaps')

\* What is open to others when w moves: either way, whether somebody else holds the
\* event stays as it was.
LEMMA GapMoves ==
    ASSUME NEW w \in Slots, NEW e \in Events, Sole(w)
    PROVE  \E x \in BOOLEAN :
              /\ Gap(e) = One(record[e] = "none" /\ (~lock[e] \/ ~(Holds(w, e) \/ x)))
              /\ Gap(e)' = One(record'[e] = "none" /\ (~lock'[e] \/ ~(Holds(w, e)' \/ x)))
<1> DEFINE x == \E v \in Slots \ {w} : Holds(v, e)
<1>1. \A v \in Slots \ {w} : Holds(v, e)' <=> Holds(v, e)
  BY DEF Sole, Holds, Idem!Holds
<1>2. (\A v \in Slots : ~Holds(v, e)) <=> ~(Holds(w, e) \/ x)
  OBVIOUS
<1>3. (\A v \in Slots : ~Holds(v, e)') <=> ~(Holds(w, e)' \/ x)
  BY <1>1
<1>4. x \in BOOLEAN
  OBVIOUS
<1> HIDE DEF x
<1>5. QED
  BY <1>2, <1>3, <1>4 DEF Gap

LEMMA CoveredStep ==
    ASSUME TypeInv, Recorded, NEW w \in Slots, Acts(w), NEW e \in Events
    PROVE  Covered(w, e)
<1>0. /\ pc \in [Slots -> Pcs] /\ ev \in [Slots -> Events] /\ outcome \in [Slots -> {"completed", "failed"}]
      /\ lock \in [Events -> BOOLEAN] /\ record \in [Events -> {"completed", "failed", "none"}]
      /\ dlq \in [Events -> Nat] /\ effects \in [Events -> Nat] /\ HistoryOK
  BY DEF TypeInv, IdemOK, HistoryOK
<1>s. Sole(w)
  BY SlotEffects
<1>x. PICK x \in BOOLEAN :
         /\ Gap(e) = One(record[e] = "none" /\ (~lock[e] \/ ~(Holds(w, e) \/ x)))
         /\ Gap(e)' = One(record'[e] = "none" /\ (~lock'[e] \/ ~(Holds(w, e)' \/ x)))
  BY <1>s, GapMoves
<1>n. Charges \in Nat /\ Total(mishaps) \in Nat /\ dlq[e] \in Nat /\ effects[e] \in Nat
  BY <1>0, Tally DEF Charges
<1> DEFINE Even == Charges' = Charges /\ Total(mishaps') = Total(mishaps)
           Hit  == Charges' = Charges /\ Total(mishaps') = Total(mishaps) + 1
           Dear == Charges' = Charges + 1 /\ Total(mishaps') = Total(mishaps) + 1
<1>e. mishaps' = mishaps => Even
  BY DEF Charges
<1>h. ASSUME NEW k \in {"crash", "hook"}, Mishap(k) PROVE Hit
  <2>1. k \in Mishaps
    BY DEF Mishaps, Failures
  <2>2. mishaps'["redis"] = mishaps["redis"] /\ mishaps'["overrun"] = mishaps["overrun"]
        /\ mishaps'["expiry"] = mishaps["expiry"] /\ Total(mishaps') = Total(mishaps) + 1
    BY <1>0, <1>h, <2>1, MishapOK DEF Mishaps, Failures
  <2>3. QED
    BY <2>2 DEF Charges
<1>d. ASSUME Mishap("redis") PROVE Dear
  <2>1. mishaps'["redis"] = mishaps["redis"] + 1 /\ mishaps'["overrun"] = mishaps["overrun"]
        /\ mishaps'["expiry"] = mishaps["expiry"] /\ Total(mishaps') = Total(mishaps) + 1
    BY <1>0, <1>d, MishapOK DEF Mishaps, Failures
  <2>2. QED
    BY <2>1, Tally DEF Charges
<1>r. pc[w] \in {"release", "drop_lock"} => record[ev[w]] # "none"
  BY DEF Recorded
<1> HIDE DEF Even, Hit, Dear
<1> USE DEF Goto, Idem!Goto
<1> DEFINE Still == ev' = ev /\ outcome' = outcome /\ dlq' = dlq /\ effects' = effects
<1>1. CASE Check(w)
  <2>1. Still /\ Even /\ record' = record
    BY <1>1, <1>e DEF Check, Idem!Exists, Idem!Acquire, Idem!DropLock
  <2>2. CASE Idem!Exists(w)
    <3>1. pc[w] = "exists" /\ pc'[w] \in {"acquire", "refused"} /\ lock' = lock
      BY <1>0, <2>2 DEF Idem!Exists
    <3>2. QED
      BY <1>0, <1>n, <1>x, <2>1, <3>1 DEF Covered, Entry, Effect, Owes, May, Waits, One, Holds, Idem!Holds, Even
  <2>3. CASE Idem!Acquire(w)
    <3>1. pc[w] = "acquire" /\ pc'[w] = (IF lock[ev[w]] THEN "refused" ELSE "double_check") /\ lock' = [lock EXCEPT ![ev[w]] = TRUE]
      BY <1>0, <2>3 DEF Idem!Acquire
    <3>2. QED
      BY <1>0, <1>n, <1>x, <2>1, <3>1 DEF Covered, Entry, Effect, Owes, May, Waits, One, Holds, Idem!Holds, Even
  <2>4. CASE Idem!DropLock(w)
    <3>1. pc[w] = "drop_lock" /\ pc'[w] = "refused" /\ lock' = [lock EXCEPT ![ev[w]] = FALSE]
      BY <1>0, <2>4 DEF Idem!DropLock
    <3>2. QED
      BY <1>0, <1>n, <1>r, <1>x, <2>1, <3>1 DEF Covered, Entry, Effect, Owes, May, Waits, One, Holds, Idem!Holds, Even
  <2>5. QED
    BY <1>1, <2>2, <2>3, <2>4 DEF Check
<1>2. CASE Grant(w)
  <2>1. Still /\ Even /\ record' = record /\ lock' = lock
    BY <1>2, <1>e DEF Grant, Idem!DoubleCheck
  <2>2. pc[w] = "double_check" /\ pc'[w] = (IF record[ev[w]] = "none" THEN "granted" ELSE "drop_lock")
    BY <1>0, <1>2 DEF Grant, Idem!DoubleCheck
  <2>3. QED
    BY <1>0, <1>n, <1>x, <2>1, <2>2 DEF Covered, Entry, Effect, Owes, May, Waits, One, Holds, Idem!Holds, Even
<1>3. CASE Skip(w)
  <2>1. Still /\ Even /\ record' = record /\ lock' = lock /\ pc[w] = "refused" /\ pc'[w] = "returned"
    BY <1>0, <1>3, <1>e DEF Skip
  <2>2. QED
    BY <1>0, <1>n, <1>x, <2>1 DEF Covered, Entry, Effect, Owes, May, Waits, One, Holds, Idem!Holds, Even
<1>4. CASE HandlerReturns(w)
  <2>1. /\ Even /\ record' = record /\ lock' = lock /\ ev' = ev /\ dlq' = dlq
        /\ pc[w] = "granted" /\ pc'[w] = "store" /\ effects' = [effects EXCEPT ![ev[w]] = @ + 1]
    BY <1>0, <1>4, <1>e DEF HandlerReturns, Idem!Mark
  <2>2. effects'[e] = IF ev[w] = e THEN effects[e] + 1 ELSE effects[e]
    BY <1>0, <2>1
  <2>3. QED
    BY <1>0, <1>n, <1>x, <2>1, <2>2 DEF Covered, Entry, Effect, Owes, May, Waits, One, Holds, Idem!Holds, Even
<1>5. CASE HandlerThrows(w)
  <2>1. Still /\ Even /\ record' = record /\ lock' = lock /\ pc[w] = "granted" /\ pc'[w] = "catch"
    BY <1>0, <1>5, <1>e DEF HandlerThrows
  <2>2. QED
    BY <1>0, <1>n, <1>x, <2>1 DEF Covered, Entry, Effect, Owes, May, Waits, One, Holds, Idem!Holds, Even
<1>6. CASE SuccessHookThrows(w)
  <2>1. /\ Hit /\ record' = record /\ lock' = lock /\ ev' = ev /\ dlq' = dlq /\ outcome' = outcome
        /\ pc[w] = "granted" /\ pc'[w] = "catch" /\ effects' = [effects EXCEPT ![ev[w]] = @ + 1]
    BY <1>0, <1>6, <1>h DEF SuccessHookThrows
  <2>2. effects'[e] = IF ev[w] = e THEN effects[e] + 1 ELSE effects[e]
    BY <1>0, <2>1
  <2>3. QED
    BY <1>0, <1>n, <1>x, <2>1, <2>2 DEF Covered, Entry, Effect, Owes, May, Waits, One, Holds, Idem!Holds, Hit
<1>7. CASE Retry(w) \/ CatchHookThrows(w)
  <2>1. Still /\ (Even \/ Hit) /\ record' = record /\ lock' = lock /\ pc[w] = "catch" /\ pc'[w] = "threw"
    BY <1>0, <1>7, <1>e, <1>h DEF Retry, CatchHookThrows
  <2>2. QED
    BY <1>0, <1>n, <1>x, <2>1 DEF Covered, Entry, Effect, Owes, May, Waits, One, Holds, Idem!Holds, Even, Hit
<1>8. CASE Exhaust(w)
  <2>1. /\ Even /\ record' = record /\ lock' = lock /\ ev' = ev /\ dlq' = dlq /\ effects' = effects
        /\ pc[w] = "catch" /\ pc'[w] = "store"
    BY <1>0, <1>8, <1>e DEF Exhaust
  <2>2. QED
    BY <1>0, <1>n, <1>x, <2>1 DEF Covered, Entry, Effect, Owes, May, Waits, One, Holds, Idem!Holds, Even
<1>9. CASE Save(w)
  <2>1. Still /\ Even
    BY <1>9, <1>e DEF Save, Idem!Store, Idem!Release
  <2>2. CASE Idem!Store(w)
    <3>1. /\ pc[w] = "store" /\ pc'[w] = "release" /\ lock' = lock
          /\ record'[e] = IF ev[w] = e THEN outcome[w] ELSE record[e]
      BY <1>0, <2>2 DEF Idem!Store
    <3>2. outcome[w] # "none"
      BY <1>0
    <3>3. QED
      BY <1>0, <1>n, <1>x, <2>1, <3>1, <3>2 DEF Covered, Entry, Effect, Owes, May, Waits, One, Holds, Idem!Holds, Even
  <2>3. CASE Idem!Release(w)
    <3>1. pc[w] = "release" /\ pc'[w] = "marked" /\ lock' = [lock EXCEPT ![ev[w]] = FALSE] /\ record' = record
      BY <1>0, <2>3 DEF Idem!Release
    <3>2. QED
      BY <1>0, <1>n, <1>r, <1>x, <2>1, <3>1 DEF Covered, Entry, Effect, Owes, May, Waits, One, Holds, Idem!Holds, Even
  <2>4. QED
    BY <1>9, <2>2, <2>3 DEF Save
<1>10. CASE Marked(w)
  <2>1. /\ Still /\ Even /\ record' = record /\ lock' = lock
        /\ pc[w] = "marked" /\ pc'[w] = (IF outcome[w] = "completed" THEN "returned" ELSE "route")
    BY <1>0, <1>10, <1>e DEF Marked
  <2>2. outcome[w] # "completed" => outcome[w] = "failed"
    BY <1>0
  <2>3. QED
    BY <1>0, <1>n, <1>x, <2>1, <2>2 DEF Covered, Entry, Effect, Owes, May, Waits, One, Holds, Idem!Holds, Even
<1>11. CASE Route(w)
  <2>1. /\ Even /\ record' = record /\ lock' = lock /\ ev' = ev /\ outcome' = outcome /\ effects' = effects
        /\ pc[w] = "route" /\ pc'[w] = "threw" /\ dlq' = [dlq EXCEPT ![ev[w]] = @ + 1]
    BY <1>0, <1>11, <1>e DEF Route
  <2>2. dlq'[e] = IF ev[w] = e THEN dlq[e] + 1 ELSE dlq[e]
    BY <1>0, <2>1
  <2>3. QED
    BY <1>0, <1>n, <1>x, <2>1, <2>2 DEF Covered, Entry, Effect, Owes, May, Waits, One, Holds, Idem!Holds, Even
<1>12. CASE RedisFails(w)
  <2>1. Dear /\ ev' = ev /\ outcome' = outcome /\ effects' = effects
    BY <1>12, <1>d DEF RedisFails
  <2>2. /\ pc[w] \in Idem!Calls \cup {"route"}
        /\ pc'[w] = IF pc[w] = "route" \/ (pc[w] \in {"store", "release"} /\ outcome[w] = "failed")
                    THEN "threw" ELSE "catch"
    BY <1>0, <1>12 DEF RedisFails
  <2>3. dlq'[e] = dlq[e] \/ (dlq'[e] = dlq[e] + 1 /\ ev[w] = e /\ pc[w] = "route")
    BY <1>0, <1>12, FailureDoes
  <2>4. record'[e] = record[e] \/ (record'[e] # "none" /\ ev[w] = e /\ pc[w] = "store")
    BY <1>0, <1>12, FailureDoes
  <2>5. \/ lock'[e] = lock[e]
        \/ ev[w] = e /\ pc[w] = "acquire" /\ lock'[e]
        \/ ev[w] = e /\ pc[w] \in {"release", "drop_lock"} /\ ~lock'[e]
    <3>1. lock' = lock \/ lock' = [lock EXCEPT ![ev[w]] = pc[w] = "acquire" \/ (@ /\ pc[w] \notin {"release", "drop_lock"})]
      BY <1>12 DEF RedisFails, Applied
    <3>2. QED
      BY <1>0, <3>1
  <2>6. CASE pc[w] \in {"exists", "acquire", "double_check"}
    BY <1>0, <1>n, <1>x, <2>1, <2>2, <2>3, <2>4, <2>5, <2>6 DEF Covered, Entry, Effect, Owes, May, Waits, One, Holds, Idem!Holds, Dear
  <2>7. CASE pc[w] \in {"drop_lock", "release"}
    BY <1>0, <1>n, <1>r, <1>x, <2>1, <2>2, <2>3, <2>4, <2>5, <2>7 DEF Covered, Entry, Effect, Owes, May, Waits, One, Holds, Idem!Holds, Dear
  <2>8. CASE pc[w] = "store"
    BY <1>0, <1>n, <1>x, <2>1, <2>2, <2>3, <2>4, <2>5, <2>8 DEF Covered, Entry, Effect, Owes, May, Waits, One, Holds, Idem!Holds, Dear
  <2>9. CASE pc[w] = "route"
    BY <1>0, <1>n, <1>x, <2>1, <2>2, <2>3, <2>4, <2>5, <2>9 DEF Covered, Entry, Effect, Owes, May, Waits, One, Holds, Idem!Holds, Dear
  <2>10. QED
    BY <2>2, <2>6, <2>7, <2>8, <2>9 DEF Idem!Calls
<1>13. ASSUME NEW j \in Jobs, Fetch(w, j) PROVE Covered(w, e)
  <2>1. /\ Even /\ record' = record /\ lock' = lock /\ dlq' = dlq /\ effects' = effects
        /\ pc[w] = "idle" /\ pc'[w] \in {"exists", "threw"}
    BY <1>0, <1>13, <1>e DEF Fetch, Idem!CheckAndLock
  <2>2. QED
    BY <1>0, <1>n, <1>x, <2>1 DEF Covered, Entry, Effect, Owes, May, Waits, One, Holds, Idem!Holds, Even
<1>14. CASE Finish(w) \/ FinishRejected(w) \/ FinishFails(w)
  <2>1. Mishap("redis") \/ mishaps' = mishaps
    BY <1>14 DEF Finish, FinishRejected, FinishFails
  <2>2. /\ Still /\ (Even \/ Dear) /\ record' = record /\ lock' = lock
        /\ pc[w] \in {"returned", "threw"} /\ pc'[w] = "idle"
    BY <1>0, <1>14, <1>d, <1>e, <2>1 DEF Finish, FinishRejected, FinishFails, Leave
  <2>3. QED
    BY <1>0, <1>n, <1>x, <2>2 DEF Covered, Entry, Effect, Owes, May, Waits, One, Holds, Idem!Holds, Even, Dear
<1>15. CASE Crash(w)
  <2>1. Still /\ Hit /\ record' = record /\ lock' = lock /\ pc'[w] = "idle"
    BY <1>0, <1>15, <1>h DEF Crash, Leave
  <2>2. QED
    BY <1>0, <1>n, <1>r, <1>x, <2>1 DEF Covered, Entry, Effect, Owes, May, Waits, One, Holds, Idem!Holds, Hit
<1>16. QED
  BY <1>1, <1>2, <1>3, <1>4, <1>5, <1>6, <1>7, <1>8, <1>9, <1>10, <1>11, <1>12, <1>13, <1>14, <1>15 DEF Acts

\* A record outlives every step of a slot.
LEMMA RecordStays ==
    ASSUME TypeInv, NEW w \in Slots, Acts(w), NEW e \in Events, record[e] # "none"
    PROVE  record'[e] # "none"
<1>1. record \in [Events -> {"completed", "failed", "none"}] /\ outcome \in [Slots -> {"completed", "failed"}]
  BY DEF TypeInv, IdemOK
<1>2. record' = record \/ record' = [record EXCEPT ![ev[w]] = outcome[w]]
  BY SlotEffects, FailureDoes DEF Stores, Releases, IsMarked, Routes, TakesEffect, Quiet
<1>3. QED
  BY <1>1, <1>2

LEMMA PaidStep ==
    ASSUME TypeInv, TypeInv', Recorded, Paid, [Next]_vars
    PROVE  Paid'
<1> SUFFICES ASSUME NEW e \in Events
             PROVE  /\ dlq'[e] + Cardinality(Debtors(e)') + Gap(e)' <= 1 + Charges'
                    /\ effects'[e] + Cardinality(Runners(e)') + Gap(e)' <= 1 + Total(mishaps')
  BY DEF Paid
<1>0. /\ dlq[e] + Cardinality(Debtors(e)) + Gap(e) <= 1 + Charges
      /\ effects[e] + Cardinality(Runners(e)) + Gap(e) <= 1 + Total(mishaps)
  BY DEF Paid
<1>1. /\ Debtors(e) \in SUBSET Slots /\ Debtors(e)' \in SUBSET Slots
      /\ Runners(e) \in SUBSET Slots /\ Runners(e)' \in SUBSET Slots
  BY DEF Debtors, Runners
<1>2. /\ dlq[e] \in Nat /\ dlq'[e] \in Nat /\ effects[e] \in Nat /\ effects'[e] \in Nat
      /\ ev \in [Slots -> Events]
  BY DEF TypeInv, HistoryOK, IdemOK
<1>3. Charges \in Nat /\ Total(mishaps) \in Nat
  BY Tally DEF Charges
<1>4. Gap(e) \in {0, 1} /\ Gap(e)' \in {0, 1}
  BY DEF Gap, One
<1>5. \A k \in Mishaps : mishaps[k] \in Nat /\ mishaps'[k] \in Nat
  BY WorkerAssumption DEF TypeInv, HistoryOK
<1>6. /\ mishaps'["crash"] \in Nat /\ mishaps'["hook"] \in Nat /\ mishaps'["redis"] \in Nat
      /\ mishaps'["overrun"] \in Nat /\ mishaps'["expiry"] \in Nat
  BY <1>5 DEF Mishaps, Failures
<1>7. Charges' \in Nat /\ Total(mishaps') \in Nat
  BY <1>6 DEF Charges, Total
<1>8. ASSUME NEW w \in Slots, Acts(w)
      PROVE  /\ dlq'[e] + Cardinality(Debtors(e)') + Gap(e)' <= 1 + Charges'
             /\ effects'[e] + Cardinality(Runners(e)') + Gap(e)' <= 1 + Total(mishaps')
  <2>1. Sole(w) /\ (record[e] # "none" => record'[e] # "none")
    BY <1>8, SlotEffects, RecordStays
  <2>2. /\ \A v \in Slots \ {w} : v \in Debtors(e)' => v \in Debtors(e)
        /\ \A v \in Slots \ {w} : v \in Runners(e)' => v \in Runners(e)
    BY <2>1 DEF Sole, Debtors, Runners, Owes, May, Waits
  <2>3. /\ Entry(w, e) = One(w \in Debtors(e)) /\ Entry(w, e)' = One(w \in Debtors(e)')
        /\ Effect(w, e) = One(w \in Runners(e)) /\ Effect(w, e)' = One(w \in Runners(e)')
    BY DEF Entry, Effect, Debtors, Runners
  <2>4. /\ dlq'[e] + Entry(w, e)' + Gap(e)' + Charges <= dlq[e] + Entry(w, e) + Gap(e) + Charges'
        /\ effects'[e] + Effect(w, e)' + Gap(e)' + Total(mishaps)
           <= effects[e] + Effect(w, e) + Gap(e) + Total(mishaps')
    BY <1>8, CoveredStep DEF Covered
  <2>5. /\ Cardinality(Debtors(e)') \in Nat /\ Cardinality(Debtors(e)) \in Nat
        /\ Cardinality(Debtors(e)') + Entry(w, e) <= Cardinality(Debtors(e)) + Entry(w, e)'
    BY <1>1, <2>2, <2>3, Joins
  <2>6. /\ Cardinality(Runners(e)') \in Nat /\ Cardinality(Runners(e)) \in Nat
        /\ Cardinality(Runners(e)') + Effect(w, e) <= Cardinality(Runners(e)) + Effect(w, e)'
    BY <1>1, <2>2, <2>3, Joins
  <2>7. /\ Entry(w, e) \in {0, 1} /\ Entry(w, e)' \in {0, 1}
        /\ Effect(w, e) \in {0, 1} /\ Effect(w, e)' \in {0, 1}
    BY DEF Entry, Effect, One
  <2>8. dlq'[e] + Cardinality(Debtors(e)') + Gap(e)' <= 1 + Charges'
    BY <1>0, <1>2, <1>3, <1>4, <1>7, <2>4, <2>5, <2>7
  <2>9. effects'[e] + Cardinality(Runners(e)') + Gap(e)' <= 1 + Total(mishaps')
    BY <1>0, <1>2, <1>3, <1>4, <1>7, <2>4, <2>6, <2>7
  <2>10. QED
    BY <2>8, <2>9
<1>9. CASE ~ \E w \in Slots : Acts(w)
  <2>1. UNCHANGED <<pc, ev, outcome, dlq, effects>>
    BY <1>9, OthersQuiet
  <2>2. Cardinality(Debtors(e)) \in Nat /\ Cardinality(Runners(e)) \in Nat
    BY <1>1, FiniteSlots, FS_Subset, FS_CardinalityType
  <2>3. \A w \in Slots : Holds(w, e)' <=> Holds(w, e)
    BY <2>1 DEF Holds, Idem!Holds
  <2>4. CASE UNCHANGED <<lock, record, mishaps>>
    <3>1. /\ Debtors(e)' = Debtors(e) /\ Runners(e)' = Runners(e) /\ Gap(e)' = Gap(e)
          /\ Charges' = Charges /\ Total(mishaps') = Total(mishaps)
      BY <2>1, <2>3, <2>4 DEF Debtors, Runners, Owes, May, Waits, Gap, Charges
    <3>2. QED
      BY <1>0, <2>1, <3>1
  <2>5. ASSUME NEW d \in Events, LockExpires(d)
        PROVE  /\ dlq'[e] + Cardinality(Debtors(e)') + Gap(e)' <= 1 + Charges'
               /\ effects'[e] + Cardinality(Runners(e)') + Gap(e)' <= 1 + Total(mishaps')
    <3>1. lock' = [lock EXCEPT ![d] = FALSE] /\ record' = record /\ lock \in [Events -> BOOLEAN]
      BY <2>5 DEF LockExpires, TypeInv, IdemOK
    <3>2. Debtors(e)' = Debtors(e) /\ Runners(e)' = Runners(e)
      BY <2>1, <3>1 DEF Debtors, Runners, Owes, May, Waits
    <3>3. CASE \E w \in Slots : Holds(w, d)
      <4>1. Mishap("overrun")
        BY <2>5, <3>3 DEF LockExpires
      <4>2. /\ mishaps'["overrun"] = mishaps["overrun"] + 1 /\ mishaps'["redis"] = mishaps["redis"]
            /\ mishaps'["expiry"] = mishaps["expiry"] /\ Total(mishaps') = Total(mishaps) + 1
        BY <4>1, MishapOK DEF TypeInv, Mishaps, Failures
      <4>3. Charges' = Charges + 1
        BY <4>2, Tally DEF Charges
      <4>4. QED
        BY <1>0, <1>2, <1>3, <1>4, <2>1, <2>2, <3>2, <4>2, <4>3
    <3>4. CASE ~ \E w \in Slots : Holds(w, d)
      <4>1. mishaps' = mishaps
        BY <2>5, <3>4 DEF LockExpires
      <4>2. Charges' = Charges /\ Total(mishaps') = Total(mishaps)
        BY <4>1 DEF Charges
      <4>3. Gap(e)' = Gap(e)
        BY <2>3, <3>1, <3>4 DEF Gap
      <4>4. QED
        BY <1>0, <2>1, <3>2, <4>2, <4>3
    <3>5. QED
      BY <3>3, <3>4
  <2>6. ASSUME NEW d \in Events, RecordExpires(d)
        PROVE  /\ dlq'[e] + Cardinality(Debtors(e)') + Gap(e)' <= 1 + Charges'
               /\ effects'[e] + Cardinality(Runners(e)') + Gap(e)' <= 1 + Total(mishaps')
    <3>1. /\ record' = [record EXCEPT ![d] = "none"] /\ lock' = lock /\ Mishap("expiry")
          /\ \A w \in Slots : ev[w] = d => pc[w] # "double_check"
      BY <2>6 DEF RecordExpires
    <3>2. \A w \in Slots : pc[w] = "double_check" => record'[ev[w]] = record[ev[w]]
      BY <1>2, <3>1 DEF TypeInv, IdemOK
    <3>3. \A w \in Slots : Waits(w)' <=> Waits(w)
      BY <2>1, <3>2 DEF Waits
    <3>4. Debtors(e)' = Debtors(e) /\ Runners(e)' = Runners(e)
      BY <2>1, <3>3 DEF Debtors, Runners, Owes, May
    <3>5. /\ mishaps'["expiry"] = mishaps["expiry"] + 1 /\ mishaps'["redis"] = mishaps["redis"]
          /\ mishaps'["overrun"] = mishaps["overrun"] /\ Total(mishaps') = Total(mishaps) + 1
      BY <3>1, MishapOK DEF TypeInv, Mishaps, Failures
    <3>6. Charges' = Charges + 1
      BY <3>5, Tally DEF Charges
    <3>7. QED
      BY <1>0, <1>2, <1>3, <1>4, <2>1, <2>2, <3>4, <3>5, <3>6
  <2>7. QED
    BY <1>9, <2>4, <2>5, <2>6, OthersQuiet
<1>10. QED
  BY <1>8, <1>9

Costs == TypeInv /\ Recorded /\ Paid

LEMMA CostsKept == Spec => []Costs
<1>1. Init => Costs
  <2> SUFFICES ASSUME Init PROVE Costs
    OBVIOUS
  <2>1. TypeInv /\ Recorded
    BY TypeInit, StartClean
  <2>2. /\ pc = [w \in Slots |-> "idle"] /\ dlq = [e \in Events |-> 0] /\ effects = [e \in Events |-> 0]
    BY DEF Init, Idem!Init
  <2>3. Charges \in Nat /\ Total(mishaps) \in Nat
    BY <2>1, Tally DEF Charges
  <2>4. ASSUME NEW e \in Events PROVE Debtors(e) = {} /\ Runners(e) = {} /\ Gap(e) \in {0, 1}
    BY <2>2 DEF Debtors, Runners, Owes, May, Waits, Gap, One
  <2>5. Paid
    BY <2>2, <2>3, <2>4, FS_EmptySet DEF Paid
  <2>6. QED
    BY <2>1, <2>5 DEF Costs
<1>2. Costs /\ [Next]_vars => Costs'
  BY TypeStep, RecordedStep, PaidStep DEF Costs
<1>3. QED
  BY <1>1, <1>2, PTL DEF Spec

LEMMA CostsMean ==
    ASSUME Costs, NEW e \in Events
    PROVE  dlq[e] <= 1 + Charges /\ effects[e] <= 1 + Total(mishaps)
<1>1. Debtors(e) \in SUBSET Slots /\ Runners(e) \in SUBSET Slots
  BY DEF Debtors, Runners
<1>2. Cardinality(Debtors(e)) \in Nat /\ Cardinality(Runners(e)) \in Nat
  BY <1>1, FiniteSlots, FS_Subset, FS_CardinalityType
<1>3. dlq[e] \in Nat /\ effects[e] \in Nat /\ Gap(e) \in {0, 1} /\ Charges \in Nat /\ Total(mishaps) \in Nat
  BY Tally DEF Costs, TypeInv, HistoryOK, Gap, One, Charges
<1>4. /\ dlq[e] + Cardinality(Debtors(e)) + Gap(e) <= 1 + Charges
      /\ effects[e] + Cardinality(Runners(e)) + Gap(e) <= 1 + Total(mishaps)
  BY DEF Costs, Paid
<1>5. QED
  BY <1>2, <1>3, <1>4

\* Whatever jobs, stalls, crashes and hooks do, an event has one entry in the
\* dead-letter queue and at most one more for each Redis call that threw, lock that
\* ran out under its run and record that expired (OneDlqEntry).
THEOREM OneEntry == Spec => []OneDlqEntry
<1>1. Costs => OneDlqEntry
  <2> SUFFICES ASSUME Costs, NEW e \in Events
               PROVE  dlq[e] <= 1 + mishaps["redis"] + mishaps["overrun"] + mishaps["expiry"]
    BY DEF OneDlqEntry
  <2>1. dlq[e] <= 1 + Charges /\ dlq[e] \in Nat
    BY CostsMean DEF Costs, TypeInv, HistoryOK
  <2>2. 1 + Charges = 1 + mishaps["redis"] + mishaps["overrun"] + mishaps["expiry"]
    BY Tally DEF Charges, Costs
  <2>3. QED
    BY <2>1, <2>2
<1>2. QED
  BY <1>1, CostsKept, PTL

\* Each mishap of any kind, a lock that runs out under its run and a record that
\* expires included, costs at most one more effect of an event (DuplicationBounded).
THEOREM DuplicatesPaidFor == Spec => []DuplicationBounded
<1>1. Costs => DuplicationBounded
  BY CostsMean DEF DuplicationBounded
<1>2. QED
  BY <1>1, CostsKept, PTL

-----------------------------------------------------------------------------
(* While no process dies, no hook throws and Redis answers *)

\* A slot that acts without a mishap.
ActsWell(w) ==
    \/ \E j \in Jobs : Fetch(w, j)
    \/ Check(w) \/ Grant(w) \/ Skip(w) \/ HandlerReturns(w) \/ HandlerThrows(w)
    \/ Retry(w) \/ Exhaust(w) \/ Save(w) \/ Marked(w) \/ Route(w)
    \/ Finish(w) \/ FinishRejected(w)

LEMMA NoMishap ==
    ASSUME TypeInv, [Next]_vars, Undisturbed', NEW w \in Slots, Acts(w)
    PROVE  ActsWell(w)
<1>1. HistoryOK /\ \A k \in Failures : mishaps'[k] = mishaps[k]
  BY MishapsKept DEF TypeInv
<1>2. ASSUME NEW k \in Failures, Mishap(k) PROVE FALSE
  <2>1. k \in Mishaps
    BY DEF Mishaps
  <2>2. mishaps[k] \in Nat /\ mishaps'[k] = mishaps[k] + 1
    BY <1>1, <1>2, <2>1, MishapOK
  <2>3. QED
    BY <1>1, <2>2
<1>3. QED
  BY <1>2 DEF Acts, ActsWell, SuccessHookThrows, CatchHookThrows, RedisFails, FinishFails, Crash, Failures

\* An attempt that is over was not the last, or its event is in the dead-letter
\* queue; and the slot that has the BullMQ lock of a job knows its attempt.
Accounted ==
    /\ \A j \in Jobs : owner[j] # NoSlot => attempt[owner[j]] = attemptsMade[j] + 1
    /\ Undisturbed => \A w \in Slots : pc[w] = "threw" /\ EventOf[job[w]] \in Handled =>
          attempt[w] < MaxAttempts \/ Routed(EventOf[job[w]])
    /\ FailedMeansRouted

LEMMA RoutedStays ==
    ASSUME TypeInv, [Next]_vars, NEW e \in Events, Routed(e)
    PROVE  Routed(e)'
<1>1. dlq \in [Events -> Nat] /\ dlq[e] > 0
  BY DEF TypeInv, HistoryOK, Routed
<1>2. ASSUME NEW w \in Slots, Acts(w) PROVE dlq' = dlq \/ dlq' = [dlq EXCEPT ![ev[w]] = @ + 1]
  BY <1>2, SlotEffects, FailureDoes DEF Stores, Releases, IsMarked, Routes, TakesEffect, Quiet
<1>3. dlq'[e] > 0
  BY <1>1, <1>2, OthersQuiet
<1>4. QED
  BY <1>3 DEF Routed

LEMMA OwnerAttempt ==
    ASSUME TypeInv, [Next]_vars, Accounted, NEW j \in Jobs, owner'[j] # NoSlot
    PROVE  attempt'[owner'[j]] = attemptsMade'[j] + 1
<1>0. /\ owner \in [Jobs -> Slots \cup {NoSlot}] /\ attemptsMade \in [Jobs -> 0..QueueAttempts]
      /\ attempt \in [Slots -> 1..QueueAttempts] /\ pc \in [Slots -> Pcs]
      /\ owner[j] # NoSlot => /\ attempt[owner[j]] = attemptsMade[j] + 1 /\ job[owner[j]] = j
                              /\ pc[owner[j]] # "idle" /\ state[j] = "active"
  BY DEF TypeInv, QueueOK, SlotsOK, IdemOK, QueueInv, Accounted
<1>1. ASSUME NEW w \in Slots, Works(w) PROVE attempt'[owner'[j]] = attemptsMade'[j] + 1
  BY <1>0, <1>1, WorksOK DEF slotVars, queueVars
<1>2. ASSUME NEW w \in Slots, NEW k \in Jobs, Fetch(w, k) PROVE attempt'[owner'[j]] = attemptsMade'[j] + 1
  <2>1. /\ pc[w] = "idle" /\ owner' = [owner EXCEPT ![k] = w] /\ attempt' = [attempt EXCEPT ![w] = attemptsMade[k] + 1]
        /\ UNCHANGED attemptsMade
    BY <1>2 DEF Fetch
  <2>2. QED
    BY <1>0, <2>1
<1>3. ASSUME NEW w \in Slots, Finish(w) \/ FinishRejected(w) \/ FinishFails(w) \/ Crash(w)
      PROVE  attempt'[owner'[j]] = attemptsMade'[j] + 1
  <2>1. attempt' = [attempt EXCEPT ![w] = 1]
    BY <1>3 DEF Finish, FinishRejected, FinishFails, Crash, Leave
  <2>2. owner'[j] = owner[j] /\ owner[j] # w
    <3>1. CASE Finish(w) \/ FinishFails(w)
      BY <1>0, <3>1 DEF Finish, FinishFails
    <3>2. CASE FinishRejected(w)
      BY <1>0, <3>2 DEF FinishRejected, queueVars
    <3>3. CASE Crash(w)
      BY <1>0, <3>3 DEF Crash
    <3>4. QED
      BY <1>3, <3>1, <3>2, <3>3
  <2>3. attemptsMade'[j] = attemptsMade[j]
    BY <1>0, <1>3, <2>2 DEF Finish, FinishRejected, FinishFails, Crash, queueVars
  <2>4. QED
    BY <1>0, <2>1, <2>2, <2>3
<1>4. ASSUME ~ \E w \in Slots : Acts(w) PROVE attempt'[owner'[j]] = attemptsMade'[j] + 1
  <2>1. UNCHANGED <<attempt, attemptsMade>> /\ (owner'[j] = owner[j] \/ owner'[j] = NoSlot)
    BY <1>0, <1>4, Steps DEF Promote, Stall, LockExpires, RecordExpires, vars, idemVars, slotVars, queueVars
  <2>2. QED
    BY <1>0, <2>1
<1>5. QED
  BY <1>1, <1>2, <1>3, <1>4 DEF Acts, Works

LEMMA ThrewMeans ==
    ASSUME TypeInv, [Next]_vars, Accounted, Undisturbed', NEW v \in Slots, pc'[v] = "threw",
           EventOf[job'[v]] \in Handled
    PROVE  attempt'[v] < MaxAttempts \/ dlq'[EventOf[job'[v]]] > 0
<1>0. /\ pc \in [Slots -> Pcs] /\ job \in [Slots -> Jobs \cup {NoJob}] /\ attempt \in [Slots -> 1..QueueAttempts]
      /\ Undisturbed /\ dlq \in [Events -> Nat] /\ Handled \subseteq Events
      /\ pc[v] # "idle" => job[v] \in Jobs /\ (pc[v] # "threw" => ev[v] = EventOf[job[v]])
      /\ pc[v] = "threw" /\ EventOf[job[v]] \in Handled => attempt[v] < MaxAttempts \/ Routed(EventOf[job[v]])
  BY MishapsKept, WorkerAssumption DEF TypeInv, IdemOK, SlotsOK, HistoryOK, SlotInv, Accounted
<1>1. CASE pc[v] = "threw" /\ job'[v] = job[v] /\ attempt'[v] = attempt[v]
  BY <1>0, <1>1, RoutedStays DEF Routed
<1>2. ASSUME NEW w \in Slots, Acts(w)
      PROVE  attempt'[v] < MaxAttempts \/ dlq'[EventOf[job'[v]]] > 0
  <2>0. ActsWell(w)
    BY <1>2, NoMishap
  <2>1. CASE v # w
    <3>1. pc'[v] = pc[v]
      BY <1>2, <2>1, SlotEffects DEF Sole
    <3>2. job'[v] = job[v] /\ attempt'[v] = attempt[v]
      <4>1. CASE Works(w)
        BY <4>1, WorksOK DEF slotVars
      <4>2. CASE ~Works(w)
        BY <1>0, <1>2, <2>1, <4>2 DEF Acts, Works, Fetch, Finish, FinishRejected, FinishFails, Crash, Leave
      <4>3. QED
        BY <4>1, <4>2
    <3>3. QED
      BY <1>1, <3>1, <3>2
  <2>2. CASE v = w
    <3>1. (\E j \in Jobs : Fetch(w, j)) \/ Retry(w) \/ Route(w)
      <4>1. CASE Finish(w) \/ FinishRejected(w)
        BY <1>0, <2>2, <4>1 DEF Finish, FinishRejected, Leave
      <4>2. CASE Check(w)
        BY <1>0, <2>2, <4>2 DEF Check, Idem!Exists, Idem!Acquire, Idem!DropLock, Idem!Goto
      <4>3. CASE Grant(w) \/ Skip(w) \/ HandlerReturns(w) \/ HandlerThrows(w) \/ Exhaust(w) \/ Save(w) \/ Marked(w)
        BY <1>0, <2>2, <4>3 DEF Grant, Skip, HandlerReturns, HandlerThrows, Exhaust, Save, Marked, Goto,
           Idem!Goto, Idem!DoubleCheck, Idem!Mark, Idem!Store, Idem!Release
      <4>4. QED
        BY <2>0, <4>1, <4>2, <4>3 DEF ActsWell
    <3>2. CASE Retry(w)
      BY <2>2, <3>2 DEF Retry, slotVars
    <3>3. CASE Route(w)
      <4>1. dlq' = [dlq EXCEPT ![ev[w]] = @ + 1] /\ job' = job /\ ev[w] = EventOf[job[w]]
        BY <1>0, <2>2, <3>3 DEF Route, slotVars, Goto, Idem!Goto
      <4>2. ev[w] \in Events
        BY <2>2, <4>1 DEF TypeInv, IdemOK
      <4>3. dlq'[ev[w]] = dlq[ev[w]] + 1 /\ dlq[ev[w]] \in Nat
        BY <1>0, <4>1, <4>2
      <4>4. QED
        BY <2>2, <4>1, <4>3
    <3>4. ASSUME NEW j \in Jobs, Fetch(w, j) PROVE FALSE
      <4>1. job'[v] = j
        BY <1>0, <2>2, <3>4 DEF Fetch
      <4>2. pc' = [pc EXCEPT ![w] = "exists"]
        BY <3>4, <4>1 DEF Fetch, Idem!CheckAndLock, Idem!Goto
      <4>3. QED
        BY <1>0, <2>2, <4>2
    <3>5. QED
      BY <3>1, <3>2, <3>3, <3>4
  <2>3. QED
    BY <2>1, <2>2
<1>3. CASE ~ \E w \in Slots : Acts(w)
  <2>1. UNCHANGED <<pc, job, attempt>>
    BY <1>3, OthersQuiet
  <2>2. QED
    BY <1>1, <2>1
<1>4. QED
  BY <1>2, <1>3

LEMMA FailedStep ==
    ASSUME MaxAttempts <= QueueAttempts, TypeInv, [Next]_vars, Accounted
    PROVE  FailedMeansRouted'
<1> SUFFICES ASSUME Undisturbed', NEW j \in Jobs, state'[j] = "failed", stalls'[j] <= MaxStalled, EventOf[j] \in Handled
             PROVE  Routed(EventOf[j])'
  BY DEF FailedMeansRouted, Routed
<1>0. /\ QueueOK /\ Undisturbed /\ EventOf[j] \in Events /\ MaxStalled \in Nat /\ QueueAttempts \in Nat /\ MaxAttempts \in Nat
      /\ state \in [Jobs -> JobStates] /\ stalls \in [Jobs -> 0..(MaxStalled + 1)]
  BY MishapsKept, WorkerAssumption DEF TypeInv, QueueOK
<1>1. CASE state[j] = "failed" /\ stalls[j] <= MaxStalled
  <2>1. Routed(EventOf[j])
    BY <1>0, <1>1 DEF Accounted, FailedMeansRouted
  <2>2. QED
    BY <1>0, <2>1, RoutedStays
<1>2. ASSUME NEW w \in Slots, Finish(w), job[w] = j, state[j] # "failed" PROVE Routed(EventOf[j])
  <2>1. pc[w] = "threw" /\ ~(attemptsMade[j] + 1 < QueueAttempts) /\ owner[j] = w
    BY <1>0, <1>2 DEF Finish, QueueOK
  <2>2. attempt[w] = attemptsMade[j] + 1 /\ attempt[w] \in Nat
    BY <2>1, WorkerAssumption DEF Accounted, TypeInv, SlotsOK
  <2>3. ~(attempt[w] < MaxAttempts)
    BY <1>0, <2>1, <2>2
  <2>4. QED
    BY <1>0, <1>2, <2>1, <2>3 DEF Accounted
<1>3. ASSUME Stall(j) PROVE FALSE
  <2>1. stalls'[j] = stalls[j] + 1 /\ ~(stalls[j] < MaxStalled)
    BY <1>0, <1>3 DEF Stall
  <2>2. stalls[j] \in Nat
    BY <1>0
  <2>3. QED
    BY <1>0, <2>1, <2>2
<1>4. CASE \E w \in Slots : Acts(w)
  <2>1. PICK w \in Slots : Acts(w)
    BY <1>4
  <2>2. CASE Finish(w)
    <3>1. stalls' = stalls /\ (job[w] = j \/ state'[j] = state[j])
      BY <1>0, <2>2 DEF Finish
    <3>2. QED
      BY <1>0, <1>1, <1>2, <2>2, <3>1, RoutedStays
  <2>3. CASE ~Finish(w)
    <3>1. stalls' = stalls /\ (state'[j] = state[j] \/ state'[j] = "active")
      <4>1. CASE Works(w)
        BY <4>1, WorksOK DEF queueVars
      <4>2. CASE ~Works(w)
        BY <1>0, <2>1, <2>3, <4>2 DEF Acts, Works, Fetch, FinishRejected, FinishFails, Crash, queueVars
      <4>3. QED
        BY <4>1, <4>2
    <3>2. QED
      BY <1>1, <3>1
  <2>4. QED
    BY <2>2, <2>3
<1>5. CASE ~ \E w \in Slots : Acts(w)
  <2>1. ASSUME NEW k \in Jobs, Promote(k) \/ Stall(k) PROVE Stall(j) \/ (state'[j] \in {state[j], "wait"} /\ stalls'[j] = stalls[j])
    BY <1>0, <2>1 DEF Promote, Stall
  <2>2. ASSUME (\E e \in Events : LockExpires(e) \/ RecordExpires(e)) \/ UNCHANGED vars PROVE UNCHANGED <<state, stalls>>
    BY <2>2 DEF LockExpires, RecordExpires, vars, queueVars
  <2>3. Stall(j) \/ (state'[j] \in {state[j], "wait"} /\ stalls'[j] = stalls[j])
    BY <1>5, <2>1, <2>2, Steps
  <2>4. QED
    BY <1>1, <1>3, <2>3
<1>6. QED
  BY <1>4, <1>5

\* While no process dies, no hook throws and Redis answers, and the queue allows as
\* many attempts as the worker makes, no job fails for good without its event in the
\* dead-letter queue, unless it stalled too often (FailedMeansRouted).
THEOREM NoSilentFailure == MaxAttempts <= QueueAttempts => (Spec => []FailedMeansRouted)
<1> SUFFICES ASSUME MaxAttempts <= QueueAttempts PROVE Spec => []FailedMeansRouted
  OBVIOUS
<1>1. Init => TypeInv /\ Accounted
  <2> SUFFICES ASSUME Init PROVE Accounted
    BY TypeInit
  <2>1. /\ pc = [w \in Slots |-> "idle"] /\ owner = [j \in Jobs |-> NoSlot] /\ state = [j \in Jobs |-> "wait"]
    BY DEF Init, Idem!Init
  <2>2. QED
    BY <2>1 DEF Accounted, FailedMeansRouted
<1>2. TypeInv /\ Accounted /\ [Next]_vars => (TypeInv /\ Accounted)'
  <2> SUFFICES ASSUME TypeInv, Accounted, [Next]_vars PROVE Accounted'
    BY TypeStep
  <2>1. \A j \in Jobs : owner'[j] # NoSlot => attempt'[owner'[j]] = attemptsMade'[j] + 1
    BY OwnerAttempt
  <2>2. Undisturbed' => \A w \in Slots : pc'[w] = "threw" /\ EventOf[job'[w]] \in Handled =>
           attempt'[w] < MaxAttempts \/ dlq'[EventOf[job'[w]]] > 0
    BY ThrewMeans
  <2>3. FailedMeansRouted'
    BY FailedStep
  <2>4. QED
    BY <2>1, <2>2, <2>3 DEF Accounted, Routed
<1>3. TypeInv /\ Accounted => FailedMeansRouted
  BY DEF Accounted
<1>4. QED
  BY <1>1, <1>2, <1>3, PTL DEF Spec

\* How a step of a slot shows in the counters: it starts a run, ends one, or
\* leaves it as it was.
LEMMA Counted ==
    ASSUME TypeInv, NEW w \in Slots, ActsWell(w)
    PROVE  \/ /\ metrics'["started"] = metrics["started"] /\ metrics'["completed"] = metrics["completed"]
              /\ metrics'["failed"] = metrics["failed"] /\ metrics'["retried"] = metrics["retried"]
              /\ w \in InFlight' <=> w \in InFlight
           \/ /\ metrics' = [metrics EXCEPT !["started"] = @ + 1]
              /\ w \notin InFlight /\ w \in InFlight'
           \/ /\ \E c \in {"completed", "failed", "retried"} : metrics' = [metrics EXCEPT ![c] = @ + 1]
              /\ w \in InFlight /\ w \notin InFlight'
<1>0. /\ pc \in [Slots -> Pcs] /\ outcome \in [Slots -> {"completed", "failed"}] /\ metrics \in [Counters -> Nat]
  BY DEF TypeInv, IdemOK, HistoryOK
<1> USE DEF Goto, Idem!Goto, Count, Counters
<1>1. CASE Check(w)
  BY <1>0, <1>1 DEF Check, Idem!Exists, Idem!Acquire, Idem!DropLock, InFlight
<1>2. CASE Grant(w)
  BY <1>0, <1>2 DEF Grant, Idem!DoubleCheck, InFlight
<1>3. CASE Skip(w)
  BY <1>0, <1>3 DEF Skip, InFlight
<1>4. CASE HandlerReturns(w) \/ HandlerThrows(w) \/ Exhaust(w) \/ Save(w)
  BY <1>0, <1>4 DEF HandlerReturns, Idem!Mark, HandlerThrows, Exhaust, Save, Idem!Store, Idem!Release, InFlight
<1>5. CASE Retry(w)
  BY <1>0, <1>5 DEF Retry, InFlight
<1>6. CASE Marked(w)
  BY <1>0, <1>6 DEF Marked, InFlight
<1>7. CASE Route(w)
  BY <1>0, <1>7 DEF Route, InFlight
<1>8. CASE Finish(w) \/ FinishRejected(w)
  <2>1. pc[w] \in {"returned", "threw"} /\ pc' = [pc EXCEPT ![w] = "idle"] /\ UNCHANGED metrics
    BY <1>8 DEF Finish, FinishRejected, Leave
  <2>2. QED
    BY <1>0, <2>1 DEF InFlight
<1>9. ASSUME NEW j \in Jobs, Fetch(w, j)
      PROVE  UNCHANGED metrics /\ (w \in InFlight' <=> w \in InFlight)
  <2>1. /\ pc[w] = "idle" /\ pc' \in {[pc EXCEPT ![w] = "exists"], [pc EXCEPT ![w] = "threw"]}
        /\ UNCHANGED metrics
    BY <1>9 DEF Fetch, Idem!CheckAndLock
  <2>2. QED
    BY <1>0, <2>1 DEF InFlight
<1>10. QED
  BY <1>1, <1>2, <1>3, <1>4, <1>5, <1>6, <1>7, <1>8, <1>9 DEF ActsWell

\* While no process dies, no hook throws and Redis answers, every counted start is
\* counted as one outcome or is still in a slot (MetricsBalance).
THEOREM CountersBalance == Spec => []MetricsBalance
<1>1. Init => TypeInv /\ MetricsBalance
  <2> SUFFICES ASSUME Init PROVE MetricsBalance
    BY TypeInit
  <2>1. InFlight = {} /\ metrics = [c \in Counters |-> 0]
    BY DEF Init, Idem!Init, InFlight
  <2>2. Cardinality(InFlight) = 0
    BY <2>1, FS_EmptySet
  <2>3. QED
    BY <2>1, <2>2 DEF MetricsBalance, Counters
<1>2. TypeInv /\ MetricsBalance /\ [Next]_vars => (TypeInv /\ MetricsBalance)'
  <2> SUFFICES ASSUME TypeInv, MetricsBalance, [Next]_vars, Undisturbed'
               PROVE  metrics'["started"] = metrics'["completed"] + metrics'["failed"] + metrics'["retried"]
                                            + Cardinality(InFlight')
    BY TypeStep DEF MetricsBalance
  <2> DEFINE H == InFlight
             G == InFlight'
  <2>1. H \in SUBSET Slots /\ G \in SUBSET Slots
    BY DEF InFlight
  <2>2. IsFiniteSet(H) /\ IsFiniteSet(G)
    BY <2>1, FiniteSlots, FS_Subset
  <2>3. Cardinality(H) \in Nat /\ Cardinality(G) \in Nat
    BY <2>2, FS_CardinalityType
  <2>4. /\ metrics["started"] \in Nat /\ metrics["completed"] \in Nat /\ metrics["failed"] \in Nat
        /\ metrics["retried"] \in Nat /\ metrics \in [Counters -> Nat]
    BY DEF TypeInv, HistoryOK, Counters
  <2>5. metrics["started"] = metrics["completed"] + metrics["failed"] + metrics["retried"] + Cardinality(H)
    BY MishapsKept DEF MetricsBalance
  <2>6. ASSUME NEW w \in Slots, Acts(w)
        PROVE  metrics'["started"] = metrics'["completed"] + metrics'["failed"] + metrics'["retried"] + Cardinality(G)
    <3>1. \A v \in Slots \ {w} : v \in G <=> v \in H
      BY <2>6, SlotEffects DEF Sole, InFlight
    <3>2. \/ /\ metrics'["started"] = metrics["started"] /\ metrics'["completed"] = metrics["completed"]
             /\ metrics'["failed"] = metrics["failed"] /\ metrics'["retried"] = metrics["retried"]
             /\ w \in G <=> w \in H
          \/ metrics' = [metrics EXCEPT !["started"] = @ + 1] /\ w \notin H /\ w \in G
          \/ /\ \E c \in {"completed", "failed", "retried"} : metrics' = [metrics EXCEPT ![c] = @ + 1]
             /\ w \in H /\ w \notin G
      BY <2>6, Counted, NoMishap
    <3> HIDE DEF H, G
    <3>3. CASE w \in G <=> w \in H
      <4>1. G = H
        BY <2>1, <3>1, <3>3
      <4>2. Cardinality(G) = Cardinality(H)
        BY <4>1
      <4>3. QED
        BY <2>5, <3>2, <3>3, <4>2
    <3>4. CASE w \notin H /\ w \in G
      <4>1. G = H \cup {w}
        BY <2>1, <3>1, <3>4
      <4>2. Cardinality(G) = Cardinality(H) + 1
        BY <2>2, <3>4, <4>1, FS_AddElement
      <4>3. /\ metrics'["started"] = metrics["started"] + 1 /\ metrics'["completed"] = metrics["completed"]
            /\ metrics'["failed"] = metrics["failed"] /\ metrics'["retried"] = metrics["retried"]
        BY <2>4, <3>2, <3>4 DEF Counters
      <4>4. metrics["started"] + 1
            = metrics["completed"] + metrics["failed"] + metrics["retried"] + Cardinality(G)
        BY <2>3, <2>4, <2>5, <4>2
      <4>5. QED
        BY <4>3, <4>4
    <3>5. CASE w \in H /\ w \notin G
      <4>1. G = H \ {w}
        BY <2>1, <3>1, <3>5
      <4>2. Cardinality(G) = Cardinality(H) - 1
        BY <2>2, <3>5, <4>1, FS_RemoveElement
      <4>3. PICK c \in {"completed", "failed", "retried"} : metrics' = [metrics EXCEPT ![c] = @ + 1]
        BY <3>2, <3>5
      <4>4. /\ metrics'["started"] = metrics["started"]
            /\ metrics'["completed"] + metrics'["failed"] + metrics'["retried"]
               = metrics["completed"] + metrics["failed"] + metrics["retried"] + 1
        BY <2>4, <4>3 DEF Counters
      <4>5. /\ metrics'["completed"] \in Nat /\ metrics'["failed"] \in Nat /\ metrics'["retried"] \in Nat
        BY <2>4, <4>3 DEF Counters
      <4>6. QED
        BY <2>3, <2>4, <2>5, <4>2, <4>4, <4>5
    <3>6. QED
      BY <3>3, <3>4, <3>5
  <2>7. CASE ~ \E w \in Slots : Acts(w)
    <3>1. UNCHANGED <<pc, metrics>>
      BY <2>7, OthersQuiet
    <3>2. G = H
      BY <3>1 DEF InFlight
    <3>3. QED
      BY <2>5, <3>1, <3>2
  <2>8. QED
    BY <2>6, <2>7
<1>3. QED
  BY <1>1, <1>2, PTL DEF Spec

=============================================================================
