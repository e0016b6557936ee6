---------------------------- MODULE EventWorker ----------------------------
(***************************************************************************)
(* One event queue and the workers that drain it: the job processor that   *)
(* WorkerFactory.createWorker hands to BullMQ, around the idempotency      *)
(* layer (Idempotency.tla, whose actions it takes by INSTANCE), the retry  *)
(* and failure path with the handler's hooks, and the routing of exhausted *)
(* jobs to the dead-letter queue.                                          *)
(*                                                                         *)
(* A slot is one of the concurrent executions of a BullMQ worker, in any   *)
(* process.  What BullMQ itself does with a job (deliver, back off, fail,  *)
(* take back a stalled one) is modelled from how createWorker uses it.     *)
(* The DLQ is its list of entries, counted per event; Dlq.tla has the rest.*)
(***************************************************************************)
EXTENDS Naturals, FiniteSets

CONSTANTS
    Jobs,               \* the jobs published to the queue
    Slots,              \* concurrent executions over all workers
    Events,             \* idempotency keys
    EventOf,            \* EventOf[j]: the event job j carries; two jobs of one
                        \* event are a duplicate publication or a DLQ replay
    Handled,            \* the events whose type has a registered handler
    MaxAttempts,        \* retryConfig.maxAttempts of the worker
    QueueAttempts,      \* the job option "attempts" of the queue
    MaxStalled,         \* maxStalledCount of the worker
    LiveStalls,         \* TRUE: BullMQ may take a job back from a live slot
    MaxMishaps          \* bound: how many mishaps may happen

\* A process dies, one of onSuccess, onRetry and onFailure throws, an awaited
\* Redis call throws; an execution lock runs out under the slot that took it, an
\* execution record after its seven days.
Failures == {"crash", "hook", "redis"}
Mishaps  == Failures \cup {"overrun", "expiry"}

NoJob  == "no job"
NoSlot == "no slot"

ASSUME WorkerAssumption ==
    /\ Handled \subseteq Events
    /\ EventOf \in [Jobs -> Events]
    /\ MaxAttempts \in Nat \ {0}
    /\ QueueAttempts \in Nat \ {0}
    /\ MaxStalled \in Nat
    /\ MaxMishaps \in Nat
    /\ LiveStalls \in BOOLEAN
    /\ NoJob \notin Jobs
    /\ NoSlot \notin Slots

\* A deployment has so many workers and no more.
ASSUME FiniteSlots == IsFiniteSet(Slots)

VARIABLES
    lock, record, pc, ev, outcome,  \* as in Idempotency, with more pcs
    job,            \* job[w]: the job slot w is processing
    attempt,        \* attempt[w]: job.attemptsMade + 1, as w fetched it
    state,          \* state[j]: the BullMQ set job j is in
    attemptsMade,   \* attemptsMade[j]: finished attempts
    stalls,         \* stalls[j]: times j was taken back
    owner,          \* owner[j]: the slot whose token holds the BullMQ lock of j
    dlq,            \* dlq[e]: entries of event e in the dead-letter list
    effects,        \* effects[e]: handler runs of e that took effect (history)
    metrics,        \* the counters of EventMetricsService
    mishaps         \* mishaps[k]: how many of kind k have happened (history)

idemVars  == <<lock, record, pc, ev, outcome>>
queueVars == <<state, attemptsMade, stalls, owner>>
slotVars  == <<job, attempt>>
vars == <<idemVars, slotVars, queueVars, dlq, effects, metrics, mishaps>>

Idem == INSTANCE Idempotency WITH Executors <- Slots, LocksOutliveRuns <- FALSE

JobStates == {"wait", "active", "delayed", "completed", "failed"}
Counters  == {"started", "skipped", "completed", "failed", "retried", "routed"}
WorkerPcs == {"catch", "route", "returned", "threw"}

TypeOK ==
    /\ lock    \in [Events -> BOOLEAN]
    /\ record  \in [Events -> Idem!Statuses \cup {"none"}]
    /\ pc      \in [Slots -> Idem!Calls \cup Idem!Resting \cup WorkerPcs]
    /\ ev      \in [Slots -> Events]
    /\ outcome \in [Slots -> Idem!Statuses]
    /\ job     \in [Slots -> Jobs \cup {NoJob}]
    /\ attempt \in [Slots -> 1..QueueAttempts]
    /\ state   \in [Jobs -> JobStates]
    /\ attemptsMade \in [Jobs -> 0..QueueAttempts]
    /\ stalls  \in [Jobs -> 0..(MaxStalled + 1)]
    /\ owner   \in [Jobs -> Slots \cup {NoSlot}]
    /\ dlq     \in [Events -> Nat]
    /\ effects \in [Events -> Nat]
    /\ metrics \in [Counters -> Nat]
    /\ mishaps \in [Mishaps -> 0..MaxMishaps]

\* Every job has been added to the queue; a job published later is one that
\* is fetched later.
Init ==
    /\ Idem!Init
    /\ job     = [w \in Slots |-> NoJob]
    /\ attempt = [w \in Slots |-> 1]
    /\ state   = [j \in Jobs |-> "wait"]
    /\ attemptsMade = [j \in Jobs |-> 0]
    /\ stalls  = [j \in Jobs |-> 0]
    /\ owner   = [j \in Jobs |-> NoSlot]
    /\ dlq     = [e \in Events |-> 0]
    /\ effects = [e \in Events |-> 0]
    /\ metrics = [c \in Counters |-> 0]
    /\ mishaps = [k \in Mishaps |-> 0]

-----------------------------------------------------------------------------
Goto(w, from, to) == Idem!Goto(w, from, to)

Total(m) == m["crash"] + m["hook"] + m["redis"] + m["overrun"] + m["expiry"]

Mishap(k) ==
    /\ Total(mishaps) < MaxMishaps
    /\ mishaps' = [mishaps EXCEPT ![k] = @ + 1]

Count(c) == metrics' = [metrics EXCEPT ![c] = @ + 1]

\* The slot is inside the processor's run of a granted event, or in the catch
\* block on its way to marking it or rethrowing.
Holds(w, e) ==
    \/ Idem!Holds(w, e)
    \/ ev[w] = e /\ pc[w] = "catch"

-----------------------------------------------------------------------------
(* BullMQ delivers a job and the processor begins *)

\* The worker takes a waiting job.  The handler is resolved before the first
\* await.  Without one the processor throws inside its try block, and the catch
\* block then dereferences the missing handler: a TypeError leaves the processor
\* before any hook, record or DLQ entry.
Fetch(w, j) ==
    /\ pc[w] = "idle"
    /\ state[j] = "wait"
    /\ state' = [state EXCEPT ![j] = "active"]
    /\ owner' = [owner EXCEPT ![j] = w]
    /\ job' = [job EXCEPT ![w] = j]
    /\ attempt' = [attempt EXCEPT ![w] = attemptsMade[j] + 1]
    /\ IF EventOf[j] \in Handled
       THEN Idem!CheckAndLock(w, EventOf[j])
       ELSE /\ pc' = [pc EXCEPT ![w] = "threw"]
            /\ UNCHANGED <<lock, record, ev, outcome>>
    /\ UNCHANGED <<attemptsMade, stalls, dlq, effects, metrics, mishaps>>

\* The first EXISTS, SET NX and DEL of checkAndLock.
Check(w) ==
    /\ Idem!Exists(w) \/ Idem!Acquire(w) \/ Idem!DropLock(w)
    /\ UNCHANGED <<slotVars, queueVars, dlq, effects, metrics, mishaps>>

\* The bug of dropping the second EXISTS of checkAndLock.
Grant_Unchecked(w) ==
    /\ Idem!DoubleCheck_Skipped(w)
    /\ Count("started")
    /\ UNCHANGED <<slotVars, queueVars, dlq, effects, mishaps>>

\* The second EXISTS.  If it grants the event the processor counts the start and
\* calls handler.execute without another await.
Grant(w) ==
    /\ Idem!DoubleCheck(w)
    /\ IF record[ev[w]] = "none" THEN Count("started") ELSE UNCHANGED metrics
    /\ UNCHANGED <<slotVars, queueVars, dlq, effects, mishaps>>

\* The bug of releasing, on the skip path, a lock that is somebody else's.
Skip_Releases(w) ==
    /\ Goto(w, "refused", "returned")
    /\ Count("skipped")
    /\ lock' = [lock EXCEPT ![ev[w]] = FALSE]
    /\ UNCHANGED <<record, ev, outcome, slotVars, queueVars, dlq, effects, mishaps>>

\* checkAndLock said no: the processor returns, and the job will be completed.
Skip(w) ==
    /\ Goto(w, "refused", "returned")
    /\ Count("skipped")
    /\ UNCHANGED <<lock, record, ev, outcome, slotVars, queueVars, dlq, effects, mishaps>>

-----------------------------------------------------------------------------
(* The handler *)

\* handler.execute and onSuccess return; markCompleted is called.
HandlerReturns(w) ==
    /\ Idem!Mark(w, "completed")
    /\ effects' = [effects EXCEPT ![ev[w]] = @ + 1]
    /\ UNCHANGED <<slotVars, queueVars, dlq, metrics, mishaps>>

\* handler.execute throws without having taken effect.
HandlerThrows(w) ==
    /\ Goto(w, "granted", "catch")
    /\ UNCHANGED <<lock, record, ev, outcome, slotVars, queueVars, dlq, effects, metrics, mishaps>>

\* handler.execute returns and onSuccess throws: the run took effect and is
\* treated as failed.
SuccessHookThrows(w) ==
    /\ Mishap("hook")
    /\ Goto(w, "granted", "catch")
    /\ effects' = [effects EXCEPT ![ev[w]] = @ + 1]
    /\ UNCHANGED <<lock, record, ev, outcome, slotVars, queueVars, dlq, metrics>>

-----------------------------------------------------------------------------
(* The catch block *)

\* The bug of giving up one attempt late.
Retry_Late(w) ==
    /\ Goto(w, "catch", "threw")
    /\ attempt[w] <= MaxAttempts
    /\ Count("retried")
    /\ UNCHANGED <<lock, record, ev, outcome, slotVars, queueVars, dlq, effects, mishaps>>

\* The bug of a retry that is not counted.
Retry_Uncounted(w) ==
    /\ Goto(w, "catch", "threw")
    /\ attempt[w] < MaxAttempts
    /\ UNCHANGED <<lock, record, ev, outcome, slotVars, queueVars, dlq, effects, metrics, mishaps>>

\* onRetry returned and attempts are left: the error is rethrown.  The lock of
\* the event is not released.
Retry(w) ==
    /\ Goto(w, "catch", "threw")
    /\ attempt[w] < MaxAttempts
    /\ Count("retried")
    /\ UNCHANGED <<lock, record, ev, outcome, slotVars, queueVars, dlq, effects, mishaps>>

\* The bug of dead-lettering an event without marking it failed first.
Exhaust_Unrecorded(w) ==
    /\ Goto(w, "catch", "route")
    /\ attempt[w] >= MaxAttempts
    /\ UNCHANGED <<lock, record, ev, outcome, slotVars, queueVars, dlq, effects, metrics, mishaps>>

\* onRetry and onFailure returned on the last attempt: markFailed is called.
Exhaust(w) ==
    /\ Goto(w, "catch", "store")
    /\ attempt[w] >= MaxAttempts
    /\ outcome' = [outcome EXCEPT ![w] = "failed"]
    /\ UNCHANGED <<lock, record, ev, slotVars, queueVars, dlq, effects, metrics, mishaps>>

\* onRetry, or onFailure on the last attempt, throws out of the catch block.
CatchHookThrows(w) ==
    /\ Mishap("hook")
    /\ Goto(w, "catch", "threw")
    /\ UNCHANGED <<lock, record, ev, outcome, slotVars, queueVars, dlq, effects, metrics>>

\* SETEX and DEL of markCompleted or markFailed.
Save(w) ==
    /\ Idem!Store(w) \/ Idem!Release(w)
    /\ UNCHANGED <<slotVars, queueVars, dlq, effects, metrics, mishaps>>

\* markCompleted or markFailed returned: the outcome is counted, and a failed
\* event goes on to the DLQ router.
Marked(w) ==
    /\ Goto(w, "marked", IF outcome[w] = "completed" THEN "returned" ELSE "route")
    /\ Count(outcome[w])
    /\ UNCHANGED <<lock, record, ev, outcome, slotVars, queueVars, dlq, effects, mishaps>>

\* DlqRouter.route pushes the entry; the processor then throws.
Route(w) ==
    /\ Goto(w, "route", "threw")
    /\ dlq' = [dlq EXCEPT ![ev[w]] = @ + 1]
    /\ Count("routed")
    /\ UNCHANGED <<lock, record, ev, outcome, slotVars, queueVars, effects, mishaps>>

-----------------------------------------------------------------------------
(* Redis calls that throw *)

\* Redis applied the command w awaited, although w will see it throw.
Applied(w) ==
    /\ lock' = [lock EXCEPT ![ev[w]] =
                   pc[w] = "acquire" \/ (@ /\ pc[w] \notin {"release", "drop_lock"})]
    /\ record' = IF pc[w] = "store" THEN [record EXCEPT ![ev[w]] = outcome[w]] ELSE record
    /\ dlq' = IF pc[w] = "route" THEN [dlq EXCEPT ![ev[w]] = @ + 1] ELSE dlq

\* The command the processor awaits throws, applied or not.  In the try block
\* that leads to the catch block; in markFailed it leaves the processor; in the
\* DLQ router it is logged and dropped, and the processor throws as planned.
RedisFails(w) ==
    /\ Mishap("redis")
    /\ pc[w] \in Idem!Calls \cup {"route"}
    /\ pc' = [pc EXCEPT ![w] =
                IF @ = "route" \/ (@ \in {"store", "release"} /\ outcome[w] = "failed")
                THEN "threw" ELSE "catch"]
    /\ Applied(w) \/ UNCHANGED <<lock, record, dlq>>
    /\ UNCHANGED <<ev, outcome, slotVars, queueVars, effects, metrics>>

-----------------------------------------------------------------------------
(* BullMQ *)

\* The slot is free again.
Leave(w) ==
    /\ pc' = [pc EXCEPT ![w] = "idle"]
    /\ job' = [job EXCEPT ![w] = NoJob]
    /\ attempt' = [attempt EXCEPT ![w] = 1]
    /\ UNCHANGED <<lock, record, ev, outcome>>

\* The processor settled and BullMQ moves the job: completed if it returned,
\* else back off, or failed for good after the last attempt.
Finish(w) ==
    LET j == job[w] IN
    /\ pc[w] \in {"returned", "threw"}
    /\ owner[j] = w
    /\ state' = [state EXCEPT ![j] = IF pc[w] = "returned" THEN "completed"
                                     ELSE IF attemptsMade[j] + 1 < QueueAttempts
                                     THEN "delayed" ELSE "failed"]
    /\ attemptsMade' = [attemptsMade EXCEPT ![j] = @ + 1]
    /\ owner' = [owner EXCEPT ![j] = NoSlot]
    /\ Leave(w)
    /\ UNCHANGED <<stalls, dlq, effects, metrics, mishaps>>

\* The job was taken back meanwhile: the slot's token is stale and BullMQ
\* rejects the move.
FinishRejected(w) ==
    /\ pc[w] \in {"returned", "threw"}
    /\ owner[job[w]] # w
    /\ Leave(w)
    /\ UNCHANGED <<queueVars, dlq, effects, metrics, mishaps>>

\* The move itself throws: the job stays active until it is found stalled.
FinishFails(w) ==
    /\ Mishap("redis")
    /\ pc[w] \in {"returned", "threw"}
    /\ owner[job[w]] = w
    /\ owner' = [owner EXCEPT ![job[w]] = NoSlot]
    /\ Leave(w)
    /\ UNCHANGED <<state, attemptsMade, stalls, dlq, effects, metrics>>

\* The backoff delay is over.
Promote(j) ==
    /\ state[j] = "delayed"
    /\ state' = [state EXCEPT ![j] = "wait"]
    /\ UNCHANGED <<idemVars, slotVars, attemptsMade, stalls, owner, dlq, effects, metrics, mishaps>>

\* The bug of a stall check that forgets how often a job stalled.
Stall_Uncounted(j) ==
    /\ state[j] = "active"
    /\ owner[j] = NoSlot \/ LiveStalls
    /\ owner' = [owner EXCEPT ![j] = NoSlot]
    /\ state' = [state EXCEPT ![j] = "wait"]
    /\ UNCHANGED <<idemVars, slotVars, attemptsMade, stalls, dlq, effects, metrics, mishaps>>

\* The bug of allowing one stall more than maxStalledCount and one again.
Stall_OffByOne(j) ==
    /\ state[j] = "active"
    /\ owner[j] = NoSlot \/ LiveStalls
    /\ owner' = [owner EXCEPT ![j] = NoSlot]
    /\ stalls' = [stalls EXCEPT ![j] = @ + 1]
    /\ state' = [state EXCEPT ![j] = IF stalls[j] <= MaxStalled THEN "wait" ELSE "failed"]
    /\ UNCHANGED <<idemVars, slotVars, attemptsMade, dlq, effects, metrics, mishaps>>

\* The BullMQ lock of an active job ran out: its process died, or is alive and
\* failed to renew.  The job waits again, or fails if it stalled too often.
Stall(j) ==
    /\ state[j] = "active"
    /\ owner[j] = NoSlot \/ LiveStalls
    /\ owner' = [owner EXCEPT ![j] = NoSlot]
    /\ stalls' = [stalls EXCEPT ![j] = @ + 1]
    /\ state' = [state EXCEPT ![j] = IF stalls[j] < MaxStalled THEN "wait" ELSE "failed"]
    /\ UNCHANGED <<idemVars, slotVars, attemptsMade, dlq, effects, metrics, mishaps>>

\* The process of w dies.  A process has many slots: their crashes are steps of
\* their own that may follow at once.
Crash(w) ==
    /\ Mishap("crash")
    /\ pc[w] # "idle"
    /\ owner' = [j \in Jobs |-> IF owner[j] = w THEN NoSlot ELSE owner[j]]
    /\ Leave(w)
    /\ UNCHANGED <<state, attemptsMade, stalls, dlq, effects, metrics>>

-----------------------------------------------------------------------------
(* Redis *)

\* PX 30000 of an execution lock runs out: one that a retry or a crash left
\* behind, or one whose slot is still at work.  Nothing renews it, and a slot that
\* is blocked long enough for BullMQ to take its job back is blocked that long.
LockExpires(e) ==
    /\ lock[e]
    /\ lock' = [lock EXCEPT ![e] = FALSE]
    /\ IF \E w \in Slots : Holds(w, e) THEN Mishap("overrun") ELSE UNCHANGED mishaps
    /\ UNCHANGED <<record, pc, ev, outcome, slotVars, queueVars, dlq, effects, metrics>>

\* SETEX 604800 of an execution record runs out, with jobs of its event still to
\* come: duplicates, or replays from the dead-letter queue.  A slot that has the
\* lock and awaits a single EXISTS or DEL does not wait for it seven days.
RecordExpires(e) ==
    /\ Mishap("expiry")
    /\ record[e] # "none"
    /\ \A w \in Slots : ev[w] = e => pc[w] \notin {"double_check", "drop_lock", "release"}
    /\ record' = [record EXCEPT ![e] = "none"]
    /\ UNCHANGED <<lock, pc, ev, outcome, slotVars, queueVars, dlq, effects, metrics>>

-----------------------------------------------------------------------------
\* What a live slot does once it has a job.
Process(w) ==
    \/ Check(w) \/ Grant(w) \/ Skip(w)
    \/ HandlerReturns(w) \/ HandlerThrows(w) \/ SuccessHookThrows(w)
    \/ Retry(w) \/ Exhaust(w) \/ CatchHookThrows(w)
    \/ Save(w) \/ Marked(w) \/ Route(w)
    \/ Finish(w) \/ FinishRejected(w)

Next ==
    \/ \E w \in Slots :
          \/ \E j \in Jobs : Fetch(w, j)
          \/ Process(w)
          \/ RedisFails(w)
          \/ FinishFails(w)
          \/ Crash(w)
    \/ \E j \in Jobs : Promote(j) \/ Stall(j)
    \/ \E e \in Events : LockExpires(e) \/ RecordExpires(e)

Spec == Init /\ [][Next]_vars

\* Handlers and hooks terminate, the event loop runs every slot that can move, a
\* live worker fetches waiting jobs, and the backoff timer and the stalled check
\* of BullMQ run.
Fairness ==
    /\ \A w \in Slots : WF_vars(Process(w))
    /\ \A j \in Jobs : WF_vars(\E w \in Slots : Fetch(w, j))
    /\ \A j \in Jobs : WF_vars(Promote(j)) /\ WF_vars(owner[j] = NoSlot /\ Stall(j))

FairSpec == Spec /\ Fairness

-----------------------------------------------------------------------------
(* Properties *)

\* The worker uses the idempotency layer by its protocol, in which no lock runs out
\* under a run: every step of the processor, of BullMQ and of the environment is a
\* step of Idempotency or leaves it alone, until a lock does run out or a Redis
\* call throws: markFailed is then called by a processor that may hold no lock.  A
\* catch block is part of the run it ends.
IdemView == INSTANCE Idempotency WITH
    Executors <- Slots,
    LocksOutliveRuns <- TRUE,
    pc <- [w \in Slots |->
              CASE pc[w] = "catch" -> "granted"
                [] pc[w] \in {"route", "returned", "threw"} -> "idle"
                [] OTHER -> pc[w]]

\* The lock of an event has been with one slot at a time.
LocksKept == mishaps["redis"] = 0 /\ mishaps["overrun"] = 0

ImplementsIdempotency ==
    IdemView!Init /\ [][LocksKept' => IdemView!Next]_(IdemView!vars)

Unscathed   == Total(mishaps) = 0
Undisturbed == \A k \in Failures : mishaps[k] = 0

\* A handler takes effect once per event, however often its job is duplicated,
\* replayed, retried or handed out again while it still runs, and each mishap
\* costs at most one more effect: an expired record and a lock that ran out under
\* its run too, although the slot that lost it may delete the lock of the next.
DuplicationBounded == \A e \in Events : effects[e] <= 1 + Total(mishaps)

Routed(e) == dlq[e] > 0

\* An event in the dead-letter queue has an outcome on record until that expires,
\* and a failed one unless Redis calls threw or locks ran out, so a duplicate that
\* is still queued cannot succeed behind the dead-letter queue's back; and unless
\* something went wrong its handler took no effect.
DlqMeansFailed ==
    \A e \in Events : Routed(e) =>
        /\ mishaps["expiry"] = 0 => record[e] # "none"
        /\ mishaps["expiry"] = 0 /\ LocksKept => record[e] = "failed"
        /\ Unscathed => effects[e] = 0

\* An event is in the dead-letter queue once, whatever duplicates it had, whoever
\* crashed and whichever hook threw.  Only a Redis call that throws, a lock that runs
\* out under its run and a record that expires cost another entry, and one each.
OneDlqEntry ==
    \A e \in Events :
        dlq[e] <= 1 + mishaps["redis"] + mishaps["overrun"] + mishaps["expiry"]

\* No silent failure: when BullMQ has failed a job for good, and not because it
\* stalled too often, its event is in the dead-letter queue, unless a process died, a
\* hook threw or Redis did.
FailedMeansRouted ==
    Undisturbed =>
        \A j \in Jobs :
            state[j] = "failed" /\ stalls[j] <= MaxStalled /\ EventOf[j] \in Handled =>
                Routed(EventOf[j])

\* The slots between the count of a start and the count of its outcome.
InFlight == {w \in Slots : pc[w] \in {"granted", "catch", "store", "release", "marked"}}

\* Every counted start is accounted for by exactly one of the outcomes, or the
\* run is still in a slot: no path of the processor counts twice or not at all.
MetricsBalance ==
    Undisturbed =>
        metrics["started"] = metrics["completed"] + metrics["failed"] + metrics["retried"]
                             + Cardinality(InFlight)

\* Each job comes to rest: it is completed or failed, after finitely many
\* crashes, stalls, retries and failing moves.
JobsSettle == \A j \in Jobs : <>[](state[j] \in {"completed", "failed"})

\* What the tests and the blueprint say of an event type nobody handles: its job
\* fails and the event is found in the dead-letter queue.
UnhandledReachesDlq ==
    \A j \in Jobs :
        state[j] = "failed" /\ EventOf[j] \notin Handled => Routed(EventOf[j])

\* A job that BullMQ reports completed is one whose event has an outcome on
\* record: "already processed" is what the skip branch logs.
CompletedMeansProcessed ==
    \A j \in Jobs : state[j] = "completed" => record[EventOf[j]] # "none"

=============================================================================
