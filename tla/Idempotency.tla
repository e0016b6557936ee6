---------------------------- MODULE Idempotency ----------------------------
(***************************************************************************)
(* The idempotency layer of the event workers                              *)
(* (apps/api/src/events/idempotency: IdempotencyService, ExecutionLock,    *)
(* ExecutionStore), one action per Redis command it awaits, run by any     *)
(* number of executors on any number of events.                            *)
(*                                                                         *)
(* An executor is one running job processor of WorkerFactory: it calls     *)
(* checkAndLock, runs the handler if that grants the event, and then marks *)
(* the event completed or failed, throws without marking it (a retry: the  *)
(* lock is left behind) or dies.  The Redis state is                       *)
(*   lock[e]    the key "<type>:<id>:lock", written with SET NX PX 30000;  *)
(*              its value is never compared, so being present is all of it *)
(*   record[e]  the key "<type>:<id>", written with SETEX 604800.          *)
(***************************************************************************)

CONSTANTS
    Executors,          \* job processors of all workers of all processes
    Events,             \* idempotency keys, one per (event type, event id)
    LocksOutliveRuns    \* TRUE: a lock expires only when no executor is
                        \* between acquiring and releasing it, that is every
                        \* run is shorter than LOCK_TTL

ASSUME LocksOutliveRunsType == LocksOutliveRuns \in BOOLEAN

VARIABLES
    lock,               \* lock[e]: the lock key of e is in Redis
    record,             \* record[e]: the execution record of e
    pc,                 \* pc[w]: the Redis command executor w awaits next
    ev,                 \* ev[w]: the event executor w was last given
    outcome             \* outcome[w]: the status w is saving

vars == <<lock, record, pc, ev, outcome>>

Statuses == {"completed", "failed"}
Calls    == {"exists", "acquire", "double_check", "drop_lock", "store", "release"}
Resting  == {"idle", "granted", "refused", "marked"}

TypeOK ==
    /\ lock    \in [Events -> BOOLEAN]
    /\ record  \in [Events -> Statuses \cup {"none"}]
    /\ pc      \in [Executors -> Calls \cup Resting]
    /\ ev      \in [Executors -> Events]
    /\ outcome \in [Executors -> Statuses]

Init ==
    /\ lock    = [e \in Events |-> FALSE]
    /\ record  = [e \in Events |-> "none"]
    /\ pc      = [w \in Executors |-> "idle"]
    /\ ev      \in [Executors -> Events]
    /\ outcome = [w \in Executors |-> "completed"]

-----------------------------------------------------------------------------
Goto(w, from, to) ==
    /\ pc[w] = from
    /\ pc' = [pc EXCEPT ![w] = to]

\* w has written the lock of e and has not yet deleted it.
Holds(w, e) ==
    /\ ev[w] = e
    /\ pc[w] \in {"double_check", "drop_lock", "granted", "store", "release"}

\* w may be running the handler of e: checkAndLock has returned true and the
\* outcome is not in Redis yet.
Runs(w, e) ==
    /\ ev[w] = e
    /\ pc[w] \in {"granted", "store"}

-----------------------------------------------------------------------------
(* IdempotencyService.checkAndLock *)

\* The processor of a job of event e calls checkAndLock.
CheckAndLock(w, e) ==
    /\ Goto(w, "idle", "exists")
    /\ ev' = [ev EXCEPT ![w] = e]
    /\ UNCHANGED <<lock, record, outcome>>

\* EXISTS <type>:<id>.  (The GET that follows a hit only feeds a log line.)
Exists(w) ==
    /\ Goto(w, "exists", IF record[ev[w]] = "none" THEN "acquire" ELSE "refused")
    /\ UNCHANGED <<lock, record, ev, outcome>>

\* The bug of a plain write where SET NX is meant.
Acquire_Overwrites(w) ==
    /\ Goto(w, "acquire", "double_check")
    /\ lock' = [lock EXCEPT ![ev[w]] = TRUE]
    /\ UNCHANGED <<record, ev, outcome>>

\* SET <type>:<id>:lock <now> PX 30000 NX.
Acquire(w) ==
    /\ Goto(w, "acquire", IF lock[ev[w]] THEN "refused" ELSE "double_check")
    /\ lock' = [lock EXCEPT ![ev[w]] = TRUE]
    /\ UNCHANGED <<record, ev, outcome>>

\* The bug of trusting the first EXISTS and not looking again under the lock.
DoubleCheck_Skipped(w) ==
    /\ Goto(w, "double_check", "granted")
    /\ UNCHANGED <<lock, record, ev, outcome>>

\* EXISTS <type>:<id> again, now under the lock.
DoubleCheck(w) ==
    /\ Goto(w, "double_check", IF record[ev[w]] = "none" THEN "granted" ELSE "drop_lock")
    /\ UNCHANGED <<lock, record, ev, outcome>>

\* DEL <type>:<id>:lock after the double check found a record.
DropLock(w) ==
    /\ Goto(w, "drop_lock", "refused")
    /\ lock' = [lock EXCEPT ![ev[w]] = FALSE]
    /\ UNCHANGED <<record, ev, outcome>>

-----------------------------------------------------------------------------
(* IdempotencyService.markCompleted and markFailed *)

\* The bug of the two awaits of markCompleted and markFailed swapped: the lock
\* is given back before the record is saved.
Mark_ReleasesFirst(w, s) ==
    /\ Goto(w, "granted", "store")
    /\ outcome' = [outcome EXCEPT ![w] = s]
    /\ lock' = [lock EXCEPT ![ev[w]] = FALSE]
    /\ UNCHANGED <<record, ev>>

\* The processor of a granted event calls markCompleted or markFailed.
Mark(w, s) ==
    /\ Goto(w, "granted", "store")
    /\ outcome' = [outcome EXCEPT ![w] = s]
    /\ UNCHANGED <<lock, record, ev>>

\* SETEX <type>:<id> 604800 <record>.
Store(w) ==
    /\ Goto(w, "store", "release")
    /\ record' = [record EXCEPT ![ev[w]] = outcome[w]]
    /\ UNCHANGED <<lock, ev, outcome>>

\* DEL <type>:<id>:lock, unconditional: nothing compares the stored value.
Release(w) ==
    /\ Goto(w, "release", "marked")
    /\ lock' = [lock EXCEPT ![ev[w]] = FALSE]
    /\ UNCHANGED <<record, ev, outcome>>

-----------------------------------------------------------------------------
(* The processor around the service *)

\* The processor goes on after a refusal, or after the event is marked.
Return(w) ==
    /\ pc[w] \in {"refused", "marked"}
    /\ pc' = [pc EXCEPT ![w] = "idle"]
    /\ UNCHANGED <<lock, record, ev, outcome>>

\* The attempt failed and is not the last: the error is rethrown to BullMQ
\* and nothing calls releaseLock, so the lock stays until it expires.
Abandon(w) ==
    /\ Goto(w, "granted", "idle")
    /\ UNCHANGED <<lock, record, ev, outcome>>

\* The process of w dies at any await; Redis keeps what was written.
Crash(w) ==
    /\ pc[w] # "idle"
    /\ pc' = [pc EXCEPT ![w] = "idle"]
    /\ UNCHANGED <<lock, record, ev, outcome>>

-----------------------------------------------------------------------------
(* Redis *)

\* PX 30000 runs out.
LockExpires(e) ==
    /\ lock[e]
    /\ LocksOutliveRuns => \A w \in Executors : ~Holds(w, e)
    /\ lock' = [lock EXCEPT ![e] = FALSE]
    /\ UNCHANGED <<record, pc, ev, outcome>>

\* SETEX 604800 runs out.
RecordExpires(e) ==
    /\ record[e] # "none"
    /\ record' = [record EXCEPT ![e] = "none"]
    /\ UNCHANGED <<lock, pc, ev, outcome>>

Step(w) ==
    \/ \E e \in Events : CheckAndLock(w, e)
    \/ Exists(w)
    \/ Acquire(w)
    \/ DoubleCheck(w)
    \/ DropLock(w)
    \/ \E s \in Statuses : Mark(w, s)
    \/ Store(w)
    \/ Release(w)
    \/ Return(w)
    \/ Abandon(w)
    \/ Crash(w)

Next ==
    \/ \E w \in Executors : Step(w)
    \/ \E e \in Events : LockExpires(e) \/ RecordExpires(e)

Spec == Init /\ [][Next]_vars

-----------------------------------------------------------------------------
(* Properties *)

\* No two processors have the same event at once: neither a duplicate job, nor
\* a job BullMQ handed out again as stalled, nor a retry overlaps the run of
\* the handler that was granted first (checkAndLock returned true twice).
OneRunner ==
    \A w, v \in Executors : \A e \in Events :
        Runs(w, e) /\ Runs(v, e) => w = v

\* While a handler may be running nobody has recorded an outcome of its event:
\* checkAndLock never grants an event that another executor settled between
\* the first EXISTS and the grant, nor is one settled behind a runner's back.
NoRunOnceRecorded ==
    \A w \in Executors : \A e \in Events : Runs(w, e) => record[e] = "none"

\* An outcome, once saved, is replaced only after it expired: a completed event
\* is never turned into a failed one by a later attempt, nor the reverse.
RecordIsFinal ==
    [][\A e \in Events : record'[e] # record[e] =>
            record[e] = "none" \/ record'[e] = "none"]_vars

\* What the proofs need on top of these: an executor that holds an event keeps
\* its lock key in Redis, holds it alone, and has seen no record if it runs.
LockHeld == \A w \in Executors : \A e \in Events : Holds(w, e) => lock[e]

OneHolder ==
    \A w, v \in Executors : \A e \in Events :
        Holds(w, e) /\ Holds(v, e) => w = v

IInv == TypeOK /\ LockHeld /\ OneHolder /\ NoRunOnceRecorded

\* The service implements OnceExecution: Take is the second EXISTS finding no
\* record, Settle is the SETEX, GiveUp is a rethrow or a crash.
Once == INSTANCE OnceExecution WITH
            runner  <- [e \in Events |-> {w \in Executors : Runs(w, e)}],
            verdict <- record

ImplementsOnceExecution == Once!Spec

=============================================================================
