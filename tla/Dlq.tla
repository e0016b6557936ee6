-------------------------------- MODULE Dlq --------------------------------
(***************************************************************************)
(* The dead-letter queue of one event queue (apps/api/src/events/dlq): the *)
(* Redis list "dlq:<queue>", newest entry first, and the poison counters   *)
(* "dlq:poison:<event id>", worked on by                                   *)
(*   routers   worker slots inside DlqRouter.route, which reads the poison *)
(*             counter and writes it in a later transaction, and           *)
(*   admins    callers of DlqService.replay, replayAll, remove and         *)
(*             clearQueue, each a chain of Redis commands nothing locks.   *)
(* One action is one Redis command (or MULTI) and the code up to the next. *)
(***************************************************************************)
EXTENDS Naturals, SequencesExt

CONSTANTS
    Routers,            \* worker slots that route failures
    Admins,             \* concurrent callers of DlqService
    Failures,           \* final failures of jobs; each is routed once
    Events,             \* event ids
    EventOf,            \* EventOf[f]: the event that failed
    MaxEntries,         \* what LTRIM keeps (10000 in the code)
    InspectLimit,       \* how deep replay and remove look (1000 in the code)
    MaxThrows,          \* how many calls of eventBus.publish and of Redis may throw
    RedisThrows,        \* TRUE: those of Redis too
    Clears              \* TRUE: an admin may clear the queue

ASSUME DlqAssumption ==
    /\ EventOf \in [Failures -> Events]
    /\ MaxEntries \in Nat \ {0}
    /\ InspectLimit \in Nat \ {0}
    /\ MaxThrows \in Nat
    /\ RedisThrows \in BOOLEAN
    /\ Clears \in BOOLEAN

\* At any time there is only so much that failed and so many who ask.
ASSUME FiniteAssumption ==
    IsFiniteSet(Failures) /\ Failures # {} /\ IsFiniteSet(Admins)

VARIABLES
    list,           \* the DLQ list; an entry stands for its JSON text
    poison,         \* poison[e]: the poison counter, 0 when there is no key
    routerPc, failure, count,   \* a router: what it routes, what it read
    adminPc, purpose, todo, entry,  \* an admin: see Find
    fate,           \* fate[f]: how often f was pushed, removed, ... (history)
    publishFailures, redisFailures  \* how often they have thrown

routerVars == <<routerPc, failure, count>>
adminVars  == <<adminPc, purpose, todo, entry>>
throws     == <<publishFailures, redisFailures>>
vars == <<list, poison, routerVars, adminVars, fate, throws>>

Entry  == [failure: Failures, poisonCount: Nat \ {0}]
Fates  == {"pushed", "trimmed", "republished", "discarded"}
NoEntry == [failure |-> CHOOSE f \in Failures : TRUE, poisonCount |-> 1]

TypeOK ==
    /\ list \in Seq(Entry) /\ Len(list) <= MaxEntries
    /\ poison \in [Events -> Nat]
    /\ routerPc \in [Routers -> {"idle", "push"}]
    /\ failure  \in [Routers -> Failures]
    /\ count    \in [Routers -> Nat]
    /\ adminPc  \in [Admins -> {"idle", "find", "lrem", "del", "publish"}]
    /\ purpose  \in [Admins -> {"replay", "remove", "cleanup"}]
    /\ todo     \in [Admins -> Seq(Events)]
    /\ entry    \in [Admins -> Entry]
    /\ fate     \in [Failures -> [Fates -> Nat]]
    /\ publishFailures \in 0..MaxThrows
    /\ redisFailures \in 0..MaxThrows

Init ==
    /\ list = <<>>
    /\ poison   = [e \in Events |-> 0]
    /\ routerPc = [r \in Routers |-> "idle"]
    /\ failure  = [r \in Routers |-> NoEntry.failure]
    /\ count    = [r \in Routers |-> 0]
    /\ adminPc  = [a \in Admins |-> "idle"]
    /\ purpose  = [a \in Admins |-> "replay"]
    /\ todo     = [a \in Admins |-> <<>>]
    /\ entry    = [a \in Admins |-> NoEntry]
    /\ fate     = [f \in Failures |-> [h \in Fates |-> 0]]
    /\ publishFailures = 0 /\ redisFailures = 0

-----------------------------------------------------------------------------
\* fate after h befell the failures in F.
Noted(F, h) == [f \in Failures |-> [fate[f] EXCEPT ![h] = @ + IF f \in F THEN 1 ELSE 0]]

Note(f, h) == fate' = Noted({f}, h)

\* The failures whose entries are in the list from position n on.
From(n) == {list[i].failure : i \in {i \in DOMAIN list : i >= n}}

EventIn(x) == EventOf[x.failure]

Top(n) == SubSeq(list, 1, IF n < Len(list) THEN n ELSE Len(list))

-----------------------------------------------------------------------------
(* DlqRouter.route *)

\* The bug of one poison counter for all events.
RouteRead_SharedKey(r, f) ==
    /\ routerPc[r] = "idle"
    /\ fate[f]["pushed"] = 0 /\ \A q \in Routers : routerPc[q] = "push" => failure[q] # f
    /\ routerPc' = [routerPc EXCEPT ![r] = "push"]
    /\ failure' = [failure EXCEPT ![r] = f]
    /\ \E e \in Events : count' = [count EXCEPT ![r] = poison[e]]
    /\ UNCHANGED <<list, poison, adminVars, fate, throws>>

\* GET dlq:poison:<event id>.
RouteRead(r, f) ==
    /\ routerPc[r] = "idle"
    /\ fate[f]["pushed"] = 0 /\ \A q \in Routers : routerPc[q] = "push" => failure[q] # f
    /\ routerPc' = [routerPc EXCEPT ![r] = "push"]
    /\ failure' = [failure EXCEPT ![r] = f]
    /\ count' = [count EXCEPT ![r] = poison[EventOf[f]]]
    /\ UNCHANGED <<list, poison, adminVars, fate, throws>>

\* The bug of trimming the list before the push.
RoutePush_TrimFirst(r) ==
    LET f == failure[r] IN
    /\ routerPc[r] = "push"
    /\ routerPc' = [routerPc EXCEPT ![r] = "idle"]
    /\ list' = <<[failure |-> f, poisonCount |-> count[r] + 1]>> \o Top(MaxEntries)
    /\ poison' = [poison EXCEPT ![EventOf[f]] = count[r] + 1]
    /\ failure' = [failure EXCEPT ![r] = NoEntry.failure]
    /\ count' = [count EXCEPT ![r] = 0]
    /\ fate' = [Noted(From(MaxEntries), "trimmed") EXCEPT ![f]["pushed"] = @ + 1]
    /\ UNCHANGED <<adminVars, throws>>

\* MULTI LPUSH, LTRIM, SETEX EXEC, with the count read before.
RoutePush(r) ==
    LET f == failure[r] IN
    /\ routerPc[r] = "push"
    /\ routerPc' = [routerPc EXCEPT ![r] = "idle"]
    /\ list' = SubSeq(<<[failure |-> f, poisonCount |-> count[r] + 1]>> \o list, 1,
                      IF Len(list) < MaxEntries THEN Len(list) + 1 ELSE MaxEntries)
    /\ poison' = [poison EXCEPT ![EventOf[f]] = count[r] + 1]
    /\ failure' = [failure EXCEPT ![r] = NoEntry.failure]
    /\ count' = [count EXCEPT ![r] = 0]
    /\ fate' = [Noted(From(MaxEntries), "trimmed") EXCEPT ![f]["pushed"] = @ + 1]
    /\ UNCHANGED <<adminVars, throws>>

\* The TTL of a poison counter, set anew by each push, runs out.
PoisonExpires(e) ==
    /\ poison[e] > 0
    /\ poison' = [poison EXCEPT ![e] = 0]
    /\ UNCHANGED <<list, routerVars, adminVars, fate, throws>>

-----------------------------------------------------------------------------
(* DlqService *)

\* replay(e) or remove(e) is called.
Call(a, p, e) ==
    /\ adminPc[a] = "idle" /\ todo[a] = <<>>
    /\ adminPc' = [adminPc EXCEPT ![a] = "find"]
    /\ purpose' = [purpose EXCEPT ![a] = p]
    /\ todo' = [todo EXCEPT ![a] = <<e>>]
    /\ UNCHANGED <<list, poison, routerVars, entry, fate, throws>>

\* replayAll: LRANGE once, then replay event by event of that snapshot.
ReplayAll(a) ==
    /\ adminPc[a] = "idle" /\ todo[a] = <<>>
    /\ list # <<>>
    /\ adminPc' = [adminPc EXCEPT ![a] = "find"]
    /\ purpose' = [purpose EXCEPT ![a] = "replay"]
    /\ todo' = [todo EXCEPT ![a] = [i \in DOMAIN Top(InspectLimit) |-> EventIn(list[i])]]
    /\ UNCHANGED <<list, poison, routerVars, entry, fate, throws>>

\* clearQueue: DEL of the list alone.
Clear(a) ==
    /\ Clears
    /\ adminPc[a] = "idle"
    /\ list # <<>>
    /\ list' = <<>>
    /\ fate' = Noted(From(1), "discarded")
    /\ UNCHANGED <<poison, routerVars, adminVars, throws>>

\* The bug of looking again for an event that was not found.
NextCall_Retries(a) ==
    /\ todo' = todo
    /\ adminPc' = [adminPc EXCEPT ![a] = "find"]
    /\ purpose' = [purpose EXCEPT ![a] = "replay"]
    /\ entry' = [entry EXCEPT ![a] = NoEntry]

\* The call on the event at the head of todo is over.
NextCall(a) ==
    /\ todo' = [todo EXCEPT ![a] = Tail(@)]
    /\ adminPc' = [adminPc EXCEPT ![a] = IF Len(todo[a]) = 1 THEN "idle" ELSE "find"]
    /\ purpose' = [purpose EXCEPT ![a] = "replay"]
    /\ entry' = [entry EXCEPT ![a] = NoEntry]

\* LRANGE and the search, newest first, in router.replay or router.remove.
Find(a) ==
    LET e    == Head(todo[a])
        hits == {i \in DOMAIN Top(InspectLimit) : EventIn(list[i]) = e}
    IN
    /\ adminPc[a] = "find"
    /\ IF hits = {}
       THEN NextCall(a)
       ELSE /\ entry' = [entry EXCEPT ![a] = list[Min(hits)]]
            /\ adminPc' = [adminPc EXCEPT ![a] = "lrem"]
            /\ UNCHANGED <<purpose, todo>>
    /\ UNCHANGED <<list, poison, routerVars, fate, throws>>

\* The bug of removing by event id where the code removes by the entry's text.
Lrem_ByEvent(a) ==
    /\ adminPc[a] = "lrem"
    /\ list' = SelectSeq(list, LAMBDA x : EventIn(x) # EventIn(entry[a]))
    /\ adminPc' = [adminPc EXCEPT ![a] = "del"]
    /\ IF purpose[a] = "remove" THEN Note(entry[a].failure, "discarded") ELSE UNCHANGED fate
    /\ UNCHANGED <<poison, routerVars, purpose, todo, entry, throws>>

\* LREM 1 of the entry; how many it removed is not looked at.
Lrem(a) ==
    /\ adminPc[a] = "lrem"
    /\ list' = RemoveFirst(list, entry[a])
    /\ adminPc' = [adminPc EXCEPT ![a] = "del"]
    /\ IF purpose[a] = "remove" THEN Note(entry[a].failure, "discarded") ELSE UNCHANGED fate
    /\ UNCHANGED <<poison, routerVars, purpose, todo, entry, throws>>

\* DEL dlq:poison:<event id>; a replay goes on to publish the event.
DelPoison(a) ==
    /\ adminPc[a] = "del"
    /\ poison' = [poison EXCEPT ![Head(todo[a])] = 0]
    /\ IF purpose[a] = "replay"
       THEN adminPc' = [adminPc EXCEPT ![a] = "publish"] /\ UNCHANGED <<purpose, todo, entry>>
       ELSE NextCall(a)
    /\ UNCHANGED <<list, routerVars, fate, throws>>

\* The bug of a replay that publishes and then looks the entry up again.
Publish_Restores(a) ==
    /\ adminPc[a] = "publish"
    /\ Note(entry[a].failure, "republished")
    /\ list' = <<entry[a]>> \o list
    /\ NextCall(a)
    /\ UNCHANGED <<poison, routerVars, throws>>

\* eventBus.publish adds a job for the event.
Publish(a) ==
    /\ adminPc[a] = "publish"
    /\ Note(entry[a].failure, "republished")
    /\ NextCall(a)
    /\ UNCHANGED <<list, poison, routerVars, throws>>

\* eventBus.publish throws, and replay calls router.remove for the event: the
\* entry is gone already, and another of the same event goes with it.
PublishFails(a) ==
    /\ adminPc[a] = "publish"
    /\ publishFailures + redisFailures < MaxThrows
    /\ publishFailures' = publishFailures + 1
    /\ purpose' = [purpose EXCEPT ![a] = "cleanup"]
    /\ adminPc' = [adminPc EXCEPT ![a] = "find"]
    /\ UNCHANGED <<list, poison, routerVars, todo, entry, fate, redisFailures>>

\* A command throws, executed or not, before or outside the try of replay (or in
\* its catch): the whole call is over, and a replayAll with it.
CommandFails(a) ==
    /\ RedisThrows
    /\ adminPc[a] \in {"find", "lrem", "del"}
    /\ publishFailures + redisFailures < MaxThrows
    /\ redisFailures' = redisFailures + 1
    /\ \/ UNCHANGED <<list, poison, fate>>
       \/ /\ adminPc[a] = "lrem"
          /\ list' = RemoveFirst(list, entry[a])
          /\ IF purpose[a] = "remove" THEN Note(entry[a].failure, "discarded") ELSE UNCHANGED fate
          /\ UNCHANGED poison
       \/ /\ adminPc[a] = "del"
          /\ poison' = [poison EXCEPT ![Head(todo[a])] = 0]
          /\ UNCHANGED <<list, fate>>
    /\ todo' = [todo EXCEPT ![a] = <<>>]
    /\ adminPc' = [adminPc EXCEPT ![a] = "idle"]
    /\ purpose' = [purpose EXCEPT ![a] = "replay"]
    /\ entry' = [entry EXCEPT ![a] = NoEntry]
    /\ UNCHANGED <<routerVars, publishFailures>>

-----------------------------------------------------------------------------
RouterStep(r) == (\E f \in Failures : RouteRead(r, f)) \/ RoutePush(r)

AdminStep(a) == Find(a) \/ Lrem(a) \/ DelPoison(a) \/ Publish(a) \/ PublishFails(a)

Next ==
    \/ \E r \in Routers : RouterStep(r)
    \/ \E a \in Admins :
          \/ \E e \in Events, p \in {"replay", "remove"} : Call(a, p, e)
          \/ ReplayAll(a)
          \/ Clear(a)
          \/ AdminStep(a)
          \/ CommandFails(a)
    \/ \E e \in Events : PoisonExpires(e)

Spec == Init /\ [][Next]_vars

\* A call of DlqService that has begun runs to its end.
FairSpec == Spec /\ \A a \in Admins : WF_vars(AdminStep(a))

-----------------------------------------------------------------------------
(* Properties *)

Listed(f) == \E i \in DOMAIN list : list[i].failure = f

\* A replay has taken the entry of f off the list and not yet published it.
InHand(f) ==
    \E a \in Admins : entry[a].failure = f /\ purpose[a] = "replay" /\ adminPc[a] \in {"del", "publish"}

\* The failures that were pushed and are neither there nor accounted for.
Lost == {f \in Failures :
            /\ fate[f]["pushed"] > 0
            /\ ~Listed(f) /\ ~InHand(f)
            /\ \A h \in {"trimmed", "republished", "discarded"} : fate[f][h] = 0}

\* "DLQ entry removed only on successful re-queue" (dlq-governance.md): once
\* pushed, a failure stays listed until somebody removes or clears it, the cap
\* trims it or its event is published again.
NothingLost == Lost = {}

\* What holds of that: concurrent calls lose nothing; a publish that throws costs
\* the entry being replayed and at most one more, of the same event; a command
\* that throws costs at most the entry its call has taken or is taking off.
LossBounded == Cardinality(Lost) <= 2 * publishFailures + redisFailures

\* A poison counter never claims more failures of an event than were routed, so
\* an event is reported as poison only after that many failures.  (It may claim
\* fewer: the read and the write of the counter are two steps.)
PoisonNeverOvercounts ==
    \A e \in Events :
        poison[e] <= Cardinality({f \in Failures : EventOf[f] = e /\ fate[f]["pushed"] > 0})

\* An entry is published again at most once by each administrator at work on it,
\* whatever is routed meanwhile.  The governance document promises a bound of one
\* ("Only 1 replay-all per queue at a time (Redis lock: dlq:lock:replay:...)",
\* dlq-governance.md), but no code takes such a lock: two replays at once may find
\* the same entry before either removes it, and both publish it.
RepublishedOnceEach == \A f \in Failures : fate[f]["republished"] <= Cardinality(Admins)

\* Every call of DlqService ends, a replayAll too, while others work on the list.
CallsEnd == \A a \in Admins : []<>(adminPc[a] = "idle")

=============================================================================
