----------------------------- MODULE DlqProofs -----------------------------
(***************************************************************************)
(* Theorems of Dlq, for any number of routers, administrators, failures    *)
(* and events, any cap and any limit of what a replay looks through.       *)
(***************************************************************************)
EXTENDS Dlq, ListLemmas

-----------------------------------------------------------------------------
(* The steps *)

\* What a step of the system is, one case for each command.
LEMMA Steps ==
    ASSUME [Next]_vars
    PROVE  \/ \E r \in Routers, f \in Failures : RouteRead(r, f)
           \/ \E r \in Routers : RoutePush(r)
           \/ \E a \in Admins, e \in Events, p \in {"replay", "remove"} : Call(a, p, e)
           \/ \E a \in Admins : \/ ReplayAll(a) \/ Clear(a) \/ Find(a) \/ Lrem(a)
                                \/ DelPoison(a) \/ Publish(a) \/ PublishFails(a) \/ CommandFails(a)
           \/ \E e \in Events : PoisonExpires(e)
           \/ UNCHANGED vars
BY DEF Next, RouterStep, AdminStep

LEMMA NotedIs ==
    ASSUME fate \in [Failures -> [Fates -> Nat]], NEW F, NEW h \in Fates
    PROVE  /\ Noted(F, h) \in [Failures -> [Fates -> Nat]]
           /\ \A f \in Failures, g \in Fates :
                 Noted(F, h)[f][g] = IF g = h /\ f \in F THEN fate[f][g] + 1 ELSE fate[f][g]
<1>1. ASSUME NEW f \in Failures
      PROVE  /\ [fate[f] EXCEPT ![h] = @ + IF f \in F THEN 1 ELSE 0] \in [Fates -> Nat]
             /\ \A g \in Fates : [fate[f] EXCEPT ![h] = @ + IF f \in F THEN 1 ELSE 0][g] =
                   IF g = h /\ f \in F THEN fate[f][g] + 1 ELSE fate[f][g]
  <2>1. fate[f] \in [Fates -> Nat]
    OBVIOUS
  <2>2. QED
    BY <2>1
<1>2. QED
  BY <1>1 DEF Noted

\* What befalls failures when the router pushes, and the list it leaves.
LEMMA PushIs ==
    ASSUME TypeOK, NEW r \in Routers, RoutePush(r)
    PROVE  /\ failure[r] \in Failures
           /\ list' \in Seq(Entry) /\ Len(list') \in 1..MaxEntries
           /\ Len(list') = Len(list) + 1 \/ (Len(list') = MaxEntries /\ MaxEntries <= Len(list))
           /\ list'[1] = [failure |-> failure[r], poisonCount |-> count[r] + 1]
           /\ \A k \in 2..Len(list') : list'[k] = list[k - 1]
           /\ fate' \in [Failures -> [Fates -> Nat]]
           /\ \A g \in Failures, h \in Fates : fate'[g][h] =
                 IF (h = "pushed" /\ g = failure[r]) \/ (h = "trimmed" /\ g \in From(MaxEntries))
                 THEN fate[g][h] + 1 ELSE fate[g][h]
<1> DEFINE f == failure[r]
           x == [failure |-> f, poisonCount |-> count[r] + 1]
           n == IF Len(list) < MaxEntries THEN Len(list) + 1 ELSE MaxEntries
<1>1. f \in Failures /\ x \in Entry /\ list \in Seq(Entry) /\ Len(list) \in Nat
  BY DEF TypeOK, Entry
<1>2. n \in 1..MaxEntries /\ n \in 1..(Len(list) + 1)
  BY <1>1, DlqAssumption DEF TypeOK
<1>3. list' = SubSeq(<<x>> \o list, 1, n)
  BY DEF RoutePush
<1> DEFINE past == Noted(From(MaxEntries), "trimmed")
<1>4. fate' = [past EXCEPT ![f]["pushed"] = @ + 1]
  BY DEF RoutePush
<1>5. /\ past \in [Failures -> [Fates -> Nat]]
      /\ \A g \in Failures, h \in Fates : past[g][h] =
            IF h = "trimmed" /\ g \in From(MaxEntries) THEN fate[g][h] + 1 ELSE fate[g][h]
  BY NotedIs DEF TypeOK, Fates
<1> HIDE DEF past, n, x, f
<1>6. /\ fate' \in [Failures -> [Fates -> Nat]]
      /\ \A g \in Failures, h \in Fates : fate'[g][h] =
            IF h = "pushed" /\ g = f THEN past[g][h] + 1 ELSE past[g][h]
  BY <1>1, <1>4, <1>5 DEF Fates
<1>7. /\ list' \in Seq(Entry) /\ Len(list') = n /\ list'[1] = x
      /\ \A k \in 2..n : list'[k] = list[k - 1]
  BY <1>1, <1>2, <1>3, PushedAndCut
<1>8. \A g \in Failures, h \in Fates : fate'[g][h] =
         IF (h = "pushed" /\ g = f) \/ (h = "trimmed" /\ g \in From(MaxEntries))
         THEN fate[g][h] + 1 ELSE fate[g][h]
  BY <1>5, <1>6
<1>9. n = Len(list) + 1 \/ (n = MaxEntries /\ MaxEntries <= Len(list))
  BY <1>1, DlqAssumption DEF n
<1>10. QED
  BY <1>1, <1>2, <1>6, <1>7, <1>8, <1>9 DEF x, f

\* What the router leaves of the list when it removes an entry.
LEMMA LremIs ==
    ASSUME TypeOK, NEW a \in Admins, list' = RemoveFirst(list, entry[a])
    PROVE  /\ list' \in Seq(Entry) /\ Len(list') <= Len(list)
           /\ \/ list' = list /\ \A i \in DOMAIN list : list[i] # entry[a]
              \/ \E p \in 1..Len(list) :
                    /\ list[p] = entry[a] /\ Len(list') = Len(list) - 1
                    /\ \A k \in 1..(Len(list) - 1) : list'[k] = IF k < p THEN list[k] ELSE list[k + 1]
<1>1. list \in Seq(Entry) /\ Len(list) \in Nat /\ DOMAIN list = 1..Len(list)
  BY DEF TypeOK
<1>2. list' = RemoveFirst(list, entry[a])
  OBVIOUS
<1>3. CASE \E i \in 1..Len(list) : list[i] = entry[a]
  <2>1. PICK p \in 1..Len(list) : list[p] = entry[a] /\ list' = RemoveAt(list, p)
    BY <1>1, <1>2, <1>3, RemovesOne
  <2>2. /\ list' \in Seq(Entry) /\ Len(list') = Len(list) - 1
        /\ \A k \in 1..(Len(list) - 1) : list'[k] = IF k < p THEN list[k] ELSE list[k + 1]
    BY <1>1, <2>1, ElementRemoved
  <2>3. QED
    BY <1>1, <2>1, <2>2
<1>4. CASE ~ \E i \in 1..Len(list) : list[i] = entry[a]
  <2>1. list' = list
    BY <1>2, <1>4 DEF RemoveFirst, SelectInSeq
  <2>2. Len(list') <= Len(list)
    BY <1>1, <2>1
  <2>3. \A i \in DOMAIN list : list[i] # entry[a]
    BY <1>1, <1>4
  <2>4. QED
    BY <1>1, <2>1, <2>2, <2>3
<1>5. QED
  BY <1>3, <1>4


-----------------------------------------------------------------------------
(* Typing *)

\* Who is on a call has an event to call it on.
Busy == \A a \in Admins : adminPc[a] # "idle" => todo[a] # <<>>

TypeInv == TypeOK /\ Busy

\* The parts of TypeOK that routers and administrators write.
RoutersOK ==
    /\ routerPc \in [Routers -> {"idle", "push"}]
    /\ failure  \in [Routers -> Failures]
    /\ count    \in [Routers -> Nat]

AdminsOK ==
    /\ adminPc  \in [Admins -> {"idle", "find", "lrem", "del", "publish"}]
    /\ purpose  \in [Admins -> {"replay", "remove", "cleanup"}]
    /\ todo     \in [Admins -> Seq(Events)]
    /\ entry    \in [Admins -> Entry]
    /\ Busy

RedisOK ==
    /\ list \in Seq(Entry) /\ Len(list) <= MaxEntries
    /\ poison \in [Events -> Nat]

FateOK ==
    /\ fate \in [Failures -> [Fates -> Nat]]
    /\ publishFailures \in 0..MaxThrows /\ redisFailures \in 0..MaxThrows

LEMMA TypeParts == TypeInv <=> RoutersOK /\ AdminsOK /\ RedisOK /\ FateOK
BY DEF TypeInv, TypeOK, RoutersOK, AdminsOK, RedisOK, FateOK

LEMMA NoEntryOK == NoEntry \in Entry /\ NoEntry.failure \in Failures
BY FiniteAssumption DEF NoEntry, Entry

LEMMA TypeInit == Init => TypeInv
<1> SUFFICES ASSUME Init PROVE TypeInv
  OBVIOUS
<1>1. RoutersOK
  BY NoEntryOK DEF Init, RoutersOK
<1>2. AdminsOK
  BY NoEntryOK DEF Init, AdminsOK, Busy
<1>3. RedisOK /\ FateOK
  BY DlqAssumption, EmptySeq DEF Init, RedisOK, FateOK, Fates
<1>4. QED
  BY <1>1, <1>2, <1>3, TypeParts

\* The call at the head of todo is over.
LEMMA NextCallOK ==
    ASSUME AdminsOK, NEW a \in Admins, adminPc[a] # "idle", NextCall(a)
    PROVE  AdminsOK'
<1>1. todo[a] \in Seq(Events) /\ todo[a] # <<>>
  BY DEF AdminsOK, Busy
<1>2. Tail(todo[a]) \in Seq(Events) /\ Len(Tail(todo[a])) = Len(todo[a]) - 1 /\ Len(todo[a]) \in Nat
  BY <1>1, HeadTailProperties
<1>3. todo' \in [Admins -> Seq(Events)]
  BY <1>2 DEF NextCall, AdminsOK
<1>4. Busy'
  <2> SUFFICES ASSUME NEW b \in Admins, adminPc'[b] # "idle" PROVE todo'[b] # <<>>
    BY DEF Busy
  <2>1. CASE b = a
    <3>1. Len(todo[a]) # 1 /\ todo'[a] = Tail(todo[a])
      BY <2>1 DEF NextCall, AdminsOK
    <3>2. Len(Tail(todo[a])) # 0
      BY <1>2, <3>1
    <3>3. QED
      BY <1>2, <2>1, <3>1, <3>2, EmptySeq
  <2>2. CASE b # a
    BY <2>2 DEF NextCall, AdminsOK, Busy
  <2>3. QED
    BY <2>1, <2>2
<1>5. QED
  BY <1>3, <1>4, NoEntryOK DEF NextCall, AdminsOK

\* Events of the entries a replayAll has read.
LEMMA SnapshotOK ==
    ASSUME TypeOK, list # <<>>
    PROVE  LET s == [i \in DOMAIN Top(InspectLimit) |-> EventIn(list[i])] IN
           s \in Seq(Events) /\ s # <<>>
<1> DEFINE n == IF InspectLimit < Len(list) THEN InspectLimit ELSE Len(list)
           s == [i \in DOMAIN Top(InspectLimit) |-> EventIn(list[i])]
<1>1. list \in Seq(Entry) /\ Len(list) \in Nat \ {0} /\ \A i \in 1..Len(list) : list[i] \in Entry
  BY ElementOfSeq, EmptySeq DEF TypeOK
<1>2. n \in 1..Len(list)
  BY <1>1, DlqAssumption
<1>3. DOMAIN Top(InspectLimit) = 1..n
  <2>1. Top(InspectLimit) = SubSeq(list, 1, n)
    BY DEF Top
  <2> HIDE DEF n
  <2>2. SubSeq(list, 1, n) \in Seq(Entry) /\ Len(SubSeq(list, 1, n)) = n
    <3>1. \A i \in 1..n : list[i] \in Entry
      BY <1>1, <1>2
    <3>2. QED
      BY <1>2, <3>1, SubSeqProperties
  <2>3. QED
    BY <2>1, <2>2, LenProperties
<1> HIDE DEF n
<1>4. \A i \in 1..n : EventIn(list[i]) \in Events
  BY <1>1, <1>2, DlqAssumption DEF EventIn, Entry
<1>5. s \in [1..n -> Events]
  BY <1>3, <1>4
<1>6. n \in Nat /\ DOMAIN s = 1..n /\ 1 \in 1..n
  BY <1>1, <1>2, <1>5
<1> HIDE DEF s
<1>7. s \in Seq(Events)
  BY <1>5, <1>6, SeqDef
<1>8. s # <<>>
  <2>1. Len(s) = n
    BY <1>6, <1>7, LenProperties
  <2>2. QED
    BY <1>2, <1>7, <2>1, EmptySeq
<1>9. QED
  BY <1>7, <1>8 DEF s

\* The entry a search returns is in the list.
LEMMA FindIs ==
    ASSUME TypeInv, NEW a \in Admins, Find(a)
    PROVE  /\ adminPc[a] = "find" /\ UNCHANGED <<list, poison, routerVars, fate, throws>>
           /\ \/ NextCall(a)
              \/ /\ \E i \in 1..Len(list) : entry' = [entry EXCEPT ![a] = list[i]]
                 /\ adminPc' = [adminPc EXCEPT ![a] = "lrem"]
                 /\ UNCHANGED <<purpose, todo>>
<1> DEFINE hits == {i \in DOMAIN Top(InspectLimit) : EventIn(list[i]) = Head(todo[a])}
           n == IF InspectLimit < Len(list) THEN InspectLimit ELSE Len(list)
<1>1. list \in Seq(Entry) /\ Len(list) \in Nat /\ \A i \in 1..Len(list) : list[i] \in Entry
  BY ElementOfSeq DEF TypeInv, TypeOK
<1>2. n \in 0..Len(list)
  BY <1>1, DlqAssumption
<1>3. DOMAIN Top(InspectLimit) = 1..n
  <2>1. Top(InspectLimit) = SubSeq(list, 1, n)
    BY DEF Top
  <2> HIDE DEF n
  <2>2. SubSeq(list, 1, n) \in Seq(Entry) /\ Len(SubSeq(list, 1, n)) = n
    <3>1. \A i \in 1..n : list[i] \in Entry
      BY <1>1, <1>2
    <3>2. QED
      BY <1>2, <3>1, SubSeqProperties
  <2>3. QED
    BY <2>1, <2>2, LenProperties
<1>4. CASE hits = {}
  BY <1>4 DEF Find
<1>5. CASE hits # {}
  <2>1. IsFiniteSet(hits) /\ hits \in SUBSET Int
    <3>1. IsFiniteSet(1..n)
      BY <1>1, <1>2, FS_Interval
    <3>2. hits \in SUBSET (1..n)
      BY <1>3
    <3> HIDE DEF n, hits
    <3>3. IsFiniteSet(hits)
      BY <3>1, <3>2, FS_Subset
    <3>4. hits \in SUBSET Int
      BY <3>2
    <3>5. QED
      BY <3>3, <3>4
  <2>2. Min(hits) \in hits
    <3> HIDE DEF hits
    <3>1. QED
      BY <1>5, <2>1, Least
  <2>3. Min(hits) \in 1..Len(list)
    BY <1>1, <1>2, <1>3, <2>2
  <2>4. entry' = [entry EXCEPT ![a] = list[Min(hits)]]
    BY <1>5 DEF Find
  <2>5. QED
    BY <1>5, <2>3, <2>4 DEF Find
<1>6. QED
  BY <1>4, <1>5

LEMMA TypeStep == TypeInv /\ [Next]_vars => TypeInv'
<1> SUFFICES ASSUME TypeInv, [Next]_vars PROVE RoutersOK' /\ AdminsOK' /\ RedisOK' /\ FateOK'
  BY TypeParts, PTL
<1>0. RoutersOK /\ AdminsOK /\ RedisOK /\ FateOK /\ TypeOK
  BY TypeParts DEF TypeInv
<1>1. ASSUME NEW r \in Routers, NEW f \in Failures, RouteRead(r, f)
      PROVE  RoutersOK' /\ AdminsOK' /\ RedisOK' /\ FateOK'
  <2>1. RoutersOK'
    BY <1>0, <1>1, DlqAssumption DEF RouteRead, RoutersOK, RedisOK
  <2>2. QED
    BY <1>0, <1>1, <2>1 DEF RouteRead, AdminsOK, RedisOK, FateOK, adminVars, throws, Busy
<1>2. ASSUME NEW r \in Routers, RoutePush(r)
      PROVE  RoutersOK' /\ AdminsOK' /\ RedisOK' /\ FateOK'
  <2>1. RoutersOK'
    BY <1>0, <1>2, NoEntryOK DEF RoutePush, RoutersOK
  <2>2. list' \in Seq(Entry) /\ Len(list') <= MaxEntries /\ fate' \in [Failures -> [Fates -> Nat]]
    <3>1. list' \in Seq(Entry) /\ Len(list') \in 1..MaxEntries /\ fate' \in [Failures -> [Fates -> Nat]]
      BY <1>0, <1>2, PushIs
    <3>2. QED
      BY <3>1, DlqAssumption
  <2>3. poison' \in [Events -> Nat]
    BY <1>0, <1>2, DlqAssumption DEF RoutePush, RoutersOK, RedisOK
  <2>4. QED
    BY <1>0, <1>2, <2>1, <2>2, <2>3 DEF RoutePush, AdminsOK, RedisOK, FateOK, adminVars, throws, Busy
<1>3. ASSUME NEW a \in Admins, NEW e \in Events, NEW p \in {"replay", "remove"}, Call(a, p, e)
      PROVE  RoutersOK' /\ AdminsOK' /\ RedisOK' /\ FateOK'
  <2>1. <<e>> \in Seq(Events) /\ <<e>> # <<>>
    OBVIOUS
  <2>2. AdminsOK'
    BY <1>0, <1>3, <2>1 DEF Call, AdminsOK, Busy
  <2>3. QED
    BY <1>0, <1>3, <2>2 DEF Call, RoutersOK, RedisOK, FateOK, routerVars, throws
<1>4. ASSUME NEW a \in Admins, ReplayAll(a)
      PROVE  RoutersOK' /\ AdminsOK' /\ RedisOK' /\ FateOK'
  <2> DEFINE s == [i \in DOMAIN Top(InspectLimit) |-> EventIn(list[i])]
  <2>1. s \in Seq(Events) /\ s # <<>> /\ todo' = [todo EXCEPT ![a] = s]
    BY <1>0, <1>4, SnapshotOK DEF ReplayAll
  <2> HIDE DEF s
  <2>2. AdminsOK'
    BY <1>0, <1>4, <2>1 DEF ReplayAll, AdminsOK, Busy
  <2>3. QED
    BY <1>0, <1>4, <2>2 DEF ReplayAll, RoutersOK, RedisOK, FateOK, routerVars, throws
<1>5. ASSUME NEW a \in Admins, Clear(a)
      PROVE  RoutersOK' /\ AdminsOK' /\ RedisOK' /\ FateOK'
  <2>1. list' \in Seq(Entry) /\ Len(list') <= MaxEntries
    BY <1>5, DlqAssumption, EmptySeq DEF Clear
  <2>2. fate' \in [Failures -> [Fates -> Nat]]
    BY <1>0, <1>5, NotedIs DEF Clear, FateOK, Fates
  <2>3. QED
    BY <1>0, <1>5, <2>1, <2>2 DEF Clear, RoutersOK, AdminsOK, RedisOK, FateOK, routerVars, adminVars, throws, Busy
<1>6. ASSUME NEW a \in Admins, Find(a)
      PROVE  RoutersOK' /\ AdminsOK' /\ RedisOK' /\ FateOK'
  <2>1. adminPc[a] = "find" /\ UNCHANGED <<list, poison, routerVars, fate, throws>>
    BY <1>6, FindIs
  <2>2. AdminsOK'
    <3>1. CASE NextCall(a)
      BY <1>0, <2>1, <3>1, NextCallOK
    <3>2. CASE ~NextCall(a)
      <4>1. PICK i \in 1..Len(list) : entry' = [entry EXCEPT ![a] = list[i]]
        BY <1>6, <3>2, FindIs
      <4>2. list[i] \in Entry
        BY <1>0, ElementOfSeq DEF RedisOK
      <4>3. adminPc' = [adminPc EXCEPT ![a] = "lrem"] /\ UNCHANGED <<purpose, todo>>
        BY <1>6, <3>2, FindIs
      <4>4. QED
        BY <1>0, <2>1, <4>1, <4>2, <4>3 DEF AdminsOK, Busy
    <3>3. QED
      BY <3>1, <3>2
  <2>3. QED
    BY <1>0, <2>1, <2>2 DEF RoutersOK, RedisOK, FateOK, routerVars, throws
<1>7. ASSUME NEW a \in Admins, Lrem(a)
      PROVE  RoutersOK' /\ AdminsOK' /\ RedisOK' /\ FateOK'
  <2>1. list' \in Seq(Entry) /\ Len(list') <= Len(list)
    BY <1>0, <1>7, LremIs DEF Lrem
  <2>2. Len(list') <= MaxEntries
    BY <1>0, <2>1, DlqAssumption, LenProperties DEF RedisOK
  <2>3. fate' \in [Failures -> [Fates -> Nat]]
    BY <1>0, <1>7, NotedIs DEF Lrem, Note, FateOK, Fates
  <2>4. AdminsOK'
    BY <1>0, <1>7 DEF Lrem, AdminsOK, Busy
  <2>5. QED
    BY <1>0, <1>7, <2>1, <2>2, <2>3, <2>4 DEF Lrem, RoutersOK, RedisOK, FateOK, routerVars, throws
<1>8. ASSUME NEW a \in Admins, DelPoison(a)
      PROVE  RoutersOK' /\ AdminsOK' /\ RedisOK' /\ FateOK'
  <2>1. poison' \in [Events -> Nat]
    BY <1>0, <1>8 DEF DelPoison, RedisOK
  <2>2. AdminsOK'
    <3>1. CASE purpose[a] = "replay"
      BY <1>0, <1>8, <3>1 DEF DelPoison, AdminsOK, Busy
    <3>2. CASE purpose[a] # "replay"
      BY <1>0, <1>8, <3>2, NextCallOK DEF DelPoison
    <3>3. QED
      BY <3>1, <3>2
  <2>3. QED
    BY <1>0, <1>8, <2>1, <2>2 DEF DelPoison, RoutersOK, RedisOK, FateOK, routerVars, throws
<1>9. ASSUME NEW a \in Admins, Publish(a)
      PROVE  RoutersOK' /\ AdminsOK' /\ RedisOK' /\ FateOK'
  <2>1. fate' \in [Failures -> [Fates -> Nat]]
    BY <1>0, <1>9, NotedIs DEF Publish, Note, FateOK, Fates
  <2>2. AdminsOK'
    BY <1>0, <1>9, NextCallOK DEF Publish
  <2>3. QED
    BY <1>0, <1>9, <2>1, <2>2 DEF Publish, RoutersOK, RedisOK, FateOK, routerVars, throws
<1>10. ASSUME NEW a \in Admins, PublishFails(a)
      PROVE  RoutersOK' /\ AdminsOK' /\ RedisOK' /\ FateOK'
  <2>1. publishFailures' \in 0..MaxThrows
    BY <1>0, <1>10, DlqAssumption DEF PublishFails, FateOK
  <2>2. AdminsOK'
    BY <1>0, <1>10 DEF PublishFails, AdminsOK, Busy
  <2>3. QED
    BY <1>0, <1>10, <2>1, <2>2 DEF PublishFails, RoutersOK, RedisOK, FateOK, routerVars, throws
<1>11. ASSUME NEW e \in Events, PoisonExpires(e)
      PROVE  RoutersOK' /\ AdminsOK' /\ RedisOK' /\ FateOK'
  BY <1>0, <1>11 DEF PoisonExpires, RoutersOK, AdminsOK, RedisOK, FateOK, routerVars, adminVars, throws, Busy
<1>12. CASE UNCHANGED vars
  BY <1>0, <1>12 DEF vars, RoutersOK, AdminsOK, RedisOK, FateOK, routerVars, adminVars, throws, Busy
<1>13. ASSUME NEW a \in Admins, CommandFails(a)
       PROVE  RoutersOK' /\ AdminsOK' /\ RedisOK' /\ FateOK'
  <2>1. AdminsOK'
    BY <1>0, <1>13, NoEntryOK, EmptySeq DEF CommandFails, AdminsOK, Busy
  <2>2. RedisOK'
    <3>1. CASE list' = list
      <4>1. poison' = poison \/ poison' = [poison EXCEPT ![Head(todo[a])] = 0]
        BY <1>13 DEF CommandFails
      <4>2. QED
        BY <1>0, <3>1, <4>1 DEF RedisOK
    <3>2. CASE list' = RemoveFirst(list, entry[a]) /\ poison' = poison
      <4>1. list' \in Seq(Entry) /\ Len(list') <= Len(list)
        BY <1>0, <3>2, LremIs
      <4>2. Len(list') <= MaxEntries
        BY <1>0, <4>1, DlqAssumption, LenProperties DEF RedisOK
      <4>3. QED
        BY <1>0, <3>2, <4>1, <4>2 DEF RedisOK
    <3>3. QED
      BY <1>13, <3>1, <3>2 DEF CommandFails
  <2>3. fate' \in [Failures -> [Fates -> Nat]]
    <3>1. fate' = fate \/ fate' = Noted({entry[a].failure}, "discarded")
      BY <1>13 DEF CommandFails, Note
    <3>2. QED
      BY <1>0, <3>1, NotedIs DEF FateOK, Fates
  <2>4. redisFailures' \in 0..MaxThrows /\ publishFailures' = publishFailures
    BY <1>0, <1>13, DlqAssumption DEF CommandFails, FateOK
  <2>5. QED
    BY <1>0, <1>13, <2>1, <2>2, <2>3, <2>4 DEF CommandFails, RoutersOK, FateOK, routerVars
<1>14. QED
  BY <1>13, <1>1, <1>2, <1>3, <1>4, <1>5, <1>6, <1>7, <1>8, <1>9, <1>10, <1>11, <1>12, Steps

\* The queue keeps its type: the list stays below its cap, and no call works on an
\* event it does not have.
THEOREM TypeCorrect == Spec => []TypeOK
<1>1. TypeInv => TypeOK
  BY DEF TypeInv
<1>2. QED
  BY <1>1, TypeInit, TypeStep, PTL DEF Spec


-----------------------------------------------------------------------------
(* Routing *)

\* A failure is routed by one router, and pushed once.
Routing ==
    /\ \A q, r \in Routers :
          routerPc[q] = "push" /\ routerPc[r] = "push" /\ failure[q] = failure[r] => q = r
    /\ \A r \in Routers : routerPc[r] = "push" => fate[failure[r]]["pushed"] = 0

\* How many failures of an event have been pushed.
Pushed(e) == {f \in Failures : EventOf[f] = e /\ fate[f]["pushed"] > 0}
Pushes == [e \in Events |-> Cardinality(Pushed(e))]

Counted ==
    /\ \A e \in Events : poison[e] <= Pushes[e]
    /\ \A r \in Routers : routerPc[r] = "push" => count[r] <= Pushes[EventOf[failure[r]]]

LEMMA PushedFinite ==
    ASSUME NEW e \in Events PROVE IsFiniteSet(Pushed(e)) /\ Cardinality(Pushed(e)) \in Nat
<1>1. Pushed(e) \in SUBSET Failures
  BY DEF Pushed
<1>2. QED
  BY <1>1, FiniteAssumption, FS_Subset, FS_CardinalityType

LEMMA PushesOK == Pushes \in [Events -> Nat]
BY PushedFinite DEF Pushes

LEMMA PushesSame ==
    ASSUME \A f \in Failures : fate'[f]["pushed"] = fate[f]["pushed"]
    PROVE  Pushes' = Pushes
<1>1. \A e \in Events : {f \in Failures : EventOf[f] = e /\ fate'[f]["pushed"] > 0} = Pushed(e)
  BY DEF Pushed
<1>2. QED
  BY <1>1 DEF Pushes, Pushed

LEMMA PushesMore ==
    ASSUME FateOK, NEW f \in Failures, fate[f]["pushed"] = 0,
           \A g \in Failures : fate'[g]["pushed"] = IF g = f THEN fate[g]["pushed"] + 1 ELSE fate[g]["pushed"]
    PROVE  Pushes' = [Pushes EXCEPT ![EventOf[f]] = @ + 1]
<1> DEFINE after(e) == {g \in Failures : EventOf[g] = e /\ fate'[g]["pushed"] > 0}
<1>0. EventOf[f] \in Events
  BY DlqAssumption
<1>1. \A g \in Failures : fate'[g]["pushed"] > 0 <=> g = f \/ fate[g]["pushed"] > 0
  BY DEF FateOK, Fates
<1>2. \A e \in Events : e # EventOf[f] => after(e) = Pushed(e)
  BY <1>1 DEF Pushed
<1>3. after(EventOf[f]) = Pushed(EventOf[f]) \cup {f} /\ f \notin Pushed(EventOf[f])
  BY <1>1 DEF Pushed
<1>4. Cardinality(after(EventOf[f])) = Cardinality(Pushed(EventOf[f])) + 1
  BY <1>0, <1>3, PushedFinite, FS_AddElement
<1>5. Pushes' = [e \in Events |-> Cardinality(after(e))]
  BY DEF Pushes, Pushed
<1> HIDE DEF after
<1>6. \A e \in Events : Cardinality(after(e)) =
          IF e = EventOf[f] THEN Cardinality(Pushed(e)) + 1 ELSE Cardinality(Pushed(e))
  BY <1>2, <1>4
<1>7. QED
  BY <1>5, <1>6 DEF Pushes

\* What administrators and Redis do is none of the routers' business.
LEMMA OthersPush ==
    ASSUME TypeInv, Routing, Counted, UNCHANGED routerVars,
           \A f \in Failures : fate'[f]["pushed"] = fate[f]["pushed"],
           \A e \in Events : poison'[e] \in {poison[e], 0}
    PROVE  Routing' /\ Counted'
<1>0. failure \in [Routers -> Failures] /\ poison \in [Events -> Nat] /\ Pushes \in [Events -> Nat]
  BY TypeParts, PushesOK DEF RoutersOK, RedisOK
<1>1. Routing'
  BY <1>0 DEF Routing, routerVars
<1>2. Pushes' = Pushes
  BY PushesSame
<1>3. \A e \in Events : poison'[e] <= Pushes[e]
  BY <1>0 DEF Counted
<1>4. QED
  BY <1>1, <1>2, <1>3 DEF Counted, routerVars

\* An entry is published, removed or cleared away: none of it is a push.
LEMMA OthersFate ==
    ASSUME TypeInv, NEW F, NEW h \in Fates \ {"pushed"}, fate' \in {fate, Noted(F, h)}
    PROVE  \A f \in Failures : fate'[f]["pushed"] = fate[f]["pushed"]
BY NotedIs DEF TypeInv, TypeOK, Fates

LEMMA RoutingStep ==
    ASSUME TypeInv, Routing, Counted, [Next]_vars
    PROVE  Routing' /\ Counted'
<1>0. /\ routerPc \in [Routers -> {"idle", "push"}] /\ failure \in [Routers -> Failures]
      /\ count \in [Routers -> Nat] /\ poison \in [Events -> Nat] /\ TypeOK
  BY TypeParts DEF RoutersOK, RedisOK, TypeInv
<1>1. ASSUME NEW r \in Routers, NEW f \in Failures, RouteRead(r, f) PROVE Routing' /\ Counted'
  <2>1. Pushes' = Pushes
    BY <1>1, PushesSame DEF RouteRead
  <2>2. Routing'
    BY <1>0, <1>1 DEF RouteRead, Routing
  <2>3. ASSUME NEW q \in Routers, routerPc'[q] = "push" PROVE count'[q] <= Pushes[EventOf[failure'[q]]]
    <3>1. CASE q = r
      <4>1. failure'[q] = f /\ count'[q] = poison[EventOf[f]] /\ EventOf[f] \in Events
        BY <1>0, <1>1, <3>1, DlqAssumption DEF RouteRead
      <4>2. QED
        BY <4>1 DEF Counted
    <3>2. CASE q # r
      <4>1. failure'[q] = failure[q] /\ count'[q] = count[q] /\ routerPc[q] = "push"
        BY <1>0, <1>1, <2>3, <3>2 DEF RouteRead
      <4>2. QED
        BY <4>1 DEF Counted
    <3>3. QED
      BY <3>1, <3>2
  <2>4. \A e \in Events : poison'[e] <= Pushes[e]
    BY <1>1 DEF RouteRead, Counted
  <2>5. QED
    BY <2>1, <2>2, <2>3, <2>4 DEF Counted
<1>2. ASSUME NEW r \in Routers, RoutePush(r) PROVE Routing' /\ Counted'
  <2> DEFINE f == failure[r]
             e0 == EventOf[f]
  <2>0. f \in Failures /\ e0 \in Events /\ routerPc[r] = "push" /\ fate[f]["pushed"] = 0
    BY <1>0, <1>2, DlqAssumption DEF RoutePush, Routing
  <2>1. \A g \in Failures : fate'[g]["pushed"] = IF g = f THEN fate[g]["pushed"] + 1 ELSE fate[g]["pushed"]
    <3>1. \A g \in Failures, h \in Fates : fate'[g][h] =
             IF (h = "pushed" /\ g = failure[r]) \/ (h = "trimmed" /\ g \in From(MaxEntries))
             THEN fate[g][h] + 1 ELSE fate[g][h]
      BY <1>0, <1>2, PushIs
    <3>2. "pushed" \in Fates
      BY DEF Fates
    <3>3. QED
      BY <3>1, <3>2
  <2>2. /\ routerPc' = [routerPc EXCEPT ![r] = "idle"]
        /\ \A q \in Routers : q # r => failure'[q] = failure[q] /\ count'[q] = count[q]
        /\ poison' = [poison EXCEPT ![e0] = count[r] + 1]
        /\ count[r] <= Pushes[e0] /\ count[r] \in Nat
    BY <1>0, <1>2, <2>0 DEF RoutePush, Counted
  <2> HIDE DEF f
  <2>3. Routing'
    BY <1>0, <2>0, <2>1, <2>2 DEF Routing, f
  <2>4. Pushes \in [Events -> Nat] /\ Pushes' = [Pushes EXCEPT ![e0] = @ + 1]
    BY <2>0, <2>1, PushesMore, PushesOK, TypeParts
  <2> HIDE DEF e0
  <2>5. \A e \in Events : Pushes'[e] >= Pushes[e] /\ Pushes'[e] \in Nat
    BY <2>0, <2>4
  <2>6. \A e \in Events : poison'[e] <= Pushes'[e]
    BY <1>0, <2>0, <2>2, <2>4 DEF Counted
  <2>7. ASSUME NEW q \in Routers, routerPc'[q] = "push" PROVE count'[q] <= Pushes'[EventOf[failure'[q]]]
    <3>1. q # r /\ routerPc[q] = "push" /\ failure'[q] = failure[q] /\ count'[q] = count[q]
      BY <1>0, <2>2, <2>7
    <3>2. EventOf[failure[q]] \in Events /\ count[q] \in Nat /\ count[q] <= Pushes[EventOf[failure[q]]]
      BY <1>0, <3>1, DlqAssumption DEF Counted
    <3>3. count[q] <= Pushes'[EventOf[failure[q]]]
      BY <2>4, <2>5, <3>2
    <3>4. QED
      BY <3>1, <3>3
  <2>8. QED
    BY <2>3, <2>6, <2>7 DEF Counted
<1>3. ASSUME NEW a \in Admins, NEW e \in Events, NEW p \in {"replay", "remove"}, Call(a, p, e)
      PROVE  Routing' /\ Counted'
  <2>1. UNCHANGED <<routerVars, fate, poison>>
    BY <1>3 DEF Call
  <2>2. QED
    BY <2>1, OthersPush
<1>4. ASSUME NEW a \in Admins,
             ReplayAll(a) \/ Clear(a) \/ Lrem(a) \/ DelPoison(a) \/ Publish(a) \/ PublishFails(a) \/ CommandFails(a)
      PROVE  Routing' /\ Counted'
  <2>1. UNCHANGED routerVars
    BY <1>4 DEF ReplayAll, Clear, Lrem, DelPoison, Publish, PublishFails, CommandFails, routerVars
  <2>2. \A e \in Events : poison'[e] \in {poison[e], 0}
    BY <1>0, <1>4 DEF ReplayAll, Clear, Lrem, DelPoison, Publish, PublishFails, CommandFails
  <2>3. \E F, h : h \in Fates \ {"pushed"} /\ fate' \in {fate, Noted(F, h)}
    BY <1>4 DEF ReplayAll, Clear, Lrem, DelPoison, Publish, PublishFails, CommandFails, Note, Fates
  <2>4. QED
    BY <2>1, <2>2, <2>3, OthersFate, OthersPush
<1>5. ASSUME NEW a \in Admins, Find(a) PROVE Routing' /\ Counted'
  <2>1. UNCHANGED <<poison, routerVars, fate>>
    BY <1>5, FindIs
  <2>2. QED
    BY <2>1, OthersPush DEF routerVars
<1>6. ASSUME NEW e \in Events, PoisonExpires(e) PROVE Routing' /\ Counted'
  <2>1. UNCHANGED <<routerVars, fate>> /\ \A x \in Events : poison'[x] \in {poison[x], 0}
    BY <1>0, <1>6 DEF PoisonExpires
  <2>2. QED
    BY <2>1, OthersPush
<1>7. CASE UNCHANGED vars
  <2>1. UNCHANGED <<routerVars, fate, poison>>
    BY <1>7 DEF vars
  <2>2. QED
    BY <2>1, OthersPush
<1>8. QED
  BY <1>1, <1>2, <1>3, <1>4, <1>5, <1>6, <1>7, Steps

LEMMA RoutingInit == Init => Routing /\ Counted
<1> SUFFICES ASSUME Init PROVE Routing /\ Counted
  OBVIOUS
<1>1. \A e \in Events : poison[e] = 0 /\ Pushes[e] \in Nat
  BY PushesOK DEF Init
<1>2. \A r \in Routers : routerPc[r] # "push"
  BY DEF Init
<1>3. QED
  BY <1>1, <1>2 DEF Routing, Counted

\* A poison counter never claims more failures of an event than were routed,
\* however the reads and writes of the routers interleave.
THEOREM PoisonBounded == Spec => []PoisonNeverOvercounts
<1>1. Counted => PoisonNeverOvercounts
  BY DEF Counted, PoisonNeverOvercounts, Pushes, Pushed
<1>2. TypeInv /\ Routing /\ Counted /\ [Next]_vars => (Routing /\ Counted)'
  BY RoutingStep
<1>3. QED
  BY <1>1, <1>2, TypeInit, TypeStep, RoutingInit, PTL DEF Spec

-----------------------------------------------------------------------------
(* What replays lose *)

\* Something is known of f that says it is not lost.
Accounted(f) == \E h \in {"trimmed", "republished", "discarded"} : fate[f][h] # 0
Safe(f) == fate[f]["pushed"] = 0 \/ Listed(f) \/ InHand(f) \/ Accounted(f)

\* Who is still to remove one more entry because a publish has thrown.
Cleaning == {a \in Admins : purpose[a] = "cleanup" /\ adminPc[a] \in {"find", "lrem"}}

\* A failed publish loses the entry in hand, and its clean-up one more; a failed
\* command loses the entry of its call.
LossCounted == Cardinality(Lost) + Cardinality(Cleaning) <= 2 * publishFailures + redisFailures

Unsafe == {f \in Failures : ~Safe(f)}

LEMMA LostIs == TypeInv => Lost = Unsafe
<1> SUFFICES ASSUME TypeInv, NEW f \in Failures PROVE f \in Lost <=> ~Safe(f)
  BY DEF Lost, Unsafe
<1>1. \A h \in Fates : fate[f][h] \in Nat
  BY TypeParts DEF FateOK
<1>2. QED
  BY <1>1 DEF Lost, Safe, Accounted, Fates

LEMMA LostFinite ==
    /\ IsFiniteSet(Lost) /\ Cardinality(Lost) \in Nat
    /\ IsFiniteSet(Cleaning) /\ Cardinality(Cleaning) \in Nat
<1>1. Lost \in SUBSET Failures /\ Cleaning \in SUBSET Admins
  BY DEF Lost, Cleaning
<1>2. QED
  BY <1>1, FiniteAssumption, FS_Subset, FS_CardinalityType

\* Neither set grows: the bound stays.
LEMMA LossKept ==
    ASSUME TypeInv, TypeInv', LossCounted, UNCHANGED throws,
           \A f \in Failures : Safe(f) => Safe(f)', Cleaning' \subseteq Cleaning
    PROVE  LossCounted'
<1>1. Lost' \subseteq Lost
  <2>1. Lost = Unsafe
    BY LostIs
  <2>2. (Lost = Unsafe)'
    BY LostIs, PTL
  <2>3. QED
    BY <2>1, <2>2 DEF Unsafe
<1>2. Cardinality(Lost') <= Cardinality(Lost) /\ Cardinality(Cleaning') <= Cardinality(Cleaning)
  BY <1>1, LostFinite, FS_Subset
<1>3. (Cardinality(Lost) \in Nat /\ Cardinality(Cleaning) \in Nat)'
  BY LostFinite, PTL
<1>4. publishFailures \in Nat /\ redisFailures \in Nat
  BY TypeParts, DlqAssumption DEF FateOK
<1>5. QED
  BY <1>2, <1>3, <1>4, LostFinite DEF LossCounted, throws

\* The failure x alone may have become lost.
LEMMA LossOne ==
    ASSUME TypeInv, TypeInv', NEW x \in Failures,
           \A f \in Failures \ {x} : Safe(f) => Safe(f)'
    PROVE  /\ Cardinality(Lost') <= Cardinality(Lost) + 1
           /\ Cardinality(Lost') \in Nat
<1>1. Lost' \subseteq Lost \cup {x}
  <2>1. Lost = Unsafe
    BY LostIs
  <2>2. (Lost = Unsafe)'
    BY LostIs, PTL
  <2>3. QED
    BY <2>1, <2>2 DEF Unsafe
<1>2. /\ IsFiniteSet(Lost \cup {x})
      /\ Cardinality(Lost \cup {x}) = IF x \in Lost THEN Cardinality(Lost) ELSE Cardinality(Lost) + 1
  BY LostFinite, FS_AddElement
<1>3. Cardinality(Lost') <= Cardinality(Lost \cup {x})
  BY <1>1, <1>2, FS_Subset
<1>4. (Cardinality(Lost) \in Nat)'
  BY LostFinite, PTL
<1>5. QED
  BY <1>2, <1>3, <1>4, LostFinite

\* Whoever is neither listed nor in hand anew has lost nothing.
LEMMA StaysSafe ==
    ASSUME NEW f \in Failures, Safe(f),
           fate'[f]["pushed"] = fate[f]["pushed"],
           Accounted(f) => Accounted(f)',
           Listed(f) => Safe(f)', InHand(f) => Safe(f)'
    PROVE  Safe(f)'
BY DEF Safe

\* A note adds to what is known of a failure.
LEMMA NotesAdd ==
    ASSUME TypeInv, NEW F, NEW h \in {"trimmed", "republished", "discarded"}, fate' = Noted(F, h)
    PROVE  \A f \in Failures : /\ fate'[f]["pushed"] = fate[f]["pushed"]
                               /\ Accounted(f) => Accounted(f)'
                               /\ f \in F => Accounted(f)'
<1> SUFFICES ASSUME NEW f \in Failures
             PROVE  /\ fate'[f]["pushed"] = fate[f]["pushed"]
                    /\ Accounted(f) => Accounted(f)'
                    /\ f \in F => Accounted(f)'
  OBVIOUS
<1>1. h \in Fates /\ "pushed" \in Fates /\ h # "pushed" /\ {"trimmed", "republished", "discarded"} \subseteq Fates
  BY DEF Fates
<1>2. \A g \in Fates : /\ fate[f][g] \in Nat
                       /\ fate'[f][g] = IF g = h /\ f \in F THEN fate[f][g] + 1 ELSE fate[f][g]
  BY <1>1, NotedIs, TypeParts DEF FateOK
<1>3. \A g \in Fates : fate[f][g] # 0 => fate'[f][g] # 0
  BY <1>2
<1>4. f \in F => fate'[f][h] # 0
  BY <1>1, <1>2
<1>5. QED
  BY <1>1, <1>2, <1>3, <1>4 DEF Accounted

\* A push puts its failure on the list; what falls off the end is trimmed.
LEMMA PushSafe ==
    ASSUME TypeInv, TypeInv', NEW r \in Routers, RoutePush(r), NEW f \in Failures, Safe(f)
    PROVE  Safe(f)'
<1>0. TypeOK /\ list \in Seq(Entry) /\ Len(list) \in Nat /\ DOMAIN list = 1..Len(list) /\ MaxEntries \in Nat \ {0}
  BY DlqAssumption DEF TypeInv, TypeOK
<1>p. /\ list' \in Seq(Entry) /\ Len(list') \in 1..MaxEntries
      /\ Len(list') = Len(list) + 1 \/ (Len(list') = MaxEntries /\ MaxEntries <= Len(list))
      /\ list'[1] = [failure |-> failure[r], poisonCount |-> count[r] + 1]
      /\ \A k \in 2..Len(list') : list'[k] = list[k - 1]
      /\ \A g \in Failures, h \in Fates : fate'[g][h] =
            IF (h = "pushed" /\ g = failure[r]) \/ (h = "trimmed" /\ g \in From(MaxEntries))
            THEN fate[g][h] + 1 ELSE fate[g][h]
  BY <1>0, PushIs
<1>1. DOMAIN list' = 1..Len(list') /\ Len(list') \in Nat /\ 1 <= Len(list')
  BY <1>0, <1>p, LenProperties
<1>2. list'[1].failure = failure[r]
  BY <1>p
<1>3. \A h \in Fates : /\ fate[f][h] \in Nat
                       /\ fate'[f][h] = IF (h = "pushed" /\ f = failure[r]) \/ (h = "trimmed" /\ f \in From(MaxEntries))
                                        THEN fate[f][h] + 1 ELSE fate[f][h]
  <2>1. \A h \in Fates : fate'[f][h] = IF (h = "pushed" /\ f = failure[r]) \/ (h = "trimmed" /\ f \in From(MaxEntries))
                                       THEN fate[f][h] + 1 ELSE fate[f][h]
    BY <1>p
  <2>2. \A h \in Fates : fate[f][h] \in Nat
    BY TypeParts DEF FateOK
  <2>3. QED
    BY <2>1, <2>2
<1>4. CASE f = failure[r]
  <2>1. 1 \in DOMAIN list'
    BY <1>1
  <2>2. Listed(f)'
    BY <1>2, <1>4, <2>1 DEF Listed
  <2>3. QED
    BY <2>2 DEF Safe
<1>5. CASE f # failure[r]
  <2>1. fate'[f]["pushed"] = fate[f]["pushed"]
    BY <1>3, <1>5 DEF Fates
  <2>2. Accounted(f) => Accounted(f)'
    <3>1. \A h \in Fates : fate[f][h] # 0 => fate'[f][h] # 0
      BY <1>3
    <3>2. QED
      BY <3>1 DEF Accounted, Fates
  <2>3. InHand(f) => InHand(f)'
    BY DEF InHand, RoutePush, adminVars
  <2>4. ASSUME Listed(f) PROVE Safe(f)'
    <3>1. PICK i \in 1..Len(list) : list[i].failure = f
      BY <1>0, <2>4 DEF Listed
    <3>2. CASE i + 1 <= Len(list')
      <4>1. i + 1 \in 2..Len(list') /\ (i + 1) - 1 = i
        BY <1>0, <1>1, <3>2, <3>1
      <4>a. \A k \in 2..Len(list') : list'[k] = list[k - 1]
        BY <1>p
      <4>b. list'[i + 1] = list[(i + 1) - 1]
        BY <4>1, <4>a
      <4>2. list'[i + 1] = list[i] /\ i + 1 \in DOMAIN list'
        <5>1. i + 1 \in 1..Len(list')
          BY <1>1, <4>1
        <5>2. QED
          BY <1>1, <4>1, <4>b, <5>1
      <4>3. Listed(f)'
        BY <3>1, <4>2 DEF Listed
      <4>4. QED
        BY <4>3 DEF Safe
    <3>3. CASE ~(i + 1 <= Len(list'))
      <4>1. i >= MaxEntries
        <5>1. Len(list') = Len(list) + 1 \/ (Len(list') = MaxEntries /\ MaxEntries <= Len(list))
          BY <1>p
        <5> DEFINE n == Len(list)
                   m == Len(list')
        <5>2. n \in Nat /\ m \in Nat /\ MaxEntries \in Nat /\ i \in 1..n /\ ~(i + 1 <= m)
          BY <1>0, <1>1, <3>3
        <5>3. m = n + 1 \/ (m = MaxEntries /\ MaxEntries <= n)
          BY <5>1
        <5> HIDE DEF n, m
        <5>4. QED
          BY ONLY <5>2, <5>3
      <4>2. f \in From(MaxEntries)
        BY <1>0, <3>1, <4>1 DEF From
      <4>3. fate'[f]["trimmed"] # 0
        BY <1>3, <4>2 DEF Fates
      <4>4. QED
        BY <4>3 DEF Safe, Accounted
    <3>4. QED
      BY <3>2, <3>3
  <2>5. QED
    BY <2>1, <2>2, <2>3, <2>4, StaysSafe DEF Safe
<1>6. QED
  BY <1>4, <1>5

\* LREM takes off the list no other failure than that of the entry it is given.
LEMMA OthersStay ==
    ASSUME TypeOK, NEW a \in Admins, list' = RemoveFirst(list, entry[a]),
           NEW f \in Failures, f # entry[a].failure, Listed(f)
    PROVE  Listed(f)'
<1>0. list \in Seq(Entry) /\ Len(list) \in Nat /\ DOMAIN list = 1..Len(list)
  BY DEF TypeOK
<1>1. PICK i \in 1..Len(list) : list[i].failure = f
  BY <1>0 DEF Listed
<1>2. CASE list' = list
  BY <1>2 DEF Listed
<1>3. CASE \E p \in 1..Len(list) :
              /\ list[p] = entry[a] /\ Len(list') = Len(list) - 1
              /\ \A k \in 1..(Len(list) - 1) : list'[k] = IF k < p THEN list[k] ELSE list[k + 1]
  <2>1. PICK p \in 1..Len(list) :
              /\ list[p] = entry[a] /\ Len(list') = Len(list) - 1
              /\ \A k \in 1..(Len(list) - 1) : list'[k] = IF k < p THEN list[k] ELSE list[k + 1]
    BY <1>3
  <2>2. p # i /\ list' \in Seq(Entry) /\ DOMAIN list' = 1..(Len(list) - 1)
    BY <1>0, <1>1, <2>1, LremIs, LenProperties
  <2> DEFINE k == IF i < p THEN i ELSE i - 1
  <2>3. k \in 1..(Len(list) - 1) /\ (k < p => k = i) /\ (~(k < p) => k + 1 = i)
    BY <1>0, <2>2
  <2> HIDE DEF k
  <2>4. list'[k] = list[i]
    BY <2>1, <2>3
  <2>5. QED
    BY <1>1, <2>2, <2>3, <2>4 DEF Listed
<1>4. QED
  BY <1>2, <1>3, LremIs

\* A failure whose entry LREM leaves on the list, or takes off in safe hands.
LEMMA LremSafe ==
    ASSUME TypeInv, TypeInv', NEW a \in Admins, Lrem(a), NEW f \in Failures, Safe(f),
           purpose[a] # "cleanup" \/ f # entry[a].failure
    PROVE  Safe(f)'
<1>0. TypeOK /\ list \in Seq(Entry) /\ Len(list) \in Nat /\ DOMAIN list = 1..Len(list)
  BY DEF TypeInv, TypeOK
<1>1. /\ adminPc[a] = "lrem" /\ adminPc' = [adminPc EXCEPT ![a] = "del"]
      /\ UNCHANGED <<purpose, entry>>
      /\ adminPc \in [Admins -> {"idle", "find", "lrem", "del", "publish"}]
      /\ purpose[a] \in {"replay", "remove", "cleanup"}
  BY <1>0 DEF Lrem, TypeOK
<1>2. /\ fate'[f]["pushed"] = fate[f]["pushed"] /\ (Accounted(f) => Accounted(f)')
      /\ purpose[a] = "remove" /\ f = entry[a].failure => Accounted(f)'
  <2>1. CASE purpose[a] = "remove"
    <3>1. fate' = Noted({entry[a].failure}, "discarded")
      BY <2>1 DEF Lrem, Note
    <3>2. QED
      BY <3>1, NotesAdd
  <2>2. CASE purpose[a] # "remove"
    BY <2>2 DEF Lrem, Accounted
  <2>3. QED
    BY <2>1, <2>2
<1>3. InHand(f) => InHand(f)'
  BY <1>1 DEF InHand
<1>4. ASSUME Listed(f) PROVE Safe(f)'
  <2>1. CASE f = entry[a].failure /\ purpose[a] = "replay"
    <3>1. InHand(f)'
      BY <1>1, <2>1 DEF InHand
    <3>2. QED
      BY <3>1 DEF Safe
  <2>2. CASE f = entry[a].failure /\ purpose[a] = "remove"
    BY <1>2, <2>2 DEF Safe
  <2>3. CASE f # entry[a].failure
    BY <1>0, <1>4, <2>3, OthersStay DEF Lrem, Safe
  <2>4. QED
    BY <1>1, <2>1, <2>2, <2>3
<1>5. QED
  BY <1>2, <1>3, <1>4, StaysSafe DEF Safe

LEMMA LossStep ==
    ASSUME TypeInv, TypeInv', LossCounted, [Next]_vars
    PROVE  LossCounted'
<1>0. /\ adminPc \in [Admins -> {"idle", "find", "lrem", "del", "publish"}]
      /\ purpose \in [Admins -> {"replay", "remove", "cleanup"}]
      /\ entry \in [Admins -> Entry] /\ publishFailures \in Nat /\ redisFailures \in Nat
      /\ TypeOK /\ DOMAIN list = 1..Len(list)
  BY DlqAssumption DEF TypeInv, TypeOK
<1>1. ASSUME NEW r \in Routers, NEW f \in Failures, RouteRead(r, f) PROVE LossCounted'
  <2>1. UNCHANGED <<list, adminVars, fate, throws>>
    BY <1>1 DEF RouteRead
  <2>2. QED
    BY <2>1, LossKept DEF adminVars, Safe, Listed, InHand, Accounted, Cleaning
<1>2. ASSUME NEW r \in Routers, RoutePush(r) PROVE LossCounted'
  <2>1. UNCHANGED <<adminVars, throws>>
    BY <1>2 DEF RoutePush
  <2>2. \A f \in Failures : Safe(f) => Safe(f)'
    BY <1>2, PushSafe
  <2>3. QED
    BY <2>1, <2>2, LossKept DEF adminVars, Cleaning
<1>3. ASSUME NEW a \in Admins, UNCHANGED <<list, fate, throws>>,
             adminPc[a] \notin {"del", "publish"} \/ purpose[a] # "replay",
             purpose'[a] # "cleanup" \/ (purpose[a] = "cleanup" /\ adminPc[a] \in {"find", "lrem"}),
             \A b \in Admins \ {a} : /\ adminPc'[b] = adminPc[b] /\ purpose'[b] = purpose[b]
                                     /\ entry'[b] = entry[b]
      PROVE  LossCounted'
  <2>1. \A f \in Failures : Safe(f) => Safe(f)'
    <3>1. \A f \in Failures : (Listed(f) => Listed(f)') /\ (Accounted(f) => Accounted(f)')
      BY <1>3 DEF Listed, Accounted
    <3>2. \A f \in Failures : InHand(f) => InHand(f)'
      BY <1>3 DEF InHand
    <3>3. QED
      BY <1>3, <3>1, <3>2 DEF Safe
  <2>2. Cleaning' \subseteq Cleaning
    BY <1>3 DEF Cleaning
  <2>3. QED
    BY <1>3, <2>1, <2>2, LossKept
<1>4. ASSUME NEW a \in Admins, NEW e \in Events, NEW p \in {"replay", "remove"}, Call(a, p, e)
      PROVE  LossCounted'
  BY <1>0, <1>3, <1>4 DEF Call
<1>5. ASSUME NEW a \in Admins, ReplayAll(a) PROVE LossCounted'
  <2>1. /\ adminPc[a] = "idle" /\ purpose' = [purpose EXCEPT ![a] = "replay"]
        /\ adminPc' = [adminPc EXCEPT ![a] = "find"]
        /\ UNCHANGED <<list, entry, fate, throws>>
    BY <1>5 DEF ReplayAll
  <2>2. QED
    BY <1>0, <1>3, <2>1
<1>6. ASSUME NEW a \in Admins, Clear(a) PROVE LossCounted'
  <2>1. fate' = Noted(From(1), "discarded") /\ UNCHANGED <<adminVars, throws>>
    BY <1>6 DEF Clear
  <2>2. ASSUME NEW f \in Failures, Safe(f) PROVE Safe(f)'
    <3>1. /\ fate'[f]["pushed"] = fate[f]["pushed"] /\ (Accounted(f) => Accounted(f)')
          /\ f \in From(1) => Accounted(f)'
      BY <2>1, NotesAdd
    <3>2. Listed(f) => f \in From(1)
      BY <1>0 DEF Listed, From
    <3>3. InHand(f) => InHand(f)'
      BY <2>1 DEF InHand, adminVars
    <3>4. QED
      BY <2>2, <3>1, <3>2, <3>3, StaysSafe DEF Safe
  <2>3. QED
    BY <2>1, <2>2, LossKept DEF adminVars, Cleaning
<1>7. ASSUME NEW a \in Admins, Find(a) PROVE LossCounted'
  <2>1. adminPc[a] = "find" /\ UNCHANGED <<list, fate, throws>>
    BY <1>7, FindIs
  <2>2. CASE NextCall(a)
    BY <1>0, <1>3, <2>1, <2>2 DEF NextCall
  <2>3. CASE ~NextCall(a)
    <3>1. PICK i \in 1..Len(list) : entry' = [entry EXCEPT ![a] = list[i]]
      BY <1>7, <2>3, FindIs
    <3>2. adminPc' = [adminPc EXCEPT ![a] = "lrem"] /\ UNCHANGED purpose
      BY <1>7, <2>3, FindIs
    <3>3. QED
      BY <1>0, <1>3, <2>1, <3>1, <3>2
  <2>4. QED
    BY <2>2, <2>3
<1>8. ASSUME NEW a \in Admins, Lrem(a) PROVE LossCounted'
  <2>1. /\ adminPc[a] = "lrem" /\ adminPc' = [adminPc EXCEPT ![a] = "del"]
        /\ UNCHANGED <<purpose, throws>>
    BY <1>8 DEF Lrem, throws
  <2>2. CASE purpose[a] # "cleanup"
    <3>1. \A f \in Failures : Safe(f) => Safe(f)'
      BY <1>8, <2>2, LremSafe
    <3>2. Cleaning' \subseteq Cleaning
      BY <1>0, <2>1 DEF Cleaning
    <3>3. QED
      BY <2>1, <3>1, <3>2, LossKept
  <2>3. CASE purpose[a] = "cleanup"
    <3>1. entry[a].failure \in Failures
      BY <1>0 DEF Entry
    <3>2. \A f \in Failures \ {entry[a].failure} : Safe(f) => Safe(f)'
      BY <1>8, LremSafe
    <3>3. Cardinality(Lost') <= Cardinality(Lost) + 1 /\ Cardinality(Lost') \in Nat
      BY <3>1, <3>2, LossOne
    <3>4. Cleaning' = Cleaning \ {a} /\ a \in Cleaning
      BY <1>0, <2>1, <2>3 DEF Cleaning
    <3>5. Cardinality(Cleaning') = Cardinality(Cleaning) - 1
      BY <3>4, LostFinite, FS_RemoveElement
    <3>6. QED
      BY <1>0, <2>1, <3>3, <3>5, LostFinite DEF LossCounted, throws
  <2>4. QED
    BY <2>2, <2>3
<1>9. ASSUME NEW a \in Admins, DelPoison(a) PROVE LossCounted'
  <2>1. adminPc[a] = "del" /\ UNCHANGED <<list, fate, throws>>
    BY <1>9 DEF DelPoison
  <2>2. CASE purpose[a] # "replay"
    <3>1. NextCall(a)
      BY <1>9, <2>2 DEF DelPoison
    <3>2. QED
      BY <1>0, <1>3, <2>1, <2>2, <3>1 DEF NextCall
  <2>3. CASE purpose[a] = "replay"
    <3>1. adminPc' = [adminPc EXCEPT ![a] = "publish"] /\ UNCHANGED <<purpose, entry>>
      BY <1>9, <2>3 DEF DelPoison
    <3>2. \A f \in Failures : Safe(f) => Safe(f)'
      <4>1. \A f \in Failures : (Listed(f) => Listed(f)') /\ (Accounted(f) => Accounted(f)')
        BY <2>1 DEF Listed, Accounted
      <4>2. \A f \in Failures : InHand(f) => InHand(f)'
        BY <1>0, <2>1, <3>1 DEF InHand
      <4>3. QED
        BY <2>1, <4>1, <4>2 DEF Safe
    <3>3. Cleaning' \subseteq Cleaning
      BY <1>0, <2>1, <3>1 DEF Cleaning
    <3>4. QED
      BY <2>1, <3>2, <3>3, LossKept
  <2>4. QED
    BY <2>2, <2>3
<1>10. ASSUME NEW a \in Admins, Publish(a) PROVE LossCounted'
  <2>1. /\ adminPc[a] = "publish" /\ fate' = Noted({entry[a].failure}, "republished")
        /\ UNCHANGED <<list, throws>> /\ NextCall(a)
    BY <1>10 DEF Publish, Note
  <2>2. ASSUME NEW f \in Failures, Safe(f) PROVE Safe(f)'
    <3>1. /\ fate'[f]["pushed"] = fate[f]["pushed"] /\ (Accounted(f) => Accounted(f)')
          /\ f = entry[a].failure => Accounted(f)'
      BY <2>1, NotesAdd
    <3>2. Listed(f) => Listed(f)'
      BY <2>1 DEF Listed
    <3>3. InHand(f) => InHand(f)' \/ f = entry[a].failure
      <4>1. \A b \in Admins \ {a} : entry'[b] = entry[b] /\ purpose'[b] = purpose[b] /\ adminPc'[b] = adminPc[b]
        BY <1>0, <2>1 DEF NextCall
      <4>2. QED
        BY <4>1 DEF InHand
    <3>4. QED
      BY <2>2, <3>1, <3>2, <3>3, StaysSafe DEF Safe
  <2>3. Cleaning' \subseteq Cleaning
    BY <1>0, <2>1 DEF NextCall, Cleaning
  <2>4. QED
    BY <2>1, <2>2, <2>3, LossKept
<1>11. ASSUME NEW a \in Admins, PublishFails(a) PROVE LossCounted'
  <2>1. /\ adminPc[a] = "publish" /\ publishFailures' = publishFailures + 1
        /\ redisFailures' = redisFailures
        /\ purpose' = [purpose EXCEPT ![a] = "cleanup"] /\ adminPc' = [adminPc EXCEPT ![a] = "find"]
        /\ UNCHANGED <<list, entry, fate>>
    BY <1>11 DEF PublishFails
  <2>2. entry[a].failure \in Failures
    BY <1>0 DEF Entry
  <2>3. ASSUME NEW f \in Failures \ {entry[a].failure}, Safe(f) PROVE Safe(f)'
    <3>1. (Listed(f) => Listed(f)') /\ (Accounted(f) => Accounted(f)')
      BY <2>1 DEF Listed, Accounted
    <3>2. InHand(f) => InHand(f)'
      BY <1>0, <2>1 DEF InHand
    <3>3. QED
      BY <2>1, <2>3, <3>1, <3>2 DEF Safe
  <2>4. Cardinality(Lost') <= Cardinality(Lost) + 1 /\ Cardinality(Lost') \in Nat
    BY <2>2, <2>3, LossOne
  <2>5. Cleaning' = Cleaning \cup {a} /\ a \notin Cleaning
    BY <1>0, <2>1 DEF Cleaning
  <2>6. Cardinality(Cleaning') = Cardinality(Cleaning) + 1
    BY <2>5, LostFinite, FS_AddElement
  <2>7. QED
    BY <1>0, <2>1, <2>4, <2>6, LostFinite DEF LossCounted
<1>12. ASSUME NEW e \in Events, PoisonExpires(e) PROVE LossCounted'
  <2>1. UNCHANGED <<list, adminVars, fate, throws>>
    BY <1>12 DEF PoisonExpires
  <2>2. QED
    BY <2>1, LossKept DEF adminVars, Safe, Listed, InHand, Accounted, Cleaning
<1>13. CASE UNCHANGED vars
  <2>1. UNCHANGED <<list, adminVars, fate, throws>>
    BY <1>13 DEF vars
  <2>2. QED
    BY <2>1, LossKept DEF adminVars, Safe, Listed, InHand, Accounted, Cleaning
<1>14. ASSUME NEW a \in Admins, CommandFails(a) PROVE LossCounted'
  <2>1. /\ redisFailures' = redisFailures + 1 /\ publishFailures' = publishFailures
        /\ adminPc' = [adminPc EXCEPT ![a] = "idle"] /\ purpose' = [purpose EXCEPT ![a] = "replay"]
        /\ entry' = [entry EXCEPT ![a] = NoEntry]
    BY <1>14 DEF CommandFails
  <2>2. entry[a].failure \in Failures
    BY <1>0 DEF Entry
  <2>3. ASSUME NEW f \in Failures \ {entry[a].failure}, Safe(f) PROVE Safe(f)'
    <3>1. Listed(f) => Listed(f)'
      <4>1. list' = list \/ list' = RemoveFirst(list, entry[a])
        BY <1>14 DEF CommandFails
      <4>2. CASE list' = list
        BY <4>2 DEF Listed
      <4>3. CASE list' = RemoveFirst(list, entry[a])
        BY <1>0, <2>3, <4>3, OthersStay
      <4>4. QED
        BY <4>1, <4>2, <4>3
    <3>2. fate'[f]["pushed"] = fate[f]["pushed"] /\ (Accounted(f) => Accounted(f)')
      <4>1. CASE fate' = fate
        BY <4>1 DEF Accounted
      <4>2. CASE fate' = Noted({entry[a].failure}, "discarded")
        BY <4>2, NotesAdd
      <4>3. QED
        BY <1>14, <4>1, <4>2 DEF CommandFails, Note
    <3>3. InHand(f) => InHand(f)'
      <4>1. \A b \in Admins \ {a} : entry'[b] = entry[b] /\ purpose'[b] = purpose[b] /\ adminPc'[b] = adminPc[b]
        BY <1>0, <2>1
      <4>2. QED
        BY <2>3, <4>1 DEF InHand
    <3>4. QED
      BY <2>3, <3>1, <3>2, <3>3 DEF Safe
  <2>4. Cardinality(Lost') <= Cardinality(Lost) + 1 /\ Cardinality(Lost') \in Nat
    BY <2>2, <2>3, LossOne
  <2>5. Cleaning' \subseteq Cleaning
    BY <1>0, <2>1 DEF Cleaning
  <2>6. Cardinality(Cleaning') <= Cardinality(Cleaning) /\ (Cardinality(Cleaning) \in Nat)'
    <3>1. Cardinality(Cleaning') <= Cardinality(Cleaning)
      BY <2>5, LostFinite, FS_Subset
    <3>2. (Cardinality(Cleaning) \in Nat)'
      BY LostFinite, PTL
    <3>3. QED
      BY <3>1, <3>2
  <2>7. QED
    BY <1>0, <2>1, <2>4, <2>6, LostFinite DEF LossCounted
<1>15. QED
  BY <1>1, <1>2, <1>4, <1>5, <1>6, <1>7, <1>8, <1>9, <1>10, <1>11, <1>12, <1>13, <1>14, Steps

\* Concurrent replays, removals and clears lose nothing that was pushed; each
\* publish that throws loses at most two entries and each other command at most
\* one (LossBounded), however many administrators work on the list.
THEOREM LossIsBounded == Spec => []LossBounded
<1>1. Init => LossCounted
  <2> SUFFICES ASSUME Init PROVE LossCounted
    OBVIOUS
  <2>1. Lost = {} /\ Cleaning = {} /\ publishFailures = 0 /\ redisFailures = 0
    BY DEF Init, Lost, Cleaning, Fates
  <2>2. QED
    BY <2>1, FS_EmptySet DEF LossCounted
<1>2. TypeInv /\ LossCounted => LossBounded
  <2> SUFFICES ASSUME TypeInv, LossCounted PROVE LossBounded
    OBVIOUS
  <2>1. publishFailures \in Nat /\ redisFailures \in Nat
    BY DlqAssumption DEF TypeInv, TypeOK
  <2>2. QED
    BY <2>1, LostFinite DEF LossCounted, LossBounded
<1>3. TypeInv /\ TypeInv' /\ LossCounted /\ [Next]_vars => LossCounted'
  BY LossStep
<1>4. QED
  BY <1>1, <1>2, <1>3, TypeInit, TypeStep, PTL DEF Spec

-----------------------------------------------------------------------------
(* How often a failure is published again *)

\* Who has found an entry of f and is not done with it.
Holders(f) == {a \in Admins : adminPc[a] \in {"lrem", "del", "publish"} /\ entry[a].failure = f}

\* A failure is listed once, after its push and before any replay of it ends.
ListedOnce ==
    /\ \A i, j \in 1..Len(list) : list[i].failure = list[j].failure => i = j
    /\ \A i \in 1..Len(list) : /\ fate[list[i].failure]["pushed"] > 0
                               /\ fate[list[i].failure]["republished"] = 0

\* LREM finds what was found before, unless it is gone, and it does not return.
HeldBy(a) ==
    /\ adminPc[a] \in {"lrem", "del", "publish"} => fate[entry[a].failure]["pushed"] > 0
    /\ adminPc[a] = "lrem" => \A i \in 1..Len(list) : list[i].failure = entry[a].failure => list[i] = entry[a]
    /\ adminPc[a] \in {"del", "publish"} => \A i \in 1..Len(list) : list[i].failure # entry[a].failure

Held == \A a \in Admins : HeldBy(a)

\* Every publication of a failure has used up one of the administrators.
UsedUp == \A f \in Failures : fate[f]["republished"] + Cardinality(Holders(f)) <= Cardinality(Admins)

\* Nothing is published again that was not pushed.
PushedFirst == \A f \in Failures : fate[f]["republished"] # 0 => fate[f]["pushed"] > 0

Replays == ListedOnce /\ Held /\ UsedUp /\ PushedFirst

LEMMA HoldersFinite ==
    ASSUME NEW f
    PROVE  /\ IsFiniteSet(Holders(f)) /\ Cardinality(Holders(f)) \in Nat
           /\ Cardinality(Holders(f)) <= Cardinality(Admins)
           /\ Cardinality(Admins) \in Nat
<1>1. Holders(f) \in SUBSET Admins
  BY DEF Holders
<1>2. QED
  BY <1>1, FiniteAssumption, FS_Subset, FS_CardinalityType

\* Fewer hold f, and it is published no more often.
LEMMA UsedUpKept ==
    ASSUME TypeInv, TypeInv', UsedUp, NEW f \in Failures,
           NEW H, H \subseteq Holders(f),
           fate'[f]["republished"] = fate[f]["republished"]
    PROVE  fate'[f]["republished"] + Cardinality(H) <= Cardinality(Admins)
<1>1. Cardinality(H) <= Cardinality(Holders(f)) /\ Cardinality(H) \in Nat
  BY HoldersFinite, FS_Subset, FS_CardinalityType
<1>2. fate[f]["republished"] \in Nat
  BY TypeParts DEF FateOK, Fates
<1>3. QED
  BY <1>1, <1>2, HoldersFinite DEF UsedUp

LEMMA ListedEntry == TypeInv => \A k \in 1..Len(list) : list[k] \in Entry /\ list[k].failure \in Failures
<1> SUFFICES ASSUME TypeInv, NEW k \in 1..Len(list) PROVE list[k] \in Entry
  BY DEF Entry
<1>1. list \in Seq(Entry)
  BY DEF TypeInv, TypeOK
<1>2. QED
  BY <1>1, ElementOfSeq

\* What is left of the list was on it, and no entry has moved into another.
LEMMA ListShrinks ==
    ASSUME TypeInv, TypeInv', ListedOnce,
           \A i \in 1..Len(list') : \E k \in 1..Len(list) : list'[i] = list[k],
           \A i, j \in 1..Len(list') : list'[i].failure = list'[j].failure => i = j,
           \A f \in Failures : fate'[f]["pushed"] = fate[f]["pushed"],
           \A i \in 1..Len(list') : fate'[list'[i].failure]["republished"] = fate[list'[i].failure]["republished"]
    PROVE  ListedOnce'
<1>1. \A k \in 1..Len(list) : list[k].failure \in Failures
  BY ListedEntry
<1>2. QED
  BY <1>1 DEF ListedOnce

\* An administrator whose call goes on as before, over a list that only shrinks.
LEMMA HeldKept ==
    ASSUME TypeInv, Held, NEW a \in Admins,
           adminPc'[a] = adminPc[a], entry'[a] = entry[a],
           \A i \in 1..Len(list') : \E k \in 1..Len(list) : list'[i] = list[k],
           \A f \in Failures : fate'[f]["pushed"] = fate[f]["pushed"]
    PROVE  HeldBy(a)'
<1>1. entry[a].failure \in Failures
  BY DEF TypeInv, TypeOK, Entry
<1>2. QED
  BY <1>1 DEF Held, HeldBy

\* A failure that is pushed is new to the list and to every administrator.
LEMMA PushReplays ==
    ASSUME TypeInv, TypeInv', Routing, Replays, NEW r \in Routers, RoutePush(r)
    PROVE  Replays'
<1>0. TypeOK /\ list \in Seq(Entry) /\ Len(list) \in Nat
  BY DEF TypeInv, TypeOK
<1>p. /\ list' \in Seq(Entry) /\ failure[r] \in Failures
      /\ Len(list') \in 1..MaxEntries
      /\ Len(list') = Len(list) + 1 \/ (Len(list') = MaxEntries /\ MaxEntries <= Len(list))
      /\ list'[1] = [failure |-> failure[r], poisonCount |-> count[r] + 1]
      /\ \A k \in 2..Len(list') : list'[k] = list[k - 1]
      /\ \A g \in Failures, h \in Fates : fate'[g][h] =
            IF (h = "pushed" /\ g = failure[r]) \/ (h = "trimmed" /\ g \in From(MaxEntries))
            THEN fate[g][h] + 1 ELSE fate[g][h]
  BY <1>0, PushIs
<1> DEFINE x == failure[r]
<1>1. fate[x]["pushed"] = 0 /\ x \in Failures
  BY <1>p DEF Routing, RoutePush
<1>2. \A g \in Failures : /\ fate'[g]["republished"] = fate[g]["republished"]
                          /\ fate[g]["pushed"] \in Nat /\ fate[g]["republished"] \in Nat
                          /\ fate'[g]["pushed"] = IF g = x THEN fate[g]["pushed"] + 1 ELSE fate[g]["pushed"]
  <2>1. \A g \in Failures, h \in Fates : fate'[g][h] =
            IF (h = "pushed" /\ g = failure[r]) \/ (h = "trimmed" /\ g \in From(MaxEntries))
            THEN fate[g][h] + 1 ELSE fate[g][h]
    BY <1>p
  <2>2. \A g \in Failures, h \in Fates : fate[g][h] \in Nat
    BY TypeParts DEF FateOK
  <2>3. "pushed" \in Fates /\ "republished" \in Fates
    BY DEF Fates
  <2>4. QED
    BY <2>1, <2>2, <2>3
<1>3. \A k \in 1..Len(list) : list[k].failure \in Failures /\ list[k].failure # x
  <2>1. \A k \in 1..Len(list) : list[k].failure \in Failures /\ fate[list[k].failure]["pushed"] > 0
    BY ListedEntry DEF Replays, ListedOnce
  <2>2. QED
    BY <1>1, <2>1
<1>4. /\ list'[1].failure = x
      /\ \A k \in 2..Len(list') : k - 1 \in 1..Len(list) /\ list'[k] = list[k - 1]
  <2>1. list'[1].failure = x
    BY <1>p
  <2>2. ASSUME NEW k \in 2..Len(list') PROVE k - 1 \in 1..Len(list)
    <3> DEFINE n == Len(list)
               m == Len(list')
    <3>1. m = n + 1 \/ (m = MaxEntries /\ MaxEntries <= n)
      BY <1>p
    <3>2. m \in Nat /\ n \in Nat /\ MaxEntries \in Nat
      BY <1>0, <1>p, DlqAssumption, LenProperties
    <3>3. k \in 2..m
      OBVIOUS
    <3> HIDE DEF n, m
    <3>4. k - 1 \in 1..n
      BY ONLY <3>1, <3>2, <3>3
    <3>5. QED
      BY <3>4 DEF n
  <2>3. \A k \in 2..Len(list') : list'[k] = list[k - 1]
    BY <1>p
  <2>4. QED
    BY <2>1, <2>2, <2>3
<1>5. Len(list') \in Nat /\ \A k \in 1..Len(list') : k = 1 \/ k \in 2..Len(list')
  <2>1. Len(list') \in Nat
    BY <1>p, LenProperties
  <2>2. QED
    BY <2>1
<1> HIDE DEF x
<1>6. ListedOnce'
  <2>1. ASSUME NEW k \in 1..Len(list')
        PROVE  fate'[list'[k].failure]["pushed"] > 0 /\ fate'[list'[k].failure]["republished"] = 0
    <3>1. CASE k = 1
      <4>1. fate[x]["republished"] = 0
        BY <1>1, <1>2 DEF Replays, PushedFirst
      <4>2. QED
        BY <1>1, <1>2, <1>4, <3>1, <4>1
    <3>2. CASE k \in 2..Len(list')
      <4>1. k - 1 \in 1..Len(list) /\ list'[k] = list[k - 1]
        BY <1>4, <3>2
      <4>2. fate[list[k - 1].failure]["pushed"] > 0 /\ fate[list[k - 1].failure]["republished"] = 0
        BY <4>1 DEF Replays, ListedOnce
      <4>3. list[k - 1].failure \in Failures /\ list[k - 1].failure # x
        BY <1>3, <4>1
      <4>4. QED
        BY <1>2, <4>1, <4>2, <4>3
    <3>3. QED
      BY <1>5, <3>1, <3>2
  <2>2. ASSUME NEW i \in 1..Len(list'), NEW j \in 1..Len(list'), list'[i].failure = list'[j].failure
        PROVE  i = j
    <3>1. CASE i = 1 /\ j = 1
      BY <3>1
    <3>2. CASE i \in 2..Len(list') /\ j \in 2..Len(list')
      <4>1. list[i - 1].failure = list[j - 1].failure /\ i - 1 \in 1..Len(list) /\ j - 1 \in 1..Len(list)
        BY <1>4, <2>2, <3>2
      <4>2. i - 1 = j - 1
        BY <4>1 DEF Replays, ListedOnce
      <4>3. QED
        BY <1>5, <4>2
    <3>3. CASE (i = 1 /\ j \in 2..Len(list')) \/ (j = 1 /\ i \in 2..Len(list'))
      BY <1>3, <1>4, <2>2, <3>3
    <3>4. QED
      BY <1>5, <3>1, <3>2, <3>3
  <2>3. QED
    BY <2>1, <2>2 DEF ListedOnce
<1>7. UNCHANGED <<adminPc, entry>>
  BY DEF RoutePush, adminVars
<1>8. Held'
  <2>1. ASSUME NEW a \in Admins, adminPc[a] \in {"lrem", "del", "publish"}
        PROVE  entry[a].failure \in Failures /\ entry[a].failure # x
               /\ fate'[entry[a].failure]["pushed"] > 0
    BY <1>0, <1>1, <1>2, <2>1 DEF TypeOK, Entry, Replays, Held, HeldBy
  <2>2. ASSUME NEW a \in Admins, NEW k \in 1..Len(list'), list'[k].failure = entry[a].failure
        PROVE  /\ adminPc[a] = "lrem" => list'[k] = entry[a]
               /\ adminPc[a] \notin {"del", "publish"}
    <3>1. CASE k = 1
      BY <1>4, <2>1, <2>2, <3>1
    <3>2. CASE k \in 2..Len(list')
      BY <1>4, <2>2, <3>2 DEF Replays, Held, HeldBy
    <3>3. QED
      BY <1>5, <3>1, <3>2
  <2>3. QED
    BY <1>7, <2>1, <2>2 DEF Held, HeldBy
<1>9. UsedUp'
  <2>1. \A f \in Failures : Holders(f)' = Holders(f)
    BY <1>7 DEF Holders
  <2>2. QED
    BY <1>2, <2>1 DEF Replays, UsedUp
<1>10. PushedFirst'
  BY <1>1, <1>2 DEF Replays, PushedFirst
<1>11. QED
  BY <1>6, <1>8, <1>9, <1>10 DEF Replays

LEMMA Untouched ==
    ASSUME Replays, UNCHANGED <<list, adminPc, entry, fate>>
    PROVE  Replays'
<1>1. \A f \in Failures : Holders(f)' = Holders(f)
  BY DEF Holders
<1>2. QED
  BY <1>1 DEF Replays, ListedOnce, Held, HeldBy, UsedUp, PushedFirst

\* One administrator moves; the list shrinks if it changes at all.
LEMMA OneMoves ==
    ASSUME TypeInv, TypeInv', Replays, NEW a \in Admins,
           \A b \in Admins \ {a} : adminPc'[b] = adminPc[b] /\ entry'[b] = entry[b],
           \A i \in 1..Len(list') : \E k \in 1..Len(list) : list'[i] = list[k],
           \A i, j \in 1..Len(list') : list'[i].failure = list'[j].failure => i = j,
           \A f \in Failures : fate'[f]["pushed"] = fate[f]["pushed"],
           \A f \in Failures : \/ fate'[f]["republished"] = fate[f]["republished"]
                               \/ /\ fate[f]["pushed"] > 0
                                  /\ \A i \in 1..Len(list') : list'[i].failure # f,
           HeldBy(a)', UsedUp'
    PROVE  Replays'
<1>1. ListedOnce'
  <2>1. \A i \in 1..Len(list') : fate'[list'[i].failure]["republished"] = fate[list'[i].failure]["republished"]
    <3>1. \A i \in 1..Len(list') : list'[i].failure \in Failures
      BY ListedEntry
    <3>2. QED
      BY <3>1
  <2>2. QED
    BY <2>1, ListShrinks DEF Replays
<1>2. Held'
  <2>1. ASSUME NEW b \in Admins \ {a} PROVE HeldBy(b)'
    BY HeldKept DEF Replays
  <2>2. QED
    BY <2>1 DEF Held
<1>3. PushedFirst'
  BY DEF Replays, PushedFirst
<1>4. QED
  BY <1>1, <1>2, <1>3 DEF Replays

LEMMA Unshrunk ==
    ASSUME Replays, list' = list
    PROVE  /\ \A i \in 1..Len(list') : \E k \in 1..Len(list) : list'[i] = list[k]
           /\ \A i, j \in 1..Len(list') : list'[i].failure = list'[j].failure => i = j
BY DEF Replays, ListedOnce

\* One administrator is done with its entry, or has none yet.
LEMMA LetsGo ==
    ASSUME TypeInv, TypeInv', Replays, NEW a \in Admins, UNCHANGED <<list, fate>>,
           \A b \in Admins \ {a} : adminPc'[b] = adminPc[b] /\ entry'[b] = entry[b],
           adminPc'[a] \in {"idle", "find"}
    PROVE  Replays'
<1>1. UsedUp'
  <2> SUFFICES ASSUME NEW f \in Failures
               PROVE  fate'[f]["republished"] + Cardinality(Holders(f)') <= Cardinality(Admins)
    BY DEF UsedUp
  <2>1. Holders(f)' \subseteq Holders(f)
    BY DEF Holders
  <2>2. QED
    BY <2>1, UsedUpKept DEF Replays
<1>2. HeldBy(a)'
  BY DEF HeldBy
<1>3. QED
  BY <1>1, <1>2, Unshrunk, OneMoves

\* The failure in hand is not listed once LREM is done, whether its call goes on
\* or ends with an error.
LEMMA LremReplays ==
    ASSUME TypeInv, TypeInv', Replays, NEW a \in Admins,
           adminPc[a] = "lrem", list' = RemoveFirst(list, entry[a]),
           fate' \in {fate, Noted({entry[a].failure}, "discarded")},
           \/ adminPc' = [adminPc EXCEPT ![a] = "del"] /\ UNCHANGED entry
           \/ adminPc' = [adminPc EXCEPT ![a] = "idle"] /\ entry' = [entry EXCEPT ![a] = NoEntry]
    PROVE  Replays'
<1>0. TypeOK /\ list \in Seq(Entry) /\ Len(list) \in Nat /\ DOMAIN list = 1..Len(list)
  BY DEF TypeInv, TypeOK
<1>1. /\ adminPc[a] = "lrem"
      /\ adminPc'[a] = "idle" \/ (adminPc'[a] = "del" /\ entry'[a] = entry[a])
      /\ \A b \in Admins \ {a} : adminPc'[b] = adminPc[b] /\ entry'[b] = entry[b]
      /\ entry[a].failure \in Failures
  BY <1>0 DEF TypeOK, Entry
<1>2. \A f \in Failures : /\ fate'[f]["pushed"] = fate[f]["pushed"]
                          /\ fate'[f]["republished"] = fate[f]["republished"]
  <2>1. CASE fate' = fate
    BY <2>1
  <2>2. CASE fate' = Noted({entry[a].failure}, "discarded")
    BY <1>0, <2>2, NotedIs DEF TypeOK, Fates
  <2>3. QED
    BY <2>1, <2>2
<1>3. \A i \in 1..Len(list) : list[i].failure = entry[a].failure => list[i] = entry[a]
  BY <1>1 DEF Replays, Held, HeldBy
<1>4. /\ \A i \in 1..Len(list') : \E k \in 1..Len(list) : list'[i] = list[k]
      /\ \A i, j \in 1..Len(list') : list'[i].failure = list'[j].failure => i = j
      /\ \A i \in 1..Len(list') : list'[i].failure # entry[a].failure
  <2>1. CASE list' = list /\ \A i \in DOMAIN list : list[i] # entry[a]
    BY <1>0, <1>3, <2>1, Unshrunk
  <2>2. CASE \E p \in 1..Len(list) :
                /\ list[p] = entry[a] /\ Len(list') = Len(list) - 1
                /\ \A k \in 1..(Len(list) - 1) : list'[k] = IF k < p THEN list[k] ELSE list[k + 1]
    <3>1. PICK p \in 1..Len(list) :
                /\ list[p] = entry[a] /\ Len(list') = Len(list) - 1
                /\ \A k \in 1..(Len(list) - 1) : list'[k] = IF k < p THEN list[k] ELSE list[k + 1]
      BY <2>2
    <3> DEFINE at(k) == IF k < p THEN k ELSE k + 1
    <3>2. \A k \in 1..Len(list') : at(k) \in 1..Len(list) /\ at(k) # p /\ list'[k] = list[at(k)]
      BY <1>0, <3>1
    <3>3. \A i, j \in 1..Len(list') : at(i) = at(j) => i = j
      BY <1>0, <3>1
    <3> HIDE DEF at
    <3>4. \A i, j \in 1..Len(list) : list[i].failure = list[j].failure => i = j
      BY DEF Replays, ListedOnce
    <3>5. \A i \in 1..Len(list') : list'[i].failure # entry[a].failure
      BY <3>1, <3>2, <3>4
    <3>6. \A i, j \in 1..Len(list') : list'[i].failure = list'[j].failure => i = j
      BY <3>2, <3>3, <3>4
    <3>7. QED
      BY <3>2, <3>5, <3>6
  <2>3. QED
    BY <1>0, <2>1, <2>2, LremIs
<1>5. HeldBy(a)'
  <2>1. CASE adminPc'[a] = "idle"
    BY <2>1 DEF HeldBy
  <2>2. CASE adminPc'[a] = "del" /\ entry'[a] = entry[a]
    BY <1>1, <1>2, <1>4, <2>2 DEF Replays, Held, HeldBy
  <2>3. QED
    BY <1>1, <2>1, <2>2
<1>6. UsedUp'
  <2> SUFFICES ASSUME NEW f \in Failures
               PROVE  fate'[f]["republished"] + Cardinality(Holders(f)') <= Cardinality(Admins)
    BY DEF UsedUp
  <2>1. Holders(f)' \subseteq Holders(f)
    BY <1>1 DEF Holders
  <2>2. QED
    BY <1>2, <2>1, UsedUpKept DEF Replays
<1>7. \A b \in Admins \ {a} : adminPc'[b] = adminPc[b] /\ entry'[b] = entry[b]
  BY <1>1
<1>8. QED
  BY <1>2, <1>4, <1>5, <1>6, <1>7, OneMoves

\* A publication uses up the administrator that publishes.
LEMMA PublishReplays ==
    ASSUME TypeInv, TypeInv', Replays, NEW a \in Admins, Publish(a)
    PROVE  Replays'
<1>0. TypeOK /\ entry[a].failure \in Failures
  BY DEF TypeInv, TypeOK, Entry
<1>x. PICK x \in Failures : x = entry[a].failure
  BY <1>0
<1>1. /\ adminPc[a] = "publish" /\ UNCHANGED list /\ fate' = Noted({x}, "republished")
      /\ adminPc'[a] \in {"idle", "find"}
      /\ \A b \in Admins \ {a} : adminPc'[b] = adminPc[b] /\ entry'[b] = entry[b]
  BY <1>0, <1>x DEF Publish, Note, NextCall, TypeOK
<1>2. \A f \in Failures :
         /\ fate'[f]["pushed"] = fate[f]["pushed"]
         /\ fate'[f]["republished"] = IF f = x THEN fate[f]["republished"] + 1 ELSE fate[f]["republished"]
  <2>1. /\ "pushed" \in Fates /\ "republished" \in Fates
        /\ fate \in [Failures -> [Fates -> Nat]]
    BY <1>0 DEF TypeOK, Fates
  <2>2. \A f \in Failures, g \in Fates :
           Noted({x}, "republished")[f][g] = IF g = "republished" /\ f \in {x} THEN fate[f][g] + 1 ELSE fate[f][g]
    BY <2>1, NotedIs
  <2>3. QED
    BY <1>1, <2>1, <2>2
<1>3. fate[x]["pushed"] > 0 /\ \A i \in 1..Len(list) : list[i].failure # x
  BY <1>1, <1>x DEF Replays, Held, HeldBy
<1>4. HeldBy(a)'
  BY <1>1 DEF HeldBy
<1>5. UsedUp'
  <2> SUFFICES ASSUME NEW f \in Failures
               PROVE  fate'[f]["republished"] + Cardinality(Holders(f)') <= Cardinality(Admins)
    BY DEF UsedUp
  <2>1. CASE f # x
    <3>1. Holders(f)' \subseteq Holders(f)
      BY <1>1 DEF Holders
    <3>2. QED
      BY <1>2, <2>1, <3>1, UsedUpKept DEF Replays
  <2>2. CASE f = x
    <3>1. Holders(x)' = Holders(x) \ {a} /\ a \in Holders(x)
      BY <1>1, <1>x DEF Holders
    <3>2. Cardinality(Holders(x)') = Cardinality(Holders(x)) - 1
      BY <3>1, HoldersFinite, FS_RemoveElement
    <3>3. fate[x]["republished"] + Cardinality(Holders(x)) <= Cardinality(Admins)
      BY <1>0 DEF Replays, UsedUp
    <3>4. fate[x]["republished"] \in Nat
      BY <1>0 DEF TypeOK, Fates
    <3>5. Cardinality(Holders(x)) \in Nat /\ Cardinality(Admins) \in Nat
      BY HoldersFinite
    <3>6. fate'[x]["republished"] = fate[x]["republished"] + 1
      BY <1>0, <1>2
    <3>7. fate'[x]["republished"] + Cardinality(Holders(x)') <= Cardinality(Admins)
      BY <3>2, <3>3, <3>4, <3>5, <3>6
    <3>8. QED
      BY <2>2, <3>7
  <2>3. QED
    BY <2>1, <2>2
<1>6. \A f \in Failures : \/ fate'[f]["republished"] = fate[f]["republished"]
                          \/ /\ fate[f]["pushed"] > 0
                             /\ \A i \in 1..Len(list') : list'[i].failure # f
  BY <1>1, <1>2, <1>3
<1>7. QED
  BY <1>1, <1>2, <1>4, <1>5, <1>6, Unshrunk, OneMoves

LEMMA ReplaysStep ==
    ASSUME TypeInv, TypeInv', Routing, Replays, [Next]_vars
    PROVE  Replays'
<1>0. /\ adminPc \in [Admins -> {"idle", "find", "lrem", "del", "publish"}]
      /\ entry \in [Admins -> Entry] /\ TypeOK /\ DOMAIN list = 1..Len(list)
  BY DEF TypeInv, TypeOK
<1>1. ASSUME NEW r \in Routers, NEW f \in Failures, RouteRead(r, f) PROVE Replays'
  BY <1>1, Untouched DEF RouteRead, adminVars
<1>2. ASSUME NEW r \in Routers, RoutePush(r) PROVE Replays'
  BY <1>2, PushReplays
<1>3. ASSUME NEW a \in Admins, NEW e \in Events, NEW p \in {"replay", "remove"}, Call(a, p, e) PROVE Replays'
  <2>1. /\ UNCHANGED <<list, fate>> /\ adminPc'[a] \in {"idle", "find"}
        /\ \A b \in Admins \ {a} : adminPc'[b] = adminPc[b] /\ entry'[b] = entry[b]
    BY <1>0, <1>3 DEF Call
  <2>2. QED
    BY <2>1, LetsGo
<1>4. ASSUME NEW a \in Admins, ReplayAll(a) \/ PublishFails(a) PROVE Replays'
  <2>1. UNCHANGED <<list, fate, entry>> /\ adminPc' = [adminPc EXCEPT ![a] = "find"]
    BY <1>4 DEF ReplayAll, PublishFails
  <2>2. /\ UNCHANGED <<list, fate>> /\ adminPc'[a] \in {"idle", "find"}
        /\ \A b \in Admins \ {a} : adminPc'[b] = adminPc[b] /\ entry'[b] = entry[b]
    BY <1>0, <2>1
  <2>3. QED
    BY <2>2, LetsGo
<1>5. ASSUME NEW a \in Admins, NextCall(a), UNCHANGED <<list, fate>> PROVE Replays'
  <2>1. /\ adminPc'[a] \in {"idle", "find"}
        /\ \A b \in Admins \ {a} : adminPc'[b] = adminPc[b] /\ entry'[b] = entry[b]
    BY <1>0, <1>5 DEF NextCall
  <2>2. QED
    BY <1>5, <2>1, LetsGo
<1>6. ASSUME NEW a \in Admins, Clear(a) PROVE Replays'
  <2>1. list' = <<>> /\ fate' = Noted(From(1), "discarded") /\ UNCHANGED <<adminPc, entry>>
    BY <1>6 DEF Clear, adminVars
  <2>2. Len(list') = 0 /\ 1..Len(list') = {}
    BY <2>1
  <2>3. \A f \in Failures : /\ fate'[f]["pushed"] = fate[f]["pushed"]
                            /\ fate'[f]["republished"] = fate[f]["republished"]
    <3>1. "pushed" \in Fates /\ "republished" \in Fates /\ "discarded" \in Fates
          /\ fate \in [Failures -> [Fates -> Nat]]
      BY <1>0 DEF TypeOK, Fates
    <3>2. \A f \in Failures, g \in Fates :
             Noted(From(1), "discarded")[f][g] =
                IF g = "discarded" /\ f \in From(1) THEN fate[f][g] + 1 ELSE fate[f][g]
      BY <3>1, NotedIs
    <3>3. QED
      BY <2>1, <3>1, <3>2
  <2>4. HeldBy(a)'
    BY <1>0, <2>1, <2>2, <2>3 DEF Replays, Held, HeldBy, Entry
  <2>5. UsedUp'
    <3>1. \A f \in Failures : Holders(f)' = Holders(f)
      BY <2>1 DEF Holders
    <3>2. QED
      BY <2>3, <3>1 DEF Replays, UsedUp
  <2>6. \A b \in Admins \ {a} : adminPc'[b] = adminPc[b] /\ entry'[b] = entry[b]
    BY <2>1
  <2>7. QED
    BY <2>2, <2>3, <2>4, <2>5, <2>6, OneMoves
<1>7. ASSUME NEW a \in Admins, Find(a) PROVE Replays'
  <2>1. adminPc[a] = "find" /\ UNCHANGED <<list, fate>>
    BY <1>7, FindIs
  <2>2. CASE NextCall(a)
    BY <1>5, <2>1, <2>2
  <2>3. CASE ~NextCall(a)
    <3>1. PICK i \in 1..Len(list) : entry' = [entry EXCEPT ![a] = list[i]]
      BY <1>7, <2>3, FindIs
    <3>2. adminPc' = [adminPc EXCEPT ![a] = "lrem"]
      BY <1>7, <2>3, FindIs
    <3>3. adminPc'[a] = "lrem" /\ entry'[a] = list[i]
          /\ \A b \in Admins \ {a} : adminPc'[b] = adminPc[b] /\ entry'[b] = entry[b]
      BY <1>0, <3>1, <3>2
    <3>4. HeldBy(a)'
      BY <2>1, <3>3 DEF HeldBy, Replays, ListedOnce
    <3>5. UsedUp'
      <4> SUFFICES ASSUME NEW f \in Failures
                   PROVE  fate'[f]["republished"] + Cardinality(Holders(f)') <= Cardinality(Admins)
        BY DEF UsedUp
      <4>1. CASE f # list[i].failure
        <5>1. Holders(f)' \subseteq Holders(f)
          BY <3>3, <4>1 DEF Holders
        <5>2. QED
          BY <2>1, <5>1, UsedUpKept DEF Replays
      <4>2. CASE f = list[i].failure
        <5>1. fate'[f]["republished"] = 0
          BY <2>1, <4>2 DEF Replays, ListedOnce
        <5>2. Holders(f)' \in SUBSET Admins
          BY DEF Holders
        <5>3. Cardinality(Holders(f)') <= Cardinality(Admins) /\ Cardinality(Holders(f)') \in Nat
          BY <5>2, FiniteAssumption, FS_Subset, FS_CardinalityType
        <5>4. QED
          BY <5>1, <5>3
      <4>3. QED
        BY <4>1, <4>2
    <3>6. QED
      BY <2>1, <3>3, <3>4, <3>5, Unshrunk, OneMoves
  <2>4. QED
    BY <2>2, <2>3
<1>8. ASSUME NEW a \in Admins, Lrem(a) PROVE Replays'
  <2>1. /\ adminPc[a] = "lrem" /\ list' = RemoveFirst(list, entry[a])
        /\ fate' \in {fate, Noted({entry[a].failure}, "discarded")}
        /\ adminPc' = [adminPc EXCEPT ![a] = "del"] /\ UNCHANGED entry
    BY <1>8 DEF Lrem, Note
  <2>2. QED
    BY <2>1, LremReplays
<1>9. ASSUME NEW a \in Admins, DelPoison(a) PROVE Replays'
  <2>1. adminPc[a] = "del" /\ UNCHANGED <<list, fate>>
    BY <1>9 DEF DelPoison
  <2>2. CASE purpose[a] # "replay"
    BY <1>5, <1>9, <2>1, <2>2 DEF DelPoison
  <2>3. CASE purpose[a] = "replay"
    <3>1. UNCHANGED entry /\ adminPc' = [adminPc EXCEPT ![a] = "publish"]
      BY <1>9, <2>3 DEF DelPoison
    <3>2. HeldBy(a)'
      BY <1>0, <2>1, <3>1 DEF HeldBy, Replays, Held
    <3>3. \A f \in Failures : Holders(f)' = Holders(f)
      BY <1>0, <2>1, <3>1 DEF Holders
    <3>4. UsedUp'
      BY <2>1, <3>3 DEF Replays, UsedUp
    <3>5. \A b \in Admins \ {a} : adminPc'[b] = adminPc[b] /\ entry'[b] = entry[b]
      BY <1>0, <3>1
    <3>6. QED
      BY <2>1, <3>2, <3>4, <3>5, Unshrunk, OneMoves
  <2>4. QED
    BY <2>2, <2>3
<1>10. ASSUME NEW a \in Admins, Publish(a) PROVE Replays'
  BY <1>10, PublishReplays
<1>11. ASSUME NEW e \in Events, PoisonExpires(e) PROVE Replays'
  BY <1>11, Untouched DEF PoisonExpires, adminVars
<1>12. CASE UNCHANGED vars
  BY <1>12, Untouched DEF vars, adminVars
<1>13. ASSUME NEW a \in Admins, CommandFails(a) PROVE Replays'
  <2>1. adminPc' = [adminPc EXCEPT ![a] = "idle"] /\ entry' = [entry EXCEPT ![a] = NoEntry]
    BY <1>13 DEF CommandFails
  <2>2. CASE UNCHANGED <<list, fate>>
    <3>1. /\ adminPc'[a] \in {"idle", "find"}
          /\ \A b \in Admins \ {a} : adminPc'[b] = adminPc[b] /\ entry'[b] = entry[b]
      BY <1>0, <2>1
    <3>2. QED
      BY <2>2, <3>1, LetsGo
  <2>3. CASE /\ adminPc[a] = "lrem" /\ list' = RemoveFirst(list, entry[a])
             /\ fate' \in {fate, Noted({entry[a].failure}, "discarded")}
    BY <2>1, <2>3, LremReplays
  <2>4. QED
    BY <1>13, <2>2, <2>3 DEF CommandFails, Note
<1>14. QED
  BY <1>1, <1>2, <1>3, <1>4, <1>6, <1>7, <1>8, <1>9, <1>10, <1>11, <1>12, <1>13, Steps

LEMMA ReplaysInit == Init => Replays
<1> SUFFICES ASSUME Init PROVE Replays
  OBVIOUS
<1>1. Len(list) = 0 /\ 1..Len(list) = {}
  BY DEF Init
<1>2. \A a \in Admins : adminPc[a] = "idle"
  BY DEF Init
<1>3. \A f \in Failures : fate[f]["republished"] = 0
  BY DEF Init, Fates
<1>4. \A f \in Failures : Cardinality(Holders(f)) \in Nat /\ Cardinality(Holders(f)) <= Cardinality(Admins)
  BY HoldersFinite
<1>5. QED
  BY <1>1, <1>2, <1>3, <1>4 DEF Replays, ListedOnce, Held, HeldBy, UsedUp, PushedFirst

\* Each administrator publishes a failure again at most once, whatever the
\* others replay, remove, clear or push meanwhile: LREM takes the text that was
\* found, and a failure once taken off never returns to the list.
THEOREM RepublishedBounded == Spec => []RepublishedOnceEach
<1>1. TypeInv /\ Replays => RepublishedOnceEach
  <2> SUFFICES ASSUME TypeInv, Replays, NEW f \in Failures
               PROVE  fate[f]["republished"] <= Cardinality(Admins)
    BY DEF RepublishedOnceEach
  <2>1. fate[f]["republished"] \in Nat
    BY TypeParts DEF FateOK, Fates
  <2>2. QED
    BY <2>1, HoldersFinite DEF Replays, UsedUp
<1>2. TypeInv /\ TypeInv' /\ Routing /\ Replays /\ [Next]_vars => Replays'
  BY ReplaysStep
<1>3. TypeInv /\ Routing /\ Counted /\ [Next]_vars => (Routing /\ Counted)'
  BY RoutingStep
<1>4. QED
  BY <1>1, <1>2, <1>3, TypeInit, TypeStep, RoutingInit, ReplaysInit, PTL DEF Spec

=============================================================================
