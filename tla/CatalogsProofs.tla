--------------------------- MODULE CatalogsProofs ---------------------------
(***************************************************************************)
(* Theorems of Catalogs, for any sources, config files, priorities and     *)
(* cache duration, and any number of commands and faults.                  *)
(***************************************************************************)
EXTENDS Catalogs, ListLemmas

-----------------------------------------------------------------------------
(* Config files *)

LEMMA Domain ==
    ASSUME NEW S, NEW s \in Seq(S)
    PROVE  /\ DOMAIN s = 1..Len(s) /\ Len(s) \in Nat
           /\ IsFiniteSet(DOMAIN s) /\ Cardinality(DOMAIN s) = Len(s)
           /\ \A i \in DOMAIN s : s[i] \in S
<1>1. DOMAIN s = 1..Len(s) /\ Len(s) \in Nat /\ \A i \in DOMAIN s : s[i] \in S
  OBVIOUS
<1>2. IsFiniteSet(1..Len(s)) /\ Cardinality(1..Len(s)) = Len(s)
  BY <1>1, FS_Interval
<1>3. QED
  BY <1>1, <1>2

\* What is picked as the n-th element of I is one, and has n - 1 others before it.
LEMMA RankedIs ==
    ASSUME NEW I, IsFiniteSet(I), NEW R, StrictOrder(I, R)
    PROVE  /\ Ranked(I, R) \in [1..Cardinality(I) -> I]
           /\ \A n \in 1..Cardinality(I) : Cardinality(Ahead(I, R, Ranked(I, R)[n])) = n - 1
<1> DEFINE Pick(n) == CHOOSE i \in I : Cardinality(Ahead(I, R, i)) = n - 1
<1>1. ASSUME NEW n \in 1..Cardinality(I)
      PROVE  Pick(n) \in I /\ Cardinality(Ahead(I, R, Pick(n))) = n - 1
  <2>1. \E i \in I : Cardinality(Ahead(I, R, i)) = n - 1
    BY EveryRankTaken
  <2>2. QED
    BY <2>1
<1>2. Ranked(I, R) = [n \in 1..Cardinality(I) |-> Pick(n)]
  BY Zenon DEF Ranked, Ahead
<1> HIDE DEF Pick
<1>3. QED
  BY <1>1, <1>2

LEMMA OnlyIs ==
    ASSUME NEW S, NEW s \in Seq(S), NEW I \in SUBSET DOMAIN s
    PROVE  Only(s, I) \in Seq(S)
<1> DEFINE R == {p \in I \X I : p[1] < p[2]}
<1>1. /\ IsFiniteSet(I) /\ Cardinality(I) \in Nat /\ I \subseteq Nat
      /\ \A i \in I : s[i] \in S
  <2>1. IsFiniteSet(I)
    BY Domain, FS_Subset
  <2>2. QED
    BY <2>1, Domain, FS_CardinalityType
<1>2. StrictOrder(I, R)
  <2>1. \A i, j \in I : <<i, j>> \in R <=> i < j
    OBVIOUS
  <2> HIDE DEF R
  <2>2. QED
    BY <1>1, <2>1 DEF StrictOrder
<1>3. Ranked(I, R) \in [1..Cardinality(I) -> I]
  <2> HIDE DEF R
  <2>1. QED
    BY <1>1, <1>2, RankedIs
<1>4. Only(s, I) \in [1..Cardinality(I) -> S]
  BY <1>1, <1>3 DEF Only
<1>5. QED
  BY <1>1, <1>4

LEMMA EntriesOf ==
    ASSUME NEW file \in Seq(Entry) \cup {None}
    PROVE  Entries(file) \in Seq(Entry)
BY NoneAssumption DEF Entries, Used

LEMMA OverlayOf ==
    ASSUME NEW base \in Seq(Entry), NEW file \in Seq(Entry)
    PROVE  Overlay(base, file) \in Seq(Entry)
<1> DEFINE I == {i \in DOMAIN base : base[i].url \notin Sources(file)}
<1>1. I \in SUBSET DOMAIN base
  OBVIOUS
<1>2. Only(base, I) \in Seq(Entry)
  BY <1>1, OnlyIs
<1>3. QED
  BY <1>2 DEF Overlay

LEMMA BuiltinOf == Builtin \in Seq(Entry)
<1>1. /\ [url |-> Default, priority |-> 1, allowed |-> TRUE] \in Entry
      /\ [url |-> Community, priority |-> 2, allowed |-> FALSE] \in Entry
  BY UrlsAssumption DEF Entry
<1>2. QED
  BY <1>1 DEF Builtin

LEMMA ActiveOf ==
    ASSUME TypeOK, NEW env \in Urls \cup {None}
    PROVE  Active(env) \in Seq(Entry)
<1>1. config \in Seq(Entry) \cup {None} /\ user \in Seq(Entry) \cup {None}
  BY DEF TypeOK
<1>2. Overlay(Overlay(Builtin, Entries(user)), Entries(config)) \in Seq(Entry)
  BY <1>1, BuiltinOf, EntriesOf, OverlayOf
<1>3. env # None => [url |-> env, priority |-> 1, allowed |-> TRUE] \in Entry
  BY DEF Entry
<1>4. env # None => <<[url |-> env, priority |-> 1, allowed |-> TRUE]>> \in Seq(Entry)
  BY <1>3
<1>5. /\ Used(config) => config \in Seq(Entry)
      /\ Used(user) => user \in Seq(Entry)
  BY <1>1 DEF Used
<1>6. QED
  BY <1>2, <1>4, <1>5, BuiltinOf DEF Active

-----------------------------------------------------------------------------
(* Editing *)

\* The numbers of the sources of a file, in the order of the list that is shown.
LEMMA ShownIn ==
    ASSUME kind = "integration", NEW file \in Seq(Entry) \cup {None}
    PROVE  Shown(file) \in [DOMAIN Entries(file) -> DOMAIN Entries(file)]
<1> DEFINE s == Entries(file)
           D == DOMAIN s
           R == {p \in D \X D : Before(s, p[1], p[2])}
<1>0. s \in Seq(Entry)
  BY EntriesOf
<1>1. /\ D = 1..Len(s) /\ IsFiniteSet(D) /\ Cardinality(D) = Len(s)
      /\ \A i \in D : s[i] \in Entry
  BY <1>0, Domain
<1>2. \A i \in D : PriorityOf(s, i) \in Nat /\ i \in Nat
  BY <1>0, <1>1 DEF PriorityOf, Entry
<1>3. \A i, j \in D : <<i, j>> \in R <=>
         (PriorityOf(s, i) < PriorityOf(s, j) \/ (PriorityOf(s, i) = PriorityOf(s, j) /\ i < j))
  BY DEF Before
<1> HIDE DEF R, s
<1> HIDE DEF D
<1>4. StrictOrder(D, R)
  BY <1>2, <1>3 DEF StrictOrder
<1>5. Ranked(D, R) \in [1..Cardinality(D) -> D]
  BY <1>1, <1>4, RankedIs
<1>6. Shown(file) = Ranked(D, R)
  BY DEF Shown, R, D, s
<1>7. QED
  BY <1>1, <1>5, <1>6 DEF D, s

LEMMA NextPriorityIs ==
    ASSUME NEW file \in Seq(Entry)
    PROVE  NextPriority(file) \in Nat
<1> DEFINE D == DOMAIN file
           T == {Coerced(file, i) : i \in D}
           f == [i \in D |-> Coerced(file, i)]
<1>1. IsFiniteSet(D) /\ D \subseteq Nat /\ \A i \in D : file[i] \in Entry
  BY Domain
<1>2. \A i \in D : Coerced(file, i) \in Nat
  BY <1>1 DEF Coerced, PriorityOf, Entry
<1>3. f \in Surjection(D, T)
  BY DEF Surjection
<1>4. IsFiniteSet(T)
  BY <1>1, <1>3, FS_Surjection
<1>a. T \subseteq Nat
  BY <1>2
<1> HIDE DEF T
<1>b. IsFiniteSet(T \cup {0})
  BY <1>4, FS_AddElement
<1>5. T \cup {0} \in SUBSET Int /\ T \cup {0} # {} /\ T \cup {0} \subseteq Nat
  BY <1>a
<1>6. Max(T \cup {0}) \in Nat
  BY <1>b, <1>5, Greatest
<1>7. QED
  BY <1>6 DEF NextPriority, T

\* A file stays a list of entries, whatever is done to it.
LEMMA EditsType ==
    ASSUME TypeOK
    PROVE  /\ \A u \in Urls : AppendSource(u) \/ EnterSource(u) \/ DeleteSource(u)
                           \/ EnterBundleSource(u) \/ DeleteBundleSource(u)
                           => config' \in Seq(Entry) \cup {None}
           /\ \A n \in DOMAIN Entries(config) : RemoveSource(n) => config' \in Seq(Entry) \cup {None}
<1>1. config \in Seq(Entry) \cup {None} /\ Entries(config) \in Seq(Entry)
  BY EntriesOf DEF TypeOK
<1>2. ASSUME NEW u \in Urls, AppendSource(u) PROVE config' \in Seq(Entry)
  <2>1. [url |-> u, priority |-> NextPriority(Entries(config)), allowed |-> TRUE] \in Entry
    BY <1>1, NextPriorityIs DEF Entry
  <2>2. QED
    BY <1>1, <1>2, <2>1 DEF AppendSource
<1>3. ASSUME NEW u \in Urls, EnterSource(u) \/ EnterBundleSource(u) PROVE config' \in Seq(Entry)
  <2>1. PICK p \in Priorities, b \in BOOLEAN :
             config' = Append(Entries(config), [url |-> u, priority |-> p, allowed |-> b])
    BY <1>3 DEF EnterSource, EnterBundleSource, Given
  <2>2. [url |-> u, priority |-> p, allowed |-> b] \in Entry
    BY EntryAssumption DEF Entry
  <2>3. QED
    BY <1>1, <2>1, <2>2
<1>4. ASSUME NEW u \in Urls, DeleteSource(u) \/ DeleteBundleSource(u) PROVE config' \in Seq(Entry)
  <2>1. u \in Sources(Entries(config)) /\ config' = Rest(u)
    BY <1>4 DEF DeleteSource, DeleteBundleSource
  <2>2. config \in Seq(Entry)
    BY <1>1, <2>1 DEF Entries, Used, Sources
  <2>3. {i \in DOMAIN config : config[i].url # u} \in SUBSET DOMAIN config
    OBVIOUS
  <2>4. QED
    BY <2>1, <2>2, <2>3, OnlyIs DEF Rest
<1>5. ASSUME NEW n \in DOMAIN Entries(config), RemoveSource(n)
      PROVE  config' \in Seq(Entry) \cup {None}
  <2>1. config \in Seq(Entry) /\ Entries(config) = config
    BY <1>1, <1>5 DEF Entries, Used
  <2>2. Position(n) \in DOMAIN config
    BY <1>5, <2>1, ShownIn DEF Position
  <2>3. RemoveAt(config, Position(n)) \in Seq(Entry)
    BY <2>1, <2>2, Domain, ElementRemoved
  <2>4. QED
    BY <1>5, <2>3 DEF RemoveSource, Without
<1>6. QED
  BY <1>2, <1>3, <1>4, <1>5

-----------------------------------------------------------------------------
(* The steps *)

\* A command on the sources.
Edits ==
    \/ \E u \in Urls : \/ AppendSource(u) \/ EnterSource(u) \/ DeleteSource(u)
                      \/ EnterBundleSource(u) \/ DeleteBundleSource(u)
    \/ \E n \in DOMAIN Entries(config) : RemoveSource(n)
    \/ DieEditing

LEMMA EditsKeep ==
    ASSUME Edits
    PROVE  UNCHANGED <<kind, user, cache, time, lookupVars, installed>>
BY DEF Edits, AppendSource, EnterSource, DeleteSource, EnterBundleSource, DeleteBundleSource, RemoveSource,
       Edit, DieEditing

\* The source that is asked next is one of the stack.
LEMMA AskedIs ==
    ASSUME TypeOK, NEW i \in DOMAIN stack
    PROVE  stack[i] \in Entry /\ stack[i].url \in Urls /\ cache[stack[i].url] \in [content : Stamp, stamp : Stamp]
<1>1. stack[i] \in Entry
  BY Domain DEF TypeOK
<1>2. QED
  BY <1>1 DEF TypeOK, Entry

LookupOK ==
    /\ pc \in {"idle", "ask", "choose"}
    /\ item \in Items \cup {None}
    /\ round \in {1, 2}
    /\ stack \in Seq(Entry)
    /\ left \subseteq DOMAIN stack
    /\ heard \subseteq [from : DOMAIN stack, at : Nat, failed : BOOLEAN]
    /\ won \in DOMAIN stack \cup {0}

\* Between two commands nothing has been heard, and a lookup is for something.
Calls == (pc = "idle" => heard = {}) /\ (pc # "idle" => item \in Items)

TypeInv == TypeOK /\ Calls

LEMMA MergeType ==
    ASSUME TypeInv, NEW i \in DOMAIN stack, NEW at \in Nat, NEW failed \in BOOLEAN,
           pc = "ask", Merge(i, at, failed)
    PROVE  LookupOK' /\ Calls'
<1>1. [from |-> i, at |-> at, failed |-> failed] \in [from : DOMAIN stack, at : Nat, failed : BOOLEAN]
  OBVIOUS
<1>2. heard' \subseteq [from : DOMAIN stack, at : Nat, failed : BOOLEAN]
  BY <1>1 DEF Merge, TypeInv, TypeOK
<1>3. won' \in DOMAIN stack \cup {0} /\ left' \subseteq DOMAIN stack
  BY DEF Merge, TypeInv, TypeOK
<1>4. QED
  BY <1>2, <1>3 DEF Merge, TypeInv, TypeOK, LookupOK, Calls

LEMMA SkipType ==
    ASSUME TypeInv, NEW i \in DOMAIN stack, pc = "ask", Skip(i)
    PROVE  LookupOK' /\ Calls'
BY DEF Skip, TypeInv, TypeOK, LookupOK, Calls

LEMMA EndType ==
    ASSUME End
    PROVE  LookupOK' /\ Calls'
BY DEF End, LookupOK, Calls

\* What may be in the cache at time t: the stamp is not of the future, and what it
\* stands for is at least as new.
Good(line, t) ==
    line.stamp <= t /\ (line.content >= 0 /\ line.stamp >= 0 => line.stamp <= line.content)

Line == [content : Stamp, stamp : Stamp]

LEMMA LinesGood ==
    ASSUME TypeOK, NEW u \in Urls, Good(cache[u], time)
    PROVE  /\ Kept(u) \in Line /\ Good(Kept(u), time)
           /\ Whole \in Line /\ Good(Whole, time)
           /\ \A c \in Half(Kept(u)) : c \in Line /\ Good(c, time)
<1> USE DEF Line, Stamp, Absent, Torn
<1>1. cache[u] \in Line /\ time \in Nat
  BY DEF TypeOK
<1>2. Kept(u) \in Line /\ Good(Kept(u), time)
  BY <1>1 DEF Kept, Good
<1>3. Whole \in Line /\ Good(Whole, time)
  BY <1>1 DEF Whole, Good
<1>4. ASSUME NEW old \in Line, Good(old, time), NEW c \in Half(old) PROVE c \in Line /\ Good(c, time)
  <2>1. CASE c = old
    BY <1>4, <2>1
  <2>2. CASE c = [old EXCEPT !.content = Torn]
    <3>1. c \in Line /\ c.content = -2 /\ c.stamp = old.stamp
      BY <2>2
    <3>2. QED
      BY <1>4, <3>1 DEF Good
  <2>3. CASE c = [old EXCEPT !.content = time]
    <3>1. c \in Line /\ c.content = time /\ c.stamp = old.stamp
      BY <1>1, <2>3
    <3>2. QED
      BY <1>1, <1>4, <3>1 DEF Good
  <2>4. CASE c = [content |-> time, stamp |-> Torn]
    <3>1. c \in Line /\ c.content = time /\ c.stamp = -2
      BY <1>1, <2>4
    <3>2. QED
      BY <1>1, <3>1 DEF Good
  <2>5. QED
    BY <2>1, <2>2, <2>3, <2>4 DEF Half
<1>5. QED
  BY <1>2, <1>3, <1>4

-----------------------------------------------------------------------------
(* Typing and the cache *)

Stamped == \A u \in Urls : Good(cache[u], time)

\* What no answer changes.
LEMMA AnswersKeep ==
    ASSUME AnswerFromCache \/ AnswerFromSource \/ NotKept \/ DieKeeping \/ SourceFails
    PROVE  UNCHANGED <<kind, config, user, time, installed, acts>> /\ pc = "ask"
BY DEF AnswerFromCache, AnswerFromSource, NotKept, DieKeeping, SourceFails, Fetching, Asking, storeVars

LEMMA CacheStep ==
    ASSUME TypeOK, Stamped, [Next]_vars
    PROVE  cache' \in [Urls -> Line] /\ Stamped'
<1>0. cache \in [Urls -> Line] /\ time \in Nat
  BY DEF TypeOK, Line
<1>1. ASSUME NEW u \in Urls, NEW c \in Line, Good(c, time), cache' = [cache EXCEPT ![u] = c], time' = time
      PROVE  cache' \in [Urls -> Line] /\ Stamped'
  <2>1. cache' \in [Urls -> Line]
    BY <1>0, <1>1
  <2>2. \A v \in Urls : cache'[v] = IF v = u THEN c ELSE cache[v]
    BY <1>0, <1>1
  <2>3. ASSUME NEW v \in Urls PROVE Good(cache'[v], time')
    BY <1>1, <2>2 DEF Stamped
  <2>4. QED
    BY <2>1, <2>3 DEF Stamped
<1>2. ASSUME cache' = cache, time' = time \/ time' = time + 1
      PROVE  cache' \in [Urls -> Line] /\ Stamped'
  <2>1. ASSUME NEW v \in Urls PROVE Good(cache[v], time')
    <3>1. cache[v].stamp \in Int /\ Good(cache[v], time)
      BY <1>0 DEF Line, Stamp, Absent, Torn, Stamped
    <3>2. QED
      BY <1>0, <1>2, <3>1 DEF Good
  <2>2. QED
    BY <1>0, <1>2, <2>1 DEF Stamped
<1>3. ASSUME NEW i \in DOMAIN stack
      PROVE  /\ stack[i].url \in Urls
             /\ Kept(stack[i].url) \in Line /\ Good(Kept(stack[i].url), time)
             /\ Whole \in Line /\ Good(Whole, time)
             /\ \A c \in Half(Kept(stack[i].url)) : c \in Line /\ Good(c, time)
  BY AskedIs, LinesGood DEF Stamped
<1>4. CASE AnswerFromSource
  <2>1. PICK i \in DOMAIN stack :
           cache' = IF kind = "bundle" THEN cache ELSE [cache EXCEPT ![stack[i].url] = Whole]
    BY <1>4 DEF AnswerFromSource
  <2>2. QED
    BY <1>1, <1>2, <1>3, <1>4, <2>1, AnswersKeep
<1>5. CASE NotKept \/ DieKeeping
  <2>1. PICK i \in DOMAIN stack : \E c \in Half(Kept(stack[i].url)) : cache' = [cache EXCEPT ![stack[i].url] = c]
    BY <1>5 DEF NotKept, DieKeeping
  <2>2. QED
    BY <1>1, <1>3, <1>5, <2>1, AnswersKeep
<1>6. CASE SourceFails
  <2>1. PICK i \in DOMAIN stack : cache' = [cache EXCEPT ![stack[i].url] = Kept(stack[i].url)]
    BY <1>6 DEF SourceFails
  <2>2. QED
    BY <1>1, <1>3, <1>6, <2>1, AnswersKeep
<1>7. CASE Edits
  BY <1>2, <1>7, EditsKeep
<1>8. CASE Tick \/ TurnDown \/ LookAgain \/ Install \/ AnswerFromCache \/ UNCHANGED vars
  BY <1>2, <1>8 DEF Tick, TurnDown, LookAgain, Install, AnswerFromCache, storeVars, vars
<1>9. ASSUME NEW x \in Items, NEW env \in Urls \cup {None}, LookUp(x, env)
      PROVE  cache' \in [Urls -> Line] /\ Stamped'
  BY <1>2, <1>9 DEF LookUp, storeVars
<1>10. QED
  BY <1>4, <1>5, <1>6, <1>7, <1>8, <1>9 DEF Next, Edits

\* What a step does to the lookup that is under way.
LEMMA LookupStep ==
    ASSUME TypeInv, [Next]_vars
    PROVE  LookupOK' /\ Calls'
<1>0. LookupOK /\ Calls
  BY DEF TypeInv, TypeOK, LookupOK
<1>1. ASSUME NEW x \in Items, NEW env \in Urls \cup {None}, LookUp(x, env) PROVE LookupOK' /\ Calls'
  <2>1. Active(env) \in Seq(Entry)
    BY ActiveOf DEF TypeInv
  <2>2. QED
    BY <1>1, <2>1 DEF LookUp, LookupOK, Calls
<1>2. CASE AnswerFromCache
  <2>1. PICK i \in DOMAIN stack : Usable(stack[i].url) /\ Merge(i, cache[stack[i].url].content, FALSE)
    BY <1>2 DEF AnswerFromCache
  <2>2. cache[stack[i].url].content \in Nat
    BY <2>1, AskedIs DEF Usable, Stamp, Absent, Torn, TypeInv
  <2>3. QED
    BY <1>2, <2>1, <2>2, MergeType, AnswersKeep
<1>3. CASE AnswerFromSource \/ NotKept
  <2>1. PICK i \in DOMAIN stack : Merge(i, time, FALSE)
    BY <1>3 DEF AnswerFromSource, NotKept
  <2>2. time \in Nat
    BY DEF TypeInv, TypeOK
  <2>3. QED
    BY <1>3, <2>1, <2>2, MergeType, AnswersKeep
<1>4. CASE SourceFails
  <2>1. PICK i \in DOMAIN stack, f \in Failures :
             \/ End
             \/ FallsBack(stack[i].url, f) /\ Merge(i, cache[stack[i].url].content, TRUE)
             \/ Skip(i)
    BY <1>4 DEF SourceFails
  <2>2. FallsBack(stack[i].url, f) => cache[stack[i].url].content \in Nat
    <3>1. cache[stack[i].url].content \in Stamp
      BY AskedIs DEF TypeInv
    <3>2. FallsBack(stack[i].url, f) => cache[stack[i].url].content >= 0
      BY DEF FallsBack
    <3>3. QED
      BY <3>1, <3>2 DEF Stamp, Absent, Torn
  <2>3. QED
    BY <1>4, <2>1, <2>2, MergeType, SkipType, EndType, AnswersKeep
<1>5. CASE DieKeeping \/ TurnDown \/ Install
  BY <1>5, EndType DEF DieKeeping, TurnDown, Install
<1>6. CASE LookAgain
  BY <1>0, <1>6 DEF LookAgain, LookupOK, Calls
<1>7. CASE Edits \/ Tick \/ UNCHANGED vars
  <2>1. UNCHANGED lookupVars
    BY <1>7, EditsKeep DEF Tick, vars
  <2>2. QED
    BY <1>0, <2>1 DEF lookupVars, LookupOK, Calls
<1>8. QED
  BY <1>1, <1>2, <1>3, <1>4, <1>5, <1>6, <1>7 DEF Next, Edits

LEMMA StoreStep ==
    ASSUME TypeInv, [Next]_vars
    PROVE  /\ kind' = kind
           /\ config' \in Seq(Entry) \cup {None} /\ user' \in Seq(Entry) \cup {None}
           /\ time' \in Nat /\ acts' \in Nat /\ faults' \in Nat
<1>0. /\ TypeOK
      /\ config \in Seq(Entry) \cup {None} /\ user \in Seq(Entry) \cup {None}
      /\ time \in Nat /\ acts \in Nat /\ faults \in Nat
  BY DEF TypeInv, TypeOK
<1>1. CASE Edits
  <2>1. UNCHANGED <<kind, user, time>>
    BY <1>1, EditsKeep
  <2>2. config' \in Seq(Entry) \cup {None}
    <3>1. CASE DieEditing
      BY <3>1 DEF DieEditing
    <3>2. QED
      BY <1>0, <1>1, <3>1, EditsType DEF Edits
  <2>3. acts' = acts + 1 /\ faults' \in {faults, faults + 1}
    BY <1>1 DEF Edits, AppendSource, EnterSource, DeleteSource, EnterBundleSource, DeleteBundleSource,
                RemoveSource, Edit, DieEditing
  <2>4. QED
    BY <1>0, <2>1, <2>2, <2>3
<1>2. CASE AnswerFromCache \/ AnswerFromSource \/ NotKept \/ DieKeeping \/ SourceFails
  <2>1. faults' \in {faults, faults + 1}
    BY <1>2 DEF AnswerFromCache, AnswerFromSource, NotKept, DieKeeping, SourceFails
  <2>2. QED
    BY <1>0, <1>2, <2>1, AnswersKeep
<1>3. CASE TurnDown \/ LookAgain \/ Install \/ Tick \/ UNCHANGED vars
  BY <1>0, <1>3 DEF TurnDown, LookAgain, Install, Tick, storeVars, vars
<1>4. ASSUME NEW x \in Items, NEW env \in Urls \cup {None}, LookUp(x, env)
      PROVE  UNCHANGED <<kind, config, user, time, faults>> /\ acts' = acts + 1
  BY <1>4 DEF LookUp, storeVars
<1>5. QED
  BY <1>0, <1>1, <1>2, <1>3, <1>4 DEF Next, Edits

LEMMA InstalledStep ==
    ASSUME TypeInv, [Next]_vars
    PROVE  installed' = installed \/ Install
BY EditsKeep, AnswersKeep DEF Next, Edits, LookUp, TurnDown, LookAgain, Tick, vars

LEMMA TypeStep == TypeInv /\ Stamped /\ [Next]_vars => TypeInv' /\ Stamped'
<1> SUFFICES ASSUME TypeInv, Stamped, [Next]_vars PROVE TypeInv' /\ Stamped'
  OBVIOUS
<1>1. cache' \in [Urls -> Line] /\ Stamped'
  BY CacheStep DEF TypeInv
<1>2. LookupOK' /\ Calls'
  BY LookupStep
<1>3. installed' \subseteq [item : Items, from : Entry]
  <2>1. CASE Install
    <3>1. item \in Items /\ won \in DOMAIN stack
      BY <2>1 DEF Install, MayInstall, TypeInv, TypeOK, Calls
    <3>2. stack[won] \in Entry
      BY <3>1, AskedIs DEF TypeInv
    <3>3. [item |-> item, from |-> stack[won]] \in [item : Items, from : Entry]
      BY <3>1, <3>2
    <3>4. QED
      BY <2>1, <3>3 DEF Install, TypeInv, TypeOK
  <2>2. QED
    BY <2>1, InstalledStep DEF TypeInv, TypeOK
<1>4. QED
  BY <1>1, <1>2, <1>3, StoreStep DEF TypeInv, TypeOK, LookupOK, Line

LEMMA TypeInit == Init => TypeInv /\ Stamped
<1> SUFFICES ASSUME Init PROVE TypeInv /\ Stamped
  OBVIOUS
<1>1. config \in Seq(Entry) \cup {None} /\ user \in Seq(Entry) \cup {None}
  BY EntryAssumption DEF Init
<1>2. cache \in [Urls -> Line] /\ Stamped
  BY DEF Init, Line, Stamp, Absent, Torn, Stamped, Good
<1>3. QED
  BY <1>1, <1>2 DEF Init, TypeInv, TypeOK, Calls, Line

\* The variables of Catalogs keep their types, for every file a user may write and
\* whatever the commands do to it.
THEOREM TypeCorrect == Spec => []TypeOK
<1>1. TypeInv /\ Stamped => TypeOK
  BY DEF TypeInv
<1>2. QED
  BY <1>1, TypeInit, TypeStep, PTL DEF Spec

-----------------------------------------------------------------------------
(* How old an answer may be *)

LEMMA HeardStep == TypeInv /\ Stamped /\ CacheAge /\ [Next]_vars => CacheAge'
<1> SUFFICES ASSUME TypeInv, Stamped, CacheAge, [Next]_vars PROVE CacheAge'
  OBVIOUS
<1>0. TypeOK /\ time \in Nat /\ Duration \in Nat \ {0} /\ kind' = kind
  BY TimeAssumption, StoreStep DEF TypeInv, TypeOK
<1>1. ASSUME heard' = {} PROVE CacheAge'
  BY <1>1 DEF CacheAge
<1>2. ASSUME heard' = heard, time' = time PROVE CacheAge'
  BY <1>0, <1>2 DEF CacheAge
<1>3. ASSUME NEW i \in DOMAIN stack, NEW at, NEW failed \in BOOLEAN, Merge(i, at, failed), time' = time,
             time - at < Duration \/ (failed /\ kind \in {"workflow", "step"})
      PROVE  CacheAge'
  <2>1. heard' = heard \cup {[from |-> i, at |-> at, failed |-> failed]}
    BY <1>3 DEF Merge
  <2>2. QED
    BY <1>0, <1>3, <2>1 DEF CacheAge
<1>4. CASE AnswerFromCache
  <2>1. PICK i \in DOMAIN stack : Usable(stack[i].url) /\ Merge(i, cache[stack[i].url].content, FALSE)
    BY <1>4 DEF AnswerFromCache
  <2> DEFINE line == cache[stack[i].url]
  <2>2. line \in Line /\ Good(line, time)
    BY <1>0, AskedIs DEF Line, Stamped
  <2>3. line.content >= 0 /\ line.stamp >= 0 /\ time - line.stamp < Duration
    BY <2>1 DEF Usable, Fresh
  <2>4. time - line.content < Duration
    <3> HIDE DEF line
    <3>1. line.content \in Int /\ line.stamp \in Int /\ line.stamp <= line.content
      BY <2>2, <2>3 DEF Line, Stamp, Absent, Torn, Good
    <3>2. QED
      BY <1>0, <2>3, <3>1
  <2>5. time' = time
    BY <1>4, AnswersKeep
  <2>6. QED
    BY <1>3, <2>1, <2>4, <2>5
<1>5. CASE AnswerFromSource \/ NotKept
  <2>1. PICK i \in DOMAIN stack : Merge(i, time, FALSE)
    BY <1>5 DEF AnswerFromSource, NotKept
  <2>2. time - time < Duration
    BY <1>0
  <2>3. QED
    BY <1>3, <1>5, <2>1, <2>2, AnswersKeep
<1>6. CASE SourceFails
  <2>1. PICK i \in DOMAIN stack, f \in Failures :
             \/ End
             \/ FallsBack(stack[i].url, f) /\ Merge(i, cache[stack[i].url].content, TRUE)
             \/ Skip(i)
    BY <1>6 DEF SourceFails
  <2>2. CASE End
    BY <1>1, <2>2 DEF End
  <2>3. CASE FallsBack(stack[i].url, f) /\ Merge(i, cache[stack[i].url].content, TRUE)
    <3>1. kind \in {"workflow", "step"}
      BY <2>3 DEF FallsBack
    <3>2. QED
      BY <1>3, <1>6, <2>3, <3>1, AnswersKeep
  <2>4. CASE Skip(i)
    BY <1>2, <1>6, <2>4, AnswersKeep DEF Skip
  <2>5. QED
    BY <2>1, <2>2, <2>3, <2>4
<1>7. CASE DieKeeping \/ TurnDown \/ Install \/ LookAgain
  BY <1>1, <1>7 DEF DieKeeping, TurnDown, Install, LookAgain, End
<1>8. CASE Tick
  BY <1>1, <1>8 DEF Tick, TypeInv, Calls, lookupVars
<1>9. CASE Edits \/ UNCHANGED vars
  BY <1>2, <1>9, EditsKeep DEF vars, lookupVars
<1>10. ASSUME NEW x \in Items, NEW env \in Urls \cup {None}, LookUp(x, env) PROVE CacheAge'
  BY <1>1, <1>10 DEF LookUp
<1>11. QED
  BY <1>4, <1>5, <1>6, <1>7, <1>8, <1>9, <1>10 DEF Next, Edits

\* Nothing is answered from a cache that is older than its duration, however the
\* writes to it were cut short; only a workflow or step source that has failed is
\* answered for by an older one.
THEOREM NothingStale == Spec => []CacheAge
<1>1. Init => CacheAge
  BY DEF Init, CacheAge
<1>2. QED
  BY <1>1, TypeInit, TypeStep, HeardStep, PTL DEF Spec

-----------------------------------------------------------------------------
(* What is installed *)

\* The sources that have answered and have the item.
Offers(i) == \E h \in heard : h.from = i /\ item \in Lists[stack[i].url]

\* The sources are asked in their order or against it, and the one that stands is
\* the first of those that have the item.
FirstWins ==
    /\ \A h \in heard, j \in left : IF FirstStands THEN Before(stack, h.from, j) ELSE Before(stack, j, h.from)
    /\ won = 0 => \A i \in DOMAIN stack : ~Offers(i)
    /\ won # 0 => Offers(won) /\ \A i \in DOMAIN stack \ {won} : Offers(i) => Before(stack, won, i)

LEMMA MergeKeepsFirst ==
    ASSUME TypeInv, FirstWins, NEW i \in DOMAIN stack, AskedNext(i), NEW at, NEW failed, Merge(i, at, failed),
           kind' = kind
    PROVE  FirstWins'
<1> DEFINE has == item \in Lists[stack[i].url]
           r == [from |-> i, at |-> at, failed |-> failed]
           Offered(k) == \E h \in heard' : h.from = k /\ item' \in Lists[stack'[k].url]
<1>1. /\ heard' = heard \cup {r} /\ r.from = i
      /\ won' = IF has /\ (won = 0 \/ ~FirstStands) THEN i ELSE won
      /\ left' \subseteq left \ {i}
      /\ item' = item /\ stack' = stack
  BY DEF Merge
<1>4. \A h \in heard : IF FirstStands THEN Before(stack, h.from, i) ELSE Before(stack, i, h.from)
  BY DEF FirstWins, AskedNext
<1>5. \A j \in left \ {i} : IF FirstStands THEN Before(stack, i, j) ELSE Before(stack, j, i)
  BY DEF AskedNext
<1>6. ASSUME NEW k PROVE Offered(k) <=> Offers(k) \/ (k = i /\ has)
  BY <1>1 DEF Offers
<1>7. ASSUME NEW h \in heard', NEW j \in left'
      PROVE  IF FirstStands THEN Before(stack, h.from, j) ELSE Before(stack, j, h.from)
  <2>1. CASE h = r
    BY <1>1, <1>5, <1>7, <2>1
  <2>2. CASE h \in heard
    BY <1>1, <1>7, <2>2 DEF FirstWins
  <2>3. QED
    BY <1>1, <1>7, <2>1, <2>2
<1> HIDE DEF has, r, Offered
<1>8. ASSUME won' = 0, NEW k \in DOMAIN stack PROVE ~Offered(k)
  <2>1. won = 0 /\ ~has
    BY <1>1, <1>8, Domain DEF TypeInv, TypeOK
  <2>2. QED
    BY <1>6, <2>1 DEF FirstWins
<1>9. ASSUME won' # 0
      PROVE  Offered(won') /\ \A k \in DOMAIN stack \ {won'} : Offered(k) => Before(stack, won', k)
  <2>1. ASSUME NEW k \in DOMAIN stack, Offers(k)
        PROVE  IF FirstStands THEN Before(stack, k, i) ELSE Before(stack, i, k)
    BY <1>4, <2>1 DEF Offers
  <2>2. CASE has /\ won = 0
    <3>1. won' = i /\ \A k \in DOMAIN stack : ~Offers(k)
      BY <1>1, <2>2 DEF FirstWins
    <3>2. QED
      BY <1>6, <2>2, <3>1
  <2>3. CASE has /\ won # 0 /\ ~FirstStands
    <3>1. won' = i
      BY <1>1, <2>3
    <3>2. QED
      BY <1>6, <2>1, <2>3, <3>1
  <2>4. CASE ~has \/ (won # 0 /\ FirstStands)
    <3>1. won' = won /\ won # 0 /\ won \in DOMAIN stack
      BY <1>1, <1>9, <2>4 DEF TypeInv, TypeOK
    <3>2. Offers(won) /\ \A k \in DOMAIN stack \ {won} : Offers(k) => Before(stack, won, k)
      BY <3>1 DEF FirstWins
    <3>3. Offered(won)
      BY <1>6, <3>1, <3>2
    <3>4. ASSUME NEW k \in DOMAIN stack \ {won}, Offered(k) PROVE Before(stack, won, k)
      BY <1>6, <2>1, <2>4, <3>1, <3>2, <3>4
    <3>5. QED
      BY <3>1, <3>3, <3>4
  <2>5. QED
    BY <2>2, <2>3, <2>4
<1>10. QED
  BY <1>1, <1>7, <1>8, <1>9 DEF FirstWins, Offers, Offered, Before, PriorityOf, FirstStands

LEMMA FirstStep == TypeInv /\ FirstWins /\ [Next]_vars => FirstWins'
<1> SUFFICES ASSUME TypeInv, FirstWins, [Next]_vars PROVE FirstWins'
  OBVIOUS
<1>0. kind' = kind
  BY StoreStep
<1>1. ASSUME heard' = {}, won' = 0 PROVE FirstWins'
  BY <1>1 DEF FirstWins, Offers
<1>2. ASSUME stack' = stack, item' = item, heard' = heard, won' = won, left' \subseteq left PROVE FirstWins'
  <2>1. \A f, g : Before(stack, f, g)' <=> Before(stack, f, g)
    BY <1>0, <1>2 DEF Before, PriorityOf
  <2>2. \A k : Offers(k)' <=> Offers(k)
    BY <1>2 DEF Offers
  <2>3. FirstStands' <=> FirstStands
    BY <1>0 DEF FirstStands
  <2>4. /\ \A h \in heard, j \in left' :
              IF FirstStands THEN Before(stack, h.from, j) ELSE Before(stack, j, h.from)
        /\ won = 0 => \A k \in DOMAIN stack : ~Offers(k)
        /\ won # 0 => Offers(won) /\ \A k \in DOMAIN stack \ {won} : Offers(k) => Before(stack, won, k)
    BY <1>2 DEF FirstWins
  <2>5. QED
    BY <1>2, <2>1, <2>2, <2>3, <2>4 DEF FirstWins
<1>3. CASE AnswerFromCache \/ AnswerFromSource \/ NotKept \/ SourceFails
  <2>1. PICK i \in DOMAIN stack : Asking(i) /\ (End \/ Skip(i) \/ \E at, failed : Merge(i, at, failed))
    BY <1>3 DEF AnswerFromCache, AnswerFromSource, NotKept, SourceFails, Fetching
  <2>2. CASE End
    BY <1>1, <2>2 DEF End
  <2>3. CASE Skip(i)
    BY <1>2, <2>3 DEF Skip
  <2>4. CASE \E at, failed : Merge(i, at, failed)
    BY <1>0, <2>1, <2>4, MergeKeepsFirst DEF Asking
  <2>5. QED
    BY <2>1, <2>2, <2>3, <2>4
<1>4. CASE DieKeeping \/ TurnDown \/ Install \/ LookAgain
  BY <1>1, <1>4 DEF DieKeeping, TurnDown, Install, LookAgain, End
<1>5. CASE Tick \/ Edits \/ UNCHANGED vars
  BY <1>2, <1>5, EditsKeep DEF Tick, vars, lookupVars
<1>6. ASSUME NEW x \in Items, NEW env \in Urls \cup {None}, LookUp(x, env) PROVE FirstWins'
  BY <1>1, <1>6 DEF LookUp
<1>7. QED
  BY <1>3, <1>4, <1>5, <1>6 DEF Next, Edits

\* What is installed comes from the first source that has it and has answered, in
\* whichever order the kind asks them, and, but for an extension, that source allows
\* it also when it is not the one that was shown.
THEOREM FromTheFirstAllowed == Spec => AllowedOnly
<1>1. Init => FirstWins
  BY DEF Init, FirstWins, Offers
<1>2. TypeInv /\ FirstWins /\ [Next]_vars =>
         [installed' # installed =>
            LET having == {h.from : h \in {g \in heard : item \in Lists[stack[g.from].url]}} IN
            /\ won \in having
            /\ \A i \in having \ {won} : Before(stack, won, i)
            /\ kind # "extension" => stack[won].allowed]_installed
  <2> SUFFICES ASSUME TypeInv, FirstWins, [Next]_vars, installed' # installed
               PROVE  LET having == {h.from : h \in {g \in heard : item \in Lists[stack[g.from].url]}} IN
                      /\ won \in having
                      /\ \A i \in having \ {won} : Before(stack, won, i)
                      /\ kind # "extension" => stack[won].allowed
    OBVIOUS
  <2>1. won # 0 /\ (Checked => stack[won].allowed)
    BY InstalledStep DEF Install, MayInstall
  <2> DEFINE having == {h.from : h \in {g \in heard : item \in Lists[stack[g.from].url]}}
  <2>2. \A i : i \in having <=> Offers(i)
    BY DEF Offers
  <2>3. having \subseteq DOMAIN stack
    BY DEF TypeInv, TypeOK
  <2> HIDE DEF having
  <2>4. won \in having /\ \A i \in having \ {won} : Before(stack, won, i)
    BY <2>1, <2>2, <2>3 DEF FirstWins
  <2>5. kind # "extension" => stack[won].allowed
    BY <2>1 DEF Checked
  <2>6. QED
    BY <2>4, <2>5 DEF having
<1>3. QED
  BY <1>1, <1>2, TypeInit, TypeStep, FirstStep, PTL DEF Spec, AllowedOnly

-----------------------------------------------------------------------------
(* The list that is shown *)

\* f lists the elements of I in the order R.
Enumerates(f, I, R) ==
    /\ f \in [1..Cardinality(I) -> I]
    /\ \A i \in I : \E n \in 1..Cardinality(I) : f[n] = i
    /\ \A m, n \in 1..Cardinality(I) : m < n => <<f[m], f[n]>> \in R

LEMMA RankedEnumerates ==
    ASSUME NEW I, IsFiniteSet(I), NEW R, StrictOrder(I, R)
    PROVE  Enumerates(Ranked(I, R), I, R)
<1> DEFINE N == Cardinality(I)
           f == Ranked(I, R)
<1>1. N \in Nat /\ f \in [1..N -> I]
  BY RankedIs, FS_CardinalityType
<1>2. \A n \in 1..N : f[n] \in I /\ Cardinality(Ahead(I, R, f[n])) = n - 1
  BY <1>1, RankedIs
<1>3. /\ \A i \in I : Cardinality(Ahead(I, R, i)) \in 0..(N - 1)
      /\ \A i, j \in I : <<i, j>> \in R => Cardinality(Ahead(I, R, i)) < Cardinality(Ahead(I, R, j))
      /\ \A i, j \in I : Cardinality(Ahead(I, R, i)) = Cardinality(Ahead(I, R, j)) => i = j
  BY <1>1, Ranks
<1> HIDE DEF f, N
<1>4. ASSUME NEW i \in I PROVE \E n \in 1..N : f[n] = i
  <2> DEFINE n == Cardinality(Ahead(I, R, i)) + 1
  <2>1. n \in 1..N /\ n - 1 = Cardinality(Ahead(I, R, i))
    BY <1>1, <1>3
  <2> HIDE DEF n
  <2>2. f[n] \in I /\ Cardinality(Ahead(I, R, f[n])) = Cardinality(Ahead(I, R, i))
    BY <1>2, <2>1
  <2>3. QED
    BY <1>3, <2>1, <2>2
<1>5. ASSUME NEW m \in 1..N, NEW n \in 1..N, m < n PROVE <<f[m], f[n]>> \in R
  <2>1. f[m] \in I /\ f[n] \in I /\ Cardinality(Ahead(I, R, f[m])) = m - 1 /\ Cardinality(Ahead(I, R, f[n])) = n - 1
    BY <1>2
  <2>2. <<f[n], f[m]>> \notin R
    BY <1>1, <1>3, <1>5, <2>1
  <2>3. f[m] # f[n]
    BY <1>1, <1>5, <2>1
  <2>4. QED
    BY <2>1, <2>2, <2>3 DEF StrictOrder
<1>6. QED
  BY <1>1, <1>4, <1>5 DEF Enumerates, f, N

\* There is one way to do it.
LEMMA OnlyRanked ==
    ASSUME NEW I, IsFiniteSet(I), NEW R, StrictOrder(I, R), NEW f, Enumerates(f, I, R)
    PROVE  Ranked(I, R) = f
<1> DEFINE N == Cardinality(I)
<1>1. N \in Nat /\ Ranked(I, R) \in [1..N -> I] /\ f \in [1..N -> I]
  BY RankedIs, FS_CardinalityType DEF Enumerates
<1>2. ASSUME NEW n \in 1..N PROVE Cardinality(Ahead(I, R, f[n])) = n - 1
  <2> DEFINE g == [m \in 1..(n - 1) |-> f[m]]
  <2>1. n \in Nat /\ n - 1 \in Nat /\ \A m \in 1..(n - 1) : m \in 1..N /\ m < n
    BY <1>1
  <2>2. \A m \in 1..(n - 1) : g[m] = f[m] /\ f[m] \in I /\ <<f[m], f[n]>> \in R
    BY <1>1, <2>1 DEF Enumerates
  <2>3. \A i \in I : <<i, f[n]>> \in R => \E m \in 1..(n - 1) : f[m] = i
    <3>1. TAKE i \in I
    <3>2. HAVE <<i, f[n]>> \in R
    <3>3. PICK m \in 1..N : f[m] = i
      BY DEF Enumerates
    <3>4. m # n
      BY <1>1, <3>2, <3>3 DEF StrictOrder
    <3>5. ~(n < m)
      <4>1. n < m => <<f[n], f[m]>> \in R
        BY DEF Enumerates
      <4>2. f[n] \in I
        BY <1>1
      <4>3. QED
        BY <3>2, <3>3, <4>1, <4>2 DEF StrictOrder
    <3>6. m \in 1..(n - 1)
      BY <1>1, <2>1, <3>4, <3>5
    <3>7. QED
      BY <3>3, <3>6
  <2>4. f[n] \in I
    BY <1>1
  <2>5. \A i : i \in Ahead(I, R, f[n]) <=> i \in I /\ <<i, f[n]>> \in R
    BY <2>4 DEF Ahead
  <2>6. g \in [1..(n - 1) -> Ahead(I, R, f[n])]
    BY <2>2, <2>5
  <2>7. \A k, m \in 1..(n - 1) : f[k] = f[m] => k = m
    <3>1. TAKE k, m \in 1..(n - 1)
    <3>2. HAVE f[k] = f[m]
    <3>3. k \in 1..N /\ m \in 1..N /\ f[k] \in I
      BY <2>1, <2>2
    <3>4. ~(k < m) /\ ~(m < k)
      BY <3>2, <3>3 DEF Enumerates, StrictOrder
    <3>5. QED
      BY <1>1, <3>3, <3>4
  <2>8. g \in Bijection(1..(n - 1), Ahead(I, R, f[n]))
    <3>1. \A i \in Ahead(I, R, f[n]) : \E m \in 1..(n - 1) : g[m] = i
      BY <2>2, <2>3, <2>5
    <3>2. \A k, m \in 1..(n - 1) : g[k] = g[m] => k = m
      BY <2>2, <2>7
    <3> HIDE DEF g
    <3>3. g \in Injection(1..(n - 1), Ahead(I, R, f[n]))
      BY <2>6, <3>2 DEF Injection, IsInjective
    <3>4. g \in Surjection(1..(n - 1), Ahead(I, R, f[n]))
      BY <2>6, <3>1 DEF Surjection
    <3>5. QED
      BY <3>3, <3>4 DEF Bijection
  <2>9. IsFiniteSet(1..(n - 1)) /\ Cardinality(1..(n - 1)) = n - 1
    BY <2>1, FS_Interval
  <2>10. ExistsBijection(1..(n - 1), Ahead(I, R, f[n]))
    BY <2>8 DEF ExistsBijection
  <2>11. QED
    BY <2>9, <2>10, FS_Bijection
<1>3. ASSUME NEW n \in 1..N PROVE Ranked(I, R)[n] = f[n]
  <2>1. Ranked(I, R)[n] \in I /\ Cardinality(Ahead(I, R, Ranked(I, R)[n])) = n - 1
    BY <1>1, RankedIs
  <2>2. f[n] \in I
    BY <1>1
  <2>3. QED
    BY <1>1, <1>2, <2>1, <2>2, Ranks
<1>4. QED
  BY <1>1, <1>3

OrderOf(s) == {p \in (DOMAIN s) \X (DOMAIN s) : Before(s, p[1], p[2])}

Listing(s) == [n \in 1..Len(s) |-> s[Ranked(DOMAIN s, OrderOf(s))[n]]]

Numbered == kind \in {"workflow", "step", "integration"}

LEMMA Order ==
    ASSUME Numbered, NEW s \in Seq(Entry)
    PROVE  /\ DOMAIN s = 1..Len(s) /\ Len(s) \in Nat
           /\ IsFiniteSet(DOMAIN s) /\ Cardinality(DOMAIN s) = Len(s)
           /\ \A i \in DOMAIN s : s[i] \in Entry /\ s[i].priority \in Nat /\ PriorityOf(s, i) \in Nat
           /\ \A i, j \in DOMAIN s : <<i, j>> \in OrderOf(s) <=> Before(s, i, j)
           /\ \A i, j \in DOMAIN s : Before(s, i, j) <=>
                \/ PriorityOf(s, i) < PriorityOf(s, j)
                \/ PriorityOf(s, i) = PriorityOf(s, j) /\ i < j
           /\ StrictOrder(DOMAIN s, OrderOf(s))
<1>1. /\ DOMAIN s = 1..Len(s) /\ Len(s) \in Nat
      /\ IsFiniteSet(DOMAIN s) /\ Cardinality(DOMAIN s) = Len(s)
      /\ \A i \in DOMAIN s : s[i] \in Entry
  BY Domain
<1>2. \A i \in DOMAIN s : s[i].priority \in Nat /\ PriorityOf(s, i) \in Nat
  BY <1>1 DEF PriorityOf, Entry
<1>3. \A i, j \in DOMAIN s : <<i, j>> \in OrderOf(s) <=> Before(s, i, j)
  BY DEF OrderOf
<1>4. \A i, j \in DOMAIN s : Before(s, i, j) <=>
         \/ PriorityOf(s, i) < PriorityOf(s, j)
         \/ PriorityOf(s, i) = PriorityOf(s, j) /\ i < j
  BY DEF Before, Numbered
<1>5. StrictOrder(DOMAIN s, OrderOf(s))
  <2> DEFINE D == DOMAIN s
  <2>1. \A i \in D : PriorityOf(s, i) \in Nat /\ i \in Nat
    BY <1>1, <1>2
  <2> HIDE DEF D
  <2>2. \A i, j \in D : <<i, j>> \in OrderOf(s) <=>
           \/ PriorityOf(s, i) < PriorityOf(s, j)
           \/ PriorityOf(s, i) = PriorityOf(s, j) /\ i < j
    BY <1>3, <1>4 DEF D
  <2>3. StrictOrder(D, OrderOf(s))
    BY <2>1, <2>2 DEF StrictOrder
  <2>4. QED
    BY <2>3 DEF D
<1>6. QED
  BY <1>1, <1>2, <1>3, <1>4, <1>5

\* The numbers of the entries in the order of the list.
LEMMA Listings ==
    ASSUME Numbered, NEW s \in Seq(Entry)
    PROVE  /\ Enumerates(Ranked(DOMAIN s, OrderOf(s)), DOMAIN s, OrderOf(s))
           /\ Ranked(DOMAIN s, OrderOf(s)) \in [1..Len(s) -> 1..Len(s)]
           /\ \A n \in 1..Len(s) : Listing(s)[n] = s[Ranked(DOMAIN s, OrderOf(s))[n]]
           /\ Listing(s) \in Seq(Entry) /\ Len(Listing(s)) = Len(s)
<1> DEFINE g == Ranked(DOMAIN s, OrderOf(s))
<1>1. Enumerates(g, DOMAIN s, OrderOf(s))
  BY Order, RankedEnumerates
<1>2. DOMAIN s = 1..Len(s) /\ Cardinality(DOMAIN s) = Len(s) /\ Len(s) \in Nat /\ \A i \in 1..Len(s) : s[i] \in Entry
  BY Order
<1> HIDE DEF g
<1>3. g \in [1..Len(s) -> 1..Len(s)]
  BY <1>1, <1>2 DEF Enumerates
<1>4. Listing(s) = [n \in 1..Len(s) |-> s[g[n]]]
  BY DEF Listing, g
<1>5. Listing(s) \in [1..Len(s) -> Entry]
  BY <1>2, <1>3, <1>4
<1>6. Listing(s) \in Seq(Entry) /\ Len(Listing(s)) = Len(s)
  BY <1>2, <1>5
<1>7. QED
  BY <1>1, <1>3, <1>4, <1>6 DEF g

LEMMA ListedIs ==
    ASSUME Numbered, NEW file \in Seq(Entry) \cup {None}
    PROVE  /\ Entries(file) \in Seq(Entry)
           /\ file # None => Entries(file) = file
           /\ file = None => Entries(file) = <<>>
           /\ Listed(file) = Listing(Entries(file))
           /\ Shown(file) = Ranked(DOMAIN Entries(file), OrderOf(Entries(file)))
<1>1. /\ Entries(file) \in Seq(Entry)
      /\ file # None => Entries(file) = file
      /\ file = None => Entries(file) = <<>>
  BY EntriesOf DEF Entries, Used
<1>2. Shown(file) = Ranked(DOMAIN Entries(file), OrderOf(Entries(file)))
  BY DEF Shown, OrderOf
<1>3. DOMAIN Shown(file) = 1..Len(Entries(file))
  BY <1>1, <1>2, Listings
<1>4. Listed(file) = [n \in 1..Len(Entries(file)) |-> file[Shown(file)[n]]]
  BY <1>3 DEF Listed
<1>5. \A n \in 1..Len(Entries(file)) : file[Shown(file)[n]] = Entries(file)[Shown(file)[n]]
  <2>1. CASE file # None
    BY <1>1, <2>1
  <2>2. CASE file = None
    BY <1>1, <2>2
  <2>3. QED
    BY <2>1, <2>2
<1>6. Listed(file) = [n \in 1..Len(Entries(file)) |-> Entries(file)[Shown(file)[n]]]
  BY <1>4, <1>5
<1>7. QED
  BY <1>1, <1>2, <1>6 DEF Listing

\* An entry that all others come before is the last of the list.
LEMMA AppendedLast ==
    ASSUME Numbered, NEW s \in Seq(Entry), NEW e \in Entry, NEW t, t = Append(s, e),
           \A i \in DOMAIN s : Before(t, i, Len(t)),
           \A i, j \in DOMAIN s : Before(s, i, j) => Before(t, i, j)
    PROVE  Listing(t) = Append(Listing(s), e)
<1> DEFINE g == Ranked(DOMAIN s, OrderOf(s))
           N == Len(s)
           f == [n \in 1..(N + 1) |-> IF n = N + 1 THEN N + 1 ELSE g[n]]
<1>1. /\ t \in Seq(Entry) /\ Len(t) = N + 1 /\ t[N + 1] = e
      /\ \A i \in 1..N : t[i] = s[i]
  BY AppendProperties
<1>2. N \in Nat /\ DOMAIN s = 1..N /\ DOMAIN t = 1..(N + 1) /\ Cardinality(DOMAIN t) = N + 1
  BY <1>1, Order
<1>3. /\ Enumerates(g, DOMAIN s, OrderOf(s)) /\ g \in [1..N -> 1..N]
      /\ Cardinality(DOMAIN s) = N
      /\ \A n \in 1..N : Listing(s)[n] = s[g[n]]
      /\ Listing(s) \in Seq(Entry) /\ Len(Listing(s)) = N
  BY Listings, Order
<1> HIDE DEF g
<1>4. f[N + 1] = N + 1 /\ \A n \in 1..N : f[n] = g[n] /\ g[n] \in 1..N /\ n \in 1..(N + 1)
  <2> HIDE DEF N
  <2>1. N + 1 \in 1..(N + 1) /\ \A n \in 1..N : n # N + 1 /\ n \in 1..(N + 1)
    BY <1>2
  <2>2. \A n \in 1..N : g[n] \in 1..N
    BY <1>3
  <2>3. QED
    BY <2>1, <2>2
<1>5. f \in [1..(N + 1) -> 1..(N + 1)]
  BY <1>2, <1>3
<1> HIDE DEF f
<1>6. \A i \in 1..(N + 1) : \E n \in 1..(N + 1) : f[n] = i
  <2>1. TAKE i \in 1..(N + 1)
  <2>2. CASE i = N + 1
    BY <1>2, <1>4, <2>2
  <2>3. CASE i # N + 1
    <3>1. i \in 1..N
      BY <1>2, <2>3
    <3>2. PICK n \in 1..N : g[n] = i
      BY <1>2, <1>3, <3>1 DEF Enumerates
    <3>3. QED
      BY <1>4, <3>2
  <2>4. QED
    BY <2>2, <2>3
<1>7. \A m, n \in 1..(N + 1) : m < n => <<f[m], f[n]>> \in OrderOf(t)
  <2>1. TAKE m, n \in 1..(N + 1)
  <2>2. HAVE m < n
  <2>3. m \in 1..N
    BY <1>2, <2>2
  <2>4. f[m] = g[m] /\ g[m] \in 1..N
    BY <1>4, <2>3
  <2>5. Before(t, f[m], f[n])
    <3>1. CASE n = N + 1
      BY <1>1, <1>2, <1>4, <2>4, <3>1
    <3>2. CASE n # N + 1
      <4>1. n \in 1..N
        BY <1>2, <3>2
      <4>2. f[n] = g[n] /\ g[n] \in 1..N
        BY <1>4, <4>1
      <4>3. <<g[m], g[n]>> \in OrderOf(s)
        BY <1>2, <1>3, <2>2, <2>3, <4>1 DEF Enumerates
      <4>4. Before(s, g[m], g[n])
        BY <1>2, <2>4, <4>2, <4>3, Order
      <4>5. QED
        BY <1>2, <2>4, <4>2, <4>4
    <3>3. QED
      BY <3>1, <3>2
  <2>6. f[m] \in DOMAIN t /\ f[n] \in DOMAIN t
    BY <1>2, <1>5
  <2>7. QED
    BY <1>1, <2>5, <2>6, Order
<1>8. Enumerates(f, DOMAIN t, OrderOf(t))
  BY <1>2, <1>5, <1>6, <1>7 DEF Enumerates
<1>9. Ranked(DOMAIN t, OrderOf(t)) = f
  BY <1>1, <1>8, Order, OnlyRanked
<1>10. /\ Listing(t) \in Seq(Entry) /\ Len(Listing(t)) = N + 1
       /\ \A n \in 1..(N + 1) : Listing(t)[n] = t[f[n]]
  BY <1>1, <1>9, Listings
<1>11. /\ Append(Listing(s), e) \in Seq(Entry) /\ Len(Append(Listing(s), e)) = N + 1
       /\ Append(Listing(s), e)[N + 1] = e
       /\ \A n \in 1..N : Append(Listing(s), e)[n] = Listing(s)[n]
  BY <1>3, AppendProperties
<1>12. \A n \in 1..(N + 1) : Listing(t)[n] = Append(Listing(s), e)[n]
  <2>1. TAKE n \in 1..(N + 1)
  <2>2. CASE n = N + 1
    BY <1>1, <1>4, <1>10, <1>11, <2>2
  <2>3. CASE n # N + 1
    <3>1. n \in 1..N
      BY <1>2, <2>3
    <3>2. QED
      BY <1>1, <1>3, <1>4, <1>10, <1>11, <3>1
  <2>4. QED
    BY <2>2, <2>3
<1>13. QED
  BY <1>2, <1>10, <1>11, <1>12, SeqEqual

\* Where entry i is when entry k is gone.
Moved(i, k) == IF i < k THEN i ELSE i - 1

LEMMA MovedTo ==
    ASSUME NEW s \in Seq(Entry), NEW k \in 1..Len(s)
    PROVE  /\ \A i \in 1..Len(s) : i # k =>
                 /\ Moved(i, k) \in 1..(Len(s) - 1) /\ Moved(i, k) <= i
                 /\ RemoveAt(s, k)[Moved(i, k)] = s[i]
           /\ \A i, j \in 1..Len(s) : i # k /\ j # k /\ i < j => Moved(i, k) < Moved(j, k)
           /\ \A m \in 1..(Len(s) - 1) : \E i \in 1..Len(s) : i # k /\ m = Moved(i, k)
<1>1. Len(s) \in Nat
  OBVIOUS
<1>2. \A i \in 1..Len(s) : i # k => Moved(i, k) \in 1..(Len(s) - 1) /\ Moved(i, k) <= i
  BY <1>1 DEF Moved
<1>3. \A i, j \in 1..Len(s) : i # k /\ j # k /\ i < j => Moved(i, k) < Moved(j, k)
  BY <1>1 DEF Moved
<1>4. ASSUME NEW i \in 1..Len(s), i # k
      PROVE  RemoveAt(s, k)[Moved(i, k)] = s[i]
  <2>1. CASE i < k
    <3>1. Moved(i, k) = i /\ i \in 1..(Len(s) - 1)
      BY <1>1, <2>1 DEF Moved
    <3>2. QED
      BY <2>1, <3>1, ElementRemoved
  <2>2. CASE ~(i < k)
    <3>1. Moved(i, k) = i - 1 /\ i - 1 \in 1..(Len(s) - 1) /\ ~(i - 1 < k) /\ (i - 1) + 1 = i
      BY <1>1, <1>4, <2>2 DEF Moved
    <3>2. RemoveAt(s, k)[i - 1] = s[(i - 1) + 1]
      BY <3>1, ElementRemoved
    <3>3. QED
      BY <3>1, <3>2
  <2>3. QED
    BY <2>1, <2>2
<1>5. ASSUME NEW m \in 1..(Len(s) - 1)
      PROVE  \E i \in 1..Len(s) : i # k /\ m = Moved(i, k)
  <2>1. CASE m < k
    <3>1. m \in 1..Len(s) /\ m # k /\ m = Moved(m, k)
      BY <1>1, <2>1 DEF Moved
    <3>2. QED
      BY <3>1
  <2>2. CASE ~(m < k)
    <3>1. m + 1 \in 1..Len(s) /\ m + 1 # k /\ m = Moved(m + 1, k)
      BY <1>1, <2>2 DEF Moved
    <3>2. QED
      BY <3>1
  <2>3. QED
    BY <2>1, <2>2
<1>6. QED
  BY <1>2, <1>3, <1>4, <1>5

\* The list without its n-th is that of the file without that entry, if the others
\* keep their order.
LEMMA RemovedFrom ==
    ASSUME Numbered, NEW s \in Seq(Entry), NEW n \in 1..Len(s),
           NEW k \in 1..Len(s), k = Ranked(DOMAIN s, OrderOf(s))[n],
           NEW t, t = RemoveAt(s, k),
           \A i, j \in 1..Len(s) : i # k /\ j # k /\ Before(s, i, j) => Before(t, Moved(i, k), Moved(j, k))
    PROVE  Listing(t) = RemoveAt(Listing(s), n)
<1> DEFINE g == Ranked(DOMAIN s, OrderOf(s))
           N == Len(s)
           Other(m) == IF m < n THEN m ELSE m + 1
           f == [m \in 1..(N - 1) |-> Moved(g[Other(m)], k)]
<1>1. /\ t \in Seq(Entry) /\ Len(t) = N - 1
      /\ \A i \in 1..N : i # k => t[Moved(i, k)] = s[i]
  BY ElementRemoved, MovedTo
<1>2. N \in Nat /\ DOMAIN s = 1..N /\ DOMAIN t = 1..(N - 1) /\ Cardinality(DOMAIN t) = N - 1
  BY <1>1, Order
<1>3. /\ Enumerates(g, DOMAIN s, OrderOf(s)) /\ g \in [1..N -> 1..N]
      /\ Cardinality(DOMAIN s) = N
      /\ \A m \in 1..N : Listing(s)[m] = s[g[m]]
      /\ Listing(s) \in Seq(Entry) /\ Len(Listing(s)) = N
      /\ g[n] = k
  BY Listings, Order
<1> HIDE DEF g
<1>4. \A m \in 1..N : m # n => g[m] \in 1..N /\ g[m] # k
  <2>1. TAKE m \in 1..N
  <2>2. HAVE m # n
  <2>3. m < n \/ n < m
    BY <1>2, <2>2
  <2>4. <<g[m], g[n]>> \in OrderOf(s) \/ <<g[n], g[m]>> \in OrderOf(s)
    BY <1>3, <2>3 DEF Enumerates
  <2>5. g[m] \in 1..N
    BY <1>3
  <2>6. <<k, k>> \notin OrderOf(s)
    BY <1>2, Order DEF StrictOrder
  <2>7. QED
    BY <1>3, <2>4, <2>5, <2>6
<1>5. \A m \in 1..(N - 1) : Other(m) \in 1..N /\ Other(m) # n
  BY <1>2
<1>6. \A l, m \in 1..(N - 1) : l < m => Other(l) < Other(m)
  BY <1>2
<1>7. \A i \in 1..N : i # n => \E m \in 1..(N - 1) : Other(m) = i
  <2>1. TAKE i \in 1..N
  <2>2. HAVE i # n
  <2>3. CASE i < n
    <3>1. i \in 1..(N - 1) /\ Other(i) = i
      BY <1>2, <2>3
    <3>2. QED
      BY <3>1
  <2>4. CASE ~(i < n)
    <3>1. i - 1 \in 1..(N - 1) /\ Other(i - 1) = i
      BY <1>2, <2>2, <2>4
    <3>2. QED
      BY <3>1
  <2>5. QED
    BY <2>3, <2>4
<1>8. \A m \in 1..N - 1 : Listing(s)[Other(m)] = RemoveAt(Listing(s), n)[m]
  BY <1>3, ElementRemoved
<1> HIDE DEF Other
<1>9. \A m \in 1..(N - 1) : f[m] = Moved(g[Other(m)], k) /\ g[Other(m)] \in 1..N /\ g[Other(m)] # k
  BY <1>4, <1>5
<1>10. f \in [1..(N - 1) -> 1..(N - 1)]
  <2>1. \A m \in 1..(N - 1) : Moved(g[Other(m)], k) \in 1..(N - 1)
    BY <1>9, MovedTo
  <2>2. QED
    BY <2>1
<1> HIDE DEF f
<1>11. \A j \in 1..(N - 1) : \E m \in 1..(N - 1) : f[m] = j
  <2>1. TAKE j \in 1..(N - 1)
  <2>2. PICK i \in 1..N : i # k /\ j = Moved(i, k)
    BY MovedTo
  <2>3. PICK m \in 1..N : g[m] = i
    BY <1>2, <1>3 DEF Enumerates
  <2>4. m # n
    BY <1>3, <2>2, <2>3
  <2>5. PICK l \in 1..(N - 1) : Other(l) = m
    BY <1>7, <2>4
  <2>6. f[l] = j
    BY <1>9, <2>2, <2>3, <2>5
  <2>7. QED
    BY <2>6
<1>12. \A l, m \in 1..(N - 1) : l < m => <<f[l], f[m]>> \in OrderOf(t)
  <2>1. TAKE l, m \in 1..(N - 1)
  <2>2. HAVE l < m
  <2>3. Other(l) \in 1..N /\ Other(m) \in 1..N /\ Other(l) < Other(m)
    BY <1>5, <1>6, <2>2
  <2>4. <<g[Other(l)], g[Other(m)]>> \in OrderOf(s)
    BY <1>3, <2>3 DEF Enumerates
  <2>5. Before(s, g[Other(l)], g[Other(m)])
    BY <1>2, <1>9, <2>4, Order
  <2>6. Before(t, f[l], f[m])
    BY <1>9, <2>5
  <2>7. f[l] \in DOMAIN t /\ f[m] \in DOMAIN t
    BY <1>2, <1>10
  <2>8. QED
    BY <1>1, <2>6, <2>7, Order
<1>13. Enumerates(f, DOMAIN t, OrderOf(t))
  BY <1>2, <1>10, <1>11, <1>12 DEF Enumerates
<1>14. Ranked(DOMAIN t, OrderOf(t)) = f
  BY <1>1, <1>13, Order, OnlyRanked
<1>15. /\ Listing(t) \in Seq(Entry) /\ Len(Listing(t)) = N - 1
       /\ \A m \in 1..(N - 1) : Listing(t)[m] = t[f[m]]
  <2>1. /\ Listing(t) \in Seq(Entry) /\ Len(Listing(t)) = Len(t)
        /\ \A m \in 1..Len(t) : Listing(t)[m] = t[Ranked(DOMAIN t, OrderOf(t))[m]]
    <3>1. t \in Seq(Entry)
      BY <1>1
    <3>2. QED
      BY <3>1, Listings
  <2> HIDE DEF N
  <2>2. Len(t) = N - 1
    BY <1>1
  <2>3. QED
    BY <1>14, <2>1, <2>2
<1>16. RemoveAt(Listing(s), n) \in Seq(Entry) /\ Len(RemoveAt(Listing(s), n)) = N - 1
  BY <1>3, ElementRemoved
<1>17. \A m \in 1..(N - 1) : Listing(t)[m] = RemoveAt(Listing(s), n)[m]
  <2>1. TAKE m \in 1..(N - 1)
  <2>2. t[f[m]] = s[g[Other(m)]]
    BY <1>1, <1>9
  <2>3. Other(m) \in 1..N
    BY <1>5
  <2>4. QED
    BY <1>3, <1>8, <1>15, <2>2, <2>3
<1>18. QED
  BY <1>15, <1>16, <1>17, SeqEqual

\* The next priority is above those there are.
LEMMA NextPriorityAbove ==
    ASSUME Numbered, NEW s \in Seq(Entry)
    PROVE  /\ NextPriority(s) \in Nat /\ NextPriority(s) # Implicit
           /\ \A i \in DOMAIN s : Coerced(s, i) < NextPriority(s)
<1> DEFINE D == DOMAIN s
           T == {Coerced(s, i) : i \in D}
           f == [i \in D |-> Coerced(s, i)]
<1>1. IsFiniteSet(D) /\ \A i \in D : s[i].priority \in Nat /\ PriorityOf(s, i) \in Nat
  BY Order
<1>2. \A i \in D : Coerced(s, i) \in Nat
  BY <1>1 DEF Coerced
<1>3. f \in Surjection(D, T)
  BY DEF Surjection
<1>4. IsFiniteSet(T)
  BY <1>1, <1>3, FS_Surjection
<1>5. T \subseteq Nat /\ \A i \in D : Coerced(s, i) \in T
  BY <1>2
<1> HIDE DEF T, f
<1>6. IsFiniteSet(T \cup {0})
  BY <1>4, FS_AddElement
<1>7. T \cup {0} \in SUBSET Int /\ T \cup {0} # {} /\ T \cup {0} \subseteq Nat
  BY <1>5
<1>8. Max(T \cup {0}) \in Nat /\ \A n \in T \cup {0} : Max(T \cup {0}) >= n
  BY <1>6, <1>7, Greatest
<1>9. NextPriority(s) = 1 + Max(T \cup {0})
  BY DEF NextPriority, T
<1>10. \A i \in D : Coerced(s, i) < NextPriority(s)
  <2>1. TAKE i \in D
  <2>2. Coerced(s, i) \in T \cup {0} /\ Coerced(s, i) \in Nat
    BY <1>2, <1>5
  <2>3. Max(T \cup {0}) >= Coerced(s, i)
    BY <1>8, <2>2
  <2>4. QED
    BY <1>8, <1>9, <2>2, <2>3
<1>11. NextPriority(s) \in Nat /\ NextPriority(s) # Implicit
  BY <1>8, <1>9 DEF Implicit
<1>12. QED
  BY <1>10, <1>11

\* In an ordered file the priorities rise all the way.
LEMMA Rising ==
    ASSUME Numbered, NEW s \in Seq(Entry), Ordered(s)
    PROVE  \A i, j \in DOMAIN s : i < j => s[i].priority < s[j].priority
<1>1. /\ DOMAIN s = 1..Len(s) /\ Len(s) \in Nat /\ IsFiniteSet(DOMAIN s)
      /\ \A i \in DOMAIN s : s[i].priority \in Nat
  BY Order
<1>2. SUFFICES ASSUME NEW i \in DOMAIN s, \E j \in DOMAIN s : i < j /\ ~(s[i].priority < s[j].priority)
               PROVE  FALSE
  OBVIOUS
<1> DEFINE C == {j \in DOMAIN s : i < j /\ ~(s[i].priority < s[j].priority)}
<1>3. C \in SUBSET Int /\ C # {} /\ IsFiniteSet(C)
  <2>1. C \subseteq DOMAIN s
    OBVIOUS
  <2>2. C # {}
    BY <1>2
  <2>3. IsFiniteSet(C)
    BY <1>1, <2>1, FS_Subset
  <2>4. QED
    BY <1>1, <2>1, <2>2, <2>3
<1>4. PICK m \in C : \A j \in C : m <= j
  <2> HIDE DEF C
  <2>1. QED
    BY <1>3, Least
<1>5. m \in DOMAIN s /\ m - 1 \in DOMAIN s /\ m > 1 /\ i <= m - 1 /\ i < m /\ ~(s[i].priority < s[m].priority)
  BY <1>1, <1>4
<1>6. s[m - 1].priority < s[m].priority
  BY <1>5 DEF Ordered
<1>7. m - 1 \notin C
  BY <1>1, <1>4, <1>5
<1>8. m - 1 = i \/ s[i].priority < s[m - 1].priority
  BY <1>1, <1>5, <1>7
<1>9. QED
  BY <1>1, <1>5, <1>6, <1>8

\* Such a file is listed as it is.
LEMMA OrderedListing ==
    ASSUME Numbered, kind # "integration", NEW s \in Seq(Entry), Ordered(s), NEW n \in 1..Len(s)
    PROVE  Ranked(DOMAIN s, OrderOf(s))[n] = n
<1> DEFINE f == [i \in 1..Len(s) |-> i]
<1>1. /\ DOMAIN s = 1..Len(s) /\ Len(s) \in Nat /\ Cardinality(DOMAIN s) = Len(s)
  BY Order
<1>2. \A i \in DOMAIN s : s[i].priority # Implicit /\ PriorityOf(s, i) = s[i].priority
  BY DEF Ordered, PriorityOf
<1>3. \A i, j \in DOMAIN s : i < j => <<i, j>> \in OrderOf(s)
  BY <1>2, Rising, Order
<1>4. Enumerates(f, DOMAIN s, OrderOf(s))
  BY <1>1, <1>3 DEF Enumerates
<1>5. Ranked(DOMAIN s, OrderOf(s)) = f
  BY <1>4, Order, OnlyRanked
<1>6. QED
  BY <1>5

LEMMA AppendsInOrder ==
    ASSUME Numbered, NEW s \in Seq(Entry), NEW e \in Entry, e.priority = NextPriority(s), NEW t, t = Append(s, e),
           IF kind = "integration" THEN Settled(s) ELSE Ordered(s)
    PROVE  /\ Listing(t) = Append(Listing(s), e)
           /\ IF kind = "integration" THEN Settled(t) ELSE Ordered(t)
<1> DEFINE N == Len(s)
<1>1. /\ t \in Seq(Entry) /\ Len(t) = N + 1 /\ t[N + 1] = e
      /\ \A i \in 1..N : t[i] = s[i]
  BY AppendProperties
<1>2. N \in Nat /\ DOMAIN s = 1..N /\ DOMAIN t = 1..(N + 1)
      /\ \A i \in 1..N : s[i].priority \in Nat /\ PriorityOf(s, i) \in Nat
  BY <1>1, Order
<1>3. /\ NextPriority(s) \in Nat /\ NextPriority(s) # Implicit
      /\ \A i \in 1..N : Coerced(s, i) < NextPriority(s)
  BY <1>2, NextPriorityAbove
<1>4. \A i \in 1..N : Coerced(s, i) = PriorityOf(s, i)
  BY <1>2 DEF Coerced, PriorityOf, Ordered
<1>5. /\ \A i \in 1..N : PriorityOf(t, i) = PriorityOf(s, i)
      /\ PriorityOf(t, N + 1) = NextPriority(s)
  BY <1>1, <1>3 DEF PriorityOf
<1> HIDE DEF N
<1>6. \A i \in 1..N : Before(t, i, N + 1)
  <2>1. TAKE i \in 1..N
  <2>2. PriorityOf(t, i) < PriorityOf(t, N + 1)
    BY <1>3, <1>4, <1>5
  <2>3. QED
    BY <2>2 DEF Before
<1>7. \A i, j \in 1..N : Before(s, i, j) => Before(t, i, j)
  BY <1>5 DEF Before, Numbered
<1>8. Listing(t) = Append(Listing(s), e)
  BY <1>1, <1>2, <1>6, <1>7, AppendedLast
<1>9. CASE kind = "integration"
  <2>1. ASSUME NEW i \in 1..(N + 1), NEW j \in 1..(N + 1), t[i].priority = Implicit, t[j].priority # Implicit
        PROVE  i < j /\ i < t[j].priority
    <3>1. i \in 1..N /\ s[i].priority = Implicit
      BY <1>1, <1>2, <1>3, <2>1
    <3>2. CASE j = N + 1
      <4>1. PriorityOf(s, i) = i
        BY <3>1 DEF PriorityOf
      <4>2. QED
        BY <1>1, <1>2, <1>3, <1>4, <3>1, <3>2, <4>1
    <3>3. CASE j # N + 1
      <4>1. j \in 1..N
        BY <1>2, <3>3
      <4>2. QED
        BY <1>1, <1>2, <1>9, <2>1, <3>1, <4>1 DEF Settled
    <3>4. QED
      BY <3>2, <3>3
  <2>2. QED
    BY <1>2, <1>8, <1>9, <2>1 DEF Settled
<1>10. CASE kind # "integration"
  <2>1. ASSUME NEW i \in 1..(N + 1)
        PROVE  t[i].priority # Implicit /\ (i > 1 => t[i - 1].priority < t[i].priority)
    <3>1. CASE i = N + 1
      <4>1. N \in 1..N => Coerced(s, N) = s[N].priority
        BY <1>10 DEF Coerced
      <4>2. i > 1 => i - 1 = N /\ N \in 1..N
        BY <1>2, <3>1
      <4>3. QED
        BY <1>1, <1>3, <3>1, <4>1, <4>2
    <3>2. CASE i # N + 1
      <4>1. i \in 1..N /\ (i > 1 => i - 1 \in 1..N)
        BY <1>2, <3>2
      <4>2. QED
        BY <1>1, <1>2, <1>10, <4>1 DEF Ordered
    <3>3. QED
      BY <3>1, <3>2
  <2>2. QED
    BY <1>2, <1>8, <1>10, <2>1 DEF Ordered
<1>11. QED
  BY <1>9, <1>10

LEMMA RemovalsInOrder ==
    ASSUME Numbered, NEW s \in Seq(Entry), NEW n \in 1..Len(s), NEW k,
           k = IF kind = "integration" THEN Ranked(DOMAIN s, OrderOf(s))[n] ELSE n,
           NEW t, t = RemoveAt(s, k),
           IF kind = "integration" THEN Settled(s) ELSE Ordered(s)
    PROVE  /\ k \in 1..Len(s)
           /\ Listing(t) = RemoveAt(Listing(s), n)
           /\ IF kind = "integration" THEN Settled(t) ELSE Ordered(t)
<1> DEFINE N == Len(s)
           to(i) == Moved(i, k)
<1>1. /\ DOMAIN s = 1..N /\ N \in Nat
      /\ \A i \in 1..N : s[i].priority \in Nat /\ PriorityOf(s, i) \in Nat
      /\ \A i, j \in 1..N : Before(s, i, j) <=>
            \/ PriorityOf(s, i) < PriorityOf(s, j)
            \/ PriorityOf(s, i) = PriorityOf(s, j) /\ i < j
  BY Order
<1>2. k \in 1..N /\ k = Ranked(DOMAIN s, OrderOf(s))[n]
  BY Listings, OrderedListing
<1>3. /\ t \in Seq(Entry) /\ Len(t) = N - 1 /\ DOMAIN t = 1..(N - 1)
      /\ \A i \in 1..N : i # k => to(i) \in 1..(N - 1) /\ to(i) <= i /\ t[to(i)] = s[i]
      /\ \A i, j \in 1..N : i # k /\ j # k /\ i < j => to(i) < to(j)
      /\ \A m \in 1..(N - 1) : \E i \in 1..N : i # k /\ m = to(i)
  <2>1. t \in Seq(Entry) /\ Len(t) = N - 1
    BY <1>2, ElementRemoved
  <2>2. DOMAIN t = 1..(N - 1)
    BY <2>1
  <2>3. QED
    BY <1>2, <2>1, <2>2, MovedTo
<1>4. \A i, j \in 1..(N - 1) : Before(t, i, j) <=>
         \/ PriorityOf(t, i) < PriorityOf(t, j)
         \/ PriorityOf(t, i) = PriorityOf(t, j) /\ i < j
  <2>1. t \in Seq(Entry)
    BY <1>3
  <2>2. \A i, j \in DOMAIN t : Before(t, i, j) <=>
           \/ PriorityOf(t, i) < PriorityOf(t, j)
           \/ PriorityOf(t, i) = PriorityOf(t, j) /\ i < j
    BY <2>1, Order
  <2>3. QED
    BY <1>3, <2>2
<1>5. \A i \in 1..N : i # k => PriorityOf(t, to(i)) = IF s[i].priority = Implicit THEN to(i) ELSE s[i].priority
  BY <1>3 DEF PriorityOf
<1>6. \A i \in 1..N : PriorityOf(s, i) = IF s[i].priority = Implicit THEN i ELSE s[i].priority
  BY DEF PriorityOf
<1> HIDE DEF N, to
<1>7. CASE kind = "integration"
  <2>1. \A i, j \in 1..N : s[i].priority = Implicit /\ s[j].priority # Implicit => i < j /\ i < s[j].priority
    BY <1>1, <1>7 DEF Settled
  <2>2. ASSUME NEW i \in 1..N, NEW j \in 1..N, i # k, j # k, Before(s, i, j)
        PROVE  Before(t, to(i), to(j))
    <3>1. /\ to(i) \in 1..(N - 1) /\ to(i) <= i /\ to(j) \in 1..(N - 1)
          /\ i < j => to(i) < to(j)
      BY <1>3, <2>2
    <3>2. \/ PriorityOf(s, i) < PriorityOf(s, j)
          \/ PriorityOf(s, i) = PriorityOf(s, j) /\ i < j
      BY <1>1, <2>2
    <3>3. \/ PriorityOf(t, to(i)) < PriorityOf(t, to(j))
          \/ PriorityOf(t, to(i)) = PriorityOf(t, to(j)) /\ to(i) < to(j)
      <4>1. CASE s[i].priority = Implicit /\ s[j].priority = Implicit
        BY <1>1, <1>5, <1>6, <2>2, <3>1, <3>2, <4>1
      <4>2. CASE s[i].priority # Implicit /\ s[j].priority # Implicit
        BY <1>1, <1>5, <1>6, <2>2, <3>1, <3>2, <4>2
      <4>3. CASE s[i].priority = Implicit /\ s[j].priority # Implicit
        BY <1>1, <1>5, <1>6, <2>1, <2>2, <3>1, <4>3
      <4>4. CASE s[i].priority # Implicit /\ s[j].priority = Implicit
        BY <1>1, <1>6, <2>1, <3>2, <4>4
      <4>5. QED
        BY <4>1, <4>2, <4>3, <4>4
    <3>4. QED
      BY <1>4, <3>1, <3>3
  <2>3. Listing(t) = RemoveAt(Listing(s), n)
    BY <1>2, <2>2, RemovedFrom DEF N, to
  <2>4. ASSUME NEW l \in 1..(N - 1), NEW m \in 1..(N - 1), t[l].priority = Implicit, t[m].priority # Implicit
        PROVE  l < m /\ l < t[m].priority
    <3>1. PICK i \in 1..N : i # k /\ l = to(i)
      BY <1>3
    <3>2. PICK j \in 1..N : j # k /\ m = to(j)
      BY <1>3
    <3>3. t[l] = s[i] /\ t[m] = s[j] /\ l <= i
      BY <1>3, <3>1, <3>2
    <3>4. i < j /\ i < s[j].priority
      BY <2>1, <2>4, <3>3
    <3>5. l < m
      BY <1>3, <3>1, <3>2, <3>4
    <3>6. QED
      BY <1>1, <3>3, <3>4, <3>5
  <2>5. QED
    BY <1>2, <1>3, <1>7, <2>3, <2>4 DEF Settled, N
<1>8. CASE kind # "integration"
  <2>1. Ordered(s) /\ \A i \in 1..N : s[i].priority # Implicit
    BY <1>1, <1>8 DEF Ordered
  <2>2. \A i, j \in 1..N : i < j => s[i].priority < s[j].priority
    BY <1>1, <2>1, Rising
  <2>3. ASSUME NEW i \in 1..N, NEW j \in 1..N, i # k, j # k, Before(s, i, j)
        PROVE  Before(t, to(i), to(j))
    <3>1. PriorityOf(t, to(i)) = PriorityOf(s, i) /\ PriorityOf(t, to(j)) = PriorityOf(s, j)
      BY <1>5, <1>6, <2>1, <2>3
    <3>2. to(i) \in 1..(N - 1) /\ to(j) \in 1..(N - 1) /\ (i < j => to(i) < to(j))
      BY <1>3, <2>3
    <3>3. QED
      BY <1>1, <1>4, <2>3, <3>1, <3>2
  <2>4. Listing(t) = RemoveAt(Listing(s), n)
    BY <1>2, <2>3, RemovedFrom DEF N, to
  <2>5. ASSUME NEW m \in 1..(N - 1)
        PROVE  t[m].priority # Implicit /\ (m > 1 => t[m - 1].priority < t[m].priority)
    <3>1. PICK i \in 1..N : i # k /\ m = to(i)
      BY <1>3
    <3>2. t[m] = s[i]
      BY <1>3, <3>1
    <3>3. ASSUME m > 1 PROVE t[m - 1].priority < t[m].priority
      <4>1. m - 1 \in 1..(N - 1)
        BY <1>1, <3>3
      <4>2. PICK j \in 1..N : j # k /\ m - 1 = to(j)
        BY <1>3, <4>1
      <4>3. t[m - 1] = s[j]
        BY <1>3, <4>2
      <4>4. j # i /\ ~(i < j)
        <5>1. i < j => m < m - 1
          BY <1>3, <3>1, <4>2
        <5>2. m # m - 1 /\ ~(m < m - 1)
          BY <1>1, <4>1
        <5>3. QED
          BY <3>1, <4>2, <5>1, <5>2
      <4>5. j < i
        BY <1>1, <4>4
      <4>6. QED
        BY <2>2, <3>2, <4>3, <4>5
    <3>4. QED
      BY <2>1, <3>2, <3>3
  <2>6. QED
    BY <1>2, <1>3, <1>8, <2>4, <2>5 DEF Ordered, N
<1>9. QED
  BY <1>7, <1>8

LEMMA AppendedAsListed ==
    ASSUME TypeOK, InOrder(config), NEW u \in Urls, AppendSource(u)
    PROVE  Listed(config') = Append(Listed(config), config'[Len(config')]) /\ InOrder(config')
<1> DEFINE s == Entries(config)
           e == [url |-> u, priority |-> NextPriority(s), allowed |-> TRUE]
           t == Append(s, e)
<1>1. config \in Seq(Entry) \cup {None} /\ Numbered
  BY DEF TypeOK, AppendSource, Numbered
<1>2. s \in Seq(Entry) /\ Listed(config) = Listing(s)
  BY <1>1, ListedIs
<1>3. e \in Entry /\ e.priority = NextPriority(s)
  BY <1>1, <1>2, NextPriorityAbove DEF Entry
<1>4. config' = t
  BY DEF AppendSource
<1>5. IF kind = "integration" THEN Settled(s) ELSE Ordered(s)
  BY DEF InOrder
<1> HIDE DEF s, e
<1>6. /\ t \in Seq(Entry) /\ t[Len(t)] = e
  BY <1>2, <1>3, AppendProperties
<1>7. /\ Listing(t) = Append(Listing(s), e)
      /\ IF kind = "integration" THEN Settled(t) ELSE Ordered(t)
  BY <1>1, <1>2, <1>3, <1>5, AppendsInOrder
<1> HIDE DEF t
<1>8. Listed(t) = Listing(t) /\ Entries(t) = t
  BY <1>1, <1>6, ListedIs, NoneAssumption
<1>9. QED
  BY <1>2, <1>4, <1>6, <1>7, <1>8 DEF InOrder

LEMMA RemovedAsListed ==
    ASSUME TypeOK, InOrder(config), NEW n \in DOMAIN Entries(config), RemoveSource(n)
    PROVE  Listed(config') = RemoveAt(Listed(config), n) /\ InOrder(config')
<1>1. config \in Seq(Entry) \cup {None} /\ Numbered
  BY DEF TypeOK, RemoveSource, Numbered
<1>2. config # None
  BY DEF Entries, Used
<1> DEFINE s == config
           k == Position(n)
           t == RemoveAt(s, k)
<1>3. s \in Seq(Entry) /\ Entries(s) = s /\ Listed(s) = Listing(s) /\ Shown(s) = Ranked(DOMAIN s, OrderOf(s))
  BY <1>1, <1>2, ListedIs
<1>4. n \in 1..Len(s)
  BY <1>3
<1>5. k = IF kind = "integration" THEN Ranked(DOMAIN s, OrderOf(s))[n] ELSE n
  BY <1>3 DEF Position
<1>6. IF kind = "integration" THEN Settled(s) ELSE Ordered(s)
  BY <1>3 DEF InOrder
<1>7. config' = Without(s, k)
  BY DEF RemoveSource
<1> HIDE DEF s, k
<1>8. /\ k \in 1..Len(s) /\ Listing(t) = RemoveAt(Listing(s), n)
      /\ IF kind = "integration" THEN Settled(t) ELSE Ordered(t)
  BY <1>1, <1>3, <1>4, <1>5, <1>6, RemovalsInOrder
<1>9. t \in Seq(Entry) /\ Len(t) = Len(s) - 1
  BY <1>3, <1>8, ElementRemoved
<1> HIDE DEF t
<1>10. Listed(t) = Listing(t) /\ Entries(t) = t
  BY <1>1, <1>9, ListedIs, NoneAssumption
<1>11. CASE config' = t
  BY <1>3, <1>6, <1>8, <1>10, <1>11 DEF InOrder, s
<1>12. CASE config' # t
  <2>1. config' = None /\ Len(s) = 1
    BY <1>7, <1>12 DEF Without, t
  <2>2. t = <<>>
    BY <1>9, <2>1
  <2>3. Listed(None) = Listing(<<>>) /\ Entries(None) = <<>>
    BY <1>1, ListedIs
  <2>4. QED
    BY <1>3, <1>8, <1>10, <2>1, <2>2, <2>3 DEF InOrder, s
<1>13. QED
  BY <1>11, <1>12

\* A source that is added is the last of the list the user is shown, and the one
\* that is removed is the one with the number given, and the others keep their
\* order, again and again, for every file in which the sources without a priority
\* come first, in the file and in the list (workflows and steps: for a file in order).
THEOREM EditsAsListed == Spec => ConfigAsListed
<1>1. ASSUME TypeOK
      PROVE  [InOrder(config) =>
                /\ \A u \in Urls : AppendSource(u) =>
                      /\ Listed(config') = Append(Listed(config), config'[Len(config')])
                      /\ InOrder(config')
                /\ \A n \in DOMAIN Entries(config) : RemoveSource(n) =>
                      /\ Listed(config') = RemoveAt(Listed(config), n)
                      /\ InOrder(config')]_config
  BY <1>1, AppendedAsListed, RemovedAsListed
<1>2. QED
  BY <1>1, TypeCorrect, PTL DEF ConfigAsListed

=============================================================================
