------------------------------ MODULE Catalogs ------------------------------
(***************************************************************************)
(* The catalogs that extensions, presets, workflows, step types,           *)
(* integrations and bundles are looked up in: which sources are asked      *)
(* (specify_cli/catalogs.py and a get_active_catalogs per kind), what is   *)
(* kept of their answers in a cache, how the answers are merged, what may  *)
(* be installed from them, and the commands that add and remove a source.  *)
(*                                                                         *)
(* The six kinds do the same with small differences and share nothing, so  *)
(* a behaviour is about one kind.  A source is named by its url.  Time is  *)
(* counted in ticks; a command takes much less than one.                   *)
(***************************************************************************)
EXTENDS Integers, FiniteSetsExt, SequencesExt

CONSTANTS
    Urls, Default, Community,   \* sources, and the two that are built in
    Rank,           \* the order of the ids of bundle sources
    Items,          \* what is looked up
    Lists,          \* Lists[u]: the items that source u offers
    Duration,       \* CACHE_DURATION, in ticks
    Priorities,     \* those a user gives
    Written,        \* Written[k]: project files of kind k as a user writes them
    UserFiles,      \* files in the user's home
    None,
    MaxTime, MaxActs, MaxFaults     \* bounds of the model

Kinds == {"extension", "preset", "workflow", "step", "integration", "bundle"}

\* An entry without a priority has the place in the file for one.
Implicit == 0

Entry == [url : Urls, priority : Nat, allowed : BOOLEAN]

ASSUME UrlsAssumption == {Default, Community} \subseteq Urls
ASSUME TimeAssumption == Duration \in Nat \ {0} /\ MaxTime \in Nat
ASSUME NoneAssumption == None \notin Entry /\ None \notin Seq(Entry) /\ None \notin Urls
ASSUME EntryAssumption ==
    /\ Priorities \subseteq Nat
    /\ Written \in [Kinds -> SUBSET Seq(Entry)]
    /\ UserFiles \subseteq Seq(Entry)

\* Neither file, and one cut short.
Absent == -1
Torn == -2

VARIABLES
    kind,
    config,     \* the project's file: None or the entries, <<>> when cut short
    user,       \* the user's file
    cache,      \* per source, when the content and the stamp were fetched
    time,
    pc,
    item,
    round,      \* first or second look at the catalogs in one command
    stack,      \* the active sources
    left,       \* the indices of those still to be asked
    heard,      \* the answers: from whom, of when, and whether in place of a failure
    won,        \* the index of the source of the merged entry
    installed,  \* the item and the entry it was installed from
    acts, faults

storeVars == <<config, user, cache>>
lookupVars == <<pc, item, round, stack, left, heard, won>>
vars == <<kind, storeVars, time, lookupVars, installed, acts, faults>>

Stamp == Nat \cup {Absent, Torn}

\* The variables hold what they are meant to hold.
TypeOK ==
    /\ kind \in Kinds
    /\ config \in Seq(Entry) \cup {None}
    /\ user \in Seq(Entry) \cup {None}
    /\ cache \in [Urls -> [content : Stamp, stamp : Stamp]]
    /\ time \in Nat
    /\ pc \in {"idle", "ask", "choose"}
    /\ item \in Items \cup {None}
    /\ round \in {1, 2}
    /\ stack \in Seq(Entry)
    /\ left \subseteq DOMAIN stack
    /\ heard \subseteq [from : DOMAIN stack, at : Nat, failed : BOOLEAN]
    /\ won \in DOMAIN stack \cup {0}
    /\ installed \subseteq [item : Items, from : Entry]
    /\ acts \in Nat
    /\ faults \in Nat

Init ==
    /\ kind \in Kinds
    /\ config \in Written[kind] \cup {None}
    /\ user \in UserFiles \cup {None}
    /\ cache = [u \in Urls |-> [content |-> Absent, stamp |-> Absent]]
    /\ time = 0
    /\ pc = "idle"
    /\ item = None
    /\ round = 1
    /\ stack = <<>>
    /\ left = {}
    /\ heard = {}
    /\ won = 0
    /\ installed = {}
    /\ acts = 0
    /\ faults = 0

-----------------------------------------------------------------------------
(* The active sources *)

\* These refuse a file that lists nothing; the others take it for no file.
FailsClosed == kind \in {"extension", "integration"}

Unreadable(file) == file = <<>> /\ FailsClosed

Used(file) == file \notin {None, <<>>}

Builtin ==
    <<[url |-> Default, priority |-> 1, allowed |-> TRUE],
      [url |-> Community, priority |-> 2, allowed |-> FALSE]>>

Entries(file) == IF Used(file) THEN file ELSE <<>>

Sources(file) == {file[i].url : i \in DOMAIN file}

\* The elements of I in the order R, and the part of a file at the indices I.
Ranked(I, R) ==
    [n \in 1..Cardinality(I) |-> CHOOSE i \in I : Cardinality({j \in I : <<j, i>> \in R}) = n - 1]

Only(file, I) ==
    [n \in 1..Cardinality(I) |-> file[Ranked(I, {p \in I \X I : p[1] < p[2]})[n]]]

\* The sources of bundles add up: an entry replaces the one of that id in a
\* wider scope.
Overlay(base, file) ==
    Only(base, {i \in DOMAIN base : base[i].url \notin Sources(file)}) \o file

\* The first of the environment, the project, the user and the defaults.
Active(env) ==
    IF kind = "bundle" THEN Overlay(Overlay(Builtin, Entries(user)), Entries(config))
    ELSE IF env # None THEN <<[url |-> env, priority |-> 1, allowed |-> TRUE]>>
    ELSE IF Used(config) THEN config
    ELSE IF Used(user) THEN user
    ELSE Builtin

Refused(env) ==
    env = None /\ (Unreadable(config) \/ (config = None /\ Unreadable(user)))

PriorityOf(file, i) == IF file[i].priority = Implicit THEN i ELSE file[i].priority

\* Sorted by priority, and as in the file where that does not tell.
Before(file, i, j) ==
    \/ PriorityOf(file, i) < PriorityOf(file, j)
    \/ /\ PriorityOf(file, i) = PriorityOf(file, j)
       /\ IF kind = "bundle" THEN Rank[file[i].url] < Rank[file[j].url] ELSE i < j

-----------------------------------------------------------------------------
(* A lookup *)

\* The first answer that has the item stands, or the last one.
FirstStands == kind \in {"extension", "integration", "bundle"}

AskedNext(i) ==
    /\ i \in left
    /\ \A j \in left \ {i} : IF FirstStands THEN Before(stack, i, j) ELSE Before(stack, j, i)

LookUp(x, env) ==
    /\ pc = "idle"
    /\ acts < MaxActs
    /\ kind = "bundle" => env = None
    /\ ~Refused(env)
    /\ acts' = acts + 1
    /\ item' = x
    /\ stack' = Active(env)
    /\ left' = DOMAIN Active(env)
    /\ round' = 1
    /\ heard' = {}
    /\ won' = 0
    /\ pc' = "ask"
    /\ UNCHANGED <<kind, storeVars, time, installed, faults>>

\* Bundles are looked up until one source has it; the rest asks them all.
Merge(i, at, failed) ==
    LET has == item \in Lists[stack[i].url] IN
    /\ heard' = heard \cup {[from |-> i, at |-> at, failed |-> failed]}
    /\ won' = IF has /\ (won = 0 \/ ~FirstStands) THEN i ELSE won
    /\ left' = IF kind = "bundle" /\ has THEN {} ELSE left \ {i}
    /\ pc' = IF left' = {} THEN "choose" ELSE "ask"
    /\ UNCHANGED <<item, round, stack>>

Skip(i) ==
    /\ left' = left \ {i}
    /\ pc' = IF left' = {} THEN "choose" ELSE "ask"
    /\ UNCHANGED <<item, round, stack, heard, won>>

End ==
    /\ pc' = "idle"
    /\ item' = None
    /\ round' = 1
    /\ stack' = <<>>
    /\ left' = {}
    /\ heard' = {}
    /\ won' = 0

Asking(i) == pc = "ask" /\ AskedNext(i)

Fresh(u) == cache[u].stamp >= 0 /\ time - cache[u].stamp < Duration

Usable(u) == kind # "bundle" /\ Fresh(u) /\ cache[u].content >= 0

AnswerFromCache ==
    \E i \in DOMAIN stack :
        /\ Asking(i)
        /\ Usable(stack[i].url)
        /\ Merge(i, cache[stack[i].url].content, FALSE)
        /\ UNCHANGED <<kind, storeVars, time, installed, acts, faults>>

Fetching(i) == Asking(i) /\ ~Usable(stack[i].url)

\* integrations delete a cache that they cannot read.
Kept(u) ==
    IF kind = "integration" /\ (cache[u].stamp = Torn \/ (Fresh(u) /\ cache[u].content = Torn))
    THEN [content |-> Absent, stamp |-> Absent]
    ELSE cache[u]

\* The bug of writing the stamp first.
Half_StampFirst(old) ==
    {old, [old EXCEPT !.stamp = Torn], [old EXCEPT !.stamp = time],
     [content |-> Torn, stamp |-> time]}

\* The content is written first, then the stamp.
Half(old) ==
    {old, [old EXCEPT !.content = Torn], [old EXCEPT !.content = time],
     [content |-> time, stamp |-> Torn]}

Whole == [content |-> time, stamp |-> time]

\* The source answers, and its answer is kept for the next time.
AnswerFromSource ==
    \E i \in DOMAIN stack :
        LET u == stack[i].url IN
        /\ Fetching(i)
        /\ Merge(i, time, FALSE)
        /\ cache' = IF kind = "bundle" THEN cache ELSE [cache EXCEPT ![u] = Whole]
        /\ UNCHANGED <<kind, config, user, time, installed, acts, faults>>

\* The answer cannot be written down, which does not matter ...
NotKept ==
    \E i \in DOMAIN stack :
        LET u == stack[i].url IN
        /\ Fetching(i)
        /\ kind # "bundle"
        /\ faults < MaxFaults
        /\ faults' = faults + 1
        /\ Merge(i, time, FALSE)
        /\ \E c \in Half(Kept(u)) : cache' = [cache EXCEPT ![u] = c]
        /\ UNCHANGED <<kind, config, user, time, installed, acts>>

\* ... or the process dies while it is written.
DieKeeping ==
    \E i \in DOMAIN stack :
        LET u == stack[i].url IN
        /\ Fetching(i)
        /\ kind # "bundle"
        /\ faults < MaxFaults
        /\ faults' = faults + 1
        /\ End
        /\ \E c \in Half(Kept(u)) : cache' = [cache EXCEPT ![u] = c]
        /\ UNCHANGED <<kind, config, user, time, installed, acts>>

Failures == {"no connection", "not JSON", "wrong shape", "cut off"}

\* A connection that is cut off while the answer is read raises an error that
\* these do not catch; bundles stop at any failure.
Escapes(f) == kind = "bundle" \/ (f = "cut off" /\ kind \in {"extension", "integration"})

\* An old answer is better than none, where nothing came back.
FallsBack(u, f) ==
    kind \in {"workflow", "step"} /\ f # "wrong shape" /\ cache[u].content >= 0

SourceFails ==
    \E i \in DOMAIN stack, f \in Failures :
        LET u == stack[i].url IN
        /\ Fetching(i)
        /\ IF Escapes(f) THEN End
           ELSE IF FallsBack(u, f) THEN Merge(i, cache[u].content, TRUE)
           ELSE Skip(i)
        /\ cache' = [cache EXCEPT ![u] = Kept(u)]
        /\ UNCHANGED <<kind, config, user, time, installed, acts, faults>>

-----------------------------------------------------------------------------
(* An installation *)

\* Extensions and presets are looked up once to be shown and checked, and a
\* second time to be downloaded.
LooksTwice == kind \in {"extension", "preset"}

\* The bug of a download that trusts the check of the first look.
Checked_Once == round = 1

\* The second look of an extension is not checked.
Checked == ~(kind = "extension" /\ round = 2)

MayInstall == won # 0 /\ (Checked => stack[won].allowed)

\* No source answered, none has the item, or the one that stands does not allow
\* it.  Integrations are only shown.
TurnDown ==
    /\ pc = "choose"
    /\ ~MayInstall \/ kind = "integration"
    /\ End
    /\ UNCHANGED <<kind, storeVars, time, installed, acts, faults>>

LookAgain ==
    /\ pc = "choose"
    /\ MayInstall
    /\ LooksTwice /\ round = 1
    /\ round' = 2
    /\ left' = DOMAIN stack
    /\ heard' = {}
    /\ won' = 0
    /\ pc' = "ask"
    /\ UNCHANGED <<kind, storeVars, time, item, stack, installed, acts, faults>>

Install ==
    /\ pc = "choose"
    /\ MayInstall
    /\ kind # "integration"
    /\ LooksTwice => round = 2
    /\ installed' = installed \cup {[item |-> item, from |-> stack[won]]}
    /\ End
    /\ UNCHANGED <<kind, storeVars, time, acts, faults>>

-----------------------------------------------------------------------------
(* The sources of the project *)

\* The entries as they are listed for the user.
Shown(file) ==
    LET D == DOMAIN Entries(file) IN
    Ranked(D, {p \in D \X D : Before(Entries(file), p[1], p[2])})

Listed(file) == [n \in DOMAIN Shown(file) |-> file[Shown(file)[n]]]

\* What workflows and steps take an implicit priority for.
Coerced(file, i) == IF kind = "integration" THEN PriorityOf(file, i) ELSE file[i].priority

NextPriority(file) == 1 + Max({Coerced(file, i) : i \in DOMAIN file} \cup {0})

Edit ==
    /\ pc = "idle"
    /\ acts < MaxActs
    /\ acts' = acts + 1
    /\ UNCHANGED <<kind, user, cache, time, lookupVars, installed, faults>>

\* The priority follows from those that are there.
AppendSource(u) ==
    /\ Edit
    /\ kind \in {"workflow", "step", "integration"}
    /\ u \notin Sources(Entries(config))
    /\ config' = Append(Entries(config),
                        [url |-> u, priority |-> NextPriority(Entries(config)), allowed |-> TRUE])

\* The user gives the priority and says whether it may be installed from.
Given(u) ==
    /\ u \notin Sources(Entries(config))
    /\ \E p \in Priorities, b \in BOOLEAN :
           config' = Append(Entries(config), [url |-> u, priority |-> p, allowed |-> b])

EnterSource(u) ==
    /\ Edit
    /\ kind \in {"extension", "preset"}
    /\ Given(u)

EnterBundleSource(u) ==
    /\ Edit
    /\ kind = "bundle"
    /\ Given(u)

\* The bug of taking the number for that of the file.
Position_InFile(n) == n

\* Integrations take the number for that of the list they show, workflows and
\* steps for that of the file.
Position(n) == IF kind = "integration" THEN Shown(config)[n] ELSE n

Without(file, i) ==
    IF kind = "integration" /\ Len(file) = 1 THEN None ELSE RemoveAt(file, i)

RemoveSource(n) ==
    /\ Edit
    /\ kind \in {"workflow", "step", "integration"}
    /\ n \in DOMAIN Entries(config)
    /\ config' = Without(config, Position(n))

Rest(u) == Only(config, {i \in DOMAIN config : config[i].url # u})

DeleteSource(u) ==
    /\ Edit
    /\ kind \in {"extension", "preset"}
    /\ u \in Sources(Entries(config))
    /\ config' = Rest(u)

\* The built-in sources stay, and so does what replaces them.
DeleteBundleSource(u) ==
    /\ Edit
    /\ kind = "bundle"
    /\ u \notin Sources(Builtin)
    /\ u \in Sources(Entries(config))
    /\ config' = Rest(u)

\* The process dies when the file has been opened for writing.
DieEditing ==
    /\ pc = "idle"
    /\ acts < MaxActs
    /\ faults < MaxFaults
    /\ acts' = acts + 1
    /\ faults' = faults + 1
    /\ config' = <<>>
    /\ UNCHANGED <<kind, user, cache, time, lookupVars, installed>>

Tick ==
    /\ pc = "idle"
    /\ time < MaxTime
    /\ time' = time + 1
    /\ UNCHANGED <<kind, storeVars, lookupVars, installed, acts, faults>>

Next ==
    \/ \E x \in Items, env \in Urls \cup {None} : LookUp(x, env)
    \/ AnswerFromCache \/ AnswerFromSource \/ NotKept \/ DieKeeping \/ SourceFails
    \/ TurnDown \/ LookAgain \/ Install
    \/ \E u \in Urls : AppendSource(u) \/ EnterSource(u) \/ DeleteSource(u)
    \/ \E u \in Urls : EnterBundleSource(u) \/ DeleteBundleSource(u)
    \/ \E n \in DOMAIN Entries(config) : RemoveSource(n)
    \/ DieEditing
    \/ Tick

Spec == Init /\ [][Next]_vars

-----------------------------------------------------------------------------
(* Properties *)

\* What is installed comes from the source that is listed first among those that
\* answered and have it, whether they were asked in that order or in the opposite
\* one and whichever of them failed, and that source allows it.  So it is although
\* the sources that answer the second look for a preset need not be those that
\* answered the first; the second look for an extension is not checked.
AllowedOnly ==
    [][installed' # installed =>
         LET having == {h.from : h \in {g \in heard : item \in Lists[stack[g.from].url]}} IN
         /\ won \in having
         /\ \A i \in having \ {won} : Before(stack, won, i)
         /\ kind # "extension" => stack[won].allowed]_installed

\* What an answer says was fetched less than the cache duration ago, also
\* after writes to the cache that were cut short; only where the source has
\* failed, workflows and steps go back further.
CacheAge ==
    \A h \in heard :
        \/ time - h.at < Duration
        \/ h.failed /\ kind \in {"workflow", "step"}

\* A file that only the commands, or a user with an eye for order, have written.
Ordered(file) ==
    \A i \in DOMAIN file : file[i].priority # Implicit /\ (i > 1 => file[i - 1].priority < file[i].priority)

\* Sources without a priority come first, in the file and in the list.
Settled(file) ==
    \A i, j \in DOMAIN file :
        file[i].priority = Implicit /\ file[j].priority # Implicit => i < j /\ i < file[j].priority

InOrder(file) == IF kind = "integration" THEN Settled(Entries(file)) ELSE Ordered(Entries(file))

\* A source that is added comes last in the list, and removing the n-th of the
\* list removes that one and leaves the others in their order, again and again
\* (remove_catalog of integrations: the index is that of the list).  For workflows
\* and steps that takes a file in order; for integrations, one in which the sources
\* without a priority come first, in the file and in the list.
ConfigAsListed ==
    [][InOrder(config) =>
         /\ \A u \in Urls : AppendSource(u) =>
                /\ Listed(config') = Append(Listed(config), config'[Len(config')])
                /\ InOrder(config')
         /\ \A n \in DOMAIN Entries(config) : RemoveSource(n) =>
                /\ Listed(config') = RemoveAt(Listed(config), n)
                /\ InOrder(config')]_config

=============================================================================
