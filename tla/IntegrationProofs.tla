-------------------------- MODULE IntegrationProofs --------------------------
(***************************************************************************)
(* Theorems of ExtensionStore and IntegrationStore, for any extensions,    *)
(* agents and manifests, and any number of commands, exceptions and kills. *)
(*                                                                         *)
(* A command is a list of steps, so the invariant says of each step that   *)
(* may be next what is true of the project then, and of the list which     *)
(* step may follow which.  What is said of an extension is said as long as *)
(* no command of it was cut short.                                         *)
(*                                                                         *)
(* Of the integration commands the invariant says where the rest of the    *)
(* list leads: each step may be taken where the steps before it lead to,   *)
(* and the state after the last one has its default installed, or none.    *)
(***************************************************************************)
EXTENDS IntegrationStore, SequenceTheorems, TLAPS

-----------------------------------------------------------------------------
(* The steps of the commands *)

InstallSteps == {"copy", "register", "skills", "hook"}
RemovalSteps == {"unregister", "unskill", "unhook", "drop"}
UndoSteps    == {"undir", "unnew", "refile", "rehook", "reenter"}

StepsOf(j) ==
    CASE j.op = "add" -> InstallSteps \cup {"enter"}
      [] j.op = "readd" -> {"clear", "delete", "unsave", "enter"} \cup RemovalSteps \cup InstallSteps
      [] j.op = "remove" -> {"delete", "strip"} \cup RemovalSteps
      [] j.op = "update" /\ ~j.rolled ->
            {"stash", "check", "strip", "enter", "recfg", "remeta", "clean"} \cup RemovalSteps \cup InstallSteps
            \cup (IF j.entry.enabled THEN {} ELSE {"hush"})
      [] j.op = "update" /\ j.rolled -> UndoSteps \cup {"clean"}
      [] j.op = "enable" -> {"remeta", "unhush"}
      [] OTHER -> {"remeta", "hush"}

\* Step s may be followed by step t.
Follows(j, s, t) ==
    \/ <<s, t>> \in {<<"unregister", "unskill">>, <<"unhook", "drop">>, <<"delete", "unhook">>, <<"strip", "unhook">>,
                     <<"copy", "register">>, <<"register", "skills">>, <<"skills", "hook">>}
    \/ j.op = "add" /\ <<s, t>> = <<"hook", "enter">>
    \/ j.op = "readd" /\ <<s, t>> \in {<<"clear", "unregister">>, <<"unskill", "delete">>, <<"drop", "copy">>,
                                       <<"hook", "unsave">>, <<"unsave", "enter">>}
    \/ j.op = "remove" /\ <<s, t>> \in {<<"unskill", "delete">>, <<"unskill", "strip">>}
    \/ j.op = "update" /\ <<s, t>> \in {<<"stash", "check">>, <<"check", "unregister">>, <<"unskill", "strip">>,
                                        <<"drop", "check">>, <<"check", "copy">>, <<"hook", "enter">>,
                                        <<"enter", "recfg">>, <<"recfg", "remeta">>, <<"hush", "clean">>,
                                        <<"undir", "unnew">>, <<"unnew", "refile">>, <<"refile", "rehook">>,
                                        <<"rehook", "reenter">>, <<"reenter", "clean">>}
    \/ j.op = "update" /\ <<s, t>> = <<"remeta", IF j.entry.enabled THEN "clean" ELSE "hush">>
    \/ j.op = "enable" /\ <<s, t>> = <<"remeta", "unhush">>
    \/ j.op = "disable" /\ <<s, t>> = <<"remeta", "hush">>

LastStep(j) ==
    CASE j.op \in {"add", "readd"} -> "enter"
      [] j.op = "remove" -> "drop"
      [] j.op = "update" -> "clean"
      [] j.op = "enable" -> "unhush"
      [] OTHER -> "hush"

\* The steps t may be done one after the other.
Chain(j, t) ==
    /\ t \in Seq({<<s>> : s \in StepsOf(j)}) /\ t # <<>>
    /\ \A i \in 1..(Len(t) - 1) : Follows(j, t[i][1], t[i + 1][1])

\* The steps t end the command j.
ExtPlan(j, t) == Chain(j, t) /\ t[Len(t)][1] = LastStep(j)

\* The steps of the integration commands.
MoveSteps ==
    ({"infra"} \X (Agents \cup {None}) \X BOOLEAN \X BOOLEAN)
    \cup ({"setup", "stale", "options", "forget", "unartifact", "artifacts"} \X Agents)
    \cup ({"teardown"} \X Agents \X BOOLEAN)
    \cup ({"json"} \X (Agents \cup {None}) \X Seq(Agents))

-----------------------------------------------------------------------------
(* Types *)

ExtOps == {"add", "readd", "remove", "update", "enable", "disable"}

ExtJob == [op: ExtOps, ext: Exts, ver: Nat, cmds: [Agents -> SUBSET Names], skills: SUBSET Names,
           force: BOOLEAN, rolled: BOOLEAN, known: BOOLEAN, entry: Entry, dir: Dir,
           hooks: Hooks, listed: SUBSET Exts, files: Files]

MoveJob == [op: {"move"}, ext: {None}, from: Agents \cup {None}, force: BOOLEAN, caught: BOOLEAN,
            undo: Seq(MoveSteps), done: BOOLEAN]

\* The command and what is left of it.
Running ==
    \/ todo = <<>> /\ job = NoJob
    \/ job \in ExtJob /\ ExtPlan(job, todo)
    \/ job \in MoveJob /\ todo \in Seq(MoveSteps) /\ todo # <<>>

Versions(e) == DOMAIN Declares[e]

\* The versions on record and on disk are versions of the extension.
GenuineStore ==
    \A e \in Exts : /\ reg[e].ver \in Versions(e) \cup {0}
                    /\ dir[e].ver \in Versions(e) \cup {0}
                    /\ stash[e].dir.ver \in Versions(e) \cup {0}

GenuineJob ==
    /\ job.op \in {"add", "readd", "update"} => job.ver \in Versions(e0)
    /\ job.op = "update" => job.entry.ver \in Versions(e0) /\ job.dir.ver \in Versions(e0) \cup {0}

TypeInv == TypeOK /\ Running /\ GenuineStore /\ GenuineJob

-----------------------------------------------------------------------------
(* What is true of an extension *)

\* The command is at one of the steps S.
At(S) == todo # <<>> /\ Head(todo)[1] \in S

\* Some version of e declares n.
Named(e, n) == \E v \in Versions(e) : n \in Declared(e, v)

\* An extension that was cut short has n for a name.
Excused(n) == \E f \in cut : Named(f, n)

\* The hooks f of e are those of version v, switched on or off.
HooksAre(f, e, v, on) ==
    \A h \in Events : f[h] = IF v # 0 /\ h \in Declares[e][v].hooks THEN IF on THEN "on" ELSE "off" ELSE "none"

\* The manifest of the registered version is on disk and the extension listed.
InPlace(e) == Installed(e) => dir[e].there /\ dir[e].ver = reg[e].ver /\ e \in listed

\* Its recorded files are its own.
Written(e) ==
    \A a \in Agents : \A n \in reg[e].cmds[a] : files[a][n] = FileOf(e, reg[e].ver) \/ Excused(n)

\* No command of e is running and none was cut short.
AtRest(e) == e \in Exts \ cut /\ e # job.ext

Sound ==
    \A e \in Exts : AtRest(e) =>
        InPlace(e) /\ HooksAre(hooks[e], e, reg[e].ver, reg[e].enabled) /\ Written(e)

\* What is recorded of an extension it declares.
Recording ==
    \A e \in Exts : \A a \in Agents : \A n \in reg[e].cmds[a] :
        Installed(e) /\ Named(e, n) /\ (e \notin cut => n \in Declared(e, reg[e].ver))

\* So is what the command will record or has read.
JobRecording ==
    /\ job.op \in ExtOps => \A a \in Agents : \A n \in job.cmds[a] : n \in Declared(e0, job.ver)
    /\ job.op = "update" /\ At({"stash"}) => reg[e0] = job.entry
    /\ job.op = "update" =>
          \A a \in Agents : \A n \in Names :
            /\ job.files[a][n] # NoFile => n \in job.entry.cmds[a]
            /\ n \in job.entry.cmds[a] => Named(e0, n) /\ (e0 \notin cut => n \in Declared(e0, job.entry.ver))

\* No other extension has a name that version v of e declares.
Free(e, v) ==
    \A f \in Exts \ cut : f # e /\ Installed(f) =>
        \A n \in Names : ~(n \in Declared(e, v) /\ n \in Declared(f, reg[f].ver))

Apart == \A e \in Exts \ cut : Installed(e) => Free(e, reg[e].ver)

-----------------------------------------------------------------------------
(* The extension of the running command, which has not been cut short *)

Writing == {"copy", "register", "skills", "hook", "unsave", "enter"}

\* Nobody else has the names that are installed.
NamesFree ==
    /\ job.op \in {"add", "readd"} \/ At(Writing) => Free(e0, job.ver)
    /\ job.op = "update" => Free(e0, job.entry.ver)

\* The installation has come so far.
Installing ==
    /\ At(Writing \ {"copy"}) => dir[e0].there /\ dir[e0].ver = job.ver
    /\ At(Writing \ {"copy", "register"}) =>
          \A a \in Agents : \A n \in job.cmds[a] : files[a][n] = FileOf(e0, job.ver)
    /\ At({"unsave", "enter"}) => HooksAre(hooks[e0], e0, job.ver, TRUE) /\ e0 \in listed

\* The extension is there while it is switched on or off, and at the end of an
\* update.
Entered ==
    job.op \in {"enable", "disable"} \/ (job.op = "update" /\ ~job.rolled /\ At({"recfg", "remeta", "hush", "clean"})) =>
        Installed(e0) /\ InPlace(e0) /\ Written(e0)

Hooked ==
    /\ At({"drop"}) => HooksAre(hooks[e0], e0, 0, FALSE)
    /\ At({"recfg", "remeta"}) => HooksAre(hooks[e0], e0, reg[e0].ver, reg[e0].enabled)
    /\ At({"recfg"}) \/ (At({"remeta"}) /\ job.op = "update") => reg[e0].enabled
    /\ At({"hush"}) => ~reg[e0].enabled /\ HooksAre(hooks[e0], e0, reg[e0].ver, TRUE)
    /\ At({"unhush"}) => reg[e0].enabled /\ HooksAre(hooks[e0], e0, reg[e0].ver, FALSE)
    /\ job.op = "enable" => job.entry.enabled /\ (At({"remeta"}) => ~reg[e0].enabled)
    /\ job.op = "disable" => ~job.entry.enabled /\ (At({"remeta"}) => reg[e0].enabled)
    /\ At({"clean"}) /\ ~job.rolled => HooksAre(hooks[e0], e0, reg[e0].ver, reg[e0].enabled)

\* An update that has read nothing yet, and what it remembers afterwards.
Remembered ==
    job.op = "update" =>
        /\ job.dir.there /\ job.dir.ver = job.entry.ver
        /\ At({"stash"}) => /\ ~job.rolled /\ reg[e0] = job.entry /\ dir[e0] = job.dir
                            /\ e0 \in listed /\ Written(e0)
                            /\ HooksAre(hooks[e0], e0, reg[e0].ver, reg[e0].enabled)
        /\ ~At({"stash"}) =>
              /\ job.known
              /\ e0 \in job.listed
              /\ stash[e0].dir = job.dir
              /\ HooksAre(job.hooks, e0, job.entry.ver, job.entry.enabled)
              /\ \A a \in Agents : \A n \in job.entry.cmds[a] :
                    /\ job.files[a][n] = FileOf(e0, job.entry.ver) \/ Excused(n)
                    /\ job.files[a][n] = NoFile => files[a][n] \in {NoFile, FileOf(e0, job.ver)}

\* The rollback has come so far.
Undoing ==
    job.op = "update" /\ job.rolled =>
        /\ At({"unnew", "refile", "rehook", "reenter", "clean"}) => dir[e0] = job.dir
        /\ At({"rehook", "reenter", "clean"}) =>
              \A a \in Agents : \A n \in Names : job.files[a][n] # NoFile => files[a][n] = job.files[a][n]
        /\ At({"reenter", "clean"}) => hooks[e0] = job.hooks /\ e0 \in listed
        /\ At({"clean"}) => reg[e0] = job.entry

\* The others were listed when the update read the list.
OthersListed ==
    job.op = "update" /\ job.known => \A f \in Exts \ cut : f # e0 /\ Installed(f) => f \in job.listed

Underway == job.op \in ExtOps /\ e0 \notin cut => NamesFree /\ Installing /\ Entered /\ Hooked /\ Remembered /\ Undoing

\* Where the configuration is.
ConfigKept ==
    /\ job.op = "readd" /\ job.dir.cfg =>
          /\ At({"clear", "unregister", "unskill", "delete", "enter"}) => dir[e0].cfg
          /\ At({"unhook", "drop", "copy", "register", "skills", "hook", "unsave"}) => e0 \in saved
    /\ job.op = "update" /\ job.dir.cfg /\ e0 \notin cut =>
          /\ ~At({"stash"}) => stash[e0].cfg
          /\ At({"remeta", "hush", "clean"}) => dir[e0].cfg

ExtInv == Sound /\ Recording /\ JobRecording /\ Apart /\ OthersListed /\ Underway /\ ConfigKept

-----------------------------------------------------------------------------
(* Lists of steps *)

LEMMA HeadAndTail ==
    ASSUME NEW S, NEW t \in Seq(S), t # <<>>
    PROVE  /\ Head(t) = t[1] /\ Head(t) \in S
           /\ Tail(t) \in Seq(S) /\ Len(Tail(t)) = Len(t) - 1 /\ Len(t) \in Nat \ {0}
           /\ \A i \in 1..(Len(t) - 1) : Tail(t)[i] = t[i + 1]
           /\ Tail(t) = <<>> <=> Len(t) = 1
<1>1. Len(t) \in Nat /\ Len(t) > 0 /\ Head(t) = t[1] /\ t[1] \in S
  OBVIOUS
<1>2. /\ Tail(t) \in Seq(S) /\ Len(Tail(t)) = Len(t) - 1
      /\ \A i \in 1..(Len(t) - 1) : Tail(t)[i] = t[i + 1]
  BY HeadTailProperties
<1>3. QED
  BY <1>1, <1>2

LEMMA Advance ==
    ASSUME NEW j, NEW t, ExtPlan(j, t)
    PROVE  /\ Head(t)[1] \in StepsOf(j) /\ t # <<>>
           /\ Len(t) = 1 => Tail(t) = <<>> /\ Head(t)[1] = LastStep(j)
           /\ Len(t) # 1 => Tail(t) # <<>> /\ ExtPlan(j, Tail(t)) /\ Follows(j, Head(t)[1], Head(Tail(t))[1])
<1> DEFINE S == {<<s>> : s \in StepsOf(j)}
           u == Tail(t)
<1>1. /\ t \in Seq(S) /\ t # <<>> /\ \A i \in 1..(Len(t) - 1) : Follows(j, t[i][1], t[i + 1][1])
      /\ t[Len(t)][1] = LastStep(j)
  BY DEF ExtPlan, Chain
<1> HIDE DEF S
<1>2. /\ Head(t) = t[1] /\ Head(t) \in S /\ u \in Seq(S) /\ Len(u) = Len(t) - 1 /\ Len(t) \in Nat \ {0}
      /\ \A i \in 1..(Len(t) - 1) : u[i] = t[i + 1]
      /\ u = <<>> <=> Len(t) = 1
  BY <1>1, HeadAndTail
<1> HIDE DEF u
<1>3. Head(t)[1] \in StepsOf(j)
  BY <1>2 DEF S
<1>4. ASSUME Len(t) # 1
      PROVE  u # <<>> /\ ExtPlan(j, u) /\ Follows(j, Head(t)[1], Head(u)[1])
  <2>1. u # <<>> /\ Len(u) \in Nat \ {0} /\ Head(u) = u[1]
    BY <1>2, <1>4
  <2>2. \A i \in 1..(Len(u) - 1) : Follows(j, u[i][1], u[i + 1][1])
    <3> TAKE i \in 1..(Len(u) - 1)
    <3>1. i \in 1..(Len(t) - 1) /\ i + 1 \in 1..(Len(t) - 1) /\ u[i] = t[i + 1] /\ u[i + 1] = t[i + 1 + 1]
      BY <1>2, <2>1
    <3>2. QED
      BY <1>1, <3>1
  <2>3. u[Len(u)] = t[Len(t)]
    <3>1. Len(u) \in 1..(Len(t) - 1) /\ Len(u) + 1 = Len(t)
      BY <1>2, <2>1
    <3>2. QED
      BY <1>2, <3>1
  <2>4. Follows(j, t[1][1], t[1 + 1][1]) /\ u[1] = t[1 + 1]
    BY <1>1, <1>2, <1>4
  <2>5. ExtPlan(j, u)
    BY <1>1, <1>2, <2>1, <2>2, <2>3 DEF ExtPlan, Chain, S
  <2>6. QED
    BY <1>2, <2>1, <2>4, <2>5
<1>5. QED
  BY <1>1, <1>2, <1>3, <1>4 DEF u

\* The chain t, from x to y.
Path(j, t, x, y) == Chain(j, t) /\ t[1] = <<x>> /\ t[Len(t)] = <<y>>

\* One chain after another.
LEMMA Joined ==
    ASSUME NEW j, NEW s, NEW t, NEW w, NEW x, NEW y, NEW z,
           Path(j, s, w, x), Path(j, t, y, z), Follows(j, x, y)
    PROVE  Path(j, s \o t, w, z)
<1> DEFINE S == {<<v>> : v \in StepsOf(j)}
           u == s \o t
<1>1. /\ s \in Seq(S) /\ s # <<>> /\ \A i \in 1..(Len(s) - 1) : Follows(j, s[i][1], s[i + 1][1])
      /\ t \in Seq(S) /\ t # <<>> /\ \A i \in 1..(Len(t) - 1) : Follows(j, t[i][1], t[i + 1][1])
      /\ s[1] = <<w>> /\ s[Len(s)] = <<x>> /\ t[1] = <<y>> /\ t[Len(t)] = <<z>>
  BY DEF Path, Chain
<1> HIDE DEF S
<1>2. Len(s) \in Nat \ {0} /\ Len(t) \in Nat \ {0}
  BY <1>1
<1>3. /\ u \in Seq(S) /\ Len(u) = Len(s) + Len(t)
      /\ \A i \in 1..(Len(s) + Len(t)) : u[i] = IF i <= Len(s) THEN s[i] ELSE t[i - Len(s)]
  BY <1>1, ConcatProperties
<1> HIDE DEF u
<1>4. ASSUME NEW i \in 1..(Len(u) - 1)
      PROVE  Follows(j, u[i][1], u[i + 1][1])
  <2>1. u[i] = (IF i <= Len(s) THEN s[i] ELSE t[i - Len(s)])
        /\ u[i + 1] = (IF i + 1 <= Len(s) THEN s[i + 1] ELSE t[i + 1 - Len(s)])
    BY <1>2, <1>3
  <2>2. CASE i < Len(s)
    BY <1>1, <1>2, <2>1, <2>2
  <2>3. CASE i = Len(s)
    <3>1. u[i] = s[Len(s)] /\ u[i + 1] = t[1]
      BY <1>2, <2>1, <2>3
    <3>2. u[i][1] = x /\ u[i + 1][1] = y
      BY <1>1, <3>1
    <3>3. QED
      BY <3>2
  <2>4. CASE i > Len(s)
    <3>1. i - Len(s) \in 1..(Len(t) - 1) /\ i + 1 - Len(s) = (i - Len(s)) + 1
      BY <1>2, <1>3, <2>4
    <3>2. u[i] = t[i - Len(s)] /\ u[i + 1] = t[(i - Len(s)) + 1]
      BY <1>2, <2>1, <2>4, <3>1
    <3>3. QED
      BY <1>1, <3>1, <3>2
  <2>5. QED
    BY <1>2, <1>3, <2>2, <2>3, <2>4
<1>5. u[1] = s[1] /\ u[Len(u)] = t[Len(t)] /\ u # <<>>
  <2>1. 1 \in 1..(Len(s) + Len(t)) /\ Len(u) \in 1..(Len(s) + Len(t)) /\ 1 <= Len(s) /\ ~(Len(u) <= Len(s))
        /\ Len(u) - Len(s) = Len(t)
    BY <1>2, <1>3
  <2>2. QED
    BY <1>3, <2>1
<1>6. Chain(j, u)
  BY <1>3, <1>4, <1>5 DEF Chain, S
<1>7. QED
  BY <1>1, <1>5, <1>6 DEF Path, u

\* What else the command remembers does not matter.
LEMMA SamePlan ==
    ASSUME NEW i, NEW j, i.op = j.op, i.rolled = j.rolled, i.entry = j.entry
    PROVE  /\ StepsOf(i) = StepsOf(j) /\ LastStep(i) = LastStep(j)
           /\ \A s, t : Follows(i, s, t) <=> Follows(j, s, t)
           /\ \A t : ExtPlan(i, t) <=> ExtPlan(j, t)
<1>1. StepsOf(i) = StepsOf(j)
  BY DEF StepsOf
<1>2. LastStep(i) = LastStep(j)
  BY DEF LastStep
<1>3. \A s, t : Follows(i, s, t) <=> Follows(j, s, t)
  BY DEF Follows
<1>4. QED
  BY <1>1, <1>2, <1>3 DEF ExtPlan, Chain

LEMMA InstallationPlan ==
    ASSUME NEW j, j.op \in {"add", "readd"} \/ (j.op = "update" /\ ~j.rolled)
    PROVE  Path(j, Installation, "copy", "hook")
<1>1. InstallSteps \subseteq StepsOf(j)
  BY DEF StepsOf
<1>2. QED
  BY <1>1 DEF Path, Chain, Installation, InstallSteps, Follows

LEMMA RemovalPlan ==
    ASSUME NEW j, NEW how,
           \/ j.op = "remove" /\ how \in {"delete", "strip"}
           \/ j.op = "readd" /\ how = "delete"
           \/ j.op = "update" /\ ~j.rolled /\ how = "strip"
    PROVE  Path(j, Removal(how), "unregister", "drop")
<1>1. RemovalSteps \cup {how} \subseteq StepsOf(j)
  BY DEF StepsOf
<1>2. QED
  BY <1>1 DEF Path, Chain, Removal, RemovalSteps, Follows

\* A path to the last step.
LEMMA Whole ==
    ASSUME NEW j, NEW t, NEW x, Path(j, t, x, LastStep(j))
    PROVE  ExtPlan(j, t) /\ t # <<>> /\ Head(t) = <<x>>
<1>1. Chain(j, t) /\ t[1] = <<x>> /\ t[Len(t)] = <<LastStep(j)>>
  BY DEF Path
<1>2. t \in Seq({<<s>> : s \in StepsOf(j)}) /\ t # <<>>
  BY <1>1 DEF Chain
<1> HIDE DEF Chain
<1>3. Head(t) = t[1]
  BY <1>2, HeadAndTail
<1>4. QED
  BY <1>1, <1>2, <1>3 DEF ExtPlan

LEMMA AddPlan ==
    ASSUME NEW j, j.op = "add"
    PROVE  Path(j, Installation \o <<<<"enter">>>>, "copy", LastStep(j))
<1>1. Path(j, <<<<"enter">>>>, "enter", LastStep(j))
  BY DEF Path, Chain, StepsOf, LastStep
<1>2. Follows(j, "hook", "enter")
  BY DEF Follows
<1>3. Path(j, Installation, "copy", "hook")
  BY InstallationPlan
<1>4. QED
  BY <1>1, <1>2, <1>3, Joined, Zenon

LEMMA ReaddPlan ==
    ASSUME NEW j, j.op = "readd"
    PROVE  Path(j, <<<<"clear">>>> \o Removal("delete") \o Installation \o <<<<"unsave">>, <<"enter">>>>,
                "clear", LastStep(j))
<1> DEFINE c == <<<<"clear">>>>
           r == Removal("delete")
           w == <<<<"unsave">>, <<"enter">>>>
<1>1. /\ Path(j, c, "clear", "clear")
      /\ Path(j, w, "unsave", LastStep(j))
  BY DEF Path, Chain, StepsOf, Follows, LastStep
<1>2. /\ Follows(j, "clear", "unregister") /\ Follows(j, "drop", "copy") /\ Follows(j, "hook", "unsave")
  BY DEF Follows
<1>3. Path(j, r, "unregister", "drop") /\ Path(j, Installation, "copy", "hook")
  BY RemovalPlan, InstallationPlan
<1> HIDE DEF c, r, w
<1>4. Path(j, c \o r, "clear", "drop")
  BY <1>1, <1>2, <1>3, Joined, Zenon
<1>5. Path(j, c \o r \o Installation, "clear", "hook")
  BY <1>2, <1>3, <1>4, Joined, Zenon
<1>6. Path(j, c \o r \o Installation \o w, "clear", LastStep(j))
  BY <1>1, <1>2, <1>5, Joined, Zenon
<1>7. QED
  BY <1>6 DEF c, r, w

LEMMA RemovePlan ==
    ASSUME NEW j, j.op = "remove", NEW how \in {"delete", "strip"}
    PROVE  Path(j, Removal(how), "unregister", LastStep(j))
BY RemovalPlan DEF LastStep

LEMMA UpdatePlan ==
    ASSUME NEW j, j.op = "update", ~j.rolled
    PROVE  Path(j, <<<<"stash">>, <<"check">>>> \o Removal("strip")
                   \o <<<<"check">>>> \o Installation \o <<<<"enter">>, <<"recfg">>, <<"remeta">>>>
                   \o (IF j.entry.enabled THEN <<>> ELSE <<<<"hush">>>>) \o <<<<"clean">>>>,
                "stash", LastStep(j))
<1> DEFINE c == <<<<"stash">>, <<"check">>>>
           r == Removal("strip")
           d == <<<<"check">>>>
           w == <<<<"enter">>, <<"recfg">>, <<"remeta">>>>
           h == <<<<"hush">>>>
           n == <<<<"clean">>>>
           p == c \o r \o d \o Installation \o w
<1>1. /\ Path(j, c, "stash", "check")
      /\ Path(j, d, "check", "check")
      /\ Path(j, w, "enter", "remeta")
      /\ Path(j, n, "clean", LastStep(j))
  BY DEF Path, Chain, StepsOf, Follows, LastStep
<1>2. ~j.entry.enabled => Path(j, h, "hush", "hush")
  BY DEF Path, Chain, StepsOf, Follows
<1>3. /\ Follows(j, "check", "unregister") /\ Follows(j, "drop", "check") /\ Follows(j, "check", "copy")
      /\ Follows(j, "hook", "enter") /\ Follows(j, "hush", "clean")
      /\ j.entry.enabled => Follows(j, "remeta", "clean")
      /\ ~j.entry.enabled => Follows(j, "remeta", "hush")
  BY DEF Follows
<1>4. Path(j, r, "unregister", "drop") /\ Path(j, Installation, "copy", "hook")
  BY RemovalPlan, InstallationPlan
<1> HIDE DEF c, r, d, w, h, n
<1>5. Path(j, c \o r, "stash", "drop")
  BY <1>1, <1>3, <1>4, Joined, Zenon
<1>6. Path(j, c \o r \o d, "stash", "check")
  BY <1>1, <1>3, <1>5, Joined, Zenon
<1>7. Path(j, c \o r \o d \o Installation, "stash", "hook")
  BY <1>3, <1>4, <1>6, Joined, Zenon
<1>8. Path(j, p, "stash", "remeta")
  BY <1>1, <1>3, <1>7, Joined, Zenon
<1> HIDE DEF p
<1>9. CASE j.entry.enabled
  <2>1. Path(j, p \o n, "stash", LastStep(j))
    BY <1>1, <1>3, <1>8, <1>9, Joined, Zenon
  <2>2. p \o <<>> = p
    BY <1>8, ConcatEmptySeq DEF Path, Chain
  <2>3. Path(j, p \o <<>> \o n, "stash", LastStep(j))
    BY <2>1, <2>2, Zenon
  <2>4. QED
    BY <1>9, <2>3 DEF p, c, r, d, w, n
<1>10. CASE ~j.entry.enabled
  <2>1. Path(j, p \o h, "stash", "hush")
    BY <1>2, <1>3, <1>8, <1>10, Joined, Zenon
  <2>2. Path(j, p \o h \o n, "stash", LastStep(j))
    BY <1>1, <1>3, <2>1, Joined, Zenon
  <2>3. QED
    BY <1>10, <2>2 DEF p, c, r, d, w, h, n
<1>11. QED
  BY <1>9, <1>10

LEMMA SwitchedPlan ==
    ASSUME NEW j, NEW last, (j.op = "enable" /\ last = "unhush") \/ (j.op = "disable" /\ last = "hush")
    PROVE  Path(j, <<<<"remeta">>, <<last>>>>, "remeta", LastStep(j))
BY DEF Path, Chain, StepsOf, Follows, LastStep

LEMMA UndoPlan ==
    ASSUME NEW j, j.op = "update", j.rolled
    PROVE  Path(j, Undo, "undir", LastStep(j))
<1>1. UndoSteps \cup {"clean"} \subseteq StepsOf(j)
  BY DEF StepsOf
<1>2. QED
  BY <1>1 DEF Path, Chain, Undo, UndoSteps, Follows, LastStep

-----------------------------------------------------------------------------
(* How a step ends *)

ExtStepNames ==
    InstallSteps \cup RemovalSteps \cup UndoSteps
    \cup {"clear", "delete", "unsave", "enter", "strip", "stash", "check", "recfg", "remeta", "clean", "hush", "unhush"}

\* The update goes over to its rollback.
RollsBack ==
    /\ job.op = "update" /\ ~job.rolled
    /\ todo' = Undo /\ job' = [job EXCEPT !.rolled = TRUE]
    /\ cut \subseteq cut' /\ cut' \subseteq cut \cup {e0}
    /\ Head(todo)[1] \in {"stash", "clean"} => e0 \in cut'

\* The command is cut short.
CutShort == todo' = <<>> /\ job' = NoJob /\ cut \subseteq cut' /\ e0 \in cut'

LEMMA ExtTurn ==
    ASSUME TypeInv, todo # <<>>, Head(todo)[1] \in ExtStepNames
    PROVE  job \in ExtJob /\ ExtPlan(job, todo) /\ Head(todo)[1] \in StepsOf(job) /\ e0 \in Exts /\ e0 # None
<1>1. ~(job \in MoveJob /\ todo \in Seq(MoveSteps))
  <2> SUFFICES ASSUME todo \in Seq(MoveSteps) PROVE FALSE
    OBVIOUS
  <2>1. Head(todo) \in MoveSteps
    BY HeadAndTail
  <2>2. Head(todo)[1] \in {"infra", "setup", "options", "forget", "unartifact", "artifacts", "teardown", "stale", "json"}
    BY <2>1 DEF MoveSteps
  <2>3. QED
    BY <2>2 DEF ExtStepNames, InstallSteps, RemovalSteps, UndoSteps
<1>2. job \in ExtJob /\ ExtPlan(job, todo)
  BY <1>1 DEF TypeInv, Running
<1>3. e0 \in Exts
  BY <1>2 DEF ExtJob, e0
<1>4. QED
  BY <1>2, <1>3, Advance, ExtensionAssumption

LEMMA JobFields ==
    ASSUME job \in ExtJob
    PROVE  /\ job.op \in ExtOps /\ e0 \in Exts /\ job.ver \in Nat /\ job.cmds \in [Agents -> SUBSET Names]
           /\ job.skills \subseteq Names /\ job.rolled \in BOOLEAN /\ job.known \in BOOLEAN /\ job.entry \in Entry
           /\ job.dir \in Dir /\ job.hooks \in Hooks /\ job.listed \subseteq Exts /\ job.files \in Files
           /\ [job EXCEPT !.rolled = TRUE] \in ExtJob
BY DEF ExtJob, e0

\* The step is done: the next one follows, or it was the last.
LEMMA GoesOn ==
    ASSUME job \in ExtJob, ExtPlan(job, todo), NEW j \in ExtJob, Go(j),
           j.op = job.op, j.rolled = job.rolled, j.entry = job.entry
    PROVE  /\ \/ todo' = <<>> /\ job' = NoJob /\ Head(todo)[1] = LastStep(job)
              \/ /\ job' = j /\ todo' # <<>> /\ ExtPlan(job', todo')
                 /\ Follows(job, Head(todo)[1], Head(todo')[1])
                 /\ Head(todo')[1] \in StepsOf(job)
           /\ Running'
<1>1. CASE Len(todo) = 1
  <2>1. todo' = <<>> /\ job' = NoJob
    BY <1>1, Advance DEF Go
  <2>2. QED
    BY <1>1, <2>1, Advance DEF Running
<1>2. CASE Len(todo) # 1
  <2>1. job' = j /\ todo' = Tail(todo)
    BY <1>2 DEF Go
  <2>2. todo' # <<>> /\ ExtPlan(job, todo') /\ Follows(job, Head(todo)[1], Head(todo')[1])
    BY <1>2, <2>1, Advance
  <2>3. ExtPlan(j, todo')
    BY <2>2, SamePlan
  <2>4. Head(todo')[1] \in StepsOf(job)
    BY <2>2, Advance
  <2>5. QED
    BY <2>1, <2>2, <2>3, <2>4 DEF Running
<1>3. QED
  BY <1>1, <1>2

LEMMA RollsBackOn ==
    ASSUME job \in ExtJob, RollsBack
    PROVE  /\ job' \in ExtJob /\ job'.rolled /\ job'.op = "update" /\ todo' # <<>> /\ Head(todo')[1] = "undir"
           /\ ExtPlan(job', todo') /\ Running'
<1>1. job' \in ExtJob /\ job'.rolled /\ job'.op = "update"
  BY JobFields DEF RollsBack, ExtJob
<1>2. Path(job', Undo, "undir", LastStep(job'))
  BY <1>1, UndoPlan
<1>3. todo' = Undo
  BY DEF RollsBack
<1>4. ExtPlan(job', todo') /\ todo' # <<>> /\ Head(todo') = <<"undir">>
  BY <1>2, <1>3, Whole
<1>5. QED
  BY <1>1, <1>4 DEF Running

\* A step that is not done ends the command or begins a rollback.
LEMMA Stopped ==
    ASSUME job \in ExtJob, todo # <<>>, Raise \/ Die
    PROVE  RollsBack \/ CutShort
BY DEF Raise, Die, RollsBack, CutShort, In, ExtJob

LEMMA ControlIsTyped ==
    ASSUME TypeInv, job \in ExtJob, todo # <<>>, NEW j \in ExtJob,
           j.op = job.op, j.rolled = job.rolled, j.entry = job.entry,
           j.ext = job.ext, j.ver = job.ver, j.dir = job.dir,
           Go(j) \/ Stop \/ TornRegistry \/ ((Raise \/ Die) /\ UNCHANGED <<active, detected, acts, faults>>)
                 \/ (Fault /\ Die)
    PROVE  /\ Running' /\ active' = active /\ detected' = detected /\ acts' = acts
           /\ faults' \in 0..MaxFaults /\ cut' \subseteq Exts /\ cut \subseteq cut'
           /\ GenuineJob'
<1> DEFINE Control == /\ Running' /\ active' = active /\ detected' = detected /\ acts' = acts
                      /\ faults' \in 0..MaxFaults /\ cut' \subseteq Exts /\ cut \subseteq cut'
<1>1. ExtPlan(job, todo) /\ e0 \in Exts /\ faults \in 0..MaxFaults /\ cut \subseteq Exts /\ MaxFaults \in Nat
  <2>1. job.op \in ExtOps /\ e0 \in Exts
    BY JobFields
  <2>2. ExtPlan(job, todo)
    BY <2>1 DEF TypeInv, Running, MoveJob, NoJob, ExtOps
  <2>3. QED
    BY <2>1, <2>2, ExtensionAssumption DEF TypeInv, TypeOK, ExtTypeOK
<1>2. Go(j) => Control
  BY <1>1, GoesOn DEF Go
<1>3. ASSUME Stop \/ ((Raise \/ Die) /\ UNCHANGED <<active, detected, acts, faults>>) \/ (Fault /\ Die)
      PROVE  Control
  <2>1. RollsBack \/ CutShort
    BY <1>3, Stopped DEF Stop
  <2>2. Running'
    BY <2>1, RollsBackOn DEF CutShort, Running
  <2>3. cut' \subseteq Exts /\ cut \subseteq cut'
    BY <1>1, <1>3 DEF Stop, Raise, Die
  <2>4. faults' \in 0..MaxFaults /\ active' = active /\ detected' = detected /\ acts' = acts
    BY <1>1, <1>3 DEF Stop, Fault
  <2>5. QED
    BY <2>1, <2>2, <2>3, <2>4 DEF RollsBack, CutShort
<1>4. ASSUME TornRegistry PROVE Control
  <2>1. Running'
    BY <1>4 DEF TornRegistry, Running
  <2>2. QED
    BY <1>1, <1>4, <2>1 DEF TornRegistry, Fault
<1>5. job' \in {NoJob, j, [job EXCEPT !.rolled = TRUE]}
  BY DEF Go, Stop, Raise, Die, TornRegistry
<1>6. \/ job'.op = "none"
      \/ job'.op = job.op /\ job'.ver = job.ver /\ job'.entry = job.entry /\ job'.ext = job.ext /\ job'.dir = job.dir
  <2>1. NoJob.op = "none"
    BY DEF NoJob
  <2>2. QED
    BY <1>5, <2>1 DEF ExtJob
<1>7. GenuineJob'
  BY <1>6 DEF TypeInv, GenuineJob, Versions, e0
<1>8. QED
  BY <1>2, <1>3, <1>4, <1>7

-----------------------------------------------------------------------------
(* Type correctness: the extension commands *)

LEMMA DeclaredIn ==
    ASSUME NEW e \in Exts, NEW v \in Versions(e)
    PROVE  /\ v \in Nat \ {0} /\ Declared(e, v) \subseteq Names
           /\ Declares[e][v].commands \subseteq Names /\ Declares[e][v].hooks \subseteq Events
<1>1. Declares[e] \in Seq(Manifest)
  BY ExtensionAssumption
<1>2. v \in Nat \ {0} /\ Declares[e][v] \in Manifest
  BY <1>1 DEF Versions
<1>3. QED
  BY <1>2 DEF Declared, Manifest

\* The state of an extension command.
LEMMA StoreFields ==
    ASSUME TypeInv
    PROVE  /\ reg \in [Exts -> Entry] /\ dir \in [Exts -> Dir] /\ saved \subseteq Exts
           /\ stash \in [Exts -> [dir: Dir, cfg: BOOLEAN]] /\ files \in Files /\ skills \in Files
           /\ listed \subseteq Exts /\ hooks \in [Exts -> Hooks] /\ detected \subseteq Agents
           /\ active \in Agents \cup {None} /\ acts \in 0..MaxActs /\ cut \subseteq Exts
BY DEF TypeInv, TypeOK, ExtTypeOK

LEMMA Constants_ ==
    /\ NoEntry \in Entry /\ NoEntry.ver = 0 /\ NoDir \in Dir /\ NoDir.ver = 0
    /\ NoStash \in [dir: Dir, cfg: BOOLEAN] /\ NoStash.dir.ver = 0
    /\ NoFile \in [of: Exts \cup {None}, ver: Nat] /\ NoHooks \in Hooks
BY DEF NoEntry, Entry, NoDir, Dir, NoStash, NoFile, NoHooks, Hooks

\* What is left of a directory is a directory, of the same version if any.
LEMMA TornIs ==
    ASSUME NEW d \in Dir, NEW c \in Torn(d)
    PROVE  c \in Dir /\ c.ver \in {0, d.ver}
<1>1. PICK v \in {0, d.ver}, k \in {FALSE, d.cfg} : c = [there |-> d.there, ver |-> v, cfg |-> k]
  BY DEF Torn
<1>2. d.there \in BOOLEAN /\ d.ver \in Nat /\ d.cfg \in BOOLEAN
  BY DEF Dir
<1>3. [there |-> d.there, ver |-> v, cfg |-> k] \in Dir
  <2>1. v \in Nat
    BY <1>2
  <2>2. k \in BOOLEAN
    BY <1>2, Zenon
  <2>3. QED
    BY <1>2, <2>1, <2>2 DEF Dir
<1>4. QED
  BY <1>1, <1>3

LEMMA WithFilesIs ==
    ASSUME NEW d \in Files, NEW S, NEW N, NEW f \in [of: Exts \cup {None}, ver: Nat]
    PROVE  WithFiles(d, S, N, f) \in Files
BY DEF WithFiles, Files

\* A step that changes the files, the skills, the list and the hooks only.
LEMMA StoreKept ==
    ASSUME TypeInv, NEW j \in ExtJob, job \in ExtJob, todo # <<>>,
           j.op = job.op, j.rolled = job.rolled, j.entry = job.entry,
           j.ext = job.ext, j.ver = job.ver, j.dir = job.dir,
           Go(j) \/ Stop \/ TornRegistry \/ ((Raise \/ Die) /\ UNCHANGED <<active, detected, acts, faults>>)
                 \/ (Fault /\ Die),
           reg' \in [Exts -> Entry], dir' \in [Exts -> Dir], stash' \in [Exts -> [dir: Dir, cfg: BOOLEAN]],
           GenuineStore', saved' \subseteq Exts, files' \in Files, skills' \in Files, listed' \subseteq Exts,
           hooks' \in [Exts -> Hooks],
           UNCHANGED integVars
    PROVE  TypeInv'
<1>1. /\ Running' /\ active' = active /\ detected' = detected /\ acts' = acts
      /\ faults' \in 0..MaxFaults /\ cut' \subseteq Exts /\ GenuineJob'
  BY ControlIsTyped
<1>2. ExtTypeOK'
  BY <1>1 DEF ExtTypeOK, TypeInv, TypeOK
<1>3. TypeOK'
  BY <1>2 DEF TypeInv, TypeOK, integVars
<1>4. QED
  BY <1>1, <1>3 DEF TypeInv

\* The commands a step belongs to.
LEMMA StepOf ==
    ASSUME TypeInv, todo # <<>>, NEW s \in ExtStepNames, Head(todo)[1] = s
    PROVE  /\ job \in ExtJob /\ ExtPlan(job, todo) /\ e0 \in Exts
           /\ s \in InstallSteps \cup {"enter"} =>
                 /\ job.op \in {"add", "readd"} \/ (job.op = "update" /\ ~job.rolled)
                 /\ job.ver \in Versions(e0)
           /\ s \in {"unregister", "unskill", "unhook", "drop"} =>
                 job.op \in {"readd", "remove"} \/ (job.op = "update" /\ ~job.rolled)
           /\ s \in {"stash", "check", "recfg"} => job.op = "update" /\ ~job.rolled
           /\ s = "clean" => job.op = "update"
           /\ s \in UndoSteps => job.op = "update" /\ job.rolled
           /\ s = "strip" => job.op = "remove" \/ (job.op = "update" /\ ~job.rolled)
           /\ s = "delete" => job.op \in {"remove", "readd"}
           /\ s \in {"clear", "unsave"} => job.op = "readd"
           /\ s = "remeta" => job.op \in {"enable", "disable"} \/ (job.op = "update" /\ ~job.rolled)
           /\ s = "hush" => job.op = "disable" \/ (job.op = "update" /\ ~job.rolled /\ ~job.entry.enabled)
           /\ s = "unhush" => job.op = "enable"
<1>1. job \in ExtJob /\ ExtPlan(job, todo) /\ s \in StepsOf(job) /\ e0 \in Exts /\ job.op \in ExtOps
  BY ExtTurn, JobFields
<1>2. /\ s \in InstallSteps \cup {"enter"} => job.op \in {"add", "readd"} \/ (job.op = "update" /\ ~job.rolled)
      /\ s \in {"unregister", "unskill", "unhook", "drop"} =>
                 job.op \in {"readd", "remove"} \/ (job.op = "update" /\ ~job.rolled)
      /\ s \in {"stash", "check", "recfg"} => job.op = "update" /\ ~job.rolled
      /\ s = "clean" => job.op = "update"
      /\ s \in UndoSteps => job.op = "update" /\ job.rolled
      /\ s = "strip" => job.op = "remove" \/ (job.op = "update" /\ ~job.rolled)
  BY <1>1 DEF StepsOf, ExtOps, InstallSteps, RemovalSteps, UndoSteps
<1>3. /\ s = "delete" => job.op \in {"remove", "readd"}
      /\ s \in {"clear", "unsave"} => job.op = "readd"
      /\ s = "remeta" => job.op \in {"enable", "disable"} \/ (job.op = "update" /\ ~job.rolled)
      /\ s = "hush" => job.op = "disable" \/ (job.op = "update" /\ ~job.rolled /\ ~job.entry.enabled)
      /\ s = "unhush" => job.op = "enable"
  BY <1>1 DEF StepsOf, ExtOps, InstallSteps, RemovalSteps, UndoSteps
<1>4. job.op \in {"add", "readd", "update"} => job.ver \in Versions(e0)
  BY DEF TypeInv, GenuineJob
<1>5. QED
  BY <1>1, <1>2, <1>3, <1>4

\* The directory of the command's extension is set.
LEMMA DirSet ==
    ASSUME TypeInv, e0 \in Exts, NEW d \in Dir, d.ver \in Versions(e0) \cup {0}, dir' = [dir EXCEPT ![e0] = d],
           UNCHANGED <<reg, stash>>
    PROVE  dir' \in [Exts -> Dir] /\ GenuineStore'
<1>1. dir \in [Exts -> Dir] /\ GenuineStore
  BY StoreFields DEF TypeInv
<1>2. dir' \in [Exts -> Dir]
  BY <1>1
<1>3. QED
  BY <1>1, <1>2 DEF GenuineStore, Versions

LEMMA EntrySet ==
    ASSUME TypeInv, e0 \in Exts, NEW d \in Entry, d.ver \in Versions(e0) \cup {0}, reg' = [reg EXCEPT ![e0] = d],
           UNCHANGED <<dir, stash>>
    PROVE  reg' \in [Exts -> Entry] /\ GenuineStore'
<1>1. reg \in [Exts -> Entry] /\ GenuineStore
  BY StoreFields DEF TypeInv
<1>2. reg' \in [Exts -> Entry]
  BY <1>1
<1>3. QED
  BY <1>1, <1>2 DEF GenuineStore, Versions

LEMMA StashSet ==
    ASSUME TypeInv, e0 \in Exts, NEW d \in [dir: Dir, cfg: BOOLEAN], d.dir.ver \in Versions(e0) \cup {0},
           stash' = [stash EXCEPT ![e0] = d], UNCHANGED <<dir, reg>>
    PROVE  stash' \in [Exts -> [dir: Dir, cfg: BOOLEAN]] /\ GenuineStore'
<1>1. stash \in [Exts -> [dir: Dir, cfg: BOOLEAN]] /\ GenuineStore
  BY StoreFields DEF TypeInv
<1>2. stash' \in [Exts -> [dir: Dir, cfg: BOOLEAN]]
  BY <1>1
<1>3. QED
  BY <1>1, <1>2 DEF GenuineStore, Versions

LEMMA StoreSame ==
    ASSUME TypeInv, UNCHANGED <<reg, dir, stash>>
    PROVE  /\ reg' \in [Exts -> Entry] /\ dir' \in [Exts -> Dir] /\ stash' \in [Exts -> [dir: Dir, cfg: BOOLEAN]]
           /\ GenuineStore'
BY StoreFields DEF TypeInv, GenuineStore, Versions

LEMMA RegLost ==
    ASSUME TypeInv, reg' = [e \in Exts |-> NoEntry], UNCHANGED <<dir, stash>>
    PROVE  reg' \in [Exts -> Entry] /\ GenuineStore'
<1>1. reg' \in [Exts -> Entry] /\ \A e \in Exts : reg'[e].ver = 0
  BY Constants_
<1>2. QED
  BY <1>1 DEF TypeInv, GenuineStore, Versions

LEMMA CopyTypes ==
    ASSUME TypeInv, Copy, UNCHANGED integVars
    PROVE  TypeInv'
<1>1. job \in ExtJob /\ todo # <<>> /\ e0 \in Exts /\ job.ver \in Versions(e0)
  BY StepOf DEF Copy, In, InstallSteps, ExtStepNames
<1>2. PICK d \in {dir[e0], NoDir, [NoDir EXCEPT !.there = TRUE], Source(job.ver)} :
        dir' = [dir EXCEPT ![e0] = d] /\ (Go(job) \/ Stop)
  BY DEF Copy
<1>3. d \in Dir /\ d.ver \in Versions(e0) \cup {0}
  <2>1. dir[e0] \in Dir /\ dir[e0].ver \in Versions(e0) \cup {0} /\ job.ver \in Nat
    BY <1>1, StoreFields, DeclaredIn DEF TypeInv, GenuineStore
  <2>2. Source(job.ver) \in Dir /\ Source(job.ver).ver = job.ver
    BY <2>1 DEF Source, Dir
  <2>3. [NoDir EXCEPT !.there = TRUE] \in Dir /\ [NoDir EXCEPT !.there = TRUE].ver = 0
    BY DEF NoDir, Dir
  <2>4. QED
    BY <1>1, <1>2, <2>1, <2>2, <2>3, Constants_
<1>4. dir' \in [Exts -> Dir] /\ GenuineStore'
  BY <1>1, <1>2, <1>3, DirSet DEF Copy
<1>5. QED
  BY <1>1, <1>2, <1>4, StoreFields, StoreKept DEF Copy

LEMMA RegisterTypes ==
    ASSUME TypeInv, Register, UNCHANGED integVars
    PROVE  TypeInv'
<1> DEFINE names == Declared(e0, job.ver)
           j == [job EXCEPT !.cmds = [a \in Agents |-> IF a \in detected THEN names ELSE {}]]
<1>1. job \in ExtJob /\ todo # <<>> /\ e0 \in Exts /\ job.ver \in Versions(e0)
  BY StepOf DEF Register, In, InstallSteps, ExtStepNames
<1>2. names \subseteq Names /\ job.ver \in Nat
  BY <1>1, DeclaredIn
<1>3. PICK done \in SUBSET detected : files' = WithFiles(files, done, names, FileOf(e0, job.ver)) /\ (Go(j) \/ Stop)
  BY DEF Register
<1>4. j \in ExtJob /\ j.op = job.op /\ j.rolled = job.rolled /\ j.entry = job.entry /\ j.ext = job.ext
      /\ j.ver = job.ver /\ j.dir = job.dir
  BY <1>1, <1>2 DEF ExtJob
<1> HIDE DEF names, j
<1>5. files' \in Files
  BY <1>1, <1>2, <1>3, StoreFields, WithFilesIs DEF FileOf
<1>6. QED
  BY <1>1, <1>3, <1>4, <1>5, StoreFields, StoreSame, StoreKept DEF Register

LEMMA RegisterSkillsTypes ==
    ASSUME TypeInv, RegisterSkills, UNCHANGED integVars
    PROVE  TypeInv'
<1> DEFINE new == IF SkillsDirs = {} THEN {} ELSE NewSkills(e0, job.ver)
           j == [job EXCEPT !.skills = new]
<1>1. job \in ExtJob /\ todo # <<>> /\ e0 \in Exts /\ job.ver \in Versions(e0)
  BY StepOf DEF RegisterSkills, In, InstallSteps, ExtStepNames
<1>2. new \subseteq Names /\ job.ver \in Nat
  BY <1>1, DeclaredIn DEF NewSkills
<1>3. PICK done \in SUBSET new : skills' = WithFiles(skills, SkillsDirs, done, FileOf(e0, job.ver)) /\ (Go(j) \/ Stop)
  BY DEF RegisterSkills
<1>4. j \in ExtJob /\ j.op = job.op /\ j.rolled = job.rolled /\ j.entry = job.entry /\ j.ext = job.ext
      /\ j.ver = job.ver /\ j.dir = job.dir
  BY <1>1, <1>2 DEF ExtJob
<1> HIDE DEF new, j
<1>5. skills' \in Files
  BY <1>1, <1>2, <1>3, StoreFields, WithFilesIs DEF FileOf
<1>6. QED
  BY <1>1, <1>3, <1>4, <1>5, StoreFields, StoreSame, StoreKept DEF RegisterSkills

LEMMA RegisterHooksTypes ==
    ASSUME TypeInv, RegisterHooks, UNCHANGED integVars
    PROVE  TypeInv'
<1> DEFINE set == [h \in Events |-> IF h \in Declares[e0][job.ver].hooks THEN "on" ELSE "none"]
<1>1. job \in ExtJob /\ todo # <<>> /\ e0 \in Exts /\ job.ver \in Versions(e0)
  BY StepOf DEF RegisterHooks, In, InstallSteps, ExtStepNames
<1>2. set \in Hooks
  BY DEF Hooks
<1>3. /\ listed' \in {listed, listed \cup {e0}} /\ hooks' \in {hooks, [hooks EXCEPT ![e0] = set]}
      /\ Go(job) \/ Stop
  BY DEF RegisterHooks
<1> HIDE DEF set
<1>4. listed' \subseteq Exts /\ hooks' \in [Exts -> Hooks]
  BY <1>1, <1>2, <1>3, StoreFields
<1>5. QED
  BY <1>1, <1>3, <1>4, StoreFields, StoreSame, StoreKept DEF RegisterHooks

LEMMA UnsaveTypes ==
    ASSUME TypeInv, Unsave, UNCHANGED integVars
    PROVE  TypeInv'
<1> DEFINE d == [dir[e0] EXCEPT !.cfg = TRUE]
<1>1. job \in ExtJob /\ todo # <<>> /\ e0 \in Exts
  BY StepOf DEF Unsave, In, ExtStepNames
<1>2. d \in Dir /\ d.ver = dir[e0].ver /\ dir[e0].ver \in Versions(e0) \cup {0}
  BY <1>1, StoreFields DEF Dir, TypeInv, GenuineStore
<1>3. dir' = dir \/ dir' = [dir EXCEPT ![e0] = d]
  BY <1>1, StoreFields DEF Unsave, Dir
<1>4. saved' \subseteq Exts /\ (Go(job) \/ Stop)
  BY StoreFields DEF Unsave
<1> HIDE DEF d
<1>5. dir' \in [Exts -> Dir] /\ GenuineStore'
  BY <1>1, <1>2, <1>3, DirSet, StoreSame DEF Unsave
<1>6. QED
  BY <1>1, <1>4, <1>5, StoreFields, StoreKept DEF Unsave

LEMMA EnterTypes ==
    ASSUME TypeInv, Enter, UNCHANGED integVars
    PROVE  TypeInv'
<1> DEFINE d == [ver |-> job.ver, enabled |-> TRUE, cmds |-> job.cmds, skills |-> job.skills]
<1>1. job \in ExtJob /\ todo # <<>> /\ e0 \in Exts /\ job.ver \in Versions(e0)
  BY StepOf DEF Enter, In, ExtStepNames
<1>2. d \in Entry /\ d.ver = job.ver
  BY <1>1, JobFields DEF Entry
<1>3. /\ reg' = [reg EXCEPT ![e0] = d] \/ reg' = reg \/ reg' = [e \in Exts |-> NoEntry]
      /\ Go(job) \/ Stop \/ TornRegistry
  BY DEF Enter, TornRegistry
<1> HIDE DEF d
<1>4. reg' \in [Exts -> Entry] /\ GenuineStore'
  BY <1>1, <1>2, <1>3, EntrySet, StoreSame, RegLost DEF Enter
<1>5. QED
  BY <1>1, <1>3, <1>4, StoreFields, StoreKept DEF Enter

LEMMA ClearSavedTypes ==
    ASSUME TypeInv, ClearSaved, UNCHANGED integVars
    PROVE  TypeInv'
<1>1. job \in ExtJob /\ todo # <<>> /\ e0 \in Exts
  BY StepOf DEF ClearSaved, In, ExtStepNames
<1>2. saved' \subseteq Exts /\ (Go(job) \/ Stop)
  BY StoreFields DEF ClearSaved
<1>3. QED
  BY <1>1, <1>2, StoreFields, StoreSame, StoreKept DEF ClearSaved

LEMMA UnregisterTypes ==
    ASSUME TypeInv, Unregister, UNCHANGED integVars
    PROVE  TypeInv'
<1>1. job \in ExtJob /\ todo # <<>> /\ e0 \in Exts
  BY StepOf DEF Unregister, In, RemovalSteps, ExtStepNames
<1>2. Go(job) \/ Stop
  BY DEF Unregister
<1>3. PICK done \in SUBSET Agents :
        files' = [a \in Agents |-> [n \in Names |->
                    IF a \in done /\ n \in reg[e0].cmds[a] THEN NoFile ELSE files[a][n]]]
  BY DEF Unregister
<1>4. files' \in Files
  BY <1>3, StoreFields, Constants_ DEF Files
<1>5. QED
  BY <1>1, <1>2, <1>4, StoreFields, StoreSame, StoreKept DEF Unregister

LEMMA UnregisterSkillsTypes ==
    ASSUME TypeInv, UnregisterSkills, UNCHANGED integVars
    PROVE  TypeInv'
<1>1. job \in ExtJob /\ todo # <<>> /\ e0 \in Exts
  BY StepOf DEF UnregisterSkills, In, RemovalSteps, ExtStepNames
<1>2. Go(job) \/ Stop
  BY DEF UnregisterSkills
<1>3. \E S, N : skills' = WithoutSkills(S, e0, N)
  BY DEF UnregisterSkills
<1>4. skills' \in Files
  BY <1>3, StoreFields, Constants_ DEF Files, WithoutSkills
<1>5. QED
  BY <1>1, <1>2, <1>4, StoreFields, StoreSame, StoreKept DEF UnregisterSkills

LEMMA StripTypes ==
    ASSUME TypeInv, Strip, UNCHANGED integVars
    PROVE  TypeInv'
<1> DEFINE d == [dir[e0] EXCEPT !.ver = 0]
<1>1. job \in ExtJob /\ todo # <<>> /\ e0 \in Exts
  BY StepOf DEF Strip, In, ExtStepNames
<1>2. d \in Dir /\ d.ver = 0
  BY <1>1, StoreFields DEF Dir
<1>3. dir' = dir \/ dir' = [dir EXCEPT ![e0] = d]
  BY <1>1, StoreFields DEF Strip, Dir
<1>4. Go(job) \/ Stop
  BY DEF Strip
<1> HIDE DEF d
<1>5. dir' \in [Exts -> Dir] /\ GenuineStore'
  BY <1>1, <1>2, <1>3, DirSet, StoreSame DEF Strip
<1>6. QED
  BY <1>1, <1>4, <1>5, StoreFields, StoreKept DEF Strip

LEMMA DeleteTypes ==
    ASSUME TypeInv, Delete, UNCHANGED integVars
    PROVE  TypeInv'
<1>1. job \in ExtJob /\ todo # <<>> /\ e0 \in Exts
  BY StepOf DEF Delete, In, ExtStepNames
<1>2. saved' \subseteq Exts /\ (Go(job) \/ Stop)
  BY <1>1, StoreFields DEF Delete
<1>3. dir' \in [Exts -> Dir] /\ GenuineStore'
  <2>1. CASE dir' = dir
    BY <2>1, StoreSame DEF Delete
  <2>2. ASSUME NEW d \in Torn(dir[e0]) \cup {NoDir}, dir' = [dir EXCEPT ![e0] = d]
        PROVE  dir' \in [Exts -> Dir] /\ GenuineStore'
    <3>1. dir[e0] \in Dir /\ dir[e0].ver \in Versions(e0) \cup {0}
      BY <1>1, StoreFields DEF TypeInv, GenuineStore
    <3>2. d \in Dir /\ d.ver \in {0, dir[e0].ver}
      BY <3>1, TornIs, Constants_
    <3>3. QED
      BY <1>1, <2>2, <3>1, <3>2, DirSet DEF Delete
  <2>3. QED
    BY <2>1, <2>2 DEF Delete
<1>4. QED
  BY <1>1, <1>2, <1>3, StoreFields, StoreKept DEF Delete

LEMMA UnregisterHooksTypes ==
    ASSUME TypeInv, UnregisterHooks, UNCHANGED integVars
    PROVE  TypeInv'
<1>1. job \in ExtJob /\ todo # <<>> /\ e0 \in Exts
  BY StepOf DEF UnregisterHooks, In, RemovalSteps, ExtStepNames
<1>2. /\ listed' \in {listed, listed \ {e0}} /\ hooks' \in {hooks, [hooks EXCEPT ![e0] = NoHooks]}
      /\ Go(job) \/ Stop
  BY DEF UnregisterHooks
<1>3. listed' \subseteq Exts /\ hooks' \in [Exts -> Hooks]
  BY <1>1, <1>2, StoreFields, Constants_
<1>4. QED
  BY <1>1, <1>2, <1>3, StoreFields, StoreSame, StoreKept DEF UnregisterHooks

LEMMA DropTypes ==
    ASSUME TypeInv, Drop, UNCHANGED integVars
    PROVE  TypeInv'
<1>1. job \in ExtJob /\ todo # <<>> /\ e0 \in Exts
  BY StepOf DEF Drop, In, RemovalSteps, ExtStepNames
<1>2. /\ reg' = [reg EXCEPT ![e0] = NoEntry] \/ reg' = reg \/ reg' = [e \in Exts |-> NoEntry]
      /\ Go(job) \/ Stop \/ TornRegistry
  BY DEF Drop, TornRegistry
<1>3. reg' \in [Exts -> Entry] /\ GenuineStore'
  BY <1>1, <1>2, Constants_, EntrySet, StoreSame, RegLost DEF Drop
<1>4. QED
  BY <1>1, <1>2, <1>3, StoreFields, StoreKept DEF Drop

LEMMA StashTypes ==
    ASSUME TypeInv, Stash, UNCHANGED integVars
    PROVE  TypeInv'
<1> DEFINE k == [dir |-> IF dir[e0].there THEN dir[e0] ELSE stash[e0].dir, cfg |-> stash[e0].cfg \/ dir[e0].cfg]
           j == [job EXCEPT !.known = TRUE, !.hooks = hooks[e0], !.listed = listed, !.files = Recorded(e0)]
<1>1. job \in ExtJob /\ todo # <<>> /\ e0 \in Exts
  BY StepOf DEF Stash, In, ExtStepNames
<1>2. dir[e0] \in Dir /\ stash[e0].dir \in Dir /\ stash[e0].cfg \in BOOLEAN /\ dir[e0].cfg \in BOOLEAN
      /\ dir[e0].ver \in Versions(e0) \cup {0} /\ stash[e0].dir.ver \in Versions(e0) \cup {0}
  BY <1>1, StoreFields DEF TypeInv, GenuineStore, Dir
<1>3. /\ j \in ExtJob /\ j.op = job.op /\ j.rolled = job.rolled /\ j.entry = job.entry /\ j.ext = job.ext
      /\ j.ver = job.ver /\ j.dir = job.dir
  <2>1. Recorded(e0) \in Files /\ hooks[e0] \in Hooks /\ listed \subseteq Exts
    BY <1>1, StoreFields, Constants_ DEF Recorded, Files
  <2>2. QED
    BY <1>1, <2>1 DEF ExtJob
<1>4. k \in [dir: Dir, cfg: BOOLEAN] /\ k.dir \in {dir[e0], stash[e0].dir}
  BY <1>2
<1>5. \/ stash' = [stash EXCEPT ![e0] = k] /\ Go(j)
      \/ Stop /\ \E d \in Torn(dir[e0]) \cup {stash[e0].dir, NoDir} : stash' = [stash EXCEPT ![e0].dir = d]
  BY <1>1, StoreFields DEF Stash
<1> HIDE DEF k, j
<1>6. stash' \in [Exts -> [dir: Dir, cfg: BOOLEAN]] /\ GenuineStore'
  <2>1. CASE stash' = [stash EXCEPT ![e0] = k]
    BY <1>1, <1>2, <1>4, <2>1, StashSet DEF Stash
  <2>2. ASSUME NEW d \in Torn(dir[e0]) \cup {stash[e0].dir, NoDir}, stash' = [stash EXCEPT ![e0].dir = d]
        PROVE  stash' \in [Exts -> [dir: Dir, cfg: BOOLEAN]] /\ GenuineStore'
    <3>1. d \in Dir /\ d.ver \in Versions(e0) \cup {0}
      BY <1>2, TornIs, Constants_
    <3>2. [stash[e0] EXCEPT !.dir = d] \in [dir: Dir, cfg: BOOLEAN] /\ [stash[e0] EXCEPT !.dir = d].dir = d
          /\ stash' = [stash EXCEPT ![e0] = [stash[e0] EXCEPT !.dir = d]]
      BY <1>1, <2>2, <3>1, StoreFields
    <3>3. QED
      BY <1>1, <3>1, <3>2, StashSet DEF Stash
  <2>3. QED
    BY <1>5, <2>1, <2>2
<1>7. QED
  BY <1>1, <1>3, <1>5, <1>6, StoreFields, StoreKept DEF Stash

LEMMA CheckTypes ==
    ASSUME TypeInv, Check, UNCHANGED integVars
    PROVE  TypeInv'
<1>1. job \in ExtJob /\ todo # <<>> /\ e0 \in Exts
  BY StepOf DEF Check, In, ExtStepNames
<1>2. UNCHANGED <<reg, dir, saved, stash, files, skills, listed, hooks>>
  BY DEF Check, extVars
<1>3. QED
  BY <1>1, <1>2, StoreFields, StoreSame, StoreKept DEF Check

LEMMA RestoreConfigTypes ==
    ASSUME TypeInv, RestoreConfig, UNCHANGED integVars
    PROVE  TypeInv'
<1> DEFINE d == [dir[e0] EXCEPT !.cfg = TRUE]
<1>1. job \in ExtJob /\ todo # <<>> /\ e0 \in Exts
  BY StepOf DEF RestoreConfig, In, ExtStepNames
<1>2. d \in Dir /\ d.ver = dir[e0].ver /\ dir[e0].ver \in Versions(e0) \cup {0}
  BY <1>1, StoreFields DEF Dir, TypeInv, GenuineStore
<1>3. dir' = dir \/ dir' = [dir EXCEPT ![e0] = d]
  BY <1>1, StoreFields DEF RestoreConfig, Dir
<1>4. Go(job) \/ Stop
  BY DEF RestoreConfig
<1> HIDE DEF d
<1>5. dir' \in [Exts -> Dir] /\ GenuineStore'
  BY <1>1, <1>2, <1>3, DirSet, StoreSame DEF RestoreConfig
<1>6. QED
  BY <1>1, <1>4, <1>5, StoreFields, StoreKept DEF RestoreConfig

LEMMA RestoreMetadataTypes ==
    ASSUME TypeInv, RestoreMetadata, UNCHANGED integVars
    PROVE  TypeInv'
<1> DEFINE d == [reg[e0] EXCEPT !.enabled = job.entry.enabled]
<1>1. job \in ExtJob /\ todo # <<>> /\ e0 \in Exts
  BY StepOf DEF RestoreMetadata, In, ExtStepNames
<1>2. d \in Entry /\ d.ver = reg[e0].ver /\ reg[e0].ver \in Versions(e0) \cup {0}
  BY <1>1, StoreFields, JobFields DEF Entry, TypeInv, GenuineStore
<1>3. /\ reg' = [reg EXCEPT ![e0] = d] \/ reg' = reg \/ reg' = [e \in Exts |-> NoEntry]
      /\ Go(job) \/ Stop \/ TornRegistry
  BY <1>1, StoreFields DEF RestoreMetadata, TornRegistry, Entry
<1> HIDE DEF d
<1>4. reg' \in [Exts -> Entry] /\ GenuineStore'
  BY <1>1, <1>2, <1>3, EntrySet, StoreSame, RegLost DEF RestoreMetadata
<1>5. QED
  BY <1>1, <1>3, <1>4, StoreFields, StoreKept DEF RestoreMetadata

LEMMA SetHooksTypes ==
    ASSUME TypeInv, SetHooks, UNCHANGED integVars
    PROVE  TypeInv'
<1>1. job \in ExtJob /\ todo # <<>> /\ e0 \in Exts
  BY StepOf DEF SetHooks, In, ExtStepNames
<1>2. Go(job) \/ Stop
  BY DEF SetHooks, Switched
<1>3. hooks' \in [Exts -> Hooks]
  <2>1. ASSUME NEW from \in {"on", "off"}, NEW to \in {"on", "off"}, Switched(from, to)
        PROVE  hooks' \in [Exts -> Hooks]
    <3> DEFINE f == [h \in Events |-> IF hooks[e0][h] = from THEN to ELSE hooks[e0][h]]
    <3>1. f \in Hooks
      BY <1>1, StoreFields DEF Hooks
    <3>2. hooks' = hooks \/ hooks' = [hooks EXCEPT ![e0] = f]
      BY <1>1, <2>1, StoreFields DEF Switched
    <3> HIDE DEF f
    <3>3. QED
      BY <1>1, <3>1, <3>2, StoreFields
  <2>2. QED
    BY <2>1 DEF SetHooks
<1>4. QED
  BY <1>1, <1>2, <1>3, StoreFields, StoreSame, StoreKept DEF SetHooks

LEMMA CleanTypes ==
    ASSUME TypeInv, Clean, UNCHANGED integVars
    PROVE  TypeInv'
<1>1. job \in ExtJob /\ todo # <<>> /\ e0 \in Exts
  BY StepOf DEF Clean, In, ExtStepNames
<1>2. Go(job) \/ Stop
  BY DEF Clean
<1>3. stash' \in [Exts -> [dir: Dir, cfg: BOOLEAN]] /\ GenuineStore'
  <2>1. CASE stash' = [stash EXCEPT ![e0] = NoStash]
    BY <1>1, <2>1, Constants_, StashSet DEF Clean
  <2>2. ASSUME NEW d \in Torn(stash[e0].dir), stash' = [stash EXCEPT ![e0].dir = d]
        PROVE  stash' \in [Exts -> [dir: Dir, cfg: BOOLEAN]] /\ GenuineStore'
    <3>1. stash[e0].dir \in Dir /\ stash[e0].dir.ver \in Versions(e0) \cup {0}
      BY <1>1, StoreFields DEF TypeInv, GenuineStore
    <3>2. d \in Dir /\ d.ver \in Versions(e0) \cup {0}
      BY <3>1, TornIs
    <3>3. [stash[e0] EXCEPT !.dir = d] \in [dir: Dir, cfg: BOOLEAN] /\ [stash[e0] EXCEPT !.dir = d].dir = d
          /\ stash' = [stash EXCEPT ![e0] = [stash[e0] EXCEPT !.dir = d]]
      BY <1>1, <2>2, <3>2, StoreFields
    <3>4. QED
      BY <1>1, <3>2, <3>3, StashSet DEF Clean
  <2>3. QED
    BY <2>1, <2>2 DEF Clean
<1>4. QED
  BY <1>1, <1>2, <1>3, StoreFields, StoreKept DEF Clean

LEMMA UndoDirTypes ==
    ASSUME TypeInv, UndoDir, UNCHANGED integVars
    PROVE  TypeInv'
<1>1. job \in ExtJob /\ todo # <<>> /\ e0 \in Exts
  BY StepOf DEF UndoDir, In, UndoSteps, ExtStepNames
<1>2. Go(job) \/ Stop
  BY DEF UndoDir
<1>3. stash[e0].dir \in Dir /\ stash[e0].dir.ver \in Versions(e0) \cup {0}
  BY <1>1, StoreFields DEF TypeInv, GenuineStore
<1>4. dir' \in [Exts -> Dir] /\ GenuineStore'
  <2>1. CASE dir' = dir
    BY <2>1, StoreSame DEF UndoDir
  <2>2. ASSUME NEW d \in Torn(stash[e0].dir) \cup {NoDir, stash[e0].dir}, dir' = [dir EXCEPT ![e0] = d]
        PROVE  dir' \in [Exts -> Dir] /\ GenuineStore'
    <3>1. d \in Dir /\ d.ver \in Versions(e0) \cup {0}
      BY <1>3, TornIs, Constants_
    <3>2. QED
      BY <1>1, <2>2, <3>1, DirSet DEF UndoDir
  <2>3. QED
    BY <2>1, <2>2 DEF UndoDir
<1>5. QED
  BY <1>1, <1>2, <1>4, StoreFields, StoreKept DEF UndoDir

LEMMA UndoNewTypes ==
    ASSUME TypeInv, UndoNew, UNCHANGED integVars
    PROVE  TypeInv'
<1>1. job \in ExtJob /\ todo # <<>> /\ e0 \in Exts
  BY StepOf DEF UndoNew, In, UndoSteps, ExtStepNames
<1>2. Go(job) \/ Stop
  BY DEF UndoNew
<1> DEFINE F(a, n) == IF n \in reg[e0].cmds[a] /\ job.files[a][n] = NoFile THEN NoFile ELSE files[a][n]
<1>3. files' = files \/ files' = [a \in Agents |-> [n \in Names |-> F(a, n)]]
  BY DEF UndoNew
<1>4. files' \in Files
  <2>1. \A a \in Agents, n \in Names : F(a, n) \in [of: Exts \cup {None}, ver: Nat]
    BY StoreFields, Constants_ DEF Files
  <2> HIDE DEF F
  <2>2. QED
    BY <1>3, <2>1, StoreFields DEF Files
<1>5. QED
  BY <1>1, <1>2, <1>4, StoreFields, StoreSame, StoreKept DEF UndoNew

LEMMA RestoreFilesTypes ==
    ASSUME TypeInv, RestoreFiles, UNCHANGED integVars
    PROVE  TypeInv'
<1>1. job \in ExtJob /\ todo # <<>> /\ e0 \in Exts
  BY StepOf DEF RestoreFiles, In, UndoSteps, ExtStepNames
<1>2. Go(job) \/ Stop
  BY DEF RestoreFiles
<1>3. PICK done \in SUBSET Agents :
        files' = [a \in Agents |-> [n \in Names |->
                    IF a \in done /\ job.files[a][n] # NoFile THEN job.files[a][n] ELSE files[a][n]]]
  BY DEF RestoreFiles
<1>4. files' \in Files
  BY <1>1, <1>3, StoreFields, JobFields DEF Files
<1>5. QED
  BY <1>1, <1>2, <1>4, StoreFields, StoreSame, StoreKept DEF RestoreFiles

LEMMA RestoreHooksTypes ==
    ASSUME TypeInv, RestoreHooks, UNCHANGED integVars
    PROVE  TypeInv'
<1>1. job \in ExtJob /\ todo # <<>> /\ e0 \in Exts
  BY StepOf DEF RestoreHooks, In, UndoSteps, ExtStepNames
<1>2. /\ listed' \in {listed, job.listed} /\ hooks' \in {hooks, [hooks EXCEPT ![e0] = job.hooks]}
      /\ Go(job) \/ Stop
  BY DEF RestoreHooks
<1>3. listed' \subseteq Exts /\ hooks' \in [Exts -> Hooks]
  BY <1>1, <1>2, StoreFields, JobFields
<1>4. QED
  BY <1>1, <1>2, <1>3, StoreFields, StoreSame, StoreKept DEF RestoreHooks

LEMMA RestoreEntryTypes ==
    ASSUME TypeInv, RestoreEntry, UNCHANGED integVars
    PROVE  TypeInv'
<1>1. job \in ExtJob /\ todo # <<>> /\ e0 \in Exts /\ job.op = "update"
  BY StepOf DEF RestoreEntry, In, UndoSteps, ExtStepNames
<1>2. job.entry \in Entry /\ job.entry.ver \in Versions(e0)
  BY <1>1, JobFields DEF TypeInv, GenuineJob
<1>3. /\ reg' = [reg EXCEPT ![e0] = job.entry] \/ reg' = reg \/ reg' = [e \in Exts |-> NoEntry]
      /\ Go(job) \/ Stop \/ TornRegistry
  BY DEF RestoreEntry, TornRegistry
<1>4. reg' \in [Exts -> Entry] /\ GenuineStore'
  BY <1>1, <1>2, <1>3, EntrySet, StoreSame, RegLost DEF RestoreEntry
<1>5. QED
  BY <1>1, <1>3, <1>4, StoreFields, StoreKept DEF RestoreEntry

LEMMA ExtStepTypes ==
    ASSUME TypeInv, ExtStep, UNCHANGED integVars
    PROVE  TypeInv'
BY CopyTypes, RegisterTypes, RegisterSkillsTypes, RegisterHooksTypes, UnsaveTypes, EnterTypes, ClearSavedTypes,
   UnregisterTypes, UnregisterSkillsTypes, StripTypes, DeleteTypes, UnregisterHooksTypes, DropTypes, StashTypes,
   CheckTypes, RestoreConfigTypes, RestoreMetadataTypes, SetHooksTypes, CleanTypes, UndoDirTypes, UndoNewTypes,
   RestoreFilesTypes, RestoreHooksTypes, RestoreEntryTypes DEF ExtStep

\* A command begins.
LEMMA BeginTypes ==
    ASSUME TypeInv, NEW j \in ExtJob, NEW t, NEW x, Begin(j, t), Path(j, t, x, LastStep(j)), UNCHANGED extVars,
           UNCHANGED integVars,
           j.op \in {"add", "readd", "update"} => j.ver \in Versions(j.ext),
           j.op = "update" => j.entry.ver \in Versions(j.ext) /\ j.dir.ver \in Versions(j.ext) \cup {0}
    PROVE  TypeInv' /\ Head(todo') = <<x>> /\ todo' # <<>> /\ job' = j
<1>1. job' = j /\ todo' = t /\ ExtPlan(j, t) /\ t # <<>> /\ Head(t) = <<x>>
  BY Whole DEF Begin
<1>2. Running'
  BY <1>1 DEF Running
<1>3. acts' \in 0..MaxActs
  BY StoreFields, ExtensionAssumption DEF Begin, Act
<1>4. TypeOK'
  BY <1>3 DEF TypeInv, TypeOK, ExtTypeOK, Begin, extVars, integVars
<1>5. GenuineStore'
  BY DEF TypeInv, GenuineStore, extVars, Versions
<1>6. GenuineJob'
  BY <1>1 DEF GenuineJob, Versions, e0
<1>7. QED
  BY <1>1, <1>2, <1>4, <1>5, <1>6 DEF TypeInv

LEMMA NoJobIs ==
    /\ NoJob.ver \in Nat /\ NoJob.cmds \in [Agents -> SUBSET Names] /\ NoJob.skills \subseteq Names
    /\ NoJob.entry \in Entry /\ NoJob.dir \in Dir /\ NoJob.hooks \in Hooks /\ NoJob.listed \subseteq Exts
    /\ NoJob.files \in Files /\ NoJob.rolled = FALSE /\ NoJob.known = FALSE /\ NoJob.op = "none" /\ NoJob.ext = None
    /\ NoJob.force = FALSE
BY Constants_ DEF NoJob, Files

\* A command may begin only when none runs; what it then does, where, and with
\* what it remembers.
LEMMA AddBegins ==
    ASSUME TypeInv, NEW e \in Exts, NEW v \in Versions(e), NEW force \in BOOLEAN, Add(e, v, force),
           UNCHANGED integVars
    PROVE  /\ TypeInv' /\ job' \in ExtJob /\ todo' # <<>> /\ UNCHANGED <<extVars, cut>> /\ job = NoJob
           /\ job'.ext = e /\ job'.ver = v /\ job'.cmds = [a \in Agents |-> {}] /\ ~Conflicts(e, v)
           /\ \/ job'.op = "readd" /\ Head(todo') = <<"clear">> /\ job'.dir = dir[e] /\ Installed(e)
              \/ job'.op = "add" /\ Head(todo') = <<"copy">> /\ ~Installed(e)
<1>1. v \in Nat /\ dir[e] \in Dir
  BY DeclaredIn, StoreFields
<1>2. Idle /\ job = NoJob
  <2>1. Idle
    BY DEF Add, Begin, Act
  <2>2. QED
    BY <2>1, Advance DEF Idle, TypeInv, Running
<1>3. CASE Installed(e)
  <2> DEFINE j == [NoJob EXCEPT !.op = "readd", !.ext = e, !.ver = v, !.dir = dir[e]]
             t == <<<<"clear">>>> \o Removal("delete") \o Installation \o <<<<"unsave">>, <<"enter">>>>
  <2>1. Begin(j, t) /\ UNCHANGED extVars /\ cut' = cut /\ ~Conflicts(e, v)
    BY <1>3 DEF Add, Begin
  <2>2. j \in ExtJob /\ j.op = "readd" /\ j.ext = e /\ j.ver = v /\ j.cmds = [a \in Agents |-> {}] /\ j.dir = dir[e]
    BY <1>1, NoJobIs DEF NoJob, ExtJob, ExtOps
  <2> HIDE DEF j, t
  <2>3. Path(j, t, "clear", LastStep(j))
    BY <2>2, ReaddPlan DEF t
  <2>4. TypeInv' /\ Head(todo') = <<"clear">> /\ todo' # <<>> /\ job' = j
    BY <2>1, <2>2, <2>3, BeginTypes
  <2>5. QED
    BY <1>2, <1>3, <2>1, <2>2, <2>4
<1>4. CASE ~Installed(e)
  <2> DEFINE j == [NoJob EXCEPT !.op = "add", !.ext = e, !.ver = v]
             t == Installation \o <<<<"enter">>>>
  <2>1. Begin(j, t) /\ UNCHANGED extVars /\ cut' = cut /\ ~Conflicts(e, v)
    BY <1>4 DEF Add, Begin
  <2>2. j \in ExtJob /\ j.op = "add" /\ j.ext = e /\ j.ver = v /\ j.cmds = [a \in Agents |-> {}]
    BY <1>1, NoJobIs DEF NoJob, ExtJob, ExtOps
  <2> HIDE DEF j, t
  <2>3. Path(j, t, "copy", LastStep(j))
    BY <2>2, AddPlan DEF t
  <2>4. TypeInv' /\ Head(todo') = <<"copy">> /\ todo' # <<>> /\ job' = j
    BY <2>1, <2>2, <2>3, BeginTypes
  <2>5. QED
    BY <1>2, <1>4, <2>1, <2>2, <2>4
<1>5. QED
  BY <1>3, <1>4

LEMMA RemoveBegins ==
    ASSUME TypeInv, NEW e \in Exts, NEW keep \in BOOLEAN, Remove(e, keep), UNCHANGED integVars
    PROVE  /\ TypeInv' /\ job' \in ExtJob /\ todo' # <<>> /\ UNCHANGED <<extVars, cut>> /\ job = NoJob
           /\ job'.ext = e /\ job'.op = "remove" /\ Head(todo') = <<"unregister">>
           /\ job'.cmds = [a \in Agents |-> {}]
<1> DEFINE j == [NoJob EXCEPT !.op = "remove", !.ext = e]
           how == IF keep THEN "strip" ELSE "delete"
<1>1. Begin(j, Removal(how)) /\ UNCHANGED extVars /\ cut' = cut
  BY DEF Remove, Begin
<1>2. Idle /\ job = NoJob
  BY <1>1, Advance DEF Begin, Act, Idle, TypeInv, Running
<1>3. j \in ExtJob /\ j.op = "remove" /\ j.ext = e /\ j.cmds = [a \in Agents |-> {}]
  BY NoJobIs DEF NoJob, ExtJob, ExtOps
<1> HIDE DEF j
<1>4. how \in {"delete", "strip"}
  OBVIOUS
<1> HIDE DEF how
<1>5. Path(j, Removal(how), "unregister", LastStep(j))
  BY <1>3, <1>4, RemovePlan
<1>6. TypeInv' /\ Head(todo') = <<"unregister">> /\ todo' # <<>> /\ job' = j
  BY <1>1, <1>3, <1>5, BeginTypes
<1>7. QED
  BY <1>1, <1>2, <1>3, <1>6

LEMMA UpdateBegins ==
    ASSUME TypeInv, NEW e \in Exts, Update(e), UNCHANGED integVars, dir[e].ver \in Versions(e) \cup {0}
    PROVE  /\ TypeInv' /\ job' \in ExtJob /\ todo' # <<>> /\ UNCHANGED <<extVars, cut>> /\ job = NoJob
           /\ job'.ext = e /\ job'.op = "update" /\ ~job'.rolled /\ ~job'.known /\ Head(todo') = <<"stash">>
           /\ job'.entry = reg[e] /\ job'.dir = dir[e] /\ Installed(e)
           /\ job'.cmds = [a \in Agents |-> {}]
           /\ job'.files = [a \in Agents |-> [n \in Names |-> NoFile]]
<1> DEFINE j == [NoJob EXCEPT !.op = "update", !.ext = e, !.ver = Newest(e), !.entry = reg[e], !.dir = dir[e]]
           t == <<<<"stash">>, <<"check">>>> \o Removal("strip")
                   \o <<<<"check">>>> \o Installation \o <<<<"enter">>, <<"recfg">>, <<"remeta">>>>
                   \o (IF reg[e].enabled THEN <<>> ELSE <<<<"hush">>>>) \o <<<<"clean">>>>
<1>1. Begin(j, t) /\ UNCHANGED extVars /\ cut' = cut /\ Installed(e) /\ reg[e].ver < Newest(e)
  BY DEF Update, Begin
<1>2. Idle /\ job = NoJob
  BY <1>1, Advance DEF Begin, Act, Idle, TypeInv, Running
<1>3. /\ reg[e] \in Entry /\ dir[e] \in Dir /\ reg[e].ver \in Versions(e) /\ Newest(e) \in Versions(e)
      /\ Newest(e) \in Nat
  <2>1. reg[e] \in Entry /\ dir[e] \in Dir /\ reg[e].ver \in Versions(e)
    BY <1>1, StoreFields DEF TypeInv, GenuineStore, Installed
  <2>2. reg[e].ver \in 1..Newest(e) /\ Newest(e) \in Nat
    BY <2>1, ExtensionAssumption DEF Versions, Newest
  <2>3. QED
    BY <2>1, <2>2, ExtensionAssumption DEF Versions, Newest
<1>4. /\ j \in ExtJob /\ j.op = "update" /\ j.ext = e /\ j.ver = Newest(e) /\ j.entry = reg[e] /\ j.dir = dir[e]
      /\ ~j.rolled /\ ~j.known /\ j.cmds = [a \in Agents |-> {}]
      /\ j.files = [a \in Agents |-> [n \in Names |-> NoFile]]
  BY <1>3, NoJobIs DEF NoJob, ExtJob, ExtOps
<1> HIDE DEF j, t
<1>5. Path(j, t, "stash", LastStep(j))
  BY <1>4, UpdatePlan DEF t
<1>6. TypeInv' /\ Head(todo') = <<"stash">> /\ todo' # <<>> /\ job' = j
  BY <1>1, <1>3, <1>4, <1>5, BeginTypes
<1>7. QED
  BY <1>1, <1>2, <1>4, <1>6

\* Enabling and disabling.
LEMMA SwitchBegins ==
    ASSUME TypeInv, NEW e \in Exts, Enable(e) \/ Disable(e), UNCHANGED integVars
    PROVE  /\ TypeInv' /\ job' \in ExtJob /\ todo' # <<>> /\ UNCHANGED <<extVars, cut>> /\ job = NoJob
           /\ job'.ext = e /\ Head(todo') = <<"remeta">> /\ Installed(e)
           /\ job'.cmds = [a \in Agents |-> {}]
           /\ \/ job'.op = "enable" /\ job'.entry.enabled /\ ~reg[e].enabled
              \/ job'.op = "disable" /\ ~job'.entry.enabled /\ reg[e].enabled
<1>1. PICK on \in BOOLEAN : IF on THEN Enable(e) ELSE Disable(e)
  OBVIOUS
<1> DEFINE j == [NoJob EXCEPT !.op = IF on THEN "enable" ELSE "disable", !.ext = e,
                              !.entry = [reg[e] EXCEPT !.enabled = on]]
           last == IF on THEN "unhush" ELSE "hush"
           t == <<<<"remeta">>, <<last>>>>
<1>2. Begin(j, t) /\ UNCHANGED extVars /\ cut' = cut /\ Installed(e) /\ (reg[e].enabled <=> ~on)
  BY <1>1 DEF Enable, Disable, Begin
<1>3. Idle /\ job = NoJob
  BY <1>2, Advance DEF Begin, Act, Idle, TypeInv, Running
<1>4. reg[e] \in Entry
  BY StoreFields
<1>5. [reg[e] EXCEPT !.enabled = on] \in Entry /\ [reg[e] EXCEPT !.enabled = on].enabled = on
  BY <1>4 DEF Entry
<1>6. j \in ExtJob /\ j.op = (IF on THEN "enable" ELSE "disable") /\ j.ext = e /\ j.cmds = [a \in Agents |-> {}]
      /\ j.entry = [reg[e] EXCEPT !.enabled = on]
  BY <1>5, NoJobIs DEF NoJob, ExtJob, ExtOps
<1> HIDE DEF j
<1>7. Path(j, t, "remeta", LastStep(j))
  BY <1>6, SwitchedPlan
<1> HIDE DEF t
<1>8. TypeInv' /\ Head(todo') = <<"remeta">> /\ todo' # <<>> /\ job' = j
  BY <1>2, <1>6, <1>7, BeginTypes
<1>9. QED
  BY <1>2, <1>3, <1>5, <1>6, <1>8

LEMMA ConfigureTypes ==
    ASSUME TypeInv, NEW e \in Exts, Configure(e), UNCHANGED integVars
    PROVE  TypeInv' /\ job = NoJob
<1> DEFINE d == [dir[e] EXCEPT !.cfg = TRUE]
<1>1. Idle /\ job = NoJob
  BY Advance DEF Configure, Act, Idle, TypeInv, Running
<1>2. dir \in [Exts -> Dir] /\ dir[e].ver \in Versions(e) \cup {0}
  BY StoreFields DEF TypeInv, GenuineStore
<1>3. d \in Dir /\ d.ver = dir[e].ver
  BY <1>2 DEF Dir
<1>4. dir' = [dir EXCEPT ![e] = d]
  BY <1>2 DEF Configure, Dir
<1> HIDE DEF d
<1>5. dir' \in [Exts -> Dir] /\ \A f \in Exts : dir'[f].ver = dir[f].ver
  BY <1>2, <1>3, <1>4
<1>6. acts' \in 0..MaxActs
  BY StoreFields, ExtensionAssumption DEF Configure, Act
<1>7. TypeOK'
  BY <1>5, <1>6 DEF TypeInv, TypeOK, ExtTypeOK, Configure, integVars
<1>8. GenuineStore'
  BY <1>5 DEF TypeInv, GenuineStore, Configure, Versions
<1>9. Running' /\ GenuineJob'
  BY <1>1 DEF Configure, Idle, Running, GenuineJob, NoJob
<1>10. QED
  BY <1>1, <1>7, <1>8, <1>9 DEF TypeInv

LEMMA CommandTypes ==
    ASSUME TypeInv, Command, UNCHANGED integVars
    PROVE  TypeInv'
<1>1. PICK e \in Exts :
        \/ \E v \in Versions(e), force \in BOOLEAN : Add(e, v, force)
        \/ \E keepConfig \in BOOLEAN : Remove(e, keepConfig)
        \/ Update(e) \/ Enable(e) \/ Disable(e) \/ Configure(e)
  BY DEF Command, Versions
<1>2. dir[e].ver \in Versions(e) \cup {0}
  BY DEF TypeInv, GenuineStore
<1>3. QED
  BY <1>1, <1>2, AddBegins, RemoveBegins, UpdateBegins, SwitchBegins, ConfigureTypes

-----------------------------------------------------------------------------
(* Type correctness: the integration commands *)

MoveNames == {"infra", "setup", "options", "forget", "unartifact", "artifacts", "teardown", "stale", "json"}

LEMMA MoveTurn ==
    ASSUME TypeInv, todo # <<>>, Head(todo)[1] \in MoveNames
    PROVE  job \in MoveJob /\ job.op = "move" /\ job.ext = None /\ todo \in Seq(MoveSteps) /\ arg \in MoveSteps
<1>1. ~(job \in ExtJob /\ ExtPlan(job, todo))
  <2> SUFFICES ASSUME job \in ExtJob, ExtPlan(job, todo) PROVE FALSE
    OBVIOUS
  <2>1. Head(todo)[1] \in StepsOf(job) /\ job.op \in ExtOps
    BY Advance, JobFields
  <2>2. QED
    BY <2>1 DEF StepsOf, ExtOps, MoveNames, InstallSteps, RemovalSteps, UndoSteps
<1>2. job \in MoveJob /\ todo \in Seq(MoveSteps)
  BY <1>1 DEF TypeInv, Running
<1>3. QED
  BY <1>2, HeadAndTail DEF MoveJob, arg

LEMMA Arguments ==
    ASSUME NEW m \in MoveSteps
    PROVE  /\ m[1] = "infra" => m[2] \in Agents \cup {None} /\ m[3] \in BOOLEAN /\ m[4] \in BOOLEAN
           /\ m[1] \in {"setup", "stale", "options", "forget", "unartifact", "artifacts", "teardown"} => m[2] \in Agents
           /\ m[1] = "teardown" => m[3] \in BOOLEAN
           /\ m[1] = "json" => m[2] \in Agents \cup {None} /\ m[3] \in Seq(Agents)
BY DEF MoveSteps

\* How a step of an integration command may go on.
MoveGoesOn(j) ==
    \/ GoOn(j)
    \/ \E b \in BOOLEAN : Warned /\ End(b)
    \/ Warned /\ job.undo # <<>> /\ todo' = job.undo /\ broken' = broken
       /\ job' = [job EXCEPT !.caught = FALSE, !.undo = <<>>, !.done = TRUE]
    \/ Warned /\ Pass(j)

\* It is still an integration command that runs, or none.
StillMoving == job' = NoJob \/ job' \in MoveJob

LEMMA MoveControl ==
    ASSUME TypeInv, job \in MoveJob, todo \in Seq(MoveSteps), todo # <<>>, NEW j \in MoveJob, MoveGoesOn(j)
    PROVE  Running' /\ faults' \in 0..MaxFaults /\ broken' \in BOOLEAN /\ GenuineJob' /\ StillMoving
<1>1. /\ Tail(todo) \in Seq(MoveSteps) /\ (Tail(todo) = <<>> <=> Len(todo) = 1)
      /\ job.undo \in Seq(MoveSteps) /\ faults \in 0..MaxFaults /\ broken \in BOOLEAN /\ MaxFaults \in Nat
  BY HeadAndTail, ExtensionAssumption DEF MoveJob, TypeInv, TypeOK, ExtTypeOK
<1>2. [job EXCEPT !.caught = FALSE, !.undo = <<>>, !.done = TRUE] \in MoveJob
  <2>1. <<>> \in Seq(MoveSteps)
    OBVIOUS
  <2>2. QED
    BY <2>1 DEF MoveJob
<1>3. \/ todo' = <<>> /\ job' = NoJob
      \/ todo' \in Seq(MoveSteps) /\ todo' # <<>> /\ job' \in MoveJob
  BY <1>1, <1>2 DEF MoveGoesOn, GoOn, Pass, End
<1>4. Running'
  BY <1>3 DEF Running
<1>5. faults' \in 0..MaxFaults
  BY <1>1 DEF MoveGoesOn, GoOn, Pass, End, Warned
<1>6. broken' \in BOOLEAN
  BY <1>1, Zenon DEF MoveGoesOn, GoOn, Pass, End
<1>7. job'.op \in {"move", "none"}
  BY <1>3, NoJobIs DEF MoveJob
<1>8. QED
  BY <1>3, <1>4, <1>5, <1>6, <1>7 DEF GenuineJob, StillMoving

\* What a step of an integration command may leave behind.
LEMMA MoveKept ==
    ASSUME TypeInv, job \in MoveJob, todo \in Seq(MoveSteps), todo # <<>>, NEW j \in MoveJob, MoveGoesOn(j),
           reg' \in [Exts -> Entry], GenuineStore', files' \in Files, skills' \in Files, cut' \subseteq Exts,
           active' \in Agents \cup {None}, detected' \subseteq Agents,
           UNCHANGED <<dir, saved, stash, listed, hooks, acts>>,
           integ' \in [default: Agents \cup {None}, installed: Seq(Agents)], manifests' \subseteq Agents,
           stripped' \subseteq Agents,
           core' \in [Agents -> {Nothing, "bundled", User}],
           shared'.by \in {Nothing, "cli", User}, shared'.for \in Agents \cup {None},
           noted'.file.by \in {Nothing, "cli", User}, noted'.recovered \in BOOLEAN
    PROVE  TypeInv' /\ StillMoving
<1>1. Running' /\ faults' \in 0..MaxFaults /\ broken' \in BOOLEAN /\ GenuineJob' /\ StillMoving
  BY MoveControl
<1>2. ExtTypeOK'
  BY <1>1 DEF ExtTypeOK, TypeInv, TypeOK
<1>3. TypeOK'
  BY <1>1, <1>2 DEF TypeOK
<1>4. QED
  BY <1>1, <1>3 DEF TypeInv

LEMMA MoveFields ==
    ASSUME TypeInv
    PROVE  /\ integ \in [default: Agents \cup {None}, installed: Seq(Agents)] /\ manifests \subseteq Agents
           /\ stripped \subseteq Agents /\ core \in [Agents -> {Nothing, "bundled", User}]
           /\ shared.by \in {Nothing, "cli", User} /\ shared.for \in Agents \cup {None}
           /\ noted.file.by \in {Nothing, "cli", User} /\ noted.recovered \in BOOLEAN
           /\ broken \in BOOLEAN /\ faults \in 0..MaxFaults /\ MaxFaults \in Nat
BY ExtensionAssumption DEF TypeInv, TypeOK, ExtTypeOK

LEMMA MoveJobs ==
    ASSUME job \in MoveJob
    PROVE  /\ [job EXCEPT !.done = TRUE] \in MoveJob
           /\ [job EXCEPT !.caught = TRUE, !.done = TRUE] \in MoveJob
           /\ job.undo \in Seq(MoveSteps) /\ job.from \in Agents \cup {None} /\ job.force \in BOOLEAN
           /\ job.caught \in BOOLEAN /\ job.done \in BOOLEAN
BY DEF MoveJob

LEMMA EndingsAreMoves ==
    ASSUME TypeInv, job \in MoveJob,
           \/ Done \/ Killed \/ Thrown
           \/ Warned /\ (End(broken) \/ End(TRUE))
    PROVE  MoveGoesOn([job EXCEPT !.done = TRUE])
<1>1. broken \in BOOLEAN /\ TRUE \in BOOLEAN
  BY MoveFields
<1>2. CASE Done
  BY <1>2 DEF Done, MoveGoesOn
<1>3. CASE Killed \/ (Warned /\ (End(broken) \/ End(TRUE)))
  BY <1>1, <1>3, Zenon DEF Killed, MoveGoesOn
<1>4. CASE Thrown
  <2>1. \/ Killed
        \/ Warned /\ End(broken)
        \/ Warned /\ job.undo # <<>> /\ todo' = job.undo /\ broken' = broken
           /\ job' = [job EXCEPT !.caught = FALSE, !.undo = <<>>, !.done = TRUE]
    BY <1>4 DEF Thrown
  <2>2. CASE Killed \/ (Warned /\ End(broken))
    BY <1>1, <2>2, Zenon DEF Killed, MoveGoesOn
  <2>3. CASE Warned /\ job.undo # <<>> /\ todo' = job.undo /\ broken' = broken
             /\ job' = [job EXCEPT !.caught = FALSE, !.undo = <<>>, !.done = TRUE]
    BY <2>3 DEF MoveGoesOn
  <2>4. QED
    BY <2>1, <2>2, <2>3
<1>5. QED
  BY <1>2, <1>3, <1>4

LEMMA InfraTypes ==
    ASSUME TypeInv, Infra
    PROVE  TypeInv' /\ StillMoving
<1> DEFINE j == [job EXCEPT !.done = TRUE]
<1>1. job \in MoveJob /\ todo \in Seq(MoveSteps) /\ todo # <<>> /\ arg[2] \in Agents \cup {None} /\ j \in MoveJob
  BY MoveTurn, Arguments, MoveJobs DEF Infra, In, arg, MoveNames
<1>2. Rendered(arg[2]).by = "cli" /\ Rendered(arg[2]).for \in Agents \cup {None}
  BY <1>1 DEF Rendered
<1> HIDE DEF j
<1>3. shared' \in {shared, Rendered(arg[2])}
  BY DEF Infra
<1>4. \/ noted' = noted
      \/ noted' = [file |-> shared, recovered |-> TRUE]
      \/ noted' = [file |-> Rendered(arg[2]), recovered |-> FALSE]
  BY DEF Infra
<1>5. /\ shared'.by \in {Nothing, "cli", User} /\ shared'.for \in Agents \cup {None}
      /\ noted'.file.by \in {Nothing, "cli", User} /\ noted'.recovered \in BOOLEAN
  <2>1. shared'.by \in {Nothing, "cli", User} /\ shared'.for \in Agents \cup {None}
    BY <1>2, <1>3, MoveFields
  <2>2. noted'.file.by \in {Nothing, "cli", User} /\ noted'.recovered \in BOOLEAN
    <3>1. CASE noted' = noted
      BY <3>1, MoveFields
    <3>2. CASE noted' = [file |-> shared, recovered |-> TRUE]
      BY <3>2, MoveFields
    <3>3. CASE noted' = [file |-> Rendered(arg[2]), recovered |-> FALSE]
      BY <1>2, <3>3
    <3>4. QED
      BY <1>4, <3>1, <3>2, <3>3
  <2>3. QED
    BY <2>1, <2>2
<1>6. MoveGoesOn(j)
  <2>1. broken \/ job.done \in BOOLEAN
    BY <1>1, MoveJobs, MoveFields
  <2>2. \/ Done \/ Killed \/ Thrown
        \/ Warned /\ (End(broken) \/ End(TRUE))
        \/ Warned /\ End(broken \/ job.done)
    BY DEF Infra, Warned
  <2>3. QED
    BY <1>1, <2>1, <2>2, EndingsAreMoves, Zenon DEF MoveGoesOn, j
<1>7. UNCHANGED <<reg, dir, saved, stash, files, skills, listed, hooks, active, detected, cut, integ, manifests, stripped, core, acts>>
  BY DEF Infra, extVars
<1>8. QED
  BY <1>1, <1>5, <1>6, <1>7, StoreFields, StoreSame, MoveFields, MoveKept

LEMMA SetupTypes ==
    ASSUME TypeInv, Setup
    PROVE  TypeInv' /\ StillMoving
<1> DEFINE j == [job EXCEPT !.caught = TRUE, !.done = TRUE]
           a == arg[2]
<1>1. job \in MoveJob /\ todo \in Seq(MoveSteps) /\ todo # <<>> /\ a \in Agents /\ j \in MoveJob
  BY MoveTurn, Arguments, MoveJobs DEF Setup, In, arg, MoveNames
<1>2. core' \in {core, [core EXCEPT ![a] = "bundled"]} /\ manifests' \in {manifests, manifests \cup {a}}
      /\ stripped' \in {stripped, stripped \ {a}}
      /\ detected' \in {detected, detected \cup CommandDirs(a)}
  BY DEF Setup
<1>3. core' \in [Agents -> {Nothing, "bundled", User}] /\ manifests' \subseteq Agents /\ detected' \subseteq Agents
      /\ stripped' \subseteq Agents
  BY <1>1, <1>2, MoveFields, StoreFields DEF CommandDirs
<1>4. MoveGoesOn(j)
  <2>1. [j EXCEPT !.undo = <<>>, !.caught = FALSE] = [job EXCEPT !.caught = FALSE, !.undo = <<>>, !.done = TRUE]
    BY <1>1 DEF MoveJob
  <2>2. broken \in BOOLEAN /\ TRUE \in BOOLEAN
    BY MoveFields
  <2> HIDE DEF j
  <2>3. \/ GoOn(j)
        \/ Warned /\ (End(broken) \/ End(TRUE))
        \/ Warned /\ job.undo # <<>> /\ todo' = job.undo /\ broken' = broken
           /\ job' = [j EXCEPT !.undo = <<>>, !.caught = FALSE]
    BY DEF Setup, Warned, j
  <2>4. QED
    BY <2>1, <2>2, <2>3, Zenon DEF MoveGoesOn
<1>5. UNCHANGED <<reg, dir, saved, stash, files, skills, listed, hooks, active, cut, integ, shared, noted, acts>>
  BY DEF Setup, extVars
<1> HIDE DEF j, a
<1>6. QED
  BY <1>1, <1>3, <1>4, <1>5, StoreFields, StoreSame, MoveFields, MoveKept

LEMMA TeardownTypes ==
    ASSUME TypeInv, Teardown
    PROVE  TypeInv' /\ StillMoving
<1> DEFINE j == [job EXCEPT !.done = TRUE]
           a == arg[2]
<1>1. job \in MoveJob /\ todo \in Seq(MoveSteps) /\ todo # <<>> /\ a \in Agents /\ j \in MoveJob
  BY MoveTurn, Arguments, MoveJobs DEF Teardown, In, arg, MoveNames
<1>2. core' \in {core, [core EXCEPT ![a] = Nothing]} /\ manifests' \in {manifests, manifests \ {a}}
      /\ detected' \in {detected, detected \ {a}}
  BY DEF Teardown
<1>3. core' \in [Agents -> {Nothing, "bundled", User}] /\ manifests' \subseteq Agents /\ detected' \subseteq Agents
  BY <1>1, <1>2, MoveFields, StoreFields
<1>4. MoveGoesOn(j)
  BY <1>1, EndingsAreMoves DEF Teardown
<1>5. UNCHANGED <<reg, dir, saved, stash, files, skills, listed, hooks, active, cut, integ, stripped, shared, noted, acts>>
  BY DEF Teardown, extVars
<1> HIDE DEF j, a
<1>6. QED
  BY <1>1, <1>3, <1>4, <1>5, StoreFields, StoreSame, MoveFields, MoveKept

LEMMA StaleTypes ==
    ASSUME TypeInv, Stale
    PROVE  TypeInv' /\ StillMoving
<1> DEFINE j == [job EXCEPT !.done = TRUE]
           a == arg[2]
<1>1. job \in MoveJob /\ todo \in Seq(MoveSteps) /\ todo # <<>> /\ a \in Agents /\ j \in MoveJob
  BY MoveTurn, Arguments, MoveJobs DEF Stale, In, arg, MoveNames
<1>2. manifests' \in {manifests, manifests \ {a}} /\ stripped' \in {stripped, stripped \cup {a}}
  BY DEF Stale
<1>3. manifests' \subseteq Agents /\ stripped' \subseteq Agents
  BY <1>1, <1>2, MoveFields
<1>4. MoveGoesOn(j)
  BY <1>1, EndingsAreMoves DEF Stale
<1>5. UNCHANGED <<reg, dir, saved, stash, files, skills, listed, hooks, active, detected, cut, integ, core, shared,
                  noted, acts>>
  BY DEF Stale, extVars
<1> HIDE DEF j, a
<1>6. QED
  BY <1>1, <1>3, <1>4, <1>5, StoreFields, StoreSame, MoveFields, MoveKept

LEMMA WriteJsonTypes ==
    ASSUME TypeInv, WriteJson
    PROVE  TypeInv' /\ StillMoving
<1> DEFINE j == [job EXCEPT !.done = TRUE]
<1>1. job \in MoveJob /\ todo \in Seq(MoveSteps) /\ todo # <<>> /\ j \in MoveJob
      /\ arg[2] \in Agents \cup {None} /\ arg[3] \in Seq(Agents)
  BY MoveTurn, Arguments, MoveJobs DEF WriteJson, In, arg, MoveNames
<1>2. integ' \in {integ, [default |-> arg[2], installed |-> arg[3]]}
  BY DEF WriteJson
<1>3. integ' \in [default: Agents \cup {None}, installed: Seq(Agents)]
  BY <1>1, <1>2, MoveFields
<1>4. MoveGoesOn(j)
  BY <1>1, EndingsAreMoves DEF WriteJson
<1>5. UNCHANGED <<reg, dir, saved, stash, files, skills, listed, hooks, active, detected, cut, manifests, stripped, core, shared,
                  noted, acts>>
  BY DEF WriteJson, extVars
<1> HIDE DEF j
<1>6. QED
  BY <1>1, <1>3, <1>4, <1>5, StoreFields, StoreSame, MoveFields, MoveKept

LEMMA OptionsTypes ==
    ASSUME TypeInv, Options
    PROVE  TypeInv' /\ StillMoving
<1> DEFINE j == [job EXCEPT !.done = TRUE]
<1>1. job \in MoveJob /\ todo \in Seq(MoveSteps) /\ todo # <<>> /\ j \in MoveJob /\ arg[2] \in Agents
  BY MoveTurn, Arguments, MoveJobs DEF Options, In, arg, MoveNames
<1>2. active' \in {active, arg[2], None}
  BY DEF Options
<1>3. active' \in Agents \cup {None}
  BY <1>1, <1>2, StoreFields
<1>4. MoveGoesOn(j)
  BY <1>1, EndingsAreMoves DEF Options
<1>5. UNCHANGED <<reg, dir, saved, stash, files, skills, listed, hooks, detected, cut, integ, manifests, stripped, core, shared,
                  noted, acts>>
  BY DEF Options, extVars
<1> HIDE DEF j
<1>6. QED
  BY <1>1, <1>3, <1>4, <1>5, StoreFields, StoreSame, MoveFields, MoveKept

EntryWith(r, a, S, X) == [r EXCEPT !.cmds[a] = S, !.skills = X]

LEMMA EntryWithIs ==
    ASSUME NEW r \in Entry, NEW a \in Agents, NEW S \in SUBSET Names, NEW X \in SUBSET Names
    PROVE  /\ EntryWith(r, a, S, X) \in Entry
           /\ EntryWith(r, a, S, X).ver = r.ver /\ EntryWith(r, a, S, X).enabled = r.enabled
           /\ EntryWith(r, a, S, X).cmds = [r.cmds EXCEPT ![a] = S]
BY DEF Entry, EntryWith

\* What unregister_agent_artifacts does, for the extensions it has begun and
\* those it has finished.
LEMMA Unregistering ==
    ASSUME TypeInv, UnregisterArtifacts
    PROVE  /\ arg[2] \in Agents /\ skills' \in Files
           /\ \E part \in SUBSET Exts : \E done \in SUBSET part :
                 /\ files' = [files EXCEPT ![arg[2]] =
                       [n \in Names |-> IF \E e \in part : n \in reg[e].cmds[arg[2]] THEN NoFile ELSE @[n]]]
                 /\ cut' = cut \cup (part \ done)
                 /\ reg' \in [Exts -> Entry]
                 /\ \A e \in Exts \ done : reg'[e] = reg[e]
                 /\ \A e \in done : /\ reg'[e].ver = reg[e].ver /\ reg'[e].enabled = reg[e].enabled
                                    /\ reg'[e].cmds = [reg[e].cmds EXCEPT ![arg[2]] = {}]
<1> DEFINE a == arg[2]
           scoped == a \in SkillsAgents /\ (core[a] # Nothing \/ \E n \in Names : skills[a][n] # NoFile)
           X(e) == IF scoped THEN {n \in reg[e].skills : skills'[a][n] # NoFile} ELSE reg[e].skills
           Left(e) == [reg[e] EXCEPT !.cmds[a] = {}, !.skills = X(e)]
<1>1. a \in Agents
  BY MoveTurn, Arguments DEF UnregisterArtifacts, In, arg, MoveNames
<1>2. PICK part \in SUBSET Exts : \E done \in SUBSET part :
         /\ files' = [files EXCEPT ![a] =
                [n \in Names |-> IF \E e \in part : n \in reg[e].cmds[a] THEN NoFile ELSE @[n]]]
         /\ skills' = [b \in Agents |-> [n \in Names |->
                IF (b = a \/ ~scoped) /\ skills[b][n].of \in part /\ n \in reg[skills[b][n].of].skills
                  THEN NoFile ELSE skills[b][n]]]
         /\ reg' = [e \in Exts |-> IF e \in done THEN Left(e) ELSE reg[e]]
         /\ cut' = cut \cup (part \ done)
  BY DEF UnregisterArtifacts
<1>3. PICK done \in SUBSET part :
         /\ files' = [files EXCEPT ![a] =
                [n \in Names |-> IF \E e \in part : n \in reg[e].cmds[a] THEN NoFile ELSE @[n]]]
         /\ skills' = [b \in Agents |-> [n \in Names |->
                IF (b = a \/ ~scoped) /\ skills[b][n].of \in part /\ n \in reg[skills[b][n].of].skills
                  THEN NoFile ELSE skills[b][n]]]
         /\ reg' = [e \in Exts |-> IF e \in done THEN Left(e) ELSE reg[e]]
         /\ cut' = cut \cup (part \ done)
  BY <1>2
<1>4. skills' \in Files
  <2> DEFINE F(b, n) == IF (b = a \/ ~scoped) /\ skills[b][n].of \in part /\ n \in reg[skills[b][n].of].skills
                          THEN NoFile ELSE skills[b][n]
  <2>1. skills' = [b \in Agents |-> [n \in Names |-> F(b, n)]]
    BY <1>3
  <2>2. \A b \in Agents, n \in Names : F(b, n) \in [of: Exts \cup {None}, ver: Nat]
    BY StoreFields, Constants_ DEF Files
  <2> HIDE DEF F
  <2>3. QED
    BY <2>1, <2>2 DEF Files
<1>5. ASSUME NEW e \in Exts
      PROVE  Left(e) \in Entry /\ Left(e).ver = reg[e].ver /\ Left(e).enabled = reg[e].enabled
             /\ Left(e).cmds = [reg[e].cmds EXCEPT ![a] = {}]
  <2>1. reg[e] \in Entry /\ reg[e].skills \subseteq Names
    BY StoreFields DEF Entry
  <2>2. X(e) \in SUBSET Names /\ {} \in SUBSET Names
    BY <2>1
  <2> DEFINE S == {}
  <2>3. Left(e) = EntryWith(reg[e], a, S, X(e)) /\ S \in SUBSET Names
    BY DEF EntryWith
  <2> HIDE DEF X, Left, S
  <2>4. /\ Left(e) \in Entry /\ Left(e).ver = reg[e].ver /\ Left(e).enabled = reg[e].enabled
        /\ Left(e).cmds = [reg[e].cmds EXCEPT ![a] = S]
    BY <1>1, <2>1, <2>2, <2>3, EntryWithIs
  <2>5. QED
    BY <2>4 DEF S
<1> HIDE DEF Left
<1>6. reg' \in [Exts -> Entry]
  BY <1>3, <1>5, StoreFields
<1>7. QED
  BY <1>1, <1>3, <1>4, <1>5, <1>6

LEMMA UnregisterArtifactsTypes ==
    ASSUME TypeInv, UnregisterArtifacts
    PROVE  TypeInv' /\ StillMoving
<1> DEFINE j == [job EXCEPT !.done = TRUE]
           a == arg[2]
<1>1. job \in MoveJob /\ todo \in Seq(MoveSteps) /\ todo # <<>> /\ j \in MoveJob
  BY MoveTurn, MoveJobs DEF UnregisterArtifacts, In, MoveNames
<1>2. PICK part \in SUBSET Exts, done \in SUBSET Exts :
         /\ done \subseteq part
         /\ files' = [files EXCEPT ![a] =
                       [n \in Names |-> IF \E e \in part : n \in reg[e].cmds[a] THEN NoFile ELSE @[n]]]
         /\ cut' = cut \cup (part \ done)
         /\ reg' \in [Exts -> Entry]
         /\ \A e \in Exts \ done : reg'[e] = reg[e]
         /\ \A e \in done : reg'[e].ver = reg[e].ver
  BY Unregistering
<1>3. files' \in Files
  <2> DEFINE F(n) == IF \E e \in part : n \in reg[e].cmds[a] THEN NoFile ELSE files[a][n]
  <2>1. a \in Agents
    BY Unregistering
  <2>2. \A n \in Names : F(n) \in [of: Exts \cup {None}, ver: Nat]
    BY <2>1, StoreFields, Constants_ DEF Files
  <2>3. files' = [files EXCEPT ![a] = [n \in Names |-> F(n)]]
    BY <1>2, <2>1, StoreFields DEF Files
  <2> HIDE DEF F, a
  <2>4. QED
    BY <2>1, <2>2, <2>3, StoreFields DEF Files
<1>4. skills' \in Files /\ reg' \in [Exts -> Entry] /\ cut' \subseteq Exts
  BY <1>2, Unregistering, StoreFields
<1>5. UNCHANGED <<dir, saved, stash, listed, hooks, active, detected, integ, manifests, stripped, core, shared, noted, acts>>
  BY DEF UnregisterArtifacts
<1>6. GenuineStore'
  BY <1>2, <1>5 DEF TypeInv, GenuineStore, Versions
<1>7. MoveGoesOn(j)
  <2>1. Done \/ (Warned /\ (Pass(j) \/ End(TRUE)))
    BY DEF UnregisterArtifacts
  <2>2. QED
    BY <2>1, Zenon DEF MoveGoesOn, Done
<1> HIDE DEF j, a
<1>8. QED
  BY <1>1, <1>3, <1>4, <1>5, <1>6, <1>7, StoreFields, MoveFields, MoveKept

\* What register_enabled_extensions_for_agent does for a: the commands it
\* writes for those it has begun, the entries of those it has finished.
Registered(a, written, entered, names) ==
    /\ entered \subseteq written
    /\ \A e \in written : Loads(e) /\ (names[e] = {} \/ names[e] = Declared(e, dir[e].ver))
    /\ \A b \in Agents \ {a} : files'[b] = files[b]
    /\ \A n \in Names :
          \/ \E e \in written : n \in names[e] /\ files'[a][n] = FileOf(e, dir[e].ver)
          \/ files'[a][n] = files[a][n] /\ \A e \in written : n \notin names[e]
    /\ reg' \in [Exts -> Entry]
    /\ \A e \in Exts \ entered : reg'[e] = reg[e]
    /\ \A e \in entered :
          /\ reg'[e].ver = reg[e].ver /\ reg'[e].enabled = reg[e].enabled
          /\ reg'[e].cmds = reg[e].cmds \/ reg'[e].cmds = [reg[e].cmds EXCEPT ![a] = names[e]]

LEMMA Registering ==
    ASSUME TypeInv, RegisterArtifacts
    PROVE  /\ arg[2] \in Agents /\ skills' \in Files /\ files' \in Files
           /\ \E written, entered \in SUBSET Exts, names \in [Exts -> SUBSET Names] :
                 Registered(arg[2], written, entered, names)
<1> DEFINE a == arg[2]
           wanted == {e \in Exts : Loads(e) /\ reg[e].enabled}
           inSkillsMode == active = a /\ a \in SkillsAgents
           N(e) == IF inSkillsMode THEN {} ELSE Declared(e, dir[e].ver)
           new(e) == IF SkillsDirs = {} THEN {} ELSE NewSkills(e, dir[e].ver)
           Left(e) == [reg[e] EXCEPT !.cmds[a] = IF inSkillsMode THEN @ ELSE N(e), !.skills = @ \cup new(e)]
<1>1. a \in Agents
  BY MoveTurn, Arguments DEF RegisterArtifacts, In, arg, MoveNames
<1>2. PICK written \in SUBSET wanted, entered \in SUBSET wanted :
             /\ entered \subseteq written
             /\ files' = [files EXCEPT ![a] = [n \in Names |->
                   IF \E e \in written : n \in N(e)
                     THEN LET e == CHOOSE e \in written : n \in N(e) IN FileOf(e, dir[e].ver)
                     ELSE @[n]]]
             /\ skills' = [b \in Agents |-> [n \in Names |->
                   IF b \in SkillsDirs /\ \E e \in written : n \in new(e)
                     THEN LET e == CHOOSE e \in written : n \in new(e) IN FileOf(e, dir[e].ver)
                     ELSE skills[b][n]]]
             /\ reg' = [e \in Exts |-> IF e \in entered THEN Left(e) ELSE reg[e]]
  BY DEF RegisterArtifacts
<1> DEFINE names == [e \in Exts |-> IF e \in wanted THEN N(e) ELSE {}]
<1>3. ASSUME NEW e \in wanted
      PROVE  /\ dir[e].ver \in Versions(e) /\ FileOf(e, dir[e].ver) \in [of: Exts \cup {None}, ver: Nat]
             /\ N(e) \in SUBSET Names /\ new(e) \in SUBSET Names
  <2>1. dir[e].ver \in Versions(e)
    BY DEF Loads, TypeInv, GenuineStore
  <2>2. dir[e].ver \in Nat /\ Declared(e, dir[e].ver) \subseteq Names /\ new(e) \subseteq Names
    BY <2>1, DeclaredIn DEF NewSkills
  <2>3. QED
    BY <2>1, <2>2 DEF FileOf
<1> HIDE DEF N, new
<1>4. /\ names \in [Exts -> SUBSET Names]
      /\ \A e \in written : names[e] = N(e)
  BY <1>3, <1>2
<1> DEFINE F(n) == IF \E e \in written : n \in N(e)
                     THEN LET e == CHOOSE e \in written : n \in N(e) IN FileOf(e, dir[e].ver)
                     ELSE files[a][n]
           G(b, n) == IF b \in SkillsDirs /\ \E e \in written : n \in new(e)
                     THEN LET e == CHOOSE e \in written : n \in new(e) IN FileOf(e, dir[e].ver)
                     ELSE skills[b][n]
<1>5. files' = [files EXCEPT ![a] = [n \in Names |-> F(n)]]
  BY <1>2
<1>6. skills' = [b \in Agents |-> [n \in Names |-> G(b, n)]]
  BY <1>2
<1>7. ASSUME NEW n \in Names
      PROVE  /\ F(n) \in [of: Exts \cup {None}, ver: Nat]
             /\ \/ \E e \in written : n \in N(e) /\ F(n) = FileOf(e, dir[e].ver)
                \/ F(n) = files[a][n] /\ \A e \in written : n \notin N(e)
  <2>1. CASE \E e \in written : n \in N(e)
    <3> DEFINE c == CHOOSE e \in written : n \in N(e)
    <3>1. c \in written /\ n \in N(c)
      BY <2>1
    <3>2. F(n) = FileOf(c, dir[c].ver)
      BY <2>1
    <3> HIDE DEF c, F
    <3>3. QED
      BY <1>2, <1>3, <3>1, <3>2
  <2>2. CASE ~\E e \in written : n \in N(e)
    <3>1. F(n) = files[a][n]
      BY <2>2
    <3> HIDE DEF F
    <3>2. QED
      BY <1>1, <2>2, <3>1, StoreFields DEF Files
  <2>3. QED
    BY <2>1, <2>2
<1>8. ASSUME NEW b \in Agents, NEW n \in Names
      PROVE  G(b, n) \in [of: Exts \cup {None}, ver: Nat]
  <2>1. CASE b \in SkillsDirs /\ \E e \in written : n \in new(e)
    <3> DEFINE c == CHOOSE e \in written : n \in new(e)
    <3>1. c \in written
      BY <2>1
    <3>2. G(b, n) = FileOf(c, dir[c].ver)
      BY <2>1
    <3> HIDE DEF c, G
    <3>3. QED
      BY <1>2, <1>3, <3>1, <3>2
  <2>2. CASE ~(b \in SkillsDirs /\ \E e \in written : n \in new(e))
    <3>1. G(b, n) = skills[b][n]
      BY <2>2
    <3> HIDE DEF G
    <3>2. QED
      BY <3>1, StoreFields DEF Files
  <2>3. QED
    BY <2>1, <2>2
<1>9. files' \in Files /\ skills' \in Files
  <2> HIDE DEF F, G, a
  <2>1. QED
    BY <1>1, <1>5, <1>6, <1>7, <1>8, StoreFields DEF Files
<1>10. ASSUME NEW e \in entered
       PROVE  /\ reg'[e] \in Entry /\ reg'[e].ver = reg[e].ver /\ reg'[e].enabled = reg[e].enabled
              /\ reg'[e].cmds = IF inSkillsMode THEN reg[e].cmds ELSE [reg[e].cmds EXCEPT ![a] = N(e)]
  <2>1. reg[e] \in Entry /\ reg[e].skills \in SUBSET Names /\ reg[e].cmds \in [Agents -> SUBSET Names]
    BY <1>2, StoreFields DEF Entry
  <2>2. reg'[e] = Left(e)
    BY <1>2
  <2> DEFINE S == IF inSkillsMode THEN reg[e].cmds[a] ELSE N(e)
             X == reg[e].skills \cup new(e)
  <2>3. S \in SUBSET Names /\ X \in SUBSET Names
    BY <1>1, <1>2, <1>3, <2>1
  <2>4. Left(e) = EntryWith(reg[e], a, S, X)
    BY <1>1, <2>1 DEF Entry, EntryWith
  <2> HIDE DEF S, X, Left
  <2>5. /\ Left(e) \in Entry /\ Left(e).ver = reg[e].ver /\ Left(e).enabled = reg[e].enabled
        /\ Left(e).cmds = [reg[e].cmds EXCEPT ![a] = S]
    BY <1>1, <2>1, <2>3, <2>4, EntryWithIs
  <2>6. [reg[e].cmds EXCEPT ![a] = S] = IF inSkillsMode THEN reg[e].cmds ELSE [reg[e].cmds EXCEPT ![a] = N(e)]
    BY <1>1, <2>1 DEF S
  <2>7. QED
    BY <2>2, <2>5, <2>6
<1> HIDE DEF Left
<1>11. reg' \in [Exts -> Entry] /\ \A e \in Exts \ entered : reg'[e] = reg[e]
  BY <1>2, <1>10, StoreFields
<1>12. /\ \A b \in Agents \ {a} : files'[b] = files[b]
       /\ \A n \in Names :
             \/ \E e \in written : n \in names[e] /\ files'[a][n] = FileOf(e, dir[e].ver)
             \/ files'[a][n] = files[a][n] /\ \A e \in written : n \notin names[e]
  <2> HIDE DEF F, a, names
  <2>1. \A b \in Agents \ {a} : files'[b] = files[b]
    BY <1>5, StoreFields DEF Files
  <2>2. \A n \in Names : files'[a][n] = F(n)
    BY <1>1, <1>5, StoreFields DEF Files
  <2>3. QED
    BY <1>4, <1>7, <2>1, <2>2
<1>13. \A e \in written : names[e] = {} \/ names[e] = Declared(e, dir[e].ver)
  BY <1>4 DEF N
<1>14. \A e \in entered : reg'[e].cmds = reg[e].cmds \/ reg'[e].cmds = [reg[e].cmds EXCEPT ![a] = names[e]]
  BY <1>2, <1>4, <1>10
<1> HIDE DEF names, a
<1>15. Registered(a, written, entered, names)
  BY <1>2, <1>10, <1>11, <1>12, <1>13, <1>14 DEF Registered
<1>16. written \in SUBSET Exts /\ entered \in SUBSET Exts /\ names \in [Exts -> SUBSET Names]
  BY <1>2, <1>4
<1> HIDE DEF names, a
<1>17. \E w, en \in SUBSET Exts, nm \in [Exts -> SUBSET Names] : Registered(a, w, en, nm)
  BY <1>15, <1>16, Zenon
<1>18. QED
  BY <1>1, <1>9, <1>17, Zenon DEF a

LEMMA RegisterArtifactsTypes ==
    ASSUME TypeInv, RegisterArtifacts
    PROVE  TypeInv' /\ StillMoving
<1> DEFINE j == [job EXCEPT !.done = TRUE]
<1>1. job \in MoveJob /\ todo \in Seq(MoveSteps) /\ todo # <<>> /\ j \in MoveJob
  BY MoveTurn, MoveJobs DEF RegisterArtifacts, In, MoveNames
<1>2. files' \in Files /\ skills' \in Files
  BY Registering
<1>3. reg' \in [Exts -> Entry] /\ \A e \in Exts : reg'[e].ver = reg[e].ver
  <2>1. PICK written \in SUBSET Exts, entered \in SUBSET Exts, names \in [Exts -> SUBSET Names] :
           Registered(arg[2], written, entered, names)
    BY Registering
  <2>2. QED
    BY <2>1 DEF Registered
<1>4. UNCHANGED <<dir, saved, stash, listed, hooks, active, detected, cut, integ, manifests, stripped, core, shared, noted, acts>>
  BY DEF RegisterArtifacts
<1>5. GenuineStore'
  BY <1>3, <1>4 DEF TypeInv, GenuineStore, Versions
<1>6. MoveGoesOn(j)
  <2>1. Done \/ (Warned /\ (End(broken) \/ End(TRUE)))
    BY DEF RegisterArtifacts
  <2>2. QED
    BY <1>1, <2>1, EndingsAreMoves
<1> HIDE DEF j
<1>7. QED
  BY <1>1, <1>2, <1>3, <1>4, <1>5, <1>6, StoreFields, MoveFields, MoveKept

LEMMA MoveStepTypes ==
    ASSUME TypeInv, MoveStep
    PROVE  TypeInv' /\ StillMoving
BY InfraTypes, SetupTypes, TeardownTypes, StaleTypes, WriteJsonTypes, OptionsTypes, UnregisterArtifactsTypes,
   RegisterArtifactsTypes DEF MoveStep

\* The steps, alone and in lists.
LEMMA StepsAre ==
    /\ \A d \in Agents \cup {None}, b, c \in BOOLEAN : <<"infra", d, b, c>> \in MoveSteps
    /\ \A a \in Agents, b \in BOOLEAN : <<"teardown", a, b>> \in MoveSteps
    /\ \A a \in Agents : /\ <<"setup", a>> \in MoveSteps /\ <<"options", a>> \in MoveSteps
                          /\ <<"stale", a>> \in MoveSteps
                          /\ <<"forget", a>> \in MoveSteps /\ <<"unartifact", a>> \in MoveSteps
                          /\ <<"artifacts", a>> \in MoveSteps
    /\ \A d \in Agents \cup {None}, keys \in Seq(Agents) : <<"json", d, keys>> \in MoveSteps
BY DEF MoveSteps

LEMMA ListsAre ==
    /\ \A m \in MoveSteps : <<m>> \in Seq(MoveSteps) /\ <<m>> # <<>>
    /\ \A m, n \in MoveSteps : <<m, n>> \in Seq(MoveSteps) /\ <<m, n>> # <<>>
    /\ \A m, n, o \in MoveSteps : <<m, n, o>> \in Seq(MoveSteps) /\ <<m, n, o>> # <<>>
OBVIOUS

LEMMA Together ==
    ASSUME NEW s \in Seq(MoveSteps), NEW t \in Seq(MoveSteps)
    PROVE  s \o t \in Seq(MoveSteps) /\ (s # <<>> \/ t # <<>> => s \o t # <<>>)
BY ConcatProperties, ConcatEqualIffEmpty

LEMMA MakeDefaultIs ==
    ASSUME NEW a \in Agents, NEW keys \in Seq(Agents), NEW force \in BOOLEAN
    PROVE  MakeDefault(a, keys, force) \in Seq(MoveSteps) /\ MakeDefault(a, keys, force) # <<>>
<1>1. <<"infra", a, TRUE, force>> \in MoveSteps /\ <<"json", a, keys>> \in MoveSteps /\ <<"options", a>> \in MoveSteps
  BY StepsAre, ListsAre, Zenon
<1>2. QED
  BY <1>1 DEF MakeDefault

LEMMA FallBackIs ==
    ASSUME NEW keys \in Seq(Agents)
    PROVE  FallBack(keys) \in Seq(MoveSteps) /\ FallBack(keys) # <<>>
<1>1. CASE keys = <<>>
  <2>1. <<"json", None, keys>> \in MoveSteps
    BY DEF MoveSteps
  <2>2. QED
    BY <1>1, <2>1 DEF FallBack, NoIntegration
<1>2. CASE keys # <<>>
  <2>1. keys[1] \in Agents
    BY <1>2
  <2>2. QED
    BY <1>2, <2>1, MakeDefaultIs DEF FallBack
<1>3. QED
  BY <1>1, <1>2

LEMMA WithoutIs ==
    ASSUME TypeInv, NEW a
    PROVE  Without(a) \in Seq(Agents)
<1>1. integ.installed \in Seq(Agents)
  BY MoveFields
<1> DEFINE keys == integ.installed
           i == CHOOSE k \in DOMAIN keys : keys[k] = a
<1>2. ASSUME a \in Present PROVE i \in DOMAIN keys
  BY <1>2 DEF Present
<1>3. CASE a \in Present
  <2>1. i \in 1..Len(keys) /\ Len(keys) \in Nat
    BY <1>1, <1>2, <1>3
  <2>2. SubSeq(keys, 1, i - 1) \in Seq(Agents) /\ SubSeq(keys, i + 1, Len(keys)) \in Seq(Agents)
    <3> HIDE DEF i, keys
    <3>1. /\ 1 \in 1..(Len(keys) + 1) /\ i - 1 \in (1 - 1)..Len(keys)
          /\ i + 1 \in 1..(Len(keys) + 1) /\ Len(keys) \in (i + 1 - 1)..Len(keys)
      BY <2>1
    <3>2. keys \in Seq(Agents)
      BY <1>1 DEF keys
    <3>3. QED
      BY <3>1, <3>2, SubSeqProperties
  <2>3. Without(a) = SubSeq(keys, 1, i - 1) \o SubSeq(keys, i + 1, Len(keys))
    BY <1>3 DEF Without
  <2> HIDE DEF i, keys
  <2>4. QED
    BY <2>2, <2>3, ConcatProperties
<1>4. QED
  BY <1>1, <1>3 DEF Without

LEMMA BeginMoveTypes ==
    ASSUME TypeInv, NEW from \in Agents \cup {None}, NEW force \in BOOLEAN, NEW undo \in Seq(MoveSteps),
           NEW steps \in Seq(MoveSteps), steps # <<>>, BeginMove(from, force, undo, steps)
    PROVE  /\ TypeInv' /\ job' \in MoveJob /\ job = NoJob
           /\ job'.from = from /\ job'.force = force /\ job'.undo = undo /\ job'.caught = FALSE /\ job'.done = FALSE
<1> DEFINE j == [NoMove EXCEPT !.from = from, !.force = force, !.undo = undo]
<1>1. /\ j \in MoveJob /\ j.op = "move" /\ j.from = from /\ j.force = force /\ j.undo = undo /\ j.caught = FALSE
      /\ j.done = FALSE
  BY DEF NoMove, MoveJob
<1>2. job' = j /\ todo' = steps /\ Idle /\ acts' = acts + 1 /\ acts < MaxActs
  BY DEF BeginMove, Act
<1> HIDE DEF j
<1>3. Running' /\ GenuineJob'
  BY <1>1, <1>2 DEF Running, GenuineJob
<1>4. job = NoJob
  BY <1>2, Advance DEF Idle, TypeInv, Running
<1>5. acts' \in 0..MaxActs
  BY <1>2, StoreFields, ExtensionAssumption
<1>6. TypeOK' /\ GenuineStore'
  BY <1>5 DEF TypeInv, TypeOK, ExtTypeOK, BeginMove, extVars, integVars, GenuineStore, Versions
<1>7. QED
  BY <1>1, <1>2, <1>3, <1>4, <1>6 DEF TypeInv

LEMMA InstallTypes ==
    ASSUME TypeInv, NEW a \in Agents, Install(a)
    PROVE  TypeInv' /\ job = NoJob /\ job' \in MoveJob
<1> DEFINE keys == integ.installed
           d == IF keys = <<>> THEN a ELSE integ.default
           undo == <<<<"teardown", a, TRUE>>, <<"json", integ.default, keys>>>>
           last == IF keys = <<>> THEN <<<<"options", a>>>> ELSE <<>>
           first == <<<<"infra", d, FALSE, FALSE>>, <<"setup", a>>, <<"json", d, Append(keys, a)>>>>
<1>1. keys \in Seq(Agents) /\ integ.default \in Agents \cup {None} /\ d \in Agents \cup {None}
  BY MoveFields
<1>2. Append(keys, a) \in Seq(Agents)
  BY <1>1
<1>3. undo \in Seq(MoveSteps)
  BY <1>1, StepsAre, ListsAre, Zenon
<1>4. last \in Seq(MoveSteps)
  <2>1. <<>> \in Seq(MoveSteps)
    OBVIOUS
  <2>2. <<<<"options", a>>>> \in Seq(MoveSteps)
    BY StepsAre, ListsAre, Zenon
  <2>3. QED
    BY <2>1, <2>2, Zenon
<1>5. first \in Seq(MoveSteps) /\ first # <<>>
  <2> HIDE DEF keys, d
  <2>1. /\ <<"infra", d, FALSE, FALSE>> \in MoveSteps /\ <<"setup", a>> \in MoveSteps
        /\ <<"json", d, Append(keys, a)>> \in MoveSteps
    BY <1>1, <1>2, StepsAre, ListsAre, Zenon
  <2>2. QED
    BY <2>1
<1>6. BeginMove(None, FALSE, undo, first \o last)
  BY DEF Install
<1> HIDE DEF keys, d, undo, last, first
<1>7. first \o last \in Seq(MoveSteps) /\ first \o last # <<>>
  BY <1>4, <1>5, Together, Zenon
<1>8. QED
  BY <1>3, <1>6, <1>7, BeginMoveTypes

LEMMA UninstallTypes ==
    ASSUME TypeInv, NEW a \in Agents, NEW force \in BOOLEAN, Uninstall(a, force)
    PROVE  TypeInv' /\ job = NoJob /\ job' \in MoveJob
<1> DEFINE rest == Without(a)
           first == IF a \in manifests THEN <<<<"teardown", a, force>>>> ELSE <<>>
           last == IF integ.default = a THEN FallBack(rest) \o <<<<"forget", a>>>>
                   ELSE <<<<"json", integ.default, rest>>>>
<1>1. rest \in Seq(Agents) /\ integ.default \in Agents \cup {None}
  BY WithoutIs, MoveFields
<1>2. first \in Seq(MoveSteps)
  <2>1. <<>> \in Seq(MoveSteps)
    OBVIOUS
  <2>2. <<<<"teardown", a, force>>>> \in Seq(MoveSteps)
    BY StepsAre, ListsAre, Zenon
  <2>3. QED
    BY <2>1, <2>2, Zenon
<1>3. last \in Seq(MoveSteps) /\ last # <<>>
  <2> HIDE DEF rest
  <2>1. <<<<"forget", a>>>> \in Seq(MoveSteps) /\ <<<<"json", integ.default, rest>>>> \in Seq(MoveSteps)
    BY <1>1, StepsAre, ListsAre, Zenon
  <2>2. FallBack(rest) \in Seq(MoveSteps)
    BY <1>1, FallBackIs
  <2>3. FallBack(rest) \o <<<<"forget", a>>>> \in Seq(MoveSteps) /\ FallBack(rest) \o <<<<"forget", a>>>> # <<>>
    BY <2>1, <2>2, Together, Zenon
  <2>4. QED
    BY <2>1, <2>3
<1>4. BeginMove(None, force, <<>>, first \o last)
  BY DEF Uninstall
<1> HIDE DEF rest, first, last
<1>5. first \o last \in Seq(MoveSteps) /\ first \o last # <<>>
  BY <1>2, <1>3, Together, Zenon
<1>6. <<>> \in Seq(MoveSteps) /\ None \in Agents \cup {None}
  OBVIOUS
<1>7. QED
  BY <1>4, <1>5, <1>6, BeginMoveTypes

LEMMA UseTypes ==
    ASSUME TypeInv, NEW a \in Agents, NEW force \in BOOLEAN, Use(a, force)
    PROVE  TypeInv' /\ job = NoJob /\ job' \in MoveJob
<1>1. MakeDefault(a, integ.installed, force) \in Seq(MoveSteps) /\ MakeDefault(a, integ.installed, force) # <<>>
  BY MoveFields, MakeDefaultIs
<1>2. <<>> \in Seq(MoveSteps) /\ None \in Agents \cup {None}
  OBVIOUS
<1>3. QED
  BY <1>1, <1>2, BeginMoveTypes DEF Use

LEMMA UpgradeTypes ==
    ASSUME TypeInv, NEW a \in Agents, NEW force \in BOOLEAN, NEW stale \in BOOLEAN, Upgrade(a, force, stale)
    PROVE  TypeInv' /\ job = NoJob /\ job' \in MoveJob
<1> DEFINE d == integ.default
           first == <<<<"infra", d, FALSE, force>>, <<"setup", a>>>>
           last == IF d = a THEN MakeDefault(a, integ.installed, force) ELSE <<<<"json", d, integ.installed>>>>
           end == IF stale THEN <<<<"stale", a>>>> ELSE <<>>
<1>1. integ.installed \in Seq(Agents) /\ d \in Agents \cup {None}
  BY MoveFields
<1>2. first \in Seq(MoveSteps) /\ first # <<>>
  BY <1>1, StepsAre, ListsAre, Zenon
<1>3. last \in Seq(MoveSteps)
  <2> HIDE DEF d
  <2>1. <<<<"json", d, integ.installed>>>> \in Seq(MoveSteps)
    BY <1>1, StepsAre, ListsAre, Zenon
  <2>2. MakeDefault(a, integ.installed, force) \in Seq(MoveSteps)
    BY <1>1, MakeDefaultIs
  <2>3. QED
    BY <2>1, <2>2
<1>4. end \in Seq(MoveSteps)
  <2>1. <<>> \in Seq(MoveSteps)
    OBVIOUS
  <2>2. <<<<"stale", a>>>> \in Seq(MoveSteps)
    BY StepsAre, ListsAre, Zenon
  <2>3. QED
    BY <2>1, <2>2, Zenon
<1>5. BeginMove(None, force, <<>>, first \o last \o end)
  BY DEF Upgrade
<1> HIDE DEF d, first, last, end
<1>6. first \o last \in Seq(MoveSteps) /\ first \o last # <<>>
  BY <1>2, <1>3, Together, Zenon
<1>7. first \o last \o end \in Seq(MoveSteps) /\ first \o last \o end # <<>>
  BY <1>4, <1>6, Together, Zenon
<1>8. <<>> \in Seq(MoveSteps) /\ None \in Agents \cup {None}
  OBVIOUS
<1>9. QED
  BY <1>5, <1>7, <1>8, BeginMoveTypes

LEMMA WithIs ==
    ASSUME NEW keys \in Seq(Agents), NEW a \in Agents
    PROVE  With(keys, a) \in Seq(Agents)
BY DEF With

LEMMA SwitchTypes ==
    ASSUME TypeInv, NEW a \in Agents, NEW force \in BOOLEAN, NEW all \in BOOLEAN, Switch(a, force, all)
    PROVE  TypeInv' /\ job = NoJob /\ job' \in MoveJob
<1> DEFINE old == integ.default
           rest == Without(old)
           undo == <<<<"teardown", a, TRUE>>>> \o FallBack(rest)
           off == <<<<"teardown", old, force>>, <<"unartifact", old>>, <<"forget", old>>>> \o FallBack(rest)
           out == IF old = None THEN <<>> ELSE off
           in == <<<<"infra", a, TRUE, all>>, <<"setup", a>>>>
           steps == out \o in \o MakeDefault(a, With(rest, a), FALSE) \o <<<<"artifacts", a>>>>
<1>1. rest \in Seq(Agents) /\ old \in Agents \cup {None}
  BY WithoutIs, MoveFields
<1>2. BeginMove(old, force \/ all, undo, out \o (in \o MakeDefault(a, With(rest, a), FALSE) \o <<<<"artifacts", a>>>>))
      \/ BeginMove(old, force \/ all, undo, steps)
  BY DEF Switch
<1> HIDE DEF rest, old
<1>3. FallBack(rest) \in Seq(MoveSteps) /\ MakeDefault(a, With(rest, a), FALSE) \in Seq(MoveSteps)
  BY <1>1, FallBackIs, WithIs, MakeDefaultIs
<1>4. <<<<"teardown", a, TRUE>>>> \in Seq(MoveSteps) /\ in \in Seq(MoveSteps) /\ in # <<>>
      /\ <<<<"artifacts", a>>>> \in Seq(MoveSteps)
  BY StepsAre, ListsAre, Zenon
<1>5. undo \in Seq(MoveSteps)
  BY <1>3, <1>4, Together, Zenon
<1>6. out \in Seq(MoveSteps)
  <2>1. CASE old = None
    BY <2>1
  <2>2. CASE old # None
    <3>1. <<<<"teardown", old, force>>, <<"unartifact", old>>, <<"forget", old>>>> \in Seq(MoveSteps)
      BY <1>1, <2>2, StepsAre, ListsAre, Zenon
    <3>2. off \in Seq(MoveSteps)
      BY <1>3, <3>1, Together, Zenon
    <3> HIDE DEF off
    <3>3. QED
      BY <2>2, <3>2
  <2>3. QED
    BY <2>1, <2>2
<1> DEFINE s == out \o (in \o MakeDefault(a, With(rest, a), FALSE) \o <<<<"artifacts", a>>>>)
<1> HIDE DEF undo, out, in
<1>7. steps \in Seq(MoveSteps) /\ steps # <<>> /\ s \in Seq(MoveSteps) /\ s # <<>>
  <2>1. in \o MakeDefault(a, With(rest, a), FALSE) \in Seq(MoveSteps)
        /\ in \o MakeDefault(a, With(rest, a), FALSE) # <<>>
    BY <1>3, <1>4, Together, Zenon
  <2>2. out \o in \in Seq(MoveSteps) /\ out \o in # <<>>
    BY <1>4, <1>6, Together, Zenon
  <2>3. out \o in \o MakeDefault(a, With(rest, a), FALSE) \in Seq(MoveSteps)
        /\ out \o in \o MakeDefault(a, With(rest, a), FALSE) # <<>>
    BY <1>3, <2>2, Together, Zenon
  <2>4. steps \in Seq(MoveSteps) /\ steps # <<>>
    BY <1>4, <2>3, Together, Zenon
  <2>5. in \o MakeDefault(a, With(rest, a), FALSE) \o <<<<"artifacts", a>>>> \in Seq(MoveSteps)
        /\ in \o MakeDefault(a, With(rest, a), FALSE) \o <<<<"artifacts", a>>>> # <<>>
    BY <1>4, <2>1, Together, Zenon
  <2>6. s \in Seq(MoveSteps) /\ s # <<>>
    BY <1>6, <2>5, Together, Zenon
  <2>7. QED
    BY <2>4, <2>6
<1>8. force \/ all \in BOOLEAN
  OBVIOUS
<1>9. BeginMove(old, force \/ all, undo, s) \/ BeginMove(old, force \/ all, undo, steps)
  BY <1>2
<1> HIDE DEF steps, s
<1>10. QED
  BY <1>1, <1>5, <1>7, <1>8, <1>9, BeginMoveTypes

LEMMA EditTypes ==
    ASSUME TypeInv, Edit
    PROVE  TypeInv' /\ job = NoJob
<1>1. job = NoJob /\ Running'
  BY Advance DEF Edit, Act, Idle, TypeInv, Running
<1>2. acts' \in 0..MaxActs
  BY StoreFields, ExtensionAssumption DEF Edit, Act
<1>3. \/ UNCHANGED shared /\ \E a \in Agents : core' = [core EXCEPT ![a] = User]
      \/ UNCHANGED core /\ shared' = [by |-> User, for |-> None]
  BY DEF Edit
<1>4. /\ core' \in [Agents -> {Nothing, "bundled", User}]
      /\ shared'.by \in {Nothing, "cli", User} /\ shared'.for \in Agents \cup {None}
  BY <1>3, MoveFields
<1>5. TypeOK' /\ GenuineStore' /\ GenuineJob'
  BY <1>2, <1>4 DEF TypeInv, TypeOK, ExtTypeOK, Edit, extVars, GenuineStore, GenuineJob, Versions, e0
<1>6. QED
  BY <1>1, <1>5 DEF TypeInv

LEMMA TypesKept ==
    ASSUME TypeInv, [Next]_vars
    PROVE  TypeInv'
<1>1. CASE Command /\ UNCHANGED integVars
  BY <1>1, CommandTypes
<1>2. CASE ExtStep /\ UNCHANGED integVars
  BY <1>2, ExtStepTypes
<1>3. CASE Move
  BY <1>3, InstallTypes, UninstallTypes, UseTypes, UpgradeTypes, SwitchTypes DEF Move
<1>4. CASE MoveStep
  BY <1>4, MoveStepTypes
<1>5. CASE Edit
  BY <1>5, EditTypes
<1>6. CASE UNCHANGED vars
  BY <1>6 DEF vars, extVars, integVars, TypeInv, TypeOK, ExtTypeOK, Running, GenuineStore, GenuineJob, Versions, e0
<1>7. QED
  BY <1>1, <1>2, <1>3, <1>4, <1>5, <1>6 DEF Next

LEMMA InitTypes == Init => TypeInv
<1> SUFFICES ASSUME Init PROVE TypeInv
  OBVIOUS
<1>1. TypeOK
  <2>1. ExtTypeOK
    <3>1. files \in Files /\ skills \in Files
      BY Constants_ DEF Init, ExtInit, Files
    <3>2. reg \in [Exts -> Entry] /\ dir \in [Exts -> Dir] /\ stash \in [Exts -> [dir: Dir, cfg: BOOLEAN]]
          /\ hooks \in [Exts -> Hooks]
      BY Constants_ DEF Init, ExtInit
    <3>3. /\ saved \subseteq Exts /\ listed \subseteq Exts /\ active \in Agents \cup {None} /\ detected \subseteq Agents
          /\ acts \in 0..MaxActs /\ faults \in 0..MaxFaults /\ cut \subseteq Exts
      BY ExtensionAssumption DEF Init, ExtInit
    <3>4. QED
      BY <3>1, <3>2, <3>3 DEF ExtTypeOK
  <2>2. /\ integ \in [default: Agents \cup {None}, installed: Seq(Agents)] /\ manifests \subseteq Agents
        /\ stripped \subseteq Agents
        /\ core \in [Agents -> {Nothing, "bundled", User}] /\ broken \in BOOLEAN
    <3>1. active \in Agents /\ <<active>> \in Seq(Agents)
      BY DEF Init
    <3>2. integ = [default |-> active, installed |-> <<active>>] /\ manifests = {active} /\ stripped = {} /\ broken = FALSE
      BY DEF Init
    <3>3. core = [a \in Agents |-> IF a = active THEN "bundled" ELSE Nothing]
      BY DEF Init
    <3>4. QED
      BY <3>1, <3>2, <3>3
  <2>3. shared.by \in {Nothing, "cli", User} /\ shared.for \in Agents \cup {None}
    BY DEF Init, Rendered
  <2>4. noted.file.by \in {Nothing, "cli", User} /\ noted.recovered \in BOOLEAN
    BY <2>3 DEF Init
  <2>5. QED
    BY <2>1, <2>2, <2>3, <2>4 DEF TypeOK
<1>2. Running /\ GenuineJob
  BY NoJobIs DEF Init, ExtInit, Running, GenuineJob
<1>3. GenuineStore
  BY Constants_ DEF Init, ExtInit, GenuineStore
<1>4. QED
  BY <1>1, <1>2, <1>3 DEF TypeInv

\* Each command is a list of known steps with arguments of their kinds, and
\* the project's files hold only what these commands write.
THEOREM TypeCorrect == Spec => []TypeOK
<1>1. Spec => []TypeInv
  BY InitTypes, TypesKept, PTL DEF Spec
<1>2. TypeInv => TypeOK
  BY DEF TypeInv
<1>3. QED
  BY <1>1, <1>2, PTL

-----------------------------------------------------------------------------
(* A step and the other extensions *)

\* The step leaves alone what the others have, but for names that a command
\* that was cut short has too.
OthersKept ==
    \A f \in Exts \ cut' : f # e0 =>
        /\ reg'[f] = reg[f] /\ dir'[f] = dir[f] /\ hooks'[f] = hooks[f]
        /\ Installed(f) /\ f \in listed => f \in listed'
        /\ \A a \in Agents : \A n \in reg[f].cmds[a] : files'[a][n] = files[a][n] \/ \E g \in cut' : Named(g, n)

\* What the step records of the command's own extension.
EntryKept ==
    /\ \A f \in Exts : f # e0 => reg'[f] = reg[f] \/ (reg'[f] = NoEntry /\ f \in cut')
    /\ \/ reg'[e0] = NoEntry
       \/ reg'[e0].ver = reg[e0].ver /\ reg'[e0].cmds = reg[e0].cmds
       \/ /\ reg'[e0].ver \in Versions(e0)
          /\ \A a \in Agents : \A n \in reg'[e0].cmds[a] :
                Named(e0, n) /\ (e0 \notin cut' => n \in Declared(e0, reg'[e0].ver))
          /\ e0 \notin cut' => Free(e0, reg'[e0].ver)

\* What the step does to the update it is a step of.
UpdateKept ==
    job.op = "update" =>
        /\ e0 \notin cut' => stash'[e0] = stash[e0]
        /\ \A a \in Agents : \A n \in Names :
              job.files[a][n] = NoFile => files'[a][n] \in {files[a][n], NoFile, FileOf(e0, job.ver)}

LEMMA OthersSound ==
    ASSUME TypeInv, Sound, OthersKept, cut \subseteq cut', NEW f \in Exts, f \notin cut', f # e0
    PROVE  /\ InPlace(f)' /\ HooksAre(hooks'[f], f, reg'[f].ver, reg'[f].enabled) /\ Written(f)'
           /\ Installed(f)' <=> Installed(f)
<1>1. InPlace(f) /\ HooksAre(hooks[f], f, reg[f].ver, reg[f].enabled) /\ Written(f)
  BY DEF Sound, AtRest, e0
<1>2. /\ reg'[f] = reg[f] /\ dir'[f] = dir[f] /\ hooks'[f] = hooks[f]
      /\ Installed(f) /\ f \in listed => f \in listed'
      /\ \A a \in Agents : \A n \in reg[f].cmds[a] : files'[a][n] = files[a][n] \/ \E g \in cut' : Named(g, n)
  BY DEF OthersKept
<1>3. InPlace(f)' /\ (Installed(f)' <=> Installed(f))
  BY <1>1, <1>2 DEF InPlace, Installed
<1>4. HooksAre(hooks'[f], f, reg'[f].ver, reg'[f].enabled)
  BY <1>1, <1>2
<1>5. Written(f)'
  BY <1>1, <1>2 DEF Written, Excused, Named, Versions
<1>6. QED
  BY <1>3, <1>4, <1>5

LEMMA FreeKept ==
    ASSUME OthersKept, cut \subseteq cut', NEW v, Free(e0, v)
    PROVE  \A f \in Exts \ cut' : f # e0 /\ Installed(f)' =>
              \A n \in Names : ~(n \in Declared(e0, v) /\ n \in Declared(f, reg'[f].ver))
BY DEF Free, OthersKept, Installed

LEMMA BooksKept ==
    ASSUME TypeInv, Recording, Apart, OthersKept, EntryKept, cut \subseteq cut', e0 \in Exts
    PROVE  Recording' /\ Apart'
<1>1. ASSUME NEW e \in Exts, NEW a \in Agents, NEW n \in reg'[e].cmds[a]
      PROVE  reg'[e].ver # 0 /\ Named(e, n) /\ (e \notin cut' => n \in Declared(e, reg'[e].ver))
  <2>1. NoEntry.cmds[a] = {}
    BY DEF NoEntry
  <2>2. reg[e].ver # 0 \/ n \notin reg[e].cmds[a]
    BY DEF Recording, Installed
  <2>3. n \in reg[e].cmds[a] => Named(e, n) /\ (e \notin cut => n \in Declared(e, reg[e].ver))
    BY DEF Recording
  <2>4. CASE e # e0
    BY <1>1, <2>1, <2>2, <2>3, <2>4 DEF EntryKept
  <2>5. CASE e = e0 /\ reg'[e0] = NoEntry
    BY <1>1, <2>1, <2>5
  <2>6. CASE e = e0 /\ reg'[e0].ver = reg[e0].ver /\ reg'[e0].cmds = reg[e0].cmds
    BY <1>1, <2>2, <2>3, <2>6
  <2>7. CASE /\ e = e0 /\ reg'[e0].ver \in Versions(e0)
             /\ \A b \in Agents : \A m \in reg'[e0].cmds[b] :
                   Named(e0, m) /\ (e0 \notin cut' => m \in Declared(e0, reg'[e0].ver))
    BY <1>1, <2>7, DeclaredIn
  <2>8. QED
    BY <2>4, <2>5, <2>6, <2>7 DEF EntryKept
<1>2. Recording'
  BY <1>1, Zenon DEF Recording, Installed, Named, Versions
<1>3. \A f \in Exts \ cut' : f # e0 => reg'[f] = reg[f]
  BY DEF OthersKept
<1>4. ASSUME NEW e \in Exts \ cut', NEW f \in Exts \ cut', e # f, reg'[e].ver # 0, reg'[f].ver # 0, NEW n \in Names,
             n \in Declared(e, reg'[e].ver), n \in Declared(f, reg'[f].ver)
      PROVE  FALSE
  <2>1. \A d \in Exts \ cut' : Installed(d) => Free(d, reg[d].ver)
    BY DEF Apart
  <2>2. CASE e # e0 /\ f # e0
    BY <1>3, <1>4, <2>1, <2>2 DEF Free, Installed
  <2>3. CASE reg'[e0].ver = reg[e0].ver
    BY <1>3, <1>4, <2>1, <2>3 DEF Free, Installed
  <2>4. CASE reg'[e0] = NoEntry /\ (e = e0 \/ f = e0)
    BY <1>4, <2>4, Constants_
  <2>5. CASE (e = e0 \/ f = e0) /\ (e0 \notin cut' => Free(e0, reg'[e0].ver))
    BY <1>3, <1>4, <2>5 DEF Free, Installed
  <2>6. QED
    BY <2>2, <2>3, <2>4, <2>5 DEF EntryKept
<1>5. Apart'
  BY <1>4, Zenon DEF Apart, Free, Installed
<1>6. QED
  BY <1>2, <1>5

\* What is so of e0 when its command ends uncut.
OwnSound ==
    e0 \notin cut' =>
        /\ reg'[e0].ver # 0 => dir'[e0].there /\ dir'[e0].ver = reg'[e0].ver /\ e0 \in listed'
        /\ HooksAre(hooks'[e0], e0, reg'[e0].ver, reg'[e0].enabled)
        /\ \A a \in Agents : \A n \in reg'[e0].cmds[a] :
              files'[a][n] = FileOf(e0, reg'[e0].ver) \/ \E g \in cut' : Named(g, n)

\* The command ends, as it should or cut short.
LEMMA Ended ==
    ASSUME TypeInv, ExtInv, job \in ExtJob, OthersKept, EntryKept, cut \subseteq cut',
           job' = NoJob, todo' = <<>>, OwnSound
    PROVE  ExtInv'
<1>1. e0 \in Exts /\ Recording' /\ Apart'
  BY JobFields, BooksKept DEF ExtInv
<1>2. job'.op = "none" /\ e0' = None
  BY DEF NoJob, e0
<1>3. JobRecording' /\ OthersListed' /\ Underway' /\ ConfigKept'
  BY <1>2 DEF JobRecording, OthersListed, Underway, ConfigKept, ExtOps
<1>4. Sound'
  <2> SUFFICES ASSUME NEW e \in Exts, e \notin cut'
               PROVE  InPlace(e)' /\ HooksAre(hooks[e], e, reg[e].ver, reg[e].enabled)' /\ Written(e)'
    BY DEF Sound, AtRest
  <2>1. CASE e # e0
    BY <2>1, OthersSound DEF ExtInv, HooksAre
  <2>2. CASE e = e0
    <3>1. InPlace(e)'
      BY <2>2 DEF OwnSound, InPlace, Installed
    <3>2. Written(e)'
      BY <2>2 DEF OwnSound, Written, Excused, Named, Versions
    <3>3. HooksAre(hooks[e], e, reg[e].ver, reg[e].enabled)'
      BY <2>2 DEF OwnSound, HooksAre
    <3>4. QED
      BY <3>1, <3>2, <3>3
  <2>3. QED
    BY <2>1, <2>2
<1>5. QED
  BY <1>1, <1>3, <1>4 DEF ExtInv

\* The command goes on, with or without having remembered something.
LEMMA BooksCarried ==
    ASSUME TypeInv, ExtInv, job \in ExtJob, OthersKept, EntryKept, cut \subseteq cut',
           job'.ext = job.ext, job'.op = job.op, job'.ver = job.ver, job'.entry = job.entry
    PROVE  /\ e0' = e0 /\ e0 \in Exts /\ Sound' /\ Recording' /\ Apart'
           /\ \A v : Free(e0, v) => Free(e0, v)'
<1>1. e0 \in Exts /\ Recording' /\ Apart'
  BY JobFields, BooksKept DEF ExtInv
<1>2. e0' = e0
  BY DEF e0
<1>3. Sound'
  <2> SUFFICES ASSUME NEW e \in Exts, e \notin cut', e # e0
               PROVE  InPlace(e)' /\ HooksAre(hooks[e], e, reg[e].ver, reg[e].enabled)' /\ Written(e)'
    BY DEF Sound, AtRest, e0
  <2>1. QED
    BY OthersSound DEF ExtInv, HooksAre
<1>4. ASSUME NEW v, Free(e0, v) PROVE Free(e0, v)'
  BY <1>2, <1>4 DEF Free, OthersKept, Installed
<1>5. QED
  BY <1>1, <1>2, <1>3, <1>4

\* What has not been looked at yet is as it was.
LEMMA Carried ==
    ASSUME TypeInv, ExtInv, job \in ExtJob, OthersKept, EntryKept, UpdateKept, cut \subseteq cut', todo # <<>>,
           job'.ext = job.ext, job'.op = job.op, job'.ver = job.ver, job'.entry = job.entry, job'.dir = job.dir,
           job'.known = job.known, job'.hooks = job.hooks, job'.listed = job.listed, job'.files = job.files,
           \A a \in Agents : \A n \in job'.cmds[a] : n \in Declared(e0, job.ver),
           todo' # <<>>, Head(todo')[1] # "stash", e0 \notin cut' => Head(todo)[1] # "stash",
           e0 \notin cut' /\ Head(todo')[1] \in Writing => Head(todo)[1] \in Writing \/ Free(e0, job.ver)
    PROVE  /\ Sound' /\ Recording' /\ Apart' /\ JobRecording' /\ OthersListed'
           /\ e0 \notin cut' => NamesFree' /\ Remembered'
<1>1. /\ e0' = e0 /\ e0 \in Exts /\ Sound' /\ Recording' /\ Apart'
      /\ \A v : Free(e0, v) => Free(e0, v)'
  BY BooksCarried
<1>2. JobRecording'
  <2>1. JobRecording
    BY DEF ExtInv
  <2>2. QED
    BY <1>1, <2>1 DEF JobRecording, Named, Versions, At
<1>3. OthersListed'
  BY <1>1 DEF ExtInv, OthersListed, OthersKept, Installed
<1>4. ASSUME e0 \notin cut' PROVE NamesFree' /\ Remembered'
  <2>1. job.op \in ExtOps /\ NamesFree /\ Remembered
    BY <1>4, JobFields DEF ExtInv, Underway
  <2>2. NamesFree'
    BY <1>1, <1>4, <2>1 DEF NamesFree, At
  <2>3. Remembered'
    <3> SUFFICES ASSUME job.op = "update" PROVE Remembered'
      BY DEF Remembered
    <3>1. /\ job.dir.there /\ job.dir.ver = job.entry.ver
          /\ job.known /\ e0 \in job.listed /\ stash[e0].dir = job.dir
          /\ HooksAre(job.hooks, e0, job.entry.ver, job.entry.enabled)
          /\ \A a \in Agents : \A n \in job.entry.cmds[a] :
                /\ job.files[a][n] = FileOf(e0, job.entry.ver) \/ Excused(n)
                /\ job.files[a][n] = NoFile => files[a][n] \in {NoFile, FileOf(e0, job.ver)}
      BY <1>4, <2>1 DEF Remembered, At
    <3>2. stash'[e0] = stash[e0] /\ \A a \in Agents : \A n \in Names :
              job.files[a][n] = NoFile => files'[a][n] \in {files[a][n], NoFile, FileOf(e0, job.ver)}
      BY <1>4 DEF UpdateKept
    <3>3. \A n : Excused(n) => Excused(n)'
      BY DEF Excused, Named, Versions
    <3>4. ASSUME NEW a \in Agents, NEW n \in job.entry.cmds[a]
          PROVE  /\ job.files[a][n] = FileOf(e0, job.entry.ver) \/ Excused(n)'
                 /\ job.files[a][n] = NoFile => files'[a][n] \in {NoFile, FileOf(e0, job.ver)}
      <4>1. n \in Names
        BY JobFields DEF Entry
      <4>2. QED
        BY <3>1, <3>2, <3>3, <4>1
    <3>5. HooksAre(job.hooks, e0, job.entry.ver, job.entry.enabled)'
      BY <1>1, <3>1 DEF HooksAre
    <3>6. QED
      BY <1>1, <3>1, <3>2, <3>4, <3>5 DEF Remembered, At, HooksAre, FileOf
  <2>4. QED
    BY <2>2, <2>3
<1>5. QED
  BY <1>1, <1>2, <1>3, <1>4

\* The update begins its rollback.
LEMMA Rolled ==
    ASSUME TypeInv, ExtInv, job \in ExtJob, OthersKept, EntryKept, UpdateKept, todo # <<>>, RollsBack
    PROVE  ExtInv'
<1>1. /\ job'.ext = job.ext /\ job'.op = job.op /\ job'.ver = job.ver /\ job'.entry = job.entry /\ job'.dir = job.dir
      /\ job'.known = job.known /\ job'.hooks = job.hooks /\ job'.listed = job.listed /\ job'.files = job.files
      /\ job'.cmds = job.cmds /\ job'.rolled = TRUE /\ job.op = "update"
  BY DEF RollsBack, ExtJob
<1>2. todo' # <<>> /\ Head(todo')[1] = "undir" /\ cut \subseteq cut' /\ (e0 \notin cut' => Head(todo)[1] # "stash")
  BY RollsBackOn DEF RollsBack
<1>3. \A a \in Agents : \A n \in job'.cmds[a] : n \in Declared(e0, job.ver)
  BY <1>1 DEF ExtInv, JobRecording, ExtOps
<1>4. /\ Sound' /\ Recording' /\ Apart' /\ JobRecording' /\ OthersListed'
      /\ e0 \notin cut' => NamesFree' /\ Remembered'
  BY <1>1, <1>2, <1>3, Carried DEF Writing
<1>5. e0' = e0
  BY <1>1 DEF e0
<1>6. Installing' /\ Entered' /\ Hooked' /\ Undoing'
  BY <1>1, <1>2 DEF Installing, Entered, Hooked, Undoing, At, Writing
<1>7. Underway'
  BY <1>4, <1>5, <1>6 DEF Underway
<1>8. ConfigKept'
  <2>1. e0 \notin cut' => stash'[e0] = stash[e0]
    BY <1>1 DEF UpdateKept
  <2>2. job.dir.cfg /\ e0 \notin cut' => stash[e0].cfg
    BY <1>1, <1>2 DEF ExtInv, ConfigKept, At
  <2>3. QED
    BY <1>1, <1>2, <1>5, <2>1, <2>2 DEF ConfigKept, At
<1>9. QED
  BY <1>4, <1>7, <1>8 DEF ExtInv

\* An exception or a kill in a step that has kept what it should.
LEMMA Halted ==
    ASSUME TypeInv, ExtInv, job \in ExtJob, OthersKept, EntryKept, UpdateKept, todo # <<>>, Raise \/ Die
    PROVE  ExtInv'
<1>1. RollsBack \/ CutShort
  BY Stopped
<1>2. CutShort => OwnSound
  BY DEF CutShort, OwnSound
<1>3. QED
  BY <1>1, <1>2, Rolled, Ended DEF CutShort

\* A registry that was lost.
LEMMA Lost ==
    ASSUME TypeInv, ExtInv, job \in ExtJob, TornRegistry
    PROVE  ExtInv'
<1>1. cut' = Exts /\ job' = NoJob /\ todo' = <<>> /\ (\A e \in Exts : reg'[e] = NoEntry) /\ e0 \in Exts
      /\ cut \subseteq cut'
  BY StoreFields, JobFields DEF TornRegistry
<1>2. OthersKept /\ EntryKept /\ OwnSound
  BY <1>1 DEF OthersKept, EntryKept, OwnSound
<1>3. QED
  BY <1>1, <1>2, Ended

\* The step the command goes on to.
Upcoming == Head(todo')[1]

\* The steps after step s, of the commands that have them.
LEMMA Successors ==
    ASSUME job \in ExtJob, ExtPlan(job, todo), NEW j \in ExtJob, Go(j),
           j.op = job.op, j.rolled = job.rolled, j.entry = job.entry, 
           NEW s, s = Head(todo)[1]
    PROVE  /\ cut' = cut
           /\ \/ todo' = <<>> /\ job' = NoJob /\ s = LastStep(job)
              \/ todo' # <<>> /\ job' = j /\ Follows(job, s, Upcoming)
           /\ todo' # <<>> => Upcoming # "stash"
<1>1. \/ todo' = <<>> /\ job' = NoJob /\ Head(todo)[1] = LastStep(job)
      \/ job' = j /\ todo' # <<>> /\ Follows(job, Head(todo)[1], Head(todo')[1])
  BY GoesOn
<1>2. \A x : ~Follows(job, x, "stash")
  BY DEF Follows
<1>3. QED
  BY <1>1, <1>2 DEF Go, Upcoming

\* The command goes on.
LEMMA WentOn ==
    ASSUME TypeInv, ExtInv, job \in ExtJob, OthersKept, EntryKept, UpdateKept, todo # <<>>,
           todo' # <<>>, Upcoming # "stash", cut' = cut,
           NEW j \in ExtJob, job' = j,
           j.ext = job.ext, j.op = job.op, j.ver = job.ver, j.entry = job.entry, j.dir = job.dir,
           j.known = job.known, j.hooks = job.hooks, j.listed = job.listed, j.files = job.files,
           \A a \in Agents : \A n \in j.cmds[a] : n \in Declared(e0, job.ver),
           e0 \notin cut => Head(todo)[1] # "stash",
           e0 \notin cut /\ Upcoming \in Writing => Head(todo)[1] \in Writing \/ Free(e0, job.ver),
           e0 \notin cut => Installing' /\ Entered' /\ Hooked' /\ Undoing',
           ConfigKept'
    PROVE  ExtInv'
<1>1. e0' = e0
  BY DEF e0
<1>2. /\ Sound' /\ Recording' /\ Apart' /\ JobRecording' /\ OthersListed'
      /\ e0 \notin cut' => NamesFree' /\ Remembered'
  BY Carried DEF Upcoming
<1>3. Underway'
  BY <1>1, <1>2 DEF Underway
<1>4. QED
  BY <1>2, <1>3 DEF ExtInv

\* A step of an extension command and what is so of it.
LEMMA Turn ==
    ASSUME TypeInv, ExtInv, todo # <<>>, NEW s \in ExtStepNames, Head(todo)[1] = s
    PROVE  /\ job \in ExtJob /\ ExtPlan(job, todo) /\ e0 \in Exts /\ job.op \in ExtOps
           /\ e0 \notin cut => NamesFree /\ Installing /\ Entered /\ Hooked /\ Remembered /\ Undoing
           /\ \A a \in Agents : \A n \in job.cmds[a] : n \in Declared(e0, job.ver)
           /\ \A S : s \in S => At(S)
           /\ \A S : s \notin S => ~At(S)
BY StepOf, JobFields DEF ExtInv, Underway, JobRecording, At

\* A step that leaves the registry, the other directories and hooks, and all
\* command files alone.
LEMMA Local ==
    ASSUME TypeInv, job \in ExtJob, reg' = reg, files' = files,
           \A f \in Exts : f # e0 => dir'[f] = dir[f] /\ hooks'[f] = hooks[f],
           \A f \in Exts : f # e0 /\ f \in listed => f \in listed',
           job.op = "update" /\ e0 \notin cut' => stash'[e0] = stash[e0]
    PROVE  OthersKept /\ EntryKept /\ UpdateKept
BY DEF OthersKept, EntryKept, UpdateKept

\* What must be so for a step to be next.
LEMMA Stage ==
    ASSUME todo' # <<>>,
           job'.ext = job.ext, job'.op = job.op, job'.ver = job.ver, job'.entry = job.entry, job'.dir = job.dir,
           job'.hooks = job.hooks, job'.files = job.files, job'.rolled = job.rolled,
           Upcoming \in Writing \ {"copy"} => dir'[e0].there /\ dir'[e0].ver = job.ver,
           Upcoming \in Writing \ {"copy", "register"} =>
              \A a \in Agents : \A n \in job'.cmds[a] : files'[a][n] = FileOf(e0, job.ver),
           Upcoming \in {"unsave", "enter"} => HooksAre(hooks'[e0], e0, job.ver, TRUE) /\ e0 \in listed',
           job.op \in {"enable", "disable"} \/ (job.op = "update" /\ ~job.rolled /\ Upcoming \in {"recfg", "remeta", "hush", "clean"})
              => /\ reg'[e0].ver # 0 /\ dir'[e0].there /\ dir'[e0].ver = reg'[e0].ver /\ e0 \in listed'
                 /\ \A a \in Agents : \A n \in reg'[e0].cmds[a] :
                       files'[a][n] = FileOf(e0, reg'[e0].ver) \/ \E g \in cut' : Named(g, n),
           Upcoming = "drop" => HooksAre(hooks'[e0], e0, 0, FALSE),
           Upcoming \in {"recfg", "remeta"} => HooksAre(hooks'[e0], e0, reg'[e0].ver, reg'[e0].enabled),
           Upcoming = "recfg" \/ (Upcoming = "remeta" /\ job.op = "update") => reg'[e0].enabled,
           Upcoming = "hush" => ~reg'[e0].enabled /\ HooksAre(hooks'[e0], e0, reg'[e0].ver, TRUE),
           Upcoming = "unhush" => reg'[e0].enabled /\ HooksAre(hooks'[e0], e0, reg'[e0].ver, FALSE),
           job.op = "enable" => job.entry.enabled /\ Upcoming # "remeta",
           job.op = "disable" => ~job.entry.enabled /\ Upcoming # "remeta",
           Upcoming = "clean" /\ ~job.rolled => HooksAre(hooks'[e0], e0, reg'[e0].ver, reg'[e0].enabled),
           job.op = "update" /\ job.rolled =>
              /\ Upcoming \in {"unnew", "refile", "rehook", "reenter", "clean"} => dir'[e0] = job.dir
              /\ Upcoming \in {"rehook", "reenter", "clean"} =>
                    \A a \in Agents : \A n \in Names : job.files[a][n] # NoFile => files'[a][n] = job.files[a][n]
              /\ Upcoming \in {"reenter", "clean"} => hooks'[e0] = job.hooks /\ e0 \in listed'
              /\ Upcoming = "clean" => reg'[e0] = job.entry
    PROVE  Installing' /\ Entered' /\ Hooked' /\ Undoing'
<1>1. e0' = e0
  BY DEF e0
<1>2. \A S : At(S)' <=> Upcoming \in S
  BY DEF At, Upcoming
<1>3. Installing'
  BY <1>1, <1>2 DEF Installing, FileOf, HooksAre
<1>4. Entered'
  BY <1>1, <1>2 DEF Entered, Installed, InPlace, Written, Excused, Named, Versions, FileOf
<1>5. Hooked'
  BY <1>1, <1>2 DEF Hooked, HooksAre
<1>6. Undoing'
  BY <1>1, <1>2 DEF Undoing
<1>7. QED
  BY <1>3, <1>4, <1>5, <1>6

LEMMA CopyKeeps ==
    ASSUME TypeInv, TypeInv', ExtInv, Copy
    PROVE  ExtInv'
<1>1. todo # <<>> /\ Head(todo)[1] = "copy" /\ "copy" \in ExtStepNames
  BY DEF Copy, In, ExtStepNames, InstallSteps
<1>2. /\ job \in ExtJob /\ ExtPlan(job, todo) /\ e0 \in Exts /\ job.op \in ExtOps
      /\ e0 \notin cut => NamesFree /\ Installing /\ Entered /\ Hooked /\ Remembered /\ Undoing
      /\ \A a \in Agents : \A n \in job.cmds[a] : n \in Declared(e0, job.ver)
      /\ job.op \in {"add", "readd"} \/ (job.op = "update" /\ ~job.rolled)
  BY <1>1, Turn, StepOf DEF InstallSteps
<1>3. PICK d : dir' = [dir EXCEPT ![e0] = d] /\ ((d = Source(job.ver) /\ Go(job)) \/ Stop)
  BY DEF Copy
<1>4. /\ UNCHANGED <<reg, saved, stash, files, skills, listed, hooks>>
      /\ dir'[e0] = d /\ \A f \in Exts : f # e0 => dir'[f] = dir[f]
  BY <1>2, <1>3, StoreFields DEF Copy
<1>5. OthersKept /\ EntryKept /\ UpdateKept
  BY <1>2, <1>4, Local
<1>6. CASE Stop
  BY <1>1, <1>2, <1>5, <1>6, Halted DEF Stop
<1>7. CASE d = Source(job.ver) /\ Go(job)
  <2>1. /\ cut' = cut
        /\ \/ todo' = <<>> /\ job' = NoJob /\ LastStep(job) = "copy"
           \/ todo' # <<>> /\ job' = job /\ Follows(job, "copy", Upcoming)
  BY <1>1, <1>2, <1>7, Successors
  <2>2. todo' # <<>> /\ job' = job /\ Upcoming = "register" /\ e0' = e0
    BY <1>2, <2>1 DEF Follows, LastStep, e0
  <2>3. Installing' /\ Entered' /\ Hooked' /\ Undoing'
    BY <1>2, <1>4, <1>7, <2>2, Stage DEF Writing, Source, ExtJob
  <2>4. ConfigKept'
    BY <1>1, <1>2, <1>4, <2>1, <2>2 DEF ExtInv, ConfigKept, At, Upcoming
  <2>5. QED
    BY <1>1, <1>2, <1>5, <2>1, <2>2, <2>3, <2>4, WentOn DEF Writing
<1>8. QED
  BY <1>3, <1>6, <1>7

LEMMA RegisterKeeps ==
    ASSUME TypeInv, TypeInv', ExtInv, Register
    PROVE  ExtInv'
<1> DEFINE names == Declared(e0, job.ver)
           j == [job EXCEPT !.cmds = [a \in Agents |-> IF a \in detected THEN names ELSE {}]]
<1>1. todo # <<>> /\ Head(todo)[1] = "register" /\ "register" \in ExtStepNames
  BY DEF Register, In, ExtStepNames, InstallSteps
<1>2. /\ job \in ExtJob /\ ExtPlan(job, todo) /\ e0 \in Exts /\ job.op \in ExtOps
      /\ e0 \notin cut => NamesFree /\ Installing /\ Entered /\ Hooked /\ Remembered /\ Undoing
      /\ job.op \in {"add", "readd"} \/ (job.op = "update" /\ ~job.rolled)
      /\ names \subseteq Names
      /\ \A n \in names : Named(e0, n)
  BY <1>1, Turn, StepOf, DeclaredIn DEF InstallSteps, Named
<1>3. PICK done \in SUBSET detected :
         /\ files' = WithFiles(files, done, names, FileOf(e0, job.ver))
         /\ (done = detected /\ Go(j)) \/ Stop
  BY DEF Register
<1>4. UNCHANGED <<reg, dir, saved, stash, skills, listed, hooks>>
  BY DEF Register
<1>5. \A a \in Agents : \A n \in Names :
         files'[a][n] = IF a \in done /\ n \in names THEN FileOf(e0, job.ver) ELSE files[a][n]
  BY <1>3 DEF WithFiles
<1>6. e0 \notin cut => Free(e0, job.ver)
  BY <1>1, <1>2 DEF NamesFree, At, Writing
<1>7. cut \subseteq cut'
  BY <1>3 DEF Go, Stop, Raise, Die
<1> HIDE DEF names
<1>8. OthersKept /\ EntryKept /\ UpdateKept
  <2>1. ASSUME NEW f \in Exts \ cut', f # e0, NEW a \in Agents, NEW n \in reg[f].cmds[a]
        PROVE  files'[a][n] = files[a][n] \/ \E g \in cut' : Named(g, n)
    <3>1. Installed(f) /\ n \in Declared(f, reg[f].ver) /\ n \in Names
      BY <1>7, <2>1, StoreFields DEF ExtInv, Recording, Entry
    <3>2. CASE n \in names /\ e0 \notin cut
      BY <1>6, <1>7, <2>1, <3>1, <3>2 DEF Free, names
    <3>3. CASE n \in names /\ e0 \in cut
      BY <1>2, <1>7, <3>3
    <3>4. CASE n \notin names
      BY <1>5, <3>1, <3>4
    <3>5. QED
      BY <3>2, <3>3, <3>4
  <2>2. OthersKept
    BY <1>4, <2>1 DEF OthersKept
  <2>3. EntryKept
    BY <1>4 DEF EntryKept
  <2>4. UpdateKept
    BY <1>4, <1>5 DEF UpdateKept
  <2>5. QED
    BY <2>2, <2>3, <2>4
<1>9. CASE Stop
  BY <1>1, <1>2, <1>8, <1>9, Halted DEF Stop
<1>10. CASE done = detected /\ Go(j)
  <2>1. /\ j \in ExtJob
        /\ j.ext = job.ext /\ j.op = job.op /\ j.ver = job.ver /\ j.entry = job.entry /\ j.dir = job.dir
        /\ j.known = job.known /\ j.hooks = job.hooks /\ j.listed = job.listed /\ j.files = job.files
        /\ j.rolled = job.rolled
        /\ j.cmds = [a \in Agents |-> IF a \in detected THEN names ELSE {}]
    BY <1>2 DEF ExtJob
  <2> HIDE DEF j
  <2>2. /\ cut' = cut
        /\ \/ todo' = <<>> /\ job' = NoJob /\ LastStep(job) = "register"
           \/ todo' # <<>> /\ job' = j /\ Follows(job, "register", Upcoming)
    BY <1>1, <1>2, <1>10, <2>1, Successors
  <2>3. todo' # <<>> /\ job' = j /\ Upcoming = "skills" /\ e0' = e0
    BY <1>2, <2>1, <2>2 DEF Follows, LastStep, e0
  <2>4. ASSUME NEW a \in Agents, NEW n \in j.cmds[a]
        PROVE  n \in Declared(e0, job.ver) /\ files'[a][n] = FileOf(e0, job.ver)
    <3>1. a \in detected /\ n \in names
      BY <2>1, <2>4
    <3>2. QED
      BY <1>2, <1>5, <1>10, <3>1 DEF names
  <2>5. e0 \notin cut => dir'[e0].there /\ dir'[e0].ver = job.ver
    BY <1>1, <1>2, <1>4 DEF Installing, At, Writing
  <2>6. e0 \notin cut => Installing' /\ Entered' /\ Hooked' /\ Undoing'
    BY <1>2, <2>1, <2>3, <2>4, <2>5, Stage DEF Writing
  <2>7. ConfigKept'
    BY <1>1, <1>2, <1>4, <2>1, <2>2, <2>3 DEF ExtInv, ConfigKept, At, Upcoming
  <2>8. QED
    BY <1>1, <1>2, <1>8, <2>1, <2>2, <2>3, <2>4, <2>6, <2>7, WentOn DEF Writing
<1>11. QED
  BY <1>3, <1>9, <1>10

LEMMA RegisterSkillsKeeps ==
    ASSUME TypeInv, TypeInv', ExtInv, RegisterSkills
    PROVE  ExtInv'
<1>1. todo # <<>> /\ Head(todo)[1] = "skills" /\ "skills" \in ExtStepNames
  BY DEF RegisterSkills, In, ExtStepNames, InstallSteps
<1>2. /\ job \in ExtJob /\ ExtPlan(job, todo) /\ e0 \in Exts /\ job.op \in ExtOps
      /\ e0 \notin cut => NamesFree /\ Installing /\ Entered /\ Hooked /\ Remembered /\ Undoing
      /\ \A a \in Agents : \A n \in job.cmds[a] : n \in Declared(e0, job.ver)
      /\ job.op \in {"add", "readd"} \/ (job.op = "update" /\ ~job.rolled)
      /\ job.ver \in Versions(e0)
  BY <1>1, Turn, StepOf DEF InstallSteps
<1>3. PICK new \in SUBSET Names : Go([job EXCEPT !.skills = new]) \/ Stop
  <2> DEFINE all == IF SkillsDirs = {} THEN {} ELSE NewSkills(e0, job.ver)
  <2>1. all \subseteq Names
    BY <1>2, DeclaredIn DEF NewSkills
  <2>2. Go([job EXCEPT !.skills = all]) \/ Stop
    BY DEF RegisterSkills
  <2> HIDE DEF all
  <2>3. QED
    BY <2>1, <2>2
<1>4. UNCHANGED <<reg, dir, saved, stash, files, listed, hooks>>
  BY DEF RegisterSkills
<1>5. OthersKept /\ EntryKept /\ UpdateKept
  BY <1>2, <1>4, Local
<1>6. CASE Stop
  BY <1>1, <1>2, <1>5, <1>6, Halted DEF Stop
<1> DEFINE j == [job EXCEPT !.skills = new]
<1>7. CASE Go(j)
  <2>1. /\ j \in ExtJob
        /\ j.ext = job.ext /\ j.op = job.op /\ j.ver = job.ver /\ j.entry = job.entry /\ j.dir = job.dir
        /\ j.known = job.known /\ j.hooks = job.hooks /\ j.listed = job.listed /\ j.files = job.files
        /\ j.rolled = job.rolled /\ j.cmds = job.cmds
    BY <1>2 DEF ExtJob
  <2> HIDE DEF j
  <2>2. /\ cut' = cut
        /\ \/ todo' = <<>> /\ job' = NoJob /\ LastStep(job) = "skills"
           \/ todo' # <<>> /\ job' = j /\ Follows(job, "skills", Upcoming)
    BY <1>1, <1>2, <1>7, <2>1, Successors
  <2>3. todo' # <<>> /\ job' = j /\ Upcoming = "hook" /\ e0' = e0
    BY <1>2, <2>1, <2>2 DEF Follows, LastStep, e0
  <2>4. e0 \notin cut => /\ dir'[e0].there /\ dir'[e0].ver = job.ver
                         /\ \A a \in Agents : \A n \in j.cmds[a] : files'[a][n] = FileOf(e0, job.ver)
    BY <1>1, <1>2, <1>4, <2>1 DEF Installing, At, Writing
  <2>5. e0 \notin cut => Installing' /\ Entered' /\ Hooked' /\ Undoing'
    BY <1>2, <2>1, <2>3, <2>4, Stage DEF Writing
  <2>6. ConfigKept'
    BY <1>1, <1>2, <1>4, <2>1, <2>2, <2>3 DEF ExtInv, ConfigKept, At, Upcoming
  <2>7. QED
    BY <1>1, <1>2, <1>5, <2>1, <2>2, <2>3, <2>5, <2>6, WentOn DEF Writing
<1>8. QED
  BY <1>3, <1>6, <1>7

LEMMA RegisterHooksKeeps ==
    ASSUME TypeInv, TypeInv', ExtInv, RegisterHooks
    PROVE  ExtInv'
<1>1. todo # <<>> /\ Head(todo)[1] = "hook" /\ "hook" \in ExtStepNames
  BY DEF RegisterHooks, In, ExtStepNames, InstallSteps
<1>2. /\ job \in ExtJob /\ ExtPlan(job, todo) /\ e0 \in Exts /\ job.op \in ExtOps
      /\ e0 \notin cut => NamesFree /\ Installing /\ Entered /\ Hooked /\ Remembered /\ Undoing
      /\ \A a \in Agents : \A n \in job.cmds[a] : n \in Declared(e0, job.ver)
      /\ job.op \in {"add", "readd"} \/ (job.op = "update" /\ ~job.rolled)
      /\ job.ver \in Nat \ {0}
  BY <1>1, Turn, StepOf, DeclaredIn DEF InstallSteps
<1>3. PICK n \in 0..2 :
         /\ listed' = IF n >= 1 THEN listed \cup {e0} ELSE listed
         /\ hooks' = IF n = 2
                       THEN [hooks EXCEPT ![e0] =
                               [h \in Events |-> IF h \in Declares[e0][job.ver].hooks THEN "on" ELSE "none"]]
                       ELSE hooks
         /\ (n = 2 /\ Go(job)) \/ Stop
  BY DEF RegisterHooks
<1>4. /\ UNCHANGED <<reg, dir, saved, stash, files, skills>>
      /\ \A f \in Exts : f # e0 => hooks'[f] = hooks[f]
      /\ listed \subseteq listed'
  BY <1>2, <1>3, StoreFields DEF RegisterHooks
<1>5. OthersKept /\ EntryKept /\ UpdateKept
  BY <1>2, <1>4, Local
<1>6. CASE Stop
  BY <1>1, <1>2, <1>5, <1>6, Halted DEF Stop
<1>7. CASE n = 2 /\ Go(job)
  <2>1. /\ cut' = cut
        /\ \/ todo' = <<>> /\ job' = NoJob /\ LastStep(job) = "hook"
           \/ todo' # <<>> /\ job' = job /\ Follows(job, "hook", Upcoming)
    BY <1>1, <1>2, <1>7, Successors
  <2>2. todo' # <<>> /\ job' = job /\ Upcoming \in {"unsave", "enter"} /\ (job.op # "readd" => Upcoming = "enter")
        /\ (job.op = "readd" => Upcoming = "unsave")
    BY <1>2, <2>1 DEF Follows, LastStep
  <2>3. HooksAre(hooks'[e0], e0, job.ver, TRUE) /\ e0 \in listed'
    BY <1>2, <1>3, <1>7, StoreFields DEF HooksAre
  <2>4. e0 \notin cut => /\ dir'[e0].there /\ dir'[e0].ver = job.ver
                         /\ \A a \in Agents : \A m \in job.cmds[a] : files'[a][m] = FileOf(e0, job.ver)
    BY <1>1, <1>2, <1>4 DEF Installing, At, Writing
  <2>5. e0 \notin cut => Installing' /\ Entered' /\ Hooked' /\ Undoing'
    BY <1>2, <2>2, <2>3, <2>4, Stage DEF Writing
  <2>6. ConfigKept'
    BY <1>1, <1>2, <1>4, <2>1, <2>2 DEF ExtInv, ConfigKept, At, Upcoming, e0
  <2>7. QED
    BY <1>1, <1>2, <1>5, <2>1, <2>2, <2>5, <2>6, WentOn DEF Writing
<1>8. QED
  BY <1>3, <1>6, <1>7

LEMMA UnsaveKeeps ==
    ASSUME TypeInv, TypeInv', ExtInv, Unsave
    PROVE  ExtInv'
<1>1. todo # <<>> /\ Head(todo)[1] = "unsave" /\ "unsave" \in ExtStepNames
  BY DEF Unsave, In, ExtStepNames
<1>2. /\ job \in ExtJob /\ ExtPlan(job, todo) /\ e0 \in Exts /\ job.op \in ExtOps
      /\ e0 \notin cut => NamesFree /\ Installing /\ Entered /\ Hooked /\ Remembered /\ Undoing
      /\ \A a \in Agents : \A n \in job.cmds[a] : n \in Declared(e0, job.ver)
      /\ job.op = "readd"
  BY <1>1, Turn, StepOf
<1>3. PICK n \in 0..2 :
         /\ dir' = IF n >= 1 /\ e0 \in saved THEN [dir EXCEPT ![e0].cfg = TRUE] ELSE dir
         /\ (n = 2 /\ Go(job)) \/ Stop
  BY DEF Unsave
<1>4. /\ UNCHANGED <<reg, stash, files, skills, listed, hooks>>
      /\ \A f \in Exts : f # e0 => dir'[f] = dir[f]
      /\ dir'[e0].there = dir[e0].there /\ dir'[e0].ver = dir[e0].ver
      /\ n >= 1 /\ e0 \in saved => dir'[e0].cfg
  BY <1>2, <1>3, StoreFields DEF Unsave, Dir
<1>5. OthersKept /\ EntryKept /\ UpdateKept
  BY <1>2, <1>4, Local
<1>6. CASE Stop
  BY <1>1, <1>2, <1>5, <1>6, Halted DEF Stop
<1>7. CASE n = 2 /\ Go(job)
  <2>1. /\ cut' = cut
        /\ \/ todo' = <<>> /\ job' = NoJob /\ LastStep(job) = "unsave"
           \/ todo' # <<>> /\ job' = job /\ Follows(job, "unsave", Upcoming)
    BY <1>1, <1>2, <1>7, Successors
  <2>2. todo' # <<>> /\ job' = job /\ Upcoming = "enter" /\ e0' = e0
    BY <1>2, <2>1 DEF Follows, LastStep, e0
  <2>3. e0 \notin cut => /\ dir'[e0].there /\ dir'[e0].ver = job.ver
                         /\ \A a \in Agents : \A m \in job.cmds[a] : files'[a][m] = FileOf(e0, job.ver)
                         /\ HooksAre(hooks'[e0], e0, job.ver, TRUE) /\ e0 \in listed'
    BY <1>1, <1>2, <1>4 DEF Installing, At, Writing, HooksAre
  <2>4. e0 \notin cut => Installing' /\ Entered' /\ Hooked' /\ Undoing'
    BY <1>2, <2>2, <2>3, Stage DEF Writing
  <2>5. job.dir.cfg => dir'[e0].cfg
    BY <1>1, <1>2, <1>4, <1>7 DEF ExtInv, ConfigKept, At
  <2>6. ConfigKept'
    BY <1>2, <2>2, <2>5 DEF ConfigKept, At, Upcoming
  <2>7. QED
    BY <1>1, <1>2, <1>5, <2>1, <2>2, <2>4, <2>6, WentOn DEF Writing
<1>8. QED
  BY <1>3, <1>6, <1>7

LEMMA EnterKeeps ==
    ASSUME TypeInv, TypeInv', ExtInv, Enter
    PROVE  ExtInv'
<1>1. todo # <<>> /\ Head(todo)[1] = "enter" /\ "enter" \in ExtStepNames
  BY DEF Enter, In, ExtStepNames
<1>2. /\ job \in ExtJob /\ ExtPlan(job, todo) /\ e0 \in Exts /\ job.op \in ExtOps
      /\ e0 \notin cut => NamesFree /\ Installing /\ Entered /\ Hooked /\ Remembered /\ Undoing
      /\ \A a \in Agents : \A n \in job.cmds[a] : n \in Declared(e0, job.ver)
      /\ job.op \in {"add", "readd"} \/ (job.op = "update" /\ ~job.rolled)
      /\ job.ver \in Versions(e0)
  BY <1>1, Turn, StepOf
<1> DEFINE x == [ver |-> job.ver, enabled |-> TRUE, cmds |-> job.cmds, skills |-> job.skills]
<1>3. /\ UNCHANGED <<dir, saved, stash, files, skills, listed, hooks>>
      /\ \/ reg' = [reg EXCEPT ![e0] = x] /\ (Go(job) \/ Stop)
         \/ reg' = reg /\ Stop
         \/ TornRegistry
  BY DEF Enter
<1>4. CASE TornRegistry
  BY <1>2, <1>4, Lost
<1>5. CASE reg' = reg /\ Stop
  <2>1. OthersKept /\ EntryKept /\ UpdateKept
    BY <1>2, <1>3, <1>5, Local
  <2>2. QED
    BY <1>1, <1>2, <1>5, <2>1, Halted DEF Stop
<1>6. CASE reg' = [reg EXCEPT ![e0] = x] /\ (Go(job) \/ Stop)
  <2>1. /\ reg'[e0] = x /\ (\A f \in Exts : f # e0 => reg'[f] = reg[f])
        /\ x.ver = job.ver /\ x.cmds = job.cmds /\ x.enabled = TRUE
    BY <1>2, <1>6, StoreFields
  <2> HIDE DEF x
  <2>2. e0 \notin cut => /\ Free(e0, job.ver) /\ dir'[e0].there /\ dir'[e0].ver = job.ver
                         /\ \A a \in Agents : \A n \in job.cmds[a] : files'[a][n] = FileOf(e0, job.ver)
                         /\ HooksAre(hooks'[e0], e0, job.ver, TRUE) /\ e0 \in listed'
    BY <1>1, <1>2, <1>3 DEF NamesFree, Installing, At, Writing, HooksAre
  <2>3. cut \subseteq cut'
    BY <1>6 DEF Go, Stop, Raise, Die
  <2>4. OthersKept /\ UpdateKept
    BY <1>3, <2>1 DEF OthersKept, UpdateKept
  <2>5. EntryKept
    BY <1>2, <2>1, <2>2, <2>3 DEF EntryKept, Named
  <2>6. CASE Stop
    BY <1>1, <1>2, <2>4, <2>5, <2>6, Halted DEF Stop
  <2>7. CASE Go(job)
    <3>1. /\ cut' = cut
          /\ \/ todo' = <<>> /\ job' = NoJob /\ LastStep(job) = "enter"
             \/ todo' # <<>> /\ job' = job /\ Follows(job, "enter", Upcoming)
      BY <1>1, <1>2, <2>7, Successors
    <3>2. CASE todo' = <<>>
      <4>1. job' = NoJob
        BY <3>1, <3>2
      <4>2. OwnSound
        BY <2>1, <2>2, <2>3 DEF OwnSound
      <4>3. QED
        BY <1>2, <2>3, <2>4, <2>5, <3>2, <4>1, <4>2, Ended
    <3>3. CASE todo' # <<>>
      <4>1. job' = job /\ Upcoming = "recfg" /\ job.op = "update" /\ ~job.rolled /\ e0' = e0
        BY <1>2, <3>1, <3>3 DEF Follows, e0
      <4>2. e0 \notin cut => Installing' /\ Entered' /\ Hooked' /\ Undoing'
        BY <1>2, <2>1, <2>2, <3>3, <4>1, Stage, DeclaredIn DEF Writing
      <4>3. ConfigKept'
        BY <1>1, <1>2, <1>3, <3>1, <4>1 DEF ExtInv, ConfigKept, At, Upcoming
      <4>4. QED
        BY <1>1, <1>2, <2>4, <2>5, <3>1, <3>3, <4>1, <4>2, <4>3, WentOn DEF Writing
    <3>4. QED
      BY <3>2, <3>3
  <2>8. QED
    BY <1>6, <2>6, <2>7
<1>7. QED
  BY <1>3, <1>4, <1>5, <1>6

LEMMA ClearSavedKeeps ==
    ASSUME TypeInv, TypeInv', ExtInv, ClearSaved
    PROVE  ExtInv'
<1>1. todo # <<>> /\ Head(todo)[1] = "clear" /\ "clear" \in ExtStepNames
  BY DEF ClearSaved, In, ExtStepNames
<1>2. /\ job \in ExtJob /\ ExtPlan(job, todo) /\ e0 \in Exts /\ job.op \in ExtOps
      /\ e0 \notin cut => NamesFree /\ Installing /\ Entered /\ Hooked /\ Remembered /\ Undoing
      /\ \A a \in Agents : \A n \in job.cmds[a] : n \in Declared(e0, job.ver)
      /\ job.op = "readd"
  BY <1>1, Turn, StepOf
<1>3. UNCHANGED <<reg, dir, stash, files, skills, listed, hooks>> /\ (Go(job) \/ Stop)
  BY DEF ClearSaved
<1>4. OthersKept /\ EntryKept /\ UpdateKept
  BY <1>2, <1>3, Local
<1>5. CASE Stop
  BY <1>1, <1>2, <1>4, <1>5, Halted DEF Stop
<1>6. CASE Go(job)
  <2>1. /\ cut' = cut
        /\ \/ todo' = <<>> /\ job' = NoJob /\ LastStep(job) = "clear"
           \/ todo' # <<>> /\ job' = job /\ Follows(job, "clear", Upcoming)
    BY <1>1, <1>2, <1>6, Successors
  <2>2. todo' # <<>> /\ job' = job /\ Upcoming = "unregister" /\ e0' = e0
    BY <1>2, <2>1 DEF Follows, LastStep, e0
  <2>3. e0 \notin cut => Installing' /\ Entered' /\ Hooked' /\ Undoing'
    BY <1>2, <2>2, Stage DEF Writing
  <2>4. ConfigKept'
    BY <1>1, <1>2, <1>3, <2>1, <2>2 DEF ExtInv, ConfigKept, At, Upcoming
  <2>5. QED
    BY <1>1, <1>2, <1>4, <2>1, <2>2, <2>3, <2>4, WentOn DEF Writing
<1>7. QED
  BY <1>3, <1>5, <1>6

\* The names of the entry are no names of the others.
LEMMA EntryIsApart ==
    ASSUME TypeInv, ExtInv, e0 \in Exts, cut \subseteq cut', NEW f \in Exts \ cut', f # e0, NEW a \in Agents,
           NEW n \in reg[f].cmds[a], n \in reg[e0].cmds[a]
    PROVE  \E g \in cut' : Named(g, n)
<1>1. Installed(f) /\ n \in Declared(f, reg[f].ver) /\ n \in Names
  BY StoreFields DEF ExtInv, Recording, Entry
<1>2. Installed(e0) /\ Named(e0, n) /\ (e0 \notin cut => n \in Declared(e0, reg[e0].ver))
  BY DEF ExtInv, Recording
<1>3. CASE e0 \in cut
  BY <1>2, <1>3
<1>4. CASE e0 \notin cut
  <2>1. Free(e0, reg[e0].ver)
    BY <1>2, <1>4 DEF ExtInv, Apart
  <2>2. QED
    BY <1>1, <1>2, <1>4, <2>1 DEF Free
<1>5. QED
  BY <1>3, <1>4

\* A step that deletes files of the entry.
LEMMA Unwriting ==
    ASSUME TypeInv, ExtInv, job \in ExtJob, cut \subseteq cut', UNCHANGED <<reg, dir, stash, listed, hooks>>,
           \A a \in Agents : \A n \in Names : files'[a][n] = files[a][n] \/ (n \in reg[e0].cmds[a] /\ files'[a][n] = NoFile)
    PROVE  OthersKept /\ EntryKept /\ UpdateKept
<1>1. e0 \in Exts
  BY JobFields
<1>2. \A f \in Exts : \A a \in Agents : reg[f].cmds[a] \subseteq Names
  BY StoreFields DEF Entry
<1>3. OthersKept
  BY <1>1, <1>2, EntryIsApart DEF OthersKept
<1>4. EntryKept /\ UpdateKept
  BY DEF EntryKept, UpdateKept
<1>5. QED
  BY <1>3, <1>4

LEMMA UnregisterKeeps ==
    ASSUME TypeInv, TypeInv', ExtInv, Unregister
    PROVE  ExtInv'
<1>1. todo # <<>> /\ Head(todo)[1] = "unregister" /\ "unregister" \in ExtStepNames
  BY DEF Unregister, In, ExtStepNames, RemovalSteps
<1>2. /\ job \in ExtJob /\ ExtPlan(job, todo) /\ e0 \in Exts /\ job.op \in ExtOps
      /\ e0 \notin cut => NamesFree /\ Installing /\ Entered /\ Hooked /\ Remembered /\ Undoing
      /\ \A a \in Agents : \A n \in job.cmds[a] : n \in Declared(e0, job.ver)
      /\ job.op \in {"readd", "remove"} \/ (job.op = "update" /\ ~job.rolled)
  BY <1>1, Turn, StepOf
<1>3. PICK done \in SUBSET Agents :
         /\ files' = [a \in Agents |-> [n \in Names |->
                         IF a \in done /\ n \in reg[e0].cmds[a] THEN NoFile ELSE files[a][n]]]
         /\ Go(job) \/ Stop
  BY DEF Unregister
<1>4. UNCHANGED <<reg, dir, saved, stash, skills, listed, hooks>>
  BY DEF Unregister
<1>5. \A a \in Agents : \A n \in Names : files'[a][n] = files[a][n] \/ (n \in reg[e0].cmds[a] /\ files'[a][n] = NoFile)
  BY <1>3
<1>6. cut \subseteq cut'
  BY <1>3 DEF Go, Stop, Raise, Die
<1>7. OthersKept /\ EntryKept /\ UpdateKept
  BY <1>2, <1>4, <1>5, <1>6, Unwriting
<1>8. CASE Stop
  BY <1>1, <1>2, <1>7, <1>8, Halted DEF Stop
<1>9. CASE Go(job)
  <2>1. /\ cut' = cut
        /\ \/ todo' = <<>> /\ job' = NoJob /\ LastStep(job) = "unregister"
           \/ todo' # <<>> /\ job' = job /\ Follows(job, "unregister", Upcoming)
    BY <1>1, <1>2, <1>9, Successors
  <2>2. todo' # <<>> /\ job' = job /\ Upcoming = "unskill" /\ e0' = e0
    BY <1>2, <2>1 DEF Follows, LastStep, e0
  <2>3. e0 \notin cut => Installing' /\ Entered' /\ Hooked' /\ Undoing'
    BY <1>2, <2>2, Stage DEF Writing
  <2>4. ConfigKept'
    BY <1>1, <1>2, <1>4, <2>1, <2>2 DEF ExtInv, ConfigKept, At, Upcoming
  <2>5. QED
    BY <1>1, <1>2, <1>7, <2>1, <2>2, <2>3, <2>4, WentOn DEF Writing
<1>10. QED
  BY <1>3, <1>8, <1>9

LEMMA UnregisterSkillsKeeps ==
    ASSUME TypeInv, TypeInv', ExtInv, UnregisterSkills
    PROVE  ExtInv'
<1>1. todo # <<>> /\ Head(todo)[1] = "unskill" /\ "unskill" \in ExtStepNames
  BY DEF UnregisterSkills, In, ExtStepNames, RemovalSteps
<1>2. /\ job \in ExtJob /\ ExtPlan(job, todo) /\ e0 \in Exts /\ job.op \in ExtOps
      /\ e0 \notin cut => NamesFree /\ Installing /\ Entered /\ Hooked /\ Remembered /\ Undoing
      /\ \A a \in Agents : \A n \in job.cmds[a] : n \in Declared(e0, job.ver)
      /\ job.op \in {"readd", "remove"} \/ (job.op = "update" /\ ~job.rolled)
  BY <1>1, Turn, StepOf
<1>3. UNCHANGED <<reg, dir, saved, stash, files, listed, hooks>> /\ (Go(job) \/ Stop)
  BY DEF UnregisterSkills
<1>4. OthersKept /\ EntryKept /\ UpdateKept
  BY <1>2, <1>3, Local
<1>5. CASE Stop
  BY <1>1, <1>2, <1>4, <1>5, Halted DEF Stop
<1>6. CASE Go(job)
  <2>1. /\ cut' = cut
        /\ \/ todo' = <<>> /\ job' = NoJob /\ LastStep(job) = "unskill"
           \/ todo' # <<>> /\ job' = job /\ Follows(job, "unskill", Upcoming)
    BY <1>1, <1>2, <1>6, Successors
  <2>2. /\ todo' # <<>> /\ job' = job /\ Upcoming \in {"delete", "strip"} /\ e0' = e0
        /\ job.op = "readd" => Upcoming = "delete"
    BY <1>2, <2>1 DEF Follows, LastStep, e0
  <2>3. e0 \notin cut => Installing' /\ Entered' /\ Hooked' /\ Undoing'
    BY <1>2, <2>2, Stage DEF Writing
  <2>4. ConfigKept'
    BY <1>1, <1>2, <1>3, <2>1, <2>2 DEF ExtInv, ConfigKept, At, Upcoming
  <2>5. QED
    BY <1>1, <1>2, <1>4, <2>1, <2>2, <2>3, <2>4, WentOn DEF Writing
<1>7. QED
  BY <1>3, <1>5, <1>6

LEMMA StripKeeps ==
    ASSUME TypeInv, TypeInv', ExtInv, Strip
    PROVE  ExtInv'
<1>1. todo # <<>> /\ Head(todo)[1] = "strip" /\ "strip" \in ExtStepNames
  BY DEF Strip, In, ExtStepNames
<1>2. /\ job \in ExtJob /\ ExtPlan(job, todo) /\ e0 \in Exts /\ job.op \in ExtOps
      /\ e0 \notin cut => NamesFree /\ Installing /\ Entered /\ Hooked /\ Remembered /\ Undoing
      /\ \A a \in Agents : \A n \in job.cmds[a] : n \in Declared(e0, job.ver)
      /\ job.op = "remove" \/ (job.op = "update" /\ ~job.rolled)
  BY <1>1, Turn, StepOf
<1>3. /\ dir' = [dir EXCEPT ![e0].ver = 0] \/ dir' = dir
      /\ Go(job) \/ Stop
  BY DEF Strip
<1>4. /\ UNCHANGED <<reg, saved, stash, files, skills, listed, hooks>>
      /\ \A f \in Exts : f # e0 => dir'[f] = dir[f]
  BY <1>2, <1>3, StoreFields DEF Strip
<1>5. OthersKept /\ EntryKept /\ UpdateKept
  BY <1>2, <1>4, Local
<1>6. CASE Stop
  BY <1>1, <1>2, <1>5, <1>6, Halted DEF Stop
<1>7. CASE Go(job)
  <2>1. /\ cut' = cut
        /\ \/ todo' = <<>> /\ job' = NoJob /\ LastStep(job) = "strip"
           \/ todo' # <<>> /\ job' = job /\ Follows(job, "strip", Upcoming)
    BY <1>1, <1>2, <1>7, Successors
  <2>2. todo' # <<>> /\ job' = job /\ Upcoming = "unhook" /\ e0' = e0
    BY <1>2, <2>1 DEF Follows, LastStep, e0
  <2>3. e0 \notin cut => Installing' /\ Entered' /\ Hooked' /\ Undoing'
    BY <1>2, <2>2, Stage DEF Writing
  <2>4. ConfigKept'
    BY <1>1, <1>2, <1>4, <2>1, <2>2 DEF ExtInv, ConfigKept, At, Upcoming
  <2>5. QED
    BY <1>1, <1>2, <1>5, <2>1, <2>2, <2>3, <2>4, WentOn DEF Writing
<1>8. QED
  BY <1>3, <1>6, <1>7

LEMMA DeleteKeeps ==
    ASSUME TypeInv, TypeInv', ExtInv, Delete
    PROVE  ExtInv'
<1>1. todo # <<>> /\ Head(todo)[1] = "delete" /\ "delete" \in ExtStepNames
  BY DEF Delete, In, ExtStepNames
<1>2. /\ job \in ExtJob /\ ExtPlan(job, todo) /\ e0 \in Exts /\ job.op \in ExtOps
      /\ e0 \notin cut => NamesFree /\ Installing /\ Entered /\ Hooked /\ Remembered /\ Undoing
      /\ \A a \in Agents : \A n \in job.cmds[a] : n \in Declared(e0, job.ver)
      /\ job.op \in {"remove", "readd"}
  BY <1>1, Turn, StepOf
<1>3. /\ UNCHANGED <<reg, stash, files, skills, listed, hooks>>
      /\ \/ saved' = (IF dir[e0].cfg THEN saved \cup {e0} ELSE saved) /\ Go(job)
         \/ Stop
  BY DEF Delete
<1>4. \A f \in Exts : f # e0 => dir'[f] = dir[f]
  <2>1. dir' = dir \/ \E d : dir' = [dir EXCEPT ![e0] = d]
    BY DEF Delete
  <2>2. QED
    BY <2>1, StoreFields
<1>5. OthersKept /\ EntryKept /\ UpdateKept
  BY <1>2, <1>3, <1>4, Local
<1>6. CASE Stop
  BY <1>1, <1>2, <1>5, <1>6, Halted DEF Stop
<1>7. CASE saved' = (IF dir[e0].cfg THEN saved \cup {e0} ELSE saved) /\ Go(job)
  <2>1. /\ cut' = cut
        /\ \/ todo' = <<>> /\ job' = NoJob /\ LastStep(job) = "delete"
           \/ todo' # <<>> /\ job' = job /\ Follows(job, "delete", Upcoming)
    BY <1>1, <1>2, <1>7, Successors
  <2>2. todo' # <<>> /\ job' = job /\ Upcoming = "unhook" /\ e0' = e0
    BY <1>2, <2>1 DEF Follows, LastStep, e0
  <2>3. e0 \notin cut => Installing' /\ Entered' /\ Hooked' /\ Undoing'
    BY <1>2, <2>2, Stage DEF Writing
  <2>4. job.op = "readd" /\ job.dir.cfg => dir[e0].cfg
    BY <1>1 DEF ExtInv, ConfigKept, At
  <2>5. ConfigKept'
    BY <1>2, <1>7, <2>2, <2>4 DEF ConfigKept, At, Upcoming
  <2>6. QED
    BY <1>1, <1>2, <1>5, <2>1, <2>2, <2>3, <2>5, WentOn DEF Writing
<1>8. QED
  BY <1>3, <1>6, <1>7

LEMMA UnregisterHooksKeeps ==
    ASSUME TypeInv, TypeInv', ExtInv, UnregisterHooks
    PROVE  ExtInv'
<1>1. todo # <<>> /\ Head(todo)[1] = "unhook" /\ "unhook" \in ExtStepNames
  BY DEF UnregisterHooks, In, ExtStepNames, RemovalSteps
<1>2. /\ job \in ExtJob /\ ExtPlan(job, todo) /\ e0 \in Exts /\ job.op \in ExtOps
      /\ e0 \notin cut => NamesFree /\ Installing /\ Entered /\ Hooked /\ Remembered /\ Undoing
      /\ \A a \in Agents : \A n \in job.cmds[a] : n \in Declared(e0, job.ver)
      /\ job.op \in {"readd", "remove"} \/ (job.op = "update" /\ ~job.rolled)
  BY <1>1, Turn, StepOf
<1>3. PICK n \in 0..2 :
         /\ listed' = IF n >= 1 THEN listed \ {e0} ELSE listed
         /\ hooks' = IF n = 2 THEN [hooks EXCEPT ![e0] = NoHooks] ELSE hooks
         /\ (n = 2 /\ Go(job)) \/ Stop
  BY DEF UnregisterHooks
<1>4. /\ UNCHANGED <<reg, dir, saved, stash, files, skills>>
      /\ \A f \in Exts : f # e0 => hooks'[f] = hooks[f]
      /\ \A f \in Exts : f # e0 /\ f \in listed => f \in listed'
  BY <1>2, <1>3, StoreFields DEF UnregisterHooks
<1>5. OthersKept /\ EntryKept /\ UpdateKept
  BY <1>2, <1>4, Local
<1>6. CASE Stop
  BY <1>1, <1>2, <1>5, <1>6, Halted DEF Stop
<1>7. CASE n = 2 /\ Go(job)
  <2>1. /\ cut' = cut
        /\ \/ todo' = <<>> /\ job' = NoJob /\ LastStep(job) = "unhook"
           \/ todo' # <<>> /\ job' = job /\ Follows(job, "unhook", Upcoming)
    BY <1>1, <1>2, <1>7, Successors
  <2>2. todo' # <<>> /\ job' = job /\ Upcoming = "drop" /\ e0' = e0
    BY <1>2, <2>1 DEF Follows, LastStep, e0
  <2>3. HooksAre(hooks'[e0], e0, 0, FALSE)
    BY <1>2, <1>3, <1>7, StoreFields DEF HooksAre, NoHooks
  <2>4. e0 \notin cut => Installing' /\ Entered' /\ Hooked' /\ Undoing'
    BY <1>2, <2>2, <2>3, Stage DEF Writing
  <2>5. ConfigKept'
    BY <1>1, <1>2, <1>4, <2>1, <2>2 DEF ExtInv, ConfigKept, At, Upcoming
  <2>6. QED
    BY <1>1, <1>2, <1>5, <2>1, <2>2, <2>4, <2>5, WentOn DEF Writing
<1>8. QED
  BY <1>3, <1>6, <1>7

LEMMA DropKeeps ==
    ASSUME TypeInv, TypeInv', ExtInv, Drop
    PROVE  ExtInv'
<1>1. todo # <<>> /\ Head(todo)[1] = "drop" /\ "drop" \in ExtStepNames
  BY DEF Drop, In, ExtStepNames, RemovalSteps
<1>2. /\ job \in ExtJob /\ ExtPlan(job, todo) /\ e0 \in Exts /\ job.op \in ExtOps
      /\ e0 \notin cut => NamesFree /\ Installing /\ Entered /\ Hooked /\ Remembered /\ Undoing
      /\ \A a \in Agents : \A n \in job.cmds[a] : n \in Declared(e0, job.ver)
      /\ job.op \in {"readd", "remove"} \/ (job.op = "update" /\ ~job.rolled)
  BY <1>1, Turn, StepOf
<1>3. /\ UNCHANGED <<dir, saved, stash, files, skills, listed, hooks>>
      /\ \/ reg' = [reg EXCEPT ![e0] = NoEntry] /\ (Go(job) \/ Stop)
         \/ reg' = reg /\ Stop
         \/ TornRegistry
  BY DEF Drop
<1>4. CASE TornRegistry
  BY <1>2, <1>4, Lost
<1>5. CASE reg' = reg /\ Stop
  <2>1. OthersKept /\ EntryKept /\ UpdateKept
    BY <1>2, <1>3, <1>5, Local
  <2>2. QED
    BY <1>1, <1>2, <1>5, <2>1, Halted DEF Stop
<1>6. CASE reg' = [reg EXCEPT ![e0] = NoEntry] /\ (Go(job) \/ Stop)
  <2>1. /\ reg'[e0] = NoEntry /\ (\A f \in Exts : f # e0 => reg'[f] = reg[f])
        /\ NoEntry.ver = 0 /\ NoEntry.enabled = FALSE /\ \A a \in Agents : NoEntry.cmds[a] = {}
    BY <1>2, <1>6, StoreFields DEF NoEntry
  <2>2. OthersKept /\ UpdateKept /\ EntryKept
    BY <1>3, <2>1 DEF OthersKept, UpdateKept, EntryKept
  <2>3. CASE Stop
    BY <1>1, <1>2, <2>2, <2>3, Halted DEF Stop
  <2>4. CASE Go(job)
    <3>1. /\ cut' = cut
          /\ \/ todo' = <<>> /\ job' = NoJob /\ LastStep(job) = "drop"
             \/ todo' # <<>> /\ job' = job /\ Follows(job, "drop", Upcoming)
      BY <1>1, <1>2, <2>4, Successors
    <3>2. CASE todo' = <<>>
      <4>1. job' = NoJob
        BY <3>1, <3>2
      <4>2. e0 \notin cut => HooksAre(hooks'[e0], e0, 0, FALSE)
        BY <1>1, <1>2, <1>3 DEF Hooked, At, HooksAre
      <4>3. OwnSound
        BY <2>1, <3>1, <4>2 DEF OwnSound
      <4>4. QED
        BY <1>2, <2>2, <3>1, <3>2, <4>1, <4>3, Ended
    <3>3. CASE todo' # <<>>
      <4>1. /\ job' = job /\ e0' = e0 /\ Upcoming \in {"copy", "check"} /\ job.op \in {"readd", "update"}
            /\ (job.op = "readd" => Upcoming = "copy") /\ (job.op = "update" => Upcoming = "check" /\ ~job.rolled)
        BY <1>2, <3>1, <3>3 DEF Follows, e0
      <4>2. e0 \notin cut => Installing' /\ Entered' /\ Hooked' /\ Undoing'
        BY <1>2, <3>3, <4>1, Stage DEF Writing
      <4>3. ConfigKept'
        BY <1>1, <1>2, <1>3, <3>1, <4>1 DEF ExtInv, ConfigKept, At, Upcoming
      <4>4. e0 \notin cut /\ Upcoming \in Writing => Free(e0, job.ver)
        BY <1>2, <4>1 DEF NamesFree, Writing
      <4>5. QED
        BY <1>1, <1>2, <2>2, <3>1, <3>3, <4>1, <4>2, <4>3, <4>4, WentOn
    <3>4. QED
      BY <3>2, <3>3
  <2>5. QED
    BY <1>6, <2>3, <2>4
<1>7. QED
  BY <1>3, <1>4, <1>5, <1>6

\* The check sees every other extension that was not cut short.
LEMMA NoConflict ==
    ASSUME TypeInv, Sound, NEW e, NEW v, ~Conflicts(e, v), job.ext \in {e, None}
    PROVE  Free(e, v)
<1> SUFFICES ASSUME NEW f \in Exts \ cut, f # e, Installed(f), NEW n \in Names,
                    n \in Declared(e, v), n \in Declared(f, reg[f].ver)
             PROVE  FALSE
  BY DEF Free
<1>1. InPlace(f)
  BY ExtensionAssumption DEF Sound, AtRest
<1>2. Loads(f) /\ dir[f].ver = reg[f].ver
  BY <1>1 DEF InPlace, Loads, Installed
<1>3. QED
  BY <1>2 DEF Conflicts

LEMMA CheckKeeps ==
    ASSUME TypeInv, TypeInv', ExtInv, Check
    PROVE  ExtInv'
<1>1. todo # <<>> /\ Head(todo)[1] = "check" /\ "check" \in ExtStepNames
  BY DEF Check, In, ExtStepNames, InstallSteps
<1>2. /\ job \in ExtJob /\ ExtPlan(job, todo) /\ e0 \in Exts /\ job.op \in ExtOps
      /\ e0 \notin cut => NamesFree /\ Installing /\ Entered /\ Hooked /\ Remembered /\ Undoing
      /\ \A a \in Agents : \A n \in job.cmds[a] : n \in Declared(e0, job.ver)
      /\ job.op = "update" /\ ~job.rolled
      /\ job.ver \in Versions(e0)
  BY <1>1, Turn, StepOf DEF TypeInv, GenuineJob
<1>3. /\ UNCHANGED extVars
      /\ (~Conflicts(e0, job.ver) /\ Go(job)) \/ Raise \/ Die
  BY DEF Check
<1>4. UNCHANGED <<reg, dir, saved, stash, files, skills, listed, hooks>>
  BY <1>3 DEF extVars
<1>5. OthersKept /\ EntryKept /\ UpdateKept
  BY <1>2, <1>4, Local
<1>6. CASE Raise \/ Die
  BY <1>1, <1>2, <1>5, <1>6, Halted
<1>7. CASE ~Conflicts(e0, job.ver) /\ Go(job)
  <2>1. /\ cut' = cut
        /\ \/ todo' = <<>> /\ job' = NoJob /\ LastStep(job) = "check"
           \/ todo' # <<>> /\ job' = job /\ Follows(job, "check", Upcoming)
    BY <1>1, <1>2, <1>7, Successors
  <2>2. todo' # <<>> /\ job' = job /\ Upcoming \in {"unregister", "copy"} /\ e0' = e0
    BY <1>2, <2>1 DEF Follows, LastStep, e0
  <2>3. e0 \notin cut => Installing' /\ Entered' /\ Hooked' /\ Undoing'
    BY <1>2, <2>2, Stage DEF Writing
  <2>4. ConfigKept'
    BY <1>1, <1>2, <1>4, <2>1, <2>2 DEF ExtInv, ConfigKept, At, Upcoming
  <2>5. Free(e0, job.ver)
    BY <1>7, NoConflict DEF ExtInv, e0
  <2>6. QED
    BY <1>1, <1>2, <1>5, <2>1, <2>2, <2>3, <2>4, <2>5, WentOn
<1>8. QED
  BY <1>3, <1>6, <1>7

\* A step that stops with the stash cut short.
LEMMA TornStash ==
    ASSUME TypeInv, ExtInv, job \in ExtJob, todo # <<>>, Head(todo)[1] \in {"stash", "clean"}, Stop,
           UNCHANGED <<reg, dir, files, listed, hooks>>
    PROVE  ExtInv'
<1>1. e0 \in cut' /\ (Raise \/ Die)
  BY DEF Stop, Raise, Die, In
<1>2. OthersKept /\ EntryKept /\ UpdateKept
  BY <1>1, Local
<1>3. QED
  BY <1>1, <1>2, Halted

LEMMA StashKeeps ==
    ASSUME TypeInv, TypeInv', ExtInv, Stash
    PROVE  ExtInv'
<1>1. todo # <<>> /\ Head(todo)[1] = "stash" /\ "stash" \in ExtStepNames
  BY DEF Stash, In, ExtStepNames
<1>2. /\ job \in ExtJob /\ ExtPlan(job, todo) /\ e0 \in Exts /\ job.op \in ExtOps
      /\ e0 \notin cut => NamesFree /\ Installing /\ Entered /\ Hooked /\ Remembered /\ Undoing
      /\ \A a \in Agents : \A n \in job.cmds[a] : n \in Declared(e0, job.ver)
      /\ job.op = "update" /\ ~job.rolled
  BY <1>1, Turn, StepOf
<1> DEFINE j == [job EXCEPT !.known = TRUE, !.hooks = hooks[e0], !.listed = listed, !.files = Recorded(e0)]
<1>3. /\ UNCHANGED <<reg, dir, saved, files, skills, listed, hooks>>
      /\ \/ /\ stash' = [stash EXCEPT ![e0] = [dir |-> IF dir[e0].there THEN dir[e0] ELSE @.dir,
                                               cfg |-> @.cfg \/ dir[e0].cfg]]
            /\ Go(j)
         \/ Stop
  BY DEF Stash
<1>4. CASE Stop
  BY <1>1, <1>2, <1>3, <1>4, TornStash
<1>5. CASE /\ stash' = [stash EXCEPT ![e0] = [dir |-> IF dir[e0].there THEN dir[e0] ELSE @.dir,
                                             cfg |-> @.cfg \/ dir[e0].cfg]]
           /\ Go(j)
  <2>1. /\ j \in ExtJob
        /\ j.ext = job.ext /\ j.op = job.op /\ j.ver = job.ver /\ j.entry = job.entry /\ j.dir = job.dir
        /\ j.known = TRUE /\ j.hooks = hooks[e0] /\ j.listed = listed /\ j.files = Recorded(e0)
        /\ j.rolled = job.rolled /\ j.cmds = job.cmds
    <3>1. Recorded(e0) \in Files
      BY StoreFields, Constants_ DEF Recorded, Files
    <3>2. hooks[e0] \in Hooks /\ listed \subseteq Exts
      BY <1>2, StoreFields
    <3> DEFINE r == Recorded(e0)
    <3> HIDE DEF r
    <3>3. r \in Files
      BY <3>1 DEF r
    <3>4. /\ [job EXCEPT !.known = TRUE, !.hooks = hooks[e0], !.listed = listed, !.files = r] \in ExtJob
          /\ [job EXCEPT !.known = TRUE, !.hooks = hooks[e0], !.listed = listed, !.files = r].files = r
      BY <1>2, <3>2, <3>3 DEF ExtJob
    <3>5. QED
      BY <1>2, <3>4 DEF ExtJob, r
  <2>2. \A a \in Agents : \A n \in Names :
           j.files[a][n] = IF n \in reg[e0].cmds[a] THEN files[a][n] ELSE NoFile
    BY <2>1 DEF Recorded
  <2> HIDE DEF j
  <2>3. /\ cut' = cut
        /\ \/ todo' = <<>> /\ job' = NoJob /\ LastStep(job) = "stash"
           \/ todo' # <<>> /\ job' = j /\ Follows(job, "stash", Upcoming)
    BY <1>1, <1>2, <1>5, <2>1, Successors
  <2>4. todo' # <<>> /\ job' = j /\ Upcoming = "check"
    BY <1>2, <2>1, <2>3 DEF Follows, LastStep
  <2>5. OthersKept /\ EntryKept
    BY <1>3 DEF OthersKept, EntryKept
  <2>6. /\ e0' = e0 /\ Sound' /\ Recording' /\ Apart'
        /\ \A v : Free(e0, v) => Free(e0, v)'
    BY <1>2, <2>1, <2>3, <2>4, <2>5, BooksCarried
  <2>7. reg[e0] = job.entry
    BY <1>1, <1>2 DEF ExtInv, JobRecording, At
  <2>8. \A a \in Agents : job.entry.cmds[a] \subseteq Names
    BY <1>2, JobFields DEF Entry
  <2>9. JobRecording'
    <3>1. \A a \in Agents : \A n \in job.cmds[a] : n \in Declared(e0, job.ver)
      BY <1>2
    <3>2. \A a \in Agents : \A n \in Names :
            /\ j.files[a][n] # NoFile => n \in job.entry.cmds[a]
            /\ n \in job.entry.cmds[a] => Named(e0, n) /\ (e0 \notin cut => n \in Declared(e0, job.entry.ver))
      BY <1>2, <2>2, <2>7 DEF ExtInv, JobRecording
    <3>3. QED
      BY <1>2, <2>1, <2>3, <2>4, <2>6, <3>1, <3>2 DEF JobRecording, At, Upcoming, Named, Versions
  <2>10. OthersListed'
    <3>1. \A f \in Exts \ cut : f # e0 /\ Installed(f) => f \in listed
      BY DEF ExtInv, Sound, AtRest, InPlace, e0
    <3>2. QED
      BY <1>3, <2>1, <2>3, <2>4, <2>6, <3>1 DEF OthersListed, Installed
  <2>11. ASSUME e0 \notin cut
         PROVE  NamesFree' /\ Installing' /\ Entered' /\ Hooked' /\ Remembered' /\ Undoing'
    <3>1. Upcoming = Head(todo')[1] /\ job'.op = "update" /\ ~job'.rolled
      BY <1>2, <2>1, <2>4 DEF Upcoming
    <3>2. NamesFree'
      BY <1>2, <2>1, <2>4, <2>6, <2>11, <3>1 DEF NamesFree, At, Writing
    <3>3. Installing' /\ Entered' /\ Undoing'
      BY <2>4, <3>1 DEF Installing, Entered, Undoing, At, Writing
    <3>4. Hooked'
      BY <2>4, <3>1 DEF Hooked, At
    <3>5. /\ job.dir.there /\ job.dir.ver = job.entry.ver /\ dir[e0] = job.dir /\ e0 \in listed /\ Written(e0)
          /\ HooksAre(hooks[e0], e0, job.entry.ver, job.entry.enabled)
      BY <1>1, <1>2, <2>7, <2>11 DEF Remembered, At
    <3>6. stash'[e0].dir = job.dir
      BY <1>2, <1>5, <3>5, StoreFields
    <3>7. \A a \in Agents : \A n \in job.entry.cmds[a] :
             /\ j.files[a][n] = FileOf(e0, job.entry.ver) \/ Excused(n)
             /\ j.files[a][n] = NoFile => files[a][n] = NoFile
      BY <2>2, <2>7, <2>8, <3>5 DEF Written
    <3>8. \A n : Excused(n) => Excused(n)'
      BY <2>3 DEF Excused, Named, Versions
    <3>9. Remembered'
      BY <1>3, <2>1, <2>4, <2>6, <3>1, <3>5, <3>6, <3>7, <3>8 DEF Remembered, At, HooksAre, FileOf
    <3>10. QED
      BY <3>2, <3>3, <3>4, <3>9
  <2>12. ConfigKept'
    <3>1. Upcoming = Head(todo')[1] /\ job'.op = "update"
      BY <1>2, <2>1, <2>4 DEF Upcoming
    <3>2. job.dir.cfg /\ e0 \notin cut => stash'[e0].cfg
      <4>1. e0 \notin cut => dir[e0] = job.dir
        BY <1>1, <1>2 DEF Remembered, At
      <4>2. QED
        BY <1>2, <1>5, <4>1, StoreFields
    <3>3. QED
      BY <2>1, <2>3, <2>4, <2>6, <3>1, <3>2 DEF ConfigKept, At
  <2>13. QED
    BY <2>3, <2>6, <2>9, <2>10, <2>11, <2>12 DEF ExtInv, Underway
<1>6. QED
  BY <1>3, <1>4, <1>5

LEMMA RestoreConfigKeeps ==
    ASSUME TypeInv, TypeInv', ExtInv, RestoreConfig
    PROVE  ExtInv'
<1>1. todo # <<>> /\ Head(todo)[1] = "recfg" /\ "recfg" \in ExtStepNames
  BY DEF RestoreConfig, In, ExtStepNames
<1>2. /\ job \in ExtJob /\ ExtPlan(job, todo) /\ e0 \in Exts /\ job.op \in ExtOps
      /\ e0 \notin cut => NamesFree /\ Installing /\ Entered /\ Hooked /\ Remembered /\ Undoing
      /\ \A a \in Agents : \A n \in job.cmds[a] : n \in Declared(e0, job.ver)
      /\ job.op = "update" /\ ~job.rolled
  BY <1>1, Turn, StepOf
<1>3. /\ UNCHANGED <<reg, saved, stash, files, skills, listed, hooks>>
      /\ \/ dir' = IF stash[e0].cfg /\ dir[e0].there THEN [dir EXCEPT ![e0].cfg = TRUE] ELSE dir
         \/ dir' = dir /\ Stop
      /\ Go(job) \/ Stop
  BY DEF RestoreConfig
<1>4. /\ \A f \in Exts : f # e0 => dir'[f] = dir[f]
      /\ dir'[e0].there = dir[e0].there /\ dir'[e0].ver = dir[e0].ver
  BY <1>2, <1>3, StoreFields DEF Dir
<1>5. OthersKept /\ EntryKept /\ UpdateKept
  BY <1>2, <1>3, <1>4, Local
<1>6. CASE Stop
  BY <1>1, <1>2, <1>5, <1>6, Halted DEF Stop
<1>7. CASE Go(job) /\ ~Stop
  <2>1. /\ cut' = cut
        /\ \/ todo' = <<>> /\ job' = NoJob /\ LastStep(job) = "recfg"
           \/ todo' # <<>> /\ job' = job /\ Follows(job, "recfg", Upcoming)
    BY <1>1, <1>2, <1>7, Successors
  <2>2. todo' # <<>> /\ job' = job /\ Upcoming = "remeta" /\ e0' = e0
    BY <1>2, <2>1 DEF Follows, LastStep, e0
  <2>3. e0 \notin cut => /\ reg[e0].ver # 0 /\ dir[e0].there /\ dir[e0].ver = reg[e0].ver /\ e0 \in listed
                         /\ \A a \in Agents : \A n \in reg[e0].cmds[a] :
                               files[a][n] = FileOf(e0, reg[e0].ver) \/ \E g \in cut : Named(g, n)
                         /\ HooksAre(hooks[e0], e0, reg[e0].ver, reg[e0].enabled) /\ reg[e0].enabled
    BY <1>1, <1>2 DEF Entered, Hooked, At, Installed, InPlace, Written, Excused
  <2>4. e0 \notin cut => Installing' /\ Entered' /\ Hooked' /\ Undoing'
    BY <1>2, <1>3, <1>4, <2>1, <2>2, <2>3, Stage DEF Writing
  <2>5. job.dir.cfg /\ e0 \notin cut => stash[e0].cfg
    BY <1>1, <1>2 DEF ExtInv, ConfigKept, At
  <2>6. job.dir.cfg /\ e0 \notin cut => dir'[e0].cfg
    BY <1>2, <1>3, <1>7, <2>3, <2>5, StoreFields DEF Dir
  <2>7. ConfigKept'
    BY <1>2, <1>3, <2>1, <2>2, <2>5, <2>6 DEF ConfigKept, At, Upcoming
  <2>8. QED
    BY <1>1, <1>2, <1>5, <2>1, <2>2, <2>4, <2>7, WentOn DEF Writing
<1>8. QED
  BY <1>3, <1>6, <1>7

LEMMA RestoreMetadataKeeps ==
    ASSUME TypeInv, TypeInv', ExtInv, RestoreMetadata
    PROVE  ExtInv'
<1>1. todo # <<>> /\ Head(todo)[1] = "remeta" /\ "remeta" \in ExtStepNames
  BY DEF RestoreMetadata, In, ExtStepNames
<1>2. /\ job \in ExtJob /\ ExtPlan(job, todo) /\ e0 \in Exts /\ job.op \in ExtOps
      /\ e0 \notin cut => NamesFree /\ Installing /\ Entered /\ Hooked /\ Remembered /\ Undoing
      /\ \A a \in Agents : \A n \in job.cmds[a] : n \in Declared(e0, job.ver)
      /\ job.op \in {"enable", "disable"} \/ (job.op = "update" /\ ~job.rolled)
  BY <1>1, Turn, StepOf
<1>3. /\ UNCHANGED <<dir, saved, stash, files, skills, listed, hooks>>
      /\ \/ reg' = [reg EXCEPT ![e0].enabled = job.entry.enabled] /\ (Go(job) \/ Stop)
         \/ reg' = reg /\ Stop
         \/ TornRegistry
  BY DEF RestoreMetadata
<1>4. CASE TornRegistry
  BY <1>2, <1>4, Lost
<1>5. CASE reg' = reg /\ Stop
  <2>1. OthersKept /\ EntryKept /\ UpdateKept
    BY <1>2, <1>3, <1>5, Local
  <2>2. QED
    BY <1>1, <1>2, <1>5, <2>1, Halted DEF Stop
<1>6. CASE reg' = [reg EXCEPT ![e0].enabled = job.entry.enabled] /\ (Go(job) \/ Stop)
  <2>1. /\ reg'[e0].ver = reg[e0].ver /\ reg'[e0].cmds = reg[e0].cmds /\ reg'[e0].enabled = job.entry.enabled
        /\ \A f \in Exts : f # e0 => reg'[f] = reg[f]
    BY <1>2, <1>6, StoreFields DEF Entry
  <2>2. OthersKept /\ UpdateKept /\ EntryKept
    BY <1>3, <2>1 DEF OthersKept, UpdateKept, EntryKept
  <2>3. CASE Stop
    BY <1>1, <1>2, <2>2, <2>3, Halted DEF Stop
  <2>4. CASE Go(job)
    <3>1. /\ cut' = cut
          /\ \/ todo' = <<>> /\ job' = NoJob /\ LastStep(job) = "remeta"
             \/ todo' # <<>> /\ job' = job /\ Follows(job, "remeta", Upcoming)
      BY <1>1, <1>2, <2>4, Successors
    <3>2. /\ todo' # <<>> /\ job' = job /\ e0' = e0
          /\ job.op = "enable" => Upcoming = "unhush"
          /\ job.op = "disable" => Upcoming = "hush"
          /\ job.op = "update" => Upcoming = IF job.entry.enabled THEN "clean" ELSE "hush"
      BY <1>2, <3>1 DEF Follows, LastStep, e0
    <3>3. e0 \notin cut => /\ reg[e0].ver # 0 /\ dir[e0].there /\ dir[e0].ver = reg[e0].ver /\ e0 \in listed
                           /\ \A a \in Agents : \A n \in reg[e0].cmds[a] :
                                 files[a][n] = FileOf(e0, reg[e0].ver) \/ \E g \in cut : Named(g, n)
      BY <1>1, <1>2 DEF Entered, At, Installed, InPlace, Written, Excused
    <3>4. e0 \notin cut => /\ HooksAre(hooks[e0], e0, reg[e0].ver, reg[e0].enabled)
                           /\ job.op = "update" => reg[e0].enabled
                           /\ job.op = "enable" => job.entry.enabled /\ ~reg[e0].enabled
                           /\ job.op = "disable" => ~job.entry.enabled /\ reg[e0].enabled
      BY <1>1, <1>2 DEF Hooked, At
    <3>5. job.entry.enabled \in BOOLEAN /\ reg[e0].enabled \in BOOLEAN
      BY <1>2, JobFields, StoreFields DEF Entry
    <3>6. \A on \in BOOLEAN : HooksAre(hooks[e0], e0, reg[e0].ver, on)
                              => HooksAre(hooks'[e0], e0, reg'[e0].ver, on)
      BY <1>3, <2>1 DEF HooksAre
    <3>7. e0 \notin cut => /\ HooksAre(hooks'[e0], e0, reg'[e0].ver, reg[e0].enabled)
                           /\ reg[e0].enabled => HooksAre(hooks'[e0], e0, reg'[e0].ver, TRUE)
                           /\ ~reg[e0].enabled => HooksAre(hooks'[e0], e0, reg'[e0].ver, FALSE)
                           /\ reg'[e0].enabled = reg[e0].enabled => HooksAre(hooks'[e0], e0, reg'[e0].ver, reg'[e0].enabled)
      BY <2>1, <3>4, <3>5, <3>6, Zenon DEF HooksAre
    <3>8. e0 \notin cut => /\ Upcoming = "hush" => ~reg'[e0].enabled /\ reg[e0].enabled
                           /\ Upcoming = "unhush" => reg'[e0].enabled /\ ~reg[e0].enabled
                           /\ Upcoming = "clean" => reg'[e0].enabled /\ reg[e0].enabled
      BY <1>2, <2>1, <3>2, <3>4
    <3>9. e0 \notin cut => /\ Upcoming = "hush" => ~reg'[e0].enabled /\ HooksAre(hooks'[e0], e0, reg'[e0].ver, TRUE)
                           /\ Upcoming = "unhush" => reg'[e0].enabled /\ HooksAre(hooks'[e0], e0, reg'[e0].ver, FALSE)
                           /\ Upcoming = "clean" => HooksAre(hooks'[e0], e0, reg'[e0].ver, reg'[e0].enabled)
                           /\ job.op = "enable" => job.entry.enabled
                           /\ job.op = "disable" => ~job.entry.enabled
      <4>1. e0 \notin cut /\ Upcoming = "clean" => reg'[e0].enabled = reg[e0].enabled
        BY <2>1, <3>5, <3>8
      <4>2. QED
        BY <3>4, <3>7, <3>8, <4>1
    <3>10. Upcoming \in {"hush", "unhush", "clean"}
      BY <1>2, <3>2
    <3>11. e0 \notin cut => Installing' /\ Entered' /\ Hooked' /\ Undoing'
      BY <1>2, <1>3, <2>1, <3>1, <3>2, <3>3, <3>9, <3>10, Stage DEF Writing
    <3>12. ConfigKept'
      BY <1>1, <1>2, <1>3, <3>1, <3>2, <3>10 DEF ExtInv, ConfigKept, At, Upcoming
    <3>13. QED
      BY <1>1, <1>2, <2>2, <3>1, <3>2, <3>10, <3>11, <3>12, WentOn DEF Writing
  <2>5. QED
    BY <1>6, <2>3, <2>4
<1>7. QED
  BY <1>3, <1>4, <1>5, <1>6

LEMMA SetHooksKeeps ==
    ASSUME TypeInv, TypeInv', ExtInv, SetHooks
    PROVE  ExtInv'
<1>1. PICK s \in {"hush", "unhush"} : todo # <<>> /\ Head(todo)[1] = s /\ s \in ExtStepNames
                                      /\ Switched(IF s = "hush" THEN "on" ELSE "off", IF s = "hush" THEN "off" ELSE "on")
  BY DEF SetHooks, In, ExtStepNames
<1> DEFINE from == IF s = "hush" THEN "on" ELSE "off"
           to == IF s = "hush" THEN "off" ELSE "on"
<1>2. /\ job \in ExtJob /\ ExtPlan(job, todo) /\ e0 \in Exts /\ job.op \in ExtOps
      /\ e0 \notin cut => NamesFree /\ Installing /\ Entered /\ Hooked /\ Remembered /\ Undoing
      /\ \A a \in Agents : \A n \in job.cmds[a] : n \in Declared(e0, job.ver)
      /\ s = "hush" => job.op = "disable" \/ (job.op = "update" /\ ~job.rolled /\ ~job.entry.enabled)
      /\ s = "unhush" => job.op = "enable"
  BY <1>1, Turn, StepOf
<1>3. /\ UNCHANGED <<reg, dir, saved, stash, files, skills, listed>>
      /\ \/ hooks' = [hooks EXCEPT ![e0] = [h \in Events |-> IF @[h] = from THEN to ELSE @[h]]] /\ Go(job)
         \/ Stop
  BY <1>1 DEF SetHooks, Switched
<1>4. \A f \in Exts : f # e0 => hooks'[f] = hooks[f]
  <2>1. hooks' = hooks \/ \E x : hooks' = [hooks EXCEPT ![e0] = x]
    BY <1>1 DEF Switched
  <2>2. QED
    BY <2>1, StoreFields
<1>5. OthersKept /\ EntryKept /\ UpdateKept
  BY <1>2, <1>3, <1>4, Local
<1>6. CASE Stop
  BY <1>1, <1>2, <1>5, <1>6, Halted DEF Stop
<1>7. CASE hooks' = [hooks EXCEPT ![e0] = [h \in Events |-> IF @[h] = from THEN to ELSE @[h]]] /\ Go(job)
  <2>1. /\ cut' = cut
        /\ \/ todo' = <<>> /\ job' = NoJob /\ LastStep(job) = s
           \/ todo' # <<>> /\ job' = job /\ Follows(job, s, Upcoming)
    BY <1>1, <1>2, <1>7, Successors
  <2>2. \A h \in Events : hooks'[e0][h] = IF hooks[e0][h] = from THEN to ELSE hooks[e0][h]
    BY <1>2, <1>7, StoreFields
  <2>3. e0 \notin cut => /\ s = "hush" => ~reg[e0].enabled /\ HooksAre(hooks[e0], e0, reg[e0].ver, TRUE)
                         /\ s = "unhush" => reg[e0].enabled /\ HooksAre(hooks[e0], e0, reg[e0].ver, FALSE)
                         /\ job.op = "enable" => job.entry.enabled
                         /\ job.op = "disable" => ~job.entry.enabled
    BY <1>1, <1>2 DEF Hooked, At
  <2>4. e0 \notin cut => HooksAre(hooks'[e0], e0, reg'[e0].ver, reg'[e0].enabled)
    <3>1. e0 \notin cut /\ s = "hush" => HooksAre(hooks'[e0], e0, reg[e0].ver, FALSE)
      BY <2>2, <2>3 DEF HooksAre
    <3>2. e0 \notin cut /\ s = "unhush" => HooksAre(hooks'[e0], e0, reg[e0].ver, TRUE)
      BY <2>2, <2>3 DEF HooksAre
    <3>3. reg'[e0] = reg[e0] /\ reg[e0].enabled \in BOOLEAN
      BY <1>2, <1>3, StoreFields DEF Entry
    <3>4. QED
      BY <2>3, <3>1, <3>2, <3>3 DEF HooksAre
  <2>5. e0 \notin cut => /\ reg'[e0].ver # 0 /\ dir'[e0].there /\ dir'[e0].ver = reg'[e0].ver /\ e0 \in listed'
                         /\ \A a \in Agents : \A n \in reg'[e0].cmds[a] :
                               files'[a][n] = FileOf(e0, reg'[e0].ver) \/ \E g \in cut' : Named(g, n)
    <3>1. e0 \notin cut => Installed(e0) /\ InPlace(e0) /\ Written(e0)
      BY <1>1, <1>2 DEF Entered, At
    <3>2. QED
      BY <1>3, <2>1, <3>1 DEF Installed, InPlace, Written, Excused
  <2>6. CASE todo' = <<>>
    <3>1. job' = NoJob /\ OwnSound
      BY <2>1, <2>4, <2>5, <2>6 DEF OwnSound
    <3>2. QED
      BY <1>2, <1>5, <2>1, <2>6, <3>1, Ended
  <2>7. CASE todo' # <<>>
    <3>1. job' = job /\ Upcoming = "clean" /\ job.op = "update" /\ ~job.rolled /\ e0' = e0 /\ s = "hush"
      BY <1>2, <2>1, <2>7 DEF Follows, e0
    <3>2. e0 \notin cut => Installing' /\ Entered' /\ Hooked' /\ Undoing'
      BY <1>2, <2>4, <2>5, <2>7, <3>1, Stage DEF Writing
    <3>3. ConfigKept'
      BY <1>1, <1>2, <1>3, <2>1, <3>1 DEF ExtInv, ConfigKept, At, Upcoming
    <3>4. QED
      BY <1>1, <1>2, <1>5, <2>1, <2>7, <3>1, <3>2, <3>3, WentOn DEF Writing
  <2>8. QED
    BY <2>6, <2>7
<1>8. QED
  BY <1>3, <1>6, <1>7

LEMMA CleanKeeps ==
    ASSUME TypeInv, TypeInv', ExtInv, Clean
    PROVE  ExtInv'
<1>1. todo # <<>> /\ Head(todo)[1] = "clean" /\ "clean" \in ExtStepNames
  BY DEF Clean, In, ExtStepNames
<1>2. /\ job \in ExtJob /\ ExtPlan(job, todo) /\ e0 \in Exts /\ job.op \in ExtOps
      /\ e0 \notin cut => NamesFree /\ Installing /\ Entered /\ Hooked /\ Remembered /\ Undoing
      /\ \A a \in Agents : \A n \in job.cmds[a] : n \in Declared(e0, job.ver)
      /\ job.op = "update"
  BY <1>1, Turn, StepOf
<1>3. /\ UNCHANGED <<reg, dir, saved, files, skills, listed, hooks>> /\ (Go(job) \/ Stop)
      /\ \A f \in Exts : f # e0 => stash'[f] = stash[f]
  <2>1. \E d : stash' = [stash EXCEPT ![e0] = d]
    <3>1. \/ stash' = [stash EXCEPT ![e0] = NoStash]
          \/ \E d : stash' = [stash EXCEPT ![e0].dir = d]
      BY DEF Clean
    <3>2. QED
      BY <3>1
  <2>2. QED
    BY <2>1, StoreFields DEF Clean
<1>4. CASE Stop
  BY <1>1, <1>2, <1>3, <1>4, TornStash
<1>5. CASE Go(job)
  <2>1. /\ cut' = cut
        /\ \/ todo' = <<>> /\ job' = NoJob
           \/ todo' # <<>> /\ Follows(job, "clean", Upcoming)
    BY <1>1, <1>2, <1>5, Successors
  <2>2. todo' = <<>> /\ job' = NoJob
    BY <1>2, <2>1 DEF Follows
  <2>3. OthersKept /\ EntryKept
    BY <1>3 DEF OthersKept, EntryKept
  <2>4. CASE ~job.rolled /\ e0 \notin cut
    <3>1. Installed(e0) /\ InPlace(e0) /\ Written(e0) /\ HooksAre(hooks[e0], e0, reg[e0].ver, reg[e0].enabled)
      BY <1>1, <1>2, <2>4 DEF Entered, Hooked, At
    <3>2. OwnSound
      BY <1>3, <2>1, <3>1 DEF OwnSound, InPlace, Written, Excused, HooksAre, Installed
    <3>3. QED
      BY <1>2, <2>1, <2>2, <2>3, <3>2, Ended
  <2>5. CASE job.rolled /\ e0 \notin cut
    <3>1. /\ reg[e0] = job.entry /\ dir[e0] = job.dir /\ hooks[e0] = job.hooks /\ e0 \in listed
          /\ \A a \in Agents : \A n \in Names : job.files[a][n] # NoFile => files[a][n] = job.files[a][n]
      BY <1>1, <1>2, <2>5 DEF Undoing, At
    <3>2. /\ job.dir.there /\ job.dir.ver = job.entry.ver
          /\ HooksAre(job.hooks, e0, job.entry.ver, job.entry.enabled)
          /\ \A a \in Agents : \A n \in job.entry.cmds[a] : job.files[a][n] = FileOf(e0, job.entry.ver) \/ Excused(n)
      BY <1>1, <1>2, <2>5 DEF Remembered, At
    <3>3. FileOf(e0, job.entry.ver) # NoFile
      BY <1>2, ExtensionAssumption DEF FileOf, NoFile
    <3>4. ASSUME NEW a \in Agents, NEW n \in reg[e0].cmds[a]
          PROVE  files[a][n] = FileOf(e0, reg[e0].ver) \/ Excused(n)
      <4>1. n \in Names /\ n \in job.entry.cmds[a]
        BY <1>2, <3>1, <3>4, StoreFields DEF Entry
      <4>2. QED
        BY <3>1, <3>2, <3>3, <4>1
    <3>5. OwnSound
      BY <1>3, <2>1, <3>1, <3>2, <3>4 DEF OwnSound, Excused, HooksAre
    <3>6. QED
      BY <1>2, <2>1, <2>2, <2>3, <3>5, Ended
  <2>6. CASE e0 \in cut
    <3>1. OwnSound
      BY <2>1, <2>6 DEF OwnSound
    <3>2. QED
      BY <1>2, <2>1, <2>2, <2>3, <3>1, Ended
  <2>7. QED
    BY <2>4, <2>5, <2>6
<1>6. QED
  BY <1>3, <1>4, <1>5

LEMMA UndoDirKeeps ==
    ASSUME TypeInv, TypeInv', ExtInv, UndoDir
    PROVE  ExtInv'
<1>1. todo # <<>> /\ Head(todo)[1] = "undir" /\ "undir" \in ExtStepNames
  BY DEF UndoDir, In, ExtStepNames, UndoSteps
<1>2. /\ job \in ExtJob /\ ExtPlan(job, todo) /\ e0 \in Exts /\ job.op \in ExtOps
      /\ e0 \notin cut => NamesFree /\ Installing /\ Entered /\ Hooked /\ Remembered /\ Undoing
      /\ \A a \in Agents : \A n \in job.cmds[a] : n \in Declared(e0, job.ver)
      /\ job.op = "update" /\ job.rolled
  BY <1>1, Turn, StepOf DEF UndoSteps
<1>3. PICK d : /\ dir' = dir \/ dir' = [dir EXCEPT ![e0] = d]
               /\ \/ stash[e0].dir.there /\ dir' = [dir EXCEPT ![e0] = stash[e0].dir] /\ Go(job)
                  \/ ~stash[e0].dir.there /\ Go(job)
                  \/ Stop
  BY DEF UndoDir
<1>4. /\ UNCHANGED <<reg, saved, stash, files, skills, listed, hooks>>
      /\ \A f \in Exts : f # e0 => dir'[f] = dir[f]
  BY <1>2, <1>3, StoreFields DEF UndoDir
<1>5. OthersKept /\ EntryKept /\ UpdateKept
  BY <1>2, <1>4, Local
<1>6. CASE Stop
  BY <1>1, <1>2, <1>5, <1>6, Halted DEF Stop
<1>7. CASE Go(job) /\ (stash[e0].dir.there => dir' = [dir EXCEPT ![e0] = stash[e0].dir])
  <2>1. /\ cut' = cut
        /\ \/ todo' = <<>> /\ job' = NoJob /\ LastStep(job) = "undir"
           \/ todo' # <<>> /\ job' = job /\ Follows(job, "undir", Upcoming)
    BY <1>1, <1>2, <1>7, Successors
  <2>2. todo' # <<>> /\ job' = job /\ Upcoming = "unnew" /\ e0' = e0
    BY <1>2, <2>1 DEF Follows, LastStep, e0
  <2>3. e0 \notin cut => dir'[e0] = job.dir
    <3>1. e0 \notin cut => stash[e0].dir = job.dir /\ job.dir.there
      BY <1>1, <1>2 DEF Remembered, At
    <3>2. QED
      BY <1>2, <1>7, <3>1, StoreFields
  <2>4. e0 \notin cut => Installing' /\ Entered' /\ Hooked' /\ Undoing'
    BY <1>2, <2>2, <2>3, Stage DEF Writing
  <2>5. ConfigKept'
    BY <1>1, <1>2, <1>4, <2>1, <2>2 DEF ExtInv, ConfigKept, At, Upcoming
  <2>6. QED
    BY <1>1, <1>2, <1>5, <2>1, <2>2, <2>4, <2>5, WentOn DEF Writing
<1>8. QED
  BY <1>3, <1>6, <1>7

LEMMA UndoNewKeeps ==
    ASSUME TypeInv, TypeInv', ExtInv, UndoNew
    PROVE  ExtInv'
<1>1. todo # <<>> /\ Head(todo)[1] = "unnew" /\ "unnew" \in ExtStepNames
  BY DEF UndoNew, In, ExtStepNames, UndoSteps
<1>2. /\ job \in ExtJob /\ ExtPlan(job, todo) /\ e0 \in Exts /\ job.op \in ExtOps
      /\ e0 \notin cut => NamesFree /\ Installing /\ Entered /\ Hooked /\ Remembered /\ Undoing
      /\ \A a \in Agents : \A n \in job.cmds[a] : n \in Declared(e0, job.ver)
      /\ job.op = "update" /\ job.rolled
  BY <1>1, Turn, StepOf DEF UndoSteps
<1>3. /\ \A a \in Agents : \A n \in Names :
            files'[a][n] = files[a][n] \/ (n \in reg[e0].cmds[a] /\ files'[a][n] = NoFile)
      /\ Go(job) \/ Stop
  BY DEF UndoNew
<1>4. UNCHANGED <<reg, dir, saved, stash, skills, listed, hooks>>
  BY DEF UndoNew
<1>5. OthersKept /\ EntryKept /\ UpdateKept
  <2>1. cut \subseteq cut'
    BY <1>3 DEF Go, Stop, Raise, Die
  <2>2. QED
    BY <1>2, <1>3, <1>4, <2>1, Unwriting
<1>6. CASE Stop
  BY <1>1, <1>2, <1>5, <1>6, Halted DEF Stop
<1>7. CASE Go(job)
  <2>1. /\ cut' = cut
        /\ \/ todo' = <<>> /\ job' = NoJob /\ LastStep(job) = "unnew"
           \/ todo' # <<>> /\ job' = job /\ Follows(job, "unnew", Upcoming)
    BY <1>1, <1>2, <1>7, Successors
  <2>2. todo' # <<>> /\ job' = job /\ Upcoming = "refile" /\ e0' = e0
    BY <1>2, <2>1 DEF Follows, LastStep, e0
  <2>3. e0 \notin cut => dir'[e0] = job.dir
    BY <1>1, <1>2, <1>4 DEF Undoing, At
  <2>4. e0 \notin cut => Installing' /\ Entered' /\ Hooked' /\ Undoing'
    BY <1>2, <2>2, <2>3, Stage DEF Writing
  <2>5. ConfigKept'
    BY <1>1, <1>2, <1>4, <2>1, <2>2 DEF ExtInv, ConfigKept, At, Upcoming
  <2>6. QED
    BY <1>1, <1>2, <1>5, <2>1, <2>2, <2>4, <2>5, WentOn DEF Writing
<1>8. QED
  BY <1>3, <1>6, <1>7

LEMMA RestoreFilesKeeps ==
    ASSUME TypeInv, TypeInv', ExtInv, RestoreFiles
    PROVE  ExtInv'
<1>1. todo # <<>> /\ Head(todo)[1] = "refile" /\ "refile" \in ExtStepNames
  BY DEF RestoreFiles, In, ExtStepNames, UndoSteps
<1>2. /\ job \in ExtJob /\ ExtPlan(job, todo) /\ e0 \in Exts /\ job.op \in ExtOps
      /\ e0 \notin cut => NamesFree /\ Installing /\ Entered /\ Hooked /\ Remembered /\ Undoing
      /\ \A a \in Agents : \A n \in job.cmds[a] : n \in Declared(e0, job.ver)
      /\ job.op = "update" /\ job.rolled
  BY <1>1, Turn, StepOf DEF UndoSteps
<1>3. PICK done \in SUBSET Agents :
         /\ files' = [a \in Agents |-> [n \in Names |->
                        IF a \in done /\ job.files[a][n] # NoFile THEN job.files[a][n] ELSE files[a][n]]]
         /\ (done = Agents /\ Go(job)) \/ Stop
  BY DEF RestoreFiles
<1>4. /\ UNCHANGED <<reg, dir, saved, stash, skills, listed, hooks>>
      /\ \A a \in Agents : \A n \in Names :
            files'[a][n] = IF a \in done /\ job.files[a][n] # NoFile THEN job.files[a][n] ELSE files[a][n]
  BY <1>3 DEF RestoreFiles
<1>5. OthersKept /\ EntryKept /\ UpdateKept
  <2>1. cut \subseteq cut'
    BY <1>3 DEF Go, Stop, Raise, Die
  <2>2. ASSUME NEW f \in Exts \ cut', f # e0, NEW a \in Agents, NEW n \in reg[f].cmds[a]
        PROVE  files'[a][n] = files[a][n] \/ \E g \in cut' : Named(g, n)
    <3>1. Installed(f) /\ n \in Declared(f, reg[f].ver) /\ n \in Names
      BY <2>1, <2>2, StoreFields DEF ExtInv, Recording, Entry
    <3>2. job.files[a][n] # NoFile => Named(e0, n) /\ (e0 \notin cut => n \in Declared(e0, job.entry.ver))
      BY <1>2, <3>1 DEF ExtInv, JobRecording
    <3>3. e0 \notin cut => Free(e0, job.entry.ver)
      BY <1>2 DEF NamesFree
    <3>4. CASE job.files[a][n] = NoFile
      BY <1>4, <3>1, <3>4
    <3>5. CASE job.files[a][n] # NoFile /\ e0 \notin cut
      BY <2>1, <2>2, <3>1, <3>2, <3>3, <3>5 DEF Free
    <3>6. CASE job.files[a][n] # NoFile /\ e0 \in cut
      BY <1>2, <2>1, <3>2, <3>6
    <3>7. QED
      BY <3>4, <3>5, <3>6
  <2>3. OthersKept
    BY <1>4, <2>2 DEF OthersKept
  <2>4. EntryKept /\ UpdateKept
    BY <1>4 DEF EntryKept, UpdateKept
  <2>5. QED
    BY <2>3, <2>4
<1>6. CASE Stop
  BY <1>1, <1>2, <1>5, <1>6, Halted DEF Stop
<1>7. CASE done = Agents /\ Go(job)
  <2>1. /\ cut' = cut
        /\ \/ todo' = <<>> /\ job' = NoJob /\ LastStep(job) = "refile"
           \/ todo' # <<>> /\ job' = job /\ Follows(job, "refile", Upcoming)
    BY <1>1, <1>2, <1>7, Successors
  <2>2. todo' # <<>> /\ job' = job /\ Upcoming = "rehook" /\ e0' = e0
    BY <1>2, <2>1 DEF Follows, LastStep, e0
  <2>3. e0 \notin cut => dir'[e0] = job.dir
    BY <1>1, <1>2, <1>4 DEF Undoing, At
  <2>4. \A a \in Agents : \A n \in Names : job.files[a][n] # NoFile => files'[a][n] = job.files[a][n]
    BY <1>4, <1>7
  <2>5. e0 \notin cut => Installing' /\ Entered' /\ Hooked' /\ Undoing'
    BY <1>2, <2>2, <2>3, <2>4, Stage DEF Writing
  <2>6. ConfigKept'
    BY <1>1, <1>2, <1>4, <2>1, <2>2 DEF ExtInv, ConfigKept, At, Upcoming
  <2>7. QED
    BY <1>1, <1>2, <1>5, <2>1, <2>2, <2>5, <2>6, WentOn DEF Writing
<1>8. QED
  BY <1>3, <1>6, <1>7

LEMMA RestoreHooksKeeps ==
    ASSUME TypeInv, TypeInv', ExtInv, RestoreHooks
    PROVE  ExtInv'
<1>1. todo # <<>> /\ Head(todo)[1] = "rehook" /\ "rehook" \in ExtStepNames
  BY DEF RestoreHooks, In, ExtStepNames, UndoSteps
<1>2. /\ job \in ExtJob /\ ExtPlan(job, todo) /\ e0 \in Exts /\ job.op \in ExtOps
      /\ e0 \notin cut => NamesFree /\ Installing /\ Entered /\ Hooked /\ Remembered /\ Undoing
      /\ \A a \in Agents : \A n \in job.cmds[a] : n \in Declared(e0, job.ver)
      /\ job.op = "update" /\ job.rolled
  BY <1>1, Turn, StepOf DEF UndoSteps
<1>3. \/ /\ hooks' = IF job.known THEN [hooks EXCEPT ![e0] = job.hooks] ELSE hooks
         /\ listed' = IF job.known THEN job.listed ELSE listed
         /\ Go(job) \/ Stop
      \/ UNCHANGED <<listed, hooks>> /\ Stop
  BY DEF RestoreHooks
<1>4. /\ UNCHANGED <<reg, dir, saved, stash, files, skills>>
      /\ \A f \in Exts : f # e0 => hooks'[f] = hooks[f]
      /\ listed' = listed \/ (job.known /\ listed' = job.listed)
  BY <1>2, <1>3, StoreFields DEF RestoreHooks
<1>5. OthersKept /\ EntryKept /\ UpdateKept
  <2>1. job.known => \A f \in Exts \ cut : f # e0 /\ Installed(f) => f \in job.listed
    BY <1>2 DEF ExtInv, OthersListed
  <2>2. cut \subseteq cut'
    BY <1>3 DEF Go, Stop, Raise, Die
  <2>3. QED
    BY <1>4, <2>1, <2>2 DEF OthersKept, EntryKept, UpdateKept
<1>6. CASE Stop
  BY <1>1, <1>2, <1>5, <1>6, Halted DEF Stop
<1>7. CASE /\ hooks' = IF job.known THEN [hooks EXCEPT ![e0] = job.hooks] ELSE hooks
           /\ listed' = IF job.known THEN job.listed ELSE listed
           /\ Go(job)
  <2>1. /\ cut' = cut
        /\ \/ todo' = <<>> /\ job' = NoJob /\ LastStep(job) = "rehook"
           \/ todo' # <<>> /\ job' = job /\ Follows(job, "rehook", Upcoming)
    BY <1>1, <1>2, <1>7, Successors
  <2>2. todo' # <<>> /\ job' = job /\ Upcoming = "reenter" /\ e0' = e0
    BY <1>2, <2>1 DEF Follows, LastStep, e0
  <2>3. e0 \notin cut => /\ dir'[e0] = job.dir
                         /\ \A a \in Agents : \A n \in Names : job.files[a][n] # NoFile => files'[a][n] = job.files[a][n]
    BY <1>1, <1>2, <1>4 DEF Undoing, At
  <2>4. e0 \notin cut => hooks'[e0] = job.hooks /\ e0 \in listed'
    <3>1. e0 \notin cut => job.known /\ e0 \in job.listed
      BY <1>1, <1>2 DEF Remembered, At
    <3>2. QED
      BY <1>2, <1>7, <3>1, StoreFields
  <2>5. e0 \notin cut => Installing' /\ Entered' /\ Hooked' /\ Undoing'
    BY <1>2, <2>2, <2>3, <2>4, Stage DEF Writing
  <2>6. ConfigKept'
    BY <1>1, <1>2, <1>4, <2>1, <2>2 DEF ExtInv, ConfigKept, At, Upcoming
  <2>7. QED
    BY <1>1, <1>2, <1>5, <2>1, <2>2, <2>5, <2>6, WentOn DEF Writing
<1>8. QED
  BY <1>3, <1>6, <1>7

LEMMA RestoreEntryKeeps ==
    ASSUME TypeInv, TypeInv', ExtInv, RestoreEntry
    PROVE  ExtInv'
<1>1. todo # <<>> /\ Head(todo)[1] = "reenter" /\ "reenter" \in ExtStepNames
  BY DEF RestoreEntry, In, ExtStepNames, UndoSteps
<1>2. /\ job \in ExtJob /\ ExtPlan(job, todo) /\ e0 \in Exts /\ job.op \in ExtOps
      /\ e0 \notin cut => NamesFree /\ Installing /\ Entered /\ Hooked /\ Remembered /\ Undoing
      /\ \A a \in Agents : \A n \in job.cmds[a] : n \in Declared(e0, job.ver)
      /\ job.op = "update" /\ job.rolled
  BY <1>1, Turn, StepOf DEF UndoSteps
<1>3. /\ UNCHANGED <<dir, saved, stash, files, skills, listed, hooks>>
      /\ \/ reg' = [reg EXCEPT ![e0] = job.entry] /\ (Go(job) \/ Stop)
         \/ reg' = reg /\ Stop
         \/ TornRegistry
  BY DEF RestoreEntry
<1>4. CASE TornRegistry
  BY <1>2, <1>4, Lost
<1>5. CASE reg' = reg /\ Stop
  <2>1. OthersKept /\ EntryKept /\ UpdateKept
    BY <1>2, <1>3, <1>5, Local
  <2>2. QED
    BY <1>1, <1>2, <1>5, <2>1, Halted DEF Stop
<1>6. CASE reg' = [reg EXCEPT ![e0] = job.entry] /\ (Go(job) \/ Stop)
  <2>1. cut \subseteq cut'
    BY <1>6 DEF Go, Stop, Raise, Die
  <2>2. reg'[e0] = job.entry /\ \A f \in Exts : f # e0 => reg'[f] = reg[f]
    BY <1>2, <1>6, StoreFields
  <2>3. OthersKept /\ EntryKept /\ UpdateKept
    <3>1. job.entry.ver \in Versions(e0) /\ \A a \in Agents : job.entry.cmds[a] \subseteq Names
      BY <1>2, JobFields DEF TypeInv, GenuineJob, Entry
    <3>2. \A a \in Agents : \A n \in job.entry.cmds[a] :
             Named(e0, n) /\ (e0 \notin cut => n \in Declared(e0, job.entry.ver))
      BY <1>2, <3>1 DEF ExtInv, JobRecording
    <3>3. e0 \notin cut => Free(e0, job.entry.ver)
      BY <1>2 DEF NamesFree
    <3>4. EntryKept
      BY <1>2, <2>1, <2>2, <3>1, <3>2, <3>3 DEF EntryKept
    <3>5. OthersKept /\ UpdateKept
      BY <1>3, <2>2 DEF OthersKept, UpdateKept
    <3>6. QED
      BY <3>4, <3>5
  <2>4. CASE Stop
    BY <1>1, <1>2, <2>3, <2>4, Halted DEF Stop
  <2>5. CASE Go(job)
    <3>1. /\ cut' = cut
          /\ \/ todo' = <<>> /\ job' = NoJob /\ LastStep(job) = "reenter"
             \/ todo' # <<>> /\ job' = job /\ Follows(job, "reenter", Upcoming)
      BY <1>1, <1>2, <2>5, Successors
    <3>2. todo' # <<>> /\ job' = job /\ Upcoming = "clean" /\ e0' = e0
      BY <1>2, <3>1 DEF Follows, LastStep, e0
    <3>3. e0 \notin cut => /\ dir'[e0] = job.dir
                           /\ \A a \in Agents : \A n \in Names : job.files[a][n] # NoFile => files'[a][n] = job.files[a][n]
                           /\ hooks'[e0] = job.hooks /\ e0 \in listed'
      BY <1>1, <1>2, <1>3 DEF Undoing, At
    <3>4. e0 \notin cut => Installing' /\ Entered' /\ Hooked' /\ Undoing'
      BY <1>2, <2>2, <3>2, <3>3, Stage DEF Writing
    <3>5. ConfigKept'
      BY <1>1, <1>2, <1>3, <3>1, <3>2, <3>3 DEF ExtInv, ConfigKept, At, Upcoming
    <3>6. QED
      BY <1>1, <1>2, <2>3, <3>1, <3>2, <3>4, <3>5, WentOn DEF Writing
  <2>6. QED
    BY <1>6, <2>4, <2>5
<1>7. QED
  BY <1>3, <1>4, <1>5, <1>6

LEMMA ExtStepKeeps ==
    ASSUME TypeInv, TypeInv', ExtInv, ExtStep
    PROVE  ExtInv'
BY CopyKeeps, RegisterKeeps, RegisterSkillsKeeps, RegisterHooksKeeps, UnsaveKeeps, EnterKeeps, ClearSavedKeeps,
   UnregisterKeeps, UnregisterSkillsKeeps, StripKeeps, DeleteKeeps, UnregisterHooksKeeps, DropKeeps,
   StashKeeps, CheckKeeps, RestoreConfigKeeps, RestoreMetadataKeeps, SetHooksKeeps, CleanKeeps,
   UndoDirKeeps, UndoNewKeeps, RestoreFilesKeeps, RestoreHooksKeeps, RestoreEntryKeeps DEF ExtStep

-----------------------------------------------------------------------------
(* A command begins *)

\* Nothing runs, and then command j of an extension does.
LEMMA Begun ==
    ASSUME TypeInv, ExtInv, job = NoJob, UNCHANGED <<extVars, cut>>,
           NEW e \in Exts, job'.ext = e, \A a \in Agents : job'.cmds[a] = {}
    PROVE  /\ Sound' /\ Recording' /\ Apart'
           /\ \A v : Free(e, v)' <=> Free(e, v)
           /\ e \notin cut =>
                 /\ InPlace(e) /\ Written(e) /\ HooksAre(hooks[e], e, reg[e].ver, reg[e].enabled)
                 /\ Installed(e) => Free(e, reg[e].ver)
<1>1. /\ reg' = reg /\ dir' = dir /\ saved' = saved /\ stash' = stash /\ files' = files /\ skills' = skills
      /\ listed' = listed /\ hooks' = hooks /\ cut' = cut
  BY DEF extVars
<1>2. \A f \in Exts \ cut : InPlace(f) /\ HooksAre(hooks[f], f, reg[f].ver, reg[f].enabled) /\ Written(f)
  BY NoJobIs, ExtensionAssumption DEF ExtInv, Sound, AtRest
<1>3. ASSUME NEW f \in Exts \ cut
      PROVE  InPlace(f)' /\ HooksAre(hooks[f], f, reg[f].ver, reg[f].enabled)' /\ Written(f)'
  BY <1>1, <1>2 DEF InPlace, Installed, HooksAre, Written, Excused, Named, Versions, FileOf
<1>4. Sound'
  BY <1>1, <1>3 DEF Sound, AtRest
<1>5. Recording'
  BY <1>1 DEF ExtInv, Recording, Installed, Named, Versions
<1>6. \A v : Free(e, v)' <=> Free(e, v)
  BY <1>1 DEF Free, Installed
<1>7. Apart'
  BY <1>1 DEF ExtInv, Apart, Free, Installed
<1>8. e \notin cut => (Installed(e) => Free(e, reg[e].ver))
  BY DEF ExtInv, Apart
<1>9. QED
  BY <1>2, <1>4, <1>5, <1>6, <1>7, <1>8

LEMMA AddKeeps ==
    ASSUME TypeInv, ExtInv, NEW e \in Exts, NEW v \in Versions(e), NEW force \in BOOLEAN, Add(e, v, force),
           UNCHANGED integVars
    PROVE  ExtInv'
<1>1. /\ job' \in ExtJob /\ todo' # <<>> /\ UNCHANGED <<extVars, cut>> /\ job = NoJob
      /\ job'.ext = e /\ job'.ver = v /\ ~Conflicts(e, v) /\ \A a \in Agents : job'.cmds[a] = {}
      /\ \/ job'.op = "readd" /\ Head(todo')[1] = "clear" /\ job'.dir = dir[e] /\ dir' = dir
         \/ job'.op = "add" /\ Head(todo')[1] = "copy"
  BY AddBegins DEF extVars
<1>2. /\ Sound' /\ Recording' /\ Apart'
      /\ Free(e, v)' <=> Free(e, v)
  BY <1>1, Begun
<1>3. Free(e, v)
  BY <1>1, NoJobIs, NoConflict DEF ExtInv
<1>4. e0' = e
  BY <1>1 DEF e0
<1>5. JobRecording' /\ OthersListed'
  BY <1>1, <1>4 DEF JobRecording, OthersListed
<1>6. NamesFree'
  BY <1>1, <1>2, <1>3, <1>4 DEF NamesFree
<1>7. Installing' /\ Entered' /\ Hooked' /\ Remembered' /\ Undoing'
  BY <1>1 DEF Installing, Entered, Hooked, Remembered, Undoing, At, Writing
<1>8. ConfigKept'
  BY <1>1, <1>4 DEF ConfigKept, At
<1>9. QED
  BY <1>2, <1>5, <1>6, <1>7, <1>8 DEF ExtInv, Underway

LEMMA RemoveKeeps ==
    ASSUME TypeInv, ExtInv, NEW e \in Exts, NEW keep \in BOOLEAN, Remove(e, keep), UNCHANGED integVars
    PROVE  ExtInv'
<1>1. /\ job' \in ExtJob /\ todo' # <<>> /\ UNCHANGED <<extVars, cut>> /\ job = NoJob
      /\ job'.ext = e /\ job'.op = "remove" /\ Head(todo')[1] = "unregister"
      /\ \A a \in Agents : job'.cmds[a] = {}
  BY RemoveBegins
<1>2. /\ Sound' /\ Recording' /\ Apart'
  BY <1>1, Begun
<1>3. e0' = e
  BY <1>1 DEF e0
<1>4. JobRecording' /\ OthersListed' /\ ConfigKept'
  BY <1>1, <1>2, <1>3 DEF JobRecording, OthersListed, ConfigKept
<1>5. NamesFree' /\ Installing' /\ Entered' /\ Hooked' /\ Remembered' /\ Undoing'
  BY <1>1 DEF NamesFree, Installing, Entered, Hooked, Remembered, Undoing, At, Writing
<1>6. QED
  BY <1>2, <1>4, <1>5 DEF ExtInv, Underway

LEMMA UpdateKeeps ==
    ASSUME TypeInv, ExtInv, NEW e \in Exts, Update(e), UNCHANGED integVars
    PROVE  ExtInv'
<1>1. /\ job' \in ExtJob /\ todo' # <<>> /\ UNCHANGED <<extVars, cut>> /\ job = NoJob
      /\ job'.ext = e /\ job'.op = "update" /\ ~job'.rolled /\ ~job'.known /\ Head(todo')[1] = "stash"
      /\ job'.entry = reg[e] /\ job'.dir = dir[e] /\ Installed(e)
      /\ \A a \in Agents : job'.cmds[a] = {}
      /\ \A a \in Agents : \A n \in Names : job'.files[a][n] = NoFile
  <2>1. dir[e].ver \in Versions(e) \cup {0}
    BY DEF TypeInv, GenuineStore
  <2>2. QED
    BY <2>1, UpdateBegins
<1>2. /\ Sound' /\ Recording' /\ Apart'
      /\ \A v : Free(e, v)' <=> Free(e, v)
      /\ e \notin cut =>
            /\ InPlace(e) /\ Written(e) /\ HooksAre(hooks[e], e, reg[e].ver, reg[e].enabled)
            /\ Free(e, reg[e].ver)
  BY <1>1, Begun
<1>3. e0' = e /\ reg' = reg /\ dir' = dir /\ files' = files /\ listed' = listed /\ hooks' = hooks /\ cut' = cut
  BY <1>1 DEF e0, extVars
<1>4. JobRecording'
  <2>1. \A a \in Agents : \A n \in reg[e].cmds[a] : Named(e, n) /\ (e \notin cut => n \in Declared(e, reg[e].ver))
    BY DEF ExtInv, Recording
  <2>2. QED
    BY <1>1, <1>2, <1>3, <2>1 DEF JobRecording, Named, Versions
<1>5. OthersListed' /\ ConfigKept'
  BY <1>1 DEF OthersListed, ConfigKept, At
<1>6. ASSUME e \notin cut
      PROVE  NamesFree' /\ Installing' /\ Entered' /\ Hooked' /\ Remembered' /\ Undoing'
  <2>1. NamesFree' /\ Installing' /\ Entered' /\ Hooked' /\ Undoing'
    BY <1>1, <1>2, <1>3, <1>6 DEF NamesFree, Installing, Entered, Hooked, Undoing, At, Writing
  <2>2. Remembered'
    <3>1. dir[e].there /\ dir[e].ver = reg[e].ver /\ e \in listed
      BY <1>1, <1>2, <1>6 DEF InPlace
    <3>2. Written(e)' /\ HooksAre(hooks[e], e, reg[e].ver, reg[e].enabled)'
      BY <1>2, <1>3, <1>6 DEF Written, Excused, Named, Versions, FileOf, HooksAre
    <3>3. Written(e0)' /\ HooksAre(hooks[e0], e0, reg[e0].ver, reg[e0].enabled)'
      BY <1>3, <3>2 DEF Written, HooksAre, FileOf
    <3>4. QED
      BY <1>1, <1>3, <3>1, <3>3 DEF Remembered, At
  <2>3. QED
    BY <2>1, <2>2
<1>7. QED
  BY <1>2, <1>3, <1>4, <1>5, <1>6 DEF ExtInv, Underway

LEMMA EnableKeeps ==
    ASSUME TypeInv, ExtInv, NEW e \in Exts, Enable(e) \/ Disable(e), UNCHANGED integVars
    PROVE  ExtInv'
<1>1. /\ job' \in ExtJob /\ todo' # <<>> /\ UNCHANGED <<extVars, cut>> /\ job = NoJob
      /\ job'.ext = e /\ Head(todo')[1] = "remeta" /\ Installed(e)
      /\ \A a \in Agents : job'.cmds[a] = {}
      /\ \/ job'.op = "enable" /\ job'.entry.enabled /\ ~reg[e].enabled
         \/ job'.op = "disable" /\ ~job'.entry.enabled /\ reg[e].enabled
  BY SwitchBegins
<1>2. /\ Sound' /\ Recording' /\ Apart'
      /\ e \notin cut => InPlace(e) /\ Written(e) /\ HooksAre(hooks[e], e, reg[e].ver, reg[e].enabled)
  BY <1>1, Begun
<1>3. e0' = e /\ reg' = reg /\ dir' = dir /\ files' = files /\ listed' = listed /\ hooks' = hooks /\ cut' = cut
  BY <1>1 DEF e0, extVars
<1>4. JobRecording' /\ OthersListed' /\ ConfigKept'
  BY <1>1, <1>2, <1>3 DEF JobRecording, OthersListed, ConfigKept
<1>5. ASSUME e \notin cut
      PROVE  NamesFree' /\ Installing' /\ Entered' /\ Hooked' /\ Remembered' /\ Undoing'
  <2>1. NamesFree' /\ Installing' /\ Remembered' /\ Undoing'
    BY <1>1 DEF NamesFree, Installing, Remembered, Undoing, At, Writing
  <2>2. HooksAre(hooks[e0], e0, reg[e0].ver, reg[e0].enabled)'
    BY <1>2, <1>3, <1>5 DEF HooksAre
  <2>3. Hooked'
    BY <1>1, <1>3, <2>2 DEF Hooked, At
  <2>4. Written(e0)' /\ InPlace(e0)' /\ Installed(e0)'
    BY <1>1, <1>2, <1>3, <1>5 DEF Written, Excused, Named, Versions, FileOf, InPlace, Installed
  <2>5. Entered'
    BY <2>4 DEF Entered
  <2>6. QED
    BY <2>1, <2>3, <2>5
<1>6. QED
  BY <1>2, <1>3, <1>4, <1>5 DEF ExtInv, Underway

LEMMA ConfigureKeeps ==
    ASSUME TypeInv, ExtInv, NEW e \in Exts, Configure(e), UNCHANGED integVars
    PROVE  ExtInv'
<1>1. job = NoJob /\ job' = NoJob
  BY ConfigureTypes DEF Configure
<1>2. UNCHANGED <<reg, saved, stash, files, skills, listed, hooks, cut>>
      /\ \A f \in Exts : dir'[f].there = dir[f].there /\ dir'[f].ver = dir[f].ver
  BY StoreFields DEF Configure, Dir
<1>3. Sound'
  BY <1>1, <1>2 DEF ExtInv, Sound, AtRest, InPlace, Installed, HooksAre, Written, Excused, Named, Versions, FileOf
<1>4. Recording' /\ Apart'
  BY <1>2 DEF ExtInv, Recording, Apart, Free, Installed, Named, Versions
<1>5. JobRecording' /\ OthersListed' /\ Underway' /\ ConfigKept'
  BY <1>1, NoJobIs DEF JobRecording, OthersListed, Underway, ConfigKept, ExtOps
<1>6. QED
  BY <1>3, <1>4, <1>5 DEF ExtInv

LEMMA CommandKeeps ==
    ASSUME TypeInv, ExtInv, Command, UNCHANGED integVars
    PROVE  ExtInv'
<1>1. PICK e \in Exts :
        \/ \E v \in Versions(e), force \in BOOLEAN : Add(e, v, force)
        \/ \E keepConfig \in BOOLEAN : Remove(e, keepConfig)
        \/ Update(e) \/ Enable(e) \/ Disable(e) \/ Configure(e)
  BY DEF Command, Versions
<1>2. QED
  BY <1>1, AddKeeps, RemoveKeeps, UpdateKeeps, EnableKeeps, ConfigureKeeps

-----------------------------------------------------------------------------
(* The integration commands and the extensions *)

\* No extension command runs, before or after.
LEMMA NoneRuns ==
    ASSUME ExtInv, StillMoving, Sound', Recording', Apart'
    PROVE  ExtInv'
<1>1. job'.op \notin ExtOps
  BY NoJobIs DEF StillMoving, MoveJob, ExtOps
<1>2. JobRecording' /\ OthersListed' /\ Underway' /\ ConfigKept'
  BY <1>1 DEF JobRecording, OthersListed, Underway, ConfigKept, ExtOps
<1>3. QED
  BY <1>2 DEF ExtInv

LEMMA Untouched ==
    ASSUME ExtInv, job.ext = None, StillMoving, UNCHANGED <<extVars, cut>>
    PROVE  ExtInv'
<1>1. /\ reg' = reg /\ dir' = dir /\ saved' = saved /\ stash' = stash /\ files' = files /\ skills' = skills
      /\ listed' = listed /\ hooks' = hooks /\ cut' = cut
  BY DEF extVars
<1>2. job'.ext = None
  BY NoJobIs DEF StillMoving, MoveJob
<1>3. Sound'
  BY <1>1, <1>2 DEF ExtInv, Sound, AtRest, InPlace, Installed, HooksAre, Written, Excused, Named, Versions, FileOf
<1>4. Recording' /\ Apart'
  BY <1>1 DEF ExtInv, Recording, Apart, Free, Installed, Named, Versions
<1>5. QED
  BY <1>3, <1>4, NoneRuns

LEMMA UnregisterArtifactsKeeps ==
    ASSUME TypeInv, ExtInv, UnregisterArtifacts
    PROVE  ExtInv'
<1> DEFINE a == arg[2]
<1>1. job.ext = None /\ StillMoving /\ a \in Agents
  BY MoveTurn, UnregisterArtifactsTypes, Unregistering DEF UnregisterArtifacts, In, MoveNames
<1>2. PICK part \in SUBSET Exts, done \in SUBSET Exts :
         /\ done \subseteq part
         /\ files' = [files EXCEPT ![a] =
                       [n \in Names |-> IF \E e \in part : n \in reg[e].cmds[a] THEN NoFile ELSE @[n]]]
         /\ cut' = cut \cup (part \ done)
         /\ \A e \in Exts \ done : reg'[e] = reg[e]
         /\ \A e \in done : /\ reg'[e].ver = reg[e].ver /\ reg'[e].enabled = reg[e].enabled
                            /\ reg'[e].cmds = [reg[e].cmds EXCEPT ![a] = {}]
  BY Unregistering
<1>3. UNCHANGED <<dir, listed, hooks>>
  BY DEF UnregisterArtifacts
<1> HIDE DEF a
<1>4. /\ \A b \in Agents \ {a} : \A n \in Names : files'[b][n] = files[b][n]
      /\ \A n \in Names : files'[a][n] = files[a][n] \/ \E e \in part : n \in reg[e].cmds[a]
  BY <1>1, <1>2, StoreFields DEF Files
<1>5. /\ \A e \in Exts : reg'[e].ver = reg[e].ver /\ reg'[e].enabled = reg[e].enabled
      /\ \A e \in Exts : \A b \in Agents : \A n \in reg'[e].cmds[b] :
            n \in reg[e].cmds[b] /\ n \in Names /\ ~(e \in done /\ b = a)
  <2>1. \A e \in Exts : reg[e].cmds \in [Agents -> SUBSET Names]
    BY StoreFields DEF Entry
  <2>2. QED
    BY <1>1, <1>2, <2>1
<1>6. Recording'
  BY <1>2, <1>5 DEF ExtInv, Recording, Installed, Named, Versions
<1>7. Apart'
  BY <1>2, <1>5 DEF ExtInv, Apart, Free, Installed
<1>8. Sound'
  <2> SUFFICES ASSUME NEW e \in Exts, e \notin cut'
               PROVE  InPlace(e)' /\ HooksAre(hooks[e], e, reg[e].ver, reg[e].enabled)' /\ Written(e)'
    BY DEF Sound, AtRest
  <2>1. InPlace(e) /\ HooksAre(hooks[e], e, reg[e].ver, reg[e].enabled) /\ Written(e)
    BY <1>1, <1>2, ExtensionAssumption DEF ExtInv, Sound, AtRest
  <2>2. InPlace(e)' /\ HooksAre(hooks[e], e, reg[e].ver, reg[e].enabled)'
    BY <1>3, <1>5, <2>1 DEF InPlace, Installed, HooksAre
  <2>3. ASSUME NEW b \in Agents, NEW n \in reg'[e].cmds[b]
        PROVE  files'[b][n] = FileOf(e, reg'[e].ver) \/ \E g \in cut' : Named(g, n)
    <3>1. /\ n \in reg[e].cmds[b] /\ n \in Names /\ ~(e \in done /\ b = a)
          /\ files[b][n] = FileOf(e, reg'[e].ver) \/ \E g \in cut : Named(g, n)
      BY <1>5, <2>1, <2>3 DEF Written, Excused
    <3>2. CASE files'[b][n] = files[b][n]
      BY <1>2, <3>1, <3>2
    <3>3. CASE files'[b][n] # files[b][n]
      <4>1. b = a /\ e \notin part
        BY <1>2, <1>4, <2>3, <3>1, <3>3
      <4>2. PICK g \in part : n \in reg[g].cmds[a] /\ g # e
        BY <1>4, <3>1, <3>3, <4>1
      <4>3. Installed(g) /\ Named(g, n) /\ (g \notin cut => n \in Declared(g, reg[g].ver))
        BY <1>1, <4>2 DEF ExtInv, Recording
      <4>4. Installed(e) /\ n \in Declared(e, reg[e].ver)
        BY <1>2, <3>1 DEF ExtInv, Recording
      <4>5. g \in cut
        BY <1>2, <3>1, <4>2, <4>3, <4>4 DEF ExtInv, Apart, Free
      <4>6. QED
        BY <1>2, <4>3, <4>5
    <3>4. QED
      BY <3>2, <3>3
  <2>4. Written(e)'
    BY <2>3 DEF Written, Excused, Named, Versions, FileOf
  <2>5. QED
    BY <2>2, <2>4
<1>9. QED
  BY <1>1, <1>6, <1>7, <1>8, NoneRuns

LEMMA RegisterArtifactsKeeps ==
    ASSUME TypeInv, ExtInv, RegisterArtifacts
    PROVE  ExtInv'
<1> DEFINE a == arg[2]
<1>1. job.ext = None /\ StillMoving /\ a \in Agents /\ files' \in Files
  BY MoveTurn, RegisterArtifactsTypes, Registering DEF RegisterArtifacts, In, MoveNames
<1>2. PICK written \in SUBSET Exts, entered \in SUBSET Exts, names \in [Exts -> SUBSET Names] :
         Registered(a, written, entered, names)
  BY Registering
<1>3. UNCHANGED <<dir, listed, hooks, cut>>
  BY DEF RegisterArtifacts
<1> HIDE DEF a
<1>4. /\ \A e \in Exts : reg'[e].ver = reg[e].ver /\ reg'[e].enabled = reg[e].enabled
      /\ \A e \in Exts : \A b \in Agents : \A n \in reg'[e].cmds[b] :
            n \in Names /\ (n \in reg[e].cmds[b] \/ (b = a /\ e \in entered /\ n \in names[e]))
  <2>1. \A e \in Exts : reg[e].cmds \in [Agents -> SUBSET Names]
    BY StoreFields DEF Entry
  <2>2. \A e \in Exts \ entered : reg'[e] = reg[e]
    BY <1>2 DEF Registered
  <2>3. ASSUME NEW e \in entered
        PROVE  /\ reg'[e].ver = reg[e].ver /\ reg'[e].enabled = reg[e].enabled
               /\ \A b \in Agents : \A n \in reg'[e].cmds[b] :
                     n \in Names /\ (n \in reg[e].cmds[b] \/ (b = a /\ n \in names[e]))
    <3>1. /\ reg'[e].ver = reg[e].ver /\ reg'[e].enabled = reg[e].enabled
          /\ reg'[e].cmds = reg[e].cmds \/ reg'[e].cmds = [reg[e].cmds EXCEPT ![a] = names[e]]
      BY <1>2, <2>3 DEF Registered
    <3>2. reg[e].cmds \in [Agents -> SUBSET Names] /\ names[e] \in SUBSET Names
      BY <1>2, <2>1, <2>3
    <3>3. QED
      BY <1>1, <3>1, <3>2
  <2>4. QED
    BY <2>1, <2>2, <2>3
<1>5. \A e \in Exts \ cut : InPlace(e) /\ HooksAre(hooks[e], e, reg[e].ver, reg[e].enabled) /\ Written(e)
  BY <1>1, ExtensionAssumption DEF ExtInv, Sound, AtRest
<1>6. \A e \in written : \A n \in names[e] :
         Installed(e) /\ Named(e, n) /\ n \in Declared(e, dir[e].ver) /\ (e \notin cut => dir[e].ver = reg[e].ver)
  <2>1. \A e \in written : Loads(e) /\ (names[e] = {} \/ names[e] = Declared(e, dir[e].ver))
    BY <1>2 DEF Registered
  <2>2. \A e \in written : dir[e].ver \in Versions(e)
    BY <2>1 DEF Loads, TypeInv, GenuineStore
  <2>3. QED
    BY <1>5, <2>1, <2>2 DEF Loads, Named, InPlace
<1>7. entered \subseteq written
  BY <1>2 DEF Registered
<1>8. \A e \in Exts : \A b \in Agents : \A n \in reg'[e].cmds[b] :
         Installed(e) /\ Named(e, n) /\ (e \notin cut => n \in Declared(e, reg[e].ver))
  BY <1>4, <1>6, <1>7 DEF ExtInv, Recording
<1>9. Recording'
  BY <1>3, <1>4, <1>8 DEF Recording, Installed, Named, Versions
<1>10. Apart'
  BY <1>3, <1>4 DEF ExtInv, Apart, Free, Installed
<1>11. Sound'
  <2> SUFFICES ASSUME NEW e \in Exts, e \notin cut
               PROVE  InPlace(e)' /\ HooksAre(hooks[e], e, reg[e].ver, reg[e].enabled)' /\ Written(e)'
    BY <1>3 DEF Sound, AtRest
  <2>1. InPlace(e) /\ HooksAre(hooks[e], e, reg[e].ver, reg[e].enabled) /\ Written(e)
    BY <1>5
  <2>2. InPlace(e)' /\ HooksAre(hooks[e], e, reg[e].ver, reg[e].enabled)'
    BY <1>3, <1>4, <2>1 DEF InPlace, Installed, HooksAre
  <2>3. ASSUME NEW b \in Agents, NEW n \in reg'[e].cmds[b]
        PROVE  files'[b][n] = FileOf(e, reg'[e].ver) \/ \E g \in cut : Named(g, n)
    <3>1. n \in Names /\ Installed(e) /\ n \in Declared(e, reg[e].ver)
          /\ (n \in reg[e].cmds[b] \/ (b = a /\ e \in entered /\ n \in names[e]))
      BY <1>4, <1>8, <2>3
    <3>2. CASE files'[b][n] = files[b][n] /\ ~(b = a /\ e \in entered /\ n \in names[e])
      BY <1>4, <2>1, <3>1, <3>2 DEF Written, Excused
    <3>3. CASE b = a /\ \E g \in written : n \in names[g] /\ files'[a][n] = FileOf(g, dir[g].ver)
      <4>1. PICK g \in written : n \in names[g] /\ files'[a][n] = FileOf(g, dir[g].ver)
        BY <3>3
      <4>2. Installed(g) /\ Named(g, n) /\ n \in Declared(g, dir[g].ver) /\ (g \notin cut => dir[g].ver = reg[g].ver)
        BY <1>6, <4>1
      <4>3. CASE g = e
        BY <1>4, <3>3, <4>1, <4>2, <4>3
      <4>4. CASE g # e /\ g \notin cut
        BY <3>1, <4>1, <4>2, <4>4 DEF ExtInv, Apart, Free
      <4>5. CASE g \in cut
        BY <4>2, <4>5
      <4>6. QED
        BY <4>3, <4>4, <4>5
    <3>4. \/ files'[b][n] = files[b][n] /\ ~(b = a /\ e \in entered /\ n \in names[e])
          \/ b = a /\ \E g \in written : n \in names[g] /\ files'[a][n] = FileOf(g, dir[g].ver)
      BY <1>2, <1>7, <3>1 DEF Registered
    <3>5. QED
      BY <3>2, <3>3, <3>4
  <2>4. Written(e)'
    BY <1>3, <2>3 DEF Written, Excused, Named, Versions, FileOf
  <2>5. QED
    BY <2>2, <2>4
<1>12. QED
  BY <1>1, <1>9, <1>10, <1>11, NoneRuns

LEMMA MoveStepKeeps ==
    ASSUME TypeInv, ExtInv, MoveStep
    PROVE  ExtInv'
<1>1. CASE Infra \/ Setup \/ Teardown \/ Stale \/ WriteJson \/ Options
  <2>1. UNCHANGED <<extVars, cut>> /\ job.ext = None
    BY <1>1, MoveTurn DEF Infra, Setup, Teardown, Stale, WriteJson, Options, In, MoveNames
  <2>2. StillMoving
    BY <1>1, InfraTypes, SetupTypes, TeardownTypes, StaleTypes, WriteJsonTypes, OptionsTypes
  <2>3. QED
    BY <2>1, <2>2, Untouched
<1>2. QED
  BY <1>1, UnregisterArtifactsKeeps, RegisterArtifactsKeeps DEF MoveStep

LEMMA MoveKeeps ==
    ASSUME TypeInv, ExtInv, Move
    PROVE  ExtInv'
<1>1. job = NoJob /\ job' \in MoveJob
  BY InstallTypes, UninstallTypes, UseTypes, UpgradeTypes, SwitchTypes DEF Move
<1>2. UNCHANGED <<extVars, cut>>
  BY DEF Move, Install, Uninstall, Use, Upgrade, Switch, BeginMove
<1>3. QED
  BY <1>1, <1>2, NoJobIs, Untouched DEF StillMoving

LEMMA EditKeeps ==
    ASSUME TypeInv, ExtInv, Edit
    PROVE  ExtInv'
<1>1. job = NoJob /\ job' = NoJob /\ UNCHANGED <<extVars, cut>>
  BY EditTypes DEF Edit
<1>2. QED
  BY <1>1, NoJobIs, Untouched DEF StillMoving

LEMMA ExtInvKept ==
    ASSUME TypeInv, ExtInv, [Next]_vars
    PROVE  ExtInv'
<1>1. CASE Command /\ UNCHANGED integVars
  BY <1>1, CommandKeeps
<1>2. CASE ExtStep /\ UNCHANGED integVars
  BY <1>2, TypesKept, ExtStepKeeps
<1>3. CASE Move
  BY <1>3, MoveKeeps
<1>4. CASE MoveStep
  BY <1>4, MoveStepKeeps
<1>5. CASE Edit
  BY <1>5, EditKeeps
<1>6. CASE UNCHANGED vars
  <2>1. UNCHANGED <<reg, dir, saved, stash, files, listed, hooks, job, todo, cut>>
    BY <1>6 DEF vars, extVars
  <2> USE <2>1 DEF ExtInv, e0, At, HooksAre, Written, Excused, Named, Versions, FileOf, Free, Installed, InPlace
  <2>2. Sound' /\ Recording'
    BY DEF Sound, Recording, AtRest
  <2>3. JobRecording' /\ Apart' /\ OthersListed'
    BY DEF JobRecording, Apart, OthersListed
  <2>4. ConfigKept'
    BY DEF ConfigKept
  <2>5. ASSUME job.op \in ExtOps, e0 \notin cut
        PROVE  NamesFree' /\ Installing' /\ Entered'
    BY <2>5 DEF Underway, NamesFree, Installing, Entered, Writing
  <2>6. ASSUME job.op \in ExtOps, e0 \notin cut
        PROVE  Hooked'
    BY <2>6 DEF Underway, Hooked
  <2>7. ASSUME job.op \in ExtOps, e0 \notin cut
        PROVE  Remembered' /\ Undoing'
    BY <2>7 DEF Underway, Remembered, Undoing
  <2>8. Underway'
    BY <2>5, <2>6, <2>7 DEF Underway
  <2>9. QED
    BY <2>2, <2>3, <2>4, <2>8
<1>7. QED
  BY <1>1, <1>2, <1>3, <1>4, <1>5, <1>6 DEF Next

LEMMA InitExtInv == Init => ExtInv
<1> SUFFICES ASSUME Init PROVE ExtInv
  OBVIOUS
<1>1. /\ \A e \in Exts : reg[e] = NoEntry /\ hooks[e] = NoHooks
      /\ job = NoJob
  BY DEF Init, ExtInit
<1>2. NoEntry.ver = 0 /\ NoEntry.enabled = FALSE /\ \A a \in Agents : NoEntry.cmds[a] = {}
  BY DEF NoEntry
<1>3. Sound /\ Recording /\ Apart
  BY <1>1, <1>2 DEF Sound, Recording, Apart, InPlace, Installed, Written, HooksAre, NoHooks
<1>4. JobRecording /\ OthersListed /\ Underway /\ ConfigKept
  BY <1>1, NoJobIs DEF JobRecording, OthersListed, Underway, ConfigKept, ExtOps
<1>5. QED
  BY <1>3, <1>4 DEF ExtInv

LEMMA Invariant == Spec => [](TypeInv /\ ExtInv)
<1>1. Init => TypeInv /\ ExtInv
  BY InitTypes, InitExtInv
<1>2. TypeInv /\ ExtInv /\ [Next]_vars => (TypeInv /\ ExtInv)'
  BY TypesKept, ExtInvKept
<1>3. QED
  BY <1>1, <1>2, PTL DEF Spec

-----------------------------------------------------------------------------
(* The extensions between two commands, and after a rollback *)

\* Between two commands every extension that was not cut short is at rest.
LEMMA RestingWhenIdle ==
    ASSUME TypeInv, ExtInv, Idle, NEW e \in Exts \ cut
    PROVE  InPlace(e) /\ HooksAre(hooks[e], e, reg[e].ver, reg[e].enabled) /\ Written(e)
<1>1. job = NoJob
  <2>1. \A t : ExtPlan(job, t) => t # <<>>
    BY Advance
  <2>2. QED
    BY <2>1 DEF TypeInv, Running, Idle
<1>2. QED
  BY <1>1, NoJobIs, ExtensionAssumption DEF ExtInv, Sound, AtRest

\* Between two commands an extension's hooks are those of its registered
\* version, and on exactly if it is enabled, however many installs, updates,
\* rollbacks and switches there were (extension_enable, extension_disable,
\* extension_update, HookExecutor.register_hooks).
THEOREM HooksFollow == Spec => []HooksFollowEntry
<1>1. ASSUME TypeInv, ExtInv
      PROVE  HooksFollowEntry
  <2> SUFFICES ASSUME Idle, NEW e \in Exts \ cut, NEW h \in Events
               PROVE  hooks[e][h] = IF Installed(e) /\ h \in Declares[e][reg[e].ver].hooks
                                      THEN IF reg[e].enabled THEN "on" ELSE "off"
                                      ELSE "none"
    BY DEF HooksFollowEntry
  <2>1. HooksAre(hooks[e], e, reg[e].ver, reg[e].enabled)
    BY <1>1, RestingWhenIdle
  <2>2. QED
    BY <2>1 DEF HooksAre, Installed
<1>2. QED
  BY <1>1, Invariant, PTL

\* Between two commands the command files the registry records for an
\* extension are that extension's, at the registered version, whatever was
\* done or interrupted on the others (CommandRegistrar, the conflict check of
\* install_from_directory).
THEOREM FilesRecorded == Spec => []FilesAsRecorded
<1>1. ASSUME TypeInv, ExtInv
      PROVE  FilesAsRecorded
  <2> SUFFICES ASSUME Idle, NEW e \in Exts \ cut, NEW a \in Agents, NEW n \in reg[e].cmds[a]
               PROVE  \/ files[a][n] = FileOf(e, reg[e].ver)
                      \/ \E f \in cut : \E v \in DOMAIN Declares[f] : n \in Declared(f, v)
    BY DEF FilesAsRecorded
  <2>1. Written(e)
    BY <1>1, RestingWhenIdle
  <2>2. QED
    BY <2>1 DEF Written, Excused, Named, Versions
<1>2. QED
  BY <1>1, Invariant, PTL

\* A rollback of extension_update that nothing cut short has put back the
\* entry, the directory, the recorded files, the hooks and the list.
THEOREM RollbackRestores == Spec => []RolledBack
<1>1. ASSUME TypeInv, ExtInv
      PROVE  RolledBack
  <2> SUFFICES ASSUME todo # <<>>, Head(todo)[1] = "clean", job.rolled, e0 \notin cut
               PROVE  /\ reg[e0] = job.entry
                      /\ dir[e0] = job.dir
                      /\ \A a \in Agents : \A n \in reg[e0].cmds[a] :
                            \/ files[a][n] = job.files[a][n]
                            \/ job.files[a][n] = NoFile /\ files[a][n] = FileOf(e0, job.ver)
                      /\ e0 \in listed
                      /\ \A h \in Events : h \in Declares[e0][job.entry.ver].hooks <=> hooks[e0][h] # "none"
    BY DEF RolledBack, In
  <2>1. "clean" \in ExtStepNames
    BY DEF ExtStepNames
  <2>2. job \in ExtJob /\ e0 \in Exts /\ Remembered /\ Undoing /\ job.op = "update"
    BY <1>1, <2>1, Turn, StepOf
  <2>3. /\ reg[e0] = job.entry /\ dir[e0] = job.dir /\ hooks[e0] = job.hooks /\ e0 \in listed
        /\ \A a \in Agents : \A n \in Names : job.files[a][n] # NoFile => files[a][n] = job.files[a][n]
    BY <2>2 DEF Undoing, At
  <2>4. /\ HooksAre(job.hooks, e0, job.entry.ver, job.entry.enabled)
        /\ \A a \in Agents : \A n \in job.entry.cmds[a] :
              job.files[a][n] = NoFile => files[a][n] \in {NoFile, FileOf(e0, job.ver)}
    BY <2>2 DEF Remembered, At
  <2>5. \A a \in Agents : \A n \in reg[e0].cmds[a] : n \in Names
    BY <1>1, <2>2, StoreFields DEF Entry
  <2>6. job.entry.ver # 0
    BY <1>1, <2>2, ExtensionAssumption DEF TypeInv, GenuineJob, Versions
  <2>7. \A h \in Events : h \in Declares[e0][job.entry.ver].hooks <=> hooks[e0][h] # "none"
    BY <2>3, <2>4, <2>6 DEF HooksAre
  <2>8. QED
    BY <2>3, <2>4, <2>5, <2>7
<1>2. QED
  BY <1>1, Invariant, PTL

-----------------------------------------------------------------------------
(* The configuration of an extension *)

\* Only stashing and the end of an update touch the backup of the update, and
\* neither touches the directory.
LEMMA Backup ==
    ASSUME ExtStep
    PROVE  \/ In("stash") /\ dir' = dir
           \/ In("clean") /\ dir' = dir
           \/ stash' = stash
BY DEF ExtStep, Copy, Register, RegisterSkills, RegisterHooks, Unsave, Enter, ClearSaved, Unregister,
       UnregisterSkills, Strip, Delete, UnregisterHooks, Drop, Stash, Check, RestoreConfig, RestoreMetadata,
       SetHooks, Clean, UndoDir, UndoNew, RestoreFiles, RestoreHooks, RestoreEntry, extVars

\* What a step does to the directories and the saved configurations.
LEMMA Places ==
    ASSUME TypeInv, ExtStep
    PROVE  \/ dir' = dir /\ saved' = saved
           \/ In("clear") /\ dir' = dir
           \/ In("delete") /\ (dir[e0].cfg => e0 \in saved')
           \/ todo # <<>> /\ Head(todo)[1] \in {"copy", "strip", "undir", "recfg"} /\ saved' = saved
           \/ In("unsave") /\ (e0 \in saved => e0 \in saved' \/ dir' = [dir EXCEPT ![e0].cfg = TRUE])
<1>1. CASE Copy \/ Strip \/ UndoDir \/ RestoreConfig
  BY <1>1 DEF Copy, Strip, UndoDir, RestoreConfig, In
<1>2. CASE ClearSaved
  BY <1>2 DEF ClearSaved
<1>3. CASE Delete
  BY <1>3 DEF Delete
<1>4. CASE Unsave
  BY <1>4 DEF Unsave
<1>5. CASE ~(Copy \/ Strip \/ UndoDir \/ RestoreConfig \/ ClearSaved \/ Delete \/ Unsave)
  BY <1>5 DEF ExtStep, Register, RegisterSkills, RegisterHooks, Enter, Unregister, UnregisterSkills, UnregisterHooks,
              Drop, Stash, Check, RestoreMetadata, SetHooks, Clean, UndoNew, RestoreFiles, RestoreHooks,
              RestoreEntry, extVars
<1>6. QED
  BY <1>1, <1>2, <1>3, <1>4, <1>5

\* Every step of a command is one of the known steps.
LEMMA Known ==
    ASSUME ExtStep
    PROVE  todo # <<>> /\ Head(todo)[1] \in ExtStepNames
BY DEF ExtStep, Copy, Register, RegisterSkills, RegisterHooks, Unsave, Enter, ClearSaved, Unregister,
       UnregisterSkills, Strip, Delete, UnregisterHooks, Drop, Stash, Check, RestoreConfig, RestoreMetadata,
       SetHooks, Clean, UndoDir, UndoNew, RestoreFiles, RestoreHooks, RestoreEntry, In, ExtStepNames,
       InstallSteps, RemovalSteps, UndoSteps

\* In a forced reinstall the configuration moves to the saved ones before the
\* directory goes, and back before it is no longer saved.
LEMMA Reinstalled ==
    ASSUME TypeInv, ExtInv, ExtStep, job.op = "readd", job.dir.cfg
    PROVE  dir'[e0].cfg \/ e0 \in saved'
<1> DEFINE s == Head(todo)[1]
<1>1. /\ todo # <<>> /\ s \in ExtStepNames /\ e0 \in Exts /\ job \in ExtJob /\ ExtPlan(job, todo)
      /\ s \notin UndoSteps \cup {"strip", "recfg"}
  BY Known, StepOf
<1>2. s \in StepsOf(job)
  BY <1>1, Advance
<1>3. /\ s \in {"clear", "unregister", "unskill", "delete", "enter"} => dir[e0].cfg
      /\ s \in {"unhook", "drop", "copy", "register", "skills", "hook", "unsave"} => e0 \in saved
  BY <1>1 DEF ExtInv, ConfigKept, At
<1>4. dir[e0].cfg \/ e0 \in saved
  BY <1>2, <1>3 DEF StepsOf, RemovalSteps, InstallSteps
<1>5. CASE dir' = dir /\ saved' = saved
  BY <1>4, <1>5
<1>6. CASE In("clear") /\ dir' = dir
  BY <1>3, <1>6 DEF In
<1>7. CASE In("delete") /\ (dir[e0].cfg => e0 \in saved')
  BY <1>3, <1>7 DEF In
<1>8. CASE s \in {"copy", "strip", "undir", "recfg"} /\ saved' = saved
  BY <1>1, <1>3, <1>8 DEF UndoSteps
<1>9. CASE In("unsave") /\ (e0 \in saved => e0 \in saved' \/ dir' = [dir EXCEPT ![e0].cfg = TRUE])
  BY <1>1, <1>3, <1>9, StoreFields DEF In, Dir
<1>10. QED
  BY <1>5, <1>6, <1>7, <1>8, <1>9, Places

\* In an update it is in the backup from the stash on, and in the directory
\* again when the backup is deleted.
LEMMA Updated ==
    ASSUME TypeInv, ExtInv, ExtStep, job.op = "update", job.dir.cfg, e0 \notin cut
    PROVE  dir'[e0].cfg \/ stash'[e0].cfg
<1>1. /\ todo # <<>> /\ Remembered
      /\ ~At({"stash"}) => stash[e0].cfg
      /\ At({"remeta", "hush", "clean"}) => dir[e0].cfg
  BY Known, Turn DEF ExtInv, ConfigKept
<1>2. At({"stash"}) => dir[e0].cfg
  BY <1>1 DEF Remembered
<1>3. CASE In("stash") /\ dir' = dir
  BY <1>2, <1>3 DEF At, In
<1>4. CASE In("clean") /\ dir' = dir
  BY <1>1, <1>4 DEF At, In
<1>5. CASE stash' = stash /\ ~At({"stash"})
  BY <1>1, <1>5
<1>6. CASE stash' = stash /\ At({"stash"})
  <2>1. Stash \/ dir' = dir
    BY <1>6 DEF At, ExtStep, Copy, Register, RegisterSkills, RegisterHooks, Unsave, Enter, ClearSaved, Unregister,
       UnregisterSkills, Strip, Delete, UnregisterHooks, Drop, Check, RestoreConfig, RestoreMetadata,
       SetHooks, Clean, UndoDir, UndoNew, RestoreFiles, RestoreHooks, RestoreEntry, In
  <2>2. QED
    BY <1>2, <1>6, <2>1 DEF Stash
<1>7. QED
  BY <1>3, <1>4, <1>5, <1>6, Backup

\* The user's configuration outlives extension_update and extension_add
\* --force: wherever the command is stopped it is in the directory or in a
\* backup.
THEOREM ConfigSurvives == Spec => ConfigCarried
<1>1. ASSUME TypeInv, ExtInv, [Next]_vars, NEW e \in Exts, job.ext = e, job.dir.cfg,
             job.op = "readd" \/ (job.op = "update" /\ e \notin cut), ~UNCHANGED <<extVars, job, todo>>
      PROVE  HasConfig(e)'
  <2>1. job # NoJob /\ job \notin MoveJob /\ todo # <<>>
    <3>1. job # NoJob /\ job \notin MoveJob
      BY <1>1, NoJobIs, ExtensionAssumption DEF MoveJob
    <3>2. \A t : ExtPlan(job, t) => t # <<>>
      BY Advance
    <3>3. QED
      BY <1>1, <3>1, <3>2 DEF TypeInv, Running
  <2>2. ExtStep
    <3>1. ~Command /\ ~Move /\ ~Edit
      BY <2>1 DEF Command, Add, Remove, Update, Enable, Disable, Configure, Begin, Act, Idle, Edit,
                  Move, Install, Uninstall, Use, Upgrade, Switch, BeginMove
    <3>2. ~MoveStep
      <4> SUFFICES ASSUME MoveStep PROVE FALSE
        OBVIOUS
      <4>1. Head(todo)[1] \in MoveNames
        BY DEF MoveStep, Infra, Setup, Teardown, Stale, WriteJson, Options, UnregisterArtifacts, RegisterArtifacts, In, MoveNames
      <4>2. QED
        BY <1>1, <2>1, <4>1, MoveTurn
    <3>3. QED
      BY <1>1, <3>1, <3>2 DEF Next, vars
  <2>3. e0 = e
    BY <1>1 DEF e0
  <2>4. dir'[e].cfg \/ e \in saved' \/ stash'[e].cfg
    BY <1>1, <2>2, <2>3, Reinstalled, Updated
  <2>5. QED
    BY <2>4 DEF HasConfig
<1>2. TypeInv /\ ExtInv /\ [Next]_vars =>
        [\A e \in Exts :
           (/\ job.ext = e /\ job.dir.cfg
            /\ job.op = "readd" \/ (job.op = "update" /\ e \notin cut))
           => HasConfig(e)']_<<extVars, job, todo>>
  BY <1>1
<1>3. QED
  BY <1>2, Invariant, PTL DEF Spec, ConfigCarried

-----------------------------------------------------------------------------
(* What an integration command makes of the project *)

Keys(t) == {t[i] : i \in 1..Len(t)}

Once(t) == \A i, k \in 1..Len(t) : t[i] = t[k] => i = k

\* Which integrations have a manifest, and from which an upgrade has taken it.
Records == [kept: SUBSET Agents, bare: SUBSET Agents]

Record == [kept |-> manifests, bare |-> stripped]

Saves(r, a) == [kept |-> r.kept \cup {a}, bare |-> r.bare \ {a}]

Loses(r, a) == [kept |-> r.kept \ {a}, bare |-> r.bare]

Strips(r, a) == [kept |-> r.kept \ {a}, bare |-> r.bare \cup {a}]

\* The integrations listed in keys have their manifests, or an upgrade took them.
Fits(r, keys) == r.kept \subseteq Keys(keys) /\ Keys(keys) \subseteq r.kept \cup r.bare

\* Of the others than a, r and q say the same.
SameBut(r, q, a) == r.kept \ {a} = q.kept \ {a} /\ r.bare \ {a} = q.bare \ {a}

LEMMA RecordsAre ==
    ASSUME NEW r \in Records, NEW a \in Agents
    PROVE  Saves(r, a) \in Records /\ Loses(r, a) \in Records /\ Strips(r, a) \in Records
BY DEF Records, Saves, Loses, Strips

LEMMA SavedFits ==
    ASSUME NEW r, NEW keys, NEW more, NEW a, Fits(r, keys), Keys(more) = Keys(keys) \cup {a}
    PROVE  Fits(Saves(r, a), more)
BY DEF Fits, Saves

LEMMA LostFits ==
    ASSUME NEW r, NEW keys, NEW rest, NEW a, Fits(r, keys), Keys(rest) = Keys(keys) \ {a}
    PROVE  Fits(Loses(r, a), rest)
BY DEF Fits, Loses

LEMMA StrippedFits ==
    ASSUME NEW r, NEW keys, NEW a, Fits(r, keys)
    PROVE  Fits(Strips(r, a), keys)
BY DEF Fits, Strips

\* What is not installed is taken back without loss.
LEMMA TakenBackFits ==
    ASSUME NEW r, NEW q, NEW keys, NEW a, Fits(q, keys), a \notin Keys(keys), SameBut(r, q, a)
    PROVE  Fits(Loses(r, a), keys)
BY DEF Fits, Loses, SameBut

LEMMA SavedSame ==
    ASSUME NEW r \in Records, NEW a
    PROVE  SameBut(Saves(r, a), r, a) /\ SameBut(r, r, a)
BY DEF Records, Saves, SameBut

\* What the integrations leave on record, the agents whose command files are
\* the user's, and whether exceptions are caught.
Mark == [active: Agents \cup {None}, default: Agents \cup {None}, keys: Seq(Agents), manifests: Records,
         theirs: SUBSET Agents, caught: BOOLEAN]

Theirs == {a \in Agents : core[a] = User}

Now == [active |-> active, default |-> integ.default, keys |-> integ.installed, manifests |-> Record,
        theirs |-> Theirs, caught |-> job.op = "move" /\ job.caught]

\* What step m, if nothing goes wrong, makes of s.
Effect(m, s) ==
    CASE m[1] = "setup" -> [s EXCEPT !.manifests = Saves(@, m[2]), !.theirs = @ \ {m[2]}, !.caught = TRUE]
      [] m[1] = "teardown" -> [s EXCEPT !.manifests = Loses(@, m[2]), !.theirs = IF m[3] THEN @ \ {m[2]} ELSE @]
      [] m[1] = "stale" -> [s EXCEPT !.manifests = Strips(@, m[2])]
      [] m[1] = "json" -> [s EXCEPT !.default = m[2], !.keys = m[3]]
      [] m[1] = "options" -> [s EXCEPT !.active = m[2]]
      [] m[1] = "forget" -> [s EXCEPT !.active = IF @ = m[2] THEN None ELSE @]
      [] OTHER -> s

\* The steps t lead from s to z, each of them done in a state in which W lets it.
Lead(t, s, z, W) ==
    \E p \in [1..(Len(t) + 1) -> Mark] :
        /\ p[1] = s /\ p[Len(t) + 1] = z
        /\ \A i \in 1..Len(t) : <<t[i], p[i]>> \in W /\ p[i + 1] = Effect(t[i], p[i])

LEMMA EffectIs ==
    ASSUME NEW m \in MoveSteps, NEW s \in Mark
    PROVE  Effect(m, s) \in Mark
<1>1. CASE m[1] = "setup"
  BY <1>1, Arguments, RecordsAre DEF Effect, Mark
<1>2. CASE m[1] = "teardown"
  BY <1>2, Arguments, RecordsAre DEF Effect, Mark
<1>3. CASE m[1] = "json"
  BY <1>3, Arguments DEF Effect, Mark
<1>4. CASE m[1] = "options"
  BY <1>4, Arguments DEF Effect, Mark
<1>5. CASE m[1] = "forget"
  BY <1>5, Arguments DEF Effect, Mark
<1>6. CASE m[1] = "stale"
  BY <1>6, Arguments, RecordsAre DEF Effect, Mark
<1>7. CASE m[1] \notin {"setup", "teardown", "stale", "json", "options", "forget"}
  BY <1>7 DEF Effect
<1>8. QED
  BY <1>1, <1>2, <1>3, <1>4, <1>5, <1>6, <1>7

LEMMA LeadNone ==
    ASSUME NEW t, t = <<>>, NEW s \in Mark, NEW z \in Mark, NEW W
    PROVE  Lead(t, s, z, W) <=> s = z
<1> DEFINE p == [i \in 1..1 |-> s]
<1>1. Len(t) = 0
  OBVIOUS
<1>2. p \in [1..(Len(t) + 1) -> Mark] /\ p[1] = s
  BY <1>1
<1> HIDE DEF p
<1>3. s = z => Lead(t, s, z, W)
  <2>1. p[Len(t) + 1] = s /\ 1..Len(t) = {}
    BY <1>1, <1>2
  <2>2. QED
    BY <1>1, <1>2, <2>1 DEF Lead
<1>4. Lead(t, s, z, W) => s = z
  BY <1>1 DEF Lead
<1>5. QED
  BY <1>3, <1>4

LEMMA LeadOne ==
    ASSUME NEW m \in MoveSteps, NEW s \in Mark, NEW W, <<m, s>> \in W
    PROVE  Lead(<<m>>, s, Effect(m, s), W)
<1> DEFINE z == Effect(m, s)
           p == [i \in 1..2 |-> IF i = 1 THEN s ELSE z]
           t == <<m>>
<1>1. z \in Mark
  BY EffectIs
<1>2. Len(t) = 1 /\ t[1] = m
  OBVIOUS
<1>3. p \in [1..(Len(t) + 1) -> Mark] /\ p[1] = s /\ p[2] = z
  BY <1>1, <1>2
<1> HIDE DEF p, t
<1>4. /\ p[Len(t) + 1] = z
      /\ \A i \in 1..Len(t) : <<t[i], p[i]>> \in W /\ p[i + 1] = Effect(t[i], p[i])
  BY <1>2, <1>3
<1> HIDE DEF z
<1>5. Lead(t, s, z, W)
  BY <1>3, <1>4 DEF Lead
<1>6. QED
  BY <1>5 DEF t, z

LEMMA LeadJoin ==
    ASSUME NEW t \in Seq(MoveSteps), NEW u \in Seq(MoveSteps), NEW s, NEW y, NEW z, NEW W,
           Lead(t, s, y, W), Lead(u, y, z, W)
    PROVE  Lead(t \o u, s, z, W)
<1>1. PICK p \in [1..(Len(t) + 1) -> Mark] :
        /\ p[1] = s /\ p[Len(t) + 1] = y
        /\ \A i \in 1..Len(t) : <<t[i], p[i]>> \in W /\ p[i + 1] = Effect(t[i], p[i])
  BY DEF Lead
<1>2. PICK q \in [1..(Len(u) + 1) -> Mark] :
        /\ q[1] = y /\ q[Len(u) + 1] = z
        /\ \A i \in 1..Len(u) : <<u[i], q[i]>> \in W /\ q[i + 1] = Effect(u[i], q[i])
  BY DEF Lead
<1> DEFINE v == t \o u
           r == [i \in 1..(Len(v) + 1) |-> IF i <= Len(t) THEN p[i] ELSE q[i - Len(t)]]
<1>3. /\ Len(t) \in Nat /\ Len(u) \in Nat /\ Len(v) = Len(t) + Len(u)
      /\ \A i \in 1..(Len(t) + Len(u)) : v[i] = IF i <= Len(t) THEN t[i] ELSE u[i - Len(t)]
  BY ConcatProperties
<1> HIDE DEF v
<1>4. r \in [1..(Len(v) + 1) -> Mark]
  <2>1. ASSUME NEW i \in 1..(Len(v) + 1)
        PROVE  (IF i <= Len(t) THEN p[i] ELSE q[i - Len(t)]) \in Mark
    <3>1. CASE i <= Len(t)
      <4>1. i \in 1..(Len(t) + 1)
        BY <1>3, <3>1
      <4>2. QED
        BY <3>1, <4>1
    <3>2. CASE ~(i <= Len(t))
      <4>1. i - Len(t) \in 1..(Len(u) + 1)
        BY <1>3, <3>2
      <4>2. QED
        BY <3>2, <4>1
    <3>3. QED
      BY <3>1, <3>2
  <2>2. QED
    BY <2>1
<1>5. \A i \in 1..(Len(v) + 1) : r[i] = IF i <= Len(t) THEN p[i] ELSE q[i - Len(t)]
  OBVIOUS
<1> HIDE DEF r
<1>6. r[1] = s
  <2>1. CASE Len(t) = 0
    <3>1. 1 \in 1..(Len(v) + 1) /\ ~(1 <= Len(t)) /\ 1 - Len(t) = 1 /\ Len(t) + 1 = 1
      BY <1>3, <2>1
    <3>2. r[1] = q[1] /\ s = y
      BY <1>1, <1>5, <3>1
    <3>3. QED
      BY <1>2, <3>2
  <2>2. CASE Len(t) # 0
    BY <1>1, <1>3, <1>5, <2>2
  <2>3. QED
    BY <2>1, <2>2
<1>7. r[Len(v) + 1] = z
  <2>1. Len(v) + 1 \in 1..(Len(v) + 1) /\ ~(Len(v) + 1 <= Len(t)) /\ Len(v) + 1 - Len(t) = Len(u) + 1
    BY <1>3
  <2>2. QED
    BY <1>2, <1>5, <2>1
<1>8. ASSUME NEW i \in 1..Len(v)
      PROVE  <<v[i], r[i]>> \in W /\ r[i + 1] = Effect(v[i], r[i])
  <2>1. /\ v[i] = (IF i <= Len(t) THEN t[i] ELSE u[i - Len(t)])
        /\ r[i] = (IF i <= Len(t) THEN p[i] ELSE q[i - Len(t)])
        /\ r[i + 1] = (IF i + 1 <= Len(t) THEN p[i + 1] ELSE q[i + 1 - Len(t)])
    <3>1. i \in 1..(Len(t) + Len(u)) /\ i \in 1..(Len(v) + 1) /\ i + 1 \in 1..(Len(v) + 1)
      BY <1>3
    <3>2. v[i] = (IF i <= Len(t) THEN t[i] ELSE u[i - Len(t)])
      BY <1>3, <3>1
    <3>3. r[i] = (IF i <= Len(t) THEN p[i] ELSE q[i - Len(t)])
      BY <1>5, <3>1
    <3>4. r[i + 1] = (IF i + 1 <= Len(t) THEN p[i + 1] ELSE q[i + 1 - Len(t)])
      BY <1>5, <3>1
    <3>5. QED
      BY <3>2, <3>3, <3>4
  <2>2. CASE i + 1 <= Len(t)
    <3>1. i \in 1..Len(t) /\ i <= Len(t)
      BY <1>3, <2>2
    <3>2. v[i] = t[i] /\ r[i] = p[i] /\ r[i + 1] = p[i + 1]
      BY <2>1, <2>2, <3>1
    <3>3. QED
      BY <1>1, <3>1, <3>2
  <2>3. CASE i = Len(t)
    <3>1. i \in 1..Len(t) /\ i + 1 - Len(t) = 1 /\ ~(i + 1 <= Len(t))
      BY <1>3, <2>3
    <3>2. r[i + 1] = y /\ p[i + 1] = y
      BY <1>1, <1>2, <2>1, <2>3, <3>1
    <3>3. QED
      BY <1>1, <2>1, <3>1, <3>2
  <2>4. CASE i > Len(t)
    <3>1. i - Len(t) \in 1..Len(u) /\ i + 1 - Len(t) = (i - Len(t)) + 1 /\ ~(i <= Len(t)) /\ ~(i + 1 <= Len(t))
      BY <1>3, <2>4
    <3>2. v[i] = u[i - Len(t)] /\ r[i] = q[i - Len(t)] /\ r[i + 1] = q[(i - Len(t)) + 1]
      BY <2>1, <3>1
    <3>3. QED
      BY <1>2, <3>1, <3>2
  <2>5. QED
    BY <1>3, <2>2, <2>3, <2>4
<1>9. QED
  BY <1>4, <1>6, <1>7, <1>8 DEF Lead, v

LEMMA LeadOn ==
    ASSUME NEW t \in Seq(MoveSteps), t # <<>>, NEW s, NEW z, NEW W, Lead(t, s, z, W)
    PROVE  <<Head(t), s>> \in W /\ Lead(Tail(t), Effect(Head(t), s), z, W)
<1>1. PICK p \in [1..(Len(t) + 1) -> Mark] :
        /\ p[1] = s /\ p[Len(t) + 1] = z
        /\ \A i \in 1..Len(t) : <<t[i], p[i]>> \in W /\ p[i + 1] = Effect(t[i], p[i])
  BY DEF Lead
<1> DEFINE u == Tail(t)
           q == [i \in 1..(Len(u) + 1) |-> p[i + 1]]
<1>2. /\ Head(t) = t[1] /\ u \in Seq(MoveSteps) /\ Len(u) = Len(t) - 1 /\ Len(t) \in Nat \ {0}
      /\ \A i \in 1..(Len(t) - 1) : u[i] = t[i + 1]
  BY HeadAndTail
<1> HIDE DEF u
<1>3. q \in [1..(Len(u) + 1) -> Mark] /\ q[1] = p[2] /\ q[Len(u) + 1] = z
  BY <1>1, <1>2
<1>4. ASSUME NEW i \in 1..Len(u)
      PROVE  <<u[i], q[i]>> \in W /\ q[i + 1] = Effect(u[i], q[i])
  <2>1. i + 1 \in 1..Len(t) /\ u[i] = t[i + 1] /\ q[i] = p[i + 1] /\ q[i + 1] = p[(i + 1) + 1]
    BY <1>2
  <2> HIDE DEF q
  <2>2. QED
    BY <1>1, <2>1
<1> HIDE DEF q
<1>5. <<t[1], s>> \in W /\ p[2] = Effect(t[1], s)
  BY <1>1, <1>2
<1>6. QED
  BY <1>2, <1>3, <1>4, <1>5 DEF Lead, u

LEMMA LeadWider ==
    ASSUME NEW t, NEW s, NEW z, NEW V, NEW W, V \subseteq W, Lead(t, s, z, V)
    PROVE  Lead(t, s, z, W)
BY DEF Lead

-----------------------------------------------------------------------------
(* Where an integration command leads *)

\* One default, and manifests of those that are installed.
Good(s) ==
    /\ s.active = s.default /\ Fits(s.manifests, s.keys) /\ Once(s.keys)
    /\ IF s.keys = <<>> THEN s.default = None ELSE s.default \in Keys(s.keys)

\* Step m, done in s, spares what the user has changed, unless it is forced.
Spares(m, s, force) ==
    /\ m[1] = "infra" /\ m[4] => force
    /\ m[1] = "setup" \/ (m[1] = "teardown" /\ m[3]) => force \/ m[2] \notin s.theirs \/ m[2] \notin Keys(s.keys)

\* A rollback sets nothing up, and exceptions are no longer caught.
MayUndo(m, s, force) == Spares(m, s, force) /\ m[1] \notin {"setup", "artifacts", "stale"} /\ ~s.caught

Retreat(force) == {w \in MoveSteps \X Mark : MayUndo(w[1], w[2], force)}

\* The rollback u of a command that began well ends well when it begins in s.
Recovers(u, s, force, well) ==
    IF u = <<>> THEN well => Good(s)
    ELSE \E z \in Mark : Lead(u, [s EXCEPT !.caught = FALSE], z, Retreat(force)) /\ (well => Good(z))

\* In s the command that has u to roll it back may do step m, and may fail in it.
MayDo(m, s, u, force, well) ==
    /\ Spares(m, s, force)
    /\ m[1] = "teardown" => ~s.caught
    /\ m[1] \in {"artifacts", "stale"} /\ well => Good(s)
    /\ m[1] = "setup" => Recovers(u, s, force, well) /\ Recovers(u, [s EXCEPT !.theirs = @ \ {m[2]}], force, well)
    /\ s.caught /\ m[1] \notin {"setup", "artifacts"} => Recovers(u, s, force, well)

Course(u, force, well) == {w \in MoveSteps \X Mark : MayDo(w[1], w[2], u, force, well)}

Heading ==
    /\ noted.file.by = User => noted.recovered
    /\ job.op # "move" /\ ~broken => Good(Now)
    /\ job.op = "move" =>
          /\ \E z \in Mark : Lead(todo, Now, z, Course(job.undo, job.force, ~broken)) /\ (~broken => Good(z))
          /\ ~broken /\ ~job.done => Good(Now)

LEMMA NowIs == TypeInv => Now \in Mark
<1> SUFFICES ASSUME TypeInv PROVE Now \in Mark
  OBVIOUS
<1>1. active \in Agents \cup {None} /\ integ.default \in Agents \cup {None} /\ integ.installed \in Seq(Agents)
      /\ Record \in Records
  BY StoreFields, MoveFields DEF Record, Records
<1>2. (job.op = "move" /\ job.caught) \in BOOLEAN
  OBVIOUS
<1>3. Theirs \subseteq Agents
  BY DEF Theirs
<1>4. QED
  BY <1>1, <1>2, <1>3 DEF Now, Mark

LEMMA SameMark ==
    ASSUME NEW s \in Mark, NEW z \in Mark, s.active = z.active, s.default = z.default, s.keys = z.keys,
           s.manifests = z.manifests, s.theirs = z.theirs, s.caught = z.caught
    PROVE  s = z
BY DEF Mark

LEMMA SameGood ==
    ASSUME NEW s, NEW z, s.active = z.active, s.default = z.default, s.keys = z.keys, s.manifests = z.manifests, Good(s)
    PROVE  Good(z)
BY DEF Good

\* The command over, as it was or with its work half done.
LEMMA EndHeads ==
    ASSUME Heading, NEW s, ~broken' => Good(s),
           active' = s.active, integ'.default = s.default, integ'.installed = s.keys, Record' = s.manifests,
           job' = NoJob, noted'.file.by = User => noted'.recovered
    PROVE  Heading'
<1>1. job'.op = "none"
  BY NoJobIs
<1>2. /\ Now'.active = s.active /\ Now'.default = s.default /\ Now'.keys = s.keys /\ Now'.manifests = s.manifests
  BY DEF Now
<1>3. ~broken' => Good(Now')
  BY <1>2 DEF Good
<1>4. Good(Now') <=> Good(Now)'
  BY DEF Good, Fits, Keys, Once
<1>5. QED
  BY <1>1, <1>3, <1>4 DEF Heading

\* A step done.
LEMMA GoHeads ==
    ASSUME TypeInv, TypeInv', Heading, job \in MoveJob, todo \in Seq(MoveSteps), todo # <<>>,
           NEW j \in MoveJob, j.undo = job.undo, j.force = job.force, j.done, Pass(j),
           NEW s, s = Effect(arg, Now),
           active' = s.active, integ'.default = s.default, integ'.installed = s.keys, Record' = s.manifests,
           Theirs' = s.theirs, j.caught = s.caught,
           noted'.file.by = User => noted'.recovered
    PROVE  Heading'
<1>1. job.op = "move" /\ j.op = "move"
  BY DEF MoveJob
<1> DEFINE W == Course(job.undo, job.force, ~broken)
<1>2. PICK z \in Mark : Lead(todo, Now, z, W) /\ (~broken => Good(z))
  BY <1>1 DEF Heading
<1> HIDE DEF W
<1>3. Lead(Tail(todo), s, z, W)
  BY <1>2, LeadOn DEF arg
<1>4. s \in Mark
  BY HeadAndTail, NowIs, EffectIs DEF arg
<1>5. todo' = Tail(todo) /\ broken' = broken /\ job' = IF Len(todo) = 1 THEN NoJob ELSE j
  BY DEF Pass
<1>6. CASE Len(todo) = 1
  <2>1. Tail(todo) = <<>>
    BY <1>6, HeadAndTail
  <2>2. s = z
    BY <1>3, <1>4, <2>1, LeadNone
  <2>3. ~broken' => Good(s)
    BY <1>2, <1>5, <2>2
  <2>4. job' = NoJob
    BY <1>5, <1>6
  <2>5. QED
    BY <2>3, <2>4, EndHeads
<1>7. CASE Len(todo) # 1
  <2>1. job' = j
    BY <1>5, <1>7
  <2>2. Now' = s
    <3>1. (Now \in Mark)'
      BY NowIs, PTL
    <3>2. /\ Now'.active = s.active /\ Now'.default = s.default /\ Now'.keys = s.keys
          /\ Now'.manifests = s.manifests /\ Now'.theirs = s.theirs /\ Now'.caught = s.caught
      BY <1>1, <2>1 DEF Now, MoveJob
    <3>3. QED
      BY <1>4, <3>1, <3>2, SameMark DEF Mark
  <2>3. Lead(todo', Now', z, Course(job'.undo, job'.force, ~broken'))
    BY <1>3, <1>5, <2>1, <2>2 DEF W
  <2>4. ~broken' => Good(z)
    BY <1>2, <1>5
  <2>5. QED
    BY <1>1, <2>1, <2>3, <2>4 DEF Heading
<1>8. QED
  BY <1>6, <1>7

\* The rollback begins.
LEMMA BackHeads ==
    ASSUME TypeInv, TypeInv', job \in MoveJob, job.undo # <<>>, todo' = job.undo, broken' = broken,
           job' = [job EXCEPT !.caught = FALSE, !.undo = <<>>, !.done = TRUE],
           NEW s \in Mark, Recovers(job.undo, s, job.force, ~broken),
           active' = s.active, integ'.default = s.default, integ'.installed = s.keys, Record' = s.manifests,
           Theirs' = s.theirs,
           noted'.file.by = User => noted'.recovered
    PROVE  Heading'
<1> DEFINE r == [s EXCEPT !.caught = FALSE]
<1>1. PICK z \in Mark : Lead(job.undo, r, z, Retreat(job.force)) /\ (~broken => Good(z))
  BY DEF Recovers
<1>2. job'.op = "move" /\ job'.caught = FALSE /\ job'.undo = <<>> /\ job'.done = TRUE /\ job'.force = job.force
  BY DEF MoveJob
<1>3. Retreat(job.force) \subseteq Course(<<>>, job.force, ~broken)
  BY DEF Retreat, Course, MayUndo, MayDo
<1>4. r \in Mark /\ r.active = s.active /\ r.default = s.default /\ r.keys = s.keys /\ r.manifests = s.manifests
      /\ r.theirs = s.theirs /\ r.caught = FALSE
  BY DEF Mark
<1> HIDE DEF r
<1>5. (Now \in Mark)'
  BY NowIs, PTL
<1>6. /\ Now'.active = r.active /\ Now'.default = r.default /\ Now'.keys = r.keys /\ Now'.manifests = r.manifests
      /\ Now'.theirs = r.theirs /\ Now'.caught = r.caught
  BY <1>2, <1>4 DEF Now
<1>7. Now' = r
  <2>1. Now' \in Mark
    BY <1>5 DEF Mark
  <2>2. QED
    BY <1>4, <1>6, <2>1, SameMark
<1>8. Lead(job.undo, r, z, Course(<<>>, job.force, ~broken))
  BY <1>1, <1>3, LeadWider
<1>9. Lead(todo', Now', z, Course(job'.undo, job'.force, ~broken'))
  BY <1>2, <1>7, <1>8
<1>10. QED
  BY <1>1, <1>2, <1>9 DEF Heading

\* What the invariant allows the next step.
LEMMA MayTake ==
    ASSUME TypeInv, Heading, todo # <<>>, Head(todo)[1] \in MoveNames
    PROVE  /\ job \in MoveJob /\ todo \in Seq(MoveSteps) /\ arg \in MoveSteps /\ Now \in Mark
           /\ MayDo(arg, Now, job.undo, job.force, ~broken)
           /\ Now.caught = job.caught
           /\ ~broken /\ ~job.done => Good(Now)
<1>1. job \in MoveJob /\ job.op = "move" /\ todo \in Seq(MoveSteps) /\ arg \in MoveSteps
  BY MoveTurn
<1>2. PICK z \in Mark : Lead(todo, Now, z, Course(job.undo, job.force, ~broken))
  BY <1>1 DEF Heading
<1>3. <<arg, Now>> \in Course(job.undo, job.force, ~broken)
  BY <1>1, <1>2, LeadOn DEF arg
<1>4. MayDo(arg, Now, job.undo, job.force, ~broken)
  BY <1>3 DEF Course
<1>5. Now.caught = job.caught
  BY <1>1, MoveJobs DEF Now
<1>6. QED
  BY <1>1, <1>4, <1>5, NowIs DEF Heading

\* A step that leaves the marks as they are throws, or the process is killed.
LEMMA FailHeads ==
    ASSUME TypeInv, TypeInv', Heading, todo # <<>>, Head(todo)[1] \in MoveNames \ {"setup", "artifacts"}, Thrown,
           UNCHANGED <<active, integ, manifests, stripped, core>>, noted'.file.by = User => noted'.recovered
    PROVE  Heading'
<1>1. /\ job \in MoveJob /\ Now \in Mark /\ MayDo(arg, Now, job.undo, job.force, ~broken) /\ Now.caught = job.caught
  BY MayTake
<1>2. /\ active' = Now.active /\ integ'.default = Now.default /\ integ'.installed = Now.keys
      /\ Record' = Now.manifests /\ Theirs' = Now.theirs
  BY DEF Now, Theirs, Record
<1>3. job.caught => Recovers(job.undo, Now, job.force, ~broken)
  BY <1>1 DEF MayDo, arg
<1>4. CASE Killed
  BY <1>2, <1>4, EndHeads DEF Killed, End
<1>5. CASE job.caught /\ job.undo = <<>> /\ End(broken)
  <2>1. ~broken => Good(Now)
    BY <1>3, <1>5 DEF Recovers
  <2>2. QED
    BY <1>2, <1>5, <2>1, EndHeads DEF End
<1>6. CASE job.caught /\ job.undo # <<>> /\ todo' = job.undo /\ broken' = broken
           /\ job' = [job EXCEPT !.caught = FALSE, !.undo = <<>>, !.done = TRUE]
  BY <1>1, <1>2, <1>3, <1>6, BackHeads
<1>7. QED
  BY <1>4, <1>5, <1>6 DEF Thrown

LEMMA InfraHeads ==
    ASSUME TypeInv, TypeInv', Heading, Infra
    PROVE  Heading'
<1> DEFINE j == [job EXCEPT !.done = TRUE]
<1>1. todo # <<>> /\ Head(todo)[1] = "infra"
  BY DEF Infra, In
<1>2. /\ job \in MoveJob /\ todo \in Seq(MoveSteps) /\ arg \in MoveSteps /\ Now \in Mark
      /\ Now.caught = job.caught /\ (~broken /\ ~job.done => Good(Now))
  BY <1>1, MayTake DEF MoveNames
<1>3. UNCHANGED <<active, integ, manifests, stripped, core>>
  BY DEF Infra
<1>4. noted'.file.by = User => noted'.recovered
  <2>1. \/ noted' = noted
        \/ noted' = [file |-> shared, recovered |-> TRUE]
        \/ noted' = [file |-> Rendered(arg[2]), recovered |-> FALSE]
    BY DEF Infra
  <2>2. Rendered(arg[2]).by # User
    BY DEF Rendered, User
  <2>3. CASE noted' = noted
    BY <2>3 DEF Heading
  <2>4. CASE noted' = [file |-> shared, recovered |-> TRUE]
    BY <2>4
  <2>5. CASE noted' = [file |-> Rendered(arg[2]), recovered |-> FALSE]
    BY <2>2, <2>5
  <2>6. QED
    BY <2>1, <2>3, <2>4, <2>5
<1>5. Effect(arg, Now) = Now
  BY <1>1 DEF Effect, arg
<1>6. /\ active' = Now.active /\ integ'.default = Now.default /\ integ'.installed = Now.keys
      /\ Record' = Now.manifests /\ Theirs' = Now.theirs
  BY <1>3 DEF Now, Theirs, Record
<1>7. Done \/ Thrown \/ (~job.caught /\ End(broken \/ job.done))
  BY DEF Infra, Thrown
<1>8. CASE Done
  <2>1. j \in MoveJob /\ j.undo = job.undo /\ j.force = job.force /\ j.done /\ j.caught = job.caught /\ Pass(j)
    BY <1>2, <1>8 DEF MoveJob, Done, GoOn
  <2> HIDE DEF j
  <2>2. QED
    BY <1>1, <1>2, <1>4, <1>5, <1>6, <2>1, GoHeads
<1>9. CASE Thrown
  BY <1>1, <1>3, <1>4, <1>9, FailHeads DEF MoveNames
<1>10. CASE End(broken \/ job.done)
  BY <1>2, <1>4, <1>6, <1>10, EndHeads DEF End
<1>11. QED
  BY <1>7, <1>8, <1>9, <1>10

\* A step that does what it is there for.
LEMMA DoneHeads ==
    ASSUME TypeInv, TypeInv', Heading, todo # <<>>, Head(todo)[1] \in MoveNames \ {"setup"},
           Pass([job EXCEPT !.done = TRUE]), NEW s, s = Effect(arg, Now),
           active' = s.active, integ'.default = s.default, integ'.installed = s.keys, Record' = s.manifests,
           Theirs' = s.theirs, UNCHANGED noted
    PROVE  Heading'
<1> DEFINE j == [job EXCEPT !.done = TRUE]
<1>1. job \in MoveJob /\ todo \in Seq(MoveSteps) /\ arg \in MoveSteps /\ Now \in Mark /\ Now.caught = job.caught
  BY MayTake
<1>2. j \in MoveJob /\ j.undo = job.undo /\ j.force = job.force /\ j.done /\ j.caught = job.caught
  BY <1>1 DEF MoveJob
<1>3. Effect(arg, Now).caught = Now.caught
  BY <1>1 DEF Effect, arg, Mark
<1>4. noted'.file.by = User => noted'.recovered
  BY DEF Heading
<1> HIDE DEF j
<1>5. Pass(j)
  BY DEF j
<1>6. QED
  BY <1>1, <1>2, <1>3, <1>4, <1>5, GoHeads

\* The process is killed.
LEMMA KilledHeads ==
    ASSUME Heading, End(TRUE), UNCHANGED noted
    PROVE  Heading'
<1>1. broken' /\ job' = NoJob
  BY DEF End
<1>2. job'.op = "none"
  BY <1>1, NoJobIs
<1>3. QED
  BY <1>1, <1>2 DEF Heading

LEMMA SetupHeads ==
    ASSUME TypeInv, TypeInv', Heading, Setup
    PROVE  Heading'
<1> DEFINE a == arg[2]
           j == [job EXCEPT !.caught = TRUE, !.done = TRUE]
<1>1. todo # <<>> /\ Head(todo)[1] = "setup"
  BY DEF Setup, In
<1>2. /\ job \in MoveJob /\ todo \in Seq(MoveSteps) /\ arg \in MoveSteps /\ Now \in Mark
      /\ MayDo(arg, Now, job.undo, job.force, ~broken)
  BY <1>1, MayTake DEF MoveNames
<1>3. a \in Agents
  BY <1>1, <1>2, Arguments DEF arg
<1>4. UNCHANGED <<active, integ, noted>>
  BY DEF Setup
<1>5. noted'.file.by = User => noted'.recovered
  BY <1>4 DEF Heading
<1> DEFINE s == [Now EXCEPT !.theirs = @ \ {a}]
<1>6. /\ Recovers(job.undo, Now, job.force, ~broken) /\ Recovers(job.undo, s, job.force, ~broken)
  BY <1>1, <1>2 DEF MayDo, arg
<1>7. CASE /\ core' = [core EXCEPT ![a] = "bundled"] /\ manifests' = manifests \cup {a} /\ stripped' = stripped \ {a}
           /\ Pass(j)
  <2> DEFINE z == Effect(arg, Now)
  <2>1. /\ z.active = Now.active /\ z.default = Now.default /\ z.keys = Now.keys
        /\ z.manifests = Saves(Now.manifests, a) /\ z.theirs = Now.theirs \ {a} /\ z.caught = TRUE
    BY <1>1, <1>2 DEF Effect, arg, Mark
  <2>2. j \in MoveJob /\ j.undo = job.undo /\ j.force = job.force /\ j.done /\ j.caught = TRUE
    BY <1>2 DEF MoveJob
  <2>3. Theirs' = Theirs \ {a}
    BY <1>3, <1>7, MoveFields DEF Theirs, User
  <2>4. /\ active' = z.active /\ integ'.default = z.default /\ integ'.installed = z.keys
        /\ Record' = z.manifests /\ Theirs' = z.theirs
    BY <1>4, <1>7, <2>1, <2>3 DEF Now, Record, Saves
  <2> HIDE DEF j, z
  <2>5. z = Effect(arg, Now)
    BY DEF z
  <2>6. QED
    BY <1>1, <1>2, <1>5, <1>7, <2>1, <2>2, <2>4, <2>5, GoHeads
<1>8. CASE /\ core' \in {core, [core EXCEPT ![a] = "bundled"]} /\ UNCHANGED <<manifests, stripped>>
           /\ job.undo = <<>> /\ (End(broken) \/ End(TRUE))
  <2>1. ~broken => Good(Now)
    BY <1>6, <1>8 DEF Recovers
  <2>2. /\ active' = Now.active /\ integ'.default = Now.default /\ integ'.installed = Now.keys
        /\ Record' = Now.manifests
    BY <1>4, <1>8 DEF Now, Record
  <2>3. CASE End(broken)
    BY <1>5, <2>1, <2>2, <2>3, EndHeads DEF End
  <2>4. CASE End(TRUE)
    BY <1>4, <2>4, KilledHeads
  <2>5. QED
    BY <1>8, <2>3, <2>4
<1>9. CASE /\ core' \in {core, [core EXCEPT ![a] = "bundled"]} /\ UNCHANGED <<manifests, stripped>>
           /\ job.undo # <<>> /\ todo' = job.undo /\ broken' = broken
           /\ job' = [j EXCEPT !.undo = <<>>, !.caught = FALSE]
  <2>1. job' = [job EXCEPT !.caught = FALSE, !.undo = <<>>, !.done = TRUE]
    BY <1>2, <1>9 DEF MoveJob
  <2>2. s \in Mark /\ s.active = Now.active /\ s.default = Now.default /\ s.keys = Now.keys
        /\ s.manifests = Now.manifests /\ s.theirs = Now.theirs \ {a}
    BY <1>2 DEF Mark
  <2>3. /\ active' = Now.active /\ integ'.default = Now.default /\ integ'.installed = Now.keys
        /\ Record' = Now.manifests
    BY <1>4, <1>9 DEF Now, Record
  <2>4. Theirs' = Now.theirs \/ Theirs' = Now.theirs \ {a}
    BY <1>3, <1>9, MoveFields DEF Theirs, User, Now
  <2> HIDE DEF s, a, j
  <2>5. CASE Theirs' = Now.theirs
    BY <1>2, <1>5, <1>6, <1>9, <2>1, <2>3, <2>5, BackHeads
  <2>6. CASE Theirs' = Now.theirs \ {a}
    BY <1>2, <1>5, <1>6, <1>9, <2>1, <2>2, <2>3, <2>6, BackHeads
  <2>7. QED
    BY <2>4, <2>5, <2>6
<1>10. CASE End(TRUE)
  BY <1>4, <1>10, KilledHeads
<1> HIDE DEF s
<1>11. QED
  BY <1>7, <1>8, <1>9, <1>10 DEF Setup, GoOn

LEMMA TeardownHeads ==
    ASSUME TypeInv, TypeInv', Heading, Teardown
    PROVE  Heading'
<1> DEFINE a == arg[2]
<1>1. todo # <<>> /\ Head(todo)[1] = "teardown"
  BY DEF Teardown, In
<1>2. /\ job \in MoveJob /\ arg \in MoveSteps /\ Now \in Mark
      /\ MayDo(arg, Now, job.undo, job.force, ~broken) /\ Now.caught = job.caught
  BY <1>1, MayTake DEF MoveNames
<1>3. a \in Agents /\ arg[3] \in BOOLEAN
  BY <1>1, <1>2, Arguments DEF arg
<1>4. ~job.caught
  BY <1>1, <1>2 DEF MayDo, arg
<1>5. UNCHANGED <<active, integ, stripped, noted>>
      /\ core' = (IF core[a] # Nothing /\ (core[a] # User \/ arg[3]) THEN [core EXCEPT ![a] = Nothing] ELSE core)
      /\ ((manifests' = manifests \ {a} /\ Pass([job EXCEPT !.done = TRUE])) \/ End(TRUE))
  BY <1>4 DEF Teardown, Done, GoOn, Killed, Thrown
<1>6. CASE End(TRUE)
  BY <1>5, <1>6, KilledHeads
<1>7. CASE manifests' = manifests \ {a} /\ Pass([job EXCEPT !.done = TRUE])
  <2> DEFINE z == Effect(arg, Now)
  <2>1. /\ z.active = Now.active /\ z.default = Now.default /\ z.keys = Now.keys
        /\ z.manifests = Loses(Now.manifests, a) /\ z.theirs = IF arg[3] THEN Now.theirs \ {a} ELSE Now.theirs
    BY <1>1, <1>2 DEF Effect, arg, Mark
  <2>2. Theirs' = IF arg[3] THEN Theirs \ {a} ELSE Theirs
    <3>1. core \in [Agents -> {Nothing, "bundled", User}] /\ Nothing # User
      BY MoveFields DEF Nothing, User
    <3>2. \A b \in Agents : core'[b] = User <=> core[b] = User /\ ~(b = a /\ arg[3])
      BY <1>3, <1>5, <3>1
    <3>3. QED
      BY <1>3, <3>2 DEF Theirs
  <2>3. /\ active' = z.active /\ integ'.default = z.default /\ integ'.installed = z.keys
        /\ Record' = z.manifests /\ Theirs' = z.theirs
    BY <1>5, <1>7, <2>1, <2>2 DEF Now, Record, Loses
  <2> HIDE DEF z
  <2>4. z = Effect(arg, Now)
    BY DEF z
  <2>5. QED
    BY <1>1, <1>5, <1>7, <2>3, <2>4, DoneHeads DEF MoveNames
<1>8. QED
  BY <1>5, <1>6, <1>7

LEMMA StaleHeads ==
    ASSUME TypeInv, TypeInv', Heading, Stale
    PROVE  Heading'
<1> DEFINE a == arg[2]
<1>1. todo # <<>> /\ Head(todo)[1] = "stale"
  BY DEF Stale, In
<1>2. /\ job \in MoveJob /\ arg \in MoveSteps /\ Now \in Mark
      /\ MayDo(arg, Now, job.undo, job.force, ~broken)
  BY <1>1, MayTake DEF MoveNames
<1>3. UNCHANGED <<active, integ, core, noted>>
  BY DEF Stale
<1>4. noted'.file.by = User => noted'.recovered
  BY <1>3 DEF Heading
<1>5. CASE manifests' = manifests \ {a} /\ stripped' = stripped \cup {a} /\ Done
  <2> DEFINE z == Effect(arg, Now)
  <2>1. /\ z.active = Now.active /\ z.default = Now.default /\ z.keys = Now.keys
        /\ z.manifests = Strips(Now.manifests, a) /\ z.theirs = Now.theirs
    BY <1>1, <1>2 DEF Effect, arg, Mark
  <2>2. /\ active' = z.active /\ integ'.default = z.default /\ integ'.installed = z.keys
        /\ Record' = z.manifests /\ Theirs' = z.theirs
    BY <1>3, <1>5, <2>1 DEF Now, Theirs, Record, Strips
  <2> HIDE DEF z
  <2>3. z = Effect(arg, Now)
    BY DEF z
  <2>4. QED
    BY <1>1, <1>3, <1>5, <2>2, <2>3, DoneHeads DEF MoveNames, Done, GoOn
<1>6. CASE UNCHANGED <<manifests, stripped>> /\ End(broken)
  <2>1. ~broken => Good(Now)
    BY <1>1, <1>2 DEF MayDo, arg
  <2>2. /\ active' = Now.active /\ integ'.default = Now.default /\ integ'.installed = Now.keys
        /\ Record' = Now.manifests
    BY <1>3, <1>6 DEF Now, Record
  <2>3. QED
    BY <1>4, <1>6, <2>1, <2>2, EndHeads DEF End
<1>7. CASE End(TRUE)
  BY <1>3, <1>7, KilledHeads
<1>8. QED
  BY <1>5, <1>6, <1>7 DEF Stale, Killed

LEMMA WriteJsonHeads ==
    ASSUME TypeInv, TypeInv', Heading, WriteJson
    PROVE  Heading'
<1>1. todo # <<>> /\ Head(todo)[1] = "json"
  BY DEF WriteJson, In
<1>2. arg \in MoveSteps /\ Now \in Mark
  BY <1>1, MayTake DEF MoveNames
<1>3. UNCHANGED <<active, manifests, stripped, core, noted>>
  BY DEF WriteJson
<1>4. noted'.file.by = User => noted'.recovered
  BY <1>3 DEF Heading
<1>5. CASE integ' = [default |-> arg[2], installed |-> arg[3]] /\ Done
  <2> DEFINE z == Effect(arg, Now)
  <2>1. /\ z.active = Now.active /\ z.default = arg[2] /\ z.keys = arg[3]
        /\ z.manifests = Now.manifests /\ z.theirs = Now.theirs
    BY <1>1, <1>2 DEF Effect, arg, Mark
  <2>2. /\ active' = z.active /\ integ'.default = z.default /\ integ'.installed = z.keys
        /\ Record' = z.manifests /\ Theirs' = z.theirs
    BY <1>3, <1>5, <2>1 DEF Now, Theirs, Record
  <2> HIDE DEF z
  <2>3. z = Effect(arg, Now)
    BY DEF z
  <2>4. QED
    BY <1>1, <1>3, <1>5, <2>2, <2>3, DoneHeads DEF MoveNames, Done, GoOn
<1>6. CASE Killed
  BY <1>3, <1>6, KilledHeads DEF Killed
<1>7. CASE integ' = integ /\ Thrown
  BY <1>1, <1>3, <1>4, <1>7, FailHeads DEF MoveNames
<1>8. QED
  BY <1>5, <1>6, <1>7 DEF WriteJson

LEMMA OptionsHeads ==
    ASSUME TypeInv, TypeInv', Heading, Options
    PROVE  Heading'
<1>1. todo # <<>> /\ Head(todo)[1] \in {"options", "forget"}
  BY DEF Options, In
<1>2. arg \in MoveSteps /\ Now \in Mark
  BY <1>1, MayTake DEF MoveNames
<1>3. UNCHANGED <<integ, manifests, stripped, core, noted>>
  BY DEF Options
<1>4. noted'.file.by = User => noted'.recovered
  BY <1>3 DEF Heading
<1>5. CASE active' = (IF In("options") THEN arg[2] ELSE IF active = arg[2] THEN None ELSE active) /\ Done
  <2> DEFINE z == Effect(arg, Now)
  <2>1. /\ z.active = (IF arg[1] = "options" THEN arg[2] ELSE IF Now.active = arg[2] THEN None ELSE Now.active)
        /\ z.default = Now.default /\ z.keys = Now.keys
        /\ z.manifests = Now.manifests /\ z.theirs = Now.theirs
    BY <1>1, <1>2 DEF Effect, arg, Mark
  <2>2. /\ active' = z.active /\ integ'.default = z.default /\ integ'.installed = z.keys
        /\ Record' = z.manifests /\ Theirs' = z.theirs
    BY <1>1, <1>3, <1>5, <2>1 DEF Now, Theirs, Record, In, arg
  <2> HIDE DEF z
  <2>3. z = Effect(arg, Now)
    BY DEF z
  <2>4. QED
    BY <1>1, <1>3, <1>5, <2>2, <2>3, DoneHeads DEF MoveNames, Done, GoOn
<1>6. CASE Killed
  BY <1>3, <1>6, KilledHeads DEF Killed
<1>7. CASE active' = active /\ Thrown
  BY <1>1, <1>3, <1>4, <1>7, FailHeads DEF MoveNames
<1>8. QED
  BY <1>5, <1>6, <1>7 DEF Options

LEMMA ArtifactsHeads ==
    ASSUME TypeInv, TypeInv', Heading, UnregisterArtifacts \/ RegisterArtifacts
    PROVE  Heading'
<1>1. todo # <<>> /\ Head(todo)[1] \in {"unartifact", "artifacts"} /\ UNCHANGED <<active, integ, manifests, stripped, core, noted>>
  BY DEF UnregisterArtifacts, RegisterArtifacts, In
<1>2. arg \in MoveSteps /\ Now \in Mark /\ MayDo(arg, Now, job.undo, job.force, ~broken)
  BY <1>1, MayTake DEF MoveNames
<1>3. /\ active' = Now.active /\ integ'.default = Now.default /\ integ'.installed = Now.keys
      /\ Record' = Now.manifests /\ Theirs' = Now.theirs
  BY <1>1 DEF Now, Theirs, Record
<1>4. Effect(arg, Now) = Now
  BY <1>1 DEF Effect, arg
<1>5. \/ Pass([job EXCEPT !.done = TRUE])
      \/ End(TRUE)
      \/ RegisterArtifacts /\ End(broken)
  BY DEF UnregisterArtifacts, RegisterArtifacts, Done, GoOn
<1>6. CASE Pass([job EXCEPT !.done = TRUE])
  BY <1>1, <1>3, <1>4, <1>6, DoneHeads DEF MoveNames
<1>7. CASE End(TRUE)
  BY <1>1, <1>7, KilledHeads
<1>8. CASE RegisterArtifacts /\ End(broken)
  <2>1. ~broken => Good(Now)
    BY <1>2, <1>8 DEF MayDo, RegisterArtifacts, In, arg
  <2>2. noted'.file.by = User => noted'.recovered
    BY <1>1 DEF Heading
  <2>3. QED
    BY <1>3, <1>8, <2>1, <2>2, EndHeads DEF End
<1>9. QED
  BY <1>5, <1>6, <1>7, <1>8

-----------------------------------------------------------------------------
(* The installed integrations *)

LEMMA PresentIs ==
    ASSUME TypeInv
    PROVE  Present = Keys(integ.installed)
<1>1. DOMAIN integ.installed = 1..Len(integ.installed)
  BY MoveFields
<1>2. QED
  BY <1>1 DEF Present, Keys

LEMMA Shortened ==
    ASSUME NEW keys \in Seq(Agents), NEW i \in 1..Len(keys), NEW u,
           u = SubSeq(keys, 1, i - 1) \o SubSeq(keys, i + 1, Len(keys))
    PROVE  /\ u \in Seq(Agents) /\ Len(u) = Len(keys) - 1 /\ Len(keys) \in Nat
           /\ \A k \in 1..Len(u) : u[k] = IF k < i THEN keys[k] ELSE keys[k + 1]
<1> DEFINE v == SubSeq(keys, 1, i - 1)
           w == SubSeq(keys, i + 1, Len(keys))
<1>1. Len(keys) \in Nat /\ i \in Nat /\ 1 <= i /\ i <= Len(keys)
  OBVIOUS
<1>2. /\ 1 \in 1..(Len(keys) + 1) /\ i - 1 \in (1 - 1)..Len(keys)
      /\ i + 1 \in 1..(Len(keys) + 1) /\ Len(keys) \in (i + 1 - 1)..Len(keys)
  BY <1>1
<1>3. v \in Seq(Agents) /\ Len(v) = (IF 1 <= i - 1 THEN i - 1 - 1 + 1 ELSE 0)
      /\ \A k \in 1..(i - 1 - 1 + 1) : v[k] = keys[1 + k - 1]
  BY <1>2, SubSeqProperties
<1>4. w \in Seq(Agents) /\ Len(w) = (IF i + 1 <= Len(keys) THEN Len(keys) - (i + 1) + 1 ELSE 0)
      /\ \A k \in 1..(Len(keys) - (i + 1) + 1) : w[k] = keys[(i + 1) + k - 1]
  BY <1>2, SubSeqProperties
<1> HIDE DEF v, w
<1>5. Len(v) = i - 1 /\ Len(w) = Len(keys) - i
  BY <1>1, <1>3, <1>4
<1>6. /\ u \in Seq(Agents) /\ Len(u) = Len(v) + Len(w)
      /\ \A k \in 1..(Len(v) + Len(w)) : u[k] = IF k <= Len(v) THEN v[k] ELSE w[k - Len(v)]
  <2>1. u = v \o w
    BY DEF v, w
  <2>2. /\ v \o w \in Seq(Agents) /\ Len(v \o w) = Len(v) + Len(w)
        /\ \A k \in 1..(Len(v) + Len(w)) : (v \o w)[k] = IF k <= Len(v) THEN v[k] ELSE w[k - Len(v)]
    <3>1. v \in Seq(Agents) /\ w \in Seq(Agents)
      BY <1>3, <1>4
    <3>2. QED
      BY <3>1, ConcatProperties
  <2>3. QED
    BY <2>1, <2>2
<1>7. Len(u) = Len(keys) - 1
  BY <1>1, <1>5, <1>6
<1>8. ASSUME NEW k \in 1..Len(u)
      PROVE  u[k] = IF k < i THEN keys[k] ELSE keys[k + 1]
  <2>1. u[k] = IF k <= Len(v) THEN v[k] ELSE w[k - Len(v)]
    BY <1>6
  <2>2. CASE k < i
    <3>1. k \in 1..(i - 1 - 1 + 1) /\ k <= Len(v) /\ 1 + k - 1 = k
      BY <1>1, <1>5, <1>7, <2>2
    <3>2. QED
      BY <1>3, <2>1, <2>2, <3>1
  <2>3. CASE ~(k < i)
    <3> DEFINE m == k - Len(v)
    <3>1. m \in 1..(Len(keys) - (i + 1) + 1) /\ ~(k <= Len(v)) /\ (i + 1) + m - 1 = k + 1
      <4>1. k \in Nat /\ k >= i /\ k <= Len(keys) - 1
        <5>1. k \in 1..(Len(keys) - 1)
          BY <1>7, Zenon
        <5>2. k \in Int /\ 1 <= k /\ k <= Len(keys) - 1
          BY <1>1, <5>1
        <5>3. QED
          BY <1>1, <2>3, <5>2
      <4>2. m = k - (i - 1)
        BY <1>5
      <4> HIDE DEF m
      <4>3. m \in Nat /\ 1 <= m /\ m <= Len(keys) - (i + 1) + 1
        BY <1>1, <4>1, <4>2
      <4>4. QED
        BY <1>1, <1>5, <4>1, <4>2, <4>3
    <3>2. w[m] = keys[k + 1]
      <4> HIDE DEF m
      <4>1. w[m] = keys[(i + 1) + m - 1]
        BY <1>4, <3>1
      <4>2. QED
        BY <3>1, <4>1, Zenon
    <3>3. u[k] = w[m]
      BY <2>1, <3>1
    <3>4. QED
      BY <2>3, <3>2, <3>3
  <2>4. QED
    BY <2>2, <2>3
<1>9. QED
  BY <1>1, <1>6, <1>7, <1>8

LEMMA WithoutKeys ==
    ASSUME TypeInv, NEW a
    PROVE  /\ Without(a) \in Seq(Agents)
           /\ Keys(Without(a)) \subseteq Present
           /\ Once(integ.installed) => Once(Without(a)) /\ Keys(Without(a)) = Present \ {a}
<1> DEFINE keys == integ.installed
           u == Without(a)
<1>1. keys \in Seq(Agents) /\ Present = Keys(keys) /\ DOMAIN keys = 1..Len(keys)
  BY MoveFields, PresentIs
<1>2. CASE a \notin Present
  <2>1. u = keys
    BY <1>2 DEF Without
  <2>2. QED
    BY <1>1, <1>2, <2>1
<1>3. CASE a \in Present
  <2> DEFINE i == CHOOSE k \in DOMAIN keys : keys[k] = a
  <2>1. i \in 1..Len(keys) /\ keys[i] = a
    <3>1. \E k \in DOMAIN keys : keys[k] = a
      BY <1>3 DEF Present
    <3>2. QED
      BY <1>1, <3>1
  <2>2. u = SubSeq(keys, 1, i - 1) \o SubSeq(keys, i + 1, Len(keys))
    BY <1>3 DEF Without
  <2> HIDE DEF i, u, keys
  <2>3. /\ u \in Seq(Agents) /\ Len(u) = Len(keys) - 1 /\ Len(keys) \in Nat
        /\ \A k \in 1..Len(u) : u[k] = IF k < i THEN keys[k] ELSE keys[k + 1]
    BY <1>1, <2>1, <2>2, Shortened
  <2>4. \A k \in 1..Len(u) : \E m \in 1..Len(keys) : u[k] = keys[m] /\ m # i /\ m = IF k < i THEN k ELSE k + 1
    BY <2>1, <2>3
  <2>5. \A m \in 1..Len(keys) : m # i => \E k \in 1..Len(u) : u[k] = keys[m]
    <3> SUFFICES ASSUME NEW m \in 1..Len(keys), m # i PROVE \E k \in 1..Len(u) : u[k] = keys[m]
      OBVIOUS
    <3>1. CASE m < i
      <4>1. m \in 1..Len(u) /\ u[m] = keys[m]
        BY <2>1, <2>3, <3>1
      <4>2. QED
        BY <4>1
    <3>2. CASE ~(m < i)
      <4>1. m - 1 \in 1..Len(u) /\ ~(m - 1 < i) /\ (m - 1) + 1 = m
        BY <2>1, <2>3, <3>2
      <4>2. u[m - 1] = keys[m]
        BY <2>3, <4>1
      <4>3. QED
        BY <4>1, <4>2
    <3>3. QED
      BY <3>1, <3>2
  <2>6. Keys(u) \subseteq Keys(keys)
    BY <2>4 DEF Keys
  <2>7. ASSUME Once(keys)
        PROVE  Once(u) /\ Keys(u) = Keys(keys) \ {a}
    <3>1. Once(u)
      <4> SUFFICES ASSUME NEW k \in 1..Len(u), NEW n \in 1..Len(u), u[k] = u[n] PROVE k = n
        BY DEF Once
      <4>1. PICK m \in 1..Len(keys) : u[k] = keys[m] /\ m = IF k < i THEN k ELSE k + 1
        BY <2>4
      <4>2. PICK o \in 1..Len(keys) : u[n] = keys[o] /\ o = IF n < i THEN n ELSE n + 1
        BY <2>4
      <4>3. m = o
        BY <2>7, <4>1, <4>2 DEF Once
      <4>4. QED
        BY <2>1, <2>3, <4>1, <4>2, <4>3
    <3>2. a \notin Keys(u)
      <4> SUFFICES ASSUME NEW k \in 1..Len(u), u[k] = a PROVE FALSE
        BY DEF Keys
      <4>1. QED
        BY <2>1, <2>4, <2>7 DEF Once
    <3>3. Keys(keys) \ {a} \subseteq Keys(u)
      BY <2>1, <2>5 DEF Keys
    <3>4. QED
      BY <2>6, <3>1, <3>2, <3>3
  <2>8. QED
    BY <1>1, <2>3, <2>6, <2>7 DEF u, keys
<1>4. QED
  BY <1>2, <1>3

LEMMA Appended ==
    ASSUME NEW keys \in Seq(Agents), NEW a \in Agents
    PROVE  /\ Append(keys, a) \in Seq(Agents) /\ Append(keys, a) # <<>> /\ Keys(Append(keys, a)) = Keys(keys) \cup {a}
           /\ Once(keys) /\ a \notin Keys(keys) => Once(Append(keys, a))
<1> DEFINE u == Append(keys, a)
<1>1. /\ u \in Seq(Agents) /\ u # <<>> /\ Len(u) = Len(keys) + 1 /\ Len(keys) \in Nat
      /\ u[Len(keys) + 1] = a /\ \A k \in 1..Len(keys) : u[k] = keys[k]
  BY AppendProperties
<1> HIDE DEF u
<1>2. \A k \in 1..Len(u) : k \in 1..Len(keys) \/ k = Len(keys) + 1
  BY <1>1
<1>3. 1..Len(keys) \subseteq 1..Len(u) /\ Len(keys) + 1 \in 1..Len(u)
  BY <1>1
<1>4. Keys(u) = Keys(keys) \cup {a}
  BY <1>1, <1>2, <1>3 DEF Keys
<1>5. ASSUME Once(keys), a \notin Keys(keys)
      PROVE  Once(u)
  <2> SUFFICES ASSUME NEW k \in 1..Len(u), NEW n \in 1..Len(u), u[k] = u[n] PROVE k = n
    BY DEF Once
  <2>1. \A m \in 1..Len(keys) : u[m] # a
    BY <1>1, <1>5 DEF Keys
  <2>2. CASE k \in 1..Len(keys) /\ n \in 1..Len(keys)
    BY <1>1, <1>5, <2>2 DEF Once
  <2>3. CASE k = Len(keys) + 1 \/ n = Len(keys) + 1
    BY <1>1, <1>2, <2>1, <2>3
  <2>4. QED
    BY <1>2, <2>2, <2>3
<1>6. QED
  BY <1>1, <1>4, <1>5 DEF u

\* An integration that is not among the others is put behind them.
LEMMA WithNew ==
    ASSUME NEW keys \in Seq(Agents), NEW a \in Agents, a \notin Keys(keys)
    PROVE  With(keys, a) = Append(keys, a)
<1>1. DOMAIN keys = 1..Len(keys)
  OBVIOUS
<1>2. QED
  BY <1>1 DEF With, Keys

-----------------------------------------------------------------------------
(* The courses of the integration commands *)

LEMMA LeadFirst ==
    ASSUME NEW m \in MoveSteps, NEW u \in Seq(MoveSteps), NEW s \in Mark, NEW z, NEW W,
           <<m, s>> \in W, Lead(u, Effect(m, s), z, W)
    PROVE  Lead(<<m>> \o u, s, z, W)
<1>1. Lead(<<m>>, s, Effect(m, s), W) /\ <<m>> \in Seq(MoveSteps)
  BY LeadOne
<1> DEFINE t == <<m>>
           y == Effect(m, s)
<1> HIDE DEF t, y
<1>2. Lead(t, s, y, W) /\ t \in Seq(MoveSteps) /\ Lead(u, y, z, W)
  BY <1>1 DEF t, y
<1>3. QED
  BY <1>2, LeadJoin DEF t

LEMMA TwoAlike ==
    ASSUME NEW s \in Seq(MoveSteps), NEW t \in Seq(MoveSteps), Len(s) = 2, Len(t) = 2, s[1] = t[1], s[2] = t[2]
    PROVE  s = t
<1>1. \A i \in 1..Len(s) : i = 1 \/ i = 2
  OBVIOUS
<1>2. \A i \in 1..Len(s) : s[i] = t[i]
  BY <1>1
<1>3. QED
  BY <1>2, SeqEqual

LEMMA ThreeAlike ==
    ASSUME NEW s \in Seq(MoveSteps), NEW t \in Seq(MoveSteps), Len(s) = 3, Len(t) = 3,
           s[1] = t[1], s[2] = t[2], s[3] = t[3]
    PROVE  s = t
<1>1. \A i \in 1..Len(s) : i = 1 \/ i = 2 \/ i = 3
  OBVIOUS
<1>2. \A i \in 1..Len(s) : s[i] = t[i]
  BY <1>1
<1>3. QED
  BY <1>2, SeqEqual

LEMMA LeadTwo ==
    ASSUME NEW m \in MoveSteps, NEW n \in MoveSteps, NEW s \in Mark, NEW y, NEW z, NEW W,
           y = Effect(m, s), z = Effect(n, y), <<m, s>> \in W, <<n, y>> \in W
    PROVE  Lead(<<m, n>>, s, z, W)
<1>1. y \in Mark
  BY EffectIs
<1>2. Lead(<<n>>, y, z, W)
  BY <1>1, LeadOne
<1>3. <<n>> \in Seq(MoveSteps) /\ <<m>> \o <<n>> = <<m, n>>
  <2>1. <<m>> \in Seq(MoveSteps) /\ <<n>> \in Seq(MoveSteps) /\ <<m, n>> \in Seq(MoveSteps)
    OBVIOUS
  <2>2. Len(<<m>> \o <<n>>) = 2 /\ (<<m>> \o <<n>>)[1] = m /\ (<<m>> \o <<n>>)[2] = n
    OBVIOUS
  <2>3. <<m>> \o <<n>> \in Seq(MoveSteps)
    BY <2>1, ConcatProperties
  <2>4. Len(<<m, n>>) = 2 /\ <<m, n>>[1] = m /\ <<m, n>>[2] = n
    OBVIOUS
  <2> DEFINE a == <<m>> \o <<n>>
             b == <<m, n>>
  <2> HIDE DEF a, b
  <2>5. a = b
    BY <2>1, <2>2, <2>3, <2>4, TwoAlike DEF a, b
  <2>6. QED
    BY <2>1, <2>5 DEF a, b
<1> DEFINE u == <<n>>
<1> HIDE DEF u
<1>4. Lead(u, y, z, W) /\ u \in Seq(MoveSteps) /\ <<m>> \o u = <<m, n>>
  BY <1>2, <1>3 DEF u
<1>5. Lead(<<m>> \o u, s, z, W)
  BY <1>4, LeadFirst
<1>6. QED
  BY <1>4, <1>5

LEMMA LeadThree ==
    ASSUME NEW m \in MoveSteps, NEW n \in MoveSteps, NEW o \in MoveSteps, NEW s \in Mark, NEW x, NEW y, NEW z, NEW W,
           x = Effect(m, s), y = Effect(n, x), z = Effect(o, y), <<m, s>> \in W, <<n, x>> \in W, <<o, y>> \in W
    PROVE  Lead(<<m, n, o>>, s, z, W)
<1>1. x \in Mark
  BY EffectIs
<1>2. y \in Mark
  BY <1>1, EffectIs
<1>3. Lead(<<m, n>>, s, y, W) /\ Lead(<<o>>, y, z, W)
  BY <1>2, LeadOne, LeadTwo
<1>4. <<m, n>> \in Seq(MoveSteps) /\ <<o>> \in Seq(MoveSteps) /\ <<m, n>> \o <<o>> = <<m, n, o>>
  <2>1. <<m, n>> \in Seq(MoveSteps) /\ <<o>> \in Seq(MoveSteps) /\ <<m, n, o>> \in Seq(MoveSteps)
    OBVIOUS
  <2>2. /\ Len(<<m, n>> \o <<o>>) = 3 /\ (<<m, n>> \o <<o>>)[1] = m /\ (<<m, n>> \o <<o>>)[2] = n
        /\ (<<m, n>> \o <<o>>)[3] = o
    OBVIOUS
  <2>3. <<m, n>> \o <<o>> \in Seq(MoveSteps)
    BY <2>1, ConcatProperties
  <2>4. Len(<<m, n, o>>) = 3 /\ <<m, n, o>>[1] = m /\ <<m, n, o>>[2] = n /\ <<m, n, o>>[3] = o
    OBVIOUS
  <2> DEFINE a == <<m, n>> \o <<o>>
             b == <<m, n, o>>
  <2> HIDE DEF a, b
  <2>5. a = b
    BY <2>1, <2>2, <2>3, <2>4, ThreeAlike DEF a, b
  <2>6. QED
    BY <2>1, <2>5 DEF a, b
<1> DEFINE t == <<m, n>>
           u == <<o>>
<1> HIDE DEF t, u
<1>5. Lead(t, s, y, W) /\ Lead(u, y, z, W) /\ t \in Seq(MoveSteps) /\ u \in Seq(MoveSteps) /\ t \o u = <<m, n, o>>
  BY <1>3, <1>4 DEF t, u
<1>6. Lead(t \o u, s, z, W)
  BY <1>5, LeadJoin
<1>7. QED
  BY <1>5, <1>6

\* The steps that are always allowed while no exception is caught.
Plain(m, force) ==
    /\ m[1] \in {"infra", "json", "options", "forget", "unartifact"}
    /\ m[1] = "infra" /\ m[4] => force

LEMMA PlainIsAllowed ==
    ASSUME NEW m \in MoveSteps, NEW s \in Mark, NEW u, NEW force, NEW well, Plain(m, force), ~s.caught
    PROVE  <<m, s>> \in Course(u, force, well) /\ <<m, s>> \in Retreat(force)
<1>1. Spares(m, s, force)
  BY DEF Plain, Spares
<1>2. MayDo(m, s, u, force, well) /\ MayUndo(m, s, force)
  BY <1>1 DEF MayDo, MayUndo, Plain
<1>3. QED
  BY <1>2 DEF Course, Retreat

LEMMA DefaultSteps ==
    ASSUME NEW a \in Agents, NEW keys \in Seq(Agents), NEW force \in BOOLEAN
    PROVE  <<"infra", a, TRUE, force>> \in MoveSteps /\ <<"json", a, keys>> \in MoveSteps /\ <<"options", a>> \in MoveSteps
BY StepsAre, ListsAre, Zenon

\* The effects of the steps.
LEMMA Effects ==
    ASSUME NEW s \in Mark
    PROVE  /\ \A d, r, f : Effect(<<"infra", d, r, f>>, s) = s
           /\ \A a : Effect(<<"setup", a>>, s) =
                     [s EXCEPT !.manifests = Saves(@, a), !.theirs = @ \ {a}, !.caught = TRUE]
           /\ \A a, f : Effect(<<"teardown", a, f>>, s) =
                        [s EXCEPT !.manifests = Loses(@, a), !.theirs = IF f THEN @ \ {a} ELSE @]
           /\ \A a : Effect(<<"stale", a>>, s) = [s EXCEPT !.manifests = Strips(@, a)]
           /\ \A d, keys : Effect(<<"json", d, keys>>, s) = [s EXCEPT !.default = d, !.keys = keys]
           /\ \A a : Effect(<<"options", a>>, s) = [s EXCEPT !.active = a]
           /\ \A a : Effect(<<"forget", a>>, s) = [s EXCEPT !.active = IF @ = a THEN None ELSE @]
           /\ \A a : Effect(<<"unartifact", a>>, s) = s /\ Effect(<<"artifacts", a>>, s) = s
BY DEF Effect

\* MakeDefault leads to a default that is active.
LEMMA LeadDefault ==
    ASSUME NEW a \in Agents, NEW keys \in Seq(Agents), NEW force \in BOOLEAN, NEW s \in Mark, NEW W,
           NEW y, y = [s EXCEPT !.default = a, !.keys = keys], NEW z, z = [y EXCEPT !.active = a],
           <<<<"infra", a, TRUE, force>>, s>> \in W, <<<<"json", a, keys>>, s>> \in W, <<<<"options", a>>, y>> \in W
    PROVE  Lead(MakeDefault(a, keys, force), s, z, W)
<1> DEFINE m == <<"infra", a, TRUE, force>>
           n == <<"json", a, keys>>
           o == <<"options", a>>
<1>1. m \in MoveSteps /\ n \in MoveSteps /\ o \in MoveSteps
  BY DefaultSteps
<1>2. y \in Mark
  BY DEF Mark
<1>3. s = Effect(m, s) /\ y = Effect(n, s) /\ z = Effect(o, y)
  <2>1. Effect(m, s) = s
    BY DEF Effect
  <2>2. Effect(n, s) = y
    BY DEF Effect
  <2>3. Effect(o, y) = z
    BY DEF Effect
  <2>4. QED
    BY <2>1, <2>2, <2>3
<1>4. MakeDefault(a, keys, force) = <<m, n, o>>
  BY DEF MakeDefault
<1> HIDE DEF m, n, o
<1>5. <<m, s>> \in W /\ <<n, s>> \in W /\ <<o, y>> \in W
  BY DEF m, n, o
<1>6. Lead(<<m, n, o>>, s, z, W)
  BY <1>1, <1>3, <1>5, LeadThree
<1>7. QED
  BY <1>4, <1>6

FirstOf(keys) == IF keys = <<>> THEN None ELSE keys[1]

\* What FallBack leads to.
Fallen(keys, s) ==
    [s EXCEPT !.default = FirstOf(keys), !.keys = keys, !.active = IF keys = <<>> THEN @ ELSE keys[1]]

LEMMA FirstIs ==
    ASSUME NEW keys \in Seq(Agents), keys # <<>>
    PROVE  keys[1] \in Agents /\ keys[1] \in Keys(keys)
BY DEF Keys

LEMMA FallenIs ==
    ASSUME NEW keys \in Seq(Agents), NEW s \in Mark
    PROVE  Fallen(keys, s) \in Mark
<1>1. FirstOf(keys) \in Agents \cup {None}
  BY FirstIs DEF FirstOf
<1>2. (IF keys = <<>> THEN s.active ELSE keys[1]) \in Agents \cup {None}
  BY FirstIs DEF Mark
<1>3. QED
  BY <1>1, <1>2 DEF Fallen, Mark

\* Exceptions not being caught, FallBack leads there, forwards and in a rollback.
LEMMA LeadFallBack ==
    ASSUME NEW keys \in Seq(Agents), NEW s \in Mark, ~s.caught, NEW u, NEW force, NEW well
    PROVE  /\ Lead(FallBack(keys), s, Fallen(keys, s), Course(u, force, well))
           /\ Lead(FallBack(keys), s, Fallen(keys, s), Retreat(force))
<1> DEFINE V == Course(u, force, well)
           W == Retreat(force)
<1>1. CASE keys = <<>>
  <2> DEFINE m == <<"json", None, keys>>
  <2>1. m \in MoveSteps /\ Plain(m, force)
    BY DEF MoveSteps, Plain
  <2>2. FallBack(keys) = <<m>>
    BY <1>1 DEF FallBack, NoIntegration
  <2>3. Effect(m, s) = Fallen(keys, s)
    <3>1. Effect(m, s) = [s EXCEPT !.default = None, !.keys = keys]
      BY DEF Effect
    <3>2. Fallen(keys, s) = [s EXCEPT !.default = None, !.keys = keys]
      BY <1>1 DEF Fallen, FirstOf, Mark
    <3>3. QED
      BY <3>1, <3>2
  <2>4. <<m, s>> \in V /\ <<m, s>> \in W
    BY <2>1, PlainIsAllowed
  <2> HIDE DEF m, V, W
  <2>5. Lead(<<m>>, s, Effect(m, s), V) /\ Lead(<<m>>, s, Effect(m, s), W)
    BY <2>1, <2>4, LeadOne
  <2>6. QED
    BY <2>2, <2>3, <2>5 DEF V, W
<1>2. CASE keys # <<>>
  <2> DEFINE a == keys[1]
             y == [s EXCEPT !.default = a, !.keys = keys]
             z == [y EXCEPT !.active = a]
  <2>1. a \in Agents
    BY <1>2, FirstIs
  <2>2. y \in Mark /\ ~y.caught
    BY <2>1 DEF Mark
  <2>3. z = Fallen(keys, s)
    BY <1>2 DEF Fallen, FirstOf, Mark
  <2>4. FallBack(keys) = MakeDefault(a, keys, FALSE)
    BY <1>2 DEF FallBack
  <2>5. y = [s EXCEPT !.default = a, !.keys = keys] /\ z = [y EXCEPT !.active = a]
    OBVIOUS
  <2> HIDE DEF y, z, a
  <2>6. /\ <<"infra", a, TRUE, FALSE>> \in MoveSteps /\ <<"json", a, keys>> \in MoveSteps /\ <<"options", a>> \in MoveSteps
    BY <2>1, DefaultSteps
  <2>7. Plain(<<"infra", a, TRUE, FALSE>>, force) /\ Plain(<<"json", a, keys>>, force) /\ Plain(<<"options", a>>, force)
    BY DEF Plain
  <2>8. /\ <<<<"infra", a, TRUE, FALSE>>, s>> \in V /\ <<<<"json", a, keys>>, s>> \in V /\ <<<<"options", a>>, y>> \in V
        /\ <<<<"infra", a, TRUE, FALSE>>, s>> \in W /\ <<<<"json", a, keys>>, s>> \in W /\ <<<<"options", a>>, y>> \in W
    BY <2>2, <2>6, <2>7, PlainIsAllowed
  <2> HIDE DEF V, W
  <2>9. Lead(MakeDefault(a, keys, FALSE), s, z, V) /\ Lead(MakeDefault(a, keys, FALSE), s, z, W)
    BY <2>1, <2>5, <2>8, LeadDefault
  <2>10. QED
    BY <2>3, <2>4, <2>9 DEF V, W
<1>3. QED
  BY <1>1, <1>2

\* A rollback takes back what was set up.
Calm(s) == [s EXCEPT !.caught = FALSE]

TakenBack(a, s) == [Calm(s) EXCEPT !.manifests = Loses(@, a), !.theirs = @ \ {a}]

LEMMA TakesBack ==
    ASSUME NEW s \in Mark, NEW a \in Agents, a \notin s.theirs \/ a \notin Keys(s.keys), NEW force,
           NEW m, m = <<"teardown", a, TRUE>>
    PROVE  /\ Calm(s) \in Mark /\ TakenBack(a, s) \in Mark /\ ~TakenBack(a, s).caught /\ m \in MoveSteps
           /\ TakenBack(a, s) = Effect(m, Calm(s)) /\ <<m, Calm(s)>> \in Retreat(force)
           /\ TakenBack(a, s).active = s.active /\ TakenBack(a, s).manifests = Loses(s.manifests, a)
<1> DEFINE r == Calm(s)
           y == TakenBack(a, s)
<1>1. r \in Mark /\ ~r.caught /\ r.theirs = s.theirs /\ r.keys = s.keys /\ r.active = s.active /\ r.manifests = s.manifests
  BY DEF Mark, Calm
<1>2. y = [r EXCEPT !.manifests = Loses(@, a), !.theirs = @ \ {a}]
  BY DEF TakenBack
<1> HIDE DEF r, y
<1>3. y \in Mark /\ ~y.caught /\ y.active = s.active /\ y.manifests = Loses(s.manifests, a)
  BY <1>1, <1>2, RecordsAre DEF Mark
<1>4. m \in MoveSteps /\ m[1] = "teardown" /\ m[2] = a /\ m[3] = TRUE
  BY DEF MoveSteps
<1>5. Effect(m, r) = y
  BY <1>1, <1>2 DEF Effect, Mark
<1>6. MayUndo(m, r, force)
  BY <1>1, <1>4 DEF MayUndo, Spares
<1>7. <<m, r>> \in Retreat(force)
  BY <1>1, <1>4, <1>6 DEF Retreat
<1>8. QED
  BY <1>1, <1>3, <1>4, <1>5, <1>7 DEF r, y

\* The rollback of an installation.
LEMMA InstallRecovers ==
    ASSUME NEW s \in Mark, NEW a \in Agents, a \notin s.theirs \/ a \notin Keys(s.keys),
           NEW d \in Agents \cup {None}, NEW keys \in Seq(Agents), NEW force, NEW well,
           NEW g, g.active = s.active, g.default = d, g.keys = keys, g.manifests = Loses(s.manifests, a), well => Good(g),
           NEW u, u = <<<<"teardown", a, TRUE>>, <<"json", d, keys>>>>
    PROVE  Recovers(u, s, force, well)
<1> DEFINE m == <<"teardown", a, TRUE>>
           n == <<"json", d, keys>>
           r == Calm(s)
           y == TakenBack(a, s)
           z == [y EXCEPT !.default = d, !.keys = keys]
           W == Retreat(force)
<1>1. /\ r \in Mark /\ y \in Mark /\ ~y.caught /\ m \in MoveSteps /\ y = Effect(m, r) /\ <<m, r>> \in W
      /\ y.active = s.active /\ y.manifests = Loses(s.manifests, a)
  BY TakesBack
<1>2. n \in MoveSteps /\ Plain(n, force)
  BY StepsAre DEF Plain
<1> HIDE DEF y, r
<1>3. <<n, y>> \in W
  BY <1>1, <1>2, PlainIsAllowed
<1>4. z \in Mark /\ z = Effect(n, y)
  BY <1>1 DEF Mark, Effect
<1>5. z.active = s.active /\ z.default = d /\ z.keys = keys /\ z.manifests = Loses(s.manifests, a)
  BY <1>1 DEF Mark
<1>6. u = <<m, n>> /\ u # <<>>
  OBVIOUS
<1> HIDE DEF m, n, z, W
<1>7. Lead(<<m, n>>, r, z, W)
  BY <1>1, <1>2, <1>3, <1>4, LeadTwo
<1>8. well => Good(z)
  BY <1>5, SameGood
<1>9. QED
  BY <1>4, <1>6, <1>7, <1>8 DEF Recovers, W, r, Calm

\* The rollback of a switch.
LEMMA SwitchRecovers ==
    ASSUME NEW s \in Mark, NEW a \in Agents, a \notin s.theirs \/ a \notin Keys(s.keys),
           NEW rest \in Seq(Agents), NEW force, NEW well,
           NEW g, g.active = (IF rest = <<>> THEN s.active ELSE rest[1]), g.default = FirstOf(rest), g.keys = rest,
           g.manifests = Loses(s.manifests, a), well => Good(g),
           NEW u, u = <<<<"teardown", a, TRUE>>>> \o FallBack(rest), u # <<>>
    PROVE  Recovers(u, s, force, well)
<1> DEFINE m == <<"teardown", a, TRUE>>
           r == Calm(s)
           y == TakenBack(a, s)
           z == Fallen(rest, y)
           W == Retreat(force)
<1>1. /\ r \in Mark /\ y \in Mark /\ ~y.caught /\ m \in MoveSteps /\ y = Effect(m, r) /\ <<m, r>> \in W
      /\ y.active = s.active /\ y.manifests = Loses(s.manifests, a)
  BY TakesBack
<1> HIDE DEF y, r
<1>2. Lead(FallBack(rest), y, z, W)
  BY <1>1, LeadFallBack
<1>3. z \in Mark
  BY <1>1, FallenIs
<1>4. /\ z.active = (IF rest = <<>> THEN s.active ELSE rest[1]) /\ z.default = FirstOf(rest) /\ z.keys = rest
      /\ z.manifests = Loses(s.manifests, a)
  BY <1>1 DEF Mark, Fallen
<1>5. FallBack(rest) \in Seq(MoveSteps)
  BY FallBackIs
<1>6. u = <<m>> \o FallBack(rest)
  OBVIOUS
<1> HIDE DEF m, z, W
<1>7. Lead(<<m>> \o FallBack(rest), r, z, W)
  BY <1>1, <1>2, <1>5, LeadFirst
<1>8. well => Good(z)
  BY <1>4, SameGood
<1>9. QED
  BY <1>3, <1>6, <1>7, <1>8 DEF Recovers, W, r, Calm

\* A command that begins.
LEMMA BeginHeads ==
    ASSUME TypeInv, Heading, NEW from \in Agents \cup {None}, NEW force \in BOOLEAN, NEW undo \in Seq(MoveSteps),
           NEW steps \in Seq(MoveSteps), steps # <<>>, BeginMove(from, force, undo, steps),
           NEW z \in Mark, Lead(steps, Now, z, Course(undo, force, ~broken)), ~broken => Good(z)
    PROVE  Heading'
<1>1. /\ TypeInv' /\ job' \in MoveJob /\ job = NoJob
      /\ job'.from = from /\ job'.force = force /\ job'.undo = undo /\ job'.caught = FALSE /\ job'.done = FALSE
  BY BeginMoveTypes
<1>2. todo' = steps /\ UNCHANGED <<active, integ, manifests, stripped, core, noted, broken>>
  BY DEF BeginMove, integVars
<1>3. job.op = "none" /\ job'.op = "move"
  BY <1>1, NoJobIs DEF MoveJob
<1>4. ~broken => Good(Now)
  BY <1>3 DEF Heading
<1>5. Now' = Now
  <2>1. (Now \in Mark)'
    BY <1>1, NowIs, PTL
  <2>2. /\ Now'.active = Now.active /\ Now'.default = Now.default /\ Now'.keys = Now.keys
        /\ Now'.manifests = Now.manifests /\ Now'.theirs = Now.theirs /\ Now'.caught = Now.caught
    BY <1>1, <1>2, <1>3 DEF Now, Theirs, Record
  <2>3. Now' \in Mark /\ Now \in Mark
    BY <2>1, NowIs DEF Mark
  <2>4. QED
    BY <2>2, <2>3, SameMark
<1>6. Lead(todo', Now', z, Course(job'.undo, job'.force, ~broken'))
  BY <1>1, <1>2, <1>5
<1>7. noted'.file.by = User => noted'.recovered
  BY <1>2 DEF Heading
<1>8. Good(Now') <=> Good(Now)'
  BY DEF Good, Fits, Keys, Once
<1>9. QED
  BY <1>2, <1>3, <1>4, <1>5, <1>6, <1>7, <1>8 DEF Heading

\* Where it begins.
LEMMA Beginning ==
    ASSUME TypeInv, Heading, job = NoJob
    PROVE  /\ Now \in Mark /\ ~Now.caught /\ (~broken => Good(Now))
           /\ Now.active = active /\ Now.default = integ.default /\ Now.keys = integ.installed
           /\ Now.manifests = Record /\ Now.theirs = Theirs
           /\ integ.installed \in Seq(Agents) /\ integ.default \in Agents \cup {None}
<1>1. job.op = "none"
  BY NoJobIs
<1>2. QED
  BY <1>1, NowIs, MoveFields DEF Now, Heading

LEMMA UseHeads ==
    ASSUME TypeInv, Heading, NEW a \in Agents, NEW force \in BOOLEAN, Use(a, force)
    PROVE  Heading'
<1> DEFINE keys == integ.installed
           s == Now
           y == [s EXCEPT !.default = a, !.keys = keys]
           z == [y EXCEPT !.active = a]
           W == Course(<<>>, force, ~broken)
<1>1. job = NoJob /\ a \in Present
  BY UseTypes DEF Use
<1>2. /\ s \in Mark /\ ~s.caught /\ (~broken => Good(s)) /\ s.keys = keys /\ keys \in Seq(Agents)
      /\ s.manifests = Record
  BY <1>1, Beginning
<1>3. y \in Mark /\ z \in Mark /\ ~y.caught
  BY <1>2 DEF Mark
<1>4. /\ z.active = a /\ z.default = a /\ z.keys = keys /\ z.manifests = s.manifests
      /\ y = [s EXCEPT !.default = a, !.keys = keys] /\ z = [y EXCEPT !.active = a]
  BY <1>2 DEF Mark
<1> HIDE DEF s, y, z, keys
<1>5. /\ <<"infra", a, TRUE, force>> \in MoveSteps /\ <<"json", a, keys>> \in MoveSteps /\ <<"options", a>> \in MoveSteps
  BY <1>2, DefaultSteps
<1>6. Plain(<<"infra", a, TRUE, force>>, force) /\ Plain(<<"json", a, keys>>, force) /\ Plain(<<"options", a>>, force)
  BY DEF Plain
<1>7. /\ <<<<"infra", a, TRUE, force>>, s>> \in W /\ <<<<"json", a, keys>>, s>> \in W /\ <<<<"options", a>>, y>> \in W
  BY <1>2, <1>3, <1>5, <1>6, PlainIsAllowed
<1> HIDE DEF W
<1>8. Lead(MakeDefault(a, keys, force), s, z, W)
  BY <1>2, <1>4, <1>7, LeadDefault
<1>9. ~broken => Good(z)
  <2>1. a \in Keys(keys)
    BY <1>1, PresentIs DEF keys
  <2>2. keys # <<>>
    BY <2>1 DEF Keys
  <2>3. QED
    BY <1>2, <1>4, <2>1, <2>2 DEF Good
<1>10. MakeDefault(a, keys, force) \in Seq(MoveSteps) /\ MakeDefault(a, keys, force) # <<>>
  BY <1>2, MakeDefaultIs
<1>11. BeginMove(None, force, <<>>, MakeDefault(a, keys, force))
  BY DEF Use, keys
<1>12. <<>> \in Seq(MoveSteps) /\ None \in Agents \cup {None}
  OBVIOUS
<1> DEFINE steps == MakeDefault(a, keys, force)
<1> HIDE DEF steps
<1>13. steps \in Seq(MoveSteps) /\ steps # <<>> /\ BeginMove(None, force, <<>>, steps) /\ Lead(steps, s, z, W)
  BY <1>8, <1>10, <1>11 DEF steps
<1>14. QED
  BY <1>3, <1>9, <1>12, <1>13, BeginHeads DEF s, W

LEMMA UninstallHeads ==
    ASSUME TypeInv, Heading, NEW a \in Agents, NEW force \in BOOLEAN, Uninstall(a, force)
    PROVE  Heading'
<1> DEFINE rest == Without(a)
           keys == integ.installed
           d == integ.default
           s == Now
           well == ~broken
           V == Course(<<>>, force, well)
           first == IF a \in manifests THEN <<<<"teardown", a, force>>>> ELSE <<>>
           last == IF d = a THEN FallBack(rest) \o <<<<"forget", a>>>> ELSE <<<<"json", d, rest>>>>
<1>1. job = NoJob /\ a \in Present
  BY UninstallTypes DEF Uninstall
<1>2. /\ s \in Mark /\ ~s.caught /\ (well => Good(s)) /\ s.keys = keys /\ s.active = active /\ s.default = d
      /\ s.manifests = Record /\ keys \in Seq(Agents) /\ d \in Agents \cup {None}
  BY <1>1, Beginning
<1>3. /\ rest \in Seq(Agents) /\ Present = Keys(keys) /\ (Once(keys) => Once(rest) /\ Keys(rest) = Keys(keys) \ {a})
  BY WithoutKeys, PresentIs
<1>4. BeginMove(None, force, <<>>, first \o last)
  BY DEF Uninstall
<1> HIDE DEF rest, keys, d, s, well
<1>5. PICK y \in Mark :
        /\ Lead(first, s, y, V) /\ ~y.caught
        /\ y.active = s.active /\ y.default = s.default /\ y.keys = s.keys /\ y.manifests = Loses(s.manifests, a)
  <2>1. CASE a \in manifests
    <3> DEFINE m == <<"teardown", a, force>>
               y == Effect(m, s)
    <3>1. m \in MoveSteps /\ m[1] = "teardown" /\ m[2] = a /\ m[3] = force
      BY DEF MoveSteps
    <3>2. y \in Mark /\ ~y.caught /\ y.active = s.active /\ y.default = s.default /\ y.keys = s.keys
          /\ y.manifests = Loses(s.manifests, a)
      BY <1>2, <3>1, EffectIs DEF Effect, Mark
    <3>3. MayDo(m, s, <<>>, force, well)
      BY <1>2, <3>1 DEF MayDo, Spares
    <3>4. <<m, s>> \in V
      BY <1>2, <3>1, <3>3 DEF Course
    <3>5. first = <<m>>
      BY <2>1
    <3> HIDE DEF m, V
    <3>6. Lead(<<m>>, s, y, V)
      BY <1>2, <3>1, <3>4, LeadOne
    <3>7. QED
      BY <3>2, <3>5, <3>6
  <2>2. CASE a \notin manifests
    <3>1. first = <<>> /\ s.manifests = Loses(s.manifests, a)
      <4>1. manifests \ {a} = manifests
        BY <2>2
      <4>2. s.manifests = Record /\ Record.kept = manifests /\ Record.bare = stripped
        BY <1>2 DEF Record
      <4>3. Loses(Record, a) = Record
        BY <4>1, <4>2 DEF Record, Loses
      <4>4. QED
        BY <2>2, <4>2, <4>3
    <3> HIDE DEF V, first
    <3>2. Lead(first, s, s, V)
      BY <1>2, <3>1, LeadNone
    <3>3. QED
      BY <1>2, <3>1, <3>2
  <2>3. QED
    BY <2>1, <2>2
<1>6. PICK z \in Mark :
        /\ Lead(last, y, z, V) /\ last \in Seq(MoveSteps) /\ last # <<>>
        /\ well => Good(z)
  <2>1. CASE d = a
    <3> DEFINE f == FallBack(rest)
               m == <<"forget", a>>
               u == <<m>>
               x == Fallen(rest, y)
               z == Effect(m, x)
    <3>1. /\ m \in MoveSteps /\ Plain(m, force) /\ f \in Seq(MoveSteps) /\ u \in Seq(MoveSteps) /\ u # <<>>
          /\ last = f \o u
      BY <1>3, <2>1, StepsAre, ListsAre, FallBackIs DEF Plain
    <3>2. Lead(f, y, x, V)
      BY <1>3, <1>5, LeadFallBack
    <3>3. x \in Mark /\ ~x.caught
      BY <1>3, <1>5, FallenIs DEF Fallen, Mark
    <3>4. <<m, x>> \in V
      BY <3>1, <3>3, PlainIsAllowed
    <3>5. /\ x.default = FirstOf(rest) /\ x.keys = rest /\ x.active = (IF rest = <<>> THEN s.active ELSE rest[1])
          /\ x.manifests = Loses(s.manifests, a)
      BY <1>5 DEF Fallen, Mark
    <3> HIDE DEF x
    <3>6. /\ z \in Mark /\ z.default = x.default /\ z.keys = x.keys /\ z.manifests = x.manifests
          /\ z.active = IF x.active = a THEN None ELSE x.active
      BY <3>1, <3>3, EffectIs DEF Effect, Mark
    <3> HIDE DEF m, f, V, last, z
    <3>7. Lead(u, x, z, V)
      BY <3>1, <3>3, <3>4, LeadOne DEF z
    <3> HIDE DEF u
    <3>8. Lead(f \o u, y, z, V)
      BY <3>1, <3>2, <3>7, LeadJoin
    <3>9. f \o u \in Seq(MoveSteps) /\ f \o u # <<>>
      BY <3>1, Together
    <3>10. ASSUME well PROVE Good(z)
      <4>1. /\ s.active = a /\ Fits(s.manifests, keys) /\ Once(keys)
        BY <1>2, <2>1, <3>10 DEF Good
      <4>2. Fits(z.manifests, z.keys) /\ Once(z.keys) /\ a \notin Keys(rest) /\ z.keys = rest
        BY <1>3, <3>5, <3>6, <4>1, LostFits
      <4>3. CASE rest = <<>>
        BY <3>5, <3>6, <4>1, <4>2, <4>3 DEF Good, FirstOf
      <4>4. CASE rest # <<>>
        <5>1. rest[1] \in Keys(rest) /\ rest[1] # a
          BY <1>3, <4>2, <4>4, FirstIs
        <5>2. z.active = rest[1] /\ z.default = rest[1]
          BY <3>5, <3>6, <4>4, <5>1 DEF FirstOf
        <5>3. QED
          BY <4>2, <4>4, <5>1, <5>2 DEF Good
      <4>5. QED
        BY <4>3, <4>4
    <3>11. QED
      BY <3>1, <3>6, <3>8, <3>9, <3>10
  <2>2. CASE d # a
    <3> DEFINE m == <<"json", d, rest>>
               z == Effect(m, y)
    <3>1. /\ m \in MoveSteps /\ Plain(m, force) /\ last = <<m>> /\ <<m>> \in Seq(MoveSteps) /\ <<m>> # <<>>
      BY <1>2, <1>3, <2>2, StepsAre, ListsAre DEF Plain
    <3>2. <<m, y>> \in V
      BY <1>5, <3>1, PlainIsAllowed
    <3>3. z \in Mark /\ z.active = s.active /\ z.default = d /\ z.keys = rest /\ z.manifests = Loses(s.manifests, a)
      BY <1>5, <3>1, EffectIs DEF Effect, Mark
    <3> HIDE DEF m, V, last
    <3>4. Lead(<<m>>, y, z, V)
      BY <3>1, <3>2, LeadOne
    <3> HIDE DEF z
    <3>5. ASSUME well PROVE Good(z)
      <4>1. /\ s.active = s.default /\ Fits(s.manifests, keys) /\ Once(keys)
            /\ IF keys = <<>> THEN s.default = None ELSE s.default \in Keys(keys)
        BY <1>2, <3>5 DEF Good
      <4>2. keys # <<>>
        BY <1>1, <1>3 DEF Keys
      <4>3. d \in Keys(rest) /\ Keys(rest) = Keys(keys) \ {a} /\ Once(rest)
        BY <1>2, <1>3, <2>2, <4>1, <4>2
      <4>4. rest # <<>>
        BY <4>3 DEF Keys
      <4>5. QED
        BY <1>2, <3>3, <4>1, <4>3, <4>4, LostFits DEF Good
    <3>6. QED
      BY <3>1, <3>3, <3>4, <3>5
  <2>3. QED
    BY <2>1, <2>2
<1>7. first \in Seq(MoveSteps)
  <2>1. <<>> \in Seq(MoveSteps)
    OBVIOUS
  <2>2. <<<<"teardown", a, force>>>> \in Seq(MoveSteps)
    BY StepsAre, ListsAre, Zenon
  <2>3. QED
    BY <2>1, <2>2, Zenon
<1> HIDE DEF first, last, V
<1>8. Lead(first \o last, s, z, V)
  BY <1>5, <1>6, <1>7, LeadJoin
<1>9. first \o last \in Seq(MoveSteps) /\ first \o last # <<>>
  BY <1>6, <1>7, Together, Zenon
<1>10. <<>> \in Seq(MoveSteps) /\ None \in Agents \cup {None}
  OBVIOUS
<1> DEFINE steps == first \o last
<1> HIDE DEF steps
<1>11. steps \in Seq(MoveSteps) /\ steps # <<>> /\ BeginMove(None, force, <<>>, steps) /\ Lead(steps, s, z, V)
  BY <1>4, <1>8, <1>9 DEF steps
<1>12. QED
  BY <1>6, <1>10, <1>11, BeginHeads DEF s, V, well

LEMMA UpgradeHeads ==
    ASSUME TypeInv, Heading, NEW a \in Agents, NEW force \in BOOLEAN, NEW stale \in BOOLEAN,
           Upgrade(a, force, stale)
    PROVE  Heading'
<1> DEFINE keys == integ.installed
           d == integ.default
           s == Now
           well == ~broken
           V == Course(<<>>, force, well)
           m == <<"infra", d, FALSE, force>>
           n == <<"setup", a>>
           y == Effect(n, s)
           first == <<m, n>>
           last == IF d = a THEN MakeDefault(a, keys, force) ELSE <<<<"json", d, keys>>>>
           o == <<"stale", a>>
           end == IF stale THEN <<o>> ELSE <<>>
<1>1. job = NoJob /\ a \in manifests /\ (core[a] = User => force)
  BY UpgradeTypes DEF Upgrade
<1>2. /\ s \in Mark /\ ~s.caught /\ (well => Good(s)) /\ s.keys = keys /\ s.active = active /\ s.default = d
      /\ s.manifests = Record /\ s.theirs = Theirs /\ keys \in Seq(Agents) /\ d \in Agents \cup {None}
  BY <1>1, Beginning
<1>3. a \in s.theirs => force
  BY <1>1, <1>2 DEF Theirs
<1>4. BeginMove(None, force, <<>>, first \o last \o end)
  BY DEF Upgrade
<1> HIDE DEF keys, d, s, well
<1>5. m \in MoveSteps /\ n \in MoveSteps /\ n[1] = "setup" /\ n[2] = a
  BY <1>2 DEF MoveSteps
<1>6. /\ y \in Mark /\ y.active = s.active /\ y.default = s.default /\ y.keys = s.keys
      /\ y.manifests = Saves(s.manifests, a)
  <2>1. y = [s EXCEPT !.manifests = Saves(@, a), !.theirs = @ \ {a}, !.caught = TRUE]
    BY DEF Effect
  <2>2. y \in Mark
    BY <1>2, <1>5, EffectIs
  <2> HIDE DEF y
  <2>3. QED
    BY <1>2, <2>1, <2>2 DEF Mark
<1>7. well => Good(y)
  <2> SUFFICES ASSUME well PROVE Good(y)
    OBVIOUS
  <2>1. Good(s) /\ a \in s.manifests.kept
    BY <1>1, <1>2 DEF Record
  <2>2. Keys(s.keys) = Keys(s.keys) \cup {a}
    BY <2>1 DEF Good, Fits
  <2>3. Fits(y.manifests, y.keys)
    BY <1>6, <2>1, <2>2, SavedFits DEF Good
  <2>4. QED
    BY <1>6, <2>1, <2>3 DEF Good
<1>8. <<m, s>> \in V
  <2>1. Plain(m, force)
    BY DEF Plain
  <2>2. QED
    BY <1>2, <1>5, <2>1, PlainIsAllowed
<1>9. <<n, s>> \in V
  <2> DEFINE x == [s EXCEPT !.theirs = @ \ {n[2]}]
  <2>1. x.active = s.active /\ x.default = s.default /\ x.keys = s.keys /\ x.manifests = s.manifests
    BY <1>2 DEF Mark
  <2>2. well => Good(x)
    BY <1>2, <2>1, SameGood
  <2> HIDE DEF n
  <2>3. MayDo(n, s, <<>>, force, well)
    BY <1>2, <1>3, <1>5, <2>2 DEF MayDo, Spares, Recovers
  <2>4. QED
    BY <1>2, <1>5, <2>3 DEF Course
\* What follows leaves the project good, wherever it stops.
<1>10. ASSUME NEW q \in MoveSteps, Plain(q, force), NEW x \in Mark, well => Good(x)
       PROVE  <<q, x>> \in V
  <2>1. MayDo(q, x, <<>>, force, well)
    BY <1>10 DEF Plain, MayDo, Spares, Recovers
  <2>2. QED
    BY <2>1 DEF Course
<1>11. Effect(m, s) = s
  BY DEF Effect
<1> HIDE DEF m, n, y, V
<1>12. Lead(first, s, y, V)
  <2>1. y = Effect(n, s)
    BY DEF y
  <2>2. QED
    BY <1>2, <1>5, <1>8, <1>9, <1>11, <2>1, LeadTwo
<1>13. PICK z \in Mark : Lead(last, y, z, V) /\ last \in Seq(MoveSteps) /\ (well => Good(z))
  <2>1. CASE d = a
    <3> DEFINE x == [y EXCEPT !.default = a, !.keys = keys]
               z == [x EXCEPT !.active = a]
    <3>1. x \in Mark /\ x.active = y.active /\ x.default = y.default /\ x.keys = y.keys /\ x.manifests = y.manifests
      BY <1>2, <1>6, <2>1 DEF Mark
    <3>2. z \in Mark /\ z.active = a /\ z.default = y.default /\ z.keys = y.keys /\ z.manifests = y.manifests
      BY <3>1 DEF Mark
    <3>3. well => Good(x)
      BY <1>7, <3>1, SameGood
    <3>4. well => Good(z)
      <4>1. well => z.active = y.active
        BY <1>2, <1>6, <1>7, <2>1, <3>2 DEF Good
      <4>2. QED
        BY <1>7, <3>2, <4>1, SameGood
    <3>5. x = [y EXCEPT !.default = a, !.keys = keys] /\ z = [x EXCEPT !.active = a]
      OBVIOUS
    <3> HIDE DEF x, z
    <3>6. /\ <<"infra", a, TRUE, force>> \in MoveSteps /\ <<"json", a, keys>> \in MoveSteps /\ <<"options", a>> \in MoveSteps
      BY <1>2, DefaultSteps
    <3>7. Plain(<<"infra", a, TRUE, force>>, force) /\ Plain(<<"json", a, keys>>, force) /\ Plain(<<"options", a>>, force)
      BY DEF Plain
    <3>8. /\ <<<<"infra", a, TRUE, force>>, y>> \in V /\ <<<<"json", a, keys>>, y>> \in V /\ <<<<"options", a>>, x>> \in V
      BY <1>6, <1>7, <1>10, <3>1, <3>3, <3>6, <3>7
    <3>9. Lead(MakeDefault(a, keys, force), y, z, V)
      BY <1>2, <1>6, <3>5, <3>8, LeadDefault
    <3>10. MakeDefault(a, keys, force) \in Seq(MoveSteps)
      BY <1>2, MakeDefaultIs
    <3>11. QED
      BY <2>1, <3>2, <3>4, <3>9, <3>10
  <2>2. CASE d # a
    <3> DEFINE q == <<"json", d, keys>>
               z == Effect(q, y)
    <3>1. q \in MoveSteps /\ Plain(q, force) /\ <<q>> \in Seq(MoveSteps) /\ last = <<q>>
      BY <1>2, <2>2, StepsAre, ListsAre DEF Plain
    <3>2. <<q, y>> \in V
      BY <1>6, <1>7, <1>10, <3>1
    <3>3. z \in Mark /\ z.active = y.active /\ z.default = y.default /\ z.keys = y.keys /\ z.manifests = y.manifests
      BY <1>2, <1>6, <3>1, EffectIs DEF Effect, Mark
    <3>4. well => Good(z)
      BY <1>7, <3>3, SameGood
    <3> HIDE DEF q, last
    <3>5. Lead(<<q>>, y, z, V)
      BY <1>6, <3>1, <3>2, LeadOne
    <3> HIDE DEF z
    <3>6. QED
      BY <3>1, <3>3, <3>4, <3>5
  <2>3. QED
    BY <2>1, <2>2
<1>14. first \in Seq(MoveSteps) /\ first # <<>>
  BY <1>5, ListsAre
<1>15. o \in MoveSteps /\ o[1] = "stale"
  BY DEF MoveSteps
<1>16. PICK x \in Mark : Lead(end, z, x, V) /\ end \in Seq(MoveSteps) /\ (well => Good(x))
  <2>1. CASE stale
    <3> DEFINE x == Effect(o, z)
    <3>1. MayDo(o, z, <<>>, force, well)
      BY <1>13, <1>15 DEF MayDo, Spares, Recovers
    <3>2. <<o, z>> \in V
      BY <1>13, <1>15, <3>1 DEF V, Course
    <3>3. /\ x \in Mark /\ x.active = z.active /\ x.default = z.default /\ x.keys = z.keys
          /\ x.manifests = Strips(z.manifests, a)
      BY <1>13, <1>15, EffectIs DEF Effect, Mark
    <3>4. well => Good(x)
      BY <1>13, <3>3, StrippedFits DEF Good
    <3>5. end = <<o>> /\ <<o>> \in Seq(MoveSteps)
      BY <1>15, <2>1, ListsAre
    <3> HIDE DEF o, end
    <3>6. Lead(<<o>>, z, x, V)
      BY <1>13, <1>15, <3>2, LeadOne
    <3> HIDE DEF x
    <3>7. QED
      BY <3>3, <3>4, <3>5, <3>6
  <2>2. CASE ~stale
    <3>1. end = <<>> /\ <<>> \in Seq(MoveSteps)
      BY <2>2
    <3> HIDE DEF end
    <3>2. Lead(end, z, z, V)
      BY <1>13, <3>1, LeadNone
    <3>3. QED
      BY <1>13, <3>1, <3>2
  <2>3. QED
    BY <2>1, <2>2
<1> HIDE DEF first, last, end
<1>17. Lead(first \o last, s, z, V)
  BY <1>12, <1>13, <1>14, LeadJoin
<1>18. first \o last \in Seq(MoveSteps) /\ first \o last # <<>>
  BY <1>13, <1>14, Together, Zenon
<1>19. Lead(first \o last \o end, s, x, V)
  BY <1>16, <1>17, <1>18, LeadJoin
<1>20. first \o last \o end \in Seq(MoveSteps) /\ first \o last \o end # <<>>
  BY <1>16, <1>18, Together, Zenon
<1>21. <<>> \in Seq(MoveSteps) /\ None \in Agents \cup {None}
  OBVIOUS
<1> DEFINE steps == first \o last \o end
<1> HIDE DEF steps
<1>22. steps \in Seq(MoveSteps) /\ steps # <<>> /\ BeginMove(None, force, <<>>, steps) /\ Lead(steps, s, x, V)
  BY <1>4, <1>19, <1>20 DEF steps
<1>23. QED
  BY <1>16, <1>21, <1>22, BeginHeads DEF s, V, well

\* A step whose failure is rolled back, or that nothing fails in.
LEMMA RecoverableIsAllowed ==
    ASSUME NEW m \in MoveSteps, NEW s \in Mark, NEW u, NEW force, NEW well, Plain(m, force), Recovers(u, s, force, well)
    PROVE  <<m, s>> \in Course(u, force, well)
<1>1. Spares(m, s, force)
  BY DEF Plain, Spares
<1>2. MayDo(m, s, u, force, well)
  BY <1>1 DEF MayDo, Plain
<1>3. QED
  BY <1>2 DEF Course

LEMMA SetupIsAllowed ==
    ASSUME NEW a \in Agents, NEW s \in Mark, NEW u, NEW force, NEW well, a \notin Keys(s.keys),
           NEW m, m = <<"setup", a>>, NEW x, x = [s EXCEPT !.theirs = @ \ {a}],
           Recovers(u, s, force, well), Recovers(u, x, force, well)
    PROVE  m \in MoveSteps /\ <<m, s>> \in Course(u, force, well)
<1>1. m \in MoveSteps /\ m[1] = "setup" /\ m[2] = a
  BY DEF MoveSteps
<1>2. Spares(m, s, force)
  BY <1>1 DEF Spares
<1>3. MayDo(m, s, u, force, well)
  BY <1>1, <1>2 DEF MayDo
<1>4. QED
  BY <1>1, <1>3 DEF Course

\* What setup makes of s.
LEMMA SetUp ==
    ASSUME NEW a \in Agents, NEW s \in Mark, NEW m \in MoveSteps, m = <<"setup", a>>, NEW y, y = Effect(m, s)
    PROVE  /\ y \in Mark /\ y.active = s.active /\ y.default = s.default /\ y.keys = s.keys
           /\ y.manifests = Saves(s.manifests, a) /\ a \notin y.theirs
<1>1. y = [s EXCEPT !.manifests = Saves(@, a), !.theirs = @ \ {a}, !.caught = TRUE]
  BY DEF Effect
<1>2. y \in Mark
  BY EffectIs
<1>3. QED
  BY <1>1, <1>2 DEF Mark

LEMMA InstallHeads ==
    ASSUME TypeInv, Heading, NEW a \in Agents, Install(a)
    PROVE  Heading'
<1> DEFINE keys == integ.installed
           d0 == integ.default
           d == IF keys = <<>> THEN a ELSE d0
           more == Append(keys, a)
           s == Now
           well == ~broken
           undo == <<<<"teardown", a, TRUE>>, <<"json", d0, keys>>>>
           last == IF keys = <<>> THEN <<<<"options", a>>>> ELSE <<>>
           m == <<"infra", d, FALSE, FALSE>>
           n == <<"setup", a>>
           o == <<"json", d, more>>
           first == <<m, n, o>>
           V == Course(undo, FALSE, well)
           y == Effect(n, s)
           x == Effect(o, y)
<1>1. job = NoJob /\ a \notin Present
  BY InstallTypes DEF Install
<1>2. /\ s \in Mark /\ ~s.caught /\ (well => Good(s)) /\ s.keys = keys /\ s.active = active /\ s.default = d0
      /\ s.manifests = Record /\ s.theirs = Theirs /\ keys \in Seq(Agents) /\ d0 \in Agents \cup {None}
  BY <1>1, Beginning
<1>3. a \notin Keys(keys)
  BY <1>1, PresentIs
<1>4. BeginMove(None, FALSE, undo, first \o last)
  BY DEF Install
<1> HIDE DEF keys, d0, s, well
<1>5. /\ more \in Seq(Agents) /\ more # <<>> /\ Keys(more) = Keys(keys) \cup {a} /\ (Once(keys) => Once(more))
      /\ d \in Agents \cup {None}
  BY <1>2, <1>3, Appended
<1> HIDE DEF more, d
<1>6. /\ m \in MoveSteps /\ n \in MoveSteps /\ o \in MoveSteps /\ undo \in Seq(MoveSteps)
      /\ Plain(m, FALSE) /\ Plain(o, FALSE)
  <2>1. m \in MoveSteps /\ n \in MoveSteps /\ o \in MoveSteps
    BY <1>5, StepsAre, ListsAre
  <2>2. undo \in Seq(MoveSteps)
    BY <1>2, StepsAre, ListsAre, Zenon
  <2>3. Plain(m, FALSE) /\ Plain(o, FALSE)
    BY DEF Plain
  <2>4. QED
    BY <2>1, <2>2, <2>3
\* Until the end of the command the rollback leads back.
<1>7. ASSUME NEW w \in Mark, w.active = s.active, SameBut(w.manifests, s.manifests, a), a \notin w.theirs \/ a \notin Keys(w.keys)
      PROVE  Recovers(undo, w, FALSE, well)
  <2> DEFINE g == [s EXCEPT !.manifests = Loses(w.manifests, a)]
  <2>1. g.active = w.active /\ g.default = d0 /\ g.keys = keys /\ g.manifests = Loses(w.manifests, a)
    BY <1>2, <1>7 DEF Mark
  <2>2. ASSUME well PROVE Good(g)
    <3>1. Fits(s.manifests, keys)
      BY <1>2, <2>2 DEF Good
    <3>2. Fits(g.manifests, g.keys)
      BY <1>3, <1>7, <2>1, <3>1, TakenBackFits
    <3>3. QED
      BY <1>2, <1>7, <2>1, <2>2, <3>2 DEF Good
  <2>3. undo = <<<<"teardown", a, TRUE>>, <<"json", d0, keys>>>>
    OBVIOUS
  <2> HIDE DEF g, undo
  <2>4. QED
    BY <1>2, <1>7, <2>1, <2>2, <2>3, InstallRecovers
<1> HIDE DEF undo
<1>8. <<m, s>> \in V /\ Effect(m, s) = s
  <2>1. Effect(m, s) = s
    BY DEF Effect
  <2>2. QED
    BY <1>2, <1>6, <2>1, PlainIsAllowed
<1>9. <<n, s>> \in V
  <2> DEFINE w == [s EXCEPT !.theirs = @ \ {a}]
  <2>1. w \in Mark /\ w.active = s.active /\ w.manifests = s.manifests /\ w.keys = s.keys
    BY <1>2 DEF Mark
  <2>2. SameBut(s.manifests, s.manifests, a)
    BY DEF SameBut
  <2>3. Recovers(undo, s, FALSE, well) /\ Recovers(undo, w, FALSE, well)
    BY <1>2, <1>3, <1>7, <2>1, <2>2
  <2>4. n = <<"setup", a>> /\ w = [s EXCEPT !.theirs = @ \ {a}]
    OBVIOUS
  <2> HIDE DEF n, w
  <2>5. QED
    BY <1>2, <1>3, <2>3, <2>4, SetupIsAllowed
<1>10. /\ y \in Mark /\ y.active = s.active /\ y.manifests = Saves(s.manifests, a) /\ a \notin y.theirs
  BY <1>2, <1>6, SetUp
<1> HIDE DEF y
<1>11. /\ x \in Mark /\ x.active = s.active /\ x.manifests = Saves(s.manifests, a) /\ a \notin x.theirs
       /\ x.default = d /\ x.keys = more
  <2>1. x = [y EXCEPT !.default = d, !.keys = more]
    BY DEF Effect
  <2>2. x \in Mark
    BY <1>6, <1>10, EffectIs
  <2> HIDE DEF x
  <2>3. QED
    BY <1>10, <2>1, <2>2 DEF Mark
<1>12. <<o, y>> \in V
  <2>1. SameBut(y.manifests, s.manifests, a)
    BY <1>2, <1>10, SavedSame DEF Mark
  <2>2. Recovers(undo, y, FALSE, well)
    BY <1>7, <1>10, <2>1
  <2> HIDE DEF o
  <2>3. QED
    BY <1>6, <1>10, <2>2, RecoverableIsAllowed
<1>13. Lead(first, s, x, V)
  <2>1. y = Effect(n, s) /\ x = Effect(o, y)
    BY DEF y
  <2> HIDE DEF m, n, o, x, V
  <2>2. Lead(<<m, n, o>>, s, x, V)
    BY <1>2, <1>6, <1>8, <1>9, <1>12, <2>1, LeadThree
  <2>3. QED
    BY <2>2
<1>14. PICK z \in Mark : Lead(last, x, z, V) /\ last \in Seq(MoveSteps) /\ (well => Good(z))
  <2> HIDE DEF x
  <2>1. CASE keys = <<>>
    <3> DEFINE p == <<"options", a>>
               z == Effect(p, x)
    <3>1. p \in MoveSteps /\ Plain(p, FALSE) /\ <<p>> \in Seq(MoveSteps) /\ last = <<p>>
      BY <2>1, StepsAre, ListsAre DEF Plain
    <3>2. Recovers(undo, x, FALSE, well)
      <4>1. SameBut(x.manifests, s.manifests, a)
        BY <1>2, <1>11, SavedSame DEF Mark
      <4>2. QED
        BY <1>7, <1>11, <4>1
    <3>3. <<p, x>> \in V
      BY <1>11, <3>1, <3>2, RecoverableIsAllowed
    <3>4. z \in Mark /\ z.active = a /\ z.default = x.default /\ z.keys = x.keys /\ z.manifests = x.manifests
      BY <1>11, <3>1, EffectIs DEF Effect, Mark
    <3> HIDE DEF p, last, V
    <3>5. Lead(<<p>>, x, z, V)
      BY <1>11, <3>1, <3>3, LeadOne
    <3> HIDE DEF z
    <3>6. ASSUME well PROVE Good(z)
      <4>1. Fits(s.manifests, keys) /\ Once(keys) /\ d = a
        BY <1>2, <2>1, <3>6 DEF Good, d
      <4>2. Fits(z.manifests, more) /\ Once(more) /\ a \in Keys(more)
        BY <1>5, <1>11, <3>4, <4>1, SavedFits
      <4>3. QED
        BY <1>5, <1>11, <3>4, <4>1, <4>2 DEF Good
    <3>7. QED
      BY <3>1, <3>4, <3>5, <3>6
  <2>2. CASE keys # <<>>
    <3>1. last = <<>> /\ <<>> \in Seq(MoveSteps)
      BY <2>2
    <3> HIDE DEF last, V
    <3>2. Lead(last, x, x, V)
      BY <1>11, <3>1, LeadNone
    <3>3. ASSUME well PROVE Good(x)
      <4>1. Fits(s.manifests, keys) /\ Once(keys) /\ d = d0 /\ s.active = s.default /\ s.default \in Keys(keys)
        BY <1>2, <2>2, <3>3 DEF Good, d
      <4>2. Fits(x.manifests, more) /\ Once(more) /\ d0 \in Keys(more)
        BY <1>2, <1>5, <1>11, <4>1, SavedFits
      <4>3. QED
        BY <1>2, <1>5, <1>11, <4>1, <4>2 DEF Good
    <3>4. QED
      BY <1>11, <3>1, <3>2, <3>3
  <2>3. QED
    BY <2>1, <2>2
<1>15. first \in Seq(MoveSteps) /\ first # <<>>
  BY <1>6, ListsAre
<1> HIDE DEF first, last, V, x
<1>16. Lead(first \o last, s, z, V)
  BY <1>13, <1>14, <1>15, LeadJoin
<1>17. first \o last \in Seq(MoveSteps) /\ first \o last # <<>>
  BY <1>14, <1>15, Together, Zenon
<1>18. None \in Agents \cup {None} /\ FALSE \in BOOLEAN
  OBVIOUS
<1> DEFINE steps == first \o last
<1> HIDE DEF steps
<1>19. steps \in Seq(MoveSteps) /\ steps # <<>> /\ BeginMove(None, FALSE, undo, steps) /\ Lead(steps, s, z, V)
  BY <1>4, <1>16, <1>17 DEF steps
<1>20. QED
  BY <1>6, <1>14, <1>18, <1>19, BeginHeads DEF s, V, well

\* The steps that take the old default out.
Off(force) ==
    LET old == integ.default IN
    IF old = None THEN <<>>
    ELSE <<<<"teardown", old, force>>, <<"unartifact", old>>, <<"forget", old>>>> \o FallBack(Without(old))

\* They leave the first of the rest as the default.
LEMMA SwitchedOff ==
    ASSUME TypeInv, Heading, job = NoJob, NEW force \in BOOLEAN, NEW more, force => more, NEW undo
    PROVE  /\ Off(force) \in Seq(MoveSteps) /\ Without(integ.default) \in Seq(Agents)
           /\ Keys(Without(integ.default)) \subseteq Present
           /\ \E y \in Mark :
                /\ Lead(Off(force), Now, y, Course(undo, more, ~broken)) /\ ~y.caught /\ y.keys = Without(integ.default)
                /\ ~broken => Good(y)
<1> DEFINE old == integ.default
           rest == Without(old)
           out == Off(force)
<1>0. out = IF old = None THEN <<>>
            ELSE <<<<"teardown", old, force>>, <<"unartifact", old>>, <<"forget", old>>>> \o FallBack(rest)
  BY DEF Off
<1> DEFINE keys == integ.installed
           s == Now
           well == ~broken
           V == Course(undo, more, well)
<1>1. /\ s \in Mark /\ ~s.caught /\ (well => Good(s)) /\ s.keys = keys /\ s.default = old
      /\ keys \in Seq(Agents) /\ old \in Agents \cup {None}
  BY Beginning
<1>2. /\ rest \in Seq(Agents) /\ Present = Keys(keys) /\ Keys(rest) \subseteq Present
      /\ (Once(keys) => Once(rest) /\ Keys(rest) = Keys(keys) \ {old})
  BY WithoutKeys, PresentIs
<1>3. old = None => rest = keys
  <2>1. None \notin Present
    <3>1. Keys(keys) \subseteq Agents
      BY <1>1 DEF Keys
    <3>2. QED
      BY <1>2, <3>1, ExtensionAssumption
  <2>2. QED
    BY <2>1 DEF Without
<1> HIDE DEF keys, s, well, old, rest, out
<1>4. CASE old = None
  <2>1. out = <<>> /\ <<>> \in Seq(MoveSteps)
    BY <1>0, <1>4
  <2> HIDE DEF V
  <2>2. Lead(out, s, s, V)
    BY <1>1, <2>1, LeadNone
  <2>3. s \in Mark /\ ~s.caught /\ s.keys = rest /\ (well => Good(s))
    BY <1>1, <1>3, <1>4
  <2>4. QED
    BY <1>2, <2>1, <2>2, <2>3 DEF s, V, well, out, rest, old
<1>5. CASE old # None
  <2> DEFINE m == <<"teardown", old, force>>
             n == <<"unartifact", old>>
             o == <<"forget", old>>
             f == FallBack(rest)
             first == <<m, n, o>>
             x == Effect(m, s)
             w == Effect(o, x)
             y == Fallen(rest, w)
  <2>1. /\ m \in MoveSteps /\ n \in MoveSteps /\ o \in MoveSteps /\ m[1] = "teardown" /\ m[2] = old /\ m[3] = force
        /\ Plain(n, more) /\ Plain(o, more) /\ first \in Seq(MoveSteps) /\ out = first \o f
    <3>1. m \in MoveSteps /\ n \in MoveSteps /\ o \in MoveSteps
      BY <1>1, <1>5, StepsAre, ListsAre
    <3>2. m[1] = "teardown" /\ m[2] = old /\ m[3] = force /\ Plain(n, more) /\ Plain(o, more)
      BY DEF Plain
    <3>3. out = first \o f
      BY <1>0, <1>5
    <3> HIDE DEF m, n, o
    <3>4. QED
      BY <3>1, <3>2, <3>3, ListsAre
  <2>2. <<m, s>> \in V
    <3> HIDE DEF m
    <3>1. MayDo(m, s, undo, more, well)
      BY <1>1, <2>1 DEF MayDo, Spares
    <3>2. QED
      BY <1>1, <2>1, <3>1 DEF Course
  <2>3. /\ x \in Mark /\ ~x.caught /\ x.active = s.active /\ x.manifests = Loses(s.manifests, old)
    <3>1. x \in Mark
      BY <1>1, <2>1, EffectIs
    <3>2. x = [s EXCEPT !.manifests = Loses(@, old), !.theirs = IF force THEN @ \ {old} ELSE @]
      BY DEF Effect
    <3> HIDE DEF x
    <3>3. QED
      BY <1>1, <3>1, <3>2 DEF Mark
  <2> HIDE DEF x
  <2>4. Effect(n, x) = x
    BY DEF Effect
  <2>5. /\ w \in Mark /\ ~w.caught /\ w.manifests = x.manifests /\ w.active = IF x.active = old THEN None ELSE x.active
    <3>1. w \in Mark
      BY <2>1, <2>3, EffectIs
    <3>2. w = [x EXCEPT !.active = IF @ = old THEN None ELSE @]
      BY DEF Effect
    <3> HIDE DEF w
    <3>3. QED
      BY <2>3, <3>1, <3>2 DEF Mark
  <2>6. <<n, x>> \in V /\ <<o, x>> \in V
    BY <2>1, <2>3, PlainIsAllowed
  <2>7. x = Effect(m, s) /\ w = Effect(o, x)
    BY DEF x
  <2> HIDE DEF m, n, o, w, V
  <2>8. Lead(<<m, n, o>>, s, w, V)
    BY <1>1, <2>1, <2>2, <2>4, <2>6, <2>7, LeadThree
  <2>9. Lead(f, w, y, V)
    BY <1>2, <2>5, LeadFallBack DEF V
  <2>10. y \in Mark /\ ~y.caught /\ y.keys = rest /\ y.default = FirstOf(rest) /\ y.manifests = w.manifests
         /\ y.active = (IF rest = <<>> THEN w.active ELSE rest[1])
    BY <1>2, <2>5, FallenIs DEF Fallen, Mark
  <2>11. f \in Seq(MoveSteps)
    BY <1>2, FallBackIs
  <2> HIDE DEF f, y
  <2>12. Lead(first, s, w, V)
    BY <2>8
  <2> HIDE DEF first
  <2>13. Lead(first \o f, s, y, V) /\ first \o f \in Seq(MoveSteps)
    BY <2>1, <2>9, <2>11, <2>12, LeadJoin, Together
  <2>14. ASSUME well PROVE Good(y)
    <3>1. s.active = old /\ Fits(s.manifests, keys) /\ Once(keys)
      BY <1>1, <2>14 DEF Good
    <3>2. Fits(y.manifests, rest) /\ Once(rest) /\ w.active = None
      BY <1>2, <2>3, <2>5, <2>10, <3>1, LostFits
    <3>3. CASE rest = <<>>
      BY <2>10, <3>2, <3>3 DEF Good, FirstOf
    <3>4. CASE rest # <<>>
      BY <1>2, <2>10, <3>2, <3>4, FirstIs DEF Good, FirstOf
    <3>5. QED
      BY <3>3, <3>4
  <2>15. QED
    BY <1>2, <2>1, <2>10, <2>13, <2>14 DEF s, V, well, out, rest, old
<1>6. QED
  BY <1>4, <1>5

LEMMA SwitchHeads ==
    ASSUME TypeInv, Heading, NEW a \in Agents, NEW force \in BOOLEAN, NEW all \in BOOLEAN, Switch(a, force, all)
    PROVE  Heading'
<1> DEFINE old == integ.default
           rest == Without(old)
           more == force \/ all
           keys == With(rest, a)
           s == Now
           well == ~broken
           undo == <<<<"teardown", a, TRUE>>>> \o FallBack(rest)
           out == IF old = None THEN <<>>
                  ELSE <<<<"teardown", old, force>>, <<"unartifact", old>>, <<"forget", old>>>> \o FallBack(rest)
           m == <<"infra", a, TRUE, all>>
           n == <<"setup", a>>
           o == <<"artifacts", a>>
           in == <<m, n>>
           set == MakeDefault(a, keys, FALSE)
           end == <<o>>
           V == Course(undo, more, well)
<1>1. job = NoJob /\ a \notin Present
  BY SwitchTypes DEF Switch
<1>2. s \in Mark /\ ~s.caught /\ old \in Agents \cup {None}
  BY <1>1, Beginning
<1>3. BeginMove(old, more, undo, out \o in \o set \o end)
  BY DEF Switch
<1>4. /\ out \in Seq(MoveSteps) /\ rest \in Seq(Agents) /\ Keys(rest) \subseteq Present
      /\ \E y \in Mark : /\ Lead(out, s, y, V) /\ ~y.caught /\ y.keys = rest
                         /\ well => Good(y)
  <2>1. out = Off(force) /\ (force => more)
    BY DEF Off
  <2> DEFINE u == undo
             b == more
  <2> HIDE DEF u, b
  <2>2. force => b
    BY <2>1 DEF b
  <2>3. /\ Off(force) \in Seq(MoveSteps) /\ Without(integ.default) \in Seq(Agents)
        /\ Keys(Without(integ.default)) \subseteq Present
        /\ \E y \in Mark :
             /\ Lead(Off(force), Now, y, Course(u, b, ~broken)) /\ ~y.caught /\ y.keys = Without(integ.default)
             /\ ~broken => Good(y)
    BY <1>1, <2>2, SwitchedOff
  <2> HIDE DEF out
  <2>4. QED
    BY <2>1, <2>3 DEF u, b
<1> HIDE DEF rest, old, s, well, out
<1>5. PICK y \in Mark : Lead(out, s, y, V) /\ ~y.caught /\ y.keys = rest /\ (well => Good(y))
  BY <1>4
<1>6. /\ undo \in Seq(MoveSteps) /\ undo # <<>> /\ FallBack(rest) \in Seq(MoveSteps)
  <2>1. <<<<"teardown", a, TRUE>>>> \in Seq(MoveSteps) /\ <<<<"teardown", a, TRUE>>>> # <<>>
    BY StepsAre, ListsAre, Zenon
  <2>2. FallBack(rest) \in Seq(MoveSteps) /\ FallBack(rest) # <<>>
    BY <1>4, FallBackIs
  <2>3. QED
    BY <2>1, <2>2, Together, Zenon
<1>7. /\ a \notin Keys(rest) /\ keys = Append(rest, a) /\ keys \in Seq(Agents) /\ keys # <<>>
      /\ Keys(keys) = Keys(rest) \cup {a} /\ (Once(rest) => Once(keys))
  BY <1>1, <1>4, WithNew, Appended
<1>8. /\ m \in MoveSteps /\ n \in MoveSteps /\ o \in MoveSteps /\ Plain(m, more)
      /\ in \in Seq(MoveSteps) /\ in # <<>> /\ end \in Seq(MoveSteps) /\ end # <<>>
      /\ set \in Seq(MoveSteps) /\ set # <<>>
  <2>1. m \in MoveSteps /\ n \in MoveSteps /\ o \in MoveSteps
    BY StepsAre, ListsAre
  <2>2. Plain(m, more)
    BY DEF Plain
  <2> HIDE DEF keys, m, n, o
  <2>3. set \in Seq(MoveSteps) /\ set # <<>>
    BY <1>7, MakeDefaultIs
  <2>4. QED
    BY <2>1, <2>2, <2>3, ListsAre
<1> HIDE DEF keys
\* Until the end of the command the rollback leads back.
<1>9. ASSUME NEW w \in Mark, w.active = y.active, SameBut(w.manifests, y.manifests, a), a \notin w.theirs \/ a \notin Keys(w.keys)
      PROVE  Recovers(undo, w, more, well)
  <2> DEFINE g == [active |-> IF rest = <<>> THEN w.active ELSE rest[1], default |-> FirstOf(rest), keys |-> rest,
                   manifests |-> Loses(w.manifests, a)]
  <2>1. g.active = (IF rest = <<>> THEN w.active ELSE rest[1]) /\ g.default = FirstOf(rest) /\ g.keys = rest
        /\ g.manifests = Loses(w.manifests, a)
    OBVIOUS
  <2> HIDE DEF g
  <2>2. ASSUME well PROVE Good(g)
    <3>1. /\ y.active = y.default /\ Fits(y.manifests, rest) /\ Once(rest)
          /\ IF rest = <<>> THEN y.default = None ELSE y.default \in Keys(rest)
      BY <1>5, <2>2 DEF Good
    <3>2. Fits(g.manifests, rest)
      BY <1>7, <1>9, <2>1, <3>1, TakenBackFits
    <3>3. CASE rest = <<>>
      BY <1>9, <2>1, <3>1, <3>2, <3>3 DEF Good, FirstOf
    <3>4. CASE rest # <<>>
      BY <1>4, <2>1, <3>1, <3>2, <3>4, FirstIs DEF Good, FirstOf
    <3>5. QED
      BY <3>3, <3>4
  <2>3. undo = <<<<"teardown", a, TRUE>>>> \o FallBack(rest)
    OBVIOUS
  <2> HIDE DEF undo, more
  <2>4. QED
    BY <1>4, <1>6, <1>9, <2>1, <2>2, <2>3, SwitchRecovers
<1> HIDE DEF undo, more
<1>10. <<m, y>> \in V /\ Effect(m, y) = y
  <2>1. Effect(m, y) = y
    BY DEF Effect
  <2>2. QED
    BY <1>5, <1>8, <2>1, PlainIsAllowed
<1>11. <<n, y>> \in V
  <2> DEFINE w == [y EXCEPT !.theirs = @ \ {a}]
  <2>1. w \in Mark /\ w.active = y.active /\ w.manifests = y.manifests /\ w.keys = y.keys
    BY DEF Mark
  <2>2. SameBut(y.manifests, y.manifests, a)
    BY DEF SameBut
  <2>3. Recovers(undo, y, more, well) /\ Recovers(undo, w, more, well)
    BY <1>5, <1>7, <1>9, <2>1, <2>2
  <2>4. n = <<"setup", a>> /\ w = [y EXCEPT !.theirs = @ \ {a}]
    OBVIOUS
  <2> HIDE DEF n, w
  <2>5. QED
    BY <1>5, <1>7, <2>3, <2>4, SetupIsAllowed
<1> DEFINE x == Effect(n, y)
<1>12. /\ x \in Mark /\ x.active = y.active /\ x.manifests = Saves(y.manifests, a) /\ a \notin x.theirs
  BY <1>8, SetUp
<1>13. x = Effect(n, y)
  OBVIOUS
<1> HIDE DEF x
<1>14. Lead(in, y, x, V)
  <2> HIDE DEF m, n, V
  <2>1. QED
    BY <1>8, <1>10, <1>11, <1>13, LeadTwo
<1> DEFINE v == [x EXCEPT !.default = a, !.keys = keys]
           z == [v EXCEPT !.active = a]
<1>15. v \in Mark /\ v.active = y.active /\ v.manifests = Saves(y.manifests, a) /\ a \notin v.theirs
  BY <1>7, <1>12 DEF Mark
<1>16. z \in Mark /\ z.active = a /\ z.default = a /\ z.keys = keys /\ z.manifests = Saves(y.manifests, a)
  BY <1>7, <1>12 DEF Mark
<1>17. v = [x EXCEPT !.default = a, !.keys = keys] /\ z = [v EXCEPT !.active = a]
  OBVIOUS
<1> HIDE DEF v, z
<1>18. Lead(set, x, z, V)
  <2>1. /\ <<"infra", a, TRUE, FALSE>> \in MoveSteps /\ <<"json", a, keys>> \in MoveSteps /\ <<"options", a>> \in MoveSteps
    BY <1>7, DefaultSteps
  <2>2. Plain(<<"infra", a, TRUE, FALSE>>, more) /\ Plain(<<"json", a, keys>>, more) /\ Plain(<<"options", a>>, more)
    BY DEF Plain
  <2>3. Recovers(undo, x, more, well) /\ Recovers(undo, v, more, well)
    <3>1. SameBut(x.manifests, y.manifests, a) /\ SameBut(v.manifests, y.manifests, a)
      BY <1>12, <1>15, SavedSame DEF Mark
    <3>2. QED
      BY <1>9, <1>12, <1>15, <3>1
  <2>4. /\ <<<<"infra", a, TRUE, FALSE>>, x>> \in V /\ <<<<"json", a, keys>>, x>> \in V /\ <<<<"options", a>>, v>> \in V
    BY <1>12, <1>15, <2>1, <2>2, <2>3, RecoverableIsAllowed
  <2> HIDE DEF V
  <2>5. QED
    BY <1>7, <1>12, <1>17, <2>4, LeadDefault
<1>19. ASSUME well PROVE Good(z)
  <2>1. Fits(y.manifests, rest) /\ Once(rest)
    BY <1>5, <1>19 DEF Good
  <2>2. Fits(z.manifests, keys)
    BY <1>7, <1>16, <2>1, SavedFits
  <2>3. QED
    BY <1>7, <1>16, <2>1, <2>2 DEF Good
<1>20. Lead(end, z, z, V)
  <2>1. Effect(o, z) = z /\ o[1] = "artifacts"
    BY DEF Effect
  <2> HIDE DEF o
  <2>2. MayDo(o, z, undo, more, well)
    BY <1>19, <2>1 DEF MayDo, Spares
  <2>3. <<o, z>> \in V
    BY <1>8, <1>16, <2>2 DEF Course
  <2> HIDE DEF V
  <2>4. QED
    BY <1>8, <1>16, <2>1, <2>3, LeadOne
<1> HIDE DEF in, set, end, V
<1>21. Lead(out \o in, s, x, V) /\ out \o in \in Seq(MoveSteps) /\ out \o in # <<>>
  BY <1>4, <1>5, <1>8, <1>14, LeadJoin, Together
<1>22. Lead(out \o in \o set, s, z, V) /\ out \o in \o set \in Seq(MoveSteps) /\ out \o in \o set # <<>>
  BY <1>8, <1>18, <1>21, LeadJoin, Together
<1>23. Lead(out \o in \o set \o end, s, z, V) /\ out \o in \o set \o end \in Seq(MoveSteps) /\ out \o in \o set \o end # <<>>
  BY <1>8, <1>20, <1>22, LeadJoin, Together
<1>24. more \in BOOLEAN
  BY DEF more
<1> DEFINE steps == out \o in \o set \o end
<1> HIDE DEF steps
<1>25. steps \in Seq(MoveSteps) /\ steps # <<>> /\ BeginMove(old, more, undo, steps) /\ Lead(steps, s, z, V)
  BY <1>3, <1>23 DEF steps
<1>26. QED
  BY <1>2, <1>6, <1>16, <1>19, <1>24, <1>25, BeginHeads DEF s, V, well

-----------------------------------------------------------------------------
(* One default, and the user's files *)

\* How a step of an extension command goes on.
LEMMA ExtStepGoesOn ==
    ASSUME TypeInv, ExtStep
    PROVE  job.op # "move" /\ job'.op # "move" /\ active' = active
<1>1. todo # <<>> /\ Head(todo)[1] \in ExtStepNames
  BY DEF ExtStep, Copy, Register, RegisterSkills, RegisterHooks, Unsave, Enter, ClearSaved, Unregister,
         UnregisterSkills, Strip, Delete, UnregisterHooks, Drop, Stash, Check, RestoreConfig, RestoreMetadata,
         SetHooks, Clean, UndoDir, UndoNew, RestoreFiles, RestoreHooks, RestoreEntry, In,
         ExtStepNames, InstallSteps, RemovalSteps, UndoSteps
<1>2. job \in ExtJob /\ job.op \in ExtOps /\ job.op # "move" /\ NoJob.op = "none"
  BY <1>1, ExtTurn, JobFields, NoJobIs DEF ExtOps
<1> DEFINE Halts == Stop \/ TornRegistry \/ ((Raise \/ Die) /\ active' = active)
<1>3. Halts => active' = active /\ job'.op # "move"
  BY <1>2, JobFields DEF Stop, TornRegistry, Raise, Die, Fault, ExtJob
<1>4. ASSUME NEW j, j.op = job.op, Go(j)
      PROVE  active' = active /\ job'.op # "move"
  BY <1>2, <1>4 DEF Go
<1>5. CASE Register \/ RegisterSkills \/ Stash
  <2>1. \/ Halts
        \/ \E c : Go([job EXCEPT !.cmds = c])
        \/ \E c : Go([job EXCEPT !.skills = c])
        \/ \E h, l, f : Go([job EXCEPT !.known = TRUE, !.hooks = h, !.listed = l, !.files = f])
    BY <1>5 DEF Register, RegisterSkills, Stash
  <2> HIDE DEF Halts
  <2>2. \A c : [job EXCEPT !.cmds = c].op = job.op
    BY <1>2 DEF ExtJob
  <2>3. \A c : [job EXCEPT !.skills = c].op = job.op
    BY <1>2 DEF ExtJob
  <2>4. \A h, l, f : [job EXCEPT !.known = TRUE, !.hooks = h, !.listed = l, !.files = f].op = job.op
    BY <1>2 DEF ExtJob
  <2>5. CASE \E c : Go([job EXCEPT !.cmds = c])
    <3>1. PICK c : Go([job EXCEPT !.cmds = c])
      BY <2>5
    <3> DEFINE j == [job EXCEPT !.cmds = c]
    <3>2. j.op = job.op /\ Go(j)
      BY <2>2, <3>1
    <3> HIDE DEF j
    <3>3. QED
      BY <1>2, <1>4, <3>2
  <2>6. CASE \E c : Go([job EXCEPT !.skills = c])
    <3>1. PICK c : Go([job EXCEPT !.skills = c])
      BY <2>6
    <3> DEFINE j == [job EXCEPT !.skills = c]
    <3>2. j.op = job.op /\ Go(j)
      BY <2>3, <3>1
    <3> HIDE DEF j
    <3>3. QED
      BY <1>2, <1>4, <3>2
  <2>7. CASE \E h, l, f : Go([job EXCEPT !.known = TRUE, !.hooks = h, !.listed = l, !.files = f])
    <3>1. PICK h, l, f : Go([job EXCEPT !.known = TRUE, !.hooks = h, !.listed = l, !.files = f])
      BY <2>7
    <3> DEFINE j == [job EXCEPT !.known = TRUE, !.hooks = h, !.listed = l, !.files = f]
    <3>2. j.op = job.op /\ Go(j)
      BY <2>4, <3>1
    <3> HIDE DEF j
    <3>3. QED
      BY <1>2, <1>4, <3>2
  <2>8. QED
    BY <1>2, <1>3, <2>1, <2>5, <2>6, <2>7
<1>6. CASE ~(Register \/ RegisterSkills \/ Stash)
  <2>1. Halts \/ Go(job)
    BY <1>6 DEF ExtStep, Copy, RegisterHooks, Unsave, Enter, ClearSaved, Unregister,
           UnregisterSkills, Strip, Delete, UnregisterHooks, Drop, Check, RestoreConfig, RestoreMetadata,
           SetHooks, Switched, Clean, UndoDir, UndoNew, RestoreFiles, RestoreHooks, RestoreEntry, Fault
  <2> HIDE DEF Halts
  <2>2. QED
    BY <1>2, <1>3, <1>4, <2>1
<1>7. QED
  BY <1>5, <1>6

\* What an extension command does not touch.
LEMMA RestHeads ==
    ASSUME Heading, job.op # "move", job'.op # "move", UNCHANGED <<active, integ, manifests, stripped, noted, broken>>
    PROVE  Heading'
<1>1. ~broken => Good(Now)
  BY DEF Heading
<1>2. /\ Now'.active = Now.active /\ Now'.default = Now.default /\ Now'.keys = Now.keys /\ Now'.manifests = Now.manifests
  BY DEF Now, Record
<1>3. ~broken => Good(Now')
  BY <1>1, <1>2 DEF Good
<1>4. Good(Now') <=> Good(Now)'
  BY DEF Good, Fits, Keys, Once
<1>5. noted'.file.by = User => noted'.recovered
  BY DEF Heading
<1>6. QED
  BY <1>3, <1>4, <1>5 DEF Heading

LEMMA CommandHeads ==
    ASSUME TypeInv, Heading, Command, UNCHANGED integVars
    PROVE  Heading'
<1>1. PICK e \in Exts :
        \/ \E v \in Versions(e), force \in BOOLEAN : Add(e, v, force)
        \/ \E keepConfig \in BOOLEAN : Remove(e, keepConfig)
        \/ Update(e) \/ Enable(e) \/ Disable(e) \/ Configure(e)
  BY DEF Command, Versions
<1>2. dir[e].ver \in Versions(e) \cup {0}
  BY DEF TypeInv, GenuineStore
<1>3. job = NoJob /\ (job' \in ExtJob \/ job' = NoJob)
  <2>1. CASE Configure(e)
    BY <2>1, ConfigureTypes DEF Configure
  <2>2. CASE ~Configure(e)
    BY <1>1, <1>2, <2>2, AddBegins, RemoveBegins, UpdateBegins, SwitchBegins
  <2>3. QED
    BY <2>1, <2>2
<1>4. job.op # "move" /\ job'.op # "move"
  BY <1>3, NoJobIs DEF ExtJob, ExtOps
<1>5. active' = active
  BY <1>1 DEF Add, Remove, Update, Enable, Disable, Configure, Begin
<1>6. QED
  BY <1>4, <1>5, RestHeads DEF integVars

LEMMA MoveHeads ==
    ASSUME TypeInv, Heading, Move
    PROVE  Heading'
BY InstallHeads, UninstallHeads, UseHeads, UpgradeHeads, SwitchHeads DEF Move

LEMMA EditHeads ==
    ASSUME TypeInv, Heading, Edit
    PROVE  Heading'
<1>1. job = NoJob /\ UNCHANGED <<active, job, integ, manifests, stripped, noted, broken>>
  BY EditTypes DEF Edit
<1>2. QED
  BY <1>1, NoJobIs, RestHeads

LEMMA HeadingKept ==
    ASSUME TypeInv, TypeInv', Heading, [Next]_vars
    PROVE  Heading'
<1>1. CASE Command /\ UNCHANGED integVars
  BY <1>1, CommandHeads
<1>2. CASE ExtStep /\ UNCHANGED integVars
  BY <1>2, ExtStepGoesOn, RestHeads DEF integVars
<1>3. CASE Move
  BY <1>3, MoveHeads
<1>4. CASE MoveStep
  BY <1>4, InfraHeads, SetupHeads, TeardownHeads, StaleHeads, WriteJsonHeads, OptionsHeads, ArtifactsHeads DEF MoveStep
<1>5. CASE Edit
  BY <1>5, EditHeads
<1>6. CASE UNCHANGED vars
  <2>1. UNCHANGED <<active, integ, manifests, stripped, core, noted, broken, job, todo>>
    BY <1>6 DEF vars, integVars
  <2>2. UNCHANGED Now
    BY <2>1 DEF Now, Theirs, Record
  <2>3. Good(Now') <=> Good(Now)'
    BY DEF Good, Fits, Keys, Once
  <2>4. QED
    BY <2>1, <2>2, <2>3 DEF Heading
<1>7. QED
  BY <1>1, <1>2, <1>3, <1>4, <1>5, <1>6 DEF Next

LEMMA InitHeads == Init => Heading
<1> SUFFICES ASSUME Init PROVE Heading
  OBVIOUS
<1>1. /\ active \in Agents /\ integ.default = active /\ integ.installed = <<active>> /\ manifests = {active}
      /\ stripped = {} /\ job = NoJob /\ ~noted.recovered /\ noted.file.by = "cli"
  BY DEF Init, ExtInit, Rendered
<1>2. Keys(<<active>>) = {active} /\ Once(<<active>>) /\ <<active>> # <<>>
  BY DEF Keys, Once
<1>3. /\ Now.active = active /\ Now.default = active /\ Now.keys = <<active>>
      /\ Now.manifests.kept = {active}
  BY <1>1 DEF Now, Record
<1>4. Good(Now)
  BY <1>2, <1>3 DEF Good, Fits
<1>5. QED
  BY <1>1, <1>4, NoJobIs DEF Heading, User

LEMMA Headed == Spec => []Heading
<1>1. Init => Heading
  BY InitHeads
<1>2. TypeInv /\ TypeInv' /\ Heading /\ [Next]_vars => Heading'
  BY HeadingKept
<1>3. QED
  BY <1>1, <1>2, Invariant, PTL DEF Spec

\* After each command that went through or rolled back init-options.json names
\* the default of integration.json, only installed integrations have a manifest,
\* and each of them has one unless an upgrade has deleted it with its stale files
\* (_set_default_integration, the except blocks of integration_install and
\* integration_switch, phase 2 of integration_upgrade).
THEOREM DefaultsAgree == Spec => []OneDefault
<1>1. TypeInv /\ Heading => OneDefault
  <2> SUFFICES ASSUME TypeInv, Heading, Idle, ~broken
               PROVE  /\ active = integ.default /\ manifests \subseteq Present
                      /\ Present \ manifests \subseteq stripped
                      /\ IF integ.installed = <<>> THEN integ.default = None ELSE integ.default \in Present
    BY DEF OneDefault
  <2>1. job = NoJob
    BY Advance DEF Idle, TypeInv, Running
  <2>2. Good(Now)
    BY <2>1, NoJobIs DEF Heading
  <2>3. QED
    BY <2>2, PresentIs DEF Good, Fits, Now, Record
<1>2. QED
  BY <1>1, Invariant, Headed, PTL

\* A step of an integration command that was not forced.
LEMMA StepsSpare ==
    ASSUME TypeInv, Heading, MoveStep, ~job.force
    PROVE  /\ shared.by = User => shared' = shared
           /\ \A a \in Agents : core[a] = User /\ a \in Present => core'[a] = User
<1>1. CASE Infra
  <2>1. todo # <<>> /\ Head(todo)[1] = "infra"
    BY <1>1 DEF Infra, In
  <2>2. arg[4] => job.force
    BY <2>1, MayTake DEF MoveNames, MayDo, Spares, arg
  <2>3. shared.by = User => ~Overwrites(arg[3], arg[4])
    BY <2>2 DEF Overwrites, Managed, Heading, User, Nothing
  <2>4. core' = core /\ (shared' = shared \/ Overwrites(arg[3], arg[4]))
    BY <1>1 DEF Infra
  <2>5. QED
    BY <2>3, <2>4
<1>2. CASE Setup
  <2>1. todo # <<>> /\ Head(todo)[1] = "setup"
    BY <1>2 DEF Setup, In
  <2>2. arg[2] \notin Theirs \/ arg[2] \notin Present
    BY <2>1, MayTake, PresentIs DEF MoveNames, MayDo, Spares, arg, Now
  <2>3. shared' = shared /\ (core' = core \/ core' = [core EXCEPT ![arg[2]] = "bundled"])
    BY <1>2 DEF Setup
  <2>4. QED
    BY <2>2, <2>3, MoveFields DEF Theirs
<1>3. CASE Teardown
  <2>1. todo # <<>> /\ Head(todo)[1] = "teardown"
    BY <1>3 DEF Teardown, In
  <2>2. arg[3] => arg[2] \notin Theirs \/ arg[2] \notin Present
    BY <2>1, MayTake, PresentIs DEF MoveNames, MayDo, Spares, arg, Now
  <2>3. shared' = shared /\ (core' = core \/ (core' = [core EXCEPT ![arg[2]] = Nothing] /\ (core[arg[2]] # User \/ arg[3])))
    BY <1>3 DEF Teardown
  <2>4. QED
    BY <2>2, <2>3, MoveFields DEF Theirs
<1>4. CASE Stale \/ WriteJson \/ Options \/ UnregisterArtifacts \/ RegisterArtifacts
  BY <1>4 DEF Stale, WriteJson, Options, UnregisterArtifacts, RegisterArtifacts
<1>5. QED
  BY <1>1, <1>2, <1>3, <1>4 DEF MoveStep

\* What the user has changed is neither overwritten nor deleted by a command
\* that was not forced, wherever commands were stopped before (the hashes of
\* the manifests and recovered_files of install_shared_infra).
THEOREM EditsKept == Spec => EditsSurvive
<1>1. ASSUME TypeInv, Heading, Next, ~(job.op = "move" /\ job.force)
      PROVE  /\ shared.by = User => shared' = shared
             /\ \A a \in Agents : core[a] = User /\ a \in manifests \cap Present => core'[a] = User
  <2>1. CASE UNCHANGED <<core, shared>>
    BY <2>1
  <2>2. CASE MoveStep
    <3>1. job.op = "move"
      <4>1. todo # <<>> /\ Head(todo)[1] \in MoveNames
        BY <2>2 DEF MoveStep, Infra, Setup, Teardown, Stale, WriteJson, Options, UnregisterArtifacts, RegisterArtifacts, In, MoveNames
      <4>2. QED
        BY <1>1, <4>1, MoveTurn
    <3>2. QED
      BY <1>1, <2>2, <3>1, StepsSpare
  <2>3. CASE Edit
    <3>1. \/ shared' = shared /\ \E a \in Agents : core' = [core EXCEPT ![a] = User]
          \/ shared.by = "cli" /\ core' = core
      BY <2>3 DEF Edit
    <3>2. QED
      BY <1>1, <3>1, MoveFields DEF User
  <2>4. Move => UNCHANGED <<core, shared>>
    BY DEF Move, Install, Uninstall, Use, Upgrade, Switch, BeginMove, integVars
  <2>5. QED
    BY <1>1, <2>1, <2>2, <2>3, <2>4 DEF Next, integVars
<1>2. TypeInv /\ Heading /\ [Next]_vars =>
        [~(job.op = "move" /\ job.force) =>
           /\ shared.by = User => shared' = shared
           /\ \A a \in Agents : core[a] = User /\ a \in manifests \cap Present => core'[a] = User]_vars
  BY <1>1
<1>3. QED
  BY <1>2, Invariant, Headed, PTL DEF Spec, EditsSurvive

=============================================================================
