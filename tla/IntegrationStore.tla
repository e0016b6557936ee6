-------------------------- MODULE IntegrationStore --------------------------
(***************************************************************************)
(* The integrations of a spec-kit project on top of its extensions: the    *)
(* `specify integration` commands install, uninstall, switch, use and      *)
(* upgrade (specify_cli/integrations), the manifest of the files an        *)
(* integration has installed, the shared templates and scripts             *)
(* (shared_infra.py), integration.json and init-options.json.              *)
(*                                                                         *)
(* One file stands for the command files of an integration, one for the    *)
(* shared files.  A file is as the CLI wrote it or as the user left it; a  *)
(* shared file is rendered for an agent, whose separator its command       *)
(* references use.                                                         *)
(***************************************************************************)
EXTENDS ExtensionStore

VARIABLES
    integ,      \* integration.json: the default and the installed ones
    manifests,  \* the integrations that have a manifest
    stripped,   \* history: an upgrade has deleted the manifest it had saved
    core,       \* the command files of each integration
    shared,     \* the shared files: the agent they are rendered for
    noted,      \* what the shared manifest has noted of them
    broken      \* history: a command stopped with its work half done

integVars == <<integ, manifests, stripped, core, shared, noted, broken>>

vars == <<extVars, active, detected, job, todo, acts, faults, cut, integVars>>

User == "user"

Nothing == "none"

TypeOK ==
    /\ ExtTypeOK
    /\ integ \in [default: Agents \cup {None}, installed: Seq(Agents)]
    /\ manifests \subseteq Agents /\ stripped \subseteq Agents
    /\ core \in [Agents -> {Nothing, "bundled", User}]
    /\ shared.by \in {Nothing, "cli", User} /\ shared.for \in Agents \cup {None}
    /\ noted.file.by \in {Nothing, "cli", User} /\ noted.recovered \in BOOLEAN
    /\ broken \in BOOLEAN

Rendered(a) == [by |-> "cli", for |-> a]

\* A project that `specify init --integration a` has set up.
Init ==
    /\ ExtInit
    /\ active \in Agents
    /\ detected = {active} \ SkillsAgents
    /\ integ = [default |-> active, installed |-> <<active>>]
    /\ manifests = {active} /\ stripped = {}
    /\ core = [a \in Agents |-> IF a = active THEN "bundled" ELSE Nothing]
    /\ shared = Rendered(active)
    /\ noted = [file |-> shared, recovered |-> FALSE]
    /\ broken = FALSE

Present == {integ.installed[i] : i \in DOMAIN integ.installed}

\* The installed ones but a, in their order: none is listed twice.
Without(a) ==
    LET keys == integ.installed
        i    == CHOOSE k \in DOMAIN keys : keys[k] = a
    IN  IF a \in Present THEN SubSeq(keys, 1, i - 1) \o SubSeq(keys, i + 1, Len(keys)) ELSE keys

With(keys, a) == IF \E i \in DOMAIN keys : keys[i] = a THEN keys ELSE Append(keys, a)

-----------------------------------------------------------------------------
(* Running a command: steps carry their arguments.  From the setup of an   *)
(* integration on, exceptions are caught; job.undo is what is done then.   *)

arg == Head(todo)

NoMove == [op |-> "move", ext |-> None, from |-> None, force |-> FALSE, caught |-> FALSE, undo |-> <<>>,
           done |-> FALSE]

BeginMove(from, force, undo, steps) ==
    /\ Act
    /\ job' = [NoMove EXCEPT !.from = from, !.force = force, !.undo = undo]
    /\ todo' = steps
    /\ UNCHANGED <<extVars, active, detected, faults, cut, integVars>>

Pass(j) ==
    /\ todo' = Tail(todo)
    /\ job' = IF Len(todo) = 1 THEN NoJob ELSE j
    /\ broken' = broken

GoOn(j) == Pass(j) /\ faults' = faults

Done == GoOn([job EXCEPT !.done = TRUE])

End(b) == todo' = <<>> /\ job' = NoJob /\ broken' = b

Warned == faults < MaxFaults /\ faults' = faults + 1

Killed == Warned /\ End(TRUE)

\* An exception is caught or leaves the command as a traceback.
Thrown ==
    \/ Killed
    \/ /\ Warned
       /\ job.caught
       /\ IF job.undo = <<>> THEN End(broken)
          ELSE /\ todo' = job.undo
               /\ job' = [job EXCEPT !.caught = FALSE, !.undo = <<>>, !.done = TRUE]
               /\ broken' = broken

-----------------------------------------------------------------------------
(* Steps *)

\* The shared file is as it was noted when the CLI wrote it.
Managed == noted.file = shared /\ ~noted.recovered

\* What is not there is written; what is there if forced or, by a refresh, if
\* it is managed.
Overwrites(refresh, force) == shared.by = Nothing \/ force \/ (refresh /\ Managed)

\* install_shared_infra: what is found and not noted is noted as recovered.
Infra ==
    /\ In("infra")
    /\ LET a      == arg[2]
           writes == Overwrites(arg[3], arg[4])
       IN  \/ /\ shared' = IF writes THEN Rendered(a) ELSE shared
              /\ noted' = IF writes THEN [file |-> Rendered(a), recovered |-> FALSE]
                          ELSE IF noted.file.by = Nothing THEN [file |-> shared, recovered |-> TRUE]
                          ELSE noted
              /\ Done \/ Killed
           \/ /\ shared' \in {shared, IF writes THEN Rendered(a) ELSE shared}
              /\ noted' = noted
              /\ \/ Thrown
                 \/ /\ ~job.caught          \* ... _or_exit
                    /\ faults < MaxFaults /\ faults' = faults + 1
                    /\ End(broken \/ job.done)
    /\ UNCHANGED <<extVars, active, detected, cut, integ, manifests, stripped, core, acts>>

\* The directory setup writes command files to; in skills mode it writes none.
CommandDirs(a) == {a} \ SkillsAgents

\* setup, then the manifest is saved.
Setup ==
    /\ In("setup")
    /\ LET a == arg[2]
           j == [job EXCEPT !.caught = TRUE, !.done = TRUE] IN
       \/ /\ core' = [core EXCEPT ![a] = "bundled"]
          /\ manifests' = manifests \cup {a} /\ stripped' = stripped \ {a}
          /\ detected' = detected \cup CommandDirs(a)
          /\ GoOn(j)
       \/ /\ core' \in {core, [core EXCEPT ![a] = "bundled"]}
          /\ UNCHANGED <<manifests, stripped>>
          /\ detected' = IF core' = core THEN detected ELSE detected \cup CommandDirs(a)
          /\ faults < MaxFaults /\ faults' = faults + 1
          /\ IF job.undo = <<>> THEN End(broken) \/ End(TRUE)
             ELSE \/ End(TRUE)
                  \/ todo' = job.undo /\ job' = [j EXCEPT !.undo = <<>>, !.caught = FALSE] /\ broken' = broken
    /\ UNCHANGED <<extVars, active, cut, integ, shared, noted, acts>>

\* The bug of deleting what the manifest lists without comparing hashes.
Teardown_Unchecked ==
    /\ In("teardown")
    /\ core' = [core EXCEPT ![arg[2]] = Nothing]
    /\ detected' = detected \ {arg[2]}
    /\ manifests' = manifests \ {arg[2]}
    /\ Done
    /\ UNCHANGED <<extVars, active, cut, integ, stripped, shared, noted, acts>>

\* manifest.uninstall: what the user has changed stays unless forced.  The
\* directory goes with its last file.
Teardown ==
    /\ In("teardown")
    /\ LET a     == arg[2]
           gone  == core[a] # Nothing /\ (core[a] # User \/ arg[3])
           empty == \A n \in Names : files[a][n] = NoFile
       IN  \/ /\ core' = IF gone THEN [core EXCEPT ![a] = Nothing] ELSE core
              /\ detected' = IF gone /\ empty THEN detected \ {a} ELSE detected
              /\ manifests' = manifests \ {a}
              /\ Done \/ Killed
           \/ /\ core' = IF gone THEN [core EXCEPT ![a] = Nothing] ELSE core
              /\ UNCHANGED <<detected, manifests>>
              /\ Thrown
    /\ UNCHANGED <<extVars, active, cut, integ, stripped, shared, noted, acts>>

\* The last step of an upgrade whose new manifest lists less than the old one:
\* to delete what it no longer lists is to uninstall a manifest of that key,
\* and with it goes the file the new one has just been saved to.
Stale ==
    /\ In("stale")
    /\ \/ /\ manifests' = manifests \ {arg[2]} /\ stripped' = stripped \cup {arg[2]}
          /\ Done \/ Killed
       \/ /\ UNCHANGED <<manifests, stripped>>
          /\ Warned /\ (End(broken) \/ End(TRUE))
    /\ UNCHANGED <<extVars, active, detected, cut, integ, core, shared, noted, acts>>

WriteJson ==
    /\ In("json")
    /\ \/ integ' = [default |-> arg[2], installed |-> arg[3]] /\ (Done \/ Killed)
       \/ integ' = integ /\ Thrown
    /\ UNCHANGED <<extVars, active, detected, cut, manifests, stripped, core, shared, noted, acts>>

\* init-options.json: an integration becomes the active one, or ceases to be.
Options ==
    /\ In("options") \/ In("forget")
    /\ \/ /\ active' = IF In("options") THEN arg[2] ELSE IF active = arg[2] THEN None ELSE active
          /\ Done \/ Killed
       \/ active' = active /\ Thrown
       \/ active' = None /\ Killed      \* a torn file is read as no options
    /\ UNCHANGED <<extVars, detected, cut, integ, manifests, stripped, core, shared, noted, acts>>

-----------------------------------------------------------------------------
(* Extension artifacts follow a switch; what goes wrong is only a warning. *)

\* The bug of passing over the extensions that are disabled.
UnregisterArtifacts_Enabled ==
    /\ In("unartifact")
    /\ LET a == arg[2]
           on == {e \in Exts : reg[e].enabled} IN
       /\ files' = [files EXCEPT ![a] = [n \in Names |-> IF \E e \in on : n \in reg[e].cmds[a] THEN NoFile ELSE @[n]]]
       /\ skills' = [skills EXCEPT ![a] = [n \in Names |-> IF @[n].of \in on THEN NoFile ELSE @[n]]]
       /\ reg' = [e \in Exts |-> IF e \in on THEN [reg[e] EXCEPT !.cmds[a] = {}] ELSE reg[e]]
    /\ Done
    /\ UNCHANGED <<dir, saved, stash, listed, hooks, active, detected, integ, manifests, stripped, core, shared, noted, acts, cut>>

\* unregister_agent_artifacts: an exception leaves the other extensions as
\* they are, and the one it was at with less than its entry records.
UnregisterArtifacts ==
    /\ In("unartifact")
    /\ \E part \in SUBSET Exts : \E done \in SUBSET part :
          LET a      == arg[2]
              \* The skills directory of a, if it has one; else all are searched.
              scoped == a \in SkillsAgents /\ (core[a] # Nothing \/ \E n \in Names : skills[a][n] # NoFile)
          IN
          /\ files' = [files EXCEPT ![a] =
                [n \in Names |-> IF \E e \in part : n \in reg[e].cmds[a] THEN NoFile ELSE @[n]]]
          /\ skills' = [b \in Agents |-> [n \in Names |->
                IF (b = a \/ ~scoped)
                   /\ skills[b][n].of \in part /\ n \in reg[skills[b][n].of].skills
                  THEN NoFile ELSE skills[b][n]]]
          /\ reg' = [e \in Exts |->
                IF e \in done
                  THEN [reg[e] EXCEPT !.cmds[a] = {},
                                      !.skills = IF scoped THEN {n \in @ : skills'[a][n] # NoFile} ELSE @]
                  ELSE reg[e]]
          /\ cut' = cut \cup (part \ done)
          /\ \/ done = Exts /\ Done
             \/ /\ done # Exts /\ Warned
                /\ \/ Pass([job EXCEPT !.done = TRUE])
                   \/ End(TRUE)
    /\ UNCHANGED <<dir, saved, stash, listed, hooks, active, detected, integ, manifests, stripped, core, shared, noted, acts>>

\* register_enabled_extensions_for_agent: an extension that fails has its
\* entry as it was, the others go on.
RegisterArtifacts ==
    /\ In("artifacts")
    /\ LET a      == arg[2]
           wanted == {e \in Exts : Loads(e) /\ reg[e].enabled}
           inSkillsMode == active = a /\ a \in SkillsAgents
           names(e) == IF inSkillsMode THEN {} ELSE Declared(e, dir[e].ver)
           new(e)   == IF SkillsDirs = {} THEN {} ELSE NewSkills(e, dir[e].ver)
       IN  \E written \in SUBSET wanted : \E entered \in SUBSET written :
             /\ files' = [files EXCEPT ![a] = [n \in Names |->
                   IF \E e \in written : n \in names(e)
                     THEN LET e == CHOOSE e \in written : n \in names(e) IN FileOf(e, dir[e].ver)
                     ELSE @[n]]]
             /\ skills' = [b \in Agents |-> [n \in Names |->
                   IF b \in SkillsDirs /\ \E e \in written : n \in new(e)
                     THEN LET e == CHOOSE e \in written : n \in new(e) IN FileOf(e, dir[e].ver)
                     ELSE skills[b][n]]]
             /\ reg' = [e \in Exts |->
                   IF e \in entered
                     THEN [reg[e] EXCEPT !.cmds[a] = IF inSkillsMode THEN @ ELSE names(e),
                                         !.skills = @ \cup new(e)]
                     ELSE reg[e]]
             /\ \/ entered = wanted /\ Done
                \/ entered # wanted /\ Warned /\ (End(broken) \/ End(TRUE))
    /\ UNCHANGED <<dir, saved, stash, listed, hooks, active, detected, cut, integ, manifests, stripped, core, shared, noted, acts>>

-----------------------------------------------------------------------------
(* The `specify integration` commands *)

\* The bug of a default that only integration.json knows of.
MakeDefault_JsonOnly(a, keys, force) == <<<<"infra", a, TRUE, force>>, <<"json", a, keys>>>>

MakeDefault(a, keys, force) == <<<<"infra", a, TRUE, force>>, <<"json", a, keys>>, <<"options", a>>>>

NoIntegration == <<<<"json", None, <<>>>>>>

\* The first of the remaining integrations becomes the default.
FallBack(keys) == IF keys = <<>> THEN NoIntegration ELSE MakeDefault(keys[1], keys, FALSE)

Install(a) ==
    LET keys == integ.installed IN
    /\ a \notin Present
    /\ BeginMove(None, FALSE,
                 <<<<"teardown", a, TRUE>>, <<"json", integ.default, keys>>>>,
                 <<<<"infra", IF keys = <<>> THEN a ELSE integ.default, FALSE, FALSE>>, <<"setup", a>>,
                   <<"json", IF keys = <<>> THEN a ELSE integ.default, Append(keys, a)>>>>
                 \o IF keys = <<>> THEN <<<<"options", a>>>> ELSE <<>>)

Uninstall(a, force) ==
    LET rest == Without(a) IN
    /\ a \in Present
    /\ BeginMove(None, force, <<>>,
                 (IF a \in manifests THEN <<<<"teardown", a, force>>>> ELSE <<>>)
                 \o (IF integ.default = a THEN FallBack(rest) \o <<<<"forget", a>>>>
                     ELSE <<<<"json", integ.default, rest>>>>))

Use(a, force) ==
    /\ a \in Present
    /\ BeginMove(None, force, <<>>, MakeDefault(a, integ.installed, force))

\* To an integration that is not installed; else switch does what use does.
\* force: of the teardown; all: --refresh-shared-infra.
Switch(a, force, all) ==
    LET old  == integ.default
        rest == Without(old) IN
    /\ a \notin Present
    /\ old # None => old \in manifests
    /\ BeginMove(old, force \/ all,
                 <<<<"teardown", a, TRUE>>>> \o FallBack(rest),
                 (IF old = None THEN <<>>
                  ELSE <<<<"teardown", old, force>>, <<"unartifact", old>>, <<"forget", old>>>> \o FallBack(rest))
                 \o <<<<"infra", a, TRUE, all>>, <<"setup", a>>>>
                 \o MakeDefault(a, With(rest, a), FALSE) \o <<<<"artifacts", a>>>>)

\* What the user has changed blocks it unless forced.  stale: the old manifest
\* lists files that the new one does not.
Upgrade(a, force, stale) ==
    LET default == integ.default IN
    /\ a \in Present \cap manifests
    /\ core[a] = User => force
    /\ BeginMove(None, force, <<>>,
                 <<<<"infra", default, FALSE, force>>, <<"setup", a>>>>
                 \o (IF default = a THEN MakeDefault(a, integ.installed, force)
                     ELSE <<<<"json", default, integ.installed>>>>)
                 \o IF stale THEN <<<<"stale", a>>>> ELSE <<>>)

\* The user changes a file the CLI wrote.
Edit ==
    /\ Act
    /\ \/ \E a \in Agents : /\ core[a] = "bundled"
                             /\ core' = [core EXCEPT ![a] = User]
                             /\ UNCHANGED shared
       \/ /\ shared.by = "cli"
          /\ shared' = [by |-> User, for |-> None]
          /\ UNCHANGED core
    /\ UNCHANGED <<extVars, active, detected, job, todo, faults, cut, integ, manifests, stripped, noted, broken>>

Move ==
    \E a \in Agents :
        \/ Install(a)
        \/ \E force \in BOOLEAN : Uninstall(a, force) \/ Use(a, force)
        \/ \E force, all \in BOOLEAN : Switch(a, force, all)
        \/ \E force, stale \in BOOLEAN : Upgrade(a, force, stale)

MoveStep ==
    \/ Infra \/ Setup \/ Teardown \/ Stale \/ WriteJson \/ Options \/ UnregisterArtifacts \/ RegisterArtifacts

Next ==
    \/ Command /\ UNCHANGED integVars
    \/ ExtStep /\ UNCHANGED integVars
    \/ Move
    \/ MoveStep
    \/ Edit

Spec == Init /\ [][Next]_vars

-----------------------------------------------------------------------------
(* Properties *)

\* The agent that init-options.json names is the default of integration.json,
\* only integrations listed there have a manifest, and each of them has one
\* unless an upgrade has deleted it with its stale files: after each command
\* that went through or rolled back (_set_default_integration, the except
\* blocks of install and switch, phase 2 of upgrade).
OneDefault ==
    Idle /\ ~broken =>
        /\ active = integ.default
        /\ manifests \subseteq Present
        /\ Present \ manifests \subseteq stripped
        /\ IF integ.installed = <<>> THEN integ.default = None ELSE integ.default \in Present

\* What the user has changed is neither overwritten nor deleted by a command
\* that was not forced: a file of an installed integration, and the shared
\* files (the hashes of the manifests, and recovered_files), wherever commands
\* were stopped before.
EditsSurvive ==
    [][~(job.op = "move" /\ job.force) =>
         /\ shared.by = User => shared' = shared
         /\ \A a \in Agents : core[a] = User /\ a \in manifests \cap Present => core'[a] = User]_vars

\* A switch moves the extensions: of those that are enabled the new agent has
\* the commands or skills, and of none the old agent has commands left, nor
\* skills if no other agent works in skills mode: the registry keeps one list
\* of skills for all agents, and what is removed while another agent is the
\* default leaves its skills behind (unregister_agent_artifacts,
\* register_enabled_extensions_for_agent).
SwitchMovesCommands ==
    [][In("artifacts") /\ faults' = 0 =>
         LET a == arg[2] IN
         \A e \in Exts :
            /\ reg[e].enabled =>
                 LET d == Declares[e][reg[e].ver] IN
                 IF a \in SkillsAgents THEN \A n \in d.commands : skills'[a][n] = FileOf(e, reg[e].ver)
                 ELSE \A n \in d.commands \cup d.aliases : files'[a][n] = FileOf(e, reg[e].ver)
            /\ job.from # None =>
                 /\ reg'[e].cmds[job.from] = {}
                 /\ \A n \in Names :
                      /\ files'[job.from][n].of # e
                      /\ skills'[job.from][n].of = e => \E b, c \in SkillsAgents : b # c]_vars

=============================================================================
