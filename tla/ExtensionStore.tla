--------------------------- MODULE ExtensionStore ---------------------------
(***************************************************************************)
(* The extensions of a spec-kit project: ExtensionManager, its registry,   *)
(* the command registrar, the hooks of extensions.yml                      *)
(* (specify_cli/extensions.py, agents.py) and the `specify extension`      *)
(* commands that drive them (specify_cli/__init__.py).                     *)
(*                                                                         *)
(* Nothing runs between two commands: the state is the project's files.    *)
(* A command is a list of steps, todo, each a call that writes to disk; in *)
(* a step the process may be killed, or the call may raise, with part of   *)
(* the writes done.  A raised exception leaves the command as a traceback  *)
(* except in `extension update`, which then rolls back.                    *)
(*                                                                         *)
(* A command file is abstracted to who wrote it, a user's *-config.yml     *)
(* files to whether they are there.                                        *)
(***************************************************************************)
EXTENDS Naturals, Sequences

CONSTANTS
    Exts,           \* extension ids
    Agents,         \* agents (integrations) the project may be set up for
    SkillsAgents,   \* those that run in skills mode and get SKILL.md files
    Names,          \* names of commands and aliases
    Events,         \* events a hook may be attached to
    Declares,       \* Declares[e][v]: what the manifest of version v declares;
                    \* the catalog has the last version
    MaxActs,        \* bound: commands and edits of the user
    MaxFaults,      \* bound: calls that raise and kills
    None            \* no agent, no extension

\* What is left of a manifest that has been validated.
Manifest == [commands: SUBSET Names, aliases: SUBSET Names, hooks: SUBSET Events]

ASSUME ExtensionAssumption ==
    /\ SkillsAgents \subseteq Agents
    /\ Declares \in [Exts -> Seq(Manifest)]
    /\ MaxActs \in Nat /\ MaxFaults \in Nat
    /\ None \notin Agents \cup Exts

VARIABLES
    reg,        \* .registry: the entry of each extension
    dir,        \* .specify/extensions/<id>
    saved,      \* the extensions with a config in .backup/<id>
    stash,      \* .backup/<id>-update
    files,      \* the command files in each agent's directory
    skills,     \* the SKILL.md files in each skills agent's directory
    listed,     \* installed: of extensions.yml
    hooks,      \* hooks: of extensions.yml
    active,     \* ai of init-options.json
    detected,   \* agents whose command directory exists
    job,        \* the command that runs and what it remembers
    todo,       \* the steps it has yet to do
    acts,       \* bound
    faults,     \* bound
    cut         \* history: extensions whose command was cut short

extVars == <<reg, dir, saved, stash, files, skills, listed, hooks>>

\* No entry, no directory and no file are records too.
NoEntry == [ver |-> 0, enabled |-> FALSE, cmds |-> [a \in Agents |-> {}], skills |-> {}]
NoDir   == [there |-> FALSE, ver |-> 0, cfg |-> FALSE]
NoFile  == [of |-> None, ver |-> 0]
NoStash == [dir |-> NoDir, cfg |-> FALSE]
NoHooks == [h \in Events |-> "none"]

NoJob == [op |-> "none", ext |-> None, ver |-> 0, cmds |-> [a \in Agents |-> {}], skills |-> {},
          force |-> FALSE, rolled |-> FALSE, known |-> FALSE, entry |-> NoEntry, dir |-> NoDir,
          hooks |-> NoHooks, listed |-> {}, files |-> [a \in Agents |-> [n \in Names |-> NoFile]]]

\* ver 0: the manifest is gone, and with it all but a config.
Dir    == [there: BOOLEAN, ver: Nat, cfg: BOOLEAN]
Entry  == [ver: Nat, enabled: BOOLEAN, cmds: [Agents -> SUBSET Names], skills: SUBSET Names]
Files  == [Agents -> [Names -> [of: Exts \cup {None}, ver: Nat]]]
Hooks  == [Events -> {"none", "on", "off"}]

ExtTypeOK ==
    /\ reg \in [Exts -> Entry]
    /\ dir \in [Exts -> Dir]
    /\ saved \subseteq Exts
    /\ stash \in [Exts -> [dir: Dir, cfg: BOOLEAN]]
    /\ files \in Files
    /\ skills \in Files
    /\ listed \subseteq Exts
    /\ hooks \in [Exts -> Hooks]
    /\ active \in Agents \cup {None}
    /\ detected \subseteq Agents
    /\ acts \in 0..MaxActs
    /\ faults \in 0..MaxFaults
    /\ cut \subseteq Exts

ExtInit ==
    /\ reg = [e \in Exts |-> NoEntry]
    /\ dir = [e \in Exts |-> NoDir]
    /\ saved = {}
    /\ stash = [e \in Exts |-> NoStash]
    /\ files = [a \in Agents |-> [n \in Names |-> NoFile]]
    /\ skills = files
    /\ listed = {}
    /\ hooks = [e \in Exts |-> NoHooks]
    /\ job = NoJob
    /\ todo = <<>>
    /\ acts = 0
    /\ faults = 0
    /\ cut = {}

-----------------------------------------------------------------------------
Installed(e) == reg[e].ver # 0

\* The manifest of an installed extension, if it can be loaded.
Loads(e) == Installed(e) /\ dir[e].ver # 0

Declared(e, v) == Declares[e][v].commands \cup Declares[e][v].aliases

\* The bug of comparing the commands and forgetting the aliases.
Conflicts_Commands(e, v) ==
    \E f \in Exts \ {e} : Loads(f) /\ Declares[e][v].commands \cap Declares[f][dir[f].ver].commands # {}

\* Installing v of e would shadow a name of an extension whose manifest loads.
Conflicts(e, v) ==
    \E f \in Exts \ {e} : Loads(f) /\ Declared(e, v) \cap Declared(f, dir[f].ver) # {}

Newest(e) == Len(Declares[e])

\* What may be left of d, or copied of it, when the operation is cut short.
Torn(d) ==
    {[there |-> d.there, ver |-> v, cfg |-> c] : v \in {0, d.ver}, c \in {FALSE, d.cfg}}

FileOf(e, v) == [of |-> e, ver |-> v]

\* What an install copies: the source less what .extensionignore names; a
\* config is made by the user.
Source(v) == [there |-> TRUE, ver |-> v, cfg |-> FALSE]

\* The active skills directory, if there is one.
SkillsDirs == {active} \cap SkillsAgents

WithFiles(d, agents, names, f) ==
    [a \in Agents |-> [n \in Names |-> IF a \in agents /\ n \in names THEN f ELSE d[a][n]]]

-----------------------------------------------------------------------------
(* Running a command *)

Idle == todo = <<>>

\* The user's next act.
Act == Idle /\ acts < MaxActs /\ acts' = acts + 1

\* The step the process is in.
In(s) == todo # <<>> /\ Head(todo)[1] = s

e0 == job.ext

Begin(j, steps) ==
    /\ Act
    /\ job' = j
    /\ todo' = steps
    /\ UNCHANGED <<active, detected, faults, cut>>

\* The step is done and the command remembers j.
Go(j) ==
    /\ todo' = Tail(todo)
    /\ job' = IF Len(todo) = 1 THEN NoJob ELSE j
    /\ UNCHANGED <<active, detected, acts, faults, cut>>

Undo == <<<<"undir">>, <<"unnew">>, <<"refile">>, <<"rehook">>, <<"reenter">>, <<"clean">>>>

\* The exception ends an update in its rollback, another command as it is.
\* The rollback takes what it finds in the stash for a copy of the extension:
\* a stash cut short counts as a command cut short.
Raise ==
    IF job.op = "update" /\ ~job.rolled
      THEN /\ todo' = Undo
           /\ job' = [job EXCEPT !.rolled = TRUE]
           /\ cut' = IF In("stash") \/ In("clean") THEN cut \cup {e0} ELSE cut
      ELSE /\ todo' = <<>>
           /\ job' = NoJob
           /\ cut' = cut \cup {e0}

Die ==
    /\ todo' = <<>>
    /\ job' = NoJob
    /\ cut' = cut \cup {e0}

Fault == faults < MaxFaults /\ faults' = faults + 1 /\ UNCHANGED <<active, detected, acts>>

\* The process ends in the step, which has done what it has done.
Stop == Fault /\ (Raise \/ Die)

\* A registry that is being written is truncated first, and a registry that
\* does not parse is taken for an empty one.
TornRegistry ==
    /\ Fault
    /\ reg' = [e \in Exts |-> NoEntry]
    /\ todo' = <<>>
    /\ job' = NoJob
    /\ cut' = Exts

-----------------------------------------------------------------------------
(* install_from_directory *)

\* Deletes the destination and copies the source.
Copy ==
    /\ In("copy")
    /\ \E d \in {dir[e0], NoDir, [NoDir EXCEPT !.there = TRUE], Source(job.ver)} :
          /\ dir' = [dir EXCEPT ![e0] = d]
          /\ (d = Source(job.ver) /\ Go(job)) \/ Stop
    /\ UNCHANGED <<reg, saved, stash, files, skills, listed, hooks>>

\* Writes commands and aliases for every agent that is detected.
Register ==
    /\ In("register")
    /\ LET names == Declared(e0, job.ver) IN
       \E done \in SUBSET detected :
          /\ files' = WithFiles(files, done, names, FileOf(e0, job.ver))
          /\ \/ /\ done = detected
                /\ Go([job EXCEPT !.cmds = [a \in Agents |-> IF a \in detected THEN names ELSE {}]])
             \/ Stop
    /\ UNCHANGED <<reg, dir, saved, stash, skills, listed, hooks>>

\* The skills of the active agent that are not there yet.
NewSkills(e, v) == {n \in Declares[e][v].commands : \A a \in SkillsDirs : skills[a][n] = NoFile}

RegisterSkills ==
    /\ In("skills")
    /\ LET new == IF SkillsDirs = {} THEN {} ELSE NewSkills(e0, job.ver) IN
       \E done \in SUBSET new :
          /\ skills' = WithFiles(skills, SkillsDirs, done, FileOf(e0, job.ver))
          /\ (done = new /\ Go([job EXCEPT !.skills = new])) \/ Stop
    /\ UNCHANGED <<reg, dir, saved, stash, files, listed, hooks>>

\* Two saves of extensions.yml: the installed list, then the hooks.
RegisterHooks ==
    /\ In("hook")
    /\ \E n \in 0..2 :
          /\ listed' = IF n >= 1 THEN listed \cup {e0} ELSE listed
          /\ hooks' = IF n = 2
                        THEN [hooks EXCEPT ![e0] =
                                [h \in Events |-> IF h \in Declares[e0][job.ver].hooks THEN "on" ELSE "none"]]
                        ELSE hooks
          /\ (n = 2 /\ Go(job)) \/ Stop
    /\ UNCHANGED <<reg, dir, saved, stash, files, skills>>

\* --force: the config that remove() has backed up goes back.
Unsave ==
    /\ In("unsave")
    /\ \E n \in 0..2 :
          /\ dir' = IF n >= 1 /\ e0 \in saved THEN [dir EXCEPT ![e0].cfg = TRUE] ELSE dir
          /\ saved' = IF n = 2 THEN saved \ {e0} ELSE saved
          /\ (n = 2 /\ Go(job)) \/ Stop
    /\ UNCHANGED <<reg, stash, files, skills, listed, hooks>>

Enter ==
    /\ In("enter")
    /\ \/ /\ reg' = [reg EXCEPT ![e0] = [ver |-> job.ver, enabled |-> TRUE, cmds |-> job.cmds,
                                         skills |-> job.skills]]
          /\ Go(job) \/ Stop
       \/ reg' = reg /\ Stop
       \/ TornRegistry
    /\ UNCHANGED <<dir, saved, stash, files, skills, listed, hooks>>

\* --force: no config of an earlier removal may be taken for this one's.
ClearSaved ==
    /\ In("clear")
    /\ \/ saved' = saved \ {e0} /\ (Go(job) \/ Stop)
       \/ saved' = saved /\ Stop
    /\ UNCHANGED <<reg, dir, stash, files, skills, listed, hooks>>

-----------------------------------------------------------------------------
(* remove *)

\* By name: the registrar does not look at what is in the file.
Unregister ==
    /\ In("unregister")
    /\ \E done \in SUBSET Agents :
          /\ files' = [a \in Agents |-> [n \in Names |->
                         IF a \in done /\ n \in reg[e0].cmds[a] THEN NoFile ELSE files[a][n]]]
          /\ (done = Agents /\ Go(job)) \/ Stop
    /\ UNCHANGED <<reg, dir, saved, stash, skills, listed, hooks>>

\* The skills of e among names that are found in the directories of agents.
WithoutSkills(agents, e, names) ==
    [a \in Agents |-> [n \in Names |->
        IF a \in agents /\ n \in names /\ skills[a][n].of = e THEN NoFile ELSE skills[a][n]]]

\* In the active skills directory; without one, in every agent's.
UnregisterSkills ==
    /\ In("unskill")
    /\ LET where == IF SkillsDirs = {} THEN Agents ELSE SkillsDirs IN
       \E done \in SUBSET reg[e0].skills :
          /\ skills' = WithoutSkills(where, e0, done)
          /\ (done = reg[e0].skills /\ Go(job)) \/ Stop
    /\ UNCHANGED <<reg, dir, saved, stash, files, listed, hooks>>

\* --keep-config, and update: all but the config is deleted.
Strip ==
    /\ In("strip")
    /\ \/ /\ dir' = [dir EXCEPT ![e0].ver = 0]
          /\ Go(job) \/ Stop
       \/ dir' = dir /\ Stop
    /\ UNCHANGED <<reg, saved, stash, files, skills, listed, hooks>>

\* The bug of deleting the directory with the config in it.
Delete_NoBackup ==
    /\ In("delete")
    /\ dir' = [dir EXCEPT ![e0] = NoDir]
    /\ Go(job)
    /\ UNCHANGED <<reg, saved, stash, files, skills, listed, hooks>>

\* The config is backed up, then the directory deleted file by file.
Delete ==
    /\ In("delete")
    /\ \/ /\ saved' = IF dir[e0].cfg THEN saved \cup {e0} ELSE saved
          /\ \E d \in Torn(dir[e0]) \cup {NoDir} :
                /\ dir' = [dir EXCEPT ![e0] = d]
                /\ (d = NoDir /\ Go(job)) \/ Stop
       \/ UNCHANGED <<dir, saved>> /\ Stop
    /\ UNCHANGED <<reg, stash, files, skills, listed, hooks>>

\* The bug of leaving the hooks when the extension goes from the list.
UnregisterHooks_ListOnly ==
    /\ In("unhook")
    /\ listed' = listed \ {e0}
    /\ Go(job)
    /\ UNCHANGED <<reg, dir, saved, stash, files, skills, hooks>>

UnregisterHooks ==
    /\ In("unhook")
    /\ \E n \in 0..2 :
          /\ listed' = IF n >= 1 THEN listed \ {e0} ELSE listed
          /\ hooks' = IF n = 2 THEN [hooks EXCEPT ![e0] = NoHooks] ELSE hooks
          /\ (n = 2 /\ Go(job)) \/ Stop
    /\ UNCHANGED <<reg, dir, saved, stash, files, skills>>

Drop ==
    /\ In("drop")
    /\ \/ reg' = [reg EXCEPT ![e0] = NoEntry] /\ (Go(job) \/ Stop)
       \/ reg' = reg /\ Stop
       \/ TornRegistry
    /\ UNCHANGED <<dir, saved, stash, files, skills, listed, hooks>>

-----------------------------------------------------------------------------
(* The `specify extension` commands *)

Installation == <<<<"copy">>, <<"register">>, <<"skills">>, <<"hook">>>>

Removal(how) == <<<<"unregister">>, <<"unskill">>, <<how>>, <<"unhook">>, <<"drop">>>>

Add(e, v, force) ==
    /\ ~Conflicts(e, v)
    /\ IF Installed(e)
         THEN /\ force
              /\ Begin([NoJob EXCEPT !.op = "readd", !.ext = e, !.ver = v, !.dir = dir[e]],
                       <<<<"clear">>>> \o Removal("delete")
                         \o Installation \o <<<<"unsave">>, <<"enter">>>>)
         ELSE /\ ~force
              /\ Begin([NoJob EXCEPT !.op = "add", !.ext = e, !.ver = v],
                       Installation \o <<<<"enter">>>>)
    /\ UNCHANGED extVars

Remove(e, keepConfig) ==
    /\ Installed(e)
    /\ Begin([NoJob EXCEPT !.op = "remove", !.ext = e], Removal(IF keepConfig THEN "strip" ELSE "delete"))
    /\ UNCHANGED extVars

Update(e) ==
    /\ Installed(e) /\ reg[e].ver < Newest(e)
    /\ Begin([NoJob EXCEPT !.op = "update", !.ext = e, !.ver = Newest(e), !.entry = reg[e], !.dir = dir[e]],
             <<<<"stash">>, <<"check">>>> \o Removal("strip")
               \o <<<<"check">>>> \o Installation \o <<<<"enter">>, <<"recfg">>, <<"remeta">>>>
               \o (IF reg[e].enabled THEN <<>> ELSE <<<<"hush">>>>) \o <<<<"clean">>>>)
    /\ UNCHANGED extVars

Enable(e) ==
    /\ Installed(e) /\ ~reg[e].enabled
    /\ Begin([NoJob EXCEPT !.op = "enable", !.ext = e, !.entry = [reg[e] EXCEPT !.enabled = TRUE]],
             <<<<"remeta">>, <<"unhush">>>>)
    /\ UNCHANGED extVars

Disable(e) ==
    /\ Installed(e) /\ reg[e].enabled
    /\ Begin([NoJob EXCEPT !.op = "disable", !.ext = e, !.entry = [reg[e] EXCEPT !.enabled = FALSE]],
             <<<<"remeta">>, <<"hush">>>>)
    /\ UNCHANGED extVars

\* The user writes the extension's configuration.
Configure(e) ==
    /\ Act
    /\ Loads(e) /\ ~dir[e].cfg
    /\ dir' = [dir EXCEPT ![e].cfg = TRUE]
    /\ UNCHANGED <<reg, saved, stash, files, skills, listed, hooks, active, detected, job, todo, faults, cut>>

-----------------------------------------------------------------------------
(* extension update *)

\* The recorded command files of e, which are kept aside.
Recorded(e) == [a \in Agents |-> [n \in Names |-> IF n \in reg[e].cmds[a] THEN files[a][n] ELSE NoFile]]

Stash ==
    /\ In("stash")
    /\ \/ /\ stash' = [stash EXCEPT ![e0] = [dir |-> IF dir[e0].there THEN dir[e0] ELSE @.dir,
                                             cfg |-> @.cfg \/ dir[e0].cfg]]
          /\ Go([job EXCEPT !.known = TRUE, !.hooks = hooks[e0], !.listed = listed, !.files = Recorded(e0)])
       \/ /\ \E d \in Torn(dir[e0]) \cup {stash[e0].dir, NoDir} : stash' = [stash EXCEPT ![e0].dir = d]
          /\ Stop
    /\ UNCHANGED <<reg, dir, saved, files, skills, listed, hooks>>

\* What may be refused: the download, its id, its compatibility, its names.
Check ==
    /\ In("check")
    /\ \/ ~Conflicts(e0, job.ver) /\ Go(job)
       \/ Raise /\ UNCHANGED <<active, detected, acts, faults>>
       \/ Fault /\ Die
    /\ UNCHANGED extVars

RestoreConfig ==
    /\ In("recfg")
    /\ \/ /\ dir' = IF stash[e0].cfg /\ dir[e0].there THEN [dir EXCEPT ![e0].cfg = TRUE] ELSE dir
          /\ Go(job) \/ Stop
       \/ dir' = dir /\ Stop
    /\ UNCHANGED <<reg, saved, stash, files, skills, listed, hooks>>

\* enable and disable too: the flag of the entry.
RestoreMetadata ==
    /\ In("remeta")
    /\ \/ /\ reg' = [reg EXCEPT ![e0].enabled = job.entry.enabled]
          /\ Go(job) \/ Stop
       \/ reg' = reg /\ Stop
       \/ TornRegistry
    /\ UNCHANGED <<dir, saved, stash, files, skills, listed, hooks>>

Switched(from, to) ==
    \/ /\ hooks' = [hooks EXCEPT ![e0] = [h \in Events |-> IF @[h] = from THEN to ELSE @[h]]]
       /\ Go(job) \/ Stop
    \/ hooks' = hooks /\ Stop

SetHooks ==
    /\ \/ In("hush") /\ Switched("on", "off")
       \/ In("unhush") /\ Switched("off", "on")
    /\ UNCHANGED <<reg, dir, saved, stash, files, skills, listed>>

\* The end of an update, and of a rollback.
Clean ==
    /\ In("clean")
    /\ \/ stash' = [stash EXCEPT ![e0] = NoStash] /\ (Go(job) \/ Stop)
       \/ /\ \E d \in Torn(stash[e0].dir) : stash' = [stash EXCEPT ![e0].dir = d]
          /\ Stop
    /\ UNCHANGED <<reg, dir, saved, files, skills, listed, hooks>>

\* The copy goes back, if there is one.
UndoDir ==
    /\ In("undir")
    /\ \/ /\ dir' = IF stash[e0].dir.there THEN [dir EXCEPT ![e0] = stash[e0].dir] ELSE dir
          /\ Go(job) \/ Stop
       \/ /\ stash[e0].dir.there
          /\ \E d \in Torn(stash[e0].dir) \cup {NoDir} : dir' = [dir EXCEPT ![e0] = d]
          /\ Stop
    /\ UNCHANGED <<reg, saved, stash, files, skills, listed, hooks>>

\* The files of the entry the new version got, unless they were there before.
UndoNew ==
    /\ In("unnew")
    /\ \/ /\ files' = [a \in Agents |-> [n \in Names |->
                            IF n \in reg[e0].cmds[a] /\ job.files[a][n] = NoFile THEN NoFile ELSE files[a][n]]]
          /\ Go(job) \/ Stop
       \/ files' = files /\ Stop
    /\ UNCHANGED <<reg, dir, saved, stash, skills, listed, hooks>>

RestoreFiles ==
    /\ In("refile")
    /\ \E done \in SUBSET Agents :
          /\ files' = [a \in Agents |-> [n \in Names |->
                         IF a \in done /\ job.files[a][n] # NoFile THEN job.files[a][n] ELSE files[a][n]]]
          /\ (done = Agents /\ Go(job)) \/ Stop
    /\ UNCHANGED <<reg, dir, saved, stash, skills, listed, hooks>>

\* Nothing is put back when the update failed before it had read extensions.yml.
RestoreHooks ==
    /\ In("rehook")
    /\ \/ /\ hooks' = IF job.known THEN [hooks EXCEPT ![e0] = job.hooks] ELSE hooks
          /\ listed' = IF job.known THEN job.listed ELSE listed
          /\ Go(job) \/ Stop
       \/ UNCHANGED <<listed, hooks>> /\ Stop
    /\ UNCHANGED <<reg, dir, saved, stash, files, skills>>

\* The bug of registering the old version anew in place of restoring its entry.
RestoreEntry_Adds ==
    /\ In("reenter")
    /\ reg' = [reg EXCEPT ![e0] = [job.entry EXCEPT !.enabled = TRUE]]
    /\ Go(job)
    /\ UNCHANGED <<dir, saved, stash, files, skills, listed, hooks>>

RestoreEntry ==
    /\ In("reenter")
    /\ \/ reg' = [reg EXCEPT ![e0] = job.entry] /\ (Go(job) \/ Stop)
       \/ reg' = reg /\ Stop
       \/ TornRegistry
    /\ UNCHANGED <<dir, saved, stash, files, skills, listed, hooks>>

-----------------------------------------------------------------------------
Command ==
    \E e \in Exts :
        \/ \E v \in DOMAIN Declares[e], force \in BOOLEAN : Add(e, v, force)
        \/ \E keepConfig \in BOOLEAN : Remove(e, keepConfig)
        \/ Update(e)
        \/ Enable(e)
        \/ Disable(e)
        \/ Configure(e)

ExtStep ==
    \/ Copy \/ Register \/ RegisterSkills \/ RegisterHooks \/ Unsave \/ Enter \/ ClearSaved
    \/ Unregister \/ UnregisterSkills \/ Strip \/ Delete \/ UnregisterHooks \/ Drop
    \/ Stash \/ Check \/ RestoreConfig \/ RestoreMetadata \/ SetHooks \/ Clean
    \/ UndoDir \/ UndoNew \/ RestoreFiles \/ RestoreHooks \/ RestoreEntry

-----------------------------------------------------------------------------
(* Properties *)

\* A rolled back update leaves the extension as it was: registry, directory,
\* recorded command files, hooks and list (the rollback of extension_update).
\* A recorded file that was gone before may be left as the new version wrote it.
\* Skills are not part of it: the code does not put them back.
RolledBack ==
    In("clean") /\ job.rolled /\ e0 \notin cut =>
        /\ reg[e0] = job.entry
        /\ dir[e0] = job.dir
        /\ \A a \in Agents : \A n \in reg[e0].cmds[a] :
              \/ files[a][n] = job.files[a][n]
              \/ job.files[a][n] = NoFile /\ files[a][n] = FileOf(e0, job.ver)
        /\ e0 \in listed
        /\ \A h \in Events : h \in Declares[e0][job.entry.ver].hooks <=> hooks[e0][h] # "none"

\* Between two commands each command file the registry records for an
\* extension is there and is that extension's, at the registered version,
\* whatever happened to the others: installs, updates, removals and switches
\* of other extensions and agents, also those cut short (the conflict check
\* and the by-name unregister of the registrar).  Excepted are the extensions
\* that were cut short themselves and those that share a name with one: the
\* conflict check cannot see an extension whose manifest is gone.
FilesAsRecorded ==
    Idle => \A e \in Exts \ cut : \A a \in Agents : \A n \in reg[e].cmds[a] :
        \/ files[a][n] = FileOf(e, reg[e].ver)
        \/ \E f \in cut : \E v \in DOMAIN Declares[f] : n \in Declared(f, v)

\* Between two commands the hooks of an extension are those its installed
\* version declares, and they fire exactly if it is enabled, also when an
\* update of a disabled extension went through or was rolled back
\* (extension_enable, extension_disable, extension_update).
HooksFollowEntry ==
    Idle => \A e \in Exts \ cut : \A h \in Events :
        hooks[e][h] = IF Installed(e) /\ h \in Declares[e][reg[e].ver].hooks
                        THEN IF reg[e].enabled THEN "on" ELSE "off"
                        ELSE "none"

HasConfig(e) == dir[e].cfg \/ e \in saved \/ stash[e].cfg

\* The user's configuration outlives an update and a forced reinstall: at each
\* moment, wherever the command is stopped, it is in the extension's directory
\* or in a backup.
ConfigCarried ==
    [][\A e \in Exts :
         (/\ job.ext = e /\ job.dir.cfg
          /\ job.op = "readd" \/ (job.op = "update" /\ e \notin cut))
         => HasConfig(e)']_<<extVars, job, todo>>

=============================================================================
