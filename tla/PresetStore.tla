---------------------------- MODULE PresetStore ----------------------------
(***************************************************************************)
(* The presets of a spec-kit project: PresetManager, its registry and the  *)
(* PresetResolver (specify_cli/presets/__init__.py), with the `specify     *)
(* preset` commands (presets/_commands.py).  Presets override or extend    *)
(* commands of spec-kit and of an extension; the command files and skills  *)
(* of the agents are to show what the stack of presets resolves to.        *)
(*                                                                         *)
(* A file's content is the sequence of the layers it is composed of.  The  *)
(* agents are one that has command files and one that has native skills.   *)
(* As in ExtensionStore a command is a list of steps, in which the process *)
(* may be killed or a call may raise; a step "try" has a body and what is  *)
(* done when the body raises.                                              *)
(***************************************************************************)
EXTENDS Naturals, Sequences

CONSTANTS
    Presets,        \* preset ids
    Rank,           \* the order of the ids, for presets of equal priority
    Names,          \* command names
    CoreNames,      \* those spec-kit comes with
    ExtNames,       \* those of the extension
    Strategy,       \* Strategy[p][n]: how p provides n, or "none"
    Priorities,
    MaxActs,        \* bound: commands and edits of the user
    MaxFaults       \* bound: calls that raise and kills

Strategies == {"none", "replace", "prepend", "append", "wrap"}

ASSUME PresetAssumption ==
    /\ Rank \in [Presets -> Nat] /\ \A p, q \in Presets : Rank[p] = Rank[q] => p = q
    /\ CoreNames \subseteq Names /\ ExtNames \subseteq Names
    /\ Strategy \in [Presets -> [Names -> Strategies]]
    /\ Priorities \subseteq Nat \ {0}
    /\ MaxActs \in Nat /\ MaxFaults \in Nat

VARIABLES
    preg,       \* .registry of the presets
    pdir,       \* .specify/presets/<id>
    composed,   \* .composed of each preset
    ext,        \* whether the extension is installed
    over,       \* names with a project override
    files,      \* the command files of the command agent
    skills,     \* the SKILL.md files of the skills agent
    stale,      \* history: names whose stack has changed, or whose files
                \* were left half done, since they were last reconciled
    job,        \* what the running command remembers
    todo,       \* the steps it has yet to do
    handlers,   \* the except blocks around them, innermost first
    acts,       \* bound
    faults      \* bound

presetVars == <<preg, pdir, composed, ext, over, files, skills, stale>>

NoEntry == [in |-> FALSE, on |-> FALSE, prio |-> 0, cmds |-> {}, skills |-> {}]

\* What a command remembers: its kind, what an install has written; and of a
\* bundle's (BundleInstaller) the rest.
NoJob == [op |-> "none", cmds |-> {}, skills |-> {}, bundle |-> "none", ver |-> 0, refresh |-> FALSE,
          done |-> <<>>, given |-> {}, before |-> {}, unwound |-> 0]

\* No file: content without layers.
Nothing == <<>>

Override  == "override"
Extension == "extension"
Core      == "core"

Layer == Presets \cup {Override, Extension, Core}

PresetTypeOK ==
    /\ preg \in [Presets -> [in: BOOLEAN, on: BOOLEAN, prio: Nat, cmds: SUBSET Names, skills: SUBSET Names]]
    /\ pdir \in [Presets -> {"none", "torn", "whole"}]
    /\ composed \in [Presets -> [Names -> Seq(Layer)]]
    /\ ext \in BOOLEAN
    /\ over \subseteq Names
    /\ files \in [Names -> Seq(Layer)]
    /\ skills \in [Names -> Seq(Layer)]
    /\ stale \subseteq Names
    /\ acts \in 0..MaxActs
    /\ faults \in 0..MaxFaults
    /\ \A p \in Presets : preg[p].in => preg[p].prio \in Priorities

PresetInit ==
    /\ preg = [p \in Presets |-> NoEntry]
    /\ pdir = [p \in Presets |-> "none"]
    /\ composed = [p \in Presets |-> [n \in Names |-> Nothing]]
    /\ ext \in BOOLEAN
    /\ over = {}
    /\ files = [n \in Names |-> IF n \in ExtNames /\ ext THEN <<Extension>>
                                ELSE IF n \in CoreNames THEN <<Core>> ELSE Nothing]
    /\ skills = files
    /\ stale = {}
    /\ job = NoJob
    /\ todo = <<>>
    /\ handlers = <<>>
    /\ acts = 0
    /\ faults = 0

-----------------------------------------------------------------------------
(* PresetResolver *)

\* list_by_priority: by priority, then by id.
Precedes(prio, p, q) ==
    \/ prio[p] < prio[q]
    \/ prio[p] = prio[q] /\ Rank[p] < Rank[q]

First(S, prio) == CHOOSE p \in S : \A q \in S \ {p} : Precedes(prio, p, q)

\* The names p has a file for.
NamesOf(p) == {n \in Names : Strategy[p][n] # "none"}

\* The presets that provide n: enabled, registered and on disk.
Stack(n) == {p \in Presets : preg[p].in /\ preg[p].on /\ pdir[p] = "whole" /\ n \in NamesOf(p)}

Prio(S) == [p \in S |-> preg[p].prio]

Top(n) == First(Stack(n), Prio(Stack(n)))

\* The layers below the presets.
Base(n) ==
    IF ext /\ n \in ExtNames THEN <<Extension>>
    ELSE IF n \in CoreNames THEN <<Core>> ELSE Nothing

Compose(p, how, lower) ==
    IF how = "prepend" THEN <<p>> \o lower
    ELSE IF how = "append" THEN lower \o <<p>>
    ELSE <<p>> \o lower \o <<p>>

\* The layers of S, from the lowest: the nearest that replaces is the base; there
\* is no content without one.
Composition(n, S, prio, base) ==
    LET content[T \in SUBSET S] ==
            IF T = {} THEN base
            ELSE LET p     == First(T, prio)
                     lower == content[T \ {p}] IN
                 IF Strategy[p][n] = "replace" THEN <<p>>
                 ELSE IF lower = Nothing THEN Nothing
                 ELSE Compose(p, Strategy[p][n], lower)
    IN  content[S]

\* resolve_content: a top layer that replaces is all there is to it.
Content(n) ==
    IF Stack(n) = {} THEN Base(n)
    ELSE IF Strategy[Top(n)][n] = "replace" THEN <<Top(n)>>
    ELSE Composition(n, Stack(n), Prio(Stack(n)), Base(n))

Resolved(n) == IF n \in over THEN <<Override>> ELSE Content(n)

HasLayers(n) == n \in over \/ Stack(n) # {} \/ Base(n) # Nothing

\* A preset is the top layer.
Winner(n) == IF n \in over \/ Stack(n) = {} THEN {} ELSE {Top(n)}

-----------------------------------------------------------------------------
(* Running a command *)

Idle == todo = <<>>

In(s) == todo # <<>> /\ Head(todo)[1] = s

arg == Head(todo)[2]

Act == Idle /\ acts < MaxActs /\ acts' = acts + 1

\* A command that has ended remembers nothing.
Remember(j, steps) == IF steps = <<>> THEN NoJob ELSE j

\* The step is done and the command remembers j.
Go(j) ==
    /\ todo' = Tail(todo)
    /\ job' = Remember(j, todo')
    /\ UNCHANGED <<handlers, acts, faults>>

\* The step is replaced by steps.
Do(steps, j) ==
    /\ todo' = steps \o Tail(todo)
    /\ job' = Remember(j, todo')
    /\ UNCHANGED <<handlers, acts, faults>>

Try(body, handler) == <<<<"try", <<body, handler>>>>>>

\* What follows the try statement follows its handler too.
EnterTry ==
    /\ In("try")
    /\ todo' = arg[1] \o <<<<"end", {}>>>> \o Tail(todo)
    /\ handlers' = <<arg[2] \o Tail(todo)>> \o handlers
    /\ UNCHANGED <<presetVars, job, acts, faults>>

LeaveTry ==
    /\ In("end")
    /\ todo' = Tail(todo)
    /\ handlers' = Tail(handlers)
    /\ job' = Remember(job, todo')
    /\ UNCHANGED <<presetVars, acts, faults>>

Caught == handlers # <<>>

Raise ==
    /\ todo' = IF Caught THEN Head(handlers) ELSE <<>>
    /\ handlers' = IF Caught THEN Tail(handlers) ELSE <<>>
    /\ job' = Remember(job, todo')
    /\ UNCHANGED acts

\* The exception is passed over.
Pass ==
    /\ todo' = Tail(todo)
    /\ job' = Remember(job, todo')
    /\ UNCHANGED <<handlers, acts>>

Die ==
    /\ todo' = <<>>
    /\ handlers' = <<>>
    /\ job' = NoJob
    /\ UNCHANGED acts

Fault == faults < MaxFaults /\ faults' = faults + 1

\* The call ends in the step, with what it has done done.
Stop == Fault /\ (Raise \/ Die)

\* A kill between two steps.
Kill == ~Idle /\ Fault /\ Die /\ UNCHANGED presetVars

\* A step "raise": an error of the program.
Refuse == In("raise") /\ Raise /\ UNCHANGED <<presetVars, faults>>

\* A registry that is being written is truncated first, and one that does not
\* parse is taken for an empty one.  A write that raises is taken to raise
\* before it begins.
TornRegistry ==
    /\ preg' = [p \in Presets |-> NoEntry]
    /\ stale' = Names
    /\ Fault /\ Die

-----------------------------------------------------------------------------
(* install_from_directory *)

\* Commands of an extension that is not installed are passed over.
Provided(p) == {n \in NamesOf(p) : n \in ExtNames \ CoreNames => ext}

Reconcile(names) ==
    IF names = {} THEN <<>> ELSE Try(<<<<"commands", names>>, <<"skills", names>>>>, <<>>)

InstallPreset(p, prio) == <<<<"check", <<p, prio>>>>>>

\* Refused if it is registered; else the stacks of all its names are changing.
CheckPreset ==
    /\ In("check")
    /\ LET p    == arg[1]
           prio == arg[2] IN
       IF preg[p].in
         THEN Raise /\ UNCHANGED <<stale, faults>>
         ELSE /\ stale' = stale \cup NamesOf(p)
              /\ Do(<<<<"copy", p>>, <<"enter", <<p, prio>>>>>>
                      \o Try(<<<<"write", p>>, <<"note", p>>, <<"reskill", p>>, <<"note", p>>>>,
                             <<<<"unwrite", p>>, <<"delete", <<p, TRUE>>>>, <<"drop", p>>, <<"raise", p>>>>)
                      \o Reconcile(Provided(p)),
                    [job EXCEPT !.cmds = {}, !.skills = {}])
    /\ UNCHANGED <<preg, pdir, composed, ext, over, files, skills>>

CopyPreset ==
    /\ In("copy")
    /\ \E d \in {"none", "torn", "whole"} :
          /\ pdir' = [pdir EXCEPT ![arg] = d]
          /\ composed' = [composed EXCEPT ![arg] = [n \in Names |-> Nothing]]
          /\ \/ d = "whole" /\ Go(job)
             \/ d # "whole" /\ Stop
    /\ UNCHANGED <<preg, ext, over, files, skills, stale>>

\* Before the commands are written: composing them needs it on the stack.
EnterPreset ==
    /\ In("enter")
    /\ \/ /\ preg' = [preg EXCEPT ![arg[1]] = [NoEntry EXCEPT !.in = TRUE, !.on = TRUE, !.prio = arg[2]]]
          /\ Go(job)
          /\ UNCHANGED stale
       \/ UNCHANGED <<preg, stale>> /\ Stop
       \/ TornRegistry
    /\ UNCHANGED <<pdir, composed, ext, over, files, skills>>

\* What of p gets composed before it is written: the names it is on top of.
Tops(p) == {n \in Provided(p) : Winner(n) = {p} /\ Strategy[p][n] # "replace"}

Composed(p) == [n \in Names |-> IF n \in Tops(p) THEN Content(n) ELSE composed[p][n]]

Body(p, n) == IF composed[p][n] # Nothing THEN composed[p][n] ELSE <<p>>

\* _register_commands: to all agents, composed where p is on top.  A command
\* that has nothing to compose onto is refused before anything is written.
WritePreset ==
    /\ In("write")
    /\ LET p == arg IN
       IF \E n \in Tops(p) : Content(n) = Nothing
         THEN Raise /\ UNCHANGED <<composed, files, skills, faults>>
         ELSE /\ composed' = [composed EXCEPT ![p] = Composed(p)]
              /\ \E done \in SUBSET Provided(p) :
                   LET body(n) == IF n \in Tops(p) THEN Content(n) ELSE <<p>> IN
                   /\ files' = [n \in Names |-> IF n \in done THEN body(n) ELSE files[n]]
                   /\ skills' = [n \in Names |-> IF n \in done THEN body(n) ELSE skills[n]]
                   /\ \/ done = Provided(p) /\ Go([job EXCEPT !.cmds = done])
                      \/ done # Provided(p) /\ Stop
    /\ UNCHANGED <<preg, pdir, ext, over, stale>>

\* _register_skills: those that are there are written again.
SkillPreset ==
    /\ In("reskill")
    /\ LET p     == arg
           there == {n \in Provided(p) : skills[n] # Nothing} IN
       \E done \in SUBSET there :
          /\ skills' = [n \in Names |-> IF n \in done THEN Body(p, n) ELSE skills[n]]
          /\ \/ done = there /\ Go([job EXCEPT !.skills = done])
             \/ done # there /\ Stop
    /\ UNCHANGED <<preg, pdir, composed, ext, over, files, stale>>

\* registry.update with what has been written so far.
NotePreset ==
    /\ In("note")
    /\ \/ preg' = [preg EXCEPT ![arg].cmds = job.cmds, ![arg].skills = job.skills] /\ Go(job) /\ UNCHANGED stale
       \/ UNCHANGED <<preg, stale>> /\ Stop
       \/ TornRegistry
    /\ UNCHANGED <<pdir, composed, ext, over, files, skills>>

\* The except block: by name, from all agents.
UnwritePreset ==
    /\ In("unwrite")
    /\ LET gone(f) == [n \in Names |-> IF n \in job.cmds THEN Nothing ELSE f[n]] IN
       /\ files' = gone(files)
       /\ skills' = gone(skills)
    /\ Do(<<<<"unskill", job.skills>>>>, [job EXCEPT !.unwound = faults + 1])
    /\ UNCHANGED <<preg, pdir, composed, ext, over, stale>>

-----------------------------------------------------------------------------
(* remove *)

\* What the names' files were before presets: an extension's are written
\* again; for the core ones the template would have to be in the project.
Unskilled(names) ==
    [n \in Names |-> IF n \in names /\ skills[n] # Nothing
                       THEN IF ext /\ n \in ExtNames THEN <<Extension>> ELSE Nothing
                       ELSE skills[n]]

UnskillPreset ==
    /\ In("unskill")
    /\ \E done \in SUBSET arg :
          /\ skills' = Unskilled(done)
          /\ \/ done = arg /\ Go(job)
             \/ done # arg /\ Stop
    /\ UNCHANGED <<preg, pdir, composed, ext, over, files, stale>>

RemovePreset(p) == <<<<"remove", p>>>>

\* What is reconciled is what the entry records: of an install that was killed
\* less than it had on its stack.

BeginRemove ==
    /\ In("remove")
    /\ LET p    == arg
           cmds == preg[p].cmds IN
       /\ Do(IF ~preg[p].in THEN <<>>
             ELSE <<<<"unskill", preg[p].skills>>, <<"unfile", <<cmds, preg[p].skills = {}>>>>,
                    <<"delete", <<p, FALSE>>>>, <<"drop", p>>>>
                  \o Reconcile(cmds),
             job)
       /\ stale' = IF preg[p].in THEN stale \cup NamesOf(p) ELSE stale
    /\ UNCHANGED <<preg, pdir, composed, ext, over, files, skills>>

\* By name.  The skills agent's only if no skill was recorded.
Unfile ==
    /\ In("unfile")
    /\ \E done \in SUBSET arg[1] :
          /\ files' = [n \in Names |-> IF n \in done THEN Nothing ELSE files[n]]
          /\ skills' = [n \in Names |-> IF n \in done /\ arg[2] THEN Nothing ELSE skills[n]]
          /\ \/ done = arg[1] /\ Go(job)
             \/ done # arg[1] /\ Stop
    /\ UNCHANGED <<preg, pdir, composed, ext, over, stale>>

\* In the except block an error is passed over.
DeletePreset ==
    /\ In("delete")
    /\ \E d \in {"none", "torn"} :
          /\ pdir' = [pdir EXCEPT ![arg[1]] = IF @ = "none" THEN @ ELSE d]
          /\ \/ d = "none" /\ Go(job)
             \/ d = "torn" /\ Fault
                /\ \/ Die
                   \/ ~arg[2] /\ Raise
                   \/ arg[2] /\ Pass
    /\ UNCHANGED <<preg, composed, ext, over, files, skills, stale>>

DropPreset ==
    /\ In("drop")
    /\ \/ preg' = [preg EXCEPT ![arg] = NoEntry] /\ Go(job) /\ UNCHANGED stale
       \/ UNCHANGED <<preg, stale>> /\ Stop
       \/ TornRegistry
    /\ UNCHANGED <<pdir, composed, ext, over, files, skills>>

-----------------------------------------------------------------------------
(* Reconciliation *)

\* The bug of taking the preset that was installed last for the winner.
ReconcileCommands_Unsorted ==
    /\ In("commands")
    /\ files' = [n \in Names |-> IF n \in arg /\ Stack(n) # {}
                                   THEN <<CHOOSE p \in Stack(n) : \A q \in Stack(n) : Rank[q] <= Rank[p]>>
                                   ELSE IF n \in arg /\ HasLayers(n) THEN Resolved(n) ELSE files[n]]
    /\ Go(job)
    /\ UNCHANGED <<preg, pdir, composed, ext, over, skills, stale>>

\* _reconcile_composed_commands: the content of the whole stack, which the top
\* preset keeps; a command that cannot be composed any more is unregistered.
ReconcileCommands ==
    /\ In("commands")
    /\ LET names == {n \in arg : HasLayers(n)} IN
       \E done \in SUBSET names :
          /\ files' = [n \in Names |-> IF n \in done THEN Resolved(n) ELSE files[n]]
          /\ composed' = [p \in Presets |-> [n \in Names |->
                IF n \in done /\ Winner(n) = {p} /\ Strategy[p][n] # "replace" /\ Resolved(n) # Nothing
                  THEN Resolved(n) ELSE composed[p][n]]]
          /\ \/ done = names /\ Go(job)
             \/ done # names /\ Stop
    /\ UNCHANGED <<preg, pdir, ext, over, skills, stale>>

\* A skill directory that some preset still records is made again.
Managed(n) == \E p \in Presets : preg[p].in /\ preg[p].on /\ n \in preg[p].skills

\* _reconcile_skills: the winning preset's, the override's; else as for a
\* removal.
Reskilled(n) ==
    IF ~HasLayers(n) THEN skills[n]
    ELSE IF n \in over THEN <<Override>>
    ELSE IF Stack(n) = {} THEN Unskilled({n})[n]
    ELSE IF skills[n] # Nothing \/ Managed(n) THEN Body(Top(n), n)
    ELSE Nothing

ReconcileSkills ==
    /\ In("skills")
    /\ \E done \in SUBSET arg :
          /\ skills' = [n \in Names |-> IF n \in done THEN Reskilled(n) ELSE skills[n]]
          /\ \/ done = arg /\ stale' = stale \ arg /\ Go(job)
             \/ done # arg /\ stale' = stale /\ Stop
    /\ UNCHANGED <<preg, pdir, composed, ext, over, files>>

-----------------------------------------------------------------------------
(* The other commands and the user *)

\* set-priority, enable and disable write the registry and nothing else.
Retuned(p, entry) ==
    /\ preg[p].in /\ entry # preg[p]
    /\ preg' = [preg EXCEPT ![p] = entry]
    /\ stale' = stale \cup NamesOf(p)
    /\ Act
    /\ UNCHANGED <<pdir, composed, ext, over, files, skills, job, todo, handlers, faults>>

SetPriority(p, prio) == Retuned(p, [preg[p] EXCEPT !.prio = prio])

SetEnabled(p, on) == Retuned(p, [preg[p] EXCEPT !.on = on])

\* The user puts a file into templates/overrides, or takes it away.
EditOverride(n) ==
    /\ Act
    /\ over' = IF n \in over THEN over \ {n} ELSE over \cup {n}
    /\ stale' = stale \cup {n}
    /\ UNCHANGED <<preg, pdir, composed, ext, files, skills, job, todo, handlers, faults>>

\* An extension's commands are written and deleted by name, presets or not.
\* One that fails does nothing: ExtensionStore has what may be left of it.
InstallExtension == <<<<"extend", TRUE>>>>
RemoveExtension  == <<<<"extend", FALSE>>>>

Extend ==
    /\ In("extend")
    /\ IF arg = ext THEN Raise /\ UNCHANGED <<presetVars, faults>>
       ELSE LET put(f) == [n \in Names |-> IF n \in ExtNames THEN (IF arg THEN <<Extension>> ELSE Nothing) ELSE f[n]]
            IN \/ /\ ext' = arg
                  /\ files' = put(files)
                  /\ skills' = put(skills)
                  /\ stale' = stale \cup {n \in ExtNames : Stack(n) # {} \/ n \in over \cup CoreNames}
                  /\ Go(job)
                  /\ UNCHANGED <<preg, pdir, composed, over>>
               \/ Stop /\ UNCHANGED presetVars

PresetStep ==
    \/ EnterTry \/ LeaveTry \/ Refuse \/ Kill
    \/ CheckPreset \/ CopyPreset \/ EnterPreset \/ WritePreset \/ SkillPreset \/ NotePreset \/ UnwritePreset
    \/ UnskillPreset \/ BeginRemove \/ Unfile \/ DeletePreset \/ DropPreset
    \/ ReconcileCommands \/ ReconcileSkills
    \/ Extend

Tune ==
    \/ \E p \in Presets : (\E prio \in Priorities : SetPriority(p, prio)) \/ \E on \in BOOLEAN : SetEnabled(p, on)
    \/ \E n \in Names : EditOverride(n)

-----------------------------------------------------------------------------
(* Properties *)

\* What the agents see is what the stack resolves to, in whatever order
\* presets were installed and removed, also after failures: each name that an
\* install or a removal has reconciled since its stack last changed has the
\* resolved content in the command files, and a skill, if it is there, shows
\* it too (_reconcile_composed_commands: "command files always reflect the
\* current priority stack rather than depending on install/remove order").
FilesFollowStack ==
    Idle => \A n \in Names \ stale :
        /\ files[n] = Resolved(n)
        /\ skills[n] # Nothing /\ Resolved(n) # Nothing => skills[n] = Resolved(n)

=============================================================================
