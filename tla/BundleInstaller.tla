-------------------------- MODULE BundleInstaller --------------------------
(***************************************************************************)
(* Bundles: `specify bundle install`, `update` and `remove`                *)
(* (specify_cli/commands/bundle, specify_cli/bundler).  A bundle is a list *)
(* of components, each a preset, an extension, a workflow or a step type,  *)
(* that are installed by their own commands; a record says which of them   *)
(* the bundle has contributed.  The user goes on installing and removing   *)
(* components by hand.                                                     *)
(***************************************************************************)
EXTENDS WorkflowStore, FiniteSets

CONSTANTS
    Bundles,        \* bundle ids
    Plans,          \* Plans[b]: the components of each version of b, in order
    Priority        \* the priority bundles give their presets

\* A component is a kind and an id; a value stands for both, so kinds share none.
Components == Presets \cup {Extension} \cup Workflows \cup StepTypes

ASSUME BundleAssumption ==
    /\ Plans \in [Bundles -> Seq(Seq(Components))]
    /\ Priority \in Priorities
    /\ Extension \notin Presets \cup Workflows \cup StepTypes \cup Bundles
    /\ Presets \cap (Workflows \cup StepTypes \cup Bundles) = {}
    /\ Workflows \cap (StepTypes \cup Bundles) = {} /\ StepTypes \cap Bundles = {}

VARIABLES
    records,    \* bundle-records.json
    mine,       \* history: what the user installed while no record listed it
    excused     \* history: what the user removed, or a fault has broken

vars == <<presetVars, workflowVars, records, mine, excused, job, todo, handlers, acts, faults>>

NoRecord == [ver |-> 0, comps |-> {}]

Job == [op: {"none", "user", "install", "remove"}, bundle: Bundles \cup {"none"}, ver: Nat, refresh: BOOLEAN,
        done: Seq(Components), given: SUBSET Components, before: SUBSET Components, unwound: Nat,
        cmds: SUBSET Names, skills: SUBSET Names]

TypeOK ==
    /\ PresetTypeOK
    /\ WorkflowTypeOK
    /\ records \in [Bundles -> [ver: Nat, comps: SUBSET Components]]
    /\ mine \subseteq Components
    /\ excused \subseteq Components
    /\ job \in Job

Init ==
    /\ PresetInit
    /\ WorkflowInit
    /\ records = [b \in Bundles |-> NoRecord]
    /\ mine = IF ext THEN {Extension} ELSE {}
    /\ excused = {}

-----------------------------------------------------------------------------
(* The primitive managers *)

\* is_installed of each kind: by id; of a preset the manifest must load.
Installed(c) ==
    \/ c \in Presets /\ preg[c].in /\ pdir[c] = "whole"
    \/ c = Extension /\ ext
    \/ c \in wreg \cup sreg

InstalledSet == {c \in Components : Installed(c)}

\* Installed and there.
Usable == InstalledSet \ ({x \in Workflows : wdir[x] # "whole"} \cup {x \in StepTypes : sdir[x] # "whole"})

InstallOf(c) ==
    IF c \in Presets THEN InstallPreset(c, Priority)
    ELSE IF c = Extension THEN InstallExtension
    ELSE IF c \in Workflows THEN AddWorkflow(c) ELSE AddStepType(c)

RemovalOf(c) ==
    IF c \in Presets THEN RemovePreset(c)
    ELSE IF c = Extension THEN RemoveExtension
    ELSE IF c \in Workflows THEN RemoveWorkflow(c) ELSE RemoveStepType(c)

\* What the other bundles' records list.
StillNeeded(b) == UNION {records[q].comps : q \in Bundles \ {b}}

\* The bug of claiming whatever is there.
Owned_Claimed(b, c) == c \in Components

\* Listed by this bundle's record or another's: not installed by the user.
Owned(b, c) == c \in records[b].comps \cup StillNeeded(b)

-----------------------------------------------------------------------------
(* install_bundle *)

BundleOnly == UNCHANGED <<presetVars, workflowVars>>

\* In the order of the plan; an exception unwinds what is new.
Apply(b, ver, refresh) ==
    /\ Act
    /\ job' = [NoJob EXCEPT !.op = "install", !.bundle = b, !.ver = ver, !.refresh = refresh,
                            !.before = InstalledSet]
    /\ todo' = Try([i \in 1..Len(Plans[b][ver]) |-> <<"part", Plans[b][ver][i]>>], <<<<"unwind", b>>>>)
                 \o <<<<"record", b>>>>
    /\ UNCHANGED <<handlers, faults, records>>
    /\ BundleOnly

InstallBundle(b) == \E ver \in 1..Len(Plans[b]) : Apply(b, ver, FALSE)

\* To the version the catalog has.
UpdateBundle(b) == records[b].ver # 0 /\ Apply(b, Len(Plans[b]), TRUE)

\* Is there: kept, or applied again when an update owns it.  Is not: installed.
Part ==
    /\ In("part")
    /\ LET c     == arg
           b     == job.bundle
           given == [job EXCEPT !.given = IF Owned(b, c) THEN @ \cup {c} ELSE @] IN
       IF Installed(c)
         THEN Do(IF job.refresh /\ Owned(b, c) THEN InstallOf(c) ELSE <<>>, given)
         ELSE Do(InstallOf(c) \o <<<<"did", c>>>>, job)
    /\ UNCHANGED records
    /\ BundleOnly

Did ==
    /\ In("did")
    /\ Go([job EXCEPT !.done = <<arg>> \o @, !.given = @ \cup {arg}])
    /\ UNCHANGED records
    /\ BundleOnly

\* From here on nothing is to fail if nothing is to be left behind.
Unwinding == IF job.unwound = 0 THEN faults + 1 ELSE job.unwound

\* The bug of unwinding only the component that was installed last.
Unwind_Last ==
    /\ In("unwind")
    /\ Do((IF job.done = <<>> THEN <<>> ELSE Try(RemovalOf(Head(job.done)), <<>>)) \o <<<<"raise", arg>>>>,
          [job EXCEPT !.unwound = Unwinding])
    /\ UNCHANGED records
    /\ BundleOnly

\* Newest first, each as well as it goes.
Unwind ==
    /\ In("unwind")
    /\ IF job.done = <<>>
         THEN Do(<<<<"raise", arg>>>>, [job EXCEPT !.unwound = Unwinding])
         ELSE Do(Try(RemovalOf(Head(job.done)), <<>>) \o <<<<"unwind", arg>>>>,
                 [job EXCEPT !.done = Tail(@), !.unwound = Unwinding])
    /\ UNCHANGED records
    /\ BundleOnly

\* save_records; how the file is written is not part of the repository.
Record ==
    /\ In("record")
    /\ \/ /\ records' = [records EXCEPT ![arg] = [ver |-> job.ver, comps |-> job.given]]
          /\ Go(job) \/ (Fault /\ Die)
       \/ records' = records /\ Stop
    /\ BundleOnly

-----------------------------------------------------------------------------
(* remove_bundle *)

\* What no other bundle needs is removed; then the record.
RemoveBundle(b) ==
    /\ Act
    /\ records[b].ver # 0
    /\ job' = [NoJob EXCEPT !.op = "remove", !.bundle = b]
    /\ \E order \in [1..Cardinality(records[b].comps) -> records[b].comps] :
          /\ \A c \in records[b].comps : \E i \in DOMAIN order : order[i] = c
          /\ todo' = [i \in DOMAIN order |-> <<"unpart", order[i]>>] \o <<<<"unrecord", b>>>>
    /\ UNCHANGED <<handlers, faults, records>>
    /\ BundleOnly

\* The bug of not looking at the other bundles.
Unpart_Unshared ==
    /\ In("unpart")
    /\ Do(IF Installed(arg) THEN RemovalOf(arg) ELSE <<>>, job)
    /\ UNCHANGED records
    /\ BundleOnly

Unpart ==
    /\ In("unpart")
    /\ Do(IF arg \notin StillNeeded(job.bundle) /\ Installed(arg) THEN RemovalOf(arg) ELSE <<>>, job)
    /\ UNCHANGED records
    /\ BundleOnly

Unrecord ==
    /\ In("unrecord")
    /\ \/ /\ records' = [records EXCEPT ![arg] = NoRecord]
          /\ Go(job) \/ (Fault /\ Die)
       \/ records' = records /\ Stop
    /\ BundleOnly

-----------------------------------------------------------------------------
(* The user's own commands *)

ByHand(steps) ==
    /\ Act
    /\ job' = [NoJob EXCEPT !.op = "user"]
    /\ todo' = steps
    /\ UNCHANGED <<handlers, faults, records>>
    /\ BundleOnly

Command ==
    \/ \E p \in Presets, prio \in Priorities : ByHand(InstallPreset(p, prio))
    \/ \E w \in Workflows : ByHand(CopyInWorkflow(w))
    \/ \E c \in Components :
          \/ c \notin Presets /\ ByHand(InstallOf(c))
          \/ ByHand(RemovalOf(c))
    \/ \E b \in Bundles : InstallBundle(b) \/ UpdateBundle(b) \/ RemoveBundle(b)
    \/ Tune /\ UNCHANGED <<workflowVars, records>>

BundleStep == Part \/ Did \/ Unwind \/ Record \/ Unpart \/ Unrecord

Step ==
    \/ PresetStep /\ UNCHANGED <<workflowVars, records>>
    \/ WorkflowStep /\ UNCHANGED records
    \/ BundleStep

\* What becomes the user's own, and what he or a fault has broken: a fault
\* breaks what is lost in its step, and what a removal of its bundle had
\* begun with.
History ==
    LET new  == Usable' \ Usable
        lost == Usable \ Usable' IN
    /\ mine' = (mine \ lost) \cup
               IF job.op = "user" THEN {c \in new : \A b \in Bundles : c \notin records[b].comps} ELSE {}
    /\ excused' = excused \cup
               {c \in lost : \/ job.op = "user"
                             \/ faults' # faults
                             \/ job.op = "remove" /\ \A b \in Bundles \ {job.bundle} : c \notin records[b].comps}

Next == (Command \/ Step) /\ History

Spec == Init /\ [][Next]_vars

-----------------------------------------------------------------------------
(* Properties *)

\* What the record of a bundle lists is installed and there, unless the user or a fault
\* has broken it since: no other bundle's removal, and no unwinding of an
\* install that failed, takes it away (components_still_needed, _rollback).
RecordedInstalled ==
    Idle => \A b \in Bundles : \A c \in records[b].comps : c \in Usable \cup excused

\* A bundle whose install or update fails leaves installed what was installed
\* before, no more and no less, as long as nothing fails in the except blocks
\* (install_from_directory of presets, _rollback, install_bundle).
FailureLeavesNothing ==
    job.op = "install" /\ In("raise") /\ arg = job.bundle /\ faults + 1 = job.unwound => InstalledSet = job.before

\* No command of a bundle takes away what the user has installed himself, also
\* if bundles list it that were installed, updated or removed since ("no
\* collateral removals"); a kill may.
NoCollateral ==
    [][job.op \in {"install", "remove"} /\ faults' = faults =>
          mine \cap Usable \subseteq Usable']_vars

=============================================================================
