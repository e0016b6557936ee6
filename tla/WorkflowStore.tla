--------------------------- MODULE WorkflowStore ---------------------------
(***************************************************************************)
(* The workflows and the custom step types that are installed in a         *)
(* project: `specify workflow add` and `remove`, `specify workflow step    *)
(* add` and `remove` (specify_cli/__init__.py) on WorkflowRegistry and     *)
(* StepRegistry (specify_cli/workflows/catalog.py).  As in PresetStore a   *)
(* command is a list of steps.                                             *)
(*                                                                         *)
(* A workflow from a catalog is downloaded straight into its directory,    *)
(* which is deleted when that fails; a step type is staged next to its     *)
(* directory and renamed into place.                                       *)
(***************************************************************************)
EXTENDS PresetStore

CONSTANTS
    Workflows,      \* workflow ids
    StepTypes       \* ids of custom step types

VARIABLES
    wreg,       \* the workflows of workflow-registry.json
    wdir,       \* .specify/workflows/<id>
    sreg,       \* the step types of step-registry.json
    sdir        \* .specify/workflows/steps/<id>

workflowVars == <<wreg, wdir, sreg, sdir>>

WorkflowTypeOK ==
    /\ wreg \subseteq Workflows
    /\ wdir \in [Workflows -> {"none", "torn", "whole"}]
    /\ sreg \subseteq StepTypes
    /\ sdir \in [StepTypes -> {"none", "torn", "whole"}]

WorkflowInit ==
    /\ wreg = {}
    /\ wdir = [w \in Workflows |-> "none"]
    /\ sreg = {}
    /\ sdir = [s \in StepTypes |-> "none"]

\* The user's error: nothing is done.
Reject == Raise /\ UNCHANGED <<faults, workflowVars>>

-----------------------------------------------------------------------------
(* workflow add and remove *)

AddWorkflow(w) == <<<<"fetch_workflow", w>>, <<"enter_workflow", w>>>>

\* From a file or a URL: no catalog, and nothing is deleted when it fails.
CopyInWorkflow(w) == <<<<"copy_workflow", w>>, <<"enter_workflow", w>>>>

RemoveWorkflow(w) == <<<<"remove_workflow", w>>>>

\* The catalog does not have it, or does not allow it; or the download fails or
\* is not this workflow, and with it goes what was installed before.
FetchWorkflow ==
    /\ In("fetch_workflow")
    /\ \/ wdir' = [wdir EXCEPT ![arg] = "whole"] /\ Go(job)
       \/ UNCHANGED wdir /\ Stop
       \/ wdir' = [wdir EXCEPT ![arg] = "none"] /\ Fault /\ Raise
       \/ wdir' = [wdir EXCEPT ![arg] = "torn"] /\ Fault /\ Die
    /\ UNCHANGED <<wreg, sreg, sdir>>

\* The file has been validated before.
CopyWorkflow ==
    /\ In("copy_workflow")
    /\ \/ wdir' = [wdir EXCEPT ![arg] = "whole"] /\ Go(job)
       \/ wdir' = [wdir EXCEPT ![arg] = "torn"] /\ Stop
    /\ UNCHANGED <<wreg, sreg, sdir>>

EnterWorkflow ==
    /\ In("enter_workflow")
    /\ \/ wreg' = wreg \cup {arg} /\ Go(job)
       \/ wreg' = wreg /\ Stop
       \/ wreg' = {} /\ Fault /\ Die
    /\ UNCHANGED <<wdir, sreg, sdir>>

DeleteWorkflow ==
    /\ In("remove_workflow")
    /\ IF arg \notin wreg THEN Reject
       ELSE \/ /\ wdir' = [wdir EXCEPT ![arg] = "none"]
               /\ Do(<<<<"drop_workflow", arg>>>>, job)
               /\ UNCHANGED <<wreg, sreg, sdir>>
            \/ /\ wdir[arg] # "none"
               /\ wdir' = [wdir EXCEPT ![arg] = "torn"]
               /\ Stop
               /\ UNCHANGED <<wreg, sreg, sdir>>

DropWorkflow ==
    /\ In("drop_workflow")
    /\ \/ wreg' = wreg \ {arg} /\ Go(job)
       \/ wreg' = wreg /\ Stop
       \/ wreg' = {} /\ Fault /\ Die
    /\ UNCHANGED <<wdir, sreg, sdir>>

-----------------------------------------------------------------------------
(* workflow step add and remove *)

AddStepType(s) == <<<<"fetch_step", s>>, <<"enter_step", s>>>>

RemoveStepType(s) == <<<<"remove_step", s>>>>

\* Staged, then renamed: the directory is there as a whole or not at all.
FetchStep ==
    /\ In("fetch_step")
    /\ IF arg \in sreg \/ sdir[arg] # "none" THEN Reject
       ELSE /\ \/ sdir' = [sdir EXCEPT ![arg] = "whole"] /\ Go(job)
               \/ UNCHANGED sdir /\ Stop
            /\ UNCHANGED <<wreg, wdir, sreg>>

\* A registry that cannot be written takes the directory with it.
EnterStep ==
    /\ In("enter_step")
    /\ \/ sreg' = sreg \cup {arg} /\ Go(job) /\ UNCHANGED sdir
       \/ sdir' = [sdir EXCEPT ![arg] = "none"] /\ Fault /\ Raise /\ UNCHANGED sreg
       \/ UNCHANGED <<sreg, sdir>> /\ Fault /\ Die
       \/ sreg' = {} /\ Fault /\ Die /\ UNCHANGED sdir
    /\ UNCHANGED <<wreg, wdir>>

\* A directory without an entry is deleted.  Else the entry goes first, and
\* comes back when the directory cannot be deleted.
RemoveStep ==
    /\ In("remove_step")
    /\ IF arg \notin sreg /\ sdir[arg] = "none" THEN Reject
       ELSE /\ Do(IF arg \notin sreg THEN <<<<"delete_step", arg>>>>
                  ELSE <<<<"drop_step", arg>>>>
                       \o Try(<<<<"delete_step", arg>>>>, <<<<"relist_step", arg>>, <<"raise", arg>>>>),
                  job)
            /\ UNCHANGED workflowVars

DropStep ==
    /\ In("drop_step")
    /\ \/ sreg' = sreg \ {arg} /\ Go(job)
       \/ sreg' = sreg /\ Stop
       \/ sreg' = {} /\ Fault /\ Die
    /\ UNCHANGED <<wreg, wdir, sdir>>

DeleteStep ==
    /\ In("delete_step")
    /\ \/ sdir' = [sdir EXCEPT ![arg] = "none"] /\ Go(job)
       \/ sdir[arg] # "none" /\ sdir' = [sdir EXCEPT ![arg] = "torn"] /\ Stop
    /\ UNCHANGED <<wreg, wdir, sreg>>

\* Best effort.
RelistStep ==
    /\ In("relist_step")
    /\ \/ sreg' = sreg \cup {arg} /\ Go(job)
       \/ sreg' = sreg /\ Fault /\ (Die \/ Pass)
    /\ UNCHANGED <<wreg, wdir, sdir>>

WorkflowStep ==
    /\ \/ FetchWorkflow \/ CopyWorkflow \/ EnterWorkflow \/ DeleteWorkflow \/ DropWorkflow
       \/ FetchStep \/ EnterStep \/ RemoveStep \/ DropStep \/ DeleteStep \/ RelistStep
    /\ UNCHANGED presetVars

=============================================================================
