---------------------------- MODULE BundleProofs ----------------------------
(***************************************************************************)
(* Theorems of BundleInstaller, for any presets, workflows, step types and *)
(* bundles, any plans, and any number of commands, exceptions and kills.   *)
(*                                                                         *)
(* A command is a list of steps, with the lists its except blocks go on    *)
(* with.  What is on them is described in two layers: what a command that  *)
(* makes or removes one component may have left to do before the list z,   *)
(* inside the except blocks H, and what is true then of the component; and *)
(* what a bundle's command may have left to do around that.                *)
(*                                                                         *)
(* For the files of the presets a second description is enough: the lists  *)
(* are in the middle of at most one preset, whose names are all stale, or  *)
(* of reconciling some names; all else on them leaves the stacks alone.    *)
(***************************************************************************)
EXTENDS BundleInstaller, SequenceTheorems, FiniteSetTheorems, TLAPS

-----------------------------------------------------------------------------
(* Lists *)

IsList(r) == \E S : r \in Seq(S)

\* The step x, and then the list r.
Then(x, r) == <<x>> \o r

\* A step before a list is its head, and the list its tail.
LEMMA ThenList ==
    ASSUME NEW x, NEW r, IsList(r)
    PROVE  /\ IsList(Then(x, r)) /\ Then(x, r) # <<>>
           /\ Head(Then(x, r)) = x /\ Tail(Then(x, r)) = r
<1>1. PICK S : r \in Seq(S)
  BY DEF IsList
<1> DEFINE T == S \cup {x}
<1>2. r \in Seq(T) /\ <<x>> \in Seq(T)
  BY <1>1
<1>3. Then(x, r) \in Seq(T)
  BY <1>2 DEF Then
<1>4. Len(Then(x, r)) = Len(r) + 1 /\ Len(r) \in Nat
  BY <1>2 DEF Then
<1>5. Then(x, r)[1] = x /\ \A i \in 1..Len(r) : Then(x, r)[i + 1] = r[i]
  BY <1>2 DEF Then
<1> HIDE DEF T
<1>6. Then(x, r) # <<>>
  BY <1>4
<1>7. Head(Then(x, r)) = x
  BY <1>3, <1>5, <1>6
<1>8. Tail(Then(x, r)) = r
  <2>1. Tail(Then(x, r)) \in Seq(T) /\ Len(Tail(Then(x, r))) = Len(r)
    BY <1>3, <1>4, <1>6
  <2>2. \A i \in 1..Len(r) : Tail(Then(x, r))[i] = r[i]
    BY <1>3, <1>4, <1>5, <1>6, <2>1, HeadTailProperties
  <2>3. QED
    BY <1>2, <2>1, <2>2, SeqEqual
<1>9. QED
  BY <1>3, <1>6, <1>7, <1>8 DEF IsList

LEMMA EmptyList ==
    ASSUME NEW t, t = <<>>
    PROVE  IsList(t)
<1>1. t \in Seq({})
  OBVIOUS
<1>2. QED
  BY <1>1 DEF IsList

\* The first step of a list, and the others.
LEMMA FirstStep ==
    ASSUME NEW W, NEW a \in W, NEW s \in Seq(W), NEW t \in Seq(W), Len(t) = Len(s) + 1, t[1] = a,
           \A i \in 1..Len(s) : t[i + 1] = s[i]
    PROVE  t = <<a>> \o s
<1> DEFINE u == <<a>> \o s
<1>0. <<a>> \in Seq(W)
  OBVIOUS
<1>1. u \in Seq(W) /\ Len(u) = Len(s) + 1 /\ Len(s) \in Nat
  BY <1>0
<1>2. u[1] = a /\ \A i \in 1..Len(s) : u[i + 1] = s[i]
  BY <1>0
<1> HIDE DEF u
<1>3. \A i \in 1..Len(t) : t[i] = u[i]
  <2>1. TAKE i \in 1..Len(t)
  <2>2. CASE i = 1
    BY <1>2, <2>2
  <2>3. CASE i # 1
    <3>1. i - 1 \in 1..Len(s) /\ (i - 1) + 1 = i
      BY <1>1, <2>3
    <3>2. QED
      BY <1>2, <3>1
  <2>4. QED
    BY <2>2, <2>3
<1>4. t = u
  BY <1>1, <1>3, SeqEqual
<1>5. QED
  BY <1>4 DEF u

\* What a few steps before a list are.
LEMMA StepsThen ==
    ASSUME NEW r, IsList(r)
    PROVE  /\ <<>> \o r = r
           /\ \A a : <<a>> \o r = Then(a, r)
           /\ \A a, b : <<a, b>> \o r = Then(a, Then(b, r))
           /\ \A a, b, c : <<a, b, c>> \o r = Then(a, Then(b, Then(c, r)))
           /\ \A a, b, c, d : <<a, b, c, d>> \o r = Then(a, Then(b, Then(c, Then(d, r))))
           /\ \A a, b, c, d, e : <<a, b, c, d, e>> \o r = Then(a, Then(b, Then(c, Then(d, Then(e, r)))))
<1>1. PICK S : r \in Seq(S)
  BY DEF IsList
<1>2. ASSUME NEW T, NEW x \in T, NEW s \in Seq(T), NEW u, u = <<x>> \o s
      PROVE  u \o r = Then(x, s \o r)
  <2> DEFINE W == T \cup S
  <2>1. <<x>> \in Seq(W)
    OBVIOUS
  <2>2. s \in Seq(W) /\ r \in Seq(W)
    BY <1>1, SeqMonotonic
  <2> HIDE DEF W
  <2>3. QED
    BY <1>2, <2>1, <2>2, ConcatAssociative DEF Then
<1>3. <<>> \o r = r
  BY <1>1, ConcatEmptySeq
<1>4. \A a : <<a>> \o r = Then(a, r)
  BY DEF Then
<1>5. ASSUME NEW a, NEW b
      PROVE  <<a, b>> \o r = Then(a, Then(b, r))
  <2> DEFINE W == {a, b}
  <2>1. a \in W /\ <<b>> \in Seq(W) /\ <<a, b>> \in Seq(W)
    OBVIOUS
  <2>2. /\ Len(<<a, b>>) = Len(<<b>>) + 1 /\ <<a, b>>[1] = a
        /\ \A i \in 1..Len(<<b>>) : <<a, b>>[i + 1] = <<b>>[i]
    OBVIOUS
  <2> HIDE DEF W
  <2>3. <<a, b>> = <<a>> \o <<b>>
    BY <2>1, <2>2, FirstStep
  <2>4. <<a, b>> \o r = Then(a, <<b>> \o r)
    BY <1>2, <2>1, <2>3
  <2>5. <<b>> \o r = Then(b, r)
    BY <1>4
  <2>6. QED
    BY <2>4, <2>5
<1>6. ASSUME NEW a, NEW b, NEW c
      PROVE  <<a, b, c>> \o r = Then(a, Then(b, Then(c, r)))
  <2> DEFINE W == {a, b, c}
  <2>1. a \in W /\ <<b, c>> \in Seq(W) /\ <<a, b, c>> \in Seq(W)
    OBVIOUS
  <2>2. /\ Len(<<a, b, c>>) = Len(<<b, c>>) + 1 /\ <<a, b, c>>[1] = a
        /\ \A i \in 1..Len(<<b, c>>) : <<a, b, c>>[i + 1] = <<b, c>>[i]
    OBVIOUS
  <2> HIDE DEF W
  <2>3. <<a, b, c>> = <<a>> \o <<b, c>>
    BY <2>1, <2>2, FirstStep
  <2>4. <<a, b, c>> \o r = Then(a, <<b, c>> \o r)
    BY <1>2, <2>1, <2>3
  <2>5. <<b, c>> \o r = Then(b, Then(c, r))
    BY <1>5
  <2>6. QED
    BY <2>4, <2>5
<1>7. ASSUME NEW a, NEW b, NEW c, NEW d
      PROVE  <<a, b, c, d>> \o r = Then(a, Then(b, Then(c, Then(d, r))))
  <2> DEFINE W == {a, b, c, d}
  <2>1. a \in W /\ <<b, c, d>> \in Seq(W) /\ <<a, b, c, d>> \in Seq(W)
    OBVIOUS
  <2>2. /\ Len(<<a, b, c, d>>) = Len(<<b, c, d>>) + 1 /\ <<a, b, c, d>>[1] = a
        /\ \A i \in 1..Len(<<b, c, d>>) : <<a, b, c, d>>[i + 1] = <<b, c, d>>[i]
    OBVIOUS
  <2> HIDE DEF W
  <2>3. <<a, b, c, d>> = <<a>> \o <<b, c, d>>
    BY <2>1, <2>2, FirstStep
  <2>4. <<a, b, c, d>> \o r = Then(a, <<b, c, d>> \o r)
    BY <1>2, <2>1, <2>3
  <2>5. <<b, c, d>> \o r = Then(b, Then(c, Then(d, r)))
    BY <1>6
  <2>6. QED
    BY <2>4, <2>5
<1>8. ASSUME NEW a, NEW b, NEW c, NEW d, NEW e
      PROVE  <<a, b, c, d, e>> \o r = Then(a, Then(b, Then(c, Then(d, Then(e, r)))))
  <2> DEFINE W == {a, b, c, d, e}
  <2>1. a \in W /\ <<b, c, d, e>> \in Seq(W) /\ <<a, b, c, d, e>> \in Seq(W)
    OBVIOUS
  <2>2. /\ Len(<<a, b, c, d, e>>) = Len(<<b, c, d, e>>) + 1 /\ <<a, b, c, d, e>>[1] = a
        /\ \A i \in 1..Len(<<b, c, d, e>>) : <<a, b, c, d, e>>[i + 1] = <<b, c, d, e>>[i]
    OBVIOUS
  <2> HIDE DEF W
  <2>3. <<a, b, c, d, e>> = <<a>> \o <<b, c, d, e>>
    BY <2>1, <2>2, FirstStep
  <2>4. <<a, b, c, d, e>> \o r = Then(a, <<b, c, d, e>> \o r)
    BY <1>2, <2>1, <2>3
  <2>5. <<b, c, d, e>> \o r = Then(b, Then(c, Then(d, Then(e, r))))
    BY <1>7
  <2>6. QED
    BY <2>4, <2>5
<1>9. QED
  BY <1>3, <1>4, <1>5, <1>6, <1>7, <1>8

\* A list before a list.
LEMMA ListBefore ==
    ASSUME NEW S, NEW s \in Seq(S), NEW r, IsList(r)
    PROVE  /\ IsList(s \o r)
           /\ s # <<>> => /\ s \o r # <<>>
                          /\ Head(s \o r) = Head(s) /\ Tail(s \o r) = Tail(s) \o r
                          /\ Head(s) \in S /\ Tail(s) \in Seq(S)
           /\ s = <<>> => s \o r = r
<1>1. PICK R : r \in Seq(R)
  BY DEF IsList
<1> DEFINE T == S \cup R
<1>2. s \in Seq(T) /\ r \in Seq(T)
  BY <1>1, SeqMonotonic
<1> HIDE DEF T
<1>3. IsList(s \o r)
  BY <1>2, ConcatProperties DEF IsList
<1>4. ASSUME s # <<>>
      PROVE  /\ s \o r # <<>>
             /\ Head(s \o r) = Head(s) /\ Tail(s \o r) = Tail(s) \o r
             /\ Head(s) \in S /\ Tail(s) \in Seq(S)
  <2>1. Head(s) \in S /\ Tail(s) \in Seq(S) /\ Tail(s) \in Seq(T)
    BY <1>2, <1>4, HeadTailProperties
  <2>2. s = <<Head(s)>> \o Tail(s)
    BY <1>4
  <2>3. IsList(Tail(s) \o r)
    BY <1>2, <2>1, ConcatProperties DEF IsList
  <2>4. s \o r = Then(Head(s), Tail(s) \o r)
    <3> DEFINE W == T \cup {Head(s)}
    <3>1. <<Head(s)>> \in Seq(W) /\ Tail(s) \in Seq(W) /\ r \in Seq(W)
      BY <1>2, <2>1, SeqMonotonic
    <3> HIDE DEF W
    <3>2. (<<Head(s)>> \o Tail(s)) \o r = <<Head(s)>> \o (Tail(s) \o r)
      BY <3>1, ConcatAssociative
    <3>3. QED
      BY <2>2, <3>2 DEF Then
  <2>5. QED
    BY <2>1, <2>3, <2>4, ThenList
<1>5. s = <<>> => s \o r = r
  BY <1>2, ConcatEmptySeq
<1>6. QED
  BY <1>3, <1>4, <1>5

LEMMA BodyThen ==
    ASSUME NEW S, NEW s \in Seq(S), NEW r, IsList(r), NEW e
    PROVE  (s \o <<e>>) \o r = s \o Then(e, r)
<1>1. PICK R : r \in Seq(R)
  BY DEF IsList
<1> DEFINE W == S \cup R \cup {e}
<1>2. <<e>> \in Seq(W) /\ s \in Seq(W) /\ r \in Seq(W)
  BY <1>1, SeqMonotonic
<1> HIDE DEF W
<1>3. QED
  BY <1>2, ConcatAssociative DEF Then

-----------------------------------------------------------------------------
(* What a step of a manager does *)

Entry == [in: BOOLEAN, on: BOOLEAN, prio: Nat, cmds: SUBSET Names, skills: SUBSET Names]

Dir == {"none", "torn", "whole"}

\* The types of what the components and the running command are.
Types ==
    /\ preg \in [Presets -> Entry]
    /\ pdir \in [Presets -> Dir]
    /\ ext \in BOOLEAN
    /\ wreg \subseteq Workflows /\ wdir \in [Workflows -> Dir]
    /\ sreg \subseteq StepTypes /\ sdir \in [StepTypes -> Dir]
    /\ job \in Job
    /\ faults \in Nat

\* Killed.
Died == todo' = <<>> /\ handlers' = <<>> /\ job' = NoJob /\ faults' = faults + 1

Went == todo' = Tail(todo) /\ handlers' = handlers

Threw ==
    /\ todo' = IF handlers # <<>> THEN Head(handlers) ELSE <<>>
    /\ handlers' = IF handlers # <<>> THEN Tail(handlers) ELSE <<>>

Failed == Threw /\ faults' = faults + 1

Put(steps) == todo' = steps \o Tail(todo) /\ handlers' = handlers

\* The command remembers what it has done so far, or has ended.
Kept ==
    /\ job' \in Job
    /\ faults' \in {faults, faults + 1}
    /\ records' = records
    /\ todo' # <<>> => /\ job'.op = job.op /\ job'.bundle = job.bundle /\ job'.ver = job.ver
                       /\ job'.refresh = job.refresh
                       /\ job'.done = job.done /\ job'.given = job.given /\ job'.before = job.before

Steady == job'.op = "install" => job.op = "install" /\ job'.unwound = job.unwound

\* Of the components only c is another than before.
Only(c) ==
    /\ \A q \in Presets \ {c} : preg'[q].in = preg[q].in /\ pdir'[q] = pdir[q]
    /\ c # Extension => ext' = ext
    /\ \A w \in Workflows \ {c} : (w \in wreg' <=> w \in wreg) /\ wdir'[w] = wdir[w]
    /\ \A s \in StepTypes \ {c} : (s \in sreg' <=> s \in sreg) /\ sdir'[s] = sdir[s]

Works(c) == Only(c) /\ Kept /\ Steady

\* No component is another than before.
Still ==
    /\ \A q \in Presets : preg'[q].in = preg[q].in
    /\ pdir' = pdir /\ ext' = ext
    /\ UNCHANGED workflowVars

\* The step at the head of the list is the one that is taken, or the command is
\* killed.
LEMMA WhichStep ==
    ASSUME Step
    PROVE  /\ todo # <<>>
           /\ records' = records \/ BundleStep
           /\ \/ Kill /\ UNCHANGED workflowVars
              \/ Head(todo)[1] = "try" /\ EnterTry /\ UNCHANGED workflowVars
              \/ Head(todo)[1] = "end" /\ LeaveTry /\ UNCHANGED workflowVars
              \/ Head(todo)[1] = "raise" /\ Refuse /\ UNCHANGED workflowVars
              \/ Head(todo)[1] = "check" /\ CheckPreset /\ UNCHANGED workflowVars
              \/ Head(todo)[1] = "copy" /\ CopyPreset /\ UNCHANGED workflowVars
              \/ Head(todo)[1] = "enter" /\ EnterPreset /\ UNCHANGED workflowVars
              \/ Head(todo)[1] = "write" /\ WritePreset /\ UNCHANGED workflowVars
              \/ Head(todo)[1] = "reskill" /\ SkillPreset /\ UNCHANGED workflowVars
              \/ Head(todo)[1] = "note" /\ NotePreset /\ UNCHANGED workflowVars
              \/ Head(todo)[1] = "unwrite" /\ UnwritePreset /\ UNCHANGED workflowVars
              \/ Head(todo)[1] = "unskill" /\ UnskillPreset /\ UNCHANGED workflowVars
              \/ Head(todo)[1] = "remove" /\ BeginRemove /\ UNCHANGED workflowVars
              \/ Head(todo)[1] = "unfile" /\ Unfile /\ UNCHANGED workflowVars
              \/ Head(todo)[1] = "delete" /\ DeletePreset /\ UNCHANGED workflowVars
              \/ Head(todo)[1] = "drop" /\ DropPreset /\ UNCHANGED workflowVars
              \/ Head(todo)[1] = "commands" /\ ReconcileCommands /\ UNCHANGED workflowVars
              \/ Head(todo)[1] = "skills" /\ ReconcileSkills /\ UNCHANGED workflowVars
              \/ Head(todo)[1] = "extend" /\ Extend /\ UNCHANGED workflowVars
              \/ Head(todo)[1] = "fetch_workflow" /\ FetchWorkflow /\ UNCHANGED presetVars
              \/ Head(todo)[1] = "copy_workflow" /\ CopyWorkflow /\ UNCHANGED presetVars
              \/ Head(todo)[1] = "enter_workflow" /\ EnterWorkflow /\ UNCHANGED presetVars
              \/ Head(todo)[1] = "remove_workflow" /\ DeleteWorkflow /\ UNCHANGED presetVars
              \/ Head(todo)[1] = "drop_workflow" /\ DropWorkflow /\ UNCHANGED presetVars
              \/ Head(todo)[1] = "fetch_step" /\ FetchStep /\ UNCHANGED presetVars
              \/ Head(todo)[1] = "enter_step" /\ EnterStep /\ UNCHANGED presetVars
              \/ Head(todo)[1] = "remove_step" /\ RemoveStep /\ UNCHANGED presetVars
              \/ Head(todo)[1] = "drop_step" /\ DropStep /\ UNCHANGED presetVars
              \/ Head(todo)[1] = "delete_step" /\ DeleteStep /\ UNCHANGED presetVars
              \/ Head(todo)[1] = "relist_step" /\ RelistStep /\ UNCHANGED presetVars
              \/ Head(todo)[1] = "part" /\ Part
              \/ Head(todo)[1] = "did" /\ Did
              \/ Head(todo)[1] = "unwind" /\ Unwind
              \/ Head(todo)[1] = "record" /\ Record
              \/ Head(todo)[1] = "unpart" /\ Unpart
              \/ Head(todo)[1] = "unrecord" /\ Unrecord
<1>1. CASE PresetStep /\ UNCHANGED <<workflowVars, records>>
  BY <1>1 DEF PresetStep, EnterTry, LeaveTry, Refuse, Kill, Idle, CheckPreset, CopyPreset, EnterPreset, WritePreset,
       SkillPreset, NotePreset, UnwritePreset, UnskillPreset, BeginRemove, Unfile, DeletePreset, DropPreset,
       ReconcileCommands, ReconcileSkills, Extend, In
<1>2. CASE WorkflowStep /\ UNCHANGED records
  BY <1>2 DEF WorkflowStep, FetchWorkflow, CopyWorkflow, EnterWorkflow, DeleteWorkflow, DropWorkflow,
       FetchStep, EnterStep, RemoveStep, DropStep, DeleteStep, RelistStep, In
<1>3. CASE BundleStep
  BY <1>3 DEF BundleStep, Part, Did, Unwind, Record, Unpart, Unrecord, In
<1>4. QED
  BY <1>1, <1>2, <1>3 DEF Step

LEMMA JobTypes == NoJob \in Job
  BY EmptySeq DEF NoJob, Job

\* What a command remembers when it goes on with j.
LEMMA Remembered ==
    ASSUME Types, NEW j \in Job, job' = Remember(j, todo'), faults' \in {faults, faults + 1}, records' = records,
           j.op = job.op, j.bundle = job.bundle, j.ver = job.ver, j.refresh = job.refresh, j.done = job.done,
           j.given = job.given, j.before = job.before
    PROVE  Kept /\ (j.unwound = job.unwound => Steady)
<1>1. job' \in Job /\ (todo' # <<>> => job' = j)
  BY JobTypes DEF Remember
<1>2. job'.op = "install" => job' = j
  BY DEF Remember, NoJob
<1>3. QED
  BY <1>1, <1>2 DEF Kept, Steady

LEMMA Goes ==
    ASSUME Types, Go(job), records' = records
    PROVE  Went /\ Kept /\ Steady /\ faults' = faults
<1>1. job \in Job /\ job' = Remember(job, todo') /\ faults' = faults /\ Went
  BY DEF Types, Go, Went
<1>2. QED
  BY <1>1, Remembered

LEMMA Does ==
    ASSUME Types, NEW steps, Do(steps, job), records' = records
    PROVE  Put(steps) /\ Kept /\ Steady /\ faults' = faults
<1>1. job \in Job /\ job' = Remember(job, todo') /\ faults' = faults /\ Put(steps)
  BY DEF Types, Do, Put
<1>2. QED
  BY <1>1, Remembered

LEMMA Raises ==
    ASSUME Types, Raise, records' = records, faults' \in {faults, faults + 1}
    PROVE  Threw /\ Kept /\ Steady
<1>1. job \in Job /\ job' = Remember(job, todo') /\ Threw
  BY DEF Types, Raise, Threw, Caught
<1>2. QED
  BY <1>1, Remembered

LEMMA Passes ==
    ASSUME Types, Pass, records' = records, faults' \in {faults, faults + 1}
    PROVE  Went /\ Kept /\ Steady
<1>1. job \in Job /\ job' = Remember(job, todo') /\ Went
  BY DEF Types, Pass, Went
<1>2. QED
  BY <1>1, Remembered

LEMMA Dies ==
    ASSUME Types, Fault, Die
    PROVE  Died /\ job' \in Job /\ faults' \in Nat
  BY JobTypes DEF Types, Fault, Die, Died

LEMMA Stops ==
    ASSUME Types, Stop, records' = records
    PROVE  /\ Died \/ (Failed /\ Kept /\ Steady)
           /\ job' \in Job /\ faults' \in Nat /\ faults' = faults + 1
<1>1. CASE Fault /\ Raise
  <2>1. faults' = faults + 1 /\ faults' \in Nat
    BY <1>1 DEF Fault, Types
  <2>2. QED
    BY <1>1, <2>1, Raises DEF Failed, Kept
<1>2. CASE Fault /\ Die
  BY <1>2, Dies DEF Died
<1>3. QED
  BY <1>1, <1>2 DEF Stop

LEMMA Kills ==
    ASSUME Types, Kill, UNCHANGED workflowVars
    PROVE  Died /\ Types'
<1>1. Died /\ job' \in Job /\ faults' \in Nat
  BY Dies DEF Kill
<1>2. QED
  BY <1>1 DEF Types, Kill, presetVars, workflowVars

LEMMA Torn ==
    ASSUME Types, TornRegistry, UNCHANGED <<pdir, ext, workflowVars>>
    PROVE  Died /\ Types'
<1>1. Died /\ job' \in Job /\ faults' \in Nat
  BY Dies DEF TornRegistry
<1>2. preg' \in [Presets -> Entry]
  BY DEF TornRegistry, NoEntry, Entry
<1>3. QED
  BY <1>1, <1>2 DEF Types, workflowVars

\* What is said of the types.
LEMMA TypesAfter ==
    ASSUME Types, UNCHANGED <<preg, pdir, ext, workflowVars>>, job' \in Job, faults' \in {faults, faults + 1}
    PROVE  Types' /\ Still
  BY DEF Types, Still, workflowVars

LEMMA StillOnly ==
    ASSUME Still, NEW c
    PROVE  Only(c)
  BY DEF Still, Only, workflowVars

\* A step of a manager leaves the records alone.
LEMMA RecordsKept ==
    ASSUME Step, Head(todo)[1] \notin {"part", "did", "unwind", "record", "unpart", "unrecord"}
    PROVE  records' = records
  BY WhichStep DEF BundleStep, Part, Did, Unwind, Record, Unpart, Unrecord, In

\* The beginning and the end of a try statement's body.
LEMMA TryStep ==
    ASSUME Types, Step, NEW b, NEW h, Head(todo) = <<"try", <<b, h>>>>
    PROVE  /\ Types'
           /\ \/ Died
              \/ /\ Still /\ Kept /\ Steady /\ faults' = faults
                 /\ todo' = (b \o <<<<"end", {}>>>>) \o Tail(todo)
                 /\ handlers' = <<h \o Tail(todo)>> \o handlers
<1>1. Head(todo)[1] = "try" /\ arg = <<b, h>> /\ arg[1] = b /\ arg[2] = h
  BY DEF arg
<1>2. CASE Kill /\ UNCHANGED workflowVars
  BY <1>2, Kills
<1>3. CASE EnterTry /\ UNCHANGED workflowVars
  <2>1. /\ UNCHANGED <<preg, pdir, ext, workflowVars>> /\ job' = job /\ faults' = faults
    BY <1>3 DEF EnterTry, presetVars
  <2>2. Types' /\ Still
    BY <2>1, TypesAfter DEF Types
  <2>3. Kept /\ Steady
    BY <1>1, <2>1, RecordsKept DEF Kept, Steady, Types
  <2>4. QED
    BY <1>1, <1>3, <2>1, <2>2, <2>3 DEF EnterTry
<1>4. QED
  BY <1>1, <1>2, <1>3, WhichStep

LEMMA EndStep ==
    ASSUME Types, Step, Head(todo)[1] = "end"
    PROVE  /\ Types'
           /\ \/ Died
              \/ /\ Still /\ Kept /\ Steady /\ faults' = faults
                 /\ todo' = Tail(todo) /\ handlers' = Tail(handlers)
<1>1. CASE Kill /\ UNCHANGED workflowVars
  BY <1>1, Kills
<1>2. CASE LeaveTry /\ UNCHANGED workflowVars
  <2>1. /\ UNCHANGED <<preg, pdir, ext, workflowVars>> /\ job' = Remember(job, todo') /\ faults' = faults
        /\ records' = records
    BY <1>2, RecordsKept DEF LeaveTry, presetVars
  <2>2. Kept /\ Steady
    BY <2>1, Remembered DEF Types
  <2>3. Types' /\ Still
    BY <2>1, <2>2, TypesAfter DEF Kept
  <2>4. QED
    BY <1>2, <2>1, <2>2, <2>3 DEF LeaveTry
<1>3. QED
  BY <1>1, <1>2, WhichStep

LEMMA RaiseStep ==
    ASSUME Types, Step, Head(todo)[1] = "raise"
    PROVE  /\ Types'
           /\ Died \/ (Still /\ Kept /\ Steady /\ Threw /\ faults' = faults)
<1>1. records' = records
  BY RecordsKept
<1>2. CASE Kill /\ UNCHANGED workflowVars
  BY <1>2, Kills
<1>3. CASE Refuse /\ UNCHANGED workflowVars
  <2>1. UNCHANGED <<preg, pdir, ext, workflowVars>> /\ faults' = faults /\ Raise
    BY <1>3 DEF Refuse, presetVars
  <2>2. Threw /\ Kept /\ Steady
    BY <1>1, <2>1, Raises
  <2>3. Types' /\ Still
    BY <2>1, <2>2, TypesAfter DEF Kept
  <2>4. QED
    BY <2>1, <2>2, <2>3
<1>4. QED
  BY <1>2, <1>3, WhichStep

\* Steps that write files of the agents.
LEMMA FileStep ==
    ASSUME Types, Step, Head(todo)[1] \in {"unskill", "unfile", "commands", "skills"}
    PROVE  /\ Types'
           /\ Died \/ (Still /\ Kept /\ Steady /\ (Failed \/ (Went /\ faults' = faults)))
<1>1. records' = records
  BY RecordsKept
<1>2. CASE Kill /\ UNCHANGED workflowVars
  BY <1>2, Kills
<1>3. CASE (UnskillPreset \/ Unfile \/ ReconcileCommands \/ ReconcileSkills) /\ UNCHANGED workflowVars
  <2>1. UNCHANGED <<preg, pdir, ext, workflowVars>> /\ (Go(job) \/ Stop)
    BY <1>3 DEF UnskillPreset, Unfile, ReconcileCommands, ReconcileSkills
  <2>2. CASE Go(job)
    <3>1. Went /\ Kept /\ Steady /\ faults' = faults
      BY <1>1, <2>2, Goes
    <3>2. Types' /\ Still
      BY <2>1, <3>1, TypesAfter DEF Kept
    <3>3. QED
      BY <3>1, <3>2
  <2>3. CASE Stop
    <3>1. (Died \/ (Failed /\ Kept /\ Steady)) /\ job' \in Job /\ faults' = faults + 1
      BY <1>1, <2>3, Stops
    <3>2. Types' /\ Still
      BY <2>1, <3>1, TypesAfter
    <3>3. QED
      BY <3>1, <3>2
  <2>4. QED
    BY <2>1, <2>2, <2>3
<1>4. QED
  BY <1>2, <1>3, WhichStep

\* A preset that is installed is refused; else it is about to be copied.
LEMMA CheckStep ==
    ASSUME Types, Step, NEW p \in Presets, NEW prio, Head(todo) = <<"check", <<p, prio>>>>
    PROVE  /\ Types'
           /\ \/ Died
              \/ /\ Still /\ Kept /\ Steady /\ faults' = faults
                 /\ \/ preg[p].in /\ Threw
                    \/ /\ ~preg[p].in
                       /\ \E names \in SUBSET Names :
                            Put(<<<<"copy", p>>, <<"enter", <<p, prio>>>>>>
                                  \o Try(<<<<"write", p>>, <<"note", p>>, <<"reskill", p>>, <<"note", p>>>>,
                                         <<<<"unwrite", p>>, <<"delete", <<p, TRUE>>>>, <<"drop", p>>,
                                           <<"raise", p>>>>)
                                  \o Reconcile(names))
<1>1. records' = records /\ Head(todo)[1] = "check" /\ arg = <<p, prio>> /\ arg[1] = p /\ arg[2] = prio
  BY RecordsKept DEF arg
<1>2. CASE Kill /\ UNCHANGED workflowVars
  BY <1>2, Kills
<1>3. CASE CheckPreset /\ UNCHANGED workflowVars
  <2>1. UNCHANGED <<preg, pdir, ext, workflowVars>>
    BY <1>3 DEF CheckPreset
  <2>2. CASE preg[p].in
    <3>1. Raise /\ faults' = faults
      BY <1>1, <1>3, <2>2 DEF CheckPreset
    <3>2. Threw /\ Kept /\ Steady
      BY <1>1, <3>1, Raises
    <3>3. Types' /\ Still
      BY <2>1, <3>2, TypesAfter DEF Kept
    <3>4. QED
      BY <2>2, <3>1, <3>2, <3>3
  <2>3. CASE ~preg[p].in
    <3> DEFINE j == [job EXCEPT !.cmds = {}, !.skills = {}]
               steps == <<<<"copy", p>>, <<"enter", <<p, prio>>>>>>
                          \o Try(<<<<"write", p>>, <<"note", p>>, <<"reskill", p>>, <<"note", p>>>>,
                                 <<<<"unwrite", p>>, <<"delete", <<p, TRUE>>>>, <<"drop", p>>, <<"raise", p>>>>)
                          \o Reconcile(Provided(p))
    <3>1. Do(steps, j)
      BY <1>1, <1>3, <2>3 DEF CheckPreset
    <3>2. /\ j \in Job
          /\ j.op = job.op /\ j.bundle = job.bundle /\ j.ver = job.ver /\ j.refresh = job.refresh
          /\ j.done = job.done /\ j.given = job.given /\ j.before = job.before /\ j.unwound = job.unwound
      BY DEF Types, Job
    <3>a. Provided(p) \in SUBSET Names
      BY DEF Provided, NamesOf
    <3> HIDE DEF j, steps
    <3>3. Put(steps) /\ job' = Remember(j, todo') /\ faults' = faults
      BY <3>1 DEF Do, Put
    <3>4. Kept /\ Steady
      BY <1>1, <3>2, <3>3, Remembered
    <3>5. Types' /\ Still
      BY <2>1, <3>4, TypesAfter DEF Kept
    <3>6. \E names \in SUBSET Names :
            Put(<<<<"copy", p>>, <<"enter", <<p, prio>>>>>>
                  \o Try(<<<<"write", p>>, <<"note", p>>, <<"reskill", p>>, <<"note", p>>>>,
                         <<<<"unwrite", p>>, <<"delete", <<p, TRUE>>>>, <<"drop", p>>, <<"raise", p>>>>)
                  \o Reconcile(names))
      BY <3>3, <3>a DEF steps
    <3>7. QED
      BY <2>3, <3>3, <3>4, <3>5, <3>6
  <2>4. QED
    BY <2>2, <2>3
<1>4. QED
  BY <1>1, <1>2, <1>3, WhichStep

LEMMA CopyStep ==
    ASSUME Types, Step, NEW p \in Presets, Head(todo) = <<"copy", p>>
    PROVE  /\ Types'
           /\ \/ Died
              \/ /\ Works(p) /\ preg' = preg /\ ext' = ext
                 /\ (Went /\ pdir'[p] = "whole" /\ faults' = faults) \/ Failed
<1>1. records' = records /\ Head(todo)[1] = "copy" /\ arg = p
  BY RecordsKept DEF arg
<1>2. CASE Kill /\ UNCHANGED workflowVars
  BY <1>2, Kills
<1>3. CASE CopyPreset /\ UNCHANGED workflowVars
  <2>1. PICK d \in Dir : /\ pdir' = [pdir EXCEPT ![p] = d]
                         /\ (d = "whole" /\ Go(job)) \/ Stop
    BY <1>1, <1>3 DEF CopyPreset, Dir
  <2>2. UNCHANGED <<preg, ext, workflowVars>>
    BY <1>3 DEF CopyPreset
  <2>3. pdir' \in [Presets -> Dir] /\ pdir'[p] = d /\ \A q \in Presets \ {p} : pdir'[q] = pdir[q]
    BY <2>1 DEF Types
  <2>4. Only(p)
    BY <2>2, <2>3 DEF Only, workflowVars
  <2>5. CASE d = "whole" /\ Go(job)
    <3>1. Went /\ Kept /\ Steady /\ faults' = faults
      BY <1>1, <2>5, Goes
    <3>2. Types'
      BY <2>2, <2>3, <3>1 DEF Types, Kept, workflowVars
    <3>3. QED
      BY <2>2, <2>3, <2>4, <2>5, <3>1, <3>2 DEF Works
  <2>6. CASE Stop
    <3>1. (Died \/ (Failed /\ Kept /\ Steady)) /\ job' \in Job /\ faults' \in Nat
      BY <1>1, <2>6, Stops
    <3>2. Types'
      BY <2>2, <2>3, <3>1 DEF Types, workflowVars
    <3>3. QED
      BY <2>2, <2>3, <2>4, <3>1, <3>2 DEF Works
  <2>7. QED
    BY <2>1, <2>5, <2>6
<1>4. QED
  BY <1>1, <1>2, <1>3, WhichStep

LEMMA PresetEnter ==
    ASSUME Types, Step, NEW p \in Presets, NEW prio \in Nat, Head(todo) = <<"enter", <<p, prio>>>>
    PROVE  /\ Types'
           /\ \/ Died
              \/ /\ Works(p) /\ pdir' = pdir /\ ext' = ext
                 /\ (Went /\ preg'[p].in /\ faults' = faults) \/ (Failed /\ preg' = preg)
<1>1. records' = records /\ Head(todo)[1] = "enter" /\ arg = <<p, prio>> /\ arg[1] = p /\ arg[2] = prio
  BY RecordsKept DEF arg
<1>2. CASE Kill /\ UNCHANGED workflowVars
  BY <1>2, Kills
<1>3. CASE EnterPreset /\ UNCHANGED workflowVars
  <2>1. UNCHANGED <<pdir, ext, workflowVars>>
    BY <1>3 DEF EnterPreset
  <2>2. CASE /\ preg' = [preg EXCEPT ![p] = [NoEntry EXCEPT !.in = TRUE, !.on = TRUE, !.prio = prio]]
             /\ Go(job)
    <3>1. Went /\ Kept /\ Steady /\ faults' = faults
      BY <1>1, <2>2, Goes
    <3> DEFINE e == [NoEntry EXCEPT !.in = TRUE, !.on = TRUE, !.prio = prio]
    <3>2. e \in Entry /\ e.in
      BY DEF NoEntry, Entry
    <3>3. preg' = [preg EXCEPT ![p] = e]
      BY <2>2
    <3> HIDE DEF e
    <3>4. preg' \in [Presets -> Entry] /\ preg'[p] = e /\ \A q \in Presets \ {p} : preg'[q] = preg[q]
      BY <3>2, <3>3 DEF Types
    <3>5. Types'
      BY <2>1, <3>1, <3>4 DEF Types, Kept, workflowVars
    <3>6. Only(p)
      BY <2>1, <3>4 DEF Only, workflowVars
    <3>7. QED
      BY <2>1, <3>1, <3>2, <3>4, <3>5, <3>6 DEF Works
  <2>3. CASE preg' = preg /\ Stop
    <3>1. (Died \/ (Failed /\ Kept /\ Steady)) /\ job' \in Job /\ faults' = faults + 1
      BY <1>1, <2>3, Stops
    <3>2. Types' /\ Still
      BY <2>1, <2>3, <3>1, TypesAfter
    <3>3. QED
      BY <2>1, <2>3, <3>1, <3>2, StillOnly DEF Works
  <2>4. CASE TornRegistry
    BY <2>1, <2>4, Torn
  <2>5. QED
    BY <1>1, <1>3, <2>2, <2>3, <2>4 DEF EnterPreset
<1>4. QED
  BY <1>1, <1>2, <1>3, WhichStep

LEMMA WriteStep ==
    ASSUME Types, Step, NEW p \in Presets, Head(todo) = <<"write", p>>
    PROVE  /\ Types'
           /\ Died \/ (Still /\ Kept /\ Steady /\ (Threw \/ Went))
<1>1. records' = records /\ Head(todo)[1] = "write" /\ arg = p
  BY RecordsKept DEF arg
<1>2. CASE Kill /\ UNCHANGED workflowVars
  BY <1>2, Kills
<1>3. CASE WritePreset /\ UNCHANGED workflowVars
  <2>1. UNCHANGED <<preg, pdir, ext, workflowVars>>
    BY <1>3 DEF WritePreset
  <2>2. \/ Raise /\ faults' = faults
        \/ Stop
        \/ \E done \in SUBSET Provided(p) : Go([job EXCEPT !.cmds = done])
    BY <1>1, <1>3 DEF WritePreset
  <2>3. CASE Raise /\ faults' = faults
    <3>1. Threw /\ Kept /\ Steady
      BY <1>1, <2>3, Raises
    <3>2. QED
      BY <2>1, <3>1, TypesAfter DEF Kept
  <2>4. CASE Stop
    <3>1. (Died \/ (Failed /\ Kept /\ Steady)) /\ job' \in Job /\ faults' = faults + 1
      BY <1>1, <2>4, Stops
    <3>2. QED
      BY <2>1, <3>1, TypesAfter DEF Failed
  <2>5. ASSUME NEW done \in SUBSET Provided(p), Go([job EXCEPT !.cmds = done])
        PROVE  Types' /\ Still /\ Kept /\ Steady /\ Went
    <3> DEFINE j == [job EXCEPT !.cmds = done]
    <3>1. done \in SUBSET Names
      BY DEF Provided, NamesOf
    <3>2. /\ j \in Job
          /\ j.op = job.op /\ j.bundle = job.bundle /\ j.ver = job.ver /\ j.refresh = job.refresh
          /\ j.done = job.done /\ j.given = job.given /\ j.before = job.before /\ j.unwound = job.unwound
      BY <3>1 DEF Types, Job
    <3>3. Go(j)
      BY <2>5
    <3> HIDE DEF j
    <3>4. Went /\ job' = Remember(j, todo') /\ faults' = faults
      BY <3>3 DEF Go, Went
    <3>5. Kept /\ Steady
      BY <1>1, <3>2, <3>4, Remembered
    <3>6. QED
      BY <2>1, <3>4, <3>5, TypesAfter DEF Kept
  <2>6. QED
    BY <2>2, <2>3, <2>4, <2>5
<1>4. QED
  BY <1>1, <1>2, <1>3, WhichStep

LEMMA ReskillStep ==
    ASSUME Types, Step, NEW p \in Presets, Head(todo) = <<"reskill", p>>
    PROVE  /\ Types'
           /\ Died \/ (Still /\ Kept /\ Steady /\ (Threw \/ Went))
<1>1. records' = records /\ Head(todo)[1] = "reskill" /\ arg = p
  BY RecordsKept DEF arg
<1>2. CASE Kill /\ UNCHANGED workflowVars
  BY <1>2, Kills
<1>3. CASE SkillPreset /\ UNCHANGED workflowVars
  <2>1. UNCHANGED <<preg, pdir, ext, workflowVars>>
    BY <1>3 DEF SkillPreset
  <2>2. \/ Stop
        \/ \E done \in SUBSET Provided(p) : Go([job EXCEPT !.skills = done])
    <3>1. PICK done \in SUBSET {n \in Provided(p) : skills[n] # Nothing} :
                 Go([job EXCEPT !.skills = done]) \/ Stop
      BY <1>1, <1>3 DEF SkillPreset
    <3>2. QED
      BY <3>1
  <2>4. CASE Stop
    <3>1. (Died \/ (Failed /\ Kept /\ Steady)) /\ job' \in Job /\ faults' = faults + 1
      BY <1>1, <2>4, Stops
    <3>2. QED
      BY <2>1, <3>1, TypesAfter DEF Failed
  <2>5. ASSUME NEW done \in SUBSET Provided(p), Go([job EXCEPT !.skills = done])
        PROVE  Types' /\ Still /\ Kept /\ Steady /\ Went
    <3> DEFINE j == [job EXCEPT !.skills = done]
    <3>1. done \in SUBSET Names
      BY DEF Provided, NamesOf
    <3>2. /\ j \in Job
          /\ j.op = job.op /\ j.bundle = job.bundle /\ j.ver = job.ver /\ j.refresh = job.refresh
          /\ j.done = job.done /\ j.given = job.given /\ j.before = job.before /\ j.unwound = job.unwound
      BY <3>1 DEF Types, Job
    <3>3. Go(j)
      BY <2>5
    <3> HIDE DEF j
    <3>4. Went /\ job' = Remember(j, todo') /\ faults' = faults
      BY <3>3 DEF Go, Went
    <3>5. Kept /\ Steady
      BY <1>1, <3>2, <3>4, Remembered
    <3>6. QED
      BY <2>1, <3>4, <3>5, TypesAfter DEF Kept
  <2>6. QED
    BY <2>2, <2>4, <2>5
<1>4. QED
  BY <1>1, <1>2, <1>3, WhichStep

LEMMA NoteStep ==
    ASSUME Types, Step, NEW p \in Presets, Head(todo) = <<"note", p>>
    PROVE  /\ Types'
           /\ Died \/ (Still /\ Kept /\ Steady /\ (Threw \/ Went))
<1>1. records' = records /\ Head(todo)[1] = "note" /\ arg = p
  BY RecordsKept DEF arg
<1>2. CASE Kill /\ UNCHANGED workflowVars
  BY <1>2, Kills
<1>3. CASE NotePreset /\ UNCHANGED workflowVars
  <2>1. UNCHANGED <<pdir, ext, workflowVars>>
    BY <1>3 DEF NotePreset
  <2>2. CASE preg' = [preg EXCEPT ![p].cmds = job.cmds, ![p].skills = job.skills] /\ Go(job)
    <3>1. Went /\ Kept /\ Steady /\ faults' = faults
      BY <1>1, <2>2, Goes
    <3>2. job.cmds \in SUBSET Names /\ job.skills \in SUBSET Names
      BY DEF Types, Job
    <3> DEFINE e == [preg[p] EXCEPT !.cmds = job.cmds, !.skills = job.skills]
    <3>3. e \in Entry /\ e.in = preg[p].in
      BY <3>2 DEF Types, Entry
    <3>4. preg' = [preg EXCEPT ![p] = e]
      BY <2>2 DEF Types
    <3> HIDE DEF e
    <3>5. preg' \in [Presets -> Entry] /\ \A q \in Presets : preg'[q].in = preg[q].in
      BY <3>3, <3>4 DEF Types
    <3>6. Types' /\ Still
      BY <2>1, <3>1, <3>5 DEF Types, Kept, workflowVars, Still
    <3>7. QED
      BY <3>1, <3>6
  <2>3. CASE preg' = preg /\ Stop
    <3>1. (Died \/ (Failed /\ Kept /\ Steady)) /\ job' \in Job /\ faults' = faults + 1
      BY <1>1, <2>3, Stops
    <3>2. Types' /\ Still
      BY <2>1, <2>3, <3>1, TypesAfter
    <3>3. QED
      BY <3>1, <3>2 DEF Failed
  <2>4. CASE TornRegistry
    BY <2>1, <2>4, Torn
  <2>5. QED
    BY <1>1, <1>3, <2>2, <2>3, <2>4 DEF NotePreset
<1>4. QED
  BY <1>1, <1>2, <1>3, WhichStep

LEMMA UnwriteStep ==
    ASSUME Types, Step, NEW p \in Presets, Head(todo) = <<"unwrite", p>>
    PROVE  /\ Types'
           /\ \/ Died
              \/ /\ Still /\ Kept /\ faults' = faults
                 /\ job'.op = "install" => job.op = "install" /\ job'.unwound = faults + 1
                 /\ \E names \in SUBSET Names : Put(<<<<"unskill", names>>>>)
<1>1. records' = records /\ Head(todo)[1] = "unwrite" /\ arg = p
  BY RecordsKept DEF arg
<1>2. CASE Kill /\ UNCHANGED workflowVars
  BY <1>2, Kills
<1>3. CASE UnwritePreset /\ UNCHANGED workflowVars
  <2>1. UNCHANGED <<preg, pdir, ext, workflowVars>>
    BY <1>3 DEF UnwritePreset
  <2> DEFINE j == [job EXCEPT !.unwound = faults + 1]
  <2>2. Do(<<<<"unskill", job.skills>>>>, j)
    BY <1>3 DEF UnwritePreset
  <2>a. faults + 1 \in Nat
    BY DEF Types
  <2>b. j \in Job
    BY <2>a DEF Types, Job
  <2>3. /\ j.op = job.op /\ j.bundle = job.bundle /\ j.ver = job.ver /\ j.refresh = job.refresh
        /\ j.done = job.done /\ j.given = job.given /\ j.before = job.before /\ j.unwound = faults + 1
    BY DEF Types, Job
  <2>4. job.skills \in SUBSET Names
    BY DEF Types, Job
  <2> HIDE DEF j
  <2>5. Put(<<<<"unskill", job.skills>>>>) /\ job' = Remember(j, todo') /\ faults' = faults
    BY <2>2 DEF Do, Put
  <2>6. Kept
    BY <1>1, <2>b, <2>3, <2>5, Remembered
  <2>7. job'.op = "install" => job.op = "install" /\ job'.unwound = faults + 1
    BY <2>3, <2>5 DEF Remember, NoJob
  <2>8. Types' /\ Still
    BY <2>1, <2>6, TypesAfter DEF Kept
  <2>9. QED
    BY <2>4, <2>5, <2>6, <2>7, <2>8
<1>4. QED
  BY <1>1, <1>2, <1>3, WhichStep

\* A removal of a preset that is not installed does nothing.
LEMMA PresetRemove ==
    ASSUME Types, Step, NEW p \in Presets, Head(todo) = <<"remove", p>>
    PROVE  /\ Types'
           /\ \/ Died
              \/ /\ Still /\ Kept /\ Steady /\ faults' = faults
                 /\ \/ ~preg[p].in /\ Put(<<>>)
                    \/ /\ preg[p].in
                       /\ \E names, others \in SUBSET Names : \E what :
                            Put(<<<<"unskill", names>>, <<"unfile", what>>, <<"delete", <<p, FALSE>>>>, <<"drop", p>>>>
                                  \o Reconcile(others))
<1>1. records' = records /\ Head(todo)[1] = "remove" /\ arg = p
  BY RecordsKept DEF arg
<1>2. CASE Kill /\ UNCHANGED workflowVars
  BY <1>2, Kills
<1>3. CASE BeginRemove /\ UNCHANGED workflowVars
  <2> DEFINE steps == <<<<"unskill", preg[p].skills>>, <<"unfile", <<preg[p].cmds, preg[p].skills = {}>>>>,
                        <<"delete", <<p, FALSE>>>>, <<"drop", p>>>> \o Reconcile(preg[p].cmds)
  <2>1. UNCHANGED <<preg, pdir, ext, workflowVars>>
    BY <1>3 DEF BeginRemove
  <2>2. Do(IF ~preg[p].in THEN <<>> ELSE steps, job)
    BY <1>1, <1>3 DEF BeginRemove
  <2>3. preg[p].skills \in SUBSET Names /\ preg[p].cmds \in SUBSET Names
    BY DEF Types, Entry
  <2>4. preg[p].in => \E names, others \in SUBSET Names : \E what :
            steps = <<<<"unskill", names>>, <<"unfile", what>>, <<"delete", <<p, FALSE>>>>, <<"drop", p>>>>
                       \o Reconcile(others)
    BY <2>3
  <2> HIDE DEF steps
  <2>5. Put(IF ~preg[p].in THEN <<>> ELSE steps) /\ Kept /\ Steady /\ faults' = faults
    BY <1>1, <2>2, Does
  <2>6. Types' /\ Still
    BY <2>1, <2>5, TypesAfter DEF Kept
  <2>7. preg[p].in \/ (~preg[p].in /\ Put(<<>>))
    BY <2>5
  <2>8. preg[p].in => \E names, others \in SUBSET Names : \E what :
            Put(<<<<"unskill", names>>, <<"unfile", what>>, <<"delete", <<p, FALSE>>>>, <<"drop", p>>>>
                  \o Reconcile(others))
    BY <2>4, <2>5
  <2>9. QED
    BY <2>5, <2>6, <2>7, <2>8
<1>4. QED
  BY <1>1, <1>2, <1>3, WhichStep

LEMMA PresetDelete ==
    ASSUME Types, Step, NEW p \in Presets, NEW passed \in BOOLEAN, Head(todo) = <<"delete", <<p, passed>>>>
    PROVE  /\ Types'
           /\ \/ Died
              \/ /\ Works(p) /\ preg' = preg /\ ext' = ext /\ pdir'[p] # "whole"
                 /\ Went \/ (Failed /\ ~passed)
<1>1. records' = records /\ Head(todo)[1] = "delete" /\ arg = <<p, passed>> /\ arg[1] = p /\ arg[2] = passed
  BY RecordsKept DEF arg
<1>2. CASE Kill /\ UNCHANGED workflowVars
  BY <1>2, Kills
<1>3. CASE DeletePreset /\ UNCHANGED workflowVars
  <2>1. PICK d \in {"none", "torn"} :
               /\ pdir' = [pdir EXCEPT ![p] = IF @ = "none" THEN @ ELSE d]
               /\ \/ d = "none" /\ Go(job)
                  \/ d = "torn" /\ Fault
                     /\ \/ Die
                        \/ ~passed /\ Raise
                        \/ passed /\ Pass
    BY <1>1, <1>3 DEF DeletePreset
  <2>2. UNCHANGED <<preg, ext, workflowVars>>
    BY <1>3 DEF DeletePreset
  <2>3. pdir' \in [Presets -> Dir] /\ pdir'[p] # "whole" /\ \A q \in Presets \ {p} : pdir'[q] = pdir[q]
    BY <2>1 DEF Types, Dir
  <2>4. Only(p)
    BY <2>2, <2>3 DEF Only, workflowVars
  <2>5. CASE Go(job)
    <3>1. Went /\ Kept /\ Steady /\ faults' = faults
      BY <1>1, <2>5, Goes
    <3>2. Types'
      BY <2>2, <2>3, <3>1 DEF Types, Kept, workflowVars
    <3>3. QED
      BY <2>2, <2>3, <2>4, <3>1, <3>2 DEF Works
  <2>6. CASE Fault /\ Die
    <3>1. Died /\ job' \in Job /\ faults' \in Nat
      BY <2>6, Dies
    <3>2. Types'
      BY <2>2, <2>3, <3>1 DEF Types, workflowVars
    <3>3. QED
      BY <3>1, <3>2
  <2>7. CASE Fault /\ ((~passed /\ Raise) \/ (passed /\ Pass))
    <3>1. faults' = faults + 1 /\ faults' \in Nat
      BY <2>7 DEF Fault, Types
    <3>2. Kept /\ Steady /\ (Went \/ (Failed /\ ~passed))
      BY <1>1, <2>7, <3>1, Raises, Passes DEF Failed
    <3>3. Types'
      BY <2>2, <2>3, <3>1, <3>2 DEF Types, Kept, workflowVars
    <3>4. QED
      BY <2>2, <2>3, <2>4, <3>2, <3>3 DEF Works
  <2>8. QED
    BY <2>1, <2>5, <2>6, <2>7
<1>4. QED
  BY <1>1, <1>2, <1>3, WhichStep

LEMMA PresetDrop ==
    ASSUME Types, Step, NEW p \in Presets, Head(todo) = <<"drop", p>>
    PROVE  /\ Types'
           /\ \/ Died
              \/ /\ Works(p) /\ pdir' = pdir /\ ext' = ext
                 /\ (Went /\ ~preg'[p].in) \/ (Failed /\ preg' = preg)
<1>1. records' = records /\ Head(todo)[1] = "drop" /\ arg = p
  BY RecordsKept DEF arg
<1>2. CASE Kill /\ UNCHANGED workflowVars
  BY <1>2, Kills
<1>3. CASE DropPreset /\ UNCHANGED workflowVars
  <2>1. UNCHANGED <<pdir, ext, workflowVars>>
    BY <1>3 DEF DropPreset
  <2>2. CASE preg' = [preg EXCEPT ![p] = NoEntry] /\ Go(job)
    <3>1. Went /\ Kept /\ Steady /\ faults' = faults
      BY <1>1, <2>2, Goes
    <3>2. NoEntry \in Entry /\ ~NoEntry.in
      BY DEF NoEntry, Entry
    <3>3. preg' \in [Presets -> Entry] /\ preg'[p] = NoEntry /\ \A q \in Presets \ {p} : preg'[q] = preg[q]
      BY <2>2, <3>2 DEF Types
    <3>4. Types'
      BY <2>1, <3>1, <3>3 DEF Types, Kept, workflowVars
    <3>5. Only(p)
      BY <2>1, <3>3 DEF Only, workflowVars
    <3>6. QED
      BY <2>1, <3>1, <3>2, <3>3, <3>4, <3>5 DEF Works
  <2>3. CASE preg' = preg /\ Stop
    <3>1. (Died \/ (Failed /\ Kept /\ Steady)) /\ job' \in Job /\ faults' = faults + 1
      BY <1>1, <2>3, Stops
    <3>2. Types' /\ Still
      BY <2>1, <2>3, <3>1, TypesAfter
    <3>3. QED
      BY <2>1, <2>3, <3>1, <3>2, StillOnly DEF Works
  <2>4. CASE TornRegistry
    BY <2>1, <2>4, Torn
  <2>5. QED
    BY <1>1, <1>3, <2>2, <2>3, <2>4 DEF DropPreset
<1>4. QED
  BY <1>1, <1>2, <1>3, WhichStep

\* The extension's own commands: all or nothing.
LEMMA ExtendStep ==
    ASSUME Types, Step, NEW on \in BOOLEAN, Head(todo) = <<"extend", on>>
    PROVE  /\ Types'
           /\ \/ Died
              \/ /\ Works(Extension)
                 /\ (Went /\ ext' = on) \/ (Threw /\ ext' = ext /\ (ext = on \/ faults' = faults + 1))
<1>1. records' = records /\ Head(todo)[1] = "extend" /\ arg = on
  BY RecordsKept DEF arg
<1>2. CASE Kill /\ UNCHANGED workflowVars
  BY <1>2, Kills
<1>3. CASE Extend /\ UNCHANGED workflowVars
  <2>1. \/ arg = ext /\ Raise /\ UNCHANGED presetVars /\ faults' = faults
        \/ ext' = arg /\ Go(job) /\ UNCHANGED <<preg, pdir>>
        \/ Stop /\ UNCHANGED presetVars
    BY <1>3 DEF Extend
  <2>2. CASE arg = ext /\ Raise /\ UNCHANGED presetVars /\ faults' = faults
    <3>1. Threw /\ Kept /\ Steady
      BY <1>1, <2>2, Raises
    <3>2. Types' /\ Still
      BY <1>3, <2>2, <3>1, TypesAfter DEF Kept, presetVars
    <3>3. QED
      BY <1>1, <2>2, <3>1, <3>2, StillOnly DEF Works, presetVars
  <2>3. CASE ext' = arg /\ Go(job) /\ UNCHANGED <<preg, pdir>>
    <3>1. Went /\ Kept /\ Steady /\ faults' = faults
      BY <1>1, <2>3, Goes
    <3>2. Types'
      BY <1>1, <1>3, <2>3, <3>1 DEF Types, Kept, workflowVars
    <3>3. Only(Extension)
      BY <1>3, <2>3 DEF Only, workflowVars
    <3>4. QED
      BY <1>1, <2>3, <3>1, <3>2, <3>3 DEF Works
  <2>4. CASE Stop /\ UNCHANGED presetVars
    <3>1. (Died \/ (Failed /\ Kept /\ Steady)) /\ job' \in Job /\ faults' = faults + 1
      BY <1>1, <2>4, Stops
    <3>2. Types' /\ Still
      BY <1>3, <2>4, <3>1, TypesAfter DEF presetVars
    <3>3. QED
      BY <2>4, <3>1, <3>2, StillOnly DEF Works, presetVars, Failed
  <2>5. QED
    BY <2>1, <2>2, <2>3, <2>4
<1>4. QED
  BY <1>1, <1>2, <1>3, WhichStep

LEMMA WorkflowFetched ==
    ASSUME Types, Step, NEW w \in Workflows, Head(todo) = <<"fetch_workflow", w>> \/ Head(todo) = <<"copy_workflow", w>>
    PROVE  /\ Types'
           /\ \/ Died
              \/ /\ Works(w) /\ UNCHANGED presetVars /\ wreg' = wreg /\ sreg' = sreg
                 /\ (Went /\ wdir'[w] = "whole" /\ faults' = faults) \/ Failed
<1>0. Head(todo)[1] \in {"fetch_workflow", "copy_workflow"} /\ arg = w
  BY DEF arg
<1>1. records' = records /\ arg = w
  BY <1>0, RecordsKept
<1>2. CASE Kill /\ UNCHANGED workflowVars
  BY <1>2, Kills
<1>3. CASE (FetchWorkflow \/ CopyWorkflow) /\ UNCHANGED presetVars
  <2>1. PICK d \in Dir : /\ wdir' = [wdir EXCEPT ![w] = d]
                         /\ (d = "whole" /\ Go(job)) \/ Stop \/ (Fault /\ Raise) \/ (Fault /\ Die)
    <3>1. CASE wdir' = wdir /\ Stop
      <4>1. wdir' = [wdir EXCEPT ![w] = wdir[w]] /\ wdir[w] \in Dir
        BY <3>1 DEF Types
      <4>2. QED
        BY <3>1, <4>1
    <3>2. QED
      BY <1>0, <1>3, <3>1 DEF FetchWorkflow, CopyWorkflow, Dir
  <2>2. UNCHANGED <<preg, pdir, ext, wreg, sreg, sdir>>
    BY <1>3 DEF FetchWorkflow, CopyWorkflow, presetVars
  <2>3. wdir' \in [Workflows -> Dir] /\ wdir'[w] = d /\ \A q \in Workflows \ {w} : wdir'[q] = wdir[q]
    BY <2>1 DEF Types
  <2>4. Only(w)
    BY <2>2, <2>3 DEF Only
  <2>5. CASE d = "whole" /\ Go(job)
    <3>1. Went /\ Kept /\ Steady /\ faults' = faults
      BY <1>1, <2>5, Goes
    <3>2. Types'
      BY <2>2, <2>3, <3>1 DEF Types, Kept
    <3>3. QED
      BY <1>3, <2>2, <2>3, <2>4, <2>5, <3>1, <3>2 DEF Works
  <2>6. CASE Stop \/ (Fault /\ Raise) \/ (Fault /\ Die)
    <3>1. (Died \/ (Failed /\ Kept /\ Steady)) /\ job' \in Job /\ faults' \in Nat
      BY <1>1, <2>6, Stops DEF Stop
    <3>2. Types'
      BY <2>2, <2>3, <3>1 DEF Types
    <3>3. QED
      BY <1>3, <2>2, <2>3, <2>4, <3>1, <3>2 DEF Works
  <2>7. QED
    BY <2>1, <2>5, <2>6
<1>4. QED
  BY <1>0, <1>2, <1>3, WhichStep

LEMMA WorkflowEntered ==
    ASSUME Types, Step, NEW w \in Workflows, Head(todo) = <<"enter_workflow", w>>
    PROVE  /\ Types'
           /\ \/ Died
              \/ /\ Works(w) /\ UNCHANGED presetVars /\ wdir' = wdir /\ sreg' = sreg
                 /\ (Went /\ w \in wreg' /\ faults' = faults) \/ (Failed /\ wreg' = wreg)
<1>0. Head(todo)[1] = "enter_workflow" /\ arg = w
  BY DEF arg
<1>1. records' = records /\ arg = w
  BY <1>0, RecordsKept
<1>2. CASE Kill /\ UNCHANGED workflowVars
  BY <1>2, Kills
<1>3. CASE EnterWorkflow /\ UNCHANGED presetVars
  <2>1. \/ wreg' = wreg \cup {w} /\ Go(job)
        \/ wreg' = wreg /\ Stop
        \/ wreg' = {} /\ Fault /\ Die
    BY <1>1, <1>3 DEF EnterWorkflow
  <2>2. UNCHANGED <<preg, pdir, ext, wdir, sreg, sdir>>
    BY <1>3 DEF EnterWorkflow, presetVars
  <2>3. CASE wreg' = wreg \cup {w} /\ Go(job)
    <3>1. Went /\ Kept /\ Steady /\ faults' = faults
      BY <1>1, <2>3, Goes
    <3>2. Types'
      BY <2>2, <2>3, <3>1 DEF Types, Kept
    <3>3. Only(w)
      BY <2>2, <2>3 DEF Only
    <3>4. QED
      BY <1>3, <2>2, <2>3, <3>1, <3>2, <3>3 DEF Works
  <2>4. CASE wreg' = wreg /\ Stop
    <3>1. (Died \/ (Failed /\ Kept /\ Steady)) /\ job' \in Job /\ faults' \in Nat
      BY <1>1, <2>4, Stops
    <3>2. Types'
      BY <2>2, <2>4, <3>1 DEF Types
    <3>3. Only(w)
      BY <2>2, <2>4 DEF Only
    <3>4. QED
      BY <1>3, <2>2, <2>4, <3>1, <3>2, <3>3 DEF Works
  <2>5. CASE wreg' = {} /\ Fault /\ Die
    <3>1. Died /\ job' \in Job /\ faults' \in Nat
      BY <2>5, Dies
    <3>2. QED
      BY <2>2, <2>5, <3>1 DEF Types
  <2>6. QED
    BY <2>1, <2>3, <2>4, <2>5
<1>4. QED
  BY <1>0, <1>2, <1>3, WhichStep

LEMMA WorkflowRemoved ==
    ASSUME Types, Step, NEW w \in Workflows, Head(todo) = <<"remove_workflow", w>>
    PROVE  /\ Types'
           /\ \/ Died
              \/ /\ Works(w) /\ UNCHANGED presetVars /\ wreg' = wreg /\ sreg' = sreg
                 /\ \/ Threw /\ w \notin wreg
                    \/ Failed
                    \/ Put(<<<<"drop_workflow", w>>>>)
<1>0. Head(todo)[1] = "remove_workflow" /\ arg = w
  BY DEF arg
<1>1. records' = records /\ arg = w
  BY <1>0, RecordsKept
<1>2. CASE Kill /\ UNCHANGED workflowVars
  BY <1>2, Kills
<1>3. CASE DeleteWorkflow /\ UNCHANGED presetVars
  <2>1. \/ w \notin wreg /\ Reject
        \/ wdir' = [wdir EXCEPT ![w] = "none"] /\ Do(<<<<"drop_workflow", w>>>>, job) /\ UNCHANGED <<wreg, sreg, sdir>>
        \/ wdir' = [wdir EXCEPT ![w] = "torn"] /\ Stop /\ UNCHANGED <<wreg, sreg, sdir>>
    BY <1>1, <1>3 DEF DeleteWorkflow
  <2>2. UNCHANGED <<preg, pdir, ext>>
    BY <1>3 DEF presetVars
  <2>3. CASE w \notin wreg /\ Reject
    <3>1. UNCHANGED workflowVars /\ Raise /\ faults' = faults
      BY <2>3 DEF Reject
    <3>2. Threw /\ Kept /\ Steady
      BY <1>1, <3>1, Raises
    <3>3. Types' /\ Still
      BY <2>2, <3>1, <3>2, TypesAfter DEF Kept
    <3>4. QED
      BY <1>3, <2>3, <3>1, <3>2, <3>3, StillOnly DEF Works, workflowVars
  <2>4. ASSUME NEW d \in Dir, wdir' = [wdir EXCEPT ![w] = d], UNCHANGED <<wreg, sreg, sdir>>
        PROVE  Only(w) /\ wdir' \in [Workflows -> Dir]
    <3>1. wdir' \in [Workflows -> Dir] /\ \A q \in Workflows \ {w} : wdir'[q] = wdir[q]
      BY <2>4 DEF Types
    <3>2. QED
      BY <2>2, <2>4, <3>1 DEF Only
  <2>5. CASE wdir' = [wdir EXCEPT ![w] = "none"] /\ Do(<<<<"drop_workflow", w>>>>, job) /\ UNCHANGED <<wreg, sreg, sdir>>
    <3>1. Put(<<<<"drop_workflow", w>>>>) /\ Kept /\ Steady /\ faults' = faults
      BY <1>1, <2>5, Does
    <3>2. Only(w) /\ wdir' \in [Workflows -> Dir]
      BY <2>4, <2>5 DEF Dir
    <3>3. Types'
      BY <2>2, <2>5, <3>1, <3>2 DEF Types, Kept
    <3>4. QED
      BY <1>3, <2>5, <3>1, <3>2, <3>3 DEF Works
  <2>6. CASE wdir' = [wdir EXCEPT ![w] = "torn"] /\ Stop /\ UNCHANGED <<wreg, sreg, sdir>>
    <3>1. (Died \/ (Failed /\ Kept /\ Steady)) /\ job' \in Job /\ faults' \in Nat
      BY <1>1, <2>6, Stops
    <3>2. Only(w) /\ wdir' \in [Workflows -> Dir]
      BY <2>4, <2>6 DEF Dir
    <3>3. Types'
      BY <2>2, <2>6, <3>1, <3>2 DEF Types
    <3>4. QED
      BY <1>3, <2>6, <3>1, <3>2, <3>3 DEF Works
  <2>7. QED
    BY <2>1, <2>3, <2>5, <2>6
<1>4. QED
  BY <1>0, <1>2, <1>3, WhichStep

LEMMA WorkflowDropped ==
    ASSUME Types, Step, NEW w \in Workflows, Head(todo) = <<"drop_workflow", w>>
    PROVE  /\ Types'
           /\ \/ Died
              \/ /\ Works(w) /\ UNCHANGED presetVars /\ wdir' = wdir /\ sreg' = sreg
                 /\ (Went /\ w \notin wreg') \/ (Failed /\ wreg' = wreg)
<1>0. Head(todo)[1] = "drop_workflow" /\ arg = w
  BY DEF arg
<1>1. records' = records /\ arg = w
  BY <1>0, RecordsKept
<1>2. CASE Kill /\ UNCHANGED workflowVars
  BY <1>2, Kills
<1>3. CASE DropWorkflow /\ UNCHANGED presetVars
  <2>1. \/ wreg' = wreg \ {w} /\ Go(job)
        \/ wreg' = wreg /\ Stop
        \/ wreg' = {} /\ Fault /\ Die
    BY <1>1, <1>3 DEF DropWorkflow
  <2>2. UNCHANGED <<preg, pdir, ext, wdir, sreg, sdir>>
    BY <1>3 DEF DropWorkflow, presetVars
  <2>3. CASE wreg' = wreg \ {w} /\ Go(job)
    <3>1. Went /\ Kept /\ Steady /\ faults' = faults
      BY <1>1, <2>3, Goes
    <3>2. Types'
      BY <2>2, <2>3, <3>1 DEF Types, Kept
    <3>3. Only(w)
      BY <2>2, <2>3 DEF Only
    <3>4. QED
      BY <1>3, <2>2, <2>3, <3>1, <3>2, <3>3 DEF Works
  <2>4. CASE wreg' = wreg /\ Stop
    <3>1. (Died \/ (Failed /\ Kept /\ Steady)) /\ job' \in Job /\ faults' \in Nat
      BY <1>1, <2>4, Stops
    <3>2. Types'
      BY <2>2, <2>4, <3>1 DEF Types
    <3>3. Only(w)
      BY <2>2, <2>4 DEF Only
    <3>4. QED
      BY <1>3, <2>2, <2>4, <3>1, <3>2, <3>3 DEF Works
  <2>5. CASE wreg' = {} /\ Fault /\ Die
    <3>1. Died /\ job' \in Job /\ faults' \in Nat
      BY <2>5, Dies
    <3>2. QED
      BY <2>2, <2>5, <3>1 DEF Types
  <2>6. QED
    BY <2>1, <2>3, <2>4, <2>5
<1>4. QED
  BY <1>0, <1>2, <1>3, WhichStep

\* A step type that is there in any form is refused.
LEMMA StepTypeFetched ==
    ASSUME Types, Step, NEW s \in StepTypes, Head(todo) = <<"fetch_step", s>>
    PROVE  /\ Types'
           /\ \/ Died
              \/ /\ Works(s) /\ UNCHANGED presetVars /\ sreg' = sreg /\ wreg' = wreg /\ wdir' = wdir
                 /\ (Went /\ s \notin sreg /\ sdir'[s] = "whole" /\ faults' = faults) \/ (Threw /\ sdir' = sdir)
<1>0. Head(todo)[1] = "fetch_step" /\ arg = s
  BY DEF arg
<1>1. records' = records /\ arg = s
  BY <1>0, RecordsKept
<1>2. CASE Kill /\ UNCHANGED workflowVars
  BY <1>2, Kills
<1>3. CASE FetchStep /\ UNCHANGED presetVars
  <2>1. \/ Reject
        \/ sdir' = [sdir EXCEPT ![s] = "whole"] /\ Go(job) /\ s \notin sreg /\ UNCHANGED <<wreg, wdir, sreg>>
        \/ sdir' = sdir /\ Stop /\ UNCHANGED <<wreg, wdir, sreg>>
    BY <1>1, <1>3 DEF FetchStep
  <2>2. UNCHANGED <<preg, pdir, ext>>
    BY <1>3 DEF presetVars
  <2>3. CASE Reject
    <3>1. UNCHANGED workflowVars /\ Raise /\ faults' = faults
      BY <2>3 DEF Reject
    <3>2. Threw /\ Kept /\ Steady
      BY <1>1, <3>1, Raises
    <3>3. Types' /\ Still
      BY <2>2, <3>1, <3>2, TypesAfter DEF Kept
    <3>4. QED
      BY <1>3, <3>1, <3>2, <3>3, StillOnly DEF Works, workflowVars
  <2>4. CASE sdir' = [sdir EXCEPT ![s] = "whole"] /\ Go(job) /\ s \notin sreg /\ UNCHANGED <<wreg, wdir, sreg>>
    <3>1. Went /\ Kept /\ Steady /\ faults' = faults
      BY <1>1, <2>4, Goes
    <3>2. sdir' \in [StepTypes -> Dir] /\ sdir'[s] = "whole" /\ \A q \in StepTypes \ {s} : sdir'[q] = sdir[q]
      BY <2>4 DEF Types, Dir
    <3>3. Types'
      BY <2>2, <2>4, <3>1, <3>2 DEF Types, Kept
    <3>4. Only(s)
      BY <2>2, <2>4, <3>2 DEF Only
    <3>5. QED
      BY <1>3, <2>4, <3>1, <3>2, <3>3, <3>4 DEF Works
  <2>5. CASE sdir' = sdir /\ Stop /\ UNCHANGED <<wreg, wdir, sreg>>
    <3>1. (Died \/ (Failed /\ Kept /\ Steady)) /\ job' \in Job /\ faults' = faults + 1
      BY <1>1, <2>5, Stops
    <3>2. Types' /\ Still
      BY <2>2, <2>5, <3>1, TypesAfter DEF workflowVars
    <3>3. QED
      BY <1>3, <2>5, <3>1, <3>2, StillOnly DEF Works, Failed
  <2>6. QED
    BY <2>1, <2>3, <2>4, <2>5
<1>4. QED
  BY <1>0, <1>2, <1>3, WhichStep

LEMMA StepTypeEntered ==
    ASSUME Types, Step, NEW s \in StepTypes, Head(todo) = <<"enter_step", s>>
    PROVE  /\ Types'
           /\ \/ Died
              \/ /\ Works(s) /\ UNCHANGED presetVars /\ wreg' = wreg /\ wdir' = wdir
                 /\ (Went /\ s \in sreg' /\ sdir' = sdir /\ faults' = faults) \/ (Failed /\ sreg' = sreg)
<1>0. Head(todo)[1] = "enter_step" /\ arg = s
  BY DEF arg
<1>1. records' = records /\ arg = s
  BY <1>0, RecordsKept
<1>2. CASE Kill /\ UNCHANGED workflowVars
  BY <1>2, Kills
<1>3. CASE EnterStep /\ UNCHANGED presetVars
  <2>1. \/ sreg' = sreg \cup {s} /\ Go(job) /\ UNCHANGED sdir
        \/ sdir' = [sdir EXCEPT ![s] = "none"] /\ Fault /\ Raise /\ UNCHANGED sreg
        \/ Fault /\ Die /\ sreg' \in {sreg, {}} /\ UNCHANGED sdir
    BY <1>1, <1>3 DEF EnterStep
  <2>2. UNCHANGED <<preg, pdir, ext, wreg, wdir>>
    BY <1>3 DEF EnterStep, presetVars
  <2>3. CASE sreg' = sreg \cup {s} /\ Go(job) /\ UNCHANGED sdir
    <3>1. Went /\ Kept /\ Steady /\ faults' = faults
      BY <1>1, <2>3, Goes
    <3>2. Types'
      BY <2>2, <2>3, <3>1 DEF Types, Kept
    <3>3. Only(s)
      BY <2>2, <2>3 DEF Only
    <3>4. QED
      BY <1>3, <2>2, <2>3, <3>1, <3>2, <3>3 DEF Works
  <2>4. CASE sdir' = [sdir EXCEPT ![s] = "none"] /\ Fault /\ Raise /\ UNCHANGED sreg
    <3>1. faults' = faults + 1 /\ faults' \in Nat
      BY <2>4 DEF Fault, Types
    <3>2. Failed /\ Kept /\ Steady
      BY <1>1, <2>4, <3>1, Raises DEF Failed
    <3>3. sdir' \in [StepTypes -> Dir] /\ \A q \in StepTypes \ {s} : sdir'[q] = sdir[q]
      BY <2>4 DEF Types, Dir
    <3>4. Types'
      BY <2>2, <2>4, <3>1, <3>2, <3>3 DEF Types, Kept
    <3>5. Only(s)
      BY <2>2, <2>4, <3>3 DEF Only
    <3>6. QED
      BY <1>3, <2>2, <2>4, <3>2, <3>4, <3>5 DEF Works
  <2>5. CASE Fault /\ Die /\ sreg' \in {sreg, {}} /\ UNCHANGED sdir
    <3>1. Died /\ job' \in Job /\ faults' \in Nat
      BY <2>5, Dies
    <3>2. QED
      BY <2>2, <2>5, <3>1 DEF Types
  <2>6. QED
    BY <2>1, <2>3, <2>4, <2>5
<1>4. QED
  BY <1>0, <1>2, <1>3, WhichStep

LEMMA StepTypeRemoved ==
    ASSUME Types, Step, NEW s \in StepTypes, Head(todo) = <<"remove_step", s>>
    PROVE  /\ Types'
           /\ \/ Died
              \/ /\ Still /\ Kept /\ Steady /\ faults' = faults
                 /\ \/ Threw /\ s \notin sreg
                    \/ Put(<<<<"delete_step", s>>>>) /\ s \notin sreg
                    \/ Put(<<<<"drop_step", s>>>>
                             \o Try(<<<<"delete_step", s>>>>, <<<<"relist_step", s>>, <<"raise", s>>>>))
<1>0. Head(todo)[1] = "remove_step" /\ arg = s
  BY DEF arg
<1>1. records' = records /\ arg = s
  BY <1>0, RecordsKept
<1>2. CASE Kill /\ UNCHANGED workflowVars
  BY <1>2, Kills
<1>3. CASE RemoveStep /\ UNCHANGED presetVars
  <2> DEFINE undone == <<<<"drop_step", s>>>>
                         \o Try(<<<<"delete_step", s>>>>, <<<<"relist_step", s>>, <<"raise", s>>>>)
  <2>1. \/ s \notin sreg /\ Reject
        \/ UNCHANGED workflowVars /\ Do(IF s \notin sreg THEN <<<<"delete_step", s>>>> ELSE undone, job)
    BY <1>1, <1>3 DEF RemoveStep
  <2>2. UNCHANGED <<preg, pdir, ext>>
    BY <1>3 DEF presetVars
  <2> HIDE DEF undone
  <2>3. CASE s \notin sreg /\ Reject
    <3>1. UNCHANGED workflowVars /\ Raise /\ faults' = faults
      BY <2>3 DEF Reject
    <3>2. Threw /\ Kept /\ Steady
      BY <1>1, <3>1, Raises
    <3>3. Types' /\ Still
      BY <2>2, <3>1, <3>2, TypesAfter DEF Kept
    <3>4. QED
      BY <2>3, <3>1, <3>2, <3>3
  <2>4. CASE UNCHANGED workflowVars /\ Do(IF s \notin sreg THEN <<<<"delete_step", s>>>> ELSE undone, job)
    <3>1. Put(IF s \notin sreg THEN <<<<"delete_step", s>>>> ELSE undone) /\ Kept /\ Steady /\ faults' = faults
      BY <1>1, <2>4, Does
    <3>2. Types' /\ Still
      BY <2>2, <2>4, <3>1, TypesAfter DEF Kept
    <3>3. (s \notin sreg /\ Put(<<<<"delete_step", s>>>>)) \/ Put(undone)
      BY <3>1
    <3>4. QED
      BY <3>1, <3>2, <3>3 DEF undone
  <2>5. QED
    BY <2>1, <2>3, <2>4
<1>4. QED
  BY <1>0, <1>2, <1>3, WhichStep

LEMMA StepTypeDropped ==
    ASSUME Types, Step, NEW s \in StepTypes, Head(todo) = <<"drop_step", s>>
    PROVE  /\ Types'
           /\ \/ Died
              \/ /\ Works(s) /\ UNCHANGED presetVars /\ wreg' = wreg /\ wdir' = wdir
                 /\ (Went /\ s \notin sreg') \/ Failed
<1>0. Head(todo)[1] = "drop_step" /\ arg = s
  BY DEF arg
<1>1. records' = records /\ arg = s
  BY <1>0, RecordsKept
<1>2. CASE Kill /\ UNCHANGED workflowVars
  BY <1>2, Kills
<1>3. CASE DropStep /\ UNCHANGED presetVars
  <2>1. \/ sreg' = sreg \ {s} /\ Go(job)
        \/ sreg' = sreg /\ Stop
        \/ sreg' = {} /\ Fault /\ Die
    BY <1>1, <1>3 DEF DropStep
  <2>2. UNCHANGED <<preg, pdir, ext, wreg, wdir, sdir>>
    BY <1>3 DEF DropStep, presetVars
  <2>3. CASE sreg' = sreg \ {s} /\ Go(job)
    <3>1. Went /\ Kept /\ Steady /\ faults' = faults
      BY <1>1, <2>3, Goes
    <3>2. Types'
      BY <2>2, <2>3, <3>1 DEF Types, Kept
    <3>3. Only(s)
      BY <2>2, <2>3 DEF Only
    <3>4. QED
      BY <1>3, <2>2, <2>3, <3>1, <3>2, <3>3 DEF Works
  <2>4. CASE sreg' = sreg /\ Stop
    <3>1. (Died \/ (Failed /\ Kept /\ Steady)) /\ job' \in Job /\ faults' \in Nat
      BY <1>1, <2>4, Stops
    <3>2. Types'
      BY <2>2, <2>4, <3>1 DEF Types
    <3>3. Only(s)
      BY <2>2, <2>4 DEF Only
    <3>4. QED
      BY <1>3, <2>2, <2>4, <3>1, <3>2, <3>3 DEF Works
  <2>5. CASE sreg' = {} /\ Fault /\ Die
    <3>1. Died /\ job' \in Job /\ faults' \in Nat
      BY <2>5, Dies
    <3>2. QED
      BY <2>2, <2>5, <3>1 DEF Types
  <2>6. QED
    BY <2>1, <2>3, <2>4, <2>5
<1>4. QED
  BY <1>0, <1>2, <1>3, WhichStep

LEMMA StepTypeDeleted ==
    ASSUME Types, Step, NEW s \in StepTypes, Head(todo) = <<"delete_step", s>>
    PROVE  /\ Types'
           /\ \/ Died
              \/ /\ Works(s) /\ UNCHANGED presetVars /\ sreg' = sreg /\ wreg' = wreg /\ wdir' = wdir
                 /\ Went \/ Failed
<1>0. Head(todo)[1] = "delete_step" /\ arg = s
  BY DEF arg
<1>1. records' = records /\ arg = s
  BY <1>0, RecordsKept
<1>2. CASE Kill /\ UNCHANGED workflowVars
  BY <1>2, Kills
<1>3. CASE DeleteStep /\ UNCHANGED presetVars
  <2>1. PICK d \in Dir : sdir' = [sdir EXCEPT ![s] = d] /\ (Go(job) \/ Stop)
    BY <1>1, <1>3 DEF DeleteStep, Dir
  <2>2. UNCHANGED <<preg, pdir, ext, wreg, wdir, sreg>>
    BY <1>3 DEF DeleteStep, presetVars
  <2>3. sdir' \in [StepTypes -> Dir] /\ \A q \in StepTypes \ {s} : sdir'[q] = sdir[q]
    BY <2>1 DEF Types
  <2>4. Only(s)
    BY <2>2, <2>3 DEF Only
  <2>5. CASE Go(job)
    <3>1. Went /\ Kept /\ Steady /\ faults' = faults
      BY <1>1, <2>5, Goes
    <3>2. Types'
      BY <2>2, <2>3, <3>1 DEF Types, Kept
    <3>3. QED
      BY <1>3, <2>2, <2>4, <3>1, <3>2 DEF Works
  <2>6. CASE Stop
    <3>1. (Died \/ (Failed /\ Kept /\ Steady)) /\ job' \in Job /\ faults' \in Nat
      BY <1>1, <2>6, Stops
    <3>2. Types'
      BY <2>2, <2>3, <3>1 DEF Types
    <3>3. QED
      BY <1>3, <2>2, <2>4, <3>1, <3>2 DEF Works
  <2>7. QED
    BY <2>1, <2>5, <2>6
<1>4. QED
  BY <1>0, <1>2, <1>3, WhichStep

LEMMA StepTypeRelisted ==
    ASSUME Types, Step, NEW s \in StepTypes, Head(todo) = <<"relist_step", s>>
    PROVE  /\ Types'
           /\ \/ Died
              \/ Works(s) /\ UNCHANGED presetVars /\ wreg' = wreg /\ wdir' = wdir /\ Went
<1>0. Head(todo)[1] = "relist_step" /\ arg = s
  BY DEF arg
<1>1. records' = records /\ arg = s
  BY <1>0, RecordsKept
<1>2. CASE Kill /\ UNCHANGED workflowVars
  BY <1>2, Kills
<1>3. CASE RelistStep /\ UNCHANGED presetVars
  <2>1. sreg' \in {sreg, sreg \cup {s}} /\ (Go(job) \/ (Fault /\ Die) \/ (Fault /\ Pass))
    BY <1>1, <1>3 DEF RelistStep
  <2>2. UNCHANGED <<preg, pdir, ext, wreg, wdir, sdir>>
    BY <1>3 DEF RelistStep, presetVars
  <2>3. Only(s)
    BY <2>1, <2>2 DEF Only
  <2>4. CASE Go(job)
    <3>1. Went /\ Kept /\ Steady /\ faults' = faults
      BY <1>1, <2>4, Goes
    <3>2. Types'
      BY <2>1, <2>2, <3>1 DEF Types, Kept
    <3>3. QED
      BY <1>3, <2>2, <2>3, <3>1, <3>2 DEF Works
  <2>5. CASE Fault /\ Die
    <3>1. Died /\ job' \in Job /\ faults' \in Nat
      BY <2>5, Dies
    <3>2. QED
      BY <2>1, <2>2, <3>1 DEF Types
  <2>6. CASE Fault /\ Pass
    <3>1. faults' = faults + 1 /\ faults' \in Nat
      BY <2>6 DEF Fault, Types
    <3>2. Went /\ Kept /\ Steady
      BY <1>1, <2>6, <3>1, Passes
    <3>3. Types'
      BY <2>1, <2>2, <3>1, <3>2 DEF Types, Kept
    <3>4. QED
      BY <1>3, <2>2, <2>3, <3>2, <3>3 DEF Works
  <2>7. QED
    BY <2>1, <2>4, <2>5, <2>6
<1>4. QED
  BY <1>0, <1>2, <1>3, WhichStep

-----------------------------------------------------------------------------
(* Whether a component is there *)

\* A component is a kind and an id: its own manager says whether it is there.
ByKind ==
    /\ \A p \in Presets : /\ Installed(p) <=> preg[p].in /\ pdir[p] = "whole"
                          /\ p \in Usable <=> preg[p].in /\ pdir[p] = "whole"
    /\ Installed(Extension) <=> ext
    /\ Extension \in Usable <=> ext
    /\ \A w \in Workflows : /\ Installed(w) <=> w \in wreg
                            /\ w \in Usable <=> w \in wreg /\ wdir[w] = "whole"
    /\ \A s \in StepTypes : /\ Installed(s) <=> s \in sreg
                            /\ s \in Usable <=> s \in sreg /\ sdir[s] = "whole"

LEMMA Kinds ==
    ASSUME Types
    PROVE  ByKind
<1>1. /\ Extension \notin Presets \cup Workflows \cup StepTypes
      /\ Presets \cap (Workflows \cup StepTypes) = {} /\ Workflows \cap StepTypes = {}
  BY BundleAssumption
<1>2. wreg \subseteq Workflows /\ sreg \subseteq StepTypes
  BY DEF Types
<1>3. \A p \in Presets : Installed(p) <=> preg[p].in /\ pdir[p] = "whole"
  BY <1>1, <1>2 DEF Installed
<1>4. Installed(Extension) <=> ext
  BY <1>1, <1>2 DEF Installed
<1>5. \A w \in Workflows : Installed(w) <=> w \in wreg
  BY <1>1, <1>2 DEF Installed
<1>6. \A s \in StepTypes : Installed(s) <=> s \in sreg
  BY <1>1, <1>2 DEF Installed
<1>7. \A c \in Components : c \in Usable <=> /\ Installed(c)
                                             /\ c \in Workflows => wdir[c] = "whole"
                                             /\ c \in StepTypes => sdir[c] = "whole"
  BY DEF Usable, InstalledSet
<1>8. QED
  BY <1>1, <1>3, <1>4, <1>5, <1>6, <1>7 DEF ByKind, Components

LEMMA KindsAfter == Types' => ByKind'
<1>1. Types => ByKind
  BY Kinds
<1>2. QED
  BY <1>1, PTL

LEMMA OthersAlike ==
    ASSUME Types, Types', NEW c, Only(c), NEW d \in Components, d # c
    PROVE  (Installed(d)' <=> Installed(d)) /\ (d \in Usable' <=> d \in Usable)
<1>1. ByKind /\ ByKind'
  BY Kinds, KindsAfter
<1>2. CASE d \in Presets
  BY <1>1, <1>2 DEF ByKind, Only
<1>3. CASE d = Extension
  BY <1>1, <1>3 DEF ByKind, Only
<1>4. CASE d \in Workflows
  BY <1>1, <1>4 DEF ByKind, Only
<1>5. CASE d \in StepTypes
  BY <1>1, <1>5 DEF ByKind, Only
<1>6. QED
  BY <1>2, <1>3, <1>4, <1>5 DEF Components

LEMMA AllAlike ==
    ASSUME Types, Types', Still, NEW d \in Components
    PROVE  (Installed(d)' <=> Installed(d)) /\ (d \in Usable' <=> d \in Usable)
<1>1. ByKind /\ ByKind'
  BY Kinds, KindsAfter
<1>2. CASE d \in Presets
  BY <1>1, <1>2 DEF ByKind, Still
<1>3. CASE d = Extension
  BY <1>1, <1>3 DEF ByKind, Still
<1>4. CASE d \in Workflows
  BY <1>1, <1>4 DEF ByKind, Still, workflowVars
<1>5. CASE d \in StepTypes
  BY <1>1, <1>5 DEF ByKind, Still, workflowVars
<1>6. QED
  BY <1>2, <1>3, <1>4, <1>5 DEF Components

-----------------------------------------------------------------------------
(* What a command that makes or removes one component has left to do *)

\* Of an install of a bundle: nothing has failed; it is being unwound; something has
\* failed while it was.
Fresh   == job.op = "install" => job.unwound = 0
Failing == job.op = "install" => job.unwound \in 1..(faults + 1)
Spoilt  == job.op = "install" => job.unwound \in 1..faults

\* What an install has not put there, and what it has taken away as far as it
\* could be.
New(c)  == job.op = "install" => ~Installed(c)
Gone(c) == New(c) \/ Spoilt

End == <<"end", {}>>

Reconciling(names) == <<"try", <<<<<<"commands", names>>, <<"skills", names>>>>, <<>>>>>>

Writing(p) == <<"try", <<<<<<"write", p>>, <<"note", p>>, <<"reskill", p>>, <<"note", p>>>>,
                         <<<<"unwrite", p>>, <<"delete", <<p, TRUE>>>>, <<"drop", p>>, <<"raise", p>>>>>>>>

Deleting(s) == <<"try", <<<<<<"delete_step", s>>>>, <<<<"relist_step", s>>, <<"raise", s>>>>>>>>

\* Before z the names are to be reconciled, if there are any.
RestOf(names, z) == IF names = {} THEN z ELSE Then(Reconciling(names), z)

Rests(z) == {z} \cup {Then(Reconciling(names), z) : names \in SUBSET Names}

\* Reconciliation is all that is left to do before z.
Reconciles(z, H) ==
    \/ todo \in Rests(z) /\ handlers = H
    \/ /\ handlers = Then(z, H)
       /\ \E names \in SUBSET Names :
            \/ todo = Then(<<"commands", names>>, Then(<<"skills", names>>, Then(End, z)))
            \/ todo = Then(<<"skills", names>>, Then(End, z))
            \/ todo = Then(End, z)

\* What is left of the except block of install_from_directory.
ToDrop(p, r)   == Then(<<"drop", p>>, Then(<<"raise", p>>, r))
ToDelete(p, r) == Then(<<"delete", <<p, TRUE>>>>, ToDrop(p, r))
ToUnwrite(p, r) == Then(<<"unwrite", p>>, ToDelete(p, r))

EntersPreset(p, z, H) ==
    \E prio \in Priorities, r \in Rests(z) :
       /\ handlers = H /\ Fresh
       /\ \/ todo = Then(<<"check", <<p, prio>>>>, z) /\ New(p)
          \/ /\ todo = Then(<<"copy", p>>, Then(<<"enter", <<p, prio>>>>, Then(Writing(p), r)))
             /\ ~preg[p].in
          \/ /\ todo = Then(<<"enter", <<p, prio>>>>, Then(Writing(p), r))
             /\ ~preg[p].in /\ pdir[p] = "whole"

WritesPreset(p, z, H) ==
    \E r \in Rests(z) :
       /\ p \in Usable /\ Fresh
       /\ \/ todo = Then(Writing(p), r) /\ handlers = H
          \/ /\ handlers = Then(ToUnwrite(p, r), H)
             /\ LET noting == Then(<<"note", p>>, Then(End, r)) IN
                todo \in {Then(<<"write", p>>, Then(<<"note", p>>, Then(<<"reskill", p>>, noting))),
                          Then(<<"note", p>>, Then(<<"reskill", p>>, noting)), Then(<<"reskill", p>>, noting),
                          noting, Then(End, r)}

UnmakesPreset(p, z, H) ==
    \E r \in Rests(z) :
       /\ handlers = H
       /\ \/ todo = ToUnwrite(p, r) /\ Fresh
          \/ (\E names \in SUBSET Names : todo = Then(<<"unskill", names>>, ToDelete(p, r))) /\ Failing
          \/ todo = ToDelete(p, r) /\ Failing
          \/ todo = ToDrop(p, r) /\ Failing /\ Gone(p)
          \/ todo = Then(<<"raise", p>>, r) /\ Failing /\ Gone(p)

MakesWorkflow(w, z, H) ==
    /\ handlers = H /\ Fresh /\ New(w)
    /\ \/ todo = Then(<<"fetch_workflow", w>>, Then(<<"enter_workflow", w>>, z))
       \/ todo = Then(<<"copy_workflow", w>>, Then(<<"enter_workflow", w>>, z))
       \/ todo = Then(<<"enter_workflow", w>>, z) /\ wdir[w] = "whole"

MakesStepType(s, z, H) ==
    /\ handlers = H /\ Fresh /\ New(s)
    /\ \/ todo = Then(<<"fetch_step", s>>, Then(<<"enter_step", s>>, z))
       \/ todo = Then(<<"enter_step", s>>, z) /\ sdir[s] = "whole"

\* c is being made, z and H follow.
Making(c, z, H) ==
    \/ c \in Presets /\ (EntersPreset(c, z, H) \/ WritesPreset(c, z, H) \/ UnmakesPreset(c, z, H))
    \/ c = Extension /\ todo = Then(<<"extend", TRUE>>, z) /\ handlers = H /\ Fresh /\ New(c)
    \/ c \in Workflows /\ MakesWorkflow(c, z, H)
    \/ c \in StepTypes /\ MakesStepType(c, z, H)
    \/ Reconciles(z, H) /\ Fresh /\ c \in Usable

\* c is installed, and an update of a bundle installs it again.
Refreshing(c, z, H) ==
    /\ handlers = H /\ Fresh /\ Installed(c)
    /\ \/ todo = z
       \/ c \in Presets /\ \E prio \in Priorities : todo = Then(<<"check", <<c, prio>>>>, z)
       \/ c = Extension /\ todo = Then(<<"extend", TRUE>>, z)
       \/ c \in Workflows /\ todo \in {Then(<<"fetch_workflow", c>>, Then(<<"enter_workflow", c>>, z)),
                                       Then(<<"enter_workflow", c>>, z)}
       \/ c \in StepTypes /\ todo = Then(<<"fetch_step", c>>, Then(<<"enter_step", c>>, z))

RemovesPreset(p, z, H) ==
    \E r \in Rests(z) :
       LET dropping == Then(<<"drop", p>>, r)
           deleting == Then(<<"delete", <<p, FALSE>>>>, dropping) IN
       /\ handlers = H
       /\ \/ todo = Then(<<"remove", p>>, z)
          \/ \E names \in SUBSET Names : \E what :
                todo = Then(<<"unskill", names>>, Then(<<"unfile", what>>, deleting))
          \/ \E what : todo = Then(<<"unfile", what>>, deleting)
          \/ todo = deleting
          \/ todo = dropping /\ Gone(p)

RemovesWorkflow(w, z, H) ==
    /\ handlers = H
    /\ todo \in {Then(<<"remove_workflow", w>>, z), Then(<<"drop_workflow", w>>, z)}

RemovesStepType(s, z, H) ==
    \/ /\ handlers = H
       /\ \/ todo = Then(<<"remove_step", s>>, z)
          \/ todo = Then(<<"delete_step", s>>, z) /\ Gone(s)
          \/ todo = Then(<<"drop_step", s>>, Then(Deleting(s), z))
          \/ todo = Then(Deleting(s), z) /\ Gone(s)
          \/ todo = Then(<<"relist_step", s>>, Then(<<"raise", s>>, z)) /\ Spoilt
          \/ todo = Then(<<"raise", s>>, z) /\ Spoilt
    \/ /\ handlers = Then(Then(<<"relist_step", s>>, Then(<<"raise", s>>, z)), H)
       /\ Gone(s)
       /\ todo \in {Then(<<"delete_step", s>>, Then(End, z)), Then(End, z)}

\* c is being removed, z and H follow.
Removing(c, z, H) ==
    /\ Failing
    /\ \/ c \in Presets /\ RemovesPreset(c, z, H)
       \/ c = Extension /\ todo = Then(<<"extend", FALSE>>, z) /\ handlers = H
       \/ c \in Workflows /\ RemovesWorkflow(c, z, H)
       \/ c \in StepTypes /\ RemovesStepType(c, z, H)
       \/ Reconciles(z, H) /\ Gone(c)

\* An exception has ended it, and goes on to the except block around.
ThrewTo(H) ==
    /\ todo' = IF H # <<>> THEN Head(H) ELSE <<>>
    /\ handlers' = IF H # <<>> THEN Tail(H) ELSE <<>>
    /\ Fresh' \/ Failing'

\* What the next step of it leads to.
MakingGoesOn(c, z, H)     == Only(c) /\ Kept /\ ((ThrewTo(H) /\ Gone(c)') \/ Making(c, z, H)')
RefreshingGoesOn(c, z, H) == /\ Only(c) /\ Kept /\ Installed(c)' /\ (c \in Usable => c \in Usable' \/ faults' # faults)
                             /\ ThrewTo(H) \/ Refreshing(c, z, H)'
RemovingGoesOn(c, z, H)   == Works(c) /\ ((ThrewTo(H) /\ Gone(c)') \/ Removing(c, z, H)')

LEMMA RestsAreLists ==
    ASSUME NEW z, IsList(z), NEW r \in Rests(z)
    PROVE  IsList(r)
  BY ThenList DEF Rests

LEMMA RestsHave ==
    ASSUME NEW z
    PROVE  \A names \in SUBSET Names : RestOf(names, z) \in Rests(z)
  BY DEF RestOf, Rests

\* Where the steps lead is said of the state after them too.
LEMMA Annotated ==
    ASSUME Types, Kept, Steady
    PROVE  /\ Fresh => Fresh'
           /\ Failing => Failing' /\ (faults' # faults => Spoilt')
           /\ Spoilt => Spoilt'
           /\ \A c : ~Installed(c)' => New(c)'
           /\ \A c : New(c) /\ (Installed(c)' => Installed(c)) => New(c)'
           /\ \A c : Gone(c) /\ (Installed(c)' => Installed(c)) => Gone(c)'
<1>1. faults \in Nat /\ faults' \in {faults, faults + 1}
  BY DEF Types, Kept
<1>2. job'.op = "install" => job.op = "install" /\ job'.unwound = job.unwound
  BY DEF Steady
<1>3. Fresh => Fresh'
  BY <1>2 DEF Fresh
<1>4. job'.op = "install" /\ Failing => job'.unwound \in Nat
  BY <1>1, <1>2 DEF Failing
<1>5. Failing => Failing'
  BY <1>1, <1>2 DEF Failing
<1>6. Failing /\ faults' # faults => Spoilt'
  BY <1>1, <1>2 DEF Failing, Spoilt
<1>7. Spoilt => Spoilt'
  BY <1>1, <1>2 DEF Spoilt
<1>8. /\ \A c : ~Installed(c)' => New(c)'
      /\ \A c : New(c) /\ (Installed(c)' => Installed(c)) => New(c)'
  BY <1>2 DEF New
<1>9. \A c : Gone(c) /\ (Installed(c)' => Installed(c)) => Gone(c)'
  BY <1>7, <1>8 DEF Gone
<1>10. QED
  BY <1>3, <1>5, <1>6, <1>7, <1>8, <1>9

LEMMA ReconcilesStep ==
    ASSUME Types, Step, NEW z, IsList(z), NEW H, IsList(H), Reconciles(z, H), ~(todo = z /\ handlers = H)
    PROVE  /\ Types'
           /\ Died \/ (Still /\ Kept /\ Steady /\ Reconciles(z, H)')
<1> DEFINE Out == Types' /\ (Died \/ (Still /\ Kept /\ Steady /\ Reconciles(z, H)'))
<1>1. ASSUME NEW names \in SUBSET Names, todo = Then(Reconciling(names), z), handlers = H
      PROVE  Out
  <2>1. Head(todo) = Reconciling(names) /\ Tail(todo) = z
    BY <1>1, ThenList
  <2>2. Head(todo) = <<"try", <<<<<<"commands", names>>, <<"skills", names>>>>, <<>>>>>>
    BY <2>1 DEF Reconciling
  <2> DEFINE body == <<<<"commands", names>>, <<"skills", names>>>>
  <2>3. (body \o <<<<"end", {}>>>>) \o z = body \o Then(End, z)
    <3> DEFINE S == {<<"commands", names>>, <<"skills", names>>}
    <3>1. body \in Seq(S)
      OBVIOUS
    <3> HIDE DEF body, S
    <3>2. (body \o <<End>>) \o z = body \o Then(End, z)
      BY <3>1, BodyThen
    <3>3. QED
      BY <3>2 DEF End
  <2>4. body \o Then(End, z) = Then(<<"commands", names>>, Then(<<"skills", names>>, Then(End, z)))
    <3>1. IsList(Then(End, z))
      BY ThenList
    <3>2. \A a, b : <<a, b>> \o Then(End, z) = Then(a, Then(b, Then(End, z)))
      BY <3>1, StepsThen
    <3>3. QED
      BY <3>2, Zenon
  <2>5. <<<<>> \o z>> \o H = Then(z, H)
    BY StepsThen DEF Then
  <2>6. Types' /\ (Died \/ (/\ Still /\ Kept /\ Steady
                            /\ todo' = Then(<<"commands", names>>, Then(<<"skills", names>>, Then(End, z)))
                            /\ handlers' = Then(z, H)))
    BY <1>1, <2>1, <2>2, <2>3, <2>4, <2>5, TryStep
  <2>7. QED
    BY <2>6 DEF Reconciles
<1>2. ASSUME NEW names \in SUBSET Names, handlers = Then(z, H),
             todo = Then(<<"commands", names>>, Then(<<"skills", names>>, Then(End, z)))
      PROVE  Out
  <2>1. IsList(Then(<<"skills", names>>, Then(End, z)))
    BY ThenList
  <2>2. /\ Head(todo) = <<"commands", names>> /\ Tail(todo) = Then(<<"skills", names>>, Then(End, z))
        /\ handlers # <<>> /\ Head(handlers) = z /\ Tail(handlers) = H
    BY <1>2, <2>1, ThenList
  <2>3. Head(todo)[1] = "commands"
    BY <2>2
  <2>4. Types' /\ (Died \/ (Still /\ Kept /\ Steady /\ (Failed \/ Went)))
    BY <2>3, FileStep
  <2>5. Went => Reconciles(z, H)'
    BY <1>2, <2>2 DEF Went, Reconciles
  <2>6. Failed => Reconciles(z, H)'
    BY <2>2 DEF Failed, Threw, Reconciles, Rests
  <2>7. QED
    BY <2>4, <2>5, <2>6
<1>3. ASSUME NEW names \in SUBSET Names, handlers = Then(z, H), todo = Then(<<"skills", names>>, Then(End, z))
      PROVE  Out
  <2>1. IsList(Then(End, z))
    BY ThenList
  <2>2. /\ Head(todo) = <<"skills", names>> /\ Tail(todo) = Then(End, z)
        /\ handlers # <<>> /\ Head(handlers) = z /\ Tail(handlers) = H
    BY <1>3, <2>1, ThenList
  <2>3. Head(todo)[1] = "skills"
    BY <2>2
  <2>4. Types' /\ (Died \/ (Still /\ Kept /\ Steady /\ (Failed \/ Went)))
    BY <2>3, FileStep
  <2>5. Went => Reconciles(z, H)'
    BY <1>3, <2>2 DEF Went, Reconciles
  <2>6. Failed => Reconciles(z, H)'
    BY <2>2 DEF Failed, Threw, Reconciles, Rests
  <2>7. QED
    BY <2>4, <2>5, <2>6
<1>4. ASSUME handlers = Then(z, H), todo = Then(End, z)
      PROVE  Out
  <2>1. /\ Head(todo) = End /\ Tail(todo) = z /\ Tail(handlers) = H
    BY <1>4, ThenList
  <2>2. Head(todo)[1] = "end"
    BY <2>1 DEF End
  <2>3. Types' /\ (Died \/ (Still /\ Kept /\ Steady /\ todo' = z /\ handlers' = H))
    BY <2>1, <2>2, EndStep
  <2>4. QED
    BY <2>3 DEF Reconciles, Rests
<1>5. QED
  BY <1>1, <1>2, <1>3, <1>4 DEF Reconciles, Rests

\* Steps before names to reconcile.
LEMMA ReconcileThen ==
    ASSUME NEW S, NEW s \in Seq(S), NEW z, IsList(z)
    PROVE  \A names : (s \o Reconcile(names)) \o z = s \o RestOf(names, z)
<1>0. TAKE names
<1>1. CASE names = {}
  <2>1. Reconcile(names) = <<>>
    BY <1>1 DEF Reconcile
  <2>2. s \o <<>> = s
    BY ConcatEmptySeq
  <2>3. RestOf(names, z) = z
    BY <1>1 DEF RestOf
  <2>4. QED
    BY <2>1, <2>2, <2>3, Zenon
<1>2. CASE names # {}
  <2>1. Reconcile(names) = <<Reconciling(names)>>
    BY <1>2 DEF Reconcile, Try, Reconciling
  <2>2. (s \o <<Reconciling(names)>>) \o z = s \o Then(Reconciling(names), z)
    BY BodyThen
  <2>3. RestOf(names, z) = Then(Reconciling(names), z)
    BY <1>2 DEF RestOf
  <2>4. QED
    BY <2>1, <2>2, <2>3, Zenon
<1>3. QED
  BY <1>1, <1>2

LEMMA CheckedThen ==
    ASSUME NEW p, NEW prio, NEW names \in SUBSET Names, NEW z, IsList(z)
    PROVE  (<<<<"copy", p>>, <<"enter", <<p, prio>>>>>>
              \o Try(<<<<"write", p>>, <<"note", p>>, <<"reskill", p>>, <<"note", p>>>>,
                     <<<<"unwrite", p>>, <<"delete", <<p, TRUE>>>>, <<"drop", p>>, <<"raise", p>>>>)
              \o Reconcile(names)) \o z
           = Then(<<"copy", p>>, Then(<<"enter", <<p, prio>>>>, Then(Writing(p), RestOf(names, z))))
<1> DEFINE a == <<"copy", p>>
           b == <<"enter", <<p, prio>>>>
           w == Writing(p)
           S == {a, b, w}
           s == <<a, b>> \o <<w>>
           r == RestOf(names, z)
<1>1. Try(<<<<"write", p>>, <<"note", p>>, <<"reskill", p>>, <<"note", p>>>>,
          <<<<"unwrite", p>>, <<"delete", <<p, TRUE>>>>, <<"drop", p>>, <<"raise", p>>>>) = <<w>>
  BY DEF Try, Writing
<1>2. <<a, b>> \in Seq(S) /\ <<w>> \in Seq(S)
  OBVIOUS
<1>3. s \in Seq(S)
  BY <1>2, ConcatProperties
<1> HIDE DEF a, b, w, S
<1>4. (s \o Reconcile(names)) \o z = s \o r
  <2>1. \A T : \A t \in Seq(T) : (t \o Reconcile(names)) \o z = t \o RestOf(names, z)
    BY ReconcileThen
  <2> HIDE DEF s
  <2>2. QED
    BY <1>3, <2>1
<1>5. IsList(r) /\ IsList(Then(w, r))
  BY RestsHave, RestsAreLists, ThenList
<1> HIDE DEF r
<1>6. s \o r = <<a, b>> \o Then(w, r)
  BY <1>2, <1>5, BodyThen
<1>7. <<a, b>> \o Then(w, r) = Then(a, Then(b, Then(w, r)))
  <2>1. \A x, y : <<x, y>> \o Then(w, r) = Then(x, Then(y, Then(w, r)))
    BY <1>5, StepsThen
  <2>2. QED
    BY <2>1, Zenon
<1>8. (s \o Reconcile(names)) \o z = Then(a, Then(b, Then(w, r)))
  BY <1>4, <1>6, <1>7
<1>9. QED
  BY <1>1, <1>8 DEF a, b, w, r

\* After an exception in it.
LEMMA ThrewTop ==
    ASSUME NEW H, handlers = H, Threw, Fresh' \/ Failing'
    PROVE  ThrewTo(H)
  BY DEF Threw, ThrewTo

LEMMA EntersPresetStep ==
    ASSUME Types, Step, NEW p \in Presets, NEW z, IsList(z), NEW H, IsList(H), EntersPreset(p, z, H)
    PROVE  Types' /\ (Died \/ MakingGoesOn(p, z, H))
<1> DEFINE Out == Types' /\ (Died \/ MakingGoesOn(p, z, H))
<1>1. PICK prio \in Priorities, r \in Rests(z) :
       /\ handlers = H /\ Fresh
       /\ \/ todo = Then(<<"check", <<p, prio>>>>, z) /\ New(p)
          \/ /\ todo = Then(<<"copy", p>>, Then(<<"enter", <<p, prio>>>>, Then(Writing(p), r)))
             /\ ~preg[p].in
          \/ /\ todo = Then(<<"enter", <<p, prio>>>>, Then(Writing(p), r))
             /\ ~preg[p].in /\ pdir[p] = "whole"
  BY DEF EntersPreset
<1>2. IsList(r) /\ IsList(Then(Writing(p), r)) /\ IsList(Then(<<"enter", <<p, prio>>>>, Then(Writing(p), r)))
  BY RestsAreLists, ThenList
<1>3. p \in Components /\ prio \in Nat
  BY PresetAssumption DEF Components
<1>4. CASE todo = Then(<<"check", <<p, prio>>>>, z) /\ New(p)
  <2>1. Head(todo) = <<"check", <<p, prio>>>> /\ Tail(todo) = z
    BY <1>4, ThenList
  <2> DEFINE steps(names) == <<<<"copy", p>>, <<"enter", <<p, prio>>>>>>
                               \o Try(<<<<"write", p>>, <<"note", p>>, <<"reskill", p>>, <<"note", p>>>>,
                                      <<<<"unwrite", p>>, <<"delete", <<p, TRUE>>>>, <<"drop", p>>, <<"raise", p>>>>)
                               \o Reconcile(names)
  <2>2. /\ Types'
        /\ Died \/ (/\ Still /\ Kept /\ Steady /\ faults' = faults
                    /\ \/ preg[p].in /\ Threw
                       \/ ~preg[p].in /\ \E names \in SUBSET Names : Put(steps(names)))
    BY <2>1, CheckStep
  <2>3. \A names \in SUBSET Names : \E q \in Rests(z) :
           steps(names) \o z = Then(<<"copy", p>>, Then(<<"enter", <<p, prio>>>>, Then(Writing(p), q)))
    <3>1. TAKE names \in SUBSET Names
    <3>2. steps(names) \o z = Then(<<"copy", p>>, Then(<<"enter", <<p, prio>>>>, Then(Writing(p), RestOf(names, z))))
      BY CheckedThen
    <3> HIDE DEF steps
    <3>3. QED
      BY <3>2, RestsHave
  <2> HIDE DEF steps
  <2>4. ASSUME Still, Kept, Steady, Types'
        PROVE  /\ Fresh' /\ Gone(p)' /\ Only(p) /\ preg'[p].in = preg[p].in
    BY <1>1, <1>3, <1>4, <2>4, Annotated, AllAlike, StillOnly DEF Gone, Still
  <2>5. CASE Still /\ Kept /\ Steady /\ Types' /\ Threw
    <3>1. ThrewTo(H)
      BY <1>1, <2>4, <2>5, ThrewTop
    <3>2. QED
      BY <2>4, <2>5, <3>1 DEF MakingGoesOn
  <2>6. ASSUME Still, Kept, Steady, Types', ~preg[p].in, NEW names \in SUBSET Names, Put(steps(names))
        PROVE  MakingGoesOn(p, z, H)
    <3>1. PICK q \in Rests(z) : steps(names) \o z = Then(<<"copy", p>>, Then(<<"enter", <<p, prio>>>>, Then(Writing(p), q)))
      BY <2>3
    <3>2. todo' = Then(<<"copy", p>>, Then(<<"enter", <<p, prio>>>>, Then(Writing(p), q))) /\ handlers' = H
      BY <1>1, <2>1, <2>6, <3>1 DEF Put
    <3>3. EntersPreset(p, z, H)'
      BY <2>4, <2>6, <3>2 DEF EntersPreset
    <3>4. QED
      BY <2>4, <2>6, <3>3 DEF MakingGoesOn, Making
  <2>7. QED
    BY <2>2, <2>5, <2>6
<1>5. CASE /\ todo = Then(<<"copy", p>>, Then(<<"enter", <<p, prio>>>>, Then(Writing(p), r)))
           /\ ~preg[p].in
  <2>1. Head(todo) = <<"copy", p>> /\ Tail(todo) = Then(<<"enter", <<p, prio>>>>, Then(Writing(p), r))
    BY <1>2, <1>5, ThenList
  <2>2. /\ Types'
        /\ Died \/ (/\ Works(p) /\ preg' = preg
                    /\ (Went /\ pdir'[p] = "whole") \/ Failed)
    BY <2>1, CopyStep
  <2>3. CASE Types' /\ Works(p) /\ preg' = preg /\ Went /\ pdir'[p] = "whole"
    <3>1. Fresh'
      BY <1>1, <2>3, Annotated DEF Works
    <3>2. EntersPreset(p, z, H)'
      BY <1>1, <1>5, <2>1, <2>3, <3>1 DEF EntersPreset, Went
    <3>3. QED
      BY <2>3, <3>2 DEF MakingGoesOn, Making, Works
  <2>4. CASE Types' /\ Works(p) /\ preg' = preg /\ Failed
    <3>1. ~Installed(p)'
      BY <1>5, <2>4, KindsAfter DEF ByKind
    <3>2. Fresh' /\ Gone(p)'
      BY <1>1, <2>4, <3>1, Annotated DEF Works, Gone
    <3>3. ThrewTo(H)
      BY <1>1, <2>4, <3>2, ThrewTop DEF Failed
    <3>4. QED
      BY <2>4, <3>2, <3>3 DEF MakingGoesOn, Works
  <2>5. QED
    BY <2>2, <2>3, <2>4
<1>6. CASE /\ todo = Then(<<"enter", <<p, prio>>>>, Then(Writing(p), r))
           /\ ~preg[p].in /\ pdir[p] = "whole"
  <2>1. Head(todo) = <<"enter", <<p, prio>>>> /\ Tail(todo) = Then(Writing(p), r)
    BY <1>2, <1>6, ThenList
  <2>2. /\ Types'
        /\ Died \/ (/\ Works(p) /\ pdir' = pdir
                    /\ (Went /\ preg'[p].in) \/ (Failed /\ preg' = preg))
    BY <1>3, <2>1, PresetEnter
  <2>3. CASE Types' /\ Works(p) /\ pdir' = pdir /\ Went /\ preg'[p].in
    <3>1. Fresh'
      BY <1>1, <2>3, Annotated DEF Works
    <3>2. p \in Usable'
      BY <1>6, <2>3, KindsAfter DEF ByKind
    <3>3. WritesPreset(p, z, H)'
      BY <1>1, <2>1, <2>3, <3>1, <3>2 DEF WritesPreset, Went
    <3>4. QED
      BY <2>3, <3>3 DEF MakingGoesOn, Making, Works
  <2>4. CASE Types' /\ Works(p) /\ preg' = preg /\ Failed
    <3>1. ~Installed(p)'
      BY <1>6, <2>4, KindsAfter DEF ByKind
    <3>2. Fresh' /\ Gone(p)'
      BY <1>1, <2>4, <3>1, Annotated DEF Works, Gone
    <3>3. ThrewTo(H)
      BY <1>1, <2>4, <3>2, ThrewTop DEF Failed
    <3>4. QED
      BY <2>4, <3>2, <3>3 DEF MakingGoesOn, Works
  <2>5. QED
    BY <2>2, <2>3, <2>4
<1>7. QED
  BY <1>1, <1>4, <1>5, <1>6

LEMMA TriedThen ==
    ASSUME NEW p, NEW r, IsList(r)
    PROVE  /\ (<<<<"write", p>>, <<"note", p>>, <<"reskill", p>>, <<"note", p>>>> \o <<<<"end", {}>>>>) \o r
                 = Then(<<"write", p>>, Then(<<"note", p>>, Then(<<"reskill", p>>, Then(<<"note", p>>, Then(End, r)))))
           /\ <<<<"unwrite", p>>, <<"delete", <<p, TRUE>>>>, <<"drop", p>>, <<"raise", p>>>> \o r = ToUnwrite(p, r)
<1> DEFINE body == <<<<"write", p>>, <<"note", p>>, <<"reskill", p>>, <<"note", p>>>>
           S == {<<"write", p>>, <<"note", p>>, <<"reskill", p>>}
<1>1. body \in Seq(S)
  OBVIOUS
<1>2. (body \o <<End>>) \o r = body \o Then(End, r)
  <2>1. \A T : \A t \in Seq(T) : (t \o <<End>>) \o r = t \o Then(End, r)
    BY BodyThen
  <2> HIDE DEF body, S
  <2>2. QED
    BY <1>1, <2>1
<1>3. body \o Then(End, r)
        = Then(<<"write", p>>, Then(<<"note", p>>, Then(<<"reskill", p>>, Then(<<"note", p>>, Then(End, r)))))
  <2>1. \A a, b, c, d : <<a, b, c, d>> \o Then(End, r) = Then(a, Then(b, Then(c, Then(d, Then(End, r)))))
    BY ThenList, StepsThen
  <2>2. QED
    BY <2>1, Zenon
<1>4. \A a, b, c, d : <<a, b, c, d>> \o r = Then(a, Then(b, Then(c, Then(d, r))))
  BY StepsThen
<1>5. <<<<"unwrite", p>>, <<"delete", <<p, TRUE>>>>, <<"drop", p>>, <<"raise", p>>>> \o r = ToUnwrite(p, r)
  BY <1>4, Zenon DEF ToUnwrite, ToDelete, ToDrop
<1>6. (body \o <<<<"end", {}>>>>) \o r = (body \o <<End>>) \o r
  BY DEF End
<1>7. QED
  BY <1>2, <1>3, <1>5, <1>6

LEMMA WritesPresetStep ==
    ASSUME Types, Step, NEW p \in Presets, NEW z, IsList(z), NEW H, IsList(H), WritesPreset(p, z, H)
    PROVE  Types' /\ (Died \/ MakingGoesOn(p, z, H))
<1> DEFINE Out == Types' /\ (Died \/ MakingGoesOn(p, z, H))
           noting(r) == Then(<<"note", p>>, Then(End, r))
           reskilling(r) == Then(<<"reskill", p>>, noting(r))
<1>1. PICK r \in Rests(z) :
       /\ p \in Usable /\ Fresh
       /\ \/ todo = Then(Writing(p), r) /\ handlers = H
          \/ /\ handlers = Then(ToUnwrite(p, r), H)
             /\ todo \in {Then(<<"write", p>>, Then(<<"note", p>>, reskilling(r))),
                          Then(<<"note", p>>, reskilling(r)), reskilling(r), noting(r), Then(End, r)}
  BY DEF WritesPreset
<1>2. /\ IsList(r) /\ IsList(Then(End, r)) /\ IsList(noting(r)) /\ IsList(reskilling(r))
      /\ IsList(Then(<<"note", p>>, reskilling(r)))
  BY RestsAreLists, ThenList
<1>3. p \in Components
  BY DEF Components
<1>4. ASSUME Still, Kept, Steady, Types'
      PROVE  Fresh' /\ p \in Usable' /\ Only(p)
  BY <1>1, <1>3, <1>4, Annotated, AllAlike, StillOnly
<1>5. ASSUME Still, Kept, Steady, Types', handlers' = Then(ToUnwrite(p, r), H),
             todo' \in {Then(<<"write", p>>, Then(<<"note", p>>, reskilling(r))),
                        Then(<<"note", p>>, reskilling(r)), reskilling(r), noting(r), Then(End, r)}
      PROVE  MakingGoesOn(p, z, H)
  <2>1. WritesPreset(p, z, H)'
    BY <1>4, <1>5 DEF WritesPreset
  <2>2. QED
    BY <1>4, <1>5, <2>1 DEF MakingGoesOn, Making
<1>6. CASE todo = Then(Writing(p), r) /\ handlers = H
  <2>1. Head(todo) = Writing(p) /\ Tail(todo) = r
    BY <1>2, <1>6, ThenList
  <2> DEFINE body == <<<<"write", p>>, <<"note", p>>, <<"reskill", p>>, <<"note", p>>>>
             handler == <<<<"unwrite", p>>, <<"delete", <<p, TRUE>>>>, <<"drop", p>>, <<"raise", p>>>>
  <2>2. Head(todo) = <<"try", <<body, handler>>>>
    BY <2>1 DEF Writing
  <2>3. /\ (body \o <<<<"end", {}>>>>) \o r = Then(<<"write", p>>, Then(<<"note", p>>, reskilling(r)))
        /\ handler \o r = ToUnwrite(p, r)
    BY <1>2, TriedThen
  <2> HIDE DEF body, handler
  <2>4. Types' /\ (Died \/ (/\ Still /\ Kept /\ Steady
                            /\ todo' = (body \o <<<<"end", {}>>>>) \o Tail(todo)
                            /\ handlers' = <<handler \o Tail(todo)>> \o handlers))
    BY <2>2, TryStep
  <2>5. QED
    BY <1>5, <1>6, <2>1, <2>3, <2>4 DEF Then
<1>7. ASSUME handlers = Then(ToUnwrite(p, r), H),
             Still, Kept, Steady, Types', Threw
      PROVE  MakingGoesOn(p, z, H)
  <2>1. IsList(ToUnwrite(p, r)) /\ handlers # <<>> /\ Head(handlers) = ToUnwrite(p, r) /\ Tail(handlers) = H
    BY <1>2, <1>7, ThenList DEF ToUnwrite, ToDelete, ToDrop
  <2>2. UnmakesPreset(p, z, H)'
    BY <1>4, <1>7, <2>1 DEF Threw, UnmakesPreset
  <2>3. QED
    BY <1>4, <1>7, <2>2 DEF MakingGoesOn, Making
<1>8. CASE handlers = Then(ToUnwrite(p, r), H) /\ todo = Then(<<"write", p>>, Then(<<"note", p>>, reskilling(r)))
  <2>1. Head(todo) = <<"write", p>> /\ Tail(todo) = Then(<<"note", p>>, reskilling(r))
    BY <1>2, <1>8, ThenList
  <2>2. Types' /\ (Died \/ (Still /\ Kept /\ Steady /\ (Threw \/ Went)))
    BY <2>1, WriteStep
  <2>3. QED
    BY <1>5, <1>7, <1>8, <2>1, <2>2 DEF Went
<1>9. CASE handlers = Then(ToUnwrite(p, r), H) /\ todo = Then(<<"note", p>>, reskilling(r))
  <2>1. Head(todo) = <<"note", p>> /\ Tail(todo) = reskilling(r)
    BY <1>2, <1>9, ThenList
  <2>2. Types' /\ (Died \/ (Still /\ Kept /\ Steady /\ (Threw \/ Went)))
    BY <2>1, NoteStep
  <2>3. QED
    BY <1>5, <1>7, <1>9, <2>1, <2>2 DEF Went
<1>10. CASE handlers = Then(ToUnwrite(p, r), H) /\ todo = reskilling(r)
  <2>1. Head(todo) = <<"reskill", p>> /\ Tail(todo) = noting(r)
    BY <1>2, <1>10, ThenList
  <2>2. Types' /\ (Died \/ (Still /\ Kept /\ Steady /\ (Threw \/ Went)))
    BY <2>1, ReskillStep
  <2>3. QED
    BY <1>5, <1>7, <1>10, <2>1, <2>2 DEF Went
<1>11. CASE handlers = Then(ToUnwrite(p, r), H) /\ todo = noting(r)
  <2>1. Head(todo) = <<"note", p>> /\ Tail(todo) = Then(End, r)
    BY <1>2, <1>11, ThenList
  <2>2. Types' /\ (Died \/ (Still /\ Kept /\ Steady /\ (Threw \/ Went)))
    BY <2>1, NoteStep
  <2>3. QED
    BY <1>5, <1>7, <1>11, <2>1, <2>2 DEF Went
<1>12. CASE handlers = Then(ToUnwrite(p, r), H) /\ todo = Then(End, r)
  <2>1. IsList(ToUnwrite(p, r))
    BY <1>2, ThenList DEF ToUnwrite, ToDelete, ToDrop
  <2>2. Head(todo) = End /\ Tail(todo) = r /\ Tail(handlers) = H
    BY <1>2, <1>12, <2>1, ThenList
  <2>3. Head(todo)[1] = "end"
    BY <2>2 DEF End
  <2>4. Types' /\ (Died \/ (Still /\ Kept /\ Steady /\ todo' = r /\ handlers' = H))
    BY <2>2, <2>3, EndStep
  <2>5. ASSUME Still, Kept, Steady, Types', todo' = r, handlers' = H
        PROVE  MakingGoesOn(p, z, H)
    <3>1. Reconciles(z, H)'
      BY <2>5 DEF Reconciles
    <3>2. QED
      BY <1>4, <2>5, <3>1 DEF MakingGoesOn, Making
  <2>6. QED
    BY <2>4, <2>5
<1>13. QED
  BY <1>1, <1>6, <1>8, <1>9, <1>10, <1>11, <1>12

LEMMA UnmakesPresetStep ==
    ASSUME Types, Step, NEW p \in Presets, NEW z, IsList(z), NEW H, IsList(H), UnmakesPreset(p, z, H)
    PROVE  Types' /\ (Died \/ MakingGoesOn(p, z, H))
<1> DEFINE Out == Types' /\ (Died \/ MakingGoesOn(p, z, H))
<1>1. PICK r \in Rests(z) :
       /\ handlers = H
       /\ \/ todo = ToUnwrite(p, r) /\ Fresh
          \/ (\E names \in SUBSET Names : todo = Then(<<"unskill", names>>, ToDelete(p, r))) /\ Failing
          \/ todo = ToDelete(p, r) /\ Failing
          \/ todo = ToDrop(p, r) /\ Failing /\ Gone(p)
          \/ todo = Then(<<"raise", p>>, r) /\ Failing /\ Gone(p)
  BY DEF UnmakesPreset
<1>2. /\ IsList(r) /\ IsList(Then(<<"raise", p>>, r)) /\ IsList(ToDrop(p, r)) /\ IsList(ToDelete(p, r))
  BY RestsAreLists, ThenList DEF ToDrop, ToDelete
<1>3. p \in Components
  BY DEF Components
<1>4. ASSUME UnmakesPreset(p, z, H)', Types', Only(p), Kept
      PROVE  Out
  BY <1>4 DEF MakingGoesOn, Making
<1>5. ASSUME Threw, Types', Only(p), Kept, Gone(p)', Failing'
      PROVE  Out
  BY <1>1, <1>5, ThrewTop DEF MakingGoesOn
<1>6. CASE todo = ToUnwrite(p, r) /\ Fresh
  <2>1. Head(todo) = <<"unwrite", p>> /\ Tail(todo) = ToDelete(p, r)
    BY <1>2, <1>6, ThenList DEF ToUnwrite
  <2>2. /\ Types'
        /\ Died \/ (/\ Still /\ Kept /\ faults' = faults
                    /\ job'.op = "install" => job.op = "install" /\ job'.unwound = faults + 1
                    /\ \E names \in SUBSET Names : Put(<<<<"unskill", names>>>>))
    BY <2>1, UnwriteStep
  <2>3. ASSUME Types', Still, Kept, faults' = faults,
               job'.op = "install" => job.op = "install" /\ job'.unwound = faults + 1,
               NEW names \in SUBSET Names, Put(<<<<"unskill", names>>>>)
        PROVE  Out
    <3>1. faults \in Nat
      BY DEF Types
    <3>2. Failing'
      BY <2>3, <3>1 DEF Failing
    <3>3. todo' = Then(<<"unskill", names>>, ToDelete(p, r)) /\ handlers' = H
      BY <1>1, <2>1, <2>3 DEF Put, Then
    <3>4. UnmakesPreset(p, z, H)'
      BY <3>2, <3>3 DEF UnmakesPreset
    <3>5. QED
      BY <1>4, <2>3, <3>4, StillOnly
  <2>4. QED
    BY <2>2, <2>3
<1>7. ASSUME NEW names \in SUBSET Names, todo = Then(<<"unskill", names>>, ToDelete(p, r)), Failing
      PROVE  Out
  <2>1. Head(todo) = <<"unskill", names>> /\ Tail(todo) = ToDelete(p, r)
    BY <1>2, <1>7, ThenList
  <2>2. Head(todo)[1] = "unskill"
    BY <2>1
  <2>3. Types' /\ (Died \/ (Still /\ Kept /\ Steady /\ (Failed \/ Went)))
    BY <2>2, FileStep
  <2>4. ASSUME Types', Still, Kept, Steady
        PROVE  Failing' /\ (faults' # faults => Spoilt') /\ Only(p)
    BY <1>7, <2>4, Annotated, StillOnly
  <2>5. CASE Types' /\ Still /\ Kept /\ Steady /\ Went
    <3>1. UnmakesPreset(p, z, H)'
      BY <1>1, <2>1, <2>4, <2>5 DEF UnmakesPreset, Went
    <3>2. QED
      BY <1>4, <2>4, <2>5, <3>1
  <2>6. CASE Types' /\ Still /\ Kept /\ Steady /\ Failed
    <3>1. faults' # faults
      BY <2>6 DEF Failed, Types
    <3>2. Gone(p)'
      BY <2>4, <2>6, <3>1 DEF Gone
    <3>3. QED
      BY <1>5, <2>4, <2>6, <3>2 DEF Failed
  <2>7. QED
    BY <2>3, <2>5, <2>6
<1>8. CASE todo = ToDelete(p, r) /\ Failing
  <2>1. Head(todo) = <<"delete", <<p, TRUE>>>> /\ Tail(todo) = ToDrop(p, r)
    BY <1>2, <1>8, ThenList DEF ToDelete
  <2>2. /\ Types'
        /\ Died \/ (Works(p) /\ pdir'[p] # "whole" /\ Went)
    BY <2>1, PresetDelete
  <2>3. CASE Types' /\ Works(p) /\ pdir'[p] # "whole" /\ Went
    <3>1. ~Installed(p)'
      BY <2>3, KindsAfter DEF ByKind
    <3>2. Failing' /\ Gone(p)'
      BY <1>8, <2>3, <3>1, Annotated DEF Works, Gone
    <3>3. UnmakesPreset(p, z, H)'
      BY <1>1, <2>1, <2>3, <3>2 DEF UnmakesPreset, Went
    <3>4. QED
      BY <1>4, <2>3, <3>3 DEF Works
  <2>4. QED
    BY <2>2, <2>3
<1>9. CASE todo = ToDrop(p, r) /\ Failing /\ Gone(p)
  <2>1. Head(todo) = <<"drop", p>> /\ Tail(todo) = Then(<<"raise", p>>, r)
    BY <1>2, <1>9, ThenList DEF ToDrop
  <2>2. /\ Types'
        /\ Died \/ (/\ Works(p) /\ pdir' = pdir
                    /\ (Went /\ ~preg'[p].in) \/ (Failed /\ preg' = preg))
    BY <2>1, PresetDrop
  <2>3. CASE Types' /\ Works(p) /\ pdir' = pdir /\ ((Went /\ ~preg'[p].in) \/ (Failed /\ preg' = preg))
    <3>1. Installed(p)' => Installed(p)
      BY <2>3, Kinds, KindsAfter DEF ByKind
    <3>2. Failing' /\ Gone(p)'
      BY <1>9, <2>3, <3>1, Annotated DEF Works
    <3>3. Went => UnmakesPreset(p, z, H)'
      BY <1>1, <2>1, <2>3, <3>2 DEF UnmakesPreset, Went
    <3>4. QED
      BY <1>4, <1>5, <2>3, <3>2, <3>3 DEF Works, Failed
  <2>4. QED
    BY <2>2, <2>3
<1>10. CASE todo = Then(<<"raise", p>>, r) /\ Failing /\ Gone(p)
  <2>1. Head(todo) = <<"raise", p>>
    BY <1>2, <1>10, ThenList
  <2>2. Head(todo)[1] = "raise"
    BY <2>1
  <2>3. Types' /\ (Died \/ (Still /\ Kept /\ Steady /\ Threw))
    BY <2>2, RaiseStep
  <2>4. CASE Types' /\ Still /\ Kept /\ Steady /\ Threw
    <3>1. Failing' /\ Gone(p)'
      BY <1>3, <1>10, <2>4, Annotated, AllAlike
    <3>2. QED
      BY <1>5, <2>4, <3>1, StillOnly
  <2>5. QED
    BY <2>3, <2>4
<1>11. QED
  BY <1>1, <1>6, <1>7, <1>8, <1>9, <1>10

\* The other kinds.
LEMMA MakesOthersStep ==
    ASSUME Types, Step, NEW c, NEW z, IsList(z), NEW H, IsList(H),
           \/ c = Extension /\ todo = Then(<<"extend", TRUE>>, z) /\ handlers = H /\ Fresh /\ New(c)
           \/ c \in Workflows /\ MakesWorkflow(c, z, H)
           \/ c \in StepTypes /\ MakesStepType(c, z, H)
    PROVE  Types' /\ (Died \/ MakingGoesOn(c, z, H))
<1> DEFINE Out == Types' /\ (Died \/ MakingGoesOn(c, z, H))
<1>1. handlers = H /\ Fresh /\ New(c)
  BY DEF MakesWorkflow, MakesStepType
<1>2. ASSUME Types', Works(c)
      PROVE  /\ Fresh' /\ Only(c) /\ Kept
             /\ (Installed(c)' => Installed(c)) => New(c)'
  BY <1>1, <1>2, Annotated DEF Works
<1>3. ASSUME Types', Works(c), Threw, Installed(c)' => Installed(c)
      PROVE  Out
  <2>1. Gone(c)'
    BY <1>2, <1>3 DEF Gone
  <2>2. QED
    BY <1>1, <1>2, <1>3, <2>1, ThrewTop DEF MakingGoesOn
<1>4. ASSUME Types', Works(c), todo' = z, handlers' = H, c \in Usable'
      PROVE  Out
  <2>1. Reconciles(z, H)'
    BY <1>4 DEF Reconciles, Rests
  <2>2. QED
    BY <1>2, <1>4, <2>1 DEF MakingGoesOn, Making
<1>5. CASE c = Extension /\ todo = Then(<<"extend", TRUE>>, z)
  <2>1. Head(todo) = <<"extend", TRUE>> /\ Tail(todo) = z
    BY <1>5, ThenList
  <2>2. /\ Types'
        /\ Died \/ (/\ Works(c)
                    /\ (Went /\ ext' = TRUE) \/ (Threw /\ ext' = ext))
    BY <1>5, <2>1, ExtendStep
  <2>3. CASE Types' /\ Works(c) /\ Went /\ ext' = TRUE
    <3>1. c \in Usable'
      BY <1>5, <2>3, KindsAfter DEF ByKind
    <3>2. QED
      BY <1>1, <1>4, <2>1, <2>3, <3>1 DEF Went
  <2>4. CASE Types' /\ Works(c) /\ Threw /\ ext' = ext
    <3>1. Installed(c)' => Installed(c)
      BY <1>5, <2>4, Kinds, KindsAfter DEF ByKind
    <3>2. QED
      BY <1>3, <2>4, <3>1
  <2>5. QED
    BY <2>2, <2>3, <2>4
<1>6. IsList(Then(<<"enter_workflow", c>>, z)) /\ IsList(Then(<<"enter_step", c>>, z))
  BY ThenList
<1>7. CASE /\ c \in Workflows
           /\ \/ todo = Then(<<"fetch_workflow", c>>, Then(<<"enter_workflow", c>>, z))
              \/ todo = Then(<<"copy_workflow", c>>, Then(<<"enter_workflow", c>>, z))
  <2>1. /\ Head(todo) = <<"fetch_workflow", c>> \/ Head(todo) = <<"copy_workflow", c>>
        /\ Tail(todo) = Then(<<"enter_workflow", c>>, z)
    BY <1>6, <1>7, ThenList
  <2>2. /\ Types'
        /\ Died \/ (/\ Works(c) /\ wreg' = wreg
                    /\ (Went /\ wdir'[c] = "whole") \/ Failed)
    BY <1>7, <2>1, WorkflowFetched
  <2>3. CASE Types' /\ Works(c) /\ wreg' = wreg /\ ((Went /\ wdir'[c] = "whole") \/ Failed)
    <3>1. Installed(c)' => Installed(c)
      BY <1>7, <2>3, Kinds, KindsAfter DEF ByKind
    <3>2. CASE Went /\ wdir'[c] = "whole"
      <4>1. MakesWorkflow(c, z, H)'
        BY <1>1, <1>2, <2>1, <2>3, <3>1, <3>2 DEF MakesWorkflow, Went
      <4>2. QED
        BY <1>2, <1>7, <2>3, <4>1 DEF MakingGoesOn, Making
    <3>3. QED
      BY <1>3, <2>3, <3>1, <3>2 DEF Failed
  <2>4. QED
    BY <2>2, <2>3
<1>8. CASE c \in Workflows /\ todo = Then(<<"enter_workflow", c>>, z) /\ wdir[c] = "whole"
  <2>1. Head(todo) = <<"enter_workflow", c>> /\ Tail(todo) = z
    BY <1>8, ThenList
  <2>2. /\ Types'
        /\ Died \/ (/\ Works(c) /\ wdir' = wdir
                    /\ (Went /\ c \in wreg') \/ (Failed /\ wreg' = wreg))
    BY <1>8, <2>1, WorkflowEntered
  <2>3. CASE Types' /\ Works(c) /\ wdir' = wdir /\ Went /\ c \in wreg'
    <3>1. c \in Usable'
      BY <1>8, <2>3, KindsAfter DEF ByKind
    <3>2. QED
      BY <1>1, <1>4, <2>1, <2>3, <3>1 DEF Went
  <2>4. CASE Types' /\ Works(c) /\ Failed /\ wreg' = wreg
    <3>1. Installed(c)' => Installed(c)
      BY <1>8, <2>4, Kinds, KindsAfter DEF ByKind
    <3>2. QED
      BY <1>3, <2>4, <3>1 DEF Failed
  <2>5. QED
    BY <2>2, <2>3, <2>4
<1>9. CASE c \in StepTypes /\ todo = Then(<<"fetch_step", c>>, Then(<<"enter_step", c>>, z))
  <2>1. Head(todo) = <<"fetch_step", c>> /\ Tail(todo) = Then(<<"enter_step", c>>, z)
    BY <1>6, <1>9, ThenList
  <2>2. /\ Types'
        /\ Died \/ (/\ Works(c) /\ sreg' = sreg
                    /\ (Went /\ sdir'[c] = "whole") \/ Threw)
    BY <1>9, <2>1, StepTypeFetched
  <2>3. CASE Types' /\ Works(c) /\ sreg' = sreg /\ ((Went /\ sdir'[c] = "whole") \/ Threw)
    <3>1. Installed(c)' => Installed(c)
      BY <1>9, <2>3, Kinds, KindsAfter DEF ByKind
    <3>2. CASE Went /\ sdir'[c] = "whole"
      <4>1. MakesStepType(c, z, H)'
        BY <1>1, <1>2, <2>1, <2>3, <3>1, <3>2 DEF MakesStepType, Went
      <4>2. QED
        BY <1>2, <1>9, <2>3, <4>1 DEF MakingGoesOn, Making
    <3>3. QED
      BY <1>3, <2>3, <3>1, <3>2
  <2>4. QED
    BY <2>2, <2>3
<1>10. CASE c \in StepTypes /\ todo = Then(<<"enter_step", c>>, z) /\ sdir[c] = "whole"
  <2>1. Head(todo) = <<"enter_step", c>> /\ Tail(todo) = z
    BY <1>10, ThenList
  <2>2. /\ Types'
        /\ Died \/ (/\ Works(c)
                    /\ (Went /\ c \in sreg' /\ sdir' = sdir) \/ (Failed /\ sreg' = sreg))
    BY <1>10, <2>1, StepTypeEntered
  <2>3. CASE Types' /\ Works(c) /\ sdir' = sdir /\ Went /\ c \in sreg'
    <3>1. c \in Usable'
      BY <1>10, <2>3, KindsAfter DEF ByKind
    <3>2. QED
      BY <1>1, <1>4, <2>1, <2>3, <3>1 DEF Went
  <2>4. CASE Types' /\ Works(c) /\ Failed /\ sreg' = sreg
    <3>1. Installed(c)' => Installed(c)
      BY <1>10, <2>4, Kinds, KindsAfter DEF ByKind
    <3>2. QED
      BY <1>3, <2>4, <3>1 DEF Failed
  <2>5. QED
    BY <2>2, <2>3, <2>4
<1>11. QED
  BY <1>5, <1>7, <1>8, <1>9, <1>10 DEF MakesWorkflow, MakesStepType

LEMMA MakingStep ==
    ASSUME Types, Step, NEW c \in Components, NEW z, IsList(z), NEW H, IsList(H), Making(c, z, H),
           ~(todo = z /\ handlers = H)
    PROVE  Types' /\ (Died \/ MakingGoesOn(c, z, H))
<1>1. CASE c \in Presets /\ (EntersPreset(c, z, H) \/ WritesPreset(c, z, H) \/ UnmakesPreset(c, z, H))
  BY <1>1, EntersPresetStep, WritesPresetStep, UnmakesPresetStep
<1>2. CASE \/ c = Extension /\ todo = Then(<<"extend", TRUE>>, z) /\ handlers = H /\ Fresh /\ New(c)
           \/ c \in Workflows /\ MakesWorkflow(c, z, H)
           \/ c \in StepTypes /\ MakesStepType(c, z, H)
  BY <1>2, MakesOthersStep
<1>3. CASE Reconciles(z, H) /\ Fresh /\ c \in Usable
  <2>1. Types' /\ (Died \/ (Still /\ Kept /\ Steady /\ Reconciles(z, H)'))
    BY <1>3, ReconcilesStep
  <2>2. ASSUME Types', Still, Kept, Steady
        PROVE  Fresh' /\ c \in Usable' /\ Only(c)
    BY <1>3, <2>2, Annotated, AllAlike, StillOnly
  <2>3. QED
    BY <2>1, <2>2 DEF MakingGoesOn, Making
<1>4. QED
  BY <1>1, <1>2, <1>3 DEF Making

\* A component that is there stays there; a workflow that is downloaded again may
\* be lost when that fails.
LEMMA RefreshingStep ==
    ASSUME Types, Step, NEW c \in Components, NEW z, IsList(z), NEW H, IsList(H), Refreshing(c, z, H), todo # z
    PROVE  Types' /\ (Died \/ RefreshingGoesOn(c, z, H))
<1> DEFINE Out == Types' /\ (Died \/ RefreshingGoesOn(c, z, H))
<1>1. handlers = H /\ Fresh /\ Installed(c)
  BY DEF Refreshing
<1>2. ASSUME Types', Works(c), Installed(c)', c \in Usable => c \in Usable' \/ faults' # faults, Threw
      PROVE  Out
  <2>1. Fresh' /\ Only(c) /\ Kept
    BY <1>1, <1>2, Annotated DEF Works
  <2>2. ThrewTo(H)
    BY <1>1, <1>2, <2>1, ThrewTop
  <2>3. QED
    BY <1>2, <2>1, <2>2 DEF RefreshingGoesOn
<1>3. ASSUME Types', Works(c), Installed(c)', c \in Usable => c \in Usable' \/ faults' # faults, handlers' = H,
             \/ todo' = z
             \/ c \in Workflows /\ todo' = Then(<<"enter_workflow", c>>, z)
      PROVE  Out
  <2>1. Fresh' /\ Only(c) /\ Kept
    BY <1>1, <1>3, Annotated DEF Works
  <2>2. Refreshing(c, z, H)'
    BY <1>3, <2>1 DEF Refreshing
  <2>3. QED
    BY <1>3, <2>1, <2>2 DEF RefreshingGoesOn
<1>4. ASSUME c \in Presets, NEW prio \in Priorities, todo = Then(<<"check", <<c, prio>>>>, z)
      PROVE  Out
  <2>1. Head(todo) = <<"check", <<c, prio>>>>
    BY <1>4, ThenList
  <2>2. preg[c].in
    BY <1>1, <1>4, Kinds DEF ByKind
  <2>3. Types' /\ (Died \/ (Still /\ Kept /\ Steady /\ Threw))
    BY <1>4, <2>1, <2>2, CheckStep
  <2>4. CASE Types' /\ Still /\ Kept /\ Steady /\ Threw
    <3>1. Works(c) /\ Installed(c)' /\ (c \in Usable => c \in Usable')
      BY <1>1, <2>4, AllAlike, StillOnly DEF Works
    <3>2. QED
      BY <1>2, <2>4, <3>1
  <2>5. QED
    BY <2>3, <2>4
<1>5. CASE c = Extension /\ todo = Then(<<"extend", TRUE>>, z)
  <2>1. Head(todo) = <<"extend", TRUE>> /\ Tail(todo) = z
    BY <1>5, ThenList
  <2>2. ext = TRUE
    BY <1>1, <1>5, Kinds DEF ByKind, Types
  <2>3. Types' /\ (Died \/ (Works(c) /\ ext' = TRUE /\ (Went \/ Threw)))
    BY <1>5, <2>1, <2>2, ExtendStep
  <2>4. CASE Types' /\ Works(c) /\ ext' = TRUE /\ (Went \/ Threw)
    <3>1. Installed(c)' /\ c \in Usable'
      BY <1>5, <2>4, KindsAfter DEF ByKind
    <3>2. QED
      BY <1>1, <1>2, <1>3, <2>1, <2>4, <3>1 DEF Went
  <2>5. QED
    BY <2>3, <2>4
<1>6. CASE c \in Workflows /\ todo = Then(<<"fetch_workflow", c>>, Then(<<"enter_workflow", c>>, z))
  <2>1. Head(todo) = <<"fetch_workflow", c>> /\ Tail(todo) = Then(<<"enter_workflow", c>>, z)
    BY <1>6, ThenList
  <2>2. /\ Types'
        /\ Died \/ (/\ Works(c) /\ wreg' = wreg
                    /\ (Went /\ wdir'[c] = "whole") \/ Failed)
    BY <1>6, <2>1, WorkflowFetched
  <2>3. CASE Types' /\ Works(c) /\ wreg' = wreg /\ ((Went /\ wdir'[c] = "whole") \/ Failed)
    <3>1. Installed(c)'
      BY <1>1, <1>6, <2>3, Kinds, KindsAfter DEF ByKind
    <3>2. CASE Went /\ wdir'[c] = "whole"
      <4>1. c \in Usable'
        BY <1>1, <1>6, <2>3, <3>2, Kinds, KindsAfter DEF ByKind
      <4>2. QED
        BY <1>1, <1>3, <1>6, <2>1, <2>3, <3>1, <3>2, <4>1 DEF Went
    <3>3. CASE Failed
      BY <1>2, <2>3, <3>1, <3>3 DEF Failed, Types
    <3>4. QED
      BY <2>3, <3>2, <3>3
  <2>4. QED
    BY <2>2, <2>3
<1>7. CASE c \in Workflows /\ todo = Then(<<"enter_workflow", c>>, z)
  <2>1. Head(todo) = <<"enter_workflow", c>> /\ Tail(todo) = z
    BY <1>7, ThenList
  <2>2. /\ Types'
        /\ Died \/ (/\ Works(c) /\ wdir' = wdir
                    /\ (Went /\ c \in wreg') \/ (Failed /\ wreg' = wreg))
    BY <1>7, <2>1, WorkflowEntered
  <2>3. CASE Types' /\ Works(c) /\ wdir' = wdir /\ ((Went /\ c \in wreg') \/ (Failed /\ wreg' = wreg))
    <3>1. Installed(c)' /\ (c \in Usable => c \in Usable')
      BY <1>1, <1>7, <2>3, Kinds, KindsAfter DEF ByKind
    <3>2. QED
      BY <1>1, <1>2, <1>3, <2>1, <2>3, <3>1 DEF Went, Failed
  <2>4. QED
    BY <2>2, <2>3
<1>8. CASE c \in StepTypes /\ todo = Then(<<"fetch_step", c>>, Then(<<"enter_step", c>>, z))
  <2>1. Head(todo) = <<"fetch_step", c>>
    BY <1>8, ThenList
  <2>2. c \in sreg
    BY <1>1, <1>8, Kinds DEF ByKind
  <2>3. Types' /\ (Died \/ (Works(c) /\ sreg' = sreg /\ sdir' = sdir /\ Threw))
    BY <1>8, <2>1, <2>2, StepTypeFetched
  <2>4. CASE Types' /\ Works(c) /\ sreg' = sreg /\ sdir' = sdir /\ Threw
    <3>1. Installed(c)' /\ (c \in Usable => c \in Usable')
      BY <1>1, <1>8, <2>4, Kinds, KindsAfter DEF ByKind
    <3>2. QED
      BY <1>2, <2>4, <3>1
  <2>5. QED
    BY <2>3, <2>4
<1>9. QED
  BY <1>4, <1>5, <1>6, <1>7, <1>8 DEF Refreshing

\* The steps s before z are t.
Gives(s, z, t) == s \o z = t

LEMMA RemovedThen ==
    ASSUME NEW others \in SUBSET Names, NEW z, IsList(z)
    PROVE  \A a, b, c, d : Gives(<<a, b, c, d>> \o Reconcile(others), z,
                                  Then(a, Then(b, Then(c, Then(d, RestOf(others, z))))))
<1>1. TAKE a, b, c, d
<1> DEFINE S == {a, b, c, d}
           s == <<a, b, c, d>>
           r == RestOf(others, z)
<1>2. s \in Seq(S)
  OBVIOUS
<1>3. (s \o Reconcile(others)) \o z = s \o r
  <2>1. \A T : \A t \in Seq(T) : (t \o Reconcile(others)) \o z = t \o RestOf(others, z)
    BY ReconcileThen
  <2> HIDE DEF s, S
  <2>2. QED
    BY <1>2, <2>1
<1>4. IsList(r)
  BY RestsHave, RestsAreLists
<1> HIDE DEF r
<1>5. s \o r = Then(a, Then(b, Then(c, Then(d, r))))
  <2>1. \A u, v, w, x : <<u, v, w, x>> \o r = Then(u, Then(v, Then(w, Then(x, r))))
    BY <1>4, StepsThen
  <2>2. QED
    BY <2>1, Zenon
<1> HIDE DEF s
<1>6. (s \o Reconcile(others)) \o z = Then(a, Then(b, Then(c, Then(d, r))))
  BY <1>3, <1>5, Zenon
<1>7. Gives(s \o Reconcile(others), z, Then(a, Then(b, Then(c, Then(d, r)))))
  BY <1>6 DEF Gives
<1>8. QED
  BY <1>7 DEF s, r

LEMMA RemovesPresetStep ==
    ASSUME Types, Step, NEW p \in Presets, NEW z, IsList(z), NEW H, IsList(H), RemovesPreset(p, z, H), Failing
    PROVE  Types' /\ (Died \/ RemovingGoesOn(p, z, H))
<1> DEFINE Out == Types' /\ (Died \/ RemovingGoesOn(p, z, H))
           dropping(r) == Then(<<"drop", p>>, r)
           deleting(r) == Then(<<"delete", <<p, FALSE>>>>, dropping(r))
<1>1. PICK r \in Rests(z) :
       /\ handlers = H
       /\ \/ todo = Then(<<"remove", p>>, z)
          \/ \E names \in SUBSET Names : \E what :
                todo = Then(<<"unskill", names>>, Then(<<"unfile", what>>, deleting(r)))
          \/ \E what : todo = Then(<<"unfile", what>>, deleting(r))
          \/ todo = deleting(r)
          \/ todo = dropping(r) /\ Gone(p)
  BY DEF RemovesPreset
<1>2. /\ IsList(r) /\ IsList(dropping(r)) /\ IsList(deleting(r))
      /\ \A what : IsList(Then(<<"unfile", what>>, deleting(r)))
  BY RestsAreLists, ThenList
<1>3. p \in Components
  BY DEF Components
<1>4. ASSUME Types', Works(p)
      PROVE  Failing' /\ Only(p) /\ Kept /\ (faults' # faults => Gone(p)')
  BY <1>4, Annotated DEF Works, Gone
<1>5. ASSUME Types', Works(p), RemovesPreset(p, z, H)'
      PROVE  Out
  BY <1>4, <1>5 DEF RemovingGoesOn, Removing
<1>6. ASSUME Types', Works(p), Reconciles(z, H)', Gone(p)'
      PROVE  Out
  BY <1>4, <1>6 DEF RemovingGoesOn, Removing
<1>7. ASSUME Types', Works(p), Threw, Gone(p)'
      PROVE  Out
  <2>1. ThrewTo(H)
    BY <1>1, <1>4, <1>7, ThrewTop
  <2>2. QED
    BY <1>4, <1>7, <2>1 DEF RemovingGoesOn
<1>8. ASSUME Types', Works(p), Failed
      PROVE  Out
  BY <1>4, <1>7, <1>8 DEF Failed, Types
<1>9. CASE todo = Then(<<"remove", p>>, z)
  <2>1. Head(todo) = <<"remove", p>> /\ Tail(todo) = z
    BY <1>9, ThenList
  <2> DEFINE steps(names, what) == <<<<"unskill", names>>, <<"unfile", what>>, <<"delete", <<p, FALSE>>>>, <<"drop", p>>>>
  <2>2. /\ Types'
        /\ Died \/ (/\ Still /\ Kept /\ Steady
                    /\ \/ ~preg[p].in /\ Put(<<>>)
                       \/ \E names, others \in SUBSET Names : \E what : Put(steps(names, what) \o Reconcile(others)))
    BY <2>1, PresetRemove
  <2>3. CASE Types' /\ Still /\ Kept /\ Steady /\ ~preg[p].in /\ Put(<<>>)
    <3>1. ~Installed(p)'
      BY <2>3, KindsAfter DEF ByKind, Still
    <3>2. Gone(p)' /\ Works(p)
      BY <2>3, <3>1, Annotated, StillOnly DEF Gone, Works
    <3>3. <<>> \o z = z
      BY StepsThen
    <3>4. Reconciles(z, H)'
      BY <1>1, <2>1, <2>3, <3>3 DEF Put, Reconciles, Rests
    <3>5. QED
      BY <1>6, <2>3, <3>2, <3>4
  <2>4. ASSUME Types', Still, Kept, Steady, NEW names \in SUBSET Names, NEW others \in SUBSET Names, NEW what,
               Put(steps(names, what) \o Reconcile(others))
        PROVE  Out
    <3>1. \A a, b, c, d : \E q \in Rests(z) :
             Gives(<<a, b, c, d>> \o Reconcile(others), z, Then(a, Then(b, Then(c, Then(d, q)))))
      BY RemovedThen, RestsHave
    <3>2. PICK q \in Rests(z) : Gives(steps(names, what) \o Reconcile(others), z,
                                     Then(<<"unskill", names>>, Then(<<"unfile", what>>, deleting(q))))
      BY <3>1, Zenon
    <3> HIDE DEF steps
    <3>6. todo' = Then(<<"unskill", names>>, Then(<<"unfile", what>>, deleting(q))) /\ handlers' = H
      BY <1>1, <2>1, <2>4, <3>2 DEF Put, Gives
    <3>7. RemovesPreset(p, z, H)'
      BY <3>6 DEF RemovesPreset
    <3>8. Works(p)
      BY <2>4, StillOnly DEF Works
    <3>9. QED
      BY <1>5, <2>4, <3>7, <3>8
  <2> HIDE DEF steps
  <2>5. QED
    BY <2>2, <2>3, <2>4
<1>10. ASSUME NEW names, NEW what, todo = Then(<<"unskill", names>>, Then(<<"unfile", what>>, deleting(r)))
       PROVE  Out
  <2>1. Head(todo) = <<"unskill", names>> /\ Tail(todo) = Then(<<"unfile", what>>, deleting(r))
    BY <1>2, <1>10, ThenList
  <2>2. Head(todo)[1] = "unskill"
    BY <2>1
  <2>3. Types' /\ (Died \/ (Still /\ Kept /\ Steady /\ (Failed \/ Went)))
    BY <2>2, FileStep
  <2>4. CASE Types' /\ Still /\ Kept /\ Steady /\ (Failed \/ Went)
    <3>1. Works(p)
      BY <2>4, StillOnly DEF Works
    <3>2. Went => RemovesPreset(p, z, H)'
      BY <1>1, <2>1 DEF RemovesPreset, Went
    <3>3. QED
      BY <1>5, <1>8, <2>4, <3>1, <3>2
  <2>5. QED
    BY <2>3, <2>4
<1>11. ASSUME NEW what, todo = Then(<<"unfile", what>>, deleting(r))
       PROVE  Out
  <2>1. Head(todo) = <<"unfile", what>> /\ Tail(todo) = deleting(r)
    BY <1>2, <1>11, ThenList
  <2>2. Head(todo)[1] = "unfile"
    BY <2>1
  <2>3. Types' /\ (Died \/ (Still /\ Kept /\ Steady /\ (Failed \/ Went)))
    BY <2>2, FileStep
  <2>4. CASE Types' /\ Still /\ Kept /\ Steady /\ (Failed \/ Went)
    <3>1. Works(p)
      BY <2>4, StillOnly DEF Works
    <3>2. Went => RemovesPreset(p, z, H)'
      BY <1>1, <2>1 DEF RemovesPreset, Went
    <3>3. QED
      BY <1>5, <1>8, <2>4, <3>1, <3>2
  <2>5. QED
    BY <2>3, <2>4
<1>12. CASE todo = deleting(r)
  <2>1. Head(todo) = <<"delete", <<p, FALSE>>>> /\ Tail(todo) = dropping(r)
    BY <1>2, <1>12, ThenList
  <2>2. Types' /\ (Died \/ (Works(p) /\ pdir'[p] # "whole" /\ (Went \/ Failed)))
    BY <2>1, PresetDelete
  <2>3. CASE Types' /\ Works(p) /\ pdir'[p] # "whole" /\ (Went \/ Failed)
    <3>1. ~Installed(p)'
      BY <2>3, KindsAfter DEF ByKind
    <3>2. Gone(p)'
      BY <2>3, <3>1, Annotated DEF Gone, Works
    <3>3. Went => RemovesPreset(p, z, H)'
      BY <1>1, <2>1, <3>2 DEF RemovesPreset, Went
    <3>4. QED
      BY <1>5, <1>8, <2>3, <3>3
  <2>4. QED
    BY <2>2, <2>3
<1>13. CASE todo = dropping(r) /\ Gone(p)
  <2>1. Head(todo) = <<"drop", p>> /\ Tail(todo) = r
    BY <1>2, <1>13, ThenList
  <2>2. /\ Types'
        /\ Died \/ (Works(p) /\ pdir' = pdir /\ ((Went /\ ~preg'[p].in) \/ (Failed /\ preg' = preg)))
    BY <2>1, PresetDrop
  <2>3. CASE Types' /\ Works(p) /\ pdir' = pdir /\ ((Went /\ ~preg'[p].in) \/ (Failed /\ preg' = preg))
    <3>1. Installed(p)' => Installed(p)
      BY <2>3, Kinds, KindsAfter DEF ByKind
    <3>2. Gone(p)'
      BY <1>13, <2>3, <3>1, Annotated DEF Works
    <3>3. Went => Reconciles(z, H)'
      BY <1>1, <2>1 DEF Reconciles, Went
    <3>4. QED
      BY <1>6, <1>8, <2>3, <3>2, <3>3
  <2>4. QED
    BY <2>2, <2>3
<1>14. QED
  BY <1>1, <1>9, <1>10, <1>11, <1>12, <1>13

LEMMA RemovesWorkflowStep ==
    ASSUME Types, Step, NEW w \in Workflows, NEW z, IsList(z), NEW H, IsList(H), RemovesWorkflow(w, z, H), Failing
    PROVE  Types' /\ (Died \/ RemovingGoesOn(w, z, H))
<1> DEFINE Out == Types' /\ (Died \/ RemovingGoesOn(w, z, H))
<1>1. handlers = H
  BY DEF RemovesWorkflow
<1>2. ASSUME Types', Works(w)
      PROVE  Failing' /\ Only(w) /\ Kept /\ (faults' # faults => Gone(w)')
  BY <1>2, Annotated DEF Works, Gone
<1>3. ASSUME Types', Works(w), Threw, Gone(w)'
      PROVE  Out
  <2>1. ThrewTo(H)
    BY <1>1, <1>2, <1>3, ThrewTop
  <2>2. QED
    BY <1>2, <1>3, <2>1 DEF RemovingGoesOn
<1>4. ASSUME Types', Works(w), Failed
      PROVE  Out
  BY <1>2, <1>3, <1>4 DEF Failed, Types
<1>5. CASE todo = Then(<<"remove_workflow", w>>, z)
  <2>1. Head(todo) = <<"remove_workflow", w>> /\ Tail(todo) = z
    BY <1>5, ThenList
  <2>2. /\ Types'
        /\ Died \/ (/\ Works(w) /\ wreg' = wreg
                    /\ \/ Threw /\ w \notin wreg
                       \/ Failed
                       \/ Put(<<<<"drop_workflow", w>>>>))
    BY <2>1, WorkflowRemoved
  <2>3. CASE Types' /\ Works(w) /\ wreg' = wreg /\ Threw /\ w \notin wreg
    <3>1. ~Installed(w)'
      BY <2>3, KindsAfter DEF ByKind
    <3>2. Gone(w)'
      BY <2>3, <3>1, Annotated DEF Gone, Works
    <3>3. QED
      BY <1>3, <2>3, <3>2
  <2>4. CASE Types' /\ Works(w) /\ Put(<<<<"drop_workflow", w>>>>)
    <3>1. RemovesWorkflow(w, z, H)'
      BY <1>1, <2>1, <2>4 DEF Put, Then, RemovesWorkflow
    <3>2. QED
      BY <1>2, <2>4, <3>1 DEF RemovingGoesOn, Removing
  <2>5. QED
    BY <1>4, <2>2, <2>3, <2>4
<1>6. CASE todo = Then(<<"drop_workflow", w>>, z)
  <2>1. Head(todo) = <<"drop_workflow", w>> /\ Tail(todo) = z
    BY <1>6, ThenList
  <2>2. /\ Types'
        /\ Died \/ (Works(w) /\ ((Went /\ w \notin wreg') \/ Failed))
    BY <2>1, WorkflowDropped
  <2>3. CASE Types' /\ Works(w) /\ Went /\ w \notin wreg'
    <3>1. ~Installed(w)'
      BY <2>3, KindsAfter DEF ByKind
    <3>2. Gone(w)'
      BY <2>3, <3>1, Annotated DEF Gone, Works
    <3>3. Reconciles(z, H)'
      BY <1>1, <2>1, <2>3 DEF Went, Reconciles, Rests
    <3>4. QED
      BY <1>2, <2>3, <3>2, <3>3 DEF RemovingGoesOn, Removing
  <2>4. QED
    BY <1>4, <2>2, <2>3
<1>7. QED
  BY <1>5, <1>6 DEF RemovesWorkflow

LEMMA DeletingThen ==
    ASSUME NEW s, NEW z, IsList(z)
    PROVE  /\ (<<<<"delete_step", s>>>> \o <<<<"end", {}>>>>) \o z = Then(<<"delete_step", s>>, Then(End, z))
           /\ <<<<"relist_step", s>>, <<"raise", s>>>> \o z = Then(<<"relist_step", s>>, Then(<<"raise", s>>, z))
           /\ (<<<<"drop_step", s>>>> \o Try(<<<<"delete_step", s>>>>, <<<<"relist_step", s>>, <<"raise", s>>>>)) \o z
                = Then(<<"drop_step", s>>, Then(Deleting(s), z))
<1>1. ASSUME NEW a, NEW b
      PROVE  (<<a>> \o <<b>>) \o z = Then(a, Then(b, z))
  <2>1. <<a>> \in Seq({a})
    OBVIOUS
  <2>2. (<<a>> \o <<b>>) \o z = <<a>> \o Then(b, z)
    BY <2>1, BodyThen
  <2>3. QED
    BY <2>2 DEF Then
<1>2. (<<<<"delete_step", s>>>> \o <<End>>) \o z = Then(<<"delete_step", s>>, Then(End, z))
  BY <1>1
<1>3. \A a, b : <<a, b>> \o z = Then(a, Then(b, z))
  BY StepsThen
<1>4. <<<<"relist_step", s>>, <<"raise", s>>>> \o z = Then(<<"relist_step", s>>, Then(<<"raise", s>>, z))
  BY <1>3, Zenon
<1>5. (<<<<"drop_step", s>>>> \o <<Deleting(s)>>) \o z = Then(<<"drop_step", s>>, Then(Deleting(s), z))
  BY <1>1
<1>6. Try(<<<<"delete_step", s>>>>, <<<<"relist_step", s>>, <<"raise", s>>>>) = <<Deleting(s)>>
  BY DEF Try, Deleting
<1>7. QED
  BY <1>2, <1>4, <1>5, <1>6 DEF End

LEMMA RemovesStepTypeStep ==
    ASSUME Types, Step, NEW s \in StepTypes, NEW z, IsList(z), NEW H, IsList(H), RemovesStepType(s, z, H), Failing
    PROVE  Types' /\ (Died \/ RemovingGoesOn(s, z, H))
<1> DEFINE Out == Types' /\ (Died \/ RemovingGoesOn(s, z, H))
           relisting == Then(<<"relist_step", s>>, Then(<<"raise", s>>, z))
<1>1. IsList(Then(Deleting(s), z)) /\ IsList(Then(End, z)) /\ IsList(Then(<<"raise", s>>, z)) /\ IsList(relisting)
  BY ThenList
<1>2. s \in Components
  BY DEF Components
<1>3. ASSUME Types', Works(s)
      PROVE  /\ Failing' /\ Only(s) /\ Kept
             /\ faults' # faults => Spoilt' /\ Gone(s)'
             /\ s \notin sreg' => Gone(s)'
             /\ sreg' = sreg /\ Gone(s) => Gone(s)'
             /\ Spoilt => Spoilt' /\ Gone(s)'
  BY <1>3, Annotated, Kinds, KindsAfter DEF Works, Gone, ByKind
<1>4. ASSUME Types', Works(s), Threw, handlers = H, Gone(s)'
      PROVE  Out
  <2>1. ThrewTo(H)
    BY <1>3, <1>4, ThrewTop
  <2>2. QED
    BY <1>3, <1>4, <2>1 DEF RemovingGoesOn
<1>5. ASSUME Types', Works(s), Failed, handlers = H
      PROVE  Out
  BY <1>3, <1>4, <1>5 DEF Failed, Types
<1>6. ASSUME Types', Works(s), RemovesStepType(s, z, H)'
      PROVE  Out
  BY <1>3, <1>6 DEF RemovingGoesOn, Removing
<1>7. ASSUME Types', Works(s), todo' = z, handlers' = H, Gone(s)'
      PROVE  Out
  <2>1. Reconciles(z, H)'
    BY <1>7 DEF Reconciles, Rests
  <2>2. QED
    BY <1>3, <1>7, <2>1 DEF RemovingGoesOn, Removing
<1>8. CASE handlers = H /\ todo = Then(<<"remove_step", s>>, z)
  <2>1. Head(todo) = <<"remove_step", s>> /\ Tail(todo) = z
    BY <1>8, ThenList
  <2> DEFINE both == <<<<"drop_step", s>>>> \o Try(<<<<"delete_step", s>>>>, <<<<"relist_step", s>>, <<"raise", s>>>>)
  <2>2. /\ Types'
        /\ Died \/ (/\ Still /\ Kept /\ Steady
                    /\ \/ Threw /\ s \notin sreg
                       \/ Put(<<<<"delete_step", s>>>>) /\ s \notin sreg
                       \/ Put(both))
    BY <2>1, StepTypeRemoved
  <2>3. both \o z = Then(<<"drop_step", s>>, Then(Deleting(s), z))
    BY DeletingThen
  <2> HIDE DEF both
  <2>4. ASSUME Types', Still, Kept, Steady
        PROVE  Works(s) /\ sreg' = sreg
    BY <2>4, StillOnly DEF Works, Still, workflowVars
  <2>5. CASE Types' /\ Still /\ Kept /\ Steady /\ Threw /\ s \notin sreg
    BY <1>3, <1>4, <1>8, <2>4, <2>5
  <2>6. CASE Types' /\ Still /\ Kept /\ Steady /\ Put(<<<<"delete_step", s>>>>) /\ s \notin sreg
    <3>1. todo' = Then(<<"delete_step", s>>, z) /\ handlers' = H
      BY <1>8, <2>1, <2>6 DEF Put, Then
    <3>2. QED
      BY <1>3, <1>6, <2>4, <2>6, <3>1 DEF RemovesStepType
  <2>7. CASE Types' /\ Still /\ Kept /\ Steady /\ Put(both)
    <3>1. todo' = Then(<<"drop_step", s>>, Then(Deleting(s), z)) /\ handlers' = H
      BY <1>8, <2>1, <2>3, <2>7 DEF Put
    <3>2. QED
      BY <1>6, <2>4, <2>7, <3>1 DEF RemovesStepType
  <2>8. QED
    BY <2>2, <2>5, <2>6, <2>7
<1>9. CASE handlers = H /\ todo = Then(<<"delete_step", s>>, z) /\ Gone(s)
  <2>1. Head(todo) = <<"delete_step", s>> /\ Tail(todo) = z
    BY <1>9, ThenList
  <2>2. Types' /\ (Died \/ (Works(s) /\ sreg' = sreg /\ (Went \/ Failed)))
    BY <2>1, StepTypeDeleted
  <2>3. QED
    BY <1>3, <1>5, <1>7, <1>9, <2>1, <2>2 DEF Went
<1>10. CASE handlers = H /\ todo = Then(<<"drop_step", s>>, Then(Deleting(s), z))
  <2>1. Head(todo) = <<"drop_step", s>> /\ Tail(todo) = Then(Deleting(s), z)
    BY <1>1, <1>10, ThenList
  <2>2. Types' /\ (Died \/ (Works(s) /\ ((Went /\ s \notin sreg') \/ Failed)))
    BY <2>1, StepTypeDropped
  <2>3. CASE Types' /\ Works(s) /\ Went /\ s \notin sreg'
    <3>1. RemovesStepType(s, z, H)'
      BY <1>3, <1>10, <2>1, <2>3 DEF RemovesStepType, Went
    <3>2. QED
      BY <1>6, <2>3, <3>1
  <2>4. QED
    BY <1>5, <1>10, <2>2, <2>3
<1>11. CASE handlers = H /\ todo = Then(Deleting(s), z) /\ Gone(s)
  <2>1. Head(todo) = Deleting(s) /\ Tail(todo) = z
    BY <1>11, ThenList
  <2> DEFINE body == <<<<"delete_step", s>>>>
             handler == <<<<"relist_step", s>>, <<"raise", s>>>>
  <2>2. Head(todo) = <<"try", <<body, handler>>>>
    BY <2>1 DEF Deleting
  <2>3. (body \o <<<<"end", {}>>>>) \o z = Then(<<"delete_step", s>>, Then(End, z)) /\ handler \o z = relisting
    BY DeletingThen
  <2> HIDE DEF body, handler
  <2>4. /\ Types'
        /\ Died \/ (/\ Still /\ Kept /\ Steady
                    /\ todo' = (body \o <<<<"end", {}>>>>) \o z
                    /\ handlers' = <<handler \o z>> \o handlers)
    BY <2>1, <2>2, TryStep
  <2>5. ASSUME Types', Still, Kept, Steady, todo' = Then(<<"delete_step", s>>, Then(End, z)), handlers' = Then(relisting, H)
        PROVE  Out
    <3>1. Works(s) /\ Gone(s)'
      BY <1>3, <1>11, <2>5, StillOnly DEF Works, Still, workflowVars
    <3>2. RemovesStepType(s, z, H)'
      BY <2>5, <3>1 DEF RemovesStepType
    <3>3. QED
      BY <1>6, <2>5, <3>1, <3>2
  <2>6. QED
    BY <1>11, <2>3, <2>4, <2>5 DEF Then
<1>12. CASE handlers = H /\ todo = relisting /\ Spoilt
  <2>1. Head(todo) = <<"relist_step", s>> /\ Tail(todo) = Then(<<"raise", s>>, z)
    BY <1>1, <1>12, ThenList
  <2>2. Types' /\ (Died \/ (Works(s) /\ Went))
    BY <2>1, StepTypeRelisted
  <2>3. CASE Types' /\ Works(s) /\ Went
    <3>1. RemovesStepType(s, z, H)'
      BY <1>3, <1>12, <2>1, <2>3 DEF RemovesStepType, Went
    <3>2. QED
      BY <1>6, <2>3, <3>1
  <2>4. QED
    BY <2>2, <2>3
<1>13. CASE handlers = H /\ todo = Then(<<"raise", s>>, z) /\ Spoilt
  <2>1. Head(todo) = <<"raise", s>>
    BY <1>13, ThenList
  <2>2. Head(todo)[1] = "raise"
    BY <2>1
  <2>3. Types' /\ (Died \/ (Still /\ Kept /\ Steady /\ Threw))
    BY <2>2, RaiseStep
  <2>4. CASE Types' /\ Still /\ Kept /\ Steady /\ Threw
    <3>1. Works(s)
      BY <2>4, StillOnly DEF Works
    <3>2. QED
      BY <1>3, <1>4, <1>13, <2>4, <3>1
  <2>5. QED
    BY <2>3, <2>4
<1>14. CASE handlers = Then(relisting, H) /\ Gone(s) /\ todo = Then(<<"delete_step", s>>, Then(End, z))
  <2>1. /\ Head(todo) = <<"delete_step", s>> /\ Tail(todo) = Then(End, z)
        /\ handlers # <<>> /\ Head(handlers) = relisting /\ Tail(handlers) = H
    BY <1>1, <1>14, ThenList
  <2>2. Types' /\ (Died \/ (Works(s) /\ sreg' = sreg /\ (Went \/ Failed)))
    BY <2>1, StepTypeDeleted
  <2>3. CASE Types' /\ Works(s) /\ sreg' = sreg /\ Went
    <3>1. RemovesStepType(s, z, H)'
      BY <1>3, <1>14, <2>1, <2>3 DEF RemovesStepType, Went
    <3>2. QED
      BY <1>6, <2>3, <3>1
  <2>4. CASE Types' /\ Works(s) /\ Failed
    <3>1. Spoilt'
      BY <1>3, <2>4 DEF Failed, Types
    <3>2. todo' = relisting /\ handlers' = H
      BY <2>1, <2>4 DEF Failed, Threw
    <3>3. RemovesStepType(s, z, H)'
      BY <3>1, <3>2 DEF RemovesStepType
    <3>4. QED
      BY <1>6, <2>4, <3>3
  <2>5. QED
    BY <2>2, <2>3, <2>4
<1>15. CASE handlers = Then(relisting, H) /\ Gone(s) /\ todo = Then(End, z)
  <2>1. Head(todo) = End /\ Tail(todo) = z /\ Tail(handlers) = H
    BY <1>1, <1>15, ThenList
  <2>2. Head(todo)[1] = "end"
    BY <2>1 DEF End
  <2>3. Types' /\ (Died \/ (Still /\ Kept /\ Steady /\ todo' = z /\ handlers' = H))
    BY <2>1, <2>2, EndStep
  <2>4. CASE Types' /\ Still /\ Kept /\ Steady /\ todo' = z /\ handlers' = H
    <3>1. Works(s) /\ Gone(s)'
      BY <1>3, <1>15, <2>4, StillOnly DEF Works, Still, workflowVars
    <3>2. QED
      BY <1>7, <2>4, <3>1
  <2>5. QED
    BY <2>3, <2>4
<1>16. QED
  BY <1>8, <1>9, <1>10, <1>11, <1>12, <1>13, <1>14, <1>15 DEF RemovesStepType

LEMMA RemovingStep ==
    ASSUME Types, Step, NEW c \in Components, NEW z, IsList(z), NEW H, IsList(H), Removing(c, z, H),
           ~(todo = z /\ handlers = H)
    PROVE  Types' /\ (Died \/ RemovingGoesOn(c, z, H))
<1>1. Failing
  BY DEF Removing
<1>2. CASE \/ c \in Presets /\ RemovesPreset(c, z, H)
           \/ c \in Workflows /\ RemovesWorkflow(c, z, H)
           \/ c \in StepTypes /\ RemovesStepType(c, z, H)
  BY <1>1, <1>2, RemovesPresetStep, RemovesWorkflowStep, RemovesStepTypeStep
<1>3. CASE Reconciles(z, H) /\ Gone(c)
  <2>1. Types' /\ (Died \/ (Still /\ Kept /\ Steady /\ Reconciles(z, H)'))
    BY <1>3, ReconcilesStep
  <2>2. ASSUME Types', Still, Kept, Steady
        PROVE  Failing' /\ Gone(c)' /\ Works(c)
    BY <1>1, <1>3, <2>2, Annotated, AllAlike, StillOnly DEF Works
  <2>3. QED
    BY <2>1, <2>2 DEF RemovingGoesOn, Removing
<1>4. CASE c = Extension /\ todo = Then(<<"extend", FALSE>>, z) /\ handlers = H
  <2>1. Head(todo) = <<"extend", FALSE>> /\ Tail(todo) = z
    BY <1>4, ThenList
  <2>2. /\ Types'
        /\ Died \/ (/\ Works(c)
                    /\ \/ Went /\ ext' = FALSE
                       \/ Threw /\ ext' = ext /\ (ext = FALSE \/ faults' = faults + 1))
    BY <1>4, <2>1, ExtendStep
  <2>3. ASSUME Types', Works(c)
        PROVE  /\ Failing' /\ Only(c) /\ Kept
               /\ ext' = FALSE => Gone(c)'
               /\ faults' # faults => Gone(c)'
    BY <1>1, <1>4, <2>3, Annotated, KindsAfter DEF Works, Gone, ByKind
  <2>4. CASE Types' /\ Works(c) /\ Went /\ ext' = FALSE
    <3>1. Reconciles(z, H)'
      BY <1>4, <2>1, <2>4 DEF Went, Reconciles, Rests
    <3>2. QED
      BY <2>3, <2>4, <3>1 DEF RemovingGoesOn, Removing
  <2>5. CASE Types' /\ Works(c) /\ Threw /\ ext' = ext /\ (ext = FALSE \/ faults' = faults + 1)
    <3>1. faults' = faults + 1 => faults' # faults
      BY DEF Types
    <3>2. Gone(c)'
      BY <2>3, <2>5, <3>1
    <3>3. ThrewTo(H)
      BY <1>4, <2>3, <2>5, ThrewTop
    <3>4. QED
      BY <2>3, <2>5, <3>2, <3>3 DEF RemovingGoesOn
  <2>6. QED
    BY <2>2, <2>4, <2>5
<1>5. QED
  BY <1>2, <1>3, <1>4 DEF Removing

\* It is busy with the component; or it has come to what follows.
Busy(H) ==
    /\ todo # <<>>
    /\ Head(todo)[1] \notin {"part", "did", "unwind", "record", "unpart", "unrecord"}
    /\ handlers = H => Head(todo)[1] # "end"
    /\ Head(todo)[1] = "raise" => Head(todo)[2] \in Presets \cup StepTypes

LEMMA ThenLonger ==
    ASSUME NEW x, NEW r, IsList(r)
    PROVE  Then(x, r) # r
<1>1. PICK S : r \in Seq(S)
  BY DEF IsList
<1>2. Len(Then(x, r)) = Len(r) + 1 /\ Len(r) \in Nat
  <2>1. <<x>> \in Seq({x})
    OBVIOUS
  <2>2. <<x>> \in Seq(S \cup {x}) /\ r \in Seq(S \cup {x})
    BY <1>1
  <2>3. QED
    BY <2>2 DEF Then
<1>3. QED
  BY <1>2

LEMMA BusyHead ==
    ASSUME NEW H, NEW x, NEW r, IsList(r), todo = Then(x, r), x[1] \notin {"raise", "end", "part", "did", "unwind", "record", "unpart", "unrecord"}
    PROVE  Busy(H)
  BY ThenList DEF Busy

LEMMA ReconcilesHead ==
    ASSUME NEW z, IsList(z), NEW H, IsList(H), Reconciles(z, H)
    PROVE  (todo = z /\ handlers = H) \/ Busy(H)
<1>1. ASSUME NEW names, todo = Then(Reconciling(names), z)
      PROVE  Busy(H)
  <2>1. Reconciling(names)[1] \notin {"raise", "end", "part", "did", "unwind", "record", "unpart", "unrecord"}
    BY DEF Reconciling
  <2>2. QED
    BY <1>1, <2>1, BusyHead
<1>2. ASSUME NEW names, todo = Then(<<"commands", names>>, Then(<<"skills", names>>, Then(End, z)))
      PROVE  Busy(H)
  <2>1. IsList(Then(<<"skills", names>>, Then(End, z)))
    BY ThenList
  <2>2. <<"commands", names>>[1] \notin {"raise", "end", "part", "did", "unwind", "record", "unpart", "unrecord"}
    OBVIOUS
  <2>3. QED
    BY <1>2, <2>1, <2>2, BusyHead
<1>3. ASSUME NEW names, todo = Then(<<"skills", names>>, Then(End, z))
      PROVE  Busy(H)
  <2>1. IsList(Then(End, z))
    BY ThenList
  <2>2. <<"skills", names>>[1] \notin {"raise", "end", "part", "did", "unwind", "record", "unpart", "unrecord"}
    OBVIOUS
  <2>3. QED
    BY <1>3, <2>1, <2>2, BusyHead
<1>4. ASSUME handlers = Then(z, H), todo = Then(End, z)
      PROVE  Busy(H)
  BY <1>4, ThenList, ThenLonger DEF Busy, End
<1>5. QED
  BY <1>1, <1>2, <1>3, <1>4 DEF Reconciles, Rests

LEMMA BusyWith ==
    ASSUME NEW H, NEW tag, NEW a, NEW r, IsList(r), todo = Then(<<tag, a>>, r),
           tag \notin {"end", "part", "did", "unwind", "record", "unpart", "unrecord"},
           tag = "raise" => a \in Presets \cup StepTypes
    PROVE  Busy(H)
<1>1. Head(todo) = <<tag, a>> /\ todo # <<>>
  BY ThenList
<1>2. Head(todo)[1] = tag /\ Head(todo)[2] = a
  BY <1>1
<1>3. QED
  BY <1>1, <1>2 DEF Busy

LEMMA MakingHead ==
    ASSUME NEW c \in Components, NEW z, IsList(z), NEW H, IsList(H), Making(c, z, H)
    PROVE  (todo = z /\ handlers = H /\ Fresh /\ c \in Usable) \/ Busy(H)
<1>1. CASE c \in Presets /\ EntersPreset(c, z, H)
  <2>1. PICK prio \in Priorities, r \in Rests(z) :
               \/ todo = Then(<<"check", <<c, prio>>>>, z)
               \/ todo = Then(<<"copy", c>>, Then(<<"enter", <<c, prio>>>>, Then(Writing(c), r)))
               \/ todo = Then(<<"enter", <<c, prio>>>>, Then(Writing(c), r))
    BY <1>1 DEF EntersPreset
  <2>2. IsList(Then(Writing(c), r)) /\ IsList(Then(<<"enter", <<c, prio>>>>, Then(Writing(c), r)))
    BY RestsAreLists, ThenList
  <2>3. CASE todo = Then(<<"check", <<c, prio>>>>, z)
    BY <2>3, BusyWith
  <2>4. CASE todo = Then(<<"copy", c>>, Then(<<"enter", <<c, prio>>>>, Then(Writing(c), r)))
    BY <2>2, <2>4, BusyWith
  <2>5. CASE todo = Then(<<"enter", <<c, prio>>>>, Then(Writing(c), r))
    BY <2>2, <2>5, BusyWith
  <2>6. QED
    BY <2>1, <2>3, <2>4, <2>5
<1>2. CASE c \in Presets /\ WritesPreset(c, z, H)
  <2> DEFINE noting(r) == Then(<<"note", c>>, Then(End, r))
             reskilling(r) == Then(<<"reskill", c>>, noting(r))
  <2>1. PICK r \in Rests(z) :
               \/ todo = Then(Writing(c), r)
               \/ /\ handlers = Then(ToUnwrite(c, r), H)
                  /\ todo \in {Then(<<"write", c>>, Then(<<"note", c>>, reskilling(r))),
                               Then(<<"note", c>>, reskilling(r)), reskilling(r), noting(r), Then(End, r)}
    BY <1>2 DEF WritesPreset
  <2>2. /\ IsList(r) /\ IsList(Then(End, r)) /\ IsList(noting(r)) /\ IsList(reskilling(r))
        /\ IsList(Then(<<"note", c>>, reskilling(r)))
    BY RestsAreLists, ThenList
  <2>3. CASE todo = Then(Writing(c), r)
    BY <2>2, <2>3, BusyWith DEF Writing
  <2>4. CASE todo = Then(<<"write", c>>, Then(<<"note", c>>, reskilling(r)))
    BY <2>2, <2>4, BusyWith
  <2>5. CASE todo = Then(<<"note", c>>, reskilling(r))
    BY <2>2, <2>5, BusyWith
  <2>6. CASE todo = reskilling(r)
    BY <2>2, <2>6, BusyWith
  <2>7. CASE todo = noting(r)
    BY <2>2, <2>7, BusyWith
  <2>8. CASE todo = Then(End, r) /\ handlers = Then(ToUnwrite(c, r), H)
    <3>1. Head(todo) = <<"end", {}>> /\ todo # <<>> /\ handlers # H
      BY <2>2, <2>8, ThenList, ThenLonger DEF End
    <3>2. QED
      BY <3>1 DEF Busy
  <2>9. QED
    BY <2>1, <2>3, <2>4, <2>5, <2>6, <2>7, <2>8
<1>3. CASE c \in Presets /\ UnmakesPreset(c, z, H)
  <2>1. PICK r \in Rests(z) :
          \/ todo = ToUnwrite(c, r)
          \/ \E names \in SUBSET Names : todo = Then(<<"unskill", names>>, ToDelete(c, r))
          \/ todo = ToDelete(c, r)
          \/ todo = ToDrop(c, r)
          \/ todo = Then(<<"raise", c>>, r)
    BY <1>3 DEF UnmakesPreset
  <2>2. IsList(r) /\ IsList(Then(<<"raise", c>>, r)) /\ IsList(ToDrop(c, r)) /\ IsList(ToDelete(c, r))
    BY RestsAreLists, ThenList DEF ToDrop, ToDelete
  <2>3. CASE todo = ToUnwrite(c, r)
    BY <2>2, <2>3, BusyWith DEF ToUnwrite
  <2>4. ASSUME NEW names, todo = Then(<<"unskill", names>>, ToDelete(c, r))
        PROVE  Busy(H)
    BY <2>2, <2>4, BusyWith
  <2>5. CASE todo = ToDelete(c, r)
    BY <2>2, <2>5, BusyWith DEF ToDelete
  <2>6. CASE todo = ToDrop(c, r)
    BY <2>2, <2>6, BusyWith DEF ToDrop
  <2>7. CASE todo = Then(<<"raise", c>>, r)
    BY <1>3, <2>2, <2>7, BusyWith
  <2>8. QED
    BY <2>1, <2>3, <2>4, <2>5, <2>6, <2>7
<1>4. CASE todo = Then(<<"extend", TRUE>>, z)
  BY <1>4, BusyWith
<1>5. CASE c \in Workflows /\ MakesWorkflow(c, z, H)
  <2>1. IsList(Then(<<"enter_workflow", c>>, z))
    BY ThenList
  <2>2. CASE todo = Then(<<"fetch_workflow", c>>, Then(<<"enter_workflow", c>>, z))
    BY <2>1, <2>2, BusyWith
  <2>3. CASE todo = Then(<<"copy_workflow", c>>, Then(<<"enter_workflow", c>>, z))
    BY <2>1, <2>3, BusyWith
  <2>4. CASE todo = Then(<<"enter_workflow", c>>, z)
    BY <2>4, BusyWith
  <2>5. QED
    BY <1>5, <2>2, <2>3, <2>4 DEF MakesWorkflow
<1>6. CASE c \in StepTypes /\ MakesStepType(c, z, H)
  <2>1. IsList(Then(<<"enter_step", c>>, z))
    BY ThenList
  <2>2. CASE todo = Then(<<"fetch_step", c>>, Then(<<"enter_step", c>>, z))
    BY <2>1, <2>2, BusyWith
  <2>3. CASE todo = Then(<<"enter_step", c>>, z)
    BY <2>3, BusyWith
  <2>4. QED
    BY <1>6, <2>2, <2>3 DEF MakesStepType
<1>7. CASE Reconciles(z, H) /\ Fresh /\ c \in Usable
  BY <1>7, ReconcilesHead
<1>8. QED
  BY <1>1, <1>2, <1>3, <1>4, <1>5, <1>6, <1>7 DEF Making

LEMMA RefreshingHead ==
    ASSUME NEW c \in Components, NEW z, IsList(z), NEW H, IsList(H), Refreshing(c, z, H)
    PROVE  todo = z \/ Busy(H)
<1>1. IsList(Then(<<"enter_workflow", c>>, z)) /\ IsList(Then(<<"enter_step", c>>, z))
  BY ThenList
<1>2. ASSUME NEW prio, todo = Then(<<"check", <<c, prio>>>>, z)
      PROVE  Busy(H)
  BY <1>2, BusyWith
<1>3. CASE todo = Then(<<"extend", TRUE>>, z)
  BY <1>3, BusyWith
<1>4. CASE todo = Then(<<"fetch_workflow", c>>, Then(<<"enter_workflow", c>>, z))
  BY <1>1, <1>4, BusyWith
<1>5. CASE todo = Then(<<"enter_workflow", c>>, z)
  BY <1>5, BusyWith
<1>6. CASE todo = Then(<<"fetch_step", c>>, Then(<<"enter_step", c>>, z))
  BY <1>1, <1>6, BusyWith
<1>7. QED
  BY <1>2, <1>3, <1>4, <1>5, <1>6 DEF Refreshing

LEMMA RemovingHead ==
    ASSUME NEW c \in Components, NEW z, IsList(z), NEW H, IsList(H), Removing(c, z, H)
    PROVE  (todo = z /\ handlers = H /\ Failing /\ Gone(c)) \/ Busy(H)
<1>1. CASE c \in Presets /\ RemovesPreset(c, z, H)
  <2> DEFINE dropping(r) == Then(<<"drop", c>>, r)
             deleting(r) == Then(<<"delete", <<c, FALSE>>>>, dropping(r))
  <2>1. PICK r \in Rests(z) :
         \/ todo = Then(<<"remove", c>>, z)
         \/ \E names \in SUBSET Names : \E what :
               todo = Then(<<"unskill", names>>, Then(<<"unfile", what>>, deleting(r)))
         \/ \E what : todo = Then(<<"unfile", what>>, deleting(r))
         \/ todo = deleting(r)
         \/ todo = dropping(r)
    BY <1>1 DEF RemovesPreset
  <2>2. IsList(r) /\ IsList(dropping(r)) /\ IsList(deleting(r)) /\ \A what : IsList(Then(<<"unfile", what>>, deleting(r)))
    BY RestsAreLists, ThenList
  <2>3. CASE todo = Then(<<"remove", c>>, z)
    BY <2>3, BusyWith
  <2>4. ASSUME NEW names, NEW what, todo = Then(<<"unskill", names>>, Then(<<"unfile", what>>, deleting(r)))
        PROVE  Busy(H)
    <3>1. IsList(Then(<<"unfile", what>>, deleting(r)))
      BY <2>2
    <3> HIDE DEF deleting
    <3>2. QED
      BY <2>4, <3>1, BusyWith
  <2>5. ASSUME NEW what, todo = Then(<<"unfile", what>>, deleting(r))
        PROVE  Busy(H)
    <3>1. IsList(deleting(r))
      BY <2>2
    <3> HIDE DEF deleting
    <3>2. QED
      BY <2>5, <3>1, BusyWith
  <2>6. CASE todo = deleting(r)
    BY <2>2, <2>6, BusyWith
  <2>7. CASE todo = dropping(r)
    BY <2>2, <2>7, BusyWith
  <2>8. QED
    BY <2>1, <2>3, <2>4, <2>5, <2>6, <2>7
<1>2. CASE todo = Then(<<"extend", FALSE>>, z)
  BY <1>2, BusyWith
<1>3. CASE c \in Workflows /\ RemovesWorkflow(c, z, H)
  <2>1. CASE todo = Then(<<"remove_workflow", c>>, z)
    BY <2>1, BusyWith
  <2>2. CASE todo = Then(<<"drop_workflow", c>>, z)
    BY <2>2, BusyWith
  <2>3. QED
    BY <1>3, <2>1, <2>2 DEF RemovesWorkflow
<1>4. CASE c \in StepTypes /\ RemovesStepType(c, z, H)
  <2> DEFINE relisting == Then(<<"relist_step", c>>, Then(<<"raise", c>>, z))
  <2>1. IsList(Then(Deleting(c), z)) /\ IsList(Then(End, z)) /\ IsList(Then(<<"raise", c>>, z)) /\ IsList(relisting)
    BY ThenList
  <2>2. CASE todo = Then(<<"remove_step", c>>, z)
    BY <2>2, BusyWith
  <2>3. CASE todo = Then(<<"delete_step", c>>, z)
    BY <2>3, BusyWith
  <2>4. CASE todo = Then(<<"drop_step", c>>, Then(Deleting(c), z))
    BY <2>1, <2>4, BusyWith
  <2>5. CASE todo = Then(Deleting(c), z)
    BY <2>5, BusyWith DEF Deleting
  <2>6. CASE todo = relisting
    BY <2>1, <2>6, BusyWith
  <2>7. CASE todo = Then(<<"raise", c>>, z)
    BY <1>4, <2>7, BusyWith
  <2>8. CASE todo = Then(<<"delete_step", c>>, Then(End, z))
    BY <2>1, <2>8, BusyWith
  <2>9. CASE handlers = Then(relisting, H) /\ todo = Then(End, z)
    <3>1. Head(todo) = <<"end", {}>> /\ todo # <<>> /\ handlers # H
      BY <2>1, <2>9, ThenList, ThenLonger DEF End
    <3>2. QED
      BY <3>1 DEF Busy
  <2>10. QED
    BY <1>4, <2>2, <2>3, <2>4, <2>5, <2>6, <2>7, <2>8, <2>9 DEF RemovesStepType
<1>5. CASE Reconciles(z, H) /\ Gone(c)
  BY <1>5, ReconcilesHead DEF Removing
<1>6. QED
  BY <1>1, <1>2, <1>3, <1>4, <1>5 DEF Removing

\* How it begins.
LEMMA OneKind ==
    ASSUME NEW c \in Components
    PROVE  /\ c \in Presets => InstallOf(c) = InstallPreset(c, Priority) /\ RemovalOf(c) = RemovePreset(c)
           /\ c = Extension => InstallOf(c) = InstallExtension /\ RemovalOf(c) = RemoveExtension
           /\ c \in Workflows => InstallOf(c) = AddWorkflow(c) /\ RemovalOf(c) = RemoveWorkflow(c)
           /\ c \in StepTypes => InstallOf(c) = AddStepType(c) /\ RemovalOf(c) = RemoveStepType(c)
<1>1. /\ Extension \notin Presets \cup Workflows \cup StepTypes
      /\ Presets \cap (Workflows \cup StepTypes) = {} /\ Workflows \cap StepTypes = {}
  BY BundleAssumption
<1>2. CASE c \in Presets
  BY <1>1, <1>2 DEF InstallOf, RemovalOf
<1>3. CASE c = Extension
  BY <1>1, <1>3 DEF InstallOf, RemovalOf
<1>4. CASE c \in Workflows
  BY <1>1, <1>4 DEF InstallOf, RemovalOf
<1>5. CASE c \in StepTypes
  BY <1>1, <1>5 DEF InstallOf, RemovalOf
<1>6. QED
  BY <1>2, <1>3, <1>4, <1>5 DEF Components

LEMMA PresetBegins ==
    ASSUME NEW c \in Presets, NEW prio \in Priorities, NEW z, IsList(z), NEW H, handlers' = H, Fresh', New(c)',
           todo' = InstallPreset(c, prio) \o z
    PROVE  Making(c, z, H)'
<1>1. todo' = Then(<<"check", <<c, prio>>>>, z)
  BY DEF InstallPreset, Then
<1>2. z \in Rests(z)
  BY DEF Rests
<1>3. EntersPreset(c, z, H)'
  BY <1>1, <1>2 DEF EntersPreset
<1>4. QED
  BY <1>3 DEF Making

LEMMA TwoSteps ==
    ASSUME NEW z, IsList(z), NEW a, NEW b
    PROVE  <<a, b>> \o z = Then(a, Then(b, z))
<1>1. \A u, v : <<u, v>> \o z = Then(u, Then(v, z))
  BY StepsThen
<1>2. QED
  BY <1>1, Zenon

LEMMA CopyInBegins ==
    ASSUME NEW c \in Workflows, NEW z, IsList(z), NEW H, handlers' = H, Fresh', New(c)',
           todo' = CopyInWorkflow(c) \o z
    PROVE  Making(c, z, H)'
<1>1. todo' = Then(<<"copy_workflow", c>>, Then(<<"enter_workflow", c>>, z))
  BY TwoSteps DEF CopyInWorkflow
<1>2. MakesWorkflow(c, z, H)'
  BY <1>1 DEF MakesWorkflow
<1>3. QED
  BY <1>2 DEF Making

\* The steps an install begins with.
LEMMA InstallSteps ==
    ASSUME NEW c \in Components, NEW z, IsList(z), todo' = InstallOf(c) \o z
    PROVE  /\ c \in Presets => todo' = InstallPreset(c, Priority) \o z
                               /\ todo' = Then(<<"check", <<c, Priority>>>>, z)
           /\ c = Extension => todo' = Then(<<"extend", TRUE>>, z)
           /\ c \in Workflows => todo' = Then(<<"fetch_workflow", c>>, Then(<<"enter_workflow", c>>, z))
           /\ c \in StepTypes => todo' = Then(<<"fetch_step", c>>, Then(<<"enter_step", c>>, z))
<1>1. ASSUME c \in Presets
      PROVE  todo' = InstallPreset(c, Priority) \o z /\ todo' = Then(<<"check", <<c, Priority>>>>, z)
  BY <1>1, OneKind DEF InstallPreset, Then
<1>2. ASSUME c = Extension
      PROVE  todo' = Then(<<"extend", TRUE>>, z)
  <2>1. InstallOf(c) = <<<<"extend", TRUE>>>>
    BY <1>2, OneKind DEF InstallExtension
  <2>2. QED
    BY <2>1 DEF Then
<1>3. ASSUME c \in Workflows
      PROVE  todo' = Then(<<"fetch_workflow", c>>, Then(<<"enter_workflow", c>>, z))
  BY <1>3, OneKind, TwoSteps DEF AddWorkflow
<1>4. ASSUME c \in StepTypes
      PROVE  todo' = Then(<<"fetch_step", c>>, Then(<<"enter_step", c>>, z))
  BY <1>4, OneKind, TwoSteps DEF AddStepType
<1>5. QED
  BY <1>1, <1>2, <1>3, <1>4

LEMMA MakingBegins ==
    ASSUME NEW c \in Components, NEW z, IsList(z), NEW H, handlers' = H, Fresh', New(c)', todo' = InstallOf(c) \o z
    PROVE  Making(c, z, H)'
<1>1. CASE c \in Presets
  BY <1>1, InstallSteps, PresetBegins, BundleAssumption
<1>2. CASE c = Extension
  BY <1>2, InstallSteps DEF Making
<1>3. CASE c \in Workflows
  <2>1. MakesWorkflow(c, z, H)'
    BY <1>3, InstallSteps DEF MakesWorkflow
  <2>2. QED
    BY <1>3, <2>1 DEF Making
<1>4. CASE c \in StepTypes
  <2>1. MakesStepType(c, z, H)'
    BY <1>4, InstallSteps DEF MakesStepType
  <2>2. QED
    BY <1>4, <2>1 DEF Making
<1>5. QED
  BY <1>1, <1>2, <1>3, <1>4 DEF Components

LEMMA RefreshingBegins ==
    ASSUME NEW c \in Components, NEW z, IsList(z), NEW H, handlers' = H, Fresh', Installed(c)',
           todo' = InstallOf(c) \o z
    PROVE  Refreshing(c, z, H)'
<1>1. \/ c \in Presets /\ \E prio \in Priorities : todo' = Then(<<"check", <<c, prio>>>>, z)
      \/ c = Extension /\ todo' = Then(<<"extend", TRUE>>, z)
      \/ c \in Workflows /\ todo' = Then(<<"fetch_workflow", c>>, Then(<<"enter_workflow", c>>, z))
      \/ c \in StepTypes /\ todo' = Then(<<"fetch_step", c>>, Then(<<"enter_step", c>>, z))
  BY InstallSteps, BundleAssumption DEF Components
<1>2. QED
  BY <1>1 DEF Refreshing

LEMMA RemovingBegins ==
    ASSUME NEW c \in Components, NEW z, IsList(z), NEW H, handlers' = H, Failing', todo' = RemovalOf(c) \o z
    PROVE  Removing(c, z, H)'
<1>1. CASE c \in Presets
  <2>1. todo' = Then(<<"remove", c>>, z)
    BY <1>1, OneKind DEF RemovePreset, Then
  <2>2. z \in Rests(z)
    BY DEF Rests
  <2>3. RemovesPreset(c, z, H)'
    BY <2>1, <2>2 DEF RemovesPreset
  <2>4. QED
    BY <1>1, <2>3 DEF Removing
<1>2. CASE c = Extension
  BY <1>2, OneKind DEF RemoveExtension, Then, Removing
<1>3. CASE c \in Workflows
  <2>1. todo' = Then(<<"remove_workflow", c>>, z)
    BY <1>3, OneKind DEF RemoveWorkflow, Then
  <2>2. RemovesWorkflow(c, z, H)'
    BY <2>1 DEF RemovesWorkflow
  <2>3. QED
    BY <1>3, <2>2 DEF Removing
<1>4. CASE c \in StepTypes
  <2>1. todo' = Then(<<"remove_step", c>>, z)
    BY <1>4, OneKind DEF RemoveStepType, Then
  <2>2. RemovesStepType(c, z, H)'
    BY <2>1 DEF RemovesStepType
  <2>3. QED
    BY <1>4, <2>2 DEF Removing
<1>5. QED
  BY <1>1, <1>2, <1>3, <1>4 DEF Components

-----------------------------------------------------------------------------
(* What the records and the user claim *)

Recorded == UNION {records[b].comps : b \in Bundles}

RecordTypes ==
    /\ records \in [Bundles -> [ver: Nat, comps: SUBSET Components]]
    /\ \A b \in Bundles : records[b].ver \in 0..Len(Plans[b]) /\ IsFiniteSet(records[b].comps)

\* What the user has installed himself is there and in no record; what a record
\* lists is there, or the user or a fault has broken it.
Claims ==
    /\ mine \subseteq Usable
    /\ mine \cap Recorded = {}
    /\ Recorded \subseteq Usable \cup excused

\* What a step takes away without a fault, and not for the user, is not his, and
\* if a record lists it it was broken before or is the removed bundle's alone.
Safe ==
    \A c \in Usable \ Usable' :
       faults' # faults \/ job.op = "user" \/ (c \notin mine /\ (c \in Recorded => c \in excused'))

\* How what is claimed changes.
LEMMA Histories ==
    ASSUME History
    PROVE  /\ excused \subseteq excused'
           /\ mine \subseteq Usable => mine' \subseteq Usable'
           /\ job.op # "user" => mine' \subseteq mine
           /\ mine' \cap Recorded \subseteq mine
           /\ faults' # faults \/ job.op = "user" => Usable \ Usable' \subseteq excused'
           /\ \A c \in Usable \ Usable' : /\ job.op = "remove"
                                          /\ \A b \in Bundles \ {job.bundle} : c \notin records[b].comps
                                          => c \in excused'
           /\ Usable' = Usable => mine' = mine /\ excused' = excused
<1> DEFINE new  == Usable' \ Usable
           lost == Usable \ Usable'
           own  == {c \in new : \A b \in Bundles : c \notin records[b].comps}
<1>1. mine' = (mine \ lost) \cup IF job.op = "user" THEN own ELSE {}
  BY DEF History
<1>2. excused' = excused \cup
                 {c \in lost : \/ job.op = "user"
                               \/ faults' # faults
                               \/ job.op = "remove" /\ \A b \in Bundles \ {job.bundle} : c \notin records[b].comps}
  BY DEF History
<1>3. own \subseteq new /\ own \cap Recorded = {}
  BY DEF Recorded
<1>4. mine \subseteq Usable => mine' \subseteq Usable'
  BY <1>1, <1>3
<1>5. mine' \cap Recorded \subseteq mine
  BY <1>1, <1>3
<1>6. job.op # "user" => mine' \subseteq mine
  BY <1>1
<1>7. excused \subseteq excused' /\ (faults' # faults \/ job.op = "user" => Usable \ Usable' \subseteq excused')
  BY <1>2
<1>8. \A c \in Usable \ Usable' : /\ job.op = "remove"
                                  /\ \A b \in Bundles \ {job.bundle} : c \notin records[b].comps
                                  => c \in excused'
  BY <1>2
<1>9. Usable' = Usable => mine' = mine /\ excused' = excused
  BY <1>1, <1>2, <1>3
<1> HIDE DEF new, lost, own
<1>10. QED
  BY <1>4, <1>5, <1>6, <1>7, <1>8, <1>9

LEMMA AfterStep ==
    ASSUME RecordTypes, Claims, History, Safe, records' = records
    PROVE  RecordTypes' /\ Claims'
<1>1. RecordTypes' /\ Recorded' = Recorded
  BY DEF RecordTypes, Recorded
<1>2. mine' \subseteq Usable' /\ mine' \cap Recorded' = {}
  BY <1>1, Histories DEF Claims
<1>3. ASSUME NEW c \in Recorded
      PROVE  c \in Usable' \cup excused'
  BY <1>3, Histories DEF Claims, Safe
<1>4. QED
  BY <1>1, <1>2, <1>3 DEF Claims

\* A record is written: only what is not the user's, and is there or broken.
LEMMA AfterRecord ==
    ASSUME RecordTypes, Claims, History, Usable' = Usable, NEW b \in Bundles, NEW ver \in 0..Len(Plans[b]),
           NEW comps, comps \subseteq Components, IsFiniteSet(comps), comps \cap mine = {},
           comps \subseteq Usable \cup excused,
           \/ records' = [records EXCEPT ![b] = [ver |-> ver, comps |-> comps]]
           \/ records' = records
    PROVE  RecordTypes' /\ Claims'
<1>1. mine' = mine /\ excused' = excused
  BY Histories
<1>2. ver \in Nat
  OBVIOUS
<1>3. RecordTypes'
  BY <1>2 DEF RecordTypes
<1>4. Recorded' \subseteq Recorded \cup comps
  BY DEF Recorded, RecordTypes
<1>5. QED
  BY <1>1, <1>3, <1>4 DEF Claims

\* What there is after a step.
LEMMA OneChanges ==
    ASSUME Types, Types', NEW c \in Components, Only(c)
    PROVE  /\ InstalledSet' \ {c} = InstalledSet \ {c} /\ Usable' \ {c} = Usable \ {c}
           /\ InstalledSet \subseteq Components
           /\ (c \in InstalledSet' <=> Installed(c)') /\ (c \in InstalledSet <=> Installed(c))
<1>1. \A d \in Components \ {c} : (Installed(d)' <=> Installed(d)) /\ (d \in Usable' <=> d \in Usable)
  BY OthersAlike
<1>2. Usable \subseteq Components
  BY DEF Usable, InstalledSet
<1>3. Usable' \subseteq Components
  BY DEF Usable, InstalledSet
<1>4. QED
  BY <1>1, <1>2, <1>3 DEF InstalledSet

LEMMA NoneChanges ==
    ASSUME Types, Types', Still
    PROVE  InstalledSet' = InstalledSet /\ Usable' = Usable
<1>1. \A d \in Components : (Installed(d)' <=> Installed(d)) /\ (d \in Usable' <=> d \in Usable)
  BY AllAlike
<1>2. Usable \subseteq Components
  BY DEF Usable, InstalledSet
<1>3. Usable' \subseteq Components
  BY DEF Usable, InstalledSet
<1>4. QED
  BY <1>1, <1>2, <1>3 DEF InstalledSet

LEMMA BundleOnlyChanges ==
    ASSUME Types, BundleOnly, job' \in Job, faults' \in {faults, faults + 1}
    PROVE  Types' /\ Still /\ InstalledSet' = InstalledSet /\ Usable' = Usable
<1>1. UNCHANGED <<preg, pdir, ext, workflowVars>>
  BY DEF BundleOnly, presetVars
<1>2. Types' /\ Still
  BY <1>1, TypesAfter
<1>3. QED
  BY <1>2, NoneChanges

-----------------------------------------------------------------------------
(* What a bundle's command has left to do *)

Elements(s) == {s[i] : i \in 1..Len(s)}

\* What the install has put there so far, and what it may.
Applied == Elements(job.done)
Ours(c) == c \notin mine \cup job.before /\ (c \in Recorded => c \in excused)

\* Of an install of b, all along.
Installing(b) ==
    /\ job.op = "install" /\ job.bundle = b /\ job.ver \in 1..Len(Plans[b])
    /\ IsFiniteSet(job.given) /\ job.given \cap mine = {}
    /\ job.before \subseteq InstalledSet
    /\ \A c \in Applied : Ours(c)

\* Nothing is installed but what was, what the install has put there, and C.
Inside(C) == InstalledSet \subseteq job.before \cup Applied \cup C
Left(C)   == Inside(C) \/ Spoilt

\* What is to be recorded can be.
GivenThere == job.given \subseteq Usable \cup excused

Recording(b) == Then(<<"record", b>>, <<>>)
Unwinds(b)   == Then(<<"unwind", b>>, Recording(b))
Except(b)    == Then(Unwinds(b), <<>>)

PartSteps == {<<"part", c>> : c \in Components}

Parts(ps, b) == ps \o Then(End, Recording(b))
Taken(b)     == Then(End, Unwinds(b))

ToTry(b) ==
    /\ Installing(b) /\ GivenThere /\ Inside({}) /\ Fresh /\ handlers = <<>>
    /\ \E ps \in Seq(PartSteps) : todo = Then(<<"try", <<ps, <<<<"unwind", b>>>>>>>>, Recording(b))

Placing(b) ==
    /\ Installing(b) /\ GivenThere /\ Inside({}) /\ Fresh /\ handlers = Except(b)
    /\ \E ps \in Seq(PartSteps) : todo = Parts(ps, b)

Adding(b, c) ==
    /\ Installing(b) /\ GivenThere /\ Inside({c}) /\ Ours(c) /\ (c \in job.given => c \in excused)
    /\ \E ps \in Seq(PartSteps) : Making(c, Then(<<"did", c>>, Parts(ps, b)), Except(b))

Renewing(b, c) ==
    /\ Installing(b) /\ GivenThere /\ Inside({})
    /\ \E ps \in Seq(PartSteps) : Refreshing(c, Parts(ps, b), Except(b))

ToRecord(b) == Installing(b) /\ GivenThere /\ handlers = <<>> /\ todo = Recording(b)

ToUnwind(b) == Installing(b) /\ Left({}) /\ (Fresh \/ Failing) /\ handlers = <<>> /\ todo = Unwinds(b)

ToTake(b, c) ==
    /\ Installing(b) /\ Left({c}) /\ Ours(c) /\ Failing /\ handlers = <<>>
    /\ todo = Then(<<"try", <<RemovalOf(c), <<>>>>>>, Unwinds(b))

Taking(b, c) == Installing(b) /\ Left({c}) /\ Ours(c) /\ Removing(c, Taken(b), Except(b))

ToRaise(b) ==
    /\ Installing(b) /\ Left({}) /\ Applied = {} /\ Failing /\ handlers = <<>>
    /\ todo = Then(<<"raise", b>>, Recording(b))

\* A bundle is being removed.
Unparts(us, b) == us \o Then(<<"unrecord", b>>, <<>>)
UnpartsOf(S)   == {<<"unpart", c>> : c \in S}
UnpartSteps(b) == UnpartsOf(records[b].comps)

Dropping(b) ==
    /\ job.op = "remove" /\ job.bundle = b /\ handlers = <<>>
    /\ \E us \in Seq(UnpartSteps(b)) : todo = Unparts(us, b)

Freeing(b, c) ==
    /\ job.op = "remove" /\ job.bundle = b /\ c \in records[b].comps \ StillNeeded(b)
    /\ \E us \in Seq(UnpartSteps(b)) : Removing(c, Unparts(us, b), <<>>)

\* The user installs or removes c.
ByUser(c) == job.op = "user" /\ (Making(c, <<>>, <<>>) \/ Removing(c, <<>>, <<>>))

InstallPhase(b) ==
    \/ ToTry(b) \/ Placing(b) \/ ToRecord(b) \/ ToUnwind(b) \/ ToRaise(b)
    \/ \E c \in Components : Adding(b, c) \/ Renewing(b, c) \/ ToTake(b, c) \/ Taking(b, c)

Running ==
    \/ \E b \in Bundles : InstallPhase(b) \/ Dropping(b) \/ (\E c \in Components : Freeing(b, c))
    \/ \E c \in Components : ByUser(c)

Phase == IF Idle THEN handlers = <<>> ELSE Running

IInv == Types /\ RecordTypes /\ Claims /\ Phase

\* The lists are lists.
LEMMA Lists ==
    ASSUME NEW b
    PROVE  /\ IsList(<<>>) /\ IsList(Recording(b)) /\ IsList(Unwinds(b)) /\ IsList(Except(b)) /\ IsList(Taken(b))
           /\ IsList(Then(End, Recording(b)))
           /\ Recording(b) # <<>> /\ Unwinds(b) # <<>> /\ Taken(b) # <<>> /\ Except(b) # <<>>
           /\ Head(Recording(b)) = <<"record", b>> /\ Tail(Recording(b)) = <<>>
           /\ Head(Unwinds(b)) = <<"unwind", b>> /\ Tail(Unwinds(b)) = Recording(b)
           /\ Head(Except(b)) = Unwinds(b) /\ Tail(Except(b)) = <<>>
           /\ Head(Taken(b)) = End /\ Tail(Taken(b)) = Unwinds(b)
<1>1. IsList(<<>>)
  BY EmptyList
<1>2. IsList(Recording(b)) /\ Recording(b) # <<>> /\ Head(Recording(b)) = <<"record", b>> /\ Tail(Recording(b)) = <<>>
  BY <1>1, ThenList DEF Recording
<1>3. /\ IsList(Unwinds(b)) /\ Unwinds(b) # <<>>
      /\ Head(Unwinds(b)) = <<"unwind", b>> /\ Tail(Unwinds(b)) = Recording(b)
  BY <1>2, ThenList DEF Unwinds
<1>4. IsList(Except(b)) /\ Except(b) # <<>> /\ Head(Except(b)) = Unwinds(b) /\ Tail(Except(b)) = <<>>
  BY <1>1, ThenList DEF Except
<1>5. IsList(Taken(b)) /\ Taken(b) # <<>> /\ Head(Taken(b)) = End /\ Tail(Taken(b)) = Unwinds(b)
  BY <1>3, ThenList DEF Taken
<1>6. IsList(Then(End, Recording(b)))
  BY <1>2, ThenList
<1>7. QED
  BY <1>1, <1>2, <1>3, <1>4, <1>5, <1>6

LEMMA PartsAre ==
    ASSUME NEW b, NEW ps \in Seq(PartSteps)
    PROVE  /\ IsList(Parts(ps, b)) /\ Parts(ps, b) # <<>>
           /\ \/ Head(Parts(ps, b)) = End /\ Tail(Parts(ps, b)) = Recording(b)
              \/ \E c \in Components, qs \in Seq(PartSteps) :
                    Head(Parts(ps, b)) = <<"part", c>> /\ Tail(Parts(ps, b)) = Parts(qs, b)
<1> DEFINE z == Then(End, Recording(b))
<1>1. IsList(z) /\ z # <<>> /\ Head(z) = End /\ Tail(z) = Recording(b)
  BY Lists, ThenList
<1> HIDE DEF z
<1>2. /\ IsList(ps \o z)
      /\ ps # <<>> => /\ ps \o z # <<>>
                      /\ Head(ps \o z) = Head(ps) /\ Tail(ps \o z) = Tail(ps) \o z
                      /\ Head(ps) \in PartSteps /\ Tail(ps) \in Seq(PartSteps)
      /\ ps = <<>> => ps \o z = z
  BY <1>1, ListBefore
<1>3. \A qs : Parts(qs, b) = qs \o z
  BY DEF Parts, z
<1>4. CASE ps = <<>>
  BY <1>1, <1>2, <1>3, <1>4
<1>5. CASE ps # <<>>
  <2>1. PICK c \in Components : Head(ps) = <<"part", c>>
    BY <1>2, <1>5 DEF PartSteps
  <2>2. QED
    BY <1>2, <1>3, <1>5, <2>1
<1>6. QED
  BY <1>4, <1>5

LEMMA UnpartsAre ==
    ASSUME NEW S, NEW b, NEW us \in Seq(UnpartsOf(S))
    PROVE  /\ IsList(Unparts(us, b)) /\ Unparts(us, b) # <<>>
           /\ \/ Head(Unparts(us, b)) = <<"unrecord", b>> /\ Tail(Unparts(us, b)) = <<>>
              \/ \E c \in S, qs \in Seq(UnpartsOf(S)) :
                    Head(Unparts(us, b)) = <<"unpart", c>> /\ Tail(Unparts(us, b)) = Unparts(qs, b)
<1> DEFINE z == Then(<<"unrecord", b>>, <<>>)
           U == UnpartsOf(S)
<1>1. IsList(z) /\ z # <<>> /\ Head(z) = <<"unrecord", b>> /\ Tail(z) = <<>>
  BY Lists, ThenList
<1>2. us \in Seq(U)
  OBVIOUS
<1>3. \A u \in U : \E c \in S : u = <<"unpart", c>>
  BY DEF UnpartsOf
<1>4. \A qs : Unparts(qs, b) = qs \o z
  BY DEF Unparts
<1> SUFFICES /\ IsList(Unparts(us, b)) /\ Unparts(us, b) # <<>>
             /\ \/ Head(Unparts(us, b)) = <<"unrecord", b>> /\ Tail(Unparts(us, b)) = <<>>
                \/ \E c \in S, qs \in Seq(U) :
                      Head(Unparts(us, b)) = <<"unpart", c>> /\ Tail(Unparts(us, b)) = Unparts(qs, b)
  OBVIOUS
<1> HIDE DEF z, U
<1>5. /\ IsList(us \o z)
      /\ us # <<>> => /\ us \o z # <<>>
                      /\ Head(us \o z) = Head(us) /\ Tail(us \o z) = Tail(us) \o z
                      /\ Head(us) \in U /\ Tail(us) \in Seq(U)
      /\ us = <<>> => us \o z = z
  BY <1>1, <1>2, ListBefore
<1>6. CASE us = <<>>
  BY <1>1, <1>4, <1>5, <1>6
<1>7. CASE us # <<>>
  <2>1. PICK c \in S : Head(us) = <<"unpart", c>>
    BY <1>3, <1>5, <1>7
  <2>2. QED
    BY <1>4, <1>5, <1>7, <2>1
<1>8. QED
  BY <1>6, <1>7

\* What stays true of an install while it goes on.
LEMMA Persists ==
    ASSUME Types, Kept, todo' # <<>>, History, records' = records, NEW b, Installing(b), job.before \subseteq InstalledSet'
    PROVE  /\ Installing(b)' /\ Applied' = Applied
           /\ job'.given = job.given /\ job'.before = job.before /\ job'.refresh = job.refresh
           /\ \A c : Ours(c) => Ours(c)'
<1>1. /\ job'.op = job.op /\ job'.bundle = job.bundle /\ job'.ver = job.ver /\ job'.refresh = job.refresh
      /\ job'.done = job.done /\ job'.given = job.given /\ job'.before = job.before
  BY DEF Kept
<1>2. Recorded' = Recorded /\ Applied' = Applied
  BY <1>1 DEF Recorded, Applied
<1>3. mine' \subseteq mine /\ excused \subseteq excused'
  BY Histories DEF Installing
<1>4. \A c : Ours(c) => Ours(c)'
  BY <1>1, <1>2, <1>3 DEF Ours
<1>5. Installing(b)'
  BY <1>1, <1>2, <1>3, <1>4 DEF Installing
<1>6. QED
  BY <1>1, <1>2, <1>4, <1>5

\* A step that changes nothing.
LEMMA StillGoesOn ==
    ASSUME Types, Types', Still, Kept, todo' # <<>>, History, records' = records, NEW b, Installing(b)
    PROVE  /\ Installing(b)' /\ Applied' = Applied /\ Safe
           /\ \A C : Inside(C) => Inside(C)'
           /\ GivenThere => GivenThere'
           /\ \A c : Ours(c) => Ours(c)'
<1>1. InstalledSet' = InstalledSet /\ Usable' = Usable
  BY NoneChanges
<1>2. job.before \subseteq InstalledSet'
  BY <1>1 DEF Installing
<1>3. /\ Installing(b)' /\ Applied' = Applied
      /\ job'.given = job.given /\ job'.before = job.before
      /\ \A c : Ours(c) => Ours(c)'
  BY <1>2, Persists
<1>4. \A C : Inside(C) => Inside(C)'
  BY <1>1, <1>3 DEF Inside
<1>5. GivenThere => GivenThere'
  BY <1>1, <1>3, Histories DEF GivenThere
<1>6. QED
  BY <1>1, <1>3, <1>4, <1>5 DEF Safe

\* A step that changes what the install has put there, or what stays installed.
LEMMA OneGoesOn ==
    ASSUME Types, Types', NEW c \in Components, Only(c), Kept, todo' # <<>>, History, records' = records,
           NEW b, Installing(b),
           Ours(c) \/ (Installed(c)' /\ (c \in Usable => c \in Usable' \/ faults' # faults))
    PROVE  /\ Installing(b)' /\ Applied' = Applied /\ Safe
           /\ Inside({c}) => Inside({c})' /\ (~Installed(c)' => Inside({})')
           /\ Inside({}) /\ Installed(c) => Inside({})'
           /\ GivenThere /\ (c \in job.given => c \in excused) => GivenThere' /\ (c \in job'.given => c \in excused')
           /\ GivenThere /\ (c \in Usable => c \in Usable' \/ faults' # faults) => GivenThere'
           /\ Ours(c) => Ours(c)'
<1>1. /\ InstalledSet' \ {c} = InstalledSet \ {c} /\ Usable' \ {c} = Usable \ {c}
      /\ (c \in InstalledSet' <=> Installed(c)') /\ (c \in InstalledSet <=> Installed(c))
  BY OneChanges
<1>2. job.before \subseteq InstalledSet'
  BY <1>1 DEF Installing, Ours
<1>3. /\ Installing(b)' /\ Applied' = Applied
      /\ job'.given = job.given /\ job'.before = job.before
      /\ \A d : Ours(d) => Ours(d)'
  BY <1>2, Persists
<1>4. Inside({c}) => Inside({c})' /\ (~Installed(c)' => Inside({})')
  BY <1>1, <1>3 DEF Inside
<1>5. Inside({}) /\ Installed(c) => Inside({})'
  BY <1>1, <1>3 DEF Inside
<1>6. excused \subseteq excused' /\ (faults' # faults => Usable \ Usable' \subseteq excused')
  BY Histories
<1>7. GivenThere /\ (c \in job.given => c \in excused) => GivenThere' /\ (c \in job'.given => c \in excused')
  BY <1>1, <1>3, <1>6 DEF GivenThere
<1>8. GivenThere /\ (c \in Usable => c \in Usable' \/ faults' # faults) => GivenThere'
  BY <1>1, <1>3, <1>6 DEF GivenThere
<1>9. Usable \ Usable' \subseteq {c} /\ (c \in Usable \ Usable' => Ours(c) \/ faults' # faults)
  BY <1>1
<1>10. Safe
  BY <1>6, <1>9 DEF Safe, Ours
<1>11. QED
  BY <1>3, <1>4, <1>5, <1>7, <1>8, <1>10

\* A command that has been killed, or has ended.
LEMMA AfterDeath ==
    ASSUME Types, Died
    PROVE  Safe /\ Phase'
<1>1. faults' # faults
  BY DEF Died, Types
<1>2. QED
  BY <1>1 DEF Died, Safe, Phase, Idle

LEMMA RunningAfter ==
    ASSUME NEW b \in Bundles, todo' # <<>>,
           InstallPhase(b)' \/ Dropping(b)' \/ (\E c \in Components : Freeing(b, c)')
    PROVE  Phase'
  BY DEF Phase, Running, Idle

-----------------------------------------------------------------------------
(* The steps of a bundle's command *)

\* What every step is to do.
Well == Types' /\ RecordTypes' /\ Claims' /\ Safe /\ Phase'

LEMMA WellAfter ==
    ASSUME Types, Types', RecordTypes, Claims, History, records' = records, Died \/ (Safe /\ Phase')
    PROVE  Well
  BY AfterStep, AfterDeath DEF Well

LEMMA ToTryStep ==
    ASSUME Types, RecordTypes, Claims, Step, History, NEW b \in Bundles, ToTry(b)
    PROVE  Well
<1>1. PICK ps \in Seq(PartSteps) : todo = Then(<<"try", <<ps, <<<<"unwind", b>>>>>>>>, Recording(b))
  BY DEF ToTry
<1>2. Head(todo) = <<"try", <<ps, <<<<"unwind", b>>>>>>>> /\ Tail(todo) = Recording(b)
  BY <1>1, Lists, ThenList
<1>3. /\ Types'
      /\ \/ Died
         \/ /\ Still /\ Kept /\ Steady /\ faults' = faults
            /\ todo' = (ps \o <<<<"end", {}>>>>) \o Tail(todo)
            /\ handlers' = <<<<<<"unwind", b>>>> \o Tail(todo)>> \o handlers
  BY <1>2, TryStep
<1>4. records' = records
  BY <1>2, RecordsKept
<1>5. (ps \o <<<<"end", {}>>>>) \o Recording(b) = Parts(ps, b)
  BY Lists, BodyThen DEF Parts, End
<1>6. <<<<<<"unwind", b>>>> \o Recording(b)>> \o <<>> = Except(b)
  BY DEF Except, Unwinds, Then
<1>7. ASSUME Still, Kept, Steady, todo' = Parts(ps, b), handlers' = Except(b)
      PROVE  Safe /\ Phase'
  <2>1. todo' # <<>>
    BY <1>7, PartsAre
  <2>2. Installing(b)' /\ Safe /\ GivenThere' /\ Inside({})'
    BY <1>3, <1>4, <1>7, <2>1, StillGoesOn DEF ToTry
  <2>3. Fresh'
    BY <1>7, Annotated DEF ToTry
  <2>4. Placing(b)'
    BY <1>7, <2>2, <2>3 DEF Placing
  <2>5. QED
    BY <2>1, <2>2, <2>4, RunningAfter DEF InstallPhase
<1>8. handlers = <<>>
  BY DEF ToTry
<1>9. QED
  BY <1>2, <1>3, <1>4, <1>5, <1>6, <1>7, <1>8, WellAfter

LEMMA PlacedStep ==
    ASSUME Types, RecordTypes, Claims, Step, History, NEW b \in Bundles, Placing(b),
           Head(todo) = End, Tail(todo) = Recording(b)
    PROVE  Well
<1>1. /\ Types'
      /\ \/ Died
         \/ Still /\ Kept /\ Steady /\ todo' = Recording(b) /\ handlers' = Tail(Except(b))
  <2>1. Head(todo)[1] = "end" /\ handlers = Except(b)
    BY DEF Placing, End
  <2>2. QED
    BY <2>1, EndStep
<1>2. records' = records
  BY RecordsKept DEF End
<1>3. ASSUME Still, Kept, todo' = Recording(b), handlers' = Tail(Except(b))
      PROVE  Safe /\ Phase'
  <2>1. todo' # <<>> /\ handlers' = <<>>
    BY <1>3, Lists
  <2>2. Installing(b)' /\ Safe /\ GivenThere'
    BY <1>1, <1>2, <1>3, <2>1, StillGoesOn DEF Placing
  <2>3. ToRecord(b)'
    BY <1>3, <2>1, <2>2 DEF ToRecord
  <2>4. QED
    BY <2>1, <2>2, <2>3, RunningAfter DEF InstallPhase
<1>4. QED
  BY <1>1, <1>2, <1>3, WellAfter

\* Only two steps write records.
LEMMA RecordsStay ==
    ASSUME Step, Head(todo)[1] \notin {"record", "unrecord"}
    PROVE  records' = records
  BY WhichStep DEF BundleStep, Part, Did, Unwind, Record, Unpart, Unrecord, In

\* A list of steps of one component's command.
LEMMA StepsAreLists ==
    ASSUME NEW c \in Components
    PROVE  (\E S : InstallOf(c) \in Seq(S)) /\ (\E S : RemovalOf(c) \in Seq(S))
<1>1. CASE c \in Presets
  <2>1. InstallPreset(c, Priority) \in Seq({<<"check", <<c, Priority>>>>}) /\ RemovePreset(c) \in Seq({<<"remove", c>>})
    BY DEF InstallPreset, RemovePreset
  <2>2. QED
    BY <1>1, <2>1, OneKind
<1>2. CASE c = Extension
  <2>1. InstallExtension \in Seq({<<"extend", TRUE>>}) /\ RemoveExtension \in Seq({<<"extend", FALSE>>})
    BY DEF InstallExtension, RemoveExtension
  <2>2. QED
    BY <1>2, <2>1, OneKind
<1>3. CASE c \in Workflows
  <2>1. /\ AddWorkflow(c) \in Seq({<<"fetch_workflow", c>>, <<"enter_workflow", c>>})
        /\ RemoveWorkflow(c) \in Seq({<<"remove_workflow", c>>})
    BY DEF AddWorkflow, RemoveWorkflow
  <2>2. QED
    BY <1>3, <2>1, OneKind
<1>4. CASE c \in StepTypes
  <2>1. /\ AddStepType(c) \in Seq({<<"fetch_step", c>>, <<"enter_step", c>>})
        /\ RemoveStepType(c) \in Seq({<<"remove_step", c>>})
    BY DEF AddStepType, RemoveStepType
  <2>2. QED
    BY <1>4, <2>1, OneKind
<1>5. QED
  BY <1>1, <1>2, <1>3, <1>4 DEF Components

\* An install that begins has steps to take.
LEMMA InstallGoes ==
    ASSUME NEW c \in Components, NEW z, IsList(z), todo' = InstallOf(c) \o z
    PROVE  todo' # <<>>
<1>1. IsList(Then(<<"enter_workflow", c>>, z)) /\ IsList(Then(<<"enter_step", c>>, z))
  BY ThenList
<1>2. /\ Then(<<"check", <<c, Priority>>>>, z) # <<>> /\ Then(<<"extend", TRUE>>, z) # <<>>
      /\ Then(<<"fetch_workflow", c>>, Then(<<"enter_workflow", c>>, z)) # <<>>
      /\ Then(<<"fetch_step", c>>, Then(<<"enter_step", c>>, z)) # <<>>
  BY <1>1, ThenList
<1>3. QED
  BY <1>2, InstallSteps DEF Components

LEMMA RemovalGoes ==
    ASSUME NEW c \in Components, NEW z, IsList(z)
    PROVE  RemovalOf(c) \o z # <<>>
<1>1. \A x : <<x>> \o z # <<>>
  BY ThenList DEF Then
<1>2. QED
  BY <1>1, OneKind DEF Components, RemovePreset, RemoveExtension, RemoveWorkflow, RemoveStepType

\* Part: a component that is there.
LEMMA PartThere ==
    ASSUME Types, Types', RecordTypes, Claims, History, records' = records, NEW b \in Bundles, NEW c \in Components,
           NEW ps \in Seq(PartSteps), Placing(b), Installed(c), BundleOnly, faults' = faults, handlers' = handlers,
           todo' = (IF job.refresh /\ Owned(b, c) THEN InstallOf(c) ELSE <<>>) \o Parts(ps, b),
           job' = [job EXCEPT !.given = IF Owned(b, c) THEN @ \cup {c} ELSE @]
    PROVE  Safe /\ Phase'
<1>1. InstalledSet' = InstalledSet /\ Usable' = Usable
  BY BundleOnlyChanges DEF Types
<1>2. mine' = mine /\ excused' = excused
  BY <1>1, Histories
<1>3. Owned(b, c) => c \in Recorded
  BY DEF Owned, StillNeeded, Recorded
<1>4. /\ job'.op = job.op /\ job'.bundle = job.bundle /\ job'.ver = job.ver /\ job'.before = job.before
      /\ job'.done = job.done /\ job'.unwound = job.unwound
      /\ job'.given = IF Owned(b, c) THEN job.given \cup {c} ELSE job.given
  BY DEF Types, Job
<1>5. Recorded' = Recorded /\ Applied' = Applied
  BY <1>4 DEF Recorded, Applied
<1>6. Installing(b)'
  <2>1. IsFiniteSet(job'.given)
    <3>1. IsFiniteSet(job.given)
      BY DEF Placing, Installing
    <3>2. IsFiniteSet(job.given \cup {c})
      BY <3>1, FS_AddElement
    <3>3. QED
      BY <1>4, <3>1, <3>2
  <2>2. job'.given \cap mine' = {}
    BY <1>2, <1>3, <1>4 DEF Placing, Installing, Claims
  <2>3. \A d : Ours(d) => Ours(d)'
    BY <1>2, <1>4, <1>5 DEF Ours
  <2>4. QED
    BY <1>1, <1>4, <1>5, <2>1, <2>2, <2>3 DEF Placing, Installing
<1>7. GivenThere'
  BY <1>1, <1>2, <1>3, <1>4 DEF Placing, GivenThere, Claims
<1>8. Inside({})' /\ Fresh' /\ Safe
  BY <1>1, <1>4, <1>5 DEF Placing, Inside, Fresh, Safe
<1>9. handlers' = Except(b) /\ IsList(Parts(ps, b)) /\ Parts(ps, b) # <<>>
  BY PartsAre DEF Placing
<1>10. CASE job.refresh /\ Owned(b, c)
  <2>1. todo' = InstallOf(c) \o Parts(ps, b)
    BY <1>10
  <2>2. todo' # <<>>
    BY <1>9, <2>1, InstallGoes
  <2>3. Installed(c)'
    BY <1>1 DEF InstalledSet
  <2>4. Refreshing(c, Parts(ps, b), Except(b))'
    BY <1>8, <1>9, <2>1, <2>3, RefreshingBegins
  <2>5. Renewing(b, c)'
    BY <1>6, <1>7, <1>8, <2>4 DEF Renewing
  <2>6. QED
    BY <1>8, <2>2, <2>5, RunningAfter DEF InstallPhase
<1>11. CASE ~(job.refresh /\ Owned(b, c))
  <2>1. todo' = Parts(ps, b)
    BY <1>9, <1>11, StepsThen
  <2>2. Placing(b)'
    BY <1>6, <1>7, <1>8, <1>9, <2>1 DEF Placing
  <2>3. QED
    BY <1>8, <1>9, <2>1, <2>2, RunningAfter DEF InstallPhase
<1>12. QED
  BY <1>10, <1>11

\* Part: a component that is not there.
LEMMA PartMissing ==
    ASSUME Types, Types', RecordTypes, Claims, History, records' = records, NEW b \in Bundles, NEW c \in Components,
           NEW ps \in Seq(PartSteps), Placing(b), ~Installed(c), BundleOnly, faults' = faults, handlers' = handlers,
           todo' = (InstallOf(c) \o <<<<"did", c>>>>) \o Parts(ps, b), job' = job
    PROVE  Safe /\ Phase'
<1> DEFINE z == Then(<<"did", c>>, Parts(ps, b))
<1>1. InstalledSet' = InstalledSet /\ Usable' = Usable
  BY BundleOnlyChanges DEF Types
<1>2. mine' = mine /\ excused' = excused
  BY <1>1, Histories
<1>3. Recorded' = Recorded /\ Applied' = Applied
  BY DEF Recorded, Applied
<1>4. \A d : Ours(d) => Ours(d)'
  BY <1>2, <1>3 DEF Ours
<1>5. Installing(b)' /\ GivenThere' /\ Inside({})' /\ Fresh' /\ Safe
  BY <1>1, <1>2, <1>3, <1>4 DEF Placing, Installing, GivenThere, Inside, Fresh, Safe
<1>6. c \notin InstalledSet /\ c \notin Usable
  BY DEF InstalledSet, Usable
<1>7. Ours(c)
  BY <1>6 DEF Ours, Placing, Installing, Claims
<1>8. c \in job.given => c \in excused
  BY <1>6 DEF Placing, GivenThere
<1>9. IsList(Parts(ps, b)) /\ IsList(z)
  BY PartsAre, ThenList
<1>10. todo' = InstallOf(c) \o z
  <2>1. PICK S : InstallOf(c) \in Seq(S)
    BY StepsAreLists
  <2>2. QED
    BY <1>9, <2>1, BodyThen
<1>11. New(c)'
  BY <1>1, <1>6 DEF New, InstalledSet
<1>12. handlers' = Except(b)
  BY DEF Placing
<1> HIDE DEF z
<1>13. Making(c, z, Except(b))' /\ todo' # <<>>
  BY <1>5, <1>9, <1>10, <1>11, <1>12, MakingBegins, InstallGoes
<1>14. Inside({c})'
  BY <1>5 DEF Inside
<1>15. Adding(b, c)'
  BY <1>2, <1>4, <1>5, <1>7, <1>8, <1>13, <1>14 DEF Adding, z
<1>16. QED
  BY <1>5, <1>13, <1>15, RunningAfter DEF InstallPhase

LEMMA PlacingStep ==
    ASSUME Types, RecordTypes, Claims, Step, History, NEW b \in Bundles, Placing(b)
    PROVE  Well
<1>1. PICK ps \in Seq(PartSteps) : todo = Parts(ps, b)
  BY DEF Placing
<1>2. CASE Head(todo) = End /\ Tail(todo) = Recording(b)
  BY <1>2, PlacedStep
<1>3. ASSUME NEW c \in Components, NEW qs \in Seq(PartSteps), Head(todo) = <<"part", c>>, Tail(todo) = Parts(qs, b)
      PROVE  Well
  <2>1. Head(todo)[1] = "part" /\ arg = c
    BY <1>3 DEF arg
  <2>2. records' = records
    BY <2>1, RecordsStay
  <2>3. job.bundle = b
    BY DEF Placing, Installing
  <2>4. CASE Kill /\ UNCHANGED workflowVars
    BY <2>2, <2>4, Kills, WellAfter
  <2>5. CASE Part /\ Installed(c)
    <3>1. /\ Do(IF job.refresh /\ Owned(b, c) THEN InstallOf(c) ELSE <<>>,
                [job EXCEPT !.given = IF Owned(b, c) THEN @ \cup {c} ELSE @])
          /\ BundleOnly
      BY <2>1, <2>3, <2>5 DEF Part
    <3>2. todo' = (IF job.refresh /\ Owned(b, c) THEN InstallOf(c) ELSE <<>>) \o Parts(qs, b)
      BY <1>3, <3>1 DEF Do
    <3>3. todo' # <<>>
      BY <3>2, PartsAre, InstallGoes, StepsThen
    <3>4. /\ job' = [job EXCEPT !.given = IF Owned(b, c) THEN @ \cup {c} ELSE @]
          /\ faults' = faults /\ handlers' = handlers
      BY <3>1, <3>3 DEF Do, Remember
    <3>5. job' \in Job
      BY <3>4 DEF Types, Job
    <3>6. Types'
      BY <3>1, <3>4, <3>5, BundleOnlyChanges
    <3>7. Safe /\ Phase'
      BY <1>3, <2>2, <2>5, <3>1, <3>2, <3>4, <3>6, PartThere
    <3>8. QED
      BY <2>2, <3>6, <3>7, WellAfter
  <2>6. CASE Part /\ ~Installed(c)
    <3>1. Do(InstallOf(c) \o <<<<"did", c>>>>, job) /\ BundleOnly
      BY <2>1, <2>6 DEF Part
    <3>2. todo' = (InstallOf(c) \o <<<<"did", c>>>>) \o Parts(qs, b)
      BY <1>3, <3>1 DEF Do
    <3>3. todo' # <<>>
      <4> DEFINE z == Then(<<"did", c>>, Parts(qs, b))
      <4>1. IsList(Parts(qs, b)) /\ IsList(z)
        BY PartsAre, ThenList
      <4>2. PICK S : InstallOf(c) \in Seq(S)
        BY StepsAreLists
      <4>3. todo' = InstallOf(c) \o z
        BY <3>2, <4>1, <4>2, BodyThen
      <4> HIDE DEF z
      <4>4. QED
        BY <4>1, <4>3, InstallGoes
    <3>4. job' = job /\ faults' = faults /\ handlers' = handlers
      BY <3>1, <3>3 DEF Do, Remember
    <3>5. Types'
      BY <3>1, <3>4, BundleOnlyChanges DEF Types
    <3>6. Safe /\ Phase'
      BY <1>3, <2>2, <2>6, <3>1, <3>2, <3>4, <3>5, PartMissing
    <3>7. QED
      BY <2>2, <3>5, <3>6, WellAfter
  <2>7. QED
    BY <2>1, <2>4, <2>5, <2>6, WhichStep
<1>4. QED
  BY <1>1, <1>2, <1>3, PartsAre

LEMMA Prepended ==
    ASSUME NEW S, NEW s \in Seq(S), NEW x \in S
    PROVE  <<x>> \o s \in Seq(S) /\ Elements(<<x>> \o s) = {x} \cup Elements(s)
<1> DEFINE t == <<x>> \o s
<1>1. <<x>> \in Seq(S)
  OBVIOUS
<1>2. t \in Seq(S) /\ Len(t) = Len(s) + 1 /\ Len(s) \in Nat
  BY <1>1
<1>3. t[1] = x /\ \A i \in 1..Len(s) : t[i + 1] = s[i]
  BY <1>1
<1> HIDE DEF t
<1>4. Elements(t) \subseteq {x} \cup Elements(s)
  <2>1. ASSUME NEW i \in 1..Len(t)
        PROVE  t[i] \in {x} \cup Elements(s)
    <3>1. CASE i = 1
      BY <1>3, <3>1
    <3>2. CASE i # 1
      <4>1. i - 1 \in 1..Len(s) /\ (i - 1) + 1 = i
        BY <1>2, <3>2
      <4>2. t[i] = s[i - 1]
        BY <1>3, <4>1
      <4>3. QED
        BY <4>1, <4>2 DEF Elements
    <3>3. QED
      BY <3>1, <3>2
  <2>2. QED
    BY <2>1 DEF Elements
<1>5. {x} \cup Elements(s) \subseteq Elements(t)
  <2>1. 1 \in 1..Len(t) /\ \A i \in 1..Len(s) : i + 1 \in 1..Len(t)
    BY <1>2
  <2>2. QED
    BY <1>3, <2>1 DEF Elements
<1>6. QED
  BY <1>2, <1>4, <1>5 DEF t

LEMMA NewestFirst ==
    ASSUME NEW S, NEW s \in Seq(S), s # <<>>
    PROVE  Head(s) \in S /\ Tail(s) \in Seq(S) /\ Elements(s) = {Head(s)} \cup Elements(Tail(s))
<1>1. Head(s) \in S /\ Tail(s) \in Seq(S)
  BY HeadTailProperties
<1>2. s = <<Head(s)>> \o Tail(s)
  OBVIOUS
<1>3. Elements(<<Head(s)>> \o Tail(s)) = {Head(s)} \cup Elements(Tail(s))
  BY <1>1, Prepended
<1>4. QED
  BY <1>1, <1>2, <1>3

\* Did: the component has been installed.
LEMMA DidStep ==
    ASSUME Types, RecordTypes, Claims, Step, History, NEW b \in Bundles, NEW c \in Components, Adding(b, c),
           NEW ps \in Seq(PartSteps), Head(todo) = <<"did", c>>, Tail(todo) = Parts(ps, b), handlers = Except(b),
           Fresh, c \in Usable
    PROVE  Well
<1>1. Head(todo)[1] = "did" /\ arg = c
  BY DEF arg
<1>2. records' = records
  BY <1>1, RecordsStay
<1>3. CASE Kill /\ UNCHANGED workflowVars
  BY <1>2, <1>3, Kills, WellAfter
<1>4. CASE Did
  <2>1. Go([job EXCEPT !.done = <<c>> \o @, !.given = @ \cup {c}]) /\ BundleOnly
    BY <1>1, <1>4 DEF Did
  <2>2. todo' = Parts(ps, b) /\ todo' # <<>>
    BY <2>1, PartsAre DEF Go
  <2>3. /\ job' = [job EXCEPT !.done = <<c>> \o @, !.given = @ \cup {c}]
        /\ faults' = faults /\ handlers' = handlers
    BY <2>1, <2>2 DEF Go, Remember
  <2>4. job.done \in Seq(Components) /\ job.given \subseteq Components
    BY DEF Types, Job
  <2>5. <<c>> \o job.done \in Seq(Components) /\ Elements(<<c>> \o job.done) = {c} \cup Applied
    BY <2>4, Prepended DEF Applied
  <2>6. /\ job'.op = job.op /\ job'.bundle = job.bundle /\ job'.ver = job.ver /\ job'.before = job.before
        /\ job'.done = <<c>> \o job.done /\ job'.given = job.given \cup {c} /\ job'.unwound = job.unwound
    BY <2>3 DEF Types, Job
  <2>7. job' \in Job
    BY <2>3, <2>4, <2>5 DEF Types, Job
  <2>8. Types' /\ InstalledSet' = InstalledSet /\ Usable' = Usable
    BY <2>1, <2>3, <2>7, BundleOnlyChanges
  <2>9. mine' = mine /\ excused' = excused
    BY <2>8, Histories
  <2>10. Recorded' = Recorded /\ Applied' = {c} \cup Applied
    BY <1>2, <2>5, <2>6 DEF Recorded, Applied
  <2>11. \A d : Ours(d) => Ours(d)'
    BY <2>6, <2>9, <2>10 DEF Ours
  <2>12. Ours(c) /\ Installing(b) /\ GivenThere /\ Inside({c})
    BY DEF Adding
  <2>13. Installing(b)'
    <3>1. IsFiniteSet(job.given)
      BY <2>12 DEF Installing
    <3>2. IsFiniteSet(job.given \cup {c})
      BY <3>1, FS_AddElement
    <3>3. job'.given \cap mine' = {}
      BY <2>6, <2>9, <2>12 DEF Installing, Ours
    <3>4. \A d \in Applied' : Ours(d)'
      BY <2>10, <2>11, <2>12 DEF Installing
    <3>5. QED
      BY <2>6, <2>8, <2>12, <3>2, <3>3, <3>4 DEF Installing
  <2>14. GivenThere' /\ Inside({})'
    BY <2>6, <2>8, <2>9, <2>10, <2>12 DEF GivenThere, Inside
  <2>15. Fresh' /\ Safe
    BY <2>6, <2>8 DEF Fresh, Safe
  <2>16. Placing(b)'
    BY <2>2, <2>3, <2>13, <2>14, <2>15 DEF Placing
  <2>17. Phase'
    BY <2>2, <2>16, RunningAfter DEF InstallPhase
  <2>18. QED
    BY <1>2, <2>8, <2>15, <2>17, WellAfter
<1>5. QED
  BY <1>1, <1>3, <1>4, WhichStep

\* A command of a component that has nothing left to do is at what follows it.
Ends ==
    \A c \in Components : \A z, H : IsList(z) /\ IsList(H) =>
       /\ Making(c, z, H) => todo # <<>> \/ (todo = z /\ handlers = H)
       /\ Refreshing(c, z, H) => todo # <<>> \/ todo = z
       /\ Removing(c, z, H) => todo # <<>> \/ (todo = z /\ handlers = H)

LEMMA GoingOn ==
    ASSUME NEW c \in Components, NEW z, IsList(z), NEW H, IsList(H)
    PROVE  /\ Making(c, z, H)' => todo' # <<>> \/ (todo' = z /\ handlers' = H)
           /\ Refreshing(c, z, H)' => todo' # <<>> \/ todo' = z
           /\ Removing(c, z, H)' => todo' # <<>> \/ (todo' = z /\ handlers' = H)
<1>1. Ends'
  <2>1. Ends
    BY MakingHead, RefreshingHead, RemovingHead DEF Ends, Busy
  <2>2. QED
    BY <2>1, PTL
<1>2. QED
  BY <1>1 DEF Ends

LEMMA ThrewToUnwind ==
    ASSUME NEW b \in Bundles, ThrewTo(Except(b)), Installing(b)', Left({})', Safe
    PROVE  todo' # <<>> /\ Safe /\ Phase'
<1>1. todo' = Unwinds(b) /\ handlers' = <<>> /\ todo' # <<>> /\ (Fresh' \/ Failing')
  BY Lists DEF ThrewTo
<1>2. ToUnwind(b)'
  BY <1>1 DEF ToUnwind
<1>3. QED
  BY <1>1, <1>2, RunningAfter DEF InstallPhase

LEMMA AddingStep ==
    ASSUME Types, RecordTypes, Claims, Step, History, NEW b \in Bundles, NEW c \in Components, Adding(b, c)
    PROVE  Well
<1>1. PICK ps \in Seq(PartSteps) : Making(c, Then(<<"did", c>>, Parts(ps, b)), Except(b))
  BY DEF Adding
<1> DEFINE z == Then(<<"did", c>>, Parts(ps, b))
<1>2. IsList(z) /\ z # <<>> /\ Head(z) = <<"did", c>> /\ Tail(z) = Parts(ps, b) /\ IsList(Except(b))
  BY PartsAre, ThenList, Lists
<1>3. Installing(b) /\ GivenThere /\ Inside({c}) /\ Ours(c) /\ (c \in job.given => c \in excused)
  BY DEF Adding
<1>4. Making(c, z, Except(b))
  BY <1>1
<1>5. ASSUME Making(c, z, Except(b))'
      PROVE  \E qs \in Seq(PartSteps) : Making(c, Then(<<"did", c>>, Parts(qs, b)), Except(b))'
  BY <1>5
<1> HIDE DEF z
<1>6. CASE todo = z /\ handlers = Except(b) /\ Fresh /\ c \in Usable
  BY <1>2, <1>6, DidStep
<1>7. CASE Busy(Except(b))
  <2>1. records' = records
    BY <1>7, RecordsKept DEF Busy
  <2>2. todo # z
    BY <1>2, <1>7 DEF Busy
  <2>3. Types' /\ (Died \/ MakingGoesOn(c, z, Except(b)))
    BY <1>2, <1>4, <2>2, MakingStep
  <2>4. ASSUME MakingGoesOn(c, z, Except(b))
        PROVE  Safe /\ Phase'
    <3>1. Only(c) /\ Kept /\ ((ThrewTo(Except(b)) /\ Gone(c)') \/ Making(c, z, Except(b))')
      BY <2>4 DEF MakingGoesOn
    <3>2. todo' # <<>>
      <4>1. ThrewTo(Except(b)) => todo' # <<>>
        BY Lists DEF ThrewTo
      <4>2. Making(c, z, Except(b))' => todo' # <<>>
        BY <1>2, GoingOn
      <4>3. QED
        BY <3>1, <4>1, <4>2
    <3>3. /\ Installing(b)' /\ Safe /\ Inside({c})' /\ (~Installed(c)' => Inside({})')
          /\ GivenThere' /\ (c \in job'.given => c \in excused') /\ Ours(c)'
      BY <1>3, <2>1, <2>3, <3>1, <3>2, OneGoesOn
    <3>4. CASE ThrewTo(Except(b)) /\ Gone(c)'
      <4>1. Left({})'
        BY <3>3, <3>4 DEF Gone, New, Installing, Left
      <4>2. QED
        BY <3>3, <3>4, <4>1, ThrewToUnwind
    <3>5. CASE Making(c, z, Except(b))'
      <4>1. Adding(b, c)'
        BY <1>5, <3>3, <3>5 DEF Adding
      <4>2. QED
        BY <3>2, <3>3, <4>1, RunningAfter DEF InstallPhase
    <3>6. QED
      BY <3>1, <3>4, <3>5
  <2>5. QED
    BY <2>1, <2>3, <2>4, WellAfter
<1>8. QED
  BY <1>2, <1>4, <1>6, <1>7, MakingHead

LEMMA RenewingStep ==
    ASSUME Types, RecordTypes, Claims, Step, History, NEW b \in Bundles, NEW c \in Components, Renewing(b, c)
    PROVE  Well
<1>1. PICK ps \in Seq(PartSteps) : Refreshing(c, Parts(ps, b), Except(b))
  BY DEF Renewing
<1> DEFINE z == Parts(ps, b)
<1>2. IsList(z) /\ z # <<>> /\ IsList(Except(b))
  BY PartsAre, Lists
<1>3. Installing(b) /\ GivenThere /\ Inside({})
  BY DEF Renewing
<1>4. Refreshing(c, z, Except(b)) /\ handlers = Except(b) /\ Fresh /\ Installed(c)
  BY <1>1 DEF Refreshing
<1>5. ASSUME Refreshing(c, z, Except(b))'
      PROVE  \E qs \in Seq(PartSteps) : Refreshing(c, Parts(qs, b), Except(b))'
  BY <1>5
<1>6. CASE todo = z
  <2>1. Placing(b)
    BY <1>3, <1>4, <1>6 DEF Placing
  <2>2. QED
    BY <2>1, PlacingStep
<1> HIDE DEF z
<1>7. CASE todo # z
  <2>1. Busy(Except(b))
    BY <1>2, <1>4, <1>7, RefreshingHead
  <2>2. records' = records
    BY <2>1, RecordsKept DEF Busy
  <2>3. Types' /\ (Died \/ RefreshingGoesOn(c, z, Except(b)))
    BY <1>2, <1>4, <1>7, RefreshingStep
  <2>4. ASSUME RefreshingGoesOn(c, z, Except(b))
        PROVE  Safe /\ Phase'
    <3>1. /\ Only(c) /\ Kept /\ Installed(c)' /\ (c \in Usable => c \in Usable' \/ faults' # faults)
          /\ ThrewTo(Except(b)) \/ Refreshing(c, z, Except(b))'
      BY <2>4 DEF RefreshingGoesOn
    <3>2. todo' # <<>>
      <4>1. ThrewTo(Except(b)) => todo' # <<>>
        BY Lists DEF ThrewTo
      <4>2. Refreshing(c, z, Except(b))' => todo' # <<>>
        BY <1>2, GoingOn
      <4>3. QED
        BY <3>1, <4>1, <4>2
    <3>3. Installing(b)' /\ Safe /\ Inside({})' /\ GivenThere'
      BY <1>3, <1>4, <2>2, <2>3, <3>1, <3>2, OneGoesOn
    <3>4. CASE ThrewTo(Except(b))
      BY <3>3, <3>4, ThrewToUnwind DEF Left
    <3>5. CASE Refreshing(c, z, Except(b))'
      <4>1. Renewing(b, c)'
        BY <1>5, <3>3, <3>5 DEF Renewing
      <4>2. QED
        BY <3>2, <3>3, <4>1, RunningAfter DEF InstallPhase
    <3>6. QED
      BY <3>1, <3>4, <3>5
  <2>5. QED
    BY <2>2, <2>3, <2>4, WellAfter
<1>8. QED
  BY <1>6, <1>7

\* A command of a bundle that has nothing more to do, or fails, has ended.
LEMMA LastStep ==
    ASSUME Types, Tail(todo) = <<>>, handlers = <<>>, BundleOnly, Go(job) \/ (Fault /\ Die) \/ Stop
    PROVE  Types' /\ Usable' = Usable /\ Safe /\ Phase'
<1>1. todo' = <<>> /\ handlers' = <<>> /\ job' = NoJob /\ faults' \in {faults, faults + 1}
  BY DEF Go, Die, Fault, Stop, Raise, Caught, Remember
<1>2. Types' /\ Usable' = Usable
  BY <1>1, JobTypes, BundleOnlyChanges
<1>3. QED
  BY <1>1, <1>2 DEF Safe, Phase, Idle

LEMMA ToRecordStep ==
    ASSUME Types, RecordTypes, Claims, Step, History, NEW b \in Bundles, ToRecord(b)
    PROVE  Well
<1>1. Installing(b) /\ GivenThere /\ handlers = <<>> /\ todo = Recording(b)
  BY DEF ToRecord
<1>2. Head(todo) = <<"record", b>> /\ Tail(todo) = <<>>
  BY <1>1, Lists
<1>3. Head(todo)[1] = "record" /\ arg = b
  BY <1>2 DEF arg
<1>4. job.given \subseteq Components
  BY DEF Types, Job
<1>5. CASE Kill /\ UNCHANGED workflowVars
  <2>1. ~BundleStep \/ Record
    BY <1>3 DEF BundleStep, Part, Did, Unwind, Unpart, Unrecord, In
  <2>2. CASE records' = records
    BY <1>5, <2>2, Kills, WellAfter
  <2>3. CASE Record
    <3>1. BundleOnly /\ (Go(job) \/ (Fault /\ Die) \/ Stop)
      BY <2>3 DEF Record
    <3>2. \/ records' = [records EXCEPT ![b] = [ver |-> job.ver, comps |-> job.given]]
          \/ records' = records
      BY <1>3, <2>3 DEF Record
    <3>3. Types' /\ Usable' = Usable /\ Safe /\ Phase'
      BY <1>1, <1>2, <3>1, LastStep
    <3>4. RecordTypes' /\ Claims'
      BY <1>1, <1>4, <3>2, <3>3, AfterRecord DEF Installing, GivenThere
    <3>5. QED
      BY <3>3, <3>4 DEF Well
  <2>4. QED
    BY <2>1, <2>2, <2>3, WhichStep
<1>6. CASE Record
  <2>1. BundleOnly /\ (Go(job) \/ (Fault /\ Die) \/ Stop)
    BY <1>6 DEF Record
  <2>2. \/ records' = [records EXCEPT ![b] = [ver |-> job.ver, comps |-> job.given]]
        \/ records' = records
    BY <1>3, <1>6 DEF Record
  <2>3. Types' /\ Usable' = Usable /\ Safe /\ Phase'
    BY <1>1, <1>2, <2>1, LastStep
  <2>4. RecordTypes' /\ Claims'
    BY <1>1, <1>4, <2>2, <2>3, AfterRecord DEF Installing, GivenThere
  <2>5. QED
    BY <2>3, <2>4 DEF Well
<1>7. QED
  BY <1>3, <1>5, <1>6, WhichStep

LEMMA ToRaiseStep ==
    ASSUME Types, RecordTypes, Claims, Step, History, NEW b \in Bundles, ToRaise(b)
    PROVE  Well
<1>1. Head(todo) = <<"raise", b>> /\ handlers = <<>>
  BY Lists, ThenList DEF ToRaise
<1>2. Head(todo)[1] = "raise"
  BY <1>1
<1>3. records' = records
  BY <1>2, RecordsStay
<1>4. Types' /\ (Died \/ (Still /\ Kept /\ Threw))
  BY <1>2, RaiseStep
<1>5. ASSUME Still, Threw
      PROVE  Safe /\ Phase'
  <2>1. Usable' = Usable
    BY <1>4, <1>5, NoneChanges
  <2>2. todo' = <<>> /\ handlers' = <<>>
    BY <1>1, <1>5 DEF Threw
  <2>3. QED
    BY <2>1, <2>2 DEF Safe, Phase, Idle
<1>6. QED
  BY <1>3, <1>4, <1>5, WellAfter

LEMMA ToUnwindStep ==
    ASSUME Types, RecordTypes, Claims, Step, History, NEW b \in Bundles, ToUnwind(b)
    PROVE  Well
<1>1. Installing(b) /\ Left({}) /\ (Fresh \/ Failing) /\ handlers = <<>> /\ todo = Unwinds(b)
  BY DEF ToUnwind
<1>2. Head(todo) = <<"unwind", b>> /\ Tail(todo) = Recording(b) /\ IsList(Recording(b)) /\ IsList(Unwinds(b))
  BY <1>1, Lists
<1>3. Head(todo)[1] = "unwind" /\ arg = b
  BY <1>2 DEF arg
<1>4. records' = records
  BY <1>3, RecordsStay
<1>5. CASE Kill /\ UNCHANGED workflowVars
  BY <1>4, <1>5, Kills, WellAfter
<1>6. job.done \in Seq(Components) /\ job.unwound \in Nat /\ faults \in Nat
  BY DEF Types, Job
<1>7. Unwinding \in 1..(faults + 1) /\ Unwinding \in Nat /\ (Spoilt => Unwinding \in 1..faults)
  <2>1. job.op = "install"
    BY <1>1 DEF Installing
  <2>2. CASE Fresh
    BY <1>6, <2>1, <2>2 DEF Fresh, Spoilt, Unwinding
  <2>3. CASE Failing
    BY <1>6, <2>1, <2>3 DEF Failing, Spoilt, Unwinding
  <2>4. QED
    BY <1>1, <2>2, <2>3
<1> DEFINE raising == Then(<<"raise", b>>, Recording(b))
           taking(c) == Then(<<"try", <<RemovalOf(c), <<>>>>>>, Unwinds(b))
\* Whatever is done next.
<1>8. ASSUME BundleOnly, NEW done \in Seq(Components), job' = [job EXCEPT !.done = done, !.unwound = Unwinding],
             faults' = faults, Elements(done) \subseteq Applied
      PROVE  /\ Types' /\ Safe /\ Installing(b)' /\ Failing' /\ (Spoilt => Spoilt') /\ Applied' = Elements(done)
             /\ InstalledSet' = InstalledSet /\ job'.before = job.before
             /\ \A c : Ours(c) => Ours(c)'
  <2>1. /\ job'.op = job.op /\ job'.bundle = job.bundle /\ job'.ver = job.ver /\ job'.before = job.before
        /\ job'.done = done /\ job'.given = job.given /\ job'.unwound = Unwinding
    BY <1>8 DEF Types, Job
  <2>2. job' \in Job
    BY <1>7, <1>8 DEF Types, Job
  <2>3. Types' /\ InstalledSet' = InstalledSet /\ Usable' = Usable
    BY <1>8, <2>2, BundleOnlyChanges
  <2>4. mine' = mine /\ excused' = excused
    BY <2>3, Histories
  <2>5. Recorded' = Recorded /\ Applied' = Elements(done)
    BY <1>4, <2>1 DEF Recorded, Applied
  <2>6. \A c : Ours(c) => Ours(c)'
    BY <2>1, <2>4, <2>5 DEF Ours
  <2>7. Installing(b)'
    BY <1>1, <1>8, <2>1, <2>3, <2>4, <2>5, <2>6 DEF Installing
  <2>8. Failing' /\ (Spoilt => Spoilt')
    BY <1>1, <1>7, <1>8, <2>1 DEF Failing, Spoilt, Installing
  <2>9. QED
    BY <2>1, <2>3, <2>5, <2>6, <2>7, <2>8 DEF Safe
<1>9. CASE Unwind /\ job.done = <<>>
  <2>1. Do(<<<<"raise", b>>>>, [job EXCEPT !.unwound = Unwinding]) /\ BundleOnly
    BY <1>3, <1>9 DEF Unwind
  <2>2. todo' = raising /\ todo' # <<>>
    BY <1>2, <2>1, ThenList DEF Do, Then
  <2>3. job' = [job EXCEPT !.unwound = Unwinding] /\ faults' = faults /\ handlers' = handlers
    BY <2>1, <2>2 DEF Do, Remember
  <2>4. job' = [job EXCEPT !.done = <<>>, !.unwound = Unwinding]
    BY <1>9, <2>3 DEF Types, Job
  <2>5. <<>> \in Seq(Components) /\ Elements(<<>>) = {} /\ Applied = {}
    BY <1>9 DEF Elements, Applied
  <2>6. /\ Types' /\ Safe /\ Installing(b)' /\ Failing' /\ (Spoilt => Spoilt') /\ Applied' = {}
        /\ InstalledSet' = InstalledSet /\ job'.before = job.before
    BY <1>8, <2>1, <2>3, <2>4, <2>5
  <2>7. Left({})'
    BY <1>1, <2>5, <2>6 DEF Left, Inside
  <2>8. ToRaise(b)'
    BY <1>1, <2>2, <2>3, <2>6, <2>7 DEF ToRaise
  <2>9. Phase'
    BY <2>2, <2>8, RunningAfter DEF InstallPhase
  <2>10. QED
    BY <1>4, <2>6, <2>9, WellAfter
<1>10. CASE Unwind /\ job.done # <<>>
  <2>1. /\ Head(job.done) \in Components /\ Tail(job.done) \in Seq(Components)
        /\ Applied = {Head(job.done)} \cup Elements(Tail(job.done))
    BY <1>6, <1>10, NewestFirst DEF Applied
  <2>2. PICK c \in Components : c = Head(job.done)
    BY <2>1
  <2>3. /\ Do(Try(RemovalOf(c), <<>>) \o <<<<"unwind", b>>>>, [job EXCEPT !.done = Tail(@), !.unwound = Unwinding])
        /\ BundleOnly
    BY <1>3, <1>10, <2>2 DEF Unwind
  <2>4. todo' = taking(c) /\ todo' # <<>>
    <3>1. todo' = (Try(RemovalOf(c), <<>>) \o <<<<"unwind", b>>>>) \o Recording(b)
      BY <1>2, <2>3 DEF Do
    <3>2. Try(RemovalOf(c), <<>>) \in Seq({<<"try", <<RemovalOf(c), <<>>>>>>})
      BY DEF Try
    <3>3. todo' = Try(RemovalOf(c), <<>>) \o Then(<<"unwind", b>>, Recording(b))
      BY <1>2, <3>1, <3>2, BodyThen
    <3>4. todo' = taking(c)
      BY <3>3 DEF Try, Then, Unwinds
    <3>5. QED
      BY <1>2, <3>4, ThenList
  <2>5. /\ job' = [job EXCEPT !.done = Tail(job.done), !.unwound = Unwinding]
        /\ faults' = faults /\ handlers' = handlers
    BY <2>3, <2>4 DEF Do, Remember
  <2>6. /\ Types' /\ Safe /\ Installing(b)' /\ Failing' /\ (Spoilt => Spoilt') /\ Applied' = Elements(Tail(job.done))
        /\ InstalledSet' = InstalledSet /\ job'.before = job.before
        /\ \A d : Ours(d) => Ours(d)'
    BY <1>8, <2>1, <2>3, <2>5
  <2>7. Left({c})'
    BY <1>1, <2>1, <2>2, <2>6 DEF Left, Inside
  <2>8. Ours(c)'
    BY <1>1, <2>1, <2>2, <2>6 DEF Installing
  <2>9. ToTake(b, c)'
    BY <1>1, <2>4, <2>5, <2>6, <2>7, <2>8 DEF ToTake
  <2>10. Phase'
    BY <2>4, <2>9, RunningAfter DEF InstallPhase
  <2>11. QED
    BY <1>4, <2>6, <2>10, WellAfter
<1>11. QED
  BY <1>3, <1>5, <1>9, <1>10, WhichStep

LEMMA ToTakeStep ==
    ASSUME Types, RecordTypes, Claims, Step, History, NEW b \in Bundles, NEW c \in Components, ToTake(b, c)
    PROVE  Well
<1>1. Installing(b) /\ Left({c}) /\ Ours(c) /\ Failing /\ handlers = <<>>
  BY DEF ToTake
<1>2. Head(todo) = <<"try", <<RemovalOf(c), <<>>>>>> /\ Tail(todo) = Unwinds(b)
  BY Lists, ThenList DEF ToTake
<1>3. /\ Types'
      /\ \/ Died
         \/ /\ Still /\ Kept /\ Steady
            /\ todo' = (RemovalOf(c) \o <<<<"end", {}>>>>) \o Tail(todo)
            /\ handlers' = <<<<>> \o Tail(todo)>> \o handlers
  BY <1>2, TryStep
<1>4. records' = records
  BY <1>2, RecordsKept
<1>5. (RemovalOf(c) \o <<<<"end", {}>>>>) \o Unwinds(b) = RemovalOf(c) \o Taken(b)
  <2>1. PICK S : RemovalOf(c) \in Seq(S)
    BY StepsAreLists
  <2>2. QED
    <3>1. IsList(Unwinds(b))
      BY Lists
    <3>2. (RemovalOf(c) \o <<<<"end", {}>>>>) \o Unwinds(b) = RemovalOf(c) \o Then(<<"end", {}>>, Unwinds(b))
      BY <2>1, <3>1, BodyThen
    <3>3. QED
      BY <3>2 DEF Taken, End
<1>6. <<<<>> \o Unwinds(b)>> \o <<>> = Except(b)
  <2>1. <<>> \o Unwinds(b) = Unwinds(b)
    BY Lists, StepsThen
  <2>2. QED
    BY <2>1 DEF Except, Then
<1>7. ASSUME Still, Kept, Steady, todo' = RemovalOf(c) \o Taken(b), handlers' = Except(b)
      PROVE  Safe /\ Phase'
  <2>1. IsList(Taken(b)) /\ todo' # <<>>
    BY <1>7, Lists, RemovalGoes
  <2>2. Installing(b)' /\ Safe /\ Ours(c)' /\ (Inside({c}) => Inside({c})')
    BY <1>1, <1>3, <1>4, <1>7, <2>1, StillGoesOn
  <2>3. Failing' /\ (Spoilt => Spoilt')
    BY <1>1, <1>7, Annotated
  <2>4. Removing(c, Taken(b), Except(b))'
    BY <1>7, <2>1, <2>3, RemovingBegins
  <2>5. Taking(b, c)'
    BY <1>1, <2>2, <2>3, <2>4 DEF Taking, Left
  <2>6. QED
    BY <2>1, <2>2, <2>5, RunningAfter DEF InstallPhase
<1>8. QED
  BY <1>1, <1>2, <1>3, <1>4, <1>5, <1>6, <1>7, WellAfter

LEMMA TakingStep ==
    ASSUME Types, RecordTypes, Claims, Step, History, NEW b \in Bundles, NEW c \in Components, Taking(b, c)
    PROVE  Well
<1>1. Installing(b) /\ Left({c}) /\ Ours(c) /\ Removing(c, Taken(b), Except(b))
  BY DEF Taking
<1>2. /\ IsList(Taken(b)) /\ Taken(b) # <<>> /\ IsList(Except(b))
      /\ Head(Taken(b)) = <<"end", {}>> /\ Tail(Taken(b)) = Unwinds(b)
  BY Lists DEF End
<1>3. CASE todo = Taken(b) /\ handlers = Except(b) /\ Failing /\ Gone(c)
  <2>1. Head(todo)[1] = "end" /\ Tail(todo) = Unwinds(b) /\ Tail(handlers) = <<>> /\ Unwinds(b) # <<>>
    BY <1>2, <1>3, Lists
  <2>2. records' = records
    BY <2>1, RecordsStay
  <2>3. /\ Types'
        /\ Died \/ (Still /\ Kept /\ Steady /\ todo' = Unwinds(b) /\ handlers' = <<>>)
    BY <2>1, EndStep
  <2>4. ASSUME Still, Kept, Steady, todo' = Unwinds(b), handlers' = <<>>
        PROVE  Safe /\ Phase'
    <3>1. todo' # <<>> /\ Only(c)
      BY <2>1, <2>4, StillOnly
    <3>2. Installing(b)' /\ Safe /\ (Inside({c}) => Inside({c})' /\ (~Installed(c)' => Inside({})'))
      BY <1>1, <2>2, <2>3, <2>4, <3>1, OneGoesOn
    <3>3. Failing' /\ (Spoilt => Spoilt')
      BY <1>3, <2>4, Annotated
    <3>4. Installed(c)' <=> Installed(c)
      BY <2>3, <2>4, AllAlike
    <3>5. Left({})'
      BY <1>1, <1>3, <3>2, <3>3, <3>4 DEF Left, Gone, New, Installing
    <3>6. ToUnwind(b)'
      BY <2>4, <3>2, <3>3, <3>5 DEF ToUnwind
    <3>7. QED
      BY <3>1, <3>2, <3>6, RunningAfter DEF InstallPhase
  <2>5. QED
    BY <2>2, <2>3, <2>4, WellAfter
<1>4. CASE Busy(Except(b))
  <2>1. records' = records
    BY <1>4, RecordsKept DEF Busy
  <2>2. ~(todo = Taken(b) /\ handlers = Except(b))
    BY <1>2, <1>4 DEF Busy
  <2>3. Types' /\ (Died \/ RemovingGoesOn(c, Taken(b), Except(b)))
    BY <1>1, <1>2, <2>2, RemovingStep
  <2>4. ASSUME RemovingGoesOn(c, Taken(b), Except(b))
        PROVE  Safe /\ Phase'
    <3>1. /\ Only(c) /\ Kept /\ Steady
          /\ (ThrewTo(Except(b)) /\ Gone(c)') \/ Removing(c, Taken(b), Except(b))'
      BY <2>4 DEF RemovingGoesOn, Works
    <3>2. todo' # <<>>
      <4>1. ThrewTo(Except(b)) => todo' # <<>>
        BY Lists DEF ThrewTo
      <4>2. Removing(c, Taken(b), Except(b))' => todo' # <<>>
        BY <1>2, GoingOn
      <4>3. QED
        BY <3>1, <4>1, <4>2
    <3>3. /\ Installing(b)' /\ Safe /\ Ours(c)'
          /\ Inside({c}) => Inside({c})' /\ (~Installed(c)' => Inside({})')
      BY <1>1, <2>1, <2>3, <3>1, <3>2, OneGoesOn
    <3>4. Spoilt => Spoilt'
      BY <3>1, Annotated
    <3>5. CASE ThrewTo(Except(b)) /\ Gone(c)'
      <4>1. Left({})'
        BY <1>1, <3>3, <3>4, <3>5 DEF Gone, New, Installing, Left
      <4>2. QED
        BY <3>3, <3>5, <4>1, ThrewToUnwind
    <3>6. CASE Removing(c, Taken(b), Except(b))'
      <4>1. Taking(b, c)'
        BY <1>1, <3>3, <3>4, <3>6 DEF Taking, Left
      <4>2. QED
        BY <3>2, <3>3, <4>1, RunningAfter DEF InstallPhase
    <3>7. QED
      BY <3>1, <3>5, <3>6
  <2>5. QED
    BY <2>1, <2>3, <2>4, WellAfter
<1>5. QED
  BY <1>1, <1>2, <1>3, <1>4, RemovingHead

LEMMA InstallPhaseStep ==
    ASSUME Types, RecordTypes, Claims, Step, History, NEW b \in Bundles, InstallPhase(b)
    PROVE  Well
<1>1. CASE ToTry(b) \/ Placing(b) \/ ToRecord(b) \/ ToUnwind(b) \/ ToRaise(b)
  BY <1>1, ToTryStep, PlacingStep, ToRecordStep, ToUnwindStep, ToRaiseStep
<1>2. ASSUME NEW c \in Components, Adding(b, c) \/ Renewing(b, c) \/ ToTake(b, c) \/ Taking(b, c)
      PROVE  Well
  BY <1>2, AddingStep, RenewingStep, ToTakeStep, TakingStep
<1>3. QED
  BY <1>1, <1>2 DEF InstallPhase

\* Unpart and Unrecord.
LEMMA DroppingStep ==
    ASSUME Types, RecordTypes, Claims, Step, History, NEW b \in Bundles, Dropping(b)
    PROVE  Well
<1>1. job.op = "remove" /\ job.bundle = b /\ handlers = <<>>
  BY DEF Dropping
<1>2. \/ Head(todo) = <<"unrecord", b>> /\ Tail(todo) = <<>>
      \/ \E c \in records[b].comps, qs \in Seq(UnpartSteps(b)) :
            Head(todo) = <<"unpart", c>> /\ Tail(todo) = Unparts(qs, b)
  <2>1. PICK us \in Seq(UnpartSteps(b)) : todo = Unparts(us, b)
    BY DEF Dropping
  <2>2. QED
    BY <2>1, UnpartsAre DEF UnpartSteps
<1>3. CASE Head(todo) = <<"unrecord", b>> /\ Tail(todo) = <<>>
  <2>1. Head(todo)[1] = "unrecord" /\ arg = b
    BY <1>3 DEF arg
  <2>2. ASSUME Unrecord
        PROVE  Well
    <3>1. BundleOnly /\ (Go(job) \/ (Fault /\ Die) \/ Stop)
      BY <2>2 DEF Unrecord
    <3>2. records' = [records EXCEPT ![b] = [ver |-> 0, comps |-> {}]] \/ records' = records
      BY <2>1, <2>2 DEF Unrecord, NoRecord
    <3>3. Types' /\ Usable' = Usable /\ Safe /\ Phase'
      BY <1>1, <1>3, <3>1, LastStep
    <3>4. 0 \in 0..Len(Plans[b]) /\ IsFiniteSet({})
      BY BundleAssumption, FS_EmptySet
    <3>5. RecordTypes' /\ Claims'
      BY <3>2, <3>3, <3>4, AfterRecord
    <3>6. QED
      BY <3>3, <3>5 DEF Well
  <2>3. CASE Kill /\ UNCHANGED workflowVars
    <3>1. ~BundleStep \/ Unrecord
      BY <2>1 DEF BundleStep, Part, Did, Unwind, Record, Unpart, In
    <3>2. CASE records' = records
      BY <2>3, <3>2, Kills, WellAfter
    <3>3. QED
      BY <2>2, <3>1, <3>2, WhichStep
  <2>4. QED
    BY <2>1, <2>2, <2>3, WhichStep
<1>4. ASSUME NEW c \in records[b].comps, NEW qs \in Seq(UnpartSteps(b)),
             Head(todo) = <<"unpart", c>>, Tail(todo) = Unparts(qs, b)
      PROVE  Well
  <2>1. Head(todo)[1] = "unpart" /\ arg = c
    BY <1>4 DEF arg
  <2>2. records' = records
    BY <2>1, RecordsStay
  <2>3. c \in Components
    BY DEF RecordTypes
  <2>4. IsList(Unparts(qs, b)) /\ Unparts(qs, b) # <<>>
    BY UnpartsAre DEF UnpartSteps
  <2>5. UnpartSteps(b)' = UnpartSteps(b) /\ StillNeeded(b)' = StillNeeded(b)
    BY <2>2 DEF UnpartSteps, StillNeeded
  <2>6. CASE Kill /\ UNCHANGED workflowVars
    BY <2>2, <2>6, Kills, WellAfter
  <2>7. CASE Unpart
    <3>1. /\ Do(IF c \notin StillNeeded(b) /\ Installed(c) THEN RemovalOf(c) ELSE <<>>, job)
          /\ BundleOnly
      BY <1>1, <2>1, <2>7 DEF Unpart
    <3>2. todo' = (IF c \notin StillNeeded(b) /\ Installed(c) THEN RemovalOf(c) ELSE <<>>) \o Unparts(qs, b)
      BY <1>4, <3>1 DEF Do
    <3>3. todo' # <<>>
      BY <2>3, <2>4, <3>2, RemovalGoes, StepsThen
    <3>4. job' = job /\ faults' = faults /\ handlers' = <<>>
      BY <1>1, <3>1, <3>3 DEF Do, Remember
    <3>5. Types' /\ Usable' = Usable
      BY <3>1, <3>4, BundleOnlyChanges DEF Types
    <3>6. CASE c \notin StillNeeded(b) /\ Installed(c)
      <4>1. todo' = RemovalOf(c) \o Unparts(qs, b)
        BY <3>2, <3>6
      <4>2. Failing'
        BY <1>1, <3>4 DEF Failing
      <4>3. Removing(c, Unparts(qs, b), <<>>)'
        BY <2>3, <2>4, <3>4, <4>1, <4>2, RemovingBegins
      <4>4. Freeing(b, c)'
        BY <1>1, <2>2, <2>5, <3>4, <3>6, <4>3 DEF Freeing
      <4>5. QED
        BY <2>2, <2>3, <3>3, <3>5, <4>4, RunningAfter, WellAfter DEF Safe
    <3>7. CASE ~(c \notin StillNeeded(b) /\ Installed(c))
      <4>1. todo' = Unparts(qs, b)
        BY <2>4, <3>2, <3>7, StepsThen
      <4>2. Dropping(b)'
        BY <1>1, <2>5, <3>4, <4>1 DEF Dropping
      <4>3. QED
        BY <2>2, <3>3, <3>5, <4>2, RunningAfter, WellAfter DEF Safe
    <3>8. QED
      BY <3>6, <3>7
  <2>8. QED
    BY <2>1, <2>6, <2>7, WhichStep
<1>5. QED
  BY <1>2, <1>3, <1>4

LEMMA FreeingStep ==
    ASSUME Types, RecordTypes, Claims, Step, History, NEW b \in Bundles, NEW c \in Components, Freeing(b, c)
    PROVE  Well
<1>1. job.op = "remove" /\ job.bundle = b /\ c \in records[b].comps \ StillNeeded(b)
  BY DEF Freeing
<1>2. PICK us \in Seq(UnpartSteps(b)) : Removing(c, Unparts(us, b), <<>>)
  BY DEF Freeing
<1> DEFINE z == Unparts(us, b)
<1>3. IsList(z) /\ z # <<>> /\ IsList(<<>>)
  BY UnpartsAre, Lists DEF UnpartSteps
<1>4. Removing(c, z, <<>>)
  BY <1>2
<1>5. CASE todo = z /\ handlers = <<>>
  <2>1. Dropping(b)
    BY <1>1, <1>5 DEF Dropping
  <2>2. QED
    BY <2>1, DroppingStep
<1>6. CASE Busy(<<>>) /\ ~(todo = z /\ handlers = <<>>)
  <2>1. records' = records
    BY <1>6, RecordsKept DEF Busy
  <2>2. UnpartSteps(b)' = UnpartSteps(b) /\ StillNeeded(b)' = StillNeeded(b)
    BY <2>1 DEF UnpartSteps, StillNeeded
  <2>3. ASSUME Removing(c, z, <<>>)', job'.op = job.op, job'.bundle = job.bundle
        PROVE  Freeing(b, c)'
    BY <1>1, <2>1, <2>2, <2>3 DEF Freeing
  <2> HIDE DEF z
  <2>4. Types' /\ (Died \/ RemovingGoesOn(c, z, <<>>))
    BY <1>3, <1>4, <1>6, RemovingStep
  <2>5. ASSUME RemovingGoesOn(c, z, <<>>)
        PROVE  Safe /\ Phase'
    <3>1. Only(c) /\ Kept /\ (ThrewTo(<<>>) \/ Removing(c, z, <<>>)')
      BY <2>5 DEF RemovingGoesOn, Works
    <3>2. Usable \ Usable' \subseteq {c}
      BY <2>4, <3>1, OneChanges
    <3>3. c \in Recorded /\ c \notin mine
      BY <1>1 DEF Claims, Recorded
    <3>4. c \in Usable \ Usable' => c \in excused'
      BY <1>1, Histories DEF StillNeeded
    <3>5. Safe
      BY <3>2, <3>3, <3>4 DEF Safe
    <3>6. CASE ThrewTo(<<>>)
      BY <3>5, <3>6 DEF ThrewTo, Phase, Idle
    <3>7. CASE Removing(c, z, <<>>)'
      <4>1. todo' # <<>>
        BY <1>3, <3>7, GoingOn
      <4>2. Freeing(b, c)'
        BY <2>3, <3>1, <3>7, <4>1 DEF Kept
      <4>3. QED
        BY <3>5, <4>1, <4>2, RunningAfter
    <3>8. QED
      BY <3>1, <3>6, <3>7
  <2>6. QED
    BY <2>1, <2>4, <2>5, WellAfter
<1> HIDE DEF z
<1>7. QED
  BY <1>3, <1>4, <1>5, <1>6, RemovingHead

LEMMA ByUserStep ==
    ASSUME Types, RecordTypes, Claims, Step, History, NEW c \in Components, ByUser(c)
    PROVE  Well
<1>1. IsList(<<>>) /\ todo # <<>>
  BY Lists, WhichStep
<1>2. job.op = "user" /\ (Making(c, <<>>, <<>>) \/ Removing(c, <<>>, <<>>))
  BY DEF ByUser
<1>3. Busy(<<>>)
  BY <1>1, <1>2, MakingHead, RemovingHead
<1>4. records' = records
  BY <1>3, RecordsKept DEF Busy
<1>5. Types' /\ (Died \/ MakingGoesOn(c, <<>>, <<>>) \/ RemovingGoesOn(c, <<>>, <<>>))
  BY <1>1, <1>2, MakingStep, RemovingStep
<1>6. ASSUME MakingGoesOn(c, <<>>, <<>>) \/ RemovingGoesOn(c, <<>>, <<>>)
      PROVE  Phase'
  <2>1. Kept /\ (ThrewTo(<<>>) \/ Making(c, <<>>, <<>>)' \/ Removing(c, <<>>, <<>>)')
    BY <1>6 DEF MakingGoesOn, RemovingGoesOn, Works
  <2>2. CASE ThrewTo(<<>>)
    BY <2>2 DEF ThrewTo, Phase, Idle
  <2>3. CASE (Making(c, <<>>, <<>>)' \/ Removing(c, <<>>, <<>>)') /\ todo' = <<>>
    <3>1. handlers' = <<>>
      BY <1>1, <2>3, GoingOn
    <3>2. QED
      BY <2>3, <3>1 DEF Phase, Idle
  <2>4. CASE (Making(c, <<>>, <<>>)' \/ Removing(c, <<>>, <<>>)') /\ todo' # <<>>
    <3>1. ByUser(c)'
      BY <1>2, <2>1, <2>4 DEF ByUser, Kept
    <3>2. QED
      BY <2>4, <3>1 DEF Phase, Running, Idle
  <2>5. QED
    BY <2>1, <2>2, <2>3, <2>4
<1>7. Safe
  BY <1>2 DEF Safe
<1>8. QED
  BY <1>4, <1>5, <1>6, <1>7, WellAfter

-----------------------------------------------------------------------------
(* The commands *)

LEMMA BeginsAlike ==
    ASSUME Types, BundleOnly, job' \in Job, faults' = faults, records' = records, Phase', RecordTypes, Claims, History
    PROVE  Well
<1>1. Types' /\ Usable' = Usable
  BY BundleOnlyChanges
<1>2. Safe
  BY <1>1 DEF Safe
<1>3. QED
  BY <1>1, <1>2, WellAfter

LEMMA NothingAfter ==
    ASSUME NEW S, NEW s \in Seq(S)
    PROVE  s \o <<>> = s
  BY ConcatEmptySeq

LEMMA ByHandStep ==
    ASSUME Types, RecordTypes, Claims, History, NEW steps, ByHand(steps), NEW c \in Components,
           Making(c, <<>>, <<>>)' \/ Removing(c, <<>>, <<>>)'
    PROVE  Well
<1>1. job' = [NoJob EXCEPT !.op = "user"] /\ BundleOnly /\ faults' = faults /\ records' = records
  BY DEF ByHand
<1>2. job' \in Job /\ job'.op = "user"
  BY <1>1, JobTypes DEF Job, NoJob
<1>3. ByUser(c)'
  BY <1>2 DEF ByUser
<1>4. CASE todo' = <<>>
  <2>1. handlers' = <<>>
    BY <1>4, Lists, GoingOn
  <2>2. QED
    BY <1>1, <1>2, <1>4, <2>1, BeginsAlike DEF Phase, Idle
<1>5. CASE todo' # <<>>
  <2>1. Phase'
    BY <1>3, <1>5 DEF Phase, Idle, Running
  <2>2. QED
    BY <1>1, <1>2, <2>1, BeginsAlike
<1>6. QED
  BY <1>4, <1>5

\* What a command of the user begins with.
LEMMA UserJob ==
    ASSUME NEW steps, ByHand(steps), handlers = <<>>, NEW c
    PROVE  Fresh' /\ Failing' /\ New(c)' /\ handlers' = <<>> /\ todo' = steps
<1>1. job' = [NoJob EXCEPT !.op = "user"] /\ handlers' = <<>> /\ todo' = steps
  BY DEF ByHand
<1>2. job'.op = "user"
  BY <1>1 DEF NoJob
<1>3. QED
  BY <1>1, <1>2 DEF Fresh, Failing, New

LEMMA UserBegins ==
    ASSUME Types, RecordTypes, Claims, History, handlers = <<>>, NEW steps, ByHand(steps),
           \/ \E p \in Presets, prio \in Priorities : steps = InstallPreset(p, prio)
           \/ \E w \in Workflows : steps = CopyInWorkflow(w)
           \/ \E c \in Components : steps = InstallOf(c) \/ steps = RemovalOf(c)
    PROVE  Well
<1>1. IsList(<<>>)
  BY Lists
<1>2. ASSUME NEW p \in Presets, NEW prio \in Priorities, steps = InstallPreset(p, prio)
      PROVE  Well
  <2>1. InstallPreset(p, prio) \o <<>> = InstallPreset(p, prio)
    BY DEF InstallPreset
  <2>2. Fresh' /\ New(p)' /\ handlers' = <<>> /\ todo' = InstallPreset(p, prio) \o <<>>
    BY <1>2, <2>1, UserJob
  <2>3. Making(p, <<>>, <<>>)'
    BY <1>1, <2>2, PresetBegins
  <2>4. QED
    BY <2>3, ByHandStep DEF Components
<1>3. ASSUME NEW w \in Workflows, steps = CopyInWorkflow(w)
      PROVE  Well
  <2>1. CopyInWorkflow(w) \in Seq({<<"copy_workflow", w>>, <<"enter_workflow", w>>})
    BY DEF CopyInWorkflow
  <2>2. CopyInWorkflow(w) \o <<>> = CopyInWorkflow(w)
    BY <2>1, NothingAfter
  <2>3. Fresh' /\ New(w)' /\ handlers' = <<>> /\ todo' = CopyInWorkflow(w) \o <<>>
    BY <1>3, <2>2, UserJob
  <2>4. Making(w, <<>>, <<>>)'
    BY <1>1, <2>3, CopyInBegins
  <2>5. QED
    BY <2>4, ByHandStep DEF Components
<1>4. ASSUME NEW c \in Components, steps = InstallOf(c)
      PROVE  Well
  <2>1. InstallOf(c) \o <<>> = InstallOf(c)
    BY StepsAreLists, NothingAfter
  <2>2. Fresh' /\ New(c)' /\ handlers' = <<>> /\ todo' = InstallOf(c) \o <<>>
    BY <1>4, <2>1, UserJob
  <2>3. Making(c, <<>>, <<>>)'
    BY <1>1, <2>2, MakingBegins
  <2>4. QED
    BY <2>3, ByHandStep
<1>5. ASSUME NEW c \in Components, steps = RemovalOf(c)
      PROVE  Well
  <2>1. RemovalOf(c) \o <<>> = RemovalOf(c)
    BY StepsAreLists, NothingAfter
  <2>2. Failing' /\ handlers' = <<>> /\ todo' = RemovalOf(c) \o <<>>
    BY <1>5, <2>1, UserJob
  <2>3. Removing(c, <<>>, <<>>)'
    BY <1>1, <2>2, RemovingBegins
  <2>4. QED
    BY <2>3, ByHandStep
<1>6. QED
  BY <1>2, <1>3, <1>4, <1>5

LEMMA ApplyStep ==
    ASSUME Types, RecordTypes, Claims, History, handlers = <<>>, NEW b \in Bundles, NEW ver \in 1..Len(Plans[b]),
           NEW refresh \in BOOLEAN, Apply(b, ver, refresh)
    PROVE  Well
<1> DEFINE ps == [i \in 1..Len(Plans[b][ver]) |-> <<"part", Plans[b][ver][i]>>]
<1>1. /\ job' = [NoJob EXCEPT !.op = "install", !.bundle = b, !.ver = ver, !.refresh = refresh, !.before = InstalledSet]
      /\ faults' = faults /\ handlers' = <<>> /\ records' = records /\ BundleOnly
  BY DEF Apply
<1>2. todo' = Try(ps, <<<<"unwind", b>>>>) \o <<<<"record", b>>>>
  BY DEF Apply
<1>3. Plans[b] \in Seq(Seq(Components))
  BY BundleAssumption
<1>4. Plans[b][ver] \in Seq(Components) /\ ver \in Nat
  BY <1>3
<1>5. ps \in Seq(PartSteps)
  BY <1>4 DEF PartSteps
<1> HIDE DEF ps
<1>6. todo' = Then(<<"try", <<ps, <<<<"unwind", b>>>>>>>>, Recording(b))
  <2>1. <<<<"record", b>>>> = Recording(b)
    BY DEF Recording, Then
  <2>2. QED
    BY <1>2, <2>1 DEF Try, Then
<1>7. todo' # <<>>
  BY <1>6, Lists, ThenList
<1>8. /\ job'.op = "install" /\ job'.bundle = b /\ job'.ver = ver /\ job'.before = InstalledSet /\ job'.unwound = 0
      /\ job'.given = {} /\ job'.done = <<>>
  BY <1>1 DEF NoJob
<1>9. InstalledSet \subseteq Components
  BY DEF InstalledSet
<1>10. job' \in Job
  BY <1>1, <1>4, <1>9, JobTypes DEF Job, NoJob
<1>11. Types' /\ InstalledSet' = InstalledSet
  BY <1>1, <1>10, BundleOnlyChanges
<1>12. Applied' = {}
  BY <1>8 DEF Applied, Elements
<1>13. Installing(b)'
  <2>1. IsFiniteSet(job'.given)
    BY <1>8, FS_EmptySet
  <2>2. QED
    BY <1>8, <1>11, <1>12, <2>1 DEF Installing
<1>14. GivenThere' /\ Inside({})' /\ Fresh'
  BY <1>8, <1>11 DEF GivenThere, Inside, Fresh
<1>15. ToTry(b)'
  BY <1>1, <1>5, <1>6, <1>13, <1>14 DEF ToTry
<1>16. Phase'
  BY <1>7, <1>15, RunningAfter DEF InstallPhase
<1>17. QED
  BY <1>1, <1>10, <1>16, BeginsAlike

LEMMA RemoveBundleStep ==
    ASSUME Types, RecordTypes, Claims, History, handlers = <<>>, NEW b \in Bundles, RemoveBundle(b)
    PROVE  Well
<1>1. /\ job' = [NoJob EXCEPT !.op = "remove", !.bundle = b]
      /\ faults' = faults /\ handlers' = <<>> /\ records' = records /\ BundleOnly
  BY DEF RemoveBundle
<1>2. PICK order \in [1..Cardinality(records[b].comps) -> records[b].comps] :
             todo' = [i \in DOMAIN order |-> <<"unpart", order[i]>>] \o <<<<"unrecord", b>>>>
  BY DEF RemoveBundle
<1> DEFINE us == [i \in DOMAIN order |-> <<"unpart", order[i]>>]
<1>3. Cardinality(records[b].comps) \in Nat
  BY FS_CardinalityType DEF RecordTypes
<1>4. us \in Seq(UnpartSteps(b))
  BY <1>3 DEF UnpartSteps, UnpartsOf
<1>5. todo' = us \o <<<<"unrecord", b>>>>
  BY <1>2
<1> HIDE DEF us
<1>6. todo' = Unparts(us, b)
  BY <1>5 DEF Unparts, Then
<1>7. todo' # <<>>
  BY <1>4, <1>6, UnpartsAre DEF UnpartSteps
<1>8. job'.op = "remove" /\ job'.bundle = b
  BY <1>1 DEF NoJob
<1>9. job' \in Job
  BY <1>1, JobTypes DEF Job, NoJob
<1>10. UnpartSteps(b)' = UnpartSteps(b)
  BY <1>1 DEF UnpartSteps
<1>11. Dropping(b)'
  BY <1>1, <1>4, <1>6, <1>8, <1>10 DEF Dropping
<1>12. Phase'
  BY <1>7, <1>11, RunningAfter
<1>13. QED
  BY <1>1, <1>9, <1>12, BeginsAlike

\* Priorities, enabling and overrides.
LEMMA TuneStep ==
    ASSUME Types, RecordTypes, Claims, History, handlers = <<>>, Idle, Tune, UNCHANGED <<workflowVars, records>>
    PROVE  Well
<1>1. UNCHANGED <<pdir, ext, job, todo, handlers, faults>>
  BY DEF Tune, SetPriority, SetEnabled, Retuned, EditOverride
<1>2. preg' \in [Presets -> Entry] /\ \A q \in Presets : preg'[q].in = preg[q].in
  <2>1. ASSUME NEW p \in Presets, NEW entry \in Entry, entry.in = preg[p].in, Retuned(p, entry)
        PROVE  preg' \in [Presets -> Entry] /\ \A q \in Presets : preg'[q].in = preg[q].in
    BY <2>1 DEF Retuned, Types
  <2>2. ASSUME NEW p \in Presets, NEW prio \in Priorities, SetPriority(p, prio)
        PROVE  preg' \in [Presets -> Entry] /\ \A q \in Presets : preg'[q].in = preg[q].in
    <3>1. prio \in Nat
      BY PresetAssumption
    <3>2. [preg[p] EXCEPT !.prio = prio] \in Entry /\ [preg[p] EXCEPT !.prio = prio].in = preg[p].in
      BY <3>1 DEF Types, Entry
    <3>3. QED
      BY <2>1, <2>2, <3>2 DEF SetPriority
  <2>3. ASSUME NEW p \in Presets, NEW on \in BOOLEAN, SetEnabled(p, on)
        PROVE  preg' \in [Presets -> Entry] /\ \A q \in Presets : preg'[q].in = preg[q].in
    <3>1. [preg[p] EXCEPT !.on = on] \in Entry /\ [preg[p] EXCEPT !.on = on].in = preg[p].in
      BY DEF Types, Entry
    <3>2. QED
      BY <2>1, <2>3, <3>1 DEF SetEnabled
  <2>4. ASSUME NEW n \in Names, EditOverride(n)
        PROVE  preg' \in [Presets -> Entry] /\ \A q \in Presets : preg'[q].in = preg[q].in
    BY <2>4 DEF EditOverride, Types
  <2>5. QED
    BY <2>2, <2>3, <2>4 DEF Tune
<1>3. Types' /\ Still
  BY <1>1, <1>2 DEF Types, Still, workflowVars
<1>4. Usable' = Usable
  BY <1>3, NoneChanges
<1>5. Safe /\ Phase'
  BY <1>1, <1>4 DEF Safe, Phase, Idle
<1>6. QED
  BY <1>3, <1>5, WellAfter

LEMMA CommandStep ==
    ASSUME IInv, Command, History
    PROVE  Well
<1>1. Types /\ RecordTypes /\ Claims
  BY DEF IInv
<1>2. Idle
  BY DEF Command, ByHand, InstallBundle, UpdateBundle, RemoveBundle, Apply, Tune, SetPriority, SetEnabled, Retuned,
     EditOverride, Act
<1>3. handlers = <<>>
  BY <1>2 DEF IInv, Phase
<1>4. ASSUME NEW p \in Presets, NEW prio \in Priorities, ByHand(InstallPreset(p, prio))
      PROVE  Well
  BY <1>1, <1>3, <1>4, UserBegins
<1>5. ASSUME NEW w \in Workflows, ByHand(CopyInWorkflow(w))
      PROVE  Well
  BY <1>1, <1>3, <1>5, UserBegins
<1>6. ASSUME NEW c \in Components, ByHand(InstallOf(c)) \/ ByHand(RemovalOf(c))
      PROVE  Well
  BY <1>1, <1>3, <1>6, UserBegins
<1>7. ASSUME NEW b \in Bundles, InstallBundle(b) \/ UpdateBundle(b) \/ RemoveBundle(b)
      PROVE  Well
  <2>1. CASE InstallBundle(b)
    BY <1>1, <1>3, <2>1, ApplyStep DEF InstallBundle
  <2>2. CASE UpdateBundle(b)
    <3>1. records[b].ver \in 0..Len(Plans[b]) /\ records[b].ver # 0 /\ Len(Plans[b]) \in Nat
      BY <1>1, <2>2, BundleAssumption DEF UpdateBundle, RecordTypes
    <3>2. Len(Plans[b]) \in 1..Len(Plans[b])
      BY <3>1
    <3>3. QED
      BY <1>1, <1>3, <2>2, <3>2, ApplyStep DEF UpdateBundle
  <2>3. CASE RemoveBundle(b)
    BY <1>1, <1>3, <2>3, RemoveBundleStep
  <2>4. QED
    BY <1>7, <2>1, <2>2, <2>3
<1>8. CASE Tune /\ UNCHANGED <<workflowVars, records>>
  BY <1>1, <1>2, <1>3, <1>8, TuneStep
<1>9. QED
  BY <1>4, <1>5, <1>6, <1>7, <1>8 DEF Command

-----------------------------------------------------------------------------
(* The invariant *)

LEMMA Initially == Init => IInv
<1> SUFFICES ASSUME Init
             PROVE  IInv
  OBVIOUS
<1>1. Types
  BY JobTypes DEF Init, PresetInit, WorkflowInit, Types, Entry, Dir, NoEntry
<1>2. RecordTypes
  <2>1. IsFiniteSet({})
    BY FS_EmptySet
  <2>2. \A b \in Bundles : Len(Plans[b]) \in Nat
    BY BundleAssumption
  <2>3. records = [b \in Bundles |-> [ver |-> 0, comps |-> {}]]
    BY DEF Init, NoRecord
  <2>4. \A b \in Bundles : records[b].ver \in 0..Len(Plans[b]) /\ IsFiniteSet(records[b].comps)
    <3>1. TAKE b \in Bundles
    <3>2. records[b].ver = 0 /\ records[b].comps = {} /\ 0 \in 0..Len(Plans[b])
      BY <2>2, <2>3
    <3>3. QED
      BY <2>1, <3>2
  <2>5. QED
    BY <2>3, <2>4 DEF RecordTypes
<1>3. Claims
  <2>1. Recorded = {}
    BY DEF Init, NoRecord, Recorded
  <2>2. ext => Extension \in Usable
    BY <1>1, Kinds DEF ByKind
  <2>3. QED
    BY <2>1, <2>2 DEF Init, Claims
<1>4. Phase
  BY DEF Init, PresetInit, Phase, Idle
<1>5. QED
  BY <1>1, <1>2, <1>3, <1>4 DEF IInv

LEMMA EveryStep ==
    ASSUME IInv, Next
    PROVE  IInv' /\ Safe
<1>1. Types /\ RecordTypes /\ Claims /\ History
  BY DEF IInv, Next
<1>2. CASE Command
  BY <1>1, <1>2, CommandStep DEF Well, IInv
<1>3. CASE Step
  <2>1. ~Idle
    BY <1>3, WhichStep DEF Idle
  <2>2. Running
    BY <2>1 DEF IInv, Phase
  <2>3. ASSUME NEW b \in Bundles, InstallPhase(b)
        PROVE  Well
    BY <1>1, <1>3, <2>3, InstallPhaseStep
  <2>4. ASSUME NEW b \in Bundles, Dropping(b)
        PROVE  Well
    BY <1>1, <1>3, <2>4, DroppingStep
  <2>5. ASSUME NEW b \in Bundles, NEW c \in Components, Freeing(b, c)
        PROVE  Well
    BY <1>1, <1>3, <2>5, FreeingStep
  <2>6. ASSUME NEW c \in Components, ByUser(c)
        PROVE  Well
    BY <1>1, <1>3, <2>6, ByUserStep
  <2>7. QED
    BY <2>2, <2>3, <2>4, <2>5, <2>6 DEF Running, Well, IInv
<1>4. QED
  BY <1>2, <1>3 DEF Next

\* Nothing of the invariant depends on anything but the variables.
LEMMA Stutters ==
    ASSUME IInv, UNCHANGED vars
    PROVE  IInv' /\ Safe
<1>1. UNCHANGED <<preg, pdir, ext, wreg, wdir, sreg, sdir, job, faults, records, mine, excused, todo, handlers>>
  BY DEF vars, presetVars, workflowVars
<1>2. Usable' = Usable /\ Recorded' = Recorded /\ InstalledSet' = InstalledSet /\ Applied' = Applied
  BY <1>1 DEF Usable, InstalledSet, Installed, Recorded, Applied
<1>3. Types' /\ RecordTypes' /\ Claims' /\ Safe
  BY <1>1, <1>2 DEF IInv, Types, RecordTypes, Claims, Safe
<1>4. (Fresh' <=> Fresh) /\ (Failing' <=> Failing) /\ (Spoilt' <=> Spoilt)
  BY <1>1 DEF Fresh, Failing, Spoilt
<1>5. \A c : (New(c)' <=> New(c)) /\ (Installed(c)' <=> Installed(c)) /\ (Gone(c)' <=> Gone(c)) /\ (Ours(c)' <=> Ours(c))
  BY <1>1, <1>2, <1>4 DEF New, Installed, Gone, Ours
<1>6. \A z, H : Reconciles(z, H)' <=> Reconciles(z, H)
  BY <1>1 DEF Reconciles
<1>7. \A c, z, H : Making(c, z, H)' <=> Making(c, z, H)
  <2>1. \A c, z, H : EntersPreset(c, z, H)' <=> EntersPreset(c, z, H)
    <3>1. TAKE c, z, H
    <3>2. preg' = preg /\ pdir' = pdir /\ todo' = todo /\ handlers' = handlers
      BY <1>1
    <3>3. QED
      BY <1>4, <1>5, <3>2 DEF EntersPreset
  <2>2. \A c, z, H : WritesPreset(c, z, H)' <=> WritesPreset(c, z, H)
    BY <1>1, <1>2, <1>4 DEF WritesPreset
  <2>3. \A c, z, H : UnmakesPreset(c, z, H)' <=> UnmakesPreset(c, z, H)
    BY <1>1, <1>4, <1>5 DEF UnmakesPreset
  <2>4. \A c, z, H : MakesWorkflow(c, z, H)' <=> MakesWorkflow(c, z, H)
    BY <1>1, <1>4, <1>5 DEF MakesWorkflow
  <2>5. \A c, z, H : MakesStepType(c, z, H)' <=> MakesStepType(c, z, H)
    BY <1>1, <1>4, <1>5 DEF MakesStepType
  <2>6. QED
    BY <1>1, <1>2, <1>4, <1>5, <1>6, <2>1, <2>2, <2>3, <2>4, <2>5 DEF Making
<1>8. \A c, z, H : Refreshing(c, z, H)' <=> Refreshing(c, z, H)
  BY <1>1, <1>4, <1>5 DEF Refreshing
<1>9. \A c, z, H : Removing(c, z, H)' <=> Removing(c, z, H)
  <2>1. \A c, z, H : RemovesPreset(c, z, H)' <=> RemovesPreset(c, z, H)
    BY <1>1, <1>5 DEF RemovesPreset
  <2>2. \A c, z, H : RemovesWorkflow(c, z, H)' <=> RemovesWorkflow(c, z, H)
    BY <1>1 DEF RemovesWorkflow
  <2>3. \A c, z, H : RemovesStepType(c, z, H)' <=> RemovesStepType(c, z, H)
    BY <1>1, <1>4, <1>5 DEF RemovesStepType
  <2>4. QED
    BY <1>1, <1>4, <1>5, <1>6, <2>1, <2>2, <2>3 DEF Removing
<1>10. \A b, C : /\ Installing(b)' <=> Installing(b)
                 /\ Left(C)' <=> Left(C)
                 /\ Inside(C)' <=> Inside(C)
                 /\ GivenThere' <=> GivenThere
                 /\ UnpartSteps(b)' = UnpartSteps(b)
                 /\ StillNeeded(b)' = StillNeeded(b)
  BY <1>1, <1>2, <1>4, <1>5 DEF Installing, Left, Inside, GivenThere, UnpartSteps, StillNeeded
<1>11. \A b : InstallPhase(b)' <=> InstallPhase(b)
  <2>1. TAKE b
  <2>2. ToTry(b)' <=> ToTry(b)
    BY <1>1, <1>4, <1>10 DEF ToTry
  <2>3. Placing(b)' <=> Placing(b)
    BY <1>1, <1>4, <1>10 DEF Placing
  <2>4. ToRecord(b)' <=> ToRecord(b)
    BY <1>1, <1>10 DEF ToRecord
  <2>5. ToUnwind(b)' <=> ToUnwind(b)
    BY <1>1, <1>4, <1>10 DEF ToUnwind
  <2>6. ToRaise(b)' <=> ToRaise(b)
    BY <1>1, <1>2, <1>4, <1>10 DEF ToRaise
  <2>7. \A c : Adding(b, c)' <=> Adding(b, c)
    BY <1>1, <1>5, <1>7, <1>10 DEF Adding
  <2>8. \A c : Renewing(b, c)' <=> Renewing(b, c)
    BY <1>8, <1>10 DEF Renewing
  <2>9. \A c : ToTake(b, c)' <=> ToTake(b, c)
    BY <1>1, <1>4, <1>5, <1>10 DEF ToTake
  <2>10. \A c : Taking(b, c)' <=> Taking(b, c)
    BY <1>5, <1>9, <1>10 DEF Taking
  <2>11. QED
    BY <2>2, <2>3, <2>4, <2>5, <2>6, <2>7, <2>8, <2>9, <2>10 DEF InstallPhase
<1>12. \A b : Dropping(b)' <=> Dropping(b)
  BY <1>1, <1>10 DEF Dropping
<1>13. \A b, c : Freeing(b, c)' <=> Freeing(b, c)
  BY <1>1, <1>9, <1>10 DEF Freeing
<1>14. \A c : ByUser(c)' <=> ByUser(c)
  BY <1>1, <1>7, <1>9 DEF ByUser
<1>15. Phase'
  BY <1>1, <1>11, <1>12, <1>13, <1>14 DEF IInv, Phase, Running, Idle
<1>16. QED
  BY <1>3, <1>15 DEF IInv

LEMMA Invariant == Spec => []IInv
<1>1. Init => IInv
  BY Initially
<1>2. IInv /\ [Next]_vars => IInv'
  BY EveryStep, Stutters
<1>3. QED
  BY <1>1, <1>2, PTL DEF Spec

-----------------------------------------------------------------------------
(* What the stacks resolve to *)

LEMMA SmallestNumber ==
    ASSUME NEW T \in SUBSET Nat, T # {}
    PROVE  \E m \in T : \A k \in T : m <= k
<1>1. PICK m \in T : \A k \in T : ~(<<k, m>> \in OpToRel(<, Nat))
  BY NatLessThanWellFounded, WFMin
<1>2. \A k \in T : ~(k < m)
  BY <1>1 DEF OpToRel
<1>3. QED
  BY <1>2

\* There is a first preset: the ids break ties.
LEMMA FirstOfThem ==
    ASSUME NEW S \in SUBSET Presets, S # {}, NEW prio \in [S -> Nat]
    PROVE  First(S, prio) \in S
<1> DEFINE T == {prio[p] : p \in S}
<1>1. PICK m \in T : \A k \in T : m <= k
  <2>1. T \in SUBSET Nat /\ T # {}
    OBVIOUS
  <2> HIDE DEF T
  <2>2. QED
    BY <2>1, SmallestNumber
<1> DEFINE U == {p \in S : prio[p] = m}
           V == {Rank[p] : p \in U}
<1>2. PICK k \in V : \A i \in V : k <= i
  <2>1. V \in SUBSET Nat /\ V # {}
    BY <1>1, PresetAssumption
  <2> HIDE DEF V
  <2>2. QED
    BY <2>1, SmallestNumber
<1>3. PICK p \in U : Rank[p] = k
  BY <1>2
<1>4. ASSUME NEW q \in S \ {p}
      PROVE  Precedes(prio, p, q)
  <2>1. prio[p] = m /\ m <= prio[q] /\ prio[q] \in Nat /\ m \in Nat
    BY <1>1, <1>3
  <2>2. Rank[p] \in Nat /\ Rank[q] \in Nat /\ Rank[p] # Rank[q]
    BY PresetAssumption, <1>3, <1>4
  <2>3. prio[q] = m => Rank[p] <= Rank[q]
    BY <1>2, <1>3
  <2>4. QED
    BY <2>1, <2>2, <2>3 DEF Precedes
<1>5. \E x \in S : \A q \in S \ {x} : Precedes(prio, x, q)
  BY <1>3, <1>4
<1>6. QED
  BY <1>5 DEF First

LEMMA TopOfStack ==
    ASSUME Types, NEW n, Stack(n) # {}
    PROVE  Top(n) \in Stack(n) /\ Top(n) \in Presets
<1>1. Stack(n) \in SUBSET Presets
  BY DEF Stack
<1>2. Prio(Stack(n)) \in [Stack(n) -> Nat]
  BY <1>1 DEF Prio, Types, Entry
<1>3. QED
  BY <1>1, <1>2, FirstOfThem DEF Top

\* What decides on the content of a file.
LEMMA SameContent ==
    ASSUME NEW n, Stack(n)' = Stack(n), \A p \in Stack(n) : preg'[p].prio = preg[p].prio,
           Base(n)' = Base(n), n \in over' <=> n \in over
    PROVE  Resolved(n)' = Resolved(n)
<1>1. Prio(Stack(n))' = Prio(Stack(n))
  BY DEF Prio
<1>2. Top(n)' = Top(n)
  BY <1>1 DEF Top
<1>3. Content(n)' = Content(n)
  BY <1>1, <1>2 DEF Content
<1>4. QED
  BY <1>3 DEF Resolved

\* Another entry or directory of p is another stack for the names of p only.
LEMMA OneStack ==
    ASSUME NEW p, \A q \in Presets \ {p} : preg'[q] = preg[q] /\ pdir'[q] = pdir[q],
           ext' = ext, over' = over, NEW n, n \notin NamesOf(p)
    PROVE  Resolved(n)' = Resolved(n)
<1>1. Stack(n)' = Stack(n) /\ \A q \in Stack(n) : preg'[q] = preg[q]
  BY DEF Stack
<1>2. Base(n)' = Base(n)
  BY DEF Base
<1>3. QED
  BY <1>1, <1>2, SameContent

LEMMA SameStacks ==
    ASSUME UNCHANGED <<preg, pdir, ext, over>>, NEW n
    PROVE  /\ Resolved(n)' = Resolved(n) /\ Stack(n)' = Stack(n) /\ Top(n)' = Top(n) /\ Base(n)' = Base(n)
           /\ HasLayers(n)' = HasLayers(n)
<1>1. Stack(n)' = Stack(n) /\ Base(n)' = Base(n)
  BY DEF Stack, Base
<1>2. Top(n)' = Top(n)
  BY <1>1 DEF Top, Prio
<1>3. QED
  BY <1>1, <1>2, SameContent DEF HasLayers

-----------------------------------------------------------------------------
(* What the files show *)

Agrees(n) ==
    /\ files[n] = Resolved(n)
    /\ skills[n] # Nothing /\ Resolved(n) # Nothing => skills[n] = Resolved(n)

Follows == \A n \in Names \ stale : Agrees(n)

\* An entry lists names of its preset.
Entries == \A p \in Presets : preg[p].cmds \cup preg[p].skills \subseteq NamesOf(p)

\* What replaces is never composed.
Plain ==
    /\ composed = [p \in Presets |-> composed[p]]
    /\ \A p \in Presets : \A n \in Names : Strategy[p][n] = "replace" => composed[p][n] = Nothing

Shown == Follows /\ Entries /\ Plain

\* The command files show the names, and the skills can.
Ready(names) ==
    \A n \in names : /\ files[n] = Resolved(n)
                     /\ n \notin over /\ Stack(n) # {} /\ Resolved(n) # Nothing => Body(Top(n), n) = Resolved(n)

\* Their files can be reconciled.
Backed(names) == \A n \in names : HasLayers(n) \/ files[n] = Nothing

LEMMA FollowsOn ==
    ASSUME Follows, stale \subseteq stale',
           \A n \in Names \ stale' : files'[n] = files[n] /\ skills'[n] = skills[n] /\ Resolved(n)' = Resolved(n)
    PROVE  Follows'
<1>1. ASSUME NEW n \in Names \ stale'
      PROVE  Agrees(n)'
  <2>1. Agrees(n)
    BY <1>1 DEF Follows
  <2>2. QED
    BY <1>1, <2>1 DEF Agrees
<1>2. QED
  BY <1>1 DEF Follows

LEMMA ShownAlike ==
    ASSUME Shown, UNCHANGED presetVars
    PROVE  Shown'
<1>1. UNCHANGED <<preg, pdir, composed, ext, over, files, skills, stale>>
  BY DEF presetVars
<1>2. Follows'
  BY <1>1, FollowsOn, SameStacks DEF Shown
<1>3. QED
  BY <1>1, <1>2 DEF Shown, Entries, Plain

LEMMA EntriesTorn ==
    ASSUME preg' = [p \in Presets |-> NoEntry]
    PROVE  Entries'
  BY DEF Entries, NoEntry

LEMMA ShownTorn ==
    ASSUME Shown, TornRegistry, composed' = composed
    PROVE  Shown'
<1>1. Entries'
  BY EntriesTorn DEF TornRegistry
<1>2. Follows'
  BY DEF Follows, TornRegistry
<1>3. QED
  BY <1>1, <1>2 DEF Shown, Plain

\* Only the stacks of the names of p, which are stale, are others.
LEMMA ShownOne ==
    ASSUME Shown, NEW p \in Presets, NamesOf(p) \subseteq stale, stale' = stale,
           \A q \in Presets \ {p} : preg'[q] = preg[q] /\ pdir'[q] = pdir[q],
           UNCHANGED <<ext, over, files, skills>>
    PROVE  Follows'
<1>1. \A n \in Names \ stale' : Resolved(n)' = Resolved(n)
  BY OneStack
<1>2. QED
  BY <1>1, FollowsOn DEF Shown

\* No stack is another.
LEMMA ShownElsewhere ==
    ASSUME Shown, UNCHANGED <<preg, pdir, ext, over>>, stale \subseteq stale',
           \A n \in Names \ stale' : files'[n] = files[n] /\ skills'[n] = skills[n]
    PROVE  Follows' /\ Entries'
<1>1. Follows'
  BY SameStacks, FollowsOn DEF Shown
<1>2. QED
  BY <1>1 DEF Shown, Entries

LEMMA CheckShown ==
    ASSUME Shown, CheckPreset
    PROVE  Shown'
<1>1. UNCHANGED <<preg, pdir, composed, ext, over, files, skills>> /\ stale \subseteq stale'
  BY DEF CheckPreset
<1>2. Follows' /\ Entries'
  BY <1>1, ShownElsewhere
<1>3. QED
  BY <1>1, <1>2 DEF Shown, Plain

LEMMA CopyShown ==
    ASSUME Types, Shown, CopyPreset, arg \in Presets, NamesOf(arg) \subseteq stale
    PROVE  Shown'
<1>1. UNCHANGED <<preg, ext, over, files, skills, stale>> /\ \A q \in Presets \ {arg} : pdir'[q] = pdir[q]
  BY DEF CopyPreset, Types
<1>2. composed' = [composed EXCEPT ![arg] = [n \in Names |-> Nothing]]
  BY DEF CopyPreset
<1>3. Plain'
  <2> DEFINE c == [n \in Names |-> Nothing]
             p == arg
  <2>1. composed' = [composed EXCEPT ![p] = c] /\ \A n \in Names : c[n] = Nothing
    BY <1>2
  <2> HIDE DEF c, p
  <2>2. composed' = [q \in Presets |-> IF q = p THEN c ELSE composed[q]]
    BY <2>1 DEF Shown, Plain
  <2>3. QED
    BY <2>1, <2>2 DEF Shown, Plain
<1>4. Follows'
  BY <1>1, ShownOne
<1>5. QED
  BY <1>1, <1>3, <1>4 DEF Shown, Entries

\* An entry without names.
LEMMA NewEntryShown ==
    ASSUME Types, Shown, NEW p \in Presets, NamesOf(p) \subseteq stale, NEW e, preg' = [preg EXCEPT ![p] = e],
           e.cmds \cup e.skills \subseteq NamesOf(p), UNCHANGED <<pdir, composed, ext, over, files, skills, stale>>
    PROVE  Shown'
<1>1. preg'[p] = e /\ \A q \in Presets \ {p} : preg'[q] = preg[q]
  BY DEF Types
<1>2. Follows'
  BY <1>1, ShownOne
<1>3. Entries'
  BY <1>1 DEF Shown, Entries
<1>4. QED
  BY <1>2, <1>3 DEF Shown, Plain

LEMMA EnterShown ==
    ASSUME Types, Shown, EnterPreset, arg[1] \in Presets, NamesOf(arg[1]) \subseteq stale
    PROVE  Shown'
<1>1. UNCHANGED <<pdir, composed, ext, over, files, skills>>
  BY DEF EnterPreset
<1>2. CASE preg' = [preg EXCEPT ![arg[1]] = [NoEntry EXCEPT !.in = TRUE, !.on = TRUE, !.prio = arg[2]]] /\ UNCHANGED stale
  <2> DEFINE e == [NoEntry EXCEPT !.in = TRUE, !.on = TRUE, !.prio = arg[2]]
  <2>1. e.cmds \cup e.skills = {}
    BY DEF NoEntry
  <2>2. preg' = [preg EXCEPT ![arg[1]] = e]
    BY <1>2
  <2> HIDE DEF e
  <2>3. QED
    BY <1>1, <1>2, <2>1, <2>2, NewEntryShown
<1>3. CASE UNCHANGED <<preg, stale>>
  BY <1>1, <1>3, ShownAlike DEF presetVars
<1>4. CASE TornRegistry
  BY <1>1, <1>4, ShownTorn
<1>5. QED
  BY <1>2, <1>3, <1>4 DEF EnterPreset

LEMMA WriteShown ==
    ASSUME Shown, WritePreset, arg \in Presets, NamesOf(arg) \subseteq stale
    PROVE  Shown'
<1>1. UNCHANGED <<preg, pdir, ext, over, stale>>
  BY DEF WritePreset
<1>2. /\ composed' = composed \/ composed' = [composed EXCEPT ![arg] = Composed(arg)]
      /\ \A n \in Names \ Provided(arg) : files'[n] = files[n] /\ skills'[n] = skills[n]
  BY DEF WritePreset
<1>3. Provided(arg) \subseteq NamesOf(arg)
  BY DEF Provided
<1>4. Follows' /\ Entries'
  <2>1. \A n \in Names \ stale' : files'[n] = files[n] /\ skills'[n] = skills[n]
    BY <1>1, <1>2, <1>3
  <2>2. QED
    BY <1>1, <2>1, ShownElsewhere
<1>5. Plain'
  <2>1. CASE composed' = [composed EXCEPT ![arg] = Composed(arg)]
    <3> DEFINE p == arg
               c == Composed(p)
    <3>1. \A n \in Names : Strategy[p][n] = "replace" => c[n] = composed[p][n]
      BY DEF Composed, Tops
    <3>2. composed' = [composed EXCEPT ![p] = c]
      BY <2>1
    <3> HIDE DEF p, c
    <3>3. composed' = [q \in Presets |-> IF q = p THEN c ELSE composed[q]]
      BY <3>2 DEF Shown, Plain
    <3>4. QED
      BY <3>1, <3>3 DEF Shown, Plain
  <2>2. CASE composed' = composed
    BY <2>2 DEF Shown, Plain
  <2>3. QED
    BY <1>2, <2>1, <2>2
<1>6. QED
  BY <1>4, <1>5 DEF Shown

LEMMA SkillShown ==
    ASSUME Shown, SkillPreset, arg \in Presets, NamesOf(arg) \subseteq stale
    PROVE  Shown'
<1>1. UNCHANGED <<preg, pdir, composed, ext, over, files, stale>>
  BY DEF SkillPreset
<1>2. \A n \in Names \ Provided(arg) : skills'[n] = skills[n]
  BY DEF SkillPreset
<1>3. Provided(arg) \subseteq NamesOf(arg)
  BY DEF Provided
<1>4. Follows' /\ Entries'
  BY <1>1, <1>2, <1>3, ShownElsewhere
<1>5. QED
  BY <1>1, <1>4 DEF Shown, Plain

LEMMA NoteShown ==
    ASSUME Types, Shown, NotePreset, arg \in Presets, job.cmds \cup job.skills \subseteq NamesOf(arg)
    PROVE  Shown'
<1>1. UNCHANGED <<pdir, composed, ext, over, files, skills>>
  BY DEF NotePreset
<1>2. CASE preg' = [preg EXCEPT ![arg].cmds = job.cmds, ![arg].skills = job.skills] /\ UNCHANGED stale
  <2> DEFINE p == arg
             e == [preg[p] EXCEPT !.cmds = job.cmds, !.skills = job.skills]
  <2>1. e.cmds = job.cmds /\ e.skills = job.skills /\ e.in = preg[p].in /\ e.on = preg[p].on /\ e.prio = preg[p].prio
    BY DEF Types, Entry
  <2>2. preg' = [preg EXCEPT ![p] = e]
    BY <1>2 DEF Types
  <2> HIDE DEF e, p
  <2>3. preg'[p] = e /\ \A q \in Presets \ {p} : preg'[q] = preg[q]
    BY <2>2 DEF Types, p
  <2>4. Entries'
    BY <2>1, <2>3 DEF Shown, Entries, p
  <2>5. \A q \in Presets : preg'[q].in = preg[q].in /\ preg'[q].on = preg[q].on /\ preg'[q].prio = preg[q].prio
    BY <2>1, <2>3
  <2>6. ASSUME NEW n
        PROVE  Resolved(n)' = Resolved(n)
    <3>1. Stack(n)' = Stack(n) /\ \A q \in Stack(n) : preg'[q].prio = preg[q].prio
      BY <1>1, <2>5 DEF Stack
    <3>2. Base(n)' = Base(n)
      BY <1>1 DEF Base
    <3>3. QED
      BY <1>1, <3>1, <3>2, SameContent
  <2>7. Follows'
    BY <1>1, <1>2, <2>6, FollowsOn DEF Shown
  <2>8. QED
    BY <1>1, <2>4, <2>7 DEF Shown, Plain
<1>3. CASE UNCHANGED <<preg, stale>>
  BY <1>1, <1>3, ShownAlike DEF presetVars
<1>4. CASE TornRegistry
  BY <1>1, <1>4, ShownTorn
<1>5. QED
  BY <1>2, <1>3, <1>4 DEF NotePreset

LEMMA UnwriteShown ==
    ASSUME Shown, UnwritePreset, job.cmds \subseteq stale
    PROVE  Shown'
<1>1. UNCHANGED <<preg, pdir, composed, ext, over, stale>>
  BY DEF UnwritePreset
<1>2. \A n \in Names \ job.cmds : files'[n] = files[n] /\ skills'[n] = skills[n]
  BY DEF UnwritePreset
<1>3. Follows' /\ Entries'
  BY <1>1, <1>2, ShownElsewhere
<1>4. QED
  BY <1>1, <1>3 DEF Shown, Plain

LEMMA UnskillShown ==
    ASSUME Shown, UnskillPreset, arg \subseteq stale
    PROVE  Shown'
<1>1. UNCHANGED <<preg, pdir, composed, ext, over, files, stale>>
  BY DEF UnskillPreset
<1>2. \A n \in Names \ arg : skills'[n] = skills[n]
  BY DEF UnskillPreset, Unskilled
<1>3. Follows' /\ Entries'
  BY <1>1, <1>2, ShownElsewhere
<1>4. QED
  BY <1>1, <1>3 DEF Shown, Plain

LEMMA RemoveShown ==
    ASSUME Shown, BeginRemove
    PROVE  Shown'
<1>1. UNCHANGED <<preg, pdir, composed, ext, over, files, skills>> /\ stale \subseteq stale'
  BY DEF BeginRemove
<1>2. Follows' /\ Entries'
  BY <1>1, ShownElsewhere
<1>3. QED
  BY <1>1, <1>2 DEF Shown, Plain

LEMMA UnfileShown ==
    ASSUME Shown, Unfile, arg[1] \subseteq stale
    PROVE  Shown'
<1>1. UNCHANGED <<preg, pdir, composed, ext, over, stale>>
  BY DEF Unfile
<1>2. \A n \in Names \ arg[1] : files'[n] = files[n] /\ skills'[n] = skills[n]
  BY DEF Unfile
<1>3. Follows' /\ Entries'
  BY <1>1, <1>2, ShownElsewhere
<1>4. QED
  BY <1>1, <1>3 DEF Shown, Plain

LEMMA DeleteShown ==
    ASSUME Types, Shown, DeletePreset, arg[1] \in Presets, NamesOf(arg[1]) \subseteq stale
    PROVE  Shown'
<1>1. UNCHANGED <<preg, composed, ext, over, files, skills, stale>> /\ \A q \in Presets \ {arg[1]} : pdir'[q] = pdir[q]
  BY DEF DeletePreset, Types
<1>2. Follows'
  BY <1>1, ShownOne
<1>3. QED
  BY <1>1, <1>2 DEF Shown, Entries, Plain

LEMMA DropShown ==
    ASSUME Types, Shown, DropPreset, arg \in Presets, NamesOf(arg) \subseteq stale
    PROVE  Shown'
<1>1. UNCHANGED <<pdir, composed, ext, over, files, skills>>
  BY DEF DropPreset
<1>2. CASE preg' = [preg EXCEPT ![arg] = NoEntry] /\ UNCHANGED stale
  <2>1. NoEntry.cmds \cup NoEntry.skills = {}
    BY DEF NoEntry
  <2>2. QED
    BY <1>1, <1>2, <2>1, NewEntryShown
<1>3. CASE UNCHANGED <<preg, stale>>
  BY <1>1, <1>3, ShownAlike DEF presetVars
<1>4. CASE TornRegistry
  BY <1>1, <1>4, ShownTorn
<1>5. QED
  BY <1>2, <1>3, <1>4 DEF DropPreset

LEMMA NothingLayered ==
    ASSUME NEW n, ~HasLayers(n)
    PROVE  Resolved(n) = Nothing
  BY DEF HasLayers, Resolved, Content

\* The command files are what the names resolve to, and what the top preset keeps
\* is what the skill is written from.
LEMMA CommandsShown ==
    ASSUME Types, Shown, ReconcileCommands, arg \subseteq Names
    PROVE  Shown' /\ (Backed(arg) /\ Went /\ faults' = faults => \A names : names = arg => Ready(names)')
<1>1. PICK done \in SUBSET {n \in arg : HasLayers(n)} :
             /\ files' = [n \in Names |-> IF n \in done THEN Resolved(n) ELSE files[n]]
             /\ composed' = [p \in Presets |-> [n \in Names |->
                  IF n \in done /\ Winner(n) = {p} /\ Strategy[p][n] # "replace" /\ Resolved(n) # Nothing
                    THEN Resolved(n) ELSE composed[p][n]]]
             /\ \/ done = {n \in arg : HasLayers(n)} /\ Go(job)
                \/ done # {n \in arg : HasLayers(n)} /\ Stop
  BY DEF ReconcileCommands
<1>2. UNCHANGED <<preg, pdir, ext, over, skills, stale>>
  BY DEF ReconcileCommands
<1>3. Follows'
  <2>1. ASSUME NEW n \in Names \ stale'
        PROVE  Agrees(n)'
    <3>1. Agrees(n) /\ Resolved(n)' = Resolved(n)
      BY <1>2, <2>1, SameStacks DEF Shown, Follows
    <3>2. files'[n] = Resolved(n)
      BY <1>1, <2>1, <3>1 DEF Agrees
    <3>3. QED
      BY <1>2, <3>1, <3>2 DEF Agrees
  <2>2. QED
    BY <2>1 DEF Follows
<1>4. \A p \in Presets : \A n \in Names : Strategy[p][n] = "replace" => composed'[p][n] = composed[p][n]
  BY <1>1
<1>5. Plain'
  BY <1>1, <1>4 DEF Shown, Plain
<1>6. Shown'
  BY <1>2, <1>3, <1>5 DEF Shown, Entries
<1>7. ASSUME Backed(arg), faults' = faults
      PROVE  \A names : names = arg => Ready(names)'
  <2>1. done = {n \in arg : HasLayers(n)}
    BY <1>1, <1>7 DEF Stop, Fault, Types
  <2>2. ASSUME NEW n \in arg
        PROVE  /\ files'[n] = Resolved(n)'
               /\ n \notin over' /\ Stack(n)' # {} /\ Resolved(n)' # Nothing => Body(Top(n), n)' = Resolved(n)'
    <3>1. Resolved(n)' = Resolved(n) /\ Stack(n)' = Stack(n) /\ Top(n)' = Top(n) /\ n \in Names
      BY <1>2, <2>2, SameStacks
    <3>2. files'[n] = Resolved(n)
      <4>1. CASE HasLayers(n)
        BY <1>1, <2>1, <2>2, <3>1, <4>1
      <4>2. CASE ~HasLayers(n)
        <5>1. files'[n] = files[n]
          BY <1>1, <2>1, <3>1, <4>2
        <5>2. files[n] = Nothing
          BY <1>7, <2>2, <4>2 DEF Backed
        <5>3. QED
          BY <4>2, <5>1, <5>2, NothingLayered
      <4>3. QED
        BY <4>1, <4>2
    <3>3. ASSUME n \notin over, Stack(n) # {}, Resolved(n) # Nothing
          PROVE  Body(Top(n), n)' = Resolved(n)
      <4>1. PICK p \in Presets : p = Top(n)
        BY <3>3, TopOfStack
      <4>2. Winner(n) = {p} /\ n \in done
        BY <2>1, <2>2, <3>3, <4>1 DEF Winner, HasLayers
      <4>3. CASE Strategy[p][n] # "replace"
        <5>1. composed'[p][n] = Resolved(n)
          BY <1>1, <3>1, <4>2, <4>3, <3>3
        <5>2. QED
          BY <3>1, <3>3, <4>1, <5>1 DEF Body
      <4>4. CASE Strategy[p][n] = "replace"
        <5>1. composed'[p][n] = Nothing
          BY <1>5, <3>1, <4>4 DEF Plain
        <5>2. Resolved(n) = <<p>>
          BY <3>3, <4>1, <4>4 DEF Resolved, Content
        <5>3. QED
          BY <3>1, <4>1, <5>1, <5>2 DEF Body
      <4>5. QED
        BY <4>3, <4>4
    <3>4. QED
      BY <1>2, <3>1, <3>2, <3>3
  <2>3. QED
    BY <2>2 DEF Ready
<1>8. QED
  BY <1>6, <1>7

\* A skill that is written again shows what the command file shows.
LEMMA SkillsShown ==
    ASSUME Types, Shown, ReconcileSkills, arg \subseteq Names, Ready(arg)
    PROVE  Shown'
<1>1. PICK done \in SUBSET arg :
             /\ skills' = [n \in Names |-> IF n \in done THEN Reskilled(n) ELSE skills[n]]
             /\ done = arg \/ stale' = stale
             /\ stale' = stale \/ stale' = stale \ arg
  BY DEF ReconcileSkills
<1>2. UNCHANGED <<preg, pdir, composed, ext, over, files>>
  BY DEF ReconcileSkills
<1>3. ASSUME NEW n \in arg, Reskilled(n) # Nothing, Resolved(n) # Nothing
      PROVE  Reskilled(n) = Resolved(n)
  <2>1. HasLayers(n) /\ n \in Names
    BY <1>3, NothingLayered
  <2>2. CASE n \in over
    BY <2>1, <2>2 DEF Reskilled, Resolved
  <2>3. CASE n \notin over /\ Stack(n) = {}
    BY <1>3, <2>1, <2>3 DEF Reskilled, Resolved, Content, Base, Unskilled
  <2>4. CASE n \notin over /\ Stack(n) # {}
    BY <1>3, <2>1, <2>4 DEF Reskilled, Ready
  <2>5. QED
    BY <2>2, <2>3, <2>4
<1>4. ASSUME NEW n \in Names \ stale'
      PROVE  Agrees(n)'
  <2>1. Resolved(n)' = Resolved(n)
    BY <1>2, SameStacks
  <2>2. CASE n \in done
    BY <1>1, <1>2, <1>3, <2>1, <2>2 DEF Agrees, Ready
  <2>3. CASE n \notin done
    <3>1. n \notin stale
      BY <1>1, <1>4, <2>3
    <3>2. QED
      BY <1>1, <1>2, <1>4, <2>1, <2>3, <3>1 DEF Agrees, Shown, Follows
  <2>4. QED
    BY <2>2, <2>3
<1>5. Follows'
  BY <1>4 DEF Follows
<1>6. QED
  BY <1>2, <1>5 DEF Shown, Entries, Plain

LEMMA ExtendShown ==
    ASSUME Types, Shown, Extend, arg \in BOOLEAN
    PROVE  Shown'
<1>1. CASE UNCHANGED presetVars
  BY <1>1, ShownAlike
<1>2. CASE /\ ext' = arg
           /\ files' = [n \in Names |-> IF n \in ExtNames THEN (IF arg THEN <<Extension>> ELSE Nothing) ELSE files[n]]
           /\ skills' = [n \in Names |-> IF n \in ExtNames THEN (IF arg THEN <<Extension>> ELSE Nothing) ELSE skills[n]]
           /\ stale' = stale \cup {n \in ExtNames : Stack(n) # {} \/ n \in over \cup CoreNames}
           /\ UNCHANGED <<preg, pdir, composed, over>>
  <2>1. ASSUME NEW n \in Names \ stale'
        PROVE  Agrees(n)'
    <3>1. Stack(n)' = Stack(n)
      BY <1>2 DEF Stack
    <3>2. CASE n \in ExtNames
      <4>1. Stack(n)' = {} /\ n \notin over' /\ n \notin CoreNames
        BY <1>2, <2>1, <3>1, <3>2
      <4>2. Resolved(n)' = IF ext' THEN <<Extension>> ELSE Nothing
        BY <3>2, <4>1 DEF Resolved, Content, Base
      <4>3. files'[n] = (IF arg THEN <<Extension>> ELSE Nothing) /\ skills'[n] = files'[n]
        BY <1>2, <2>1, <3>2
      <4>4. QED
        BY <1>2, <4>2, <4>3 DEF Agrees
    <3>3. CASE n \notin ExtNames
      <4>1. Base(n)' = Base(n)
        BY <3>3 DEF Base
      <4>2. Resolved(n)' = Resolved(n)
        BY <1>2, <3>1, <4>1, SameContent
      <4>3. files'[n] = files[n] /\ skills'[n] = skills[n] /\ n \notin stale
        BY <1>2, <2>1, <3>3
      <4>4. Agrees(n)
        BY <2>1, <4>3 DEF Shown, Follows
      <4>5. QED
        BY <4>2, <4>3, <4>4 DEF Agrees
    <3>4. QED
      BY <3>2, <3>3
  <2>2. Follows'
    BY <2>1 DEF Follows
  <2>3. QED
    BY <1>2, <2>2 DEF Shown, Entries, Plain
<1>3. QED
  BY <1>1, <1>2 DEF Extend

LEMMA RetunedShown ==
    ASSUME Types, Shown, NEW p \in Presets, NEW e, Retuned(p, e), e.cmds = preg[p].cmds, e.skills = preg[p].skills
    PROVE  Shown'
<1>1. preg' = [preg EXCEPT ![p] = e] /\ UNCHANGED <<pdir, composed, ext, over, files, skills>>
      /\ stale' = stale \cup NamesOf(p)
  BY DEF Retuned
<1>2. preg'[p] = e /\ \A q \in Presets \ {p} : preg'[q] = preg[q]
  BY <1>1 DEF Types
<1>3. \A n \in Names \ stale' : Resolved(n)' = Resolved(n)
  BY <1>1, <1>2, OneStack
<1>4. Follows'
  BY <1>1, <1>3, FollowsOn DEF Shown
<1>5. Entries'
  BY <1>2 DEF Shown, Entries
<1>6. QED
  BY <1>1, <1>4, <1>5 DEF Shown, Plain

LEMMA TuneShown ==
    ASSUME Types, Shown, Tune
    PROVE  Shown'
<1>1. ASSUME NEW p \in Presets, NEW prio, SetPriority(p, prio)
      PROVE  Shown'
  <2> DEFINE e == [preg[p] EXCEPT !.prio = prio]
  <2>1. e.cmds = preg[p].cmds /\ e.skills = preg[p].skills
    BY DEF Types, Entry
  <2>2. Retuned(p, e)
    BY <1>1 DEF SetPriority
  <2> HIDE DEF e
  <2>3. QED
    BY <2>1, <2>2, RetunedShown
<1>2. ASSUME NEW p \in Presets, NEW on, SetEnabled(p, on)
      PROVE  Shown'
  <2> DEFINE e == [preg[p] EXCEPT !.on = on]
  <2>1. e.cmds = preg[p].cmds /\ e.skills = preg[p].skills
    BY DEF Types, Entry
  <2>2. Retuned(p, e)
    BY <1>2 DEF SetEnabled
  <2> HIDE DEF e
  <2>3. QED
    BY <2>1, <2>2, RetunedShown
<1>3. ASSUME NEW n \in Names, EditOverride(n)
      PROVE  Shown'
  <2>1. UNCHANGED <<preg, pdir, composed, ext, files, skills>> /\ stale' = stale \cup {n}
        /\ \A m \in Names \ {n} : m \in over' <=> m \in over
    BY <1>3 DEF EditOverride
  <2>2. ASSUME NEW m \in Names \ stale'
        PROVE  Resolved(m)' = Resolved(m)
    <3>1. Stack(m)' = Stack(m) /\ Base(m)' = Base(m)
      BY <2>1 DEF Stack, Base
    <3>2. QED
      BY <2>1, <2>2, <3>1, SameContent
  <2>3. Follows'
    BY <2>1, <2>2, FollowsOn DEF Shown
  <2>4. QED
    BY <2>1, <2>3 DEF Shown, Entries, Plain
<1>4. QED
  BY <1>1, <1>2, <1>3 DEF Tune

LEMMA ShownFirst == Init => Shown
<1> SUFFICES ASSUME Init
             PROVE  Shown
  OBVIOUS
<1>1. /\ preg = [p \in Presets |-> NoEntry] /\ over = {} /\ skills = files
      /\ composed = [p \in Presets |-> [n \in Names |-> Nothing]]
      /\ files = [n \in Names |-> IF n \in ExtNames /\ ext THEN <<Extension>>
                                  ELSE IF n \in CoreNames THEN <<Core>> ELSE Nothing]
  BY DEF Init, PresetInit
<1>2. ASSUME NEW n \in Names
      PROVE  files[n] = Resolved(n)
  <2>1. Stack(n) = {}
    BY <1>1 DEF Stack, NoEntry
  <2>2. Resolved(n) = Base(n)
    BY <1>1, <2>1 DEF Resolved, Content
  <2>3. QED
    BY <1>1, <2>2 DEF Base
<1>3. Follows
  BY <1>1, <1>2 DEF Follows, Agrees
<1>4. Entries
  BY <1>1 DEF Entries, NoEntry
<1>5. Plain
  BY <1>1 DEF Plain
<1>6. QED
  BY <1>3, <1>4, <1>5 DEF Shown

-----------------------------------------------------------------------------
(* Lists that are in the middle of no preset *)

\* A step outside of what installs or removes a preset, or the first one of it.
Simple(s) ==
    /\ s[1] \in {"end", "raise", "check", "remove", "extend", "part", "did", "unwind", "record", "unpart", "unrecord",
                 "fetch_workflow", "copy_workflow", "enter_workflow", "remove_workflow", "drop_workflow",
                 "fetch_step", "enter_step", "remove_step", "drop_step", "delete_step", "relist_step"}
    /\ s[1] = "check" => s[2][1] \in Presets
    /\ s[1] = "remove" => s[2] \in Presets
    /\ s[1] = "extend" => s[2] \in BOOLEAN
    /\ s[1] \in {"part", "unpart"} => s[2] \in Components

Simples(t) == \E S : t \in Seq(S) /\ \A s \in S : Simple(s)

Attempt(s) == \E b, h : s = <<"try", <<b, h>>>> /\ Simples(b) /\ Simples(h)

Free(t) == \E S : t \in Seq(S) /\ \A s \in S : Simple(s) \/ Attempt(s)

Frees(H) == \E S : H \in Seq(S) /\ \A t \in S : Free(t)

LEMMA FreeList ==
    ASSUME NEW t, Free(t)
    PROVE  IsList(t)
  BY DEF Free, IsList

LEMMA SimplesFree ==
    ASSUME NEW t, Simples(t)
    PROVE  Free(t)
  BY DEF Simples, Free

LEMMA NoSteps == Simples(<<>>) /\ Free(<<>>) /\ Frees(<<>>)
<1> DEFINE S == {}
           t == <<>>
<1>1. t \in Seq(S) /\ \A s \in S : FALSE
  OBVIOUS
<1> HIDE DEF S, t
<1>2. Simples(t) /\ Free(t) /\ Frees(t)
  BY <1>1 DEF Simples, Free, Frees
<1>3. QED
  BY <1>2 DEF t

LEMMA OneStep ==
    ASSUME NEW s
    PROVE  /\ Simple(s) => Simples(<<s>>) /\ Free(<<s>>)
           /\ Attempt(s) => Free(<<s>>)
<1> DEFINE S == {s}
           t == <<s>>
<1>1. t \in Seq(S) /\ \A x \in S : x = s
  OBVIOUS
<1> HIDE DEF S, t
<1>2. /\ Simple(s) => Simples(t) /\ Free(t)
      /\ Attempt(s) => Free(t)
  BY <1>1 DEF Simples, Free
<1>3. QED
  BY <1>2 DEF t

LEMMA SimplesPair ==
    ASSUME NEW s, Simple(s), NEW u, Simple(u)
    PROVE  Simples(<<s, u>>)
<1> DEFINE S == {s, u}
           t == <<s, u>>
<1>1. t \in Seq(S) /\ \A x \in S : x = s \/ x = u
  OBVIOUS
<1> HIDE DEF S, t
<1>2. Simples(t)
  BY <1>1 DEF Simples
<1>3. QED
  BY <1>2 DEF t

LEMMA FreeJoined ==
    ASSUME NEW s, Free(s), NEW t, Free(t)
    PROVE  Free(s \o t)
<1>1. PICK S : s \in Seq(S) /\ \A x \in S : Simple(x) \/ Attempt(x)
  BY DEF Free
<1>2. PICK T : t \in Seq(T) /\ \A x \in T : Simple(x) \/ Attempt(x)
  BY DEF Free
<1> DEFINE W == S \cup T
<1>3. s \in Seq(W) /\ t \in Seq(W)
  BY <1>1, <1>2, SeqMonotonic
<1>4. \A x \in W : Simple(x) \/ Attempt(x)
  BY <1>1, <1>2
<1> HIDE DEF W
<1>5. s \o t \in Seq(W)
  BY <1>3, ConcatProperties
<1>6. QED
  BY <1>4, <1>5 DEF Free

LEMMA FreeThen ==
    ASSUME NEW s, Simple(s) \/ Attempt(s), NEW t, Free(t)
    PROVE  Free(Then(s, t))
<1>1. Free(<<s>>)
  BY OneStep
<1>2. QED
  BY <1>1, FreeJoined DEF Then

LEMMA FreeFirst ==
    ASSUME NEW t, Free(t), t # <<>>
    PROVE  (Simple(Head(t)) \/ Attempt(Head(t))) /\ Free(Tail(t))
<1>1. PICK S : t \in Seq(S) /\ \A x \in S : Simple(x) \/ Attempt(x)
  BY DEF Free
<1>2. Head(t) \in S /\ Tail(t) \in Seq(S)
  BY <1>1, HeadTailProperties
<1>3. QED
  BY <1>1, <1>2 DEF Free

LEMMA FreesFirst ==
    ASSUME NEW H, Frees(H), H # <<>>
    PROVE  Free(Head(H)) /\ Frees(Tail(H))
<1>1. PICK S : H \in Seq(S) /\ \A x \in S : Free(x)
  BY DEF Frees
<1>2. Head(H) \in S /\ Tail(H) \in Seq(S)
  BY <1>1, HeadTailProperties
<1>3. QED
  BY <1>1, <1>2 DEF Frees

LEMMA FreesThen ==
    ASSUME NEW t, Free(t), NEW H, Frees(H)
    PROVE  Frees(Then(t, H))
<1>1. PICK S : H \in Seq(S) /\ \A x \in S : Free(x)
  BY DEF Frees
<1> DEFINE W == S \cup {t}
<1>2. <<t>> \in Seq(W) /\ H \in Seq(W) /\ \A x \in W : Free(x)
  BY <1>1, SeqMonotonic
<1> HIDE DEF W
<1>3. <<t>> \o H \in Seq(W)
  BY <1>2, ConcatProperties
<1>4. QED
  BY <1>2, <1>3 DEF Frees, Then

LEMMA FreesList ==
    ASSUME NEW H, Frees(H)
    PROVE  IsList(H)
  BY DEF Frees, IsList

\* The commands of a component, and of the handlers around them.
LEMMA CommandsSimple ==
    ASSUME NEW c \in Components
    PROVE  Simples(InstallOf(c)) /\ Simples(RemovalOf(c))
<1>1. CASE c \in Presets
  <2>1. Simple(<<"check", <<c, Priority>>>>) /\ Simple(<<"remove", c>>)
    BY <1>1 DEF Simple
  <2>2. QED
    BY <1>1, <2>1, OneStep, OneKind DEF InstallPreset, RemovePreset
<1>2. CASE c = Extension
  <2>1. Simple(<<"extend", TRUE>>) /\ Simple(<<"extend", FALSE>>)
    BY DEF Simple
  <2>2. QED
    BY <1>2, <2>1, OneStep, OneKind DEF InstallExtension, RemoveExtension
<1>3. CASE c \in Workflows
  <2>1. Simple(<<"fetch_workflow", c>>) /\ Simple(<<"enter_workflow", c>>) /\ Simple(<<"remove_workflow", c>>)
    BY DEF Simple
  <2>2. Simples(<<<<"fetch_workflow", c>>, <<"enter_workflow", c>>>>) /\ Simples(<<<<"remove_workflow", c>>>>)
    BY <2>1, OneStep, SimplesPair
  <2>3. QED
    BY <1>3, <2>2, OneKind DEF AddWorkflow, RemoveWorkflow
<1>4. CASE c \in StepTypes
  <2>1. Simple(<<"fetch_step", c>>) /\ Simple(<<"enter_step", c>>) /\ Simple(<<"remove_step", c>>)
    BY DEF Simple
  <2>2. Simples(<<<<"fetch_step", c>>, <<"enter_step", c>>>>) /\ Simples(<<<<"remove_step", c>>>>)
    BY <2>1, OneStep, SimplesPair
  <2>3. QED
    BY <1>4, <2>2, OneKind DEF AddStepType, RemoveStepType
<1>5. QED
  BY <1>1, <1>2, <1>3, <1>4 DEF Components

\* What a step does that leaves the presets alone.
Onwards ==
    \/ \E steps : Free(steps) /\ Put(steps)
    \/ Went
    \/ Threw
    \/ todo' = <<>> /\ handlers' = <<>>

LEMMA FreeOnwards ==
    ASSUME Free(todo), todo # <<>>, Frees(handlers), Onwards
    PROVE  Free(todo)' /\ Frees(handlers)'
<1>1. Free(Tail(todo))
  BY FreeFirst
<1>2. CASE Threw
  BY <1>2, FreesFirst, NoSteps DEF Threw
<1>3. CASE Went
  BY <1>1, <1>3 DEF Went
<1>4. CASE \E steps : Free(steps) /\ Put(steps)
  BY <1>1, <1>4, FreeJoined DEF Put
<1>5. CASE todo' = <<>> /\ handlers' = <<>>
  BY <1>5, NoSteps
<1>6. QED
  BY <1>2, <1>3, <1>4, <1>5 DEF Onwards

LEMMA StopsOnwards ==
    ASSUME Stop \/ Raise \/ Die \/ Pass \/ \E j : Go(j)
    PROVE  Onwards
  BY DEF Stop, Raise, Caught, Threw, Die, Pass, Went, Go, Onwards

LEMMA DoesOnwards ==
    ASSUME NEW steps, Free(steps), NEW j, Do(steps, j)
    PROVE  Onwards
  BY DEF Do, Put, Onwards

LEMMA WorkflowOnwards ==
    ASSUME FetchWorkflow \/ CopyWorkflow \/ EnterWorkflow \/ DeleteWorkflow \/ DropWorkflow
             \/ FetchStep \/ EnterStep \/ RemoveStep \/ DropStep \/ DeleteStep \/ RelistStep
    PROVE  Onwards
<1>1. CASE FetchWorkflow \/ CopyWorkflow \/ EnterWorkflow \/ DropWorkflow \/ FetchStep \/ EnterStep
             \/ DropStep \/ DeleteStep \/ RelistStep
  <2>1. (\E j : Go(j)) \/ Stop \/ Raise \/ Die \/ Pass
    BY <1>1 DEF FetchWorkflow, CopyWorkflow, EnterWorkflow, DropWorkflow, FetchStep, EnterStep, DropStep, DeleteStep,
       RelistStep, Reject
  <2>2. QED
    BY <2>1, StopsOnwards
<1>2. CASE DeleteWorkflow
  <2>1. Stop \/ Raise \/ Do(<<<<"drop_workflow", arg>>>>, job)
    BY <1>2 DEF DeleteWorkflow, Reject
  <2>2. Free(<<<<"drop_workflow", arg>>>>)
    <3>1. Simple(<<"drop_workflow", arg>>)
      BY DEF Simple
    <3>2. QED
      BY <3>1, OneStep
  <2>3. QED
    BY <2>1, <2>2, StopsOnwards, DoesOnwards
<1>3. CASE RemoveStep
  <2> DEFINE body == <<<<"delete_step", arg>>>>
             undo == <<<<"relist_step", arg>>, <<"raise", arg>>>>
             steps == <<<<"drop_step", arg>>>> \o Try(body, undo)
  <2>1. Simple(<<"delete_step", arg>>) /\ Simple(<<"relist_step", arg>>) /\ Simple(<<"raise", arg>>)
        /\ Simple(<<"drop_step", arg>>)
    BY DEF Simple
  <2>2. Simples(body) /\ Free(body) /\ Simples(undo) /\ Free(<<<<"drop_step", arg>>>>)
    BY <2>1, OneStep, SimplesPair
  <2>3. Raise \/ Do(body, job) \/ Do(steps, job)
    BY <1>3 DEF RemoveStep, Reject
  <2> HIDE DEF body, undo
  <2>4. Free(Try(body, undo))
    <3>1. Attempt(<<"try", <<body, undo>>>>)
      BY <2>2 DEF Attempt
    <3>2. QED
      BY <3>1, OneStep DEF Try
  <2>5. Free(steps)
    BY <2>2, <2>4, FreeJoined
  <2> HIDE DEF steps
  <2>6. QED
    BY <2>2, <2>3, <2>5, StopsOnwards, DoesOnwards
<1>4. QED
  BY <1>1, <1>2, <1>3

LEMMA BundleOnwards ==
    ASSUME Types, BundleStep, todo # <<>>, Simple(Head(todo))
    PROVE  Onwards /\ UNCHANGED presetVars
<1>1. UNCHANGED presetVars
  BY DEF BundleStep, Part, Did, Unwind, Record, Unpart, Unrecord, BundleOnly
<1>2. CASE Did \/ Record \/ Unrecord
  <2>1. (\E j : Go(j)) \/ Stop \/ Die
    BY <1>2 DEF Did, Record, Unrecord
  <2>2. QED
    BY <1>1, <2>1, StopsOnwards
<1>3. CASE Part
  <2>1. arg \in Components
    BY <1>3 DEF Part, In, arg, Simple
  <2>2. Free(InstallOf(arg)) /\ Free(<<>>)
    BY <2>1, CommandsSimple, SimplesFree, NoSteps
  <2>3. Free(InstallOf(arg) \o <<<<"did", arg>>>>)
    <3>1. Simple(<<"did", arg>>)
      BY DEF Simple
    <3>2. QED
      BY <2>2, <3>1, OneStep, FreeJoined
  <2>4. \E steps \in {InstallOf(arg), <<>>, InstallOf(arg) \o <<<<"did", arg>>>>} : \E j : Do(steps, j)
    BY <1>3 DEF Part
  <2>5. QED
    BY <1>1, <2>2, <2>3, <2>4, DoesOnwards
<1>4. CASE Unpart
  <2>1. arg \in Components
    BY <1>4 DEF Unpart, In, arg, Simple
  <2>2. Free(RemovalOf(arg)) /\ Free(<<>>)
    BY <2>1, CommandsSimple, SimplesFree, NoSteps
  <2>3. Do(RemovalOf(arg), job) \/ Do(<<>>, job)
    BY <1>4 DEF Unpart
  <2>4. QED
    BY <1>1, <2>2, <2>3, DoesOnwards
<1>5. CASE Unwind
  <2>1. Free(<<<<"raise", arg>>>>) /\ Free(<<<<"unwind", arg>>>>)
    <3>1. Simple(<<"raise", arg>>) /\ Simple(<<"unwind", arg>>)
      BY DEF Simple
    <3>2. QED
      BY <3>1, OneStep
  <2>2. CASE job.done = <<>>
    <3>1. \E j : Do(<<<<"raise", arg>>>>, j)
      BY <1>5, <2>2 DEF Unwind
    <3>2. QED
      BY <1>1, <2>1, <3>1, DoesOnwards
  <2>3. CASE job.done # <<>>
    <3> DEFINE c == Head(job.done)
               t == Try(RemovalOf(c), <<>>)
    <3>1. c \in Components
      BY <2>3, HeadTailProperties DEF Types, Job
    <3>2. \E j : Do(t \o <<<<"unwind", arg>>>>, j)
      BY <1>5, <2>3 DEF Unwind
    <3> HIDE DEF c
    <3>3. Attempt(<<"try", <<RemovalOf(c), <<>>>>>>)
      BY <3>1, CommandsSimple, NoSteps DEF Attempt
    <3>4. Free(t)
      BY <3>3, OneStep DEF Try
    <3> HIDE DEF t
    <3>5. QED
      BY <1>1, <2>1, <3>2, <3>4, FreeJoined, DoesOnwards
  <2>4. QED
    BY <2>2, <2>3
<1>6. QED
  BY <1>2, <1>3, <1>4, <1>5 DEF BundleStep

-----------------------------------------------------------------------------
(* Where the presets may be in *)

OnStack(p) == preg[p].in /\ preg[p].on /\ pdir[p] = "whole"

\* What the command notes for p are names of p, and all of these are stale.
Unsettled(p) == NamesOf(p) \subseteq stale /\ job.cmds \cup job.skills \subseteq NamesOf(p)

\* p is about to be put on the stack, and then written; r and H follow.
BeginsPreset(p, r, H) ==
    /\ Unsettled(p) /\ handlers = H
    /\ \E prio :
          LET entering == Then(<<"enter", <<p, prio>>>>, Then(Writing(p), r)) IN
          \/ todo = Then(<<"copy", p>>, entering)
          \/ todo = entering /\ pdir[p] = "whole"

PutsPreset(p, r, H) ==
    /\ Unsettled(p) /\ OnStack(p)
    /\ \/ todo = Then(Writing(p), r) /\ handlers = H
       \/ /\ handlers = Then(ToUnwrite(p, r), H)
          /\ LET noting == Then(<<"note", p>>, Then(End, r)) IN
             todo \in {Then(<<"write", p>>, Then(<<"note", p>>, Then(<<"reskill", p>>, noting))),
                       Then(<<"note", p>>, Then(<<"reskill", p>>, noting)), Then(<<"reskill", p>>, noting),
                       noting, Then(End, r)}

\* What has been written of p is taken back.
UndoesPreset(p, r, H) ==
    /\ Unsettled(p) /\ handlers = H
    /\ \/ todo \in {ToUnwrite(p, r), ToDelete(p, r), ToDrop(p, r), Then(<<"raise", p>>, r)}
       \/ \E names \in SUBSET NamesOf(p) : todo = Then(<<"unskill", names>>, ToDelete(p, r))

\* p is removed, with the command files of the names.
TakesPreset(p, names, r, H) ==
    LET dropping == Then(<<"drop", p>>, r)
        deleting == Then(<<"delete", <<p, FALSE>>>>, dropping) IN
    /\ NamesOf(p) \subseteq stale /\ handlers = H
    /\ \/ \E others \in SUBSET NamesOf(p) : \E b :
             todo = Then(<<"unskill", others>>, Then(<<"unfile", <<names, b>>>>, deleting))
       \/ \E b : todo = Then(<<"unfile", <<names, b>>>>, deleting)
       \/ todo \in {deleting, dropping} /\ \A n \in names : files[n] = Nothing

\* The names are reconciled.
SettlesNames(names, z, H) ==
    \/ Backed(names) /\ handlers = H /\ todo = Then(Reconciling(names), z)
    \/ /\ handlers = Then(z, H)
       /\ LET skilling == Then(<<"skills", names>>, Then(End, z)) IN
          \/ Backed(names) /\ todo = Then(<<"commands", names>>, skilling)
          \/ Ready(names) /\ todo = skilling

Flow ==
    \/ Free(todo) /\ Frees(handlers)
    \/ \E z, H :
          /\ Free(z) /\ Frees(H)
          /\ \/ \E names \in SUBSET Names : SettlesNames(names, z, H)
             \/ \E p \in Presets : \E names \in SUBSET NamesOf(p) :
                   LET r == RestOf(names, z) IN
                   BeginsPreset(p, r, H) \/ PutsPreset(p, r, H) \/ UndoesPreset(p, r, H) \/ TakesPreset(p, names, r, H)

LEMMA RestList ==
    ASSUME NEW z, Free(z), NEW names
    PROVE  IsList(RestOf(names, z))
  BY FreeList, ThenList DEF RestOf

LEMMA Rested ==
    ASSUME NEW z, Free(z), NEW H, Frees(H), NEW names \in SUBSET Names, todo' = RestOf(names, z), handlers' = H,
           Backed(names)'
    PROVE  Flow'
<1>1. CASE names = {}
  BY <1>1 DEF RestOf, Flow
<1>2. CASE names # {}
  <2>1. SettlesNames(names, z, H)'
    BY <1>2 DEF RestOf, SettlesNames
  <2>2. QED
    BY <2>1 DEF Flow
<1>3. QED
  BY <1>1, <1>2

LEMMA EndsFree ==
    ASSUME Frees(handlers), Stop \/ Raise \/ Die
    PROVE  Flow'
<1>1. CASE Raise
  BY <1>1, FreesFirst, NoSteps DEF Raise, Caught, Flow
<1>2. CASE Die
  BY <1>2, NoSteps DEF Die, Flow
<1>3. QED
  BY <1>1, <1>2 DEF Stop

LEMMA KillShown ==
    ASSUME Shown, Kill
    PROVE  Shown' /\ Flow'
<1>1. Shown'
  BY ShownAlike DEF Kill
<1>2. todo' = <<>> /\ handlers' = <<>>
  BY DEF Kill, Die
<1>3. QED
  BY <1>1, <1>2, NoSteps DEF Flow

\* What is noted stays noted, or is forgotten.
LEMMA UnsettledOn ==
    ASSUME NEW p, Unsettled(p), stale \subseteq stale', job' = job \/ job' = NoJob
    PROVE  Unsettled(p)'
  BY DEF Unsettled, NoJob

LEMMA SettlesStep ==
    ASSUME Types, Shown, Step, NEW names \in SUBSET Names, NEW z, Free(z), NEW H, Frees(H), SettlesNames(names, z, H)
    PROVE  Shown' /\ Flow'
<1>1. IsList(z) /\ IsList(H) /\ IsList(Then(End, z)) /\ IsList(Then(<<"skills", names>>, Then(End, z)))
  BY FreeList, FreesList, ThenList
<1>2. CASE Kill
  BY <1>2, KillShown
<1>3. CASE ~Kill /\ Backed(names) /\ handlers = H /\ todo = Then(Reconciling(names), z)
  <2> DEFINE body == <<<<"commands", names>>, <<"skills", names>>>>
  <2>1. Head(todo) = <<"try", <<body, <<>>>>>> /\ Tail(todo) = z
    BY <1>1, <1>3, ThenList DEF Reconciling
  <2>2. Head(todo)[1] = "try" /\ arg[1] = body /\ arg[2] = <<>>
    BY <2>1 DEF arg
  <2>3. EnterTry
    BY <1>3, <2>2, WhichStep
  <2>4. UNCHANGED presetVars /\ todo' = (body \o <<<<"end", {}>>>>) \o z /\ handlers' = <<<<>> \o z>> \o H
    <3> HIDE DEF body
    <3>1. QED
      BY <1>3, <2>1, <2>2, <2>3 DEF EnterTry
  <2>5. todo' = Then(<<"commands", names>>, Then(<<"skills", names>>, Then(End, z)))
    <3> DEFINE S == {<<"commands", names>>, <<"skills", names>>}
    <3>1. body \in Seq(S)
      OBVIOUS
    <3>2. \A a, b : <<a, b>> \o Then(End, z) = Then(a, Then(b, Then(End, z)))
      BY <1>1, StepsThen
    <3>3. body \o Then(End, z) = Then(<<"commands", names>>, Then(<<"skills", names>>, Then(End, z)))
      BY <3>2, Zenon
    <3> HIDE DEF body, S
    <3>4. (body \o <<End>>) \o z = body \o Then(End, z)
      BY <1>1, <3>1, BodyThen
    <3>5. QED
      BY <2>4, <3>3, <3>4 DEF End
  <2>6. handlers' = Then(z, H)
    BY <1>1, <2>4, StepsThen DEF Then
  <2>7. Backed(names)'
    <3>1. UNCHANGED <<preg, pdir, ext, over, files>>
      BY <2>4 DEF presetVars
    <3>2. \A n \in names : HasLayers(n)' = HasLayers(n)
      BY <3>1, SameStacks
    <3>3. QED
      BY <1>3, <3>1, <3>2 DEF Backed
  <2>8. SettlesNames(names, z, H)'
    BY <2>5, <2>6, <2>7 DEF SettlesNames
  <2>9. Shown'
    BY <2>4, ShownAlike
  <2>10. QED
    BY <2>8, <2>9 DEF Flow
<1>4. CASE ~Kill /\ Backed(names) /\ handlers = Then(z, H) /\ todo = Then(<<"commands", names>>, Then(<<"skills", names>>, Then(End, z)))
  <2>1. Head(todo) = <<"commands", names>> /\ Tail(todo) = Then(<<"skills", names>>, Then(End, z))
    BY <1>1, <1>4, ThenList
  <2>2. Head(todo)[1] = "commands" /\ arg = names
    BY <2>1 DEF arg
  <2>3. ReconcileCommands
    BY <1>4, <2>2, WhichStep
  <2>4. Shown' /\ (Went /\ faults' = faults => Ready(names)')
    BY <1>4, <2>2, <2>3, CommandsShown
  <2>5. Go(job) \/ Stop
    BY <2>3 DEF ReconcileCommands
  <2>6. CASE Go(job)
    <3>1. Went /\ faults' = faults
      BY <2>6 DEF Go, Went
    <3>2. SettlesNames(names, z, H)'
      BY <1>4, <2>1, <2>4, <3>1 DEF Went, SettlesNames
    <3>3. QED
      BY <2>4, <3>2 DEF Flow
  <2>7. CASE Stop
    BY <1>4, <2>4, <2>7, FreesThen, EndsFree
  <2>8. QED
    BY <2>5, <2>6, <2>7
<1>5. CASE ~Kill /\ Ready(names) /\ handlers = Then(z, H) /\ todo = Then(<<"skills", names>>, Then(End, z))
  <2>1. Head(todo) = <<"skills", names>> /\ Tail(todo) = Then(End, z)
    BY <1>1, <1>5, ThenList
  <2>2. Head(todo)[1] = "skills" /\ arg = names
    BY <2>1 DEF arg
  <2>3. ReconcileSkills
    BY <1>5, <2>2, WhichStep
  <2>4. Shown'
    BY <1>5, <2>2, <2>3, SkillsShown
  <2>5. Go(job) \/ Stop
    BY <2>3 DEF ReconcileSkills
  <2>6. CASE Go(job)
    <3>1. Simple(End)
      BY DEF End, Simple
    <3>2. Free(todo') /\ Frees(handlers')
      BY <1>5, <2>1, <2>6, <3>1, FreeThen, FreesThen DEF Go
    <3>3. QED
      BY <2>4, <3>2 DEF Flow
  <2>7. CASE Stop
    BY <1>5, <2>4, <2>7, FreesThen, EndsFree
  <2>8. QED
    BY <2>5, <2>6, <2>7
<1>6. QED
  BY <1>2, <1>3, <1>4, <1>5 DEF SettlesNames

\* In the middle of p.
LEMMA MiddleOfOne ==
    ASSUME NEW z, Free(z), NEW H, Frees(H), NEW p \in Presets, NEW names \in SUBSET NamesOf(p), NEW r, r = RestOf(names, z),
           \/ BeginsPreset(p, r, H)' \/ PutsPreset(p, r, H)' \/ UndoesPreset(p, r, H)' \/ TakesPreset(p, names, r, H)'
    PROVE  Flow'
  BY DEF Flow

LEMMA BeginsStep ==
    ASSUME Types, Shown, Step, NEW z, Free(z), NEW H, Frees(H), NEW p \in Presets, NEW names \in SUBSET NamesOf(p),
           NEW r, r = RestOf(names, z), BeginsPreset(p, r, H)
    PROVE  Shown' /\ Flow'
<1>1. PICK prio :
          LET entering == Then(<<"enter", <<p, prio>>>>, Then(Writing(p), r)) IN
          todo = Then(<<"copy", p>>, entering) \/ (todo = entering /\ pdir[p] = "whole")
  BY DEF BeginsPreset
<1> DEFINE entering == Then(<<"enter", <<p, prio>>>>, Then(Writing(p), r))
<1>2. IsList(r) /\ IsList(Then(Writing(p), r)) /\ IsList(entering)
  BY RestList, ThenList
<1>3. Unsettled(p) /\ NamesOf(p) \subseteq stale /\ Frees(handlers) /\ handlers = H
  BY DEF BeginsPreset, Unsettled
<1>4. CASE Kill
  BY <1>4, KillShown
<1>5. CASE ~Kill /\ todo = Then(<<"copy", p>>, entering)
  <2>1. Head(todo) = <<"copy", p>> /\ Tail(todo) = entering
    BY <1>2, <1>5, ThenList
  <2> HIDE DEF entering
  <2>2. Head(todo)[1] = "copy" /\ arg = p
    BY <2>1 DEF arg
  <2>3. CopyPreset
    BY <1>5, <2>2, WhichStep
  <2>4. Shown'
    BY <1>3, <2>2, <2>3, CopyShown
  <2>5. PICK d \in {"none", "torn", "whole"} :
               /\ pdir' = [pdir EXCEPT ![p] = d]
               /\ stale' = stale
               /\ (d = "whole" /\ Go(job)) \/ Stop
    BY <2>2, <2>3 DEF CopyPreset
  <2>6. CASE d = "whole" /\ Go(job)
    <3>1. pdir'[p] = "whole" /\ todo' = entering /\ handlers' = H /\ (job' = job \/ job' = NoJob)
      BY <1>3, <2>1, <2>5, <2>6 DEF Types, Go, Remember
    <3>2. Unsettled(p)'
      BY <1>3, <2>5, <3>1, UnsettledOn
    <3>3. BeginsPreset(p, r, H)'
      BY <3>1, <3>2 DEF BeginsPreset, entering
    <3>4. QED
      BY <2>4, <3>3, MiddleOfOne
  <2>7. CASE Stop
    BY <1>3, <2>4, <2>7, EndsFree
  <2>8. QED
    BY <2>5, <2>6, <2>7
<1>6. CASE ~Kill /\ todo = entering /\ pdir[p] = "whole"
  <2>1. Head(todo) = <<"enter", <<p, prio>>>> /\ Tail(todo) = Then(Writing(p), r)
    BY <1>2, <1>6, ThenList
  <2>2. Head(todo)[1] = "enter" /\ arg = <<p, prio>> /\ arg[1] = p
    BY <2>1 DEF arg
  <2>3. EnterPreset
    BY <1>6, <2>2, WhichStep
  <2>4. Shown'
    BY <1>3, <2>2, <2>3, EnterShown
  <2>5. \/ /\ preg' = [preg EXCEPT ![p] = [NoEntry EXCEPT !.in = TRUE, !.on = TRUE, !.prio = arg[2]]]
           /\ Go(job) /\ stale' = stale
        \/ Stop \/ Die
    BY <2>2, <2>3 DEF EnterPreset, TornRegistry
  <2>6. CASE /\ preg' = [preg EXCEPT ![p] = [NoEntry EXCEPT !.in = TRUE, !.on = TRUE, !.prio = arg[2]]]
             /\ Go(job) /\ stale' = stale
    <3> DEFINE e == [NoEntry EXCEPT !.in = TRUE, !.on = TRUE, !.prio = arg[2]]
    <3>1. e.in /\ e.on
      BY DEF NoEntry
    <3>2. preg' = [preg EXCEPT ![p] = e]
      BY <2>6
    <3> HIDE DEF e
    <3>3. preg'[p] = e /\ pdir'[p] = "whole"
      BY <1>6, <2>3, <3>2 DEF Types, EnterPreset
    <3>4. todo' = Then(Writing(p), r) /\ handlers' = H /\ (job' = job \/ job' = NoJob)
      BY <1>3, <2>1, <2>6 DEF Go, Remember
    <3>5. Unsettled(p)'
      BY <1>3, <2>6, <3>4, UnsettledOn
    <3>6. PutsPreset(p, r, H)'
      BY <3>1, <3>3, <3>4, <3>5 DEF PutsPreset, OnStack
    <3>7. QED
      BY <2>4, <3>6, MiddleOfOne
  <2>7. CASE Stop \/ Die
    BY <1>3, <2>4, <2>7, EndsFree
  <2>8. QED
    BY <2>5, <2>6, <2>7
<1>7. QED
  BY <1>1, <1>4, <1>5, <1>6

\* In the except block's reach an exception leads to it.
LEMMA PutsEnds ==
    ASSUME NEW z, Free(z), NEW H, Frees(H), NEW p \in Presets, NEW names \in SUBSET NamesOf(p),
           NEW r, r = RestOf(names, z), Unsettled(p), Die \/ stale' = stale,
           handlers = Then(ToUnwrite(p, r), H), Stop \/ Raise \/ Die
    PROVE  Flow'
<1>1. IsList(r) /\ IsList(ToUnwrite(p, r)) /\ IsList(H)
  BY RestList, FreesList, ThenList DEF ToUnwrite, ToDelete, ToDrop
<1>2. CASE Raise /\ stale' = stale
  <2>1. handlers # <<>> /\ Head(handlers) = ToUnwrite(p, r) /\ Tail(handlers) = H
    BY <1>1, ThenList
  <2>2. todo' = ToUnwrite(p, r) /\ handlers' = H /\ (job' = job \/ job' = NoJob)
    BY <1>2, <2>1 DEF Raise, Caught, Remember
  <2>3. Unsettled(p)'
    BY <1>2, <2>2, UnsettledOn
  <2>4. UndoesPreset(p, r, H)'
    BY <2>2, <2>3 DEF UndoesPreset
  <2>5. QED
    BY <2>4, MiddleOfOne
<1>3. CASE Die
  BY <1>3, NoSteps DEF Die, Flow
<1>4. QED
  BY <1>2, <1>3 DEF Stop

LEMMA PutsStep ==
    ASSUME Types, Shown, Step, NEW z, Free(z), NEW H, Frees(H), NEW p \in Presets, NEW names \in SUBSET NamesOf(p),
           NEW r, r = RestOf(names, z), PutsPreset(p, r, H)
    PROVE  Shown' /\ Flow'
<1> DEFINE noting == Then(<<"note", p>>, Then(End, r))
           reskilling == Then(<<"reskill", p>>, noting)
           noting1 == Then(<<"note", p>>, reskilling)
           writing == Then(<<"write", p>>, noting1)
           hs == Then(ToUnwrite(p, r), H)
<1>1. /\ Unsettled(p) /\ OnStack(p)
      /\ \/ todo = Then(Writing(p), r) /\ handlers = H
         \/ handlers = hs /\ todo \in {writing, noting1, reskilling, noting, Then(End, r)}
  BY DEF PutsPreset
<1>2. /\ IsList(r) /\ IsList(Then(End, r)) /\ IsList(noting) /\ IsList(reskilling) /\ IsList(noting1)
      /\ IsList(ToUnwrite(p, r)) /\ IsList(H)
  BY RestList, FreesList, ThenList DEF ToUnwrite, ToDelete, ToDrop
<1>3. NamesOf(p) \subseteq stale /\ job.cmds \cup job.skills \subseteq NamesOf(p)
  BY <1>1 DEF Unsettled
<1>4. ASSUME Shown', Unsettled(p)', OnStack(p)', handlers' = hs,
             todo' \in {writing, noting1, reskilling, noting, Then(End, r)}
      PROVE  Shown' /\ Flow'
  <2>1. PutsPreset(p, r, H)'
    BY <1>4 DEF PutsPreset
  <2>2. QED
    BY <1>4, <2>1, MiddleOfOne
<1>5. ASSUME UNCHANGED <<preg, pdir>>
      PROVE  OnStack(p)'
  BY <1>1, <1>5 DEF OnStack
<1>6. ASSUME Shown', Die \/ stale' = stale, handlers = hs, Stop \/ Raise \/ Die
      PROVE  Shown' /\ Flow'
  BY <1>1, <1>6, PutsEnds
<1>7. CASE Kill
  BY <1>7, KillShown
<1>8. CASE ~Kill /\ todo = Then(Writing(p), r) /\ handlers = H
  <2> DEFINE body == <<<<"write", p>>, <<"note", p>>, <<"reskill", p>>, <<"note", p>>>>
             handler == <<<<"unwrite", p>>, <<"delete", <<p, TRUE>>>>, <<"drop", p>>, <<"raise", p>>>>
  <2>1. Head(todo) = <<"try", <<body, handler>>>> /\ Tail(todo) = r
    BY <1>2, <1>8, ThenList DEF Writing
  <2>2. /\ (body \o <<<<"end", {}>>>>) \o r = writing
        /\ handler \o r = ToUnwrite(p, r)
    BY <1>2, TriedThen
  <2> HIDE DEF body, handler, writing
  <2>3. Head(todo)[1] = "try" /\ arg[1] = body /\ arg[2] = handler
    BY <2>1 DEF arg
  <2>4. EnterTry
    BY <1>8, <2>3, WhichStep
  <2>5. /\ UNCHANGED presetVars /\ job' = job
        /\ todo' = (body \o <<<<"end", {}>>>>) \o Tail(todo)
        /\ handlers' = <<handler \o Tail(todo)>> \o handlers
    BY <2>3, <2>4 DEF EnterTry
  <2>6. todo' = writing /\ handlers' = hs
    BY <1>8, <2>1, <2>2, <2>5 DEF Then
  <2>7. UNCHANGED <<preg, pdir, stale>>
    BY <2>5 DEF presetVars
  <2>8. Unsettled(p)' /\ OnStack(p)'
    BY <1>1, <1>5, <2>5, <2>7, UnsettledOn
  <2>9. Shown'
    BY <2>5, ShownAlike
  <2>10. QED
    BY <1>4, <2>6, <2>8, <2>9
<1>9. CASE ~Kill /\ handlers = hs /\ todo = writing
  <2>1. Head(todo) = <<"write", p>> /\ Tail(todo) = noting1
    BY <1>2, <1>9, ThenList
  <2> HIDE DEF noting1, hs
  <2>2. Head(todo)[1] = "write" /\ arg = p
    BY <2>1 DEF arg
  <2>3. WritePreset
    BY <1>9, <2>2, WhichStep
  <2>4. Shown'
    BY <1>3, <2>2, <2>3, WriteShown
  <2>5. UNCHANGED <<preg, pdir, stale>>
    BY <2>3 DEF WritePreset
  <2>6. \/ Raise \/ Stop
        \/ \E done \in SUBSET Provided(p) : Go([job EXCEPT !.cmds = done])
    BY <2>2, <2>3 DEF WritePreset
  <2>7. ASSUME NEW done \in SUBSET Provided(p), Go([job EXCEPT !.cmds = done])
        PROVE  Shown' /\ Flow'
    <3> DEFINE j == [job EXCEPT !.cmds = done]
    <3>1. j.cmds = done /\ j.skills = job.skills
      BY DEF Types, Job
    <3>2. Go(j)
      BY <2>7
    <3> HIDE DEF j
    <3>3. todo' = noting1 /\ handlers' = hs /\ (job' = j \/ job' = NoJob)
      BY <1>9, <2>1, <3>2 DEF Go, Remember
    <3>4. Unsettled(p)'
      BY <1>3, <2>5, <3>1, <3>3 DEF Unsettled, NoJob, Provided
    <3>5. QED
      BY <1>4, <1>5, <2>4, <2>5, <3>3, <3>4
  <2>8. CASE Raise \/ Stop
    BY <1>6, <1>9, <2>4, <2>5, <2>8
  <2>9. QED
    BY <2>6, <2>7, <2>8
<1>10. ASSUME ~Kill, handlers = hs, NEW next \in {reskilling, Then(End, r)}, todo = Then(<<"note", p>>, next)
       PROVE  Shown' /\ Flow'
  <2>1. Head(todo) = <<"note", p>> /\ Tail(todo) = next
    BY <1>2, <1>10, ThenList
  <2> HIDE DEF reskilling, hs
  <2>2. Head(todo)[1] = "note" /\ arg = p
    BY <2>1 DEF arg
  <2>3. NotePreset
    BY <1>10, <2>2, WhichStep
  <2>4. Shown'
    BY <1>3, <2>2, <2>3, NoteShown
  <2>5. \/ preg' = [preg EXCEPT ![p].cmds = job.cmds, ![p].skills = job.skills] /\ Go(job) /\ stale' = stale
        \/ UNCHANGED <<preg, stale>> /\ Stop
        \/ stale' = Names /\ Die
    BY <2>2, <2>3 DEF NotePreset, TornRegistry
  <2>6. CASE preg' = [preg EXCEPT ![p].cmds = job.cmds, ![p].skills = job.skills] /\ Go(job) /\ stale' = stale
    <3> DEFINE e == [preg[p] EXCEPT !.cmds = job.cmds, !.skills = job.skills]
    <3>1. e.in = preg[p].in /\ e.on = preg[p].on
      BY DEF Types, Entry
    <3>2. preg' = [preg EXCEPT ![p] = e]
      BY <2>6 DEF Types
    <3> HIDE DEF e
    <3>3. preg'[p] = e /\ pdir' = pdir
      BY <2>3, <3>2 DEF Types, NotePreset
    <3>4. OnStack(p)'
      BY <1>1, <3>1, <3>3 DEF OnStack
    <3>5. todo' = next /\ handlers' = hs /\ (job' = job \/ job' = NoJob)
      BY <1>10, <2>1, <2>6 DEF Go, Remember
    <3>6. Unsettled(p)'
      BY <1>1, <2>6, <3>5, UnsettledOn
    <3>7. QED
      BY <1>4, <1>10, <2>4, <3>4, <3>5, <3>6
  <2>7. CASE (stale' = stale /\ Stop) \/ (stale' = Names /\ Die)
    BY <1>6, <1>10, <2>4, <2>7
  <2>8. QED
    BY <2>5, <2>6, <2>7
<1>11. CASE ~Kill /\ handlers = hs /\ todo = reskilling
  <2>1. Head(todo) = <<"reskill", p>> /\ Tail(todo) = noting
    BY <1>2, <1>11, ThenList
  <2> HIDE DEF noting, hs
  <2>2. Head(todo)[1] = "reskill" /\ arg = p
    BY <2>1 DEF arg
  <2>3. SkillPreset
    BY <1>11, <2>2, WhichStep
  <2>4. Shown'
    BY <1>3, <2>2, <2>3, SkillShown
  <2>5. UNCHANGED <<preg, pdir, stale>>
    BY <2>3 DEF SkillPreset
  <2>6. Stop \/ \E done \in SUBSET Provided(p) : Go([job EXCEPT !.skills = done])
    <3>1. PICK done \in SUBSET {n \in Provided(p) : skills[n] # Nothing} :
                 Go([job EXCEPT !.skills = done]) \/ Stop
      BY <2>2, <2>3 DEF SkillPreset
    <3>2. QED
      BY <3>1
  <2>7. ASSUME NEW done \in SUBSET Provided(p), Go([job EXCEPT !.skills = done])
        PROVE  Shown' /\ Flow'
    <3> DEFINE j == [job EXCEPT !.skills = done]
    <3>1. j.skills = done /\ j.cmds = job.cmds
      BY DEF Types, Job
    <3>2. Go(j)
      BY <2>7
    <3> HIDE DEF j
    <3>3. todo' = noting /\ handlers' = hs /\ (job' = j \/ job' = NoJob)
      BY <1>11, <2>1, <3>2 DEF Go, Remember
    <3>4. Unsettled(p)'
      BY <1>3, <2>5, <3>1, <3>3 DEF Unsettled, NoJob, Provided
    <3>5. QED
      BY <1>4, <1>5, <2>4, <2>5, <3>3, <3>4
  <2>8. CASE Stop
    BY <1>6, <1>11, <2>4, <2>5, <2>8
  <2>9. QED
    BY <2>6, <2>7, <2>8
<1>12. CASE ~Kill /\ handlers = hs /\ todo = Then(End, r)
  <2>1. Head(todo) = End /\ Tail(todo) = r /\ Tail(handlers) = H
    BY <1>2, <1>12, ThenList
  <2>2. Head(todo)[1] = "end"
    BY <2>1 DEF End
  <2>3. LeaveTry
    BY <1>12, <2>2, WhichStep
  <2>4. UNCHANGED presetVars /\ todo' = RestOf(names, z) /\ handlers' = H
    BY <2>1, <2>3 DEF LeaveTry
  <2>5. Shown'
    BY <2>4, ShownAlike
  <2>6. OnStack(p)'
    BY <1>5, <2>4 DEF presetVars
  <2>7. Backed(names)'
    <3>1. OnStack(p)' => Backed(names)'
      <4>1. \A n \in names : Stack(n)' # {} => HasLayers(n)'
        BY DEF HasLayers
      <4>2. OnStack(p)' => \A n \in names : p \in Stack(n)'
        BY DEF OnStack, Stack
      <4>3. QED
        BY <4>1, <4>2 DEF Backed
    <3>2. QED
      BY <2>6, <3>1
  <2>8. names \in SUBSET Names
    BY DEF NamesOf
  <2>9. QED
    BY <2>4, <2>5, <2>7, <2>8, Rested
<1>13. QED
  BY <1>1, <1>7, <1>8, <1>9, <1>10, <1>11, <1>12

LEMMA UndoesStep ==
    ASSUME Types, Shown, Step, NEW z, Free(z), NEW H, Frees(H), NEW p \in Presets, NEW names \in SUBSET NamesOf(p),
           NEW r, r = RestOf(names, z), UndoesPreset(p, r, H)
    PROVE  Shown' /\ Flow'
<1> DEFINE raising == Then(<<"raise", p>>, r)
<1>1. /\ Unsettled(p) /\ handlers = H
      /\ \/ todo \in {ToUnwrite(p, r), ToDelete(p, r), ToDrop(p, r), raising}
         \/ \E others \in SUBSET NamesOf(p) : todo = Then(<<"unskill", others>>, ToDelete(p, r))
  BY DEF UndoesPreset
<1>2. IsList(r) /\ IsList(raising) /\ IsList(ToDrop(p, r)) /\ IsList(ToDelete(p, r))
  BY RestList, ThenList DEF ToDelete, ToDrop
<1>3. NamesOf(p) \subseteq stale /\ job.cmds \cup job.skills \subseteq NamesOf(p) /\ Frees(handlers)
  BY <1>1 DEF Unsettled
<1>4. ASSUME Shown', stale' = stale, job' = job \/ job' = NoJob, handlers' = H,
             \/ todo' \in {ToDelete(p, r), ToDrop(p, r), raising}
             \/ \E others \in SUBSET NamesOf(p) : todo' = Then(<<"unskill", others>>, ToDelete(p, r))
      PROVE  Shown' /\ Flow'
  <2>1. Unsettled(p)'
    BY <1>1, <1>4, UnsettledOn
  <2>2. UndoesPreset(p, r, H)'
    BY <1>4, <2>1 DEF UndoesPreset
  <2>3. QED
    BY <1>4, <2>2, MiddleOfOne
<1>5. ASSUME Shown', Stop \/ Raise \/ Die
      PROVE  Shown' /\ Flow'
  BY <1>3, <1>5, EndsFree
<1>6. CASE Kill
  BY <1>6, KillShown
<1>7. CASE ~Kill /\ todo = ToUnwrite(p, r)
  <2>1. Head(todo) = <<"unwrite", p>> /\ Tail(todo) = ToDelete(p, r)
    BY <1>2, <1>7, ThenList DEF ToUnwrite
  <2>2. Head(todo)[1] = "unwrite" /\ arg = p
    BY <2>1 DEF arg
  <2>3. UnwritePreset
    BY <1>7, <2>2, WhichStep
  <2>4. Shown'
    BY <1>3, <2>3, UnwriteShown
  <2> DEFINE j == [job EXCEPT !.unwound = faults + 1]
  <2>5. j.cmds = job.cmds /\ j.skills = job.skills
    BY DEF Types, Job
  <2>6. Do(<<<<"unskill", job.skills>>>>, j) /\ stale' = stale
    BY <2>3 DEF UnwritePreset
  <2> HIDE DEF j
  <2>7. todo' = Then(<<"unskill", job.skills>>, ToDelete(p, r)) /\ handlers' = H /\ (job' = j \/ job' = NoJob)
    BY <1>1, <2>1, <2>6 DEF Do, Then, Remember
  <2>8. Unsettled(p)'
    BY <1>3, <2>5, <2>6, <2>7 DEF Unsettled, NoJob
  <2>9. UndoesPreset(p, r, H)'
    BY <1>3, <2>7, <2>8 DEF UndoesPreset
  <2>10. QED
    BY <2>4, <2>9, MiddleOfOne
<1>8. ASSUME ~Kill, NEW others \in SUBSET NamesOf(p), todo = Then(<<"unskill", others>>, ToDelete(p, r))
      PROVE  Shown' /\ Flow'
  <2>1. Head(todo) = <<"unskill", others>> /\ Tail(todo) = ToDelete(p, r)
    BY <1>2, <1>8, ThenList
  <2>2. Head(todo)[1] = "unskill" /\ arg = others
    BY <2>1 DEF arg
  <2>3. UnskillPreset
    BY <1>8, <2>2, WhichStep
  <2>4. Shown'
    BY <1>3, <2>2, <2>3, UnskillShown
  <2>5. stale' = stale /\ (Go(job) \/ Stop)
    BY <2>3 DEF UnskillPreset
  <2>6. CASE Go(job)
    <3>1. todo' = ToDelete(p, r) /\ handlers' = H /\ (job' = job \/ job' = NoJob)
      BY <1>1, <2>1, <2>6 DEF Go, Remember
    <3>2. QED
      BY <1>4, <2>4, <2>5, <3>1
  <2>7. QED
    BY <1>5, <2>4, <2>5, <2>6
<1>9. CASE ~Kill /\ todo = ToDelete(p, r)
  <2>1. Head(todo) = <<"delete", <<p, TRUE>>>> /\ Tail(todo) = ToDrop(p, r)
    BY <1>2, <1>9, ThenList DEF ToDelete
  <2>2. Head(todo)[1] = "delete" /\ arg[1] = p
    <3>1. PICK b : Head(todo) = <<"delete", <<p, b>>>>
      BY <2>1, Zenon
    <3>2. QED
      BY <3>1 DEF arg
  <2>3. DeletePreset
    BY <1>9, <2>2, WhichStep
  <2>4. Shown'
    BY <1>3, <2>2, <2>3, DeleteShown
  <2>5. stale' = stale /\ (Go(job) \/ Die \/ Raise \/ Pass)
    BY <2>3 DEF DeletePreset
  <2>6. CASE Go(job) \/ Pass
    <3>1. todo' = ToDrop(p, r) /\ handlers' = H /\ (job' = job \/ job' = NoJob)
      BY <1>1, <2>1, <2>6 DEF Go, Pass, Remember
    <3>2. QED
      BY <1>4, <2>4, <2>5, <3>1
  <2>7. QED
    BY <1>5, <2>4, <2>5, <2>6
<1>10. CASE ~Kill /\ todo = ToDrop(p, r)
  <2>1. Head(todo) = <<"drop", p>> /\ Tail(todo) = raising
    BY <1>2, <1>10, ThenList DEF ToDrop
  <2>2. Head(todo)[1] = "drop" /\ arg = p
    BY <2>1 DEF arg
  <2>3. DropPreset
    BY <1>10, <2>2, WhichStep
  <2>4. Shown'
    BY <1>3, <2>2, <2>3, DropShown
  <2>5. (stale' = stale /\ Go(job)) \/ Stop \/ Die
    BY <2>3 DEF DropPreset, TornRegistry
  <2>6. CASE stale' = stale /\ Go(job)
    <3>1. todo' = raising /\ handlers' = H /\ (job' = job \/ job' = NoJob)
      BY <1>1, <2>1, <2>6 DEF Go, Remember
    <3>2. QED
      BY <1>4, <2>4, <2>6, <3>1
  <2>7. QED
    BY <1>5, <2>4, <2>5, <2>6
<1>11. CASE ~Kill /\ todo = raising
  <2>1. Head(todo) = <<"raise", p>>
    BY <1>2, <1>11, ThenList
  <2>2. Head(todo)[1] = "raise"
    BY <2>1
  <2>3. Refuse
    BY <1>11, <2>2, WhichStep
  <2>4. Raise /\ Shown'
    BY <2>3, ShownAlike DEF Refuse
  <2>5. QED
    BY <1>5, <2>4
<1>12. QED
  BY <1>1, <1>6, <1>7, <1>8, <1>9, <1>10, <1>11

LEMMA TakesStep ==
    ASSUME Types, Shown, Step, NEW z, Free(z), NEW H, Frees(H), NEW p \in Presets, NEW names \in SUBSET NamesOf(p),
           NEW r, r = RestOf(names, z), TakesPreset(p, names, r, H)
    PROVE  Shown' /\ Flow'
<1> DEFINE dropping == Then(<<"drop", p>>, r)
           deleting == Then(<<"delete", <<p, FALSE>>>>, dropping)
           unfiling(b) == Then(<<"unfile", <<names, b>>>>, deleting)
           NoFiles == \A n \in names : files[n] = Nothing
<1>1. /\ NamesOf(p) \subseteq stale /\ handlers = H
      /\ \/ \E others \in SUBSET NamesOf(p) : \E b : todo = Then(<<"unskill", others>>, unfiling(b))
         \/ \E b : todo = unfiling(b)
         \/ todo \in {deleting, dropping} /\ NoFiles
  BY DEF TakesPreset
<1>2. IsList(r) /\ IsList(dropping) /\ IsList(deleting) /\ \A b : IsList(unfiling(b))
  BY RestList, ThenList
<1>3. Frees(handlers) /\ names \in SUBSET Names
  BY <1>1 DEF NamesOf
<1>4. ASSUME Shown', stale' = stale, handlers' = H,
             \/ \E b : todo' = unfiling(b)
             \/ todo' \in {deleting, dropping} /\ \A n \in names : files'[n] = Nothing
      PROVE  Shown' /\ Flow'
  <2>1. TakesPreset(p, names, r, H)'
    BY <1>1, <1>4 DEF TakesPreset
  <2>2. QED
    BY <1>4, <2>1, MiddleOfOne
<1>5. ASSUME Shown', Stop \/ Raise \/ Die
      PROVE  Shown' /\ Flow'
  BY <1>3, <1>5, EndsFree
<1>6. CASE Kill
  BY <1>6, KillShown
<1>7. ASSUME ~Kill, NEW others \in SUBSET NamesOf(p), NEW b, todo = Then(<<"unskill", others>>, unfiling(b))
      PROVE  Shown' /\ Flow'
  <2>1. Head(todo) = <<"unskill", others>> /\ Tail(todo) = unfiling(b)
    BY <1>2, <1>7, ThenList
  <2> HIDE DEF unfiling
  <2>2. Head(todo)[1] = "unskill" /\ arg = others
    BY <2>1 DEF arg
  <2>3. UnskillPreset
    BY <1>7, <2>2, WhichStep
  <2>4. Shown'
    BY <1>1, <2>2, <2>3, UnskillShown
  <2>5. stale' = stale /\ (Go(job) \/ Stop)
    BY <2>3 DEF UnskillPreset
  <2>6. CASE Go(job)
    <3>1. todo' = unfiling(b) /\ handlers' = H
      BY <1>1, <2>1, <2>6 DEF Go
    <3>2. QED
      BY <1>4, <2>4, <2>5, <3>1
  <2>7. QED
    BY <1>5, <2>4, <2>5, <2>6
<1>8. ASSUME ~Kill, NEW b, todo = unfiling(b)
      PROVE  Shown' /\ Flow'
  <2>1. Head(todo) = <<"unfile", <<names, b>>>> /\ Tail(todo) = deleting
    BY <1>2, <1>8, ThenList
  <2> HIDE DEF deleting
  <2>2. Head(todo)[1] = "unfile" /\ arg = <<names, b>> /\ arg[1] = names
    BY <2>1 DEF arg
  <2>3. Unfile
    BY <1>8, <2>2, WhichStep
  <2>4. Shown'
    BY <1>1, <2>2, <2>3, UnfileShown
  <2>5. PICK done \in SUBSET names :
               /\ files' = [n \in Names |-> IF n \in done THEN Nothing ELSE files[n]]
               /\ (done = names /\ Go(job)) \/ Stop
    BY <2>2, <2>3 DEF Unfile
  <2>6. CASE done = names /\ Go(job)
    <3>1. todo' = deleting /\ handlers' = H
      BY <1>1, <2>1, <2>6 DEF Go
    <3>2. \A n \in names : files'[n] = Nothing
      BY <1>3, <2>5, <2>6
    <3>3. stale' = stale
      BY <2>3 DEF Unfile
    <3>4. QED
      BY <1>4, <2>4, <3>1, <3>2, <3>3
  <2>7. QED
    BY <1>5, <2>4, <2>5, <2>6
<1>9. CASE ~Kill /\ todo = deleting /\ NoFiles
  <2>1. Head(todo) = <<"delete", <<p, FALSE>>>> /\ Tail(todo) = dropping
    BY <1>2, <1>9, ThenList
  <2> HIDE DEF dropping
  <2>2. Head(todo)[1] = "delete" /\ arg[1] = p
    <3>1. PICK b : Head(todo) = <<"delete", <<p, b>>>>
      BY <2>1, Zenon
    <3>2. QED
      BY <3>1 DEF arg
  <2>3. DeletePreset
    BY <1>9, <2>2, WhichStep
  <2>4. Shown'
    BY <1>1, <2>2, <2>3, DeleteShown
  <2>5. stale' = stale /\ files' = files /\ (Go(job) \/ Die \/ Raise \/ Pass)
    BY <2>3 DEF DeletePreset
  <2>6. CASE Go(job) \/ Pass
    <3>1. todo' = dropping /\ handlers' = H
      BY <1>1, <2>1, <2>6 DEF Go, Pass
    <3>2. QED
      BY <1>4, <1>9, <2>4, <2>5, <3>1
  <2>7. QED
    BY <1>5, <2>4, <2>5, <2>6
<1>10. CASE ~Kill /\ todo = dropping /\ NoFiles
  <2>1. Head(todo) = <<"drop", p>> /\ Tail(todo) = r
    BY <1>2, <1>10, ThenList
  <2>2. Head(todo)[1] = "drop" /\ arg = p
    BY <2>1 DEF arg
  <2>3. DropPreset
    BY <1>10, <2>2, WhichStep
  <2>4. Shown'
    BY <1>1, <2>2, <2>3, DropShown
  <2>5. files' = files /\ (Go(job) \/ Stop \/ Die)
    BY <2>3 DEF DropPreset, TornRegistry
  <2>6. CASE Go(job)
    <3>1. todo' = RestOf(names, z) /\ handlers' = H
      BY <1>1, <2>1, <2>6 DEF Go
    <3>2. Backed(names)'
      BY <1>10, <2>5 DEF Backed
    <3>3. QED
      BY <1>3, <2>4, <3>1, <3>2, Rested
  <2>7. QED
    BY <1>5, <2>4, <2>5, <2>6
<1>11. QED
  BY <1>1, <1>6, <1>7, <1>8, <1>9, <1>10

\* An install that is not refused begins.
LEMMA ChecksStep ==
    ASSUME Types, Shown, Free(todo), Frees(handlers), todo # <<>>, Simple(Head(todo)), CheckPreset
    PROVE  Shown' /\ Flow'
<1>1. In("check")
  BY DEF CheckPreset
<1>2. PICK p \in Presets : p = arg[1]
  BY <1>1 DEF In, arg, Simple
<1>3. Shown'
  BY CheckShown
<1>4. CASE preg[p].in
  <2>1. Raise
    BY <1>2, <1>4 DEF CheckPreset
  <2>2. QED
    BY <1>3, <2>1, EndsFree
<1>5. CASE ~preg[p].in
  <2> DEFINE prio == arg[2]
             j == [job EXCEPT !.cmds = {}, !.skills = {}]
             steps == <<<<"copy", p>>, <<"enter", <<p, prio>>>>>>
                        \o Try(<<<<"write", p>>, <<"note", p>>, <<"reskill", p>>, <<"note", p>>>>,
                               <<<<"unwrite", p>>, <<"delete", <<p, TRUE>>>>, <<"drop", p>>, <<"raise", p>>>>)
                        \o Reconcile(Provided(p))
             z == Tail(todo)
             r == RestOf(Provided(p), z)
  <2>1. stale' = stale \cup NamesOf(p) /\ Do(steps, j)
    BY <1>2, <1>5 DEF CheckPreset
  <2>2. j.cmds = {} /\ j.skills = {}
    BY DEF Types, Job
  <2>3. Free(z) /\ IsList(z)
    BY FreeFirst, FreeList
  <2>4. Provided(p) \in SUBSET NamesOf(p) /\ Provided(p) \in SUBSET Names
    BY DEF Provided, NamesOf
  <2> HIDE DEF z, prio
  <2>5. steps \o z = Then(<<"copy", p>>, Then(<<"enter", <<p, prio>>>>, Then(Writing(p), r)))
    BY <2>3, <2>4, CheckedThen
  <2> HIDE DEF steps, j
  <2>6. todo' = steps \o z /\ handlers' = handlers /\ (job' = j \/ job' = NoJob)
    BY <2>1 DEF Do, Remember, z
  <2>7. Unsettled(p)'
    BY <2>1, <2>2, <2>6 DEF Unsettled, NoJob
  <2>8. \A names \in SUBSET NamesOf(p) : \A H : names = Provided(p) /\ H = handlers => Flow'
    <3>1. TAKE names \in SUBSET NamesOf(p)
    <3> TAKE H
    <3>2. HAVE names = Provided(p) /\ H = handlers
    <3>3. PICK t, q : t = z /\ q = RestOf(names, t)
      OBVIOUS
    <3>4. BeginsPreset(p, q, H)'
      BY <2>5, <2>6, <2>7, <3>2, <3>3 DEF BeginsPreset
    <3>5. Free(t) /\ Frees(H)
      BY <2>3, <3>2, <3>3
    <3>6. QED
      BY <3>3, <3>4, <3>5, MiddleOfOne
  <2>9. QED
    BY <1>3, <2>4, <2>8
<1>6. QED
  BY <1>4, <1>5

\* A removal of what is there begins.
LEMMA RemovesStep ==
    ASSUME Types, Shown, Free(todo), Frees(handlers), todo # <<>>, Simple(Head(todo)), BeginRemove
    PROVE  Shown' /\ Flow'
<1>1. In("remove")
  BY DEF BeginRemove
<1>2. PICK p \in Presets : p = arg
  BY <1>1 DEF In, arg, Simple
<1>3. Shown'
  BY RemoveShown
<1>4. CASE ~preg[p].in
  <2>1. Do(<<>>, job)
    BY <1>2, <1>4 DEF BeginRemove
  <2>2. Free(todo)' /\ Frees(handlers)'
    BY <2>1, NoSteps, DoesOnwards, FreeOnwards
  <2>3. QED
    BY <1>3, <2>2 DEF Flow
<1>5. CASE preg[p].in
  <2>1. PICK names, others : names = preg[p].cmds /\ others = preg[p].skills
    OBVIOUS
  <2>2. names \in SUBSET NamesOf(p) /\ others \in SUBSET NamesOf(p) /\ names \in SUBSET Names
    BY <2>1 DEF Shown, Entries, NamesOf
  <2>3. PICK b : b = (others = {})
    OBVIOUS
  <2> DEFINE steps == <<<<"unskill", others>>, <<"unfile", <<names, b>>>>, <<"delete", <<p, FALSE>>>>, <<"drop", p>>>>
  <2>4. Do(steps \o Reconcile(names), job) /\ stale' = stale \cup NamesOf(p)
    BY <1>2, <1>5, <2>1, <2>3 DEF BeginRemove
  <2>5. PICK t, q : t = Tail(todo) /\ q = RestOf(names, t)
    OBVIOUS
  <2>6. Free(t) /\ IsList(t)
    BY <2>5, FreeFirst, FreeList
  <2>7. \A w, x, y, v : Gives(<<w, x, y, v>> \o Reconcile(names), t, Then(w, Then(x, Then(y, Then(v, q)))))
    BY <2>2, <2>5, <2>6, RemovedThen
  <2>8. Gives(steps \o Reconcile(names), t,
              Then(<<"unskill", others>>, Then(<<"unfile", <<names, b>>>>, Then(<<"delete", <<p, FALSE>>>>, Then(<<"drop", p>>, q)))))
    BY <2>7, Zenon
  <2> HIDE DEF steps
  <2>9. /\ todo' = Then(<<"unskill", others>>, Then(<<"unfile", <<names, b>>>>,
                        Then(<<"delete", <<p, FALSE>>>>, Then(<<"drop", p>>, q))))
        /\ handlers' = handlers
    BY <2>4, <2>5, <2>8 DEF Do, Gives
  <2>10. PICK H : H = handlers
    OBVIOUS
  <2>11. TakesPreset(p, names, q, H)'
    BY <2>2, <2>4, <2>9, <2>10 DEF TakesPreset
  <2>12. QED
    BY <1>3, <2>2, <2>5, <2>6, <2>10, <2>11, MiddleOfOne
<1>6. QED
  BY <1>4, <1>5

LEMMA AttemptStep ==
    ASSUME Free(todo), Frees(handlers), todo # <<>>, Attempt(Head(todo)), EnterTry
    PROVE  Free(todo)' /\ Frees(handlers)'
<1>1. PICK b, h : Head(todo) = <<"try", <<b, h>>>> /\ Simples(b) /\ Simples(h)
  BY DEF Attempt
<1>2. todo' = (b \o <<<<"end", {}>>>>) \o Tail(todo) /\ handlers' = <<h \o Tail(todo)>> \o handlers
  <2>1. arg[1] = b /\ arg[2] = h
    BY <1>1 DEF arg
  <2>2. QED
    BY <2>1 DEF EnterTry
<1>3. Simple(<<"end", {}>>)
  BY DEF Simple
<1>4. Free(b) /\ Free(h) /\ Free(Tail(todo)) /\ Free(<<<<"end", {}>>>>)
  BY <1>1, <1>3, SimplesFree, FreeFirst, OneStep
<1>5. Free((b \o <<<<"end", {}>>>>) \o Tail(todo)) /\ Free(h \o Tail(todo))
  BY <1>4, FreeJoined
<1>6. Frees(<<h \o Tail(todo)>> \o handlers)
  BY <1>5, FreesThen DEF Then
<1>7. QED
  BY <1>2, <1>5, <1>6

\* What leaves the try statement.
LEMMA LeavesStep ==
    ASSUME Free(todo), Frees(handlers), todo # <<>>, LeaveTry
    PROVE  Free(todo)' /\ Frees(handlers)'
<1>1. todo' = Tail(todo) /\ handlers' = Tail(handlers)
  BY DEF LeaveTry
<1>2. Frees(Tail(handlers))
  <2>1. CASE handlers # <<>>
    BY <2>1, FreesFirst
  <2>2. CASE handlers = <<>>
    BY <2>2, NoSteps
  <2>3. QED
    BY <2>1, <2>2
<1>3. QED
  BY <1>1, <1>2, FreeFirst

LEMMA FreeStep ==
    ASSUME Types, Shown, Step, Free(todo), Frees(handlers)
    PROVE  Shown' /\ Flow'
<1>1. todo # <<>>
  BY WhichStep
<1>2. Simple(Head(todo)) \/ Attempt(Head(todo))
  BY <1>1, FreeFirst
<1>3. ASSUME Onwards, UNCHANGED presetVars
      PROVE  Shown' /\ Flow'
  BY <1>1, <1>3, FreeOnwards, ShownAlike DEF Flow
<1>4. CASE Kill
  BY <1>4, KillShown
<1>5. CASE ~Kill /\ Attempt(Head(todo))
  <2>1. Head(todo)[1] = "try"
    BY <1>5 DEF Attempt
  <2>2. EnterTry
    BY <1>5, <2>1, WhichStep
  <2>3. Shown'
    BY <2>2, ShownAlike DEF EnterTry
  <2>4. QED
    BY <1>1, <1>5, <2>2, <2>3, AttemptStep DEF Flow
<1>6. CASE ~Kill /\ Simple(Head(todo))
  <2>1. \/ LeaveTry \/ Refuse \/ CheckPreset \/ BeginRemove \/ (Extend /\ Head(todo)[1] = "extend") \/ BundleStep
        \/ (/\ \/ FetchWorkflow \/ CopyWorkflow \/ EnterWorkflow \/ DeleteWorkflow \/ DropWorkflow
               \/ FetchStep \/ EnterStep \/ RemoveStep \/ DropStep \/ DeleteStep \/ RelistStep
            /\ UNCHANGED presetVars)
    BY <1>6, WhichStep DEF Simple, BundleStep
  <2>2. CASE LeaveTry
    <3>1. Shown'
      BY <2>2, ShownAlike DEF LeaveTry
    <3>2. QED
      BY <1>1, <2>2, <3>1, LeavesStep DEF Flow
  <2>3. CASE Refuse
    <3>1. Raise /\ UNCHANGED presetVars
      BY <2>3 DEF Refuse
    <3>2. QED
      BY <3>1, ShownAlike, EndsFree
  <2>4. CASE CheckPreset
    BY <1>1, <1>6, <2>4, ChecksStep
  <2>5. CASE BeginRemove
    BY <1>1, <1>6, <2>5, RemovesStep
  <2>6. CASE Extend /\ Head(todo)[1] = "extend"
    <3>1. arg \in BOOLEAN
      BY <1>6, <2>6 DEF Simple, arg
    <3>2. Shown'
      BY <2>6, <3>1, ExtendShown
    <3>3. Raise \/ Stop \/ Go(job)
      BY <2>6 DEF Extend
    <3>4. Free(todo)' /\ Frees(handlers)'
      BY <1>1, <3>3, StopsOnwards, FreeOnwards
    <3>5. QED
      BY <3>2, <3>4 DEF Flow
  <2>7. CASE BundleStep
    BY <1>1, <1>3, <1>6, <2>7, BundleOnwards
  <2>8. QED
    BY <1>3, <2>1, <2>2, <2>3, <2>4, <2>5, <2>6, <2>7, WorkflowOnwards
<1>7. QED
  BY <1>2, <1>4, <1>5, <1>6

LEMMA FlowStep ==
    ASSUME Types, Shown, Flow, Step
    PROVE  Shown' /\ Flow'
<1>1. ASSUME NEW z, NEW H, Free(z), Frees(H), NEW names \in SUBSET Names, SettlesNames(names, z, H)
      PROVE  Shown' /\ Flow'
  BY <1>1, SettlesStep
<1>2. ASSUME NEW z, NEW H, Free(z), Frees(H), NEW p \in Presets, NEW names \in SUBSET NamesOf(p), NEW r, r = RestOf(names, z),
             BeginsPreset(p, r, H) \/ PutsPreset(p, r, H) \/ UndoesPreset(p, r, H) \/ TakesPreset(p, names, r, H)
      PROVE  Shown' /\ Flow'
  BY <1>2, BeginsStep, PutsStep, UndoesStep, TakesStep
<1>3. QED
  BY <1>1, <1>2, FreeStep DEF Flow

\* A command that begins is free.
LEMMA CommandShown ==
    ASSUME Types, RecordTypes, Shown, handlers = <<>>, Command
    PROVE  Shown' /\ Flow'
<1>1. ASSUME handlers' = handlers, Free(todo)', UNCHANGED presetVars
      PROVE  Shown' /\ Flow'
  BY <1>1, ShownAlike, NoSteps DEF Flow
<1>2. ASSUME NEW steps, Simples(steps), ByHand(steps)
      PROVE  Shown' /\ Flow'
  <2>1. handlers' = handlers /\ todo' = steps /\ UNCHANGED presetVars
    BY <1>2 DEF ByHand, BundleOnly
  <2>2. QED
    BY <1>1, <1>2, <2>1, SimplesFree
<1>3. ASSUME NEW b \in Bundles, InstallBundle(b) \/ UpdateBundle(b)
      PROVE  Shown' /\ Flow'
  <2>1. PICK ver, refresh : Apply(b, ver, refresh) /\ ver \in 1..Len(Plans[b])
    <3>1. CASE InstallBundle(b)
      BY <3>1 DEF InstallBundle
    <3>2. CASE UpdateBundle(b)
      <4>1. records[b].ver \in 0..Len(Plans[b]) /\ records[b].ver # 0 /\ Len(Plans[b]) \in Nat
        BY <3>2, BundleAssumption DEF UpdateBundle, RecordTypes
      <4>2. Len(Plans[b]) \in 1..Len(Plans[b])
        BY <4>1
      <4>3. QED
        BY <3>2, <4>2 DEF UpdateBundle
    <3>3. QED
      BY <1>3, <3>1, <3>2
  <2> DEFINE plan == Plans[b][ver]
             parts == [i \in 1..Len(plan) |-> <<"part", plan[i]>>]
             handler == <<<<"unwind", b>>>>
  <2>2. plan \in Seq(Components)
    BY <2>1, BundleAssumption
  <2>3. Simples(parts)
    <3> DEFINE S == {<<"part", c>> : c \in Components}
    <3>1. parts \in Seq(S)
      BY <2>2
    <3>2. \A s \in S : Simple(s)
      BY DEF Simple
    <3> HIDE DEF parts, S
    <3>3. QED
      BY <3>1, <3>2 DEF Simples
  <2>4. todo' = Try(parts, handler) \o <<<<"record", b>>>> /\ handlers' = handlers /\ UNCHANGED presetVars
    BY <2>1 DEF Apply, BundleOnly
  <2> HIDE DEF parts
  <2>5. Simples(handler) /\ Free(<<<<"record", b>>>>)
    <3>1. Simple(<<"unwind", b>>) /\ Simple(<<"record", b>>)
      BY DEF Simple
    <3>2. QED
      BY <3>1, OneStep
  <2>6. Free(Try(parts, handler))
    <3>1. Attempt(<<"try", <<parts, handler>>>>)
      BY <2>3, <2>5 DEF Attempt
    <3>2. QED
      BY <3>1, OneStep DEF Try
  <2>7. Free(todo')
    BY <2>4, <2>5, <2>6, FreeJoined
  <2>8. QED
    BY <1>1, <2>4, <2>7
<1>4. ASSUME NEW b \in Bundles, RemoveBundle(b)
      PROVE  Shown' /\ Flow'
  <2>1. handlers' = handlers /\ UNCHANGED presetVars
    BY <1>4 DEF RemoveBundle, BundleOnly
  <2>2. PICK order \in [1..Cardinality(records[b].comps) -> records[b].comps] :
               todo' = [i \in DOMAIN order |-> <<"unpart", order[i]>>] \o <<<<"unrecord", b>>>>
    BY <1>4 DEF RemoveBundle
  <2> DEFINE us == [i \in DOMAIN order |-> <<"unpart", order[i]>>]
             S == {<<"unpart", c>> : c \in Components}
  <2>3. Cardinality(records[b].comps) \in Nat /\ records[b].comps \subseteq Components
    BY FS_CardinalityType DEF RecordTypes
  <2>4. us \in Seq(S)
    BY <2>3
  <2>5. \A s \in S : Simple(s)
    BY DEF Simple
  <2>6. todo' = us \o <<<<"unrecord", b>>>>
    BY <2>2
  <2> HIDE DEF us, S
  <2>7. Simples(us)
    BY <2>4, <2>5 DEF Simples
  <2>8. Free(<<<<"unrecord", b>>>>)
    <3>1. Simple(<<"unrecord", b>>)
      BY DEF Simple
    <3>2. QED
      BY <3>1, OneStep
  <2>9. Free(todo')
    BY <2>6, <2>7, <2>8, SimplesFree, FreeJoined
  <2>10. QED
    BY <1>1, <2>1, <2>9
<1>5. CASE Tune
  <2>1. Shown'
    BY <1>5, TuneShown
  <2>2. todo' = <<>> /\ handlers' = handlers
    BY <1>5 DEF Tune, SetPriority, SetEnabled, Retuned, EditOverride, Act, Idle
  <2>3. QED
    BY <2>1, <2>2, NoSteps DEF Flow
<1>6. ASSUME NEW p \in Presets, NEW prio \in Priorities
      PROVE  Simples(InstallPreset(p, prio))
  <2>1. Simple(<<"check", <<p, prio>>>>)
    BY DEF Simple
  <2>2. QED
    BY <2>1, OneStep DEF InstallPreset
<1>7. ASSUME NEW w \in Workflows
      PROVE  Simples(CopyInWorkflow(w))
  <2>1. Simple(<<"copy_workflow", w>>) /\ Simple(<<"enter_workflow", w>>)
    BY DEF Simple
  <2>2. QED
    BY <2>1, SimplesPair DEF CopyInWorkflow
<1>8. QED
  BY <1>2, <1>3, <1>4, <1>5, <1>6, <1>7, CommandsSimple DEF Command

\* What the files show, and the names a command is in the middle of.
LEMMA FilesInvariant == Spec => [](Shown /\ Flow)
<1>1. Init => Shown /\ Flow
  BY ShownFirst, NoSteps DEF Flow, Init, PresetInit
<1>2. IInv /\ Shown /\ Flow /\ [Next]_vars => (Shown /\ Flow)'
  <2> SUFFICES ASSUME IInv, Shown, Flow, [Next]_vars
               PROVE  Shown' /\ Flow'
    OBVIOUS
  <2>1. Types /\ RecordTypes
    BY DEF IInv
  <2>2. CASE Step
    BY <2>1, <2>2, FlowStep
  <2>3. CASE Command
    <3>1. Idle
      BY <2>3 DEF Command, ByHand, InstallBundle, UpdateBundle, RemoveBundle, Apply, Tune, SetPriority, SetEnabled,
         Retuned, EditOverride, Act
    <3>2. handlers = <<>>
      BY <3>1 DEF IInv, Phase
    <3>3. QED
      BY <2>1, <2>3, <3>2, CommandShown
  <2>4. CASE UNCHANGED vars
    <3>1. UNCHANGED presetVars /\ UNCHANGED <<preg, pdir, composed, ext, over, files, skills, stale, job, todo, handlers>>
      BY <2>4 DEF vars, presetVars
    <3>2. Shown'
      BY <3>1, ShownAlike
    <3>3. \A n : Resolved(n)' = Resolved(n) /\ HasLayers(n)' = HasLayers(n) /\ Stack(n)' = Stack(n) /\ Top(n)' = Top(n)
      BY <3>1, SameStacks
    <3>4. \A names : (Backed(names)' <=> Backed(names)) /\ (Ready(names)' <=> Ready(names))
      BY <3>1, <3>3 DEF Backed, Ready, Body
    <3>5. \A names, z, H : SettlesNames(names, z, H)' <=> SettlesNames(names, z, H)
      BY <3>1, <3>4 DEF SettlesNames
    <3>6. \A p, r, H : /\ BeginsPreset(p, r, H)' <=> BeginsPreset(p, r, H)
                       /\ PutsPreset(p, r, H)' <=> PutsPreset(p, r, H)
                       /\ UndoesPreset(p, r, H)' <=> UndoesPreset(p, r, H)
      BY <3>1 DEF BeginsPreset, PutsPreset, UndoesPreset, Unsettled, OnStack
    <3>7. \A p, names, r, H : TakesPreset(p, names, r, H)' <=> TakesPreset(p, names, r, H)
      BY <3>1 DEF TakesPreset
    <3>8. Flow'
      BY <3>1, <3>5, <3>6, <3>7 DEF Flow
    <3>9. QED
      BY <3>2, <3>8
  <2>5. QED
    BY <2>2, <2>3, <2>4 DEF Next
<1>3. QED
  BY <1>1, <1>2, Invariant, PTL DEF Spec

-----------------------------------------------------------------------------
(* Theorems *)

\* What the record of a bundle lists is there, unless the user or a fault has broken
\* it since: of any number of bundles that share components, however their
\* installs, updates and removals follow one another and fail.
THEOREM RecordedAreThere == Spec => []RecordedInstalled
<1>1. IInv => RecordedInstalled
  BY DEF IInv, Claims, Recorded, RecordedInstalled
<1>2. QED
  BY <1>1, Invariant, PTL

\* An install or update of a bundle that raises leaves installed what was
\* installed before, no more and no less, if nothing has failed in the except
\* blocks since the first of them was entered.
THEOREM FailuresLeaveNothing == Spec => []FailureLeavesNothing
<1>1. ASSUME IInv, job.op = "install", In("raise"), arg = job.bundle, faults + 1 = job.unwound
      PROVE  InstalledSet = job.before
  <2>1. Head(todo)[1] = "raise" /\ Head(todo)[2] = job.bundle /\ todo # <<>>
    BY <1>1 DEF In, arg
  <2>2. PICK b \in Bundles : InstallPhase(b)
    BY <1>1, <2>1 DEF IInv, Phase, Idle, Running, Dropping, Freeing, ByUser
  <2>3. ASSUME Installing(b), NEW H, Busy(H)
        PROVE  FALSE
    BY <2>1, <2>3, BundleAssumption DEF Installing, Busy
  <2>4. CASE ToRaise(b)
    <3>1. ~Spoilt
      BY <1>1 DEF IInv, Types, Spoilt
    <3>2. InstalledSet \subseteq job.before
      BY <2>4, <3>1 DEF ToRaise, Left, Inside
    <3>3. QED
      BY <2>4, <3>2 DEF ToRaise, Installing
  <2>5. ~ToTry(b)
    <3>1. ASSUME NEW ps, todo = Then(<<"try", <<ps, <<<<"unwind", b>>>>>>>>, Recording(b))
          PROVE  FALSE
      BY <2>1, <3>1, Lists, ThenList
    <3>2. QED
      BY <3>1 DEF ToTry
  <2>6. ~Placing(b)
    BY <2>1, PartsAre DEF Placing, End
  <2>7. ~ToRecord(b) /\ ~ToUnwind(b)
    BY <2>1, Lists DEF ToRecord, ToUnwind
  <2>8. ASSUME NEW c \in Components, Adding(b, c)
        PROVE  FALSE
    <3>1. PICK ps \in Seq(PartSteps) : Making(c, Then(<<"did", c>>, Parts(ps, b)), Except(b))
      BY <2>8 DEF Adding
    <3>2. IsList(Parts(ps, b)) /\ IsList(Except(b))
      BY PartsAre, Lists
    <3> DEFINE z == Then(<<"did", c>>, Parts(ps, b))
    <3>3. IsList(z) /\ Head(z) = <<"did", c>>
      BY <3>2, ThenList
    <3>4. Making(c, z, Except(b))
      BY <3>1
    <3> HIDE DEF z
    <3>5. todo = z
      BY <2>3, <2>8, <3>2, <3>3, <3>4, MakingHead DEF Adding
    <3>6. QED
      BY <2>1, <3>3, <3>5
  <2>9. ASSUME NEW c \in Components, Renewing(b, c)
        PROVE  FALSE
    <3>1. PICK ps \in Seq(PartSteps) : Refreshing(c, Parts(ps, b), Except(b))
      BY <2>9 DEF Renewing
    <3>2. IsList(Parts(ps, b)) /\ IsList(Except(b))
      BY PartsAre, Lists
    <3>3. todo = Parts(ps, b)
      BY <2>3, <2>9, <3>1, <3>2, RefreshingHead DEF Renewing
    <3>4. QED
      BY <2>1, <3>3, PartsAre DEF End
  <2>10. ASSUME NEW c \in Components, ToTake(b, c)
         PROVE  FALSE
    <3>1. Head(todo) = <<"try", <<RemovalOf(c), <<>>>>>>
      BY <2>10, Lists, ThenList DEF ToTake
    <3>2. QED
      BY <2>1, <3>1
  <2>11. ASSUME NEW c \in Components, Taking(b, c)
         PROVE  FALSE
    <3>1. Installing(b) /\ Removing(c, Taken(b), Except(b)) /\ IsList(Taken(b)) /\ IsList(Except(b))
      BY <2>11, Lists DEF Taking
    <3>2. todo = Taken(b)
      BY <2>3, <3>1, RemovingHead
    <3>3. QED
      BY <2>1, <3>2, Lists DEF End
  <2>12. QED
    BY <2>2, <2>4, <2>5, <2>6, <2>7, <2>8, <2>9, <2>10, <2>11 DEF InstallPhase
<1>2. IInv => FailureLeavesNothing
  BY <1>1 DEF FailureLeavesNothing
<1>3. QED
  BY <1>2, Invariant, PTL

\* No install, update or removal of a bundle takes away what the user has
\* installed himself, whatever bundles list it, however the command fails; only a
\* fault in the very step may.
THEOREM UsersAreKept == Spec => NoCollateral
<1>1. ASSUME IInv, [Next]_vars
      PROVE  [job.op \in {"install", "remove"} /\ faults' = faults => mine \cap Usable \subseteq Usable']_vars
  <2>1. Safe
    BY <1>1, EveryStep, Stutters
  <2>2. QED
    BY <2>1 DEF Safe
<1>2. QED
  BY <1>1, Invariant, PTL DEF Spec, NoCollateral

\* A command or skill file shows what its stack resolves to, unless the stack has
\* changed since the file was last reconciled, whatever presets are put, taken,
\* retuned or written over, and wherever a command fails or is killed.
THEOREM FilesFollow == Spec => []FilesFollowStack
<1>1. Shown => FilesFollowStack
  BY DEF Shown, Follows, Agrees, FilesFollowStack
<1>2. QED
  BY <1>1, FilesInvariant, PTL

=============================================================================
