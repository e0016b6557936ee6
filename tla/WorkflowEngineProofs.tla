------------------------ MODULE WorkflowEngineProofs ------------------------
(***************************************************************************)
(* Theorems of WorkflowEngine, for every definition, however its steps are *)
(* nested and named, and for any number of iterations, items, kills,       *)
(* interrupts and resumes.                                                 *)
(***************************************************************************)
EXTENDS WorkflowEngine, SequenceTheorems, TLAPS

-----------------------------------------------------------------------------
(* Sequences *)

\* The first n elements.
LEMMA Front ==
    ASSUME NEW S, NEW s \in Seq(S), NEW n \in 0..Len(s)
    PROVE  /\ SubSeq(s, 1, n) \in Seq(S)
           /\ Len(SubSeq(s, 1, n)) = n
           /\ \A k \in 1..n : SubSeq(s, 1, n)[k] = s[k]
<1>1. \A k \in 1..n : s[k] \in S
  BY ElementOfSeq
<1>2. QED
  BY <1>1, SubSeqProperties

\* The first n elements and another.
LEMMA FrontAnd ==
    ASSUME NEW S, NEW s \in Seq(S), NEW n \in 0..Len(s), NEW e \in S
    PROVE  LET t == SubSeq(s, 1, n) \o <<e>> IN
           /\ t \in Seq(S)
           /\ Len(t) = n + 1
           /\ \A k \in 1..n : t[k] = s[k]
           /\ t[n + 1] = e
<1> DEFINE front == SubSeq(s, 1, n)
<1>1. /\ front \in Seq(S) /\ Len(front) = n
      /\ \A k \in 1..n : front[k] = s[k]
  BY Front
<1>2. <<e>> \in Seq(S) /\ Len(<<e>>) = 1 /\ <<e>>[1] = e
  OBVIOUS
<1> HIDE DEF front
<1>3. /\ front \o <<e>> \in Seq(S)
      /\ Len(front \o <<e>>) = n + 1
      /\ \A k \in 1..(n + 1) : (front \o <<e>>)[k] = IF k <= n THEN front[k] ELSE <<e>>[k - n]
  BY <1>1, <1>2, ConcatProperties
<1>4. (front \o <<e>>)[n + 1] = e
  BY <1>2, <1>3
<1>5. \A k \in 1..n : (front \o <<e>>)[k] = s[k]
  BY <1>1, <1>3
<1>6. QED
  BY <1>3, <1>4, <1>5 DEF front

\* A sequence whose last element is replaced.
LEMMA LastReplaced ==
    ASSUME NEW S, NEW s \in Seq(S), s # <<>>, NEW e \in S
    PROVE  SubSeq(s, 1, Len(s) - 1) \o <<e>> = [s EXCEPT ![Len(s)] = e]
<1> DEFINE t == SubSeq(s, 1, Len(s) - 1) \o <<e>>
           u == [s EXCEPT ![Len(s)] = e]
<1>1. Len(s) \in Nat \ {0}
  BY EmptySeq
<1>2. /\ t \in Seq(S) /\ Len(t) = Len(s) /\ t[Len(s)] = e
      /\ \A k \in 1..(Len(s) - 1) : t[k] = s[k]
  BY <1>1, FrontAnd
<1>3. /\ u \in Seq(S) /\ Len(u) = Len(s)
      /\ \A k \in 1..Len(s) : u[k] = IF k = Len(s) THEN e ELSE s[k]
  BY <1>1, ExceptSeq
<1> HIDE DEF t, u
<1>4. \A k \in 1..Len(t) : t[k] = u[k]
  BY <1>1, <1>2, <1>3
<1>5. t = u
  BY <1>2, <1>3, <1>4, SeqEqual
<1>6. QED
  BY <1>5 DEF t, u

-----------------------------------------------------------------------------
(* The stack *)

\* The frame f with one more step done.
Further(f) == [f EXCEPT !.i = @ + 1]

\* The frame f at the beginning of its next round.
Anew(f) == [f EXCEPT !.i = 0, !.round = @ + 1]

LEMMA StepDone ==
    ASSUME NEW f \in Frame
    PROVE  /\ Further(f) \in Frame
           /\ Further(f).i = f.i + 1 /\ Further(f).steps = f.steps /\ Further(f).of = f.of
           /\ Further(f).round = f.round /\ Further(f).rounds = f.rounds
BY DEF Frame, Further

LEMMA RoundDone ==
    ASSUME NEW f \in Frame
    PROVE  /\ Anew(f) \in Frame
           /\ Anew(f).i = 0 /\ Anew(f).steps = f.steps /\ Anew(f).of = f.of
           /\ Anew(f).round = f.round + 1 /\ Anew(f).rounds = f.rounds
<1> DEFINE g == [f EXCEPT !.i = 0]
           h == [g EXCEPT !.round = @ + 1]
<1>1. /\ g \in Frame /\ g.i = 0 /\ g.steps = f.steps /\ g.of = f.of
      /\ g.round = f.round /\ g.rounds = f.rounds
  BY DEF Frame
<1> HIDE DEF g
<1>2. /\ h \in Frame /\ h.i = g.i /\ h.steps = g.steps /\ h.of = g.of
      /\ h.round = g.round + 1 /\ h.rounds = g.rounds
  BY <1>1 DEF Frame
<1>3. Anew(f) = h
  BY DEF Anew, g
<1> HIDE DEF h
<1>4. QED
  BY <1>1, <1>2, <1>3

\* The stack when the step at depth d is done.
LEMMA Completed1 ==
    ASSUME stack \in Seq(Frame), NEW d \in 1..Len(stack), CompleteAt(d)
    PROVE  /\ stack' \in Seq(Frame)
           /\ Len(stack') = d
           /\ \A k \in 1..(d - 1) : stack'[k] = stack[k]
           /\ stack'[d] = Further(stack[d])
<1> DEFINE f == Further(stack[d])
           n == d - 1
           below == SubSeq(stack, 1, n)
<1>1. Len(stack) \in Nat /\ n \in 0..Len(stack) /\ n + 1 = d /\ stack[d] \in Frame
  BY ElementOfSeq, LenProperties
<1>2. f \in Frame
  BY <1>1, StepDone
<1>3. stack' = Append(below, f)
  BY DEF CompleteAt, Further
<1> HIDE DEF f, n
<1>4. below \in Seq(Frame) /\ Len(below) = n /\ \A k \in 1..n : below[k] = stack[k]
  BY <1>1, Front
<1> HIDE DEF below
<1>5. /\ stack' \in Seq(Frame) /\ Len(stack') = n + 1
      /\ \A k \in 1..n : stack'[k] = below[k]
      /\ stack'[n + 1] = f
  BY <1>2, <1>3, <1>4, AppendProperties
<1>6. QED
  BY <1>1, <1>4, <1>5 DEF f, n

LEMMA TopReplaced ==
    ASSUME stack \in Seq(Frame), stack # <<>>, NEW f \in Frame, stack' = WithTop(f)
    PROVE  /\ stack' \in Seq(Frame) /\ Len(stack') = Len(stack)
           /\ \A k \in 1..Len(stack) : stack'[k] = IF k = Len(stack) THEN f ELSE stack[k]
<1>1. Len(stack) \in Nat \ {0}
  BY EmptySeq
<1>2. stack' = [stack EXCEPT ![Len(stack)] = f]
  BY LastReplaced DEF WithTop
<1>3. QED
  BY <1>1, <1>2, ExceptSeq

\* The stack without its top.
LEMMA TopLeft ==
    ASSUME stack \in Seq(Frame), Len(stack) > 1, stack' = Below
    PROVE  /\ stack' \in Seq(Frame) /\ Len(stack') = Len(stack) - 1
           /\ \A k \in 1..(Len(stack) - 1) : stack'[k] = stack[k]
<1> DEFINE n == Len(stack) - 1
<1>1. n \in 0..Len(stack)
  BY LenProperties
<1>2. stack' = SubSeq(stack, 1, n)
  BY DEF Below
<1> HIDE DEF n
<1>3. stack' \in Seq(Frame) /\ Len(stack') = n /\ \A k \in 1..n : stack'[k] = stack[k]
  BY <1>1, <1>2, Front
<1>4. QED
  BY <1>3 DEF n

-----------------------------------------------------------------------------
(* Typing *)

\* A nested call was made by a step, for a list of steps that are not in Top.
Nested(f) ==
    /\ f.of \in Steps
    /\ Kind[f.of] = "fan-out" => f.rounds <= MaxItems
    /\ Len(f.steps) > 0
    /\ \A j \in DOMAIN f.steps : \A n \in DOMAIN Top : f.steps[j] # Top[n]

\* The outermost call runs Top without its first o steps, once.
Outermost(f, o) ==
    /\ f.of = Workflow /\ f.rounds = 1
    /\ Len(f.steps) = Len(Top) - o
    /\ \A n \in DOMAIN f.steps : f.steps[n] = Top[o + n]

\* What is true of the k-th of n frames.
FrameOK(f, k, n, o) ==
    /\ f.i <= Len(f.steps)
    /\ f.round <= f.rounds
    /\ k < n => f.i < Len(f.steps)
    /\ k = 1 => Outermost(f, o)
    /\ k > 1 => Nested(f)

Frames ==
    /\ stack \in Seq(Frame)
    /\ offset \in 0..(Len(Top) - 1)
    /\ \A k \in 1..Len(stack) : FrameOK(stack[k], k, Len(stack), offset)

\* Where a process is: it has a step to do, or the call has come to its end.
Position ==
    /\ stack = <<>> <=> pc = "idle"
    /\ pc \in {"next", "step"} => frame.i < Len(frame.steps)
    /\ pc = "returned" /\ mem.status = "running" => frame.i = Len(frame.steps) \/ frame.round > 1

TypeInv == TypeOK /\ Frames /\ Position

LEMMA FramesEmpty == stack' = <<>> /\ offset' \in 0..(Len(Top) - 1) => Frames'
BY EmptySeq DEF Frames

LEMMA FrameOnTop ==
    ASSUME Frames, stack # <<>>
    PROVE  /\ Len(stack) \in Nat \ {0}
           /\ stack \in Seq(Frame)
           /\ frame \in Frame /\ frame = stack[Len(stack)]
           /\ FrameOK(frame, Len(stack), Len(stack), offset)
BY EmptySeq, ElementOfSeq DEF Frames, frame

\* The frames up to d stay, but for the position and the round of the last.
LEMMA FramesCut ==
    ASSUME Frames, NEW d \in 1..Len(stack), UNCHANGED offset,
           stack' \in Seq(Frame), Len(stack') = d,
           \A k \in 1..(d - 1) : stack'[k] = stack[k],
           stack'[d].steps = stack[d].steps, stack'[d].of = stack[d].of, stack'[d].rounds = stack[d].rounds,
           stack'[d].i <= Len(stack[d].steps), stack'[d].round <= stack[d].rounds
    PROVE  Frames' /\ stack' # <<>> /\ frame' = stack'[d]
<1>1. Len(stack) \in Nat /\ d \in Nat /\ d <= Len(stack)
  BY LenProperties DEF Frames
<1>2. FrameOK(stack'[d], d, d, offset)
  <2>1. FrameOK(stack[d], d, Len(stack), offset)
    BY DEF Frames
  <2>2. QED
    BY <1>1, <2>1 DEF FrameOK, Outermost, Nested
<1>3. ASSUME NEW k \in 1..d PROVE FrameOK(stack'[k], k, d, offset)
  <2>1. CASE k = d
    BY <1>2, <2>1
  <2>2. CASE k \in 1..(d - 1)
    <3>1. k \in 1..Len(stack) /\ k < d /\ k < Len(stack)
      BY <1>1, <2>2
    <3>2. FrameOK(stack[k], k, Len(stack), offset) /\ stack'[k] = stack[k]
      BY <2>2, <3>1 DEF Frames
    <3>3. QED
      BY <3>1, <3>2 DEF FrameOK
  <2>3. QED
    BY <1>1, <2>1, <2>2
<1>4. stack' # <<>> /\ frame' = stack'[d]
  BY <1>1, EmptySeq DEF frame
<1>5. QED
  BY <1>3, <1>4 DEF Frames

\* The step at depth d is done.
LEMMA FramesComplete ==
    ASSUME Frames, NEW d \in 1..Len(stack), CompleteAt(d), UNCHANGED offset,
           stack[d].i < Len(stack[d].steps)
    PROVE  /\ Frames' /\ stack' # <<>> /\ Len(stack') = d
           /\ \A k \in 1..(d - 1) : stack'[k] = stack[k]
           /\ stack'[d] = Further(stack[d]) /\ frame' = stack'[d]
           /\ pc' \in {"next", "returned"}
           /\ pc' = "next" => frame'.i < Len(frame'.steps)
           /\ pc' = "returned" => frame'.i = Len(frame'.steps) \/ frame'.round > 1
<1>1. /\ stack' \in Seq(Frame) /\ Len(stack') = d
      /\ \A k \in 1..(d - 1) : stack'[k] = stack[k]
      /\ stack'[d] = Further(stack[d])
  BY Completed1 DEF Frames
<1>2. stack[d] \in Frame
  BY ElementOfSeq DEF Frames
<1>3. /\ stack'[d].i = stack[d].i + 1 /\ stack'[d].steps = stack[d].steps /\ stack'[d].of = stack[d].of
      /\ stack'[d].round = stack[d].round /\ stack'[d].rounds = stack[d].rounds
  BY <1>1, <1>2, StepDone
<1>4. Len(stack[d].steps) \in Nat /\ stack[d].i \in Nat /\ FrameOK(stack[d], d, Len(stack), offset)
  BY <1>2, LenProperties DEF Frame, Frames
<1>5. stack'[d].i <= Len(stack[d].steps) /\ stack'[d].round <= stack[d].rounds
  BY <1>3, <1>4 DEF FrameOK
<1>6. Frames' /\ stack' # <<>> /\ frame' = stack'[d]
  BY <1>1, <1>3, <1>5, FramesCut
<1>7. pc' = IF EndsCall(stack[d]) THEN "returned" ELSE "next"
  BY DEF CompleteAt
<1>8. /\ pc' = "next" => frame'.i < Len(frame'.steps)
      /\ pc' = "returned" => frame'.i = Len(frame'.steps) \/ frame'.round > 1
  BY <1>3, <1>4, <1>6, <1>7 DEF EndsCall
<1>9. QED
  BY <1>1, <1>6, <1>7, <1>8

\* The list on top runs again.
LEMMA FramesAgain ==
    ASSUME Frames, Len(stack) > 1, stack # <<>>, UNCHANGED offset, frame.round < frame.rounds,
           stack' = WithTop(Anew(frame))
    PROVE  /\ Frames' /\ stack' # <<>> /\ Len(stack') = Len(stack)
           /\ \A k \in 1..(Len(stack) - 1) : stack'[k] = stack[k]
           /\ stack'[Len(stack)] = Anew(frame) /\ frame' = Anew(frame)
           /\ frame'.i < Len(frame'.steps)
<1> DEFINE n == Len(stack)
<1>1. n \in Nat \ {0} /\ frame \in Frame /\ FrameOK(frame, n, n, offset) /\ frame = stack[n]
  BY FrameOnTop
<1>2. /\ Anew(frame) \in Frame /\ Anew(frame).i = 0 /\ Anew(frame).steps = frame.steps
      /\ Anew(frame).of = frame.of /\ Anew(frame).round = frame.round + 1
      /\ Anew(frame).rounds = frame.rounds
  BY <1>1, RoundDone
<1>3. /\ stack' \in Seq(Frame) /\ Len(stack') = n
      /\ \A k \in 1..n : stack'[k] = IF k = n THEN Anew(frame) ELSE stack[k]
  BY <1>2, TopReplaced DEF Frames
<1>4. Nested(frame) /\ Len(frame.steps) \in Nat /\ frame.round \in Nat /\ frame.rounds \in Nat
  BY <1>1, LenProperties DEF FrameOK, Frame
<1>5. n \in 1..Len(stack) /\ stack'[n] = Anew(frame) /\ \A k \in 1..(n - 1) : stack'[k] = stack[k]
  BY <1>1, <1>3
<1>6. Anew(frame).i <= Len(stack[n].steps) /\ Anew(frame).round <= stack[n].rounds
  BY <1>1, <1>2, <1>4
<1>7. Frames' /\ stack' # <<>> /\ frame' = stack'[n]
  <2> HIDE DEF n
  <2>1. QED
    BY <1>1, <1>2, <1>3, <1>5, <1>6, FramesCut
<1>8. QED
  BY <1>2, <1>3, <1>4, <1>5, <1>7 DEF Nested

\* The call on top is left.
LEMMA FramesBelow ==
    ASSUME Frames, Len(stack) > 1, stack' = Below, UNCHANGED offset
    PROVE  /\ Frames' /\ stack' # <<>> /\ Len(stack') = Len(stack) - 1
           /\ \A k \in 1..(Len(stack) - 1) : stack'[k] = stack[k]
<1> DEFINE n == Len(stack) - 1
<1>1. n \in 1..Len(stack) /\ n \in Nat /\ n < Len(stack)
  BY LenProperties DEF Frames
<1>2. /\ stack' \in Seq(Frame) /\ Len(stack') = n
      /\ \A k \in 1..n : stack'[k] = stack[k]
  BY TopLeft DEF Frames
<1> HIDE DEF n
<1>3. stack'[n] = stack[n] /\ FrameOK(stack[n], n, Len(stack), offset)
  BY <1>1, <1>2 DEF Frames
<1>4. stack[n].i <= Len(stack[n].steps) /\ stack[n].round <= stack[n].rounds
  BY <1>3 DEF FrameOK
<1>5. \A k \in 1..(n - 1) : stack'[k] = stack[k]
  BY <1>1, <1>2
<1>6. Frames' /\ stack' # <<>>
  BY <1>1, <1>2, <1>3, <1>4, <1>5, FramesCut
<1>7. QED
  BY <1>2, <1>6 DEF n

\* A list is called.
LEMMA FramesCall ==
    ASSUME Frames, stack # <<>>, frame.i < Len(frame.steps), UNCHANGED offset,
           NEW s \in Steps, NEW body \in Bodies[s], body # <<>>, NEW rounds \in Nat, rounds > 0,
           Kind[s] = "fan-out" => rounds <= MaxItems,
           stack' = Append(stack, Call(body, s, rounds))
    PROVE  /\ Frames' /\ stack' # <<>> /\ Len(stack') = Len(stack) + 1
           /\ \A k \in 1..Len(stack) : stack'[k] = stack[k]
           /\ frame' = Call(body, s, rounds) /\ frame'.i < Len(frame'.steps)
<1> DEFINE n == Len(stack)
           f == Call(body, s, rounds)
<1>0. n \in Nat \ {0} /\ FrameOK(frame, n, n, offset) /\ frame = stack[n]
  BY FrameOnTop DEF frame
<1>1. body \in Seq(Steps) /\ Len(body) > 0
  BY EngineAssumption, EmptySeq, LenProperties
<1>2. /\ f.i = 0 /\ f.round = 1 /\ f.rounds = rounds /\ f.steps = body /\ f.of = s
      /\ f \in Frame
  BY <1>1 DEF Call, Frame
<1>3. /\ stack' \in Seq(Frame) /\ Len(stack') = n + 1
      /\ \A k \in 1..n : stack'[k] = stack[k]
      /\ stack'[n + 1] = f
  BY <1>2, AppendProperties DEF Frames
<1>4. FrameOK(f, n + 1, n + 1, offset)
  <2>1. \A k \in DOMAIN body : \A j \in DOMAIN Top : body[k] # Top[j]
    BY TreeAssumption DEF Tree
  <2> HIDE DEF n, f
  <2>2. QED
    BY <1>0, <1>1, <1>2, <2>1, LenProperties DEF FrameOK, Nested
<1>5. \A k \in 1..(n + 1) : FrameOK(stack'[k], k, n + 1, offset)
  <2>1. \A k \in 1..n : FrameOK(stack[k], k, n, offset)
    BY DEF Frames
  <2>2. \A k \in 1..n : FrameOK(stack[k], k, n + 1, offset)
    <3> HIDE DEF n
    <3>1. QED
      BY <1>0, <2>1 DEF FrameOK
  <2> HIDE DEF n, f
  <2>3. QED
    BY <1>0, <1>3, <1>4, <2>2
<1>6. stack' # <<>> /\ frame' = f
  BY <1>0, <1>3, EmptySeq DEF frame
<1>7. QED
  BY <1>1, <1>2, <1>3, <1>5, <1>6 DEF Frames

\* The interpreter begins.
LEMMA FramesStart ==
    ASSUME NEW from \in 0..(Len(Top) - 1), offset' = from,
           stack' = <<Call(SubSeq(Top, from + 1, Len(Top)), Workflow, 1)>>
    PROVE  /\ Frames' /\ stack' # <<>> /\ Len(stack') = 1
           /\ stack'[1].i = 0 /\ stack'[1].of = Workflow /\ frame' = stack'[1]
           /\ frame'.i < Len(frame'.steps)
<1> DEFINE rest == SubSeq(Top, from + 1, Len(Top))
           f == Call(rest, Workflow, 1)
<1>0. Len(Top) \in Nat /\ Top \in Seq(Steps)
  BY EngineAssumption, LenProperties
<1>1. /\ rest \in Seq(Steps) /\ Len(rest) = Len(Top) - from
      /\ \A j \in 1..(Len(Top) - from) : rest[j] = Top[from + j]
  <2> DEFINE m == from + 1  n == Len(Top)
  <2>1. m \in Int /\ n \in Int /\ \A i \in m..n : Top[i] \in Steps
    BY <1>0, ElementOfSeq
  <2> HIDE DEF m, n
  <2>2. /\ SubSeq(Top, m, n) \in Seq(Steps)
        /\ Len(SubSeq(Top, m, n)) = IF m <= n THEN n - m + 1 ELSE 0
        /\ \A i \in 1 .. n-m+1 : SubSeq(Top, m, n)[i] = Top[m+i-1]
    BY <2>1, SubSeqProperties
  <2>3. QED
    BY <1>0, <2>2 DEF m, n
<1>2. /\ f.i = 0 /\ f.round = 1 /\ f.rounds = 1 /\ f.steps = rest /\ f.of = Workflow
      /\ f \in Frame
  BY <1>1 DEF Call, Frame
<1>3. stack' \in Seq(Frame) /\ Len(stack') = 1 /\ stack'[1] = f
  <2> HIDE DEF f
  <2>1. QED
    BY <1>2 DEF f
<1>4. FrameOK(f, 1, 1, from)
  <2> HIDE DEF f, rest
  <2>1. QED
    BY <1>0, <1>1, <1>2, LenProperties DEF FrameOK, Outermost
<1>5. f.i < Len(f.steps)
  BY <1>0, <1>1, <1>2
<1>6. QED
  <2> HIDE DEF f
  <2>1. QED
    BY <1>2, <1>3, <1>4, <1>5, EmptySeq DEF Frames, frame

\* What a saved or running state is.
RunOK(m) == m \in RunState /\ m.index < Len(Top)

LEMMA IdOf == ASSUME NEW s \in Steps PROVE Id[s] \in Ids
BY DEF Ids

LEMMA StatusSet ==
    ASSUME NEW m, RunOK(m), NEW st \in Statuses \cup {"none", "torn"}
    PROVE  LET n == [m EXCEPT !.status = st] IN
           RunOK(n) /\ n.status = st /\ n.index = m.index /\ n.results = m.results
BY DEF RunOK, RunState

LEMMA IndexSet ==
    ASSUME NEW m, RunOK(m), NEW j \in Nat, j < Len(Top)
    PROVE  LET n == [m EXCEPT !.index = j] IN
           RunOK(n) /\ n.status = m.status /\ n.index = j /\ n.results = m.results
BY DEF RunOK, RunState

LEMMA ResultSet ==
    ASSUME RunOK(mem), NEW s \in Steps, NEW r \in Results
    PROVE  LET n == Result(s, r) IN
           /\ RunOK(n) /\ n.status = mem.status /\ n.index = mem.index
           /\ n.results = [mem.results EXCEPT ![Id[s]] = r]
           /\ n.results[Id[s]] = r
<1> DEFINE id == Id[s]
           n == Result(s, r)
<1>1. id \in Ids
  BY IdOf
<1>2. n = [mem EXCEPT !.results[id] = r]
  BY DEF Result
<1> HIDE DEF id, n
<1>3. /\ RunOK(n) /\ n.status = mem.status /\ n.index = mem.index
      /\ n.results = [mem.results EXCEPT ![id] = r] /\ n.results[id] = r
  BY <1>1, <1>2 DEF RunOK, RunState
<1>4. QED
  BY <1>3 DEF id, n

\* A state with a result and a status that mem does not have.
LEMMA Recorded ==
    ASSUME RunOK(mem), NEW s \in Steps, NEW r \in Results, NEW st \in Statuses
    PROVE  LET n == [Result(s, r) EXCEPT !.status = st] IN
           /\ RunOK(n) /\ n.status = st /\ n.index = mem.index
           /\ n.results = [mem.results EXCEPT ![Id[s]] = r]
           /\ n.results[Id[s]] = r
<1> DEFINE m == Result(s, r)
           n == [m EXCEPT !.status = st]
<1>1. /\ RunOK(m) /\ m.index = mem.index /\ m.results = [mem.results EXCEPT ![Id[s]] = r]
      /\ m.results[Id[s]] = r
  BY ResultSet
<1> HIDE DEF m
<1>2. RunOK(n) /\ n.status = st /\ n.index = m.index /\ n.results = m.results
  BY <1>1, StatusSet
<1> HIDE DEF n
<1>3. /\ RunOK(n) /\ n.status = st /\ n.index = mem.index
      /\ n.results = [mem.results EXCEPT ![Id[s]] = r] /\ n.results[Id[s]] = r
  BY <1>1, <1>2
<1>4. QED
  BY <1>3 DEF n, m

LEMMA NoRunOK == RunOK(NoRun) /\ NoRun.index = 0 /\ NoRun.status = "none"
<1>1. Len(Top) > 0
  BY EngineAssumption, EmptySeq
<1>2. QED
  BY <1>1 DEF NoRun, RunOK, RunState, Results

\* A process in a step has a step.
LEMMA StepIs ==
    ASSUME TypeInv, pc = "step"
    PROVE  /\ stack # <<>> /\ frame.i < Len(frame.steps)
           /\ step \in Steps /\ Id[step] \in Ids
           /\ frame \in Frame /\ frame = stack[Len(stack)]
           /\ Len(stack) \in 1..Len(stack) /\ RunOK(mem)
<1>1. stack # <<>> /\ frame.i < Len(frame.steps) /\ RunOK(mem)
  BY DEF TypeInv, TypeOK, Position, RunOK
<1>2. frame \in Frame /\ frame = stack[Len(stack)] /\ Len(stack) \in Nat \ {0}
  BY <1>1, FrameOnTop DEF TypeInv
<1>3. frame.i + 1 \in 1..Len(frame.steps) /\ frame.steps \in Seq(Steps)
  BY <1>1, <1>2, LenProperties DEF Frame
<1>4. step \in Steps
  BY <1>3, ElementOfSeq DEF step
<1> HIDE DEF step
<1>5. QED
  BY <1>1, <1>2, <1>4, IdOf

\* The parts of TypeInv that a step has to be looked at for.
Rest ==
    /\ RunOK(disk) /\ RunOK(mem)
    /\ item \in {NoItem} \cup (Steps \X (1..MaxItems))
    /\ pc \in {"idle", "next", "step", "returned"}
    /\ stops \in 0..MaxStops

LEMMA TypeParts == TypeInv <=> Rest /\ Frames /\ Position
<1>1. TypeInv => Rest /\ Frames /\ Position
  BY DEF TypeInv, TypeOK, Rest, RunOK
<1>2. ASSUME Rest, Frames, Position PROVE TypeOK
  <2>1. DOMAIN stack = 1..Len(stack)
    BY LenProperties DEF Frames
  <2>2. \A k \in DOMAIN stack : stack[k].i <= Len(stack[k].steps) /\ stack[k].round <= stack[k].rounds
    BY <1>2, <2>1 DEF Frames, FrameOK
  <2>3. QED
    BY <1>2, <2>2 DEF Rest, RunOK, Frames, Position, TypeOK
<1>3. QED
  BY <1>1, <1>2 DEF TypeInv

LEMMA TypePrimed == Rest' /\ Frames' /\ Position' => TypeInv'
BY TypeParts, PTL

LEMMA TypeInit == Init => TypeInv
<1> SUFFICES ASSUME Init PROVE Rest /\ Frames /\ Position
  BY TypeParts
<1>1. Len(Top) \in Nat \ {0}
  BY EngineAssumption, EmptySeq
<1>2. Rest
  BY NoRunOK, EngineAssumption DEF Init, Rest
<1>3. Frames
  BY <1>1, EmptySeq DEF Init, Frames
<1>4. QED
  BY <1>2, <1>3 DEF Init, Position

\* The process ends.
LEMMA TypeExit ==
    ASSUME TypeInv, NEW state, RunOK(state), Exit(state), stops' \in 0..MaxStops
    PROVE  TypeInv'
<1>1. Rest'
  BY NoRunOK, EngineAssumption DEF Exit, Rest, RunOK
<1>2. Frames'
  BY FramesEmpty, EngineAssumption, EmptySeq DEF Exit
<1>3. Position'
  BY DEF Exit, Position
<1>4. QED
  BY <1>1, <1>2, <1>3, TypePrimed

\* The run stops.
LEMMA TypeHalt ==
    ASSUME TypeInv, pc = "step", NEW state, RunOK(state), state.status # "running",
           Halt(state), UNCHANGED <<offset, stops>>
    PROVE  TypeInv'
<1>1. Rest'
  BY TypeParts DEF Halt, Rest, RunOK
<1>2. Frames'
  BY DEF Halt, TypeInv, Frames
<1>3. Position'
  BY StepIs DEF Halt, Position
<1>4. QED
  BY <1>1, <1>2, <1>3, TypePrimed

\* The list goes on.
LEMMA TypeProceed ==
    ASSUME TypeInv, pc = "step", NEW state, RunOK(state), Proceed(state),
           disk' \in {disk, mem'}, UNCHANGED <<offset, stops, item>>
    PROVE  TypeInv'
<1>1. Rest'
  BY TypeParts, FramesComplete, StepIs DEF Proceed, Rest, RunOK, CompleteAt
<1>2. /\ Frames' /\ stack' # <<>>
      /\ pc' \in {"next", "returned"}
      /\ pc' = "next" => frame'.i < Len(frame'.steps)
      /\ pc' = "returned" => frame'.i = Len(frame'.steps) \/ frame'.round > 1
  BY FramesComplete, StepIs DEF Proceed, TypeInv
<1>3. Position'
  BY <1>2 DEF Position
<1>4. QED
  BY <1>1, <1>2, <1>3, TypePrimed

\* The item of a new round is one of the first MaxItems.
LEMMA ItemOK ==
    ASSUME NEW s \in Steps, NEW n \in Nat, n > 0, n <= MaxItems
    PROVE  <<s, n>> \in {NoItem} \cup (Steps \X (1..MaxItems))
BY EngineAssumption

\* A nested list is called, or the step is done if there is none.
LEMMA TypeNest ==
    ASSUME TypeInv, pc = "step", NEW body \in Bodies[step] \cup {<<>>}, NEW rounds \in Nat,
           Kind[step] = "fan-out" => rounds <= MaxItems, Nest(body, rounds),
           item' = IF body = <<>> \/ rounds = 0 \/ Kind[step] # "fan-out" THEN item ELSE <<step, 1>>
    PROVE  TypeInv'
<1>0. /\ stack # <<>> /\ frame.i < Len(frame.steps) /\ step \in Steps
      /\ RunOK(Result(step, "completed"))
  BY StepIs, ResultSet DEF Results
<1>1. CASE body = <<>> \/ rounds = 0
  BY <1>0, <1>1, TypeProceed DEF Nest
<1>2. CASE ~(body = <<>> \/ rounds = 0)
  <2>1. /\ body \in Bodies[step] /\ rounds > 0 /\ mem' = Result(step, "completed") /\ pc' = "next"
        /\ stack' = Append(stack, Call(body, step, rounds)) /\ UNCHANGED <<disk, offset, stops>>
    BY <1>2 DEF Nest
  <2>2. item' \in {NoItem} \cup (Steps \X (1..MaxItems))
    <3>1. CASE Kind[step] # "fan-out"
      BY <3>1, TypeParts DEF Rest
    <3>2. CASE Kind[step] = "fan-out"
      <4>1. item' = <<step, 1>> /\ 1 <= MaxItems
        BY <1>2, <2>1, <3>2, EngineAssumption
      <4> HIDE DEF step
      <4>2. QED
        BY <1>0, <4>1, ItemOK
    <3>3. QED
      BY <3>1, <3>2
  <2>3. Rest'
    BY <1>0, <2>1, <2>2, TypeParts DEF Rest, RunOK
  <2>4. Frames' /\ stack' # <<>> /\ frame'.i < Len(frame'.steps)
    <3> HIDE DEF step
    <3>1. QED
      BY <1>0, <1>2, <2>1, FramesCall DEF TypeInv
  <2>5. Position'
    BY <2>1, <2>4 DEF Position
  <2>6. QED
    BY <2>3, <2>4, <2>5, TypePrimed
<1>3. QED
  BY <1>1, <1>2

LEMMA TypeStart ==
    ASSUME TypeInv, NEW state, RunOK(state), Start(state, state.index), offset' = state.index,
           stops' \in 0..MaxStops
    PROVE  TypeInv'
<1>1. Rest'
  <2>1. RunOK(mem') /\ disk' = mem'
    BY StatusSet DEF Start, Statuses
  <2>2. QED
    BY <2>1 DEF Start, Rest, RunOK
<1>2. Frames' /\ stack' # <<>> /\ frame'.i < Len(frame'.steps)
  <2>1. state.index \in 0..(Len(Top) - 1)
    BY EngineAssumption, LenProperties DEF RunOK, RunState
  <2>2. QED
    BY <2>1, FramesStart DEF Start
<1>3. Position'
  BY <1>2 DEF Start, Position
<1>4. QED
  BY <1>1, <1>2, <1>3, TypePrimed

LEMMA TypeBegin ==
    ASSUME TypeInv, Begin PROVE TypeInv'
<1>0. stack # <<>> /\ RunOK(mem) /\ pc = "next" /\ frame.i < Len(frame.steps)
  BY TypeParts DEF Position, Begin, Rest
<1>1. RunOK(mem')
  <2>1. CASE Len(stack) = 1
    <3>1. FrameOK(frame, 1, 1, offset) /\ frame \in Frame /\ offset \in 0..(Len(Top) - 1)
      BY <1>0, <2>1, FrameOnTop DEF TypeInv, Frames
    <3>2. offset + frame.i \in Nat /\ offset + frame.i < Len(Top)
      BY <1>0, <3>1, EngineAssumption, LenProperties DEF FrameOK, Outermost, Frame
    <3>3. QED
      BY <1>0, <2>1, <3>2, IndexSet DEF Begin
  <2>2. CASE Len(stack) # 1
    BY <1>0, <2>2 DEF Begin
  <2>3. QED
    BY <2>1, <2>2
<1>2. Rest'
  BY <1>1, TypeParts DEF Begin, Rest, RunOK
<1>3. Frames'
  BY DEF Begin, TypeInv, Frames
<1>4. Position'
  BY <1>0 DEF Begin, Position, frame
<1>5. QED
  BY <1>2, <1>3, <1>4, TypePrimed

LEMMA TypeUnwind ==
    ASSUME TypeInv, Unwind PROVE TypeInv'
<1>1. /\ Len(stack) > 1 /\ stack' = Below /\ UNCHANGED <<disk, mem, offset, pc, stops>>
      /\ pc = "returned" /\ mem.status # "running" /\ item' \in {item, NoItem}
  BY DEF Unwind
<1>2. Rest'
  BY <1>1, TypeParts DEF Rest, RunOK
<1>3. Frames' /\ stack' # <<>>
  BY <1>1, FramesBelow DEF TypeInv
<1>4. Position'
  BY <1>1, <1>3 DEF Position
<1>5. QED
  BY <1>2, <1>3, <1>4, TypePrimed

LEMMA TypeNextOfRound ==
    ASSUME TypeInv, NextOfRound PROVE TypeInv'
<1>1. /\ frame.i < Len(frame.steps) /\ pc' = "next" /\ pc = "returned"
      /\ UNCHANGED <<disk, mem, stack, offset, item, stops>>
  <2>1. frame.i < Len(frame.steps) /\ pc' = "next" /\ pc = "returned"
        /\ UNCHANGED <<disk, mem, stack, offset, item, stops>>
    BY DEF NextOfRound
  <2>2. QED
    BY <2>1
<1>2. Rest'
  BY <1>1, TypeParts DEF Rest, RunOK
<1>3. Frames'
  BY <1>1 DEF TypeInv, Frames
<1>4. Position'
  BY <1>1 DEF TypeInv, Position, frame
<1>5. QED
  BY <1>2, <1>3, <1>4, TypePrimed

\* The parts of Again that the proofs use.
LEMMA AgainIs ==
    ASSUME TypeInv, Again
    PROVE  /\ stack # <<>> /\ Len(stack) > 1 /\ pc = "returned" /\ pc' = "next"
           /\ mem.status = "running" /\ frame.round < frame.rounds
           /\ UNCHANGED <<disk, mem, offset, stops>>
           /\ frame \in Frame /\ frame.of \in Steps
           /\ stack' = WithTop(Anew(frame))
           /\ item' = IF Kind[frame.of] = "fan-out" THEN <<frame.of, frame.round + 1>> ELSE item
<1>1. Len(stack) > 1 /\ stack # <<>>
  BY DEF Again, TypeInv, Position
<1>2. frame \in Frame /\ Nested(frame)
  BY <1>1, FrameOnTop DEF TypeInv, FrameOK
<1>3. QED
  BY <1>1, <1>2 DEF Again, Anew, Nested

LEMMA TypeAgain ==
    ASSUME TypeInv, Again PROVE TypeInv'
<1>1. Frames' /\ stack' # <<>> /\ frame'.i < Len(frame'.steps)
  BY AgainIs, FramesAgain DEF TypeInv
<1>2. item' \in {NoItem} \cup (Steps \X (1..MaxItems))
  <2>1. CASE Kind[frame.of] # "fan-out"
    BY <2>1, AgainIs, TypeParts DEF Rest
  <2>2. CASE Kind[frame.of] = "fan-out"
    <3>1. FrameOK(frame, Len(stack), Len(stack), offset) /\ Len(stack) > 1
      BY AgainIs, FrameOnTop DEF TypeInv
    <3>2. /\ frame.of \in Steps /\ frame.round + 1 \in Nat /\ frame.round + 1 > 0
          /\ frame.round + 1 <= MaxItems
      BY <2>2, <3>1, AgainIs, EngineAssumption DEF FrameOK, Nested, Frame
    <3>3. item' = <<frame.of, frame.round + 1>>
      BY <2>2, AgainIs
    <3> HIDE DEF frame
    <3>4. QED
      BY <3>2, <3>3, ItemOK
  <2>3. QED
    BY <2>1, <2>2
<1>3. Rest'
  BY <1>2, AgainIs, TypeParts DEF Rest, RunOK
<1>4. Position'
  BY <1>1, AgainIs DEF Position
<1>5. QED
  BY <1>1, <1>3, <1>4, TypePrimed

\* The parts of Leave that the proofs use.
LEMMA LeaveIs ==
    ASSUME TypeInv, Leave
    PROVE  /\ stack # <<>> /\ Len(stack) > 1 /\ pc = "returned" /\ mem.status = "running"
           /\ UNCHANGED <<disk, mem, offset, stops>>
           /\ Len(stack) - 1 \in 1..Len(stack) /\ CompleteAt(Len(stack) - 1)
           /\ stack[Len(stack) - 1].i < Len(stack[Len(stack) - 1].steps)
           /\ item' = IF Kind[frame.of] = "fan-out" THEN NoItem ELSE item
<1>1. Len(stack) > 1 /\ stack # <<>> /\ Len(stack) \in Nat
  BY LenProperties DEF Leave, TypeInv, Frames, Position
<1>2. Len(stack) - 1 \in 1..Len(stack) /\ Len(stack) - 1 < Len(stack)
  BY <1>1
<1>3. FrameOK(stack[Len(stack) - 1], Len(stack) - 1, Len(stack), offset)
  BY <1>2 DEF TypeInv, Frames
<1>4. QED
  BY <1>1, <1>2, <1>3 DEF Leave, FrameOK

LEMMA TypeLeave ==
    ASSUME TypeInv, Leave PROVE TypeInv'
<1> DEFINE d == Len(stack) - 1
<1>0. d \in 1..Len(stack) /\ CompleteAt(d) /\ stack[d].i < Len(stack[d].steps) /\ UNCHANGED offset
  BY LeaveIs
<1> HIDE DEF d
<1>1. /\ Frames' /\ stack' # <<>>
      /\ pc' \in {"next", "returned"}
      /\ pc' = "next" => frame'.i < Len(frame'.steps)
      /\ pc' = "returned" => frame'.i = Len(frame'.steps) \/ frame'.round > 1
  BY <1>0, FramesComplete DEF TypeInv
<1>2. Rest'
  BY <1>1, LeaveIs, TypeParts DEF Rest, RunOK
<1>3. Position'
  BY <1>1 DEF Position
<1>4. QED
  BY <1>1, <1>2, <1>3, TypePrimed

\* The lists that the control-flow steps may call.
LEMMA NestIs ==
    ASSUME Branch \/ EnterLoop \/ FanOut
    PROVE  /\ pc = "step"
           /\ \E body \in Bodies[step] \cup {<<>>}, rounds \in Nat :
                 /\ Nest(body, rounds)
                 /\ Kind[step] = "fan-out" => rounds <= MaxItems
                 /\ item' = IF body = <<>> \/ rounds = 0 \/ Kind[step] # "fan-out" THEN item ELSE <<step, 1>>
<1>0. MaxIterations \in Nat /\ MaxItems \in Nat
  BY EngineAssumption
<1>1. CASE Branch
  <2>1. PICK body \in Bodies[step] : Nest(body, 1) /\ Kind[step] = "branch" /\ item' = item
    BY <1>1 DEF Branch
  <2>2. QED
    BY <1>1, <2>1 DEF Branch
<1>2. CASE EnterLoop
  <2>1. PICK body \in Bodies[step] \cup {<<>>} :
            Nest(body, MaxIterations) /\ Kind[step] \in Loops /\ item' = item
    BY <1>2 DEF EnterLoop
  <2>2. QED
    BY <1>0, <1>2, <2>1 DEF EnterLoop, Loops
<1>3. CASE FanOut
  <2>1. PICK body \in Bodies[step], n \in 0..MaxItems :
            Nest(body, n) /\ item' = IF body = <<>> \/ n = 0 THEN item ELSE <<step, 1>>
    BY <1>3 DEF FanOut
  <2>2. n \in Nat /\ n <= MaxItems /\ Kind[step] = "fan-out" /\ pc = "step"
    BY <1>0, <1>3 DEF FanOut
  <2>3. QED
    BY <2>1, <2>2
<1>4. QED
  BY <1>1, <1>2, <1>3

\* What a step that is executed without calling others does: it goes on with a
\* result, or stops with one, or stops without.
LEMMA StepOutcome ==
    ASSUME TypeInv,
           \/ Succeed \/ Fail \/ UnknownType
           \/ GatePauses \/ GateApproved \/ GateRejected \/ GateRejectedLoosely
    PROVE  /\ pc = "step" /\ UNCHANGED <<offset, stops, item>>
           /\ \/ \E r \in Results :
                    /\ Proceed(Result(step, r)) /\ disk' \in {disk, mem'}
                    /\ \/ r = "completed"
                       \/ r = "failed" /\ step \in ContinueOnError /\ Kind[step] # "gate"
                       \/ r = "rejected" /\ Kind[step] = "gate" /\ (step \in Loose \/ OnReject[step] = "skip")
              \/ \E r \in Results, st \in {"failed", "paused", "aborted"} :
                    Halt([Result(step, r) EXCEPT !.status = st])
              \/ Halt([mem EXCEPT !.status = "failed"])
<1> USE DEF Results
<1>1. CASE Succeed
  BY <1>1 DEF Succeed
<1>2. CASE Fail
  <2>1. CASE step \in ContinueOnError
    BY <1>2, <2>1 DEF Fail
  <2>2. CASE step \notin ContinueOnError
    BY <1>2, <2>2 DEF Fail, Halt
  <2>3. QED
    BY <2>1, <2>2
<1>3. CASE UnknownType
  BY <1>3 DEF UnknownType, Halt
<1>4. CASE GatePauses
  BY <1>4 DEF GatePauses, Halt
<1>5. CASE GateApproved
  BY <1>5 DEF GateApproved
<1>6. CASE GateRejected
  <2>0. pc = "step" /\ Kind[step] = "gate" /\ UNCHANGED <<offset, stops>>
    BY <1>6 DEF GateRejected
  <2>1. CASE OnReject[step] = "abort"
    BY <1>6, <2>0, <2>1 DEF GateRejected, Halt
  <2>2. CASE OnReject[step] = "retry"
    BY <1>6, <2>0, <2>2 DEF GateRejected, Halt
  <2>3. CASE OnReject[step] \notin {"abort", "retry"}
    <3>1. Proceed(Result(step, "rejected")) /\ UNCHANGED <<disk, item>>
      BY <1>6, <2>3 DEF GateRejected
    <3>2. OnReject[step] = "skip"
      BY <2>0, <2>3, StepIs, EngineAssumption
    <3>3. QED
      BY <2>0, <3>1, <3>2
  <2>4. QED
    BY <2>1, <2>2, <2>3
<1>7. CASE GateRejectedLoosely
  BY <1>7 DEF GateRejectedLoosely
<1>8. QED
  BY <1>1, <1>2, <1>3, <1>4, <1>5, <1>6, <1>7

\* Typing is preserved by every step.
LEMMA TypeStep == TypeInv /\ [Next]_vars => TypeInv'
<1> SUFFICES ASSUME TypeInv, [Next]_vars PROVE TypeInv'
  OBVIOUS
<1>0. RunOK(mem) /\ RunOK(disk) /\ stops \in 0..MaxStops /\ MaxStops \in Nat
  BY TypeParts, EngineAssumption DEF Rest
<1>1. CASE Execute
  <2>1. Start(NoRun, NoRun.index) /\ offset' = NoRun.index /\ stops' \in 0..MaxStops
    BY <1>0, <1>1, NoRunOK DEF Execute
  <2>2. QED
    BY <2>1, NoRunOK, TypeStart
<1>2. CASE Resume
  BY <1>0, <1>2, TypeStart DEF Resume, Stop
<1>3. CASE Begin
  BY <1>3, TypeBegin
<1>4. CASE \/ Succeed \/ Fail \/ UnknownType
           \/ GatePauses \/ GateApproved \/ GateRejected \/ GateRejectedLoosely
  <2>1. pc = "step" /\ UNCHANGED <<offset, stops, item>> /\ step \in Steps
    BY <1>4, StepOutcome, StepIs
  <2>2. CASE \E r \in Results : Proceed(Result(step, r)) /\ disk' \in {disk, mem'}
    <3>1. PICK r \in Results : Proceed(Result(step, r)) /\ disk' \in {disk, mem'}
      BY <2>2
    <3>2. RunOK(Result(step, r))
      BY <1>0, <2>1, ResultSet
    <3>3. QED
      BY <2>1, <3>1, <3>2, TypeProceed
  <2>3. CASE \E r \in Results, st \in {"failed", "paused", "aborted"} :
                Halt([Result(step, r) EXCEPT !.status = st])
    <3>1. PICK r \in Results, st \in {"failed", "paused", "aborted"} :
                Halt([Result(step, r) EXCEPT !.status = st])
      BY <2>3
    <3>2. st \in Statuses /\ st # "running"
      BY DEF Statuses
    <3>3. RunOK([Result(step, r) EXCEPT !.status = st])
      BY <1>0, <2>1, Recorded DEF Statuses
    <3>4. [Result(step, r) EXCEPT !.status = st].status = st
      BY <1>0, <2>1, Recorded DEF Statuses
    <3>5. QED
      BY <2>1, <3>1, <3>2, <3>3, <3>4, TypeHalt
  <2>4. CASE Halt([mem EXCEPT !.status = "failed"])
    <3>1. RunOK([mem EXCEPT !.status = "failed"]) /\ [mem EXCEPT !.status = "failed"].status = "failed"
      BY <1>0, StatusSet DEF Statuses
    <3>2. QED
      BY <2>1, <2>4, <3>1, TypeHalt
  <2>5. QED
    BY <1>4, <2>2, <2>3, <2>4, StepOutcome
<1>5. CASE Branch \/ EnterLoop \/ FanOut
  <2>1. pc = "step"
    BY <1>5, NestIs
  <2>2. PICK body \in Bodies[step] \cup {<<>>}, rounds \in Nat :
           /\ Nest(body, rounds)
           /\ Kind[step] = "fan-out" => rounds <= MaxItems
           /\ item' = IF body = <<>> \/ rounds = 0 \/ Kind[step] # "fan-out" THEN item ELSE <<step, 1>>
    BY <1>5, NestIs
  <2>3. QED
    BY <2>1, <2>2, TypeNest
<1>6. CASE Unwind \/ NextOfRound \/ Again \/ Leave
  BY <1>6, TypeUnwind, TypeNextOfRound, TypeAgain, TypeLeave
<1>7. CASE Raise
  BY <1>0, <1>7, StatusSet, TypeExit DEF Raise, Statuses
<1>8. CASE Finish
  BY <1>0, <1>8, StatusSet, TypeExit DEF Finish, Statuses
<1>9. CASE Interrupt
  <2>1. PICK state \in {mem} \cup (IF pc = "step" THEN {Result(step, r) : r \in Outcomes(step)} ELSE {}) :
            Exit([state EXCEPT !.status = "paused"])
    BY <1>9 DEF Interrupt
  <2>2. RunOK(state)
    <3>1. CASE state = mem
      BY <1>0, <3>1
    <3>2. CASE pc = "step" /\ \E r \in Outcomes(step) : state = Result(step, r)
      <4>1. Outcomes(step) \subseteq Results
        BY DEF Outcomes, Results
      <4>2. step \in Steps
        BY <3>2, StepIs
      <4> HIDE DEF step
      <4>3. QED
        BY <1>0, <3>2, <4>1, <4>2, ResultSet
    <3>3. QED
      BY <2>1, <3>1, <3>2
  <2>3. RunOK([state EXCEPT !.status = "paused"])
    BY <2>2, StatusSet DEF Statuses
  <2>4. stops' \in 0..MaxStops
    BY <1>0, <1>9 DEF Interrupt, Stop
  <2>5. QED
    BY <2>1, <2>3, <2>4, TypeExit
<1>10. CASE Kill
  BY <1>0, <1>10, StatusSet, TypeExit DEF Kill, Stop
<1>11. CASE UNCHANGED vars
  BY <1>11 DEF vars, TypeInv, TypeOK, Frames, Position, frame
<1>12. QED
  BY <1>1, <1>2, <1>3, <1>4, <1>5, <1>6, <1>7, <1>8, <1>9, <1>10, <1>11 DEF Next, Run

\* The state of a run keeps its type, whatever stops the process: the index is
\* one of a top-level step, no list is run beyond its end, no loop or fan-out
\* beyond its rounds, and a step is under way only where one is left.
THEOREM TypeCorrect == Spec => []TypeOK
<1>1. TypeInv => TypeOK
  BY DEF TypeInv
<1>2. QED
  BY <1>1, TypeInit, TypeStep, PTL DEF Spec

-----------------------------------------------------------------------------
(* Stopping *)

\* While steps are executed the run is on record as running, and so it is when a
\* call has returned, unless the record says how the run stopped.
Live ==
    /\ pc = "idle" => mem = NoRun
    /\ pc \in {"next", "step"} => mem.status = "running" /\ disk.status = "running"
    /\ pc = "returned" => /\ mem.status \in {"running", "paused", "failed", "aborted"}
                          /\ disk.status = mem.status

LEMMA LiveRunning ==
    ASSUME mem'.status = "running", disk'.status = "running", pc' # "idle",
           pc' \in {"idle", "next", "step", "returned"}
    PROVE  Live'
BY DEF Live

LEMMA LiveHalt ==
    ASSUME NEW state, Halt(state), state.status \in {"paused", "failed", "aborted"}
    PROVE  Live'
BY DEF Live, Halt

LEMMA LiveExit ==
    ASSUME NEW state, Exit(state)
    PROVE  Live'
BY DEF Live, Exit

LEMMA LiveStep == TypeInv /\ Live /\ [Next]_vars => Live'
<1> SUFFICES ASSUME TypeInv, Live, [Next]_vars PROVE Live'
  OBVIOUS
<1>0. RunOK(mem) /\ RunOK(disk)
  BY TypeParts DEF Rest
<1>1. CASE Execute \/ Resume
  <2>1. PICK state : RunOK(state) /\ Start(state, state.index)
    BY <1>0, <1>1, NoRunOK DEF Execute, Resume
  <2>2. mem'.status = "running" /\ disk' = mem' /\ pc' = "next"
    BY <2>1, StatusSet DEF Start, Statuses
  <2>3. QED
    BY <2>2, LiveRunning
<1>2. CASE Begin
  <2>1. pc = "next" /\ pc' = "step" /\ disk' = mem'
    BY <1>2 DEF Begin
  <2>2. mem'.status = mem.status
    BY <1>0, <1>2 DEF Begin, RunOK, RunState
  <2>3. QED
    BY <2>1, <2>2, LiveRunning DEF Live
<1>3. CASE \/ Succeed \/ Fail \/ UnknownType
           \/ GatePauses \/ GateApproved \/ GateRejected \/ GateRejectedLoosely
  <2>1. pc = "step" /\ step \in Steps /\ mem.status = "running" /\ disk.status = "running"
    BY <1>3, StepOutcome, StepIs DEF Live
  <2>2. CASE \E r \in Results : Proceed(Result(step, r)) /\ disk' \in {disk, mem'}
    <3>1. PICK r \in Results : Proceed(Result(step, r)) /\ disk' \in {disk, mem'}
      BY <2>2
    <3>2. mem'.status = "running"
      BY <1>0, <2>1, <3>1, ResultSet DEF Proceed
    <3>3. pc' \in {"next", "returned"}
      BY <3>1 DEF Proceed, CompleteAt
    <3>4. QED
      BY <2>1, <3>1, <3>2, <3>3, LiveRunning
  <2>3. CASE \E r \in Results, st \in {"failed", "paused", "aborted"} :
                Halt([Result(step, r) EXCEPT !.status = st])
    <3>1. PICK r \in Results, st \in {"failed", "paused", "aborted"} :
                Halt([Result(step, r) EXCEPT !.status = st])
      BY <2>3
    <3>2. [Result(step, r) EXCEPT !.status = st].status = st
      BY <1>0, <2>1, Recorded DEF Statuses
    <3>3. QED
      BY <3>1, <3>2, LiveHalt
  <2>4. CASE Halt([mem EXCEPT !.status = "failed"])
    <3>1. [mem EXCEPT !.status = "failed"].status = "failed"
      BY <1>0, StatusSet DEF Statuses
    <3>2. QED
      BY <2>4, <3>1, LiveHalt
  <2>5. QED
    BY <1>3, <2>2, <2>3, <2>4, StepOutcome
<1>4. CASE Branch \/ EnterLoop \/ FanOut
  <2>1. pc = "step" /\ step \in Steps /\ mem.status = "running" /\ disk.status = "running"
    BY <1>4, NestIs, StepIs DEF Live
  <2>2. mem' = Result(step, "completed") /\ disk' = disk /\ pc' \in {"next", "returned"}
    BY <1>4, NestIs DEF Nest, Proceed, CompleteAt
  <2>3. mem'.status = "running"
    BY <1>0, <2>1, <2>2, ResultSet DEF Results
  <2>4. QED
    BY <2>1, <2>2, <2>3, LiveRunning
<1>5. CASE Unwind
  BY <1>5 DEF Unwind, Live
<1>6. CASE NextOfRound \/ Again \/ Leave
  <2>1. /\ mem.status = "running" /\ pc = "returned" /\ UNCHANGED <<mem, disk>>
        /\ pc' \in {"next", "returned"}
    BY <1>6 DEF NextOfRound, Again, Leave, CompleteAt
  <2>2. QED
    BY <2>1, LiveRunning DEF Live
<1>7. CASE Raise \/ Finish \/ Interrupt \/ Kill
  BY <1>7, LiveExit DEF Raise, Finish, Interrupt, Kill
<1>8. CASE UNCHANGED vars
  BY <1>8 DEF vars, Live
<1>9. QED
  BY <1>1, <1>2, <1>3, <1>4, <1>5, <1>6, <1>7, <1>8 DEF Next, Run

LEMMA Liveliness == Spec => [](TypeInv /\ Live)
<1>1. Init => Live
  BY DEF Init, Live
<1>2. QED
  BY <1>1, TypeInit, TypeStep, LiveStep, PTL DEF Spec

\* Once a step has stopped the run, every list around it is left without another
\* step: each of the calls returns to a list that may have steps, rounds or items
\* left, and there the status decides.
THEOREM NothingRuns == Spec => []NothingRunsOnceStopped
<1>1. Live => NothingRunsOnceStopped
  BY DEF Live, NothingRunsOnceStopped
<1>2. QED
  BY <1>1, Liveliness, PTL

\* What a process in a stopped run may do: leave a level, end, or be stopped.
LEMMA Stopped ==
    ASSUME TypeInv, Live, [Next]_vars, pc = "returned", mem.status # "running"
    PROVE  Unwind \/ Finish \/ Interrupt \/ Kill \/ UNCHANGED vars
BY DEF Next, Run, Execute, Resume, Start, Begin, Succeed, Fail, UnknownType, Raise, AtCondition,
       GatePauses, GateApproved, GateRejected, GateRejectedLoosely, Branch, EnterLoop, FanOut,
       NextOfRound, Again, Leave

\* A completed run stays completed and an aborted one aborted, unless the file is
\* torn or an interrupt comes before the process has ended.
THEOREM Finality == Spec => FinalIsFinal
<1> DEFINE Final ==
        CASE disk.status = "completed" -> disk'.status \in {"completed", "torn"}
          [] disk.status = "aborted" /\ pc = "idle" -> UNCHANGED disk
          [] disk.status = "aborted" -> disk'.status \in {"aborted", "torn", "paused"}
          [] OTHER -> TRUE
<1>1. ASSUME TypeInv, Live, [Next]_vars PROVE [Final]_<<disk, pc>>
  <2>0. RunOK(disk) /\ RunOK(mem)
    BY <1>1, TypeParts DEF Rest
  <2>1. CASE pc = "idle" /\ disk.status \in {"completed", "aborted"}
    <3>1. stack = <<>>
      BY <1>1, <2>1 DEF TypeInv, Position
    <3>2. UNCHANGED disk
      BY <1>1, <2>1 DEF Next, Run, Execute, Resume, Begin, Succeed, Fail, UnknownType, Raise,
         AtCondition, GatePauses, GateApproved, GateRejected, GateRejectedLoosely, Branch, EnterLoop,
         FanOut, Unwind, NextOfRound, Again, Leave, Finish, Interrupt, Kill, vars
    <3>3. QED
      BY <2>1, <3>2
  <2>2. CASE pc # "idle" /\ disk.status \in {"completed", "aborted"}
    <3>1. pc = "returned" /\ disk.status = "aborted" /\ mem.status = "aborted"
      BY <1>1, <2>2 DEF Live, TypeInv, TypeOK
    <3>2. CASE Finish
      BY <3>1, <3>2 DEF Finish, Exit
    <3>3. CASE Interrupt
      <4>1. disk' = [mem EXCEPT !.status = "paused"]
        BY <3>1, <3>3 DEF Interrupt, Exit
      <4>2. disk'.status = "paused"
        BY <2>0, <4>1, StatusSet DEF Statuses
      <4>3. QED
        BY <3>1, <4>2
    <3>4. CASE Kill
      <4>1. disk' = disk \/ disk' = [disk EXCEPT !.status = "torn"]
        BY <3>4 DEF Kill, Exit
      <4>2. disk'.status \in {disk.status, "torn"}
        BY <2>0, <4>1, StatusSet
      <4>3. QED
        BY <3>1, <4>2
    <3>5. CASE Unwind \/ UNCHANGED vars
      BY <3>1, <3>5 DEF Unwind, vars
    <3>6. QED
      BY <1>1, <3>1, <3>2, <3>3, <3>4, <3>5, Stopped
  <2>3. CASE disk.status \notin {"completed", "aborted"}
    BY <2>3
  <2>4. QED
    BY <2>1, <2>2, <2>3
<1>2. QED
  BY <1>1, Liveliness, PTL DEF Spec, FinalIsFinal

-----------------------------------------------------------------------------
(* Rejection *)

\* A rejection with on_reject: abort aborts the run, whatever continue_on_error
\* says; and of an aborted run each step leaves one level, until the process ends
\* with the run aborted on record, unless it is interrupted or killed.
THEOREM Rejection == Spec => RejectionAborts
<1> DEFINE Aborts ==
       /\ Rejected /\ OnReject[step] = "abort" /\ step \notin Loose =>
             mem'.status = "aborted" /\ disk'.status = "aborted"
       /\ mem.status = "aborted" /\ stops' = stops =>
             /\ Len(stack') = Len(stack) - 1
             /\ disk'.status = "aborted"
             /\ mem'.status = "aborted" \/ Len(stack) = 1
<1>1. ASSUME TypeInv, Live, [Next]_vars PROVE [Aborts]_vars
  <2> SUFFICES ASSUME vars' # vars PROVE Aborts
    OBVIOUS
  <2>0. RunOK(mem) /\ stops \in Nat
    BY <1>1, TypeParts, EngineAssumption DEF Rest
  <2>1. ASSUME Rejected, OnReject[step] = "abort", step \notin Loose
        PROVE  mem'.status = "aborted" /\ disk'.status = "aborted"
    <3>1. /\ pc = "step" /\ Kind[step] = "gate" /\ pc' # "idle" /\ step \in Steps
          /\ mem'.results[Id[step]] \in {"failed", "rejected"}
      BY <1>1, <2>1, StepIs DEF Rejected
    <3>2. GatePauses \/ GateApproved \/ GateRejected
      BY <1>1, <2>1, <3>1 DEF Next, Run, Execute, Resume, Start, Begin, Succeed, Fail, UnknownType, Raise,
         GateRejectedLoosely, Branch, EnterLoop, FanOut, Unwind, NextOfRound, Again, Leave, Loops,
         Finish, Interrupt, Kill, Exit, vars
    <3>3. ~GatePauses
      <4>1. [Result(step, "paused") EXCEPT !.status = "paused"].results[Id[step]] = "paused"
        BY <2>0, <3>1, Recorded DEF Results, Statuses
      <4>2. QED
        BY <3>1, <4>1 DEF GatePauses, Halt
    <3>4. ~GateApproved
      <4>1. Result(step, "completed").results[Id[step]] = "completed"
        BY <2>0, <3>1, ResultSet DEF Results
      <4>2. QED
        BY <3>1, <4>1 DEF GateApproved, Proceed
    <3>5. Halt([Result(step, "failed") EXCEPT !.status = "aborted"])
      BY <2>1, <3>2, <3>3, <3>4 DEF GateRejected
    <3>6. [Result(step, "failed") EXCEPT !.status = "aborted"].status = "aborted"
      BY <2>0, <3>1, Recorded DEF Results, Statuses
    <3>7. QED
      BY <3>5, <3>6 DEF Halt
  <2>2. ASSUME mem.status = "aborted", stops' = stops
        PROVE  /\ Len(stack') = Len(stack) - 1
               /\ disk'.status = "aborted"
               /\ mem'.status = "aborted" \/ Len(stack) = 1
    <3>1. pc = "returned" /\ disk.status = "aborted"
      <4>1. pc # "idle"
        BY <1>1, <2>2, NoRunOK DEF Live
      <4>2. QED
        BY <1>1, <2>2, <4>1 DEF Live, TypeInv, TypeOK
    <3>2. Unwind \/ Finish
      <4>1. ~Interrupt /\ ~Kill
        BY <2>0, <2>2 DEF Interrupt, Kill, Stop
      <4>2. QED
        BY <1>1, <2>2, <3>1, <4>1, Stopped
    <3>3. CASE Unwind
      <4>1. Len(stack') = Len(stack) - 1
        BY <1>1, <3>3, FramesBelow DEF Unwind, TypeInv
      <4>2. QED
        BY <2>2, <3>1, <3>3, <4>1 DEF Unwind
    <3>4. CASE Finish
      <4>1. Len(stack) = 1 /\ stack' = <<>> /\ disk' = mem
        BY <2>2, <3>4 DEF Finish, Exit
      <4>2. Len(stack') = 0
        BY <4>1, EmptySeq
      <4>3. QED
        BY <2>2, <4>1, <4>2
    <3>5. QED
      BY <3>2, <3>3, <3>4
  <2>3. QED
    BY <2>1, <2>2
<1>2. QED
  BY <1>1, Liveliness, PTL DEF Spec, RejectionAborts

-----------------------------------------------------------------------------
(* Progress *)

\* How far the outermost call has come, in steps of Top.
Done == offset + stack[1].i

\* The results q hold what r holds of the first n steps of Top.
Same(n, r, q) == \A k \in 1..n : Own(Top[k]) => q[Id[Top[k]]] = r[Id[Top[k]]]

\* The first n steps of Top let the run go on.
Passed(n, results) == \A k \in 1..n : Own(Top[k]) => Settled(Top[k], results)

\* The step of Top that made the nested call is completed.
CallerDone(n, results) == Own(Top[n + 1]) => results[Id[Top[n + 1]]] = "completed"

\* What is saved lags behind by no more than the current step, and the index by
\* no more than one that has just been done.
Progress ==
    /\ disk.status = "none" => disk.index = 0
    /\ Passed(disk.index, disk.results)
    /\ disk.status = "completed" => Passed(Len(Top), disk.results)
    /\ pc # "idle" =>
          /\ disk.index = mem.index
          /\ Same(mem.index, disk.results, mem.results)
    /\ stack # <<>> =>
          /\ Passed(Done, mem.results)
          /\ mem.index \in {Done - 1, Done}
          /\ Len(stack) > 1 \/ pc = "step" => mem.index = Done
          /\ Len(stack) > 1 => CallerDone(Done, mem.results)

LEMMA PassedSame ==
    ASSUME NEW n, NEW r, NEW q, Same(n, r, q), Passed(n, r)
    PROVE  Passed(n, q)
BY DEF Passed, Same, Settled

LEMMA SameSame ==
    ASSUME NEW n, NEW r, NEW q
    PROVE  Same(n, r, r) /\ (Same(n, r, q) <=> Same(n, q, r))
BY DEF Same

LEMMA SameThen ==
    ASSUME NEW n, NEW r, NEW q, NEW p, Same(n, r, q), Same(n, q, p)
    PROVE  Same(n, r, p)
BY DEF Same

LEMMA PassedOne ==
    ASSUME NEW n \in Nat, NEW r, Passed(n, r), Own(Top[n + 1]) => Settled(Top[n + 1], r)
    PROVE  Passed(n + 1, r)
BY DEF Passed

LEMMA Lengths == Len(Top) \in Nat \ {0} /\ Top \in Seq(Steps) /\ DOMAIN Top = 1..Len(Top)
BY EngineAssumption, EmptySeq, LenProperties

LEMMA OneOrMore == ASSUME NEW n \in Nat \ {0} PROVE (n = 1 \/ n > 1) /\ (n > 1 => n # 1)
OBVIOUS

LEMMA Places ==
    ASSUME NEW n \in Nat, NEW o \in 0..(n - 1), NEW i \in Nat, i <= n - o
    PROVE  o + i \in 0..n /\ (i < n - o => o + i < n /\ i + 1 \in 1..(n - o))
OBVIOUS

\* The outermost call, and where it is.
LEMMA OutermostIs ==
    ASSUME TypeInv, stack # <<>>
    PROVE  /\ Len(stack) \in Nat \ {0}
           /\ stack[1] \in Frame /\ stack[1].i \in Nat /\ offset \in Nat
           /\ Done \in 0..Len(Top)
           /\ Len(stack) > 1 \/ pc = "step" => Done < Len(Top)
           /\ Len(stack[1].steps) = Len(Top) - offset
           /\ \A k \in 1..(Len(Top) - offset) : stack[1].steps[k] = Top[offset + k]
           /\ stack[1].round \in Nat /\ ~(stack[1].round > 1)
<1>1. Len(stack) \in Nat \ {0} /\ stack \in Seq(Frame) /\ offset \in 0..(Len(Top) - 1)
  BY FrameOnTop DEF TypeInv, Frames
<1>2. stack[1] \in Frame /\ FrameOK(stack[1], 1, Len(stack), offset)
  BY <1>1, ElementOfSeq DEF TypeInv, Frames
<1>3. /\ stack[1].steps \in Seq(Steps) /\ stack[1].i \in Nat
      /\ Outermost(stack[1], offset) /\ stack[1].i <= Len(stack[1].steps)
      /\ Len(stack) > 1 => stack[1].i < Len(stack[1].steps)
      /\ stack[1].round \in Nat /\ ~(stack[1].round > 1)
  BY <1>1, <1>2 DEF FrameOK, Frame, Outermost
<1>4. Len(stack) = 1 /\ pc = "step" => stack[1].i < Len(stack[1].steps)
  BY DEF TypeInv, Position, frame
<1>5. Len(stack) > 1 \/ pc = "step" => stack[1].i < Len(stack[1].steps)
  BY <1>1, <1>3, <1>4, OneOrMore
<1>6. Len(stack[1].steps) = Len(Top) - offset /\ DOMAIN stack[1].steps = 1..(Len(Top) - offset)
  BY <1>3, LenProperties DEF Outermost
<1>7. Done \in 0..Len(Top) /\ (Len(stack) > 1 \/ pc = "step" => Done < Len(Top))
  <2>1. /\ offset + stack[1].i \in 0..Len(Top)
        /\ stack[1].i < Len(Top) - offset => offset + stack[1].i < Len(Top)
    BY <1>1, <1>3, <1>6, Lengths, Places
  <2>2. QED
    BY <2>1, <1>5, <1>6 DEF Done
<1>8. \A k \in 1..(Len(Top) - offset) : stack[1].steps[k] = Top[offset + k]
  BY <1>3, <1>6 DEF Outermost
<1>9. offset \in Nat
  BY <1>1
<1>10. QED
  BY <1>1, <1>2, <1>3, <1>6, <1>7, <1>8, <1>9

\* The current step is the first that the run has not passed, or one nested in it.
LEMMA StepPlace ==
    ASSUME TypeInv, Progress, pc = "step"
    PROVE  /\ mem.index = Done /\ Done \in 0..(Len(Top) - 1)
           /\ \A k \in 1..Done : Top[k] # step
           /\ Len(stack) = 1 => step = Top[Done + 1]
           /\ Len(stack) > 1 => \A k \in DOMAIN Top : Top[k] # step
<1>0. stack # <<>> /\ frame.i < Len(frame.steps) /\ frame \in Frame
  BY StepIs
<1>1. mem.index = Done /\ Done \in 0..(Len(Top) - 1) /\ Len(stack) \in Nat \ {0}
  BY <1>0, OutermostIs, Lengths DEF Progress
<1>2. CASE Len(stack) = 1
  <2>1. step = Top[Done + 1]
    <3>1. frame = stack[1] /\ stack[1].i \in Nat /\ offset \in 0..(Len(Top) - 1)
      BY <1>0, <1>2, OutermostIs DEF frame, TypeInv, Frames
    <3>2. stack[1].i < Len(Top) - offset
      BY <1>0, <3>1, OutermostIs
    <3>3. stack[1].i + 1 \in 1..(Len(Top) - offset)
      BY <3>1, <3>2, Lengths, Places
    <3>4. stack[1].steps[stack[1].i + 1] = Top[offset + (stack[1].i + 1)]
      BY <1>0, <3>3, OutermostIs
    <3>5. offset + (stack[1].i + 1) = Done + 1
      BY <3>1 DEF Done
    <3>6. QED
      BY <3>1, <3>4, <3>5 DEF step
  <2>2. \A k \in 1..Done : Top[k] # step
    BY <1>1, <2>1, Lengths, TreeAssumption DEF Tree
  <2>3. QED
    BY <1>1, <1>2, <2>1, <2>2, ~(1 > 1)
<1>3. CASE Len(stack) > 1
  <2>1. Nested(frame)
    BY <1>0, <1>3, FrameOnTop DEF TypeInv, FrameOK
  <2>2. frame.i + 1 \in DOMAIN frame.steps
    BY <1>0, LenProperties DEF Frame
  <2>3. \A k \in DOMAIN Top : Top[k] # step
    BY <2>1, <2>2 DEF Nested, step
  <2>4. \A k \in 1..Done : k \in DOMAIN Top
    BY <1>1, Lengths
  <2>5. Len(stack) # 1
    BY <1>3
  <2>6. QED
    BY <1>1, <2>3, <2>4, <2>5
<1>4. QED
  BY <1>1, <1>2, <1>3, OneOrMore

\* What the run has passed does not change, nor does the caller of a nested list.
LEMMA KeptResults ==
    ASSUME TypeInv, Progress, pc = "step", NEW r, NEW results, results = [mem.results EXCEPT ![Id[step]] = r]
    PROVE  /\ Same(Done, mem.results, results)
           /\ Len(stack) > 1 => CallerDone(Done, results)
           /\ results[Id[step]] = r
<1>1. mem.results \in [Ids -> Results] /\ step \in Steps /\ Id[step] \in Ids /\ stack # <<>>
  BY StepIs DEF RunOK, RunState
<1>2. \A k \in 1..Len(Top) : Top[k] \in Steps
  BY Lengths, ElementOfSeq
<1>3. Done \in 0..(Len(Top) - 1) /\ \A k \in 1..Done : Top[k] # step
  BY StepPlace
<1>4. Len(stack) > 1 => Top[Done + 1] # step /\ Top[Done + 1] \in Steps
  <2>1. Done + 1 \in 1..Len(Top) /\ DOMAIN Top = 1..Len(Top)
    BY <1>3, Lengths
  <2>2. QED
    BY <1>2, <2>1, StepPlace
<1>5. Len(stack) > 1 => CallerDone(Done, mem.results)
  BY <1>1 DEF Progress
<1> DEFINE s == step  d == Done
<1>6. /\ s \in Steps /\ Id[s] \in Ids /\ d \in 0..(Len(Top) - 1)
      /\ \A k \in 1..d : Top[k] # s /\ Top[k] \in Steps
      /\ Len(stack) > 1 => Top[d + 1] # s /\ Top[d + 1] \in Steps
      /\ Len(stack) > 1 => CallerDone(d, mem.results)
      /\ results = [mem.results EXCEPT ![Id[s]] = r]
  BY <1>1, <1>2, <1>3, <1>4, <1>5, Lengths
<1> HIDE DEF s, d
<1>7. ASSUME NEW t \in Steps, t # s, Own(t) PROVE results[Id[t]] = mem.results[Id[t]]
  <2>1. Id[s] # Id[t] /\ Id[t] \in Ids
    BY <1>6, <1>7, IdOf DEF Own
  <2>2. QED
    BY <1>1, <1>6, <2>1
<1>8. Same(d, mem.results, results) /\ (Len(stack) > 1 => CallerDone(d, results))
  BY <1>6, <1>7 DEF Same, CallerDone
<1>9. results[Id[s]] = r
  BY <1>1, <1>6
<1>10. QED
  BY <1>8, <1>9 DEF s, d

\* What all the steps of the outermost call share: the facts about the moment
\* before a step is executed.
LEMMA Before ==
    ASSUME TypeInv, Progress, Live, pc = "step"
    PROVE  /\ stack # <<>> /\ disk.index = Done /\ mem.index = Done /\ Done \in 0..(Len(Top) - 1)
           /\ disk.status = "running" /\ Passed(Done, disk.results) /\ Passed(Done, mem.results)
           /\ Same(Done, disk.results, mem.results)
<1>1. stack # <<>> /\ mem.index = Done /\ Done \in 0..(Len(Top) - 1)
  BY StepIs, StepPlace
<1>2. QED
  BY <1>1 DEF Progress, Live

\* The outermost call when the step at depth d is done.
LEMMA PlaceMoves ==
    ASSUME TypeInv, NEW d \in 1..Len(stack), CompleteAt(d), UNCHANGED offset,
           stack[d].i < Len(stack[d].steps)
    PROVE  /\ stack' # <<>> /\ Len(stack') = d
           /\ d = 1 => Done' = Done + 1
           /\ d # 1 => Done' = Done
<1>1. stack \in Seq(Frame) /\ Len(stack) \in Nat /\ d \in Nat /\ d >= 1 /\ offset \in Nat
  BY LenProperties DEF TypeInv, Frames
<1>2. /\ stack' # <<>> /\ Len(stack') = d
      /\ \A k \in 1..(d - 1) : stack'[k] = stack[k]
      /\ stack'[d] = Further(stack[d])
  BY FramesComplete DEF TypeInv
<1>3. d = 1 => Done' = Done + 1
  <2> SUFFICES ASSUME d = 1 PROVE Done' = Done + 1
    OBVIOUS
  <2>1. stack[1] \in Frame
    BY <1>1, ElementOfSeq
  <2>2. stack'[1].i = stack[1].i + 1 /\ stack[1].i \in Nat
    BY <1>2, <2>1, StepDone DEF Frame
  <2>3. QED
    BY <1>1, <2>2 DEF Done
<1>4. d # 1 => Done' = Done
  <2> SUFFICES ASSUME d # 1 PROVE Done' = Done
    OBVIOUS
  <2>1. 1 \in 1..(d - 1)
    BY <1>1
  <2>2. QED
    BY <1>2, <2>1 DEF Done
<1>5. QED
  BY <1>2, <1>3, <1>4

\* A step lets the run go on.
LEMMA ProgressProceed ==
    ASSUME TypeInv, Progress, Live, pc = "step", NEW r \in Results, Proceed(Result(step, r)),
           disk' \in {disk, mem'}, UNCHANGED offset,
           \/ r = "completed"
           \/ r = "failed" /\ step \in ContinueOnError /\ Kind[step] # "gate"
           \/ r = "rejected" /\ Kind[step] = "gate" /\ (step \in Loose \/ OnReject[step] = "skip")
    PROVE  Progress'
<1> DEFINE n == Len(stack)
<1>0. RunOK(mem) /\ step \in Steps /\ mem.status = "running" /\ n \in Nat \ {0} /\ stack # <<>>
  BY StepIs, OutermostIs DEF Live
<1>1. /\ mem'.index = mem.index /\ mem'.status = "running"
      /\ mem'.results = [mem.results EXCEPT ![Id[step]] = r]
  BY <1>0, ResultSet DEF Proceed
<1>2. /\ stack' # <<>> /\ Len(stack') = n
      /\ n = 1 => Done' = Done + 1
      /\ n # 1 => Done' = Done
  <2>1. n \in 1..Len(stack) /\ CompleteAt(n) /\ stack[n].i < Len(stack[n].steps)
    BY StepIs DEF Proceed
  <2> HIDE DEF n
  <2>2. QED
    BY <2>1, PlaceMoves
<1>3. /\ Same(Done, mem.results, mem'.results)
      /\ n > 1 => CallerDone(Done, mem'.results)
      /\ mem'.results[Id[step]] = r
  BY <1>1, KeptResults
<1>4. Passed(Done, mem'.results) /\ Done \in Nat
  BY <1>3, Before, PassedSame
<1>5. /\ disk'.index = Done /\ mem'.index = Done /\ Passed(Done, disk'.results)
      /\ disk'.status = "running"
      /\ Same(Done, disk'.results, mem'.results)
  BY <1>1, <1>3, <1>4, Before, SameThen, SameSame
<1>6. pc' \in {"next", "returned"}
  BY DEF Proceed, CompleteAt
<1>7. CASE n = 1
  <2>1. step = Top[Done + 1] /\ Settled(step, mem'.results)
    BY <1>3, <1>7, StepPlace DEF Settled
  <2>2. Passed(Done + 1, mem'.results)
    BY <1>4, <2>1, PassedOne
  <2>3. ~(Len(stack') > 1) /\ Done' - 1 = Done
    BY <1>2, <1>4, <1>7
  <2>4. Done' = Done + 1
    BY <1>2, <1>7
  <2>5. Passed(Done', mem'.results)
    BY <2>2, <2>4 DEF Passed
  <2>6. QED
    BY <1>1, <1>5, <1>6, <2>3, <2>5 DEF Progress, Passed, Settled, Same
<1>8. CASE n > 1
  <2>1. Done' = Done
    BY <1>0, <1>2, <1>8, OneOrMore
  <2>2. QED
    BY <1>1, <1>3, <1>4, <1>5, <1>6, <1>2, <2>1 DEF Progress, Passed, Settled, Same, CallerDone
<1>9. QED
  BY <1>0, <1>7, <1>8, OneOrMore

\* A nested list is called, or there is none.
LEMMA ProgressNest ==
    ASSUME TypeInv, Progress, Live, pc = "step",
           NEW body \in Bodies[step] \cup {<<>>}, NEW rounds \in Nat,
           Kind[step] = "fan-out" => rounds <= MaxItems, Nest(body, rounds)
    PROVE  Progress'
<1>0. /\ stack # <<>> /\ frame.i < Len(frame.steps) /\ step \in Steps
      /\ Len(stack) \in Nat \ {0} /\ RunOK(mem) /\ Frames
  BY StepIs, OutermostIs DEF TypeInv
<1>1. CASE body = <<>> \/ rounds = 0
  <2>1. Proceed(Result(step, "completed")) /\ UNCHANGED <<disk, offset>>
    BY <1>1 DEF Nest
  <2>2. QED
    BY <2>1, ProgressProceed DEF Results
<1>2. CASE ~(body = <<>> \/ rounds = 0)
  <2>0. mem' = Result(step, "completed") /\ disk' = disk /\ pc' = "next" /\ UNCHANGED offset
    BY <1>2 DEF Nest
  <2>1. /\ mem'.index = mem.index /\ mem'.status = "running"
        /\ mem'.results = [mem.results EXCEPT ![Id[step]] = "completed"]
    BY <1>0, <2>0, ResultSet DEF Results, Live
  <2>2. /\ stack' # <<>> /\ Len(stack') = Len(stack) + 1
        /\ \A k \in 1..Len(stack) : stack'[k] = stack[k]
    <3>1. body \in Bodies[step] /\ body # <<>> /\ rounds > 0 /\ stack' = Append(stack, Call(body, step, rounds))
      BY <1>2 DEF Nest
    <3> HIDE DEF step
    <3>2. QED
      BY <1>0, <2>0, <3>1, FramesCall
  <2>3. Done' = Done /\ Len(stack') > 1
    <3>1. 1 \in 1..Len(stack) /\ Len(stack) + 1 > 1
      BY <1>0
    <3>2. QED
      BY <2>0, <2>2, <3>1 DEF Done
  <2>4. /\ Same(Done, mem.results, mem'.results)
        /\ Len(stack) > 1 => CallerDone(Done, mem'.results)
        /\ mem'.results[Id[step]] = "completed"
    BY <2>1, KeptResults
  <2>5. CallerDone(Done, mem'.results)
    <3>1. CASE Len(stack) = 1
      BY <2>4, <3>1, StepPlace DEF CallerDone
    <3>2. QED
      BY <1>0, <2>4, <3>1, OneOrMore
  <2>6. Passed(Done, mem'.results) /\ Same(Done, disk.results, mem'.results)
    BY <2>4, Before, PassedSame, SameThen
  <2>7. QED
    BY <2>0, <2>1, <2>2, <2>3, <2>5, <2>6, Before DEF Progress, Passed, Settled, Same, CallerDone
<1>3. QED
  BY <1>1, <1>2

\* The interpreter begins with the step the index names.
LEMMA ProgressStart ==
    ASSUME TypeInv, Progress, NEW state, RunOK(state), Start(state, state.index), offset' = state.index,
           Passed(state.index, state.results)
    PROVE  Progress'
<1>1. /\ mem'.status = "running" /\ mem'.index = state.index /\ mem'.results = state.results
      /\ disk' = mem' /\ pc' = "next"
  BY StatusSet DEF Start, Statuses
<1>2. state.index \in 0..(Len(Top) - 1) /\ state.index \in Nat
  BY Lengths DEF RunOK, RunState
<1>3. stack' # <<>> /\ Len(stack') = 1 /\ stack'[1].i = 0
  BY <1>2, FramesStart DEF Start
<1>4. Done' = state.index
  BY <1>2, <1>3 DEF Done
<1>5. ~(Len(stack') > 1)
  BY <1>3
<1>6. QED
  BY <1>1, <1>3, <1>4, <1>5 DEF Progress, Passed, Settled, Same

\* The next step of a list is begun.
LEMMA ProgressBegin ==
    ASSUME TypeInv, Progress, Live, Begin PROVE Progress'
<1>0. stack # <<>> /\ pc = "next" /\ frame.i < Len(frame.steps)
  BY DEF Begin, TypeInv, Position
<1>1. Len(stack) \in Nat \ {0} /\ Done \in 0..Len(Top) /\ RunOK(mem)
  BY <1>0, OutermostIs, TypeParts DEF Rest
<1>2. UNCHANGED <<stack, offset>> /\ disk' = mem' /\ pc' = "step" /\ Done' = Done
  BY DEF Begin, Done
<1>3. Passed(Done, mem.results) /\ mem.status = "running"
  BY <1>0 DEF Progress, Live
<1>4. mem'.index = Done /\ mem'.results = mem.results /\ mem'.status = "running"
  <2>1. CASE Len(stack) = 1
    <3>1. mem' = [mem EXCEPT !.index = Done]
      BY <2>1 DEF Begin, Done, frame
    <3>2. QED
      BY <1>1, <1>3, <3>1 DEF RunOK, RunState
  <2>2. CASE Len(stack) > 1
    <3>1. Len(stack) # 1
      BY <1>1, <2>2, OneOrMore
    <3>2. QED
      BY <1>0, <1>3, <2>2, <3>1 DEF Begin, Progress
  <2>3. QED
    BY <1>1, <2>1, <2>2, OneOrMore
<1>5. Len(stack) > 1 => CallerDone(Done, mem.results)
  BY <1>0 DEF Progress
<1>6. QED
  BY <1>0, <1>1, <1>2, <1>3, <1>4, <1>5 DEF Progress, Passed, Settled, Same, CallerDone

\* The levels below the top change nothing while the outermost call stays.
LEMMA ProgressSame ==
    ASSUME TypeInv, Progress, Live, stack # <<>>, stack' # <<>>, stack'[1] = stack[1], UNCHANGED <<disk, mem, offset>>,
           pc \notin {"idle", "step"}, pc' \notin {"idle", "step"}, Len(stack') > 1 => Len(stack) > 1
    PROVE  Progress'
<1>1. Done' = Done
  BY DEF Done
<1>2. QED
  BY <1>1 DEF Progress, Passed, Settled, Same, CallerDone

\* A list is left because the run has stopped, goes on or runs again.
LEMMA ProgressLevels ==
    ASSUME TypeInv, Progress, Live, Unwind \/ NextOfRound \/ Again PROVE Progress'
<1>0. /\ Len(stack) > 1 /\ Len(stack) \in Nat /\ pc = "returned" /\ pc' \in {"returned", "next"}
      /\ UNCHANGED <<disk, mem, offset>> /\ stack # <<>>
  BY LenProperties DEF Unwind, NextOfRound, Again, TypeInv, Frames, Position
<1>1. 1 \in 1..(Len(stack) - 1)
  BY <1>0
<1>2. stack' # <<>> /\ stack'[1] = stack[1]
  <2>1. CASE Unwind
    BY <1>0, <1>1, <2>1, FramesBelow DEF Unwind, TypeInv
  <2>2. CASE NextOfRound
    BY <1>0, <2>2 DEF NextOfRound
  <2>3. CASE Again
    BY <1>0, <1>1, <2>3, AgainIs, FramesAgain DEF TypeInv
  <2>4. QED
    BY <2>1, <2>2, <2>3
<1>3. QED
  BY <1>0, <1>2, ProgressSame

\* A list is done for good, and the step that ran it.
LEMMA ProgressLeave ==
    ASSUME TypeInv, Progress, Live, Leave PROVE Progress'
<1> DEFINE d == Len(stack) - 1
<1>0. /\ stack # <<>> /\ Len(stack) > 1 /\ pc = "returned" /\ UNCHANGED <<disk, mem, offset>>
      /\ d \in 1..Len(stack) /\ CompleteAt(d) /\ stack[d].i < Len(stack[d].steps)
      /\ Len(stack) \in Nat
  BY LeaveIs, OutermostIs
<1>1. pc' \in {"next", "returned"}
  BY <1>0 DEF CompleteAt
<1>2. d \in Nat /\ d >= 1
  BY <1>0
<1> HIDE DEF d
<1>3. stack' # <<>> /\ Len(stack') = d /\ (d = 1 => Done' = Done + 1) /\ (d # 1 => Done' = Done)
  BY <1>0, PlaceMoves
<1>4. /\ Passed(Done, mem.results) /\ mem.index = Done /\ CallerDone(Done, mem.results)
      /\ Done \in Nat
  BY <1>0, OutermostIs DEF Progress
<1>5. CASE d = 1
  <2>1. Passed(Done + 1, mem.results)
    BY <1>4, PassedOne DEF CallerDone, Settled
  <2>2. ~(Len(stack') > 1) /\ Done' - 1 = Done /\ Done' = Done + 1
    BY <1>3, <1>4, <1>5
  <2>3. Passed(Done', mem.results)
    BY <2>1, <2>2 DEF Passed
  <2>4. QED
    BY <1>0, <1>1, <1>3, <1>4, <2>2, <2>3 DEF Progress, Passed, Settled, Same
<1>6. CASE d # 1
  BY <1>0, <1>1, <1>3, <1>4, <1>6 DEF Progress, Passed, Settled, Same, CallerDone
<1>7. QED
  BY <1>5, <1>6

\* What a process leaves behind when it ends.
LEMMA ProgressExit ==
    ASSUME TypeInv, Progress, pc # "idle", NEW state, Exit(state), RunOK(state),
           state.index = mem.index, state.status # "none",
           Same(mem.index, mem.results, state.results),
           state.status = "completed" => Passed(Len(Top), state.results)
    PROVE  Progress'
<1>1. stack' = <<>> /\ disk' = state /\ pc' = "idle"
  BY DEF Exit
<1>2. Passed(mem.index, mem.results)
  BY PassedSame DEF Progress
<1>3. Passed(state.index, state.results)
  BY <1>2, PassedSame
<1>4. QED
  BY <1>1, <1>3 DEF Progress, Passed, Settled

\* A step stops the run.
LEMMA ProgressHalt ==
    ASSUME TypeInv, Progress, Live, pc = "step", NEW state, RunOK(state), Halt(state), UNCHANGED offset,
           state.index = mem.index, Same(Done, mem.results, state.results),
           Len(stack) > 1 => CallerDone(Done, state.results),
           state.status \in {"failed", "paused", "aborted"}
    PROVE  Progress'
<1>1. disk' = state /\ mem' = state /\ stack' = stack /\ pc' = "returned" /\ Done' = Done
  BY DEF Halt, Done
<1>2. Passed(Done, state.results) /\ stack # <<>> /\ mem.index = Done
  BY Before, PassedSame
<1>3. QED
  BY <1>1, <1>2 DEF Progress, Passed, Settled, Same, CallerDone


\* The index is saved as it was, and so are the results of what lies before it.
Kept == disk'.index = disk.index /\ Same(disk.index, disk.results, disk'.results)

LEMMA KeptBy ==
    ASSUME Progress, pc # "idle", disk'.index = mem.index, Same(mem.index, mem.results, disk'.results)
    PROVE  Kept
BY SameThen DEF Progress, Kept

LEMMA KeptWhole == UNCHANGED disk => Kept
BY SameSame DEF Kept

\* A process ends with the results m and the status st.
LEMMA ExitKeeps ==
    ASSUME TypeInv, Progress, pc # "idle", NEW m, RunOK(m), NEW st \in Statuses \cup {"torn"},
           m.index = mem.index, Same(mem.index, mem.results, m.results),
           st = "completed" => Passed(Len(Top), m.results), Exit([m EXCEPT !.status = st])
    PROVE  Progress' /\ Kept
<1> DEFINE n == [m EXCEPT !.status = st]
<1>1. RunOK(n) /\ n.status = st /\ n.index = m.index /\ n.results = m.results
  BY StatusSet
<1>2. Exit(n) /\ st # "none"
  BY DEF Statuses
<1> HIDE DEF n
<1>3. Progress'
  BY <1>1, <1>2, ProgressExit
<1>4. disk' = n
  BY <1>2 DEF Exit
<1>5. Kept
  BY <1>1, <1>4, KeptBy
<1>6. QED
  BY <1>3, <1>5

\* An outermost call that comes back while the run goes on has done all of Top.
LEMMA AllDone ==
    ASSUME TypeInv, Progress, pc = "returned", Len(stack) = 1, mem.status = "running"
    PROVE  Passed(Len(Top), mem.results)
<1>1. stack # <<>> /\ frame = stack[1] /\ (frame.i = Len(frame.steps) \/ frame.round > 1)
  BY DEF TypeInv, Position, frame
<1>2. stack[1].i = Len(Top) - offset /\ offset \in Nat /\ Len(Top) \in Nat
  BY <1>1, OutermostIs, Lengths
<1>3. Done = Len(Top)
  BY <1>2 DEF Done
<1>4. QED
  BY <1>1, <1>3 DEF Progress

\* A step that is executed without calling others.
LEMMA OutcomeKeeps ==
    ASSUME TypeInv, Live, Progress,
           \/ Succeed \/ Fail \/ UnknownType
           \/ GatePauses \/ GateApproved \/ GateRejected \/ GateRejectedLoosely
    PROVE  Progress' /\ Kept
<1>0. pc = "step" /\ UNCHANGED offset /\ step \in Steps /\ RunOK(mem) /\ pc # "idle"
  BY StepOutcome, StepIs
<1>1. mem.index = Done /\ (Len(stack) > 1 => CallerDone(Done, mem.results))
  BY <1>0, Before, StepIs DEF Progress
<1>2. CASE \E r \in Results :
              /\ Proceed(Result(step, r)) /\ disk' \in {disk, mem'}
              /\ \/ r = "completed"
                 \/ r = "failed" /\ step \in ContinueOnError /\ Kind[step] # "gate"
                 \/ r = "rejected" /\ Kind[step] = "gate" /\ (step \in Loose \/ OnReject[step] = "skip")
  <2>1. PICK r \in Results :
              /\ Proceed(Result(step, r)) /\ disk' \in {disk, mem'}
              /\ \/ r = "completed"
                 \/ r = "failed" /\ step \in ContinueOnError /\ Kind[step] # "gate"
                 \/ r = "rejected" /\ Kind[step] = "gate" /\ (step \in Loose \/ OnReject[step] = "skip")
    BY <1>2
  <2>2. Progress'
    BY <1>0, <2>1, ProgressProceed
  <2>3. mem'.index = mem.index /\ mem'.results = [mem.results EXCEPT ![Id[step]] = r]
    BY <1>0, <2>1, ResultSet DEF Proceed
  <2>4. Same(mem.index, mem.results, mem'.results)
    BY <1>0, <1>1, <2>3, KeptResults
  <2>5. CASE disk' = mem'
    BY <1>0, <2>2, <2>3, <2>4, <2>5, KeptBy
  <2>6. CASE disk' = disk
    BY <2>2, <2>6, KeptWhole
  <2>7. QED
    BY <2>1, <2>5, <2>6
<1>3. CASE \E r \in Results, st \in {"failed", "paused", "aborted"} :
              Halt([Result(step, r) EXCEPT !.status = st])
  <2>1. PICK r \in Results, st \in {"failed", "paused", "aborted"} :
              Halt([Result(step, r) EXCEPT !.status = st])
    BY <1>3
  <2> DEFINE n == [Result(step, r) EXCEPT !.status = st]
  <2>2. st \in Statuses
    BY DEF Statuses
  <2>3. /\ RunOK(n) /\ n.status = st /\ n.index = mem.index
        /\ n.results = [mem.results EXCEPT ![Id[step]] = r]
    BY <1>0, <2>2, Recorded
  <2>4. Halt(n)
    BY <2>1
  <2> HIDE DEF n
  <2>5. Same(Done, mem.results, n.results) /\ (Len(stack) > 1 => CallerDone(Done, n.results))
    BY <1>0, <2>3, KeptResults
  <2>6. Progress'
    BY <1>0, <2>3, <2>4, <2>5, ProgressHalt
  <2>7. disk' = n
    BY <2>4 DEF Halt
  <2>8. QED
    BY <1>0, <1>1, <2>3, <2>5, <2>6, <2>7, KeptBy
<1>4. CASE Halt([mem EXCEPT !.status = "failed"])
  <2> DEFINE n == [mem EXCEPT !.status = "failed"]
  <2>1. RunOK(n) /\ n.status = "failed" /\ n.index = mem.index /\ n.results = mem.results
    BY <1>0, StatusSet DEF Statuses
  <2>2. Halt(n)
    BY <1>4
  <2> HIDE DEF n
  <2>3. Same(Done, mem.results, n.results) /\ Same(mem.index, mem.results, n.results)
    BY <2>1, SameSame
  <2>4. Progress'
    BY <1>0, <1>1, <2>1, <2>2, <2>3, ProgressHalt
  <2>5. disk' = n
    BY <2>2 DEF Halt
  <2>6. QED
    BY <1>0, <2>1, <2>3, <2>4, <2>5, KeptBy
<1>5. QED
  BY <1>2, <1>3, <1>4, StepOutcome

\* What stops a process.
LEMMA StopKeeps ==
    ASSUME TypeInv, Live, Progress, Raise \/ Finish \/ Interrupt \/ Kill
    PROVE  Progress' /\ Kept
<1>0. RunOK(mem) /\ RunOK(disk) /\ Same(mem.index, mem.results, mem.results)
  BY TypeParts, SameSame DEF Rest
<1>1. CASE Raise
  <2>1. pc # "idle" /\ Exit([mem EXCEPT !.status = "failed"])
    BY <1>1 DEF Raise, AtCondition
  <2>2. QED
    BY <1>0, <2>1, ExitKeeps DEF Statuses
<1>2. CASE Finish
  <2>1. pc = "returned" /\ Len(stack) = 1 /\ pc # "idle"
        /\ mem.status \in {"running", "paused", "failed", "aborted"}
    BY <1>2 DEF Finish, Live
  <2>2. CASE mem.status = "running"
    <3>1. Exit([mem EXCEPT !.status = "completed"]) /\ Passed(Len(Top), mem.results)
      BY <1>2, <2>1, <2>2, AllDone DEF Finish
    <3>2. QED
      BY <1>0, <2>1, <3>1, ExitKeeps DEF Statuses
  <2>3. CASE mem.status # "running"
    <3>1. Exit(mem) /\ disk' = mem
      BY <1>2, <2>3 DEF Finish, Exit
    <3>2. QED
      BY <1>0, <2>1, <3>1, ProgressExit, KeptBy
  <2>4. QED
    BY <2>2, <2>3
<1>3. CASE Interrupt
  <2>1. PICK m \in {mem} \cup (IF pc = "step" THEN {Result(step, r) : r \in Outcomes(step)} ELSE {}) :
            Exit([m EXCEPT !.status = "paused"]) /\ pc # "idle"
    BY <1>3 DEF Interrupt
  <2>2. RunOK(m) /\ m.index = mem.index /\ Same(mem.index, mem.results, m.results)
    <3>1. CASE m = mem
      BY <1>0, <3>1
    <3>2. CASE pc = "step" /\ \E r \in Outcomes(step) : m = Result(step, r)
      <4>1. PICK r \in Results : m = Result(step, r)
        BY <3>2 DEF Outcomes, Results
      <4>2. step \in Steps /\ mem.index = Done
        BY <3>2, StepIs, StepPlace
      <4>3. RunOK(m) /\ m.index = mem.index /\ m.results = [mem.results EXCEPT ![Id[step]] = r]
        BY <1>0, <4>1, <4>2, ResultSet
      <4>4. Same(Done, mem.results, m.results)
        BY <3>2, <4>3, KeptResults
      <4>5. QED
        BY <4>2, <4>3, <4>4
    <3>3. QED
      BY <2>1, <3>1, <3>2
  <2>3. QED
    BY <2>1, <2>2, ExitKeeps DEF Statuses
<1>4. CASE Kill
  <2>1. pc # "idle" /\ disk.index = mem.index /\ Passed(disk.index, disk.results)
    BY <1>4 DEF Kill, Progress
  <2>2. stack' = <<>> /\ pc' = "idle" /\ disk' \in {disk, [disk EXCEPT !.status = "torn"]}
    BY <1>4 DEF Kill, Exit
  <2>3. disk'.index = disk.index /\ disk'.results = disk.results /\ disk'.status \in {disk.status, "torn"}
    <3> DEFINE torn == [disk EXCEPT !.status = "torn"]
    <3>1. torn.index = disk.index /\ torn.results = disk.results /\ torn.status = "torn"
      BY <1>0, StatusSet
    <3> HIDE DEF torn
    <3>2. QED
      BY <2>2, <3>1 DEF torn
  <2>4. Kept
    BY <2>3, SameSame DEF Kept
  <2>5. (disk.status = "completed" => Passed(Len(Top), disk.results)) /\ disk.status # "none"
    BY <2>1 DEF Progress, Live, TypeInv, TypeOK
  <2>6. QED
    BY <2>1, <2>2, <2>3, <2>4, <2>5 DEF Progress, Passed, Settled
<1>5. QED
  BY <1>1, <1>2, <1>3, <1>4

\* A step that begins nothing at the top level keeps what was saved.
LEMMA RunKeeps ==
    ASSUME TypeInv, Live, Progress, Next, ~Execute, ~Resume, ~Begin
    PROVE  Progress' /\ Kept
<1>1. CASE Branch \/ EnterLoop \/ FanOut
  <2>1. pc = "step" /\ UNCHANGED disk
    BY <1>1 DEF Branch, EnterLoop, FanOut, Nest
  <2>2. Progress'
    BY <1>1, <2>1, NestIs, ProgressNest
  <2>3. QED
    BY <2>1, <2>2, KeptWhole
<1>2. CASE Unwind \/ NextOfRound \/ Again \/ Leave
  <2>1. UNCHANGED disk
    BY <1>2 DEF Unwind, NextOfRound, Again, Leave
  <2>2. QED
    BY <1>2, <2>1, ProgressLevels, ProgressLeave, KeptWhole
<1>3. QED
  BY <1>1, <1>2, OutcomeKeeps, StopKeeps DEF Next, Run

\* A run advances by one top-level step at a time, and no further than it may.
Onward ==
    /\ disk'.index \in {disk.index, disk.index + 1}
    /\ disk'.index # disk.index /\ Own(Top[disk.index + 1]) => Settled(Top[disk.index + 1], disk'.results)
    /\ Same(disk.index, disk.results, disk'.results)

LEMMA Predecessor ==
    ASSUME NEW n \in Nat, NEW j \in Nat, j = n - 1 PROVE j + 1 = n /\ n \in 1..n
OBVIOUS

LEMMA BeginOnward ==
    ASSUME TypeInv, Live, Progress, Begin PROVE Onward
<1>0. stack # <<>> /\ pc = "next" /\ pc # "idle"
  BY DEF Begin, TypeInv, Position
<1>1. /\ disk.index = mem.index /\ mem.index \in {Done - 1, Done} /\ Done \in Nat
      /\ Same(disk.index, disk.results, mem.results)
      /\ Passed(Done, mem.results) /\ RunOK(mem)
  BY <1>0, OutermostIs, TypeParts DEF Progress, Rest
<1>2. CASE Len(stack) = 1
  <2>1. disk' = [mem EXCEPT !.index = Done]
    BY <1>2 DEF Begin, Done, frame
  <2>2. disk'.index = Done /\ disk'.results = mem.results
    BY <1>1, <2>1 DEF RunOK, RunState
  <2>3. CASE disk.index = Done
    BY <1>1, <2>2, <2>3 DEF Onward
  <2>4. CASE disk.index = Done - 1
    <3>0. disk.index \in Nat
      BY <1>1 DEF RunOK, RunState
    <3>1. disk.index + 1 = Done /\ Done \in 1..Done
      BY <1>1, <2>4, <3>0, Predecessor
    <3>2. Own(Top[Done]) => Settled(Top[Done], mem.results)
      BY <1>1, <3>1 DEF Passed
    <3>3. QED
      BY <1>1, <2>2, <3>1, <3>2 DEF Onward, Settled
  <2>5. QED
    BY <1>1, <2>3, <2>4
<1>3. CASE Len(stack) # 1
  <2>1. disk' = mem
    BY <1>3 DEF Begin
  <2>2. QED
    BY <1>1, <2>1 DEF Onward
<1>4. QED
  BY <1>2, <1>3

LEMMA ProgressStep ==
    ASSUME TypeInv, Live, Progress, [Next]_vars PROVE Progress' /\ Onward
<1>0. RunOK(disk)
  BY TypeParts DEF Rest
<1>1. CASE Execute
  <2>1. NoRun.index = 0 /\ Passed(NoRun.index, NoRun.results) /\ NoRun.index = 0
    BY DEF NoRun, Passed
  <2>2. Start(NoRun, NoRun.index) /\ offset' = NoRun.index /\ disk.index = 0
    BY <1>1, <2>1 DEF Execute, Progress
  <2>3. disk'.index = 0
    BY <2>1, <2>2, NoRunOK, StatusSet DEF Start, Statuses
  <2>4. Progress'
    BY <2>1, <2>2, NoRunOK, ProgressStart
  <2>5. Same(0, disk.results, disk'.results)
    BY DEF Same
  <2>6. QED
    BY <2>2, <2>3, <2>4, <2>5 DEF Onward
<1>2. CASE Resume
  <2>1. Start(disk, disk.index) /\ offset' = disk.index /\ Passed(disk.index, disk.results)
    BY <1>2 DEF Resume, Progress
  <2>2. disk'.index = disk.index /\ disk'.results = disk.results
    BY <1>0, <2>1, StatusSet DEF Start, Statuses
  <2>3. Progress'
    BY <1>0, <2>1, ProgressStart
  <2>4. QED
    BY <2>2, <2>3, SameSame DEF Onward
<1>3. CASE Begin
  BY <1>3, ProgressBegin, BeginOnward
<1>4. CASE UNCHANGED vars
  <2>1. Done' = Done /\ UNCHANGED <<disk, mem, stack, offset, pc>>
    BY <1>4 DEF vars, Done
  <2>2. Progress'
    BY <2>1 DEF Progress, Passed, Settled, Same, CallerDone
  <2>3. QED
    BY <2>1, <2>2, SameSame DEF Onward
<1>5. CASE Next /\ ~Execute /\ ~Resume /\ ~Begin
  <2>1. Progress' /\ Kept
    BY <1>5, RunKeeps
  <2>2. QED
    BY <2>1 DEF Kept, Onward
<1>6. QED
  BY <1>1, <1>2, <1>3, <1>4, <1>5

LEMMA ProgressInit == Init => Progress
<1> SUFFICES ASSUME Init PROVE Progress
  OBVIOUS
<1>1. disk.index = 0 /\ disk.status = "none" /\ pc = "idle" /\ stack = <<>>
  BY DEF Init, NoRun
<1>2. Passed(0, disk.results)
  BY DEF Passed
<1>3. QED
  BY <1>1, <1>2 DEF Progress

\* A run that is reported completed has done every step of the definition that no
\* other overwrites: none was skipped by a crash, a resume or a branch, and none was
\* left failed without continue_on_error.
THEOREM Completed == Spec => []CompletedMeansAllDone
<1>1. Progress => CompletedMeansAllDone
  BY Lengths DEF Progress, Passed, CompletedMeansAllDone
<1>2. TypeInv /\ Live /\ Progress /\ [Next]_vars => Progress'
  BY ProgressStep
<1>3. QED
  BY <1>1, <1>2, ProgressInit, Liveliness, PTL DEF Spec

\* What is on record advances one top-level step at a time, and only past a step
\* whose result lets the run go on, over all the processes that execute the run;
\* what it has passed keeps its result.
THEOREM OneAtATime == Spec => OneStepAtATime
<1>1. ASSUME TypeInv, Live, Progress, [Next]_vars
      PROVE  [/\ disk'.index \in {disk.index, disk.index + 1}
              /\ disk'.index # disk.index /\ Own(Top[disk.index + 1]) =>
                    Settled(Top[disk.index + 1], disk'.results)
              /\ \A k \in 1..disk.index :
                    Own(Top[k]) => disk'.results[Id[Top[k]]] = disk.results[Id[Top[k]]]]_disk
  BY <1>1, ProgressStep DEF Onward, Same
<1>2. TypeInv /\ Live /\ Progress /\ [Next]_vars => Progress'
  BY ProgressStep
<1>3. QED
  BY <1>1, <1>2, ProgressInit, Liveliness, PTL DEF Spec, OneStepAtATime

-----------------------------------------------------------------------------
(* Items *)

IsFanOut(f) == f.of # Workflow /\ Kind[f.of] = "fan-out"

\* The calls above a fan-out on the stack st are of steps that it encloses.
Inside(st) ==
    \A k, j \in 1..Len(st) : IsFanOut(st[k]) =>
        \A S \in SUBSET Steps : Encloses(S, st[k].of) =>
            /\ j >= k => \A m \in DOMAIN st[j].steps : st[j].steps[m] \in S
            /\ j > k => st[j].of \in S

\* ItemIsCurrent, of a stack and an item.
Current(st, it) ==
    /\ (\A k \in 1..Len(st) : ~IsFanOut(st[k])) => it = NoItem
    /\ \A k \in 1..Len(st) :
          IsFanOut(st[k]) /\ (\A j \in 1..Len(st) : IsFanOut(st[j]) => j <= k) =>
              \/ it = <<st[k].of, st[k].round>>
              \/ it = NoItem /\ st[k].of \in NestedFanOuts

\* A frame is of the workflow or of a step.
Callers(st) == Len(st) \in Nat /\ \A k \in 1..Len(st) : st[k].of \in Steps \cup {Workflow}

Items == Inside(stack) /\ Current(stack, item)

\* Another position changes nothing.
Alike(f, g) == f.of = g.of /\ f.steps = g.steps /\ f.round = g.round

\* Frames alike have the same items.
LEMMA ItemsAlike ==
    ASSUME NEW st, NEW ts, NEW it, Callers(st), Inside(st), Current(st, it), Len(ts) = Len(st),
           \A k \in 1..Len(st) : Alike(ts[k], st[k])
    PROVE  Inside(ts) /\ Current(ts, it)
<1>1. \A k \in 1..Len(st) : IsFanOut(ts[k]) <=> IsFanOut(st[k])
  BY DEF IsFanOut, Alike
<1>2. Inside(ts)
  BY <1>1 DEF Inside, Alike
<1>3. Current(ts, it)
  BY <1>1 DEF Current, Alike
<1>4. QED
  BY <1>2, <1>3

\* The top of the stack st is popped; if it is of a fan-out, the item is reset.  A
\* fan-out below then has another inside.
LEMMA ItemsPop ==
    ASSUME NEW st, NEW ts, NEW it, NEW jt, Callers(st), Inside(st), Current(st, it),
           NEW n \in Nat, Len(st) = n + 1, Len(ts) = n,
           \A k \in 1..n : Alike(ts[k], st[k]),
           jt = IF IsFanOut(st[n + 1]) THEN NoItem ELSE it
    PROVE  Inside(ts) /\ Current(ts, jt)
<1>1. \A k \in 1..n : k \in 1..Len(st) /\ (IsFanOut(ts[k]) <=> IsFanOut(st[k]))
  BY DEF IsFanOut, Alike
<1>2. \A k \in 1..Len(st) : k \in 1..n \/ k = n + 1
  OBVIOUS
<1>3. Inside(ts)
  BY <1>1 DEF Inside, Alike
<1>4. CASE IsFanOut(st[n + 1])
  <2>1. ASSUME NEW k \in 1..n, IsFanOut(st[k]) PROVE st[k].of \in NestedFanOuts
    <3>1. \A S \in SUBSET Steps : Encloses(S, st[k].of) => st[n + 1].of \in S
      <4>1. k \in 1..Len(st) /\ n + 1 \in 1..Len(st) /\ n + 1 > k
        OBVIOUS
      <4>2. QED
        BY <2>1, <4>1 DEF Inside
    <3>2. Kind[st[n + 1].of] = "fan-out" /\ Kind[st[k].of] = "fan-out" /\ st[k].of \in Steps
      BY <1>1, <1>4, <2>1 DEF IsFanOut, Callers
    <3>3. QED
      BY <3>1, <3>2 DEF NestedFanOuts
  <2>2. \A k \in 1..n : IsFanOut(ts[k]) => ts[k].of \in NestedFanOuts
    BY <1>1, <2>1 DEF Alike
  <2>3. QED
    BY <1>3, <1>4, <2>2 DEF Current
<1>5. CASE ~IsFanOut(st[n + 1])
  <2>1. (\A k \in 1..n : ~IsFanOut(ts[k])) => \A k \in 1..Len(st) : ~IsFanOut(st[k])
    BY <1>1, <1>2, <1>5
  <2>2. ASSUME NEW k \in 1..n, IsFanOut(ts[k]), \A j \in 1..n : IsFanOut(ts[j]) => j <= k
        PROVE  it = <<ts[k].of, ts[k].round>> \/ (it = NoItem /\ ts[k].of \in NestedFanOuts)
    <3>1. IsFanOut(st[k]) /\ \A j \in 1..Len(st) : IsFanOut(st[j]) => j <= k
      BY <1>1, <1>2, <1>5, <2>2
    <3>2. k \in 1..Len(st)
      BY <1>1
    <3>3. QED
      BY <3>1, <3>2 DEF Current, Alike
  <2>3. (\A k \in 1..n : ~IsFanOut(ts[k])) => it = NoItem
    BY <2>1 DEF Current
  <2>4. QED
    BY <1>3, <1>5, <2>2, <2>3 DEF Current
<1>6. QED
  BY <1>3, <1>4, <1>5

\* A call f is made by the step s that the list on top of st holds.
LEMMA ItemsPush ==
    ASSUME NEW st, NEW ts, NEW it, NEW jt, Callers(st), Inside(st), Current(st, it),
           NEW n \in Nat \ {0}, Len(st) = n, Len(ts) = n + 1,
           \A k \in 1..n : ts[k] = st[k],
           NEW s \in Steps, NEW m \in DOMAIN st[n].steps, st[n].steps[m] = s,
           ts[n + 1].of = s, ts[n + 1].steps \in Bodies[s], ts[n + 1].round = 1,
           jt = IF Kind[s] = "fan-out" THEN <<s, 1>> ELSE it
    PROVE  Inside(ts) /\ Current(ts, jt)
<1>0. s # Workflow
  BY TreeAssumption
<1>1. \A k \in 1..Len(ts) : k \in 1..n \/ k = n + 1
  OBVIOUS
<1>2. IsFanOut(ts[n + 1]) <=> Kind[s] = "fan-out"
  BY <1>0 DEF IsFanOut
<1>3. ASSUME NEW k \in 1..n, IsFanOut(st[k]), NEW S \in SUBSET Steps, Encloses(S, st[k].of)
      PROVE  s \in S /\ \A j \in DOMAIN ts[n + 1].steps : ts[n + 1].steps[j] \in S
  <2>1. s \in S
    BY <1>3 DEF Inside
  <2>2. QED
    BY <1>3, <2>1 DEF Encloses
<1>4. ASSUME NEW S \in SUBSET Steps, Encloses(S, s)
      PROVE  \A j \in DOMAIN ts[n + 1].steps : ts[n + 1].steps[j] \in S
  BY <1>4 DEF Encloses
<1>5. Inside(ts)
  <2> SUFFICES ASSUME NEW k \in 1..Len(ts), NEW j \in 1..Len(ts), IsFanOut(ts[k]),
                      NEW S \in SUBSET Steps, Encloses(S, ts[k].of)
               PROVE  /\ j >= k => \A l \in DOMAIN ts[j].steps : ts[j].steps[l] \in S
                      /\ j > k => ts[j].of \in S
    BY DEF Inside
  <2>1. CASE k \in 1..n /\ j \in 1..n
    BY <2>1 DEF Inside
  <2>2. CASE k \in 1..n /\ j = n + 1
    BY <1>3, <2>2
  <2>3. CASE k = n + 1 /\ j = n + 1
    BY <1>4, <2>3
  <2>4. CASE k = n + 1 /\ j \in 1..n
    BY <2>4
  <2>5. QED
    BY <1>1, <2>1, <2>2, <2>3, <2>4
<1>6. CASE Kind[s] = "fan-out"
  <2>1. n + 1 \in 1..Len(ts)
    OBVIOUS
  <2>2. ASSUME NEW k \in 1..Len(ts), \A j \in 1..Len(ts) : IsFanOut(ts[j]) => j <= k
        PROVE  k = n + 1
    BY <1>1, <1>2, <1>6, <2>1, <2>2
  <2>3. QED
    BY <1>2, <1>5, <1>6, <2>1, <2>2 DEF Current
<1>7. CASE Kind[s] # "fan-out"
  <2>1. (\A k \in 1..Len(ts) : ~IsFanOut(ts[k])) => it = NoItem
    <3>1. \A k \in 1..n : k \in 1..Len(ts)
      OBVIOUS
    <3>2. QED
      BY <3>1 DEF Current
  <2>2. ASSUME NEW k \in 1..Len(ts), IsFanOut(ts[k]), \A j \in 1..Len(ts) : IsFanOut(ts[j]) => j <= k
        PROVE  it = <<ts[k].of, ts[k].round>> \/ (it = NoItem /\ ts[k].of \in NestedFanOuts)
    <3>1. k \in 1..n
      BY <1>1, <1>2, <1>7, <2>2
    <3>2. IsFanOut(st[k]) /\ \A j \in 1..n : IsFanOut(st[j]) => j <= k
      BY <2>2, <3>1
    <3>3. QED
      BY <3>1, <3>2 DEF Current
  <2>3. QED
    BY <1>5, <1>7, <2>1, <2>2 DEF Current
<1>8. QED
  BY <1>6, <1>7

\* The list on top runs again: if it is of a fan-out, for the next item.
LEMMA ItemsRound ==
    ASSUME NEW st, NEW ts, NEW it, NEW jt, Callers(st), Inside(st), Current(st, it),
           NEW n \in Nat \ {0}, Len(st) = n, Len(ts) = n,
           \A k \in 1..(n - 1) : ts[k] = st[k],
           ts[n].of = st[n].of, ts[n].steps = st[n].steps,
           jt = IF IsFanOut(st[n]) THEN <<ts[n].of, ts[n].round>> ELSE it
    PROVE  Inside(ts) /\ Current(ts, jt)
<1>0. \A k \in 1..n : k \in 1..(n - 1) \/ k = n
  OBVIOUS
<1>1. \A k \in 1..n : ts[k].of = st[k].of /\ ts[k].steps = st[k].steps
  BY <1>0
<1>2. \A k \in 1..n : IsFanOut(ts[k]) <=> IsFanOut(st[k])
  BY <1>1 DEF IsFanOut
<1>3. Inside(ts)
  BY <1>1, <1>2 DEF Inside
<1>4. CASE IsFanOut(st[n])
  <2>1. n \in 1..n /\ \A k \in 1..n : n <= k => k = n
    OBVIOUS
  <2>2. ASSUME NEW k \in 1..n, \A j \in 1..n : IsFanOut(ts[j]) => j <= k
        PROVE  k = n
    BY <1>2, <1>4, <2>1, <2>2
  <2>3. QED
    BY <1>2, <1>3, <1>4, <2>1, <2>2 DEF Current
<1>5. CASE ~IsFanOut(st[n])
  <2>1. (\A k \in 1..n : ~IsFanOut(ts[k])) => it = NoItem
    BY <1>2 DEF Current
  <2>2. ASSUME NEW k \in 1..n, IsFanOut(ts[k]), \A j \in 1..n : IsFanOut(ts[j]) => j <= k
        PROVE  it = <<ts[k].of, ts[k].round>> \/ (it = NoItem /\ ts[k].of \in NestedFanOuts)
    <3>1. IsFanOut(st[k]) /\ \A j \in 1..n : IsFanOut(st[j]) => j <= k
      BY <1>2, <2>2
    <3>2. ts[k] = st[k]
      BY <1>0, <1>5, <3>1
    <3>3. QED
      BY <3>1, <3>2 DEF Current
  <2>3. QED
    BY <1>3, <1>5, <2>1, <2>2 DEF Current
<1>6. QED
  BY <1>4, <1>5

\* Without a fan-out there is no item.
LEMMA ItemsNone ==
    ASSUME NEW st, \A k \in 1..Len(st) : ~IsFanOut(st[k])
    PROVE  Inside(st) /\ Current(st, NoItem)
BY DEF Inside, Current

LEMMA ItemsPrimed ==
    Inside(stack') /\ Current(stack', item') => Items'
BY DEF Items

LEMMA AlikeSelf ==
    ASSUME NEW f \in Frame PROVE Alike(f, f) /\ Alike(Further(f), f)
BY StepDone DEF Alike

\* The calls on the stack are made by steps.
LEMMA CallersOf ==
    ASSUME TypeInv
    PROVE  Callers(stack) /\ \A k \in 1..Len(stack) : stack[k] \in Frame
<1>1. stack \in Seq(Frame) /\ Len(stack) \in Nat
  BY LenProperties DEF TypeInv, Frames
<1>2. \A k \in 1..Len(stack) : stack[k] \in Frame
  BY <1>1, ElementOfSeq
<1>3. QED
  BY <1>1, <1>2 DEF Callers, Frame

\* A nested list is of a fan-out if the step that called it is one.
LEMMA NestedIs ==
    ASSUME TypeInv, Len(stack) > 1
    PROVE  /\ Len(stack) \in Nat \ {0} /\ frame = stack[Len(stack)]
           /\ IsFanOut(frame) <=> Kind[frame.of] = "fan-out"
<1>1. stack # <<>>
  BY EmptySeq
<1>2. Nested(frame) /\ Len(stack) \in Nat \ {0} /\ frame = stack[Len(stack)]
  BY <1>1, FrameOnTop DEF TypeInv, FrameOK
<1>3. QED
  BY <1>2, TreeAssumption DEF Nested, IsFanOut

LEMMA ItemsProceed ==
    ASSUME TypeInv, Items, pc = "step", NEW state, Proceed(state), UNCHANGED <<offset, item>>
    PROVE  Items'
<1> DEFINE n == Len(stack)
<1>1. n \in 1..Len(stack) /\ CompleteAt(n) /\ stack[n].i < Len(stack[n].steps) /\ Callers(stack)
      /\ \A k \in 1..n : stack[k] \in Frame
  BY StepIs, CallersOf DEF Proceed
<1>2. /\ Len(stack') = n
      /\ \A k \in 1..(n - 1) : stack'[k] = stack[k]
      /\ stack'[n] = Further(stack[n])
  <2> HIDE DEF n
  <2>1. QED
    BY <1>1, FramesComplete DEF TypeInv
<1>3. \A k \in 1..n : Alike(stack'[k], stack[k])
  <2>1. \A k \in 1..n : k \in 1..(n - 1) \/ k = n
    BY <1>1 DEF Callers
  <2>2. QED
    BY <1>1, <1>2, <2>1, AlikeSelf
<1>4. Inside(stack') /\ Current(stack', item)
  BY <1>1, <1>2, <1>3, ItemsAlike DEF Items
<1>5. QED
  BY <1>4, ItemsPrimed

LEMMA ItemsLeave ==
    ASSUME TypeInv, Items, Unwind \/ Leave
    PROVE  Items'
<1> DEFINE n == Len(stack) - 1
<1>1. Len(stack) > 1 /\ item' = IF Kind[frame.of] = "fan-out" THEN NoItem ELSE item
  BY DEF Unwind, Leave
<1>2. /\ n \in Nat \ {0} /\ Len(stack) = n + 1 /\ frame = stack[n + 1] /\ Callers(stack)
      /\ item' = IF IsFanOut(stack[n + 1]) THEN NoItem ELSE item
  BY <1>1, NestedIs, CallersOf
<1>3. \A k \in 1..n : stack[k] \in Frame
  BY <1>2, CallersOf
<1>4. Len(stack') = n /\ \A k \in 1..n : Alike(stack'[k], stack[k])
  <2>1. CASE Unwind
    <3>1. Len(stack') = n /\ \A k \in 1..n : stack'[k] = stack[k]
      BY <2>1, FramesBelow DEF Unwind, TypeInv
    <3>2. QED
      BY <1>3, <3>1, AlikeSelf
  <2>2. CASE Leave
    <3>1. n \in 1..Len(stack) /\ CompleteAt(n) /\ stack[n].i < Len(stack[n].steps) /\ UNCHANGED offset
      BY <2>2, LeaveIs
    <3>2. /\ Len(stack') = n
          /\ \A k \in 1..(n - 1) : stack'[k] = stack[k]
          /\ stack'[n] = Further(stack[n])
      <4> HIDE DEF n
      <4>1. QED
        BY <3>1, FramesComplete DEF TypeInv
    <3>3. \A k \in 1..n : k \in 1..(n - 1) \/ k = n
      <4>1. n \in Nat
        BY <1>2
      <4> HIDE DEF n
      <4>2. QED
        BY <4>1
    <3>4. QED
      BY <1>3, <3>2, <3>3, AlikeSelf
  <2>3. QED
    BY <2>1, <2>2
<1> HIDE DEF n
<1>5. Inside(stack') /\ Current(stack', item')
  BY <1>2, <1>4, ItemsPop DEF Items
<1>6. QED
  BY <1>5, ItemsPrimed

LEMMA ItemsAgain ==
    ASSUME TypeInv, Items, Again
    PROVE  Items'
<1> DEFINE n == Len(stack)
<1>1. /\ n > 1 /\ stack # <<>> /\ UNCHANGED offset /\ frame.round < frame.rounds
      /\ stack' = WithTop(Anew(frame)) /\ frame \in Frame /\ Callers(stack)
      /\ item' = IF Kind[frame.of] = "fan-out" THEN <<frame.of, frame.round + 1>> ELSE item
  BY AgainIs, CallersOf
<1>2. n \in Nat \ {0} /\ frame = stack[n] /\ (IsFanOut(frame) <=> Kind[frame.of] = "fan-out")
  BY <1>1, NestedIs
<1>3. /\ Len(stack') = n
      /\ \A k \in 1..(n - 1) : stack'[k] = stack[k]
      /\ stack'[n] = Anew(frame)
  BY <1>1, FramesAgain DEF TypeInv
<1>4. Anew(frame).of = frame.of /\ Anew(frame).steps = frame.steps /\ Anew(frame).round = frame.round + 1
  BY <1>1, RoundDone
<1>5. /\ stack'[n].of = stack[n].of /\ stack'[n].steps = stack[n].steps
      /\ item' = IF IsFanOut(stack[n]) THEN <<stack'[n].of, stack'[n].round>> ELSE item
  BY <1>1, <1>2, <1>3, <1>4
<1> HIDE DEF n
<1>6. Len(stack) = n
  BY DEF n
<1>7. Inside(stack') /\ Current(stack', item')
  BY <1>1, <1>2, <1>3, <1>5, <1>6, ItemsRound DEF Items
<1>8. QED
  BY <1>7, ItemsPrimed

LEMMA ItemsNest ==
    ASSUME TypeInv, Items, pc = "step", NEW body \in Bodies[step] \cup {<<>>}, NEW rounds \in Nat,
           Kind[step] = "fan-out" => rounds <= MaxItems, Nest(body, rounds),
           item' = IF body = <<>> \/ rounds = 0 \/ Kind[step] # "fan-out" THEN item ELSE <<step, 1>>
    PROVE  Items'
<1>1. CASE body = <<>> \/ rounds = 0
  <2>1. Proceed(Result(step, "completed")) /\ UNCHANGED <<offset, item>>
    BY <1>1 DEF Nest
  <2>2. QED
    BY <2>1, ItemsProceed
<1>2. CASE ~(body = <<>> \/ rounds = 0)
  <2> DEFINE n == Len(stack)  s == step  m == frame.i + 1
  <2>1. /\ body \in Bodies[s] /\ body # <<>> /\ rounds > 0 /\ UNCHANGED offset
        /\ stack' = Append(stack, Call(body, s, rounds))
        /\ item' = IF Kind[s] = "fan-out" THEN <<s, 1>> ELSE item
        /\ Kind[s] = "fan-out" => rounds <= MaxItems
    BY <1>2 DEF Nest
  <2>2. /\ s \in Steps /\ stack # <<>> /\ frame.i < Len(frame.steps) /\ frame \in Frame
        /\ frame = stack[n] /\ Callers(stack)
    BY StepIs, CallersOf
  <2>3. n \in Nat \ {0}
    BY <2>2, FrameOnTop DEF TypeInv
  <2>4. m \in DOMAIN stack[n].steps /\ stack[n].steps[m] = s
    BY <2>2, LenProperties DEF Frame, step
  <2> HIDE DEF s, m
  <2>5. /\ Len(stack') = n + 1
        /\ \A k \in 1..n : stack'[k] = stack[k]
        /\ frame' = Call(body, s, rounds) /\ stack' # <<>> /\ Frames'
    BY <2>1, <2>2, FramesCall DEF TypeInv
  <2>6. stack'[n + 1] = Call(body, s, rounds)
    BY <2>5 DEF frame
  <2>7. stack'[n + 1].of = s /\ stack'[n + 1].steps \in Bodies[s] /\ stack'[n + 1].round = 1
    BY <2>1, <2>6 DEF Call
  <2> HIDE DEF n
  <2>8. Len(stack) = n
    BY DEF n
  <2>9. /\ Callers(stack) /\ s \in Steps /\ Len(stack') = n + 1 /\ \A k \in 1..n : stack'[k] = stack[k]
        /\ item' = IF Kind[s] = "fan-out" THEN <<s, 1>> ELSE item
    BY <2>1, <2>2, <2>5
  <2>10. Inside(stack) /\ Current(stack, item)
    BY DEF Items
  <2>11. Inside(stack') /\ Current(stack', item')
    BY <2>3, <2>4, <2>7, <2>8, <2>9, <2>10, ItemsPush
  <2>12. QED
    BY <2>11, ItemsPrimed
<1>3. QED
  BY <1>1, <1>2

LEMMA ItemsStep ==
    ASSUME TypeInv, Items, [Next]_vars PROVE Items'
<1>1. CASE Execute \/ Resume
  <2>1. PICK from \in 0..(Len(Top) - 1) : (\E state : Start(state, from)) /\ offset' = from
    <3>1. 0 \in 0..(Len(Top) - 1) /\ disk.index \in 0..(Len(Top) - 1)
      BY Lengths, TypeParts DEF Rest, RunOK, RunState
    <3>2. CASE Execute
      BY <3>1, <3>2 DEF Execute
    <3>3. CASE Resume
      BY <3>1, <3>3 DEF Resume
    <3>4. QED
      BY <1>1, <3>2, <3>3
  <2>2. Len(stack') = 1 /\ stack'[1].of = Workflow /\ item' = NoItem
    BY <2>1, FramesStart DEF Start
  <2>3. \A k \in 1..Len(stack') : ~IsFanOut(stack'[k])
    BY <2>2 DEF IsFanOut
  <2>4. QED
    BY <2>2, <2>3, ItemsNone, ItemsPrimed
<1>2. CASE Begin \/ NextOfRound \/ UNCHANGED vars
  <2>1. stack' = stack /\ item' = item
    BY <1>2 DEF Begin, NextOfRound, vars
  <2>2. QED
    BY <2>1, ItemsPrimed DEF Items
<1>3. CASE \/ Succeed \/ Fail \/ UnknownType
           \/ GatePauses \/ GateApproved \/ GateRejected \/ GateRejectedLoosely
  <2>1. pc = "step" /\ UNCHANGED <<offset, item>>
    BY <1>3, StepOutcome
  <2>2. (\E state : Proceed(state)) \/ (\E state : Halt(state))
    BY <1>3, StepOutcome
  <2>3. CASE \E state : Halt(state)
    <3>1. stack' = stack
      BY <2>3 DEF Halt
    <3>2. QED
      BY <2>1, <3>1, ItemsPrimed DEF Items
  <2>4. QED
    BY <2>1, <2>2, <2>3, ItemsProceed
<1>4. CASE Branch \/ EnterLoop \/ FanOut
  BY <1>4, NestIs, ItemsNest
<1>5. CASE Unwind \/ Again \/ Leave
  BY <1>5, ItemsLeave, ItemsAgain
<1>6. CASE Raise \/ Finish \/ Interrupt \/ Kill
  <2>1. stack' = <<>> /\ item' = NoItem
    BY <1>6 DEF Raise, Finish, Interrupt, Kill, Exit
  <2>2. \A k \in 1..Len(stack') : ~IsFanOut(stack'[k])
    BY <2>1, EmptySeq
  <2>3. QED
    BY <2>1, <2>2, ItemsNone, ItemsPrimed
<1>7. QED
  BY <1>1, <1>2, <1>3, <1>4, <1>5, <1>6 DEF Next, Run

\* Whatever the definition, a step of a template sees the item it is run for, that of
\* the innermost fan-out around it, through branches and loops, and a step outside
\* sees none; only in the template of a fan-out with another inside may the item be
\* gone, and it is never that of another fan-out or round.
THEOREM CurrentItem == Spec => []ItemIsCurrent
<1>1. Init => Items
  <2> SUFFICES ASSUME Init PROVE Items
    OBVIOUS
  <2>1. Len(stack) = 0 /\ item = NoItem
    BY EmptySeq DEF Init
  <2>2. QED
    BY <2>1, ItemsNone DEF Items
<1>2. TypeInv /\ Items /\ [Next]_vars => Items'
  BY ItemsStep
<1>3. TypeInv /\ Items => ItemIsCurrent
  <2> SUFFICES ASSUME TypeInv, Items PROVE ItemIsCurrent
    OBVIOUS
  <2>1. DOMAIN stack = 1..Len(stack)
    BY LenProperties DEF TypeInv, Frames
  <2>2. FanOuts = {k \in 1..Len(stack) : IsFanOut(stack[k])}
    BY <2>1 DEF FanOuts, IsFanOut
  <2>3. QED
    BY <2>2 DEF Items, Current, ItemIsCurrent
<1>4. QED
  BY <1>1, <1>2, <1>3, TypeInit, TypeStep, PTL DEF Spec

=============================================================================
