-------------------------- MODULE WorkflowRunProofs --------------------------
(***************************************************************************)
(* Theorems about the dependency sort and the job loop, for every number   *)
(* of jobs and every set of graphs.                                        *)
(***************************************************************************)
EXTENDS WorkflowRun, FiniteSetTheorems, SequenceTheorems, WellFoundedInduction, TLAPS

-----------------------------------------------------------------------------
(* The parts of the inductive invariant.                                   *)

Placed == {order[k] : k \in 1..Len(order)}

Open == {stack[k].job : k \in 1..Len(stack)}

\* The marks tell where a job is, and it is in one place.
MarkInv ==
  /\ \A j \in Job : mark[j] = "visiting" <=> j \in Open
  /\ \A j \in Job : mark[j] = "done" <=> j \in Placed
  /\ \A k, l \in 1..Len(stack) : stack[k].job = stack[l].job => k = l
  /\ \A k, l \in 1..Len(order) : order[k] = order[l] => k = l

\* Each call of visit was made for a need of the one below; the needs it has
\* looked at are placed, but for the one it is in the middle of visiting.
FrameOK(k) ==
  /\ k < Len(stack) => stack[k + 1].job \in needs[stack[k].job]
  /\ stack[k].todo \subseteq needs[stack[k].job]
  /\ \A d \in needs[stack[k].job] \ stack[k].todo :
       d \in Placed \/ (k < Len(stack) /\ d = stack[k + 1].job)

StackInv == \A k \in 1..Len(stack) : FrameOK(k)

OrderInv ==
  \A k \in 1..Len(order) : needs[order[k]] \subseteq {order[l] : l \in 1..k - 1}

\* The names the loop has passed are visited, and the sort ends with all.
CursorInv ==
  /\ \A j \in Job : j < cursor => mark[j] # "unvisited"
  /\ phase \in {"jobs", "runError", "report"} => stack = <<>> /\ cursor > N

SortInv ==
  MarkInv /\ StackInv /\ OrderInv /\ CursorInv /\ (phase = "sortError" => BadGraph)

\* The job loop settles the order from its front, on what came before.
SettledInv ==
  /\ phase \in {"sort", "sortError"} => index = 1
  /\ \A j \in Job : result[j] # "pending" => j \in Placed
  /\ \A k \in 1..Len(order) : result[order[k]] = "pending" <=> k >= index
  /\ phase = "report" => index > Len(order)

\* A job ran on successes only; a skipped one has a failure upstream.
CauseInv ==
  \A j \in Job :
    /\ result[j] \in {"success", "failure"} =>
         \A d \in needs[j] : d \in Job /\ result[d] = "success"
    /\ result[j] = "skipped" => \E a \in Ancestors(j) : result[a] = "failure"

ExitInv == exit # -1 => /\ phase \in {"sortError", "runError", "report"}
                        /\ exit = ExitCode

IInv == TypeOK /\ SortInv /\ SettledInv /\ CauseInv /\ ExitInv

-----------------------------------------------------------------------------
(* The stack and the order, position by position.                          *)

LEMMA NeedsType == ASSUME TypeOK, NEW j \in Job
                   PROVE  needs[j] \in SUBSET (Job \cup {Unknown})
BY GraphsAssumption DEF TypeOK

LEMMA TopType ==
  ASSUME TypeOK, stack # <<>>
  PROVE  /\ Len(stack) \in Nat \ {0}
         /\ Top \in Frame /\ Top.job \in Job /\ Top.job \in Open
         /\ Top.todo \in SUBSET (Job \cup {Unknown})
<1>1. Len(stack) \in Nat \ {0} /\ stack[Len(stack)] \in Frame
  BY DEF TypeOK
<1> QED
  BY <1>1 DEF Top, Frame, Open

LEMMA FrameType ==
  ASSUME TypeOK, NEW k \in 1..Len(stack)
  PROVE  stack[k] \in Frame /\ stack[k].job \in Job
<1>1. stack[k] \in Frame
  BY DEF TypeOK
<1> QED
  BY <1>1 DEF Frame

LEMMA LookedShape ==
  ASSUME TypeOK, stack # <<>>, NEW dep
  PROVE  /\ Looked(dep) \in Seq(Frame)
         /\ Len(Looked(dep)) = Len(stack)
         /\ \A k \in 1..Len(stack) : Looked(dep)[k].job = stack[k].job
         /\ \A k \in 1..Len(stack) - 1 : Looked(dep)[k].todo = stack[k].todo
         /\ Looked(dep)[Len(stack)].todo = stack[Len(stack)].todo \ {dep}
<1>1. DOMAIN stack = 1..Len(stack) /\ Len(stack) \in 1..Len(stack)
  BY TopType DEF TypeOK
<1>2. \A k \in 1..Len(stack) : stack[k] \in Frame
  BY FrameType
<1> DEFINE top == [stack[Len(stack)] EXCEPT !.todo = Top.todo \ {dep}]
<1>3. Looked(dep) = [stack EXCEPT ![Len(stack)] = top]
  BY DEF Looked
<1>4. top \in Frame /\ top.job = Top.job /\ top.todo = Top.todo \ {dep}
  BY TopType DEF Frame, Top
<1> HIDE DEF top
<1>5. Looked(dep) \in Seq(Frame) /\ Len(Looked(dep)) = Len(stack)
  BY <1>1, <1>3, <1>4 DEF TypeOK
<1>6. \A k \in 1..Len(stack) : Looked(dep)[k] = IF k = Len(stack) THEN top ELSE stack[k]
  BY <1>1, <1>3
<1>7. ASSUME NEW k \in 1..Len(stack) - 1 PROVE Looked(dep)[k] = stack[k]
  <2>1. k \in 1..Len(stack) /\ k # Len(stack)
    BY TopType
  <2> QED
    BY <1>6, <2>1
<1>8. Looked(dep)[Len(stack)] = top
  BY <1>1, <1>6
<1>9. \A k \in 1..Len(stack) : Looked(dep)[k].job = stack[k].job
  BY <1>4, <1>6 DEF Top
<1> QED
  BY <1>4, <1>5, <1>7, <1>8, <1>9 DEF Top

LEMMA PushShape ==
  ASSUME TypeOK, NEW j \in Job, NEW below \in Seq(Frame)
  PROVE  LET s == Append(below, [job |-> j, todo |-> needs[j]]) IN
         /\ s \in Seq(Frame) /\ Len(s) = Len(below) + 1
         /\ \A k \in 1..Len(below) : s[k] = below[k]
         /\ s[Len(below) + 1].job = j /\ s[Len(below) + 1].todo = needs[j]
<1>1. [job |-> j, todo |-> needs[j]] \in Frame
  BY NeedsType DEF Frame
<1> QED
  BY <1>1

LEMMA PopShape ==
  ASSUME TypeOK, stack # <<>>
  PROVE  LET s == SubSeq(stack, 1, Len(stack) - 1) IN
         /\ s \in Seq(Frame) /\ Len(s) = Len(stack) - 1
         /\ \A k \in 1..Len(stack) - 1 : s[k] = stack[k]
<1> DEFINE n == Len(stack) - 1
           s == SubSeq(stack, 1, n)
<1>1. n \in Nat /\ \A k \in 1..n : stack[k] \in Frame
  BY TopType, FrameType
<1> HIDE DEF n
<1>2. /\ s \in Seq(Frame) /\ Len(s) = IF 1 <= n THEN n - 1 + 1 ELSE 0
      /\ \A k \in 1..n - 1 + 1 : s[k] = stack[1 + k - 1]
  BY <1>1, SubSeqProperties
<1>3. s \in Seq(Frame) /\ Len(s) = n /\ \A k \in 1..n : s[k] = stack[k]
  BY <1>1, <1>2
<1> QED
  BY <1>3 DEF n

LEMMA PlaceShape ==
  ASSUME TypeOK, NEW j \in Job
  PROVE  LET o == Append(order, j) IN
         /\ o \in Seq(Job) /\ Len(o) = Len(order) + 1
         /\ \A k \in 1..Len(order) : o[k] = order[k]
         /\ o[Len(order) + 1] = j
BY DEF TypeOK

LEMMA OrderType ==
  ASSUME TypeOK
  PROVE  /\ Len(order) \in Nat /\ Len(stack) \in Nat /\ N \in Nat
         /\ Placed \subseteq Job /\ Open \subseteq Job
         /\ index \in Nat /\ cursor \in Nat
<1>1. Placed \subseteq Job
  BY DEF TypeOK, Placed
<1>2. Open \subseteq Job
  BY FrameType DEF Open
<1> QED
  BY <1>1, <1>2, NAssumption DEF TypeOK

LEMMA CurrentType ==
  ASSUME TypeOK, index <= Len(order)
  PROVE  Current \in Job /\ Current \in Placed /\ index \in 1..Len(order)
BY OrderType DEF TypeOK, Current, Placed

-----------------------------------------------------------------------------
LEMMA TypeStep == TypeOK /\ SettledInv /\ [Next]_vars => TypeOK'
<1> SUFFICES ASSUME TypeOK, SettledInv, [Next]_vars PROVE TypeOK'
  OBVIOUS
<1> USE NAssumption DEF runVars, sortVars
<1>1. CASE UNCHANGED vars
  BY <1>1 DEF vars, TypeOK
<1>2. CASE VisitName
  <2>1. cursor \in Job
    BY <1>2 DEF VisitName, TypeOK, Job
  <2>2. mark' \in [Job -> Marks]
    BY <1>2, <2>1 DEF VisitName, Enter, TypeOK, Marks
  <2>4. stack' \in Seq(Frame)
    <3>1. stack \in Seq(Frame)
      BY DEF TypeOK
    <3>2. Append(stack, [job |-> cursor, todo |-> needs[cursor]]) \in Seq(Frame)
      BY <2>1, <3>1, PushShape
    <3> QED
      BY <1>2, <3>1, <3>2 DEF VisitName, Enter
  <2>3. cursor' \in 1..N + 1
    BY <1>2 DEF VisitName, TypeOK
  <2> QED
    BY <1>2, <2>2, <2>3, <2>4 DEF VisitName, TypeOK
<1>3. ASSUME NEW dep \in Job \cup {Unknown}, VisitNeed(dep) PROVE TypeOK'
  <2>1. dep \in Job /\ Looked(dep) \in Seq(Frame)
    BY <1>3, LookedShape DEF VisitNeed
  <2>2. mark' \in [Job -> Marks]
    BY <1>3, <2>1 DEF VisitNeed, Enter, TypeOK, Marks
  <2>3. stack' \in Seq(Frame)
    BY <1>3, <2>1, PushShape DEF VisitNeed, Enter
  <2> QED
    BY <1>3, <2>2, <2>3 DEF VisitNeed, TypeOK
<1>4. ASSUME NEW dep \in Job \cup {Unknown}, RejectNeed(dep) PROVE TypeOK'
  BY <1>4 DEF RejectNeed, TypeOK, Phases
<1>5. CASE FinishVisit
  <2>1. /\ stack' \in Seq(Frame) /\ mark' \in [Job -> Marks]
        /\ order' \in Seq(Job) /\ Len(order') = Len(order) + 1
    BY <1>5, PopShape, PlaceShape, TopType DEF FinishVisit, TypeOK, Marks
  <2> QED
    BY <1>5, <2>1, OrderType DEF FinishVisit, TypeOK
<1>6. CASE Sorted \/ AbortRun \/ LoopEnds
  BY <1>6 DEF Sorted, AbortRun, LoopEnds, TypeOK, Phases
<1>7. CASE SkipJob \/ RunMatrix
  <2>1. /\ index <= Len(order) /\ UNCHANGED <<needs, sortVars, phase, exit>>
        /\ index' = index + 1
        /\ \E r \in Results : result' = [result EXCEPT ![Current] = r]
    BY <1>7 DEF SkipJob, RunMatrix, SettleCurrent, Results
  <2> QED
    BY <2>1, CurrentType DEF TypeOK
<1>8. CASE Report
  BY <1>8 DEF Report, ExitCode, TypeOK
<1> QED
  BY <1>1, <1>2, <1>3, <1>4, <1>5, <1>6, <1>7, <1>8 DEF Next, SortStep, RunStep, Exited

-----------------------------------------------------------------------------
(* The sort.                                                               *)

LEMMA EnterShape ==
  ASSUME TypeOK, MarkInv, UNCHANGED order,
         NEW j \in Job, mark[j] = "unvisited",
         NEW below \in Seq(Frame), Len(below) = Len(stack),
         \A k \in 1..Len(stack) : below[k].job = stack[k].job,
         Enter(j, below)
  PROVE  /\ MarkInv'
         /\ Len(stack') = Len(stack) + 1
         /\ \A k \in 1..Len(stack) : stack'[k] = below[k]
         /\ stack'[Len(stack) + 1].job = j /\ stack'[Len(stack) + 1].todo = needs[j]
         /\ \A i \in Job : mark'[i] = IF i = j THEN "visiting" ELSE mark[i]
<1>1. /\ Len(stack') = Len(stack) + 1
      /\ \A k \in 1..Len(stack) : stack'[k] = below[k]
      /\ stack'[Len(stack) + 1].job = j /\ stack'[Len(stack) + 1].todo = needs[j]
  BY PushShape DEF Enter
<1>2. \A i \in Job : mark'[i] = IF i = j THEN "visiting" ELSE mark[i]
  BY DEF Enter, TypeOK
<1>3. \A k \in 1..Len(stack') : stack'[k].job = IF k = Len(stack) + 1 THEN j ELSE stack[k].job
  BY <1>1, OrderType
<1>4. Open' = Open \cup {j}
  <2>1. \A i \in Open : i \in Open'
    BY <1>1, <1>3, OrderType DEF Open
  <2>2. j \in Open'
    BY <1>1, OrderType DEF Open
  <2>3. \A i \in Open' : i \in Open \cup {j}
    BY <1>1, <1>3, OrderType DEF Open
  <2> QED
    BY <2>1, <2>2, <2>3
<1>5. Placed' = Placed
  BY DEF Placed
<1>6. j \notin Open /\ j \notin Placed
  BY DEF MarkInv
<1>7. \A k, l \in 1..Len(stack') : stack'[k].job = stack'[l].job => k = l
  <2>1. \A k \in 1..Len(stack) : stack[k].job # j
    BY <1>6 DEF Open
  <2> QED
    BY <1>1, <1>3, <2>1, OrderType DEF MarkInv
<1> QED
  BY <1>1, <1>2, <1>4, <1>5, <1>6, <1>7 DEF MarkInv

\* A call of visit that is not the last is left alone.
LEMMA FrameKept ==
  ASSUME UNCHANGED needs, Placed \subseteq Placed',
         NEW k, k < Len(stack), k < Len(stack'), FrameOK(k),
         stack'[k].job = stack[k].job, stack'[k].todo = stack[k].todo,
         stack'[k + 1].job = stack[k + 1].job
  PROVE  FrameOK(k)'
BY DEF FrameOK

LEMMA VisitNameStep == ASSUME TypeOK, SortInv, VisitName PROVE SortInv'
<1> USE DEF runVars
<1>1. /\ phase = "sort" /\ phase' = "sort" /\ stack = <<>> /\ Len(stack) = 0
      /\ cursor \in Job /\ cursor' = cursor + 1 /\ cursor \in Int
      /\ UNCHANGED <<needs, order>>
  BY DEF VisitName, TypeOK, Job
<1>2. OrderInv' /\ Placed' = Placed
  BY <1>1 DEF OrderInv, Placed, SortInv
<1>3. CASE mark[cursor] = "done"
  <2>1. UNCHANGED <<mark, stack>>
    BY <1>3 DEF VisitName
  <2> QED
    BY <1>1, <1>2, <1>3, <2>1
       DEF SortInv, MarkInv, StackInv, CursorInv, Open, Placed, Job
<1>4. CASE mark[cursor] = "unvisited"
  <2>1. Enter(cursor, stack)
    BY <1>4 DEF VisitName
  <2>2. /\ MarkInv'
        /\ Len(stack') = 1
        /\ stack'[1].job = cursor /\ stack'[1].todo = needs[cursor]
        /\ \A i \in Job : mark'[i] = IF i = cursor THEN "visiting" ELSE mark[i]
    <3>1. stack \in Seq(Frame) /\ UNCHANGED order /\ MarkInv /\ Len(stack) = 0
      BY <1>1 DEF TypeOK, SortInv
    <3>2. /\ MarkInv'
          /\ Len(stack') = Len(stack) + 1
          /\ stack'[Len(stack) + 1].job = cursor
          /\ stack'[Len(stack) + 1].todo = needs[cursor]
          /\ \A i \in Job : mark'[i] = IF i = cursor THEN "visiting" ELSE mark[i]
      <4>1. cursor \in Job
        BY <1>1
      <4> QED
        BY <1>4, <2>1, <3>1, <4>1, EnterShape
    <3> QED
      BY <3>1, <3>2
  <2>3. StackInv'
    BY <1>1, <2>2 DEF StackInv, FrameOK
  <2>4. CursorInv'
    BY <1>1, <2>2 DEF CursorInv, SortInv, Job
  <2> QED
    BY <1>1, <1>2, <2>2, <2>3, <2>4 DEF SortInv
<1> QED
  BY <1>3, <1>4 DEF VisitName

LEMMA VisitNeedStep ==
  ASSUME TypeOK, SortInv, NEW dep, VisitNeed(dep)
  PROVE  SortInv'
<1> USE DEF runVars
<1>1. /\ phase = "sort" /\ phase' = "sort" /\ stack # <<>>
      /\ dep \in Job /\ dep \in Top.todo
      /\ UNCHANGED <<needs, order, cursor>>
  BY DEF VisitNeed
<1>2. OrderInv' /\ Placed' = Placed
  BY <1>1 DEF OrderInv, Placed, SortInv
<1>3. /\ Len(stack) \in Nat \ {0}
      /\ Looked(dep) \in Seq(Frame) /\ Len(Looked(dep)) = Len(stack)
      /\ \A k \in 1..Len(stack) : Looked(dep)[k].job = stack[k].job
      /\ \A k \in 1..Len(stack) - 1 : Looked(dep)[k].todo = stack[k].todo
      /\ Looked(dep)[Len(stack)].todo = stack[Len(stack)].todo \ {dep}
  BY <1>1, TopType, LookedShape
<1>4. dep \in needs[Top.job] /\ Top = stack[Len(stack)]
  BY <1>1, <1>3 DEF Top, SortInv, StackInv, FrameOK
<1>5. CASE mark[dep] = "done"
  <2>1. UNCHANGED mark /\ stack' = Looked(dep)
    BY <1>5 DEF VisitNeed
  <2>2. dep \in Placed
    BY <1>1, <1>5 DEF SortInv, MarkInv
  <2>3. MarkInv'
    <3>1. Open' = Open
      BY <1>3, <2>1 DEF Open
    <3> QED
      BY <1>1, <1>2, <1>3, <2>1, <3>1 DEF SortInv, MarkInv
  <2>4. StackInv'
    <3>1. Len(stack') = Len(stack)
      BY <1>3, <2>1
    <3> SUFFICES ASSUME NEW k \in 1..Len(stack) PROVE FrameOK(k)'
      BY <3>1 DEF StackInv
    <3>2. FrameOK(k)
      BY DEF SortInv, StackInv
    <3>3. CASE k = Len(stack)
      <4>1. stack'[k].job = stack[k].job /\ stack'[k].todo = stack[k].todo \ {dep}
        BY <1>3, <2>1, <3>3
      <4> QED
        BY <1>1, <1>2, <2>2, <3>1, <3>2, <3>3, <4>1 DEF FrameOK
    <3>4. CASE k < Len(stack)
      <4>1. k \in 1..Len(stack) - 1 /\ k + 1 \in 1..Len(stack)
        BY <1>3, <3>4
      <4>2. /\ stack'[k].job = stack[k].job /\ stack'[k].todo = stack[k].todo
            /\ stack'[k + 1].job = stack[k + 1].job
        BY <1>3, <2>1, <3>4, <4>1
      <4> QED
        BY <1>1, <1>2, <3>1, <3>2, <3>4, <4>2, FrameKept
    <3> QED
      BY <1>3, <3>3, <3>4
  <2>5. CursorInv'
    BY <1>1, <2>1 DEF SortInv, CursorInv
  <2> QED
    BY <1>1, <1>2, <2>3, <2>4, <2>5 DEF SortInv
<1>6. CASE mark[dep] = "unvisited"
  <2>1. Enter(dep, Looked(dep))
    BY <1>6 DEF VisitNeed
  <2>2. /\ MarkInv'
        /\ Len(stack') = Len(stack) + 1
        /\ \A k \in 1..Len(stack) : stack'[k] = Looked(dep)[k]
        /\ stack'[Len(stack) + 1].job = dep /\ stack'[Len(stack) + 1].todo = needs[dep]
        /\ \A i \in Job : mark'[i] = IF i = dep THEN "visiting" ELSE mark[i]
    BY <1>1, <1>3, <1>6, <2>1, EnterShape DEF SortInv
  <2>3. /\ \A k \in 1..Len(stack) : stack'[k].job = stack[k].job
        /\ \A k \in 1..Len(stack) - 1 : stack'[k].todo = stack[k].todo
        /\ stack'[Len(stack)].todo = stack[Len(stack)].todo \ {dep}
    BY <1>3, <2>2
  <2>4. StackInv'
    <3> SUFFICES ASSUME NEW k \in 1..Len(stack) + 1 PROVE FrameOK(k)'
      BY <2>2 DEF StackInv
    <3>1. CASE k = Len(stack) + 1
      BY <1>1, <2>2, <3>1 DEF FrameOK
    <3>2. CASE k = Len(stack)
      <4>1. FrameOK(k)
        BY <1>3, <3>2 DEF SortInv, StackInv
      <4>2. /\ stack'[k].job = stack[k].job /\ stack'[k].todo = stack[k].todo \ {dep}
            /\ stack'[k + 1].job = dep /\ dep \in needs[stack[k].job]
        BY <1>3, <1>4, <2>2, <2>3, <3>2
      <4> QED
        BY <1>1, <1>2, <1>3, <2>2, <3>2, <4>1, <4>2 DEF FrameOK
    <3>3. CASE k < Len(stack)
      <4>1. k \in 1..Len(stack) - 1 /\ k + 1 \in 1..Len(stack) /\ k < Len(stack')
        BY <1>3, <2>2, <3>3
      <4>2. FrameOK(k)
        BY <4>1 DEF SortInv, StackInv
      <4>3. /\ stack'[k].job = stack[k].job /\ stack'[k].todo = stack[k].todo
            /\ stack'[k + 1].job = stack[k + 1].job
        BY <2>3, <3>3, <4>1
      <4> QED
        BY <1>1, <1>2, <3>3, <4>1, <4>2, <4>3, FrameKept
    <3> QED
      BY <1>3, <3>1, <3>2, <3>3
  <2>5. CursorInv'
    BY <1>1, <2>2 DEF SortInv, CursorInv
  <2> QED
    BY <1>1, <1>2, <2>2, <2>4, <2>5 DEF SortInv
<1> QED
  BY <1>5, <1>6 DEF VisitNeed

LEMMA FinishStep == ASSUME TypeOK, SortInv, FinishVisit PROVE SortInv'
<1> USE DEF runVars
<1> DEFINE n == Len(stack)
           m == Len(order)
<1>1. /\ phase = "sort" /\ phase' = "sort" /\ stack # <<>>
      /\ Top.todo = {} /\ Top = stack[n] /\ Top.job \in Job /\ Top.job \in Open
      /\ UNCHANGED <<needs, cursor>>
      /\ n \in Nat \ {0} /\ m \in Nat
  BY TopType, OrderType DEF FinishVisit, Top
<1>2. /\ Len(stack') = n - 1
      /\ \A k \in 1..n - 1 : stack'[k] = stack[k]
  BY <1>1, PopShape DEF FinishVisit
<1>3. /\ Len(order') = m + 1
      /\ \A k \in 1..m : order'[k] = order[k]
      /\ order'[m + 1] = Top.job
  BY <1>1, PlaceShape DEF FinishVisit
<1>4. \A i \in Job : mark'[i] = IF i = Top.job THEN "done" ELSE mark[i]
  BY <1>1 DEF FinishVisit, TypeOK
<1> HIDE DEF n, m
<1>5. Placed' = Placed \cup {Top.job}
  <2>1. \A i \in Placed \cup {Top.job} : i \in Placed'
    BY <1>1, <1>3 DEF Placed, m
  <2>2. \A i \in Placed' : i \in Placed \cup {Top.job}
    BY <1>1, <1>3 DEF Placed, m
  <2> QED
    BY <2>1, <2>2
<1>6. Open' = Open \ {Top.job}
  <2>1. \A k, l \in 1..n : stack[k].job = stack[l].job => k = l
    BY DEF SortInv, MarkInv, n
  <2>2. \A i \in Open \ {Top.job} : i \in Open'
    BY <1>1, <1>2 DEF Open, n
  <2>3. \A i \in Open' : i \in Open \ {Top.job}
    BY <1>1, <1>2, <2>1 DEF Open, n
  <2> QED
    BY <2>2, <2>3
<1>7. Top.job \notin Placed
  <2>1. mark[Top.job] = "visiting"
    BY <1>1 DEF SortInv, MarkInv
  <2> QED
    BY <1>1, <2>1 DEF SortInv, MarkInv
<1>8. MarkInv'
  <2>1. \A k, l \in 1..Len(stack') : stack'[k].job = stack'[l].job => k = l
    BY <1>1, <1>2 DEF SortInv, MarkInv, n
  <2>2. \A k, l \in 1..Len(order') : order'[k] = order'[l] => k = l
    <3>1. \A k \in 1..m : order[k] # Top.job
      BY <1>7 DEF Placed, m
    <3> QED
      BY <1>1, <1>3, <3>1 DEF SortInv, MarkInv, m
  <2> QED
    BY <1>4, <1>5, <1>6, <2>1, <2>2 DEF SortInv, MarkInv
<1>9. StackInv'
  <2> SUFFICES ASSUME NEW k \in 1..n - 1 PROVE FrameOK(k)'
    BY <1>2 DEF StackInv
  <2>1. FrameOK(k)
    BY <1>1 DEF SortInv, StackInv, n
  <2>2. CASE k = n - 1
    <3>1. stack[k + 1].job = Top.job /\ stack'[k] = stack[k]
      BY <1>1, <1>2, <2>2
    <3> QED
      BY <1>1, <1>2, <1>5, <2>1, <2>2, <3>1 DEF FrameOK
  <2>3. CASE k < n - 1
    <3>1. k + 1 \in 1..n - 1 /\ k < Len(stack) /\ k < Len(stack')
      BY <1>1, <1>2, <2>3 DEF n
    <3>2. stack'[k] = stack[k] /\ stack'[k + 1] = stack[k + 1]
      BY <1>2, <3>1
    <3> QED
      BY <1>1, <1>5, <2>1, <3>1, <3>2, FrameKept
  <2> QED
    BY <1>1, <2>2, <2>3
<1>10. OrderInv'
  <2>1. needs[Top.job] \subseteq Placed
    BY <1>1 DEF SortInv, StackInv, FrameOK, n
  <2>2. ASSUME NEW k \in 1..m + 1
        PROVE  needs'[order'[k]] \subseteq {order'[l] : l \in 1..k - 1}
    <3>1. CASE k = m + 1
      BY <1>1, <1>3, <2>1, <3>1 DEF Placed, m
    <3>2. CASE k \in 1..m
      <4>1. needs[order[k]] \subseteq {order[l] : l \in 1..k - 1}
        BY <3>2 DEF SortInv, OrderInv, m
      <4> QED
        BY <1>1, <1>3, <3>2, <4>1
    <3> QED
      BY <1>1, <3>1, <3>2
  <2> QED
    BY <1>3, <2>2 DEF OrderInv
<1>11. CursorInv'
  BY <1>1, <1>4 DEF SortInv, CursorInv
<1> QED
  BY <1>1, <1>8, <1>9, <1>10, <1>11 DEF SortInv

\* The jobs on the stack from a rejected need upwards need one another.
LEMMA RejectedIsBad ==
  ASSUME TypeOK, SortInv, NEW dep, RejectNeed(dep)
  PROVE  BadGraph
<1> DEFINE n == Len(stack)
<1>1. /\ stack # <<>> /\ n \in Nat \ {0} /\ Top = stack[n]
      /\ Top.job \in Job /\ dep \in Top.todo
  BY TopType DEF RejectNeed, Top
<1> HIDE DEF n
<1>2. dep \in needs[Top.job] /\ dep \in Job \cup {Unknown}
  <2>1. FrameOK(n)
    BY <1>1 DEF SortInv, StackInv, n
  <2> QED
    BY <1>1, <2>1, TopType DEF FrameOK
<1>3. CASE dep = Unknown
  BY <1>1, <1>2, <1>3 DEF BadGraph
<1>4. CASE dep \in Job
  <2>1. dep \in Open
    BY <1>4 DEF RejectNeed, OnStack, SortInv, MarkInv
  <2>2. PICK p \in 1..n : stack[p].job = dep
    BY <2>1 DEF Open, n
  <2> DEFINE S == {stack[k].job : k \in p..n}
  <2>3. S \in SUBSET Job /\ dep \in S
    BY <1>1, <2>2, FrameType DEF n
  <2>4. ASSUME NEW k \in p..n PROVE needs[stack[k].job] \cap S # {}
    <3>1. CASE k = n
      BY <1>1, <1>2, <2>3, <3>1
    <3>2. CASE k < n
      <4>1. k \in 1..Len(stack) /\ k < Len(stack) /\ k + 1 \in p..n
        BY <1>1, <3>2 DEF n
      <4>2. stack[k + 1].job \in needs[stack[k].job]
        BY <4>1 DEF SortInv, StackInv, FrameOK
      <4> QED
        BY <4>1, <4>2
    <3> QED
      BY <1>1, <3>1, <3>2
  <2>5. Circular(S)
    BY <2>3, <2>4 DEF Circular
  <2> QED
    BY <2>3, <2>5 DEF BadGraph
<1> QED
  BY <1>2, <1>3, <1>4

LEMMA Least ==
  ASSUME NEW T \in SUBSET Nat, T # {}
  PROVE  \E x \in T : \A y \in T : x <= y
<1> DEFINE R == OpToRel(<, Nat)
<1>1. IsWellFoundedOn(R, Nat)
  BY NatLessThanWellFounded, Zenon
<1>2. R = {ss \in Nat \X Nat : ss[1] < ss[2]}
  BY Zenon DEF OpToRel
<1> HIDE DEF R
<1>3. PICK x \in T : \A y \in T : ~(<<y, x>> \in R)
  BY <1>1, WFMin, Zenon
<1>4. \A y \in T : ~(y < x)
  BY <1>2, <1>3
<1> QED
  BY <1>4

LEMMA SortedIsComplete ==
  ASSUME TypeOK, SortInv, stack = <<>>, cursor > N
  PROVE  Placed = Job
<1>1. Open = {}
  BY DEF Open
<1>2. \A j \in Job : mark[j] \in Marks /\ mark[j] # "unvisited" /\ mark[j] # "visiting"
  BY <1>1, NAssumption DEF TypeOK, SortInv, CursorInv, MarkInv, Job
<1>3. \A j \in Job : j \in Placed
  BY <1>2 DEF SortInv, MarkInv, Marks
<1> QED
  BY <1>3, OrderType

\* Of a circular set the job placed first would need one placed earlier.
LEMMA CompleteIsGood ==
  ASSUME TypeOK, OrderInv, Placed = Job
  PROVE  ~BadGraph
<1>1. ASSUME NEW k \in 1..Len(order), NEW d \in needs[order[k]] PROVE d \in Job
  <2>1. PICK l \in 1..k - 1 : d = order[l]
    BY DEF OrderInv
  <2> QED
    BY <2>1, OrderType DEF Placed
<1>2. \A j \in Job : Unknown \notin needs[j]
  BY <1>1, UnknownAssumption DEF Placed
<1>3. ASSUME NEW S \in SUBSET Job, Circular(S) PROVE FALSE
  <2> DEFINE T == {k \in 1..Len(order) : order[k] \in S}
  <2>1. T \in SUBSET Nat /\ T # {}
    BY <1>3 DEF Circular, Placed
  <2>2. PICK k \in T : \A l \in T : k <= l
    BY <2>1, Least
  <2>3. PICK d \in S : d \in needs[order[k]]
    BY <1>3 DEF Circular
  <2>4. PICK l \in 1..k - 1 : d = order[l]
    BY <2>3 DEF OrderInv
  <2>5. l \in T
    BY <2>4, OrderType
  <2> QED
    BY <2>2, <2>4, <2>5, OrderType
<1> QED
  BY <1>2, <1>3 DEF BadGraph

LEMMA SortUntouched ==
  ASSUME UNCHANGED <<needs, sortVars>>, SortInv
  PROVE  /\ MarkInv' /\ StackInv' /\ OrderInv' /\ Placed' = Placed /\ (BadGraph => BadGraph')
         /\ \A j \in Job : j < cursor' => mark'[j] # "unvisited"
<1> USE DEF sortVars, SortInv
<1>1. Placed' = Placed /\ Open' = Open
  BY DEF Placed, Open
<1>2. MarkInv'
  BY <1>1 DEF MarkInv
<1>3. StackInv'
  BY <1>1 DEF StackInv, FrameOK
<1>4. OrderInv'
  BY DEF OrderInv
<1>5. BadGraph => BadGraph'
  BY DEF BadGraph, Circular
<1> QED
  BY <1>1, <1>2, <1>3, <1>4, <1>5 DEF CursorInv

LEMMA SortStepKeeps == ASSUME TypeOK, SortInv, SortStep PROVE SortInv'
<1>1. ASSUME NEW dep, RejectNeed(dep) PROVE SortInv'
  BY <1>1, RejectedIsBad, SortUntouched DEF RejectNeed, SortInv, CursorInv
<1>2. ASSUME Sorted PROVE SortInv'
  <2>1. /\ UNCHANGED <<needs, sortVars>> /\ phase' = "jobs"
        /\ stack' = <<>> /\ cursor' > N
    BY <1>2 DEF Sorted, sortVars
  <2> QED
    BY <2>1, SortUntouched DEF SortInv, CursorInv
<1> QED
  BY <1>1, <1>2, VisitNameStep, VisitNeedStep, FinishStep DEF SortStep

LEMMA OtherStepsKeepSort ==
  ASSUME SortInv, UNCHANGED <<needs, sortVars>>,
         phase' = phase \/ (phase = "jobs" /\ phase' \in {"runError", "report"})
  PROVE  SortInv'
<1>1. CursorInv' /\ (phase' = "sortError" => BadGraph)
  BY SortUntouched DEF SortInv, CursorInv, sortVars
<1> QED
  BY <1>1, SortUntouched DEF SortInv

-----------------------------------------------------------------------------
(* The job loop.                                                           *)

LEMMA AncestorDirect ==
  ASSUME NEW j \in Job, NEW d \in needs[j] \cap Job
  PROVE  d \in Ancestors(j)
BY DEF Ancestors

LEMMA AncestorUp ==
  ASSUME NEW j \in Job, NEW d \in needs[j] \cap Job, NEW a \in Ancestors(d)
  PROVE  a \in Ancestors(j)
BY DEF Ancestors

LEMMA CurrentNeeds ==
  ASSUME TypeOK, SortInv, SettledInv, index <= Len(order)
  PROVE  \A d \in needs[Current] : d \in Job /\ result[d] # "pending"
<1> SUFFICES ASSUME NEW d \in needs[Current] PROVE d \in Job /\ result[d] # "pending"
  OBVIOUS
<1>1. index \in 1..Len(order) /\ Current = order[index]
  BY CurrentType DEF Current
<1>2. PICK l \in 1..index - 1 : d = order[l]
  BY <1>1 DEF SortInv, OrderInv
<1>3. l \in 1..Len(order) /\ ~(l >= index)
  BY <1>1, OrderType
<1> QED
  BY <1>2, <1>3, OrderType DEF SettledInv, Placed

LEMMA SettleStep ==
  ASSUME TypeOK, SortInv, SettledInv, phase = "jobs", index <= Len(order),
         NEW r \in Results, SettleCurrent(r)
  PROVE  /\ SettledInv' /\ result[Current] = "pending" /\ UNCHANGED <<needs, phase, exit>>
         /\ \A j \in Job : result'[j] = IF j = Current THEN r ELSE result[j]
<1>1. /\ index \in 1..Len(order) /\ Current = order[index] /\ Current \in Placed
      /\ Current \in Job /\ index' = index + 1 /\ index \in Nat
      /\ UNCHANGED <<needs, mark, stack, cursor, order, phase, exit>>
  BY CurrentType, OrderType DEF Current, SettleCurrent, sortVars
<1>2. \A j \in Job : result'[j] = IF j = Current THEN r ELSE result[j]
  BY DEF SettleCurrent, TypeOK
<1>3. result[Current] = "pending"
  BY <1>1 DEF SettledInv
<1>4. \A j \in Job : result'[j] # "pending" => j \in Placed'
  BY <1>1, <1>2 DEF SettledInv, Placed
<1>5. ASSUME NEW k \in 1..Len(order) PROVE result'[order[k]] = "pending" <=> k >= index + 1
  <2>1. order[k] \in Job
    BY OrderType DEF Placed
  <2>2. result[order[k]] = "pending" <=> k >= index
    BY DEF SettledInv
  <2>3. k = index <=> order[k] = Current
    BY <1>1 DEF SortInv, MarkInv
  <2> QED
    BY <1>1, <1>2, <2>1, <2>2, <2>3 DEF Results
<1>6. SettledInv'
  BY <1>1, <1>4, <1>5 DEF SettledInv
<1> QED
  BY <1>1, <1>2, <1>3, <1>6

LEMMA SkipStep ==
  ASSUME TypeOK, SortInv, SettledInv, CauseInv, SkipJob
  PROVE  CauseInv' /\ SettledInv'
<1>1. phase = "jobs" /\ index <= Len(order) /\ SettleCurrent("skipped") /\ Current \in Job
  BY CurrentType DEF SkipJob
<1>2. /\ SettledInv' /\ result[Current] = "pending" /\ needs' = needs
      /\ \A j \in Job : result'[j] = IF j = Current THEN "skipped" ELSE result[j]
  BY <1>1, SettleStep DEF Results
<1>3. \A j : Ancestors(j)' = Ancestors(j) /\ Ancestors(j) \subseteq Job
  BY <1>2 DEF Ancestors
<1>4. PICK n \in needs[Current] : n \in Job /\ result[n] \in {"failure", "skipped"}
  <2>1. PICK d \in needs[Current] : result[d] # "success"
    BY DEF SkipJob, Blocked
  <2>2. d \in Job /\ result[d] # "pending"
    BY <1>1, CurrentNeeds
  <2> QED
    BY <2>1, <2>2 DEF TypeOK, Results
<1>5. \E a \in Ancestors(Current) : result[a] = "failure"
  BY <1>1, <1>4, AncestorDirect, AncestorUp DEF CauseInv
<1>6. ASSUME NEW j \in Job, result'[j] \in {"success", "failure"}
      PROVE  \A d \in needs'[j] : d \in Job /\ result'[d] = "success"
  BY <1>2, <1>6 DEF CauseInv
<1>7. ASSUME NEW j \in Job, result'[j] = "skipped"
      PROVE  \E a \in Ancestors(j)' : result'[a] = "failure"
  BY <1>2, <1>3, <1>5, <1>7 DEF CauseInv
<1> QED
  BY <1>2, <1>6, <1>7 DEF CauseInv

LEMMA RunStepCause ==
  ASSUME TypeOK, SortInv, SettledInv, CauseInv, RunMatrix
  PROVE  CauseInv' /\ SettledInv'
<1>1. PICK r \in {"success", "failure"} : SettleCurrent(r)
  BY DEF RunMatrix
<1>2. phase = "jobs" /\ index <= Len(order) /\ Current \in Job
  BY CurrentType DEF RunMatrix
<1>3. /\ SettledInv' /\ result[Current] = "pending" /\ needs' = needs
      /\ \A j \in Job : result'[j] = IF j = Current THEN r ELSE result[j]
  BY <1>1, <1>2, SettleStep DEF Results
<1>4. \A j : Ancestors(j)' = Ancestors(j) /\ Ancestors(j) \subseteq Job
  BY <1>3 DEF Ancestors
<1>5. \A d \in needs[Current] : d \in Job /\ result[d] = "success"
  BY <1>2, CurrentNeeds DEF RunMatrix, Blocked
<1>6. ASSUME NEW j \in Job, result'[j] \in {"success", "failure"}
      PROVE  \A d \in needs'[j] : d \in Job /\ result'[d] = "success"
  BY <1>3, <1>5, <1>6 DEF CauseInv
<1>7. ASSUME NEW j \in Job, result'[j] = "skipped"
      PROVE  \E a \in Ancestors(j)' : result'[a] = "failure"
  BY <1>1, <1>3, <1>4, <1>7 DEF CauseInv
<1> QED
  BY <1>3, <1>6, <1>7 DEF CauseInv

LEMMA CauseUntouched ==
  ASSUME CauseInv, UNCHANGED <<needs, result>>
  PROVE  CauseInv'
BY DEF CauseInv, Ancestors

LEMMA SortStepSettles ==
  ASSUME TypeOK, SettledInv, SortStep
  PROVE  SettledInv' /\ UNCHANGED <<needs, runVars>> /\ phase = "sort"
         /\ phase' \in {"sort", "sortError", "jobs"}
<1>1. /\ UNCHANGED <<needs, runVars>> /\ phase = "sort"
      /\ phase' \in {"sort", "sortError", "jobs"}
  BY DEF SortStep, VisitName, VisitNeed, RejectNeed, FinishVisit, Sorted
<1>2. order' = order \/ \E j \in Job : order' = Append(order, j)
  BY TopType DEF SortStep, VisitName, VisitNeed, RejectNeed, FinishVisit, Sorted, sortVars
<1>3. order' \in Seq(Job)
  BY <1>2, SMTT(30) DEF TypeOK
<1>4. \A j \in Job : result[j] = "pending"
  BY <1>1, OrderType DEF SettledInv, Placed
<1>5. index' = 1 /\ result' = result
  BY <1>1 DEF runVars, SettledInv
<1>6. \A k \in 1..Len(order') : result'[order'[k]] = "pending" /\ k >= index'
  BY <1>3, <1>4, <1>5
<1> QED
  BY <1>1, <1>4, <1>5, <1>6 DEF SettledInv

LEMMA NextStep == IInv /\ [Next]_vars => IInv'
<1> SUFFICES ASSUME IInv, [Next]_vars PROVE IInv'
  OBVIOUS
<1>0. TypeOK' /\ TypeOK /\ SortInv /\ SettledInv /\ CauseInv /\ ExitInv
  BY TypeStep DEF IInv
<1>1. ASSUME UNCHANGED vars PROVE IInv'
  <2>1. /\ UNCHANGED <<needs, sortVars, phase>> /\ UNCHANGED <<needs, result>>
        /\ UNCHANGED <<order, index, exit>>
    BY <1>1 DEF vars, sortVars
  <2>2. SettledInv' /\ ExitInv'
    BY <1>0, <2>1 DEF SettledInv, ExitInv, ExitCode, Placed
  <2> QED
    BY <1>0, <2>1, <2>2, OtherStepsKeepSort, CauseUntouched DEF IInv
<1>2. CASE SortStep
  <2>1. SettledInv' /\ UNCHANGED <<needs, runVars>> /\ phase = "sort"
    BY <1>0, <1>2, SortStepSettles
  <2>2. ExitInv'
    BY <1>0, <2>1 DEF runVars, ExitInv
  <2> QED
    BY <1>0, <1>2, <2>1, <2>2, SortStepKeeps, CauseUntouched DEF IInv, runVars
<1>3. CASE SkipJob \/ RunMatrix
  <2>1. UNCHANGED <<needs, sortVars, phase, exit>> /\ phase = "jobs"
    BY <1>3 DEF SkipJob, RunMatrix, SettleCurrent
  <2>2. ExitInv'
    BY <1>0, <2>1 DEF ExitInv
  <2> QED
    BY <1>0, <1>3, <2>1, <2>2, SkipStep, RunStepCause, OtherStepsKeepSort DEF IInv
<1>4. CASE AbortRun \/ LoopEnds
  <2>1. /\ UNCHANGED <<needs, sortVars>> /\ UNCHANGED <<needs, result>>
        /\ UNCHANGED <<order, index, exit>>
        /\ phase = "jobs" /\ phase' \in {"runError", "report"}
        /\ phase' = "report" => index > Len(order)
    BY <1>4 DEF AbortRun, LoopEnds, sortVars, runVars
  <2>2. SettledInv' /\ ExitInv'
    BY <1>0, <2>1 DEF SettledInv, ExitInv, Placed
  <2> QED
    BY <1>0, <2>1, <2>2, OtherStepsKeepSort, CauseUntouched DEF IInv
<1>5. CASE Report
  <2>1. /\ UNCHANGED <<needs, sortVars, phase>> /\ UNCHANGED <<needs, result>>
        /\ UNCHANGED <<order, index>>
        /\ exit' = ExitCode /\ phase \in {"sortError", "runError", "report"}
    BY <1>5 DEF Report, sortVars
  <2>2. SettledInv' /\ ExitInv'
    BY <1>0, <2>1 DEF SettledInv, ExitInv, ExitCode, Placed
  <2> QED
    BY <1>0, <2>1, <2>2, OtherStepsKeepSort, CauseUntouched DEF IInv
<1> QED
  BY <1>1, <1>2, <1>3, <1>4, <1>5 DEF Next, RunStep, Exited

LEMMA Initially == Init => IInv
<1> SUFFICES ASSUME Init PROVE IInv
  OBVIOUS
<1>1. TypeOK
  BY NAssumption DEF Init, TypeOK, Marks, Phases
<1>2. SortInv
  BY NAssumption DEF Init, SortInv, MarkInv, StackInv, OrderInv, CursorInv, Open, Placed, Job
<1>3. SettledInv /\ CauseInv /\ ExitInv
  BY DEF Init, SettledInv, CauseInv, ExitInv
<1> QED
  BY <1>1, <1>2, <1>3 DEF IInv

-----------------------------------------------------------------------------
(* The theorems.                                                           *)

\* TopoSortJobs and the job loop, for every graph: the marks, the recursion
\* and the order agree, and every result has its cause among the needs.
THEOREM Invariance == Spec => []IInv
BY Initially, NextStep, PTL DEF Spec

\* The variables keep their types: index and cursor stay within the order and
\* the names, the stack holds calls of visit.
THEOREM TypeCorrect == Spec => []TypeOK
<1>1. IInv => TypeOK
  BY DEF IInv
<1> QED
  BY Invariance, <1>1, PTL

\* TopoSortJobs: no job twice, every job after all it needs, and a finished
\* sort has every job.
THEOREM SortsTopologically == Spec => []OrderIsTopological
<1>1. ASSUME IInv PROVE OrderIsTopological
  <2> DEFINE L == Len(order)
  <2>1. TypeOK /\ SortInv /\ L \in Nat
    BY <1>1, OrderType DEF IInv
  <2>2. Cardinality(Placed) = L /\ IsFiniteSet(Placed)
    <3>1. order \in [1..L -> Placed]
      BY <2>1 DEF TypeOK, Placed
    <3>2. order \in Bijection(1..L, Placed)
      BY <2>1, <3>1 DEF SortInv, MarkInv, Placed, Bijection, Injection, Surjection, IsInjective
    <3>3. IsFiniteSet(1..L) /\ Cardinality(1..L) = L
      BY <2>1, FS_Interval, SMTT(30)
    <3> QED
      BY <3>2, <3>3, FS_Bijection DEF ExistsBijection
  <2>3. phase = "jobs" => L = N
    <3>1. Cardinality(Job) = N
      BY NAssumption, FS_Interval DEF Job
    <3> QED
      BY <2>1, <2>2, <3>1, SortedIsComplete DEF SortInv, CursorInv
  <2> QED
    BY <2>1, <2>2, <2>3 DEF OrderIsTopological, SortInv, OrderInv, Placed
<1> QED
  BY Invariance, <1>1, PTL

\* TopoSortJobs fails on a circular or unknown dependency and on nothing else.
THEOREM SortIsExact == Spec => []SortRejectsExactlyBadGraphs
<1>1. ASSUME IInv PROVE SortRejectsExactlyBadGraphs
  BY <1>1, SortedIsComplete, CompleteIsGood
     DEF IInv, SortInv, CursorInv, SortRejectsExactlyBadGraphs
<1> QED
  BY Invariance, <1>1, PTL

LEMMA CauseMeansDownstream == ASSUME CauseInv PROVE SkipsExactlyDownstream
<1>1. ASSUME NEW j \in Job, result[j] \in {"success", "failure"}, NEW a \in Ancestors(j)
      PROVE  result[a] = "success"
  <2> DEFINE S == {k \in Job : result[k] = "success"}
  <2>1. needs[j] \cap Job \subseteq S /\ \A k \in S : needs[k] \cap Job \subseteq S
    BY <1>1 DEF CauseInv
  <2> QED
    BY <1>1, <2>1 DEF Ancestors
<1> QED
  BY <1>1 DEF CauseInv, SkipsExactlyDownstream

\* The job loop: a failure reaches every job downstream of it and no other.
THEOREM FailureReachesDownstream == Spec => []SkipsExactlyDownstream
<1>1. IInv => SkipsExactlyDownstream
  BY CauseMeansDownstream DEF IInv
<1> QED
  BY Invariance, <1>1, PTL

\* runCommand looks for failures only, and exit code 0 still promises that
\* every job ran to success.
THEOREM ZeroIsSuccess == Spec => []ZeroMeansAllSucceeded
<1>1. ASSUME IInv, exit = 0, NEW j \in Job PROVE result[j] = "success"
  <2>1. phase = "report" /\ \A i \in Job : result[i] # "failure"
    BY <1>1 DEF IInv, ExitInv, ExitCode
  <2>2. j \in Placed
    BY <1>1, <2>1, SortedIsComplete DEF IInv, SortInv, CursorInv
  <2>3. result[j] # "pending"
    BY <1>1, <2>1, <2>2, OrderType DEF IInv, SettledInv, Placed
  <2>4. Ancestors(j) \subseteq Job
    BY DEF Ancestors
  <2>5. result[j] # "skipped"
    BY <1>1, <2>1, <2>4 DEF IInv, CauseInv
  <2> QED
    BY <1>1, <2>1, <2>3, <2>5 DEF IInv, TypeOK, Results
<1>2. IInv => ZeroMeansAllSucceeded
  BY <1>1 DEF ZeroMeansAllSucceeded
<1> QED
  BY Invariance, <1>2, PTL

-----------------------------------------------------------------------------
(* WorkflowRun implements DependencyRun.                                   *)

LEMMA InitRefines == Init => Needs!Init
BY GraphsAssumption DEF Init, Needs!Init

LEMMA StepRefines == IInv /\ [Next]_vars => [Needs!Next]_<<needs, result>>
<1> SUFFICES ASSUME IInv, [Next]_vars PROVE Needs!Next \/ UNCHANGED <<needs, result>>
  OBVIOUS
<1>1. CASE SkipJob
  <2>1. phase = "jobs" /\ index <= Len(order) /\ SettleCurrent("skipped") /\ Current \in Job
    BY <1>1, CurrentType DEF SkipJob, IInv
  <2>2. \A d \in needs[Current] : d \in Job /\ result[d] # "pending"
    BY <2>1, CurrentNeeds DEF IInv
  <2>3. \A d \in needs[Current] : Needs!Settled(d)
    BY <2>2 DEF Needs!Settled, Needs!Results, IInv, TypeOK, Results
  <2>4. \E d \in needs[Current] : ~Needs!Succeeded(d)
    BY <1>1 DEF SkipJob, Blocked, Needs!Succeeded
  <2>5. result[Current] = "pending"
    BY <2>1, SettleStep DEF IInv, Results
  <2> QED
    BY <2>1, <2>3, <2>4, <2>5 DEF SettleCurrent, Needs!Next, Needs!Skip
<1>2. CASE RunMatrix
  <2>1. PICK r \in {"success", "failure"} : SettleCurrent(r)
    BY <1>2 DEF RunMatrix
  <2>2. phase = "jobs" /\ index <= Len(order) /\ Current \in Job
    BY <1>2, CurrentType DEF RunMatrix, IInv
  <2>3. \A d \in needs[Current] : Needs!Succeeded(d)
    BY <1>2, <2>2, CurrentNeeds DEF IInv, RunMatrix, Blocked, Needs!Succeeded
  <2>4. result[Current] = "pending"
    BY <2>1, <2>2, SettleStep DEF IInv, Results
  <2> QED
    BY <2>1, <2>2, <2>3, <2>4 DEF SettleCurrent, Needs!Next, Needs!Run
<1>3. CASE SortStep
  BY <1>3, SortStepSettles DEF IInv, runVars
<1>4. CASE AbortRun \/ LoopEnds \/ Report \/ Exited \/ UNCHANGED vars
  BY <1>4 DEF AbortRun, LoopEnds, Report, Exited, vars, runVars
<1> QED
  BY <1>1, <1>2, <1>3, <1>4 DEF Next, RunStep

\* Sorting first and running one job after the other respects `needs:`: every
\* step of RunWorkflow is one that DependencyRun allows, or settles nothing.
THEOREM Refinement == Spec => RespectsNeeds
BY Invariance, InitRefines, StepRefines, PTL DEF Spec, RespectsNeeds, Needs!Spec, Needs!vars
=============================================================================
