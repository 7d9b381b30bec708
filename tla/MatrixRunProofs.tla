-------------------------- MODULE MatrixRunProofs ---------------------------
(***************************************************************************)
(* Theorems about the matrix fan-out for every number of combinations,     *)
(* every set of groups and every set of job configurations.                *)
(***************************************************************************)
EXTENDS MatrixRun, FiniteSetTheorems, TLAPS

-----------------------------------------------------------------------------
(* The parts of the inductive invariant behind the properties above.       *)

\* The semaphore counts the goroutines between its send and its receive.
SemInv == sem = Cardinality(Holders) /\ sem <= SemCapacity

\* Start channels are closed in index order, each after its semaphore send.
ChainInv ==
  /\ \A i, j \in Combos : pc[i] # "turn" /\ j < i => j \in started
  /\ \A j \in started : pc[j] \notin {"turn", "queued", "signal"}

\* A group that acquire sees was evaluated, and a release closure exists
\* only between acquire and its call.
ClosureInv ==
  \A i \in Combos :
    /\ pc[i] \in {"acquire", "select", "run", "exec", "record", "release"}
         => job.groupOf[i] \in Groups \cup {NoGroup}
    /\ pc[i] \notin {"select", "run", "exec", "record", "release"}
         => release[i] = "none"
    /\ release[i] \in {"slot", "gen"}
         => group[i] \in Groups /\ group[i] = job.groupOf[i]
    /\ release[i] = "gen" => job.preempt

\* A taken slot has exactly one owner, and a combination that went on
\* without its slot has a context that is done.
SlotInv ==
  /\ \A i \in Combos : release[i] = "slot" => slots[group[i]] = 1
  /\ \A i, j \in Combos :
       release[i] = "slot" /\ release[j] = "slot" /\ group[i] = group[j] => i = j
  /\ \A g \in Groups :
       slots[g] = 1 => \E i \in Combos : release[i] = "slot" /\ group[i] = g
  /\ \A i \in Combos :
       ~job.preempt /\ job.groupOf[i] \in Groups =>
         /\ pc[i] \in {"select", "run"} => release[i] = "slot" \/ ctxDone[i]
         /\ pc[i] = "exec" => release[i] = "slot"

\* Before acquire only a timer can have ended a context, a registration is
\* live, and the entries of cancel and gen come and go together.
GenInv ==
  /\ RegistrationIsLive
  /\ \A g \in Groups : cancel[g] = None => gen[g] = 0
  /\ \A i \in Combos :
       pc[i] \in {"turn", "queued", "signal", "check", "setup", "acquire"}
         => (ctxDone[i] => job.timeout)

\* The fail-fast flag says that some combination failed.
FlagInv ==
  /\ stopStartingNew <=> job.failFast /\ comboFailed # {}
  /\ comboSkipped # {} => stopStartingNew

\* What has become of each combination.
OutcomeInv ==
  \A i \in Combos :
    /\ i \in comboSkipped => pc[i] \in {"leave", "done"} /\ outcome[i] = None
    /\ pc[i] \in {"record", "release", "leave", "done"} /\ i \notin comboSkipped
         <=> outcome[i] # None
    /\ i \in comboFailed <=>
         pc[i] \in {"release", "leave", "done"} /\ outcome[i] = "failure"

\* firstErr is set exactly when some combination came to an error.
FirstErrInv ==
  firstErr # None <=>
    \E i \in Combos :
      pc[i] \in {"release", "leave", "done"} /\ outcome[i] = "error"

\* The verdict is given after the last goroutine is done.
VerdictInv ==
  verdict # "running" =>
    verdict = Conclusion /\ \A i \in Combos : pc[i] = "done"

ResultInv == FlagInv /\ OutcomeInv /\ FirstErrInv /\ VerdictInv

IInv == /\ TypeOK /\ SemInv /\ ChainInv /\ ClosureInv
        /\ SlotInv /\ GenInv /\ ResultInv /\ FailFastDrains

-----------------------------------------------------------------------------
(* Facts about finite sets of combinations.                                *)

\* Any set of combinations is finite, so its cardinality is a number.
LEMMA CombosFinite ==
  ASSUME NEW S \in SUBSET Combos
  PROVE  IsFiniteSet(S) /\ Cardinality(S) \in Nat
<1>1. IsFiniteSet(Combos)
  BY NAssumption, FS_Interval DEF Combos
<1>2. IsFiniteSet(S)
  BY <1>1, FS_Subset
<1> QED
  BY <1>2, FS_CardinalityType

\* The set of holders, and of workers, after goroutine i moves to b.
LEMMA MoveSets ==
  ASSUME pc \in [Combos -> Places], NEW i \in Combos, NEW a, NEW b, Goto(i, a, b)
  PROVE  /\ Holders' = IF b \in Holding THEN Holders \cup {i} ELSE Holders \ {i}
         /\ Workers' = IF b \in Working THEN Workers \cup {i} ELSE Workers \ {i}
         /\ (i \in Holders) <=> (a \in Holding)
         /\ (i \in Workers) <=> (a \in Working)
BY DEF Goto, Holders, Workers

\* The semaphore always has room for at least one combination.
LEMMA CapacityType ==
  ASSUME job \in Jobs
  PROVE  SemCapacity \in Nat \ {0}
BY NAssumption, JobsAssumption DEF SemCapacity, JobType

-----------------------------------------------------------------------------
(* Types.  The only conjunct that needs an argument is sem \in Nat: a      *)
(* goroutine receives from the semaphore only after it has sent to it.     *)

LEMMA TypeInit == Init => TypeOK
<1> SUFFICES ASSUME Init PROVE TypeOK
  OBVIOUS
<1>1. Sched!SchedTypeOK
  BY DEF Init, Sched!SchedInit, Sched!SchedTypeOK, Sched!Closures
<1> QED
  BY <1>1 DEF Init, TypeOK, Places, Outcomes

\* Every action leaves the scheduler's variables in their types.
LEMMA SchedTypeStep ==
  ASSUME TypeOK, NEW i \in Combos,
         \/ UNCHANGED schedVars
         \/ Sched!AcquireNothing(i)
         \/ \E g \in Groups : \/ Sched!AcquireSlot(i, g) \/ Sched!GiveUp(i, g)
                              \/ Sched!Supersede(i, g)
         \/ Sched!ContextEnds(i)
         \/ Sched!Release(i)
  PROVE  Sched!SchedTypeOK'
<1> USE DEF TypeOK, Sched!SchedTypeOK, Sched!Closures
<1>1. CASE UNCHANGED schedVars
  BY <1>1 DEF schedVars
<1>2. CASE Sched!AcquireNothing(i)
  BY <1>2 DEF Sched!AcquireNothing
<1>3. ASSUME NEW g \in Groups, Sched!AcquireSlot(i, g) PROVE Sched!SchedTypeOK'
  BY <1>3 DEF Sched!AcquireSlot
<1>4. ASSUME NEW g \in Groups, Sched!GiveUp(i, g) PROVE Sched!SchedTypeOK'
  BY <1>4 DEF Sched!GiveUp
<1>5. ASSUME NEW g \in Groups, Sched!Supersede(i, g) PROVE Sched!SchedTypeOK'
  BY <1>5 DEF Sched!Supersede
<1>6. CASE Sched!ContextEnds(i)
  BY <1>6 DEF Sched!ContextEnds
<1>7. CASE Sched!Release(i)
  <2>1. CASE Sched!ReleaseSlot(i)
    <3>1. 0 \in 0..1 /\ slots \in [Groups -> 0..1]
      OBVIOUS
    <3>2. \A g \in Groups : slots'[g] \in 0..1
      BY <2>1, <3>1 DEF Sched!ReleaseSlot
    <3>3. slots' = [g \in Groups |-> slots'[g]]
      BY <2>1, <3>1 DEF Sched!ReleaseSlot
    <3> QED
      BY <2>1, <3>2, <3>3 DEF Sched!ReleaseSlot
  <2>2. CASE Sched!ReleaseGen(i)
    BY <2>2 DEF Sched!ReleaseGen
  <2>3. CASE Sched!ReleaseNoop(i)
    BY <2>3 DEF Sched!ReleaseNoop
  <2> QED
    BY <1>7, <2>1, <2>2, <2>3 DEF Sched!Release
<1> QED
  BY <1>1, <1>2, <1>3, <1>4, <1>5, <1>6, <1>7

\* Goroutine i holds a token when it receives from the semaphore.
LEMMA TokenHeld ==
  ASSUME TypeOK, SemInv, NEW i \in Combos, pc[i] = "leave"
  PROVE  sem \in Nat \ {0}
<1>1. i \in Holders /\ Holders \in SUBSET Combos
  BY DEF Holders, Holding
<1>2. IsFiniteSet(Holders) /\ Cardinality(Holders) \in Nat
  BY <1>1, CombosFinite
<1>3. Cardinality(Holders) # 0
  BY <1>1, <1>2, FS_EmptySet
<1> QED
  BY <1>2, <1>3 DEF SemInv

\* What acquire does to the scheduler is one of its four paths.
LEMMA AcquireSchedStep ==
  ASSUME ClosureInv, NEW i \in Combos, Acquire(i)
  PROVE  \/ Sched!AcquireNothing(i)
         \/ \E g \in Groups : \/ Sched!AcquireSlot(i, g) \/ Sched!GiveUp(i, g)
                              \/ Sched!Supersede(i, g)
<1>1. job.groupOf[i] \in Groups \cup {NoGroup}
  BY DEF ClosureInv, Acquire, Goto
<1> QED
  BY <1>1 DEF Acquire

LEMMA TypeStep ==
  ASSUME TypeOK, SemInv, ClosureInv, [Next]_vars
  PROVE  TypeOK'
<1> USE DEF TypeOK, Places, Holding, Outcomes
<1>1. ASSUME NEW i \in Combos, AwaitTurn(i) PROVE TypeOK'
  BY <1>1, SchedTypeStep DEF AwaitTurn, Goto, loopVars
<1>2. ASSUME NEW i \in Combos, TakeSemaphore(i) PROVE TypeOK'
  BY <1>2, SchedTypeStep DEF TakeSemaphore, Goto, loopVars
<1>3. ASSUME NEW i \in Combos, SignalNext(i) PROVE TypeOK'
  BY <1>3, SchedTypeStep DEF SignalNext, Goto, loopVars
<1>4. ASSUME NEW i \in Combos, SkipCombination(i) PROVE TypeOK'
  BY <1>4, SchedTypeStep DEF SkipCombination, Goto
<1>5. ASSUME NEW i \in Combos, PassCheck(i) PROVE TypeOK'
  BY <1>5, SchedTypeStep DEF PassCheck, Goto, loopVars
<1>6. ASSUME NEW i \in Combos, EvaluateGroup(i) PROVE TypeOK'
  BY <1>6, SchedTypeStep DEF EvaluateGroup, NoteError, Goto, loopVars
<1>7. ASSUME NEW i \in Combos, Acquire(i) PROVE TypeOK'
  BY <1>7, AcquireSchedStep, SchedTypeStep DEF Acquire, Goto, loopVars
<1>8. ASSUME NEW i \in Combos, SelectBackend(i) PROVE TypeOK'
  BY <1>8, SchedTypeStep DEF SelectBackend, NoteError, Goto, loopVars
<1>9. ASSUME NEW i \in Combos, Record(i) PROVE TypeOK'
  BY <1>9, SchedTypeStep DEF Record, Goto
<1>10. ASSUME NEW i \in Combos, CallRelease(i) PROVE TypeOK'
  BY <1>10, SchedTypeStep DEF CallRelease, Goto, loopVars
<1>11. ASSUME NEW i \in Combos, LeaveSemaphore(i) PROVE TypeOK'
  <2>1. pc[i] = "leave"
    BY <1>11 DEF LeaveSemaphore, Goto
  <2>2. sem - 1 \in Nat
    BY <2>1, TokenHeld
  <2> QED
    BY <1>11, <2>2, SchedTypeStep DEF LeaveSemaphore, Goto, loopVars
<1>12. ASSUME NEW i \in Combos, RunStep(i) PROVE TypeOK'
  BY <1>12, SchedTypeStep DEF RunStep, Goto, loopVars
<1>13. ASSUME NEW i \in Combos, StepEnds(i) PROVE TypeOK'
  BY <1>13, SchedTypeStep DEF StepEnds, Goto, loopVars
<1>14. ASSUME NEW i \in Combos, JobReturns(i) PROVE TypeOK'
  BY <1>14, SchedTypeStep DEF JobReturns, Goto, loopVars
<1>15. ASSUME NEW i \in Combos, Timeout(i) PROVE TypeOK'
  BY <1>15, SchedTypeStep DEF Timeout, loopVars
<1>16. CASE Aggregate
  BY <1>16 DEF Aggregate, Conclusion, loopVars, schedVars, Sched!SchedTypeOK
<1>17. CASE UNCHANGED vars
  BY <1>17 DEF vars, loopVars, schedVars, Sched!SchedTypeOK
<1> QED
  BY <1>1, <1>2, <1>3, <1>4, <1>5, <1>6, <1>7, <1>8, <1>9, <1>10, <1>11,
     <1>12, <1>13, <1>14, <1>15, <1>16, <1>17
     DEF Next, FanOutStep, Returned

-----------------------------------------------------------------------------
(* The semaphore.                                                          *)

\* A move between two places that both hold, or both do not hold, a token.
LEMMA SemKept ==
  ASSUME TypeOK, SemInv, job' = job, sem' = sem,
         NEW i \in Combos, NEW a \in Places, NEW b \in Places, Goto(i, a, b),
         a \in Holding <=> b \in Holding
  PROVE  SemInv'
<1>1. Holders' = Holders
  BY MoveSets DEF TypeOK, Holders
<1> QED
  BY <1>1 DEF SemInv, SemCapacity

LEMMA SemStep ==
  ASSUME TypeOK, SemInv, [Next]_vars
  PROVE  SemInv'
<1> USE DEF Places, Holding
<1>1. ASSUME NEW i \in Combos, AwaitTurn(i) PROVE SemInv'
  BY <1>1, SemKept DEF AwaitTurn
<1>2. ASSUME NEW i \in Combos, TakeSemaphore(i) PROVE SemInv'
  <2>1. Goto(i, "queued", "signal") /\ sem < SemCapacity /\ sem' = sem + 1 /\ job' = job
    BY <1>2 DEF TakeSemaphore, SemHasRoom
  <2>2. Holders' = Holders \cup {i} /\ i \notin Holders
    BY <2>1, MoveSets DEF TypeOK
  <2>3. Holders \in SUBSET Combos /\ IsFiniteSet(Holders) /\ Cardinality(Holders) \in Nat
    BY CombosFinite DEF Holders
  <2>4. Cardinality(Holders') = Cardinality(Holders) + 1
    BY <2>2, <2>3, FS_AddElement
  <2>5. SemCapacity \in Nat /\ SemCapacity' = SemCapacity
    BY <2>1, CapacityType DEF TypeOK, SemCapacity
  <2> QED
    BY <2>1, <2>3, <2>4, <2>5 DEF SemInv, TypeOK
<1>3. ASSUME NEW i \in Combos, SignalNext(i) PROVE SemInv'
  BY <1>3, SemKept DEF SignalNext
<1>4. ASSUME NEW i \in Combos, SkipCombination(i) PROVE SemInv'
  BY <1>4, SemKept DEF SkipCombination
<1>5. ASSUME NEW i \in Combos, PassCheck(i) PROVE SemInv'
  BY <1>5, SemKept DEF PassCheck
<1>6. ASSUME NEW i \in Combos, EvaluateGroup(i) PROVE SemInv'
  BY <1>6, SemKept DEF EvaluateGroup
<1>7. ASSUME NEW i \in Combos, Acquire(i) PROVE SemInv'
  BY <1>7, SemKept DEF Acquire
<1>8. ASSUME NEW i \in Combos, SelectBackend(i) PROVE SemInv'
  BY <1>8, SemKept DEF SelectBackend
<1>9. ASSUME NEW i \in Combos, Record(i) PROVE SemInv'
  BY <1>9, SemKept DEF Record
<1>10. ASSUME NEW i \in Combos, CallRelease(i) PROVE SemInv'
  BY <1>10, SemKept DEF CallRelease
<1>11. ASSUME NEW i \in Combos, LeaveSemaphore(i) PROVE SemInv'
  <2>1. Goto(i, "leave", "done") /\ sem' = sem - 1 /\ job' = job
    BY <1>11 DEF LeaveSemaphore
  <2>2. Holders' = Holders \ {i} /\ i \in Holders
    BY <2>1, MoveSets DEF TypeOK
  <2>3. Holders \in SUBSET Combos /\ IsFiniteSet(Holders) /\ Cardinality(Holders) \in Nat
    BY CombosFinite DEF Holders
  <2>4. Cardinality(Holders') = Cardinality(Holders) - 1
    BY <2>2, <2>3, FS_RemoveElement
  <2>5. SemCapacity \in Nat /\ SemCapacity' = SemCapacity
    BY <2>1, CapacityType DEF TypeOK, SemCapacity
  <2> QED
    BY <2>1, <2>3, <2>4, <2>5 DEF SemInv, TypeOK
<1>12. ASSUME NEW i \in Combos, RunStep(i) PROVE SemInv'
  BY <1>12, SemKept DEF RunStep
<1>13. ASSUME NEW i \in Combos, StepEnds(i) PROVE SemInv'
  BY <1>13, SemKept DEF StepEnds
<1>14. ASSUME NEW i \in Combos, JobReturns(i) PROVE SemInv'
  BY <1>14, SemKept DEF JobReturns
<1>15. CASE UNCHANGED <<job, pc, sem>>
  BY <1>15 DEF SemInv, SemCapacity, Holders
<1> QED
  BY <1>1, <1>2, <1>3, <1>4, <1>5, <1>6, <1>7, <1>8, <1>9, <1>10, <1>11,
     <1>12, <1>13, <1>14, <1>15
     DEF Next, FanOutStep, Returned, Timeout, Aggregate, vars

-----------------------------------------------------------------------------
(* The start chain.                                                        *)

LEMMA ChainStep ==
  ASSUME TypeOK, ChainInv, [Next]_vars
  PROVE  ChainInv'
<1> USE DEF TypeOK, ChainInv, Goto
<1>1. ASSUME NEW i \in Combos, AwaitTurn(i) PROVE ChainInv'
  <2>1. \A j \in Combos : j < i => j \in started
    <3> SUFFICES ASSUME NEW j \in Combos, j < i PROVE j \in started
      OBVIOUS
    <3>1. i - 1 \in started /\ i - 1 \in Combos
      BY <1>1 DEF AwaitTurn, MyTurn, Combos
    <3>2. pc[i - 1] # "turn"
      BY <3>1
    <3> QED
      BY <3>1, <3>2, NAssumption DEF Combos
  <2> QED
    BY <1>1, <2>1 DEF AwaitTurn
<1>2. ASSUME NEW i \in Combos, TakeSemaphore(i) PROVE ChainInv'
  BY <1>2 DEF TakeSemaphore
<1>3. ASSUME NEW i \in Combos, SignalNext(i) PROVE ChainInv'
  BY <1>3 DEF SignalNext
<1>4. ASSUME NEW i \in Combos, SkipCombination(i) PROVE ChainInv'
  BY <1>4 DEF SkipCombination
<1>5. ASSUME NEW i \in Combos, PassCheck(i) PROVE ChainInv'
  BY <1>5 DEF PassCheck
<1>6. ASSUME NEW i \in Combos, EvaluateGroup(i) PROVE ChainInv'
  BY <1>6 DEF EvaluateGroup
<1>7. ASSUME NEW i \in Combos, Acquire(i) PROVE ChainInv'
  BY <1>7 DEF Acquire
<1>8. ASSUME NEW i \in Combos, SelectBackend(i) PROVE ChainInv'
  BY <1>8 DEF SelectBackend
<1>9. ASSUME NEW i \in Combos, Record(i) PROVE ChainInv'
  BY <1>9 DEF Record
<1>10. ASSUME NEW i \in Combos, CallRelease(i) PROVE ChainInv'
  BY <1>10 DEF CallRelease
<1>11. ASSUME NEW i \in Combos, LeaveSemaphore(i) PROVE ChainInv'
  BY <1>11 DEF LeaveSemaphore
<1>12. ASSUME NEW i \in Combos, RunStep(i) PROVE ChainInv'
  BY <1>12 DEF RunStep
<1>13. ASSUME NEW i \in Combos, StepEnds(i) PROVE ChainInv'
  BY <1>13 DEF StepEnds
<1>14. ASSUME NEW i \in Combos, JobReturns(i) PROVE ChainInv'
  BY <1>14 DEF JobReturns
<1>15. CASE UNCHANGED <<pc, started>>
  BY <1>15
<1> QED
  BY <1>1, <1>2, <1>3, <1>4, <1>5, <1>6, <1>7, <1>8, <1>9, <1>10, <1>11,
     <1>12, <1>13, <1>14, <1>15
     DEF Next, FanOutStep, Returned, Timeout, Aggregate, vars

-----------------------------------------------------------------------------
(* Release closures.                                                       *)

LEMMA ClosureStep ==
  ASSUME TypeOK, ClosureInv, [Next]_vars
  PROVE  ClosureInv'
<1> USE DEF TypeOK, Sched!SchedTypeOK, ClosureInv, Goto, schedVars
<1>1. ASSUME NEW i \in Combos, AwaitTurn(i) PROVE ClosureInv'
  BY <1>1 DEF AwaitTurn
<1>2. ASSUME NEW i \in Combos, TakeSemaphore(i) PROVE ClosureInv'
  BY <1>2 DEF TakeSemaphore
<1>3. ASSUME NEW i \in Combos, SignalNext(i) PROVE ClosureInv'
  BY <1>3 DEF SignalNext
<1>4. ASSUME NEW i \in Combos, SkipCombination(i) PROVE ClosureInv'
  BY <1>4 DEF SkipCombination
<1>5. ASSUME NEW i \in Combos, PassCheck(i) PROVE ClosureInv'
  BY <1>5 DEF PassCheck
<1>6. ASSUME NEW i \in Combos, EvaluateGroup(i) PROVE ClosureInv'
  BY <1>6, JobsAssumption DEF EvaluateGroup, JobType
<1>7. ASSUME NEW i \in Combos, Acquire(i) PROVE ClosureInv'
  BY <1>7, ValuesAssumption
     DEF Acquire, Sched!AcquireNothing, Sched!AcquireSlot, Sched!GiveUp,
         Sched!Supersede
<1>8. ASSUME NEW i \in Combos, SelectBackend(i) PROVE ClosureInv'
  BY <1>8 DEF SelectBackend
<1>9. ASSUME NEW i \in Combos, Record(i) PROVE ClosureInv'
  BY <1>9 DEF Record
<1>10. ASSUME NEW i \in Combos, CallRelease(i) PROVE ClosureInv'
  BY <1>10 DEF CallRelease, Sched!Release, Sched!ReleaseSlot,
               Sched!ReleaseGen, Sched!ReleaseNoop
<1>11. ASSUME NEW i \in Combos, LeaveSemaphore(i) PROVE ClosureInv'
  BY <1>11 DEF LeaveSemaphore
<1>12. ASSUME NEW i \in Combos, RunStep(i) PROVE ClosureInv'
  BY <1>12 DEF RunStep
<1>13. ASSUME NEW i \in Combos, StepEnds(i) PROVE ClosureInv'
  BY <1>13 DEF StepEnds
<1>14. ASSUME NEW i \in Combos, JobReturns(i) PROVE ClosureInv'
  BY <1>14 DEF JobReturns
<1>15. ASSUME NEW i \in Combos, Timeout(i) PROVE ClosureInv'
  BY <1>15 DEF Timeout, Sched!ContextEnds
<1>16. CASE UNCHANGED <<job, pc, schedVars>>
  BY <1>16
<1> QED
  BY <1>1, <1>2, <1>3, <1>4, <1>5, <1>6, <1>7, <1>8, <1>9, <1>10, <1>11,
     <1>12, <1>13, <1>14, <1>15, <1>16
     DEF Next, FanOutStep, Returned, Aggregate, vars

-----------------------------------------------------------------------------
(* Queueing groups: slots and their owners.                                *)

\* A slot that acquire finds free is owned by nobody, a slot that a release
\* frees was owned by the caller alone.
LEMMA SlotStep ==
  ASSUME TypeOK, ClosureInv, SlotInv, [Next]_vars
  PROVE  SlotInv'
<1> USE DEF TypeOK, Sched!SchedTypeOK, ClosureInv, SlotInv, Goto, schedVars
<1>1. ASSUME NEW i \in Combos, AwaitTurn(i) PROVE SlotInv'
  BY <1>1 DEF AwaitTurn
<1>2. ASSUME NEW i \in Combos, TakeSemaphore(i) PROVE SlotInv'
  BY <1>2 DEF TakeSemaphore
<1>3. ASSUME NEW i \in Combos, SignalNext(i) PROVE SlotInv'
  BY <1>3 DEF SignalNext
<1>4. ASSUME NEW i \in Combos, SkipCombination(i) PROVE SlotInv'
  BY <1>4 DEF SkipCombination
<1>5. ASSUME NEW i \in Combos, PassCheck(i) PROVE SlotInv'
  BY <1>5 DEF PassCheck
<1>6. ASSUME NEW i \in Combos, EvaluateGroup(i) PROVE SlotInv'
  BY <1>6 DEF EvaluateGroup
<1>7. ASSUME NEW i \in Combos, Acquire(i) PROVE SlotInv'
  <2>1. CASE Sched!AcquireNothing(i) /\ job.groupOf[i] = NoGroup
    BY <1>7, <2>1, ValuesAssumption DEF Acquire, Sched!AcquireNothing
  <2>2. ASSUME NEW g \in Groups, Sched!AcquireSlot(i, g), g = job.groupOf[i]
        PROVE  SlotInv'
    BY <1>7, <2>2 DEF Acquire, Sched!AcquireSlot, Sched!SlotFree
  <2>3. ASSUME NEW g \in Groups, Sched!GiveUp(i, g), g = job.groupOf[i]
        PROVE  SlotInv'
    BY <1>7, <2>3 DEF Acquire, Sched!GiveUp
  <2>4. ASSUME NEW g \in Groups, Sched!Supersede(i, g), job.preempt
        PROVE  SlotInv'
    BY <1>7, <2>4 DEF Acquire, Sched!Supersede
  <2>5. job.groupOf[i] \in Groups \cup {NoGroup}
    BY <1>7 DEF Acquire
  <2> QED
    BY <1>7, <2>1, <2>2, <2>3, <2>4, <2>5 DEF Acquire
<1>8. ASSUME NEW i \in Combos, SelectBackend(i) PROVE SlotInv'
  BY <1>8 DEF SelectBackend
<1>9. ASSUME NEW i \in Combos, Record(i) PROVE SlotInv'
  BY <1>9 DEF Record
<1>10. ASSUME NEW i \in Combos, CallRelease(i) PROVE SlotInv'
  <2>1. CASE Sched!ReleaseSlot(i)
    BY <1>10, <2>1 DEF CallRelease, Sched!ReleaseSlot
  <2>2. CASE Sched!ReleaseGen(i)
    BY <1>10, <2>2 DEF CallRelease, Sched!ReleaseGen
  <2>3. CASE Sched!ReleaseNoop(i)
    BY <1>10, <2>3 DEF CallRelease, Sched!ReleaseNoop
  <2> QED
    BY <1>10, <2>1, <2>2, <2>3 DEF CallRelease, Sched!Release
<1>11. ASSUME NEW i \in Combos, LeaveSemaphore(i) PROVE SlotInv'
  BY <1>11 DEF LeaveSemaphore
<1>12. ASSUME NEW i \in Combos, RunStep(i) PROVE SlotInv'
  BY <1>12 DEF RunStep, MayExec
<1>13. ASSUME NEW i \in Combos, StepEnds(i) PROVE SlotInv'
  BY <1>13 DEF StepEnds
<1>14. ASSUME NEW i \in Combos, JobReturns(i) PROVE SlotInv'
  BY <1>14 DEF JobReturns
<1>15. ASSUME NEW i \in Combos, Timeout(i) PROVE SlotInv'
  BY <1>15 DEF Timeout, Sched!ContextEnds
<1>16. CASE Aggregate
  BY <1>16 DEF Aggregate
<1>17. CASE UNCHANGED vars
  BY <1>17 DEF vars
<1> QED
  BY <1>1, <1>2, <1>3, <1>4, <1>5, <1>6, <1>7, <1>8, <1>9, <1>10, <1>11,
     <1>12, <1>13, <1>14, <1>15, <1>16, <1>17
     DEF Next, FanOutStep, Returned

-----------------------------------------------------------------------------
(* Preempting groups: registrations and generations.                       *)

\* A registration disappears with its owner's release and is replaced by a
\* newer one, so it always belongs to a combination that still holds.
LEMMA GenStep ==
  ASSUME TypeOK, ClosureInv, GenInv, [Next]_vars
  PROVE  GenInv'
<1> USE DEF TypeOK, Sched!SchedTypeOK, ClosureInv, GenInv,
            RegistrationIsLive, Goto, schedVars
<1>1. ASSUME NEW i \in Combos, AwaitTurn(i) PROVE GenInv'
  BY <1>1 DEF AwaitTurn
<1>2. ASSUME NEW i \in Combos, TakeSemaphore(i) PROVE GenInv'
  BY <1>2 DEF TakeSemaphore
<1>3. ASSUME NEW i \in Combos, SignalNext(i) PROVE GenInv'
  BY <1>3 DEF SignalNext
<1>4. ASSUME NEW i \in Combos, SkipCombination(i) PROVE GenInv'
  BY <1>4 DEF SkipCombination
<1>5. ASSUME NEW i \in Combos, PassCheck(i) PROVE GenInv'
  BY <1>5 DEF PassCheck
<1>6. ASSUME NEW i \in Combos, EvaluateGroup(i) PROVE GenInv'
  BY <1>6 DEF EvaluateGroup
<1>7. ASSUME NEW i \in Combos, Acquire(i) PROVE GenInv'
  <2>1. CASE Sched!AcquireNothing(i)
    BY <1>7, <2>1 DEF Acquire, Sched!AcquireNothing
  <2>2. ASSUME NEW g \in Groups, Sched!AcquireSlot(i, g) PROVE GenInv'
    BY <1>7, <2>2 DEF Acquire, Sched!AcquireSlot
  <2>3. ASSUME NEW g \in Groups, Sched!GiveUp(i, g) PROVE GenInv'
    BY <1>7, <2>3 DEF Acquire, Sched!GiveUp
  <2>4. ASSUME NEW g \in Groups, Sched!Supersede(i, g) PROVE GenInv'
    BY <1>7, <2>4, ValuesAssumption DEF Acquire, Sched!Supersede
  <2> QED
    BY <1>7, <2>1, <2>2, <2>3, <2>4, AcquireSchedStep
<1>8. ASSUME NEW i \in Combos, SelectBackend(i) PROVE GenInv'
  BY <1>8 DEF SelectBackend
<1>9. ASSUME NEW i \in Combos, Record(i) PROVE GenInv'
  BY <1>9 DEF Record
<1>10. ASSUME NEW i \in Combos, CallRelease(i) PROVE GenInv'
  <2>1. CASE Sched!ReleaseSlot(i)
    BY <1>10, <2>1 DEF CallRelease, Sched!ReleaseSlot
  <2>2. CASE Sched!ReleaseGen(i)
    BY <1>10, <2>2, ValuesAssumption DEF CallRelease, Sched!ReleaseGen, Sched!IsCurrent
  <2>3. CASE Sched!ReleaseNoop(i)
    BY <1>10, <2>3 DEF CallRelease, Sched!ReleaseNoop
  <2> QED
    BY <1>10, <2>1, <2>2, <2>3 DEF CallRelease, Sched!Release
<1>11. ASSUME NEW i \in Combos, LeaveSemaphore(i) PROVE GenInv'
  BY <1>11 DEF LeaveSemaphore
<1>12. ASSUME NEW i \in Combos, RunStep(i) PROVE GenInv'
  BY <1>12 DEF RunStep
<1>13. ASSUME NEW i \in Combos, StepEnds(i) PROVE GenInv'
  BY <1>13 DEF StepEnds
<1>14. ASSUME NEW i \in Combos, JobReturns(i) PROVE GenInv'
  BY <1>14 DEF JobReturns
<1>15. ASSUME NEW i \in Combos, Timeout(i) PROVE GenInv'
  BY <1>15 DEF Timeout, Sched!ContextEnds
<1>16. CASE Aggregate
  BY <1>16 DEF Aggregate
<1>17. CASE UNCHANGED vars
  BY <1>17 DEF vars
<1> QED
  BY <1>1, <1>2, <1>3, <1>4, <1>5, <1>6, <1>7, <1>8, <1>9, <1>10, <1>11,
     <1>12, <1>13, <1>14, <1>15, <1>16, <1>17
     DEF Next, FanOutStep, Returned

-----------------------------------------------------------------------------
(* Results.                                                                *)

\* The recording section keeps the loop variables in step with the outcomes.
LEMMA ResultStep ==
  ASSUME TypeOK, ResultInv, [Next]_vars
  PROVE  ResultInv'
<1> USE DEF TypeOK, ResultInv, Goto, loopVars
<1>1. ASSUME NEW i \in Combos, AwaitTurn(i) PROVE ResultInv'
  BY <1>1 DEF AwaitTurn, FlagInv, OutcomeInv, FirstErrInv, VerdictInv, Conclusion
<1>2. ASSUME NEW i \in Combos, TakeSemaphore(i) PROVE ResultInv'
  BY <1>2 DEF TakeSemaphore, FlagInv, OutcomeInv, FirstErrInv, VerdictInv, Conclusion
<1>3. ASSUME NEW i \in Combos, SignalNext(i) PROVE ResultInv'
  BY <1>3 DEF SignalNext, FlagInv, OutcomeInv, FirstErrInv, VerdictInv, Conclusion
<1>4. ASSUME NEW i \in Combos, SkipCombination(i) PROVE ResultInv'
  <2> USE <1>4, ValuesAssumption DEF SkipCombination, MayStart
  <2>1. FlagInv'
    BY DEF FlagInv
  <2>2. OutcomeInv'
    BY DEF OutcomeInv
  <2>3. FirstErrInv'
    BY DEF FirstErrInv, OutcomeInv
  <2>4. VerdictInv'
    BY DEF VerdictInv
  <2> QED
    BY <2>1, <2>2, <2>3, <2>4
<1>5. ASSUME NEW i \in Combos, PassCheck(i) PROVE ResultInv'
  BY <1>5 DEF PassCheck, FlagInv, OutcomeInv, FirstErrInv, VerdictInv, Conclusion
<1>6. ASSUME NEW i \in Combos, EvaluateGroup(i) PROVE ResultInv'
  <2> USE <1>6, ValuesAssumption DEF EvaluateGroup, NoteError, Outcomes
  <2>1. FlagInv'
    BY DEF FlagInv
  <2>2. OutcomeInv'
    BY DEF OutcomeInv
  <2>3. FirstErrInv'
    BY DEF FirstErrInv, OutcomeInv
  <2>4. VerdictInv'
    BY DEF VerdictInv
  <2> QED
    BY <2>1, <2>2, <2>3, <2>4
<1>7. ASSUME NEW i \in Combos, Acquire(i) PROVE ResultInv'
  BY <1>7 DEF Acquire, FlagInv, OutcomeInv, FirstErrInv, VerdictInv, Conclusion
<1>8. ASSUME NEW i \in Combos, SelectBackend(i) PROVE ResultInv'
  <2> USE <1>8, ValuesAssumption DEF SelectBackend, NoteError, Outcomes
  <2>1. FlagInv'
    BY DEF FlagInv
  <2>2. OutcomeInv'
    BY DEF OutcomeInv
  <2>3. FirstErrInv'
    BY DEF FirstErrInv, OutcomeInv
  <2>4. VerdictInv'
    BY DEF VerdictInv
  <2> QED
    BY <2>1, <2>2, <2>3, <2>4
<1>9. ASSUME NEW i \in Combos, Record(i) PROVE ResultInv'
  <2> USE <1>9, ValuesAssumption DEF Record, Outcomes
  <2>1. FlagInv'
    BY DEF FlagInv
  <2>2. OutcomeInv'
    BY DEF OutcomeInv
  <2>3. FirstErrInv'
    BY DEF FirstErrInv, OutcomeInv
  <2>4. VerdictInv'
    BY DEF VerdictInv
  <2> QED
    BY <2>1, <2>2, <2>3, <2>4
<1>10. ASSUME NEW i \in Combos, CallRelease(i) PROVE ResultInv'
  BY <1>10 DEF CallRelease, FlagInv, OutcomeInv, FirstErrInv, VerdictInv, Conclusion
<1>11. ASSUME NEW i \in Combos, LeaveSemaphore(i) PROVE ResultInv'
  BY <1>11 DEF LeaveSemaphore, FlagInv, OutcomeInv, FirstErrInv, VerdictInv, Conclusion
<1>12. ASSUME NEW i \in Combos, RunStep(i) PROVE ResultInv'
  BY <1>12 DEF RunStep, FlagInv, OutcomeInv, FirstErrInv, VerdictInv, Conclusion
<1>13. ASSUME NEW i \in Combos, StepEnds(i) PROVE ResultInv'
  BY <1>13 DEF StepEnds, FlagInv, OutcomeInv, FirstErrInv, VerdictInv, Conclusion
<1>14. ASSUME NEW i \in Combos, JobReturns(i) PROVE ResultInv'
  <2> USE <1>14, ValuesAssumption DEF JobReturns, Outcomes
  <2>1. FlagInv'
    BY DEF FlagInv
  <2>2. OutcomeInv'
    BY DEF OutcomeInv
  <2>3. FirstErrInv'
    BY DEF FirstErrInv, OutcomeInv
  <2>4. VerdictInv'
    BY DEF VerdictInv
  <2> QED
    BY <2>1, <2>2, <2>3, <2>4
<1>15. ASSUME NEW i \in Combos, Timeout(i) PROVE ResultInv'
  BY <1>15 DEF Timeout, FlagInv, OutcomeInv, FirstErrInv, VerdictInv, Conclusion
<1>16. CASE Aggregate
  BY <1>16 DEF Aggregate, FlagInv, OutcomeInv, FirstErrInv, VerdictInv, Conclusion
<1>17. CASE UNCHANGED vars
  BY <1>17 DEF vars, FlagInv, OutcomeInv, FirstErrInv, VerdictInv, Conclusion
<1> QED
  BY <1>1, <1>2, <1>3, <1>4, <1>5, <1>6, <1>7, <1>8, <1>9, <1>10, <1>11,
     <1>12, <1>13, <1>14, <1>15, <1>16, <1>17
     DEF Next, FanOutStep, Returned

-----------------------------------------------------------------------------
(* Fail-fast.                                                              *)

\* Combinations inside the job are fewer than, or exactly, the holders.
LEMMA WorkersHold ==
  ASSUME TypeOK, SemInv
  PROVE  /\ Workers \in SUBSET Combos /\ IsFiniteSet(Workers)
         /\ Cardinality(Workers) \in Nat /\ SemCapacity \in Nat
         /\ Cardinality(Workers) <= SemCapacity
<1>1. Workers \subseteq Holders /\ Holders \in SUBSET Combos
  BY DEF Workers, Holders, Working, Holding
<1>2. IsFiniteSet(Holders) /\ Cardinality(Holders) \in Nat
  BY <1>1, CombosFinite
<1>3. IsFiniteSet(Workers) /\ Cardinality(Workers) <= Cardinality(Holders)
  BY <1>1, <1>2, FS_Subset
<1>4. Cardinality(Workers) \in Nat /\ SemCapacity \in Nat
  BY <1>3, FS_CardinalityType, CapacityType DEF TypeOK
<1> QED
  BY <1>1, <1>2, <1>3, <1>4 DEF SemInv

\* Leaving the job, or staying, keeps what fail-fast promises.
LEMMA DrainKept ==
  ASSUME TypeOK, SemInv, FailFastDrains, job' = job,
         stopStartingNew' = stopStartingNew, Workers' \subseteq Workers
  PROVE  FailFastDrains'
<1>1. IsFiniteSet(Workers) /\ Cardinality(Workers) \in Nat /\ SemCapacity \in Nat
  BY WorkersHold
<1>2. Cardinality(Workers') <= Cardinality(Workers) /\ Cardinality(Workers') \in Nat
  BY <1>1, FS_Subset, FS_CardinalityType
<1>3. SemCapacity' = SemCapacity
  BY DEF SemCapacity
<1> QED
  BY <1>1, <1>2, <1>3 DEF FailFastDrains

\* Only PassCheck lets a combination in, and not after a failure; the
\* combination whose failure sets the flag is itself on its way out.
LEMMA DrainStep ==
  ASSUME TypeOK, SemInv, FailFastDrains, [Next]_vars
  PROVE  FailFastDrains'
<1>1. ASSUME NEW i \in Combos, PassCheck(i) PROVE FailFastDrains'
  BY <1>1 DEF PassCheck, MayStart, FailFastDrains, loopVars
<1>2. ASSUME NEW i \in Combos, Record(i) PROVE FailFastDrains'
  <2>1. Goto(i, "record", "release") /\ job' = job
    BY <1>2 DEF Record
  <2>2. Workers' = Workers \ {i} /\ i \in Workers
    BY <2>1, MoveSets DEF TypeOK, Working
  <2>3. Cardinality(Workers') = Cardinality(Workers) - 1
    BY <2>2, WorkersHold, FS_RemoveElement
  <2>4. SemCapacity' = SemCapacity
    BY <2>1 DEF SemCapacity
  <2> QED
    BY <2>3, <2>4, WorkersHold DEF FailFastDrains
<1>3. ASSUME NEW i \in Combos, FanOutStep(i), ~PassCheck(i), ~Record(i)
      PROVE  FailFastDrains'
  <2>1. Workers' \subseteq Workers
    BY <1>3 DEF TypeOK, Workers, Working, FanOutStep, Goto, AwaitTurn,
         TakeSemaphore, SignalNext, SkipCombination, EvaluateGroup, Acquire,
         SelectBackend, CallRelease, LeaveSemaphore
  <2>2. job' = job /\ stopStartingNew' = stopStartingNew
    BY <1>3 DEF FanOutStep, AwaitTurn, TakeSemaphore, SignalNext,
         SkipCombination, EvaluateGroup, NoteError, Acquire, SelectBackend,
         CallRelease, LeaveSemaphore, loopVars
  <2> QED
    BY <2>1, <2>2, DrainKept
<1>4. ASSUME NEW i \in Combos, RunStep(i) \/ StepEnds(i) \/ JobReturns(i) \/ Timeout(i)
      PROVE  FailFastDrains'
  <2>1. Workers' \subseteq Workers
    BY <1>4 DEF TypeOK, Workers, Working, Goto, RunStep, StepEnds, JobReturns, Timeout
  <2>2. job' = job /\ stopStartingNew' = stopStartingNew
    BY <1>4 DEF RunStep, StepEnds, JobReturns, Timeout, loopVars
  <2> QED
    BY <2>1, <2>2, DrainKept
<1>5. CASE UNCHANGED <<job, pc, stopStartingNew>>
  BY <1>5, DrainKept DEF Workers
<1> QED
  BY <1>1, <1>2, <1>3, <1>4, <1>5 DEF Next, Returned, Aggregate, vars, loopVars

-----------------------------------------------------------------------------
(* The inductive invariant.                                                *)

LEMMA InitIInv == Init => IInv
<1> SUFFICES ASSUME Init PROVE IInv
  OBVIOUS
<1>1. TypeOK
  BY TypeInit
<1>2. SemInv
  <2>1. Holders = {}
    BY DEF Init, Holders, Holding
  <2>2. SemCapacity \in Nat
    BY <1>1, CapacityType DEF TypeOK
  <2> QED
    BY <2>1, <2>2, FS_EmptySet DEF SemInv, Init
<1>3. ChainInv
  BY DEF Init, ChainInv
<1>4. ClosureInv /\ SlotInv
  BY DEF Init, Sched!SchedInit, ClosureInv, SlotInv
<1>5. GenInv
  BY DEF Init, Sched!SchedInit, GenInv, RegistrationIsLive
<1>6. ResultInv /\ FailFastDrains
  BY DEF Init, ResultInv, FlagInv, OutcomeInv, FirstErrInv, VerdictInv, FailFastDrains
<1> QED
  BY <1>1, <1>2, <1>3, <1>4, <1>5, <1>6 DEF IInv

LEMMA StepIInv == IInv /\ [Next]_vars => IInv'
BY TypeStep, SemStep, ChainStep, ClosureStep, SlotStep, GenStep, ResultStep, DrainStep
   DEF IInv

\* The invariant that the theorems below rest on.
THEOREM Invariance == Spec => []IInv
BY InitIInv, StepIInv, PTL DEF Spec

-----------------------------------------------------------------------------
(* Safety.                                                                 *)

\* Every variable keeps its type; in particular no receive from the
\* semaphore finds it empty.
THEOREM TypeCorrect == Spec => []TypeOK
<1>1. IInv => TypeOK
  BY DEF IInv
<1> QED
  BY <1>1, Invariance, PTL

\* strategy.max-parallel bounds the combinations inside RunJob, whatever the
\* number of combinations and the order in which they finish.
THEOREM MaxParallel == Spec => []MaxParallelRespected
<1>1. IInv => MaxParallelRespected
  BY WorkersHold DEF IInv, MaxParallelRespected
<1> QED
  BY <1>1, Invariance, PTL

\* The start chain hands out semaphore tokens in index order.
THEOREM IndexOrder == Spec => []StartsInIndexOrder
<1>1. IInv => StartsInIndexOrder
  BY DEF IInv, ChainInv, StartsInIndexOrder, TypeOK
<1> QED
  BY <1>1, Invariance, PTL

\* After a failure under fail-fast the job only drains.
THEOREM FailFast == Spec => []FailFastDrains
<1>1. IInv => FailFastDrains
  BY DEF IInv
<1> QED
  BY <1>1, Invariance, PTL

\* Queueing groups never have two steps running, although a combination
\* whose context ended goes on without its slot.
THEOREM QueueExclusion == Spec => []QueueExclusive
<1>1. IInv => QueueExclusive
  BY DEF IInv, TypeOK, ClosureInv, SlotInv, QueueExclusive, SameGroup
<1> QED
  BY <1>1, Invariance, PTL

\* A registered cancel function belongs to a combination that still holds.
THEOREM LiveRegistration == Spec => []RegistrationIsLive
<1>1. IInv => RegistrationIsLive
  BY DEF IInv, GenInv
<1> QED
  BY <1>1, Invariance, PTL

\* When all goroutines are done no token, slot or registration is left.
THEOREM NoLeak == Spec => []NothingLeaked
<1>1. IInv => NothingLeaked
  <2> SUFFICES ASSUME IInv, \A i \in Combos : pc[i] = "done"
               PROVE  /\ sem = 0
                      /\ \A g \in Groups : slots[g] = 0 /\ cancel[g] = None /\ gen[g] = 0
    BY DEF NothingLeaked
  <2>1. Holders = {}
    BY DEF Holders, Holding
  <2>2. sem = 0
    BY <2>1, FS_EmptySet DEF IInv, SemInv
  <2>3. \A i \in Combos : release[i] = "none"
    BY DEF IInv, ClosureInv
  <2>4. ASSUME NEW g \in Groups PROVE slots[g] = 0 /\ cancel[g] = None /\ gen[g] = 0
    <3>1. slots[g] # 1
      BY <2>3 DEF IInv, SlotInv
    <3>2. slots[g] \in 0..1 /\ cancel[g] \in Combos \cup {None}
      BY DEF IInv, TypeOK, Sched!SchedTypeOK
    <3>3. cancel[g] = None
      BY <2>3, <3>2 DEF IInv, GenInv, RegistrationIsLive
    <3> QED
      BY <3>1, <3>2, <3>3 DEF IInv, GenInv
  <2> QED
    BY <2>2, <2>4
<1> QED
  BY <1>1, Invariance, PTL

\* A successful job is one whose every combination ran and succeeded.
THEOREM SuccessIsTotal == Spec => []SuccessMeansAllSucceeded
<1>1. IInv => SuccessMeansAllSucceeded
  <2> SUFFICES ASSUME IInv, verdict = "success", NEW i \in Combos
               PROVE  outcome[i] = "success"
    BY DEF SuccessMeansAllSucceeded
  <2>1. pc[i] = "done" /\ Conclusion = "success"
    BY DEF IInv, ResultInv, VerdictInv
  <2>2. firstErr = None /\ comboFailed \ comboSkipped = {}
    BY <2>1 DEF Conclusion
  <2>3. comboFailed = {}
    BY <2>2, ValuesAssumption DEF IInv, TypeOK, ResultInv, OutcomeInv
  <2>4. i \notin comboSkipped
    BY <2>3 DEF IInv, ResultInv, FlagInv
  <2>5. outcome[i] # None /\ outcome[i] # "failure" /\ outcome[i] # "error"
    BY <2>1, <2>2, <2>3, <2>4 DEF IInv, ResultInv, OutcomeInv, FirstErrInv
  <2> QED
    BY <2>5 DEF IInv, TypeOK, Outcomes
<1> QED
  BY <1>1, Invariance, PTL

-----------------------------------------------------------------------------
(* The outputs of a serial matrix.                                         *)

\* With max-parallel 1 a combination leaves the start line only when every
\* lower index is done.
SerialInv ==
  SemCapacity = 1 =>
    \A i, j \in Combos : j < i /\ pc[i] \notin {"turn", "queued"} => pc[j] = "done"

LEMMA SerialStep ==
  ASSUME IInv, SerialInv, [Next]_vars
  PROVE  SerialInv'
<1> SUFFICES ASSUME SemCapacity' = 1, NEW i \in Combos, NEW j \in Combos, j < i,
                    pc'[i] \notin {"turn", "queued"}
             PROVE  pc'[j] = "done"
  BY DEF SerialInv
<1> USE DEF FanOutStep, Goto
<1>1. job' = job
  BY DEF Next, vars, AwaitTurn, TakeSemaphore, SignalNext, SkipCombination, PassCheck,
         EvaluateGroup, Acquire, SelectBackend, RunStep, StepEnds, JobReturns, Timeout,
         Record, CallRelease, LeaveSemaphore, Aggregate, Returned
<1>2. SemCapacity = 1
  BY <1>1 DEF SemCapacity
<1>3. CASE TakeSemaphore(i)
  <2>1. pc[i] = "queued" /\ sem < 1 /\ pc' = [pc EXCEPT ![i] = "signal"]
    BY <1>2, <1>3 DEF TakeSemaphore, SemHasRoom
  <2>2. Holders \in SUBSET Combos /\ IsFiniteSet(Holders) /\ Cardinality(Holders) = 0
    BY <2>1, CombosFinite DEF Holders, IInv, SemInv, TypeOK
  <2>3. pc[j] \notin Holding
    BY <2>2, FS_EmptySet DEF Holders
  <2>4. pc[j] \notin {"turn", "queued", "signal"}
    BY <2>1 DEF IInv, ChainInv
  <2> QED
    BY <2>1, <2>3, <2>4 DEF IInv, TypeOK, Places, Combos
<1>4. CASE ~TakeSemaphore(i)
  <2>1. pc[i] \notin {"turn", "queued"}
    BY <1>4 DEF IInv, TypeOK, Next, vars, AwaitTurn, TakeSemaphore, SignalNext,
         SkipCombination, PassCheck, EvaluateGroup, Acquire, SelectBackend, RunStep,
         StepEnds, JobReturns, Timeout, Record, CallRelease, LeaveSemaphore, Aggregate,
         Returned
  <2>2. pc[j] = "done"
    BY <1>2, <2>1 DEF SerialInv
  <2> QED
    BY <2>2 DEF IInv, TypeOK, Next, vars, AwaitTurn, TakeSemaphore, SignalNext,
         SkipCombination, PassCheck, EvaluateGroup, Acquire, SelectBackend, RunStep,
         StepEnds, JobReturns, Timeout, Record, CallRelease, LeaveSemaphore, Aggregate,
         Returned
<1> QED
  BY <1>3, <1>4

\* Away from Record nothing becomes, or ceases to be, recorded.
LEMMA RecordedKept ==
  ASSUME IInv, [Next]_vars, \A k \in Combos : ~Record(k), NEW i \in Combos
  PROVE  Recorded(i)' <=> Recorded(i)
<1> USE DEF Recorded, Goto
<1>1. pc \in [Combos -> Places] /\ outcome \in [Combos -> Outcomes \cup {None}]
  BY DEF IInv, TypeOK
<1>2. ASSUME NEW k \in Combos, SkipCombination(k) PROVE Recorded(i)' <=> Recorded(i)
  <2>1. outcome[k] = None
    BY <1>2, <1>1 DEF SkipCombination, IInv, ResultInv, OutcomeInv
  <2> QED
    BY <1>1, <1>2, <2>1, ValuesAssumption DEF SkipCombination
<1>3. ASSUME NEW k \in Combos, EvaluateGroup(k) \/ SelectBackend(k) \/ JobReturns(k)
      PROVE  Recorded(i)' <=> Recorded(i)
  BY <1>1, <1>3 DEF EvaluateGroup, SelectBackend, NoteError, JobReturns
<1>4. ASSUME NEW k \in Combos, \/ AwaitTurn(k) \/ TakeSemaphore(k) \/ SignalNext(k)
                               \/ PassCheck(k) \/ Acquire(k) \/ CallRelease(k)
                               \/ LeaveSemaphore(k) \/ RunStep(k) \/ StepEnds(k)
      PROVE  Recorded(i)' <=> Recorded(i)
  BY <1>1, <1>4 DEF AwaitTurn, TakeSemaphore, SignalNext, PassCheck, Acquire,
     CallRelease, LeaveSemaphore, RunStep, StepEnds
<1>5. CASE UNCHANGED <<pc, outcome>>
  BY <1>5
<1> QED
  BY <1>2, <1>3, <1>4, <1>5 DEF Next, FanOutStep, vars, Timeout, Aggregate, Returned

LEMMA SerialOutputsStep ==
  ASSUME IInv, SerialInv, SerialOutputsAreLast, [Next]_vars
  PROVE  SerialOutputsAreLast'
<1> SUFFICES ASSUME SemCapacity' = 1 PROVE SerialOutputsAreLast'
  BY DEF SerialOutputsAreLast
<1> USE ValuesAssumption
<1>1. CASE \A k \in Combos : ~Record(k)
  <2>1. job' = job /\ lastOutputs' = lastOutputs
    BY <1>1 DEF Next, vars, loopVars, FanOutStep, AwaitTurn, TakeSemaphore, SignalNext,
         SkipCombination, PassCheck, EvaluateGroup, NoteError, Acquire, SelectBackend,
         RunStep, StepEnds, JobReturns, Timeout, CallRelease, LeaveSemaphore, Aggregate,
         Returned
  <2>2. SemCapacity = 1
    BY <2>1 DEF SemCapacity
  <2>3. \A i \in Combos : Recorded(i)' <=> Recorded(i)
    BY <1>1, RecordedKept
  <2> QED
    BY <2>1, <2>2, <2>3 DEF SerialOutputsAreLast, IInv, TypeOK, Recorded
<1>2. ASSUME NEW k \in Combos, Record(k) PROVE SerialOutputsAreLast'
  <2>1. /\ job' = job /\ outcome' = outcome /\ pc[k] = "record"
        /\ pc' = [pc EXCEPT ![k] = "release"] /\ pc \in [Combos -> Places]
    BY <1>2 DEF Record, Goto, IInv, TypeOK
  <2>2. SemCapacity = 1
    BY <2>1 DEF SemCapacity
  <2>3. ASSUME NEW i \in Combos, Recorded(i) PROVE i <= k
    BY <2>1, <2>2, <2>3 DEF SerialInv, Recorded, Combos
  <2>4. CASE outcome[k] = "error"
    <3>1. \A i \in Combos : Recorded(i)' <=> Recorded(i)
      BY <2>1, <2>4 DEF Recorded
    <3>2. lastOutputs' = lastOutputs
      BY <1>2, <2>4 DEF Record
    <3> QED
      BY <2>2, <3>1, <3>2 DEF SerialOutputsAreLast, IInv, TypeOK, Recorded
  <2>5. CASE outcome[k] # "error"
    <3>1. outcome[k] \in {"success", "failure"}
      BY <2>1, <2>5 DEF IInv, TypeOK, ResultInv, OutcomeInv, Outcomes
    <3>2. lastOutputs' = k
      BY <1>2, <2>5 DEF Record
    <3>3. \A i \in Combos : Recorded(i)' <=> Recorded(i) \/ i = k
      BY <2>1, <3>1 DEF Recorded
    <3>4. Recorded(k)'
      BY <3>3
    <3>5. \A i \in Combos : Recorded(i)' => i <= k
      BY <2>3, <3>3 DEF Combos
    <3> QED
      BY <3>2, <3>4, <3>5 DEF SerialOutputsAreLast, Recorded
  <2> QED
    BY <2>4, <2>5
<1> QED
  BY <1>1, <1>2

\* A matrix with max-parallel 1 always hands its dependents the outputs of
\* the highest combination that returned a result.
THEOREM SerialOutputs == Spec => []SerialOutputsAreLast
<1>1. Init => SerialInv /\ SerialOutputsAreLast
  BY ValuesAssumption DEF Init, SerialInv, SerialOutputsAreLast, Recorded
<1>2. IInv /\ SerialInv /\ SerialOutputsAreLast /\ [Next]_vars
        => SerialInv' /\ SerialOutputsAreLast'
  BY SerialStep, SerialOutputsStep
<1> QED
  BY <1>1, <1>2, Invariance, PTL DEF Spec

-----------------------------------------------------------------------------
(* Cancellation.                                                           *)

\* The combination whose cancel function acquire calls is another one of the
\* same group.
LEMMA SupersededIsPeer ==
  ASSUME IInv, NEW i \in Combos, NEW j \in Combos, NEW g \in Groups,
         pc[j] = "acquire", g = job.groupOf[j], cancel[g] = i
  PROVE  i # j /\ SameGroup(i, j)
<1>1. release[i] = "gen" /\ group[i] = g
  BY ValuesAssumption DEF IInv, GenInv, RegistrationIsLive
<1>2. release[j] = "none" /\ group[i] = job.groupOf[i]
  BY <1>1 DEF IInv, ClosureInv
<1> QED
  BY <1>1, <1>2 DEF SameGroup

\* No goroutine but the acquiring one touches another one's context.
THEOREM OnlyNewcomerCancels == Spec => CancelledOnlyByNewcomer
<1> DEFINE Cause(i) ==
      \/ job.timeout /\ pc' = pc
      \/ /\ job.preempt
         /\ \E j \in Combos : /\ j # i /\ SameGroup(i, j)
                              /\ pc[j] = "acquire" /\ pc'[j] = "select"
<1>1. ASSUME IInv, Next, NEW i \in Combos, pc[i] \in Working, ctxDone[i] # ctxDone'[i]
      PROVE  Cause(i)
  <2> USE <1>1 DEF IInv, TypeOK, Sched!SchedTypeOK
  <2>1. ASSUME NEW k \in Combos, Acquire(k) PROVE Cause(i)
    <3>0. job.groupOf[k] \in Groups \cup {NoGroup}
      BY <2>1 DEF ClosureInv, Acquire, Goto
    <3>1. PICK g \in Groups : Sched!Supersede(k, g) /\ g = job.groupOf[k] /\ job.preempt
      BY <2>1, <3>0 DEF Acquire, Sched!AcquireNothing, Sched!AcquireSlot, Sched!GiveUp
    <3>2. pc[k] = "acquire" /\ pc'[k] = "select"
      BY <2>1 DEF Acquire, Goto
    <3>3. cancel[g] = i
      BY <3>1 DEF Sched!Supersede
    <3>4. i # k /\ SameGroup(i, k)
      BY <3>1, <3>2, <3>3, SupersededIsPeer
    <3> QED
      BY <3>1, <3>2, <3>4
  <2>2. ASSUME NEW k \in Combos, CallRelease(k) PROVE Cause(i)
    <3>1. k # i
      BY <2>2 DEF CallRelease, Goto, Working
    <3> QED
      BY <2>2, <3>1 DEF CallRelease, Sched!Release, Sched!ReleaseSlot,
           Sched!ReleaseGen, Sched!ReleaseNoop
  <2>3. ASSUME NEW k \in Combos, Timeout(k) PROVE Cause(i)
    BY <2>3 DEF Timeout
  <2>4. ctxDone' # ctxDone
    OBVIOUS
  <2> QED
    BY <2>1, <2>2, <2>3, <2>4
       DEF Next, FanOutStep, AwaitTurn, TakeSemaphore, SignalNext,
           SkipCombination, PassCheck, EvaluateGroup, SelectBackend, Record,
           LeaveSemaphore, RunStep, StepEnds, JobReturns, Aggregate, Returned,
           schedVars, vars
<1>2. IInv /\ [Next]_vars =>
        [\A i \in Combos : pc[i] \in Working /\ ctxDone[i] # ctxDone'[i] => Cause(i)]_vars
  BY <1>1
<1> QED
  BY <1>2, Invariance, PTL DEF CancelledOnlyByNewcomer, Spec

-----------------------------------------------------------------------------
(* The fan-out implements the strategy.                                    *)

\* Where the combinations stand, in the strategy's terms.
LEMMA PhaseFacts ==
  ASSUME IInv
  PROVE  /\ Strategy!Running = Workers
         /\ Strategy!Stopped <=> stopStartingNew
<1>1. \A i \in Combos : phase[i] = "running" <=> pc[i] \in Working
  BY DEF phase, IInv, TypeOK, ResultInv, OutcomeInv, Working, Outcomes, Places, Holding
<1>2. \A i \in Combos : phase[i] = "failure" <=> i \in comboFailed
  BY ValuesAssumption
     DEF phase, IInv, TypeOK, ResultInv, OutcomeInv, Working, Outcomes, Places, Holding
<1>3. comboFailed \subseteq Combos
  BY DEF IInv, TypeOK
<1> QED
  BY <1>1, <1>2, <1>3 DEF Strategy!Running, Workers, Strategy!Stopped, IInv,
       ResultInv, FlagInv

\* The cardinality the strategy's module uses is the usual one.
LEMMA SameCardinality ==
  ASSUME NEW S
  PROVE  Strategy!Cardinality(S) = Cardinality(S)
BY DEF Strategy!Cardinality, Cardinality, Strategy!IsFiniteSet, IsFiniteSet

LEMMA StrategyInit == Init => Strategy!Init
<1> SUFFICES ASSUME Init PROVE Strategy!Init
  OBVIOUS
<1>1. job.failFast \in BOOLEAN
  BY JobsAssumption DEF Init, JobType
<1>2. SemCapacity \in Nat \ {0}
  BY CapacityType DEF Init
<1> QED
  BY <1>1, <1>2 DEF Init, Strategy!Init, phase

\* A step of a goroutine that the strategy does not see.
LEMMA Stutter ==
  ASSUME UNCHANGED <<job, verdict>>, phase' = phase
  PROVE  UNCHANGED Strategy!vars
BY DEF Strategy!vars, SemCapacity

LEMMA StrategyStep ==
  ASSUME IInv, IInv', [Next]_vars
  PROVE  [Strategy!Next]_(Strategy!vars)
<1> USE DEF IInv, TypeOK
<1>1. ASSUME NEW i \in Combos, PassCheck(i) PROVE Strategy!Start(i)
  <2>1. Goto(i, "check", "setup") /\ ~stopStartingNew /\ job' = job /\ verdict' = verdict
    BY <1>1 DEF PassCheck, MayStart
  <2>2. i \in Holders /\ i \notin Workers /\ Workers \subseteq Holders
    BY <2>1 DEF Goto, Holders, Workers, Holding, Working
  <2>3. Cardinality(Workers) < SemCapacity
    <3>1. Holders \in SUBSET Combos /\ IsFiniteSet(Holders) /\ Cardinality(Holders) \in Nat
      BY CombosFinite DEF Holders
    <3>2. Workers # Holders /\ Cardinality(Workers) <= Cardinality(Holders)
      BY <2>2, <3>1, FS_Subset
    <3>3. Cardinality(Workers) # Cardinality(Holders)
      BY <2>2, <3>1, <3>2, FS_Subset
    <3> QED
      BY <3>1, <3>2, <3>3, WorkersHold DEF SemInv
  <2>4. phase[i] = "pending" /\ phase' = [phase EXCEPT ![i] = "running"]
    BY <1>1, <2>1 DEF phase, Goto, PassCheck, loopVars, Working
  <2>5. SemCapacity' = SemCapacity
    BY <2>1 DEF SemCapacity
  <2>6. Strategy!Cardinality(Strategy!Running) < SemCapacity /\ ~Strategy!Stopped
    BY <2>1, <2>3, PhaseFacts, SameCardinality
  <2> QED
    BY <2>1, <2>4, <2>5, <2>6 DEF Strategy!Start
<1>2. ASSUME NEW i \in Combos, SkipCombination(i) PROVE Strategy!Skip(i)
  <2>1. phase[i] = "pending" /\ phase' = [phase EXCEPT ![i] = "skipped"]
    BY <1>2 DEF phase, Goto, SkipCombination, Working, ResultInv, OutcomeInv
  <2> QED
    BY <1>2, <2>1, PhaseFacts DEF Strategy!Skip, SkipCombination, MayStart, SemCapacity
<1>3. ASSUME NEW i \in Combos, Record(i)
      PROVE  Strategy!Finish(i, outcome[i]) /\ outcome[i] \in Outcomes
  <2>1. outcome[i] \in Outcomes
    BY <1>3 DEF Record, Goto, ResultInv, OutcomeInv
  <2>2. phase[i] = "running" /\ i \notin comboSkipped
    BY <1>3 DEF phase, Goto, Record, Working, ResultInv, OutcomeInv
  <2>3. \A j \in Combos :
          phase'[j] = IF j = i THEN outcome[i] ELSE phase[j]
    BY <1>3, <2>2 DEF phase, Goto, Record, Working
  <2>4. phase' = [phase EXCEPT ![i] = outcome[i]]
    BY <2>3 DEF phase
  <2> QED
    BY <1>3, <2>1, <2>2, <2>4 DEF Strategy!Finish, Record, SemCapacity
<1>4. ASSUME NEW i \in Combos, EvaluateGroup(i)
      PROVE  Strategy!Finish(i, "error") \/ UNCHANGED Strategy!vars
  <2>1. CASE Goto(i, "setup", "acquire") /\ UNCHANGED <<job, loopVars, outcome, verdict>>
    <3>1. phase' = phase
      BY <2>1 DEF phase, Goto, Working, loopVars
    <3> QED
      BY <2>1, <3>1, Stutter
  <2>2. CASE Goto(i, "setup", "leave") /\ NoteError(i) /\ UNCHANGED <<job, verdict>>
    <3>1. phase[i] = "running" /\ phase' = [phase EXCEPT ![i] = "error"]
      BY <2>2, ZenonT(60) DEF phase, Goto, Working, NoteError, ResultInv, OutcomeInv
    <3> QED
      BY <2>2, <3>1 DEF Strategy!Finish, SemCapacity
  <2> QED
    BY <1>4, <2>1, <2>2 DEF EvaluateGroup
<1>5. ASSUME NEW i \in Combos, SelectBackend(i)
      PROVE  Strategy!Finish(i, "error") \/ UNCHANGED Strategy!vars
  <2>1. CASE Goto(i, "select", "run") /\ UNCHANGED <<job, loopVars, outcome, verdict>>
    <3>1. phase' = phase
      BY <2>1 DEF phase, Goto, Working, loopVars
    <3> QED
      BY <2>1, <3>1, Stutter
  <2>2. CASE Goto(i, "select", "release") /\ NoteError(i) /\ UNCHANGED <<job, verdict>>
    <3>1. phase[i] = "running" /\ phase' = [phase EXCEPT ![i] = "error"]
      BY <2>2, ZenonT(60) DEF phase, Goto, Working, NoteError, ResultInv, OutcomeInv
    <3> QED
      BY <2>2, <3>1 DEF Strategy!Finish, SemCapacity
  <2> QED
    BY <1>5, <2>1, <2>2 DEF SelectBackend
<1>6. ASSUME NEW i \in Combos, \/ AwaitTurn(i) \/ TakeSemaphore(i) \/ SignalNext(i)
                               \/ Acquire(i) \/ CallRelease(i) \/ LeaveSemaphore(i)
                               \/ RunStep(i) \/ StepEnds(i) \/ JobReturns(i)
                               \/ Timeout(i)
      PROVE  UNCHANGED Strategy!vars
  <2>1. UNCHANGED <<job, verdict>>
    BY <1>6 DEF AwaitTurn, TakeSemaphore, SignalNext, Acquire, CallRelease,
         LeaveSemaphore, RunStep, StepEnds, JobReturns, Timeout
  <2>2. phase' = phase
    BY <1>6 DEF phase, Goto, Working, loopVars, AwaitTurn, TakeSemaphore,
         SignalNext, Acquire, CallRelease, LeaveSemaphore, RunStep, StepEnds,
         JobReturns, Timeout
  <2> QED
    BY <2>1, <2>2, Stutter
<1>7. CASE Aggregate
  <2>1. phase' = phase /\ UNCHANGED job
    BY <1>7 DEF Aggregate, phase, loopVars
  <2>2. \A i \in Combos : phase[i] = IF i \in comboSkipped THEN "skipped" ELSE outcome[i]
    BY <1>7 DEF Aggregate, phase, Working
  <2>3. \A i \in Combos : phase[i] \in Strategy!Terminal
    BY <1>7, <2>2 DEF Aggregate, Strategy!Terminal, Strategy!Outcomes, Outcomes,
         ResultInv, OutcomeInv
  <2>4. (\E i \in Combos : phase[i] = "error") <=> firstErr # None
    BY <1>7, <2>2, ValuesAssumption DEF Aggregate, ResultInv, FirstErrInv, OutcomeInv
  <2>5. firstErr = None =>
          ((\A i \in Combos : phase[i] = "success") <=> comboFailed \ comboSkipped = {})
    <3> SUFFICES ASSUME firstErr = None
                 PROVE  (\A i \in Combos : phase[i] = "success")
                          <=> comboFailed \ comboSkipped = {}
      OBVIOUS
    <3>1. ASSUME \A i \in Combos : phase[i] = "success"
          PROVE  comboFailed = {}
      BY <1>7, <2>2, <3>1 DEF Aggregate, ResultInv, OutcomeInv
    <3>2. ASSUME comboFailed \ comboSkipped = {}, NEW i \in Combos
          PROVE  phase[i] = "success"
      <4>1. comboFailed = {}
        BY <3>2, ValuesAssumption DEF ResultInv, OutcomeInv
      <4>2. comboSkipped = {}
        BY <4>1 DEF ResultInv, FlagInv
      <4>3. outcome[i] # None /\ outcome[i] # "failure" /\ outcome[i] # "error"
        BY <1>7, <4>1, <4>2 DEF Aggregate, ResultInv, OutcomeInv, FirstErrInv
      <4> QED
        BY <2>2, <4>2, <4>3 DEF Outcomes
    <3> QED
      BY <3>1, <3>2
  <2>6. SemCapacity' = SemCapacity
    BY <2>1 DEF SemCapacity
  <2>7. verdict' = IF \E i \in Combos : phase[i] = "error" THEN "error"
                   ELSE IF \A i \in Combos : phase[i] = "success" THEN "success"
                   ELSE "failure"
    BY <1>7, <2>4, <2>5 DEF Aggregate, Conclusion
  <2>8. Strategy!Conclude
    BY <1>7, <2>1, <2>3, <2>6, <2>7 DEF Aggregate, Strategy!Conclude
  <2> QED
    BY <2>8 DEF Strategy!Next
<1>8. CASE UNCHANGED vars
  BY <1>8, Stutter DEF vars, phase, loopVars
<1>9. Strategy!Outcomes = Outcomes
  BY DEF Strategy!Outcomes, Outcomes
<1> QED
  BY <1>1, <1>2, <1>3, <1>4, <1>5, <1>6, <1>7, <1>8, <1>9
     DEF Next, FanOutStep, Returned, Strategy!Next, Outcomes

\* Every behaviour of the goroutines is one the strategy allows: an admission
\* within the capacity and before any recorded failure, a skip after one, an
\* outcome per started combination, and one conclusion drawn from all of them.
THEOREM ImplementsStrategy == Spec => Refines
<1>1. Init => Strategy!Init
  BY StrategyInit
<1>2. IInv /\ IInv' /\ [Next]_vars => [Strategy!Next]_(Strategy!vars)
  BY StrategyStep
<1> QED
  BY <1>1, <1>2, Invariance, PTL DEF Spec, Refines, Strategy!Spec
=============================================================================
