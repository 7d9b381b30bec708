------------------------ MODULE ConcurrencyScheduler ------------------------
(***************************************************************************)
(* The concurrencyScheduler of internal/engine/concurrency_scheduler.go:   *)
(* the exclusivity of a `concurrency:` group among the matrix combinations *)
(* of one job.  The module declares the scheduler's state and one action   *)
(* per path through acquire and through the release closure it returns;    *)
(* MatrixRun supplies the goroutines that call them.                       *)
(*                                                                         *)
(* A group acquired with cancel-in-progress: false is a channel of         *)
(* capacity one (slots).  A group acquired with cancel-in-progress: true   *)
(* is a registered cancel function (cancel) and a generation counter       *)
(* (gen); both entries are created by acquire and deleted together by the  *)
(* release of the current generation, an absent gen entry reading as 0.    *)
(*                                                                         *)
(* A combination's context is one bit, ctxDone: whether the context that   *)
(* acquire returned (or the timeout context it was given) is done.  It is  *)
(* never reset.                                                            *)
(***************************************************************************)
EXTENDS Naturals

CONSTANTS Combos,       \* the combinations of the job
          Groups,       \* the group names the job's expression evaluates to
          None          \* no cancel function registered

VARIABLES slots,        \* slots[g]: tokens in the channel of group g
          gen,          \* gen[g]: the generation counter, 0 when deleted
          cancel,       \* cancel[g]: whose cancel function is registered
          ctxDone,      \* ctxDone[i]: the context of i is done
          release,      \* release[i]: which closure i was handed
          group,        \* group[i]: the group the closure captured
          myGen         \* myGen[i]: the generation the closure captured

schedVars == <<slots, gen, cancel, ctxDone, release, group, myGen>>

\* The closures acquire returns: nothing to undo, `<-ch`, or the unregistering.
Closures == {"none", "noop", "slot", "gen"}

SchedTypeOK ==
  /\ slots \in [Groups -> 0..1]
  /\ gen \in [Groups -> Nat]
  /\ cancel \in [Groups -> Combos \cup {None}]
  /\ ctxDone \in [Combos -> BOOLEAN]
  /\ release \in [Combos -> Closures]
  /\ group \in [Combos -> Groups \cup {None}]
  /\ myGen \in [Combos -> Nat]

SchedInit ==
  /\ slots = [g \in Groups |-> 0]
  /\ gen = [g \in Groups |-> 0]
  /\ cancel = [g \in Groups |-> None]
  /\ ctxDone = [i \in Combos |-> FALSE]
  /\ release = [i \in Combos |-> "none"]
  /\ group = [i \in Combos |-> None]
  /\ myGen = [i \in Combos |-> 0]

-----------------------------------------------------------------------------
\* group == "": the context is returned unchanged, release is a no-op.
AcquireNothing(i) ==
  /\ release' = [release EXCEPT ![i] = "noop"]
  /\ UNCHANGED <<slots, gen, cancel, ctxDone, group, myGen>>

SlotFree(g) == slots[g] = 0

\* Queueing: the send on the group's channel wins the select.
AcquireSlot(i, g) ==
  /\ SlotFree(g)
  /\ slots' = [slots EXCEPT ![g] = 1]
  /\ release' = [release EXCEPT ![i] = "slot"]
  /\ group' = [group EXCEPT ![i] = g]
  /\ UNCHANGED <<gen, cancel, ctxDone, myGen>>

\* Queueing: the context is done before (or while) the channel has room.
\* The caller gets its context back and no slot, and carries on.
GiveUp(i, g) ==
  /\ ctxDone[i]
  /\ release' = [release EXCEPT ![i] = "noop"]
  /\ group' = [group EXCEPT ![i] = g]
  /\ UNCHANGED <<slots, gen, cancel, ctxDone, myGen>>

\* Preempting: one critical section of s.mu cancels the registered holder,
\* opens a new generation and registers the caller.
Supersede(i, g) ==
  /\ ctxDone' = [j \in Combos |-> ctxDone[j] \/ j = cancel[g]]
  /\ gen' = [gen EXCEPT ![g] = gen[g] + 1]
  /\ myGen' = [myGen EXCEPT ![i] = gen[g] + 1]
  /\ cancel' = [cancel EXCEPT ![g] = i]
  /\ release' = [release EXCEPT ![i] = "gen"]
  /\ group' = [group EXCEPT ![i] = g]
  /\ UNCHANGED slots

\* The timeout-minutes timer fires, or a deferred cancel() runs.
ContextEnds(i) ==
  /\ ctxDone' = [ctxDone EXCEPT ![i] = TRUE]
  /\ UNCHANGED <<slots, gen, cancel, release, group, myGen>>

-----------------------------------------------------------------------------
\* `<-ch`.
ReleaseSlot(i) ==
  /\ release[i] = "slot"
  /\ slots' = [slots EXCEPT ![group[i]] = 0]
  /\ release' = [release EXCEPT ![i] = "none"]
  /\ UNCHANGED <<gen, cancel, ctxDone, group, myGen>>

NeverCurrent(i) == gen[group[i]] < myGen[i]

\* The generation test of the preempting release.
IsCurrent(i) == gen[group[i]] = myGen[i]

ReleaseGenCancelsHolder(i) ==
  /\ release[i] = "gen"
  /\ gen' = [gen EXCEPT ![group[i]] = 0]
  /\ cancel' = [cancel EXCEPT ![group[i]] = None]
  /\ ctxDone' = [j \in Combos |-> ctxDone[j] \/ j = cancel[group[i]]]
  /\ release' = [release EXCEPT ![i] = "none"]
  /\ UNCHANGED <<slots, group, myGen>>

\* Unregister if still the current generation, then cancel the own context.
ReleaseGen(i) ==
  /\ release[i] = "gen"
  /\ IF IsCurrent(i)
     THEN /\ gen' = [gen EXCEPT ![group[i]] = 0]
          /\ cancel' = [cancel EXCEPT ![group[i]] = None]
     ELSE UNCHANGED <<gen, cancel>>
  /\ ctxDone' = [ctxDone EXCEPT ![i] = TRUE]
  /\ release' = [release EXCEPT ![i] = "none"]
  /\ UNCHANGED <<slots, group, myGen>>

\* func() {}.
ReleaseNoop(i) ==
  /\ release[i] = "noop"
  /\ release' = [release EXCEPT ![i] = "none"]
  /\ UNCHANGED <<slots, gen, cancel, ctxDone, group, myGen>>

Release(i) == ReleaseSlot(i) \/ ReleaseGen(i) \/ ReleaseNoop(i)
=============================================================================
