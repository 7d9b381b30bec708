---------------------------- MODULE JobRunProofs -----------------------------
(***************************************************************************)
(* Theorems about one job, for every job, whatever its steps, the actions  *)
(* they use, how these nest, and how each process ends: first JobRun, then *)
(* from "The data of a job" on JobContext, the env each process gets.      *)
(***************************************************************************)
EXTENDS JobContext, SequenceTheorems, WellFoundedInduction, TLAPS

-----------------------------------------------------------------------------
(* The parts of the inductive invariant.                                   *)

CallerOf(k) == frames[k].body[frames[k].next]

\* A frame stands at one of its steps or after the last one.
FrameOK(k) ==
  /\ frames[k].next \in 1..Len(frames[k].body) + 1
  /\ frames[k].failed => frames[k].next > 1

\* A frame with another one on it stands at the composite step whose list
\* that is.
CallOK(k) ==
  /\ ~frames[k].failed /\ frames[k].next <= Len(frames[k].body)
  /\ Kind(CallerOf(k)) = "composite"
  /\ frames[k + 1].body = Action[CallerOf(k).uses].body

FramesInv ==
  /\ frames # <<>> /\ frames[1].body = steps
  /\ \A k \in 1..Len(frames) : FrameOK(k)
  /\ \A k \in 1..Len(frames) - 1 : CallOK(k)
  /\ phase = "exec" => ~Over
  /\ phase \in {"posts", "postExec"} => Len(frames) = 1 /\ Over
  /\ phase = "postExec" => post > 0 /\ PostWanted(pending[post])

\* The job's steps that are over.
Ran == frames[1].next - 1

Excused(k) == reports[k].conclusion = "failure" => steps[k].continueOnError

\* Each of the job's steps that is over has its report, then come the posts;
\* only the last step can have failed the job.
ReportsInv ==
  /\ Ran <= Len(reports)
  /\ \A k \in 1..Len(reports) : reports[k].post <=> k > Ran
  /\ phase \in {"steps", "exec"} => Len(reports) = Ran
  /\ \A k \in 1..Ran : ~Excused(k) => k = Ran /\ frames[1].failed
  /\ frames[1].failed => Ran > 0 /\ ~Excused(Ran)

ResultInv ==
  /\ phase # "done" => result = None
  /\ result \in {"success", "failure"} =>
       Len(frames) = 1 /\ Over /\ post = 0 /\ result = Conclusion

\* The secret is shown by no output that comes after its registration.
MaskInv ==
  /\ \A k \in 1..Ran : reports[k].registered => masked
  /\ \A k \in 1..Len(frames) : frames[k].registered => masked
  /\ \A k \in 1..Ran : reports[k].registered =>
       /\ \A l \in 2..Len(frames) : ~frames[l].shows
       /\ \A l \in k + 1..Ran : ~reports[l].shows

\* What has been copied was copied for a step the job comes to, and what a
\* pending post needs has been copied.
StagedInv ==
  /\ \A k \in 1..Len(frames) : Range(frames[k].body) \subseteq StepsWithin(steps)
  /\ \A id \in Ids : staged[id] # None =>
       \E s \in StepsWithin(steps) : s.id = id /\ s.uses = staged[id]
  /\ phase = "exec" /\ Kind(Current) = "node" /\ ~DryRun => staged[Current.id] # None
  /\ ~DryRun => \A i \in 1..Len(pending) : staged[pending[i].id] # None

\* The step of the job whose post is collected.
Collected(k) == reports[k].conclusion # "skipped" /\ HasPost(steps[k])

\* at[i] is the step of the i-th pending post.
Collects(at) ==
  /\ \A i, j \in 1..Len(pending) : i < j => at[i] < at[j]
  /\ \A i \in 1..Len(pending) : /\ Collected(at[i])
                                /\ pending[i].id = steps[at[i]].id
                                /\ pending[i].uses = steps[at[i]].uses
  /\ \A k \in 1..Ran : Collected(k) => \E i \in 1..Len(pending) : at[i] = k

CollectedInv == \E at \in [1..Len(pending) -> 1..Ran] : Collects(at)

\* of[m] is the pending post of the m-th report of a post.
Posted(of) ==
  /\ \A m, n \in 1..Len(reports) - Ran : m < n => of[m] > of[n]
  /\ \A m \in 1..Len(reports) - Ran : /\ of[m] > post
                                      /\ PostWanted(pending[of[m]])
                                      /\ reports[Ran + m].id = pending[of[m]].id
  /\ \A i \in post + 1..Len(pending) : PostWanted(pending[i]) =>
       \E m \in 1..Len(reports) - Ran : of[m] = i

PostedInv ==
  phase \in {"posts", "postExec"} \/ result \in {"success", "failure"} =>
    \E of \in [1..Len(reports) - Ran -> 1..Len(pending)] : Posted(of)

IInv == /\ TypeOK /\ FramesInv /\ ReportsInv /\ ResultInv /\ MaskInv /\ StagedInv
        /\ CollectedInv /\ PostedInv

-----------------------------------------------------------------------------
(* Steps and frames.                                                       *)

LEMMA BodyIs ==
  ASSUME NEW body \in Bodies
  PROVE  /\ Len(body) \in Nat /\ DOMAIN body = 1..Len(body)
         /\ \A k \in 1..Len(body) : IsStep(body[k]) /\ body[k] \in Range(body)
BY StepsAssumption DEF Range

LEMMA KindIs ==
  ASSUME NEW s, IsStep(s)
  PROVE  /\ Kind(s) # "run" => s.uses \in DOMAIN Action /\ s.uses # None
         /\ HasPost(s) => Kind(s) = "node" /\ s.uses \in DOMAIN Action
         /\ Kind(s) = "run" <=> s.uses = None
BY ActionAssumption DEF IsStep, Kind, HasPost

\* The frames of a well-typed state, one by one.
LEMMA FrameIs ==
  ASSUME TypeOK, FramesInv, NEW k \in 1..Len(frames)
  PROVE  /\ frames[k] \in Frame /\ frames[k].body \in Bodies
         /\ frames[k].next \in Nat \ {0} /\ frames[k].next <= Len(frames[k].body) + 1
         /\ FrameOK(k)
<1>1. frames \in Seq(Frame) /\ FrameOK(k)
  BY DEF TypeOK, FramesInv
<1>2. frames[k] \in Frame
  BY <1>1
<1>3. frames[k].body \in Bodies /\ frames[k].next \in Nat
  BY <1>2 DEF Frame
<1>4. Len(frames[k].body) \in Nat
  BY <1>3, BodyIs
<1> QED
  BY <1>1, <1>2, <1>3, <1>4 DEF FrameOK

LEMMA Depth ==
  ASSUME TypeOK, FramesInv
  PROVE  /\ Len(frames) \in Nat \ {0} /\ frames \in Seq(Frame)
         /\ frames[1].body = steps /\ steps \in Bodies
         /\ Ran \in 0..Len(steps)
<1>1. Len(frames) \in Nat \ {0} /\ frames \in Seq(Frame)
  BY DEF TypeOK, FramesInv
<1>2. frames[1].body = steps /\ steps \in Bodies
  BY DEF TypeOK, FramesInv, Bodies
<1>3. Len(steps) \in Nat
  BY <1>2, BodyIs
<1> QED
  BY <1>1, <1>2, <1>3, FrameIs DEF Ran

\* The step at hand is one of the list's.
LEMMA CurrentIs ==
  ASSUME TypeOK, FramesInv, ~Over
  PROVE  /\ Innermost = frames[Len(frames)] /\ Current = CallerOf(Len(frames))
         /\ ~Innermost.failed /\ Innermost.next \in 1..Len(Innermost.body)
         /\ IsStep(Current) /\ Current \in Range(Innermost.body)
<1>1. Len(frames) \in 1..Len(frames)
  BY Depth
<1>2. Innermost.next \in 1..Len(Innermost.body) /\ Innermost.body \in Bodies
  BY <1>1, FrameIs, BodyIs DEF Innermost, Over
<1> QED
  BY <1>1, <1>2, BodyIs DEF Innermost, Current, CallerOf, Over

-----------------------------------------------------------------------------
(* A step of a list is over: skipped, its process ended, or its own list   *)
(* ended.  All three do the same to the frames and the reports.            *)

\* The post of the job's step at hand is collected if that step ran.
Collecting(c) ==
  /\ c # "skipped" /\ HasPost(CallerOf(1)) =>
       pending' = Append(pending, [id |-> CallerOf(1).id, uses |-> CallerOf(1).uses])
  /\ ~(c # "skipped" /\ HasPost(CallerOf(1))) => pending' = pending

\* What the step of frame m leaves behind.
Settling(m, c, reg, shows) ==
  /\ m \in 1..Len(frames) /\ c \in Outcomes /\ reg \in BOOLEAN /\ shows \in BOOLEAN
  /\ ~frames[m].failed /\ frames[m].next \in 1..Len(frames[m].body)
  /\ frames' \in Seq(Frame) /\ Len(frames') = m
  /\ \A k \in 1..m - 1 : frames'[k] = frames[k]
  /\ frames'[m].body = frames[m].body /\ frames'[m].next = frames[m].next + 1
  /\ frames'[m].failed <=> c = "failure" /\ ~CallerOf(m).continueOnError
  /\ frames'[m].registered <=> frames[m].registered \/ reg
  /\ frames'[m].shows <=> frames[m].shows \/ shows
  /\ m > 1 => reports' = reports /\ pending' = pending
  /\ m = 1 =>
       /\ reports' = Append(reports, [id |-> CallerOf(1).id, post |-> FALSE,
                                      conclusion |-> c, registered |-> reg, shows |-> shows])
       /\ Collecting(c)

\* A frame whose step is over.
Advanced(f, c, reg, shows) ==
  [f EXCEPT !.next = @ + 1, !.outcome[f.body[f.next].id] = c,
            !.failed = c = "failure" /\ ~f.body[f.next].continueOnError,
            !.registered = @ \/ reg, !.shows = @ \/ shows]

LEMMA AdvancedFrame ==
  ASSUME NEW f \in Frame, f.next \in 1..Len(f.body), NEW c \in Outcomes,
         NEW reg \in BOOLEAN, NEW shows \in BOOLEAN, NEW g,
         g = Advanced(f, c, reg, shows)
  PROVE  /\ g \in Frame /\ g.body = f.body /\ g.next = f.next + 1
         /\ g.failed <=> c = "failure" /\ ~f.body[f.next].continueOnError
         /\ g.registered <=> f.registered \/ reg
         /\ g.shows <=> f.shows \/ shows
<1> DEFINE id == f.body[f.next].id
           out == [f.outcome EXCEPT ![id] = c]
           ends == c = "failure" /\ ~f.body[f.next].continueOnError
<1>1. f.body \in Bodies /\ f.next \in Nat /\ f.registered \in BOOLEAN /\ f.shows \in BOOLEAN
  BY DEF Frame
<1>2. IsStep(f.body[f.next])
  BY <1>1, BodyIs
<1>3. f.outcome \in [Ids -> Outcomes \cup {None}]
  BY DEF Frame
<1>4. out \in [Ids -> Outcomes \cup {None}]
  BY <1>3
<1>5. ends \in BOOLEAN
  OBVIOUS
<1>6. g = [body |-> f.body, next |-> f.next + 1, outcome |-> out, failed |-> ends,
           registered |-> f.registered \/ reg, shows |-> f.shows \/ shows]
  BY DEF Frame, Advanced
<1> HIDE DEF out, ends
<1>7. g \in Frame
  BY <1>1, <1>4, <1>5, <1>6 DEF Frame
<1>8. g.body = f.body /\ g.next = f.next + 1 /\ g.failed = ends
  BY <1>6
<1>9. g.registered = (f.registered \/ reg) /\ g.shows = (f.shows \/ shows)
  BY <1>6
<1> QED
  BY <1>7, <1>8, <1>9, Zenon DEF ends

LEMMA SettlingIs ==
  ASSUME TypeOK, FramesInv, NEW fs \in Seq(Frame), Len(fs) \in 1..Len(frames),
         \A k \in 1..Len(fs) : fs[k] = frames[k],
         ~frames[Len(fs)].failed,
         frames[Len(fs)].next \in 1..Len(frames[Len(fs)].body),
         NEW c \in Outcomes, NEW reg \in BOOLEAN, NEW shows \in BOOLEAN,
         frames' = Settled(fs, c, reg, shows), reports' = Reported(fs, c, reg, shows),
         Len(fs) > 1 => pending' = pending,
         Len(fs) = 1 => Collecting(c)
  PROVE  Settling(Len(fs), c, reg, shows)
<1> DEFINE m == Len(fs)
           f == fs[m]
           g == Advanced(f, c, reg, shows)
<1>1. m \in 1..Len(frames) /\ m \in 1..m /\ m \in Nat \ {0}
  BY Depth
<1>2. f = frames[m] /\ f \in Frame /\ f.next \in 1..Len(f.body)
  BY <1>1
<1> HIDE DEF f
<1>3. /\ g \in Frame /\ g.body = f.body /\ g.next = f.next + 1
      /\ g.failed <=> c = "failure" /\ ~f.body[f.next].continueOnError
      /\ g.registered <=> f.registered \/ reg
      /\ g.shows <=> f.shows \/ shows
  <2> HIDE DEF g
  <2> QED
    BY <1>2, AdvancedFrame DEF g
<1>4. frames' = [fs EXCEPT ![m] = g]
  BY DEF Settled, Advanced, f
<1> HIDE DEF g
<1>5. /\ frames' \in Seq(Frame) /\ Len(frames') = m /\ frames'[m] = g
      /\ \A k \in 1..m - 1 : frames'[k] = frames[k]
  BY <1>1, <1>3, <1>4
<1>6. m > 1 => reports' = reports
  BY DEF Reported
<1>7. m = 1 => reports' = Append(reports, [id |-> CallerOf(1).id, post |-> FALSE,
                            conclusion |-> c, registered |-> reg, shows |-> shows])
  <2>1. m = 1 => fs[1] = frames[1] /\ ~(Len(fs) > 1)
    BY <1>1
  <2> QED
    BY <2>1 DEF Reported, CallerOf
<1>8. CallerOf(m) = f.body[f.next]
  BY <1>2 DEF CallerOf
<1> QED
  BY <1>1, <1>2, <1>3, <1>5, <1>6, <1>7, <1>8 DEF Settling

\* The step at hand is over and what comes of it.
Settles ==
  /\ phase \in {"steps", "exec"} /\ phase' = "steps"
  /\ UNCHANGED <<steps, post, staged, result>>
  /\ masked' \in BOOLEAN /\ (masked => masked')
  /\ \E m \in 1..Len(frames), c \in Outcomes, reg, shows \in BOOLEAN :
       /\ Settling(m, c, reg, shows)
       /\ reg => masked'
       /\ (\E k \in 1..Ran : reports[k].registered) => ~shows
       /\ m = 1 /\ c # "skipped" /\ HasPost(CallerOf(1)) /\ ~DryRun =>
            staged[CallerOf(1).id] # None

LEMMA SkipSettles ==
  ASSUME IInv, SkipStep
  PROVE  Settles
<1> USE DEF IInv
<1>1. ~Over /\ phase = "steps"
  BY DEF SkipStep, AtStep
<1>2. frames \in Seq(Frame) /\ frames # <<>> /\ Len(frames) \in 1..Len(frames)
  BY Depth DEF FramesInv
<1>3. ~frames[Len(frames)].failed /\ frames[Len(frames)].next \in 1..Len(frames[Len(frames)].body)
  BY <1>1, CurrentIs
<1>4. pending' = pending /\ Collecting("skipped")
  <2>1. pending' = pending
    BY DEF SkipStep
  <2> QED
    BY <2>1, Zenon DEF Collecting
<1>5. Settling(Len(frames), "skipped", FALSE, FALSE)
  <2>1. "skipped" \in Outcomes /\ \A k \in 1..Len(frames) : frames[k] = frames[k]
    BY DEF Outcomes
  <2>2. /\ frames' = Settled(frames, "skipped", FALSE, FALSE)
        /\ reports' = Reported(frames, "skipped", FALSE, FALSE)
    BY DEF SkipStep
  <2> QED
    BY <1>2, <1>3, <1>4, <2>1, <2>2, SettlingIs, Zenon
<1> QED
  BY <1>1, <1>2, <1>5 DEF Settles, SkipStep, TypeOK, Outcomes

LEMMA ExitSettles ==
  ASSUME IInv, StepExits
  PROVE  Settles
<1> USE DEF IInv
<1>1. ~Over /\ phase = "exec"
  BY DEF StepExits, FramesInv
<1>2. frames \in Seq(Frame) /\ frames # <<>> /\ Len(frames) \in 1..Len(frames)
  BY Depth DEF FramesInv
<1>3. /\ ~frames[Len(frames)].failed
      /\ frames[Len(frames)].next \in 1..Len(frames[Len(frames)].body)
      /\ Current = CallerOf(Len(frames)) /\ IsStep(Current)
  BY <1>1, CurrentIs
<1>4. PICK c \in {"success", "failure"}, reg, prints \in BOOLEAN :
        /\ masked' = (masked \/ reg)
        /\ frames' = Settled(frames, c, reg, prints /\ ~(masked \/ reg))
        /\ reports' = Reported(frames, c, reg, prints /\ ~(masked \/ reg))
  BY DEF StepExits, MaskedAfter
<1> DEFINE shows == prints /\ ~(masked \/ reg)
<1>5. shows \in BOOLEAN /\ c \in Outcomes /\ c # "skipped"
  BY DEF Outcomes
<1>6. Len(frames) = 1 => Collecting(c)
  <2>1. SUFFICES ASSUME Len(frames) = 1 PROVE Collecting(c)
    OBVIOUS
  <2>2. Current = CallerOf(1)
    BY <1>3, <2>1
  <2>3. CASE HasPost(CallerOf(1))
    BY <1>5, <2>1, <2>2, <2>3 DEF Collecting, StepExits, CollectsPost
  <2>4. CASE ~HasPost(CallerOf(1))
    BY <2>1, <2>2, <2>4 DEF Collecting, StepExits, CollectsPost
  <2> QED
    BY <2>3, <2>4
<1>7. Len(frames) > 1 => pending' = pending
  <2>1. Len(frames) > 1 => ~(Len(frames) = 1)
    <3>1. \A n \in Nat : n > 1 => ~(n = 1)
      OBVIOUS
    <3>2. Len(frames) \in Nat
      BY Depth
    <3> QED
      BY <3>1, <3>2, Zenon
  <2>2. ~(Len(frames) = 1) => ~CollectsPost
    BY Zenon DEF CollectsPost
  <2> QED
    BY <2>1, <2>2 DEF StepExits
<1>8. Settling(Len(frames), c, reg, shows)
  <2>1. \A k \in 1..Len(frames) : frames[k] = frames[k]
    OBVIOUS
  <2>2. /\ frames' = Settled(frames, c, reg, shows)
        /\ reports' = Reported(frames, c, reg, shows)
    BY <1>4
  <2> HIDE DEF shows
  <2> QED
    BY <1>2, <1>3, <1>5, <1>6, <1>7, <2>1, <2>2, SettlingIs, Zenon
<1>9. (\E k \in 1..Ran : reports[k].registered) => ~shows
  BY DEF MaskInv
<1>10. HasPost(CallerOf(Len(frames))) /\ ~DryRun => staged[CallerOf(Len(frames)).id] # None
  BY <1>1, <1>3, KindIs DEF StagedInv
<1>11. masked' \in BOOLEAN /\ (masked => masked') /\ (reg => masked')
  BY <1>4 DEF TypeOK
<1>12. phase' = "steps" /\ UNCHANGED <<steps, post, staged, result>>
  BY DEF StepExits
<1> HIDE DEF shows
<1> QED
  BY <1>1, <1>2, <1>5, <1>8, <1>9, <1>10, <1>11, <1>12 DEF Settles

LEMMA LeaveSettles ==
  ASSUME IInv, LeaveComposite
  PROVE  Settles
<1> USE DEF IInv
<1> DEFINE n == Len(frames)
           fs == Front(frames)
           c == IF Innermost.failed THEN "failure" ELSE "success"
<1>1. n \in Nat /\ n > 1 /\ n - 1 \in 1..n - 1 /\ n \in 2..n /\ n \in 1..n
  BY Depth DEF LeaveComposite
<1>2. fs \in Seq(Frame) /\ Len(fs) = n - 1 /\ \A k \in 1..Len(fs) : fs[k] = frames[k]
  BY <1>1, Depth, SubSeqProperties DEF Front
<1>3. /\ ~frames[n - 1].failed /\ frames[n - 1].next <= Len(frames[n - 1].body)
      /\ Kind(CallerOf(n - 1)) = "composite"
  BY <1>1 DEF FramesInv, CallOK
<1>4. frames[n - 1].next \in 1..Len(frames[n - 1].body)
  BY <1>1, <1>3, FrameIs, BodyIs
<1>5. Innermost = frames[n] /\ frames[n] \in Frame
  BY <1>1, FrameIs DEF Innermost
<1>6. Innermost.registered \in BOOLEAN /\ Innermost.shows \in BOOLEAN /\ c \in Outcomes
  BY <1>5 DEF Frame, Outcomes
<1>7. frames' = Settled(fs, c, Innermost.registered, Innermost.shows)
  BY DEF LeaveComposite
<1>8. reports' = Reported(fs, c, Innermost.registered, Innermost.shows)
  BY DEF LeaveComposite
<1>9. ~HasPost(CallerOf(n - 1))
  BY <1>3 DEF HasPost
<1>10. pending' = pending /\ (Len(fs) = 1 => Collecting(c))
  BY <1>2, <1>9 DEF LeaveComposite, Collecting
<1> HIDE DEF fs, c
<1>11. Settling(n - 1, c, Innermost.registered, Innermost.shows)
  BY <1>1, <1>2, <1>3, <1>4, <1>6, <1>7, <1>8, <1>10, SettlingIs, SMTT(30)
<1>12. Innermost.registered => masked
  BY <1>1, <1>5 DEF MaskInv
<1>13. (\E k \in 1..Ran : reports[k].registered) => ~Innermost.shows
  BY <1>1, <1>5 DEF MaskInv
<1>14. /\ phase = "steps" /\ phase' = "steps" /\ masked' = masked /\ masked \in BOOLEAN
       /\ UNCHANGED <<steps, post, staged, result>>
  BY DEF LeaveComposite, TypeOK
<1>15. n - 1 \in 1..Len(frames)
  BY <1>1
<1>16. n - 1 = 1 => ~HasPost(CallerOf(1))
  BY <1>9
<1> QED
  BY <1>6, <1>11, <1>12, <1>13, <1>14, <1>15, <1>16 DEF Settles

-----------------------------------------------------------------------------
(* What a step that is over preserves.                                     *)

LEMMA CallerIs ==
  ASSUME TypeOK, FramesInv, NEW m \in 1..Len(frames),
         frames[m].next \in 1..Len(frames[m].body)
  PROVE  IsStep(CallerOf(m)) /\ CallerOf(m) \in Range(frames[m].body)
BY FrameIs, BodyIs DEF CallerOf

LEMMA SettlingTypes ==
  ASSUME IInv, Settles, ctxDone' \in BOOLEAN
  PROVE  TypeOK'
<1> USE DEF IInv
<1>1. PICK m \in 1..Len(frames), c \in Outcomes, reg \in BOOLEAN, shows \in BOOLEAN :
        Settling(m, c, reg, shows)
  BY DEF Settles
<1>2. frames' \in Seq(Frame)
  BY <1>1 DEF Settling
<1>3. IsStep(CallerOf(m))
  BY <1>1, CallerIs DEF Settling
<1>4. reports' \in Seq(Report)
  <2>1. CASE m > 1
    BY <1>1, <2>1 DEF Settling, TypeOK
  <2>2. CASE m = 1
    <3>1. [id |-> CallerOf(1).id, post |-> FALSE, conclusion |-> c,
           registered |-> reg, shows |-> shows] \in Report
      BY <1>1, <1>3, <2>2 DEF Report, IsStep
    <3>2. reports \in Seq(Report)
      BY DEF TypeOK
    <3>3. reports' = Append(reports, [id |-> CallerOf(1).id, post |-> FALSE,
                              conclusion |-> c, registered |-> reg, shows |-> shows])
      BY <1>1, <2>2 DEF Settling
    <3> QED
      BY <3>1, <3>2, <3>3
  <2> QED
    BY <1>1, <2>1, <2>2, Depth
<1>5. pending' \in Seq([id : Ids, uses : DOMAIN Action]) /\ Len(pending') >= Len(pending)
  <2>0. pending \in Seq([id : Ids, uses : DOMAIN Action])
    BY DEF TypeOK
  <2>1. CASE pending' = pending
    BY <2>0, <2>1
  <2>2. CASE m = 1 /\ HasPost(CallerOf(1)) /\
             pending' = Append(pending, [id |-> CallerOf(1).id, uses |-> CallerOf(1).uses])
    <3>1. CallerOf(1).id \in Ids /\ CallerOf(1).uses \in DOMAIN Action
      BY <1>3, <2>2, KindIs DEF IsStep
    <3> QED
      BY <2>0, <2>2, <3>1
  <2>3. m > 1 \/ m = 1
    BY <1>1, Depth
  <2> QED
    BY <1>1, <2>1, <2>2, <2>3 DEF Settling, Collecting
<1>6. post' \in 0..Len(pending')
  BY <1>5 DEF Settles, TypeOK
<1>7. /\ steps' \in JobSteps /\ phase' \in Phases /\ masked' \in BOOLEAN
      /\ staged' \in [Ids -> DOMAIN Action \cup {None}]
      /\ result' \in {None, "success", "failure", "error"}
  BY DEF Settles, TypeOK, Phases
<1> QED
  BY <1>2, <1>4, <1>5, <1>6, <1>7 DEF TypeOK

LEMMA SettlingFrames ==
  ASSUME IInv, Settles
  PROVE  FramesInv'
<1> USE DEF IInv
<1>1. PICK m \in 1..Len(frames), c \in Outcomes, reg \in BOOLEAN, shows \in BOOLEAN :
        Settling(m, c, reg, shows)
  BY DEF Settles
<1>2. /\ m \in Nat \ {0} /\ Len(frames') = m /\ frames' \in Seq(Frame)
      /\ \A k \in 1..m - 1 : frames'[k] = frames[k]
      /\ frames'[m].body = frames[m].body /\ frames'[m].next = frames[m].next + 1
      /\ frames[m].next \in 1..Len(frames[m].body)
  BY <1>1, Depth DEF Settling
<1>3. frames' # <<>> /\ frames'[1].body = steps'
  <2>1. CASE m = 1
    BY <1>2, <2>1, Depth DEF Settles
  <2>2. CASE m # 1
    BY <1>2, <2>2, Depth DEF Settles
  <2> QED
    BY <1>2, <2>1, <2>2
<1>4. ASSUME NEW k \in 1..Len(frames') PROVE FrameOK(k)'
  <2>1. CASE k = m
    <3>1. Len(frames[m].body) \in Nat
      BY FrameIs, BodyIs
    <3> QED
      BY <1>2, <2>1, <3>1 DEF FrameOK
  <2>2. CASE k # m
    <3>1. k \in 1..Len(frames) /\ frames'[k] = frames[k]
      BY <1>2, <2>2, Depth
    <3> QED
      BY <3>1, FrameIs DEF FrameOK
  <2> QED
    BY <2>1, <2>2
<1>5. ASSUME NEW k \in 1..Len(frames') - 1 PROVE CallOK(k)'
  <2>1. /\ k \in 1..Len(frames) - 1 /\ frames'[k] = frames[k]
        /\ frames'[k + 1].body = frames[k + 1].body
    BY <1>2, Depth
  <2>2. CallOK(k)
    BY <2>1 DEF FramesInv
  <2> QED
    BY <2>1, <2>2 DEF CallOK, CallerOf, Kind
<1>6. phase' = "steps"
  BY DEF Settles
<1> QED
  BY <1>3, <1>4, <1>5, <1>6 DEF FramesInv

\* What the reports and the first frame become.
LEMMA SettlingSteps ==
  ASSUME IInv, NEW m, NEW c, NEW reg, NEW shows, Settling(m, c, reg, shows), 
         phase \in {"steps", "exec"}
  PROVE  /\ m > 1 => /\ Ran' = Ran /\ reports' = reports /\ pending' = pending
                     /\ frames'[1] = frames[1]
         /\ m = 1 => /\ Ran' = Ran + 1 /\ Len(reports') = Ran + 1 /\ Len(reports) = Ran
                     /\ \A k \in 1..Ran : reports'[k] = reports[k]
                     /\ reports'[Ran + 1] = [id |-> CallerOf(1).id, post |-> FALSE,
                          conclusion |-> c, registered |-> reg, shows |-> shows]
                     /\ CallerOf(1) = steps[Ran + 1] /\ ~frames[1].failed
         /\ Ran \in Nat /\ (m > 1 \/ m = 1) /\ m \in Nat
<1> USE DEF IInv
<1>1. m \in 1..Len(frames) /\ Len(frames) \in Nat \ {0} /\ Ran \in Nat
  BY Depth DEF Settling
<1>2. frames[1].next \in Nat
  BY <1>1, FrameIs
<1>3. ASSUME m > 1
      PROVE  /\ Ran' = Ran /\ reports' = reports /\ pending' = pending
             /\ frames'[1] = frames[1]
  <2>1. 1 \in 1..m - 1
    BY <1>1, <1>3
  <2> QED
    BY <1>3, <2>1 DEF Settling, Ran
<1>4. ASSUME m = 1
      PROVE  /\ Ran' = Ran + 1 /\ Len(reports') = Ran + 1 /\ Len(reports) = Ran
             /\ \A k \in 1..Ran : reports'[k] = reports[k]
             /\ reports'[Ran + 1] = [id |-> CallerOf(1).id, post |-> FALSE,
                  conclusion |-> c, registered |-> reg, shows |-> shows]
             /\ CallerOf(1) = steps[Ran + 1] /\ ~frames[1].failed
  <2>1. Len(reports) = Ran /\ reports \in Seq(Report)
    BY DEF ReportsInv, TypeOK
  <2>2. reports' = Append(reports, [id |-> CallerOf(1).id, post |-> FALSE,
                            conclusion |-> c, registered |-> reg, shows |-> shows])
    BY <1>4 DEF Settling
  <2>3. frames'[1].next = frames[1].next + 1 /\ ~frames[1].failed
    BY <1>4 DEF Settling
  <2>4. CallerOf(1) = steps[Ran + 1]
    BY <1>2, Depth DEF CallerOf, Ran
  <2>5. Ran' = Ran + 1
    BY <1>2, <2>3 DEF Ran
  <2> QED
    BY <1>1, <2>1, <2>2, <2>3, <2>4, <2>5
<1> QED
  BY <1>1, <1>3, <1>4

LEMMA SettlingReports ==
  ASSUME IInv, Settles
  PROVE  ReportsInv'
<1> USE DEF IInv
<1>1. PICK m \in 1..Len(frames), c \in Outcomes, reg \in BOOLEAN, shows \in BOOLEAN :
        Settling(m, c, reg, shows)
  BY DEF Settles
<1>2. phase \in {"steps", "exec"} /\ phase' = "steps" /\ steps' = steps
  BY DEF Settles
<1>3. CASE m > 1
  <2>1. Ran' = Ran /\ reports' = reports /\ frames'[1] = frames[1]
    BY <1>1, <1>2, <1>3, SettlingSteps
  <2> QED
    BY <1>2, <2>1 DEF ReportsInv, Excused
<1>4. CASE m = 1
  <2>1. PICK r \in Nat : r = Ran
    BY Depth
  <2>2. /\ Ran' = r + 1 /\ Len(reports') = r + 1 /\ Len(reports) = r
        /\ \A k \in 1..r : reports'[k] = reports[k]
        /\ reports'[r + 1] = [id |-> CallerOf(1).id, post |-> FALSE,
             conclusion |-> c, registered |-> reg, shows |-> shows]
        /\ CallerOf(1) = steps[r + 1] /\ ~frames[1].failed
    BY <1>1, <1>2, <1>4, <2>1, SettlingSteps
  <2>3. reports'[r + 1].post = FALSE /\ reports'[r + 1].conclusion = c
    BY <2>2
  <2>4. \A k \in 1..r : Excused(k) /\ ~reports[k].post
    BY <2>1, <2>2 DEF ReportsInv
  <2>5. \A k \in 1..r : Excused(k)' /\ ~reports'[k].post
    BY <1>2, <2>2, <2>4 DEF Excused
  <2>6. frames'[1].failed <=> c = "failure" /\ ~CallerOf(1).continueOnError
    BY <1>1, <1>4 DEF Settling
  <2>7. Excused(r + 1)' <=> ~frames'[1].failed
    BY <1>2, <2>2, <2>3, <2>6 DEF Excused
  <2>8. \A k \in 1..r + 1 : (k \in 1..r \/ k = r + 1) /\ k \in Nat
    OBVIOUS
  <2>9. \A k \in 1..r + 1 : reports'[k].post <=> k > r + 1
    BY <2>3, <2>5, <2>8
  <2>10. \A k \in 1..r + 1 : ~Excused(k)' => k = r + 1 /\ frames'[1].failed
    BY <2>5, <2>7, <2>8
  <2>11. frames'[1].failed => r + 1 > 0 /\ ~Excused(Ran)'
    BY <2>2, <2>7 DEF Excused
  <2> QED
    BY <2>2, <2>9, <2>10, <2>11 DEF ReportsInv
<1> QED
  BY <1>1, <1>2, <1>3, <1>4, SettlingSteps

LEMMA SettlingMasks ==
  ASSUME IInv, Settles
  PROVE  MaskInv'
<1> USE DEF IInv
<1>1. PICK m \in 1..Len(frames), c \in Outcomes, reg \in BOOLEAN, shows \in BOOLEAN :
        /\ Settling(m, c, reg, shows)
        /\ reg => masked'
        /\ (\E k \in 1..Ran : reports[k].registered) => ~shows
  BY DEF Settles
<1>2. phase \in {"steps", "exec"} /\ (masked => masked')
  BY DEF Settles
<1>3. /\ Len(frames') = m /\ m \in Nat \ {0} /\ m <= Len(frames) /\ Len(frames) \in Nat
      /\ \A k \in 1..m - 1 : frames'[k] = frames[k]
      /\ frames'[m].registered <=> frames[m].registered \/ reg
      /\ frames'[m].shows <=> frames[m].shows \/ shows
  BY <1>1, Depth DEF Settling
<1>4. \A k \in 1..m : k \in 1..m - 1 \/ k = m
  BY <1>3
<1>5. \A k \in 1..Len(frames') : frames'[k].registered => masked'
  <2>1. \A k \in 1..m : k \in 1..Len(frames) /\ (frames[k].registered => masked)
    BY <1>3 DEF MaskInv
  <2> QED
    BY <1>1, <1>2, <1>3, <1>4, <2>1
<1>6. \A l \in 2..Len(frames') : frames'[l].shows => frames[l].shows \/ shows
  BY <1>3
<1>7. CASE m > 1
  <2>1. Ran' = Ran /\ reports' = reports /\ Ran \in Nat
    BY <1>1, <1>2, <1>7, SettlingSteps
  <2>2. \A l \in 2..m : l \in 2..Len(frames)
    BY <1>3
  <2>3. \A k \in 1..Ran' : reports'[k].registered => masked'
    BY <1>2, <2>1 DEF MaskInv
  <2>4. \A k \in 1..Ran' : reports'[k].registered =>
          /\ \A l \in 2..Len(frames') : ~frames'[l].shows
          /\ \A l \in k + 1..Ran' : ~reports'[l].shows
    BY <1>1, <1>3, <1>6, <2>1, <2>2 DEF MaskInv
  <2> QED
    BY <1>5, <2>3, <2>4 DEF MaskInv
<1>8. CASE m = 1
  <2>1. /\ Ran' = Ran + 1 /\ Len(reports') = Ran + 1 /\ Ran \in Nat
        /\ \A k \in 1..Ran : reports'[k] = reports[k]
        /\ reports'[Ran + 1] = [id |-> CallerOf(1).id, post |-> FALSE,
             conclusion |-> c, registered |-> reg, shows |-> shows]
    BY <1>1, <1>2, <1>8, SettlingSteps
  <2>2. reports'[Ran + 1].registered = reg /\ reports'[Ran + 1].shows = shows
    BY <2>1
  <2>3. \A k \in 1..Ran' : k \in 1..Ran \/ k = Ran + 1
    BY <2>1
  <2>4. \A k \in 1..Ran' : reports'[k].registered => masked'
    BY <1>1, <1>2, <2>1, <2>2, <2>3 DEF MaskInv
  <2>5. ASSUME NEW k \in 1..Ran', reports'[k].registered, NEW l \in k + 1..Ran'
        PROVE  ~reports'[l].shows
    <3>1. k \in 1..Ran /\ reports[k].registered
      BY <2>1, <2>5
    <3>2. CASE l = Ran + 1
      BY <1>1, <2>2, <3>1, <3>2
    <3>3. CASE l # Ran + 1
      <4>1. l \in k + 1..Ran /\ l \in 1..Ran
        BY <2>1, <3>3
      <4> QED
        BY <2>1, <3>1, <4>1 DEF MaskInv
    <3> QED
      BY <3>2, <3>3
  <2>6. \A l \in 2..Len(frames') : FALSE
    BY <1>3, <1>8
  <2> QED
    BY <1>5, <2>4, <2>5, <2>6 DEF MaskInv
<1> QED
  BY <1>1, <1>2, <1>7, <1>8, SettlingSteps

LEMMA SettlingStaged ==
  ASSUME IInv, Settles
  PROVE  StagedInv'
<1> USE DEF IInv
<1>1. PICK m \in 1..Len(frames), c \in Outcomes, reg \in BOOLEAN, shows \in BOOLEAN :
        /\ Settling(m, c, reg, shows)
        /\ m = 1 /\ c # "skipped" /\ HasPost(CallerOf(1)) /\ ~DryRun =>
             staged[CallerOf(1).id] # None
  BY DEF Settles
<1>2. /\ phase \in {"steps", "exec"} /\ phase' = "steps" /\ steps' = steps
      /\ staged' = staged
  BY DEF Settles
<1>3. DryRun' = DryRun /\ StepsWithin(steps)' = StepsWithin(steps)
  BY <1>2 DEF DryRun, StepsWithin, Kind
<1>4. \A k \in 1..Len(frames') : k \in 1..Len(frames) /\ frames'[k].body = frames[k].body
  <2>1. /\ Len(frames') = m /\ m \in Nat \ {0} /\ m <= Len(frames) /\ Len(frames) \in Nat
        /\ \A k \in 1..m - 1 : frames'[k] = frames[k]
        /\ frames'[m].body = frames[m].body
    BY <1>1, Depth DEF Settling
  <2> QED
    BY <2>1
<1>5. \A k \in 1..Len(frames') : Range(frames'[k].body) \subseteq StepsWithin(steps)
  BY <1>4 DEF StagedInv
<1>6. ~DryRun => \A i \in 1..Len(pending') : staged[pending'[i].id] # None
  <2>1. SUFFICES ASSUME ~DryRun, NEW i \in 1..Len(pending')
                 PROVE  staged[pending'[i].id] # None
    OBVIOUS
  <2>2. CASE pending' = pending
    BY <2>1, <2>2 DEF StagedInv
  <2>3. CASE /\ m = 1 /\ c # "skipped" /\ HasPost(CallerOf(1))
             /\ pending' = Append(pending, [id |-> CallerOf(1).id, uses |-> CallerOf(1).uses])
    <3>1. pending \in Seq([id : Ids, uses : DOMAIN Action])
      BY DEF TypeOK
    <3>2. /\ \A k \in 1..Len(pending) : pending'[k] = pending[k]
          /\ pending'[Len(pending) + 1].id = CallerOf(1).id
          /\ i \in 1..Len(pending) \/ i = Len(pending) + 1
      BY <2>3, <3>1
    <3> QED
      BY <1>1, <2>1, <2>3, <3>2 DEF StagedInv
  <2> QED
    BY <1>1, <2>2, <2>3, Depth DEF Settling, Collecting
<1>7. \A id \in Ids : staged'[id] # None =>
        \E s \in StepsWithin(steps) : s.id = id /\ s.uses = staged'[id]
  BY <1>2 DEF StagedInv
<1> QED
  BY <1>2, <1>3, <1>5, <1>6, <1>7 DEF StagedInv

LEMMA SettlingCollected ==
  ASSUME IInv, Settles
  PROVE  CollectedInv'
<1> USE DEF IInv
<1>1. PICK m \in 1..Len(frames), c \in Outcomes, reg \in BOOLEAN, shows \in BOOLEAN :
        Settling(m, c, reg, shows)
  BY DEF Settles
<1>2. phase \in {"steps", "exec"} /\ phase' = "steps" /\ steps' = steps
  BY DEF Settles
<1>3. PICK at \in [1..Len(pending) -> 1..Ran] : Collects(at)
  BY DEF CollectedInv
<1>4. CASE m > 1
  <2>1. Ran' = Ran /\ reports' = reports /\ pending' = pending
    BY <1>1, <1>2, <1>4, SettlingSteps
  <2>2. Collects(at)'
    BY <1>2, <1>3, <2>1 DEF Collects, Collected, HasPost, Kind
  <2> QED
    BY <2>1, <2>2 DEF CollectedInv
<1>5. CASE m = 1
  <2>1. PICK r \in Nat : r = Ran
    BY Depth
  <2>2. /\ Ran' = r + 1 /\ \A k \in 1..r : reports'[k] = reports[k]
        /\ reports'[r + 1] = [id |-> CallerOf(1).id, post |-> FALSE,
             conclusion |-> c, registered |-> reg, shows |-> shows]
        /\ CallerOf(1) = steps[r + 1]
    BY <1>1, <1>2, <1>5, <2>1, SettlingSteps
  <2>3. \A k \in 1..r : Collected(k)' <=> Collected(k)
    BY <1>2, <2>2 DEF Collected, HasPost, Kind
  <2>4. Collected(r + 1)' <=> c # "skipped" /\ HasPost(steps[r + 1])
    BY <1>2, <2>2 DEF Collected, HasPost, Kind
  <2>5. \A k \in 1..r + 1 : k \in 1..r \/ k = r + 1
    OBVIOUS
  <2>6. PICK n \in Nat : n = Len(pending) /\ pending \in Seq([id : Ids, uses : DOMAIN Action])
    BY DEF TypeOK
  <2>7. at \in [1..n -> 1..r]
    BY <1>3, <2>1, <2>6
  <2>8. /\ \A i, j \in 1..n : i < j => at[i] < at[j]
        /\ \A i \in 1..n : /\ Collected(at[i])
                           /\ pending[i].id = steps[at[i]].id
                           /\ pending[i].uses = steps[at[i]].uses
        /\ \A k \in 1..r : Collected(k) => \E i \in 1..n : at[i] = k
    BY <1>3, <2>1, <2>6 DEF Collects
  <2>9. CASE ~(c # "skipped" /\ HasPost(steps[r + 1]))
    <3>1. pending' = pending
      BY <1>1, <1>5, <2>2, <2>9 DEF Settling, Collecting
    <3>2. at \in [1..n -> 1..r + 1]
      BY <2>7
    <3>3. \A i \in 1..n : Collected(at[i])'
      BY <2>3, <2>7, <2>8
    <3>4. \A k \in 1..r + 1 : Collected(k)' => \E i \in 1..n : at[i] = k
      BY <2>3, <2>4, <2>5, <2>8, <2>9
    <3>5. Collects(at)'
      BY <1>2, <2>2, <2>6, <2>8, <3>1, <3>3, <3>4 DEF Collects
    <3> QED
      BY <2>2, <2>6, <3>1, <3>2, <3>5 DEF CollectedInv
  <2>10. CASE c # "skipped" /\ HasPost(steps[r + 1])
    <3> DEFINE due == [i \in 1..n + 1 |-> IF i \in 1..n THEN at[i] ELSE r + 1]
    <3>1. pending' = Append(pending, [id |-> steps[r + 1].id, uses |-> steps[r + 1].uses])
      BY <1>1, <1>5, <2>2, <2>10 DEF Settling, Collecting
    <3>2. /\ Len(pending') = n + 1 /\ \A i \in 1..n : pending'[i] = pending[i]
          /\ pending'[n + 1].id = steps[r + 1].id /\ pending'[n + 1].uses = steps[r + 1].uses
      BY <2>6, <3>1
    <3>3. \A i \in 1..n + 1 : i \in 1..n \/ i = n + 1
      OBVIOUS
    <3>4. due \in [1..n + 1 -> 1..r + 1]
      BY <2>7
    <3>5. (\A i \in 1..n : due[i] = at[i]) /\ due[n + 1] = r + 1
      OBVIOUS
    <3> HIDE DEF due
    <3>6. ASSUME NEW i \in 1..n + 1, NEW j \in 1..n + 1, i < j PROVE due[i] < due[j]
      <4>1. i \in 1..n /\ due[i] \in 1..r
        BY <2>7, <3>5, <3>6
      <4>2. CASE j \in 1..n
        BY <2>8, <3>5, <3>6, <4>1, <4>2
      <4>3. CASE j = n + 1
        BY <3>5, <4>1, <4>3
      <4> QED
        BY <3>3, <4>2, <4>3, Zenon
    <3>7. ASSUME NEW i \in 1..n + 1
          PROVE  /\ Collected(due[i])'
                 /\ pending'[i].id = steps[due[i]].id /\ pending'[i].uses = steps[due[i]].uses
      <4>1. CASE i \in 1..n
        BY <2>3, <2>7, <2>8, <3>2, <3>5, <4>1
      <4>2. CASE i = n + 1
        BY <2>4, <2>10, <3>2, <3>5, <4>2
      <4> QED
        BY <3>3, <4>1, <4>2
    <3>8. ASSUME NEW k \in 1..r + 1, Collected(k)' PROVE \E i \in 1..n + 1 : due[i] = k
      <4>1. CASE k \in 1..r
        <5>1. PICK i \in 1..n : at[i] = k
          BY <2>3, <2>8, <3>8, <4>1
        <5> QED
          BY <3>5, <5>1
      <4>2. CASE k = r + 1
        BY <3>5, <4>2
      <4> QED
        BY <2>5, <4>1, <4>2
    <3>9. Collects(due)'
      BY <1>2, <2>2, <3>2, <3>6, <3>7, <3>8 DEF Collects
    <3> QED
      BY <2>2, <3>2, <3>4, <3>9 DEF CollectedInv
  <2> QED
    BY <2>9, <2>10
<1> QED
  BY <1>1, <1>2, <1>4, <1>5, SettlingSteps

LEMMA SettlingInvariant ==
  ASSUME IInv, Settles, ctxDone' \in BOOLEAN
  PROVE  IInv'
<1>1. ResultInv' /\ PostedInv'
  <2>1. phase' = "steps" /\ result' = None
    BY DEF IInv, Settles, ResultInv
  <2> QED
    BY <2>1, ActionAssumption DEF ResultInv, PostedInv
<1> QED
  BY <1>1, SettlingTypes, SettlingFrames, SettlingReports, SettlingMasks, SettlingStaged,
     SettlingCollected DEF IInv

-----------------------------------------------------------------------------
(* The steps a job comes to, and the copies of their actions.              *)

\* The two local definitions of StepsWithin.
AllSteps(body) ==
  UNION {Range(b) : b \in {body} \cup {Action[a].body : a \in DOMAIN Action}}

ClosedFrom(body, ss) ==
  /\ Range(body) \subseteq ss
  /\ \A s \in ss : Kind(s) = "composite" => Range(Action[s.uses].body) \subseteq ss

LEMMA WithinIs ==
  ASSUME NEW body, NEW s
  PROVE  s \in StepsWithin(body) <=>
           /\ s \in AllSteps(body)
           /\ \A ss \in SUBSET AllSteps(body) : ClosedFrom(body, ss) => s \in ss
BY Zenon DEF StepsWithin, AllSteps, ClosedFrom

LEMMA WithinClosed ==
  ASSUME NEW body \in JobSteps
  PROVE  /\ Range(body) \subseteq StepsWithin(body)
         /\ \A s \in StepsWithin(body) : IsStep(s)
         /\ \A s \in StepsWithin(body) : Kind(s) = "composite" =>
              Range(Action[s.uses].body) \subseteq StepsWithin(body)
<1>1. \A b : b \in {body} \cup {Action[a].body : a \in DOMAIN Action} => b \in Bodies
  BY DEF Bodies
<1>2. ASSUME NEW b \in {body} \cup {Action[a].body : a \in DOMAIN Action}, NEW s \in Range(b)
      PROVE  s \in AllSteps(body) /\ IsStep(s)
  <2>1. b \in Bodies
    BY <1>1
  <2>2. s \in AllSteps(body)
    BY <1>2, Zenon DEF AllSteps
  <2>3. PICK k \in DOMAIN b : s = b[k]
    BY DEF Range
  <2> QED
    BY <2>1, <2>2, <2>3, StepsAssumption
<1>3. ASSUME NEW s \in Range(body) PROVE s \in StepsWithin(body)
  <2>1. s \in AllSteps(body)
    BY <1>2
  <2>2. \A ss \in SUBSET AllSteps(body) : ClosedFrom(body, ss) => s \in ss
    BY DEF ClosedFrom
  <2> QED
    BY <2>1, <2>2, WithinIs
<1>4. ASSUME NEW s \in StepsWithin(body) PROVE IsStep(s)
  <2>1. s \in AllSteps(body)
    BY WithinIs
  <2>2. PICK b \in {body} \cup {Action[a].body : a \in DOMAIN Action} : s \in Range(b)
    BY <2>1, Zenon DEF AllSteps
  <2> QED
    BY <1>2, <2>2
<1>5. ASSUME NEW s \in StepsWithin(body), Kind(s) = "composite",
             NEW t \in Range(Action[s.uses].body)
      PROVE  t \in StepsWithin(body)
  <2>1. s.uses \in DOMAIN Action
    BY <1>4, <1>5, KindIs
  <2>2. t \in AllSteps(body)
    BY <1>2, <2>1
  <2>3. ASSUME NEW ss \in SUBSET AllSteps(body), ClosedFrom(body, ss) PROVE t \in ss
    <3>1. s \in ss
      BY <2>3, WithinIs
    <3> QED
      BY <1>5, <2>3, <3>1 DEF ClosedFrom
  <2> QED
    BY <2>2, <2>3, WithinIs
<1> QED
  BY <1>3, <1>4, <1>5

\* The step at hand is one the job comes to.
LEMMA CurrentWithin ==
  ASSUME TypeOK, FramesInv, StagedInv, ~Over
  PROVE  Current \in StepsWithin(steps)
<1>1. Current \in Range(frames[Len(frames)].body) /\ Len(frames) \in 1..Len(frames)
  BY CurrentIs, Depth
<1> QED
  BY <1>1 DEF StagedInv

LEMMA ExceptType ==
  ASSUME NEW A, NEW B, NEW f \in [A -> B], NEW a \in A, NEW b \in B
  PROVE  /\ [f EXCEPT ![a] = b] \in [A -> B]
         /\ \A x \in A : [f EXCEPT ![a] = b][x] = IF x = a THEN b ELSE f[x]
OBVIOUS

LEMMA PendingIs ==
  ASSUME TypeOK
  PROVE  \A i \in 1..Len(pending) : pending[i].id \in Ids /\ pending[i].uses \in DOMAIN Action
<1> DEFINE due == [id : Ids, uses : DOMAIN Action]
<1>1. pending \in Seq(due)
  BY DEF TypeOK
<1>2. \A p \in due : p.id \in Ids /\ p.uses \in DOMAIN Action
  OBVIOUS
<1> HIDE DEF due
<1> QED
  BY <1>1, <1>2

\* A copy for the step at hand.
LEMMA CopiedStaged ==
  ASSUME TypeOK, FramesInv, StagedInv, ~Over, staged' = Copied(Current)
  PROVE  /\ staged' \in [Ids -> DOMAIN Action \cup {None}]
         /\ \A id \in Ids : staged'[id] # None =>
              \E s \in StepsWithin(steps) : s.id = id /\ s.uses = staged'[id]
         /\ \A id \in Ids : staged[id] # None => staged'[id] # None
         /\ Kind(Current) = "node" /\ ~DryRun => staged'[Current.id] # None
<1>1. staged \in [Ids -> DOMAIN Action \cup {None}]
  BY DEF TypeOK
<1>2. IsStep(Current) /\ Current.id \in Ids
  BY CurrentIs DEF IsStep
<1>3. CASE Kind(Current) \in {"node", "composite"} /\ ~DryRun
  <2>1. Current.uses \in DOMAIN Action /\ Current.uses # None
    BY <1>2, <1>3, KindIs
  <2>2. staged' = [staged EXCEPT ![Current.id] = Current.uses]
    BY <1>3 DEF Copied
  <2>3. /\ staged' \in [Ids -> DOMAIN Action \cup {None}]
        /\ \A id \in Ids : staged'[id] = IF id = Current.id THEN Current.uses ELSE staged[id]
    BY <1>1, <1>2, <2>1, <2>2, ExceptType
  <2>4. Current \in StepsWithin(steps)
    BY CurrentWithin
  <2>5. ASSUME NEW id \in Ids, staged'[id] # None
        PROVE  \E s \in StepsWithin(steps) : s.id = id /\ s.uses = staged'[id]
    <3>1. CASE id = Current.id
      BY <2>3, <2>4, <3>1
    <3>2. CASE id # Current.id
      BY <2>3, <2>5, <3>2 DEF StagedInv
    <3> QED
      BY <3>1, <3>2
  <2> QED
    BY <1>2, <2>1, <2>3, <2>5
<1>4. CASE ~(Kind(Current) \in {"node", "composite"} /\ ~DryRun)
  <2>1. staged' = staged
    BY <1>4, Zenon DEF Copied
  <2> QED
    BY <1>1, <1>4, <2>1 DEF StagedInv
<1> QED
  BY <1>3, <1>4

-----------------------------------------------------------------------------
(* What steps that end no step of a list preserve.                         *)

\* Reports, masks and the collected posts are as they were.
LEMMA SameReports ==
  ASSUME IInv, UNCHANGED <<steps, frames, pending, reports, masked>>,
         phase' \in {"steps", "exec"} => phase \in {"steps", "exec"}
  PROVE  ReportsInv' /\ MaskInv' /\ CollectedInv'
<1> USE DEF IInv
<1>1. Ran' = Ran
  BY DEF Ran
<1>2. ReportsInv'
  BY <1>1 DEF ReportsInv, Excused
<1>3. MaskInv'
  BY <1>1 DEF MaskInv
<1>4. CollectedInv'
  <2>1. \A at : Collects(at)' <=> Collects(at)
    BY <1>1 DEF Collects, Collected, HasPost, Kind
  <2> QED
    BY <1>1, <2>1 DEF CollectedInv
<1> QED
  BY <1>2, <1>3, <1>4

\* The step lists and the copies are as they were.
LEMMA SameFrames ==
  ASSUME IInv, UNCHANGED <<steps, frames, pending>>
  PROVE  /\ frames' # <<>> /\ frames'[1].body = steps'
         /\ \A k \in 1..Len(frames') : FrameOK(k)'
         /\ \A k \in 1..Len(frames') - 1 : CallOK(k)'
         /\ Over' = Over /\ Current' = Current /\ DryRun' = DryRun
         /\ \A p : PostWanted(p)' <=> PostWanted(p)
         /\ \A s : Kind(s)' = Kind(s)
         /\ StepsWithin(steps)' = StepsWithin(steps)
<1>1. StepsWithin(steps)' = StepsWithin(steps)
  BY DEF StepsWithin, Kind
<1>2. Over' = Over /\ Current' = Current /\ DryRun' = DryRun
  BY DEF Over, Current, Innermost, DryRun
<1>3. \A p : PostWanted(p)' <=> PostWanted(p)
  BY DEF PostWanted, Holds, AnyFailed
<1>4. \A k \in 1..Len(frames') : FrameOK(k)'
  BY DEF IInv, FramesInv, FrameOK
<1>5. \A k \in 1..Len(frames') - 1 : CallOK(k)'
  BY DEF IInv, FramesInv, CallOK, CallerOf, Kind
<1>6. \A s : Kind(s)' = Kind(s)
  BY DEF Kind
<1> QED
  BY <1>1, <1>2, <1>3, <1>4, <1>5, <1>6 DEF IInv, FramesInv

LEMMA SameStaged ==
  ASSUME IInv, UNCHANGED <<steps, frames, pending, staged>>, phase' = "exec" => phase = "exec"
  PROVE  StagedInv'
BY SameFrames DEF IInv, StagedInv

LEMMA SamePosted ==
  ASSUME IInv, UNCHANGED <<steps, frames, post, pending, reports>>
  PROVE  /\ \A of : Posted(of)' <=> Posted(of)
         /\ Ran' = Ran /\ Len(reports') = Len(reports) /\ Len(pending') = Len(pending)
BY SameFrames DEF Posted, Ran

LEMMA StartKeeps ==
  ASSUME IInv, StartStep
  PROVE  IInv'
<1>1. /\ ~Over /\ phase = "steps" /\ phase' = "exec" /\ staged' = Copied(Current)
      /\ UNCHANGED <<steps, frames, post, pending, reports, masked, ctxDone, result>>
  BY DEF StartStep, AtStep
<1>2. /\ staged' \in [Ids -> DOMAIN Action \cup {None}]
      /\ \A id \in Ids : staged'[id] # None =>
           \E s \in StepsWithin(steps) : s.id = id /\ s.uses = staged'[id]
      /\ \A id \in Ids : staged[id] # None => staged'[id] # None
      /\ Kind(Current) = "node" /\ ~DryRun => staged'[Current.id] # None
  BY <1>1, CopiedStaged DEF IInv
<1>3. TypeOK'
  BY <1>1, <1>2 DEF IInv, TypeOK, Phases
<1>4. FramesInv'
  BY <1>1, SameFrames DEF FramesInv
<1>5. ReportsInv' /\ MaskInv' /\ CollectedInv'
  BY <1>1, SameReports
<1>6. ResultInv' /\ PostedInv'
  BY <1>1, ActionAssumption DEF IInv, ResultInv, PostedInv
<1>7. StagedInv'
  <2>1. \A i \in 1..Len(pending) : pending[i].id \in Ids
    BY PendingIs DEF IInv
  <2> QED
    BY <1>1, <1>2, <2>1, SameFrames DEF IInv, StagedInv
<1> QED
  BY <1>3, <1>4, <1>5, <1>6, <1>7 DEF IInv

LEMMA ScopeIs ==
  ASSUME NEW body \in Bodies
  PROVE  /\ Scope(body) \in Frame /\ Scope(body).body = body /\ Scope(body).next = 1
         /\ Scope(body).failed = FALSE /\ Scope(body).registered = FALSE
         /\ Scope(body).shows = FALSE
<1> DEFINE out == [id \in Ids |-> None]
<1>1. out \in [Ids -> Outcomes \cup {None}]
  OBVIOUS
<1>2. Scope(body) = [body |-> body, next |-> 1, outcome |-> out, failed |-> FALSE,
                     registered |-> FALSE, shows |-> FALSE]
  BY DEF Scope
<1> HIDE DEF out
<1> QED
  BY <1>1, <1>2 DEF Frame

LEMMA EnterKeeps ==
  ASSUME IInv, EnterComposite
  PROVE  IInv'
<1>1. /\ ~Over /\ phase = "steps" /\ phase' = "steps" /\ staged' = Copied(Current)
      /\ Kind(Current) = "composite"
      /\ frames' = Append(frames, Scope(Action[Current.uses].body))
      /\ UNCHANGED <<steps, post, pending, reports, masked, ctxDone, result>>
  BY DEF EnterComposite, AtStep
<1>2. /\ staged' \in [Ids -> DOMAIN Action \cup {None}]
      /\ \A id \in Ids : staged'[id] # None =>
           \E s \in StepsWithin(steps) : s.id = id /\ s.uses = staged'[id]
      /\ \A id \in Ids : staged[id] # None => staged'[id] # None
  BY <1>1, CopiedStaged DEF IInv
<1> DEFINE called == Action[Current.uses].body
<1>3. called \in Bodies
  BY <1>1, CurrentIs, KindIs DEF IInv, Bodies
<1>4. PICK n \in Nat \ {0} : n = Len(frames) /\ frames \in Seq(Frame)
  BY Depth DEF IInv
<1>5. /\ Scope(called) \in Frame /\ Scope(called).body = called /\ Scope(called).next = 1
      /\ Scope(called).failed = FALSE /\ Scope(called).registered = FALSE
      /\ Scope(called).shows = FALSE /\ Len(called) \in Nat
  BY <1>3, ScopeIs, BodyIs
<1>6. /\ frames' \in Seq(Frame) /\ Len(frames') = n + 1
      /\ \A k \in 1..n : frames'[k] = frames[k]
      /\ frames'[n + 1] = Scope(called)
      /\ \A k \in 1..n + 1 : k \in 1..n \/ k = n + 1
  BY <1>1, <1>4, <1>5
<1>7. TypeOK'
  BY <1>1, <1>2, <1>6 DEF IInv, TypeOK
<1>8. frames'[1] = frames[1] /\ Ran' = Ran
  BY <1>6 DEF Ran
<1>9. FramesInv'
  <2>1. frames' # <<>> /\ frames'[1].body = steps'
    BY <1>1, <1>6, <1>8 DEF IInv, FramesInv
  <2>2. ASSUME NEW k \in 1..n + 1 PROVE FrameOK(k)'
    <3>1. CASE k \in 1..n
      BY <1>4, <1>6, <3>1 DEF IInv, FramesInv, FrameOK
    <3>2. CASE k = n + 1
      BY <1>5, <1>6, <3>2 DEF FrameOK
    <3> QED
      BY <1>6, <3>1, <3>2
  <2>3. ASSUME NEW k \in 1..n PROVE CallOK(k)'
    <3>1. CASE k \in 1..n - 1
      <4>1. CallOK(k) /\ frames'[k] = frames[k] /\ frames'[k + 1] = frames[k + 1]
        BY <1>4, <1>6, <3>1 DEF IInv, FramesInv
      <4> QED
        BY <4>1 DEF CallOK, CallerOf, Kind
    <3>2. CASE k = n
      <4>1. /\ ~frames[n].failed /\ frames[n].next \in 1..Len(frames[n].body)
            /\ Current = CallerOf(n)
        BY <1>1, <1>4, CurrentIs DEF IInv
      <4>2. frames'[n] = frames[n] /\ frames'[n + 1].body = called
        BY <1>5, <1>6
      <4>3. CallerOf(n)' = Current
        BY <4>1, <4>2 DEF CallerOf
      <4>4. Kind(CallerOf(n))' = "composite"
        BY <1>1, <4>1, <4>2, Zenon DEF CallerOf, Kind
      <4>5. ~frames'[n].failed /\ frames'[n].next <= Len(frames'[n].body)
        BY <4>1, <4>2
      <4> QED
        BY <3>2, <4>2, <4>3, <4>4, <4>5, Zenon DEF CallOK
    <3> QED
      BY <1>4, <3>1, <3>2
  <2> QED
    BY <1>1, <1>6, <2>1, <2>2, <2>3 DEF FramesInv
<1>10. ReportsInv'
  BY <1>1, <1>8 DEF IInv, ReportsInv, Excused
<1>11. ResultInv' /\ PostedInv'
  BY <1>1, ActionAssumption DEF IInv, ResultInv, PostedInv
<1>12. MaskInv'
  <2>1. \A k \in 1..n + 1 : frames'[k].registered => masked
    BY <1>4, <1>5, <1>6 DEF IInv, MaskInv
  <2>2. \A k \in 1..Ran : reports[k].registered => \A l \in 2..n + 1 : ~frames'[l].shows
    <3>1. \A l \in 2..n + 1 : (l \in 2..n /\ l \in 1..n) \/ l = n + 1
      BY <1>4
    <3> QED
      BY <1>4, <1>5, <1>6, <3>1 DEF IInv, MaskInv
  <2> QED
    BY <1>1, <1>6, <1>8, <2>1, <2>2 DEF IInv, MaskInv
<1>13. CollectedInv'
  <2>1. \A at : Collects(at)' <=> Collects(at)
    BY <1>1, <1>8 DEF Collects, Collected, HasPost, Kind
  <2> QED
    BY <1>1, <1>8, <2>1 DEF IInv, CollectedInv
<1>14. StagedInv'
  <2>1. StepsWithin(steps)' = StepsWithin(steps) /\ DryRun' = DryRun
    BY <1>1 DEF StepsWithin, Kind, DryRun
  <2>2. Range(called) \subseteq StepsWithin(steps)
    <3>1. Current \in StepsWithin(steps) /\ steps \in JobSteps
      BY <1>1, CurrentWithin DEF IInv, TypeOK
    <3> QED
      BY <1>1, <3>1, WithinClosed
  <2>3. \A k \in 1..n + 1 : Range(frames'[k].body) \subseteq StepsWithin(steps)
    BY <1>4, <1>5, <1>6, <2>2 DEF IInv, StagedInv
  <2>4. \A i \in 1..Len(pending) : pending[i].id \in Ids
    BY PendingIs DEF IInv
  <2>5. ~DryRun => \A i \in 1..Len(pending) : staged'[pending[i].id] # None
    BY <1>2, <2>4 DEF IInv, StagedInv
  <2> QED
    BY <1>1, <1>2, <1>6, <2>1, <2>3, <2>5 DEF StagedInv
<1> QED
  BY <1>7, <1>9, <1>10, <1>11, <1>12, <1>13, <1>14 DEF IInv

LEMMA FinishKeeps ==
  ASSUME IInv, StepsFinished
  PROVE  IInv'
<1>1. /\ phase = "steps" /\ phase' = "posts" /\ Over /\ Len(frames) = 1 /\ post' = Len(pending)
      /\ UNCHANGED <<steps, frames, pending, reports, masked, staged, ctxDone, result>>
  BY DEF StepsFinished
<1>2. TypeOK'
  BY <1>1 DEF IInv, TypeOK, Phases
<1>3. FramesInv'
  BY <1>1, SameFrames DEF FramesInv
<1>4. ReportsInv' /\ MaskInv' /\ CollectedInv'
  BY <1>1, SameReports
<1>5. ResultInv'
  BY <1>1, ActionAssumption DEF IInv, ResultInv
<1>6. StagedInv'
  BY <1>1, SameStaged
<1>7. PostedInv'
  <2> DEFINE of == [m \in 1..0 |-> 1]
  <2>1. Len(reports') - Ran' = 0 /\ Len(pending) \in Nat
    BY <1>1, Depth DEF IInv, ReportsInv, Ran, TypeOK
  <2>2. of \in [1..0 -> 1..Len(pending)]
    OBVIOUS
  <2> HIDE DEF of
  <2>3. Posted(of)'
    BY <1>1, <2>1 DEF Posted
  <2> QED
    BY <1>1, <2>1, <2>2, <2>3 DEF PostedInv
<1> QED
  BY <1>2, <1>3, <1>4, <1>5, <1>6, <1>7 DEF IInv

LEMMA SkipPostKeeps ==
  ASSUME IInv, SkipPost
  PROVE  IInv'
<1>1. /\ phase = "posts" /\ phase' = "posts" /\ post > 0 /\ post' = post - 1
      /\ ~PostWanted(pending[post])
      /\ UNCHANGED <<steps, frames, pending, reports, masked, staged, ctxDone, result>>
  BY DEF SkipPost
<1>2. post \in 1..Len(pending) /\ Len(pending) \in Nat
  BY <1>1 DEF IInv, TypeOK
<1>3. TypeOK'
  BY <1>1, <1>2 DEF IInv, TypeOK, Phases
<1>4. FramesInv'
  BY <1>1, SameFrames DEF IInv, FramesInv
<1>5. ReportsInv' /\ MaskInv' /\ CollectedInv'
  BY <1>1, SameReports
<1>6. ResultInv'
  BY <1>1, ActionAssumption DEF IInv, ResultInv
<1>7. StagedInv'
  BY <1>1, SameStaged
<1>8. PostedInv'
  <2>1. PICK n \in Nat : n = Len(reports) - Ran
    BY Depth DEF IInv, ReportsInv, TypeOK
  <2>2. Len(reports') - Ran' = n /\ reports' = reports /\ Ran' = Ran
    BY <1>1, <2>1 DEF Ran
  <2>3. PICK of \in [1..n -> 1..Len(pending)] : Posted(of)
    BY <1>1, <2>1 DEF IInv, PostedInv
  <2>4. \A i \in post'+ 1..Len(pending) : PostWanted(pending[i]) => i \in post + 1..Len(pending)
    BY <1>1, <1>2
  <2>5. /\ \A m \in 1..n : of[m] \in 1..Len(pending)
        /\ \A m, k \in 1..n : m < k => of[m] > of[k]
        /\ \A m \in 1..n : /\ of[m] > post /\ PostWanted(pending[of[m]])
                           /\ reports[Ran + m].id = pending[of[m]].id
        /\ \A i \in post + 1..Len(pending) : PostWanted(pending[i]) =>
             \E m \in 1..n : of[m] = i
    BY <2>1, <2>3 DEF Posted
  <2>6. \A p : PostWanted(p)' <=> PostWanted(p)
    BY <1>1, SameFrames
  <2>7. \A m \in 1..n : of[m] > post'
    BY <1>1, <1>2, <2>5
  <2>8. \A i \in post' + 1..Len(pending) : PostWanted(pending[i]) =>
          \E m \in 1..n : of[m] = i
    BY <2>4, <2>5
  <2>9. Posted(of)'
    BY <1>1, <2>2, <2>5, <2>6, <2>7, <2>8 DEF Posted
  <2> QED
    BY <1>1, <2>2, <2>3, <2>9 DEF PostedInv
<1> QED
  BY <1>3, <1>4, <1>5, <1>6, <1>7, <1>8 DEF IInv

LEMMA StartPostKeeps ==
  ASSUME IInv, StartPost
  PROVE  IInv'
<1>1. /\ phase = "posts" /\ phase' = "postExec" /\ post > 0 /\ PostWanted(pending[post])
      /\ UNCHANGED <<steps, frames, post, pending, reports, masked, staged, ctxDone, result>>
  BY DEF StartPost
<1>2. TypeOK'
  BY <1>1 DEF IInv, TypeOK, Phases
<1>3. FramesInv'
  BY <1>1, SameFrames DEF IInv, FramesInv
<1>4. ReportsInv' /\ MaskInv' /\ CollectedInv'
  BY <1>1, SameReports
<1>5. ResultInv'
  BY <1>1, ActionAssumption DEF IInv, ResultInv
<1>6. StagedInv'
  BY <1>1, SameStaged
<1>7. PostedInv'
  BY <1>1, SamePosted DEF IInv, PostedInv
<1> QED
  BY <1>2, <1>3, <1>4, <1>5, <1>6, <1>7 DEF IInv

LEMMA JobFinishedKeeps ==
  ASSUME IInv, JobFinished
  PROVE  IInv'
<1>1. /\ phase = "posts" /\ phase' = "done" /\ post = 0 /\ result' = Conclusion
      /\ UNCHANGED <<steps, frames, post, pending, reports, masked, staged, ctxDone>>
  BY DEF JobFinished
<1>2. TypeOK'
  BY <1>1 DEF IInv, TypeOK, Phases, Conclusion
<1>3. FramesInv'
  BY <1>1, SameFrames DEF IInv, FramesInv
<1>4. ReportsInv' /\ MaskInv' /\ CollectedInv'
  BY <1>1, SameReports
<1>5. ResultInv'
  BY <1>1, SameFrames DEF IInv, ResultInv, FramesInv, Conclusion
<1>6. StagedInv'
  BY <1>1, SameStaged
<1>7. PostedInv'
  BY <1>1, SamePosted DEF IInv, PostedInv
<1> QED
  BY <1>2, <1>3, <1>4, <1>5, <1>6, <1>7 DEF IInv

\* RunJob returns an error, perhaps after a copy for the step at hand.
LEMMA ErrorKeeps ==
  ASSUME IInv, phase' = "done", result' = "error",
         UNCHANGED <<steps, frames, post, pending, reports, masked, ctxDone>>,
         staged' = staged \/ (~Over /\ staged' = Copied(Current))
  PROVE  IInv'
<1>1. /\ staged' \in [Ids -> DOMAIN Action \cup {None}]
      /\ \A id \in Ids : staged'[id] # None =>
           \E s \in StepsWithin(steps) : s.id = id /\ s.uses = staged'[id]
      /\ \A id \in Ids : staged[id] # None => staged'[id] # None
  <2>1. CASE staged' = staged
    BY <2>1 DEF IInv, TypeOK, StagedInv
  <2>2. CASE ~Over /\ staged' = Copied(Current)
    BY <2>2, CopiedStaged DEF IInv
  <2> QED
    BY <2>1, <2>2
<1>2. TypeOK'
  BY <1>1 DEF IInv, TypeOK, Phases
<1>3. FramesInv'
  BY SameFrames DEF IInv, FramesInv
<1>4. ReportsInv' /\ MaskInv' /\ CollectedInv'
  BY SameReports
<1>5. ResultInv' /\ PostedInv'
  BY DEF ResultInv, PostedInv
<1>6. StagedInv'
  <2>1. ~DryRun => \A i \in 1..Len(pending) : staged'[pending[i].id] # None
    BY <1>1, PendingIs DEF IInv, StagedInv
  <2> QED
    BY <1>1, <2>1, SameFrames DEF IInv, StagedInv
<1> QED
  BY <1>2, <1>3, <1>4, <1>5, <1>6 DEF IInv

LEMMA StillKeeps ==
  ASSUME IInv, ctxDone' \in BOOLEAN,
         UNCHANGED <<steps, frames, phase, post, pending, reports, masked, staged, result>>
  PROVE  IInv'
<1>1. TypeOK'
  BY DEF IInv, TypeOK
<1>2. FramesInv'
  BY SameFrames DEF IInv, FramesInv
<1>3. ReportsInv' /\ MaskInv' /\ CollectedInv'
  BY SameReports
<1>4. ResultInv'
  BY SameFrames DEF IInv, ResultInv, Conclusion
<1>5. StagedInv'
  BY SameStaged
<1>6. PostedInv'
  BY SamePosted DEF IInv, PostedInv
<1> QED
  BY <1>1, <1>2, <1>3, <1>4, <1>5, <1>6 DEF IInv

LEMMA PostExitsKeeps ==
  ASSUME IInv, PostExits
  PROVE  IInv'
<1>1. /\ phase = "postExec" /\ phase' = "posts" /\ post' = post - 1
      /\ UNCHANGED <<steps, frames, pending, masked, staged, ctxDone, result>>
  BY DEF PostExits
<1>2. PICK c \in {"success", "failure"}, prints \in BOOLEAN :
        reports' = Append(reports, [id |-> pending[post].id, post |-> TRUE,
                                    conclusion |-> c, registered |-> FALSE, shows |-> prints])
  BY DEF PostExits, ThisPost
<1>3. /\ post \in 1..Len(pending) /\ Len(pending) \in Nat /\ PostWanted(pending[post])
      /\ post > 0
  BY <1>1 DEF IInv, TypeOK, FramesInv
<1> DEFINE last == [id |-> pending[post].id, post |-> TRUE, conclusion |-> c,
                    registered |-> FALSE, shows |-> prints]
<1>4. last \in Report /\ last.id = pending[post].id /\ last.post = TRUE
  <2>1. pending[post].id \in Ids
    BY <1>3, PendingIs DEF IInv
  <2> QED
    BY <2>1 DEF Report, Outcomes
<1>5. reports' = Append(reports, last)
  BY <1>2
<1> HIDE DEF last
<1>6. PICK r \in Nat, n \in Nat : r = Ran /\ Len(reports) = r + n /\ reports \in Seq(Report)
  <2>1. Ran \in Nat /\ Len(reports) \in Nat /\ Ran <= Len(reports) /\ reports \in Seq(Report)
    BY Depth DEF IInv, ReportsInv, TypeOK
  <2>2. Len(reports) - Ran \in Nat /\ Len(reports) = Ran + (Len(reports) - Ran)
    BY <2>1
  <2> QED
    BY <2>1, <2>2
<1>7. /\ reports' \in Seq(Report) /\ Len(reports') = r + n + 1
      /\ \A k \in 1..r + n : reports'[k] = reports[k]
      /\ reports'[r + n + 1] = last /\ Ran' = r
      /\ \A k \in 1..r : k \in 1..r + n
      /\ \A k \in 1..r + n + 1 : k \in 1..r + n \/ k = r + n + 1
  <2>1. /\ reports' \in Seq(Report) /\ Len(reports') = Len(reports) + 1
        /\ \A k \in 1..Len(reports) : reports'[k] = reports[k]
        /\ reports'[Len(reports) + 1] = last
    BY <1>4, <1>5, <1>6
  <2>2. Ran' = r
    BY <1>1, <1>6 DEF Ran
  <2>3. /\ \A k \in 1..r : k \in 1..r + n
        /\ \A k \in 1..r + n + 1 : k \in 1..r + n \/ k = r + n + 1
    OBVIOUS
  <2> QED
    BY <1>6, <2>1, <2>2, <2>3
<1>8. TypeOK'
  BY <1>1, <1>3, <1>7 DEF IInv, TypeOK, Phases
<1>9. FramesInv'
  BY <1>1, SameFrames DEF IInv, FramesInv
<1>10. ReportsInv'
  <2>1. \A k \in 1..r : Excused(k)' <=> Excused(k)
    BY <1>1, <1>7 DEF Excused
  <2>2. \A k \in 1..r + n + 1 : reports'[k].post <=> k > r
    <3>1. \A k \in 1..r + n : reports'[k].post <=> k > r
      BY <1>6, <1>7 DEF IInv, ReportsInv
    <3>2. reports'[r + n + 1].post /\ r + n + 1 > r
      BY <1>4, <1>7
    <3> QED
      BY <1>7, <3>1, <3>2
  <2>3. \A k \in 1..r : ~Excused(k)' => k = r /\ frames[1].failed
    BY <1>6, <2>1 DEF IInv, ReportsInv
  <2>4. frames[1].failed => r > 0 /\ ~Excused(r)'
    BY <1>6, <2>1 DEF IInv, ReportsInv
  <2>5. (r <= r + n + 1) /\ (frames[1].failed => ~Excused(Ran)')
    BY <1>7, <2>4 DEF Excused
  <2> QED
    BY <1>1, <1>7, <2>2, <2>3, <2>4, <2>5 DEF ReportsInv
<1>11. MaskInv'
  <2>1. \A k \in 1..r : reports'[k] = reports[k]
    BY <1>7
  <2>2. \A k \in 1..r : \A l \in k + 1..r : l \in 1..r
    OBVIOUS
  <2> QED
    BY <1>1, <1>6, <1>7, <2>1, <2>2 DEF IInv, MaskInv
<1>12. ResultInv'
  BY <1>1, ActionAssumption DEF IInv, ResultInv
<1>13. StagedInv'
  BY <1>1, SameStaged
<1>14. CollectedInv'
  <2>1. PICK at \in [1..Len(pending) -> 1..r] : Collects(at)
    BY <1>6 DEF IInv, CollectedInv
  <2>2. \A k \in 1..r : Collected(k)' <=> Collected(k)
    BY <1>1, <1>7 DEF Collected, HasPost, Kind
  <2>3. Collects(at)'
    BY <1>1, <1>6, <1>7, <2>1, <2>2 DEF Collects
  <2> QED
    BY <1>1, <1>7, <2>1, <2>3 DEF CollectedInv
<1>15. PostedInv'
  <2>1. PICK of \in [1..n -> 1..Len(pending)] : Posted(of)
    BY <1>1, <1>6 DEF IInv, PostedInv
  <2>2. /\ \A k, l \in 1..n : k < l => of[k] > of[l]
        /\ \A k \in 1..n : /\ of[k] > post /\ PostWanted(pending[of[k]])
                           /\ reports[r + k].id = pending[of[k]].id
        /\ \A i \in post + 1..Len(pending) : PostWanted(pending[i]) => \E k \in 1..n : of[k] = i
    <3>1. 1..Len(reports) - Ran = 1..n
      BY <1>6
    <3>2. r = Ran
      BY <1>6
    <3> QED
      BY <2>1, <3>1, <3>2, Zenon DEF Posted
  <2>0. PICK now \in Nat : now = post
    BY <1>3
  <2> DEFINE run == [k \in 1..n + 1 |-> IF k \in 1..n THEN of[k] ELSE now]
  <2>3. run \in [1..n + 1 -> 1..Len(pending)]
    BY <1>3, <2>0, <2>1
  <2>4. /\ \A k \in 1..n : run[k] = of[k] /\ of[k] \in 1..Len(pending)
        /\ run[n + 1] = post /\ n + 1 \in 1..n + 1
        /\ \A k \in 1..n + 1 : k \in 1..n \/ k = n + 1
    BY <2>0, <2>1
  <2> HIDE DEF run
  <2>5. \A k, l \in 1..n + 1 : k < l => run[k] > run[l]
    <3>1. \A k, l \in 1..n + 1 : k < l => k \in 1..n
      OBVIOUS
    <3> QED
      BY <2>2, <2>4, <3>1
  <2>6. ASSUME NEW k \in 1..n + 1
        PROVE  /\ run[k] > post - 1 /\ PostWanted(pending[run[k]])
               /\ reports'[r + k].id = pending[run[k]].id
    <3>1. CASE k \in 1..n
      <4>1. r + k \in 1..r + n
        BY <3>1
      <4>2. run[k] = of[k] /\ of[k] \in 1..Len(pending) /\ of[k] > post
        BY <2>2, <2>4, <3>1
      <4>3. PostWanted(pending[of[k]]) /\ reports'[r + k].id = pending[of[k]].id
        BY <1>7, <2>2, <3>1, <4>1
      <4>4. of[k] > post - 1
        BY <1>3, <4>2
      <4> QED
        BY <4>2, <4>3, <4>4
    <3>2. CASE k = n + 1
      <4>1. reports'[r + k].id = pending[post].id
        BY <1>4, <1>7, <3>2
      <4> QED
        BY <1>3, <2>4, <3>2, <4>1
    <3> QED
      BY <2>4, <3>1, <3>2
  <2>7. ASSUME NEW i \in (post - 1) + 1..Len(pending), PostWanted(pending[i])
        PROVE  \E k \in 1..n + 1 : run[k] = i
    <3>1. CASE i = post
      BY <2>4, <3>1
    <3>2. CASE i # post
      <4>1. i \in post + 1..Len(pending)
        BY <1>3, <3>2
      <4>2. PICK k \in 1..n : of[k] = i
        BY <2>2, <2>7, <4>1
      <4> QED
        BY <2>4, <4>2
    <3> QED
      BY <3>1, <3>2
  <2>8. 1..Len(reports') - Ran' = 1..n + 1 /\ Ran' = r /\ pending' = pending /\ post' = post - 1
    BY <1>1, <1>7
  <2>9. \A p : PostWanted(p)' <=> PostWanted(p)
    BY <1>1, SameFrames
  <2>10. Posted(run)'
    BY <2>5, <2>6, <2>7, <2>8, <2>9, Zenon DEF Posted
  <2>11. run \in [1..Len(reports') - Ran' -> 1..Len(pending')]
    BY <2>3, <2>8
  <2> QED
    BY <2>10, <2>11, Zenon DEF PostedInv
<1> QED
  BY <1>8, <1>9, <1>10, <1>11, <1>12, <1>13, <1>14, <1>15 DEF IInv

LEMMA InitHolds ==
  ASSUME Init
  PROVE  IInv
<1>1. steps \in Bodies /\ steps \in JobSteps /\ frames = <<Scope(steps)>>
  BY DEF Init, Bodies
<1>2. /\ Scope(steps) \in Frame /\ Scope(steps).body = steps /\ Scope(steps).next = 1
      /\ Scope(steps).failed = FALSE /\ Scope(steps).registered = FALSE
      /\ Scope(steps).shows = FALSE /\ Len(steps) \in Nat
  BY <1>1, ScopeIs, BodyIs
<1>3. Len(frames) = 1 /\ frames[1] = Scope(steps) /\ frames \in Seq(Frame) /\ Ran = 0
  BY <1>1, <1>2 DEF Ran
<1>4. /\ phase = "steps" /\ post = 0 /\ pending = <<>> /\ reports = <<>> /\ masked = FALSE
      /\ staged = [id \in Ids |-> None] /\ ctxDone = FALSE /\ result = None
  BY DEF Init
<1>5. TypeOK
  <2>1. staged \in [Ids -> DOMAIN Action \cup {None}]
    BY <1>4
  <2>2. /\ post \in 0..Len(pending) /\ pending \in Seq([id : Ids, uses : DOMAIN Action])
        /\ reports \in Seq(Report)
    BY <1>4
  <2> QED
    BY <1>1, <1>3, <1>4, <2>1, <2>2 DEF TypeOK, Phases
<1>6. FramesInv
  <2>1. frames # <<>>
    BY <1>1
  <2>2. \A k \in 1..Len(frames) : k = 1
    BY <1>3
  <2>3. \A k \in 1..Len(frames) - 1 : FALSE
    BY <1>3
  <2>4. FrameOK(1)
    BY <1>2, <1>3 DEF FrameOK
  <2> QED
    BY <1>2, <1>3, <1>4, <2>1, <2>2, <2>3, <2>4 DEF FramesInv
<1>7. ReportsInv
  BY <1>2, <1>3, <1>4 DEF ReportsInv
<1>8. ResultInv /\ PostedInv
  BY <1>4, ActionAssumption DEF ResultInv, PostedInv
<1>9. MaskInv
  BY <1>2, <1>3, <1>4 DEF MaskInv
<1>10. StagedInv
  BY <1>1, <1>2, <1>3, <1>4, WithinClosed DEF StagedInv
<1>11. CollectedInv
  <2> DEFINE at == [i \in 1..0 |-> 1]
  <2>1. at \in [1..Len(pending) -> 1..Ran]
    BY <1>3, <1>4
  <2> HIDE DEF at
  <2>2. Collects(at)
    BY <1>3, <1>4 DEF Collects
  <2> QED
    BY <2>1, <2>2 DEF CollectedInv
<1> QED
  BY <1>5, <1>6, <1>7, <1>8, <1>9, <1>10, <1>11 DEF IInv

LEMMA StepKeeps ==
  ASSUME IInv, [Next]_vars
  PROVE  IInv'
<1>1. CASE SkipStep \/ StepExits \/ LeaveComposite
  <2>1. Settles
    BY <1>1, SkipSettles, ExitSettles, LeaveSettles
  <2>2. ctxDone' \in BOOLEAN
    BY <1>1 DEF SkipStep, StepExits, LeaveComposite, IInv, TypeOK
  <2> QED
    BY <2>1, <2>2, SettlingInvariant
<1>2. CASE JobErrors \/ ContextRefuses \/ NotOnThisPlatform
  <2>1. Errors
    BY <1>2 DEF JobErrors, ContextRefuses, NotOnThisPlatform
  <2>2. /\ phase' = "done" /\ result' = "error" /\ staged' = staged
        /\ UNCHANGED <<steps, frames, post, pending, reports, masked, ctxDone>>
    BY <2>1 DEF Errors
  <2> QED
    BY <2>2, ErrorKeeps
<1>3. CASE NestingTooDeep
  BY <1>3, ErrorKeeps DEF NestingTooDeep, AtStep
<1>4. CASE ContextEnds \/ Returned \/ UNCHANGED vars
  <2>1. UNCHANGED <<steps, frames, phase, post, pending, reports, masked, staged, result>>
    BY <1>4 DEF ContextEnds, Returned, vars
  <2>2. ctxDone' \in BOOLEAN
    BY <1>4 DEF ContextEnds, Returned, vars, IInv, TypeOK
  <2> QED
    BY <2>1, <2>2, StillKeeps
<1> QED
  BY <1>1, <1>2, <1>3, <1>4, StartKeeps, EnterKeeps, FinishKeeps, SkipPostKeeps,
     StartPostKeeps, PostExitsKeeps, JobFinishedKeeps DEF Next, Work

\* The inductive invariant: what a job's frames, reports, copies and pending
\* posts have to do with one another.
THEOREM Invariance == Spec => []IInv
<1>1. Init => IInv
  BY InitHolds
<1>2. IInv /\ [Next]_vars => IInv'
  BY StepKeeps
<1> QED
  BY <1>1, <1>2, PTL DEF Spec

\* RunJob keeps its stack of step lists, its reports and its pending posts
\* of their types; a copy is always that of an existing action.
THEOREM TypeCorrect == Spec => []TypeOK
<1>1. IInv => TypeOK
  BY DEF IInv
<1> QED
  BY <1>1, Invariance, PTL

-----------------------------------------------------------------------------
(* The properties.                                                         *)

LEMMA StepCountIs ==
  ASSUME IInv
  PROVE  /\ StepCount = Ran /\ Ran \in Nat /\ Ran <= Len(reports) /\ Len(reports) \in Nat
         /\ Len(StepReports) = Ran /\ \A k \in 1..Ran : StepReports[k] = reports[k]
         /\ Len(PostReports) = Len(reports) - Ran
         /\ \A k \in 1..Len(reports) - Ran : PostReports[k] = reports[Ran + k]
<1>1. Ran \in Nat /\ Ran <= Len(reports) /\ Len(reports) \in Nat /\ reports \in Seq(Report)
  BY Depth DEF IInv, ReportsInv, TypeOK
<1>2. Ran \in 0..Len(reports) /\ \A k \in 1..Len(reports) : reports[k].post <=> k > Ran
  BY <1>1 DEF IInv, ReportsInv
<1>3. ASSUME NEW n \in 0..Len(reports),
             \A k \in 1..Len(reports) : reports[k].post <=> k > n
      PROVE  n = Ran
  <2>1. CASE n < Ran
    <3>1. Ran \in 1..Len(reports) /\ Ran > n /\ ~(Ran > Ran)
      BY <1>1, <2>1
    <3> QED
      BY <1>2, <1>3, <3>1
  <2>2. CASE n > Ran
    <3>1. n \in 1..Len(reports) /\ n > Ran /\ ~(n > n)
      BY <1>1, <2>2
    <3> QED
      BY <1>2, <1>3, <3>1
  <2> QED
    BY <1>1, <2>1, <2>2
<1>4. StepCount = Ran
  BY <1>2, <1>3 DEF StepCount
<1>5. Len(StepReports) = Ran /\ \A k \in 1..Ran : StepReports[k] = reports[k]
  <2>1. 1 \in 1..Len(reports) + 1 /\ Ran \in 0..Len(reports)
    BY <1>1
  <2> QED
    BY <1>1, <1>4, <2>1, SubSeqProperties DEF StepReports
<1>6. /\ Len(PostReports) = Len(reports) - Ran
      /\ \A k \in 1..Len(reports) - Ran : PostReports[k] = reports[Ran + k]
  <2>1. PICK r \in Nat : r = Ran
    BY <1>1
  <2>2. Len(PostReports) = Len(reports) - r
    BY <1>1, <1>4, <2>1, SubSeqProperties DEF PostReports
  <2>3. \A k \in 1..Len(reports) - r : PostReports[k] = reports[r + k]
    BY <1>1, <1>4, <2>1, SubSeqProperties DEF PostReports
  <2> QED
    BY <2>1, <2>2, <2>3
<1> QED
  BY <1>1, <1>4, <1>5, <1>6

\* RunJob's loop over the steps: no step comes after the first unhandled
\* failure, and the job fails exactly when there is one.
THEOREM JobFailsOnUnhandled == Spec => []FailsOnFirstUnhandled
<1>1. IInv => FailsOnFirstUnhandled
  <2>1. SUFFICES ASSUME IInv PROVE FailsOnFirstUnhandled
    OBVIOUS
  <2>2. PICK r \in Nat : r = Ran
    BY <2>1, StepCountIs
  <2>3. Len(StepReports) = r /\ \A k \in 1..r : StepReports[k] = reports[k]
    BY <2>1, <2>2, StepCountIs
  <2>4. \A k \in 1..r : Unhandled(k) <=> ~Excused(k)
    BY <2>3 DEF Unhandled, Excused
  <2>5. /\ \A k \in 1..r : ~Excused(k) => k = r /\ frames[1].failed
        /\ frames[1].failed => r > 0 /\ ~Excused(r)
    BY <2>1, <2>2 DEF IInv, ReportsInv
  <2>6. \A k \in 1..Len(StepReports) - 1 : ~Unhandled(k)
    BY <2>3, <2>4, <2>5
  <2>7. ASSUME result = "failure"
        PROVE  StepReports # <<>> /\ Unhandled(Len(StepReports))
    <3>1. frames[1].failed
      BY <2>1, <2>7 DEF IInv, ResultInv, Conclusion
    <3>2. r \in 1..r /\ r > 0 /\ ~Excused(r)
      BY <2>5, <3>1
    <3> QED
      BY <2>3, <2>4, <3>2
  <2>8. ASSUME result = "success"
        PROVE  Len(StepReports) = Len(steps) /\ \A k \in 1..Len(steps) : ~Unhandled(k)
    <3>1. ~frames[1].failed /\ Over /\ Len(frames) = 1
      BY <2>1, <2>8 DEF IInv, ResultInv, Conclusion
    <3>2. frames[1].next > Len(frames[1].body) /\ frames[1].body = steps
      BY <2>1, <3>1 DEF Over, Innermost, IInv, FramesInv
    <3>3. r <= Len(steps) /\ frames[1].next = r + 1 /\ Len(steps) \in Nat
      <4>1. Ran \in 0..Len(steps) /\ steps \in Bodies /\ 1 \in 1..Len(frames)
        BY <2>1, Depth, <3>1 DEF IInv
      <4>2. frames[1].next \in Nat /\ Len(steps) \in Nat
        BY <2>1, <4>1, FrameIs, BodyIs DEF IInv
      <4> QED
        BY <2>2, <4>1, <4>2 DEF Ran
    <3>4. r = Len(steps)
      BY <3>2, <3>3
    <3> QED
      BY <2>3, <2>4, <2>5, <3>1, <3>4
  <2> QED
    BY <2>6, <2>7, <2>8 DEF FailsOnFirstUnhandled
<1> QED
  BY <1>1, Invariance, PTL

\* AddMask and Redact (commands/annotations.go): one registry for the job
\* and the composites inside it, so no later step's output shows the secret.
THEOREM LaterStepsAreMasked == Spec => []MaskedInLaterSteps
<1>1. IInv => MaskedInLaterSteps
  <2>1. SUFFICES ASSUME IInv, NEW k \in 1..Len(StepReports), NEW l \in 1..Len(StepReports),
                        k < l, StepReports[k].registered
                 PROVE  ~StepReports[l].shows
    BY DEF MaskedInLaterSteps
  <2>2. k \in 1..Ran /\ l \in k + 1..Ran /\ l \in 1..Ran /\ Ran \in Nat
    BY <2>1, StepCountIs
  <2>3. reports[k].registered /\ StepReports[l] = reports[l]
    BY <2>1, <2>2, StepCountIs
  <2> QED
    BY <2>1, <2>2, <2>3 DEF IInv, MaskInv
<1> QED
  BY <1>1, Invariance, PTL

\* prepareUsesStep copies to a path keyed by the step's id (node.go:22-27): a
\* post finds the files of its own action unless the job has a step of that
\* id with another action.
THEOREM PostsFindTheirAction == Spec => []PostFindsOwnAction
<1>1. IInv => PostFindsOwnAction
  <2>1. SUFFICES ASSUME IInv, phase = "postExec", ~DryRun,
                        ~\E s \in StepsWithin(steps) :
                            s.id = pending[post].id /\ s.uses \notin {None, pending[post].uses}
                 PROVE  staged[pending[post].id] = pending[post].uses
    BY DEF PostFindsOwnAction
  <2>2. post \in 1..Len(pending)
    BY <2>1 DEF IInv, TypeOK, FramesInv
  <2>3. pending[post].id \in Ids /\ staged[pending[post].id] # None
    BY <2>1, <2>2, PendingIs DEF IInv, StagedInv
  <2>4. PICK s \in StepsWithin(steps) :
          s.id = pending[post].id /\ s.uses = staged[pending[post].id]
    BY <2>1, <2>3 DEF IInv, StagedInv
  <2> QED
    BY <2>1, <2>3, <2>4
<1> QED
  BY <1>1, Invariance, PTL

\* pendingPosts and RunJob's loop over them: a job that returns a result has
\* run the due posts of its own steps, once each, in reverse step order.
THEOREM PostsRunInReverse == Spec => []PostsMirrorMains
<1>1. IInv => PostsMirrorMains
  <2>1. SUFFICES ASSUME IInv, result \in {"success", "failure"}
                 PROVE  \E main \in [1..Len(PostReports) -> PostsDue] :
                          /\ \A k, l \in 1..Len(PostReports) : k < l => main[k] > main[l]
                          /\ \A n \in PostsDue : \E k \in 1..Len(PostReports) : main[k] = n
                          /\ \A k \in 1..Len(PostReports) :
                               PostReports[k].id = steps[main[k]].id
    BY DEF PostsMirrorMains
  <2>2. PICK r \in Nat, n \in Nat, p \in Nat :
          r = Ran /\ n = Len(reports) - Ran /\ p = Len(pending)
    <3>1. Len(reports) - Ran \in Nat /\ Ran \in Nat /\ Len(pending) \in Nat
      BY <2>1, StepCountIs DEF IInv, TypeOK
    <3> QED
      BY <3>1
  <2>3. /\ Len(PostReports) = n /\ \A k \in 1..n : PostReports[k] = reports[r + k]
        /\ Len(StepReports) = r /\ \A k \in 1..r : StepReports[k] = reports[k]
    BY <2>1, <2>2, StepCountIs
  <2>4. PICK at \in [1..p -> 1..r] :
          /\ \A i, j \in 1..p : i < j => at[i] < at[j]
          /\ \A i \in 1..p : /\ Collected(at[i]) /\ pending[i].id = steps[at[i]].id
                             /\ pending[i].uses = steps[at[i]].uses
          /\ \A k \in 1..r : Collected(k) => \E i \in 1..p : at[i] = k
    BY <2>1, <2>2 DEF IInv, CollectedInv, Collects
  <2>5. post = 0
    BY <2>1 DEF IInv, ResultInv
  <2>6. PICK of \in [1..n -> 1..p] : Posted(of)
    BY <2>1, <2>2 DEF IInv, PostedInv
  <2>7. /\ \A k, l \in 1..n : k < l => of[k] > of[l]
        /\ \A k \in 1..n : /\ PostWanted(pending[of[k]])
                           /\ reports[r + k].id = pending[of[k]].id
        /\ \A i \in 1..p : PostWanted(pending[i]) => \E k \in 1..n : of[k] = i
    <3>1. 1..Len(reports) - Ran = 1..n /\ 1..p = post + 1..Len(pending) /\ r = Ran
      BY <2>2, <2>5
    <3> QED
      BY <2>6, <3>1, Zenon DEF Posted
  <2>8. \A k : k \in PostsDue <=>
               /\ k \in 1..r /\ Collected(k)
               /\ Holds(Action[steps[k].uses].post, frames[1])
    BY <2>3 DEF PostsDue, Collected
  <2>9. \A i \in 1..p : PostWanted(pending[i]) <=> at[i] \in PostsDue
    BY <2>4, <2>8, ZenonT(60) DEF PostWanted
  <2> DEFINE main == [k \in 1..n |-> at[of[k]]]
  <2>10. main \in [1..n -> PostsDue]
    BY <2>6, <2>7, <2>9
  <2>11. \A k \in 1..n : main[k] = at[of[k]] /\ of[k] \in 1..p /\ at[of[k]] \in 1..r
    BY <2>4, <2>6
  <2> HIDE DEF main
  <2>12. \A k, l \in 1..n : k < l => main[k] > main[l]
    <3>1. SUFFICES ASSUME NEW k \in 1..n, NEW l \in 1..n, k < l PROVE main[l] < main[k]
      BY <2>11
    <3>2. of[l] < of[k]
      BY <2>7, <2>11, <3>1
    <3> QED
      BY <2>4, <2>11, <3>2
  <2>13. ASSUME NEW k \in PostsDue PROVE \E l \in 1..n : main[l] = k
    <3>1. PICK i \in 1..p : at[i] = k
      BY <2>4, <2>8
    <3>2. PICK l \in 1..n : of[l] = i
      BY <2>7, <2>9, <3>1
    <3> QED
      BY <2>11, <3>1, <3>2
  <2>14. \A k \in 1..n : PostReports[k].id = steps[main[k]].id
    <3>1. TAKE k \in 1..n
    <3>2. PostReports[k].id = pending[of[k]].id
      BY <2>3, <2>7
    <3>3. pending[of[k]].id = steps[at[of[k]]].id
      BY <2>4, <2>11
    <3> QED
      BY <2>11, <3>2, <3>3
  <2> QED
    BY <2>3, <2>10, <2>12, <2>13, <2>14
<1> QED
  BY <1>1, Invariance, PTL

-----------------------------------------------------------------------------
(* RunJob is what MatrixRun takes it for.                                  *)

\* A process starts with a live context, or there is none to start.
LEMMA StartIsOutlined ==
  ASSUME phase \in {"steps", "posts"}, phase' \in {"exec", "postExec"}, Live,
         UNCHANGED <<steps, ctxDone, result>>
  PROVE  [Outline!Next]_(Outline!vars)
<1>1. DryRun' = DryRun
  BY DEF DryRun
<1>2. CASE DryRun
  <2>1. place = "run" /\ place' = "run"
    BY <1>1, <1>2 DEF place
  <2> QED
    BY <2>1 DEF Outline!vars
<1>3. CASE ~DryRun
  <2>1. place = "run" /\ place' = "exec" /\ ~ctxDone
    BY <1>1, <1>3 DEF place, Live
  <2> QED
    BY <2>1 DEF Outline!Next, Outline!RunStep
<1> QED
  BY <1>2, <1>3

LEMMA ExitIsOutlined ==
  ASSUME phase \in {"exec", "postExec"}, phase' \in {"steps", "posts"},
         UNCHANGED <<steps, ctxDone, result>>
  PROVE  [Outline!Next]_(Outline!vars)
<1>1. DryRun' = DryRun
  BY DEF DryRun
<1>2. CASE DryRun
  <2>1. place = "run" /\ place' = "run"
    BY <1>1, <1>2 DEF place
  <2> QED
    BY <2>1 DEF Outline!vars
<1>3. CASE ~DryRun
  <2>1. place = "exec" /\ place' = "run"
    BY <1>1, <1>3 DEF place
  <2> QED
    BY <2>1 DEF Outline!Next, Outline!StepEnds
<1> QED
  BY <1>2, <1>3

LEMMA ReturnIsOutlined ==
  ASSUME phase \in {"steps", "posts"}, phase' = "done",
         result' \in {"success", "failure", "error"}, ctxDone' = ctxDone
  PROVE  [Outline!Next]_(Outline!vars)
<1>1. place = "run" /\ place' = "done"
  BY DEF place
<1> QED
  BY <1>1 DEF Outline!Next, Outline!JobReturns

LEMMA RestIsOutlined ==
  ASSUME \/ phase' = phase
         \/ phase \in {"steps", "posts"} /\ phase' \in {"steps", "posts"},
         UNCHANGED <<steps, result>>, ctxDone' = ctxDone \/ ctxDone' = TRUE
  PROVE  [Outline!Next]_(Outline!vars)
<1>1. DryRun' = DryRun
  BY DEF DryRun
<1>2. place' = place
  BY <1>1 DEF place
<1> QED
  BY <1>2 DEF Outline!Next, Outline!ContextEnds, Outline!vars

LEMMA StepIsOutlined ==
  ASSUME [Next]_vars
  PROVE  [Outline!Next]_(Outline!vars)
<1>1. CASE StartStep \/ StartPost
  <2>1. /\ phase \in {"steps", "posts"} /\ phase' \in {"exec", "postExec"} /\ Live
        /\ UNCHANGED <<steps, ctxDone, result>>
    BY <1>1 DEF StartStep, AtStep, StartPost
  <2> QED
    BY <2>1, StartIsOutlined
<1>2. CASE StepExits \/ PostExits
  <2>1. /\ phase \in {"exec", "postExec"} /\ phase' \in {"steps", "posts"}
        /\ UNCHANGED <<steps, ctxDone, result>>
    BY <1>2 DEF StepExits, PostExits
  <2> QED
    BY <2>1, ExitIsOutlined
<1>3. CASE \/ JobFinished \/ JobErrors \/ ContextRefuses \/ NotOnThisPlatform
           \/ NestingTooDeep
  <2>1. /\ phase \in {"steps", "posts"} /\ phase' = "done" /\ ctxDone' = ctxDone
        /\ result' \in {"success", "failure", "error"}
    BY <1>3 DEF JobFinished, Conclusion, JobErrors, ContextRefuses, NotOnThisPlatform,
                NestingTooDeep, Errors, AtStep
  <2> QED
    BY <2>1, ReturnIsOutlined
<1>4. CASE \/ SkipStep \/ EnterComposite \/ LeaveComposite \/ StepsFinished \/ SkipPost
           \/ ContextEnds \/ Returned \/ UNCHANGED vars
  <2>1. /\ \/ phase' = phase
           \/ phase \in {"steps", "posts"} /\ phase' \in {"steps", "posts"}
        /\ UNCHANGED <<steps, result>> /\ (ctxDone' = ctxDone \/ ctxDone' = TRUE)
    BY <1>4 DEF SkipStep, EnterComposite, LeaveComposite, StepsFinished, SkipPost,
                ContextEnds, Returned, vars
  <2> QED
    BY <2>1, RestIsOutlined
<1> QED
  BY <1>1, <1>2, <1>3, <1>4 DEF Next, Work

\* RunJob does to the fan-out what MatrixRun supposes of a job: processes one
\* after another, none of which starts after the job's context is done, and
\* then one result.
THEOREM RunsAsOutlined == Spec => FitsTheMatrix
<1>1. Init => Outline!Init
  BY DEF Init, Outline!Init, place
<1> QED
  BY <1>1, StepIsOutlined, PTL DEF Spec, FitsTheMatrix, Outline!Spec, Outline!vars

-----------------------------------------------------------------------------
(* The data of a job: the parts of its inductive invariant.                *)

IsList(s) == Len(s) \in Nat /\ s = [k \in 1..Len(s) |-> s[k]]

\* p is a place passed on the way to q: it comes before q in the list where
\* they part.
Passed(p, q) ==
  \E d \in 1..Len(p) : /\ d <= Len(q) /\ p[d] < q[d]
                       /\ \A c \in 1..d - 1 : p[c] = q[c]

\* A scope for each frame.
ScopesInv ==
  /\ IsList(scopes) /\ Len(scopes) = Here
  /\ \A k \in 1..Here : scopes[k] = [env |-> scopes[k].env, outputs |-> scopes[k].outputs,
                                     inputs |-> scopes[k].inputs]
  /\ scopes[1].inputs = EmptyMap

\* The processes of steps ran at places now passed, and before all posts.
LogInv ==
  /\ IsList(log)
  /\ \A i \in 1..Len(log) :
       /\ log[i].at \in Seq(Nat) /\ Len(log[i].at) > 0 /\ log[i].post \in BOOLEAN
       /\ log[i].post => Len(log[i].at) = 1
       /\ ~log[i].post => Passed(log[i].at, At)
       /\ phase \in {"steps", "exec"} => ~log[i].post

\* The process running got its environment from the scope as it still is.
ProcInv ==
  /\ phase = "exec" => /\ proc.at = At
                       /\ proc.env = Layered(<<scopes[Here].env, proc.own>>)
  /\ phase = "postExec" => /\ proc.at = mains[post].at
                           /\ proc.env = PostEnv(mains[post])

\* What a pending post keeps is from the one process at its place.
LeftBy(k, j) ==
  ~log[j].post /\ log[j].at = mains[k].at =>
    /\ log[j].plan = mains[k].plan
    /\ ReadAsMeant /\ ~Unclear(log[j]) => mains[k].state = Meant(log[j], "state")

MainsInv ==
  /\ IsList(mains) /\ Len(mains) = Len(pending)
  /\ \A k \in 1..Len(mains) :
       /\ mains[k].at \in Seq(Nat) /\ Len(mains[k].at) = 1 /\ Passed(mains[k].at, At)
       /\ \A j \in 1..Len(log) : LeftBy(k, j)

\* Maps nested n deep over the job's own env.
Nested(f, n) == Layered(<<Layered(EnvLayers)>> \o [k \in 1..n |-> f[k]])

LayerNow(k) == Layered(<<scopes[k].inputs, SaidInList(log, SubSeq(At, 1, k - 1))>>)

\* The env of a scope is what the program order says.
EnvInv ==
  ReadAsMeant /\ ClearBefore(Len(log) + 1) =>
    \A k \in 1..Here : scopes[k].env = Nested([l \in 1..Here |-> LayerNow(l)], k)

DataInv ==
  /\ ScopesInv /\ LogInv /\ ProcInv /\ MainsInv /\ EnvInv
  /\ ReadAsMeant => EnvInProgramOrder /\ PostSeesItsMain

-----------------------------------------------------------------------------
(* Maps over one another.                                                  *)

LEMMA LeastIs ==
  ASSUME NEW T \in SUBSET Nat, T # {}
  PROVE  \E x \in T : \A y \in T : x <= y
<1> DEFINE R == OpToRel(<, Nat)
<1>1. IsWellFoundedOn(R, Nat)
  BY NatLessThanWellFounded, Zenon
<1>2. R = {ss \in Nat \X Nat : ss[1] < ss[2]}
  BY Zenon DEF OpToRel
<1> HIDE DEF R
<1>3. PICK x \in T : \A y \in T : ~(<<y, x>> \in R)
  BY <1>1, WFMin, Zenon
<1>4. \A y \in T : ~(y < x)
  BY <1>2, <1>3
<1> QED
  BY <1>4

LEMMA MaxIs ==
  ASSUME NEW n \in Nat, NEW T \in SUBSET (1..n), T # {}
  PROVE  Max(T) \in T /\ \A y \in T : y <= Max(T)
<1> DEFINE U == {n - y : y \in T}
<1>1. U \in SUBSET Nat /\ U # {}
  <2>1. \A y \in T : n - y \in Nat
    OBVIOUS
  <2> QED
    BY <2>1
<1>2. PICK x \in U : \A y \in U : x <= y
  BY <1>1, LeastIs
<1>3. PICK m \in T : x = n - m
  BY <1>2
<1>4. \A y \in T : m >= y
  <2>1. \A y \in T : n - y \in U /\ y \in Int
    OBVIOUS
  <2> HIDE DEF U
  <2> QED
    BY <1>2, <1>3, <2>1
<1>5. Max(T) \in T /\ \A y \in T : Max(T) >= y
  BY <1>4, Zenon DEF Max
<1> QED
  BY <1>5

LEMMA LayeredTwo ==
  ASSUME NEW a, NEW b
  PROVE  Layered(<<a, b>>) = [n \in DOMAIN a \cup DOMAIN b |->
                                IF n \in DOMAIN b THEN b[n] ELSE a[n]]
<1> DEFINE s == <<a, b>>
           Has(n) == {k \in 1..2 : n \in DOMAIN s[k]}
<1>1. DOMAIN s = 1..2 /\ s[1] = a /\ s[2] = b
  OBVIOUS
<1>2. UNION {DOMAIN s[k] : k \in DOMAIN s} = DOMAIN a \cup DOMAIN b
  BY <1>1
<1>3. ASSUME NEW n \in DOMAIN a \cup DOMAIN b
      PROVE  s[Max(Has(n))][n] = IF n \in DOMAIN b THEN b[n] ELSE a[n]
  <2>1. Has(n) \in SUBSET (1..2) /\ Has(n) # {}
    BY <1>1
  <2>2. Max(Has(n)) \in Has(n) /\ \A y \in Has(n) : y <= Max(Has(n))
    BY <2>1, MaxIs
  <2>3. CASE n \in DOMAIN b
    BY <1>1, <2>2, <2>3
  <2>4. CASE n \notin DOMAIN b
    BY <1>1, <2>2, <2>4
  <2> QED
    BY <2>3, <2>4
<1>4. Layered(s) = [n \in DOMAIN a \cup DOMAIN b |-> s[Max(Has(n))][n]]
  BY <1>1, <1>2 DEF Layered
<1> QED
  BY <1>3, <1>4

\* One map more.
LEMMA LayeredOneMore ==
  ASSUME NEW n \in Nat, NEW s, DOMAIN s = 1..n + 1, NEW r, DOMAIN r = 1..n,
         \A k \in 1..n : r[k] = s[k]
  PROVE  Layered(s) = Layered(<<Layered(r), s[n + 1]>>)
<1> DEFINE Has(v) == {k \in 1..n + 1 : v \in DOMAIN s[k]}
           HasR(v) == {k \in 1..n : v \in DOMAIN r[k]}
           D == UNION {DOMAIN r[k] : k \in 1..n}
           x == s[n + 1]
<1>1. Layered(r) = [v \in D |-> r[Max(HasR(v))][v]]
  BY DEF Layered
<1>2. UNION {DOMAIN s[k] : k \in 1..n + 1} = D \cup DOMAIN x
  <2>1. \A k \in 1..n + 1 : k \in 1..n \/ k = n + 1
    OBVIOUS
  <2>2. n + 1 \in 1..n + 1 /\ \A k \in 1..n : k \in 1..n + 1
    OBVIOUS
  <2> QED
    BY <2>1, <2>2
<1>3. Layered(s) = [v \in D \cup DOMAIN x |-> s[Max(Has(v))][v]]
  BY <1>2 DEF Layered
<1>4. ASSUME NEW v \in D \cup DOMAIN x
      PROVE  s[Max(Has(v))][v] = IF v \in DOMAIN x THEN x[v] ELSE Layered(r)[v]
  <2>1. Has(v) \in SUBSET (1..n + 1) /\ Has(v) # {}
    <3>1. \E k \in 1..n + 1 : v \in DOMAIN s[k]
      <4> HIDE DEF D, x
      <4> QED
        BY <1>2, <1>4
    <3>2. Has(v) \in SUBSET (1..n + 1)
      OBVIOUS
    <3>3. PICK k \in 1..n + 1 : k \in Has(v)
      BY <3>1
    <3> QED
      BY <3>2, <3>3
  <2>2. Max(Has(v)) \in Has(v) /\ \A y \in Has(v) : y <= Max(Has(v))
    <3>1. n + 1 \in Nat
      OBVIOUS
    <3> HIDE DEF Has, D, x
    <3> QED
      BY <2>1, <3>1, MaxIs
  <2>3. CASE v \in DOMAIN x
    <3>1. n + 1 \in Has(v)
      BY <2>3
    <3>2. Max(Has(v)) = n + 1
      BY <2>2, <3>1
    <3> QED
      BY <2>3, <3>2
  <2>4. CASE v \notin DOMAIN x
    <3>1. Has(v) = HasR(v)
      <4>1. \A k \in 1..n + 1 : k \in 1..n \/ k = n + 1
        OBVIOUS
      <4>2. \A k \in 1..n : k \in 1..n + 1
        OBVIOUS
      <4> QED
        BY <2>4, <4>1, <4>2
    <3>2. Max(HasR(v)) \in 1..n
      BY <2>2, <3>1
    <3>3. s[Max(Has(v))][v] = r[Max(HasR(v))][v]
      BY <3>1, <3>2
    <3> HIDE DEF Has, HasR, D, x
    <3> QED
      BY <1>1, <1>4, <2>4, <3>3
  <2> QED
    BY <2>3, <2>4
<1> HIDE DEF D, Has, HasR, x
<1>5. DOMAIN Layered(r) = D
  BY <1>1
<1>6. Layered(<<Layered(r), x>>) = [v \in DOMAIN Layered(r) \cup DOMAIN x |->
                                      IF v \in DOMAIN x THEN x[v] ELSE Layered(r)[v]]
  BY LayeredTwo
<1>7. Layered(s) = Layered(<<Layered(r), x>>)
  BY <1>3, <1>4, <1>5, <1>6
<1> QED
  BY <1>7 DEF x

LEMMA LayeredAssociative ==
  ASSUME NEW a, NEW b, NEW c
  PROVE  Layered(<<a, Layered(<<b, c>>)>>) = Layered(<<Layered(<<a, b>>), c>>)
<1> DEFINE bc == Layered(<<b, c>>)
           ab == Layered(<<a, b>>)
<1>1. bc = [n \in DOMAIN b \cup DOMAIN c |-> IF n \in DOMAIN c THEN c[n] ELSE b[n]]
  BY LayeredTwo
<1>2. ab = [n \in DOMAIN a \cup DOMAIN b |-> IF n \in DOMAIN b THEN b[n] ELSE a[n]]
  BY LayeredTwo
<1>3. Layered(<<a, bc>>) = [n \in DOMAIN a \cup DOMAIN bc |->
                              IF n \in DOMAIN bc THEN bc[n] ELSE a[n]]
  BY LayeredTwo
<1>4. Layered(<<ab, c>>) = [n \in DOMAIN ab \cup DOMAIN c |->
                              IF n \in DOMAIN c THEN c[n] ELSE ab[n]]
  BY LayeredTwo
<1> HIDE DEF ab, bc
<1>5. DOMAIN bc = DOMAIN b \cup DOMAIN c /\ DOMAIN ab = DOMAIN a \cup DOMAIN b
  BY <1>1, <1>2
<1>6. \A n \in DOMAIN a \cup DOMAIN b \cup DOMAIN c :
        (IF n \in DOMAIN bc THEN bc[n] ELSE a[n]) = (IF n \in DOMAIN c THEN c[n] ELSE ab[n])
  BY <1>1, <1>2, <1>5
<1>7. Layered(<<a, bc>>) = Layered(<<ab, c>>)
  BY <1>3, <1>4, <1>5, <1>6
<1> QED
  BY <1>7 DEF ab, bc

LEMMA AppendIs ==
  ASSUME NEW s, IsList(s), NEW x
  PROVE  /\ IsList(Append(s, x)) /\ Len(Append(s, x)) = Len(s) + 1
         /\ Append(s, x)[Len(s) + 1] = x
         /\ \A k \in 1..Len(s) : Append(s, x)[k] = s[k]
<1> DEFINE S == {s[k] : k \in 1..Len(s)} \cup {x}
           n == Len(s)
<1>1. n \in Nat /\ s = [k \in 1..n |-> s[k]]
  BY DEF IsList
<1>2. \A k \in 1..n : s[k] \in S
  OBVIOUS
<1> HIDE DEF S
<1>3. s \in Seq(S)
  BY <1>1, <1>2
<1>4. x \in S
  BY DEF S
<1>5. /\ Append(s, x) \in Seq(S) /\ Len(Append(s, x)) = n + 1
      /\ Append(s, x)[n + 1] = x
      /\ \A k \in 1..n : Append(s, x)[k] = s[k]
  BY <1>3, <1>4
<1>6. \A q \in Seq(S) : q = [k \in 1..Len(q) |-> q[k]] /\ Len(q) \in Nat
  OBVIOUS
<1> QED
  BY <1>5, <1>6 DEF IsList

LEMMA FrontList ==
  ASSUME NEW s, IsList(s), Len(s) > 0
  PROVE  /\ IsList(Front(s)) /\ Len(Front(s)) = Len(s) - 1
         /\ \A k \in 1..Len(s) - 1 : Front(s)[k] = s[k]
<1> DEFINE S == {s[k] : k \in 1..Len(s)}
           n == Len(s)
<1>1. n \in Nat /\ n > 0
  BY DEF IsList
<1>2. \A k \in 1..n - 1 : s[k] \in S
  BY <1>1
<1> HIDE DEF S
<1> DEFINE m == n - 1
<1>3. m \in Nat /\ m \in Int /\ 1 \in Int
  BY <1>1
<1> HIDE DEF m
<1>4. /\ SubSeq(s, 1, m) \in Seq(S)
      /\ Len(SubSeq(s, 1, m)) = IF 1 <= m THEN m - 1 + 1 ELSE 0
      /\ \A k \in 1..m - 1 + 1 : SubSeq(s, 1, m)[k] = s[1 + k - 1]
  BY <1>2, <1>3, SubSeqProperties DEF m
<1>5. Len(SubSeq(s, 1, m)) = m /\ \A k \in 1..m : SubSeq(s, 1, m)[k] = s[k]
  BY <1>3, <1>4
<1>6. \A q \in Seq(S) : q = [k \in 1..Len(q) |-> q[k]] /\ Len(q) \in Nat
  OBVIOUS
<1> QED
  BY <1>1, <1>4, <1>5, <1>6 DEF IsList, Front, m

LEMMA SamePrefix ==
  ASSUME NEW p, NEW q, NEW n \in Nat, \A k \in 1..n : p[k] = q[k]
  PROVE  /\ SubSeq(p, 1, n) = SubSeq(q, 1, n)
         /\ Len(SubSeq(p, 1, n)) = n
<1> DEFINE S == {p[k] : k \in 1..n}
<1>1. \A k \in 1..n : p[k] \in S /\ q[k] \in S
  OBVIOUS
<1> HIDE DEF S
<1>2. /\ SubSeq(p, 1, n) \in Seq(S) /\ Len(SubSeq(p, 1, n)) = n
      /\ \A k \in 1..n : SubSeq(p, 1, n)[k] = p[k]
  BY <1>1, SubSeqProperties
<1>3. /\ SubSeq(q, 1, n) \in Seq(S) /\ Len(SubSeq(q, 1, n)) = n
      /\ \A k \in 1..n : SubSeq(q, 1, n)[k] = q[k]
  BY <1>1, SubSeqProperties
<1> QED
  BY <1>2, <1>3, SeqEqual

LEMMA NestedIs ==
  ASSUME NEW B, NEW f, NEW n \in Nat
  PROVE  LET s == <<B>> \o [k \in 1..n |-> f[k]]
         IN  DOMAIN s = 1..n + 1 /\ s[1] = B /\ \A k \in 1..n : s[k + 1] = f[k]
<1> DEFINE S == {f[k] : k \in 1..n} \cup {B}
           t == [k \in 1..n |-> f[k]]
           s == <<B>> \o t
<1>1. \A k \in 1..n : f[k] \in S
  OBVIOUS
<1>2. B \in S
  OBVIOUS
<1> HIDE DEF S
<1>3. t \in Seq(S) /\ Len(t) = n
  BY <1>1
<1>4. <<B>> \in Seq(S) /\ Len(<<B>>) = 1 /\ <<B>>[1] = B
  BY <1>2
<1>5. /\ s \in Seq(S) /\ Len(s) = 1 + n
      /\ \A i \in 1..1 + n : s[i] = IF i <= 1 THEN <<B>>[i] ELSE t[i - 1]
  <2> HIDE DEF t
  <2> QED
    BY <1>3, <1>4, ConcatProperties
<1>6. \A k \in 1..n : t[k] = f[k]
  OBVIOUS
<1> HIDE DEF t, s
<1>7. DOMAIN s = 1..n + 1 /\ s[1] = B
  BY <1>4, <1>5
<1>8. \A k \in 1..n : s[k + 1] = f[k]
  BY <1>5, <1>6
<1> QED
  BY <1>7, <1>8 DEF s, t

\* One list deeper.
LEMMA NestedOneMore ==
  ASSUME NEW f, NEW n \in Nat
  PROVE  Nested(f, n + 1) = Layered(<<Nested(f, n), f[n + 1]>>)
<1> DEFINE B == Layered(EnvLayers)
           s == <<B>> \o [k \in 1..n + 1 |-> f[k]]
           r == <<B>> \o [k \in 1..n |-> f[k]]
<1>1. DOMAIN s = 1..n + 1 + 1 /\ s[1] = B /\ \A k \in 1..n + 1 : s[k + 1] = f[k]
  BY NestedIs
<1>2. DOMAIN r = 1..n + 1 /\ r[1] = B /\ \A k \in 1..n : r[k + 1] = f[k]
  BY NestedIs
<1> HIDE DEF B, s, r
<1>3. \A k \in 1..n + 1 : r[k] = s[k]
  <2>1. SUFFICES ASSUME NEW k \in 1..n + 1 PROVE r[k] = s[k]
    OBVIOUS
  <2>2. CASE k = 1
    BY <1>1, <1>2, <2>2
  <2>3. CASE k # 1
    <3>1. k - 1 \in 1..n /\ k - 1 \in 1..n + 1 /\ k = k - 1 + 1
      BY <2>3
    <3> QED
      BY <1>1, <1>2, <3>1
  <2> QED
    BY <2>2, <2>3
<1>4. s[n + 1 + 1] = f[n + 1]
  BY <1>1
<1>5. Layered(s) = Layered(<<Layered(r), s[n + 1 + 1]>>)
  BY <1>1, <1>2, <1>3, LayeredOneMore
<1> QED
  BY <1>4, <1>5 DEF Nested, s, r, B

LEMMA NestedSame ==
  ASSUME NEW f, NEW g, NEW n \in Nat, \A k \in 1..n : f[k] = g[k]
  PROVE  Nested(f, n) = Nested(g, n)
<1>1. [k \in 1..n |-> f[k]] = [k \in 1..n |-> g[k]]
  OBVIOUS
<1> QED
  BY <1>1 DEF Nested

-----------------------------------------------------------------------------
(* What has been said, and where.                                          *)

LEMMA SaidOneMore ==
  ASSUME NEW past, IsList(past), NEW e, NEW list
  PROVE  SaidInList(Append(past, e), list) =
           Layered(<<SaidInList(past, list),
                     IF Front(e.at) = list THEN Meant(e, "env") ELSE EmptyMap>>)
<1> DEFINE Of(x) == IF Front(x.at) = list THEN Meant(x, "env") ELSE EmptyMap
           n == Len(past)
           s == [j \in 1..n + 1 |-> Of(Append(past, e)[j])]
           r == [j \in 1..n |-> Of(past[j])]
<1>1. /\ n \in Nat /\ Len(Append(past, e)) = n + 1 /\ Append(past, e)[n + 1] = e
      /\ \A k \in 1..n : Append(past, e)[k] = past[k]
  BY AppendIs DEF IsList
<1>2. SaidInList(past, list) = Layered(r)
  BY DEF SaidInList
<1>3. SaidInList(Append(past, e), list) = Layered(s)
  BY <1>1 DEF SaidInList
<1>4. n + 1 \in 1..n + 1 /\ \A k \in 1..n : k \in 1..n + 1
  BY <1>1
<1> HIDE DEF Of, n
<1>5. s[n + 1] = Of(e) /\ \A k \in 1..n : r[k] = s[k]
  BY <1>1, <1>4
<1>6. DOMAIN s = 1..n + 1 /\ DOMAIN r = 1..n
  OBVIOUS
<1> HIDE DEF s, r
<1>7. Layered(s) = Layered(<<Layered(r), s[n + 1]>>)
  BY <1>1, <1>5, <1>6, LayeredOneMore
<1> QED
  BY <1>2, <1>3, <1>5, <1>7 DEF Of

LEMMA LayeredNothing ==
  ASSUME NEW maps, NEW none, DOMAIN none = {}
  PROVE  Layered(<<Layered(maps), none>>) = Layered(maps)
<1> DEFINE a == Layered(maps)
<1>1. a = [n \in DOMAIN a |-> a[n]]
  BY DEF Layered
<1> HIDE DEF a
<1>2. Layered(<<a, none>>) = [n \in DOMAIN a \cup DOMAIN none |->
                                IF n \in DOMAIN none THEN none[n] ELSE a[n]]
  BY LayeredTwo
<1>3. Layered(<<a, none>>) = a
  BY <1>1, <1>2
<1> QED
  BY <1>3 DEF a

LEMMA LayeredOne ==
  ASSUME NEW maps
  PROVE  Layered(<<Layered(maps)>>) = Layered(maps)
<1> DEFINE a == Layered(maps)
           none == Layered(<<>>)
<1>1. a = [n \in DOMAIN a |-> a[n]]
  BY DEF Layered
<1>2. DOMAIN none = {}
  BY DEF Layered
<1> HIDE DEF a, none
<1>3. Layered(<<a>>) = Layered(<<none, a>>)
  <2> DEFINE s == <<a>>
             r == <<>>
  <2>1. /\ 0 \in Nat /\ DOMAIN s = 1..0 + 1 /\ DOMAIN r = 1..0 /\ s[0 + 1] = a
        /\ \A k \in 1..0 : r[k] = s[k]
    OBVIOUS
  <2> HIDE DEF s, r
  <2>2. Layered(s) = Layered(<<Layered(r), s[0 + 1]>>)
    BY <2>1, LayeredOneMore
  <2> QED
    BY <2>1, <2>2 DEF none, s, r
<1>4. Layered(<<none, a>>) = [n \in DOMAIN none \cup DOMAIN a |->
                                IF n \in DOMAIN a THEN a[n] ELSE none[n]]
  BY LayeredTwo
<1>5. Layered(<<none, a>>) = a
  BY <1>1, <1>2, <1>4
<1> QED
  BY <1>3, <1>5 DEF a

LEMMA EmptyIs == DOMAIN EmptyMap = {}
BY DEF EmptyMap

LEMMA SaidElsewhere ==
  ASSUME NEW past, IsList(past), NEW e, NEW list, Front(e.at) # list
  PROVE  SaidInList(Append(past, e), list) = SaidInList(past, list)
<1>1. SaidInList(Append(past, e), list) = Layered(<<SaidInList(past, list), EmptyMap>>)
  BY SaidOneMore
<1>2. Layered(<<SaidInList(past, list), EmptyMap>>) = SaidInList(past, list)
  BY LayeredNothing, EmptyIs, Zenon DEF SaidInList
<1> QED
  BY <1>1, <1>2

LEMMA SaidNothing ==
  ASSUME NEW past, NEW list, \A j \in 1..Len(past) : Front(past[j].at) # list
  PROVE  DOMAIN SaidInList(past, list) = {}
BY EmptyIs DEF SaidInList, Layered

LEMMA PassedOn ==
  ASSUME NEW p \in Seq(Nat), NEW q \in Seq(Nat), NEW r \in Seq(Nat), NEW m \in 1..Len(q),
         Len(r) = m, \A k \in 1..m - 1 : r[k] = q[k], r[m] = q[m] + 1, Passed(p, q)
  PROVE  Passed(p, r)
<1>1. PICK d \in 1..Len(p) : /\ d <= Len(q) /\ p[d] < q[d]
                             /\ \A c \in 1..d - 1 : p[c] = q[c]
  BY DEF Passed
<1>2. Len(p) \in Nat /\ Len(q) \in Nat /\ m \in Nat /\ d \in Nat
  OBVIOUS
<1>3. CASE d < m
  <2>1. d \in 1..m - 1 /\ \A c \in 1..d - 1 : c \in 1..m - 1
    BY <1>2, <1>3
  <2>2. d <= Len(r) /\ p[d] < r[d]
    BY <1>1, <1>2, <1>3, <2>1
  <2>3. \A c \in 1..d - 1 : p[c] = r[c]
    BY <1>1, <2>1
  <2> QED
    BY <2>2, <2>3, Zenon DEF Passed
<1>4. CASE d = m
  <2>1. p[m] \in Nat /\ q[m] \in Nat
    BY <1>4
  <2>2. d <= Len(r) /\ p[d] < r[d]
    BY <1>1, <1>2, <1>4, <2>1
  <2>3. \A c \in 1..d - 1 : p[c] = r[c]
    BY <1>1, <1>4
  <2> QED
    BY <2>2, <2>3, Zenon DEF Passed
<1>5. CASE d > m
  <2>1. m \in 1..d - 1 /\ m \in 1..Len(p) /\ \A c \in 1..m - 1 : c \in 1..d - 1
    <3>1. m >= 1 /\ m <= d - 1 /\ m <= Len(p)
      BY <1>2, <1>5
    <3>2. m \in 1..d - 1 /\ m \in 1..Len(p)
      BY <1>2, <3>1
    <3>3. \A c \in 1..m - 1 : c \in 1..d - 1
      BY <1>2, <3>1
    <3> QED
      BY <3>2, <3>3, Zenon
  <2>2. p[m] = q[m] /\ q[m] \in Nat
    BY <1>1, <2>1
  <2>3. m <= Len(r) /\ p[m] < r[m]
    <3>1. r[m] = q[m] + 1 /\ Len(r) = m /\ q[m] < q[m] + 1 /\ m <= m
      BY <1>2, <2>2
    <3> QED
      BY <2>2, <3>1
  <2>4. \A c \in 1..m - 1 : p[c] = r[c]
    BY <1>1, <2>1
  <2> QED
    BY <2>1, <2>3, <2>4, Zenon DEF Passed
<1> QED
  BY <1>2, <1>3, <1>4, <1>5

LEMMA PassedHere ==
  ASSUME NEW q \in Seq(Nat), NEW r \in Seq(Nat), NEW m \in 1..Len(q), m = Len(q),
         Len(r) = m, \A k \in 1..m - 1 : r[k] = q[k], r[m] = q[m] + 1
  PROVE  Passed(q, r)
<1>1. q[m] \in Nat
  OBVIOUS
<1> QED
  BY <1>1 DEF Passed

LEMMA PassedDeeper ==
  ASSUME NEW p \in Seq(Nat), NEW q \in Seq(Nat), NEW r \in Seq(Nat),
         Len(r) = Len(q) + 1, \A k \in 1..Len(q) : r[k] = q[k], Passed(p, q)
  PROVE  Passed(p, r)
<1>1. PICK d \in 1..Len(p) : /\ d <= Len(q) /\ p[d] < q[d]
                             /\ \A c \in 1..d - 1 : p[c] = q[c]
  BY DEF Passed
<1>2. d \in 1..Len(q) /\ \A c \in 1..d - 1 : c \in 1..Len(q)
  BY <1>1
<1>3. d <= Len(r) /\ p[d] < r[d] /\ \A c \in 1..d - 1 : p[c] = r[c]
  BY <1>1, <1>2
<1> QED
  BY <1>3, Zenon DEF Passed

\* What has been passed was not inside the step at hand, nor is it that step.
LEMMA PassedOutside ==
  ASSUME NEW p \in Seq(Nat), Len(p) > 0, NEW q \in Seq(Nat), Passed(p, q)
  PROVE  Front(p) # q /\ p # q
<1>1. PICK d \in 1..Len(p) : /\ d <= Len(q) /\ p[d] < q[d]
                             /\ \A c \in 1..d - 1 : p[c] = q[c]
  BY DEF Passed
<1>2. p[d] \in Nat /\ q[d] \in Nat /\ Len(p) \in Nat /\ Len(q) \in Nat
  BY <1>1
<1>3. p[d] # q[d]
  BY <1>1, <1>2
<1>4. ASSUME Front(p) = q PROVE FALSE
  <2>1. IsList(p)
    BY <1>2 DEF IsList
  <2>2. Len(q) = Len(p) - 1 /\ \A k \in 1..Len(p) - 1 : q[k] = p[k]
    BY <1>4, <2>1, FrontList
  <2>3. d \in 1..Len(p) - 1
    BY <1>1, <1>2, <2>2
  <2> QED
    BY <1>3, <2>2, <2>3
<1> QED
  BY <1>3, <1>4

-----------------------------------------------------------------------------
(* Where the job is.                                                       *)

PlaceOK ==
  /\ Here \in Nat \ {0} /\ At \in Seq(Nat) /\ Len(At) = Here
  /\ \A k \in 1..Here : At[k] = frames[k].next

LEMMA PlaceIs ==
  ASSUME IInv
  PROVE  PlaceOK
<1>1. Here \in Nat \ {0} /\ frames \in Seq(Frame)
  BY Depth DEF IInv, Here
<1>2. \A k \in 1..Here : frames[k].next \in Nat
  BY FrameIs, Zenon DEF IInv, Here
<1>3. At \in Seq(Nat) /\ Len(At) = Here /\ \A k \in 1..Here : At[k] = frames[k].next
  BY <1>1, <1>2 DEF At
<1> QED
  BY <1>1, <1>3 DEF PlaceOK

\* After a step of the list at depth m.
MovesOn(m) ==
  /\ m \in 1..Here /\ Here' = m
  /\ \A k \in 1..m - 1 : At'[k] = At[k]
  /\ At'[m] = At[m] + 1
  /\ phase \in {"steps", "exec"} /\ phase' = "steps"

LEMMA SettlingMoves ==
  ASSUME IInv, IInv', Settles
  PROVE  MovesOn(Here')
<1>1. PlaceOK /\ PlaceOK'
  BY PlaceIs, PTL
<1>2. PICK m \in 1..Len(frames), c \in Outcomes, reg \in BOOLEAN, shows \in BOOLEAN :
        Settling(m, c, reg, shows)
  BY DEF Settles
<1>3. /\ Len(frames') = m /\ frames'[m].next = frames[m].next + 1
      /\ \A k \in 1..m - 1 : frames'[k] = frames[k]
  BY <1>2 DEF Settling
<1>4. Here' = m /\ m \in 1..Here /\ Here \in Nat
  BY <1>1, <1>3 DEF Here, PlaceOK
<1>5. /\ \A k \in 1..Here : At[k] = frames[k].next
      /\ \A k \in 1..m : At'[k] = frames'[k].next
  BY <1>1, <1>4 DEF PlaceOK
<1>6. m \in 1..m /\ \A k \in 1..m - 1 : k \in 1..m /\ k \in 1..Here
  BY <1>4
<1>7. At'[m] = At[m] + 1 /\ \A k \in 1..m - 1 : At'[k] = At[k]
  BY <1>3, <1>4, <1>5, <1>6
<1> QED
  BY <1>4, <1>7 DEF MovesOn, Settles

\* The layers of the lists that stay as they are.
LEMMA LayersKept ==
  ASSUME PlaceOK, PlaceOK', NEW m \in Nat, m <= Here, m <= Here',
         \A k \in 1..m - 1 : At'[k] = At[k],
         \A k \in 1..m : scopes'[k].inputs = scopes[k].inputs
  PROVE  /\ \A l \in 1..m : SubSeq(At', 1, l - 1) = SubSeq(At, 1, l - 1)
         /\ log' = log => \A l \in 1..m : LayerNow(l)' = LayerNow(l)
<1>1. ASSUME NEW l \in 1..m PROVE SubSeq(At', 1, l - 1) = SubSeq(At, 1, l - 1)
  <2>1. l - 1 \in Nat /\ \A k \in 1..l - 1 : At'[k] = At[k]
    OBVIOUS
  <2> QED
    BY <2>1, SamePrefix
<1>2. ASSUME NEW l \in 1..m, log' = log PROVE LayerNow(l)' = LayerNow(l)
  BY <1>1, <1>2 DEF LayerNow
<1> QED
  BY <1>1, <1>2

\* So are the maps of the scopes there.
LEMMA NestedKept ==
  ASSUME PlaceOK, PlaceOK', NEW m \in Nat, m <= Here, m <= Here',
         \A l \in 1..m : LayerNow(l)' = LayerNow(l)
  PROVE  \A k \in 1..m : Nested([l \in 1..Here' |-> LayerNow(l)'], k)
                           = Nested([l \in 1..Here |-> LayerNow(l)], k)
<1> DEFINE f == [l \in 1..Here |-> LayerNow(l)]
           g == [l \in 1..Here' |-> LayerNow(l)']
<1>1. ASSUME NEW k \in 1..m PROVE Nested(g, k) = Nested(f, k)
  <2>1. \A l \in 1..k : l \in 1..Here /\ l \in 1..Here' /\ l \in 1..m
    BY DEF PlaceOK
  <2>2. \A l \in 1..k : g[l] = f[l]
    BY <2>1
  <2>3. k \in Nat
    OBVIOUS
  <2> HIDE DEF f, g
  <2> QED
    BY <2>2, <2>3, NestedSame
<1> QED
  BY <1>1

\* What EnvBefore says of a place.
EnvOf(at, inputs, past) ==
  Nested([k \in 1..Len(at) |->
            Layered(<<inputs[k], SaidInList(past, SubSeq(at, 1, k - 1))>>)], Len(at))

LEMMA EnvBeforeIs ==
  ASSUME NEW i
  PROVE  /\ EnvBefore(i) = EnvOf(log[i].at, log[i].inputs, SubSeq(log, 1, i - 1))
         /\ EnvBefore(i)' = EnvOf(log'[i].at, log'[i].inputs, SubSeq(log', 1, i - 1))
<1>1. ASSUME NEW at, NEW inputs, NEW past
      PROVE  LET X(k) == Layered(<<inputs[k], SaidInList(past, SubSeq(at, 1, k - 1))>>)
             IN  Layered(<<Layered(EnvLayers)>> \o [k \in 1..Len(at) |-> X(k)])
                   = EnvOf(at, inputs, past)
  <2> DEFINE X(k) == Layered(<<inputs[k], SaidInList(past, SubSeq(at, 1, k - 1))>>)
             f == [k \in 1..Len(at) |-> X(k)]
  <2>1. [k \in 1..Len(at) |-> f[k]] = [k \in 1..Len(at) |-> X(k)]
    OBVIOUS
  <2> QED
    BY <2>1, Zenon DEF EnvOf, Nested
<1>2. EnvBefore(i) = EnvOf(log[i].at, log[i].inputs, SubSeq(log, 1, i - 1))
  BY <1>1, Zenon DEF EnvBefore
<1>3. EnvBefore(i)' = EnvOf(log'[i].at, log'[i].inputs, SubSeq(log', 1, i - 1))
  BY <1>1, Zenon DEF EnvBefore
<1> QED
  BY <1>2, <1>3

\* The log grows by an entry.
LEMMA LogGrows ==
  ASSUME IsList(log), NEW e, log' = Append(log, e)
  PROVE  LET n == Len(log) IN
         /\ n \in Nat /\ IsList(log') /\ Len(log') = n + 1 /\ log'[n + 1] = e
         /\ DOMAIN log' = 1..n + 1 /\ DOMAIN log = 1..n
         /\ \A i \in 1..n : log'[i] = log[i]
         /\ \A i \in 1..n + 1 : SubSeq(log', 1, i - 1) = SubSeq(log, 1, i - 1)
         /\ SubSeq(log', 1, n) = log
         /\ ReadAsMeant' => ReadAsMeant
         /\ \A i \in 1..n + 1 : ClearBefore(i)' => ClearBefore(i)
         /\ ClearBefore(Len(log) + 1)' => ClearBefore(n + 1) /\ ~Unclear(e)
<1> DEFINE n == Len(log)
<1>1. /\ n \in Nat /\ IsList(log') /\ Len(log') = n + 1 /\ log'[n + 1] = e
      /\ \A i \in 1..n : log'[i] = log[i]
  BY AppendIs DEF IsList
<1>2. DOMAIN log' = 1..n + 1 /\ DOMAIN log = 1..n
  BY <1>1 DEF IsList
<1>3. \A i \in 1..n : i \in 1..n + 1
  BY <1>1
<1>4. \A i \in 1..n + 1 : SubSeq(log', 1, i - 1) = SubSeq(log, 1, i - 1)
  <2>1. SUFFICES ASSUME NEW i \in 1..n + 1
                 PROVE  SubSeq(log', 1, i - 1) = SubSeq(log, 1, i - 1)
    OBVIOUS
  <2> DEFINE m == i - 1
  <2>2. m \in Nat /\ \A k \in 1..m : k \in 1..n
    BY <1>1
  <2>3. \A k \in 1..m : log'[k] = log[k]
    BY <1>1, <2>2
  <2> HIDE DEF m, n
  <2>4. SubSeq(log', 1, m) = SubSeq(log, 1, m)
    BY <2>2, <2>3, SamePrefix
  <2> QED
    BY <2>4 DEF m
<1>5. SubSeq(log, 1, n) = log
  <2> DEFINE S == {log[k] : k \in 1..n}
  <2>1. log \in Seq(S)
    BY <1>1 DEF IsList
  <2> QED
    BY <2>1, SubSeqFull
<1>6. SubSeq(log', 1, n) = log
  <2>1. n + 1 \in 1..n + 1 /\ n + 1 - 1 = n
    BY <1>1
  <2> QED
    BY <1>4, <1>5, <2>1
<1>7. ReadAsMeant' => ReadAsMeant
  BY <1>1, <1>2, <1>3 DEF ReadAsMeant
<1>8. \A i \in 1..n + 1 : ClearBefore(i)' => ClearBefore(i)
  <2>1. \A i \in 1..n + 1 : \A j \in 1..i - 1 : j \in 1..n
    BY <1>1
  <2> QED
    BY <1>1, <2>1 DEF ClearBefore
<1>9. ClearBefore(Len(log) + 1)' => ClearBefore(n + 1) /\ ~Unclear(e)
  <2>1. Len(log') + 1 - 1 = n + 1 /\ n + 1 \in 1..n + 1
    BY <1>1
  <2>2. \A j \in 1..n + 1 - 1 : j \in 1..n /\ j \in 1..n + 1
    BY <1>1
  <2> QED
    BY <1>1, <2>1, <2>2 DEF ClearBefore
<1> QED
  BY <1>1, <1>2, <1>4, <1>6, <1>7, <1>8, <1>9

\* A process of the innermost list, or a post, has said something.
LEMMA EnvExtended ==
  ASSUME PlaceOK, PlaceOK', ScopesInv, EnvInv, Here' = Here,
         \A k \in 1..Here - 1 : At'[k] = At[k],
         IsList(log), NEW e, log' = Append(log, e),
         Front(e.at) = SubSeq(At, 1, Here - 1),
         NEW u, ReadAsMeant' /\ ~Unclear(e) => u = Meant(e, "env"),
         \A k \in 1..Here : scopes'[k].inputs = scopes[k].inputs,
         \A k \in 1..Here - 1 : scopes'[k].env = scopes[k].env,
         scopes'[Here].env = Layered(<<scopes[Here].env, u>>)
  PROVE  EnvInv'
<1> DEFINE h == Here
           f == [l \in 1..h |-> LayerNow(l)]
           g == [l \in 1..h |-> LayerNow(l)']
<1>1. h \in Nat \ {0} /\ h \in 1..h /\ h - 1 \in Nat /\ h - 1 + 1 = h
  BY DEF PlaceOK
<1>3. ReadAsMeant' /\ ClearBefore(Len(log) + 1)' => ReadAsMeant /\ ClearBefore(Len(log) + 1)
                                                  /\ ~Unclear(e)
  BY LogGrows
<1>4. SUFFICES ASSUME ReadAsMeant', ReadAsMeant, ClearBefore(Len(log) + 1), ~Unclear(e)
               PROVE  \A k \in 1..h : scopes'[k].env = Nested(g, k)
  BY <1>3 DEF EnvInv
<1>5. \A k \in 1..h : scopes[k].env = Nested(f, k)
  BY <1>4 DEF EnvInv
<1>6. \A l \in 1..h : SubSeq(At', 1, l - 1) = SubSeq(At, 1, l - 1)
  BY <1>1, LayersKept
<1>7. ASSUME NEW l \in 1..h - 1 PROVE g[l] = f[l]
  <2>1. l \in 1..h /\ l \in 1..h - 1 /\ l - 1 \in Nat /\ l - 1 # h - 1
    BY <1>1
  <2>2. Front(e.at) # SubSeq(At, 1, l - 1)
    BY <1>1, <2>1, SamePrefix
  <2>3. SaidInList(log', SubSeq(At, 1, l - 1)) = SaidInList(log, SubSeq(At, 1, l - 1))
    BY <2>2, SaidElsewhere
  <2> QED
    BY <1>6, <2>1, <2>3 DEF LayerNow
<1>8. g[h] = Layered(<<f[h], u>>)
  <2> DEFINE list == SubSeq(At, 1, h - 1)
             in == scopes[h].inputs
  <2>1. SaidInList(log', list) = Layered(<<SaidInList(log, list), u>>)
    BY <1>4, SaidOneMore
  <2>2. LayerNow(h)' = Layered(<<in, SaidInList(log', list)>>)
    BY <1>1, <1>6 DEF LayerNow
  <2>3. LayerNow(h) = Layered(<<in, SaidInList(log, list)>>)
    BY <1>1 DEF LayerNow
  <2>4. g[h] = LayerNow(h)' /\ f[h] = LayerNow(h)
    BY <1>1
  <2> HIDE DEF list, in, f, g, h
  <2> QED
    BY <2>1, <2>2, <2>3, <2>4, LayeredAssociative
<1>9. ASSUME NEW k \in 1..h - 1 PROVE scopes'[k].env = Nested(g, k)
  <2>1. k \in 1..h /\ k \in Nat /\ \A l \in 1..k : l \in 1..h - 1
    BY <1>1
  <2>2. Nested(g, k) = Nested(f, k)
    <3> HIDE DEF f, g, h
    <3> QED
      BY <1>7, <2>1, NestedSame
  <2> QED
    BY <1>5, <2>1, <2>2
<1>10. scopes'[h].env = Nested(g, h)
  <2> DEFINE m == h - 1
  <2>1. m \in Nat /\ m + 1 = h
    BY <1>1
  <2>2. scopes[h].env = Nested(f, h)
    BY <1>1, <1>5
  <2>3. scopes'[h].env = Layered(<<scopes[h].env, u>>)
    OBVIOUS
  <2> HIDE DEF f, g, h
  <2>4. Nested(g, m) = Nested(f, m)
    BY <1>7, <2>1, NestedSame
  <2> HIDE DEF m
  <2>5. Nested(f, h) = Layered(<<Nested(f, m), f[h]>>)
    BY <2>1, NestedOneMore
  <2>6. Nested(g, h) = Layered(<<Nested(g, m), g[h]>>)
    BY <2>1, NestedOneMore
  <2> QED
    BY <1>8, <2>2, <2>3, <2>4, <2>5, <2>6, LayeredAssociative
<1>11. \A k \in 1..h : k \in 1..h - 1 \/ k = h
  BY <1>1
<1> QED
  BY <1>9, <1>10, <1>11

-----------------------------------------------------------------------------
(* The actions.                                                            *)

LEMMA LogKept ==
  ASSUME LogInv, log' = log,
         phase' \in {"steps", "exec"} => phase \in {"steps", "exec"},
         \A p \in Seq(Nat) : Passed(p, At) => Passed(p, At')
  PROVE  LogInv'
<1>1. IsList(log') /\ Len(log') = Len(log)
  BY DEF LogInv
<1>2. ASSUME NEW i \in 1..Len(log)
      PROVE  /\ log[i].at \in Seq(Nat) /\ Len(log[i].at) > 0 /\ log[i].post \in BOOLEAN
             /\ log[i].post => Len(log[i].at) = 1
             /\ ~log[i].post => Passed(log[i].at, At')
             /\ phase' \in {"steps", "exec"} => ~log[i].post
  BY DEF LogInv
<1> QED
  BY <1>1, <1>2 DEF LogInv

LEMMA MainsKept ==
  ASSUME MainsInv, log' = log, mains' = mains, pending' = pending,
         \A p \in Seq(Nat) : Passed(p, At) => Passed(p, At')
  PROVE  MainsInv'
<1>1. \A k \in 1..Len(mains), j \in 1..Len(log) : LeftBy(k, j)'
  BY DEF MainsInv, LeftBy, ReadAsMeant
<1> QED
  BY <1>1 DEF MainsInv

LEMMA SaidKept ==
  ASSUME log' = log, ReadAsMeant => EnvInProgramOrder /\ PostSeesItsMain
  PROVE  (ReadAsMeant => EnvInProgramOrder /\ PostSeesItsMain)'
<1>1. ReadAsMeant' <=> ReadAsMeant
  BY DEF ReadAsMeant
<1>2. EnvInProgramOrder' <=> EnvInProgramOrder
  BY DEF EnvInProgramOrder, EnvBefore, ClearBefore
<1>3. PostSeesItsMain' <=> PostSeesItsMain
  BY DEF PostSeesItsMain, EnvBefore, ClearBefore
<1> QED
  BY <1>1, <1>2, <1>3

\* Nothing is said and no list moves on.
LEMMA StillKeepsData ==
  ASSUME DataInv, ProcInv',
         UNCHANGED <<frames, pending, scopes, mains, log>>,
         phase' \in {"steps", "exec"} => phase \in {"steps", "exec"}
  PROVE  DataInv'
<1>1. At' = At /\ Here' = Here
  BY DEF At, Here
<1>2. ScopesInv'
  BY <1>1 DEF DataInv, ScopesInv
<1>3. LogInv' /\ MainsInv'
  BY <1>1, LogKept, MainsKept DEF DataInv
<1>4. EnvInv'
  <2>1. \A k \in 1..Here : LayerNow(k)' = LayerNow(k)
    BY <1>1 DEF LayerNow
  <2>2. ReadAsMeant' <=> ReadAsMeant
    BY DEF ReadAsMeant
  <2>3. ClearBefore(Len(log) + 1)' <=> ClearBefore(Len(log) + 1)
    BY DEF ClearBefore
  <2>4. [l \in 1..Here' |-> LayerNow(l)'] = [l \in 1..Here |-> LayerNow(l)]
    BY <1>1, <2>1
  <2> QED
    BY <1>1, <2>2, <2>3, <2>4 DEF EnvInv, DataInv
<1> QED
  BY <1>2, <1>3, <1>4, SaidKept DEF DataInv

\* A list moves on, and nothing is said.
LEMMA MoveKeepsData ==
  ASSUME IInv, IInv', DataInv, MovesOn(Here'),
         UNCHANGED <<pending, mains, log>>, IsList(scopes'), Len(scopes') = Here',
         \A k \in 1..Here' :
           scopes'[k] = [env |-> scopes[k].env, outputs |-> scopes'[k].outputs,
                         inputs |-> scopes[k].inputs]
  PROVE  DataInv'
<1> DEFINE m == Here'
<1>1. PlaceOK /\ PlaceOK'
  BY PlaceIs, PTL
<1>2. /\ m \in 1..Here /\ m \in Nat /\ m <= Here /\ m \in 1..m /\ 1 \in 1..m
      /\ \A k \in 1..m : k \in 1..Here
  BY <1>1 DEF MovesOn, PlaceOK
<1>3. \A k \in 1..m : scopes'[k].env = scopes[k].env /\ scopes'[k].inputs = scopes[k].inputs
  OBVIOUS
<1>4. ScopesInv'
  BY <1>2, <1>3 DEF DataInv, ScopesInv
<1>5. \A p \in Seq(Nat) : Passed(p, At) => Passed(p, At')
  <2>1. /\ At \in Seq(Nat) /\ At' \in Seq(Nat) /\ Len(At') = m /\ m \in 1..Len(At)
        /\ \A k \in 1..m - 1 : At'[k] = At[k]
        /\ At'[m] = At[m] + 1
    BY <1>1, <1>2 DEF PlaceOK, MovesOn
  <2> HIDE DEF m
  <2> QED
    BY <2>1, PassedOn
<1>6. phase \in {"steps", "exec"} /\ phase' = "steps"
  BY DEF MovesOn
<1>7. LogInv' /\ MainsInv' /\ ProcInv'
  BY <1>5, <1>6, LogKept, MainsKept DEF DataInv, ProcInv
<1>8. EnvInv'
  <2>1. \A l \in 1..m : LayerNow(l)' = LayerNow(l)
    <3>1. \A k \in 1..m - 1 : At'[k] = At[k]
      BY DEF MovesOn
    <3>2. m <= Here'
      BY <1>2
    <3> HIDE DEF m
    <3> QED
      BY <1>1, <1>2, <1>3, <3>1, <3>2, LayersKept
  <2>2. \A k \in 1..m : Nested([l \in 1..Here' |-> LayerNow(l)'], k)
                          = Nested([l \in 1..Here |-> LayerNow(l)], k)
    BY <1>1, <1>2, <2>1, NestedKept
  <2>3. ReadAsMeant' <=> ReadAsMeant
    BY DEF ReadAsMeant
  <2>4. ClearBefore(Len(log) + 1)' <=> ClearBefore(Len(log) + 1)
    BY DEF ClearBefore
  <2> QED
    BY <1>2, <1>3, <2>2, <2>3, <2>4 DEF EnvInv, DataInv
<1> QED
  BY <1>4, <1>7, <1>8, SaidKept DEF DataInv

LEMMA SkipStepDataKeeps ==
  ASSUME IInv, IInv', DataInv, SkipStepData
  PROVE  DataInv'
<1>1. SkipStep /\ UNCHANGED <<proc, mains, outputs, log>>
  BY DEF SkipStepData
<1>2. MovesOn(Here')
  BY <1>1, SkipSettles, SettlingMoves
<1>3. pending' = pending /\ Here' = Here
  <2>1. Len(frames') = Len(frames)
    BY <1>1 DEF SkipStep, Settled
  <2> QED
    BY <1>1, <2>1 DEF SkipStep, Here
<1>4. scopes' = [scopes EXCEPT ![Here].outputs[Current.id] = EmptyMap]
  BY DEF SkipStepData
<1>5. /\ Here \in Nat \ {0} /\ IsList(scopes) /\ Len(scopes) = Here
      /\ \A k \in 1..Here : scopes[k] = [env |-> scopes[k].env, outputs |-> scopes[k].outputs,
                                         inputs |-> scopes[k].inputs]
  BY PlaceIs DEF PlaceOK, DataInv, ScopesInv
<1> DEFINE s == scopes[Here]
           t == [s EXCEPT !.outputs[Current.id] = EmptyMap]
<1>6. scopes' = [scopes EXCEPT ![Here] = t]
  BY <1>4
<1>7. t = [env |-> s.env, outputs |-> t.outputs, inputs |-> s.inputs]
  BY <1>5
<1> HIDE DEF t
<1>8. /\ scopes' = [k \in 1..Here |-> IF k = Here THEN t ELSE scopes[k]]
  BY <1>5, <1>6 DEF IsList
<1>9. IsList(scopes') /\ Len(scopes') = Here'
  BY <1>3, <1>5, <1>8 DEF IsList
<1>10. \A k \in 1..Here' :
         scopes'[k] = [env |-> scopes[k].env, outputs |-> scopes'[k].outputs,
                       inputs |-> scopes[k].inputs]
  BY <1>3, <1>5, <1>7, <1>8
<1> QED
  BY <1>1, <1>2, <1>3, <1>9, <1>10, MoveKeepsData

LEMMA LeaveCompositeDataKeeps ==
  ASSUME IInv, IInv', DataInv, LeaveCompositeData
  PROVE  DataInv'
<1> DEFINE caller == frames[Here - 1].body[frames[Here - 1].next]
<1>1. LeaveComposite /\ UNCHANGED <<proc, mains, outputs, log>>
  BY DEF LeaveCompositeData
<1>2. MovesOn(Here')
  BY <1>1, LeaveSettles, SettlingMoves
<1>3. PICK bridged :
        scopes' = [Front(scopes) EXCEPT ![Here - 1].outputs[caller.id] = bridged]
  BY DEF LeaveCompositeData
<1>4. /\ Here \in Nat \ {0} /\ IsList(scopes) /\ Len(scopes) = Here
      /\ \A k \in 1..Here : scopes[k] = [env |-> scopes[k].env, outputs |-> scopes[k].outputs,
                                         inputs |-> scopes[k].inputs]
  BY PlaceIs DEF PlaceOK, DataInv, ScopesInv
<1>5. Here > 1 /\ pending' = pending
  BY <1>1 DEF LeaveComposite, Here
<1>6. Here' = Here - 1
  <2>1. Len(frames') = Len(Front(frames))
    BY <1>1 DEF LeaveComposite, Settled
  <2>2. IsList(frames)
    BY Depth DEF IInv, IsList
  <2> QED
    BY <1>5, <2>1, <2>2, FrontList DEF Here
<1> DEFINE m == Here - 1
           fs == Front(scopes)
           s == fs[m]
           t == [s EXCEPT !.outputs[caller.id] = bridged]
<1>7. /\ IsList(fs) /\ Len(fs) = m /\ m \in 1..m
      /\ \A k \in 1..m : fs[k] = scopes[k]
  BY <1>4, <1>5, FrontList
<1>8. scopes' = [fs EXCEPT ![m] = t]
  BY <1>3
<1>9. t = [env |-> scopes[m].env, outputs |-> t.outputs, inputs |-> scopes[m].inputs]
  BY <1>4, <1>5, <1>7
<1> HIDE DEF t, fs
<1>10. scopes' = [k \in 1..m |-> IF k = m THEN t ELSE scopes[k]]
  BY <1>7, <1>8 DEF IsList
<1>11. IsList(scopes') /\ Len(scopes') = Here'
  BY <1>4, <1>5, <1>6, <1>10 DEF IsList
<1>12. \A k \in 1..Here' :
         scopes'[k] = [env |-> scopes[k].env, outputs |-> scopes'[k].outputs,
                       inputs |-> scopes[k].inputs]
  BY <1>4, <1>6, <1>9, <1>10
<1> QED
  BY <1>1, <1>2, <1>5, <1>11, <1>12, MoveKeepsData

LEMMA EnterCompositeDataKeeps ==
  ASSUME IInv, IInv', DataInv, EnterCompositeData
  PROVE  DataInv'
<1>0. PICK n \in Nat \ {0} : n = Here
  BY PlaceIs DEF PlaceOK
<1> USE <1>0
<1>1. PlaceOK /\ PlaceOK'
  BY PlaceIs, PTL
<1>2. /\ EnterComposite /\ UNCHANGED <<proc, mains, outputs, log>>
      /\ phase = "steps" /\ phase' = "steps" /\ pending' = pending
  BY DEF EnterCompositeData, EnterComposite, AtStep
<1>3. PICK inputs :
        scopes' = Append(scopes, [env |-> Layered(<<scopes[Here].env, inputs>>),
                                  outputs |-> NoOutputs, inputs |-> inputs])
  BY DEF EnterCompositeData
<1> DEFINE new == [env |-> Layered(<<scopes[Here].env, inputs>>),
                   outputs |-> NoOutputs, inputs |-> inputs]
<1>4. /\ n \in Nat \ {0} /\ IsList(scopes) /\ Len(scopes) = n
      /\ \A k \in 1..n : scopes[k] = [env |-> scopes[k].env, outputs |-> scopes[k].outputs,
                                         inputs |-> scopes[k].inputs]
      /\ scopes[1].inputs = EmptyMap
  BY <1>1 DEF PlaceOK, DataInv, ScopesInv
<1>5. /\ Here' = n + 1 /\ At'[n + 1] = 1
      /\ \A k \in 1..n : At'[k] = At[k]
  <2> DEFINE called == Scope(Action[Current.uses].body)
  <2>1. frames' = Append(frames, called) /\ IsList(frames) /\ Len(frames) = n
    BY <1>2, Depth DEF EnterComposite, IInv, IsList, Here
  <2>2. /\ Len(frames') = n + 1 /\ frames'[n + 1] = called
        /\ \A k \in 1..n : frames'[k] = frames[k]
    BY <2>1, AppendIs
  <2>3. called.next = 1
    BY DEF Scope
  <2>4. n + 1 \in 1..n + 1 /\ \A k \in 1..n : k \in 1..n + 1
    BY <1>4
  <2>5. Here' = n + 1
    BY <2>2 DEF Here
  <2> HIDE DEF called
  <2>6. /\ \A k \in 1..n : At[k] = frames[k].next
        /\ \A k \in 1..n + 1 : At'[k] = frames'[k].next
    BY <1>1, <2>5 DEF PlaceOK
  <2> QED
    BY <2>2, <2>3, <2>4, <2>5, <2>6
<1>6. /\ IsList(scopes') /\ Len(scopes') = n + 1 /\ scopes'[n + 1] = new
      /\ \A k \in 1..n : scopes'[k] = scopes[k]
  BY <1>3, <1>4, AppendIs
<1>7. new.inputs = inputs /\ new.env = Layered(<<scopes[n].env, inputs>>)
  OBVIOUS
<1>8. \A k \in 1..n + 1 : k \in 1..n \/ k = n + 1
  BY <1>4
<1>9. ScopesInv'
  <2>1. new = [env |-> new.env, outputs |-> new.outputs, inputs |-> new.inputs]
    OBVIOUS
  <2>2. 1 \in 1..n
    BY <1>4
  <2> HIDE DEF new
  <2> QED
    BY <1>4, <1>5, <1>6, <1>8, <2>1, <2>2 DEF ScopesInv
<1>10. \A p \in Seq(Nat) : Passed(p, At) => Passed(p, At')
  BY <1>1, <1>5, PassedDeeper DEF PlaceOK
<1>11. LogInv' /\ MainsInv' /\ ProcInv'
  BY <1>2, <1>10, LogKept, MainsKept DEF DataInv, ProcInv
<1> HIDE DEF new
<1>12. \A l \in 1..n : LayerNow(l)' = LayerNow(l)
  <2>1. n \in Nat /\ n <= Here /\ n <= Here'
    BY <1>4, <1>5
  <2>2. \A k \in 1..n - 1 : At'[k] = At[k]
    BY <1>4, <1>5
  <2>3. \A k \in 1..n : scopes'[k].inputs = scopes[k].inputs
    BY <1>6
  <2> QED
    BY <1>1, <1>2, <2>1, <2>2, <2>3, LayersKept
\* Nothing has been said in the new list yet.
<1>13. DOMAIN SaidInList(log, At) = {}
  <2>1. ASSUME NEW j \in 1..Len(log) PROVE Front(log[j].at) # At
    <3>1. /\ log[j].at \in Seq(Nat) /\ Len(log[j].at) > 0 /\ At \in Seq(Nat)
          /\ Passed(log[j].at, At)
      BY <1>1, <1>2 DEF DataInv, LogInv, PlaceOK
    <3> QED
      BY <3>1, PassedOutside
  <2> QED
    BY <2>1, SaidNothing
<1>14. LayerNow(n + 1)' = Layered(<<inputs, SaidInList(log, At)>>)
  <2>1. SubSeq(At', 1, n) = SubSeq(At, 1, n)
    BY <1>4, <1>5, SamePrefix
  <2>2. SubSeq(At, 1, n) = At
    BY <1>1, SubSeqFull DEF PlaceOK
  <2>3. n + 1 - 1 = n
    BY <1>4
  <2>4. scopes'[n + 1].inputs = inputs
    BY <1>6, <1>7
  <2>5. LayerNow(n + 1)' = Layered(<<scopes'[n + 1].inputs,
                                     SaidInList(log', SubSeq(At', 1, n + 1 - 1))>>)
    BY DEF LayerNow
  <2>6. SubSeq(At', 1, n + 1 - 1) = At
    <3> QED
      BY <2>1, <2>2, <2>3
  <2>7. log' = log
    BY <1>2
  <2> QED
    BY <2>4, <2>5, <2>6, <2>7
<1>15. ASSUME ReadAsMeant', ClearBefore(Len(log) + 1)'
       PROVE  \A k \in 1..n + 1 :
                scopes'[k].env = Nested([l \in 1..n + 1 |-> LayerNow(l)'], k)
  <2> DEFINE f == [l \in 1..n |-> LayerNow(l)]
             g == [l \in 1..n + 1 |-> LayerNow(l)']
  <2>1. ReadAsMeant /\ ClearBefore(Len(log) + 1)
    BY <1>2, <1>15 DEF ReadAsMeant, ClearBefore
  <2>2. \A k \in 1..n : scopes[k].env = Nested(f, k)
    BY <2>1 DEF DataInv, EnvInv
  <2>3. \A l \in 1..n : g[l] = f[l]
    <3>1. \A l \in 1..n : l \in 1..n + 1
      BY <1>4
    <3> QED
      BY <1>12, <3>1
  <2>4. g[n + 1] = Layered(<<inputs, SaidInList(log, At)>>)
    <3>1. n + 1 \in 1..n + 1
      BY <1>4
    <3>2. g[n + 1] = LayerNow(n + 1)'
      BY <3>1
    <3> QED
      BY <1>14, <3>2
  <2> HIDE DEF f, g
  <2>5. ASSUME NEW k \in 1..n PROVE scopes'[k].env = Nested(g, k)
    <3>1. k \in Nat /\ \A l \in 1..k : l \in 1..n
      BY <1>4
    <3>2. Nested(g, k) = Nested(f, k)
      BY <2>3, <3>1, NestedSame
    <3> QED
      BY <1>6, <2>2, <3>2
  <2>6. scopes'[n + 1].env = Nested(g, n + 1)
    <3> DEFINE a == Nested(g, n)
               s == SaidInList(log, At)
    <3>1. Nested(g, n + 1) = Layered(<<a, g[n + 1]>>)
      BY <1>4, NestedOneMore
    <3>2. n \in 1..n
      BY <1>4
    <3>3. a = scopes[n].env
      BY <1>6, <2>5, <3>2
    <3> HIDE DEF a, s
    <3>4. Layered(<<a, Layered(<<inputs, s>>)>>) = Layered(<<Layered(<<a, inputs>>), s>>)
      BY LayeredAssociative
    <3>5. Layered(<<Layered(<<a, inputs>>), s>>) = Layered(<<a, inputs>>)
      BY <1>13, LayeredNothing, Zenon DEF s
    <3>6. scopes'[n + 1].env = Layered(<<a, inputs>>)
      BY <1>6, <1>7, <3>3 
    <3> QED
      BY <2>4, <3>1, <3>4, <3>5, <3>6 DEF s
  <2> QED
    BY <1>8, <2>5, <2>6 DEF g
<1>16. EnvInv'
  BY <1>5, <1>15 DEF EnvInv
<1> QED
  BY <1>2, <1>9, <1>11, <1>16, SaidKept DEF DataInv

-----------------------------------------------------------------------------
(* A process ends.                                                         *)

\* What the runner reads of a clear process is what it said.
LEMMA ReadIsMeant ==
  ASSUME IsList(log), NEW succeeds, NEW e \in Endings(succeeds), NEW isPost, NEW inputs,
         log' = Append(log, Entry(e, isPost, inputs)),
         ReadAsMeant', ~Unclear(Entry(e, isPost, inputs)),
         NEW file \in {"env", "output", "state"}
  PROVE  File(e, file) = Meant(Entry(e, isPost, inputs), file)
<1> DEFINE entry == Entry(e, isPost, inputs)
           n == Len(log)
<1>1. entry.said = SaidBy(e) /\ entry.cut = e.cut
  BY DEF Entry
<1>2. e.cut = 0
  <2>1. e.cut \in 0..2
    BY DEF Endings
  <2>2. ~(entry.cut > 0)
    BY DEF Unclear
  <2> QED
    BY <1>1, <2>1, <2>2
<1>3. FileLines(SaidBy(e), IF e.cut > 0 THEN proc.says[e.n + 1] ELSE None, e.cut, file)
        = FileLines(entry.said, None, 0, file)
  BY <1>1, <1>2
<1>4. n \in Nat /\ log'[n + 1] = entry /\ DOMAIN log' = 1..n + 1
  BY LogGrows
<1> HIDE DEF entry, n
<1>5. n + 1 \in DOMAIN log'
  BY <1>4
<1>6. ParseKeyValueFile(FileLines(entry.said, None, 0, file)) = Meant(entry, file)
  BY <1>4, <1>5 DEF ReadAsMeant, entry
<1> QED
  BY <1>3, <1>6 DEF File, entry

\* The properties of the environments, when the new process has its own right.
LEMMA SaidGrows ==
  ASSUME IsList(log), NEW e, log' = Append(log, e), ReadAsMeant',
         ReadAsMeant => EnvInProgramOrder /\ PostSeesItsMain,
         ~e.post => \A i \in 1..Len(log) : ~log[i].post,
         ReadAsMeant /\ ClearBefore(Len(log) + 1) /\ ~e.post =>
           e.env = Layered(<<EnvOf(e.at, e.inputs, log), e.own>>),
         \A j \in 1..Len(log) :
           ReadAsMeant /\ ClearBefore(Len(log) + 1) /\ e.post /\ ~log[j].post
             /\ log[j].at = e.at =>
             e.env = Layered(<<EnvOf(e.at, e.inputs, log), log[j].plan,
                               StateEnv(Meant(log[j], "state")), GitHubEnv>>)
  PROVE  EnvInProgramOrder' /\ PostSeesItsMain'
<1>0. PICK n \in Nat : n = Len(log)
  BY DEF IsList
<1>1. /\ n \in Nat /\ log'[n + 1] = e /\ ReadAsMeant
      /\ DOMAIN log' = 1..n + 1 /\ DOMAIN log = 1..n
      /\ \A i \in 1..n : log'[i] = log[i]
      /\ \A i \in 1..n + 1 : SubSeq(log', 1, i - 1) = SubSeq(log, 1, i - 1)
      /\ SubSeq(log', 1, n) = log
      /\ \A i \in 1..n + 1 : ClearBefore(i)' => ClearBefore(i)
  BY <1>0, LogGrows
<1>2. /\ n + 1 - 1 = n
      /\ n + 1 \in 1..n + 1
      /\ \A i \in 1..n : i \in 1..n + 1
      /\ \A i \in 1..n + 1 : i \in 1..n \/ i = n + 1
  BY <1>1
<1>3. EnvInProgramOrder /\ PostSeesItsMain
  BY <1>1
<1>4. \A i \in 1..n : EnvBefore(i)' = EnvBefore(i)
  BY <1>1, <1>2 DEF EnvBefore
<1>5. \A i \in 1..n + 1 : i = n + 1 => EnvBefore(i)' = EnvOf(e.at, e.inputs, log)
  <2>1. SUFFICES ASSUME NEW i \in 1..n + 1, i = n + 1
                 PROVE  EnvBefore(i)' = EnvOf(e.at, e.inputs, log)
    OBVIOUS
  <2>2. log'[i] = e /\ SubSeq(log', 1, i - 1) = log
    <3>1. i - 1 = n
      BY <2>1
    <3> QED
      BY <1>1, <2>1, <3>1
  <2>3. EnvBefore(i)' = EnvOf(log'[i].at, log'[i].inputs, SubSeq(log', 1, i - 1))
    BY EnvBeforeIs, Zenon
  <2> QED
    BY <2>2, <2>3
<1>6. EnvInProgramOrder'
  <2>1. SUFFICES ASSUME NEW i \in 1..n + 1, ~log'[i].post, ClearBefore(i)'
                 PROVE  log'[i].env = Layered(<<EnvBefore(i)', log'[i].own>>)
    BY <1>1 DEF EnvInProgramOrder
  <2>2. ClearBefore(i)
    BY <1>1, <2>1
  <2>3. CASE i \in 1..n
    BY <1>1, <1>3, <1>4, <2>1, <2>2, <2>3 DEF EnvInProgramOrder
  <2>4. CASE i = n + 1
    BY <1>1, <1>5, <2>1, <2>2, <1>0, <2>4
  <2>5. i \in 1..n \/ i = n + 1
    BY <1>2
  <2> QED
    BY <2>3, <2>4, <2>5, Zenon
<1>7. PostSeesItsMain'
  <2>1. SUFFICES ASSUME NEW i \in 1..n + 1, NEW j \in 1..n + 1, log'[i].post, ~log'[j].post,
                        log'[j].at = log'[i].at, ClearBefore(i)'
                 PROVE  log'[i].env = Layered(<<EnvBefore(i)', log'[j].plan,
                                   StateEnv(Meant(log'[j], "state")), GitHubEnv>>)
    BY <1>1 DEF PostSeesItsMain
  <2>2. ClearBefore(i)
    BY <1>1, <2>1
  <2>3. CASE i \in 1..n /\ j \in 1..n
    BY <1>1, <1>3, <1>4, <2>1, <2>2, <2>3 DEF PostSeesItsMain
  <2>4. CASE i = n + 1 /\ j \in 1..n
    BY <1>1, <1>5, <2>1, <2>2, <1>0, <2>4
  <2>5. CASE i \in 1..n /\ j = n + 1
    BY <1>1, <2>1, <1>0, <2>5
  <2>6. CASE i = n + 1 /\ j = n + 1
    BY <1>1, <2>1, <2>6
  <2>7. (i \in 1..n \/ i = n + 1) /\ (j \in 1..n \/ j = n + 1)
    BY <1>2
  <2> QED
    BY <2>3, <2>4, <2>5, <2>6, <2>7, Zenon
<1> QED
  BY <1>6, <1>7

\* The env of the scope is that of the program order.
LEMMA EnvHere ==
  ASSUME PlaceOK, EnvInv, ReadAsMeant, ClearBefore(Len(log) + 1), NEW inputs,
         \A k \in 1..Here : inputs[k] = scopes[k].inputs
  PROVE  EnvOf(At, inputs, log) = scopes[Here].env
<1>1. PICK n \in Nat \ {0} : n = Here
  BY DEF PlaceOK
<1>2. Len(At) = n
  BY <1>1 DEF PlaceOK
<1> DEFINE f == [l \in 1..n |-> LayerNow(l)]
           g == [k \in 1..n |-> Layered(<<inputs[k], SaidInList(log, SubSeq(At, 1, k - 1))>>)]
<1>3. \A k \in 1..n : g[k] = f[k]
  <2>1. \A k \in 1..n : inputs[k] = scopes[k].inputs
    BY <1>1
  <2> QED
    BY <2>1 DEF LayerNow
<1>4. scopes[n].env = Nested(f, n)
  <2>1. n \in 1..Here
    BY <1>1
  <2> QED
    BY <1>1, <2>1 DEF EnvInv
<1>5. EnvOf(At, inputs, log) = Nested(g, n)
  BY <1>2 DEF EnvOf
<1> HIDE DEF f, g
<1>6. Nested(f, n) = Nested(g, n)
  BY <1>3, NestedSame
<1> QED
  BY <1>1, <1>4, <1>5, <1>6

\* The log of a step's process, which has been running where the job is.
LEMMA LogMoves ==
  ASSUME IInv, IInv', LogInv, MovesOn(Here'), Here' = Here, phase = "exec",
         NEW e, log' = Append(log, e), e.at = At, ~e.post, e.post \in BOOLEAN
  PROVE  /\ LogInv' /\ Passed(At, At')
         /\ \A p \in Seq(Nat) : Passed(p, At) => Passed(p, At')
         /\ \A j \in 1..Len(log) : ~log[j].post /\ log[j].at # At
<1>1. PlaceOK /\ PlaceOK'
  BY PlaceIs, PTL
<1>2. /\ At \in Seq(Nat) /\ At' \in Seq(Nat) /\ Len(At) = Here /\ Len(At') = Here
      /\ Here \in 1..Len(At) /\ At'[Here] = At[Here] + 1 /\ Here > 0
      /\ \A k \in 1..Here - 1 : At'[k] = At[k]
  BY <1>1 DEF PlaceOK, MovesOn
<1>3. Passed(At, At')
  BY <1>2, PassedHere
<1>4. \A p \in Seq(Nat) : Passed(p, At) => Passed(p, At')
  <2>1. SUFFICES ASSUME NEW p \in Seq(Nat), Passed(p, At) PROVE Passed(p, At')
    OBVIOUS
  <2>2. PICK m \in 1..Len(At) : m = Here
    BY <1>2
  <2>3. Len(At') = m /\ At'[m] = At[m] + 1 /\ \A k \in 1..m - 1 : At'[k] = At[k]
    BY <1>2, <2>2
  <2> QED
    BY <1>2, <2>1, <2>3, PassedOn
<1>5. ASSUME NEW j \in 1..Len(log)
      PROVE  /\ log[j].at \in Seq(Nat) /\ Len(log[j].at) > 0 /\ log[j].post \in BOOLEAN
             /\ ~log[j].post /\ Passed(log[j].at, At) /\ log[j].at # At
  <2>1. /\ log[j].at \in Seq(Nat) /\ Len(log[j].at) > 0 /\ log[j].post \in BOOLEAN
        /\ ~log[j].post /\ Passed(log[j].at, At)
    BY DEF LogInv
  <2> QED
    BY <1>2, <2>1, PassedOutside
<1>6. LogInv'
  <2>1. PICK n \in Nat : n = Len(log)
    BY DEF LogInv, IsList
  <2>2. /\ IsList(log') /\ Len(log') = n + 1 /\ log'[n + 1] = e
        /\ \A i \in 1..n : log'[i] = log[i]
    BY <2>1, LogGrows DEF LogInv
  <2>3. ASSUME NEW i \in 1..n + 1
        PROVE  /\ log'[i].at \in Seq(Nat) /\ Len(log'[i].at) > 0 /\ log'[i].post \in BOOLEAN
               /\ ~log'[i].post /\ Passed(log'[i].at, At')
    <3>1. CASE i \in 1..n
      BY <1>4, <1>5, <2>1, <2>2, <3>1
    <3>2. CASE i = n + 1
      BY <1>2, <1>3, <2>2, <3>2
    <3>3. i \in 1..n \/ i = n + 1
      OBVIOUS
    <3> QED
      BY <3>1, <3>2, <3>3, Zenon
  <2> QED
    BY <2>2, <2>3 DEF LogInv
<1> QED
  BY <1>3, <1>4, <1>5, <1>6

\* The posts that were pending, and the one of the step whose process ended.
LEMMA MainsGrow ==
  ASSUME MainsInv, IsList(log), NEW e, log' = Append(log, e), e.at = At, At \in Seq(Nat),
         Passed(At, At'), \A p \in Seq(Nat) : Passed(p, At) => Passed(p, At'),
         \A j \in 1..Len(log) : log[j].at # At,
         IsList(pending), NEW collects \in BOOLEAN, collects => Len(At) = 1,
         NEW p, pending' = IF collects THEN Append(pending, p) ELSE pending,
         NEW state, mains' = IF collects
                             THEN Append(mains, [at |-> At, plan |-> e.plan, state |-> state])
                             ELSE mains,
         ReadAsMeant' /\ ~Unclear(e) => state = Meant(e, "state")
  PROVE  MainsInv'
<1>1. PICK n \in Nat, m \in Nat : n = Len(log) /\ m = Len(mains)
  BY DEF IsList, MainsInv
<1>2. /\ Len(log') = n + 1 /\ log'[n + 1] = e /\ (ReadAsMeant' => ReadAsMeant)
      /\ \A i \in 1..n : log'[i] = log[i]
  BY <1>1, LogGrows
<1>3. ASSUME NEW k \in 1..m, mains'[k] = mains[k]
      PROVE  /\ mains'[k].at \in Seq(Nat) /\ Len(mains'[k].at) = 1
             /\ Passed(mains'[k].at, At')
             /\ \A j \in 1..n + 1 : LeftBy(k, j)'
  <2>1. /\ mains[k].at \in Seq(Nat) /\ Len(mains[k].at) = 1 /\ Passed(mains[k].at, At)
        /\ \A j \in 1..n : LeftBy(k, j)
    BY <1>1 DEF MainsInv
  <2>2. mains[k].at # At
    <3>1. Len(mains[k].at) > 0
      BY <2>1
    <3> QED
      BY <2>1, <3>1, PassedOutside, Zenon
  <2>3. ASSUME NEW j \in 1..n + 1 PROVE LeftBy(k, j)'
    <3>1. CASE j \in 1..n
      <4>1. LeftBy(k, j)
        BY <2>1, <3>1
      <4> QED
        BY <1>2, <1>3, <3>1, <4>1 DEF LeftBy
    <3>2. CASE j = n + 1
      BY <1>2, <1>3, <2>2, <3>2 DEF LeftBy
    <3>3. j \in 1..n \/ j = n + 1
      OBVIOUS
    <3> QED
      BY <3>1, <3>2, <3>3, Zenon
  <2> QED
    BY <1>3, <2>1, <2>3
<1>4. CASE ~collects
  <2>1. mains' = mains /\ pending' = pending
    BY <1>4
  <2> QED
    BY <1>1, <1>2, <1>3, <2>1 DEF MainsInv
<1>5. CASE collects
  <2> DEFINE new == [at |-> At, plan |-> e.plan, state |-> state]
  <2>1. mains' = Append(mains, new) /\ pending' = Append(pending, p) /\ Len(At) = 1
    BY <1>5
  <2>2. /\ IsList(mains') /\ Len(mains') = m + 1 /\ mains'[m + 1] = new
        /\ \A k \in 1..m : mains'[k] = mains[k]
    BY <1>1, <2>1, AppendIs DEF MainsInv
  <2>3. Len(pending') = m + 1
    BY <1>1, <2>1, AppendIs DEF MainsInv
  <2>4. new.at = At /\ new.plan = e.plan /\ new.state = state
    OBVIOUS
  <2> HIDE DEF new
  <2>5. ASSUME NEW k \in 1..m + 1, NEW j \in 1..n + 1, k = m + 1 PROVE LeftBy(k, j)'
    <3>1. CASE j \in 1..n
      BY <1>1, <1>2, <2>2, <2>4, <2>5, <3>1 DEF LeftBy
    <3>2. CASE j = n + 1
      BY <1>2, <2>2, <2>4, <2>5, <3>2 DEF LeftBy
    <3>3. j \in 1..n \/ j = n + 1
      OBVIOUS
    <3> QED
      BY <3>1, <3>2, <3>3, Zenon
  <2>6. ASSUME NEW k \in 1..m + 1
        PROVE  /\ mains'[k].at \in Seq(Nat) /\ Len(mains'[k].at) = 1
               /\ Passed(mains'[k].at, At')
               /\ \A j \in 1..n + 1 : LeftBy(k, j)'
    <3>1. CASE k \in 1..m
      BY <1>3, <2>2, <3>1
    <3>2. CASE k = m + 1
      BY <2>1, <2>2, <2>4, <2>5, <3>2
    <3>3. k \in 1..m \/ k = m + 1
      OBVIOUS
    <3> QED
      BY <3>1, <3>2, <3>3, Zenon
  <2> QED
    BY <1>2, <2>2, <2>3, <2>6 DEF MainsInv
<1> QED
  BY <1>4, <1>5

LEMMA StepExitsDataKeeps ==
  ASSUME IInv, IInv', DataInv, StepExitsData
  PROVE  DataInv'
<1> DEFINE ins == [k \in 1..Here |-> scopes[k].inputs]
<1>1. StepExits /\ phase = "exec" /\ phase' = "steps"
  BY DEF StepExitsData, StepExits
<1>2. PICK e \in Endings(frames'[Here].outcome[Current.id] = "success") :
       /\ LET out == FileWins(File(e, "output"), ParseLegacyOutputs(ToStdout(SaidBy(e)))) IN
          scopes' = [scopes EXCEPT ![Here] =
            [env |-> Layered(<<@.env, File(e, "env")>>),
             outputs |-> [@.outputs EXCEPT ![Current.id] = out], inputs |-> @.inputs]]
       /\ mains' = IF CollectsPost
                   THEN Append(mains, [at |-> At, plan |-> proc.plan, state |-> File(e, "state")])
                   ELSE mains
       /\ log' = Append(log, Entry(e, FALSE, ins))
  BY Zenon DEF StepExitsData
<1> DEFINE entry == Entry(e, FALSE, ins)
<1>3. PlaceOK /\ PlaceOK'
  BY PlaceIs, PTL
<1>4. MovesOn(Here')
  BY <1>1, ExitSettles, SettlingMoves
<1>5. Here' = Here
  <2>1. Len(frames') = Len(frames)
    BY <1>1 DEF StepExits, Settled
  <2> QED
    BY <2>1 DEF Here
<1>6. /\ entry.at = At /\ entry.post = FALSE /\ entry.inputs = ins
      /\ entry.env = proc.env /\ entry.own = proc.own /\ entry.plan = proc.plan
      /\ proc.env = Layered(<<scopes[Here].env, proc.own>>)
  BY <1>1 DEF Entry, DataInv, ProcInv
<1>7. /\ IsList(log) /\ log' = Append(log, entry)
      /\ ReadAsMeant' /\ ~Unclear(entry) =>
           /\ File(e, "env") = Meant(entry, "env")
           /\ File(e, "state") = Meant(entry, "state")
  BY <1>2, ReadIsMeant DEF DataInv, LogInv
<1> HIDE DEF entry
<1>8. /\ LogInv' /\ Passed(At, At')
      /\ \A p \in Seq(Nat) : Passed(p, At) => Passed(p, At')
      /\ \A j \in 1..Len(log) : ~log[j].post /\ log[j].at # At
  BY <1>1, <1>4, <1>5, <1>6, <1>7, LogMoves DEF DataInv
<1>9. ProcInv'
  BY <1>1 DEF ProcInv
<1>10. MainsInv'
  <2>1. pending' = IF CollectsPost
                   THEN Append(pending, [id |-> Current.id, uses |-> Current.uses])
                   ELSE pending
    BY <1>1 DEF StepExits
  <2>2. IsList(pending) /\ CollectsPost \in BOOLEAN /\ (CollectsPost => Len(At) = 1)
    BY <1>3 DEF IsList, IInv, TypeOK, CollectsPost, HasPost, PlaceOK, Here
  <2>3. mains' = IF CollectsPost
                 THEN Append(mains, [at |-> At, plan |-> entry.plan, state |-> File(e, "state")])
                 ELSE mains
    BY <1>2, <1>6
  <2>4. At \in Seq(Nat) /\ MainsInv
    BY <1>3 DEF PlaceOK, DataInv
  <2> QED
    BY <1>6, <1>7, <1>8, <2>1, <2>2, <2>3, <2>4, MainsGrow
\* The scope's env is that from before with what the process said to it.
<1> DEFINE u == File(e, "env")
           v == FileWins(File(e, "output"), ParseLegacyOutputs(ToStdout(SaidBy(e))))
           s == scopes[Here]
           w == scopes'[Here].outputs
<1>11. /\ Here \in Nat \ {0} /\ IsList(scopes) /\ Len(scopes) = Here
       /\ \A k \in 1..Here : scopes[k] = [env |-> scopes[k].env, outputs |-> scopes[k].outputs,
                                          inputs |-> scopes[k].inputs]
       /\ scopes[1].inputs = EmptyMap
  BY <1>3 DEF PlaceOK, DataInv, ScopesInv
<1>12. /\ IsList(scopes') /\ Len(scopes') = Here
       /\ \A k \in 1..Here : k # Here => scopes'[k] = scopes[k]
       /\ scopes'[Here] = [env |-> Layered(<<s.env, u>>), outputs |-> w, inputs |-> s.inputs]
  <2> DEFINE t == [env |-> Layered(<<s.env, u>>),
                   outputs |-> [s.outputs EXCEPT ![Current.id] = v], inputs |-> s.inputs]
  <2>1. scopes' = [scopes EXCEPT ![Here] = t]
    BY <1>2, Zenon
  <2> DEFINE x == Layered(<<s.env, u>>)
  <2>2. t = [env |-> x, outputs |-> t.outputs, inputs |-> s.inputs]
    OBVIOUS
  <2> HIDE DEF t, x
  <2>3. scopes' = [k \in 1..Here |-> IF k = Here THEN t ELSE scopes[k]]
    BY <1>11, <2>1 DEF IsList
  <2>4. IsList(scopes') /\ Len(scopes') = Here
    BY <1>11, <2>3 DEF IsList
  <2> QED
    BY <1>11, <2>2, <2>3, <2>4 DEF x
<1> HIDE DEF u, w
<1>13. /\ scopes'[Here].env = Layered(<<s.env, u>>)
       /\ \A k \in 1..Here :
            /\ scopes'[k] = [env |-> scopes'[k].env, outputs |-> scopes'[k].outputs,
                             inputs |-> scopes'[k].inputs]
            /\ scopes'[k].inputs = scopes[k].inputs
            /\ k # Here => scopes'[k].env = scopes[k].env
  BY <1>11, <1>12
<1>14. ScopesInv'
  BY <1>5, <1>11, <1>12, <1>13 DEF ScopesInv
<1>15. EnvInv'
  <2>1. ReadAsMeant' /\ ~Unclear(entry) => u = Meant(entry, "env")
    BY <1>7 DEF u
  <2>2. Front(entry.at) = SubSeq(At, 1, Here - 1)
    BY <1>3, <1>6 DEF Front, PlaceOK
  <2>3. \A k \in 1..Here - 1 : scopes'[k].env = scopes[k].env /\ At'[k] = At[k]
    <3>1. \A k \in 1..Here - 1 : At'[k] = At[k]
      BY <1>4, <1>5 DEF MovesOn
    <3>2. \A k \in 1..Here - 1 : k \in 1..Here /\ k # Here
      BY <1>11
    <3> QED
      BY <1>13, <3>1, <3>2
  <2> HIDE DEF s
  <2>4. /\ ScopesInv /\ EnvInv /\ \A k \in 1..Here : scopes'[k].inputs = scopes[k].inputs
        /\ scopes'[Here].env = Layered(<<scopes[Here].env, u>>)
    BY <1>13 DEF DataInv, s
  <2> QED
    BY <1>3, <1>5, <1>7, <2>1, <2>2, <2>3, <2>4, EnvExtended
<1>16. ASSUME ReadAsMeant' PROVE EnvInProgramOrder' /\ PostSeesItsMain'
  <2>1. \A k \in 1..Here : ins[k] = scopes[k].inputs
    OBVIOUS
  <2> HIDE DEF ins
  <2>2. ReadAsMeant /\ ClearBefore(Len(log) + 1) => EnvOf(At, ins, log) = scopes[Here].env
    BY <1>3, <2>1, EnvHere DEF DataInv
  <2>3. ReadAsMeant /\ ClearBefore(Len(log) + 1) /\ ~entry.post =>
           entry.env = Layered(<<EnvOf(entry.at, entry.inputs, log), entry.own>>)
    BY <1>6, <2>2
  <2>4. ReadAsMeant => EnvInProgramOrder /\ PostSeesItsMain
    BY DEF DataInv
  <2>5. \A i \in 1..Len(log) : ~log[i].post
    BY <1>8
  <2>6. ~entry.post
    BY <1>6
  <2>7. \A j \in 1..Len(log) :
           ReadAsMeant /\ ClearBefore(Len(log) + 1) /\ entry.post /\ ~log[j].post
             /\ log[j].at = entry.at =>
             entry.env = Layered(<<EnvOf(entry.at, entry.inputs, log), log[j].plan,
                                   StateEnv(Meant(log[j], "state")), GitHubEnv>>)
    BY <2>6
  <2>8. IsList(log) /\ log' = Append(log, entry)
    BY <1>7
  <2> QED
    BY <1>16, <2>3, <2>4, <2>5, <2>7, <2>8, SaidGrows, Zenon
<1> QED
  BY <1>8, <1>9, <1>10, <1>14, <1>15, <1>16 DEF DataInv

LEMMA StartStepDataKeeps ==
  ASSUME DataInv, StartStepData
  PROVE  DataInv'
<1>1. /\ phase = "steps" /\ phase' = "exec"
      /\ UNCHANGED <<frames, pending, scopes, mains, log>>
  BY DEF StartStepData, StartStep, AtStep
<1>2. \E own : /\ proc'.at = At /\ proc'.own = own
               /\ proc'.env = Layered(<<scopes[Here].env, own>>)
  <2>1. PICK with \in Substituted(Current.with, Ctx(Here)) :
          LET own == OwnEnv(Current, with)
              env == Layered(<<scopes[Here].env, own>>)
          IN  \E texts \in Texts(ScriptOf(Current), Ctx(Here), env) :
                proc' = [at |-> At, env |-> env, own |-> own,
                         plan |-> PlanEnv(Current, with),
                         says |-> Said(ScriptOf(Current), texts)]
    BY Zenon DEF StartStepData
  <2> DEFINE own == OwnEnv(Current, with)
             env == Layered(<<scopes[Here].env, own>>)
  <2>2. \E plan, says : proc' = [at |-> At, env |-> env, own |-> own,
                                 plan |-> plan, says |-> says]
    BY <2>1, Zenon
  <2> HIDE DEF own
  <2> QED
    BY <2>2
<1>3. At' = At /\ Here' = Here
  BY <1>1 DEF At, Here
<1>4. ProcInv'
  BY <1>1, <1>2, <1>3 DEF ProcInv
<1> QED
  BY <1>1, <1>4, StillKeepsData

LEMMA StartPostDataKeeps ==
  ASSUME DataInv, StartPostData
  PROVE  DataInv'
<1>1. /\ phase = "posts" /\ phase' = "postExec" /\ post' = post
      /\ UNCHANGED <<frames, pending, scopes, mains, log>>
  BY DEF StartPostData, StartPost
<1>2. proc'.at = mains[post].at /\ proc'.env = PostEnv(mains[post])
  <2> DEFINE env == PostEnv(mains[post])
             script == Action[pending[post].uses].postScript
  <2>1. PICK texts \in Texts(script, Ctx(1), env) :
          proc' = [at |-> mains[post].at, env |-> env, own |-> EmptyMap,
                   plan |-> mains[post].plan, says |-> Said(script, texts)]
    BY Zenon DEF StartPostData
  <2> HIDE DEF env, script
  <2> QED
    BY <2>1 DEF env
<1>3. PostEnv(mains[post])' = PostEnv(mains[post])
  BY <1>1 DEF PostEnv
<1>4. ProcInv'
  BY <1>1, <1>2, <1>3 DEF ProcInv
<1> QED
  BY <1>1, <1>4, StillKeepsData

\* The steps end, a post is not wanted, or the job returns.
LEMMA RestKeepsData ==
  ASSUME DataInv, \/ JobFinishedData \/ EvaluationErrors \/ KeepsData
                  \/ UNCHANGED <<vars, dataVars>>
  PROVE  DataInv'
<1>1. CASE UNCHANGED <<vars, dataVars>>
  <2>1. UNCHANGED <<frames, phase, post, pending, scopes, proc, mains, log>>
    BY <1>1 DEF vars, dataVars
  <2>2. At' = At /\ Here' = Here
    BY <2>1 DEF At, Here
  <2>3. ProcInv'
    BY <2>1, <2>2 DEF DataInv, ProcInv, PostEnv
  <2> QED
    BY <2>1, <2>3, StillKeepsData
<1>2. CASE JobFinishedData \/ EvaluationErrors \/ KeepsData
  <2>1. UNCHANGED <<frames, pending, scopes, mains, log>>
    BY <1>2 DEF JobFinishedData, EvaluationErrors, KeepsData, JobFinished, Errors,
                StepsFinished, SkipPost, NestingTooDeep, Returned, vars, dataVars
  <2>2. phase' \in {"posts", "done"}
    BY <1>2 DEF JobFinishedData, EvaluationErrors, KeepsData, JobFinished, Errors,
                StepsFinished, SkipPost, NestingTooDeep, Returned, vars
  <2>3. ProcInv'
    BY <2>2 DEF ProcInv
  <2> QED
    BY <2>1, <2>2, <2>3, StillKeepsData
<1> QED
  BY <1>1, <1>2

\* A place in the job's own list.
LEMMA OwnPlace ==
  ASSUME NEW p, Len(p) = 1, NEW q, Len(q) = 1, NEW inputs, NEW past
  PROVE  /\ SubSeq(p, 1, 0) = SubSeq(q, 1, 0)
         /\ EnvOf(p, inputs, past) = EnvOf(q, inputs, past)
<1>1. SubSeq(p, 1, 0) = SubSeq(q, 1, 0)
  BY SamePrefix
<1> DEFINE f == [k \in 1..1 |-> Layered(<<inputs[k], SaidInList(past, SubSeq(p, 1, k - 1))>>)]
           g == [k \in 1..1 |-> Layered(<<inputs[k], SaidInList(past, SubSeq(q, 1, k - 1))>>)]
<1>2. EnvOf(p, inputs, past) = Nested(f, 1) /\ EnvOf(q, inputs, past) = Nested(g, 1)
  BY DEF EnvOf
<1>3. \A k \in 1..1 : f[k] = g[k]
  <2>1. \A k \in 1..1 : k - 1 = 0
    OBVIOUS
  <2> QED
    BY <1>1, <2>1
<1> HIDE DEF f, g
<1>4. Nested(f, 1) = Nested(g, 1)
  BY <1>3, NestedSame
<1> QED
  BY <1>1, <1>2, <1>4

LEMMA PostExitsDataKeeps ==
  ASSUME IInv, IInv', DataInv, PostExitsData
  PROVE  DataInv'
<1>1. /\ phase = "postExec" /\ phase' = "posts"
      /\ UNCHANGED <<frames, pending, mains>>
  BY DEF PostExitsData, PostExits
<1>2. PICK e \in Endings(reports'[Len(reports')].conclusion = "success") :
       /\ scopes' = [scopes EXCEPT ![1].env = Layered(<<@, File(e, "env")>>)]
       /\ log' = Append(log, Entry(e, TRUE, <<EmptyMap>>))
  BY Zenon DEF PostExitsData
<1> DEFINE entry == Entry(e, TRUE, <<EmptyMap>>)
           main == mains[post]
           s == scopes[1]
<1>3. PlaceOK /\ PlaceOK' /\ At' = At /\ Here' = Here /\ Here = 1 /\ Len(At) = 1
  <2>1. Here = 1
    BY <1>1 DEF IInv, FramesInv, Here
  <2>2. PlaceOK /\ PlaceOK'
    BY PlaceIs, PTL
  <2>3. At' = At /\ Here' = Here
    BY <1>1 DEF At, Here
  <2> QED
    BY <2>1, <2>2, <2>3 DEF PlaceOK
<1>4. /\ post \in 1..Len(mains) /\ main.at \in Seq(Nat) /\ Len(main.at) = 1
      /\ IsList(log) /\ \A j \in 1..Len(log) : LeftBy(post, j)
  <2>1. post \in 1..Len(mains)
    BY <1>1 DEF IInv, TypeOK, FramesInv, DataInv, MainsInv
  <2> QED
    BY <2>1 DEF DataInv, MainsInv, LogInv
<1>5. /\ entry.at = main.at /\ entry.post = TRUE /\ entry.inputs = <<EmptyMap>>
      /\ entry.env = Layered(<<s.env, main.plan, StateEnv(main.state), GitHubEnv>>)
  BY <1>1 DEF Entry, DataInv, ProcInv, PostEnv
<1>6. /\ log' = Append(log, entry)
      /\ ReadAsMeant' /\ ~Unclear(entry) => File(e, "env") = Meant(entry, "env")
  BY <1>2, <1>4, ReadIsMeant
<1> DEFINE u == File(e, "env")
<1>7. /\ IsList(scopes) /\ Len(scopes) = 1
      /\ s = [env |-> s.env, outputs |-> s.outputs, inputs |-> s.inputs]
      /\ s.inputs = EmptyMap
  BY <1>3 DEF DataInv, ScopesInv
<1>8. scopes' = [scopes EXCEPT ![1].env = Layered(<<s.env, u>>)]
  BY <1>2, Zenon
<1> HIDE DEF entry, u
<1>9. /\ IsList(scopes') /\ Len(scopes') = 1
      /\ scopes'[1] = [env |-> Layered(<<s.env, u>>), outputs |-> s.outputs,
                       inputs |-> s.inputs]
  <2> DEFINE t == [s EXCEPT !.env = Layered(<<s.env, u>>)]
  <2>1. t = [env |-> Layered(<<s.env, u>>), outputs |-> s.outputs, inputs |-> s.inputs]
    BY <1>7
  <2>2. scopes' = [scopes EXCEPT ![1] = t]
    BY <1>8
  <2> HIDE DEF t
  <2>3. scopes' = [k \in 1..1 |-> IF k = 1 THEN t ELSE scopes[k]]
    <3>1. DOMAIN scopes = 1..1
      BY <1>7 DEF IsList
    <3> QED
      BY <2>2, <3>1
  <2>4. IsList(scopes') /\ Len(scopes') = 1
    BY <2>3 DEF IsList
  <2> QED
    BY <2>1, <2>3, <2>4
<1>10. ScopesInv'
  BY <1>3, <1>7, <1>9 DEF ScopesInv
<1>11. EnvInv'
  <2>1. Front(entry.at) = SubSeq(At, 1, Here - 1)
    <3>1. Here - 1 = 0 /\ Len(entry.at) - 1 = 0
      BY <1>3, <1>4, <1>5
    <3>2. SubSeq(entry.at, 1, 0) = SubSeq(At, 1, 0)
      BY <1>3, <1>4, <1>5, OwnPlace
    <3> QED
      BY <3>1, <3>2 DEF Front
  <2>2. ReadAsMeant' /\ ~Unclear(entry) => u = Meant(entry, "env")
    BY <1>6 DEF u
  <2>3. /\ \A k \in 1..Here - 1 : scopes'[k].env = scopes[k].env /\ At'[k] = At[k]
        /\ \A k \in 1..Here : scopes'[k].inputs = scopes[k].inputs
        /\ scopes'[Here].env = Layered(<<scopes[Here].env, u>>)
    BY <1>3, <1>9
  <2>4. ScopesInv /\ EnvInv
    BY DEF DataInv
  <2> QED
    BY <1>3, <1>4, <1>6, <2>1, <2>2, <2>3, <2>4, EnvExtended
<1>12. PICK n \in Nat : n = Len(log)
  BY <1>4 DEF IsList
<1>13. /\ IsList(log') /\ Len(log') = n + 1 /\ log'[n + 1] = entry
       /\ \A i \in 1..n : log'[i] = log[i]
       /\ ReadAsMeant' => ReadAsMeant
       /\ \A i \in 1..n + 1 : i \in 1..n \/ i = n + 1
  BY <1>4, <1>6, <1>12, LogGrows
<1>14. LogInv'
  <2>1. ASSUME NEW i \in 1..n + 1
        PROVE  /\ log'[i].at \in Seq(Nat) /\ Len(log'[i].at) > 0 /\ log'[i].post \in BOOLEAN
               /\ log'[i].post => Len(log'[i].at) = 1
               /\ ~log'[i].post => Passed(log'[i].at, At')
    <3>1. CASE i \in 1..n
      <4>1. /\ log[i].at \in Seq(Nat) /\ Len(log[i].at) > 0 /\ log[i].post \in BOOLEAN
            /\ log[i].post => Len(log[i].at) = 1
            /\ ~log[i].post => Passed(log[i].at, At)
        BY <1>12, <3>1 DEF DataInv, LogInv
      <4>2. log'[i] = log[i] /\ At' = At
        BY <1>3, <1>13, <3>1
      <4> QED
        BY <4>1, <4>2, Zenon
    <3>2. CASE i = n + 1
      <4>1. log'[i] = entry
        BY <1>13, <3>2
      <4>2. entry.at \in Seq(Nat) /\ Len(entry.at) = 1
        BY <1>4, <1>5, Zenon
      <4>3. 1 > 0
        OBVIOUS
      <4>4. entry.post \in BOOLEAN /\ entry.post
        BY <1>5, Zenon
      <4> QED
        BY <4>1, <4>2, <4>3, <4>4, Zenon
    <3> QED
      BY <1>13, <3>1, <3>2
  <2> QED
    BY <1>1, <1>13, <2>1 DEF LogInv
<1>15. MainsInv'
  <2>1. ASSUME NEW k \in 1..Len(mains), NEW j \in 1..n + 1 PROVE LeftBy(k, j)'
    <3>1. CASE j \in 1..n
      <4>1. LeftBy(k, j)
        BY <1>12, <3>1 DEF DataInv, MainsInv
      <4> QED
        BY <1>1, <1>13, <3>1, <4>1 DEF LeftBy
    <3>2. CASE j = n + 1
      BY <1>5, <1>13, <3>2 DEF LeftBy
    <3> QED
      BY <1>13, <3>1, <3>2
  <2> QED
    BY <1>1, <1>3, <1>13, <2>1 DEF DataInv, MainsInv
<1>16. ProcInv'
  BY <1>1 DEF ProcInv
\* It had the env of the job as it was, and what its main left.
<1>17. ASSUME ReadAsMeant' PROVE EnvInProgramOrder' /\ PostSeesItsMain'
  <2>1. ReadAsMeant /\ ClearBefore(Len(log) + 1) =>
          EnvOf(entry.at, entry.inputs, log) = s.env
    <3>1. EnvOf(entry.at, entry.inputs, log) = EnvOf(At, entry.inputs, log)
      BY <1>3, <1>4, <1>5, OwnPlace
    <3>2. \A k \in 1..Here : entry.inputs[k] = scopes[k].inputs
      BY <1>3, <1>5, <1>7
    <3> QED
      BY <1>3, <3>1, <3>2, EnvHere DEF DataInv
  <2>2. ASSUME NEW j \in 1..Len(log), ReadAsMeant, ClearBefore(Len(log) + 1),
               ~log[j].post, log[j].at = entry.at
        PROVE  entry.env = Layered(<<EnvOf(entry.at, entry.inputs, log), log[j].plan,
                                     StateEnv(Meant(log[j], "state")), GitHubEnv>>)
    <3>1. ~Unclear(log[j])
      BY <1>12, <2>2 DEF ClearBefore
    <3>2. log[j].plan = main.plan /\ main.state = Meant(log[j], "state")
      BY <1>4, <1>5, <2>2, <3>1 DEF LeftBy
    <3> QED
      BY <1>5, <2>1, <2>2, <3>2
  <2>3. entry.post /\ IsList(log)
    BY <1>4, <1>5
  <2> QED
    BY <1>6, <1>17, <2>2, <2>3, SaidGrows DEF DataInv
<1> QED
  BY <1>10, <1>11, <1>14, <1>15, <1>16, <1>17 DEF DataInv

-----------------------------------------------------------------------------
(* The job's data, step by step.                                           *)

\* Each action of JobContext is one of JobRun's.
LEMMA StepIsOfTheJob ==
  ASSUME [NextData]_<<vars, dataVars>>
  PROVE  [Next]_vars
<1>1. CASE UNCHANGED <<vars, dataVars>>
  BY <1>1
<1>2. CASE EvaluationErrors
  BY <1>2 DEF EvaluationErrors, AtStep, JobErrors, Next
<1>3. CASE NextData /\ ~EvaluationErrors
  BY <1>3 DEF NextData, SkipStepData, StartStepData, StepExitsData, EnterCompositeData,
     LeaveCompositeData, StartPostData, PostExitsData, JobFinishedData, KeepsData, Next, Work
<1> QED
  BY <1>1, <1>2, <1>3

LEMMA DataStepKeeps ==
  ASSUME IInv, DataInv, [NextData]_<<vars, dataVars>>
  PROVE  DataInv'
<1>1. IInv'
  BY StepIsOfTheJob, StepKeeps
<1> QED
  BY <1>1, SkipStepDataKeeps, StartStepDataKeeps, StepExitsDataKeeps,
     EnterCompositeDataKeeps, LeaveCompositeDataKeeps, StartPostDataKeeps,
     PostExitsDataKeeps, RestKeepsData DEF NextData

LEMMA InitDataHolds ==
  ASSUME IInv, InitData
  PROVE  DataInv
<1> DEFINE s == [env |-> Layered(EnvLayers), outputs |-> NoOutputs, inputs |-> EmptyMap]
<1>1. /\ PlaceOK /\ Here = 1 /\ scopes = <<s>> /\ mains = <<>> /\ log = <<>>
      /\ phase = "steps" /\ pending = <<>>
  BY PlaceIs DEF InitData, Init, Here
<1>2. ScopesInv /\ LogInv /\ MainsInv /\ ProcInv
  BY <1>1 DEF ScopesInv, LogInv, MainsInv, ProcInv, IsList
<1>3. EnvInv
  <2> DEFINE f == [l \in 1..1 |-> LayerNow(l)]
             B == Layered(EnvLayers)
             inner == SaidInList(log, SubSeq(At, 1, 1 - 1))
  <2>1. scopes[1].env = B /\ scopes[1].inputs = EmptyMap
    BY <1>1
  <2>2. DOMAIN inner = {}
    BY <1>1, SaidNothing
  <2>3. f[1] = Layered(<<EmptyMap, inner>>)
    BY <2>1 DEF LayerNow
  <2>4. Nested(f, 0 + 1) = Layered(<<Nested(f, 0), f[0 + 1]>>)
    BY NestedOneMore
  <2>5. Nested(f, 0) = Layered(<<B>>)
    <3>1. <<B>> \o [k \in 1..0 |-> f[k]] = <<B>>
      OBVIOUS
    <3> QED
      BY <3>1 DEF Nested
  <2> HIDE DEF f, inner
  <2>6. DOMAIN f[1] = {}
    <3>1. Layered(<<EmptyMap, inner>>) = [n \in DOMAIN EmptyMap \cup DOMAIN inner |->
                                            IF n \in DOMAIN inner THEN inner[n] ELSE EmptyMap[n]]
      BY LayeredTwo
    <3> QED
      BY <2>2, <2>3, <3>1, EmptyIs
  <2>7. Nested(f, 1) = B
    <3>1. Layered(<<B>>) = B
      BY LayeredOne
    <3>2. Nested(f, 1) = Layered(<<B, f[1]>>)
      BY <2>4, <2>5, <3>1
    <3> QED
      BY <2>6, <3>2, LayeredNothing
  <2>8. \A k \in 1..1 : k = 1
    OBVIOUS
  <2> QED
    BY <1>1, <2>1, <2>7, <2>8 DEF EnvInv, f
<1> QED
  BY <1>1, <1>2, <1>3 DEF DataInv, EnvInProgramOrder, PostSeesItsMain

\* JobContext is JobRun with data: whatever is proved of RunJob's steps,
\* reports and posts holds with the contexts, the files and the outputs too.
THEOREM DataRunsAsJob == SpecData => Spec
<1>1. InitData => Init
  BY DEF InitData
<1>2. [NextData]_<<vars, dataVars>> => [Next]_vars
  BY StepIsOfTheJob
<1> QED
  BY <1>1, <1>2, PTL DEF Spec, SpecData

\* The inductive invariant of the job's data: every scope's env is what the
\* program order gives it, every pending post keeps what its main left.
THEOREM DataInvariance == SpecData => []DataInv
<1>1. IInv /\ InitData => DataInv
  BY InitDataHolds
<1>2. IInv /\ DataInv /\ [NextData]_<<vars, dataVars>> => DataInv'
  BY DataStepKeeps
<1>3. SpecData => []IInv
  BY DataRunsAsJob, Invariance, PTL
<1> QED
  BY <1>1, <1>2, <1>3, PTL DEF SpecData

\* A step's process gets the env changed by everything said to GITHUB_ENV
\* before it in program order, in its own list and the lists around it, and
\* nothing else: not what a composite that is over has said, nor what comes
\* later; provided only that the file format says what is meant by it.
THEOREM EnvFollowsProgramOrder == SpecData => [](ReadAsMeant => EnvInProgramOrder)
<1>1. DataInv => (ReadAsMeant => EnvInProgramOrder)
  BY DEF DataInv
<1> QED
  BY <1>1, DataInvariance, PTL

\* A post gets the state and the inputs of its own main, however often the
\* job uses the same action and whatever steps and posts ran in between; with
\* the same proviso.
THEOREM PostsSeeTheirMain == SpecData => [](ReadAsMeant => PostSeesItsMain)
<1>1. DataInv => (ReadAsMeant => PostSeesItsMain)
  BY DEF DataInv
<1> QED
  BY <1>1, DataInvariance, PTL
=============================================================================
