------------------------- MODULE SpecAnalysisProofs -------------------------
(***************************************************************************)
(* The analysis stage of a task served by the agent pool, for every number *)
(* of workers, people and projectors: the stage says what its attempts do, *)
(* a task that ends is announced, late results are rejected, cancellation  *)
(* is final, and the attempts are those of StageAttempts.                  *)
(*                                                                         *)
(* StageFollowsAttempt is not inductive.  A retry opens the attempt after  *)
(* the one it read, so it must be known that what it read still is FAILED  *)
(* unless a newer attempt exists (RetryKnows); a projection writes what it *)
(* computed before, so what it read must still be so unless the row was    *)
(* touched (ReadingHolds); and the lease of a worker must be of a row that *)
(* runs, which Numbered ties to the numbering of the attempts.             *)
(***************************************************************************)
EXTENDS SpecAnalysis, FiniteSetTheorems, TLAPS

(* The shape of every variable. *)
Lives == {"QUEUED", "RUNNING", "WAITING_INPUT"} \cup Terminal
Stages == OpenStages \cup {"SUCCEEDED", "FAILED", "CANCELLED"}
Statuses == {"NONE", "SUCCEEDED", "FAILED", "TIMED_OUT", "CANCELLED"} \cup OpenStatuses

Tasks ==
    [life : Lives, cancel : BOOLEAN, late : BOOLEAN, gen : Numbers, dirty : BOOLEAN,
     stage : Stages, cur : Numbers, max : Numbers, wait : Numbers \cup {0},
     specs : SUBSET Numbers, told : SUBSET Numbers]
Rows ==
    [status : Statuses, fence : Nat, lease : Nat, owner : Workers \cup {NoWorker},
     lapsed : BOOLEAN, by : Nat]
Work ==
    [pc : {"IDLE", "WORK", "SUBMIT", "COMMIT", "CANCELS", "EXPIRES", "FAILS"},
     att : Numbers \cup {0}, lease : Nat, kind : Kinds \cup {"NONE", "RETRYABLE"}]
Requests == [pc : {"IDLE", "CANCEL", "RETRY"}, seen : Numbers \cup {0}]
Readings ==
    [pc : {"IDLE", "STAGES", "APPLY"}, life : Lives, cancel : BOOLEAN, late : BOOLEAN,
     stage : Stages, stale : BOOLEAN]

Shape ==
    /\ plan \in Plans
    /\ task \in Tasks
    /\ att \in [Numbers -> Rows]
    /\ worker \in [Workers -> Work]
    /\ human \in [Humans -> Requests]
    /\ proj \in [Projectors -> Readings]
    /\ faults \in 0..MaxFaults

(* Attempts are numbered without a gap up to the current one; a person has
   asked for every attempt beyond the budget. *)
Counted == task.gen <= task.cur /\ task.cur <= task.max /\ task.max < plan.budget + task.gen

(* A row has an owner while it runs, no lease beyond its fence, and exists up
   to the current attempt. *)
RowKept(n) ==
    /\ att[n].lease <= att[n].fence
    /\ (att[n].owner # NoWorker) <=> (att[n].status = "RUNNING")
    /\ (att[n].status # "NONE") <=> (n <= task.cur)

(* A number that has been given to an attempt. *)
Known(n) == n \in Numbers /\ n <= task.cur

Numbered ==
    /\ Counted
    /\ \A n \in Numbers : RowKept(n)
    /\ \A w \in Workers : worker[w].pc # "IDLE" => Known(worker[w].att)
    /\ \A h \in Humans : human[h].pc = "RETRY" => Known(human[h].seen)

(* The only attempt that may be open is the current one, and it is exactly
   while the stage is PENDING or RUNNING. *)
OpenAtMostCurrent ==
    \A n \in Numbers :
       att[n].status \in OpenStatuses <=> (n = task.cur /\ task.stage \in {"PENDING", "RUNNING"})

(* An ended task has no open stage; its lifecycle is CANCELLED exactly when
   its cancellation was requested. *)
EndedIsClosed ==
    /\ task.life \in Terminal => task.stage \notin {"PENDING", "RUNNING"}
    /\ task.cancel <=> task.life = "CANCELLED"
    /\ task.stage = "CANCELLED" => task.cancel

(* No attempt follows the one that gave the specification. *)
SpecIsLast ==
    \A n \in task.specs : n = task.cur /\ att[n].status = "SUCCEEDED" /\ task.stage = "SUCCEEDED"

(* What a retry read is what it finds, unless it will be refused. *)
RetryKnows ==
    \A h \in Humans : human[h].pc = "RETRY" /\ human[h].seen = task.cur => task.stage = "FAILED"

(* What a projection read is still so, unless the row was written since. *)
ReadingHolds ==
    \A p \in Projectors : proj[p].pc # "IDLE" /\ ~proj[p].stale =>
        /\ proj[p].life = task.life /\ proj[p].cancel = task.cancel
        /\ proj[p].pc = "APPLY" => proj[p].stage = task.stage

(* A worker of the pool is in none of the states of the deterministic executor. *)
Agents == \A w \in Workers : worker[w].pc \in {"IDLE", "WORK", "SUBMIT", "COMMIT"}

(* What the pool keeps. *)
PoolInv == Agents /\ OpenAtMostCurrent /\ EndedIsClosed /\ SpecIsLast /\ RetryKnows /\ ReadingHolds /\ EndIsAnnounced

(* The inductive invariant. *)
AnalysisInv == Shape /\ Numbered /\ (Pool => PoolInv)

(* The parameters, in the form the steps use. *)
LEMMA Parameters ==
    /\ MaxNumber \in Nat /\ MaxFaults \in Nat
    /\ NoWorker \notin Workers
    /\ \A p \in Plans : p.executor \in {"AGENT", "DETERMINISTIC"} /\ p.budget \in 1..MaxNumber
BY AnalysisParameters DEF AnalysisParameters

(* NewAttempt and Ended make rows of an attempt. *)
LEMMA RowsTyped ==
    /\ NewAttempt \in Rows
    /\ NoAttempt \in Rows
    /\ \A a \in Rows, s \in Statuses, by \in Nat : Ended(a, s, by) \in Rows
BY DEF NewAttempt, NoAttempt, Rows, Statuses, OpenStatuses, Ended

(* What an idle worker, person and projector keep. *)
LEMMA RecordsTyped ==
    /\ NoWork \in Work
    /\ NoRequest \in Requests
    /\ NoProjection \in Readings
BY DEF NoWork, NoRequest, NoProjection, Work, Requests, Readings, Lives, Stages, OpenStages

(* Touched: a new updatedAt leaves the readings readings. *)
LEMMA TouchedTyped ==
    ASSUME Shape
    PROVE  Touched \in [Projectors -> Readings]
BY DEF Shape, Touched, Readings

(* Withdrawn: the rows a cancellation or a projection closes are rows. *)
LEMMA WithdrawnTyped ==
    ASSUME Shape, NEW s \in Statuses
    PROVE  Withdrawn(s) \in [Numbers -> Rows]
<1> SUFFICES ASSUME NEW n \in Numbers
             PROVE  (IF att[n].status \in OpenStatuses THEN Ended(att[n], s, att[n].by) ELSE att[n]) \in Rows
  BY DEF Withdrawn
<1>1. att[n] \in Rows /\ att[n].by \in Nat
  BY DEF Shape, Rows
<1> QED BY <1>1, RowsTyped

(* finishFailedAttempt writes a row, a task and stale readings. *)
LEMMA FinishTyped ==
    ASSUME Shape, NEW n \in Numbers, NEW by \in Nat, NEW retryable, FinishFailed(n, by, retryable)
    PROVE  att' \in [Numbers -> Rows] /\ task' \in Tasks /\ proj' \in [Projectors -> Readings]
<1> DEFINE failed == [Ended(att[n], "FAILED", by) EXCEPT !.fence = @ + 1]
<1>1. failed \in Rows
  <2>1. Ended(att[n], "FAILED", by) \in Rows
    BY RowsTyped DEF Shape, Statuses
  <2> QED BY <2>1 DEF Rows
<1>2. \A m \in Numbers : att[m] \in Rows
  BY DEF Shape
<1>3. att' \in [Numbers -> Rows]
  <2> HIDE DEF failed
  <2> QED BY <1>1, <1>2, RowsTyped DEF FinishFailed, failed
<1>4. Retries(n, retryable) => n + 1 \in Numbers
  BY Parameters DEF Retries, Shape, Tasks, Numbers
<1>5. task' \in Tasks
  BY <1>4 DEF FinishFailed, Shape, Tasks, Lives, Stages, OpenStages
<1> QED BY <1>3, <1>5, TouchedTyped DEF FinishFailed

(* What a worker is at is an attempt there is. *)
LEMMA WorkedOn ==
    ASSUME Shape, Numbered, NEW w \in Workers, worker[w].pc # "IDLE"
    PROVE  /\ worker[w].att \in Numbers
           /\ worker[w].att <= task.cur
           /\ att[worker[w].att] \in Rows
           /\ att[worker[w].att].status # "NONE"
<1>2. Known(worker[w].att)
  BY DEF Numbered
<1> QED BY <1>2 DEF Shape, Numbered, Known, RowKept

(* A worker moves between the states of its work. *)
LEMMA WorkTyped ==
    ASSUME Shape, NEW w \in Workers,
           \/ Idle(w)
           \/ \E pc \in {"IDLE", "WORK", "SUBMIT", "COMMIT", "CANCELS", "EXPIRES", "FAILS"} : Goes(w, pc)
           \/ UNCHANGED worker
    PROVE  worker' \in [Workers -> Work]
BY RecordsTyped DEF Shape, Idle, Goes, Work

(* claim: giving a row to a worker keeps every shape. *)
LEMMA GivenTyped ==
    ASSUME Shape, NEW w \in Workers, NEW n \in Numbers, Given(w, n)
    PROVE  Shape'
<1>1. att' \in [Numbers -> Rows]
  BY DEF Shape, Given, Rows, Statuses, OpenStatuses
<1>2. task' \in Tasks
  BY DEF Given, Shape, Tasks, Lives, Stages, OpenStages
<1>3. worker' \in [Workers -> Work]
  <2>1. att[n].fence + 1 \in Nat
    BY DEF Shape, Rows
  <2>2. [NoWork EXCEPT !.pc = "WORK", !.att = n, !.lease = att[n].fence + 1] \in Work
    BY <2>1, RecordsTyped DEF Work
  <2> QED BY <2>2 DEF Shape, Given
<1> QED BY <1>1, <1>2, <1>3, TouchedTyped DEF Shape, Given

(* Ending one attempt keeps the shape of the rows. *)
LEMMA EndTyped ==
    ASSUME Shape, NEW n \in Numbers, NEW s \in Statuses, NEW by \in Nat,
           att' = [att EXCEPT ![n] = Ended(@, s, by)]
    PROVE  att' \in [Numbers -> Rows]
BY RowsTyped DEF Shape

(* persistGeneratedSpec and pauseAnalysisForInput keep the shape of the task. *)
LEMMA SucceedsTyped ==
    ASSUME Shape, NEW w \in Workers, NEW n \in Numbers, task' = Succeeds(w, n)
    PROVE  task' \in Tasks
BY DEF Succeeds, Specified, Paused, Shape, Tasks, Lives, Stages, OpenStages

(* Every step keeps the shapes. *)
LEMMA ShapeKept ==
    ASSUME Shape, Numbered, [Next]_vars
    PROVE  Shape'
<1> USE DEF Shape
<1>1. ASSUME NEW w \in Workers, Stops(w) \/ Submit(w) \/ Failing(w) \/ Crash(w)
      PROVE  Shape'
  <2>1. worker' \in [Workers -> Work]
    BY <1>1, WorkTyped DEF Stops, Submit, Failing, Crash
  <2>2. faults' \in 0..MaxFaults
    BY <1>1, Parameters DEF Stops, Submit, Failing, Crash
  <2> QED BY <1>1, <2>1, <2>2 DEF Stops, Submit, Failing, Crash
<1>2. ASSUME NEW w \in Workers, NEW kind \in Kinds, Finish(w, kind)
      PROVE  Shape'
  <2>1. worker \in [Workers -> Work] /\ worker[w] \in Work
    OBVIOUS
  <2>2. [worker[w] EXCEPT !.pc = "SUBMIT", !.kind = kind] \in Work
    BY <2>1 DEF Work
  <2>3. worker' \in [Workers -> Work]
    BY <1>2, <2>1, <2>2 DEF Finish
  <2> QED BY <1>2, <2>3 DEF Finish
<1>3. ASSUME NEW w \in Workers, Commit(w)
      PROVE  Shape'
  <2> DEFINE n == worker[w].att
  <2>1. n \in Numbers /\ att[n] \in Rows /\ worker[w].lease \in Nat
    BY <1>3, WorkedOn DEF Commit, Work
  <2>2. worker' \in [Workers -> Work]
    BY <1>3, WorkTyped DEF Commit
  <2>3. CASE ~Accepts(w)
    BY <1>3, <2>2, <2>3 DEF Commit
  <2>4. CASE Accepts(w) /\ worker[w].kind \in {"RETRYABLE", "FATAL"}
    <3>1. att' \in [Numbers -> Rows] /\ task' \in Tasks /\ proj' \in [Projectors -> Readings]
      BY <1>3, <2>1, <2>4, FinishTyped DEF Commit
    <3> QED BY <1>3, <2>2, <3>1 DEF Commit
  <2>5. CASE Accepts(w) /\ worker[w].kind \notin {"RETRYABLE", "FATAL"}
    <3>1. /\ att' = [att EXCEPT ![n] = Ended(@, "SUCCEEDED", worker[w].lease)]
          /\ task' = Succeeds(w, n) /\ proj' = Touched
          /\ UNCHANGED <<human, plan, faults>>
      BY <1>3, <2>5 DEF Commit
    <3> HIDE DEF n
    <3>2. att' \in [Numbers -> Rows]
      BY <2>1, <3>1, EndTyped DEF Statuses
    <3>3. task' \in Tasks
      BY <2>1, <3>1, SucceedsTyped
    <3> QED BY <2>2, <3>1, <3>2, <3>3, TouchedTyped
  <2> QED BY <2>3, <2>4, <2>5
<1>4. ASSUME NEW w \in Workers, Generated(w) \/ Persist(w)
      PROVE  Shape'
  <2> DEFINE n == worker[w].att
  <2>1. n \in Numbers /\ att[n] \in Rows /\ att[n].by \in Nat
    BY <1>4, WorkedOn DEF Generated, Persist, Rows
  <2>2. worker' \in [Workers -> Work]
    <3>1. CASE worker' = [worker EXCEPT ![w].kind = "RETRYABLE"] \/ worker' = [worker EXCEPT ![w].pc = "SUBMIT", ![w].kind = "RETRYABLE"]
      BY <3>1 DEF Work
    <3> QED BY <1>4, <3>1, WorkTyped DEF Generated, Persist
  <2>3. CASE UNCHANGED <<task, att, proj>>
    BY <1>4, <2>2, <2>3 DEF Generated, Persist
  <2>4. CASE ~UNCHANGED <<task, att, proj>>
    <3>1. /\ att' = [att EXCEPT ![n] = Ended(@, "SUCCEEDED", @.by)]
          /\ task' = Succeeds(w, n) /\ proj' = Touched
          /\ UNCHANGED <<human, plan, faults>>
      BY <1>4, <2>4 DEF Generated, Persist
    <3> HIDE DEF n
    <3>2. att' \in [Numbers -> Rows]
      BY <2>1, <3>1, EndTyped DEF Statuses
    <3>3. task' \in Tasks
      BY <2>1, <3>1, SucceedsTyped
    <3> QED BY <2>2, <3>1, <3>2, <3>3, TouchedTyped
  <2> QED BY <2>3, <2>4
<1>5. ASSUME NEW w \in Workers, Failed(w)
      PROVE  Shape'
  <2> DEFINE n == worker[w].att
  <2>1. n \in Numbers /\ att[n] \in Rows /\ att[n].by \in Nat
    BY <1>5, WorkedOn DEF Failed, Rows
  <2>2. worker' \in [Workers -> Work]
    BY <1>5, WorkTyped DEF Failed
  <2>3. Retries(n, TRUE) => n + 1 \in Numbers
    BY <2>1, Parameters DEF Retries, Tasks, Numbers
  <2>4. att' \in [Numbers -> Rows]
    <3>1. \A s \in Statuses : Ended(att[n], s, att[n].by) \in Rows
      BY <2>1, RowsTyped
    <3>2. "CANCELLED" \in Statuses /\ "TIMED_OUT" \in Statuses /\ "FAILED" \in Statuses
      BY DEF Statuses
    <3> QED BY <1>5, <2>1, <2>3, <3>1, <3>2, RowsTyped DEF Failed, FailsFinally
  <2>5. task' \in Tasks
    <3>1. CASE worker[w].pc = "CANCELS"
      BY <1>5, <3>1 DEF Failed
    <3>2. CASE worker[w].pc = "EXPIRES"
      <4> DEFINE s == IF task.stage \in OpenStages THEN "FAILED" ELSE task.stage
                 l == IF task.life \in Terminal THEN task.life ELSE "TIMED_OUT"
                 d == IF task.life \in Terminal THEN task.dirty ELSE FALSE
      <4>1. task' = [task EXCEPT !.stage = s, !.life = l, !.dirty = d]
        BY <1>5, <3>2, Zenon DEF Failed
      <4>2. task \in Tasks
        OBVIOUS
      <4>3. s \in Stages /\ l \in Lives /\ d \in BOOLEAN
        BY <4>2 DEF Tasks, Stages, Lives, Terminal
      <4> HIDE DEF s, l, d
      <4> QED BY <4>1, <4>2, <4>3 DEF Tasks
    <3>3. CASE worker[w].pc = "FAILS"
      <4>1. \/ task' = [task EXCEPT !.stage = "FAILED", !.life = "COMPLETED", !.dirty = FALSE]
            \/ UNCHANGED task
            \/ /\ Retries(n, TRUE)
               /\ task' = [task EXCEPT !.stage = "PENDING", !.cur = n + 1, !.life = "QUEUED", !.dirty = TRUE]
        BY <1>5, <3>3 DEF Failed, FailsFinally
      <4> HIDE DEF n
      <4>2. CASE task' = [task EXCEPT !.stage = "FAILED", !.life = "COMPLETED", !.dirty = FALSE]
        BY <4>2 DEF Tasks, Lives, Stages, Terminal
      <4>3. CASE /\ Retries(n, TRUE)
                 /\ task' = [task EXCEPT !.stage = "PENDING", !.cur = n + 1, !.life = "QUEUED", !.dirty = TRUE]
        BY <2>3, <4>3 DEF Tasks, Lives, Stages, OpenStages
      <4> QED BY <4>1, <4>2, <4>3
    <3> QED BY <1>5, <3>1, <3>2, <3>3 DEF Failed
  <2>6. proj' \in [Projectors -> Readings]
    BY <1>5, TouchedTyped DEF Failed, FailsFinally
  <2> QED BY <1>5, <2>2, <2>4, <2>5, <2>6 DEF Failed
<1>6. ASSUME NEW w \in Workers, NEW n \in Numbers, Claim(w, n) \/ TakeOver(w, n)
      PROVE  Shape'
  BY <1>6, GivenTyped DEF Claim, TakeOver
<1>7. ASSUME NEW w \in Workers, NEW n \in Numbers, Expire(w, n)
      PROVE  Shape'
  <2>1. [Ended(att[n], "TIMED_OUT", att[n].by) EXCEPT !.fence = @ + 1] \in Rows
    <3>1. Ended(att[n], "TIMED_OUT", att[n].by) \in Rows
      BY RowsTyped DEF Rows, Statuses
    <3> QED BY <3>1 DEF Rows
  <2>2. att' \in [Numbers -> Rows]
    BY <1>7, <2>1 DEF Expire
  <2>3. task' \in Tasks
    BY <1>7 DEF Expire, Tasks, Stages
  <2> QED BY <1>7, <2>2, <2>3, TouchedTyped DEF Expire
<1>8. ASSUME NEW w \in Workers, NEW n \in Numbers, Recover(w, n)
      PROVE  Shape'
  BY <1>8, FinishTyped DEF Recover
<1>9. ASSUME NEW h \in Humans, AskCancel(h) \/ AskRetry(h)
      PROVE  Shape'
  BY <1>9 DEF AskCancel, AskRetry, Requests, Tasks
<1>10. ASSUME NEW h \in Humans, Cancel(h)
       PROVE  Shape'
  <2>1. task' \in Tasks
    BY <1>10 DEF Cancel, Tasks, Lives, Stages, OpenStages, Terminal
  <2>2. att' \in [Numbers -> Rows]
    BY <1>10, WithdrawnTyped DEF Cancel, Statuses
  <2> QED BY <1>10, <2>1, <2>2, TouchedTyped, RecordsTyped DEF Cancel
<1>11. ASSUME NEW h \in Humans, Retry(h)
       PROVE  Shape'
  <2>1. human' \in [Humans -> Requests]
    BY <1>11, RecordsTyped DEF Retry
  <2>2. CASE Refused(human[h].seen + 1)
    BY <1>11, <2>1, <2>2 DEF Retry
  <2>3. CASE ~Refused(human[h].seen + 1)
    <3> DEFINE next == human[h].seen + 1
    <3>1. next \in Numbers
      BY <1>11 DEF Retry
    <3>2. att' \in [Numbers -> Rows]
      BY <1>11, <2>3, RowsTyped DEF Retry
    <3>3. task.gen + 1 \in Numbers
      BY <1>11, <2>3, Parameters DEF Retry, Refused, Numbered, Counted, RowKept, Known, Tasks, Numbers
    <3>4. task' \in Tasks
      <4>1. task' = [task EXCEPT !.stage = "PENDING", !.cur = next, !.max = IF @ < next THEN next ELSE @,
                                 !.life = "QUEUED", !.gen = @ + 1, !.dirty = TRUE]
        BY <1>11, <2>3 DEF Retry
      <4> HIDE DEF next
      <4> QED BY <3>1, <3>3, <4>1 DEF Tasks, Lives, Stages, OpenStages
    <3> QED BY <1>11, <2>1, <2>3, <3>2, <3>4, TouchedTyped DEF Retry
  <2> QED BY <2>2, <2>3
<1>12. ASSUME NEW h \in Humans, Supplement(h)
       PROVE  Shape'
  <2>1. att' \in [Numbers -> Rows]
    BY <1>12, RowsTyped DEF Supplement
  <2>2. task.gen + 1 \in Numbers /\ task.max + 1 \in Numbers /\ task.cur + 1 \in Numbers
    BY <1>12, Parameters DEF Supplement, Numbered, Counted, Tasks, Numbers
  <2>3. task' \in Tasks
    BY <1>12, <2>2 DEF Supplement, Tasks, Lives, Stages, OpenStages
  <2> QED BY <1>12, <2>1, <2>3, TouchedTyped DEF Supplement
<1>13. ASSUME NEW p \in Projectors, ReadTask(p) \/ ReadStages(p)
       PROVE  Shape'
  <2>1. CASE ReadTask(p)
    <3>1. [NoProjection EXCEPT !.pc = "STAGES", !.life = task.life, !.cancel = task.cancel] \in Readings
      BY RecordsTyped DEF Readings, Tasks
    <3> QED BY <2>1, <3>1 DEF ReadTask
  <2>2. CASE ReadStages(p)
    <3>1. [proj[p] EXCEPT !.pc = "APPLY", !.stage = task.stage, !.late = task.late] \in Readings
      BY DEF Readings, Tasks
    <3>2. proj' = [proj EXCEPT ![p] = [proj[p] EXCEPT !.pc = "APPLY", !.stage = task.stage, !.late = task.late]]
      BY <2>2 DEF ReadStages
    <3> QED BY <2>2, <3>1, <3>2 DEF ReadStages
  <2> QED BY <1>13, <2>1, <2>2
<1>14. ASSUME NEW p \in Projectors, Project(p)
       PROVE  Shape'
  <2>1. Projection(proj[p]) \in Lives
    BY DEF Projection, Readings, Stages, OpenStages, Lives, Terminal
  <2>2. task' \in Tasks
    <3>1. CASE ~Applies(proj[p])
      BY <1>14, <3>1 DEF Project
    <3>2. CASE Applies(proj[p])
      <4> DEFINE life == Projection(proj[p])
                 told == IF life \in Terminal /\ proj[p].life \notin Terminal
                           THEN task.told \cup {task.gen} ELSE task.told
                 stage == IF life = "TIMED_OUT" /\ task.stage \in OpenStages THEN "FAILED" ELSE task.stage
      <4>1. task' = [task EXCEPT !.life = life, !.dirty = FALSE, !.stage = stage, !.told = told]
        BY <1>14, <3>2 DEF Project
      <4>2. told \in SUBSET Numbers /\ stage \in Stages
        BY DEF Tasks, Stages
      <4> HIDE DEF life, told, stage
      <4>3. life \in Lives
        BY <2>1 DEF life
      <4> QED BY <4>1, <4>2, <4>3 DEF Tasks
    <3> QED BY <3>1, <3>2
  <2>3. att' \in [Numbers -> Rows]
    BY <1>14, WithdrawnTyped DEF Project, Statuses
  <2>4. proj' \in [Projectors -> Readings]
    BY <1>14, TouchedTyped, RecordsTyped DEF Project
  <2> QED BY <1>14, <2>2, <2>3, <2>4 DEF Project
<1>15. ASSUME NEW n \in Numbers, Lapse(n)
       PROVE  Shape'
  <2>1. att' \in [Numbers -> Rows]
    BY <1>15 DEF Lapse, Rows
  <2>2. faults' \in 0..MaxFaults
    BY <1>15, Parameters DEF Lapse
  <2> QED BY <1>15, <2>1, <2>2 DEF Lapse
<1>16. CASE DeadlinePasses
  BY <1>16 DEF DeadlinePasses, Tasks
<1>17. CASE UNCHANGED vars
  BY <1>17 DEF vars
<1> QED BY <1>1, <1>2, <1>3, <1>4, <1>5, <1>6, <1>7, <1>8, <1>9, <1>10, <1>11, <1>12,
           <1>13, <1>14, <1>15, <1>16, <1>17 DEF Next, Works, Takes, Projects

(* A step that opens no attempt beyond the current one, and moves no worker
   and no retry to another one, only has its row to answer for. *)
LEMMA NumberedKept ==
    ASSUME Shape, Shape', Numbered, plan' = plan, task.cur <= task'.cur,
           Counted', \A n \in Numbers : RowKept(n)',
           \A w \in Workers : worker'[w].pc # "IDLE" =>
               (worker[w].pc # "IDLE" /\ worker'[w].att = worker[w].att) \/ Known(worker'[w].att),
           \A h \in Humans : human'[h].pc = "RETRY" => human'[h] = human[h] \/ Known(human'[h].seen)
    PROVE  Numbered'
<1>1. task.cur \in Nat /\ task'.cur \in Nat
  BY DEF Shape, Tasks, Numbers
<1>2. \A n : Known(n) => Known(n)'
  BY <1>1 DEF Known, Numbers
<1> QED BY <1>2 DEF Numbered

(* The next attempt after the current one. *)
LEMMA NextRow ==
    ASSUME Shape, Numbered, NEW n \in Numbers, n = task.cur + 1,
           att'[n] = NewAttempt, task'.cur = n,
           \A m \in Numbers : m # n => \/ att'[m] = att[m]
                                       \/ /\ att'[m].lease <= att'[m].fence
                                          /\ att'[m].owner = NoWorker /\ att'[m].status \notin {"RUNNING", "NONE"}
                                          /\ att[m].status # "NONE"
    PROVE  \A m \in Numbers : RowKept(m)'
<1>1. task.cur \in Numbers /\ MaxNumber \in Nat
  BY Parameters DEF Shape, Tasks
<1> TAKE m \in Numbers
<1>2. RowKept(m)
  BY DEF Numbered
<1>3. CASE m = n
  BY <1>1, <1>3 DEF RowKept, NewAttempt, NoAttempt, Numbers
<1>4. CASE m # n
  <2>1. m <= task.cur <=> m <= n
    BY <1>1, <1>4 DEF Numbers
  <2> QED BY <1>2, <1>4, <2>1 DEF RowKept
<1> QED BY <1>3, <1>4

(* A step that ends, takes or leaves rows keeps them. *)
LEMMA SameRows ==
    ASSUME Shape, Numbered, task'.cur = task.cur,
           \A m \in Numbers : \/ att'[m] = att[m]
                              \/ /\ att'[m].lease <= att'[m].fence
                                 /\ (att'[m].owner # NoWorker) <=> (att'[m].status = "RUNNING")
                                 /\ att'[m].status # "NONE" /\ att[m].status # "NONE"
    PROVE  \A m \in Numbers : RowKept(m)'
<1> TAKE m \in Numbers
<1>1. RowKept(m)
  BY DEF Numbered
<1> QED BY <1>1 DEF RowKept

(* An attempt that ended has no lease and no owner. *)
LEMMA EndedRow ==
    ASSUME NEW a \in Rows, NEW s \in Statuses, NEW by \in Nat
    PROVE  /\ Ended(a, s, by).lease <= Ended(a, s, by).fence
           /\ Ended(a, s, by).owner = NoWorker
           /\ Ended(a, s, by).status = s
           /\ [Ended(a, s, by) EXCEPT !.fence = @ + 1].lease <= [Ended(a, s, by) EXCEPT !.fence = @ + 1].fence
           /\ [Ended(a, s, by) EXCEPT !.fence = @ + 1].owner = NoWorker
           /\ [Ended(a, s, by) EXCEPT !.fence = @ + 1].status = s
BY DEF Ended, Rows

(* finishFailedAttempt of the current attempt opens the next one or none: the
   numbers stay without a gap. *)
LEMMA FinishNumbered ==
    ASSUME Shape, Numbered, NEW n \in Numbers, NEW by \in Nat, NEW retryable,
           n = task.cur, FinishFailed(n, by, retryable), plan' = plan
    PROVE  /\ task.cur <= task'.cur
           /\ Counted'
           /\ \A m \in Numbers : RowKept(m)'
<1>0. /\ task.cur \in Numbers /\ task.max \in Numbers /\ MaxNumber \in Nat /\ task \in Tasks
      /\ n \in 1..MaxNumber /\ plan.budget \in 1..MaxNumber /\ task.gen \in Numbers
  BY Parameters DEF Shape, Tasks, Numbers
<1>1. att[n] \in Rows /\ att[n].status # "NONE"
  BY <1>0 DEF Shape, Numbered, RowKept, Numbers
<1>2. CASE Retries(n, retryable)
  <2>1. n + 1 \in Numbers /\ n + 1 <= task.max
    BY <1>0, <1>2 DEF Retries, Numbers
  <2>2. task' = [task EXCEPT !.life = "QUEUED", !.dirty = TRUE, !.stage = "PENDING", !.cur = n + 1]
    BY <1>2 DEF FinishFailed
  <2>3. task'.cur = n + 1 /\ task'.max = task.max /\ task'.gen = task.gen
    BY <1>0, <2>2 DEF Tasks
  <2>4. /\ att'[n + 1] = NewAttempt
        /\ \A m \in Numbers : m # n + 1 /\ m # n => att'[m] = att[m]
        /\ att'[n] = [Ended(att[n], "FAILED", by) EXCEPT !.fence = @ + 1]
    BY <1>0, <1>2, <2>1 DEF FinishFailed
  <2>5. /\ att'[n].lease <= att'[n].fence
        /\ att'[n].owner = NoWorker /\ att'[n].status = "FAILED"
    BY <1>1, <2>4 DEF Ended, Rows
  <2>6. \A m \in Numbers : RowKept(m)'
    BY <1>1, <2>1, <2>3, <2>4, <2>5, NextRow
  <2>7. Counted'
    BY <1>0, <2>1, <2>3 DEF Numbered, Counted, Numbers
  <2> QED BY <1>0, <2>3, <2>6, <2>7 DEF Numbers
<1>3. CASE ~Retries(n, retryable)
  <2>1. task'.cur = task.cur /\ task'.max = task.max /\ task'.gen = task.gen
    BY <1>0, <1>3 DEF FinishFailed, Tasks
  <2>2. /\ \A m \in Numbers : m # n => att'[m] = att[m]
        /\ att'[n] = [Ended(att[n], "FAILED", by) EXCEPT !.fence = @ + 1]
    BY <1>0, <1>3 DEF FinishFailed
  <2>3. /\ att'[n].lease <= att'[n].fence
        /\ att'[n].owner = NoWorker /\ att'[n].status = "FAILED"
    BY <1>1, <2>2 DEF Ended, Rows
  <2>4. \A m \in Numbers : RowKept(m)'
    BY <1>1, <2>1, <2>2, <2>3, SameRows
  <2> QED BY <1>0, <2>1, <2>4 DEF Numbered, Counted, Numbers
<1> QED BY <1>2, <1>3

(* A step that leaves the numbers of the task alone, and only ends attempts or
   moves them between workers. *)
LEMMA RowsMove ==
    ASSUME Shape, Shape', Numbered, plan' = plan,
           task'.cur = task.cur, task'.max = task.max, task'.gen = task.gen,
           \A m \in Numbers : \/ att'[m] = att[m]
                              \/ /\ att'[m].lease <= att'[m].fence
                                 /\ (att'[m].owner # NoWorker) <=> (att'[m].status = "RUNNING")
                                 /\ att'[m].status # "NONE" /\ att[m].status # "NONE",
           \A w \in Workers : worker'[w].pc # "IDLE" =>
               (worker[w].pc # "IDLE" /\ worker'[w].att = worker[w].att) \/ Known(worker'[w].att),
           \A h \in Humans : human'[h].pc = "RETRY" => human'[h] = human[h] \/ Known(human'[h].seen)
    PROVE  Numbered'
<1>1. task.cur <= task'.cur
  BY DEF Shape, Tasks, Numbers
<1>2. Counted'
  BY DEF Numbered, Counted
<1>3. \A n \in Numbers : RowKept(n)'
  BY SameRows
<1> QED BY <1>1, <1>2, <1>3, NumberedKept

(* A worker at work stays with its attempt or leaves it. *)
LEMMA WorkersMove ==
    ASSUME Shape, NEW w \in Workers, worker[w].pc # "IDLE",
           \/ Idle(w)
           \/ \E pc \in {"IDLE", "WORK", "SUBMIT", "COMMIT", "CANCELS", "EXPIRES", "FAILS"} : Goes(w, pc)
           \/ worker' = [worker EXCEPT ![w].kind = "RETRYABLE"]
           \/ worker' = [worker EXCEPT ![w].pc = "SUBMIT", ![w].kind = "RETRYABLE"]
           \/ \E kind \in Kinds : worker' = [worker EXCEPT ![w].pc = "SUBMIT", ![w].kind = kind]
    PROVE  \A v \in Workers : worker'[v].pc # "IDLE" =>
               worker[v].pc # "IDLE" /\ worker'[v].att = worker[v].att
BY DEF Shape, Work, Idle, Goes, NoWork

(* A commit is of the current attempt: its lease is live, so it runs. *)
LEMMA LeasedRuns ==
    ASSUME Shape, Numbered, NEW w \in Workers, worker[w].pc # "IDLE",
           LET a == att[worker[w].att] IN a.owner = w
    PROVE  worker[w].att \in Numbers /\ att[worker[w].att].status = "RUNNING"
<1>1. worker[w].att \in Numbers /\ RowKept(worker[w].att)
  BY WorkedOn DEF Numbered
<1> QED BY <1>1, Parameters DEF RowKept

(* Every step keeps the numbering. *)
LEMMA NumberedStays ==
    ASSUME AnalysisInv, [Next]_vars
    PROVE  Numbered'
<1>0. Shape /\ Shape' /\ Numbered
  BY ShapeKept DEF AnalysisInv
<1> USE <1>0
<1>a. \A n \in Numbers : att[n] \in Rows /\ RowKept(n)
  BY DEF Shape, Numbered
<1>b. task \in Tasks /\ task.cur \in Numbers /\ Known(task.cur)
  BY DEF Shape, Tasks, Known, Numbers
<1>1. ASSUME NEW w \in Workers, Stops(w) \/ Submit(w) \/ Failing(w) \/ Crash(w) \/ \E kind \in Kinds : Finish(w, kind)
      PROVE  Numbered'
  <2>1. UNCHANGED <<task, att, human, plan>> /\ worker[w].pc # "IDLE"
    BY <1>1 DEF Stops, Submit, Failing, Crash, Finish
  <2>2. \A v \in Workers : worker'[v].pc # "IDLE" => worker[v].pc # "IDLE" /\ worker'[v].att = worker[v].att
    BY <1>1, <2>1, WorkersMove DEF Stops, Submit, Failing, Crash, Finish
  <2> QED BY <2>1, <2>2, RowsMove
<1>3. ASSUME NEW w \in Workers, Commit(w)
      PROVE  Numbered'
  <2> DEFINE n == worker[w].att
  <2>1. worker[w].pc # "IDLE" /\ Pool /\ UNCHANGED <<human, plan>>
    BY <1>3 DEF Commit
  <2>2. \A v \in Workers : worker'[v].pc # "IDLE" => worker[v].pc # "IDLE" /\ worker'[v].att = worker[v].att
    BY <1>3, <2>1, WorkersMove DEF Commit
  <2>3. CASE ~Accepts(w)
    BY <1>3, <2>1, <2>2, <2>3, RowsMove DEF Commit
  <2>4. CASE Accepts(w)
    <3>1. n \in Numbers /\ att[n].status = "RUNNING"
      BY <2>1, <2>4, LeasedRuns DEF Accepts, Leased
    <3>2. n = task.cur
      BY <2>1, <3>1 DEF AnalysisInv, PoolInv, OpenAtMostCurrent, OpenStatuses
    <3>3. worker[w].lease \in Nat /\ att[n] \in Rows
      BY <3>1 DEF Shape, Work
    <3>4. CASE worker[w].kind \in {"RETRYABLE", "FATAL"}
      <4>1. FinishFailed(n, worker[w].lease, worker[w].kind = "RETRYABLE")
        BY <1>3, <2>4, <3>4 DEF Commit
      <4> HIDE DEF n
      <4>2. task.cur <= task'.cur /\ Counted' /\ \A m \in Numbers : RowKept(m)'
        BY <2>1, <3>1, <3>2, <3>3, <4>1, FinishNumbered
      <4> QED BY <2>1, <2>2, <4>2, NumberedKept
    <3>5. CASE worker[w].kind \notin {"RETRYABLE", "FATAL"}
      <4>1. att' = [att EXCEPT ![n] = Ended(att[n], "SUCCEEDED", worker[w].lease)] /\ task' = Succeeds(w, n)
        BY <1>3, <2>4, <3>5 DEF Commit
      <4>2. task'.cur = task.cur /\ task'.max = task.max /\ task'.gen = task.gen
        BY <1>b, <4>1 DEF Succeeds, Specified, Paused, Tasks
      <4>3. Ended(att[n], "SUCCEEDED", worker[w].lease).lease <= Ended(att[n], "SUCCEEDED", worker[w].lease).fence
            /\ Ended(att[n], "SUCCEEDED", worker[w].lease).owner = NoWorker
            /\ Ended(att[n], "SUCCEEDED", worker[w].lease).status = "SUCCEEDED"
        BY <3>3 DEF Ended, Rows
      <4>4. \A m \in Numbers : \/ att'[m] = att[m]
                               \/ /\ att'[m].lease <= att'[m].fence
                                  /\ (att'[m].owner # NoWorker) <=> (att'[m].status = "RUNNING")
                                  /\ att'[m].status # "NONE" /\ att[m].status # "NONE"
        BY <3>1, <4>1, <4>3 DEF Shape
      <4> QED BY <2>1, <2>2, <4>2, <4>4, RowsMove
    <3> QED BY <3>4, <3>5
  <2> QED BY <2>3, <2>4
<1>4. ASSUME NEW w \in Workers, Generated(w) \/ Persist(w)
      PROVE  Numbered'
  <2> DEFINE n == worker[w].att
  <2>1. worker[w].pc # "IDLE" /\ UNCHANGED <<human, plan>>
    BY <1>4 DEF Generated, Persist
  <2>2. \A v \in Workers : worker'[v].pc # "IDLE" => worker[v].pc # "IDLE" /\ worker'[v].att = worker[v].att
    BY <1>4, <2>1, WorkersMove DEF Generated, Persist
  <2>3. CASE UNCHANGED <<task, att>>
    BY <2>1, <2>2, <2>3, RowsMove
  <2>4. CASE ~UNCHANGED <<task, att, proj>>
    <3>1. n \in Numbers /\ att[n] \in Rows /\ att[n].status # "NONE"
      BY <2>1, WorkedOn
    <3>2. att' = [att EXCEPT ![n] = Ended(att[n], "SUCCEEDED", att[n].by)] /\ task' = Succeeds(w, n)
      BY <1>4, <2>4 DEF Generated, Persist
    <3>3. task'.cur = task.cur /\ task'.max = task.max /\ task'.gen = task.gen
      BY <1>b, <3>2 DEF Succeeds, Specified, Paused, Tasks
    <3>4. Ended(att[n], "SUCCEEDED", att[n].by).lease <= Ended(att[n], "SUCCEEDED", att[n].by).fence
          /\ Ended(att[n], "SUCCEEDED", att[n].by).owner = NoWorker
          /\ Ended(att[n], "SUCCEEDED", att[n].by).status = "SUCCEEDED"
      BY <3>1 DEF Ended, Rows
    <3>5. \A m \in Numbers : \/ att'[m] = att[m]
                             \/ /\ att'[m].lease <= att'[m].fence
                                /\ (att'[m].owner # NoWorker) <=> (att'[m].status = "RUNNING")
                                /\ att'[m].status # "NONE" /\ att[m].status # "NONE"
      BY <3>1, <3>2, <3>4 DEF Shape
    <3> QED BY <2>1, <2>2, <3>3, <3>5, RowsMove
  <2> QED BY <2>3, <2>4
<1>6. ASSUME NEW w \in Workers, NEW n \in Numbers, Claim(w, n) \/ TakeOver(w, n)
      PROVE  Numbered'
  <2>1. Given(w, n) /\ att[n].status # "NONE" /\ Known(n)
    BY <1>6, <1>a DEF Claim, TakeOver, Candidate, RowKept, Known
  <2>2. task'.cur = task.cur /\ task'.max = task.max /\ task'.gen = task.gen /\ UNCHANGED <<human, plan>>
    BY <1>b, <2>1 DEF Given, Tasks
  <2>3. att' = [att EXCEPT ![n] = [att[n] EXCEPT !.status = "RUNNING", !.fence = att[n].fence + 1, !.lease = att[n].fence + 1,
                                                 !.owner = w, !.lapsed = FALSE]]
    BY <2>1 DEF Given
  <2>4. att'[n].lease <= att'[n].fence /\ att'[n].owner # NoWorker /\ att'[n].status = "RUNNING"
    <3>1. att[n] \in Rows /\ att[n].fence + 1 \in Nat /\ att'[n].fence = att[n].fence + 1 /\ att'[n].lease = att[n].fence + 1
      BY <1>a, <2>3 DEF Shape, Rows
    <3>2. att'[n].owner = w /\ att'[n].status = "RUNNING"
      BY <1>a, <2>3 DEF Shape, Rows
    <3> QED BY <3>1, <3>2, Parameters
  <2>5. \A m \in Numbers : m # n => att'[m] = att[m]
    BY <2>3 DEF Shape
  <2>6. \A v \in Workers : worker'[v].pc # "IDLE" =>
             (worker[v].pc # "IDLE" /\ worker'[v].att = worker[v].att) \/ Known(worker'[v].att)
    BY <2>1 DEF Given, Shape, Work, NoWork
  <2> QED BY <2>1, <2>2, <2>4, <2>5, <2>6, RowsMove
<1>7. ASSUME NEW w \in Workers, NEW n \in Numbers, Expire(w, n)
      PROVE  Numbered'
  <2>1. att'[n] = [Ended(att[n], "TIMED_OUT", att[n].by) EXCEPT !.fence = @ + 1] /\ att[n].status # "NONE"
        /\ \A m \in Numbers : m # n => att'[m] = att[m]
    BY <1>7 DEF Expire, Candidate, Shape
  <2>2. att'[n].lease <= att'[n].fence /\ att'[n].owner = NoWorker /\ att'[n].status = "TIMED_OUT"
    BY <1>a, <2>1 DEF Ended, Rows
  <2>3. task'.cur = task.cur /\ task'.max = task.max /\ task'.gen = task.gen /\ UNCHANGED <<human, plan, worker>>
    BY <1>b, <1>7 DEF Expire, Tasks
  <2> QED BY <2>1, <2>2, <2>3, RowsMove
<1>8. ASSUME NEW w \in Workers, NEW n \in Numbers, Recover(w, n)
      PROVE  Numbered'
  <2>1. FinishFailed(n, 0, TRUE) /\ n = task.cur /\ UNCHANGED <<human, plan, worker>>
    BY <1>8 DEF Recover, Candidate
  <2>2. task.cur <= task'.cur /\ Counted' /\ \A m \in Numbers : RowKept(m)'
    BY <2>1, FinishNumbered
  <2> QED BY <2>1, <2>2, NumberedKept
<1>9. ASSUME NEW h \in Humans, AskCancel(h) \/ AskRetry(h)
      PROVE  Numbered'
  <2>1. UNCHANGED <<task, att, plan, worker>>
    BY <1>9 DEF AskCancel, AskRetry
  <2>2. \A g \in Humans : human'[g].pc = "RETRY" => human'[g] = human[g] \/ Known(human'[g].seen)
    BY <1>9, <1>b DEF AskCancel, AskRetry, Shape, Requests
  <2> QED BY <2>1, <2>2, RowsMove
<1>10. ASSUME NEW h \in Humans, Cancel(h)
       PROVE  Numbered'
  <2>1. task'.cur = task.cur /\ task'.max = task.max /\ task'.gen = task.gen /\ UNCHANGED <<plan, worker>>
    BY <1>b, <1>10 DEF Cancel, Tasks
  <2>2. \A m \in Numbers : \/ att'[m] = att[m]
                           \/ /\ att'[m] = Ended(att[m], "CANCELLED", att[m].by)
                              /\ att[m].status \in OpenStatuses
    BY <1>10 DEF Cancel, Withdrawn
  <2>3. \A m \in Numbers : \/ att'[m] = att[m]
                           \/ /\ att'[m].lease <= att'[m].fence
                              /\ (att'[m].owner # NoWorker) <=> (att'[m].status = "RUNNING")
                              /\ att'[m].status # "NONE" /\ att[m].status # "NONE"
    <3> TAKE m \in Numbers
    <3>1. CASE att'[m] = Ended(att[m], "CANCELLED", att[m].by) /\ att[m].status \in OpenStatuses
      <4>1. att'[m].lease = 0 /\ att'[m].fence = att[m].fence /\ att'[m].owner = NoWorker /\ att'[m].status = "CANCELLED"
        BY <1>a, <3>1 DEF Ended, Rows
      <4> QED BY <1>a, <3>1, <4>1 DEF Rows, OpenStatuses
    <3> QED BY <2>2, <3>1
  <2>4. \A g \in Humans : human'[g].pc = "RETRY" => human'[g] = human[g] \/ Known(human'[g].seen)
    BY <1>10 DEF Cancel, Shape, NoRequest
  <2> QED BY <2>1, <2>3, <2>4, RowsMove
<1>11. ASSUME NEW h \in Humans, Retry(h)
       PROVE  Numbered'
  <2>1. \A g \in Humans : human'[g].pc = "RETRY" => human'[g] = human[g]
    BY <1>11 DEF Retry, Shape, NoRequest
  <2>2. UNCHANGED <<worker, plan>>
    BY <1>11 DEF Retry
  <2> DEFINE next == human[h].seen + 1
  <2>3. CASE Refused(next)
    <3>1. UNCHANGED <<task, att>>
      BY <1>11, <2>3 DEF Retry
    <3> QED BY <2>1, <2>2, <3>1, RowsMove
  <2>4. CASE ~Refused(next)
    <3>1. next \in Numbers /\ Known(human[h].seen) /\ att[next].status = "NONE"
      BY <1>11, <2>4 DEF Retry, Refused, Numbered
    <3>2. next = task.cur + 1
      BY <1>a, <1>b, <3>1, Parameters DEF Known, RowKept, Numbers
    <3>3. /\ att' = [att EXCEPT ![next] = NewAttempt]
          /\ task' = [task EXCEPT !.stage = "PENDING", !.cur = next, !.max = IF task.max < next THEN next ELSE task.max,
                                  !.life = "QUEUED", !.gen = task.gen + 1, !.dirty = TRUE]
      BY <1>11, <2>4 DEF Retry
    <3> HIDE DEF next
    <3>4. task'.cur = next /\ task'.max = (IF task.max < next THEN next ELSE task.max) /\ task'.gen = task.gen + 1
      BY <1>b, <3>3 DEF Tasks
    <3>5. \A n \in Numbers : RowKept(n)'
      <4>1. att'[next] = NewAttempt /\ \A m \in Numbers : m # next => att'[m] = att[m]
        BY <3>1, <3>3 DEF Shape
      <4> QED BY <3>1, <3>2, <3>4, <4>1, NextRow
    <3>6. Counted' /\ task.cur <= task'.cur
      BY <1>b, <2>2, <3>1, <3>2, <3>4, Parameters DEF Numbered, Counted, Tasks, Numbers, Shape
    <3> QED BY <2>1, <2>2, <3>5, <3>6, NumberedKept
  <2> QED BY <2>3, <2>4
<1>12. ASSUME NEW h \in Humans, Supplement(h)
       PROVE  Numbered'
  <2> DEFINE next == task.cur + 1
  <2>1. UNCHANGED <<worker, plan, human>> /\ next \in Numbers
    BY <1>12 DEF Supplement
  <2>2. /\ att' = [att EXCEPT ![next] = NewAttempt]
        /\ task'.cur = next /\ task'.max = task.max + 1 /\ task'.gen = task.gen + 1
    BY <1>b, <1>12 DEF Supplement, Tasks
  <2>3. \A n \in Numbers : RowKept(n)'
    <3>1. att'[next] = NewAttempt /\ \A m \in Numbers : m # next => att'[m] = att[m]
      BY <2>1, <2>2 DEF Shape
    <3> HIDE DEF next
    <3>2. next = task.cur + 1
      BY DEF next
    <3> QED BY <2>1, <2>2, <3>1, <3>2, NextRow
  <2>4. Counted' /\ task.cur <= task'.cur
    BY <1>b, <2>1, <2>2, Parameters DEF Numbered, Counted, Tasks, Numbers, Shape
  <2> QED BY <2>1, <2>3, <2>4, NumberedKept
<1>13. ASSUME NEW p \in Projectors, ReadTask(p) \/ ReadStages(p)
       PROVE  Numbered'
  <2>1. UNCHANGED <<task, att, worker, human, plan>>
    BY <1>13 DEF ReadTask, ReadStages
  <2> QED BY <2>1, RowsMove
<1>14. ASSUME NEW p \in Projectors, Project(p)
       PROVE  Numbered'
  <2>1. task'.cur = task.cur /\ task'.max = task.max /\ task'.gen = task.gen /\ UNCHANGED <<plan, worker, human>>
    BY <1>b, <1>14 DEF Project, Tasks
  <2>2. \A m \in Numbers : \/ att'[m] = att[m]
                           \/ /\ att'[m] = Ended(att[m], "TIMED_OUT", att[m].by)
                              /\ att[m].status \in OpenStatuses
    BY <1>14 DEF Project, Withdrawn
  <2>3. \A m \in Numbers : \/ att'[m] = att[m]
                           \/ /\ att'[m].lease <= att'[m].fence
                              /\ (att'[m].owner # NoWorker) <=> (att'[m].status = "RUNNING")
                              /\ att'[m].status # "NONE" /\ att[m].status # "NONE"
    <3> TAKE m \in Numbers
    <3>1. CASE att'[m] = Ended(att[m], "TIMED_OUT", att[m].by) /\ att[m].status \in OpenStatuses
      <4>1. att'[m].lease = 0 /\ att'[m].fence = att[m].fence /\ att'[m].owner = NoWorker /\ att'[m].status = "TIMED_OUT"
        BY <1>a, <3>1 DEF Ended, Rows
      <4> QED BY <1>a, <3>1, <4>1 DEF Rows, OpenStatuses
    <3> QED BY <2>2, <3>1
  <2> QED BY <2>1, <2>3, RowsMove
<1>15. ASSUME NEW n \in Numbers, Lapse(n)
       PROVE  Numbered'
  <2>1. UNCHANGED <<task, worker, human, plan>>
        /\ att[n].status = "RUNNING" /\ att' = [att EXCEPT ![n] = [att[n] EXCEPT !.lapsed = TRUE]]
    BY <1>15 DEF Lapse
  <2>2. \A m \in Numbers : \/ att'[m] = att[m]
                           \/ /\ att'[m].lease <= att'[m].fence
                              /\ (att'[m].owner # NoWorker) <=> (att'[m].status = "RUNNING")
                              /\ att'[m].status # "NONE" /\ att[m].status # "NONE"
    <3>1. att'[n].lease = att[n].lease /\ att'[n].fence = att[n].fence
          /\ att'[n].owner = att[n].owner /\ att'[n].status = att[n].status
      BY <1>a, <2>1 DEF Shape, Rows
    <3> QED BY <1>a, <2>1, <3>1 DEF RowKept, Shape
  <2> QED BY <2>1, <2>2, RowsMove
<1>16. CASE DeadlinePasses
  <2>1. task'.cur = task.cur /\ task'.max = task.max /\ task'.gen = task.gen /\ UNCHANGED <<att, plan, worker, human>>
    BY <1>b, <1>16 DEF DeadlinePasses, Tasks
  <2> QED BY <2>1, RowsMove
<1>17. CASE UNCHANGED vars
  BY <1>17, RowsMove DEF vars
<1>5. ASSUME NEW w \in Workers, Failed(w)
      PROVE  Numbered'
  <2> DEFINE n == worker[w].att
  <2>1. worker[w].pc # "IDLE" /\ UNCHANGED <<human, plan>>
    BY <1>5 DEF Failed
  <2>2. \A v \in Workers : worker'[v].pc # "IDLE" => worker[v].pc # "IDLE" /\ worker'[v].att = worker[v].att
    BY <1>5, <2>1, WorkersMove DEF Failed
  <2>3. n \in Numbers /\ att[n] \in Rows /\ att[n].status # "NONE" /\ n <= task.cur
    BY <2>1, WorkedOn
  <2> DEFINE next == n + 1
  <2>4. CASE worker[w].pc = "FAILS" /\ Retries(n, TRUE) /\ att[next].status = "NONE"
    <3>1. next \in Numbers /\ next <= task.max
      BY <1>b, <2>3, <2>4, Parameters DEF Retries, Tasks, Numbers
    <3>2. next = task.cur + 1
      BY <1>a, <1>b, <2>3, <2>4, <3>1, Parameters DEF RowKept, Numbers
    <3>3. /\ att' = [att EXCEPT ![n] = Ended(att[n], "FAILED", att[n].by), ![next] = NewAttempt]
          /\ task' = [task EXCEPT !.stage = "PENDING", !.cur = next, !.life = "QUEUED", !.dirty = TRUE]
      BY <1>5, <2>4 DEF Failed
    <3>4. n # next
      BY <2>3 DEF Numbers
    <3> HIDE DEF n, next
    <3>5. task'.cur = next /\ task'.max = task.max /\ task'.gen = task.gen
      BY <1>b, <3>3 DEF Tasks
    <3>6. att'[next] = NewAttempt /\ att'[n] = Ended(att[n], "FAILED", att[n].by)
          /\ \A m \in Numbers : m # next /\ m # n => att'[m] = att[m]
      BY <2>3, <3>1, <3>3, <3>4 DEF Shape
    <3>7. att'[n].lease <= att'[n].fence /\ att'[n].owner = NoWorker /\ att'[n].status = "FAILED"
      BY <2>3, <3>6 DEF Ended, Rows
    <3>8. \A m \in Numbers : RowKept(m)'
      BY <2>3, <3>1, <3>2, <3>5, <3>6, <3>7, NextRow
    <3>9. Counted' /\ task.cur <= task'.cur
      BY <1>b, <2>1, <3>1, <3>2, <3>5, Parameters DEF Numbered, Counted, Tasks, Numbers, Shape
    <3> QED BY <2>1, <2>2, <3>8, <3>9, NumberedKept
  <2>5. CASE ~(worker[w].pc = "FAILS" /\ Retries(n, TRUE) /\ att[next].status = "NONE")
    <3>1. \/ UNCHANGED att
          \/ \E s \in {"CANCELLED", "TIMED_OUT", "FAILED"} : att' = [att EXCEPT ![n] = Ended(att[n], s, att[n].by)]
      BY <1>5, <2>5 DEF Failed, FailsFinally
    <3>2. task'.cur = task.cur /\ task'.max = task.max /\ task'.gen = task.gen
      BY <1>5, <1>b, <2>5 DEF Failed, FailsFinally, Tasks
    <3> HIDE DEF n
    <3>3. \A s \in {"CANCELLED", "TIMED_OUT", "FAILED"} :
             Ended(att[n], s, att[n].by).lease <= Ended(att[n], s, att[n].by).fence
             /\ Ended(att[n], s, att[n].by).owner = NoWorker /\ Ended(att[n], s, att[n].by).status = s
      BY <2>3 DEF Ended, Rows
    <3>4. \A m \in Numbers : \/ att'[m] = att[m]
                             \/ /\ att'[m].lease <= att'[m].fence
                                /\ (att'[m].owner # NoWorker) <=> (att'[m].status = "RUNNING")
                                /\ att'[m].status # "NONE" /\ att[m].status # "NONE"
      BY <2>3, <3>1, <3>3 DEF Shape
    <3> QED BY <2>1, <2>2, <3>2, <3>4, RowsMove
  <2> QED BY <2>4, <2>5
<1> QED BY <1>1, <1>3, <1>4, <1>5, <1>6, <1>7, <1>8, <1>9, <1>10, <1>11, <1>12,
           <1>13, <1>14, <1>15, <1>16, <1>17 DEF Next, Works, Takes, Projects

(* Whoever writes the task makes every reading of it stale. *)
LEMMA TouchedReadings ==
    ASSUME Shape, proj' = Touched
    PROVE  ReadingHolds'
BY DEF Shape, Touched, Readings, ReadingHolds

(* A step that leaves the lifecycle, the stage and the statuses alone keeps
   what the pool keeps. *)
LEMMA QuietPool ==
    ASSUME Shape, PoolInv, plan' = plan,
           task'.life = task.life, task'.cancel = task.cancel, task'.stage = task.stage,
           task'.cur = task.cur, task'.specs = task.specs, task'.gen = task.gen, task'.told = task.told,
           \A n \in Numbers : att'[n].status = att[n].status,
           Agents', RetryKnows', ReadingHolds'
    PROVE  PoolInv'
<1>1. OpenAtMostCurrent'
  BY DEF PoolInv, OpenAtMostCurrent
<1>2. EndedIsClosed'
  BY DEF PoolInv, EndedIsClosed
<1>3. SpecIsLast'
  BY DEF PoolInv, SpecIsLast, Shape, Tasks
<1>4. EndIsAnnounced'
  BY DEF PoolInv, EndIsAnnounced, Pool
<1> QED BY <1>1, <1>2, <1>3, <1>4 DEF PoolInv

(* finishFailedAttempt keeps what the pool keeps. *)
LEMMA FinishPool ==
    ASSUME Shape, Numbered, Pool, PoolInv, NEW by \in Nat, NEW retryable,
           FinishFailed(task.cur, by, retryable), plan' = plan, human' = human, Agents',
           Active, task.stage \in {"PENDING", "RUNNING"}
    PROVE  PoolInv'
<1> DEFINE n == task.cur
<1>0. n \in Numbers /\ n \in Nat /\ task \in Tasks /\ att[n] \in Rows
  BY DEF Shape, Tasks, Numbers
<1>1. ReadingHolds'
  BY TouchedReadings DEF FinishFailed
<1>2. task.specs = {}
  BY DEF PoolInv, SpecIsLast
<1>3. \A m \in Numbers : m # n => att[m].status \notin OpenStatuses
  BY DEF PoolInv, OpenAtMostCurrent
<1>4. ~task.cancel /\ task.life \in {"QUEUED", "RUNNING"}
  BY DEF Active
<1>5. CASE Retries(n, retryable)
  <2>1. n + 1 \in Numbers
    BY <1>0, <1>5, Parameters DEF Retries, Tasks, Numbers
  <2>2. task' = [task EXCEPT !.life = "QUEUED", !.dirty = TRUE, !.stage = "PENDING", !.cur = n + 1]
    BY <1>5 DEF FinishFailed
  <2>3. /\ task'.cur = n + 1 /\ task'.life = "QUEUED" /\ task'.stage = "PENDING"
        /\ task'.cancel = FALSE /\ task'.specs = {}
    BY <1>0, <1>2, <1>4, <2>2 DEF Tasks
  <2>4. /\ att'[n + 1] = NewAttempt
        /\ \A m \in Numbers : m # n + 1 /\ m # n => att'[m] = att[m]
        /\ att'[n] = [Ended(att[n], "FAILED", by) EXCEPT !.fence = @ + 1]
    BY <1>0, <1>5, <2>1 DEF FinishFailed
  <2>5. att'[n].status = "FAILED" /\ att'[n + 1].status = "PENDING"
    BY <1>0, <2>4 DEF Ended, Rows, NewAttempt, NoAttempt
  <2>6. OpenAtMostCurrent'
    BY <1>0, <1>3, <2>1, <2>3, <2>4, <2>5 DEF OpenAtMostCurrent, OpenStatuses
  <2>7. RetryKnows'
    BY <1>0, <2>3 DEF Numbered, Known, Numbers, RetryKnows
  <2> QED BY <1>1, <2>3, <2>6, <2>7 DEF PoolInv, EndedIsClosed, SpecIsLast, EndIsAnnounced, Terminal
<1>6. CASE ~Retries(n, retryable)
  <2>1. task' = [task EXCEPT !.dirty = TRUE, !.stage = "FAILED"]
    BY <1>6 DEF FinishFailed
  <2>2. /\ task'.cur = n /\ task'.life = task.life /\ task'.stage = "FAILED"
        /\ task'.cancel = FALSE /\ task'.specs = {}
    BY <1>0, <1>2, <1>4, <2>1 DEF Tasks
  <2>3. /\ \A m \in Numbers : m # n => att'[m] = att[m]
        /\ att'[n] = [Ended(att[n], "FAILED", by) EXCEPT !.fence = @ + 1]
    BY <1>0, <1>6 DEF FinishFailed
  <2>4. att'[n].status = "FAILED"
    BY <1>0, <2>3 DEF Ended, Rows
  <2>5. OpenAtMostCurrent'
    BY <1>3, <2>2, <2>3, <2>4 DEF OpenAtMostCurrent, OpenStatuses
  <2>6. RetryKnows'
    BY <2>2 DEF RetryKnows
  <2> QED BY <1>1, <1>4, <2>2, <2>5, <2>6 DEF PoolInv, EndedIsClosed, SpecIsLast, EndIsAnnounced, Terminal
<1> QED BY <1>5, <1>6

(* The transaction that opens the next attempt for a person. *)
LEMMA AgainPool ==
    ASSUME Shape, Numbered, PoolInv, Agents', proj' = Touched,
           NEW next \in Numbers, next = task.cur + 1, ~task.cancel,
           task.stage \in {"FAILED", "WAITING_INPUT"},
           att' = [att EXCEPT ![next] = NewAttempt],
           task'.cur = next, task'.life = "QUEUED", task'.stage = "PENDING",
           task'.cancel = task.cancel, task'.specs = task.specs,
           \A h \in Humans : human'[h].pc = "RETRY" => human'[h] = human[h]
    PROVE  PoolInv'
<1>0. task.cur \in Nat /\ task.specs \subseteq Numbers
  BY DEF Shape, Tasks, Numbers
<1>1. ReadingHolds'
  BY TouchedReadings
<1>2. task.specs = {}
  BY DEF PoolInv, SpecIsLast
<1>3. \A m \in Numbers : att[m].status \notin OpenStatuses
  BY DEF PoolInv, OpenAtMostCurrent
<1>4. att'[next].status = "PENDING" /\ \A m \in Numbers : m # next => att'[m] = att[m]
  BY DEF Shape, NewAttempt, NoAttempt
<1>5. OpenAtMostCurrent'
  BY <1>3, <1>4 DEF OpenAtMostCurrent, OpenStatuses
<1>6. RetryKnows'
  BY <1>0 DEF Numbered, Known, Numbers, RetryKnows
<1>7. EndedIsClosed' /\ SpecIsLast' /\ EndIsAnnounced'
  BY <1>2 DEF EndedIsClosed, SpecIsLast, EndIsAnnounced, Terminal
<1> QED BY <1>1, <1>5, <1>6, <1>7 DEF PoolInv

(* Every step keeps what the pool keeps. *)
LEMMA PoolStays ==
    ASSUME AnalysisInv, [Next]_vars, Pool
    PROVE  PoolInv'
<1>0. Shape /\ Shape' /\ Numbered /\ PoolInv /\ plan.executor # "DETERMINISTIC"
  BY ShapeKept DEF AnalysisInv, Pool
<1> USE <1>0
<1>a. \A n \in Numbers : att[n] \in Rows /\ RowKept(n)
  BY DEF Shape, Numbered
<1>b. task \in Tasks /\ task.cur \in Numbers
  BY DEF Shape, Tasks
<1>c. \A w \in Workers : \/ Idle(w)
                         \/ \E pc \in {"IDLE", "WORK", "SUBMIT", "COMMIT"} : Goes(w, pc)
                         \/ \E kind \in Kinds : worker' = [worker EXCEPT ![w].pc = "SUBMIT", ![w].kind = kind]
                         => Agents'
  BY DEF Agents, PoolInv, Shape, Work, Idle, Goes, NoWork
<1>d. worker' = worker => Agents'
  BY DEF Agents, PoolInv
<1>e. human' = human /\ task'.cur = task.cur /\ task'.stage = task.stage => RetryKnows'
  BY DEF RetryKnows, PoolInv
<1>f. UNCHANGED <<task, proj>> => ReadingHolds'
  BY DEF ReadingHolds, PoolInv
<1>1. ASSUME NEW w \in Workers, Stops(w) \/ Submit(w) \/ Crash(w) \/ \E kind \in Kinds : Finish(w, kind)
      PROVE  PoolInv'
  <2>1. UNCHANGED <<task, att, human, plan, proj>>
    BY <1>1 DEF Stops, Submit, Crash, Finish
  <2>2. Agents'
    BY <1>1, <1>c DEF Stops, Submit, Crash, Finish
  <2> QED BY <2>1, <2>2, <1>e, <1>f, QuietPool
<1>3. ASSUME NEW w \in Workers, Commit(w)
      PROVE  PoolInv'
  <2> DEFINE n == worker[w].att
  <2>1. worker[w].pc # "IDLE" /\ UNCHANGED <<human, plan>>
    BY <1>3 DEF Commit
  <2>2. Agents'
    BY <1>3, <1>c DEF Commit
  <2>3. CASE ~Accepts(w)
    BY <1>3, <2>1, <2>2, <2>3, <1>e, <1>f, QuietPool DEF Commit
  <2>4. CASE Accepts(w)
    <3>1. n \in Numbers /\ att[n].status = "RUNNING"
      BY <2>1, <2>4, LeasedRuns DEF Accepts, Leased
    <3>2. n = task.cur /\ task.stage \in {"PENDING", "RUNNING"} /\ Active
      BY <2>4, <3>1 DEF PoolInv, OpenAtMostCurrent, OpenStatuses, Accepts
    <3>3. worker[w].lease \in Nat /\ att[n] \in Rows
      BY <3>1 DEF Shape, Work
    <3>4. CASE worker[w].kind \in {"RETRYABLE", "FATAL"}
      <4>1. FinishFailed(n, worker[w].lease, worker[w].kind = "RETRYABLE")
        BY <1>3, <2>4, <3>4 DEF Commit
      <4> HIDE DEF n
      <4> QED BY <2>1, <2>2, <3>2, <3>3, <4>1, FinishPool
    <3>5. CASE worker[w].kind \notin {"RETRYABLE", "FATAL"}
      <4>1. /\ att' = [att EXCEPT ![n] = Ended(att[n], "SUCCEEDED", worker[w].lease)]
            /\ task' = Succeeds(w, n) /\ proj' = Touched
        BY <1>3, <2>4, <3>5 DEF Commit
      <4>2. task.specs = {} /\ ~task.cancel
        BY <3>2 DEF PoolInv, SpecIsLast, Active
      <4>3. /\ task'.cur = n /\ task'.cancel = FALSE
            /\ \/ task'.stage = "SUCCEEDED" /\ task'.life = "RUNNING" /\ task'.specs = {n}
               \/ task'.stage = "WAITING_INPUT" /\ task'.life = "WAITING_INPUT" /\ task'.specs = {}
        BY <1>b, <3>2, <4>1, <4>2 DEF Succeeds, Specified, Paused, Tasks
      <4>4. att'[n].status = "SUCCEEDED" /\ \A m \in Numbers : m # n => att'[m] = att[m]
        BY <3>1, <3>3, <4>1 DEF Ended, Rows, Shape
      <4> HIDE DEF n
      <4>5. OpenAtMostCurrent'
        BY <3>2, <4>3, <4>4 DEF PoolInv, OpenAtMostCurrent, OpenStatuses
      <4>6. RetryKnows'
        BY <2>1, <3>2, <4>3 DEF PoolInv, RetryKnows
      <4>7. EndedIsClosed' /\ SpecIsLast' /\ EndIsAnnounced'
        BY <4>3, <4>4 DEF EndedIsClosed, SpecIsLast, EndIsAnnounced, Terminal
      <4> QED BY <2>2, <4>1, <4>5, <4>6, <4>7, TouchedReadings DEF PoolInv
    <3> QED BY <3>4, <3>5
  <2> QED BY <2>3, <2>4
<1>4. ASSUME NEW w \in Workers, Generated(w) \/ Persist(w) \/ Failing(w) \/ Failed(w)
      PROVE  PoolInv'
  <2>1. worker[w].pc \in {"IDLE", "WORK", "SUBMIT", "COMMIT"}
    BY DEF PoolInv, Agents
  <2> QED BY <1>4, <2>1 DEF Generated, Persist, Failing, Failed
<1>6. ASSUME NEW w \in Workers, NEW n \in Numbers, Claim(w, n)
      PROVE  PoolInv'
  <2>1. Given(w, n) /\ n = task.cur /\ Active /\ task.stage \in {"PENDING", "RUNNING"}
    BY <1>6 DEF Claim, Candidate
  <2>2. UNCHANGED <<human, plan>> /\ proj' = Touched
    BY <2>1 DEF Given
  <2>3. Agents'
    BY <2>1 DEF Given, Agents, PoolInv, Shape, Work, NoWork
  <2>4. task.specs = {} /\ ~task.cancel
    BY <2>1 DEF PoolInv, SpecIsLast, Active
  <2>5. task'.cur = n /\ task'.cancel = FALSE /\ task'.specs = {} /\ task'.stage = "RUNNING" /\ task'.life = "RUNNING"
    BY <1>b, <2>1, <2>4 DEF Given, Tasks
  <2>6. att'[n].status = "RUNNING" /\ \A m \in Numbers : m # n => att'[m] = att[m]
    BY <1>a, <2>1 DEF Given, Rows, Shape
  <2>7. OpenAtMostCurrent'
    BY <2>1, <2>5, <2>6 DEF PoolInv, OpenAtMostCurrent, OpenStatuses
  <2>8. RetryKnows'
    BY <2>1, <2>2, <2>5 DEF PoolInv, RetryKnows
  <2>9. EndedIsClosed' /\ SpecIsLast' /\ EndIsAnnounced'
    BY <2>5 DEF EndedIsClosed, SpecIsLast, EndIsAnnounced, Terminal
  <2> QED BY <2>2, <2>3, <2>7, <2>8, <2>9, TouchedReadings DEF PoolInv
<1>5. ASSUME NEW w \in Workers, NEW n \in Numbers, TakeOver(w, n)
      PROVE  PoolInv'
  BY <1>5 DEF TakeOver
<1>7. ASSUME NEW w \in Workers, NEW n \in Numbers, Expire(w, n)
      PROVE  PoolInv'
  <2>1. n = task.cur /\ Active /\ task.stage \in {"PENDING", "RUNNING"} /\ UNCHANGED <<human, plan, worker>> /\ proj' = Touched
    BY <1>7 DEF Expire, Candidate
  <2>2. att'[n].status = "TIMED_OUT" /\ \A m \in Numbers : m # n => att'[m] = att[m]
    BY <1>a, <1>7 DEF Expire, Ended, Rows, Shape
  <2>3. task.specs = {} /\ ~task.cancel /\ task.life \in {"QUEUED", "RUNNING"}
    BY <2>1 DEF PoolInv, SpecIsLast, Active
  <2>4. task'.cur = n /\ task'.cancel = FALSE /\ task'.specs = {} /\ task'.stage = "FAILED" /\ task'.life = task.life
    BY <1>b, <1>7, <2>1, <2>3 DEF Expire, Tasks
  <2>5. OpenAtMostCurrent'
    BY <2>1, <2>2, <2>4 DEF PoolInv, OpenAtMostCurrent, OpenStatuses
  <2>6. RetryKnows'
    BY <2>4 DEF RetryKnows
  <2>7. EndedIsClosed' /\ SpecIsLast' /\ EndIsAnnounced'
    BY <2>3, <2>4 DEF EndedIsClosed, SpecIsLast, EndIsAnnounced, Terminal
  <2> QED BY <1>d, <2>1, <2>5, <2>6, <2>7, TouchedReadings DEF PoolInv
<1>8. ASSUME NEW w \in Workers, NEW n \in Numbers, Recover(w, n)
      PROVE  PoolInv'
  <2>1. /\ FinishFailed(task.cur, 0, TRUE) /\ Active /\ task.stage \in {"PENDING", "RUNNING"}
        /\ UNCHANGED <<human, plan, worker>>
    BY <1>8 DEF Recover, Candidate
  <2> QED BY <1>d, <2>1, FinishPool
<1>9. ASSUME NEW h \in Humans, AskCancel(h) \/ AskRetry(h)
      PROVE  PoolInv'
  <2>1. UNCHANGED <<task, att, plan, worker, proj>>
    BY <1>9 DEF AskCancel, AskRetry
  <2>2. RetryKnows'
    BY <1>9 DEF AskCancel, AskRetry, Shape, Requests, RetryKnows, PoolInv
  <2> QED BY <1>d, <1>f, <2>1, <2>2, QuietPool
<1>10. ASSUME NEW h \in Humans, Cancel(h)
       PROVE  PoolInv'
  <2>1. UNCHANGED <<worker, plan>> /\ proj' = Touched
    BY <1>10 DEF Cancel
  <2>2. /\ task'.cur = task.cur /\ task'.cancel = TRUE /\ task'.specs = task.specs /\ task'.life = "CANCELLED"
        /\ task'.stage = (IF task.stage \in OpenStages THEN "CANCELLED" ELSE task.stage)
    BY <1>b, <1>10 DEF Cancel, Tasks
  <2>3. \A m \in Numbers : /\ att'[m].status \notin OpenStatuses
                           /\ att[m].status \notin OpenStatuses => att'[m] = att[m]
    BY <1>a, <1>10 DEF Cancel, Withdrawn, Ended, Rows, OpenStatuses
  <2>4. OpenAtMostCurrent'
    BY <2>2, <2>3 DEF OpenAtMostCurrent, OpenStages
  <2>5. RetryKnows'
    BY <1>10, <2>2 DEF PoolInv, RetryKnows, Cancel, NoRequest, OpenStages, Shape
  <2>6. EndedIsClosed' /\ EndIsAnnounced'
    BY <2>2 DEF EndedIsClosed, EndIsAnnounced, OpenStages
  <2>7. SpecIsLast'
    BY <1>b, <2>2, <2>3 DEF PoolInv, SpecIsLast, OpenStatuses, OpenStages, Tasks
  <2> QED BY <1>d, <2>1, <2>4, <2>5, <2>6, <2>7, TouchedReadings DEF PoolInv
<1>11. ASSUME NEW h \in Humans, Retry(h)
       PROVE  PoolInv'
  <2>1. \A g \in Humans : human'[g].pc = "RETRY" => human'[g] = human[g]
    BY <1>11 DEF Retry, Shape, NoRequest
  <2>2. UNCHANGED <<worker, plan>>
    BY <1>11 DEF Retry
  <2> DEFINE next == human[h].seen + 1
  <2>3. CASE Refused(next)
    <3>1. UNCHANGED <<task, att, proj>>
      BY <1>11, <2>3 DEF Retry
    <3>2. RetryKnows'
      BY <2>1, <3>1 DEF PoolInv, RetryKnows
    <3> QED BY <1>d, <1>f, <2>2, <3>1, <3>2, QuietPool
  <2>4. CASE ~Refused(next)
    <3>1. next \in Numbers /\ Known(human[h].seen) /\ att[next].status = "NONE" /\ ~task.cancel
      BY <1>11, <2>4 DEF Retry, Refused, Numbered
    <3>2. next = task.cur + 1 /\ human[h].seen = task.cur
      BY <1>a, <1>b, <3>1, Parameters DEF Known, RowKept, Numbers
    <3>3. task.stage = "FAILED"
      BY <1>11, <3>2 DEF Retry, PoolInv, RetryKnows
    <3>4. /\ att' = [att EXCEPT ![next] = NewAttempt]
          /\ task' = [task EXCEPT !.stage = "PENDING", !.cur = next, !.max = IF task.max < next THEN next ELSE task.max,
                                  !.life = "QUEUED", !.gen = task.gen + 1, !.dirty = TRUE]
          /\ proj' = Touched
      BY <1>11, <2>4 DEF Retry
    <3> HIDE DEF next
    <3>5. /\ task'.cur = next /\ task'.life = "QUEUED" /\ task'.stage = "PENDING"
          /\ task'.cancel = task.cancel /\ task'.specs = task.specs
      BY <1>b, <3>4 DEF Tasks
    <3> QED BY <1>d, <2>1, <2>2, <3>1, <3>2, <3>3, <3>4, <3>5, AgainPool
  <2> QED BY <2>3, <2>4
<1>12. ASSUME NEW h \in Humans, Supplement(h)
       PROVE  PoolInv'
  <2> DEFINE next == task.cur + 1
  <2>1. UNCHANGED <<worker, plan, human>> /\ next \in Numbers /\ ~task.cancel /\ task.stage = "WAITING_INPUT"
    BY <1>12 DEF Supplement
  <2>2. /\ att' = [att EXCEPT ![next] = NewAttempt] /\ proj' = Touched
        /\ task'.cur = next /\ task'.life = "QUEUED" /\ task'.stage = "PENDING"
        /\ task'.cancel = task.cancel /\ task'.specs = task.specs
    BY <1>b, <1>12 DEF Supplement, Tasks
  <2> QED BY <1>d, <2>1, <2>2, AgainPool
<1>13. ASSUME NEW p \in Projectors, ReadTask(p) \/ ReadStages(p)
       PROVE  PoolInv'
  <2>1. UNCHANGED <<task, att, worker, human, plan>>
    BY <1>13 DEF ReadTask, ReadStages
  <2>2. ReadingHolds'
    <3>1. CASE ReadTask(p)
      BY <2>1, <3>1 DEF ReadTask, ReadingHolds, PoolInv, Shape, NoProjection
    <3>2. CASE ReadStages(p)
      BY <2>1, <3>2 DEF ReadStages, ReadingHolds, PoolInv, Shape, Readings
    <3> QED BY <1>13, <3>1, <3>2
  <2> QED BY <1>d, <1>e, <2>1, <2>2, QuietPool
<1>14. ASSUME NEW p \in Projectors, Project(p)
       PROVE  PoolInv'
  <2>1. UNCHANGED <<plan, worker, human>>
    BY <1>14 DEF Project
  <2>2. CASE ~Applies(proj[p])
    <3>1. UNCHANGED <<task, att>>
      BY <1>14, <2>2 DEF Project
    <3>2. ReadingHolds'
      BY <1>14, <2>2, <3>1 DEF Project, ReadingHolds, PoolInv, Shape, NoProjection
    <3> QED BY <1>d, <1>e, <2>1, <3>1, <3>2, QuietPool
  <2>3. CASE Applies(proj[p])
    <3> DEFINE life == Projection(proj[p])
    <3>1. /\ proj[p].life = task.life /\ proj[p].cancel = task.cancel /\ proj[p].stage = task.stage
          /\ proj[p].stage \in Stages
      BY <1>14, <2>3 DEF Project, Applies, PoolInv, ReadingHolds, Shape, Readings
    <3>2. /\ task'.cur = task.cur /\ task'.cancel = task.cancel /\ task'.specs = task.specs /\ task'.life = life
          /\ task'.gen = task.gen
          /\ task'.stage = (IF life = "TIMED_OUT" /\ task.stage \in OpenStages THEN "FAILED" ELSE task.stage)
          /\ task'.told = (IF life \in Terminal /\ proj[p].life \notin Terminal THEN task.told \cup {task.gen} ELSE task.told)
          /\ att' = (IF life = "TIMED_OUT" THEN Withdrawn("TIMED_OUT") ELSE att)
          /\ proj' = [Touched EXCEPT ![p] = NoProjection]
      <4>1. task' = [task EXCEPT !.life = life, !.dirty = FALSE,
                                 !.stage = IF life = "TIMED_OUT" /\ task.stage \in OpenStages THEN "FAILED" ELSE task.stage,
                                 !.told = IF life \in Terminal /\ proj[p].life \notin Terminal
                                            THEN task.told \cup {task.gen} ELSE task.told]
            /\ att' = (IF life = "TIMED_OUT" THEN Withdrawn("TIMED_OUT") ELSE att)
            /\ proj' = [Touched EXCEPT ![p] = NoProjection]
        BY <1>14, <2>3 DEF Project
      <4> HIDE DEF life
      <4> QED BY <1>b, <4>1 DEF Tasks
    <3>3. ReadingHolds'
      BY <3>2 DEF ReadingHolds, Touched, NoProjection, Shape, Readings
    <3>4. \A m \in Numbers : /\ life = "TIMED_OUT" => att'[m].status \notin OpenStatuses
                             /\ life # "TIMED_OUT" => att'[m] = att[m]
                             /\ att[m].status \notin OpenStatuses => att'[m] = att[m]
      <4> HIDE DEF life
      <4> QED BY <1>a, <3>2 DEF Withdrawn, Ended, Rows, OpenStatuses
    <3>5. /\ task.cancel <=> life = "CANCELLED"
          /\ life \in {"COMPLETED", "CANCELLED"} => task.stage \notin {"PENDING", "RUNNING"}
      BY <3>1 DEF Projection, TimedOut, PoolInv, EndedIsClosed, Stages, OpenStages, Terminal
    <3> HIDE DEF life
    <3>6. OpenAtMostCurrent'
      BY <3>2, <3>4 DEF PoolInv, OpenAtMostCurrent, OpenStages
    <3>7. RetryKnows'
      BY <2>1, <3>2 DEF PoolInv, RetryKnows, OpenStages
    <3>8. EndedIsClosed'
      BY <3>2, <3>5 DEF PoolInv, EndedIsClosed, OpenStages, Terminal
    <3>9. EndIsAnnounced'
      BY <1>b, <3>1, <3>2, <3>5 DEF PoolInv, EndIsAnnounced, EndedIsClosed, Terminal
    <3>10. SpecIsLast'
      BY <1>b, <3>2, <3>4 DEF PoolInv, SpecIsLast, OpenStatuses, OpenStages, Tasks
    <3> QED BY <1>d, <2>1, <3>3, <3>6, <3>7, <3>8, <3>9, <3>10 DEF PoolInv
  <2> QED BY <2>2, <2>3
<1>15. ASSUME NEW n \in Numbers, Lapse(n)
       PROVE  PoolInv'
  <2>1. UNCHANGED <<task, worker, human, plan, proj>> /\ att' = [att EXCEPT ![n] = [att[n] EXCEPT !.lapsed = TRUE]]
    BY <1>15 DEF Lapse
  <2>2. \A m \in Numbers : att'[m].status = att[m].status
    BY <1>a, <2>1 DEF Shape, Rows
  <2> QED BY <1>d, <1>e, <1>f, <2>1, <2>2, QuietPool
<1>16. CASE DeadlinePasses
  <2>1. /\ task'.life = task.life /\ task'.cancel = task.cancel /\ task'.stage = task.stage
        /\ task'.cur = task.cur /\ task'.specs = task.specs /\ task'.gen = task.gen /\ task'.told = task.told
        /\ UNCHANGED <<att, plan, worker, human, proj>>
    BY <1>b, <1>16 DEF DeadlinePasses, Tasks
  <2>2. ReadingHolds'
    BY <2>1 DEF PoolInv, ReadingHolds
  <2> QED BY <1>d, <1>e, <2>1, <2>2, QuietPool
<1>17. CASE UNCHANGED vars
  BY <1>17, <1>d, <1>e, <1>f, QuietPool DEF vars
<1> QED BY <1>1, <1>3, <1>4, <1>5, <1>6, <1>7, <1>8, <1>9, <1>10, <1>11, <1>12,
           <1>13, <1>14, <1>15, <1>16, <1>17 DEF Next, Works, Takes, Projects

(* A task just created. *)
LEMMA InitAnalysis ==
    ASSUME Init
    PROVE  AnalysisInv
<1>0. /\ plan \in Plans /\ plan.executor \in {"AGENT", "DETERMINISTIC"} /\ plan.budget \in 1..MaxNumber
      /\ MaxNumber \in Nat /\ 1 \in Numbers
  BY Parameters DEF Init, Numbers
<1>1. /\ task.life = "QUEUED" /\ task.stage = "PENDING" /\ task.cur = 1 /\ task.max = plan.budget /\ task.gen = 1
      /\ task.cancel = FALSE /\ task.specs = {}
  BY DEF Init
<1>2. \A n \in Numbers : att[n] = IF n = 1 THEN NewAttempt ELSE NoAttempt
  BY DEF Init
<1>3. Shape
  <2>1. task \in Tasks
    BY <1>0 DEF Init, Tasks, Lives, Stages, OpenStages, Numbers
  <2>2. faults \in 0..MaxFaults
    BY Parameters DEF Init
  <2>3. att \in [Numbers -> Rows] /\ worker \in [Workers -> Work] /\ human \in [Humans -> Requests]
        /\ proj \in [Projectors -> Readings]
    BY RowsTyped, RecordsTyped DEF Init
  <2> QED BY <1>0, <2>1, <2>2, <2>3 DEF Shape
<1>4. Numbered
  <2>1. Counted
    BY <1>0, <1>1 DEF Counted
  <2>2. \A n \in Numbers : RowKept(n)
    BY <1>0, <1>1, <1>2 DEF RowKept, NewAttempt, NoAttempt, Numbers
  <2> QED BY <2>1, <2>2 DEF Numbered, Init, NoWork, NoRequest
<1>5. PoolInv
  <2>1. OpenAtMostCurrent
    BY <1>0, <1>1, <1>2 DEF OpenAtMostCurrent, NewAttempt, NoAttempt, OpenStatuses
  <2> QED BY <1>1, <2>1 DEF PoolInv, Agents, EndedIsClosed, SpecIsLast, RetryKnows, ReadingHolds, EndIsAnnounced,
                            Init, NoWork, NoRequest, NoProjection, Terminal
<1> QED BY <1>3, <1>4, <1>5 DEF AnalysisInv

(* The executor and the budget of a task never change. *)
LEMMA PlanKept ==
    ASSUME [Next]_vars
    PROVE  plan' = plan
<1>1. ASSUME NEW w \in Workers, Works(w) \/ Crash(w)
      PROVE  plan' = plan
  BY <1>1 DEF Works, Stops, Submit, Commit, Finish, Generated, Persist, Failing, Failed, Crash
<1>2. ASSUME NEW w \in Workers, NEW n \in Numbers, Takes(w, n)
      PROVE  plan' = plan
  BY <1>2 DEF Takes, Claim, Expire, Recover, TakeOver, Given
<1>3. ASSUME NEW h \in Humans, AskCancel(h) \/ Cancel(h) \/ AskRetry(h) \/ Retry(h) \/ Supplement(h)
      PROVE  plan' = plan
  BY <1>3 DEF AskCancel, Cancel, AskRetry, Retry, Supplement
<1>4. ASSUME NEW p \in Projectors, Projects(p)
      PROVE  plan' = plan
  BY <1>4 DEF Projects, ReadTask, ReadStages, Project
<1>5. (\E n \in Numbers : Lapse(n)) \/ DeadlinePasses => plan' = plan
  BY DEF Lapse, DeadlinePasses
<1> QED BY <1>1, <1>2, <1>3, <1>4, <1>5 DEF Next, vars

(* Every step keeps the invariant. *)
LEMMA StepAnalysis ==
    ASSUME AnalysisInv, [Next]_vars
    PROVE  AnalysisInv'
<1>1. plan' = plan
  BY PlanKept
<1>2. Pool' = Pool
  BY <1>1 DEF Pool
<1> QED BY <1>2, ShapeKept, NumberedStays, PoolStays DEF AnalysisInv

(* The invariant holds of every reachable state. *)
THEOREM AnalysisInvariant == Spec => []AnalysisInv
<1>1. Init => AnalysisInv
  BY InitAnalysis
<1>2. AnalysisInv /\ [Next]_vars => AnalysisInv'
  BY StepAnalysis
<1> QED BY <1>1, <1>2, PTL DEF Spec

(* The invariant gives what the runs check. *)
LEMMA AnalysisImplies ==
    ASSUME AnalysisInv
    PROVE  StageFollowsAttempt /\ EndIsAnnounced
<1>1. TypeAnalysis
  <2>1. /\ task \in Tasks /\ faults \in 0..MaxFaults /\ Counted
        /\ \A n \in Numbers : att[n] \in Rows /\ RowKept(n)
    BY DEF AnalysisInv, Shape, Numbered
  <2> QED BY <2>1 DEF TypeAnalysis, Tasks, Rows, Counted, RowKept, Lives, Stages
<1>2. ASSUME Pool
      PROVE  /\ Open \subseteq {task.cur}
             /\ (task.stage \in {"PENDING", "RUNNING"}) <=> (Open = {task.cur})
             /\ task.life \in Terminal => Open = {}
             /\ Cardinality(task.specs) <= 1
             /\ \A n \in task.specs : n = task.cur /\ att[n].status = "SUCCEEDED"
  <2>1. task.cur \in Numbers /\ PoolInv
    BY <1>2 DEF AnalysisInv, Shape, Tasks
  <2>2. \A n : n \in Open <=> n = task.cur /\ task.stage \in {"PENDING", "RUNNING"}
    BY <2>1 DEF Open, PoolInv, OpenAtMostCurrent
  <2>3. task.specs \subseteq {task.cur} /\ \A n \in task.specs : n = task.cur /\ att[n].status = "SUCCEEDED"
    BY <2>1 DEF PoolInv, SpecIsLast
  <2>4. Cardinality(task.specs) <= 1
    <3>1. IsFiniteSet({task.cur}) /\ Cardinality({task.cur}) = 1
      BY FS_Singleton
    <3> QED BY <2>3, <3>1, FS_Subset
  <2>5. task.life \in Terminal => task.stage \notin {"PENDING", "RUNNING"}
    BY <2>1 DEF PoolInv, EndedIsClosed
  <2> QED BY <2>2, <2>3, <2>4, <2>5
<1> QED BY <1>1, <1>2 DEF StageFollowsAttempt, EndIsAnnounced, AnalysisInv, PoolInv

(* The stage is open exactly while its current attempt is, an ended task has no
   open attempt, and its specification is made once: claim, submitOutcome,
   cancel, retryStage and projectTask keep it in any order. *)
THEOREM StageFollowsItsAttempt == Spec => []StageFollowsAttempt
BY AnalysisInvariant, AnalysisImplies, PTL

(* projectTask enqueues the notification of a task that ends by itself in the
   transaction that ends it. *)
THEOREM EndsAreAnnounced == Spec => []EndIsAnnounced
BY AnalysisInvariant, AnalysisImplies, PTL

---------------------------------------------------------------------------
(* What a step of the pool does to the attempts. *)
Same(m) == att'[m].status = att[m].status /\ att'[m].owner = att[m].owner

(* to any, *)
Quiet == \A m \in Numbers : Same(m)

(* a claim, *)
Taken(n, w) ==
    /\ ~task.cancel /\ att[n].status = "PENDING"
    /\ att'[n].status = "RUNNING" /\ att'[n].owner = w
    /\ \A m \in Numbers \ {n} : Same(m)

(* a failure, a recovery or a success with a live lease, *)
Reported(n) ==
    /\ ~task.cancel /\ att[n].status = "RUNNING" /\ att[n].owner # NoWorker
    /\ att'[n].owner = NoWorker
    /\ \/ ~att[n].lapsed /\ att'[n].status = "SUCCEEDED" /\ \A m \in Numbers \ {n} : Same(m)
       \/ att'[n].status = "FAILED" /\ \A m \in Numbers \ {n} : Same(m)
       \/ /\ n + 1 \in Numbers /\ n + 1 # n /\ att'[n].status = "FAILED"
          /\ att[n + 1].status = "NONE" /\ att'[n + 1].status = "PENDING"
          /\ att[n + 1].owner = att'[n + 1].owner
          /\ \A m \in Numbers \ {n, n + 1} : Same(m)

(* a cancellation or a deadline, *)
WithdrawnAll ==
    \E s \in {"TIMED_OUT", "CANCELLED"} : \A m \in Numbers :
        IF att[m].status \in OpenStatuses THEN att'[m].status = s /\ att'[m].owner = NoWorker ELSE Same(m)

(* another attempt for a person. *)
AskedAgain(n) ==
    /\ ~task.cancel /\ Open = {}
    /\ n > 1 /\ att[n].status = "NONE" /\ att[n - 1].status # "NONE"
    /\ att'[n].status = "PENDING" /\ att[n].owner = att'[n].owner
    /\ \A m \in Numbers \ {n} : Same(m)

Moves ==
    \/ Quiet \/ WithdrawnAll
    \/ \E n \in Numbers : Reported(n) \/ AskedAgain(n) \/ \E w \in Workers : Taken(n, w)

(* finishFailedAttempt is a report, that may open the next attempt. *)
LEMMA FinishMoves ==
    ASSUME Shape, Numbered, NEW by \in Nat, NEW retryable,
           FinishFailed(task.cur, by, retryable), Active, att[task.cur].status = "RUNNING"
    PROVE  Reported(task.cur) /\ (task.cancel => task'.cancel)
<1> DEFINE n == task.cur
<1>0. n \in Numbers /\ n \in Nat /\ task \in Tasks /\ att[n] \in Rows /\ RowKept(n)
  BY DEF Shape, Tasks, Numbers, Numbered
<1>1. ~task.cancel /\ att[n].owner # NoWorker
  BY <1>0 DEF Active, RowKept
<1>2. CASE Retries(n, retryable)
  <2>1. n + 1 \in Numbers /\ n + 1 # n
    BY <1>0, <1>2, Parameters DEF Retries, Tasks, Numbers
  <2>2. RowKept(n + 1)
    BY <2>1 DEF Numbered
  <2>3. att[n + 1].status = "NONE" /\ att[n + 1].owner = NoWorker
    BY <1>0, <2>1, <2>2 DEF RowKept
  <2>4. /\ att'[n + 1] = NewAttempt
        /\ \A m \in Numbers : m # n + 1 /\ m # n => att'[m] = att[m]
        /\ att'[n] = [Ended(att[n], "FAILED", by) EXCEPT !.fence = @ + 1]
    BY <1>0, <1>2, <2>1 DEF FinishFailed
  <2>5. att'[n].status = "FAILED" /\ att'[n].owner = NoWorker
        /\ att'[n + 1].status = "PENDING" /\ att'[n + 1].owner = NoWorker
    BY <1>0, <2>4 DEF Ended, Rows, NewAttempt, NoAttempt
  <2> QED BY <1>1, <2>1, <2>3, <2>4, <2>5 DEF Reported, Same
<1>3. CASE ~Retries(n, retryable)
  <2>1. /\ \A m \in Numbers : m # n => att'[m] = att[m]
        /\ att'[n] = [Ended(att[n], "FAILED", by) EXCEPT !.fence = @ + 1]
    BY <1>0, <1>3 DEF FinishFailed
  <2>2. att'[n].status = "FAILED" /\ att'[n].owner = NoWorker
    BY <1>0, <2>1 DEF Ended, Rows
  <2> QED BY <1>1, <2>1, <2>2 DEF Reported, Same
<1> QED BY <1>1, <1>2, <1>3

(* Every step is one of these, and none takes a cancellation back. *)
LEMMA PoolMoves ==
    ASSUME AnalysisInv, [Next]_vars, Pool
    PROVE  Moves /\ (task.cancel => task'.cancel)
<1>0. Shape /\ Numbered /\ PoolInv /\ plan.executor # "DETERMINISTIC"
  BY DEF AnalysisInv, Pool
<1> USE <1>0
<1>a. \A n \in Numbers : att[n] \in Rows /\ RowKept(n)
  BY DEF Shape, Numbered
<1>b. task \in Tasks /\ task.cur \in Numbers /\ task.cur \in Nat
  BY DEF Shape, Tasks, Numbers
<1>1. ASSUME NEW w \in Workers, Stops(w) \/ Submit(w) \/ Crash(w) \/ \E kind \in Kinds : Finish(w, kind)
      PROVE  UNCHANGED <<task, att>>
  BY <1>1 DEF Stops, Submit, Crash, Finish
<1>2. ASSUME NEW w \in Workers, Commit(w)
      PROVE  Moves /\ (task.cancel => task'.cancel)
  <2> DEFINE n == worker[w].att
  <2>1. worker[w].pc # "IDLE"
    BY <1>2 DEF Commit
  <2>2. CASE ~Accepts(w)
    BY <1>2, <2>2 DEF Commit, Moves, Quiet, Same
  <2>3. CASE Accepts(w)
    <3>1. n \in Numbers /\ att[n].status = "RUNNING" /\ ~task.cancel /\ Active /\ ~att[n].lapsed
      BY <2>1, <2>3, LeasedRuns DEF Accepts, Leased, Active
    <3>2. n = task.cur /\ att[n].owner # NoWorker
      BY <1>a, <3>1 DEF PoolInv, OpenAtMostCurrent, OpenStatuses, RowKept
    <3>3. worker[w].lease \in Nat /\ att[n] \in Rows
      BY <3>1 DEF Shape, Work
    <3>4. CASE worker[w].kind \in {"RETRYABLE", "FATAL"}
      <4>1. FinishFailed(n, worker[w].lease, worker[w].kind = "RETRYABLE")
        BY <1>2, <2>3, <3>4 DEF Commit
      <4> HIDE DEF n
      <4> QED BY <3>1, <3>2, <3>3, <4>1, FinishMoves DEF Moves
    <3>5. CASE worker[w].kind \notin {"RETRYABLE", "FATAL"}
      <4>1. att' = [att EXCEPT ![n] = Ended(att[n], "SUCCEEDED", worker[w].lease)]
        BY <1>2, <2>3, <3>5 DEF Commit
      <4>2. att'[n].status = "SUCCEEDED" /\ att'[n].owner = NoWorker /\ \A m \in Numbers : m # n => att'[m] = att[m]
        BY <3>1, <3>3, <4>1 DEF Ended, Rows, Shape
      <4> HIDE DEF n
      <4> QED BY <3>1, <3>2, <4>2 DEF Moves, Reported, Same
    <3> QED BY <3>4, <3>5
  <2> QED BY <2>2, <2>3
<1>3. ASSUME NEW w \in Workers, Generated(w) \/ Persist(w) \/ Failing(w) \/ Failed(w)
      PROVE  FALSE
  <2>1. worker[w].pc \in {"IDLE", "WORK", "SUBMIT", "COMMIT"}
    BY DEF PoolInv, Agents
  <2> QED BY <1>3, <2>1 DEF Generated, Persist, Failing, Failed
<1>4. ASSUME NEW w \in Workers, NEW n \in Numbers, Claim(w, n)
      PROVE  Moves /\ (task.cancel => task'.cancel)
  <2>1. Given(w, n) /\ ~task.cancel /\ att[n].status = "PENDING"
    BY <1>4 DEF Claim, Candidate, Active
  <2>2. att'[n].status = "RUNNING" /\ att'[n].owner = w /\ \A m \in Numbers : m # n => att'[m] = att[m]
    BY <1>a, <2>1 DEF Given, Rows, Shape
  <2> QED BY <2>1, <2>2 DEF Moves, Taken, Same
<1>5. ASSUME NEW w \in Workers, NEW n \in Numbers, TakeOver(w, n)
      PROVE  FALSE
  BY <1>5 DEF TakeOver
<1>6. ASSUME NEW w \in Workers, NEW n \in Numbers, Expire(w, n)
      PROVE  Moves /\ (task.cancel => task'.cancel)
  <2>1. n = task.cur /\ ~task.cancel /\ att[n].status \in OpenStatuses
    BY <1>6 DEF Expire, Candidate, Active, OpenStatuses
  <2>2. att'[n].status = "TIMED_OUT" /\ att'[n].owner = NoWorker /\ \A m \in Numbers : m # n => att'[m] = att[m]
    BY <1>a, <1>6 DEF Expire, Ended, Rows, Shape
  <2>3. \A m \in Numbers : m # n => att[m].status \notin OpenStatuses
    BY <2>1 DEF PoolInv, OpenAtMostCurrent
  <2> QED BY <2>1, <2>2, <2>3 DEF Moves, WithdrawnAll, Same
<1>7. ASSUME NEW w \in Workers, NEW n \in Numbers, Recover(w, n)
      PROVE  Moves /\ (task.cancel => task'.cancel)
  <2>1. FinishFailed(task.cur, 0, TRUE) /\ Active /\ att[task.cur].status = "RUNNING"
    BY <1>7 DEF Recover, Candidate
  <2> QED BY <1>b, <2>1, FinishMoves DEF Moves
<1>8. ASSUME NEW h \in Humans, AskCancel(h) \/ AskRetry(h)
      PROVE  UNCHANGED <<task, att>>
  BY <1>8 DEF AskCancel, AskRetry
<1>9. ASSUME NEW h \in Humans, Cancel(h)
      PROVE  Moves /\ (task.cancel => task'.cancel)
  <2>1. task'.cancel
    BY <1>b, <1>9 DEF Cancel, Tasks
  <2>2. \A m \in Numbers : IF att[m].status \in OpenStatuses
                             THEN att'[m].status = "CANCELLED" /\ att'[m].owner = NoWorker ELSE Same(m)
    BY <1>a, <1>9 DEF Cancel, Withdrawn, Ended, Rows, Same
  <2> QED BY <2>1, <2>2 DEF Moves, WithdrawnAll
<1>10. ASSUME NEW h \in Humans, Retry(h)
       PROVE  Moves /\ (task.cancel => task'.cancel)
  <2> DEFINE next == human[h].seen + 1
  <2>1. CASE Refused(next)
    BY <1>10, <2>1 DEF Retry, Moves, Quiet, Same
  <2>2. CASE ~Refused(next)
    <3>1. next \in Numbers /\ Known(human[h].seen) /\ att[next].status = "NONE" /\ ~task.cancel
      BY <1>10, <2>2 DEF Retry, Refused, Numbered
    <3>2. next = task.cur + 1 /\ human[h].seen = task.cur /\ next > 1 /\ next - 1 = task.cur
      BY <1>a, <1>b, <3>1, Parameters DEF Known, RowKept, Numbers
    <3>3. Open = {}
      BY <1>10, <3>2 DEF Retry, PoolInv, RetryKnows, OpenAtMostCurrent, Open
    <3>4. att' = [att EXCEPT ![next] = NewAttempt]
      BY <1>10, <2>2 DEF Retry
    <3> HIDE DEF next
    <3>5. /\ att'[next].status = "PENDING" /\ att'[next].owner = NoWorker
          /\ \A m \in Numbers : m # next => att'[m] = att[m]
      BY <3>1, <3>4 DEF NewAttempt, NoAttempt, Shape
    <3>6. att[next].owner = NoWorker /\ att[next - 1].status # "NONE"
      BY <1>a, <1>b, <3>1, <3>2 DEF RowKept
    <3> QED BY <3>1, <3>2, <3>3, <3>5, <3>6 DEF Moves, AskedAgain, Same
  <2> QED BY <2>1, <2>2
<1>11. ASSUME NEW h \in Humans, Supplement(h)
       PROVE  Moves /\ (task.cancel => task'.cancel)
  <2> DEFINE next == task.cur + 1
  <2>1. /\ next \in Numbers /\ ~task.cancel /\ task.stage = "WAITING_INPUT"
        /\ att' = [att EXCEPT ![next] = NewAttempt]
    BY <1>11 DEF Supplement
  <2>2. next > 1 /\ next - 1 = task.cur
    BY <1>b DEF Numbers
  <2>3. Open = {}
    BY <2>1 DEF PoolInv, OpenAtMostCurrent, Open
  <2>4. ~(next <= task.cur)
    BY <1>b
  <2> HIDE DEF next
  <2>5. /\ att'[next].status = "PENDING" /\ att'[next].owner = NoWorker
        /\ \A m \in Numbers : m # next => att'[m] = att[m]
    BY <2>1 DEF NewAttempt, NoAttempt, Shape
  <2>6. att[next].status = "NONE" /\ att[next].owner = NoWorker /\ att[next - 1].status # "NONE"
    BY <1>a, <1>b, <2>1, <2>2, <2>4 DEF RowKept
  <2> QED BY <2>1, <2>2, <2>3, <2>5, <2>6 DEF Moves, AskedAgain, Same
<1>12. ASSUME NEW p \in Projectors, ReadTask(p) \/ ReadStages(p)
       PROVE  UNCHANGED <<task, att>>
  BY <1>12 DEF ReadTask, ReadStages
<1>13. ASSUME NEW p \in Projectors, Project(p)
       PROVE  Moves /\ (task.cancel => task'.cancel)
  <2>1. task'.cancel = task.cancel
    BY <1>b, <1>13 DEF Project, Tasks
  <2>2. att' = att \/ att' = Withdrawn("TIMED_OUT")
    BY <1>13 DEF Project
  <2>3. CASE att' = att
    BY <2>1, <2>3 DEF Moves, Quiet, Same
  <2>4. CASE att' = Withdrawn("TIMED_OUT")
    <3>1. \A m \in Numbers : IF att[m].status \in OpenStatuses
                               THEN att'[m].status = "TIMED_OUT" /\ att'[m].owner = NoWorker ELSE Same(m)
      BY <1>a, <2>4 DEF Withdrawn, Ended, Rows, Same
    <3> QED BY <2>1, <3>1 DEF Moves, WithdrawnAll
  <2> QED BY <2>2, <2>3, <2>4
<1>14. ASSUME NEW n \in Numbers, Lapse(n)
       PROVE  Moves /\ (task.cancel => task'.cancel)
  <2>1. task' = task /\ att' = [att EXCEPT ![n] = [att[n] EXCEPT !.lapsed = TRUE]]
    BY <1>14 DEF Lapse
  <2>2. \A m \in Numbers : Same(m)
    BY <1>a, <2>1 DEF Shape, Rows, Same
  <2> QED BY <2>1, <2>2 DEF Moves, Quiet
<1>15. CASE DeadlinePasses
  BY <1>b, <1>15 DEF DeadlinePasses, Tasks, Moves, Quiet, Same
<1>16. CASE UNCHANGED vars
  BY <1>16 DEF vars, Moves, Quiet, Same
<1>17. UNCHANGED <<task, att>> => Moves /\ (task.cancel => task'.cancel)
  BY DEF Moves, Quiet, Same
<1> QED BY <1>1, <1>2, <1>3, <1>4, <1>5, <1>6, <1>7, <1>8, <1>9, <1>10, <1>11, <1>12,
           <1>13, <1>14, <1>15, <1>16, <1>17 DEF Next, Works, Takes, Projects

(* submitOutcome: an attempt succeeds only while its lease is live, whatever
   was read before the transaction. *)
THEOREM LateResultsAreRejected == Spec => LateResultRejected
<1> DEFINE A == \A n \in Numbers : Pool /\ att[n].status = "RUNNING" /\ att'[n].status = "SUCCEEDED" => ~att[n].lapsed
<1>1. ASSUME AnalysisInv, [Next]_vars
      PROVE  [A]_vars
  <2> SUFFICES ASSUME NEW n \in Numbers, Pool, att[n].status = "RUNNING", att'[n].status = "SUCCEEDED"
               PROVE  ~att[n].lapsed
    OBVIOUS
  <2>1. Moves
    BY <1>1, PoolMoves
  <2> QED BY <2>1 DEF Moves, Quiet, Same, WithdrawnAll, Reported, AskedAgain, Taken, OpenStatuses
<1> QED BY <1>1, AnalysisInvariant, PTL DEF Spec, LateResultRejected

(* cancel: no claim, outcome, retry, supplement or projection brings a
   cancelled task back or opens an attempt of it. *)
THEOREM CancellationIsFinal == Spec => CancelIsFinal
<1> DEFINE A == Pool /\ task.cancel => task'.life = "CANCELLED" /\ task'.cancel /\ Open' \subseteq Open
<1>1. ASSUME AnalysisInv, [Next]_vars
      PROVE  [A]_vars
  <2> SUFFICES ASSUME Pool, task.cancel
               PROVE  task'.life = "CANCELLED" /\ task'.cancel /\ Open' \subseteq Open
    OBVIOUS
  <2>1. Moves /\ task'.cancel
    BY <1>1, PoolMoves
  <2>2. task'.life = "CANCELLED"
    BY <1>1, <2>1, PoolStays DEF PoolInv, EndedIsClosed
  <2>3. Quiet \/ WithdrawnAll
    BY <2>1 DEF Moves, Reported, AskedAgain, Taken
  <2>4. Open' \subseteq Open
    BY <2>3 DEF Quiet, Same, WithdrawnAll, Open, OpenStatuses
  <2> QED BY <2>1, <2>2, <2>4
<1> QED BY <1>1, AnalysisInvariant, PTL DEF Spec, CancelIsFinal

---------------------------------------------------------------------------
(* A task just created has its first attempt pending. *)
LEMMA InitAttempts ==
    ASSUME Init
    PROVE  Attempts!Init
BY DEF Init, Attempts!Init, NewAttempt, NoAttempt

(* Every step is one StageAttempts allows, or none of it. *)
LEMMA StepAttempts ==
    ASSUME AnalysisInv, [Next]_vars
    PROVE  [Attempts!Next]_(Attempts!avars)
<1>1. plan' = plan
  BY PlanKept
<1>2. CASE ~Pool
  BY <1>1, <1>2 DEF Pool, Attempts!avars
<1>3. CASE Pool
  <2>1. Pool' /\ Moves
    BY <1>1, <1>3, PoolMoves DEF Pool
  <2> USE <1>3, <2>1
  <2>2. CASE Quiet
    BY <2>2 DEF Quiet, Same, Attempts!avars
  <2>3. ASSUME NEW n \in Numbers, NEW w \in Workers, Taken(n, w)
        PROVE  Attempts!Take(n, w)
    BY <2>3 DEF Taken, Same, Attempts!Take
  <2>4. ASSUME NEW n \in Numbers, Reported(n)
        PROVE  Attempts!Report(n)
    BY <2>4 DEF Reported, Same, Attempts!Report
  <2>5. ASSUME NEW n \in Numbers, AskedAgain(n)
        PROVE  Attempts!Again(n)
    <3>1. Attempts!Open = {}
      BY <2>5 DEF AskedAgain, Attempts!Open, Attempts!OpenStatuses, Open, OpenStatuses
    <3>2. n - 1 \in Numbers
      BY <2>5, Parameters DEF AskedAgain, Numbers
    <3> QED BY <2>5, <3>1, <3>2 DEF AskedAgain, Same, Attempts!Again
  <2>6. CASE WithdrawnAll
    <3>1. CASE Open = {}
      <4>1. Quiet
        BY <2>6, <3>1 DEF WithdrawnAll, Open, Quiet
      <4> QED BY <4>1 DEF Quiet, Same, Attempts!avars
    <3>2. CASE Open # {}
      <4>1. PICK n \in Numbers : att[n].status \in OpenStatuses
        BY <3>2 DEF Open
      <4>2. \A m \in Numbers : m # n => att[m].status \notin OpenStatuses
        BY <4>1 DEF AnalysisInv, PoolInv, OpenAtMostCurrent
      <4>3. Attempts!Withdraw(n)
        BY <2>6, <4>1, <4>2 DEF WithdrawnAll, Same, Attempts!Withdraw, Attempts!Withdrawn, Attempts!OpenStatuses, OpenStatuses
      <4> QED BY <4>3 DEF Attempts!Next
    <3> QED BY <3>1, <3>2
  <2> QED BY <2>2, <2>3, <2>4, <2>5, <2>6 DEF Moves, Attempts!Next
<1> QED BY <1>2, <1>3

(* SpecAnalysis implements StageAttempts: one open attempt, one holder, and no
   end rewritten. *)
THEOREM AnalysisImplementsAttempts == Spec => ImplementsAttempts
<1>1. Init => Attempts!Init
  BY InitAttempts
<1>2. AnalysisInv /\ [Next]_vars => [Attempts!Next]_(Attempts!avars)
  BY StepAttempts
<1> QED BY <1>1, <1>2, AnalysisInvariant, PTL DEF Spec, ImplementsAttempts, Attempts!Spec

=============================================================================
