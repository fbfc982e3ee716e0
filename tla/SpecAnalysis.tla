---------------------------- MODULE SpecAnalysis ----------------------------
(***************************************************************************)
(* The analysis stage of one task: SpecAnalysisRuntimeService (claim,      *)
(* heartbeat, submitOutcome and their recoveries), the deterministic       *)
(* executor of TaskExecutionService, cancel, retryStage, the supplement of *)
(* missing input, and the projection of the task from its stage.           *)
(*                                                                         *)
(* Time is two kinds of flags: a lease has lapsed, the task's deadline has *)
(* passed.  The profile of the task stays unresolved, so that nothing      *)
(* happens after the stage has succeeded but cancellation and the          *)
(* deadline.  A transaction that locks the task first is one step, as is   *)
(* every cancellation; one that does not is as many steps as matter.       *)
(***************************************************************************)
EXTENDS Naturals, FiniteSets

CONSTANTS Workers, NoWorker,
          Humans, Projectors,   \* requests of people, replicas that project
          Plans,                \* the executor (SPEC_ANALYSIS_MODE) and the budget of attempts
          Kinds,                \* outcomes of an analysis
          MaxNumber,            \* bound: attempts ever created
          MaxFaults,            \* bound: workers that stop, or whose lease lapses before them
          MayBeLate             \* bound: whether the deadline may pass

ASSUME AnalysisParameters ==
    /\ NoWorker \notin Workers
    /\ Plans \subseteq [executor : {"AGENT", "DETERMINISTIC"}, budget : 1..MaxNumber]
    /\ Kinds \subseteq {"SPEC", "INPUT", "RETRYABLE", "FATAL"}
    /\ MaxNumber \in Nat
    /\ MaxFaults \in Nat /\ MayBeLate \in BOOLEAN

VARIABLES
    task,    \* TaskExecution with its analysis stage
    att,     \* TaskStageAttempt rows
    worker,  \* workers of the agent pool, or coordinators of the replicas
    human,   \* requests of people in progress
    proj,    \* projections in progress
    plan,    \* what the task was created under
    faults   \* so far

vars == <<task, att, worker, human, proj, plan, faults>>

Pool == plan.executor = "AGENT"
Numbers == 1..MaxNumber
Terminal == {"COMPLETED", "CANCELLED", "TIMED_OUT"}
OpenStatuses == {"PENDING", "RUNNING"}
OpenStages == {"PENDING", "RUNNING", "WAITING_INPUT"}

NoAttempt == [status |-> "NONE", fence |-> 0, lease |-> 0, owner |-> NoWorker, lapsed |-> FALSE, by |-> 0]
NewAttempt == [NoAttempt EXCEPT !.status = "PENDING"]
NoWork == [pc |-> "IDLE", att |-> 0, lease |-> 0, kind |-> "NONE"]
NoRequest == [pc |-> "IDLE", seen |-> 0]
NoProjection == [pc |-> "IDLE", life |-> "QUEUED", cancel |-> FALSE, late |-> FALSE, stage |-> "PENDING", stale |-> FALSE]

Init ==
    /\ plan \in Plans
    /\ task = [life |-> "QUEUED", cancel |-> FALSE, late |-> FALSE, gen |-> 1, dirty |-> TRUE,
               stage |-> "PENDING", cur |-> 1, max |-> plan.budget, wait |-> 0, specs |-> {}, told |-> {}]
    /\ att = [n \in Numbers |-> IF n = 1 THEN NewAttempt ELSE NoAttempt]
    /\ worker = [w \in Workers |-> NoWork]
    /\ human = [h \in Humans |-> NoRequest]
    /\ proj = [p \in Projectors |-> NoProjection]
    /\ faults = 0

(* Whoever updates the row of the task gives it a new updatedAt. *)
Touched == [p \in Projectors |-> [proj[p] EXCEPT !.stale = TRUE]]

(* An attempt that no longer has a lease. *)
Ended(a, status, by) == [a EXCEPT !.status = status, !.lease = 0, !.owner = NoWorker, !.lapsed = FALSE, !.by = by]

Withdrawn(status) ==
    [n \in Numbers |-> IF att[n].status \in OpenStatuses THEN Ended(att[n], status, att[n].by) ELSE att[n]]

---------------------------------------------------------------------------
(* Mutant: the identity of the lease decides, not its age. *)
LeasedByToken(w) == LET a == att[worker[w].att] IN a.owner = w /\ a.lease = worker[w].lease /\ a.fence = a.lease

(* requireLease: the worker, its token, its fence, before the expiry. *)
Leased(w) ==
    LET a == att[worker[w].att] IN a.owner = w /\ a.lease = worker[w].lease /\ a.fence = a.lease /\ ~a.lapsed

(* lockActiveTask. *)
Active == ~task.cancel /\ task.life \in {"QUEUED", "RUNNING"}

(* Mutant: one attempt beyond the budget. *)
RetriesMore(n, retryable) == retryable /\ n <= task.max /\ n < MaxNumber

Retries(n, retryable) == retryable /\ n < task.max

(* finishFailedAttempt: the fence moves on, and the next attempt is queued in
   the same transaction. *)
FinishFailed(n, by, retryable) ==
    LET retry == Retries(n, retryable)
        failed == [Ended(att[n], "FAILED", by) EXCEPT !.fence = @ + 1]
    IN
    /\ att' = [m \in Numbers |-> IF m = n THEN failed
                                 ELSE IF retry /\ m = n + 1 THEN NewAttempt ELSE att[m]]
    /\ task' = IF retry THEN [task EXCEPT !.life = "QUEUED", !.dirty = TRUE, !.stage = "PENDING", !.cur = n + 1]
               ELSE [task EXCEPT !.dirty = TRUE, !.stage = "FAILED"]
    /\ proj' = Touched

---------------------------------------------------------------------------
(* The agent pool: claim, heartbeat, submitOutcome. *)

Idle(w) == worker' = [worker EXCEPT ![w] = NoWork]
Goes(w, pc) == worker' = [worker EXCEPT ![w].pc = pc]

(* The attempt a claim settles or takes: open, and its lease over. *)
Candidate(n) ==
    /\ Active /\ task.stage \in {"PENDING", "RUNNING"}
    /\ Pool => task.cur = n
    /\ att[n].status = "PENDING" \/ (att[n].status = "RUNNING" /\ att[n].lapsed)

(* Mutant: the task is completed here, and not by its projection. *)
ExpireEnds(w, n) ==
    /\ Pool /\ worker[w].pc = "IDLE" /\ Candidate(n) /\ task.late
    /\ att' = [att EXCEPT ![n] = [Ended(att[n], "TIMED_OUT", att[n].by) EXCEPT !.fence = @ + 1]]
    /\ task' = [task EXCEPT !.life = "TIMED_OUT", !.dirty = TRUE, !.stage = "FAILED"]
    /\ proj' = Touched
    /\ UNCHANGED <<worker, human, plan, faults>>

(* expireAttempt; the projection completes the task. *)
Expire(w, n) ==
    /\ Pool /\ worker[w].pc = "IDLE" /\ Candidate(n) /\ task.late
    /\ att' = [att EXCEPT ![n] = [Ended(att[n], "TIMED_OUT", att[n].by) EXCEPT !.fence = @ + 1]]
    /\ task' = [task EXCEPT !.dirty = TRUE, !.stage = "FAILED"]
    /\ proj' = Touched
    /\ UNCHANGED <<worker, human, plan, faults>>

(* Mutant: nobody recovers a lease that lapsed. *)
RecoverNever(w, n) == FALSE /\ UNCHANGED vars

(* recoverExpiredAttempt. *)
Recover(w, n) ==
    /\ Pool /\ worker[w].pc = "IDLE" /\ Candidate(n) /\ ~task.late /\ att[n].status = "RUNNING"
    /\ FinishFailed(n, 0, TRUE)
    /\ UNCHANGED <<worker, human, plan, faults>>

(* The row is given to w under a new fence. *)
Given(w, n) ==
    /\ att' = [att EXCEPT ![n].status = "RUNNING", ![n].fence = @ + 1, ![n].lease = att[n].fence + 1,
                          ![n].owner = w, ![n].lapsed = FALSE]
    /\ task' = [task EXCEPT !.stage = "RUNNING", !.life = "RUNNING",
                            !.dirty = IF Pool THEN TRUE ELSE @]
    /\ worker' = [worker EXCEPT ![w] = [NoWork EXCEPT !.pc = "WORK", !.att = n, !.lease = att[n].fence + 1]]
    /\ proj' = Touched
    /\ UNCHANGED <<human, plan, faults>>

Claim(w, n) ==
    /\ Pool /\ worker[w].pc = "IDLE"
    /\ Candidate(n) /\ ~task.late /\ att[n].status = "PENDING"
    /\ Given(w, n)

(* A heartbeat that finds the lease stale or the task over stops the worker. *)
Stops(w) ==
    /\ Pool /\ worker[w].pc \in {"WORK", "SUBMIT"}
    /\ ~Leased(w) \/ task.cancel \/ task.late \/ task.life \in Terminal
    /\ Idle(w)
    /\ UNCHANGED <<task, att, human, proj, plan, faults>>

(* Whether its sources are enough for a Spec is decided by what was read. *)
Finish(w, kind) ==
    /\ worker[w].pc = "WORK"
    /\ worker' = [worker EXCEPT ![w].pc = "SUBMIT", ![w].kind = kind]
    /\ UNCHANGED <<task, att, human, proj, plan, faults>>

(* submitOutcome, outside a transaction: an outcome that was committed before
   is acknowledged again. *)
Submit(w) ==
    LET a == att[worker[w].att] IN
    /\ Pool /\ worker[w].pc = "SUBMIT"
    /\ IF a.by # worker[w].lease /\ Leased(w) /\ a.status = "RUNNING" THEN Goes(w, "COMMIT") ELSE Idle(w)
    /\ UNCHANGED <<task, att, human, proj, plan, faults>>

(* Mutant: what was read before the transaction is trusted. *)
AcceptsAnyway(w) == TRUE

(* The checks under the lock of the task. *)
Accepts(w) == Active /\ Leased(w) /\ ~task.late

(* persistGeneratedSpec. *)
Specified(n) ==
    [task EXCEPT !.stage = "SUCCEEDED", !.life = "RUNNING", !.dirty = FALSE, !.specs = @ \cup {n}]

(* pauseAnalysisForInput. *)
Paused(n) == [task EXCEPT !.stage = "WAITING_INPUT", !.life = "WAITING_INPUT", !.dirty = FALSE, !.wait = n]

(* What was submitted, or what its sources do not allow yet. *)
Succeeds(w, n) == IF worker[w].kind = "SPEC" THEN Specified(n) ELSE Paused(n)

(* The transaction; its answer may be lost, and is then asked for again. *)
Commit(w) ==
    LET n == worker[w].att IN
    /\ Pool /\ worker[w].pc = "COMMIT"
    /\ IF ~Accepts(w) THEN Idle(w) /\ UNCHANGED <<task, att, proj>>
       ELSE /\ Idle(w) \/ Goes(w, "SUBMIT")
            /\ IF worker[w].kind \in {"RETRYABLE", "FATAL"}
                 THEN FinishFailed(n, worker[w].lease, worker[w].kind = "RETRYABLE")
                 ELSE /\ att' = [att EXCEPT ![n] = Ended(@, "SUCCEEDED", worker[w].lease)]
                      /\ task' = Succeeds(w, n)
                      /\ proj' = Touched
    /\ UNCHANGED <<human, plan, faults>>

---------------------------------------------------------------------------
(* The deterministic executor.  Its transactions do not lock the task: what
   they read may be over when they write. *)

(* requireAnalysisLease: the token alone. *)
Holds(w) == LET a == att[worker[w].att] IN a.owner = w /\ a.lease = worker[w].lease

TakeOver(w, n) ==
    /\ plan.executor = "DETERMINISTIC" /\ worker[w].pc = "IDLE"
    /\ Candidate(n) /\ ~task.late
    /\ Given(w, n)

(* executeAnalysis reads the attempt again before it writes; pausing for input
   locks the task, and is one step. *)
Generated(w) ==
    LET n == worker[w].att
        fails == worker' = [worker EXCEPT ![w].kind = "RETRYABLE"] IN
    /\ plan.executor = "DETERMINISTIC" /\ worker[w].pc = "SUBMIT" /\ worker[w].kind \in {"SPEC", "INPUT"}
    /\ \/ /\ worker[w].kind = "SPEC"
          /\ IF Holds(w) /\ ~task.cancel /\ ~task.late /\ task.life \notin Terminal THEN Goes(w, "COMMIT") ELSE fails
          /\ UNCHANGED <<task, att, proj>>
       \/ /\ worker[w].kind = "INPUT" /\ Active /\ ~task.late /\ Holds(w)
          /\ att' = [att EXCEPT ![n] = Ended(@, "SUCCEEDED", @.by)]
          /\ task' = Succeeds(w, n)
          /\ Idle(w) /\ proj' = Touched
       \/ /\ worker[w].kind = "INPUT" /\ ~(Active /\ ~task.late /\ Holds(w))
          /\ fails /\ UNCHANGED <<task, att, proj>>
    /\ UNCHANGED <<human, plan, faults>>

(* An attempt has one snapshot: a second one fails. *)
Persist(w) ==
    LET n == worker[w].att IN
    /\ plan.executor = "DETERMINISTIC" /\ worker[w].pc = "COMMIT"
    /\ IF n \in task.specs
         THEN worker' = [worker EXCEPT ![w].pc = "SUBMIT", ![w].kind = "RETRYABLE"] /\ UNCHANGED <<task, att, proj>>
         ELSE /\ att' = [att EXCEPT ![n] = Ended(@, "SUCCEEDED", @.by)]
              /\ task' = Succeeds(w, n)
              /\ Idle(w) /\ proj' = Touched
    /\ UNCHANGED <<human, plan, faults>>

(* Mutant: a failure of a task whose time is over is not settled. *)
FailingNever(w) ==
    /\ plan.executor = "DETERMINISTIC" /\ worker[w].pc = "SUBMIT" /\ worker[w].kind = "RETRYABLE"
    /\ UNCHANGED vars

(* failAnalysis decides by what it reads. *)
Failing(w) ==
    /\ plan.executor = "DETERMINISTIC" /\ worker[w].pc = "SUBMIT" /\ worker[w].kind = "RETRYABLE"
    /\ IF ~Holds(w) THEN Idle(w)
       ELSE Goes(w, IF task.cancel THEN "CANCELS" ELSE IF task.late THEN "EXPIRES"
                    ELSE IF task.life \in Terminal THEN "CANCELS" ELSE "FAILS")
    /\ UNCHANGED <<task, att, human, proj, plan, faults>>

FailsFinally(n) ==
    /\ att' = [att EXCEPT ![n] = Ended(@, "FAILED", @.by)]
    /\ task' = [task EXCEPT !.stage = "FAILED", !.life = "COMPLETED", !.dirty = FALSE]
    /\ proj' = Touched

Failed(w) ==
    LET n == worker[w].att IN
    /\ worker[w].pc \in {"CANCELS", "EXPIRES", "FAILS"}
    /\ Idle(w)
    /\ \/ /\ worker[w].pc = "CANCELS"
          /\ att' = [att EXCEPT ![n] = Ended(@, "CANCELLED", @.by)]
          /\ UNCHANGED <<task, proj>>
       \/ /\ worker[w].pc = "EXPIRES"
          /\ att' = [att EXCEPT ![n] = Ended(@, "TIMED_OUT", @.by)]
          /\ task' = [task EXCEPT !.stage = IF @ \in OpenStages THEN "FAILED" ELSE @,
                                  !.life = IF @ \in Terminal THEN @ ELSE "TIMED_OUT",
                                  !.dirty = IF task.life \in Terminal THEN @ ELSE FALSE]
          /\ proj' = Touched
       \/ /\ worker[w].pc = "FAILS" /\ ~Retries(n, TRUE)
          /\ FailsFinally(n)
       \/ /\ worker[w].pc = "FAILS" /\ Retries(n, TRUE)
          /\ IF att[n + 1].status # "NONE" THEN UNCHANGED <<task, att, proj>>
             ELSE /\ att' = [att EXCEPT ![n] = Ended(@, "FAILED", @.by), ![n + 1] = NewAttempt]
                  /\ task' = [task EXCEPT !.stage = "PENDING", !.cur = n + 1, !.life = "QUEUED", !.dirty = TRUE]
                  /\ proj' = Touched
    /\ UNCHANGED <<human, plan, faults>>

---------------------------------------------------------------------------
(* What people ask for. *)

(* cancel looks at the lifecycle before its transaction. *)
AskCancel(h) ==
    /\ human[h].pc = "IDLE" /\ task.life \notin Terminal
    /\ human' = [human EXCEPT ![h].pc = "CANCEL"]
    /\ UNCHANGED <<task, att, worker, proj, plan, faults>>

Cancel(h) ==
    /\ human[h].pc = "CANCEL"
    /\ task' = [task EXCEPT !.cancel = TRUE, !.life = "CANCELLED", !.dirty = FALSE,
                            !.stage = IF @ \in OpenStages THEN "CANCELLED" ELSE @]
    /\ att' = Withdrawn("CANCELLED")
    /\ human' = [human EXCEPT ![h] = NoRequest]
    /\ proj' = Touched
    /\ UNCHANGED <<worker, plan, faults>>

(* retryStage reads, and then adds the attempt after the one it read: the
   number is unique in its stage, or all of it fails. *)
AskRetry(h) ==
    /\ human[h].pc = "IDLE" /\ ~task.cancel /\ ~task.late /\ task.stage = "FAILED"
    /\ human' = [human EXCEPT ![h] = [pc |-> "RETRY", seen |-> task.cur]]
    /\ UNCHANGED <<task, att, worker, proj, plan, faults>>

Refused(n) == att[n].status # "NONE" \/ task.cancel

Retry(h) ==
    LET next == human[h].seen + 1 IN
    /\ human[h].pc = "RETRY" /\ next \in Numbers
    /\ IF Refused(next) THEN UNCHANGED <<task, att, proj>>
       ELSE /\ att' = [att EXCEPT ![next] = NewAttempt]
            /\ task' = [task EXCEPT !.stage = "PENDING", !.cur = next, !.max = IF @ < next THEN next ELSE @,
                                    !.life = "QUEUED", !.gen = @ + 1, !.dirty = TRUE]
            /\ proj' = Touched
    /\ human' = [human EXCEPT ![h] = NoRequest]
    /\ UNCHANGED <<worker, plan, faults>>

(* resumeAnalysisWithInput, under the lock of the task: the deadline starts
   anew. *)
Supplement(h) ==
    LET next == task.cur + 1 IN
    /\ human[h].pc = "IDLE" /\ next \in Numbers /\ task.max < MaxNumber
    /\ ~task.cancel /\ task.life = "WAITING_INPUT" /\ task.stage = "WAITING_INPUT" /\ task.wait # 0
    /\ att' = [att EXCEPT ![next] = NewAttempt]
    /\ task' = [task EXCEPT !.stage = "PENDING", !.cur = next, !.max = @ + 1, !.life = "QUEUED",
                            !.gen = @ + 1, !.dirty = TRUE, !.wait = 0, !.late = FALSE]
    /\ proj' = Touched
    /\ UNCHANGED <<worker, human, plan, faults>>

---------------------------------------------------------------------------
(* projectTask: the row of the task, then its stages, then one conditional
   update. *)

ReadTask(p) ==
    /\ proj[p].pc = "IDLE"
    /\ task.life \in {"QUEUED", "RUNNING"} \/ task.dirty
    /\ proj' = [proj EXCEPT ![p] = [NoProjection EXCEPT !.pc = "STAGES", !.life = task.life, !.cancel = task.cancel]]
    /\ UNCHANGED <<task, att, worker, human, plan, faults>>

ReadStages(p) ==
    /\ proj[p].pc = "STAGES"
    /\ proj' = [proj EXCEPT ![p].pc = "APPLY", ![p].stage = task.stage, ![p].late = task.late]
    /\ UNCHANGED <<task, att, worker, human, plan, faults>>

(* taskDeadlineElapsed: not while it waits for a person. *)
TimedOut(q) ==
    \/ q.life = "TIMED_OUT"
    \/ q.late /\ q.stage # "WAITING_INPUT" /\ q.life \notin {"COMPLETED", "CANCELLED"}

(* projectTaskExecution, up to the end of the analysis. *)
Projection(q) ==
    CASE q.cancel                        -> "CANCELLED"
      [] ~q.cancel /\ TimedOut(q)        -> "TIMED_OUT"
      [] OTHER -> [PENDING |-> "QUEUED", RUNNING |-> "RUNNING", WAITING_INPUT |-> "WAITING_INPUT",
                   FAILED |-> "COMPLETED", CANCELLED |-> "CANCELLED", SUCCEEDED |-> "RUNNING"][q.stage]

(* The wait for a profile is not projected. *)
Unresolved(q) == q.stage = "SUCCEEDED" /\ ~q.cancel /\ ~TimedOut(q)

(* Mutant: the last projection wins. *)
AppliesAnyway(q) == ~Unresolved(q)

Applies(q) == ~q.stale /\ ~Unresolved(q)

(* A task that ends is announced once in each generation. *)
Project(p) ==
    LET q == proj[p]  life == Projection(q) IN
    /\ q.pc = "APPLY"
    /\ IF ~Applies(q) THEN proj' = [proj EXCEPT ![p] = NoProjection] /\ UNCHANGED <<task, att>>
       ELSE /\ task' = [task EXCEPT !.life = life, !.dirty = FALSE,
                                    !.stage = IF life = "TIMED_OUT" /\ @ \in OpenStages THEN "FAILED" ELSE @,
                                    !.told = IF life \in Terminal /\ q.life \notin Terminal THEN @ \cup {task.gen} ELSE @]
            /\ att' = IF life = "TIMED_OUT" THEN Withdrawn("TIMED_OUT") ELSE att
            /\ proj' = [Touched EXCEPT ![p] = NoProjection]
    /\ UNCHANGED <<worker, human, plan, faults>>

---------------------------------------------------------------------------
(* Time and failures. *)

Held(n) == \E w \in Workers : worker[w].pc # "IDLE" /\ worker[w].att = n /\ worker[w].lease = att[n].lease

Lapse(n) ==
    /\ att[n].status = "RUNNING" /\ ~att[n].lapsed
    /\ IF Held(n) THEN faults < MaxFaults /\ faults' = faults + 1 ELSE UNCHANGED faults
    /\ att' = [att EXCEPT ![n].lapsed = TRUE]
    /\ UNCHANGED <<task, worker, human, proj, plan>>

DeadlinePasses ==
    /\ MayBeLate /\ ~task.late
    /\ task' = [task EXCEPT !.late = TRUE]
    /\ UNCHANGED <<att, worker, human, proj, plan, faults>>

Crash(w) ==
    /\ worker[w].pc # "IDLE" /\ faults < MaxFaults
    /\ Idle(w)
    /\ faults' = faults + 1
    /\ UNCHANGED <<task, att, human, proj, plan>>

---------------------------------------------------------------------------
Works(w) ==
    \/ Stops(w) \/ Submit(w) \/ Commit(w) \/ (\E kind \in Kinds : Finish(w, kind))
    \/ Generated(w) \/ Persist(w) \/ Failing(w) \/ Failed(w)

Takes(w, n) == Claim(w, n) \/ Expire(w, n) \/ Recover(w, n) \/ TakeOver(w, n)

Projects(p) == ReadTask(p) \/ ReadStages(p) \/ Project(p)

Next ==
    \/ \E w \in Workers : Works(w) \/ Crash(w) \/ \E n \in Numbers : Takes(w, n)
    \/ \E h \in Humans : AskCancel(h) \/ Cancel(h) \/ AskRetry(h) \/ Retry(h) \/ Supplement(h)
    \/ \E p \in Projectors : Projects(p)
    \/ \E n \in Numbers : Lapse(n)
    \/ DeadlinePasses

Spec == Init /\ [][Next]_vars

(* Workers and replicas go on or stop; the pool and the coordinator keep
   polling, and each of their turns ends.  Nobody has to cancel or to retry.
   An analysis ends, at the latest when its worker meets the deadline. *)
Fairness ==
    /\ WF_vars(\E w \in Workers : Works(w))
    /\ WF_vars(\E w \in Workers, n \in Numbers : Takes(w, n))
    /\ \A p \in Projectors : WF_vars(ReadStages(p) \/ Project(p)) /\ SF_vars(ReadTask(p))
    /\ WF_vars(\E n \in Numbers : Lapse(n))

FairSpec == Spec /\ Fairness

---------------------------------------------------------------------------
Open == {n \in Numbers : att[n].status \in OpenStatuses}

(* The promises of the agent pool are stated of it alone (Pool): the races of
   the deterministic executor leave only TypeAnalysis and AnalysisConcludes. *)

(* Types, and the budget: an attempt beyond it was asked for by a person. *)
TypeAnalysis ==
    /\ task.life \in {"QUEUED", "RUNNING", "WAITING_INPUT"} \cup Terminal
    /\ task.stage \in OpenStages \cup {"SUCCEEDED", "FAILED", "CANCELLED"}
    /\ task.cur \in Numbers /\ task.max \in Numbers /\ task.gen \in Numbers
    /\ task.cur <= task.max /\ task.max < plan.budget + task.gen
    /\ task.wait \in Numbers \cup {0} /\ task.specs \subseteq Numbers /\ task.told \subseteq Numbers
    /\ \A n \in Numbers :
          /\ att[n].owner \in Workers \cup {NoWorker}
          /\ att[n].lease <= att[n].fence
          /\ (att[n].owner # NoWorker) <=> (att[n].status = "RUNNING")
          /\ (att[n].status # "NONE") <=> (n <= task.cur)
    /\ faults \in 0..MaxFaults

(* The rows have their shape; and in the pool the stage says what its attempts
   are doing: it is open exactly while its current attempt is, no other is,
   and an ended task has none, or the task would wait for an analysis nobody
   is going to make.  Its specification is made once, and no analysis follows
   it. *)
StageFollowsAttempt ==
    /\ TypeAnalysis
    /\ Pool =>
          /\ Open \subseteq {task.cur}
          /\ (task.stage \in {"PENDING", "RUNNING"}) <=> (Open = {task.cur})
          /\ task.life \in Terminal => Open = {}
          /\ Cardinality(task.specs) <= 1
          /\ \A n \in task.specs : n = task.cur /\ att[n].status = "SUCCEEDED"

(* A task that has ended by itself was announced in its generation. *)
EndIsAnnounced == Pool /\ task.life \in {"COMPLETED", "TIMED_OUT"} => task.gen \in task.told

(* "Late results from expired workers are rejected": an attempt succeeds only
   while its lease is live. *)
LateResultRejected ==
    [][\A n \in Numbers : Pool /\ att[n].status = "RUNNING" /\ att'[n].status = "SUCCEEDED" => ~att[n].lapsed]_vars

(* Nothing brings a cancelled task back, and no attempt of it is opened. *)
CancelIsFinal ==
    [][Pool /\ task.cancel => task'.life = "CANCELLED" /\ task'.cancel /\ Open' \subseteq Open]_vars

(* A lost worker does not hold a task up: however often its leases lapse, an
   analysis gives a specification, waits for a person, or ends its task. *)
AnalysisConcludes ==
    task.stage \in {"PENDING", "RUNNING"} ~>
        task.stage = "SUCCEEDED" \/ task.life \in Terminal \cup {"WAITING_INPUT"}

(* The attempts of the stage are those of StageAttempts, where the pool makes
   them. *)
Attempts == INSTANCE StageAttempts WITH
    status <- [n \in Numbers |-> IF Pool THEN att[n].status ELSE IF n = 1 THEN "PENDING" ELSE "NONE"],
    holder <- [n \in Numbers |-> IF Pool THEN att[n].owner ELSE NoWorker]

(* Every step on an attempt is one StageAttempts allows: one open attempt, one
   holder, no end rewritten. *)
ImplementsAttempts == Attempts!Spec
=============================================================================
