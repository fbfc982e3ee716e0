------------------------------ MODULE RunLease ------------------------------
(***************************************************************************)
(* One ExecutionRun and its attempts: AgentRuntimeTaskService (claim,      *)
(* heartbeat, submitOutcome, recoverExpiredLeases), ExecutionRunService    *)
(* (cancel, resolveIntervention), UnifiedRunCleanupWorker (deadlines) and  *)
(* the admission of a browser for an attempt.                              *)
(*                                                                         *)
(* Every transaction that holds the browser-execution-resources lock or    *)
(* runs SERIALIZABLE is one action; cancel does neither and is two.  The   *)
(* browser of an attempt is kept to what the run's handlers ask of it: is  *)
(* it usable, is its closure proved, may it have written, is that settled. *)
(* A quarantined session counts as LOST whatever its status column says,   *)
(* and a permit that was cut short as 0.                                   *)
(***************************************************************************)
EXTENDS Integers, FiniteSets

CONSTANTS Settings,   \* what a run may be created with: its policy, the deployment's
                      \* settings and the bounds of the model (see below)
          QueueTime,  \* deadline a new run waits in the queue with
          HumanTime,  \* hitl.timeoutSeconds
          Window      \* startup and handoff window of a browser

Classes == {"TIMEOUT", "OTHER"}

ASSUME RunParameters ==
    /\ {QueueTime, HumanTime, Window} \subseteq Nat \ {0}
    /\ Settings \subseteq [attempts : Nat \ {0}, taskLease : Nat \ {0}, budget : Nat \ {0},
                           extension : Nat, pause : BOOLEAN, onTimeout : {"CANCEL", "FAIL"},
                           retryOn : SUBSET Classes, until : Nat, human : Nat, cancels : 0..1]

VARIABLES
    now,     \* the database clock
    run,     \* the ExecutionRun row
    att,     \* each attempt: its AgentRuntimeTask row and its browser
    hitl,    \* the run's HumanIntervention row
    issued,  \* history: the leases handed to workers
    cancels  \* the cancel call: IDLE, the disposition it read, or DONE

vars == <<now, run, att, hitl, issued, cancels>>

(* The setting is part of the run's row, where its policy is kept. *)
Attempts == UNION {1..s.attempts : s \in Settings}
MaxAttempts == run.setting.attempts      \* retryPolicy.maxAttempts
TaskLease == run.setting.taskLease       \* AGENT_RUNTIME_TASK_LEASE_SECONDS
Budget == run.setting.budget             \* executionBudgetSeconds
Extension == run.setting.extension       \* executionMaxExtensionSeconds
PauseForHuman == run.setting.pause       \* deadlinePolicyPausesHumanWait
CancelOnTimeout == run.setting.onTimeout = "CANCEL"  \* hitl.onTimeout
RetryOn == run.setting.retryOn           \* failure classes of the effective retry policy
MaxTime == run.setting.until             \* bound: the clock
MaxHuman == run.setting.human            \* bound: interventions asked for
MaxCancels == run.setting.cancels        \* bound: cancel calls, at most one

Terminal == {"COMPLETED", "CANCELLED", "TIMED_OUT"}
Runnable == {"QUEUED", "RUNNING"}
OpenTask == {"PENDING", "RUNNING", "WAITING_HUMAN"}
Recovering == {"PENDING", "CLOSING", "HITL_CLOSING"}
Decided == {"WRITE_OUTCOME_UNKNOWN", "EXHAUSTED", "RETRY_SCHEDULED", "RESOLVED"}

(* writeOutcomeState of the session's recovery; NONE is no recovery row. *)
WriteSettled == {"NO_WRITE", "CONFIRMED", "OPERATOR"}

NoAttempt ==
    [task |-> "ABSENT", fence |-> 0, lease |-> 0, done |-> 0, rec |-> "NONE",
     ckpt |-> 0, sess |-> "NONE", owner |-> 0, permit |-> 0, restarts |-> 0,
     effect |-> "NONE", write |-> "NONE"]

NewAttempt == [NoAttempt EXCEPT !.task = "PENDING"]

NoIntervention == [status |-> "NONE", n |-> 0, exp |-> 0]

(* createInternal: a queued run with its first attempt, whose browser is yet
   to be admitted. *)
Init ==
    /\ now = 0
    /\ \E s \in Settings :
          run = [lifecycle |-> "QUEUED", disposition |-> "NONE", verdict |-> "NONE",
                 attempt |-> 1, recoveries |-> 0, budgeted |-> FALSE, started |-> FALSE,
                 deadline |-> QueueTime, hard |-> QueueTime, asked |-> 0, setting |-> s]
    /\ att = [n \in Attempts |-> IF n = 1 THEN NewAttempt ELSE NoAttempt]
    /\ hitl = NoIntervention
    /\ issued = {}
    /\ cancels = "IDLE"

Cur == run.attempt
Live(n) == att[n].task = "RUNNING" /\ att[n].lease > now
Usable(n) == att[n].sess = "ACTIVE" /\ att[n].permit > now
EarlierOf(a, b) == IF a < b THEN a ELSE b

-----------------------------------------------------------------------------
(* The browser of an attempt. *)

(* Mutant: an attempt may be given browsers without end. *)
AdmitUnlimited ==
    /\ run.lifecycle \in Runnable /\ run.deadline > now
    /\ att[Cur].task = "PENDING" /\ att[Cur].sess = "NONE" /\ att[Cur].fence = 0
    /\ att' = [att EXCEPT ![Cur].sess = "ACTIVE", ![Cur].permit = now + Window]
    /\ UNCHANGED <<now, run, hitl, issued, cancels>>

(* Admission opens a browser that no executor owns yet; an attempt whose first
   browser was never claimed gets one more. *)
Admit ==
    /\ run.lifecycle \in Runnable /\ run.deadline > now
    /\ att[Cur].task = "PENDING" /\ att[Cur].sess = "NONE" /\ att[Cur].fence = 0
    /\ att[Cur].restarts <= 1
    /\ att' = [att EXCEPT ![Cur].sess = "ACTIVE", ![Cur].permit = now + Window]
    /\ UNCHANGED <<now, run, hitl, issued, cancels>>

(* BrowserAdmissionWorker.fail: no browser is to be had or it does not open,
   and the policy (or the second startup recovery) says not to wait. *)
AdmissionFailed ==
    /\ run.lifecycle \in Runnable
    /\ att[Cur].task = "PENDING" /\ att[Cur].fence = 0
    /\ att[Cur].sess # "ACTIVE" /\ att[Cur].rec = "NONE"
    /\ att' = [att EXCEPT ![Cur].task = "FAILED"]
    /\ run' = [run EXCEPT !.lifecycle = "COMPLETED", !.verdict = "NONE",
                          !.disposition = "BROWSER_UNAVAILABLE"]
    /\ UNCHANGED <<now, hitl, issued, cancels>>

(* recoverStartupExecutions: a browser nobody claimed in time is closed ... *)
StartupExpired ==
    /\ run.lifecycle \in Runnable /\ run.deadline > now
    /\ att[Cur].task = "PENDING" /\ att[Cur].fence = 0 /\ att[Cur].owner = 0
    /\ att[Cur].sess # "NONE" /\ ~Usable(Cur)
    /\ att[Cur].rec = "NONE"
    /\ att' = [att EXCEPT ![Cur].rec = "STARTUP_CLOSING",
                 ![Cur].sess = IF @ = "CLOSED" THEN @ ELSE "LOST"]
    /\ UNCHANGED <<now, run, hitl, issued, cancels>>

(* ... and, once its closure is proved, handed back to admission. *)
StartupRecovered ==
    /\ att[Cur].rec = "STARTUP_CLOSING" /\ att[Cur].task = "PENDING"
    /\ att[Cur].sess = "CLOSED"
    /\ att' = [att EXCEPT ![Cur] =
                 IF run.lifecycle \in Runnable /\ run.deadline > now
                 THEN [att[Cur] EXCEPT !.rec = "NONE", !.sess = "NONE", !.write = "NONE",
                                       !.restarts = @ + 1]
                 ELSE [att[Cur] EXCEPT !.rec = "NONE"]]
    /\ UNCHANGED <<now, run, hitl, issued, cancels>>

(* The assessment of a stopped browser's writes.  An owner whose history holds
   no potential write settles it; beyond that it takes proof: of an accepted
   completion without unsettled commands, or (of a closed browser) a complete
   network audit, or an offline startup, that shows no write. *)
Assess(n, closed, proof) ==
    IF att[n].write \in WriteSettled THEN att[n].write
    ELSE IF proof /\ att[n].task = "SUCCEEDED" THEN "CONFIRMED"
    ELSE IF \/ att[n].owner # 0 /\ att[n].effect = "NONE"
            \/ closed /\ proof /\ att[n].effect # "WRITE"
    THEN "NO_WRITE" ELSE "UNKNOWN"

(* SessionRecoveryService.request: command admission stops, and only then the
   writes are assessed, again if an earlier assessment left them open. *)
RequestClosure(n) ==
    /\ att[n].sess \in {"ACTIVE", "LOST"}
    /\ \E proof \in BOOLEAN :
         /\ att[n].sess = "LOST" => Assess(n, FALSE, proof) # att[n].write
         /\ att' = [att EXCEPT ![n].sess = "LOST", ![n].permit = 0,
                               ![n].write = Assess(n, FALSE, proof)]
    /\ UNCHANGED <<now, run, hitl, issued, cancels>>

(* The same request for a healthy browser, made by an admission that it
   blocks, records an unassessed recovery and disturbs nothing. *)
ObserveSession(n) ==
    /\ Usable(n) /\ att[n].write = "NONE"
    /\ att' = [att EXCEPT ![n].write = "UNKNOWN"]
    /\ UNCHANGED <<now, run, hitl, issued, cancels>>

(* Lease sweeper or reconciliation: the session is given up. *)
SessionLost(n) ==
    /\ att[n].sess = "ACTIVE"
    /\ att' = [att EXCEPT ![n].sess = "LOST", ![n].permit = 0]
    /\ UNCHANGED <<now, run, hitl, issued, cancels>>

(* What releaseVerifiedSessionResources makes of the task of a closed browser:
   the doubt about an ended task goes with that about its writes, and comes
   with it unless the task's completion was accepted or its lease revoked. *)
Reconciled(n, w) ==
    IF w \in WriteSettled
    THEN IF att[n].rec = "WRITE_OUTCOME_UNKNOWN" /\ att[n].task \notin OpenTask
         THEN "RESOLVED" ELSE att[n].rec
    ELSE IF /\ att[n].owner # 0 /\ att[n].owner = att[n].fence
            /\ att[n].task \in {"FAILED", "CANCELLED", "TIMED_OUT"}
            /\ att[n].rec # "RESOLVED"
         THEN "WRITE_OUTCOME_UNKNOWN" ELSE att[n].rec

(* Closure evidence is accepted for a session whose recovery is requested. *)
ClosureVerified(n) ==
    /\ att[n].sess = "LOST" /\ att[n].write # "NONE"
    /\ \E proof \in BOOLEAN :
         LET w == Assess(n, TRUE, proof) IN
         att' = [att EXCEPT ![n].sess = "CLOSED", ![n].write = w,
                            ![n].rec = Reconciled(n, w)]
    /\ UNCHANGED <<now, run, hitl, issued, cancels>>

(* finishRecovery: once everything has stopped, an operator settles the writes
   of a closed browser. *)
OperatorResolves(n) ==
    /\ att[n].sess = "CLOSED" /\ att[n].write \notin {"NONE", "OPERATOR"}
    /\ run.lifecycle \in Terminal /\ att[n].task \notin OpenTask
    /\ att[n].owner # 0 => att[n].rec \notin Recovering \cup {"RETRY_SCHEDULED"}
    /\ att' = [att EXCEPT ![n].write = "OPERATOR",
                          ![n].rec = IF att[n].owner # 0 THEN "RESOLVED" ELSE @]
    /\ UNCHANGED <<now, run, hitl, issued, cancels>>

-----------------------------------------------------------------------------
(* The executor. *)

Claim(n) ==
    /\ att[n].task = "PENDING" /\ att[n].rec # "STARTUP_CLOSING"
    /\ run.lifecycle \in Runnable /\ run.deadline > now
    /\ Usable(n) /\ att[n].owner \in {0, att[n].fence}
    /\ LET d == IF run.budgeted THEN run.deadline ELSE now + Budget
           f == att[n].fence + 1
       IN  /\ run' = [run EXCEPT !.lifecycle = "RUNNING", !.started = TRUE,
                        !.budgeted = TRUE, !.deadline = d,
                        !.hard = IF run.budgeted THEN @ ELSE d + Extension]
           /\ att' = [att EXCEPT ![n].task = "RUNNING", ![n].fence = f,
                        ![n].lease = now + TaskLease, ![n].owner = f,
                        ![n].permit = EarlierOf(now + TaskLease, d)]
           /\ issued' = issued \cup {[n |-> n, fence |-> f]}
    /\ UNCHANGED <<now, hitl, cancels>>

(* Mutant: any worker of a running task is taken for its owner. *)
OwnsByTask(c) == att[c.n].lease > now /\ att[c.n].task = "RUNNING"

(* requireLease and leaseWhere: the worker's lease is the task's. *)
Owns(c) ==
    /\ att[c.n].fence = c.fence /\ att[c.n].lease > now
    /\ att[c.n].task = "RUNNING"

(* Mutant: the permit is renewed for a full lease. *)
HeartbeatIgnoringDeadline(c) ==
    /\ Owns(c) /\ run.lifecycle \in Runnable /\ run.deadline > now
    /\ att' = [att EXCEPT ![c.n].lease = now + TaskLease,
                 ![c.n].permit = IF att[c.n].sess = "ACTIVE" /\ att[c.n].owner = c.fence
                                 THEN now + TaskLease ELSE @]
    /\ UNCHANGED <<now, run, hitl, issued, cancels>>

(* heartbeat with a CONTINUE: the lease, the permit of an owned browser, and
   perhaps the deadline, never past the hard one. *)
Heartbeat(c) ==
    /\ Owns(c) /\ run.lifecycle \in Runnable /\ run.deadline > now
    /\ \E d \in {run.deadline} \cup
                {EarlierOf(run.deadline + 1, run.hard)} :
         run' = [run EXCEPT !.deadline = IF d > @ THEN d ELSE @]
    /\ att' = [att EXCEPT ![c.n].lease = now + TaskLease,
                 ![c.n].permit = IF att[c.n].sess = "ACTIVE" /\ att[c.n].owner = c.fence
                                 THEN EarlierOf(now + TaskLease, run.deadline) ELSE @]
    /\ UNCHANGED <<now, hitl, issued, cancels>>

(* A browser command of the owner is recorded before it is dispatched; it may
   turn out to have written, or only have been able to. *)
BrowserCommand(c) ==
    /\ Owns(c) /\ Usable(c.n) /\ att[c.n].owner = c.fence
    /\ run.lifecycle \in Runnable
    /\ \E e \in {"COMMAND", "WRITE"} :
         /\ att[c.n].effect # "WRITE" /\ att[c.n].effect # e
         /\ att' = [att EXCEPT ![c.n].effect = e]
    /\ UNCHANGED <<now, run, hitl, issued, cancels>>

(* executor.*.finalized: the executor announces the outcome it will submit. *)
Finalize(c) ==
    /\ Owns(c) /\ att[c.n].ckpt # c.fence
    /\ att' = [att EXCEPT ![c.n].ckpt = c.fence]
    /\ UNCHANGED <<now, run, hitl, issued, cancels>>

Outcomes ==
    [kind : {"COMPLETED"}, term : {"NONE", "FORCED", "SESSION_LOST"}, class : {"OTHER"}]
      \cup [kind : {"RETRYABLE", "FATAL"}, term : {"NONE"}, class : Classes]

(* Mutant: the owner's command history is not consulted. *)
UncertainOnlyAfterRecovery(c) ==
    att[c.n].write # "NONE" /\ att[c.n].write \notin WriteSettled

(* The write audit of submitOutcome: without a recovery the owner's own
   command history decides, with one only a settled assessment does. *)
Uncertain(c) ==
    IF att[c.n].write = "NONE"
    THEN att[c.n].effect # "NONE" \/ att[c.n].owner # c.fence
    ELSE att[c.n].write \notin WriteSettled

Audited(o) == o.kind \in {"RETRYABLE", "FATAL"} \/ o.term # "NONE"

(* Mutant: a completion in doubt keeps its kind. *)
EffectiveKeepingVerdict(c, o) ==
    IF Audited(o) /\ Uncertain(c)
    THEN [kind |-> o.kind, disposition |-> "BLOCKED", class |-> o.class]
    ELSE IF o.term = "SESSION_LOST"
    THEN [kind |-> "FATAL", disposition |-> "RUNTIME_LOST", class |-> "OTHER"]
    ELSE [kind |-> o.kind, class |-> o.class,
          disposition |-> IF o.kind = "COMPLETED" THEN "EXECUTED" ELSE "BLOCKED"]

(* The outcome the run is projected from. *)
Effective(c, o) ==
    IF Audited(o) /\ Uncertain(c)
    THEN [kind |-> "FATAL", disposition |-> "BLOCKED", class |-> o.class]
    ELSE IF o.term = "SESSION_LOST"
    THEN [kind |-> "FATAL", disposition |-> "RUNTIME_LOST", class |-> "OTHER"]
    ELSE [kind |-> o.kind, class |-> o.class,
          disposition |-> IF o.kind = "COMPLETED" THEN "EXECUTED" ELSE "BLOCKED"]

(* projectRuntimeOutcome *)
ShouldRetry(n, e) == e.kind = "RETRYABLE" /\ n < MaxAttempts /\ e.class \in RetryOn

TaskStatusOf(e) ==
    IF e.kind = "COMPLETED" THEN "SUCCEEDED"
    ELSE IF e.class = "TIMEOUT" THEN "TIMED_OUT" ELSE "FAILED"

LifecycleOf(n, e) ==
    IF ShouldRetry(n, e) THEN "QUEUED"
    ELSE IF e.kind # "COMPLETED" /\ e.class = "TIMEOUT" THEN "TIMED_OUT" ELSE "COMPLETED"

AcceptsOutcome(c) == Owns(c) /\ run.lifecycle \notin {"CANCELLED", "TIMED_OUT"}

(* submitOutcome; releaseCompletedSessionData may confirm the writes of a
   browser that was closed before its task completed. *)
SubmitOutcome(c, o) ==
    /\ att[c.n].done = 0 /\ AcceptsOutcome(c)
    /\ \E confirmed \in BOOLEAN :
       LET e == Effective(c, o)
           retry == ShouldRetry(c.n, e)
           closed == [att[c.n] EXCEPT !.task = TaskStatusOf(e), !.lease = 0,
                        !.done = c.fence,
                        !.rec = IF Audited(o) /\ Uncertain(c)
                                THEN "WRITE_OUTCOME_UNKNOWN" ELSE @,
                        !.write = IF confirmed THEN "CONFIRMED" ELSE @]
       IN  /\ confirmed => /\ e.kind = "COMPLETED" /\ att[c.n].write = "UNKNOWN"
                            /\ att[c.n].sess = "CLOSED"
           /\ att' = [n \in Attempts |->
                        IF n = c.n THEN closed
                        ELSE IF retry /\ n = c.n + 1 THEN NewAttempt ELSE att[n]]
           /\ run' = [run EXCEPT
                !.lifecycle = LifecycleOf(c.n, e),
                !.disposition = IF retry THEN "NONE" ELSE e.disposition,
                !.verdict = IF e.kind = "COMPLETED" THEN "DECIDED" ELSE "NONE",
                !.attempt = IF retry THEN c.n + 1 ELSE @]
    /\ UNCHANGED <<now, hitl, issued, cancels>>

(* submitOutcome of WAITING_HUMAN: the lease is given up, the browser kept. *)
RequestHuman(c) ==
    /\ att[c.n].done = 0 /\ AcceptsOutcome(c) /\ run.asked < MaxHuman
    /\ LET exp == IF PauseForHuman THEN now + HumanTime
                  ELSE EarlierOf(now + HumanTime, run.deadline)
       IN  /\ hitl' = [status |-> "PENDING", n |-> c.n, exp |-> exp]
           /\ run' = [run EXCEPT !.lifecycle = "WAITING_HUMAN", !.disposition = "BLOCKED",
                        !.verdict = "NONE", !.asked = @ + 1,
                        !.deadline = IF PauseForHuman THEN exp ELSE @]
    /\ att' = [att EXCEPT ![c.n].task = "WAITING_HUMAN", ![c.n].lease = 0,
                          ![c.n].done = c.fence]
    /\ UNCHANGED <<now, issued, cancels>>

-----------------------------------------------------------------------------
(* Expired leases. *)

(* unclaimableHumanResume: the browser a resumed task waited for is gone. *)
UnclaimableResume(n) ==
    /\ att[n].task = "PENDING" /\ att[n].fence > 0 /\ att[n].rec = "NONE"
    /\ run.lifecycle \in Runnable /\ run.deadline > now
    /\ ~Usable(n)

(* recoverExpiredLeases, first phase: one compare-and-set decides who revokes. *)
RevokeLease(n) ==
    /\ \/ att[n].task = "RUNNING" /\ att[n].lease <= now
       \/ UnclaimableResume(n)
    /\ att' = [att EXCEPT ![n].task = "FAILED", ![n].fence = @ + 1, ![n].lease = 0,
                 ![n].rec = IF att[n].task = "PENDING" THEN "HITL_CLOSING" ELSE "PENDING",
                 ![n].permit = IF att[n].owner = att[n].fence THEN 0 ELSE @,
                 ![n].sess = IF @ = "ACTIVE" /\ att[n].owner = att[n].fence THEN "LOST" ELSE @]
    /\ UNCHANGED <<now, run, hitl, issued, cancels>>

RunExpired == run.deadline <= now \/ run.lifecycle \in Terminal

(* Mutant: the wait for the closure ignores the run's end. *)
DefersForever(n) ==
    /\ att[n].sess # "CLOSED"
    /\ att[n].rec = "HITL_CLOSING" \/ att[n].write \in WriteSettled

(* Second phase while the browser is not known to be closed: wait for it, as
   long as its writes are settled (or a human waits) and time is left. *)
Defers(n) ==
    /\ att[n].sess # "CLOSED" /\ ~RunExpired
    /\ att[n].rec = "HITL_CLOSING" \/ att[n].write \in WriteSettled

DeferRecovery(n) ==
    /\ att[n].rec = "PENDING" /\ att[n].write # "NONE" /\ Defers(n)
    /\ att' = [att EXCEPT ![n].rec = "CLOSING"]
    /\ UNCHANGED <<now, run, hitl, issued, cancels>>

(* readFinalizationCheckpoint: the revoked executor had announced its end. *)
Announced(n) == att[n].ckpt # 0 /\ att[n].ckpt = att[n].fence - 1

(* Mutant: recoveries are not counted. *)
DecisionUncounted(n) ==
    IF att[n].write \notin WriteSettled THEN "WRITE_OUTCOME_UNKNOWN"
    ELSE IF att[n].sess # "CLOSED" \/ Announced(n) \/ RunExpired \/ n >= MaxAttempts
    THEN "EXHAUSTED"
    ELSE "RETRY_SCHEDULED"

(* Mutant: unsettled writes do not stop a retry. *)
DecisionIgnoringWrites(n) ==
    IF \/ att[n].sess # "CLOSED" \/ Announced(n) \/ RunExpired
       \/ run.recoveries >= 1 \/ n >= MaxAttempts
    THEN "EXHAUSTED"
    ELSE "RETRY_SCHEDULED"

(* leaseRecoveryDecision *)
LeaseRecoveryDecision(n) ==
    IF att[n].write \notin WriteSettled THEN "WRITE_OUTCOME_UNKNOWN"
    ELSE IF \/ att[n].sess # "CLOSED" \/ Announced(n) \/ RunExpired
            \/ run.recoveries >= 1 \/ n >= MaxAttempts
    THEN "EXHAUSTED"
    ELSE "RETRY_SCHEDULED"

DecideRecovery(n) ==
    /\ att[n].rec \in Recovering /\ att[n].write # "NONE" /\ ~Defers(n)
    /\ LET d == LeaseRecoveryDecision(n) IN
       /\ att' = [m \in Attempts |->
                    IF m = n THEN [att[n] EXCEPT !.rec = d]
                    ELSE IF d = "RETRY_SCHEDULED" /\ m = n + 1 THEN NewAttempt ELSE att[m]]
       /\ run' = IF d = "RETRY_SCHEDULED"
                 THEN [run EXCEPT !.recoveries = @ + 1, !.lifecycle = "QUEUED",
                                  !.disposition = "RUNTIME_LOST", !.attempt = n + 1]
                 ELSE IF run.lifecycle \in Terminal THEN run
                 ELSE [run EXCEPT
                         !.lifecycle = IF run.deadline <= now THEN "TIMED_OUT" ELSE "COMPLETED",
                         !.verdict = "NONE",
                         !.disposition = IF Announced(n) \/ d = "WRITE_OUTCOME_UNKNOWN"
                                         THEN "BLOCKED" ELSE "RUNTIME_LOST"]
    /\ UNCHANGED <<now, hitl, issued, cancels>>

-----------------------------------------------------------------------------
(* Humans, deadlines and cancellation. *)

(* resolveIntervention: a fresh budget, and a window for an executor to take
   over the browser if it is still there. *)
ResolveIntervention ==
    /\ hitl.status = "PENDING" /\ hitl.exp > now
    /\ run.lifecycle = "WAITING_HUMAN"
    /\ LET n == hitl.n  d == now + Budget IN
       /\ run' = [run EXCEPT !.lifecycle = "QUEUED", !.disposition = "NONE",
                    !.verdict = "NONE", !.budgeted = TRUE, !.deadline = d,
                    !.hard = d + Extension]
       /\ att' = [att EXCEPT ![n].task = "PENDING", ![n].done = 0,
                    ![n].permit = IF att[n].sess = "ACTIVE" /\ att[n].owner = att[n].fence
                                  THEN EarlierOf(d, now + Window) ELSE @]
    /\ hitl' = [hitl EXCEPT !.status = "RESOLVED"]
    /\ UNCHANGED <<now, issued, cancels>>

Blocked == IF run.started THEN "BLOCKED" ELSE "NOT_RUN"

ExpireIntervention ==
    /\ hitl.status = "PENDING" /\ hitl.exp <= now
    /\ hitl' = [hitl EXCEPT !.status = "EXPIRED"]
    /\ IF run.lifecycle # "WAITING_HUMAN" THEN UNCHANGED <<run, att>>
       ELSE /\ run' = [run EXCEPT !.verdict = "NONE", !.disposition = Blocked,
                         !.lifecycle = IF CancelOnTimeout THEN "CANCELLED" ELSE "COMPLETED"]
            /\ att' = [att EXCEPT ![hitl.n].task =
                         IF @ # "WAITING_HUMAN" THEN @
                         ELSE IF CancelOnTimeout THEN "CANCELLED" ELSE "FAILED"]
    /\ UNCHANGED <<now, issued, cancels>>

(* Close what is still open of a run that ends with task status s. *)
CloseTasks(s) ==
    att' = [n \in Attempts |-> IF att[n].task \in OpenTask
                               THEN [att[n] EXCEPT !.task = s] ELSE att[n]]

(* Mutant: runs that never started are not swept. *)
ExpireStartedRun ==
    /\ run.deadline <= now /\ run.lifecycle \notin Terminal /\ run.started
    /\ run' = [run EXCEPT !.lifecycle = "TIMED_OUT", !.verdict = "NONE",
                          !.disposition = Blocked]
    /\ CloseTasks("TIMED_OUT")
    /\ hitl' = IF hitl.status = "PENDING" THEN [hitl EXCEPT !.status = "EXPIRED"] ELSE hitl
    /\ UNCHANGED <<now, issued, cancels>>

(* Mutant: the run expires without its tasks. *)
ExpireRunAlone ==
    /\ run.deadline <= now /\ run.lifecycle \notin Terminal
    /\ run' = [run EXCEPT !.lifecycle = "TIMED_OUT", !.verdict = "NONE",
                          !.disposition = Blocked]
    /\ UNCHANGED <<now, att, hitl, issued, cancels>>

ExpireRun ==
    /\ run.deadline <= now /\ run.lifecycle \notin Terminal
    /\ run' = [run EXCEPT !.lifecycle = "TIMED_OUT", !.verdict = "NONE",
                          !.disposition = Blocked]
    /\ CloseTasks("TIMED_OUT")
    /\ hitl' = IF hitl.status = "PENDING" THEN [hitl EXCEPT !.status = "EXPIRED"] ELSE hitl
    /\ UNCHANGED <<now, issued, cancels>>

(* cancel reads the run and returns if it has ended ... *)
CancelRead ==
    /\ run.lifecycle \notin Terminal /\ cancels = "IDLE" /\ MaxCancels = 1
    /\ cancels' = Blocked
    /\ UNCHANGED <<now, run, att, hitl, issued>>

(* ... and then updates it by its id alone. *)
CancelCommit ==
    /\ cancels \in {"BLOCKED", "NOT_RUN"}
    /\ cancels' = "DONE"
    /\ run' = [run EXCEPT !.lifecycle = "CANCELLED", !.verdict = "NONE",
                          !.disposition = cancels]
    /\ CloseTasks("CANCELLED")
    /\ hitl' = IF hitl.status = "PENDING" THEN [hitl EXCEPT !.status = "CANCELLED"] ELSE hitl
    /\ UNCHANGED <<now, issued>>

Tick ==
    /\ now < MaxTime
    /\ now' = now + 1
    /\ UNCHANGED <<run, att, hitl, issued, cancels>>

-----------------------------------------------------------------------------
Next ==
    \/ Tick \/ Admit \/ AdmissionFailed \/ StartupExpired \/ StartupRecovered
    \/ \E n \in Attempts :
         \/ RequestClosure(n) \/ ObserveSession(n) \/ SessionLost(n)
         \/ ClosureVerified(n) \/ OperatorResolves(n)
         \/ Claim(n) \/ RevokeLease(n) \/ DeferRecovery(n) \/ DecideRecovery(n)
    \/ \E c \in issued :
         \/ Heartbeat(c) \/ BrowserCommand(c) \/ Finalize(c) \/ RequestHuman(c)
         \/ \E o \in Outcomes : SubmitOutcome(c, o)
    \/ ResolveIntervention \/ ExpireIntervention \/ ExpireRun
    \/ CancelRead \/ CancelCommit

Spec == Init /\ [][Next]_vars

(* The interval workers run for ever: UnifiedRunCleanupWorker and the lease
   recovery loop, whose second phase itself asks for the closure it waits for.
   No fairness is assumed of executors, browsers, admission or people. *)
Recovers(n) == att[n].rec \in Recovering /\ RequestClosure(n)

Fairness ==
    /\ WF_vars(Tick) /\ WF_vars(ExpireRun) /\ WF_vars(ExpireIntervention)
    /\ \A n \in Attempts :
         WF_vars(RevokeLease(n)) /\ WF_vars(Recovers(n)) /\ WF_vars(DecideRecovery(n))

FairSpec == Spec /\ Fairness

-----------------------------------------------------------------------------
Times == 0..(MaxTime + QueueTime + TaskLease + Budget + HumanTime + Window + Extension)

(* Type invariant of the run, its attempts and its intervention. *)
TypeRun ==
    /\ now \in 0..MaxTime
    /\ run \in [lifecycle : Runnable \cup Terminal \cup {"WAITING_HUMAN"},
                disposition : {"NONE", "NOT_RUN", "BLOCKED", "EXECUTED",
                               "RUNTIME_LOST", "BROWSER_UNAVAILABLE"},
                verdict : {"NONE", "DECIDED"}, attempt : Attempts,
                recoveries : 0..MaxAttempts, budgeted : BOOLEAN, started : BOOLEAN,
                deadline : Times, hard : Times, asked : 0..MaxHuman, setting : Settings]
    /\ att \in [Attempts ->
         [task : OpenTask \cup {"ABSENT", "SUCCEEDED", "FAILED", "TIMED_OUT", "CANCELLED"},
          fence : Nat, lease : Times, done : Nat, ckpt : Nat, owner : Nat,
          rec : {"NONE", "STARTUP_CLOSING"} \cup Recovering \cup Decided,
          sess : {"NONE", "ACTIVE", "LOST", "CLOSED"}, permit : Times, restarts : 0..2,
          effect : {"NONE", "COMMAND", "WRITE"},
          write : {"NONE", "UNKNOWN"} \cup WriteSettled]]
    /\ hitl \in [status : {"NONE", "PENDING", "RESOLVED", "EXPIRED", "CANCELLED"},
                 n : 0..MaxAttempts, exp : Times]
    /\ issued \subseteq [n : Attempts, fence : Nat]
    /\ cancels \in {"IDLE", "BLOCKED", "NOT_RUN", "DONE"}

(* Of all the leases ever handed out, at most one lets its worker report, it
   is one of the current attempt, and the run is running: whatever ended the
   run, resumed it or scheduled another attempt also ended every earlier lease
   (claim, requireLease, recoverExpiredLeases, expireRuns, cancel). *)
OneLiveExecutor ==
    \A c \in issued : Owns(c) =>
        /\ c.n = Cur /\ run.lifecycle = "RUNNING"
        /\ \A d \in issued : Owns(d) => d = c

(* A later attempt never repeats a write of an earlier one: an attempt that
   wrote to the system under test stays the run's last, whichever of its
   executor, its lease and its browser failed (the write audit of submitOutcome,
   leaseRecoveryDecision and the assessment of the stopped browser). *)
NoSilentReplay == \A n \in Attempts : n < Cur => att[n].effect # "WRITE"

(* A lost lease is retried only over the proved closure of its browser, so the
   two attempts never drive two browsers, and only once in the life of a run,
   whatever happens to the attempts in between (recoverExpiredLeases,
   infrastructureRecoveryCount). *)
RetryAfterClosure ==
    /\ \A n \in Attempts : att[n].rec = "RETRY_SCHEDULED" =>
          att[n].sess = "CLOSED" /\ att[n].write \in WriteSettled /\ n < Cur
    /\ run.recoveries = Cardinality({n \in Attempts : att[n].rec = "RETRY_SCHEDULED"})
    /\ run.recoveries <= 1

(* The rows agree: an ended run has no open task and no pending intervention, a
   waiting one has both, and a runnable one has a current attempt that is open
   or being recovered. *)
RowsAgree ==
    /\ run.lifecycle \in Terminal =>
         hitl.status # "PENDING" /\ \A n \in Attempts : att[n].task \notin OpenTask
    /\ run.lifecycle = "WAITING_HUMAN" =>
         hitl.status = "PENDING" /\ hitl.n = Cur /\ att[Cur].task = "WAITING_HUMAN"
    /\ run.lifecycle \in Runnable =>
         att[Cur].task \in {"PENDING", "RUNNING"} \/ att[Cur].rec \in Recovering
    /\ \A n \in Attempts : n # Cur => att[n].task \notin OpenTask

(* The rows agree, and a verdict stands only for the accepted completion of the last attempt whose
   lease was never lost and whose writes were not called in doubt. *)
VerdictIsEarned ==
    /\ TypeRun /\ RowsAgree
    /\ run.verdict # "NONE" =>
         /\ run.lifecycle = "COMPLETED" /\ run.disposition = "EXECUTED"
         /\ att[Cur].task = "SUCCEEDED" /\ att[Cur].rec \in {"NONE", "RESOLVED"}

(* The browser of a running attempt loses its permit with the run's deadline,
   and no extension moves that past the hard deadline (claim, heartbeat). *)
PermitEndsWithBudget ==
    run.lifecycle = "RUNNING" /\ Usable(Cur) =>
        att[Cur].permit <= run.deadline /\ run.deadline <= run.hard

(* The lifecycle of an ended run is final, and so is the verdict it ended with
   (Terminal is a sink of the run's state diagram). *)
TerminalIsFinal ==
    [][run.lifecycle \in Terminal =>
         run'.lifecycle = run.lifecycle /\ run'.verdict = run.verdict]_vars

(* Every run ends: a queue that never admits it, an executor that stops, a
   browser that never closes and a person who never answers included.  And every
   lost lease is decided on, even if the old browser is never proved closed: the
   run's end bounds the wait. *)
RunEnds ==
    /\ <>(run.lifecycle \in Terminal)
    /\ \A n \in Attempts : (att[n].rec \in Recovering) ~> (att[n].rec \in Decided)
=============================================================================
