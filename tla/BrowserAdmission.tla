-------------------------- MODULE BrowserAdmission --------------------------
(***************************************************************************)
(* Competing executions are admitted to the slots of one Browser Runtime:  *)
(* BrowserAdmissionService (reconcile, allocate, defer, fail,              *)
(* recoverStartupExecutions) and BrowserExecutionRunner                    *)
(* (acquireForExecutionRun, allocateSession, releaseForExecutionRun), run  *)
(* by several replicas at once.                                            *)
(*                                                                         *)
(* Time is a set of things that may lapse: an allocation goes stale, a     *)
(* startup permit expires, a reservation of the startup recovery runs out. *)
(* The reservation lasts 90 s and the close it waits for 60 s, so it only  *)
(* runs out under a recovery that has stopped.  SessionRecovery models how *)
(* a closure is retried until its evidence comes; here it comes.           *)
(***************************************************************************)
EXTENDS Integers, FiniteSets, Sequences, SequencesExt, FiniteSetsExt

CONSTANTS Executions,   \* naturals, in the order of createdAt
          NoIdentity,
          Workers, Releasers, \* activities of the replicas
          MaxSessions,  \* bound: sessions ever created
          Settings      \* a sequence of what a behaviour may be about, with its bounds (see below)

Modes == {"READ", "WRITE"}
Origins == {"NORMAL", "ACCOUNT"}

ASSUME AdmissionParameters ==
    /\ Executions \subseteq Nat \ {0} /\ IsFiniteSet(Executions)
    /\ IsFiniteSet(Workers) /\ IsFiniteSet(Releasers) /\ MaxSessions \in Nat
    /\ \A n \in DOMAIN Settings : LET b == Settings[n] IN
          /\ {b.failFast, b.cancelled} \subseteq SUBSET b.executions
          /\ b.executions \subseteq Executions
          /\ \A e \in b.executions : \A c \in b.claims[e] :
                c.mode \in Modes /\ c.origin \in Origins /\ c.key \in Seq(STRING)
          /\ b.workers \subseteq Workers /\ b.releasers \subseteq Releasers
          /\ {b.permits, b.capacity} \subseteq Nat \ {0}
          /\ {b.oneReplica, b.takenOver} \subseteq BOOLEAN
          /\ b.sessions \in 0 .. MaxSessions /\ {b.lapses, b.crashes} \subseteq Nat

VARIABLES
    exec,     \* BrowserExecution rows, and whether the run may still execute
    task,     \* the AgentRuntimeTask of each execution's attempt
    sess,     \* BrowserRuntimeSession rows with their slot, permit and leases
    browser,  \* the Runtime: the browser of each session
    work,     \* an allocation in progress
    rel,      \* a release in progress, maybe for the startup recovery
    spent     \* lapses and crashes so far, and the index of the setting

vars == <<exec, task, sess, browser, work, rel, spent>>

Setting == Settings[spent.setting]
Runs == Setting.executions          \* the executions there are
Claims == Setting.claims            \* the claims each makes on accounts and business data
Identity == Setting.identity        \* the isolated login identity each uses
Permits == Setting.permits          \* executionConcurrency of an identity
Capacity == Setting.capacity        \* maxConcurrency of the Runtime
FailFast == Setting.failFast        \* executions whose availability policy is FAIL_FAST
Cancelled == Setting.cancelled      \* bound: executions whose run may end before its start
OneReplica == Setting.oneReplica    \* bound: the sweeps of two replicas do not overlap
TakenOver == Setting.takenOver      \* bound: allocations go stale whose replica goes on
MaxLapses == Setting.lapses         \* bound: startup permits that expire
MaxCrashes == Setting.crashes       \* bound: activities that stop half way

SessionIds == 1..MaxSessions
Tokens == 1..(Cardinality(Executions) + 2 * Cardinality(Workers) + Cardinality(Releasers) + 1)

NoSession ==
    [exec |-> 0, slot |-> 0, permit |-> 0, leases |-> {}, status |-> "NONE",
     quarantined |-> FALSE, lapsed |-> FALSE, owned |-> FALSE, closed |-> FALSE,
     closing |-> FALSE, write |-> "NONE"]
NoWork == [pc |-> "IDLE", exec |-> 0, tok |-> 0, cur |-> 0, sess |-> 0, code |-> "NONE"]
NoRelease == [pc |-> "IDLE", exec |-> 0, sess |-> 0, tok |-> 0, stamp |-> 0]

Init ==
    /\ \E n \in DOMAIN Settings : spent = [lapses |-> 0, crashes |-> 0, setting |-> n]
    /\ exec = [e \in Executions |->
          [status |-> "REQUESTED", tok |-> 0, sess |-> 0, restarts |-> 0, code |-> "NONE", open |-> e \in Runs]]
    /\ task = [e \in Executions |-> [status |-> "PENDING", closing |-> FALSE, stamp |-> 0]]
    /\ sess = [s \in SessionIds |-> NoSession]
    /\ browser = [s \in SessionIds |-> "NONE"]
    /\ work = [w \in Workers |-> NoWork]
    /\ rel = [r \in Releasers |-> NoRelease]

Created == {s \in SessionIds : sess[s].status # "NONE"}

(* randomUUID: a token nothing else remembers.  Old ones may be reused. *)
NewToken ==
    Min(Tokens \ ({exec[e].tok : e \in Executions} \cup {work[w].tok : w \in Workers}
                  \cup {work[w].cur : w \in Workers} \cup {rel[r].tok : r \in Releasers}))
NewStamp == Min((1..(Cardinality(Releasers) + 1)) \ {rel[r].stamp : r \in Releasers})

---------------------------------------------------------------------------
(* Mutant: equal keys only, as if a scope did not cover what lies below it. *)
ConflictEqual(c, d) ==
    /\ c.root = d.root \/ "*" \in {c.root, d.root}
    /\ "WRITE" \in {c.mode, d.mode}
    /\ "*" \in {c.root, d.root} \/ c.key = d.key

(* resourcesConflict: an environment and the records below it overlap. *)
Conflict(c, d) ==
    /\ c.root = d.root \/ "*" \in {c.root, d.root}
    /\ "WRITE" \in {c.mode, d.mode}
    /\ \/ "*" \in {c.root, d.root}
       \/ IsPrefix(c.key, d.key)
       \/ IsPrefix(d.key, c.key)

AnyConflict(cs, ds) == \E c \in cs, d \in ds : Conflict(c, d)

(* A session the agent, or the operator of the browser, may still use. *)
Usable(s) ==
    /\ sess[s].status = "ACTIVE"
    /\ ~sess[s].lapsed /\ ~sess[s].quarantined /\ ~sess[s].closed

Unstarted(e) == task[e].status = "PENDING"

(* Mutant: a closed session can be lost again. *)
QuarantineClosed(s) == sess' = [sess EXCEPT ![s].status = "LOST", ![s].quarantined = TRUE, ![s].closed = FALSE]

(* quarantineSession: a closed session stays closed. *)
Quarantine(s) ==
    sess' = IF sess[s].closed THEN sess
            ELSE [sess EXCEPT ![s].status = "LOST", ![s].quarantined = TRUE]

---------------------------------------------------------------------------
(* Mutant: a session that is no longer in use gives its permit away. *)
HoldersUsable(i) == {s \in Created : Identity[sess[s].exec] = i /\ sess[s].status \in {"OPENING", "ACTIVE"}}

(* The holders of an identity keep their permit until their closure is
   verified. *)
Holders(i) == {s \in Created : Identity[sess[s].exec] = i /\ (sess[s].permit # 0 \/ ~sess[s].closed)}

FreePermits(i) == (1..Permits) \ {sess[s].permit : s \in Holders(i)}

TakenSlots == {sess[s].slot : s \in Created} \ {0}

Blockers(e) == {s \in Created : AnyConflict(Claims[e], sess[s].leases)}

(* A writer that asked earlier and was evaluated in the last ten seconds is
   admitted first; whether it was so recently is left open. *)
EarlierWriter(e) ==
    \E f \in Executions :
        /\ f < e
        /\ exec[f].sess = 0 /\ exec[f].open /\ exec[f].code = "DATA_LOCK"
        /\ exec[f].status \in {"WAITING_CAPACITY", "ALLOCATING"}
        /\ AnyConflict(Claims[e], {c \in Claims[f] : c.mode = "WRITE"})

(* The checks of allocateSession in their order, the first that fails. *)
Refusals(e, tok) ==
    IF exec[e].sess # 0 \/ exec[e].tok # tok \/ ~exec[e].open
       \/ exec[e].status \notin {"REQUESTED", "WAITING_CAPACITY", "ALLOCATING"}
      THEN {"ADMISSION_STALE"}
    ELSE IF Identity[e] # NoIdentity
            /\ (FreePermits(Identity[e]) = {} \/ Cardinality(Holders(Identity[e])) >= Permits)
      THEN {"IDENTITY_CAPACITY"}
    ELSE IF Blockers(e) # {}
      THEN {IF sess[s].quarantined THEN "LEASE_RECOVERY" ELSE "DATA_LOCK" : s \in Blockers(e)}
    ELSE IF Cardinality(TakenSlots) >= Capacity THEN {"NO_AVAILABLE_SLOT"} ELSE {}

(* Refusals that depend on the moment: an earlier writer was evaluated lately,
   or two serializable transactions met and no slot was left to try. *)
MayRefuse(w, e) ==
    (IF EarlierWriter(e) THEN {"DATA_LOCK"} ELSE {})
    \cup (IF \E v \in Workers \ {w} : work[v].pc = "ALLOCATE" THEN {"NO_AVAILABLE_SLOT"} ELSE {})

---------------------------------------------------------------------------
(* The admission of one execution, by one replica. *)

To(w, pc) == work' = [work EXCEPT ![w].pc = pc]
Ends(w) == work' = [work EXCEPT ![w] = NoWork]

(* Only an unavailable Runtime fails a FAIL_FAST execution; whoever waits for
   another execution waits. *)
Unavailable == {"NO_AVAILABLE_SLOT", "SESSION_OPEN_FAILED"}
Refuse(w, code) ==
    work' = [work EXCEPT ![w].code = code,
                         ![w].pc = IF code \in Unavailable THEN "WAIT" ELSE "DEFER"]

(* An allocation goes stale 120 s after its row was last updated: at any time,
   but not between two statements of which the first updates the row. *)
Stale(e) ==
    \A w \in Workers : work[w].exec = e => TakenOver /\ work[w].pc # "REREAD"

(* A sweep of reconcile settles its allocations, then its recoveries. *)
Settled == \A w \in Workers : work[w].pc = "IDLE"
Recovered == \A r \in Releasers : rel[r].stamp = 0

(* reconcile: the row is claimed as it was read; an allocation in progress is
   taken over once it has gone stale. *)
Claimed(w, e) ==
    /\ OneReplica => Recovered
    /\ exec' = [exec EXCEPT ![e].status = "ALLOCATING", ![e].tok = NewToken]
    /\ work' = [work EXCEPT ![w] = [NoWork EXCEPT !.pc = "ACQUIRE", !.exec = e, !.tok = NewToken]]
    /\ UNCHANGED <<task, sess, browser, rel, spent>>

(* Mutant: an allocation whose replica has stopped is left alone. *)
ClaimWaiting(w, e) ==
    /\ work[w].pc = "IDLE" /\ exec[e].open
    /\ exec[e].status \in {"REQUESTED", "WAITING_CAPACITY"}
    /\ Claimed(w, e)

Claim(w, e) ==
    /\ work[w].pc = "IDLE" /\ exec[e].open
    /\ \/ exec[e].status \in {"REQUESTED", "WAITING_CAPACITY"}
       \/ exec[e].status = "ALLOCATING" /\ Stale(e)
    /\ Claimed(w, e)

(* acquireForExecutionRun reads the execution, then its session. *)
Acquire(w) ==
    LET e == work[w].exec  s == exec[e].sess IN
    /\ work[w].pc = "ACQUIRE"
    /\ IF exec[e].tok # work[w].tok THEN Refuse(w, "ADMISSION_STALE")
       ELSE IF s = 0 THEN work' = [work EXCEPT ![w].pc = "ALLOCATE", ![w].cur = exec[e].tok]
       ELSE IF Usable(s) THEN Ends(w)
       ELSE IF sess[s].status = "OPENING" /\ ~sess[s].lapsed THEN Refuse(w, "ADMISSION_STALE")
       ELSE IF ~sess[s].closed \/ sess[s].owned THEN Refuse(w, "LEASE_RECOVERY")
       ELSE work' = [work EXCEPT ![w].pc = "REOPEN", ![w].sess = s]
    /\ UNCHANGED <<exec, task, sess, browser, rel, spent>>

(* A browser that never reached its agent is opened a second time, once. *)
Reopenable(e) == Unstarted(e) /\ ~task[e].closing

(* Mutant: the browser may be opened as often as it takes. *)
ExhaustedNever(e) == exec[e].restarts >= 2

Exhausted(e) == exec[e].restarts >= 1

Reopen(w) ==
    LET e == work[w].exec  s == work[w].sess IN
    /\ work[w].pc = "REOPEN"
    /\ IF ~Reopenable(e) THEN Refuse(w, "LEASE_RECOVERY") /\ UNCHANGED exec
       ELSE IF Exhausted(e) THEN To(w, "FAIL") /\ UNCHANGED exec
       ELSE IF exec[e].sess # s \/ exec[e].tok # work[w].tok \/ sess[s].owned \/ ~sess[s].closed
         THEN Refuse(w, "ADMISSION_STALE") /\ UNCHANGED exec
       ELSE /\ exec' = [exec EXCEPT ![e].sess = 0, ![e].restarts = @ + 1]
            /\ To(w, "REREAD")
    /\ UNCHANGED <<task, sess, browser, rel, spent>>

(* The execution is read again, with whatever token it has by now. *)
Reread(w) ==
    /\ work[w].pc = "REREAD"
    /\ work' = [work EXCEPT ![w].pc = "ALLOCATE", ![w].cur = exec[work[w].exec].tok, ![w].sess = 0]
    /\ UNCHANGED <<exec, task, sess, browser, rel, spent>>

(* allocateSession: under the resource lock, all of it or nothing. *)
AllocateRefused(w) ==
    LET e == work[w].exec  must == Refusals(e, work[w].cur) IN
    /\ work[w].pc = "ALLOCATE"
    /\ \E code \in (IF must # {} THEN must ELSE MayRefuse(w, e)) : Refuse(w, code)
    /\ UNCHANGED <<exec, task, sess, browser, rel, spent>>

Allocate(w) ==
    LET e == work[w].exec  s == Cardinality(Created) + 1 IN
    /\ work[w].pc = "ALLOCATE" /\ Refusals(e, work[w].cur) = {} /\ s <= Setting.sessions
    /\ sess' = [sess EXCEPT ![s] =
          [NoSession EXCEPT !.exec = e, !.status = "OPENING", !.leases = Claims[e],
                            !.slot = Min((1..Capacity) \ TakenSlots),
                            !.permit = IF Identity[e] = NoIdentity THEN 0 ELSE Min(FreePermits(Identity[e]))]]
    /\ exec' = [exec EXCEPT ![e].sess = s]
    /\ work' = [work EXCEPT ![w].pc = "OPEN", ![w].sess = s]
    /\ UNCHANGED <<task, browser, rel, spent>>

SendOpen(w) ==
    LET s == work[w].sess IN
    /\ work[w].pc = "OPEN"
    /\ browser' = [browser EXCEPT ![s] = IF @ = "NONE" THEN "SENT" ELSE @]
    /\ To(w, "AWAIT")
    /\ UNCHANGED <<exec, task, sess, rel, spent>>

(* The answer, or none within RUNTIME_LEASE_SECONDS. *)
OpenAnswered(w) ==
    /\ work[w].pc = "AWAIT"
    /\ \/ browser[work[w].sess] = "LIVE" /\ To(w, "ACTIVATE")
       \/ To(w, "FAIL_OPEN")
    /\ UNCHANGED <<exec, task, sess, browser, rel, spent>>

(* Mutant: the session stays active when the binding fails. *)
ActivateAnyway(w) ==
    LET e == work[w].exec  s == work[w].sess
        activated == sess[s].status = "OPENING" /\ ~sess[s].quarantined /\ ~sess[s].closed /\ ~sess[s].lapsed
        bound == /\ exec[e].sess = s /\ exec[e].tok = work[w].cur /\ exec[e].open
                 /\ exec[e].status \in {"REQUESTED", "WAITING_CAPACITY", "ALLOCATING"}
    IN
    /\ work[w].pc = "ACTIVATE"
    /\ sess' = IF activated THEN [sess EXCEPT ![s].status = "ACTIVE"] ELSE sess
    /\ exec' = IF activated /\ bound THEN [exec EXCEPT ![e].status = "ACTIVE", ![e].code = "NONE"] ELSE exec
    /\ Ends(w)
    /\ UNCHANGED <<task, browser, rel, spent>>

(* activateOpenedSession and the binding of the execution, one transaction:
   a superseded allocation leaves the session as it was. *)
Activate(w) ==
    LET e == work[w].exec  s == work[w].sess
        activated == sess[s].status = "OPENING" /\ ~sess[s].quarantined /\ ~sess[s].closed /\ ~sess[s].lapsed
        bound == /\ exec[e].sess = s /\ exec[e].tok = work[w].cur /\ exec[e].open
                 /\ exec[e].status \in {"REQUESTED", "WAITING_CAPACITY", "ALLOCATING"}
    IN
    /\ work[w].pc = "ACTIVATE"
    /\ IF activated /\ bound
         THEN /\ sess' = [sess EXCEPT ![s].status = "ACTIVE"]
              /\ exec' = [exec EXCEPT ![e].status = "ACTIVE", ![e].code = "NONE"]
              /\ Ends(w)
         ELSE /\ Refuse(w, IF activated THEN "ADMISSION_STALE" ELSE "LEASE_RECOVERY")
              /\ UNCHANGED <<sess, exec>>
    /\ UNCHANGED <<task, browser, rel, spent>>

FailOpen(w) ==
    /\ work[w].pc = "FAIL_OPEN"
    /\ Quarantine(work[w].sess)
    /\ To(w, "CLOSE")
    /\ UNCHANGED <<exec, task, browser, rel, spent>>

(* closeRuntimeSession, confirmed or not; then another Runtime, if there is
   one, refuses an execution that has a session. *)
CloseOpened(w) ==
    /\ work[w].pc = "CLOSE"
    /\ sess' = [sess EXCEPT ![work[w].sess].closing = TRUE]
    /\ \E code \in {"SESSION_OPEN_FAILED", "ADMISSION_STALE"} : Refuse(w, code)
    /\ UNCHANGED <<exec, task, browser, rel, spent>>

(* The last transaction of acquireForExecutionRun. *)
Wait(w) ==
    LET e == work[w].exec IN
    /\ work[w].pc = "WAIT"
    /\ exec' = IF exec[e].tok = work[w].cur /\ exec[e].open
                  /\ exec[e].status \in {"REQUESTED", "WAITING_CAPACITY", "ALLOCATING"}
               THEN [exec EXCEPT ![e].status = "WAITING_CAPACITY", ![e].code = work[w].code] ELSE exec
    /\ To(w, IF e \in FailFast THEN "FAIL" ELSE "DEFER")
    /\ UNCHANGED <<task, sess, browser, rel, spent>>

(* Mutant: any allocation of a row that is not yet bound. *)
OwnsAny(w) ==
    LET e == work[w].exec IN
    exec[e].open /\ exec[e].status \in {"ALLOCATING", "WAITING_CAPACITY"}

(* The allocation that still owns the row decides what becomes of it. *)
Owns(w) ==
    LET e == work[w].exec IN
    exec[e].tok = work[w].tok /\ exec[e].open /\ exec[e].status \in {"ALLOCATING", "WAITING_CAPACITY"}

Defer(w) ==
    LET e == work[w].exec IN
    /\ work[w].pc = "DEFER"
    /\ exec' = IF Owns(w)
               THEN [exec EXCEPT ![e].status = "WAITING_CAPACITY", ![e].code = work[w].code] ELSE exec
    /\ Ends(w)
    /\ UNCHANGED <<task, sess, browser, rel, spent>>

Fail(w) ==
    LET e == work[w].exec IN
    /\ work[w].pc = "FAIL"
    /\ IF Owns(w)
         THEN /\ exec' = [exec EXCEPT ![e].status = "FAILED", ![e].open = FALSE]
              /\ task' = [task EXCEPT ![e].status = IF @ = "PENDING" THEN "ENDED" ELSE @]
         ELSE UNCHANGED <<exec, task>>
    /\ Ends(w)
    /\ UNCHANGED <<sess, browser, rel, spent>>

---------------------------------------------------------------------------
(* The Runtime, the sweeper and the evidence of closures. *)

RuntimeOpens(s) ==
    /\ browser[s] = "SENT" /\ ~sess[s].lapsed
    /\ browser' = [browser EXCEPT ![s] = "LIVE"]
    /\ UNCHANGED <<exec, task, sess, work, rel, spent>>

(* The startup permit of a browser nobody has claimed runs out: always if the
   replica that was opening it has stopped, else as often as the bound says. *)
Orphan(s) == sess[s].status = "OPENING" /\ \A w \in Workers : work[w].sess # s
Lapse(s) ==
    /\ sess[s].status \in {"OPENING", "ACTIVE"} /\ ~sess[s].lapsed /\ ~sess[s].owned
    /\ sess' = [sess EXCEPT ![s].lapsed = TRUE]
    /\ IF Orphan(s) THEN UNCHANGED spent
       ELSE spent.lapses < MaxLapses /\ spent' = [spent EXCEPT !.lapses = @ + 1]
    /\ UNCHANGED <<exec, task, browser, work, rel>>

(* Mutant: what expired gives its slot to the next allocation. *)
ExpireSlotFreeing(s) ==
    /\ sess[s].lapsed /\ sess[s].slot # 0 /\ sess[s].status \in {"OPENING", "ACTIVE"}
    /\ sess' = [sess EXCEPT ![s].status = "LOST", ![s].quarantined = TRUE, ![s].slot = 0]
    /\ UNCHANGED <<exec, task, browser, work, rel, spent>>

(* expireSlots before an allocation, and the lease sweeper: what expired is
   quarantined, and keeps its slot. *)
ExpireSlot(s) ==
    /\ sess[s].lapsed /\ sess[s].slot # 0 /\ sess[s].status \in {"OPENING", "ACTIVE"}
    /\ Quarantine(s)
    /\ UNCHANGED <<exec, task, browser, work, rel, spent>>

(* What is known of the writes of a session; UNKNOWN where it matters. *)
Outcomes(s) ==
    {"SETTLED"} \cup (IF \E c \in sess[s].leases : c.origin = "NORMAL" /\ c.mode = "WRITE" THEN {"UNKNOWN"} ELSE {})

(* Mutant: everything is freed with the browser. *)
KeptNothing(s, write) == {}

(* Mutant: the guard stays although the outcome is known. *)
KeptAlways(s, write) == {c \in sess[s].leases : c.origin = "NORMAL" /\ c.mode = "WRITE"}

(* releaseVerifiedSessionResources: accounts are freed with the browser, the
   writes whose outcome is open stay guarded. *)
Kept(s, write) ==
    IF write = "UNKNOWN" THEN {c \in sess[s].leases : c.origin = "NORMAL" /\ c.mode = "WRITE"} ELSE {}

(* commitEvidence, for a session whose closing was asked for or that was
   lost: the browser is gone, and an execution it had been bound to ends.  A
   browser that was started may have written before an agent had it. *)
ClosureVerified(s) ==
    LET e == sess[s].exec
        outcomes == IF sess[s].write = "NONE" /\ browser[s] # "NONE" THEN Outcomes(s) ELSE {sess[s].write}
    IN
    /\ s \in Created /\ ~sess[s].closed
    /\ sess[s].closing \/ sess[s].status = "LOST"
    /\ browser' = [browser EXCEPT ![s] = "GONE"]
    /\ \E write \in outcomes :
          LET kept == Kept(s, write) IN
          sess' = [sess EXCEPT ![s].status = "CLOSED", ![s].closed = TRUE, ![s].slot = 0, ![s].permit = 0,
                               ![s].write = write, ![s].leases = kept, ![s].quarantined = kept # {}]
    /\ exec' = IF exec[e].sess = s /\ exec[e].status \in {"ACTIVE", "RELEASING", "LOST", "FAILED"}
               THEN [exec EXCEPT ![e].status = "RELEASED", ![e].tok = 0] ELSE exec
    /\ UNCHANGED <<task, work, rel, spent>>

(* The outcome of its writes is established, by its task or an operator. *)
OutcomeResolved(s) ==
    /\ sess[s].closed /\ sess[s].write = "UNKNOWN"
    /\ sess' = [sess EXCEPT ![s].write = "SETTLED", ![s].leases = {}, ![s].quarantined = FALSE]
    /\ UNCHANGED <<exec, task, browser, work, rel, spent>>

---------------------------------------------------------------------------
(* The agent and the run. *)

Claimable(e) == Unstarted(e) /\ ~task[e].closing

ClaimTask(e) ==
    LET s == exec[e].sess IN
    /\ exec[e].open /\ exec[e].status = "ACTIVE" /\ s # 0
    /\ Claimable(e) /\ Usable(s)
    /\ task' = [task EXCEPT ![e].status = "RUNNING"]
    /\ sess' = [sess EXCEPT ![s].owned = TRUE]
    /\ UNCHANGED <<exec, browser, work, rel, spent>>

(* The task ends with its run, in time or because its lease was lost; its
   writes are accounted for or not. *)
TaskEnds(e) ==
    /\ task[e].status = "RUNNING"
    /\ task' = [task EXCEPT ![e].status = "ENDED"]
    /\ exec' = [exec EXCEPT ![e].open = FALSE]
    /\ \E write \in Outcomes(exec[e].sess), lost \in BOOLEAN :
          sess' = [sess EXCEPT ![exec[e].sess].write = write,
                               ![exec[e].sess].quarantined = @ \/ lost]
    /\ UNCHANGED <<browser, work, rel, spent>>

(* The run is cancelled, or its deadline passes, before its task is claimed;
   the cleanup asks for the closure of a browser it may have. *)
RunEnds(e) ==
    /\ e \in Cancelled /\ exec[e].open /\ task[e].status = "PENDING"
    /\ exec' = [exec EXCEPT ![e].open = FALSE]
    /\ task' = [task EXCEPT ![e].status = "ENDED"]
    /\ UNCHANGED <<sess, browser, work, rel, spent>>

CleanUp(e) ==
    LET s == exec[e].sess IN
    /\ ~exec[e].open /\ s # 0 /\ exec[e].status # "RELEASED" /\ ~sess[s].closing /\ ~sess[s].closed
    /\ sess' = [sess EXCEPT ![s].closing = TRUE]
    /\ UNCHANGED <<exec, task, browser, work, rel, spent>>

---------------------------------------------------------------------------
(* recoverStartupExecutions and releaseForExecutionRun. *)

(* A browser that nobody has claimed and nobody can claim any more. *)
Unhealthy(s) ==
    /\ ~sess[s].owned
    /\ \/ sess[s].status \notin {"OPENING", "ACTIVE"}
       \/ sess[s].lapsed \/ sess[s].quarantined \/ sess[s].closed

(* Mutant: a later sweep does not respect it. *)
ReservedNever(e) == FALSE

(* The reservation outlives the close it was made for. *)
Reserved(e) == task[e].closing /\ \E r \in Releasers : rel[r].stamp = task[e].stamp /\ rel[r].exec = e

Reserve(r, e) ==
    LET s == exec[e].sess IN
    /\ rel[r].pc = "IDLE" /\ exec[e].open /\ s # 0
    /\ Unstarted(e) /\ ~Reserved(e) /\ (OneReplica => Settled)
    /\ exec[e].status # "WAITING_CAPACITY" \/ ~sess[s].closed
    /\ Unhealthy(s)
    /\ task' = [task EXCEPT ![e].closing = TRUE, ![e].stamp = NewStamp]
    /\ Quarantine(s)
    /\ exec' = [exec EXCEPT ![e].status = "LOST", ![e].code = "LEASE_RECOVERY"]
    /\ rel' = [rel EXCEPT ![r] = [pc |-> "READ", exec |-> e, sess |-> s, tok |-> 0, stamp |-> NewStamp]]
    /\ UNCHANGED <<browser, work, spent>>

(* The agent that has finished, or the recovery of its lease, releases the
   browser; the cleanup does so for a run that never had one. *)
StartRelease(r, e) ==
    /\ rel[r].pc = "IDLE" /\ ~exec[e].open /\ exec[e].status # "RELEASED"
    /\ exec[e].sess \in {0} \cup {s \in Created : sess[s].owned}
    /\ rel' = [rel EXCEPT ![r] = [NoRelease EXCEPT !.pc = "READ", !.exec = e]]
    /\ UNCHANGED <<exec, task, sess, browser, work, spent>>

RelTo(r, pc) == rel' = [rel EXCEPT ![r].pc = pc]
Released(r) == IF rel[r].stamp # 0 THEN RelTo(r, "RECOVER") ELSE rel' = [rel EXCEPT ![r] = NoRelease]

ReleaseRead(r) ==
    LET e == rel[r].exec  s == exec[e].sess IN
    /\ rel[r].pc = "READ"
    /\ rel' = [rel EXCEPT ![r].sess = IF s = 0 THEN @ ELSE s, ![r].tok = exec[e].tok,
                          ![r].pc = IF s = 0 THEN "EMPTY" ELSE IF sess[s].closed THEN "CLOSED" ELSE "MARK"]
    /\ UNCHANGED <<exec, task, sess, browser, work, spent>>

(* Nothing to close: the allocation in progress, if it is the one that was
   read, is called off. *)
CalledOff(r) == exec[rel[r].exec].sess = 0 /\ exec[rel[r].exec].tok = rel[r].tok

ReleaseEmpty(r) ==
    LET e == rel[r].exec IN
    /\ rel[r].pc = "EMPTY"
    /\ exec' = IF CalledOff(r) THEN [exec EXCEPT ![e].status = "RELEASED", ![e].tok = 0] ELSE exec
    /\ Released(r)
    /\ UNCHANGED <<task, sess, browser, work, spent>>

ReleaseClosed(r) ==
    /\ rel[r].pc = "CLOSED"
    /\ exec' = [exec EXCEPT ![rel[r].exec].status = "RELEASED"]
    /\ Released(r)
    /\ UNCHANGED <<task, sess, browser, work, spent>>

ReleaseMark(r) ==
    LET e == rel[r].exec IN
    /\ rel[r].pc = "MARK"
    /\ exec' = [exec EXCEPT ![e].status = IF @ = "RELEASED" THEN @ ELSE "RELEASING"]
    /\ RelTo(r, "CLOSE")
    /\ UNCHANGED <<task, sess, browser, work, spent>>

ReleaseClose(r) ==
    /\ rel[r].pc = "CLOSE"
    /\ sess' = [sess EXCEPT ![rel[r].sess].closing = TRUE]
    /\ RelTo(r, "FINISH")
    /\ UNCHANGED <<exec, task, browser, work, spent>>

(* The close was confirmed, refused or not answered within its 60 seconds. *)
ReleaseFinish(r) ==
    LET e == rel[r].exec  s == rel[r].sess IN
    /\ rel[r].pc = "FINISH"
    /\ exec' = IF exec[e].sess = s /\ exec[e].status # "RELEASED"
               THEN [exec EXCEPT ![e].status = IF sess[s].closed THEN "RELEASED" ELSE "LOST"] ELSE exec
    /\ Released(r)
    /\ UNCHANGED <<task, sess, browser, work, spent>>

(* Only proof of the closure lets the execution ask for a second browser. *)
Proved(s) == sess[s].closed /\ ~sess[s].owned

Recover(r) ==
    LET e == rel[r].exec  s == rel[r].sess
        mine == Unstarted(e) /\ task[e].closing /\ task[e].stamp = rel[r].stamp
    IN
    /\ rel[r].pc = "RECOVER"
    /\ rel' = [rel EXCEPT ![r] = NoRelease]
    /\ IF Proved(s) /\ mine
         THEN /\ task' = [task EXCEPT ![e].closing = FALSE, ![e].stamp = 0]
              /\ exec' = IF exec[e].sess = s /\ exec[e].open
                         THEN [exec EXCEPT ![e].status = "WAITING_CAPACITY", ![e].tok = NewToken,
                                           ![e].code = "LEASE_RECOVERY"] ELSE exec
         ELSE UNCHANGED <<task, exec>>
    /\ UNCHANGED <<sess, browser, work, spent>>

Crash ==
    /\ spent.crashes < MaxCrashes
    /\ spent' = [spent EXCEPT !.crashes = @ + 1]
    /\ \/ \E w \in Workers : work[w].pc # "IDLE" /\ Ends(w) /\ UNCHANGED rel
       \/ \E r \in Releasers :
            rel[r].pc # "IDLE" /\ rel' = [rel EXCEPT ![r] = NoRelease] /\ UNCHANGED work
    /\ UNCHANGED <<exec, task, sess, browser>>

---------------------------------------------------------------------------
Admit(w) ==
    \/ Acquire(w) \/ Reopen(w) \/ Reread(w) \/ AllocateRefused(w) \/ Allocate(w)
    \/ SendOpen(w) \/ OpenAnswered(w) \/ Activate(w) \/ FailOpen(w) \/ CloseOpened(w)
    \/ Wait(w) \/ Defer(w) \/ Fail(w)

Release(r) ==
    \/ ReleaseRead(r) \/ ReleaseEmpty(r) \/ ReleaseClosed(r) \/ ReleaseMark(r)
    \/ ReleaseClose(r) \/ ReleaseFinish(r) \/ Recover(r)

Next ==
    \/ \E w \in Setting.workers : Admit(w) \/ \E e \in Runs : Claim(w, e)
    \/ \E r \in Setting.releasers : Release(r) \/ \E e \in Runs : Reserve(r, e) \/ StartRelease(r, e)
    \/ \E s \in SessionIds : RuntimeOpens(s) \/ Lapse(s) \/ ExpireSlot(s) \/ ClosureVerified(s) \/ OutcomeResolved(s)
    \/ \E e \in Runs : ClaimTask(e) \/ TaskEnds(e) \/ RunEnds(e) \/ CleanUp(e)
    \/ Crash

Spec == Init /\ [][Next]_vars

(* reconcile claims every candidate of a sweep, in turns; the other activities
   go on as long as their replica does.  The Runtime answers or is given up,
   closures are proved, tasks end. *)
FairSpec ==
    /\ Spec
    /\ \A w \in Workers : WF_vars(Admit(w))
    /\ \A r \in Releasers : WF_vars(Release(r))
    /\ \A e \in Executions :
          /\ SF_vars(\E w \in Setting.workers : Claim(w, e))
          /\ SF_vars(\E r \in Setting.releasers : e \in Runs /\ Reserve(r, e))
          /\ SF_vars(\E r \in Setting.releasers : e \in Runs /\ StartRelease(r, e))
          /\ WF_vars(ClaimTask(e)) /\ WF_vars(TaskEnds(e)) /\ WF_vars(CleanUp(e))
    /\ \A s \in SessionIds : WF_vars(Orphan(s) /\ Lapse(s))
    /\ \A s \in SessionIds : WF_vars(ExpireSlot(s)) /\ WF_vars(ClosureVerified(s)) /\ WF_vars(OutcomeResolved(s))

---------------------------------------------------------------------------
(* Types, and: a slot, a permit and an account are held until the closure
   (releaseVerifiedSessionResources), an open execution's session is its own. *)
TypeAdmission ==
    /\ \A e \in Executions :
          /\ exec[e].status \in {"REQUESTED", "WAITING_CAPACITY", "ALLOCATING", "ACTIVE", "RELEASING",
                                 "RELEASED", "LOST", "FAILED"}
          /\ exec[e].tok \in Tokens \cup {0} /\ exec[e].sess \in SessionIds \cup {0}
          /\ exec[e].sess # 0 => sess[exec[e].sess].exec = e
          /\ task[e].status \in {"PENDING", "RUNNING", "ENDED"}
    /\ \A s \in Created :
          /\ sess[s].closed <=> sess[s].slot = 0
          /\ sess[s].closed <=> browser[s] = "GONE"
    /\ \A w \in Workers : work[w].pc \in {"IDLE", "ACQUIRE", "REOPEN", "REREAD", "ALLOCATE", "OPEN", "AWAIT",
                                           "ACTIVATE", "FAIL_OPEN", "CLOSE", "WAIT", "DEFER", "FAIL"}
    /\ \A r \in Releasers : rel[r].pc \in {"IDLE", "READ", "EMPTY", "CLOSED", "MARK", "CLOSE", "FINISH", "RECOVER"}

(* Browsers that may be running, or may still be started. *)
MayRun == {s \in Created : browser[s] # "GONE"}

(* However many replicas allocate, and whatever has expired, a Runtime never
   has more browsers than it has slots, nor a login identity more than its
   executionConcurrency, lost ones included (the checks of allocateSession). *)
ResourcesHeld ==
    /\ Cardinality(MayRun) <= Capacity
    /\ \A s, t \in MayRun : s # t => sess[s].slot # sess[t].slot
    /\ \A i \in {Identity[e] : e \in Runs} \ {NoIdentity} :
          Cardinality({s \in MayRun : Identity[sess[s].exec] = i}) <= Permits

(* Two keys of which one lies below the other. *)
Overlap(k, l) == \A i \in 1..(IF Len(k) < Len(l) THEN Len(k) ELSE Len(l)) : k[i] = l[i]

(* Two browsers never work at once on an account or on data that one of them
   may change, not even one on a collection and one on a record in it; and
   data whose last writer was closed with an unknown outcome is not handed to
   another browser before that outcome is established. *)
ClaimsExclusive ==
    /\ \A s, t \in MayRun : s # t =>
          \A c \in Claims[sess[s].exec], d \in Claims[sess[t].exec] :
              \/ c.mode = "READ" /\ d.mode = "READ"
              \/ c.root # d.root /\ "*" \notin {c.root, d.root}
              \/ c.root = d.root /\ ~Overlap(c.key, d.key)
    /\ \A s \in Created : sess[s].write = "UNKNOWN" =>
          \A t \in MayRun : \A c \in Claims[sess[s].exec], d \in Claims[sess[t].exec] :
              t > s /\ c.mode = "WRITE" /\ c.origin = "NORMAL" => ~Conflict(c, d)

(* An execution has one browser at a time, two in all, and a second only if
   no agent ever had the first: no started attempt is replayed by a reopen.
   And the startup recovery never closes the browser of a task that is
   running: not even one opened after the browser it set out to close. *)
OneBrowserPerAttempt ==
    \A e \in Executions :
        LET mine == {s \in Created : sess[s].exec = e}  s == exec[e].sess IN
        /\ Cardinality(mine \cap MayRun) <= 1
        /\ Cardinality(mine) <= 2
        /\ \A o, n \in mine : o < n => ~sess[o].owned
        /\ task[e].status = "RUNNING" => s # 0 /\ Usable(s) /\ ~sess[s].closing

(* The rows have their shape; a browser that is in use belongs to an
   execution that has been admitted, so an open acknowledged too late for its
   allocation activates nothing; and while the allocation that owns an
   execution is at work, no superseded one has put the row back in the queue
   or failed it. *)
ActiveIsAdmitted ==
    /\ TypeAdmission
    /\ \A s \in Created : sess[s].status = "ACTIVE" =>
          LET e == sess[s].exec IN
          exec[e].sess = s /\ exec[e].status \notin {"REQUESTED", "WAITING_CAPACITY", "ALLOCATING"}
    /\ \A w \in Workers : LET e == work[w].exec IN
          work[w].pc \in {"ACQUIRE", "REOPEN", "REREAD", "ALLOCATE", "OPEN", "AWAIT", "ACTIVATE", "FAIL_OPEN", "CLOSE"}
              /\ exec[e].tok = work[w].tok
          => exec[e].status \notin {"REQUESTED", "WAITING_CAPACITY", "FAILED"}

(* Every run gets its browser and ends, or fails, and every browser is closed:
   none waits for ever on another that waits, on a replica that stopped, or
   on a browser that was lost. *)
AdmissionConcludes ==
    <>[]((\A e \in Executions : ~exec[e].open) /\ (\A s \in Created : sess[s].closed))
=============================================================================
