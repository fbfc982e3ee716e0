-------------------------- MODULE SessionRecovery ---------------------------
(***************************************************************************)
(* Recovery of the browser sessions of one Runtime in the control plane    *)
(* (apps/api/src/runtime: session-recovery.service, .worker and .state,    *)
(* session-closure.service, session-resource-cleanup).                     *)
(*                                                                         *)
(* A session that is no longer healthy gets a recovery row.  A worker of   *)
(* any replica claims the row together with the Runtime's one recovery     *)
(* permit, writes a session.close command and dispatches it outside the    *)
(* transaction; the Runtime answers with closure evidence or an error.     *)
(* The session's slot and write guard are freed by evidence alone.  Every  *)
(* transaction takes the advisory lock browser-execution-resources, so it  *)
(* is one step; the dispatching tasks run between them.                    *)
(*                                                                         *)
(* Timers are abstracted: a claim, a command's deadline and the next       *)
(* attempt each fall due at some time after they were set, in any order.   *)
(* A claim token is a number no running task holds.  Sessions are those of *)
(* an execution with a WRITE claim; one whose launch is not registered and *)
(* audited counts as having written from the start.                        *)
(***************************************************************************)
EXTENDS Naturals, FiniteSets

CONSTANTS Sessions,     \* sessions of the Runtime, each in one epoch
          Settings      \* what a behaviour is about, and its bounds (see below)

ASSUME RecoveryAssumption ==
    /\ IsFiniteSet(Sessions) /\ "none" \notin Sessions
    /\ Settings \subseteq [sessions : SUBSET Sessions, running : SUBSET Sessions,
                           explicit : SUBSET Sessions, attempts : Nat \ {0},
                           tasks : Nat \ {0}, retries : Nat, drops : Nat,
                           settles : BOOLEAN]

VARIABLES
    owner,     \* the execution that uses the session: running, confirmed or lost
    sess,      \* browser_runtime_sessions: status, closureVerifiedAt, quarantinedAt
    rec,       \* runtime_session_recoveries
    cmd,       \* browser_runtime_commands of type session.close, by session
    permit,    \* runtime_recovery_permits of the Runtime
    task,      \* RecoveryWorker.dispatch in progress, by session and claim token
    closer,    \* an explicit session close in progress
    guard,     \* the session's WRITE lease in execution_resource_leases
    slot,      \* the session's slot, profile lease and account lease
    link,      \* the Runtime: connected, with closure-evidence-v1, disconnections; the setting
    alive,     \* the session's browser runs
    writes,    \* commands of the session that may write, as its rows show them (see below)
    retries    \* operator retries so far

vars == <<owner, sess, rec, cmd, permit, task, closer, guard, slot, link, alive, writes, retries>>
resources == <<guard, slot>>

Here == link.setting.sessions         \* the sessions there are
Running == link.setting.running       \* those whose execution is running at first
Explicit == link.setting.explicit     \* those that a person or a cleanup may also close
MaxAttempts == link.setting.attempts  \* MAX_CLOSURE_ATTEMPTS
MaxTasks == link.setting.tasks        \* bound: dispatching tasks of a session at one time
MaxRetries == link.setting.retries    \* bound: operator retries of a recovery
MaxDrops == link.setting.drops        \* bound: disconnections of the Runtime
Settles == link.setting.settles       \* bound: a closed session's writes may be settled

Tokens == UNION {1 .. b.tasks : b \in Settings}
Commands == UNION {1 .. b.attempts * (b.retries + 1) : b \in Settings}

NoPermit == [s |-> "none", tok |-> 0, live |-> FALSE, cmd |-> 0]
NoTask == [pc |-> "none", cmd |-> 0, code |-> "none"]
NoCommand == [status |-> "none", late |-> FALSE, ran |-> "no"]

Settled(write) == write # "UNKNOWN"
Verified(s) == sess[s].verified
(* A command that may still be executed: unfinished, before its deadline. *)
InFlight(s, n) == n # 0 /\ cmd[s][n].status = "open" /\ ~cmd[s][n].late
Pending(s) == InFlight(s, rec[s].cmd)

(* isHealthySession. *)
Healthy(s) == sess[s].status = "ACTIVE" /\ ~sess[s].quarantined /\ owner[s] = "running"

----------------------------------------------------------------------------
(* session-recovery.state.ts and session-resource-cleanup.ts               *)

(* Mutant: the history is judged while the session still takes commands.   *)
ObservedOnlyEarly(s, stopped) == writes[s] \in {"none", "admitted"}
(* hasVerifiedObservationOnlyHistory: the session takes no commands any    *)
(* more, and there is no row of one that may have written.                 *)
ObservedOnly(s, stopped) == stopped /\ writes[s] \in {"none", "admitted"}

(* refreshRecoveryWriteOutcome, and initialWriteState for a new row: a     *)
(* confirmed verdict, a history of observations or an audit settles the    *)
(* business writes.                                                        *)
RefreshedWrite(s, r, stopped, audited) ==
    IF ~Settled(r.write) /\ (owner[s] = "confirmed" \/ ObservedOnly(s, stopped) \/ audited)
      THEN "SETTLED" ELSE r.write

(* materializeRecoveryGuards: unsettled writes keep their lease, which is  *)
(* quarantined and written anew if it is missing.                          *)
Guarded(s, write) == IF Settled(write) THEN guard[s] ELSE "quarantined"

(* ensureRecovery, for a session that was observed or must be closed, and  *)
(* that takes no commands any more if it is stopped.                       *)
Ensured(s, observed, stopped, audited) ==
    LET old == rec[s]
        row == IF old.state = "NONE"
                 THEN [old EXCEPT !.state = IF observed THEN "OBSERVED" ELSE "REQUESTED",
                                  !.due = ~observed]
               ELSE IF old.state = "OBSERVED" /\ ~observed
                 THEN [old EXCEPT !.state = "REQUESTED", !.due = TRUE]
               ELSE old
    IN  [row EXCEPT !.write = RefreshedWrite(s, row, stopped, audited)]

(* Mutant: a closed browser has nothing left to guard. *)
ReleasedAnyway(s, write) == "none"
(* releaseVerifiedSessionResources, after closure: the slot, profile and   *)
(* account leases go; the write lease only with a settled write.           *)
Released(s, write) == IF Settled(write) THEN "none" ELSE "quarantined"

Quarantined(s) ==
    [sess EXCEPT ![s] = [sess[s] EXCEPT !.status = "LOST", !.quarantined = TRUE]]

----------------------------------------------------------------------------
(* The environment: executions end, browsers die, time passes.             *)

(* An execution ends with a confirmed outcome or without one.  An outcome  *)
(* that is confirmed, or that the audit of a closed session makes harmless, *)
(* frees what the session still holds (releaseCompletedSessionData).       *)
OwnerEnds(s) ==
    /\ owner[s] = "running"
    /\ \E outcome \in {"confirmed", "lost"}, audited \in {FALSE, Settles} :
          /\ owner' = [owner EXCEPT ![s] = outcome]
          /\ IF (outcome = "confirmed" \/ audited) /\ Verified(s)
               THEN /\ rec' = [rec EXCEPT ![s].write = "SETTLED"]
                    /\ guard' = [guard EXCEPT ![s] = "none"]
                    /\ sess' = [sess EXCEPT ![s].quarantined = FALSE]
               ELSE UNCHANGED <<rec, guard, sess>>
    /\ UNCHANGED <<cmd, permit, task, closer, slot, link, alive, writes, retries>>

(* quarantineSession, by the sweepers and the gateway: expiry and a        *)
(* restarted Runtime show nothing about the browser.                       *)
Quarantine(s) ==
    /\ ~Verified(s) /\ ~sess[s].quarantined
    /\ sess' = Quarantined(s)
    /\ guard' = [guard EXCEPT ![s] = IF @ = "held" THEN "quarantined" ELSE @]
    /\ UNCHANGED <<owner, rec, cmd, permit, task, closer, slot, link, alive, writes, retries>>

(* A command that may write: RuntimeCommandDispatcher.execute reads the    *)
(* session, which must still take commands, and later creates the row,     *)
(* whatever the session has become by then.  One command stands for all.   *)
Admit(s) ==
    /\ sess[s].status = "ACTIVE" /\ owner[s] = "running" /\ writes[s] = "none"
    /\ writes' = [writes EXCEPT ![s] = "admitted"]
    /\ UNCHANGED <<owner, sess, rec, cmd, permit, task, closer, resources, link, alive, retries>>

Record(s) ==
    /\ writes[s] = "admitted"
    /\ writes' = [writes EXCEPT ![s] = IF sess[s].status = "ACTIVE" THEN "recorded" ELSE "late"]
    /\ UNCHANGED <<owner, sess, rec, cmd, permit, task, closer, resources, link, alive, retries>>

(* takeover: the session has had a person's control generation, and what   *)
(* was done in it is not only observation any more.                        *)
TakeOver(s) ==
    /\ sess[s].status = "ACTIVE" /\ writes[s] # "recorded"
    /\ writes' = [writes EXCEPT ![s] = "recorded"]
    /\ UNCHANGED <<owner, sess, rec, cmd, permit, task, closer, resources, link, alive, retries>>

(* The deadline of a command passes; later the sweeper or a waiting caller *)
(* writes TIMED_OUT.                                                       *)
DeadlinePasses(s) ==
    /\ \E n \in Commands :
          /\ InFlight(s, n)
          /\ cmd' = [cmd EXCEPT ![s][n].late = TRUE]
    /\ UNCHANGED <<owner, sess, rec, permit, task, closer, resources, link, alive, writes, retries>>

TimesOut(s) ==
    /\ \E n \in Commands :
          /\ cmd[s][n].status = "open" /\ cmd[s][n].late
          /\ cmd' = [cmd EXCEPT ![s][n].status = "timeout"]
    /\ UNCHANGED <<owner, sess, rec, permit, task, closer, resources, link, alive, writes, retries>>

(* The claim of a row, and of the permit taken with it, runs out.          *)
ClaimExpires(s) ==
    /\ rec[s].live \/ (permit.s = s /\ permit.live)
    /\ rec' = [rec EXCEPT ![s].live = FALSE]
    /\ permit' = IF permit.s = s THEN [permit EXCEPT !.live = FALSE] ELSE permit
    /\ UNCHANGED <<owner, sess, cmd, task, closer, resources, link, alive, writes, retries>>

(* next_attempt_at passes. *)
FallsDue(s) ==
    /\ rec[s].state \in {"REQUESTED", "RETRY_WAIT", "WAITING_RUNTIME", "CLOSING"}
    /\ ~rec[s].due
    /\ rec' = [rec EXCEPT ![s].due = TRUE]
    /\ UNCHANGED <<owner, sess, cmd, permit, task, closer, resources, link, alive, writes, retries>>

----------------------------------------------------------------------------
(* SessionRecoveryService                                                  *)

(* request, by discover() or a member of the team: a healthy session is    *)
(* only observed.  Any other takes no more commands before it is assessed; *)
(* one that is verified closed frees what its assessment allows.           *)
RequestRow(s, explicit, audited) ==
    LET healthy == ~explicit /\ Healthy(s)
        row == Ensured(s, healthy, ~healthy, audited)
    IN  /\ rec' = [rec EXCEPT ![s] = row]
        /\ IF Verified(s)
             THEN /\ sess' = [sess EXCEPT ![s].quarantined = ~Settled(row.write)]
                  /\ guard' = [guard EXCEPT ![s] = Released(s, row.write)]
             ELSE /\ sess' = IF healthy THEN sess ELSE Quarantined(s)
                  /\ guard' = [guard EXCEPT ![s] = IF healthy THEN @ ELSE Guarded(s, row.write)]

Request(s) ==
    /\ \E audited \in {FALSE, Settles /\ Verified(s)} : RequestRow(s, FALSE, audited)
    /\ <<sess, rec, guard>>' # <<sess, rec, guard>>
    /\ UNCHANGED <<owner, cmd, permit, task, closer, slot, link, alive, writes, retries>>

(* A new command of the session, in the next row of the table.             *)
NextCommand(s) == 1 + Cardinality({n \in Commands : cmd[s][n].status # "none"})
WithCommand(s, n) ==
    IF Pending(s) THEN cmd
    ELSE [cmd EXCEPT ![s][n] = [NoCommand EXCEPT !.status = "open"]]

(* Mutant: an expired claim hands the permit over. *)
PermitFreeExpired(s) == permit.s = "none" \/ ~permit.live
(* An expired claim alone does not hand the permit to another session      *)
(* while the command it was taken for may still be executed.               *)
PermitFree(s) ==
    \/ permit.s = "none"
    \/ /\ ~permit.live
       /\ permit.s = s \/ ~InFlight(permit.s, permit.cmd)

(* The row and the permit of a claim for command n.                        *)
Claimed(s, n, tok) ==
    /\ permit' = [s |-> s, tok |-> tok, live |-> TRUE, cmd |-> n]
    /\ rec' = [rec EXCEPT ![s] =
          [rec[s] EXCEPT !.state = "CLOSING", !.cmd = n, !.tok = tok, !.live = TRUE, !.due = FALSE,
                         !.attempts = rec[s].attempts + IF Pending(s) THEN 0 ELSE 1]]

(* An explicit close: request, and in a second transaction prepareClose,   *)
(* whose command the caller then executes.                                 *)
ExplicitClose(s) ==
    /\ s \in Explicit /\ closer[s].pc = "idle" /\ ~Verified(s)
    /\ RequestRow(s, TRUE, FALSE)
    /\ closer' = [closer EXCEPT ![s] = [pc |-> "prepare", cmd |-> 0]]
    /\ UNCHANGED <<owner, cmd, permit, task, slot, link, alive, writes, retries>>

FreeToken(s) == {t \in 1 .. MaxTasks : task[s][t].pc = "none"}

CanPrepare(s) ==
    /\ ~Verified(s) /\ rec[s].state # "NEEDS_OPERATOR"
    /\ Pending(s) \/ (rec[s].attempts < MaxAttempts /\ rec[s].due)
    /\ permit.s = s \/ PermitFree(s)

PrepareClose(s) ==
    /\ closer[s].pc = "prepare"
    /\ CanPrepare(s)
    /\ \E tok \in FreeToken(s) :
          LET n == IF Pending(s) THEN rec[s].cmd ELSE NextCommand(s)
          IN  /\ n \in Commands
              /\ cmd' = WithCommand(s, n)
              /\ Claimed(s, n, tok)
              /\ closer' = [closer EXCEPT ![s] = [pc |-> "send", cmd |-> n]]
    /\ UNCHANGED <<owner, sess, task, resources, link, alive, writes, retries>>

(* The refusals: a pending retry or an operator's decision ends the close; *)
(* any other is reported without a command.                                *)
PrepareRefused(s) ==
    /\ closer[s].pc = "prepare"
    /\ ~CanPrepare(s)
    /\ closer' = [closer EXCEPT ![s] =
          [pc |-> IF \/ rec[s].state = "NEEDS_OPERATOR"
                     \/ ~Pending(s) /\ (rec[s].attempts >= MaxAttempts \/ ~rec[s].due)
                  THEN "idle" ELSE "report",
           cmd |-> 0]]
    /\ UNCHANGED <<owner, sess, rec, cmd, permit, task, resources, link, alive, writes, retries>>

Waiting(s) ==
    \/ rec[s].state = "WAITING_RUNTIME"
    \/ rec[s].state = "NEEDS_OPERATOR" /\ rec[s].err = "unsupported"

(* Mutant: the reconnection of the Runtime proves its browsers closed. *)
WakeRuntimeVerified ==
    /\ link.up /\ link.hello /\ link.supports
    /\ link' = [link EXCEPT !.hello = FALSE]
    /\ rec' = [s \in Sessions |-> IF Waiting(s) THEN [rec[s] EXCEPT !.state = "VERIFIED"] ELSE rec[s]]
    /\ sess' = [s \in Sessions |->
         IF Waiting(s) THEN [sess[s] EXCEPT !.status = "CLOSED", !.verified = TRUE] ELSE sess[s]]
    /\ slot' = [s \in Sessions |-> slot[s] /\ ~Waiting(s)]
    /\ UNCHANGED <<owner, cmd, permit, task, closer, guard, alive, writes, retries>>

(* wakeRuntime, at the Runtime's hello: rows that waited for it, or for a  *)
(* Runtime that can produce evidence, are requested again.                 *)
WakeRuntime ==
    /\ link.up /\ link.hello
    /\ link' = [link EXCEPT !.hello = FALSE]
    /\ rec' = [s \in Sessions |->
         IF link.supports /\ Waiting(s)
           THEN [rec[s] EXCEPT !.state = "REQUESTED", !.due = TRUE] ELSE rec[s]]
    /\ UNCHANGED <<owner, sess, cmd, permit, task, closer, resources, alive, writes, retries>>

(* retry, by a member of the team. *)
Retry(s) ==
    /\ retries[s] < MaxRetries
    /\ rec[s].state \in {"REQUESTED", "RETRY_WAIT", "WAITING_RUNTIME", "CLOSING",
                         "NEEDS_OPERATOR"}
    /\ ~rec[s].live
    /\ rec' = [rec EXCEPT ![s] =
          [rec[s] EXCEPT !.state = "REQUESTED", !.attempts = 0, !.due = TRUE]]
    /\ retries' = [retries EXCEPT ![s] = @ + 1]
    /\ UNCHANGED <<owner, sess, cmd, permit, task, closer, resources, link, alive, writes>>

(* finishRecovery: an administrator attests the business outcome, or the   *)
(* requester accepts a retry over an unknown one.                          *)
ResolveWrite(s) ==
    /\ Settles
    /\ Verified(s) /\ rec[s].state = "VERIFIED"
    /\ ~Settled(rec[s].write)
    /\ owner[s] # "running"
    /\ \E write \in {"SETTLED", "RETRY_AUTHORIZED"} :
          rec' = [rec EXCEPT ![s].write = write]
    /\ guard' = [guard EXCEPT ![s] = "none"]
    /\ sess' = [sess EXCEPT ![s].quarantined = FALSE]
    /\ UNCHANGED <<owner, cmd, permit, task, closer, slot, link, alive, writes, retries>>

----------------------------------------------------------------------------
(* SessionClosureService                                                   *)

(* commitEvidence for a session whose Runtime attested its closure; it is  *)
(* repeated for evidence that comes again.  `audited`: the evidence carries *)
(* an audit that shows no business write.                                  *)
CommitEvidence(s, audited) ==
    LET write == RefreshedWrite(s, rec[s], TRUE, audited)
        row == [rec[s] EXCEPT !.write = write]
    IN  /\ rec' = [rec EXCEPT ![s] =
             IF Verified(s) THEN row
             ELSE [row EXCEPT !.state = "VERIFIED", !.due = TRUE, !.tok = 0, !.live = FALSE]]
        /\ sess' = [sess EXCEPT ![s] =
             [status |-> "CLOSED", verified |-> TRUE, quarantined |-> ~Settled(write)]]
        /\ guard' = [guard EXCEPT ![s] = Released(s, write)]
        /\ slot' = [slot EXCEPT ![s] = FALSE]
        /\ permit' = IF permit.s = s THEN NoPermit ELSE permit

(* The evidence of any command of the session, however late and however    *)
(* often the Runtime sends it.                                             *)
AcceptEvidence(s) ==
    /\ link.up /\ link.supports
    /\ \E n \in Commands : cmd[s][n].ran = "closed"
    /\ \E audited \in {FALSE, Settles} : CommitEvidence(s, audited)
    /\ UNCHANGED <<owner, cmd, task, closer, link, alive, writes, retries>>

(* The terminal result of a command; evidence is accepted before it.       *)
AcceptResult(s) ==
    /\ link.up
    /\ \E n \in Commands :
          /\ cmd[s][n].status = "open"
          /\ \/ /\ cmd[s][n].ran = "closed" /\ Verified(s)
                /\ cmd' = [cmd EXCEPT ![s][n].status = "ok"]
             \/ /\ cmd[s][n].ran = "unverified"
                /\ cmd' = [cmd EXCEPT ![s][n].status = "error"]
    /\ UNCHANGED <<owner, sess, rec, permit, task, closer, resources, link, alive, writes, retries>>

(* Mutant: a failure is recorded whatever the row has become. *)
SupersededNever(s, row, n, tok) == FALSE
(* The failure of a command or a claim the row no longer has, or of a row  *)
(* an operator must decide.                                                *)
Superseded(s, row, n, tok) ==
    \/ n # 0 /\ row.cmd # n
    \/ tok # 0 /\ row.tok # tok
    \/ row.state = "NEEDS_OPERATOR"

(* Mutant: a failure that arrives after the evidence is recorded. *)
RecordFailureAfter(s, n, tok, code) ==
    /\ guard' = [guard EXCEPT ![s] = Guarded(s, rec[s].write)]
    /\ sess' = Quarantined(s)
    /\ rec' = [rec EXCEPT ![s].state = IF code = "unverified" \/ @ = "NEEDS_OPERATOR"
                                         THEN "NEEDS_OPERATOR" ELSE "RETRY_WAIT",
                          ![s].err = code, ![s].due = FALSE, ![s].tok = 0, ![s].live = FALSE]

(* recordFailure; 0 stands for a command or a claim that is not given.     *)
RecordFailure(s, n, tok, code) ==
    LET row == Ensured(s, FALSE, sess[s].quarantined, FALSE)
    IN  IF Verified(s) THEN UNCHANGED <<rec, sess, guard>>
        ELSE /\ guard' = [guard EXCEPT ![s] = Guarded(s, row.write)]
             /\ IF Superseded(s, row, n, tok)
                  THEN rec' = [rec EXCEPT ![s] = row] /\ UNCHANGED sess
                  ELSE /\ sess' = Quarantined(s)
                       /\ rec' = [rec EXCEPT ![s] =
                            [row EXCEPT !.state = IF code = "unverified"
                                                     \/ row.attempts >= MaxAttempts
                                                    THEN "NEEDS_OPERATOR" ELSE "RETRY_WAIT",
                                        !.err = code, !.due = FALSE,
                                        !.tok = 0, !.live = FALSE]]

----------------------------------------------------------------------------
(* SessionRecoveryWorker                                                   *)

Claimable(s) ==
    /\ rec[s].state \in {"REQUESTED", "RETRY_WAIT", "WAITING_RUNTIME", "CLOSING"}
    /\ ~Verified(s) /\ rec[s].due /\ ~rec[s].live

(* Mutant: a row that is not dispatched is tried again later, whatever the *)
(* reason.                                                                 *)
DeferredRetrying(s, state, err) ==
    rec' = [rec EXCEPT ![s].state = "RETRY_WAIT", ![s].err = err, ![s].due = FALSE,
                       ![s].tok = 0, ![s].live = FALSE]
(* deferWithoutDispatch. *)
Deferred(s, state, err) ==
    rec' = [rec EXCEPT ![s] =
        [rec[s] EXCEPT !.state = state, !.err = err, !.due = FALSE, !.tok = 0, !.live = FALSE]]

ClaimWithoutRuntime(s) ==
    /\ Claimable(s)
    /\ \/ ~link.up /\ Deferred(s, "WAITING_RUNTIME", "offline")
       \/ link.up /\ ~link.supports /\ Deferred(s, "NEEDS_OPERATOR", "unsupported")
    /\ UNCHANGED <<owner, sess, cmd, permit, task, closer, resources, link, alive, writes, retries>>

ClaimExhausted(s) ==
    /\ Claimable(s) /\ link.up /\ link.supports /\ PermitFree(s)
    /\ ~Pending(s) /\ rec[s].attempts >= MaxAttempts
    /\ Deferred(s, "NEEDS_OPERATOR", "exhausted")
    /\ permit' = NoPermit
    /\ UNCHANGED <<owner, sess, cmd, task, closer, resources, link, alive, writes, retries>>

(* The row, the permit and the command, in one transaction; a command that *)
(* may still be executed is used again.                                    *)
Claim(s) ==
    /\ Claimable(s) /\ link.up /\ link.supports /\ PermitFree(s)
    /\ Pending(s) \/ rec[s].attempts < MaxAttempts
    /\ \E tok \in FreeToken(s) :
          LET n == IF Pending(s) THEN rec[s].cmd ELSE NextCommand(s)
          IN  /\ n \in Commands
              /\ cmd' = WithCommand(s, n)
              /\ Claimed(s, n, tok)
              /\ task' = [task EXCEPT ![s][tok] = [NoTask EXCEPT !.pc = "send", !.cmd = n]]
    /\ UNCHANGED <<owner, sess, closer, resources, link, alive, writes, retries>>

(* RuntimeCommandDispatcher.execute of command n, for a caller that        *)
(* continues at one of the three places.                                   *)
Execute(s, n, awaits, ends, fails) ==
    \/ cmd[s][n].status # "open" /\ ends /\ UNCHANGED cmd
    \/ cmd[s][n].status = "open" /\ cmd[s][n].late /\ awaits /\ UNCHANGED cmd
    \/ /\ InFlight(s, n) /\ link.up /\ awaits
       /\ cmd' = IF cmd[s][n].ran = "no" THEN [cmd EXCEPT ![s][n].ran = "sent"] ELSE cmd
    \/ /\ InFlight(s, n) /\ ~link.up /\ fails /\ UNCHANGED cmd

Goes(s, t, pc) == task' = [task EXCEPT ![s][t].pc = pc]
Code(s, n) == IF cmd[s][n].status = "error" THEN "unverified" ELSE "other"

TaskSend(s, t) ==
    /\ task[s][t].pc = "send"
    /\ Execute(s, task[s][t].cmd, Goes(s, t, "wait"), Goes(s, t, "wait"), Goes(s, t, "report"))
    /\ UNCHANGED <<owner, sess, rec, permit, closer, resources, link, alive, writes, retries>>

(* waitForCompletion, then the row's state is read again.                  *)
TaskAwait(s, t) ==
    /\ task[s][t].pc = "wait"
    /\ cmd[s][task[s][t].cmd].status # "open"
    /\ Goes(s, t, IF rec[s].state = "VERIFIED" THEN "check" ELSE "report")
    /\ UNCHANGED <<owner, sess, rec, cmd, permit, closer, resources, link, alive, writes, retries>>

TaskReport(s, t) ==
    /\ task[s][t].pc = "report"
    /\ RecordFailure(s, task[s][t].cmd, t, Code(s, task[s][t].cmd))
    /\ Goes(s, t, "check")
    /\ UNCHANGED <<owner, cmd, permit, closer, slot, link, alive, writes, retries>>

(* The finally block reads the command, then gives back its own permit.    *)
TaskCheck(s, t) ==
    /\ task[s][t].pc = "check"
    /\ IF cmd[s][task[s][t].cmd].status = "open"
         THEN task' = [task EXCEPT ![s][t] = NoTask] ELSE Goes(s, t, "release")
    /\ UNCHANGED <<owner, sess, rec, cmd, permit, closer, resources, link, alive, writes, retries>>

(* Mutant: the permit is given back whoever has it by now. *)
GivesBackAny(s, t) == NoPermit
GivesBack(s, t) == IF permit.s = s /\ permit.tok = t THEN NoPermit ELSE permit

TaskRelease(s, t) ==
    /\ task[s][t].pc = "release"
    /\ permit' = GivesBack(s, t)
    /\ task' = [task EXCEPT ![s][t] = NoTask]
    /\ UNCHANGED <<owner, sess, rec, cmd, closer, resources, link, alive, writes, retries>>

(* The replica stops. *)
TaskStops(s, t) ==
    /\ task[s][t].pc # "none"
    /\ task' = [task EXCEPT ![s][t] = NoTask]
    /\ UNCHANGED <<owner, sess, rec, cmd, permit, closer, resources, link, alive, writes, retries>>

(* The renewal timer of a dispatching task. *)
Renew(s, t) ==
    /\ task[s][t].pc \in {"send", "wait", "report"}
    /\ rec[s].tok = t /\ ~Verified(s) /\ ~rec[s].live
    /\ rec' = [rec EXCEPT ![s].live = TRUE]
    /\ permit' = IF permit.s = s /\ permit.tok = t THEN [permit EXCEPT !.live = TRUE]
                 ELSE permit
    /\ UNCHANGED <<owner, sess, cmd, task, closer, resources, link, alive, writes, retries>>

(* The explicit close executes its command and reports a failure without   *)
(* a claim, and without a command when it has none to show.                *)
CloserSend(s) ==
    /\ closer[s].pc = "send"
    /\ LET To(pc, n) == closer' = [closer EXCEPT ![s] = [pc |-> pc, cmd |-> n]]
           n == closer[s].cmd
       IN  Execute(s, n, To("wait", n), To("wait", n), To("report", 0))
    /\ UNCHANGED <<owner, sess, rec, permit, task, resources, link, alive, writes, retries>>

CloserAwait(s) ==
    /\ closer[s].pc = "wait"
    /\ cmd[s][closer[s].cmd].status # "open"
    /\ closer' = [closer EXCEPT ![s].pc = "report"]
    /\ UNCHANGED <<owner, sess, rec, cmd, permit, task, resources, link, alive, writes, retries>>

CloserReport(s) ==
    /\ closer[s].pc = "report"
    /\ RecordFailure(s, closer[s].cmd, 0,
                     IF closer[s].cmd = 0 THEN "other" ELSE Code(s, closer[s].cmd))
    /\ closer' = [closer EXCEPT ![s] = [pc |-> "idle", cmd |-> 0]]
    /\ UNCHANGED <<owner, cmd, permit, task, slot, link, alive, writes, retries>>

CloserStops(s) ==
    /\ closer[s].pc # "idle"
    /\ closer' = [closer EXCEPT ![s] = [pc |-> "idle", cmd |-> 0]]
    /\ UNCHANGED <<owner, sess, rec, cmd, permit, task, resources, link, alive, writes, retries>>

----------------------------------------------------------------------------
(* The Runtime: module ClosureJournal has its side.  It answers a close    *)
(* with evidence of a dead browser or with an error.                       *)
RuntimeCloses(s) ==
    /\ link.up
    /\ \E n \in Commands :
          /\ cmd[s][n].ran = "sent"
          /\ \/ /\ link.supports
                /\ cmd' = [cmd EXCEPT ![s][n].ran = "closed"]
                /\ alive' = [alive EXCEPT ![s] = FALSE]
             \/ cmd' = [cmd EXCEPT ![s][n].ran = "unverified"] /\ UNCHANGED alive
    /\ UNCHANGED <<owner, sess, rec, permit, task, closer, resources, link, writes, retries>>

Disconnect ==
    /\ link.up /\ link.drops < MaxDrops
    /\ link' = [link EXCEPT !.up = FALSE, !.drops = @ + 1]
    /\ UNCHANGED <<owner, sess, rec, cmd, permit, task, closer, resources, alive, writes, retries>>

(* It may come back upgraded. *)
Connect ==
    /\ ~link.up
    /\ \E supports \in {link.supports, TRUE} :
          link' = [link EXCEPT !.up = TRUE, !.hello = TRUE, !.supports = supports]
    /\ UNCHANGED <<owner, sess, rec, cmd, permit, task, closer, resources, alive, writes, retries>>

Init ==
    /\ \E supports \in BOOLEAN, b \in Settings :
          link = [up |-> TRUE, hello |-> FALSE, supports |-> supports, drops |-> 0, setting |-> b]
    /\ owner = [s \in Sessions |-> IF s \in Running THEN "running" ELSE "lost"]
    /\ sess = [s \in Sessions |-> [status |-> "ACTIVE", verified |-> FALSE, quarantined |-> FALSE]]
    /\ rec = [s \in Sessions |-> [state |-> "NONE", write |-> "UNKNOWN", attempts |-> 0,
                  due |-> FALSE, tok |-> 0, live |-> FALSE, cmd |-> 0, err |-> "none"]]
    /\ cmd = [s \in Sessions |-> [n \in Commands |-> NoCommand]]
    /\ permit = NoPermit
    /\ task = [s \in Sessions |-> [t \in Tokens |-> NoTask]]
    /\ closer = [s \in Sessions |-> [pc |-> "idle", cmd |-> 0]]
    /\ guard = [s \in Sessions |-> "held"]
    /\ slot = [s \in Sessions |-> TRUE]
    /\ alive = [s \in Sessions |-> TRUE]
    /\ \E observed \in SUBSET (IF Settles THEN Here ELSE {}) :
          writes = [s \in Sessions |-> IF s \in observed THEN "none" ELSE "recorded"]
    /\ retries = [s \in Sessions |-> 0]

Task(s, t) ==
    \/ TaskSend(s, t) \/ TaskAwait(s, t) \/ TaskReport(s, t)
    \/ TaskCheck(s, t) \/ TaskRelease(s, t)
Closer(s) ==
    \/ PrepareClose(s) \/ PrepareRefused(s)
    \/ CloserSend(s) \/ CloserAwait(s) \/ CloserReport(s)

Next ==
    \/ \E s \in Here :
          \/ OwnerEnds(s) \/ Quarantine(s) \/ DeadlinePasses(s) \/ TimesOut(s)
          \/ Admit(s) \/ Record(s) \/ TakeOver(s)
          \/ ClaimExpires(s) \/ FallsDue(s)
          \/ Request(s) \/ ExplicitClose(s) \/ Closer(s) \/ CloserStops(s)
          \/ Retry(s) \/ ResolveWrite(s)
          \/ AcceptEvidence(s) \/ AcceptResult(s)
          \/ ClaimWithoutRuntime(s) \/ ClaimExhausted(s) \/ Claim(s)
          \/ \E t \in Tokens : Task(s, t) \/ TaskStops(s, t) \/ Renew(s, t)
          \/ RuntimeCloses(s)
    \/ WakeRuntime \/ Disconnect \/ Connect

Spec == Init /\ [][Next]_vars

(* The worker ticks, its tasks and the sweepers run, and time passes.      *)
(* Nothing obliges a Runtime to answer or to come back, or an operator to  *)
(* retry.                                                                  *)
FairSpec ==
    /\ Spec
    /\ \A s \in Sessions :
          /\ WF_vars(Claim(s) \/ ClaimExhausted(s) \/ ClaimWithoutRuntime(s))
          /\ WF_vars(DeadlinePasses(s) \/ TimesOut(s))
          /\ WF_vars(ClaimExpires(s)) /\ WF_vars(FallsDue(s))
          /\ \A t \in Tokens : WF_vars(Task(s, t))

----------------------------------------------------------------------------
(* Types, and the shape of a claim: the permit names a command of the      *)
(* session it was taken for.                                               *)
TypeRecovery ==
    /\ owner \in [Sessions -> {"running", "confirmed", "lost"}]
    /\ sess \in [Sessions -> [status : {"ACTIVE", "LOST", "CLOSED"}, verified : BOOLEAN,
                              quarantined : BOOLEAN]]
    /\ writes \in [Sessions -> {"none", "admitted", "recorded", "late"}]
    /\ \A s \in Sessions :
          /\ rec[s].state \in {"NONE", "OBSERVED", "REQUESTED", "CLOSING", "RETRY_WAIT",
                               "WAITING_RUNTIME", "NEEDS_OPERATOR", "VERIFIED"}
          /\ rec[s].write \in {"UNKNOWN", "SETTLED", "RETRY_AUTHORIZED"}
          /\ rec[s].attempts \in 0 .. MaxAttempts
          /\ rec[s].cmd \in {0} \cup Commands /\ rec[s].tok \in {0} \cup Tokens
          /\ Verified(s) <=> rec[s].state = "VERIFIED"
    /\ permit.s # "none" => cmd[permit.s][permit.cmd].status # "none"

(* Two closes never compete for the Runtime: at most one of the sessions   *)
(* whose closure is not verified has a command that may still be executed, *)
(* whatever became of the claims, replicas and connections in between.     *)
OneCloseAtATime ==
    \A s, u \in Sessions :
        (/\ \E n \in Commands : InFlight(s, n)
         /\ \E n \in Commands : InFlight(u, n)
         /\ ~Verified(s) /\ ~Verified(u)) => s = u

(* The rows have their shape, and the slot, the profile, the account and   *)
(* the write guard of a session whose browser may still run are never      *)
(* given to another.                                                       *)
ResourcesOutliveBrowser ==
    /\ TypeRecovery
    /\ \A s \in Sessions : alive[s] => slot[s] /\ guard[s] # "none"

(* The write guard also outlives the browser until its writes are          *)
(* confirmed, shown absent, or accepted by a person; and while the browser *)
(* may still run, writes nobody confirmed are settled only if none was     *)
(* recorded as long as the session took commands: an assessment is never   *)
(* overtaken by what an executor or a person could still ask for.          *)
GuardAwaitsOutcome ==
    \A s \in Sessions :
        /\ guard[s] = "none" => Verified(s) /\ Settled(rec[s].write)
        /\ alive[s] /\ owner[s] # "confirmed" /\ Settled(rec[s].write) => writes[s] # "recorded"

(* A row that needs an operator moves on only by a retry, by a Runtime     *)
(* that can now produce evidence, or by evidence: no task that was still   *)
(* dispatching an earlier attempt revives it.                              *)
OperatorDecides ==
    [][\A s \in Sessions :
         rec[s].state = "NEEDS_OPERATOR" /\ rec[s].state' # rec[s].state =>
            \/ rec[s].state' = "VERIFIED"
            \/ rec[s].state' = "REQUESTED" /\ (retries[s]' > retries[s] \/ rec[s].err = "unsupported")
      ]_vars

(* Every recovery that is asked for is verified or put before an operator, *)
(* unless the Runtime goes away: claims that expire, replicas that stop,   *)
(* a competing session and explicit closes only delay it.                  *)
RecoveryConcludes ==
    \A s \in Sessions :
        rec[s].state \in {"REQUESTED", "CLOSING", "RETRY_WAIT", "WAITING_RUNTIME"}
          ~> rec[s].state \in {"VERIFIED", "NEEDS_OPERATOR"} \/ ~link.up
=============================================================================
