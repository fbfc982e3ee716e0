-------------------------- MODULE ProcessesProofs --------------------------
(***************************************************************************)
(* Proofs about the two programs MCProcesses runs: the supervisor of a     *)
(* worker's lease, and the closure journal of a Browser Runtime.           *)
(***************************************************************************)
EXTENDS LeaseSupervisor, ClosureJournal, TLAPS

---------------------------------------------------------------------------
(***************************************************************************)
(* The worker's deadline falls short of the lease in the database, for     *)
(* every lease, safety margin, interval and back-off: the supervisor never *)
(* outlives what the control plane granted.                                *)
(*                                                                         *)
(* LeaseOutlivesWork is not inductive: a renewal extends the deadline, so  *)
(* the lease must already reach Lease past the moment an answered request  *)
(* was sent, and no later heartbeat may take that back, which needs the    *)
(* lease never to reach further than Lease from now.                       *)
(***************************************************************************)

(* What the supervisor's deadline rests on. *)
DeadlineInv ==
    /\ TypeSupervisor
    /\ lease <= now + Lease
    /\ call.sent <= now
    /\ call.phase = "ANSWERED" /\ call.answer = "CONTINUE" => call.sent + Lease <= lease
    /\ state = "LIVE" => safeUntil + Safety <= lease /\ now <= safeUntil + Lateness

(* confirm: a confirmed deadline keeps the safety margin before the end of a
   lease granted when the request was sent. *)
LEMMA ConfirmedDeadline ==
    ASSUME SupervisorParameters, now \in Nat, NEW sent \in Nat, sent <= now
    PROVE  /\ SafeUntil(sent) \in Nat
           /\ Confirms(sent) => /\ SafeUntil(sent) + Safety = sent + Lease
                                /\ now < SafeUntil(sent)
BY DEF SupervisorParameters, SafeUntil, Confirms, Duration, Most

(* schedule: the renewal timer is never set in the past. *)
LEMMA TimerTyped ==
    ASSUME now \in Nat, NEW delay \in Nat, NEW safe \in Nat
    PROVE  DueAfter(delay, safe) \in Nat
BY DEF DueAfter, Least, Most

(* heartbeat: it never shortens a lease and never grants more than Lease. *)
LEMMA LeaseNeverShrinks ==
    ASSUME SupervisorParameters, DeadlineInv
    PROVE  /\ LeaseAfter \in Nat
           /\ lease <= LeaseAfter
           /\ LeaseAfter <= now + Lease
           /\ Answers = "CONTINUE" => LeaseAfter = now + Lease
           /\ Answers \in {"CONTINUE", "CANCEL", "STALE"}
BY DEF SupervisorParameters, DeadlineInv, TypeSupervisor, LeaseAfter, Answers

(* stop: giving a renewal up leaves an idle supervisor and counts the request. *)
LEMMA AbandonTyped ==
    ASSUME TypeSupervisor, Abandon
    PROVE  call' = Idle /\ ghosts' \in Nat
BY DEF TypeSupervisor, Abandon

LEMMA InitDeadline ==
    ASSUME SupervisorParameters, Init
    PROVE  DeadlineInv
<1>1. now \in Nat /\ lease \in Nat /\ Lease <= lease /\ lease <= now + Lease
  BY DEF Init, SupervisorParameters
<1>2. SafeUntil(0) \in Nat /\ (Confirms(0) => SafeUntil(0) + Safety = Lease /\ now < SafeUntil(0))
  BY <1>1, ConfirmedDeadline DEF SupervisorParameters
<1>3. DueAfter(Interval, SafeUntil(0)) \in Nat
  BY <1>1, <1>2, TimerTyped DEF SupervisorParameters
<1>4. state \in {"LIVE", "LOST"} /\ (state = "LIVE" => Confirms(0))
  BY DEF Init
<1>5. TypeSupervisor
  BY <1>1, <1>2, <1>3, <1>4 DEF Init, TypeSupervisor, Idle
<1>6. call.sent = 0 /\ call.phase = "IDLE"
  BY DEF Init, Idle
<1>7. state = "LIVE" => safeUntil + Safety <= lease /\ now <= safeUntil + Lateness
  BY <1>1, <1>2, <1>4 DEF Init, SupervisorParameters
<1> QED BY <1>1, <1>5, <1>6, <1>7 DEF DeadlineInv

LEMMA NextDeadline ==
    ASSUME SupervisorParameters, DeadlineInv, [Next]_supervisorVars
    PROVE  DeadlineInv'
<1>0. TypeSupervisor
  BY DEF DeadlineInv
<1>1. CASE Lose /\ (Expire \/ Refused)
  <2>1. call' = Idle /\ ghosts' \in Nat
    BY <1>0, <1>1, AbandonTyped DEF Lose
  <2> QED BY <1>1, <2>1 DEF Lose, DeadlineInv, TypeSupervisor, Idle
<1>2. CASE Renew
  BY <1>2 DEF Renew, DeadlineInv, TypeSupervisor
<1>3. CASE Renewed
  <2>1. /\ SafeUntil(call.sent) \in Nat
        /\ SafeUntil(call.sent) + Safety = call.sent + Lease
        /\ now < SafeUntil(call.sent)
    BY <1>0, <1>3, ConfirmedDeadline DEF Renewed, DeadlineInv, TypeSupervisor
  <2>2. DueAfter(Interval, SafeUntil(call.sent)) \in Nat
    BY <1>0, <2>1, TimerTyped DEF SupervisorParameters, TypeSupervisor
  <2>3. TypeSupervisor'
    BY <1>3, <2>1, <2>2 DEF Renewed, DeadlineInv, TypeSupervisor, Idle
  <2>4. safeUntil' + Safety <= lease' /\ now' <= safeUntil' + Lateness
    BY <1>3, <2>1 DEF Renewed, DeadlineInv, TypeSupervisor, SupervisorParameters
  <2> QED BY <1>3, <2>3, <2>4 DEF Renewed, DeadlineInv, TypeSupervisor, Idle
<1>4. CASE RenewalFailed
  <2>1. call' = Idle /\ ghosts' \in Nat
    BY <1>0, <1>4, AbandonTyped DEF RenewalFailed
  <2>2. PICK d \in Backoffs : timer' = DueAfter(d, safeUntil)
    BY <1>4 DEF RenewalFailed
  <2>3. timer' \in Nat
    BY <1>0, <2>2, TimerTyped DEF SupervisorParameters, TypeSupervisor
  <2> QED BY <1>4, <2>1, <2>3 DEF RenewalFailed, DeadlineInv, TypeSupervisor, Idle
<1>5. CASE Stop
  <2>1. call' = Idle /\ ghosts' \in Nat
    BY <1>0, <1>5, AbandonTyped DEF Stop
  <2> QED BY <1>5, <2>1 DEF Stop, DeadlineInv, TypeSupervisor, Idle
<1>6. CASE Heartbeat
  <2>1. TypeSupervisor'
    BY <1>6, LeaseNeverShrinks DEF Heartbeat, DeadlineInv, TypeSupervisor
  <2>2. call'.sent = call.sent /\ call'.answer = Answers
    BY <1>0, <1>6 DEF Heartbeat, TypeSupervisor
  <2>3. Answers = "CONTINUE" => call.sent + Lease <= lease'
    BY <1>6, LeaseNeverShrinks DEF Heartbeat, DeadlineInv, TypeSupervisor, SupervisorParameters
  <2> QED BY <1>6, <2>1, <2>2, <2>3, LeaseNeverShrinks
          DEF Heartbeat, DeadlineInv, TypeSupervisor, SupervisorParameters
<1>7. CASE LateHeartbeat
  BY <1>7, LeaseNeverShrinks DEF LateHeartbeat, DeadlineInv, TypeSupervisor, SupervisorParameters
<1>8. CASE Cancel
  BY <1>8 DEF Cancel, DeadlineInv, TypeSupervisor
<1>9. CASE Tick
  BY <1>9 DEF Tick, DeadlineInv, TypeSupervisor, SupervisorParameters
<1>10. CASE UNCHANGED supervisorVars
  BY <1>10 DEF supervisorVars, DeadlineInv, TypeSupervisor
<1> QED BY <1>1, <1>2, <1>3, <1>4, <1>5, <1>6, <1>7, <1>8, <1>9, <1>10
        DEF Next, Expire, Refused

LEMMA DeadlineHolds == Spec => []DeadlineInv
<1>1. Init => DeadlineInv
  BY InitDeadline, SupervisorParameters
<1>2. DeadlineInv /\ [Next]_supervisorVars => DeadlineInv'
  BY NextDeadline, SupervisorParameters
<1> QED BY <1>1, <1>2, PTL DEF Spec

(* The variables of the supervisor and of the lease row keep their types. *)
THEOREM SupervisorTypeCorrect == Spec => []TypeSupervisor
<1>1. DeadlineInv => TypeSupervisor
  BY DEF DeadlineInv
<1> QED BY <1>1, DeadlineHolds, PTL

(* The local deadline of lease-supervisor.ts: an executor that has not been
   aborted holds a lease the database has not let expire, whatever the network
   did to its renewals, if timers are late by less than the safety margin. *)
THEOREM WorkEndsBeforeLease == Spec => []LeaseOutlivesWork
<1>1. DeadlineInv => LeaseOutlivesWork
  BY SupervisorParameters DEF DeadlineInv, TypeSupervisor, LeaseOutlivesWork, SupervisorParameters
<1> QED BY <1>1, DeadlineHolds, PTL

---------------------------------------------------------------------------
(***************************************************************************)
(* What the closure journal of a Browser Runtime says of a session holds   *)
(* over every number of daemons and boots: a process that may be alive is  *)
(* recorded, a session starts at most one, and evidence of a closure is    *)
(* true when it is issued and stays true.                                  *)
(*                                                                         *)
(* AttestedIsDead is not inductive: evidence is read from the record, so   *)
(* the record must not say closed while a process lives or a launch is     *)
(* still to come (ClosedIsDead).  The tasks that write it rely on what     *)
(* they awaited: once revoked no open starts, and the open that was        *)
(* pending is over (RevokedAndOver).                                       *)
(***************************************************************************)

Records ==
    [launch : 0 .. MaxHost, revoked : BOOLEAN, proc : BOOLEAN,
     closed : Methods \cup {"none"}]

(* Steps of an open that has recorded its launch and not started it. *)
Unspawned == {"persist", "check", "spawn"}

OpenSteps ==
    {"idle", "assert", "record", "discover", "attach", "identify", "finish", "caught",
     "unpersist", "revoke", "revokeJournal", "kill", "complete"} \cup Unspawned

CloseSteps ==
    {"idle", "read", "revokeJournal", "revoke", "await", "abort", "look", "kill",
     "complete", "delete"}

EvidSteps ==
    {"idle", "read", "abortRevoke", "await", "abort", "prevent", "judge", "revoke",
     "join", "closing", "prove", "queue"}

Descriptors == {"live", "opening", "row", "none"}

OpenTasks ==
    [pc : OpenSteps, launched : BOOLEAN, started : BOOLEAN, handle : BOOLEAN, pid : BOOLEAN]
CloseTasks ==
    [pc : CloseSteps, initial : Descriptors, epoch : BOOLEAN, opening : BOOLEAN,
     session : BOOLEAN, journal : Records]
EvidTasks == [pc : EvidSteps, desc : Descriptors]

(* The shape of what the tasks carry. *)
TasksTyped == open \in OpenTasks /\ close \in CloseTasks /\ evid \in EvidTasks

(* A launch is recorded before it happens, and happens once. *)
LaunchAfterRecord ==
    /\ LaunchIsJournaled /\ OneLaunch
    /\ launches > 0 => HasLaunch(rec)
    /\ open.pc \in Unspawned => launches = 0 /\ rec.launch = host

(* A closed record is of a dead process, and of no launch still to come. *)
ClosedIsDead ==
    /\ rec.closed # "none" => ~browser /\ open.pc \notin Unspawned
    /\ rec.closed = "LAUNCH_PREVENTED" => launches = 0
    /\ attested \subseteq {rec.closed} \ {"none"}

(* What the closing tasks rely on. *)
RevokedAndOver ==
    /\ close.pc # "idle" => revoked
    /\ close.pc \in {"abort", "look", "kill", "complete", "delete"} => ~Opening
    /\ evid.pc \in {"abortRevoke", "await", "abort", "prevent"} => revoked
    /\ evid.pc \in {"abort", "prevent"} => ~Opening

(* Who is about to complete a record has seen the process die. *)
KilledBeforeComplete ==
    /\ open.pc = "complete" => ~browser
    /\ close.pc = "complete" => ~browser
    /\ close.pc = "kill" /\ close.journal.closed # "none" => rec.closed # "none"

(* The parts that order what the tasks do. *)
Ordered == LaunchAfterRecord /\ ClosedIsDead /\ RevokedAndOver /\ KilledBeforeComplete

(* The inductive invariant. *)
JournalInv == TypeJournal /\ TasksTyped /\ Ordered

(* The bounds leave room for the first daemon on its first host. *)
LEMMA Bounds == MaxDaemon \in Nat \ {0} /\ MaxHost \in Nat \ {0}
BY JournalParameters DEF JournalParameters

(* The steps of session.open. *)
LEMMA StepNames ==
    /\ "idle" \in OpenSteps /\ "assert" \in OpenSteps /\ "record" \in OpenSteps
    /\ "discover" \in OpenSteps /\ "attach" \in OpenSteps /\ "identify" \in OpenSteps
    /\ "finish" \in OpenSteps /\ "caught" \in OpenSteps /\ "unpersist" \in OpenSteps
    /\ "revoke" \in OpenSteps /\ "revokeJournal" \in OpenSteps /\ "kill" \in OpenSteps
    /\ "complete" \in OpenSteps /\ "persist" \in OpenSteps /\ "check" \in OpenSteps
    /\ "spawn" \in OpenSteps
BY DEF OpenSteps, Unspawned

(* The empty records are of their types, and so is what close() finds. *)
LEMMA Blank ==
    /\ NoOpen \in OpenTasks /\ NoClose \in CloseTasks /\ NoEvid \in EvidTasks
    /\ NoRecord \in Records /\ Descriptor \in Descriptors
<1>1. NoRecord \in Records
  BY Bounds DEF NoRecord, Records
<1>2. NoOpen \in OpenTasks
  BY DEF NoOpen, OpenTasks, OpenSteps
<1>3. NoClose \in CloseTasks
  BY <1>1 DEF NoClose, CloseTasks, CloseSteps, Descriptors
<1>4. NoEvid \in EvidTasks
  BY DEF NoEvid, EvidTasks, EvidSteps, Descriptors
<1>5. Descriptor \in Descriptors
  BY DEF Descriptor, Descriptors
<1> QED BY <1>1, <1>2, <1>3, <1>4, <1>5

(* What a step of session.open writes in its task leaves the task's type. *)
LEMMA OpenUpdates ==
    \A o \in OpenTasks, p \in OpenSteps, b \in BOOLEAN :
        /\ [o EXCEPT !.pc = p] \in OpenTasks
        /\ [o EXCEPT !.pc = p, !.launched = b] \in OpenTasks
        /\ [o EXCEPT !.pc = p, !.started = b] \in OpenTasks
        /\ [o EXCEPT !.pc = p, !.handle = b] \in OpenTasks
        /\ [o EXCEPT !.pc = p, !.pid = b] \in OpenTasks
BY DEF OpenTasks

(* What a step of close() writes in its task leaves the task's type. *)
LEMMA CloseUpdates ==
    \A c \in CloseTasks, p \in CloseSteps, b \in BOOLEAN, d \in Descriptors :
        /\ [c EXCEPT !.pc = p] \in CloseTasks
        /\ [c EXCEPT !.pc = p, !.initial = d] \in CloseTasks
        /\ [c EXCEPT !.epoch = b, !.pc = p] \in CloseTasks
        /\ [c EXCEPT !.pc = p, !.opening = b] \in CloseTasks
BY DEF CloseTasks

(* So does what close() reads of the live sessions and the journal. *)
LEMMA LookUpdate ==
    ASSUME NEW c \in CloseTasks, NEW p \in CloseSteps, NEW b \in BOOLEAN, NEW r \in Records
    PROVE  [c EXCEPT !.pc = p, !.session = b, !.journal = r] \in CloseTasks
BY DEF CloseTasks

(* What a step of closeWithEvidence writes in its task leaves the task's type. *)
LEMMA EvidUpdates ==
    \A e \in EvidTasks, p \in EvidSteps, d \in Descriptors :
        /\ [e EXCEPT !.pc = p] \in EvidTasks
        /\ [e EXCEPT !.pc = p, !.desc = d] \in EvidTasks
BY DEF EvidTasks

(* The record of an aborted launch is a record. *)
LEMMA AbortUpdate ==
    ASSUME NEW r \in Records, NEW l \in 0 .. MaxHost, NEW m \in Methods \cup {"none"}
    PROVE  [r EXCEPT !.launch = l, !.closed = m] \in Records
BY Zenon DEF Records

(* Every step of session.open preserves the invariant. *)
LEMMA OpenKeeps ==
    ASSUME JournalInv, OpenTask
    PROVE  JournalInv'
<1> USE Bounds DEF JournalInv, HasLaunch, Opening, ids, history, To, OpenOnly,
     CanLaunch, Exists, RecordLaunch, Revoke, CanComplete, Complete
<1>1. CASE OpenAssert
  <2>1. TasksTyped'
    BY <1>1, Blank, OpenUpdates, StepNames, Zenon DEF OpenAssert, TypeJournal, TasksTyped
  <2>2. TypeJournal'
    BY <1>1 DEF OpenAssert, TypeJournal
  <2>3. LaunchAfterRecord'
    BY <1>1 DEF OpenAssert, TasksTyped, Ordered, LaunchAfterRecord, LaunchIsJournaled,
         OneLaunch, ClosedIsDead, Unspawned, OpenTasks
  <2>4. ClosedIsDead'
    BY <1>1 DEF OpenAssert, TasksTyped, Ordered, ClosedIsDead, LaunchAfterRecord,
         LaunchIsJournaled, RevokedAndOver, KilledBeforeComplete, Unspawned, OpenTasks
  <2>5. RevokedAndOver'
    BY <1>1 DEF OpenAssert, TasksTyped, Ordered, RevokedAndOver, OpenTasks
  <2>6. KilledBeforeComplete'
    BY <1>1 DEF OpenAssert, TasksTyped, Ordered, KilledBeforeComplete, RevokedAndOver,
         ClosedIsDead, OpenTasks
  <2> QED BY <2>1, <2>2, <2>3, <2>4, <2>5, <2>6 DEF Ordered
<1>2. CASE OpenRecord
  <2>1. TasksTyped'
    BY <1>2, Blank, OpenUpdates, StepNames, Zenon DEF OpenRecord, TypeJournal, TasksTyped
  <2>2. TypeJournal'
    <3>1. CASE CanLaunch
      <4>1. rec' = [NoRecord EXCEPT !.launch = host]
        BY <1>2, <3>1 DEF OpenRecord
      <4>2. rec' = [launch |-> host, revoked |-> FALSE, proc |-> FALSE, closed |-> "none"]
        BY <4>1 DEF NoRecord
      <4>3. rec' \in Records /\ rec'.closed = "none"
        BY <4>2 DEF TypeJournal, Records
      <4> QED BY <1>2, <4>3 DEF OpenRecord, TypeJournal, Records
    <3>2. CASE ~CanLaunch
      BY <1>2, <3>2 DEF OpenRecord, TypeJournal
    <3> QED BY <3>1, <3>2
  <2>3. LaunchAfterRecord'
    BY <1>2 DEF OpenRecord, TasksTyped, TypeJournal, Ordered, LaunchAfterRecord,
         LaunchIsJournaled, OneLaunch, ClosedIsDead, Unspawned, Records, OpenTasks,
         NoRecord
  <2>4. ClosedIsDead'
    BY <1>2 DEF OpenRecord, TasksTyped, TypeJournal, Ordered, ClosedIsDead,
         LaunchAfterRecord, LaunchIsJournaled, RevokedAndOver, KilledBeforeComplete,
         Unspawned, Records, OpenTasks, NoRecord
  <2>5. RevokedAndOver'
    BY <1>2 DEF OpenRecord, TasksTyped, Ordered, RevokedAndOver, OpenTasks
  <2>6. KilledBeforeComplete'
    BY <1>2 DEF OpenRecord, TasksTyped, TypeJournal, Ordered, KilledBeforeComplete,
         RevokedAndOver, ClosedIsDead, Records, OpenTasks, NoRecord
  <2> QED BY <2>1, <2>2, <2>3, <2>4, <2>5, <2>6 DEF Ordered
<1>3. CASE OpenPersist
  <2>1. TasksTyped'
    <3>1. /\ To("caught") \in OpenTasks
          /\ To("check") \in OpenTasks
      BY OpenUpdates, StepNames, Zenon DEF TasksTyped
    <3> QED BY <1>3, <3>1, Blank DEF OpenPersist, TasksTyped
  <2>2. TypeJournal'
    BY <1>3, Zenon DEF OpenPersist, TypeJournal
  <2>3. LaunchAfterRecord'
    BY <1>3 DEF OpenPersist, TasksTyped, Ordered, LaunchAfterRecord,
         LaunchIsJournaled, OneLaunch, ClosedIsDead, Unspawned, OpenTasks
  <2>4. ClosedIsDead'
    BY <1>3 DEF OpenPersist, TasksTyped, Ordered, ClosedIsDead, LaunchAfterRecord,
         LaunchIsJournaled, RevokedAndOver, KilledBeforeComplete, Unspawned, OpenTasks
  <2>5. RevokedAndOver'
    BY <1>3 DEF OpenPersist, TasksTyped, Ordered, RevokedAndOver, OpenTasks
  <2>6. KilledBeforeComplete'
    BY <1>3 DEF OpenPersist, TasksTyped, Ordered, KilledBeforeComplete,
         RevokedAndOver, ClosedIsDead, OpenTasks
  <2> QED BY <2>1, <2>2, <2>3, <2>4, <2>5, <2>6 DEF Ordered
<1>4. CASE OpenCheck
  <2>1. TasksTyped'
    <3>1. /\ To("caught") \in OpenTasks
          /\ [open EXCEPT !.pc = "spawn", !.started = TRUE] \in OpenTasks
      BY OpenUpdates, StepNames, Zenon DEF TasksTyped
    <3> QED BY <1>4, <3>1, Blank DEF OpenCheck, TasksTyped
  <2>2. TypeJournal'
    BY <1>4 DEF OpenCheck, TypeJournal
  <2>3. LaunchAfterRecord'
    BY <1>4 DEF OpenCheck, TasksTyped, Ordered, LaunchAfterRecord, LaunchIsJournaled,
         OneLaunch, ClosedIsDead, Unspawned, OpenTasks
  <2>4. ClosedIsDead'
    BY <1>4 DEF OpenCheck, TasksTyped, Ordered, ClosedIsDead, LaunchAfterRecord,
         LaunchIsJournaled, RevokedAndOver, KilledBeforeComplete, Unspawned, OpenTasks
  <2>5. RevokedAndOver'
    BY <1>4 DEF OpenCheck, TasksTyped, Ordered, RevokedAndOver, OpenTasks
  <2>6. KilledBeforeComplete'
    BY <1>4, Zenon DEF OpenCheck, TasksTyped, Ordered, KilledBeforeComplete, RevokedAndOver,
         ClosedIsDead, OpenTasks
  <2> QED BY <2>1, <2>2, <2>3, <2>4, <2>5, <2>6 DEF Ordered
<1>5. CASE OpenSpawn
  <2>1. TasksTyped'
    <3>1. \A handle \in BOOLEAN :
             [open EXCEPT !.pc = IF handle THEN "discover" ELSE "caught",
                          !.handle = handle] \in OpenTasks
      BY OpenUpdates, StepNames, Zenon DEF TasksTyped
    <3>2. open' \in OpenTasks
      BY <1>5, <3>1, Zenon DEF OpenSpawn
    <3> QED BY <1>5, <3>2 DEF OpenSpawn, TasksTyped
  <2>2. TypeJournal'
    <3>1. launches = 0
      BY <1>5 DEF OpenSpawn, Ordered, LaunchAfterRecord, Unspawned
    <3>2. launches' \in 0 .. MaxDaemon /\ browser' \in BOOLEAN
      BY <1>5, <3>1 DEF OpenSpawn
    <3> QED BY <1>5, <3>2 DEF OpenSpawn, TypeJournal
  <2>3. LaunchAfterRecord'
    BY <1>5 DEF OpenSpawn, TasksTyped, TypeJournal, Ordered, LaunchAfterRecord,
         LaunchIsJournaled, OneLaunch, ClosedIsDead, Unspawned, OpenTasks
  <2>4. ClosedIsDead'
    BY <1>5 DEF OpenSpawn, TasksTyped, TypeJournal, Ordered, ClosedIsDead,
         LaunchAfterRecord, LaunchIsJournaled, RevokedAndOver, KilledBeforeComplete,
         Unspawned, OpenTasks
  <2>5. RevokedAndOver'
    BY <1>5 DEF OpenSpawn, TasksTyped, Ordered, RevokedAndOver, OpenTasks
  <2>6. KilledBeforeComplete'
    BY <1>5 DEF OpenSpawn, TasksTyped, TypeJournal, Ordered, KilledBeforeComplete,
         RevokedAndOver, ClosedIsDead, OpenTasks
  <2> QED BY <2>1, <2>2, <2>3, <2>4, <2>5, <2>6 DEF Ordered
<1>6. CASE OpenDiscover
  <2>1. TasksTyped'
    <3>1. /\ To("caught") \in OpenTasks
          /\ [open EXCEPT !.pc = "attach", !.pid = TRUE] \in OpenTasks
      BY OpenUpdates, StepNames, Zenon DEF TasksTyped
    <3> QED BY <1>6, <3>1, Blank DEF OpenDiscover, TasksTyped
  <2>2. TypeJournal'
    BY <1>6 DEF OpenDiscover, TypeJournal
  <2>3. LaunchAfterRecord'
    BY <1>6 DEF OpenDiscover, TasksTyped, Ordered, LaunchAfterRecord,
         LaunchIsJournaled, OneLaunch, ClosedIsDead, Unspawned, OpenTasks
  <2>4. ClosedIsDead'
    BY <1>6 DEF OpenDiscover, TasksTyped, Ordered, ClosedIsDead, LaunchAfterRecord,
         LaunchIsJournaled, RevokedAndOver, KilledBeforeComplete, Unspawned, OpenTasks
  <2>5. RevokedAndOver'
    BY <1>6 DEF OpenDiscover, TasksTyped, Ordered, RevokedAndOver, OpenTasks
  <2>6. KilledBeforeComplete'
    BY <1>6 DEF OpenDiscover, TasksTyped, Ordered, KilledBeforeComplete,
         RevokedAndOver, ClosedIsDead, OpenTasks
  <2> QED BY <2>1, <2>2, <2>3, <2>4, <2>5, <2>6 DEF Ordered
<1>7. CASE OpenAttach
  <2>1. TasksTyped'
    <3>1. /\ To("identify") \in OpenTasks
          /\ To("caught") \in OpenTasks
      BY OpenUpdates, StepNames, Zenon DEF TasksTyped
    <3> QED BY <1>7, <3>1, Blank DEF OpenAttach, TasksTyped
  <2>2. TypeJournal'
    BY <1>7, Zenon DEF OpenAttach, TypeJournal, Records, Methods
  <2>3. LaunchAfterRecord'
    BY <1>7 DEF OpenAttach, TasksTyped, TypeJournal, Ordered, LaunchAfterRecord,
         LaunchIsJournaled, OneLaunch, ClosedIsDead, Unspawned, Records, OpenTasks
  <2>4. ClosedIsDead'
    BY <1>7 DEF OpenAttach, TasksTyped, TypeJournal, Ordered, ClosedIsDead,
         LaunchAfterRecord, LaunchIsJournaled, RevokedAndOver, KilledBeforeComplete,
         Unspawned, Records, OpenTasks
  <2>5. RevokedAndOver'
    BY <1>7 DEF OpenAttach, TasksTyped, Ordered, RevokedAndOver, OpenTasks
  <2>6. KilledBeforeComplete'
    BY <1>7 DEF OpenAttach, TasksTyped, TypeJournal, Ordered, KilledBeforeComplete,
         RevokedAndOver, ClosedIsDead, Records, OpenTasks
  <2> QED BY <2>1, <2>2, <2>3, <2>4, <2>5, <2>6 DEF Ordered
<1>8. CASE OpenIdentify
  <2>1. TasksTyped'
    BY <1>8, Blank, OpenUpdates, StepNames, Zenon DEF OpenIdentify, TypeJournal, TasksTyped
  <2>2. TypeJournal'
    BY <1>8 DEF OpenIdentify, TypeJournal
  <2>3. LaunchAfterRecord'
    BY <1>8 DEF OpenIdentify, TasksTyped, Ordered, LaunchAfterRecord,
         LaunchIsJournaled, OneLaunch, ClosedIsDead, Unspawned, OpenTasks
  <2>4. ClosedIsDead'
    BY <1>8 DEF OpenIdentify, TasksTyped, Ordered, ClosedIsDead, LaunchAfterRecord,
         LaunchIsJournaled, RevokedAndOver, KilledBeforeComplete, Unspawned, OpenTasks
  <2>5. RevokedAndOver'
    BY <1>8 DEF OpenIdentify, TasksTyped, Ordered, RevokedAndOver, OpenTasks
  <2>6. KilledBeforeComplete'
    BY <1>8 DEF OpenIdentify, TasksTyped, Ordered, KilledBeforeComplete,
         RevokedAndOver, ClosedIsDead, OpenTasks
  <2> QED BY <2>1, <2>2, <2>3, <2>4, <2>5, <2>6 DEF Ordered
<1>9. CASE OpenFinish
  <2>1. TasksTyped'
    <3>1. To("caught") \in OpenTasks
      BY OpenUpdates, StepNames, Zenon DEF TasksTyped
    <3> QED BY <1>9, <3>1, Blank DEF OpenFinish, TasksTyped
  <2>2. TypeJournal'
    BY <1>9 DEF OpenFinish, TypeJournal
  <2>3. LaunchAfterRecord'
    BY <1>9 DEF OpenFinish, TasksTyped, Ordered, LaunchAfterRecord, LaunchIsJournaled,
         OneLaunch, ClosedIsDead, Unspawned, OpenTasks, NoOpen
  <2>4. ClosedIsDead'
    BY <1>9 DEF OpenFinish, TasksTyped, Ordered, ClosedIsDead, LaunchAfterRecord,
         LaunchIsJournaled, RevokedAndOver, KilledBeforeComplete, Unspawned,
         OpenTasks, NoOpen
  <2>5. RevokedAndOver'
    BY <1>9 DEF OpenFinish, TasksTyped, Ordered, RevokedAndOver, OpenTasks, NoOpen
  <2>6. KilledBeforeComplete'
    BY <1>9 DEF OpenFinish, TasksTyped, Ordered, KilledBeforeComplete, RevokedAndOver,
         ClosedIsDead, OpenTasks, NoOpen
  <2> QED BY <2>1, <2>2, <2>3, <2>4, <2>5, <2>6 DEF Ordered
<1>10. CASE OpenCaught
  <2>1. TasksTyped'
    <3>1. To("unpersist") \in OpenTasks
      BY OpenUpdates, StepNames, Zenon DEF TasksTyped
    <3> QED BY <1>10, <3>1, Blank DEF OpenCaught, TasksTyped
  <2>2. TypeJournal'
    BY <1>10, Zenon DEF OpenCaught, TypeJournal
  <2>3. LaunchAfterRecord'
    BY <1>10 DEF OpenCaught, TasksTyped, TypeJournal, Ordered, LaunchAfterRecord,
         LaunchIsJournaled, OneLaunch, ClosedIsDead, Unspawned, OpenTasks, NoOpen
  <2>4. ClosedIsDead'
    BY <1>10 DEF OpenCaught, TasksTyped, TypeJournal, Ordered, ClosedIsDead,
         LaunchAfterRecord, LaunchIsJournaled, RevokedAndOver, KilledBeforeComplete,
         Unspawned, OpenTasks, NoOpen
  <2>5. RevokedAndOver'
    BY <1>10 DEF OpenCaught, TasksTyped, Ordered, RevokedAndOver, OpenTasks, NoOpen
  <2>6. KilledBeforeComplete'
    BY <1>10 DEF OpenCaught, TasksTyped, TypeJournal, Ordered, KilledBeforeComplete,
         RevokedAndOver, ClosedIsDead, OpenTasks, NoOpen
  <2> QED BY <2>1, <2>2, <2>3, <2>4, <2>5, <2>6 DEF Ordered
<1>11. CASE OpenUnpersist
  <2>1. TasksTyped'
    BY <1>11, Blank, OpenUpdates, StepNames, Zenon DEF OpenUnpersist, TypeJournal, TasksTyped
  <2>2. TypeJournal'
    BY <1>11, Zenon DEF OpenUnpersist, TypeJournal
  <2>3. LaunchAfterRecord'
    BY <1>11 DEF OpenUnpersist, TasksTyped, Ordered, LaunchAfterRecord,
         LaunchIsJournaled, OneLaunch, ClosedIsDead, Unspawned, OpenTasks
  <2>4. ClosedIsDead'
    BY <1>11 DEF OpenUnpersist, TasksTyped, Ordered, ClosedIsDead, LaunchAfterRecord,
         LaunchIsJournaled, RevokedAndOver, KilledBeforeComplete, Unspawned, OpenTasks
  <2>5. RevokedAndOver'
    BY <1>11 DEF OpenUnpersist, TasksTyped, Ordered, RevokedAndOver, OpenTasks
  <2>6. KilledBeforeComplete'
    BY <1>11 DEF OpenUnpersist, TasksTyped, Ordered, KilledBeforeComplete,
         RevokedAndOver, ClosedIsDead, OpenTasks
  <2> QED BY <2>1, <2>2, <2>3, <2>4, <2>5, <2>6 DEF Ordered
<1>12. CASE OpenRevoke
  <2>1. TasksTyped'
    BY <1>12, Blank, OpenUpdates, StepNames, Zenon DEF OpenRevoke, TypeJournal, TasksTyped
  <2>2. TypeJournal'
    BY <1>12 DEF OpenRevoke, TypeJournal
  <2>3. LaunchAfterRecord'
    BY <1>12 DEF OpenRevoke, TasksTyped, Ordered, LaunchAfterRecord,
         LaunchIsJournaled, OneLaunch, ClosedIsDead, Unspawned, OpenTasks, NoOpen
  <2>4. ClosedIsDead'
    BY <1>12 DEF OpenRevoke, TasksTyped, Ordered, ClosedIsDead, LaunchAfterRecord,
         LaunchIsJournaled, RevokedAndOver, KilledBeforeComplete, Unspawned,
         OpenTasks, NoOpen
  <2>5. RevokedAndOver'
    BY <1>12 DEF OpenRevoke, TasksTyped, Ordered, RevokedAndOver, OpenTasks, NoOpen
  <2>6. KilledBeforeComplete'
    BY <1>12 DEF OpenRevoke, TasksTyped, Ordered, KilledBeforeComplete,
         RevokedAndOver, ClosedIsDead, OpenTasks, NoOpen
  <2> QED BY <2>1, <2>2, <2>3, <2>4, <2>5, <2>6 DEF Ordered
<1>13. CASE OpenRevokeJournal
  <2>1. TasksTyped'
    BY <1>13, Blank, OpenUpdates, StepNames, Zenon DEF OpenRevokeJournal, TypeJournal,
         TasksTyped
  <2>2. TypeJournal'
    BY <1>13 DEF OpenRevokeJournal, TypeJournal, Records, Methods
  <2>3. LaunchAfterRecord'
    BY <1>13 DEF OpenRevokeJournal, TasksTyped, TypeJournal, Ordered,
         LaunchAfterRecord, LaunchIsJournaled, OneLaunch, ClosedIsDead, Unspawned,
         Records, OpenTasks, NoOpen
  <2>4. ClosedIsDead'
    BY <1>13 DEF OpenRevokeJournal, TasksTyped, TypeJournal, Ordered, ClosedIsDead,
         LaunchAfterRecord, LaunchIsJournaled, RevokedAndOver, KilledBeforeComplete,
         Unspawned, Records, OpenTasks, NoOpen
  <2>5. RevokedAndOver'
    BY <1>13 DEF OpenRevokeJournal, TasksTyped, Ordered, RevokedAndOver, OpenTasks,
         NoOpen
  <2>6. KilledBeforeComplete'
    BY <1>13 DEF OpenRevokeJournal, TasksTyped, TypeJournal, Ordered,
         KilledBeforeComplete, RevokedAndOver, ClosedIsDead, Records, OpenTasks,
         NoOpen
  <2> QED BY <2>1, <2>2, <2>3, <2>4, <2>5, <2>6 DEF Ordered
<1>14. CASE OpenKill
  <2>1. TasksTyped'
    <3>1. To("complete") \in OpenTasks
      BY OpenUpdates, StepNames, Zenon DEF TasksTyped
    <3> QED BY <1>14, <3>1, Blank DEF OpenKill, TasksTyped
  <2>2. TypeJournal'
    BY <1>14 DEF OpenKill, TypeJournal
  <2>3. LaunchAfterRecord'
    BY <1>14 DEF OpenKill, TasksTyped, TypeJournal, Ordered, LaunchAfterRecord,
         LaunchIsJournaled, OneLaunch, ClosedIsDead, Unspawned, OpenTasks, NoOpen
  <2>4. ClosedIsDead'
    BY <1>14 DEF OpenKill, TasksTyped, TypeJournal, Ordered, ClosedIsDead,
         LaunchAfterRecord, LaunchIsJournaled, RevokedAndOver, KilledBeforeComplete,
         Unspawned, OpenTasks, NoOpen
  <2>5. RevokedAndOver'
    BY <1>14 DEF OpenKill, TasksTyped, Ordered, RevokedAndOver, OpenTasks, NoOpen
  <2>6. KilledBeforeComplete'
    BY <1>14 DEF OpenKill, TasksTyped, TypeJournal, Ordered, KilledBeforeComplete,
         RevokedAndOver, ClosedIsDead, OpenTasks, NoOpen
  <2> QED BY <2>1, <2>2, <2>3, <2>4, <2>5, <2>6 DEF Ordered
<1>15. CASE OpenComplete
  <2>1. TasksTyped'
    BY <1>15, Blank, OpenUpdates, StepNames, Zenon DEF OpenComplete, TypeJournal, TasksTyped
  <2>2. TypeJournal'
    BY <1>15 DEF OpenComplete, TypeJournal, Records, Methods, TasksTyped, OpenTasks
  <2>3. LaunchAfterRecord'
    BY <1>15 DEF OpenComplete, TasksTyped, TypeJournal, Ordered, LaunchAfterRecord,
         LaunchIsJournaled, OneLaunch, ClosedIsDead, Unspawned, Records, OpenTasks,
         NoOpen
  <2>4. ClosedIsDead'
    BY <1>15 DEF OpenComplete, TasksTyped, TypeJournal, Ordered, ClosedIsDead,
         LaunchAfterRecord, LaunchIsJournaled, RevokedAndOver, KilledBeforeComplete,
         Unspawned, Records, OpenTasks, NoOpen
  <2>5. RevokedAndOver'
    BY <1>15 DEF OpenComplete, TasksTyped, Ordered, RevokedAndOver, OpenTasks, NoOpen
  <2>6. KilledBeforeComplete'
    BY <1>15 DEF OpenComplete, TasksTyped, TypeJournal, Ordered, KilledBeforeComplete,
         RevokedAndOver, ClosedIsDead, Records, OpenTasks, NoOpen
  <2> QED BY <2>1, <2>2, <2>3, <2>4, <2>5, <2>6 DEF Ordered
<1> QED BY <1>1, <1>2, <1>3, <1>4, <1>5, <1>6, <1>7, <1>8, <1>9, <1>10, <1>11, <1>12,
     <1>13, <1>14, <1>15 DEF OpenTask

(* Every step of close() preserves the invariant. *)
LEMMA CloseKeeps ==
    ASSUME JournalInv, CloseTask
    PROVE  JournalInv'
<1> USE Bounds DEF JournalInv, HasLaunch, Opening, ids, history, CloseTo, CloseOnly,
     CloseEnds, Revoke, RecordAbortedLaunch, CanComplete, Complete
<1>1. CASE CloseRead
  <2>1. TasksTyped'
    BY <1>1, Blank, CloseUpdates, EvidUpdates, Zenon DEF CloseRead, TypeJournal, TasksTyped,
         CloseSteps, EvidSteps, Descriptors
  <2>2. TypeJournal'
    BY <1>1 DEF CloseRead, TypeJournal
  <2>3. LaunchAfterRecord'
    BY <1>1 DEF CloseRead, Ordered, LaunchAfterRecord, LaunchIsJournaled, OneLaunch
  <2>4. ClosedIsDead'
    BY <1>1 DEF CloseRead, Ordered, ClosedIsDead
  <2>5. RevokedAndOver'
    BY <1>1 DEF CloseRead, TasksTyped, Ordered, RevokedAndOver, CloseTasks
  <2>6. KilledBeforeComplete'
    BY <1>1 DEF CloseRead, TasksTyped, Ordered, KilledBeforeComplete, RevokedAndOver,
         ClosedIsDead, CloseTasks
  <2> QED BY <2>1, <2>2, <2>3, <2>4, <2>5, <2>6 DEF Ordered
<1>2. CASE CloseRevokeJournal
  <2>1. TasksTyped'
    BY <1>2, Blank, CloseUpdates, EvidUpdates, Zenon DEF CloseRevokeJournal, TypeJournal,
         TasksTyped, CloseSteps, EvidSteps, Descriptors
  <2>2. TypeJournal'
    BY <1>2, Zenon DEF CloseRevokeJournal, TypeJournal, Records, Methods
  <2>3. LaunchAfterRecord'
    BY <1>2 DEF CloseRevokeJournal, TypeJournal, Ordered, LaunchAfterRecord,
         LaunchIsJournaled, OneLaunch, ClosedIsDead, Unspawned, Records
  <2>4. ClosedIsDead'
    BY <1>2 DEF CloseRevokeJournal, TypeJournal, Ordered, ClosedIsDead,
         LaunchAfterRecord, LaunchIsJournaled, RevokedAndOver, KilledBeforeComplete,
         Unspawned, Records
  <2>5. RevokedAndOver'
    BY <1>2 DEF CloseRevokeJournal, TasksTyped, Ordered, RevokedAndOver, CloseTasks
  <2>6. KilledBeforeComplete'
    BY <1>2 DEF CloseRevokeJournal, TasksTyped, TypeJournal, Ordered,
         KilledBeforeComplete, RevokedAndOver, ClosedIsDead, Records, CloseTasks
  <2> QED BY <2>1, <2>2, <2>3, <2>4, <2>5, <2>6 DEF Ordered
<1>3. CASE CloseRevoke
  <2>1. TasksTyped'
    BY <1>3, Blank, CloseUpdates, EvidUpdates, Zenon DEF CloseRevoke, TypeJournal,
         TasksTyped, CloseSteps, EvidSteps, Descriptors
  <2>2. TypeJournal'
    BY <1>3, Zenon DEF CloseRevoke, TypeJournal
  <2>3. LaunchAfterRecord'
    BY <1>3 DEF CloseRevoke, Ordered, LaunchAfterRecord, LaunchIsJournaled, OneLaunch
  <2>4. ClosedIsDead'
    BY <1>3 DEF CloseRevoke, Ordered, ClosedIsDead
  <2>5. RevokedAndOver'
    BY <1>3 DEF CloseRevoke, TasksTyped, Ordered, RevokedAndOver, CloseTasks
  <2>6. KilledBeforeComplete'
    BY <1>3 DEF CloseRevoke, TasksTyped, Ordered, KilledBeforeComplete,
         RevokedAndOver, ClosedIsDead, CloseTasks
  <2> QED BY <2>1, <2>2, <2>3, <2>4, <2>5, <2>6 DEF Ordered
<1>4. CASE CloseAwait
  <2>1. TasksTyped'
    BY <1>4, Blank, CloseUpdates, EvidUpdates, Zenon DEF CloseAwait, TypeJournal, TasksTyped,
         CloseSteps, EvidSteps, Descriptors
  <2>2. TypeJournal'
    BY <1>4 DEF CloseAwait, TypeJournal
  <2>3. LaunchAfterRecord'
    BY <1>4 DEF CloseAwait, Ordered, LaunchAfterRecord, LaunchIsJournaled, OneLaunch
  <2>4. ClosedIsDead'
    BY <1>4 DEF CloseAwait, Ordered, ClosedIsDead
  <2>5. RevokedAndOver'
    BY <1>4 DEF CloseAwait, TasksTyped, Ordered, RevokedAndOver, CloseTasks
  <2>6. KilledBeforeComplete'
    BY <1>4 DEF CloseAwait, TasksTyped, Ordered, KilledBeforeComplete, RevokedAndOver,
         ClosedIsDead, CloseTasks
  <2> QED BY <2>1, <2>2, <2>3, <2>4, <2>5, <2>6 DEF Ordered
<1>5. CASE CloseAbort
  <2>1. TasksTyped'
    BY <1>5, Blank, CloseUpdates, EvidUpdates, Zenon DEF CloseAbort, TypeJournal, TasksTyped,
         CloseSteps, EvidSteps, Descriptors
  <2>2. TypeJournal'
    <3>1. CASE rec.revoked /\ ~HasLaunch(rec)
      <4>1. rec \in Records /\ host \in 0 .. MaxHost /\ host # 0
        BY DEF TypeJournal, Records
      <4>2. rec' = [rec EXCEPT !.launch = host,
                               !.closed = "IDENTIFIED_PROCESS_SET_TERMINATED"]
        BY <1>5, <3>1 DEF CloseAbort
      <4>3. "IDENTIFIED_PROCESS_SET_TERMINATED" \in Methods \cup {"none"}
        BY DEF Methods
      <4>4. rec' \in Records
        BY <4>1, <4>2, <4>3, AbortUpdate, Zenon
      <4>5. rec'.launch # 0 /\ rec'.revoked
        BY <3>1, <4>1, <4>2 DEF Records
      <4> QED BY <1>5, <4>4, <4>5 DEF CloseAbort, TypeJournal, Records
    <3>2. CASE ~(rec.revoked /\ ~HasLaunch(rec))
      BY <1>5, <3>2 DEF CloseAbort, TypeJournal
    <3> QED BY <3>1, <3>2
  <2>3. LaunchAfterRecord'
    BY <1>5 DEF CloseAbort, TypeJournal, Ordered, LaunchAfterRecord,
         LaunchIsJournaled, OneLaunch, ClosedIsDead, Unspawned, Records
  <2>4. ClosedIsDead'
    BY <1>5 DEF CloseAbort, TypeJournal, Ordered, ClosedIsDead, LaunchAfterRecord,
         LaunchIsJournaled, RevokedAndOver, KilledBeforeComplete, Unspawned, Records
  <2>5. RevokedAndOver'
    BY <1>5 DEF CloseAbort, TasksTyped, Ordered, RevokedAndOver, CloseTasks
  <2>6. KilledBeforeComplete'
    BY <1>5 DEF CloseAbort, TasksTyped, TypeJournal, Ordered, KilledBeforeComplete,
         RevokedAndOver, ClosedIsDead, Records, CloseTasks
  <2> QED BY <2>1, <2>2, <2>3, <2>4, <2>5, <2>6 DEF Ordered
<1>6. CASE CloseLook
  <2>1. TasksTyped'
    <3>1. rec \in Records /\ live \in BOOLEAN
      BY DEF TypeJournal, Records
    <3>2. close \in CloseTasks /\ "kill" \in CloseSteps
      BY DEF TasksTyped, CloseSteps
    <3>3. [close EXCEPT !.pc = "kill", !.session = live, !.journal = rec] \in CloseTasks
      BY <3>1, <3>2, LookUpdate, Zenon
    <3> QED BY <1>6, <3>3 DEF CloseLook, TasksTyped
  <2>2. TypeJournal'
    BY <1>6 DEF CloseLook, TypeJournal
  <2>3. LaunchAfterRecord'
    BY <1>6 DEF CloseLook, Ordered, LaunchAfterRecord, LaunchIsJournaled, OneLaunch
  <2>4. ClosedIsDead'
    BY <1>6 DEF CloseLook, Ordered, ClosedIsDead
  <2>5. RevokedAndOver'
    BY <1>6 DEF CloseLook, TasksTyped, Ordered, RevokedAndOver, CloseTasks
  <2>6. KilledBeforeComplete'
    BY <1>6 DEF CloseLook, TasksTyped, Ordered, KilledBeforeComplete, RevokedAndOver,
         ClosedIsDead, CloseTasks
  <2> QED BY <2>1, <2>2, <2>3, <2>4, <2>5, <2>6 DEF Ordered
<1>7. CASE CloseKill
  <2>1. TasksTyped'
    BY <1>7, Blank, CloseUpdates, EvidUpdates, Zenon DEF CloseKill, TypeJournal, TasksTyped,
         CloseSteps, EvidSteps, Descriptors
  <2>2. TypeJournal'
    BY <1>7 DEF CloseKill, TypeJournal
  <2>3. LaunchAfterRecord'
    BY <1>7 DEF CloseKill, TypeJournal, Ordered, LaunchAfterRecord, LaunchIsJournaled,
         OneLaunch, ClosedIsDead, Unspawned
  <2>4. ClosedIsDead'
    BY <1>7 DEF CloseKill, TypeJournal, Ordered, ClosedIsDead, LaunchAfterRecord,
         LaunchIsJournaled, RevokedAndOver, KilledBeforeComplete, Unspawned
  <2>5. RevokedAndOver'
    BY <1>7 DEF CloseKill, TasksTyped, Ordered, RevokedAndOver, CloseTasks, EvidTasks,
         NoClose, NoEvid
  <2>6. KilledBeforeComplete'
    <3>1. close.pc = "kill" /\ ~Opening /\ UNCHANGED <<rec, open>>
      BY <1>7 DEF CloseKill, Ordered, RevokedAndOver
    <3>2. CASE /\ browser' = (browser /\ ~close.session /\ close.journal.closed # "none")
               /\ CloseTo("complete")
      <4>1. ~browser'
        BY <3>1, <3>2 DEF Ordered, ClosedIsDead, KilledBeforeComplete
      <4>2. close'.pc = "complete"
        BY <3>2 DEF TasksTyped, CloseTasks
      <4> QED BY <3>1, <4>1, <4>2 DEF KilledBeforeComplete
    <3>3. CASE CloseEnds(FALSE)
      BY <3>1, <3>3 DEF KilledBeforeComplete, NoClose
    <3> QED BY <1>7, <3>2, <3>3 DEF CloseKill
  <2> QED BY <2>1, <2>2, <2>3, <2>4, <2>5, <2>6 DEF Ordered
<1>8. CASE CloseComplete
  <2>1. TasksTyped'
    BY <1>8, Blank, CloseUpdates, EvidUpdates, Zenon DEF CloseComplete, TypeJournal,
         TasksTyped, CloseSteps, EvidSteps, Descriptors
  <2>2. TypeJournal'
    BY <1>8 DEF CloseComplete, TypeJournal, Records, Methods
  <2>3. LaunchAfterRecord'
    BY <1>8 DEF CloseComplete, TypeJournal, Ordered, LaunchAfterRecord,
         LaunchIsJournaled, OneLaunch, ClosedIsDead, Unspawned, Records
  <2>4. ClosedIsDead'
    BY <1>8 DEF CloseComplete, TypeJournal, Ordered, ClosedIsDead, LaunchAfterRecord,
         LaunchIsJournaled, RevokedAndOver, KilledBeforeComplete, Unspawned, Records
  <2>5. RevokedAndOver'
    BY <1>8 DEF CloseComplete, TasksTyped, Ordered, RevokedAndOver, CloseTasks,
         EvidTasks, NoClose, NoEvid
  <2>6. KilledBeforeComplete'
    BY <1>8 DEF CloseComplete, TasksTyped, TypeJournal, Ordered, KilledBeforeComplete,
         RevokedAndOver, ClosedIsDead, Records, CloseTasks, NoClose
  <2> QED BY <2>1, <2>2, <2>3, <2>4, <2>5, <2>6 DEF Ordered
<1>9. CASE CloseDelete
  <2>1. TasksTyped'
    BY <1>9, Blank, CloseUpdates, EvidUpdates, Zenon DEF CloseDelete, TypeJournal,
         TasksTyped, CloseSteps, EvidSteps, Descriptors
  <2>2. TypeJournal'
    BY <1>9, Zenon DEF CloseDelete, TypeJournal
  <2>3. LaunchAfterRecord'
    BY <1>9 DEF CloseDelete, Ordered, LaunchAfterRecord, LaunchIsJournaled, OneLaunch
  <2>4. ClosedIsDead'
    BY <1>9 DEF CloseDelete, Ordered, ClosedIsDead
  <2>5. RevokedAndOver'
    BY <1>9 DEF CloseDelete, TasksTyped, Ordered, RevokedAndOver, CloseTasks,
         EvidTasks, NoClose, NoEvid
  <2>6. KilledBeforeComplete'
    BY <1>9 DEF CloseDelete, TasksTyped, Ordered, KilledBeforeComplete,
         RevokedAndOver, ClosedIsDead, CloseTasks, NoClose
  <2> QED BY <2>1, <2>2, <2>3, <2>4, <2>5, <2>6 DEF Ordered
<1> QED BY <1>1, <1>2, <1>3, <1>4, <1>5, <1>6, <1>7, <1>8, <1>9 DEF CloseTask

(* Every step of closeWithEvidence preserves the invariant. *)
LEMMA EvidenceKeeps ==
    ASSUME JournalInv, EvidTask
    PROVE  JournalInv'
<1> USE Bounds DEF JournalInv, HasLaunch, Opening, ids, history, EvidTo, EvidOnly,
     BeginClose, Closing, Revoke, RecordAbortedLaunch, PreventLaunch, Judge,
     NeverLaunched
<1>1. CASE EvidRead
  <2>1. TasksTyped'
    BY <1>1, Blank, CloseUpdates, EvidUpdates, Zenon DEF EvidRead, TypeJournal, TasksTyped,
         CloseSteps, EvidSteps, Descriptors
  <2>2. TypeJournal'
    BY <1>1 DEF EvidRead, TypeJournal
  <2>3. LaunchAfterRecord'
    BY <1>1 DEF EvidRead, Ordered, LaunchAfterRecord, LaunchIsJournaled, OneLaunch
  <2>4. ClosedIsDead'
    BY <1>1 DEF EvidRead, Ordered, ClosedIsDead
  <2>5. RevokedAndOver'
    BY <1>1 DEF EvidRead, TasksTyped, Ordered, RevokedAndOver, EvidTasks, NoEvid
  <2>6. KilledBeforeComplete'
    BY <1>1 DEF EvidRead, Ordered, KilledBeforeComplete
  <2> QED BY <2>1, <2>2, <2>3, <2>4, <2>5, <2>6 DEF Ordered
<1>2. CASE EvidAbortRevoke
  <2>1. TasksTyped'
    BY <1>2, Blank, CloseUpdates, EvidUpdates, Zenon DEF EvidAbortRevoke, TypeJournal,
         TasksTyped, CloseSteps, EvidSteps, Descriptors
  <2>2. TypeJournal'
    BY <1>2, Zenon DEF EvidAbortRevoke, TypeJournal, Records, Methods
  <2>3. LaunchAfterRecord'
    BY <1>2 DEF EvidAbortRevoke, TypeJournal, Ordered, LaunchAfterRecord,
         LaunchIsJournaled, OneLaunch, ClosedIsDead, Unspawned, Records
  <2>4. ClosedIsDead'
    BY <1>2 DEF EvidAbortRevoke, TypeJournal, Ordered, ClosedIsDead,
         LaunchAfterRecord, LaunchIsJournaled, RevokedAndOver, KilledBeforeComplete,
         Unspawned, Records
  <2>5. RevokedAndOver'
    BY <1>2 DEF EvidAbortRevoke, TasksTyped, Ordered, RevokedAndOver, EvidTasks
  <2>6. KilledBeforeComplete'
    BY <1>2 DEF EvidAbortRevoke, TypeJournal, Ordered, KilledBeforeComplete,
         RevokedAndOver, ClosedIsDead, Records
  <2> QED BY <2>1, <2>2, <2>3, <2>4, <2>5, <2>6 DEF Ordered
<1>3. CASE EvidAwait
  <2>1. TasksTyped'
    BY <1>3, Blank, CloseUpdates, EvidUpdates, Zenon DEF EvidAwait, TypeJournal, TasksTyped,
         CloseSteps, EvidSteps, Descriptors
  <2>2. TypeJournal'
    BY <1>3 DEF EvidAwait, TypeJournal
  <2>3. LaunchAfterRecord'
    BY <1>3 DEF EvidAwait, Ordered, LaunchAfterRecord, LaunchIsJournaled, OneLaunch
  <2>4. ClosedIsDead'
    BY <1>3 DEF EvidAwait, Ordered, ClosedIsDead
  <2>5. RevokedAndOver'
    BY <1>3 DEF EvidAwait, TasksTyped, Ordered, RevokedAndOver, EvidTasks
  <2>6. KilledBeforeComplete'
    BY <1>3 DEF EvidAwait, Ordered, KilledBeforeComplete
  <2> QED BY <2>1, <2>2, <2>3, <2>4, <2>5, <2>6 DEF Ordered
<1>4. CASE EvidAbort
  <2>1. TasksTyped'
    BY <1>4, Blank, CloseUpdates, EvidUpdates, Zenon DEF EvidAbort, TypeJournal, TasksTyped,
         CloseSteps, EvidSteps, Descriptors
  <2>2. TypeJournal'
    <3>1. CASE rec.revoked /\ ~HasLaunch(rec)
      <4>1. rec \in Records /\ host \in 0 .. MaxHost /\ host # 0
        BY DEF TypeJournal, Records
      <4>2. rec' = [rec EXCEPT !.launch = host,
                               !.closed = "IDENTIFIED_PROCESS_SET_TERMINATED"]
        BY <1>4, <3>1 DEF EvidAbort
      <4>3. "IDENTIFIED_PROCESS_SET_TERMINATED" \in Methods \cup {"none"}
        BY DEF Methods
      <4>4. rec' \in Records
        BY <4>1, <4>2, <4>3, AbortUpdate, Zenon
      <4>5. rec'.launch # 0 /\ rec'.revoked
        BY <3>1, <4>1, <4>2 DEF Records
      <4> QED BY <1>4, <4>4, <4>5 DEF EvidAbort, TypeJournal, Records
    <3>2. CASE ~(rec.revoked /\ ~HasLaunch(rec))
      BY <1>4, <3>2 DEF EvidAbort, TypeJournal
    <3> QED BY <3>1, <3>2
  <2>3. LaunchAfterRecord'
    BY <1>4 DEF EvidAbort, TypeJournal, Ordered, LaunchAfterRecord, LaunchIsJournaled,
         OneLaunch, ClosedIsDead, Unspawned, Records
  <2>4. ClosedIsDead'
    BY <1>4 DEF EvidAbort, TypeJournal, Ordered, ClosedIsDead, LaunchAfterRecord,
         LaunchIsJournaled, RevokedAndOver, KilledBeforeComplete, Unspawned, Records
  <2>5. RevokedAndOver'
    BY <1>4 DEF EvidAbort, TasksTyped, Ordered, RevokedAndOver, EvidTasks
  <2>6. KilledBeforeComplete'
    BY <1>4 DEF EvidAbort, TypeJournal, Ordered, KilledBeforeComplete, RevokedAndOver,
         ClosedIsDead, Records
  <2> QED BY <2>1, <2>2, <2>3, <2>4, <2>5, <2>6 DEF Ordered
<1>5. CASE EvidPrevent
  <2>1. TasksTyped'
    BY <1>5, Blank, CloseUpdates, EvidUpdates, Zenon DEF EvidPrevent, TypeJournal,
         TasksTyped, CloseSteps, EvidSteps, Descriptors
  <2>2. TypeJournal'
    <3>1. CASE ~HasLaunch(rec)
      <4>1. rec' = [NoRecord EXCEPT !.launch = host, !.revoked = TRUE,
                                    !.closed = "LAUNCH_PREVENTED"]
        BY <1>5, <3>1 DEF EvidPrevent
      <4>2. rec' = [launch |-> host, revoked |-> TRUE, proc |-> FALSE,
                    closed |-> "LAUNCH_PREVENTED"]
        BY <4>1 DEF NoRecord
      <4>3. rec' \in Records /\ rec'.launch # 0 /\ rec'.revoked
        BY <4>2 DEF TypeJournal, Records, Methods
      <4> QED BY <1>5, <4>3 DEF EvidPrevent, TypeJournal, Records
    <3>2. CASE HasLaunch(rec)
      BY <1>5, <3>2 DEF EvidPrevent, TypeJournal
    <3> QED BY <3>1, <3>2
  <2>3. LaunchAfterRecord'
    BY <1>5 DEF EvidPrevent, TypeJournal, Ordered, LaunchAfterRecord,
         LaunchIsJournaled, OneLaunch, ClosedIsDead, Unspawned, Records, NoRecord
  <2>4. ClosedIsDead'
    BY <1>5 DEF EvidPrevent, TypeJournal, Ordered, ClosedIsDead, LaunchAfterRecord,
         LaunchIsJournaled, RevokedAndOver, KilledBeforeComplete, Unspawned, Records,
         NoRecord
  <2>5. RevokedAndOver'
    BY <1>5 DEF EvidPrevent, TasksTyped, Ordered, RevokedAndOver, EvidTasks, NoEvid
  <2>6. KilledBeforeComplete'
    BY <1>5 DEF EvidPrevent, TypeJournal, Ordered, KilledBeforeComplete,
         RevokedAndOver, ClosedIsDead, Records, NoRecord
  <2> QED BY <2>1, <2>2, <2>3, <2>4, <2>5, <2>6 DEF Ordered
<1>6. CASE EvidJudge
  <2>1. TasksTyped'
    BY <1>6, Blank, CloseUpdates, EvidUpdates, Zenon DEF EvidJudge, TypeJournal, TasksTyped,
         CloseSteps, EvidSteps, Descriptors
  <2>2. TypeJournal'
    BY <1>6 DEF EvidJudge, TypeJournal
  <2>3. LaunchAfterRecord'
    BY <1>6 DEF EvidJudge, Ordered, LaunchAfterRecord, LaunchIsJournaled, OneLaunch
  <2>4. ClosedIsDead'
    BY <1>6 DEF EvidJudge, Ordered, ClosedIsDead
  <2>5. RevokedAndOver'
    BY <1>6 DEF EvidJudge, TasksTyped, Ordered, RevokedAndOver, EvidTasks, NoEvid
  <2>6. KilledBeforeComplete'
    BY <1>6 DEF EvidJudge, Ordered, KilledBeforeComplete
  <2> QED BY <2>1, <2>2, <2>3, <2>4, <2>5, <2>6 DEF Ordered
<1>7. CASE EvidRevoke
  <2>1. TasksTyped'
    BY <1>7, Blank, CloseUpdates, EvidUpdates, Zenon DEF EvidRevoke, TypeJournal, TasksTyped,
         CloseSteps, EvidSteps, Descriptors
  <2>2. TypeJournal'
    BY <1>7 DEF EvidRevoke, TypeJournal, Records, Methods
  <2>3. LaunchAfterRecord'
    BY <1>7 DEF EvidRevoke, TypeJournal, Ordered, LaunchAfterRecord,
         LaunchIsJournaled, OneLaunch, ClosedIsDead, Unspawned, Records
  <2>4. ClosedIsDead'
    BY <1>7 DEF EvidRevoke, TypeJournal, Ordered, ClosedIsDead, LaunchAfterRecord,
         LaunchIsJournaled, RevokedAndOver, KilledBeforeComplete, Unspawned, Records
  <2>5. RevokedAndOver'
    BY <1>7 DEF EvidRevoke, TasksTyped, Ordered, RevokedAndOver, EvidTasks
  <2>6. KilledBeforeComplete'
    BY <1>7 DEF EvidRevoke, TypeJournal, Ordered, KilledBeforeComplete,
         RevokedAndOver, ClosedIsDead, Records
  <2> QED BY <2>1, <2>2, <2>3, <2>4, <2>5, <2>6 DEF Ordered
<1>8. CASE EvidJoin
  <2>1. TasksTyped'
    <3>1. [evid EXCEPT !.pc = "closing"] \in EvidTasks
      BY EvidUpdates, Blank, Zenon DEF TasksTyped, EvidSteps
    <3>2. [NoClose EXCEPT !.pc = "read", !.initial = Descriptor] \in CloseTasks
      BY Blank, CloseUpdates, Zenon DEF CloseSteps
    <3>3. close' \in CloseTasks
      BY <1>8, <3>2 DEF EvidJoin, TasksTyped
    <3> QED BY <1>8, <3>1, <3>3 DEF EvidJoin, TasksTyped
  <2>2. TypeJournal'
    BY <1>8 DEF EvidJoin, TypeJournal
  <2>3. LaunchAfterRecord'
    BY <1>8 DEF EvidJoin, Ordered, LaunchAfterRecord, LaunchIsJournaled, OneLaunch
  <2>4. ClosedIsDead'
    BY <1>8 DEF EvidJoin, Ordered, ClosedIsDead
  <2>5. RevokedAndOver'
    BY <1>8 DEF EvidJoin, TasksTyped, Ordered, RevokedAndOver, CloseTasks, EvidTasks,
         NoClose, NoEvid
  <2>6. KilledBeforeComplete'
    BY <1>8, Zenon DEF EvidJoin, TasksTyped, Ordered, KilledBeforeComplete, RevokedAndOver,
         ClosedIsDead, CloseTasks, NoClose
  <2> QED BY <2>1, <2>2, <2>3, <2>4, <2>5, <2>6 DEF Ordered
<1>9. CASE EvidProve
  <2>1. TasksTyped'
    BY <1>9, Blank, CloseUpdates, EvidUpdates, Zenon DEF EvidProve, TypeJournal, TasksTyped,
         CloseSteps, EvidSteps, Descriptors
  <2>2. TypeJournal'
    BY <1>9 DEF EvidProve, TypeJournal, Methods
  <2>3. LaunchAfterRecord'
    BY <1>9 DEF EvidProve, Ordered, LaunchAfterRecord, LaunchIsJournaled, OneLaunch
  <2>4. ClosedIsDead'
    BY <1>9 DEF EvidProve, Ordered, ClosedIsDead, LaunchAfterRecord,
         LaunchIsJournaled, RevokedAndOver, KilledBeforeComplete, Unspawned
  <2>5. RevokedAndOver'
    BY <1>9 DEF EvidProve, TasksTyped, Ordered, RevokedAndOver, EvidTasks, NoEvid
  <2>6. KilledBeforeComplete'
    BY <1>9 DEF EvidProve, Ordered, KilledBeforeComplete
  <2> QED BY <2>1, <2>2, <2>3, <2>4, <2>5, <2>6 DEF Ordered
<1>10. CASE EvidQueue
  <2>1. TasksTyped'
    BY <1>10, Blank, CloseUpdates, EvidUpdates, Zenon DEF EvidQueue, TypeJournal, TasksTyped,
         CloseSteps, EvidSteps, Descriptors
  <2>2. TypeJournal'
    BY <1>10 DEF EvidQueue, TypeJournal
  <2>3. LaunchAfterRecord'
    BY <1>10 DEF EvidQueue, Ordered, LaunchAfterRecord, LaunchIsJournaled, OneLaunch
  <2>4. ClosedIsDead'
    BY <1>10 DEF EvidQueue, Ordered, ClosedIsDead
  <2>5. RevokedAndOver'
    BY <1>10 DEF EvidQueue, TasksTyped, Ordered, RevokedAndOver, EvidTasks, NoEvid
  <2>6. KilledBeforeComplete'
    BY <1>10 DEF EvidQueue, Ordered, KilledBeforeComplete
  <2> QED BY <2>1, <2>2, <2>3, <2>4, <2>5, <2>6 DEF Ordered
<1> QED BY <1>1, <1>2, <1>3, <1>4, <1>5, <1>6, <1>7, <1>8, <1>9, <1>10 DEF EvidTask

(* So do the start of each task, an acknowledgement, and every stop of the daemon. *)
LEMMA StartsKeep ==
    ASSUME JournalInv, 
           \/ StartOpen \/ StartClose \/ StartEvidence \/ Acknowledge
           \/ DaemonRestarts \/ HostReboots \/ UNCHANGED journalVars
    PROVE  JournalInv'
<1> USE Bounds DEF JournalInv, HasLaunch, Opening, ids, history, BeginClose, Closing,
     CloseOnly, EvidOnly, Restart, journalVars
<1>1. CASE StartOpen
  <2>1. TasksTyped'
    BY <1>1, Blank, OpenUpdates, CloseUpdates, EvidUpdates, Zenon DEF StartOpen, TypeJournal,
         TasksTyped, OpenSteps, CloseSteps, EvidSteps, Unspawned
  <2>2. TypeJournal'
    BY <1>1, Zenon DEF StartOpen, TypeJournal
  <2>3. LaunchAfterRecord'
    BY <1>1 DEF StartOpen, TasksTyped, Ordered, LaunchAfterRecord, LaunchIsJournaled,
         OneLaunch, ClosedIsDead, Unspawned, OpenTasks, NoOpen
  <2>4. ClosedIsDead'
    BY <1>1 DEF StartOpen, TasksTyped, Ordered, ClosedIsDead, LaunchAfterRecord,
         LaunchIsJournaled, RevokedAndOver, KilledBeforeComplete, Unspawned,
         OpenTasks, NoOpen
  <2>5. RevokedAndOver'
    BY <1>1 DEF StartOpen, TasksTyped, Ordered, RevokedAndOver, OpenTasks, NoOpen
  <2>6. KilledBeforeComplete'
    BY <1>1 DEF StartOpen, TasksTyped, Ordered, KilledBeforeComplete, RevokedAndOver,
         ClosedIsDead, OpenTasks, NoOpen
  <2> QED BY <2>1, <2>2, <2>3, <2>4, <2>5, <2>6 DEF Ordered
<1>2. CASE StartClose
  <2>1. TasksTyped'
    BY <1>2, Blank, OpenUpdates, CloseUpdates, EvidUpdates, Zenon DEF StartClose,
         TypeJournal, TasksTyped, OpenSteps, CloseSteps, EvidSteps, Unspawned
  <2>2. TypeJournal'
    BY <1>2 DEF StartClose, TypeJournal
  <2>3. LaunchAfterRecord'
    BY <1>2 DEF StartClose, Ordered, LaunchAfterRecord, LaunchIsJournaled, OneLaunch
  <2>4. ClosedIsDead'
    BY <1>2 DEF StartClose, Ordered, ClosedIsDead
  <2>5. RevokedAndOver'
    BY <1>2 DEF StartClose, TasksTyped, Ordered, RevokedAndOver, CloseTasks, NoClose
  <2>6. KilledBeforeComplete'
    BY <1>2 DEF StartClose, TasksTyped, Ordered, KilledBeforeComplete, RevokedAndOver,
         ClosedIsDead, CloseTasks, NoClose
  <2> QED BY <2>1, <2>2, <2>3, <2>4, <2>5, <2>6 DEF Ordered
<1>3. CASE StartEvidence
  <2>1. TasksTyped'
    BY <1>3, Blank, OpenUpdates, CloseUpdates, EvidUpdates, Zenon DEF StartEvidence,
         TypeJournal, TasksTyped, OpenSteps, CloseSteps, EvidSteps, Unspawned
  <2>2. TypeJournal'
    BY <1>3 DEF StartEvidence, TypeJournal
  <2>3. LaunchAfterRecord'
    BY <1>3 DEF StartEvidence, Ordered, LaunchAfterRecord, LaunchIsJournaled, OneLaunch
  <2>4. ClosedIsDead'
    BY <1>3 DEF StartEvidence, Ordered, ClosedIsDead
  <2>5. RevokedAndOver'
    BY <1>3 DEF StartEvidence, TasksTyped, Ordered, RevokedAndOver, EvidTasks, NoEvid
  <2>6. KilledBeforeComplete'
    BY <1>3 DEF StartEvidence, Ordered, KilledBeforeComplete
  <2> QED BY <2>1, <2>2, <2>3, <2>4, <2>5, <2>6 DEF Ordered
<1>4. CASE Acknowledge
  <2>1. TasksTyped'
    BY <1>4 DEF Acknowledge, TasksTyped
  <2>2. TypeJournal'
    BY <1>4 DEF Acknowledge, TypeJournal
  <2>3. LaunchAfterRecord'
    BY <1>4 DEF Acknowledge, Ordered, LaunchAfterRecord, LaunchIsJournaled, OneLaunch
  <2>4. ClosedIsDead'
    BY <1>4 DEF Acknowledge, Ordered, ClosedIsDead
  <2>5. RevokedAndOver'
    BY <1>4 DEF Acknowledge, Ordered, RevokedAndOver
  <2>6. KilledBeforeComplete'
    BY <1>4 DEF Acknowledge, Ordered, KilledBeforeComplete
  <2> QED BY <2>1, <2>2, <2>3, <2>4, <2>5, <2>6 DEF Ordered
<1>5. CASE DaemonRestarts
  <2>1. TasksTyped'
    BY <1>5, Blank, OpenUpdates, CloseUpdates, EvidUpdates, Zenon DEF DaemonRestarts,
         TypeJournal, TasksTyped, OpenSteps, CloseSteps, EvidSteps, Unspawned
  <2>2. TypeJournal'
    <3> PICK survives \in BOOLEAN : Restart(host, survives)
      BY <1>5 DEF DaemonRestarts
    <3>1. daemon' \in 1 .. MaxDaemon
      BY DEF TypeJournal
    <3>2. revoked' \in BOOLEAN /\ browser' \in BOOLEAN
      BY DEF TypeJournal
    <3> QED BY <3>1, <3>2 DEF TypeJournal
  <2>3. LaunchAfterRecord'
    BY <1>5 DEF DaemonRestarts, TasksTyped, TypeJournal, Ordered, LaunchAfterRecord,
         LaunchIsJournaled, OneLaunch, ClosedIsDead, Unspawned, OpenTasks, NoOpen
  <2>4. ClosedIsDead'
    BY <1>5 DEF DaemonRestarts, TasksTyped, TypeJournal, Ordered, ClosedIsDead,
         LaunchAfterRecord, LaunchIsJournaled, RevokedAndOver, KilledBeforeComplete,
         Unspawned, OpenTasks, NoOpen
  <2>5. RevokedAndOver'
    BY <1>5 DEF DaemonRestarts, TasksTyped, Ordered, RevokedAndOver, OpenTasks,
         CloseTasks, EvidTasks, NoOpen, NoClose, NoEvid
  <2>6. KilledBeforeComplete'
    BY <1>5 DEF DaemonRestarts, TasksTyped, TypeJournal, Ordered,
         KilledBeforeComplete, RevokedAndOver, ClosedIsDead, OpenTasks, CloseTasks,
         NoOpen, NoClose
  <2> QED BY <2>1, <2>2, <2>3, <2>4, <2>5, <2>6 DEF Ordered
<1>6. CASE HostReboots
  <2>1. TasksTyped'
    BY <1>6, Blank, OpenUpdates, CloseUpdates, EvidUpdates, Zenon DEF HostReboots,
         TypeJournal, TasksTyped, OpenSteps, CloseSteps, EvidSteps, Unspawned
  <2>2. TypeJournal'
    <3>1. Restart(host + 1, FALSE) /\ host < MaxHost
      BY <1>6 DEF HostReboots
    <3>2. host' \in 1 .. MaxHost /\ daemon' \in 1 .. MaxDaemon
      BY <3>1 DEF TypeJournal
    <3>3. {revoked', live', fresh', browser'} \subseteq BOOLEAN
      BY <3>1 DEF TypeJournal
    <3> QED BY <3>1, <3>2, <3>3 DEF TypeJournal
  <2>3. LaunchAfterRecord'
    BY <1>6 DEF HostReboots, TasksTyped, TypeJournal, Ordered, LaunchAfterRecord,
         LaunchIsJournaled, OneLaunch, ClosedIsDead, Unspawned, OpenTasks, NoOpen
  <2>4. ClosedIsDead'
    BY <1>6 DEF HostReboots, TasksTyped, TypeJournal, Ordered, ClosedIsDead,
         LaunchAfterRecord, LaunchIsJournaled, RevokedAndOver, KilledBeforeComplete,
         Unspawned, OpenTasks, NoOpen
  <2>5. RevokedAndOver'
    BY <1>6 DEF HostReboots, TasksTyped, Ordered, RevokedAndOver, OpenTasks,
         CloseTasks, EvidTasks, NoOpen, NoClose, NoEvid
  <2>6. KilledBeforeComplete'
    BY <1>6 DEF HostReboots, TasksTyped, TypeJournal, Ordered, KilledBeforeComplete,
         RevokedAndOver, ClosedIsDead, OpenTasks, CloseTasks, NoOpen, NoClose
  <2> QED BY <2>1, <2>2, <2>3, <2>4, <2>5, <2>6 DEF Ordered
<1>7. CASE UNCHANGED journalVars
  <2>1. TasksTyped'
    BY <1>7 DEF TasksTyped
  <2>2. TypeJournal'
    BY <1>7 DEF TypeJournal
  <2>3. LaunchAfterRecord'
    BY <1>7 DEF Ordered, LaunchAfterRecord, LaunchIsJournaled, OneLaunch
  <2>4. ClosedIsDead'
    BY <1>7 DEF Ordered, ClosedIsDead
  <2>5. RevokedAndOver'
    BY <1>7 DEF Ordered, RevokedAndOver
  <2>6. KilledBeforeComplete'
    BY <1>7 DEF Ordered, KilledBeforeComplete
  <2> QED BY <2>1, <2>2, <2>3, <2>4, <2>5, <2>6 DEF Ordered
<1> QED BY <1>1, <1>2, <1>3, <1>4, <1>5, <1>6, <1>7

(* The journal's shape, the order of a launch and its record, and a closed
   record's truth hold in every reachable state. *)
THEOREM JournalInvariant == SpecJournal => []JournalInv
<1>1. InitJournal => JournalInv
  <2> SUFFICES ASSUME InitJournal PROVE JournalInv
    OBVIOUS
  <2>1. TypeJournal
    <3>1. rec \in Records /\ rec.closed = "none"
      BY Blank DEF InitJournal, NoRecord
    <3>2. host \in 1 .. MaxHost /\ daemon \in 1 .. MaxDaemon /\ launches \in 0 .. MaxDaemon
      BY Bounds DEF InitJournal
    <3> QED BY <3>1, <3>2 DEF InitJournal, TypeJournal, Records
  <2>2. TasksTyped
    BY Blank DEF InitJournal, TasksTyped
  <2>3. Ordered
    BY DEF InitJournal, Ordered, LaunchAfterRecord, ClosedIsDead, RevokedAndOver,
           KilledBeforeComplete, LaunchIsJournaled, OneLaunch, HasLaunch, Unspawned,
           NoRecord, NoOpen, NoClose, NoEvid
  <2> QED BY <2>1, <2>2, <2>3 DEF JournalInv
<1>2. JournalInv /\ [NextJournal]_journalVars => JournalInv'
  BY OpenKeeps, CloseKeeps, EvidenceKeeps, StartsKeep DEF NextJournal
<1> QED BY <1>1, <1>2, PTL DEF SpecJournal

(* A browser process that may be alive is under a launch record of its host, and
   a session starts at most one, however often its daemon stops and however
   session.open is retried. *)
THEOREM LaunchesKnown == SpecJournal => []LaunchesAreKnown
<1>1. JournalInv => LaunchesAreKnown
  BY DEF JournalInv, Ordered, LaunchAfterRecord, LaunchesAreKnown
<1> QED BY <1>1, JournalInvariant, PTL

(* Evidence of a closure is true from the moment it is issued: no process of
   the session is alive or appears later, and a launch attested as prevented
   never happened. *)
THEOREM EvidenceTrue == SpecJournal => []EvidenceIsTrue
<1>1. JournalInv => EvidenceIsTrue
  BY DEF JournalInv, TypeJournal, Ordered, ClosedIsDead, EvidenceIsTrue, AttestedIsDead,
         PreventedNeverRan, Methods
<1> QED BY <1>1, JournalInvariant, PTL
=============================================================================
