-------------------------- MODULE SessionAuthority --------------------------
(***************************************************************************)
(* Who may drive one browser: the control plane's side of session          *)
(* authority, composed with the Runtime's (RuntimePermits).                *)
(*                                                                         *)
(* The control plane keeps the session row (status, lease, control         *)
(* generation, owner epoch, human-control TTL) and the row of the task     *)
(* that owns it (status, fencing token, lease).  It snapshots a permit     *)
(* from the rows (session-permit.ts) for every heartbeat acknowledgement,  *)
(* reconnect and command, and the snapshot travels while the rows move on. *)
(* One session and its one task are modelled: sessions share nothing here. *)
(***************************************************************************)
EXTENDS RuntimePermits

CONSTANTS Session, Task,
          Settings,       \* the settings and bounds a behaviour may have
          HumanTTL,       \* TTL of a takeover, and of an intervention
          ResumeBudget,   \* run budget granted when an intervention is resolved
          StartupWindow,  \* first executionPermitExpiresAt
          MaxFlight       \* bound: messages travelling at once

ASSUME AuthorityParameters ==
    /\ Sessions = {Session} /\ Tasks = {Task} /\ Leases = {LeaseOf[Session]}
    /\ {HumanTTL, StartupWindow, ResumeBudget, MaxFlight} \subseteq Nat \ {0}
    /\ \A s \in Settings :
          /\ {s.sessionLease, s.taskLease} \subseteq Nat \ {0}
          /\ {s.horizon, s.claims, s.controls} \subseteq Nat
          /\ \A d \in {s.sessionLease, s.taskLease, HumanTTL, StartupWindow, ResumeBudget} :
                s.horizon + d <= MaxTime + 1

VARIABLES
    row,     \* the BrowserRuntimeSession row
    task,    \* the AgentRuntimeTask row
    human,   \* the console's takeover or release call in progress
    checked, \* agent commands past the runner's check, before dispatch
    flight,  \* messages between control plane and Runtime
    hbSeen   \* lastAcceptedHeartbeatAt

control == <<row, task, human, checked>>
runtime == <<now, skew, connected, table, manager>>
avars == <<runtime, control, flight, hbSeen>>

SessionLease == row.setting.sessionLease  \* RUNTIME_LEASE_SECONDS
TaskLease == row.setting.taskLease        \* the agent task's lease
Horizon == row.setting.horizon            \* bound: no grant is made from this instant on
MaxFence == row.setting.claims            \* bound: claims of the task
MaxGen == row.setting.controls            \* bound: takeovers, releases, rollbacks
Reconnects == row.setting.reconnects      \* whether the connection may be lost

Open == {"OPENING", "ACTIVE", "HUMAN_CONTROL"}

None == [kind |-> "NONE"]

InitAuthority ==
    /\ Init
    /\ \E s \in Settings :
          row = [status |-> "OPENING", quarantined |-> FALSE, lease |-> s.sessionLease,
                 gen |-> 0, owner |-> 0, permitExp |-> StartupWindow, humanExp |-> 0, setting |-> s]
    /\ task = [status |-> "PENDING", fence |-> 0, lease |-> 0, resume |-> FALSE,
               humanExp |-> 0, recovery |-> "NONE"]
    /\ human = "IDLE"
    /\ checked = {}
    /\ flight = {}
    /\ hbSeen = -1

-----------------------------------------------------------------------------
Earlier(a, b) == IF a <= b THEN a ELSE b

(* A permit of the given kind for the session's owner, until the instant e. *)
PermitUntil(kind, e) ==
    [kind |-> kind, lease |-> LeaseOf[Session],
     task |-> IF row.owner = 0 THEN NoTask ELSE Task,
     fence |-> row.owner, gen |-> row.gen, expiresAt |-> e]

(* Mutant: an agent's permit is bounded by the session lease alone. *)
PermitIgnoringTaskLease(lease) ==
    IF row.quarantined \/ row.status \notin Open THEN None
    ELSE IF row.owner = 0
    THEN IF row.permitExp <= now THEN None ELSE PermitUntil("STARTUP", row.permitExp)
    ELSE IF task.status = "RUNNING" /\ task.fence = row.owner /\ task.lease > now
    THEN PermitUntil("AGENT", lease)
    ELSE None

(* sessionExecutionPermit: what the rows grant when the session lease runs
   until `lease', or None. *)
PermitOf(lease) ==
    IF row.quarantined \/ row.status \notin Open THEN None
    ELSE IF row.status = "HUMAN_CONTROL"
    THEN IF row.humanExp <= now THEN None ELSE PermitUntil("HUMAN", Earlier(lease, row.humanExp))
    ELSE IF row.owner = 0
    THEN IF row.permitExp <= now \/ lease <= now THEN None
         ELSE PermitUntil("STARTUP", Earlier(lease, row.permitExp))
    ELSE IF task.status = "WAITING_HUMAN"
    THEN IF task.humanExp <= now THEN None ELSE PermitUntil("HUMAN", Earlier(lease, task.humanExp))
    ELSE IF task.status = "PENDING" /\ task.resume /\ row.permitExp > now
    THEN PermitUntil("HUMAN", Earlier(lease, row.permitExp))
    ELSE IF task.status = "RUNNING" /\ task.fence = row.owner /\ task.lease > now
    THEN PermitUntil("AGENT", Earlier(lease, task.lease))
    ELSE None

(* quarantineSession: nothing is granted any more, resources stay reserved. *)
Quarantined(r) ==
    [r EXCEPT !.status = "LOST", !.quarantined = TRUE, !.permitExp = now, !.humanExp = 0]

Room == Cardinality(flight) < MaxFlight
Granting == now < Horizon

(* renewSession: the row and the permit it would produce at this instant. *)
Renewable ==
    /\ row.status \in Open /\ ~row.quarantined /\ row.lease > now
    /\ PermitOf(now + SessionLease) # None

RenewSession ==
    row' = IF row.status \notin Open THEN row
           ELSE IF Renewable
           THEN [row EXCEPT !.lease = now + SessionLease,
                            !.permitExp = PermitOf(now + SessionLease).expiresAt]
           ELSE Quarantined(row)

Renewed == IF Renewable THEN PermitOf(now + SessionLease) ELSE None

-----------------------------------------------------------------------------
(* Runtime heartbeats and reconnection. *)

(* reconcile travels with the accepted hello, and handleMessage makes every
   other message wait until it has been applied. *)
Handshaking == \E m \in flight : m.type = "reconcile"

(* The interval timer, started once the handshake has been applied: no two
   heartbeats of a connection are sent at one instant. *)
SendHeartbeat ==
    /\ connected /\ Held(Session) /\ ~Handshaking /\ Room
    /\ hbSeen < now
    /\ \A m \in flight : m.type \in {"heartbeat", "ack"} => m.sentAt < now
    /\ flight' = flight \cup {[type |-> "heartbeat", sentAt |-> now]}
    /\ UNCHANGED <<runtime, control, hbSeen>>

(* The gateway handles a socket's messages through a promise queue, in the
   order in which they were sent. *)
NextInQueue(m) == \A x \in flight : x.type = "heartbeat" => m.sentAt <= x.sentAt

(* handleHeartbeat: renew, then acknowledge with the renewed permit or an
   order to close. *)
HandleHeartbeat(m) ==
    /\ m.type = "heartbeat" /\ NextInQueue(m) /\ Granting
    /\ RenewSession
    /\ flight' = (flight \ {m}) \cup
         {[type |-> "ack", sentAt |-> m.sentAt, serverTime |-> now, permit |-> Renewed]}
    /\ UNCHANGED <<runtime, task, human, checked, hbSeen>>

(* Mutant: the round trip is left out of the estimate of the server's time. *)
ReceiveAckWithoutRoundTrip(m) ==
    /\ m.type = "ack" /\ connected
    /\ flight' = flight \ {m}
    /\ hbSeen' = m.sentAt
    /\ IF m.permit # None THEN HeartbeatAck(Session, m.permit, m.serverTime)
       ELSE UNCHANGED runtime
    /\ UNCHANGED control

(* runtime.heartbeat.ack: an acknowledgement overtaken by a later heartbeat's
   is dropped; the estimate adds the whole round trip to the server's time. *)
ReceiveAck(m) ==
    /\ m.type = "ack" /\ connected
    /\ flight' = flight \ {m}
    /\ IF m.sentAt <= hbSeen THEN UNCHANGED <<runtime, hbSeen>>
       ELSE /\ hbSeen' = m.sentAt
            /\ IF m.permit # None
               THEN HeartbeatAck(Session, m.permit, m.serverTime + (now - m.sentAt))
               ELSE /\ Revoke(Session)
                    /\ skew' = m.serverTime - m.sentAt
                    /\ UNCHANGED <<now, connected, manager>>
    /\ UNCHANGED control

(* The socket closes: what travelled on it is lost. *)
ConnectionLost ==
    /\ Reconnects
    /\ Disconnect
    /\ flight' = {}
    /\ hbSeen' = -1
    /\ UNCHANGED control

SendHello ==
    /\ ~connected /\ flight = {} /\ Granting
    /\ flight' = {[type |-> "hello", sentAt |-> now]}
    /\ UNCHANGED <<runtime, control, hbSeen>>

(* reconcile: a live session is renewed and adopted, or closed. *)
HandleHello(m) ==
    /\ m.type = "hello" /\ Granting
    /\ IF Held(Session) THEN RenewSession ELSE UNCHANGED row
    /\ flight' = {[type |-> "accepted", sentAt |-> m.sentAt, serverTime |-> now,
                   listed |-> Held(Session), permit |-> Renewed]}
    /\ UNCHANGED <<runtime, task, human, checked, hbSeen>>

ReceiveAccepted(m) ==
    /\ m.type = "accepted" /\ ~connected
    /\ Hello(m.serverTime + (now - m.sentAt))
    /\ flight' = IF m.listed THEN {[type |-> "reconcile", permit |-> m.permit]} ELSE {}
    /\ UNCHANGED <<control, hbSeen>>

ReceiveReconcile(m) ==
    /\ m.type = "reconcile" /\ connected
    /\ flight' = flight \ {m}
    /\ IF ~Held(Session) THEN UNCHANGED runtime
       ELSE IF m.permit = None THEN CloseStarted(Session)
       ELSE Adopt(Session, m.permit)
    /\ UNCHANGED <<control, hbSeen>>

-----------------------------------------------------------------------------
(* Commands.  RuntimeCommandDispatcher.execute reads the row, takes a permit
   from it and sends; it refuses nothing on account of HUMAN_CONTROL. *)
Dispatchable == row.status \in Open /\ row.lease > now /\ PermitOf(row.lease) # None

Send(by, op, fence) ==
    LET p == PermitOf(row.lease) IN
    flight' = flight \cup
      {[type |-> "command", by |-> by, op |-> op, permit |-> p,
        owner |-> [kind |-> p.kind, gen |-> p.gen,
                   task |-> IF fence = 0 THEN p.task ELSE Task,
                   fence |-> IF fence = 0 THEN p.fence ELSE fence]]}

DispatchOpen ==
    /\ row.status = "OPENING" /\ Dispatchable /\ Room /\ Granting
    /\ live[Session] = "ABSENT" /\ flight = {}  \* one open command per session
    /\ Send("SYSTEM", "open", 0)
    /\ UNCHANGED <<runtime, control, hbSeen>>

(* activateOpenedSession once the open command has succeeded. *)
Activate ==
    /\ row.status = "OPENING" /\ ~row.quarantined /\ row.lease > now
    /\ live[Session] = "OPEN" /\ Granting
    /\ row' = [row EXCEPT !.status = "ACTIVE", !.lease = now + SessionLease,
                          !.permitExp = now + SessionLease]
    /\ UNCHANGED <<runtime, task, human, checked, flight, hbSeen>>

(* executeForExecutionRun: the agent's command passes only while the session
   is ACTIVE and the agent owns it ... *)
AgentCommandChecked ==
    /\ row.status = "ACTIVE" /\ task.status = "RUNNING" /\ task.lease > now
    /\ row.owner = task.fence /\ row.permitExp > now
    /\ checked' = checked \cup {task.fence}
    /\ UNCHANGED <<runtime, row, task, human, flight, hbSeen>>

(* ... but the dispatcher reads the session again, and only requireOwner and
   the permit stand between the two reads. *)
AgentCommandDispatched(f) ==
    /\ f \in checked /\ Room
    /\ checked' = checked \ {f}
    /\ IF /\ Dispatchable
          /\ task.status = "RUNNING" /\ task.lease > now
          /\ task.fence = f /\ row.owner = f
       THEN Send("AGENT", "page", f)
       ELSE UNCHANGED flight
    /\ UNCHANGED <<runtime, row, task, human, hbSeen>>

ReceiveCommand(m) ==
    /\ m.type = "command" /\ connected /\ ~Handshaking
    /\ flight' = flight \ {m}
    /\ IF m.op = "open" /\ live[Session] = "ABSENT"
       THEN IF Session \in revoked THEN UNCHANGED runtime
            ELSE OpenSession(Session, m.permit)
       ELSE IF m.op = "open" \/ ~Held(Session) THEN UNCHANGED runtime
       ELSE CommandStarted(Session, m.permit, m.owner, m.by)
    /\ UNCHANGED <<control, hbSeen>>

-----------------------------------------------------------------------------
(* The owning task. *)

Claim ==
    /\ task.status = "PENDING" /\ task.fence < MaxFence /\ Granting
    /\ row.status = "ACTIVE" /\ ~row.quarantined
    /\ row.lease > now /\ row.permitExp > now
    /\ row.owner \in {0, task.fence}
    /\ task' = [task EXCEPT !.status = "RUNNING", !.fence = @ + 1,
                            !.lease = now + TaskLease]
    /\ row' = [row EXCEPT !.owner = task.fence + 1, !.permitExp = now + TaskLease]
    /\ UNCHANGED <<runtime, human, checked, flight, hbSeen>>

AgentHeartbeat ==
    /\ task.status = "RUNNING" /\ task.lease > now /\ Granting
    /\ task.lease < now + TaskLease
    /\ task' = [task EXCEPT !.lease = now + TaskLease]
    /\ row' = IF row.status = "ACTIVE" /\ ~row.quarantined /\ row.owner = task.fence
              THEN [row EXCEPT !.permitExp = now + TaskLease] ELSE row
    /\ UNCHANGED <<runtime, human, checked, flight, hbSeen>>

(* submitOutcome of WAITING_HUMAN: the task's lease is dropped and the
   session's lease becomes the intervention's expiry. *)
RequestHuman ==
    /\ task.status = "RUNNING" /\ task.lease > now /\ Granting
    /\ task' = [task EXCEPT !.status = "WAITING_HUMAN", !.lease = 0,
                            !.humanExp = now + HumanTTL]
    /\ row' = IF row.status \in Open THEN [row EXCEPT !.lease = now + HumanTTL] ELSE row
    /\ UNCHANGED <<runtime, human, checked, flight, hbSeen>>

(* The intervention is resolved: the task waits for a new executor epoch and
   a session that is still usable gets a handoff window. *)
ResolveHuman ==
    /\ task.status = "WAITING_HUMAN" /\ task.humanExp > now /\ Granting
    /\ task' = [task EXCEPT !.status = "PENDING", !.resume = TRUE, !.humanExp = 0]
    /\ row' = IF /\ row.status = "ACTIVE" /\ ~row.quarantined
                 /\ row.owner = task.fence /\ row.lease > now
              THEN [row EXCEPT !.lease = now + ResumeBudget,
                      !.permitExp = now + Earlier(ResumeBudget, StartupWindow)]
              ELSE row
    /\ UNCHANGED <<runtime, human, checked, flight, hbSeen>>

(* unclaimableHumanResume: the browser kept for the human is gone, or is in
   other hands. *)
UnclaimableHumanResume ==
    /\ task.status = "PENDING" /\ task.resume
    /\ \/ row.status # "ACTIVE" \/ row.quarantined
       \/ row.lease <= now \/ row.permitExp <= now

(* Mutant: the expired task stays claimed, and is recovered time and again. *)
RecoverWithoutFailing ==
    /\ task.status = "RUNNING" /\ task.lease <= now
    /\ task' = [task EXCEPT !.fence = @ + 1]
    /\ UNCHANGED <<runtime, row, human, checked, flight, hbSeen>>

(* recoverExpiredLeases, first phase: fail the task, move its fence on and
   quarantine the session it owned. *)
RecoverExpiredLease ==
    /\ \/ task.status = "RUNNING" /\ task.lease <= now
       \/ UnclaimableHumanResume
    /\ task' = [task EXCEPT !.status = "FAILED", !.fence = @ + 1, !.lease = 0,
                            !.recovery = IF task.status = "PENDING"
                                         THEN "HITL_CLOSING" ELSE "PENDING"]
    /\ row' = IF row.owner = task.fence
              THEN [row EXCEPT !.quarantined = TRUE, !.permitExp = now] ELSE row
    /\ UNCHANGED <<runtime, human, checked, flight, hbSeen>>

-----------------------------------------------------------------------------
(* Console takeover and release (runtime-sessions.service.ts), and the lease
   sweeper. *)

Takeover ==
    /\ human = "IDLE" /\ row.status = "ACTIVE" /\ row.lease > now
    /\ row.gen < MaxGen /\ Granting
    /\ row' = [row EXCEPT !.status = "HUMAN_CONTROL", !.gen = @ + 1,
                          !.humanExp = now + HumanTTL]
    /\ human' = "TAKING"
    /\ UNCHANGED <<runtime, task, checked, flight, hbSeen>>

(* The human.takeover command; when no permit can be had execute throws and
   the row keeps HUMAN_CONTROL until its TTL is swept. *)
TakeoverDispatched ==
    /\ human = "TAKING" /\ Room
    /\ IF Dispatchable THEN human' = "TAKEN" /\ Send("HUMAN", "takeover", 0)
       ELSE human' = "IDLE" /\ UNCHANGED flight
    /\ UNCHANGED <<runtime, row, task, checked, hbSeen>>

TakeoverAnswered ==
    /\ human = "TAKEN"
    /\ \/ live[Session] = "HUMAN_CONTROL" /\ human' = "HOLDING" /\ UNCHANGED row
       \/ \* rejected or timed out: roll back if the generation is still ours
          /\ row.gen < MaxGen
          /\ human' = "IDLE"
          /\ row' = IF row.status = "HUMAN_CONTROL"
                    THEN [row EXCEPT !.status = "ACTIVE", !.gen = @ + 1, !.humanExp = 0]
                    ELSE row
    /\ UNCHANGED <<runtime, task, checked, flight, hbSeen>>

ReleaseDispatched ==
    /\ human = "HOLDING" /\ Room
    /\ IF row.status = "HUMAN_CONTROL" /\ Dispatchable
       THEN human' = "RELEASING" /\ Send("HUMAN", "release", 0)
       ELSE human' = "IDLE" /\ UNCHANGED flight
    /\ UNCHANGED <<runtime, row, task, checked, hbSeen>>

ReleaseAnswered ==
    /\ human = "RELEASING"
    /\ \/ \* the command succeeded: hand back under a new generation
          /\ live[Session] = "OPEN" /\ row.gen < MaxGen
          /\ human' = "IDLE"
          /\ row' = IF row.status = "HUMAN_CONTROL"
                    THEN [row EXCEPT !.status = "ACTIVE", !.gen = @ + 1, !.humanExp = 0,
                            !.permitExp = IF row.owner = 0
                                          THEN Earlier(row.lease, now + StartupWindow) ELSE @]
                    ELSE row
       \/ human' = "HOLDING" /\ UNCHANGED row
    /\ UNCHANGED <<runtime, task, checked, flight, hbSeen>>

(* RuntimeLeaseSweeper.sweep: expired session leases and control TTLs. *)
SweepSession ==
    /\ row.status \in Open
    /\ \/ row.lease <= now /\ row' = Quarantined(row)
       \/ /\ row.status = "HUMAN_CONTROL" /\ row.humanExp <= now /\ row.lease > now
          /\ row' = [Quarantined(row) EXCEPT !.gen = @ + 1]
    /\ UNCHANGED <<runtime, task, human, checked, flight, hbSeen>>

-----------------------------------------------------------------------------
RuntimeStep ==
    /\ \/ Tick
       \/ OpenFinished(Session) \/ Watchdog(Session) \/ CloseFinished(Session)
       \/ \E c \in running[Session] : CommandFinished(Session, c)
    /\ UNCHANGED <<control, flight, hbSeen>>

NextAuthority ==
    \/ RuntimeStep \/ ConnectionLost
    \/ SendHeartbeat \/ SendHello
    \/ \E m \in flight : \/ HandleHeartbeat(m) \/ ReceiveAck(m) \/ HandleHello(m)
                         \/ ReceiveAccepted(m) \/ ReceiveReconcile(m)
                         \/ ReceiveCommand(m)
    \/ DispatchOpen \/ Activate
    \/ AgentCommandChecked \/ \E f \in checked : AgentCommandDispatched(f)
    \/ Claim \/ AgentHeartbeat \/ RequestHuman \/ ResolveHuman \/ RecoverExpiredLease
    \/ Takeover \/ TakeoverDispatched \/ TakeoverAnswered
    \/ ReleaseDispatched \/ ReleaseAnswered \/ SweepSession

SpecAuthority == InitAuthority /\ [][NextAuthority]_avars

-----------------------------------------------------------------------------
(* Type invariant of the rows, the calls in progress and the messages. *)
TypeAuthority ==
    /\ TypeOK
    /\ row.status \in Open \cup {"LOST"}
    /\ row.lease \in Nat /\ row.gen \in 0..(MaxGen + 1) /\ row.owner \in 0..MaxFence
    /\ task.status \in {"PENDING", "RUNNING", "WAITING_HUMAN", "FAILED"}
    /\ task.fence \in 0..(MaxFence + 1)
    /\ human \in {"IDLE", "TAKING", "TAKEN", "HOLDING", "RELEASING"}
    /\ checked \subseteq 1..MaxFence
    /\ Cardinality(flight) <= MaxFlight

(* Once the control plane has declared an executor's lease lost and may hand
   its work to another, no Runtime forwards a byte for that executor and no
   command of it is reported as done, however late its permits travelled. *)
LostExecutorIsSilent ==
    task.recovery = "PENDING" =>
        /\ ~(permit[Session].kind = "AGENT" /\ Forwards(Session))
        /\ \A c \in running[Session] : c.owner.kind = "AGENT" => ~Reported(Session, c)

(* The rows have their shape, and the Runtime never believes in more authority
   than the control plane has ever granted: no executor epoch, generation or
   deadline of its own. *)
AuthorityWasGranted ==
    /\ TypeAuthority
    /\ permit[Session] # NoPermit =>
          /\ permit[Session].fence <= row.owner
          /\ permit[Session].gen <= row.gen
          /\ skew >= 0
          /\ deadline[Session] <= permit[Session].expiresAt

(* "Resuming after human control requires a new executor epoch": an agent
   command that is reported as done ran with nobody else, human or newer
   executor, admitted to the browser between its two checks. *)
SoleAuthority ==
    \A c \in running[Session] :
        c.owner.kind = "AGENT" /\ Reported(Session, c) => c.sole

(* "Execution is paused while a human controls the browser": no agent command
   counts while the Runtime obeys a human. *)
PausedUnderHumanControl ==
    \A c \in running[Session] :
        c.by = "AGENT" /\ Reported(Session, c) => permit[Session].kind # "HUMAN"

(* "Missing Agent heartbeats during intentional human control must not trigger
   an automatic browser restart": within its TTL and the session lease a
   takeover is not quarantined. *)
HumanControlOutlivesAgent ==
    [][row.status = "HUMAN_CONTROL" /\ row.humanExp > now /\ row.lease > now
         => row'.quarantined = row.quarantined]_avars
=============================================================================
