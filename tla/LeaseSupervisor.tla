-------------------------- MODULE LeaseSupervisor --------------------------
(***************************************************************************)
(* The worker's side of a task lease: LeaseSupervisor of the Agent Runtime *)
(* (one renewal in flight, a local deadline short of the confirmed lease)  *)
(* against the lease column of the control plane's task row.               *)
(*                                                                         *)
(* Requests and answers take any time and may be lost; a request that the  *)
(* worker gave up on may still reach the control plane.  Worker and        *)
(* database measure durations alike; timers fire at most Lateness late     *)
(* (the event loop's delay).  Leases without serverTime, which only old    *)
(* control planes send, are not modelled.                                  *)
(***************************************************************************)
EXTENDS Integers

CONSTANTS Lease,     \* AGENT_RUNTIME_TASK_LEASE_SECONDS
          Safety,    \* DEVPROOF_AGENT_LEASE_SAFETY_MS
          Interval,  \* DEVPROOF_AGENT_HEARTBEAT_INTERVAL_MS
          Backoffs,  \* delays after a failed renewal
          Lateness,  \* bound: how late a timer fires
          CancelBy,  \* bound: when the run is cancelled at the latest
          MaxTime    \* bound: the clock

ASSUME SupervisorParameters ==
    /\ {Lease, Safety, Interval} \subseteq Nat \ {0}
    /\ {Lateness, CancelBy, MaxTime} \subseteq Nat
    /\ Backoffs \subseteq Nat \ {0}
    /\ Lateness < Safety

VARIABLES
    now,        \* elapsed time
    lease,      \* leaseExpiresAt of the task row
    cancelled,  \* the run was cancelled
    state,      \* LIVE while the executor may act, LOST once aborted, STOPPED
    safeUntil,  \* the worker's deadline
    timer,      \* when tick is due
    call,       \* the renewal in flight
    ghosts      \* requests the worker gave up on, not yet handled

supervisorVars == <<now, lease, cancelled, state, safeUntil, timer, call, ghosts>>

Idle == [phase |-> "IDLE", sent |-> 0, answer |-> "NONE"]

Least(a, b) == IF a < b THEN a ELSE b
Most(a, b) == IF a > b THEN a ELSE b

(* Mutant: the round trip stays part of the lease. *)
FullDuration(sent) == Lease

(* withConservativeLeaseDuration: the round trip is taken off the lease. *)
Duration(sent) == Most(0, Lease - (now - sent))

(* confirm and lose *)
SafeUntil(sent) == now + Most(0, Duration(sent) - Safety)
Confirms(sent) == Duration(sent) > Safety

(* schedule: never past the worker's own deadline *)
DueAfter(delay, safe) == now + Least(delay, Most(0, safe - now))

(* The task is claimed at time 0 or a little later and the claim is answered
   at time now. *)
Init ==
    /\ now \in 0..Lease
    /\ lease \in {Lease + at : at \in 0..now}
    /\ cancelled = FALSE
    /\ state = IF Confirms(0) THEN "LIVE" ELSE "LOST"
    /\ safeUntil = SafeUntil(0)
    /\ timer = DueAfter(Interval, SafeUntil(0))
    /\ call = Idle
    /\ ghosts = 0

-----------------------------------------------------------------------------
(* The worker. *)

(* stop aborts a renewal in flight; the control plane may still see it. *)
Abandon ==
    /\ call' = Idle
    /\ ghosts' = ghosts + (IF call.phase = "SENT" THEN 1 ELSE 0)

Lose ==
    /\ state' = "LOST"
    /\ Abandon
    /\ UNCHANGED <<now, lease, cancelled, safeUntil, timer>>

(* The expiry timer, or a tick that finds no time left. *)
Expire == state = "LIVE" /\ now >= safeUntil /\ Lose

(* tick *)
Renew ==
    /\ state = "LIVE" /\ call = Idle /\ now >= timer /\ now < safeUntil
    /\ call' = [phase |-> "SENT", sent |-> now, answer |-> "NONE"]
    /\ UNCHANGED <<now, lease, cancelled, state, safeUntil, timer, ghosts>>

(* A renewal is confirmed from the moment it was sent. *)
Renewed ==
    /\ state = "LIVE" /\ call.phase = "ANSWERED" /\ call.answer = "CONTINUE"
    /\ Confirms(call.sent)
    /\ safeUntil' = SafeUntil(call.sent)
    /\ timer' = DueAfter(Interval, SafeUntil(call.sent))
    /\ call' = Idle
    /\ UNCHANGED <<now, lease, cancelled, state, ghosts>>

(* CANCEL, a terminal error, or a confirmation that came too late. *)
Refused ==
    /\ state = "LIVE" /\ call.phase = "ANSWERED"
    /\ call.answer # "CONTINUE" \/ ~Confirms(call.sent)
    /\ Lose

(* A transient error, a lost answer, or the heartbeat timeout: the worker cannot
   tell whether the control plane has seen, or will see, the request. *)
RenewalFailed ==
    /\ state = "LIVE" /\ call.phase # "IDLE"
    /\ \E d \in Backoffs : timer' = DueAfter(d, safeUntil)
    /\ Abandon
    /\ UNCHANGED <<now, lease, cancelled, state, safeUntil>>

(* The executor is done. *)
Stop ==
    /\ state = "LIVE"
    /\ state' = "STOPPED"
    /\ Abandon
    /\ UNCHANGED <<now, lease, cancelled, safeUntil, timer>>

-----------------------------------------------------------------------------
(* The control plane. *)

(* Mutant: a cancelled run's lease is renewed. *)
AnswersCancelledToo == IF lease <= now THEN "STALE" ELSE "CONTINUE"

(* heartbeat: what it answers, and the lease it leaves. *)
Answers ==
    IF lease <= now THEN "STALE" ELSE IF cancelled THEN "CANCEL" ELSE "CONTINUE"

LeaseAfter == IF Answers = "CONTINUE" THEN now + Lease ELSE lease

Heartbeat ==
    /\ call.phase = "SENT"
    /\ call' = [call EXCEPT !.phase = "ANSWERED", !.answer = Answers]
    /\ lease' = LeaseAfter
    /\ UNCHANGED <<now, cancelled, state, safeUntil, timer, ghosts>>

(* Mutant: a late request is handled twice. *)
LateHeartbeatTwice ==
    /\ ghosts' = ghosts - 1
    /\ lease' = LeaseAfter
    /\ UNCHANGED <<now, cancelled, state, safeUntil, timer, call>>

(* A request the worker no longer waits for. *)
LateHeartbeat ==
    /\ ghosts > 0
    /\ ghosts' = ghosts - 1
    /\ lease' = LeaseAfter
    /\ UNCHANGED <<now, cancelled, state, safeUntil, timer, call>>

Cancel ==
    /\ ~cancelled /\ now <= CancelBy
    /\ cancelled' = TRUE
    /\ UNCHANGED <<now, lease, state, safeUntil, timer, call, ghosts>>

(* Time passes, but a due expiry timer waits no longer than Lateness. *)
Tick ==
    /\ now < MaxTime
    /\ state = "LIVE" => now < safeUntil + Lateness
    /\ now' = now + 1
    /\ UNCHANGED <<lease, cancelled, state, safeUntil, timer, call, ghosts>>

Next ==
    \/ Expire \/ Renew \/ Renewed \/ Refused \/ RenewalFailed \/ Stop
    \/ Heartbeat \/ LateHeartbeat \/ Cancel \/ Tick

Spec == Init /\ [][Next]_supervisorVars

(* Time passes and a due timer fires; nothing is assumed of the network. *)
FairSpec == Spec /\ WF_supervisorVars(Tick) /\ WF_supervisorVars(Expire)

-----------------------------------------------------------------------------
(* Type invariant of the supervisor and the lease it renews. *)
TypeSupervisor ==
    /\ now \in Nat /\ lease \in Nat /\ safeUntil \in Nat /\ timer \in Nat
    /\ cancelled \in BOOLEAN
    /\ state \in {"LIVE", "LOST", "STOPPED"}
    /\ call \in [phase : {"IDLE", "SENT", "ANSWERED"}, sent : Nat,
                 answer : {"NONE", "CONTINUE", "CANCEL", "STALE"}]
    /\ ghosts \in Nat

(* An executor that may still act holds an unexpired lease in the database,
   however long requests and answers took, whichever were lost or handled late
   and whenever within Lateness its timer fires: no other worker can have
   claimed the task. *)
LeaseOutlivesWork == state = "LIVE" => now < lease

(* A cancelled run's executor stops, even if no answer ever reaches it. *)
CancelStopsWork == cancelled ~> (state # "LIVE")
=============================================================================
