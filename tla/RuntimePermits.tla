--------------------------- MODULE RuntimePermits ---------------------------
(***************************************************************************)
(* The execution permits a Browser Runtime holds for its live sessions     *)
(* (apps/browser-runtime/src/session-permits.ts) and the steps of the      *)
(* session manager that feed and consult them (SessionManager in           *)
(* apps/browser-runtime/src/index.ts): heartbeat acknowledgements,         *)
(* reconnect reconciliation, commands with their check before and after,   *)
(* the 100 ms lease watchdog, disconnection and closing.                   *)
(*                                                                         *)
(* The module is open: it says nothing about which permits the control     *)
(* plane sends, in which order, or how late.  SessionAuthority closes it   *)
(* with the control plane's side.                                          *)
(*                                                                         *)
(* `now' is at once the Runtime's monotonic clock and the control plane's  *)
(* clock; what the Runtime knows of the latter is now + skew.              *)
(***************************************************************************)
EXTENDS Integers, FiniteSets

CONSTANTS Sessions,   \* browser session ids
          Tasks,      \* AgentRuntimeTask ids that may own a session
          Leases,     \* (leaseToken, fencingToken) pairs of browser leases
          LeaseOf,    \* the lease each session was opened with
          NoTask,     \* a permit or command without an owner task
          Sent,       \* the permits the open environment may send
          MaxTime,    \* bound: last instant of the clock
          MaxSkew,    \* bound: how far the clock estimate runs ahead
          MaxRunning  \* bound: commands a session executes at once

OwnerKinds == {"STARTUP", "AGENT", "HUMAN", "SYSTEM"}

(* A RuntimeSessionPermit.  An owner task and its fencing token travel
   together: session-permit.ts sets both or neither; fence 0 is "none". *)
Permits ==
    { p \in [kind : OwnerKinds, lease : Leases, task : Tasks \cup {NoTask},
             fence : Nat, gen : Nat, expiresAt : Nat] :
         /\ (p.task = NoTask) = (p.fence = 0)
         /\ p.kind = "AGENT" => p.task # NoTask }

ASSUME PermitParameters ==
    /\ LeaseOf \in [Sessions -> Leases]
    /\ NoTask \notin Tasks
    /\ Sent \subseteq Permits
    /\ MaxTime \in Nat /\ MaxSkew \in Nat /\ MaxRunning \in Nat

NoPermit == [kind |-> "NONE"]
NoEpoch == [task |-> NoTask, token |-> 0]

(* What a command says of its issuer: the ownerKind and controlGeneration of
   RuntimeCommand.permit, with the owner task and token of the command. *)
Owners == [kind : OwnerKinds, task : Tasks \cup {NoTask}, fence : Nat, gen : Nat]
NoOwner == [kind |-> "NONE"]

(* A command in execution.  Two fields are history: `by' is the command's
   source, which the Runtime never learns, and `sole' says that no other
   authority was registered since the command passed its first check. *)
Sources == {"SYSTEM", "AGENT", "HUMAN"}
Commands == [owner : Owners, by : Sources, sole : BOOLEAN]

VARIABLES
    now,        \* the clock
    skew,       \* SessionPermits.serverClock: timestamp - monotonicAt
    connected,  \* SessionPermits.connected
    permit,     \* SessionPermits.permits: the registered value
    deadline,   \* ... and its monotonic deadline
    revoked,    \* SessionPermits.revoked
    epoch,      \* SessionPermits.executorEpochs
    live,       \* LiveSession.state, or ABSENT / OPENING
    resume,     \* LiveSession.resumeState
    network,    \* networkProxy enabled
    running     \* the commands being executed

table == <<permit, deadline, revoked, epoch>>
manager == <<live, resume, network, running>>
vars == <<now, skew, connected, table, manager>>

LiveStates == {"ABSENT", "OPENING", "OPEN", "HUMAN_CONTROL", "INTERRUPTED"}

(* Type invariant of the permit table and the session manager. *)
TypeOK ==
    /\ now \in Nat
    /\ skew \in Int
    /\ connected \in BOOLEAN
    /\ permit \in [Sessions -> Permits \cup {NoPermit}]
    /\ deadline \in [Sessions -> Int]
    /\ revoked \in SUBSET Sessions
    /\ epoch \in [Sessions -> [task : Tasks \cup {NoTask}, token : Nat]]
    /\ live \in [Sessions -> LiveStates]
    /\ resume \in [Sessions -> {"OPEN", "HUMAN_CONTROL"}]
    /\ network \in [Sessions -> BOOLEAN]
    /\ running \in [Sessions -> SUBSET Commands]

Init ==
    /\ now = 0
    /\ skew = 0
    /\ connected = FALSE
    /\ permit = [s \in Sessions |-> NoPermit]
    /\ deadline = [s \in Sessions |-> 0]
    /\ revoked = {}
    /\ epoch = [s \in Sessions |-> NoEpoch]
    /\ live = [s \in Sessions |-> "ABSENT"]
    /\ resume = [s \in Sessions |-> "OPEN"]
    /\ network = [s \in Sessions |-> FALSE]
    /\ running = [s \in Sessions |-> {}]

-----------------------------------------------------------------------------
(* SessionPermits.accept: the tests in the order the code makes them. *)

Registered(s) == permit[s] # NoPermit

Expired(s) == Registered(s) /\ deadline[s] <= now

(* Mutant: the fencing tokens of one task are not compared. *)
StaleExecutorIgnoringFence(s, p) ==
    epoch[s] # NoEpoch /\ p.task # NoTask /\ epoch[s].task # p.task

(* The incoming permit names an executor older than one already admitted. *)
StaleExecutor(s, p) ==
    /\ epoch[s] # NoEpoch
    /\ p.task # NoTask
    /\ epoch[s].task # p.task \/ p.fence < epoch[s].token

(* A human gave control back: the agent needs a newer epoch or generation. *)
ResumesOldExecutor(s, p) ==
    /\ permit[s].kind = "HUMAN" /\ p.kind = "AGENT"
    /\ epoch[s] # NoEpoch
    /\ p.fence <= epoch[s].token
    /\ p.gen <= permit[s].gen

StalePermitOwner(s, p) ==
    /\ permit[s].fence # 0 /\ p.fence # 0
    /\ permit[s].task # p.task \/ p.fence < permit[s].fence

(* Mutant: the set of revoked sessions is not consulted. *)
DeniedIgnoringRevocation(s, p) == p.lease # LeaseOf[s] \/ StaleExecutor(s, p)

(* Thrown before anything changes. *)
DeniedBeforeExpiry(s, p) ==
    s \in revoked \/ p.lease # LeaseOf[s] \/ StaleExecutor(s, p)

DeniedAfterExpiry(s, p) ==
    /\ Registered(s)
    /\ \/ p.gen < permit[s].gen
       \/ ResumesOldExecutor(s, p)
       \/ permit[s].kind = "AGENT" /\ p.kind = "STARTUP"
       \/ StalePermitOwner(s, p)

SameOwner(s, p) ==
    /\ Registered(s)
    /\ permit[s].kind = p.kind /\ permit[s].task = p.task
    /\ permit[s].fence = p.fence /\ permit[s].gen = p.gen

(* An older snapshot of the authority already registered. *)
StaleSnapshot(s, p) == SameOwner(s, p) /\ p.expiresAt <= permit[s].expiresAt

(* accept's outcome when the control plane's clock is estimated as est. *)
AcceptOutcome(s, p, est) ==
    IF DeniedBeforeExpiry(s, p) THEN "denied"
    ELSE IF Expired(s) THEN "revoked"
    ELSE IF DeniedAfterExpiry(s, p) THEN "denied"
    ELSE IF StaleSnapshot(s, p) THEN "ignored"
    ELSE IF p.expiresAt - est <= 0 THEN "revoked"
    ELSE "stored"

Revoke(s) ==
    /\ revoked' = revoked \cup {s}
    /\ permit' = [permit EXCEPT ![s] = NoPermit]
    /\ deadline' = [deadline EXCEPT ![s] = 0]
    /\ UNCHANGED epoch

Store(s, p, est) ==
    /\ permit' = [permit EXCEPT ![s] = p]
    /\ deadline' = [deadline EXCEPT ![s] = now + (p.expiresAt - est)]
    /\ epoch' = IF p.task = NoTask THEN epoch
                ELSE [epoch EXCEPT ![s] = [task |-> p.task, token |-> p.fence]]
    /\ UNCHANGED revoked

Accept(s, p, est) ==
    LET out == AcceptOutcome(s, p, est) IN
    /\ out = "stored" => Store(s, p, est)
    /\ out = "revoked" => Revoke(s)
    /\ out \in {"denied", "ignored"} => UNCHANGED table

(* Mutant: an agent's control generation is not compared. *)
AuthorizesAnyGeneration(q, due, o, allowStartup) ==
    /\ q # NoPermit /\ due > now /\ connected
    /\ q.kind = "STARTUP" => allowStartup
    /\ q.kind \in {"HUMAN", "SYSTEM"} => o.kind # "AGENT"
    /\ q.kind = "AGENT" /\ o.kind # "NONE" => o.task = q.task /\ o.fence = q.fence

(* SessionPermits.assert on the permit q registered with deadline due: does
   an issuer o (kind NONE when no owner is given) hold authority?  The
   session's own lease always matches: Accept admits no other. *)
Authorizes(q, due, o, allowStartup) ==
    /\ q # NoPermit /\ due > now /\ connected
    /\ o.kind # "NONE" => o.gen = q.gen
    /\ q.kind = "STARTUP" => allowStartup
    /\ q.kind \in {"HUMAN", "SYSTEM"} => o.kind # "AGENT"
    /\ q.kind = "AGENT" /\ o.kind # "NONE" => o.task = q.task /\ o.fence = q.fence

Assert(s, o) == Authorizes(permit[s], deadline[s], o, FALSE)

(* assert also revokes a permit that it finds expired. *)
AssertEffect(s) == IF Expired(s) THEN Revoke(s) ELSE UNCHANGED table

NetworkAllowed(s) == Assert(s, NoOwner)

(* The proxy forwards a byte only while enabled and still allowed. *)
Forwards(s) == network[s] /\ NetworkAllowed(s)

-----------------------------------------------------------------------------
(* The session manager. *)

Held(s) == live[s] \in {"OPEN", "HUMAN_CONTROL", "INTERRUPTED"}

SameAuthority(o, p) ==
    o.kind = p.kind /\ o.task = p.task /\ o.fence = p.fence /\ o.gen = p.gen

(* The commands of s after accept: storing another authority's permit ends
   the sole authority of those in execution. *)
Overtaken(s, p, est) ==
    { [c EXCEPT !.sole = @ /\ (AcceptOutcome(s, p, est) = "stored"
                                   => SameAuthority(c.owner, p))] : c \in running[s] }

(* acceptPermit: a stored permit re-evaluates the session's proxy. *)
AcceptPermit(s, p, est) ==
    /\ Accept(s, p, est)
    /\ network' = IF AcceptOutcome(s, p, est) = "stored"
                  THEN [network EXCEPT ![s] = /\ live[s] # "INTERRUPTED"
                                              /\ Authorizes(permit'[s], deadline'[s], NoOwner, FALSE)]
                  ELSE network

(* interruptExpiredSession up to its first await; the close that follows is
   CloseFinished.  The permit is revoked by the same step or before it. *)
Interrupt(s) ==
    /\ revoked' = revoked \cup {s}
    /\ permit' = [permit EXCEPT ![s] = NoPermit]
    /\ deadline' = [deadline EXCEPT ![s] = 0]
    /\ network' = [network EXCEPT ![s] = FALSE]
    /\ UNCHANGED epoch

(* session.open: a closed session is never reopened. *)
OpenSession(s, p) ==
    /\ connected /\ live[s] = "ABSENT" /\ s \notin revoked
    /\ Accept(s, p, now + skew)
    /\ live' = IF AcceptOutcome(s, p, now + skew) = "stored"
               THEN [live EXCEPT ![s] = "OPENING"] ELSE live
    /\ UNCHANGED <<now, skew, connected, resume, network, running>>

(* The browser is up: the last check admits STARTUP, the proxy does not. *)
OpenFinished(s) ==
    /\ live[s] = "OPENING"
    /\ IF Authorizes(permit[s], deadline[s], NoOwner, TRUE)
       THEN /\ live' = [live EXCEPT ![s] = "OPEN"]
            /\ network' = [network EXCEPT ![s] = NetworkAllowed(s)]
            /\ UNCHANGED table
       ELSE /\ live' = [live EXCEPT ![s] = "ABSENT"]
            /\ Revoke(s)
            /\ UNCHANGED network
    /\ UNCHANGED <<now, skew, connected, resume, running>>

(* runtime.heartbeat.ack carrying a permit: the clock is resynchronised to
   the acknowledged server time plus the whole round trip. *)
HeartbeatAck(s, p, est) ==
    /\ connected
    /\ skew' = est - now
    /\ IF ~Held(s) THEN UNCHANGED <<table, network, running>>
       ELSE /\ IF AcceptOutcome(s, p, est) = "revoked" \/ s \in revoked
               THEN Interrupt(s)
               ELSE AcceptPermit(s, p, est)
            /\ running' = [running EXCEPT ![s] = Overtaken(s, p, est)]
    /\ UNCHANGED <<now, connected, live, resume>>

(* A command other than open and close: register its permit, then check its
   issuer before the browser acts. *)
CommandStarted(s, p, o, by) ==
    /\ connected /\ Held(s)
    /\ Cardinality(running[s]) < MaxRunning
    /\ AcceptPermit(s, p, now + skew)
    /\ running' = [running EXCEPT ![s] =
         Overtaken(s, p, now + skew) \cup
           IF /\ AcceptOutcome(s, p, now + skew) \in {"stored", "ignored"}
              /\ Authorizes(permit'[s], deadline'[s], o, FALSE)
           THEN {[owner |-> o, by |-> by, sole |-> TRUE]}
           ELSE {}]
    /\ UNCHANGED <<now, skew, connected, live, resume>>

(* The browser action is over: the issuer is checked again before its result
   counts.  human.takeover and human.release move the session's state
   whatever that second check says. *)
Reported(s, c) == Held(s) /\ Assert(s, c.owner)

CommandFinished(s, c) ==
    /\ c \in running[s]
    /\ running' = [running EXCEPT ![s] = @ \ {c}]
    /\ \/ UNCHANGED live
       \/ /\ live[s] = "OPEN" /\ c.owner.kind = "HUMAN"
          /\ live' = [live EXCEPT ![s] = "HUMAN_CONTROL"]
       \/ /\ live[s] = "HUMAN_CONTROL" /\ c.owner.kind = "HUMAN"
          /\ live' = [live EXCEPT ![s] = "OPEN"]
    /\ IF Held(s) THEN AssertEffect(s) ELSE UNCHANGED table
    /\ UNCHANGED <<now, skew, connected, resume, network>>

(* The 100 ms watchdog: expired permits, and sessions revoked elsewhere. *)
Watchdog(s) ==
    /\ Expired(s) \/ (s \in revoked /\ Held(s))
    /\ IF Held(s) THEN Interrupt(s)
       ELSE Revoke(s) /\ UNCHANGED network
    /\ UNCHANGED <<now, skew, connected, live, resume, running>>

(* close(): CLOSE_LOCAL, closeSessions of an acknowledgement, session.close. *)
CloseStarted(s) ==
    /\ Held(s) \/ live[s] = "OPENING"
    /\ Revoke(s)
    /\ UNCHANGED <<now, skew, connected, live, resume, network, running>>

CloseFinished(s) ==
    /\ s \in revoked /\ Held(s)
    /\ live' = [live EXCEPT ![s] = "ABSENT"]
    /\ network' = [network EXCEPT ![s] = FALSE]
    /\ UNCHANGED <<now, skew, connected, table, resume, running>>

(* Mutant: the state to resume is overwritten by a second disconnection. *)
DisconnectForgettingResume ==
    /\ connected
    /\ connected' = FALSE
    /\ network' = [s \in Sessions |-> IF Held(s) THEN FALSE ELSE network[s]]
    /\ resume' = [s \in Sessions |-> IF Held(s) THEN live[s] ELSE resume[s]]
    /\ live' = [s \in Sessions |-> IF Held(s) THEN "INTERRUPTED" ELSE live[s]]
    /\ UNCHANGED <<now, skew, table, running>>

(* The socket closed: every session stops at once and keeps its browser. *)
Disconnect ==
    /\ connected
    /\ connected' = FALSE
    /\ network' = [s \in Sessions |-> IF Held(s) THEN FALSE ELSE network[s]]
    /\ resume' = [s \in Sessions |-> IF live[s] \in {"OPEN", "HUMAN_CONTROL"}
                                     THEN live[s] ELSE resume[s]]
    /\ live' = [s \in Sessions |-> IF Held(s) THEN "INTERRUPTED" ELSE live[s]]
    /\ UNCHANGED <<now, skew, table, running>>

(* Mutant: the round trip is not added to the acknowledged server time. *)
HelloWithoutRoundTrip(est) ==
    /\ ~connected
    /\ connected' = TRUE
    /\ skew' = est - now - MaxSkew
    /\ UNCHANGED <<now, table, manager>>

(* runtime.hello.accepted: the clock first, then applyReconcile. *)
Hello(est) ==
    /\ ~connected
    /\ connected' = TRUE
    /\ skew' = est - now
    /\ UNCHANGED <<now, table, manager>>

(* applyReconcile's ADOPT of a session that survived the disconnection. *)
Adopt(s, p) ==
    /\ connected /\ live[s] = "INTERRUPTED"
    /\ IF AcceptOutcome(s, p, now + skew) \in {"stored", "ignored"}
       THEN /\ Accept(s, p, now + skew)
            /\ live' = [live EXCEPT ![s] = IF p.kind = "HUMAN"
                                           THEN "HUMAN_CONTROL" ELSE resume[s]]
            /\ network' = [network EXCEPT ![s] =
                               Authorizes(permit'[s], deadline'[s], NoOwner, FALSE)]
            /\ running' = [running EXCEPT ![s] = Overtaken(s, p, now + skew)]
       ELSE Interrupt(s) /\ UNCHANGED <<live, running>>
    /\ UNCHANGED <<now, skew, connected, resume>>

Tick ==
    /\ now < MaxTime
    /\ now' = now + 1
    /\ UNCHANGED <<skew, connected, table, manager>>

(* A command's permit gives its kind and generation; the executor it names
   is its own. *)
OwnersWith(p) ==
    { [kind |-> p.kind, task |-> q.task, fence |-> q.fence, gen |-> p.gen] : q \in Sent }

Estimates == now..(now + MaxSkew)

Next ==
    \/ Tick
    \/ Disconnect
    \/ \E est \in Estimates : Hello(est)
    \/ \E s \in Sessions :
         \/ OpenFinished(s) \/ Watchdog(s) \/ CloseStarted(s) \/ CloseFinished(s)
         \/ \E c \in running[s] : CommandFinished(s, c)
         \/ \E p \in Sent :
              \/ OpenSession(s, p)
              \/ Adopt(s, p)
              \/ \E est \in Estimates : HeartbeatAck(s, p, est)
              \/ \E o \in OwnersWith(p), by \in Sources : CommandStarted(s, p, o, by)

Spec == Init /\ [][Next]_vars

-----------------------------------------------------------------------------
(* Permit snapshots arrive late and out of order.  Once the Runtime has given
   a session up (expiry, close, failed launch) no later snapshot brings back
   its permit, its browser, its epoch's commands or its traffic. *)
RevocationIsFinal ==
    [][\A s \in revoked :
          /\ s \in revoked' /\ permit'[s] = NoPermit
          /\ live[s] = "ABSENT" => live'[s] = "ABSENT"
          /\ network'[s] => network[s]]_vars

(* Whatever the delivery order, the executor epoch of a session belongs to one
   task and never goes back, and neither does the control generation. *)
AuthorityNeverRegresses ==
    [][\A s \in Sessions :
          /\ epoch[s] # NoEpoch => /\ epoch'[s].task = epoch[s].task
                                   /\ epoch'[s].token >= epoch[s].token
          /\ permit[s] # NoPermit /\ permit'[s] # NoPermit
                => permit'[s].gen >= permit[s].gen]_vars

(* A Runtime whose clock estimate never lags the control plane forwards no
   byte, and starts or reports no command, at or after the expiry the control
   plane wrote into the permit it is using. *)
NoAuthorityPastExpiry ==
    \A s \in Sessions :
        /\ Forwards(s) => now < permit[s].expiresAt
        /\ \A c \in running[s] : Reported(s, c) => now < permit[s].expiresAt
=============================================================================
