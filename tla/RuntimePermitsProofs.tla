------------------------ MODULE RuntimePermitsProofs ------------------------
(***************************************************************************)
(* Proofs about RuntimePermits for every set of sessions, tasks and leases *)
(* and every set of permits the environment may send.                      *)
(*                                                                         *)
(* The permit table changes in three ways only: an accepted permit is      *)
(* stored, a session is revoked, or nothing happens.  Each is shown once   *)
(* to keep TableInv and to make only a legal table step; the manager's     *)
(* actions then only have to be recognised as one of the three.            *)
(***************************************************************************)
EXTENDS RuntimePermits, TLAPS

TableType ==
    /\ permit \in [Sessions -> Permits \cup {NoPermit}]
    /\ deadline \in [Sessions -> Int]
    /\ revoked \in SUBSET Sessions
    /\ epoch \in [Sessions -> [task : Tasks \cup {NoTask}, token : Nat]]

ManagerType ==
    /\ live \in [Sessions -> LiveStates]
    /\ resume \in [Sessions -> {"OPEN", "HUMAN_CONTROL"}]
    /\ network \in [Sessions -> BOOLEAN]
    /\ running \in [Sessions -> SUBSET Commands]

ClockInv == now \in Nat /\ skew \in Nat /\ connected \in BOOLEAN

(* The local deadline of a registered permit is never later than the expiry
   the control plane wrote into it. *)
DeadlineWithinExpiry ==
    \A s \in Sessions : permit[s] # NoPermit => deadline[s] <= permit[s].expiresAt

RevokedHoldsNothing == \A s \in revoked : permit[s] = NoPermit

TableInv == TableType /\ DeadlineWithinExpiry /\ RevokedHoldsNothing

IInv == ClockInv /\ TableInv /\ ManagerType

(* What a step may do to the table. *)
LegalTableStep ==
    /\ \A s \in revoked : s \in revoked' /\ permit'[s] = NoPermit
    /\ \A s \in Sessions :
          /\ epoch[s] # NoEpoch => /\ epoch'[s].task = epoch[s].task
                                   /\ epoch'[s].token >= epoch[s].token
          /\ permit[s] # NoPermit /\ permit'[s] # NoPermit
                => permit'[s].gen >= permit[s].gen

TableStep == TableInv' /\ LegalTableStep

-----------------------------------------------------------------------------
(* A step that leaves the table alone is legal. *)
LEMMA IdleTable ==
    ASSUME TableInv, UNCHANGED table
    PROVE  TableStep
<1>1. TableInv'
  BY DEF TableInv, TableType, DeadlineWithinExpiry, RevokedHoldsNothing, table
<1>2. \A s \in Sessions : epoch[s].token \in Nat
  BY DEF TableInv, TableType
<1>3. \A s \in Sessions : permit[s] # NoPermit => permit[s].gen \in Nat
  BY DEF TableInv, TableType, Permits
<1>4. LegalTableStep
  BY <1>2, <1>3 DEF LegalTableStep, TableInv, RevokedHoldsNothing, table
<1> QED BY <1>1, <1>4 DEF TableStep

(* SessionPermits.revoke: the revoked session holds nothing afterwards. *)
LEMMA RevokeTable ==
    ASSUME TableInv, NEW s \in Sessions,
           revoked' = revoked \cup {s}, permit' = [permit EXCEPT ![s] = NoPermit],
           deadline' = [deadline EXCEPT ![s] = 0], UNCHANGED epoch
    PROVE  TableStep
<1> USE DEF TableInv
<1>1. TableType'
  BY DEF TableType
<1>2. DeadlineWithinExpiry' /\ RevokedHoldsNothing'
  BY DEF TableType, DeadlineWithinExpiry, RevokedHoldsNothing
<1>3. \A x \in Sessions : epoch[x].token \in Nat
  BY DEF TableType
<1>4. \A x \in Sessions : permit[x] # NoPermit => permit[x].gen \in Nat
  BY DEF TableType, Permits
<1>5. LegalTableStep
  BY <1>3, <1>4 DEF LegalTableStep, TableType, RevokedHoldsNothing
<1> QED BY <1>1, <1>2, <1>5 DEF TableStep

(* A permit that accept stores names no older executor and no older control
   generation than what the table holds. *)
LEMMA StoredIsNewer ==
    ASSUME NEW s, NEW p, NEW est, AcceptOutcome(s, p, est) = "stored"
    PROVE  /\ s \notin revoked
           /\ ~StaleExecutor(s, p)
           /\ Registered(s) => ~(p.gen < permit[s].gen)
           /\ ~(p.expiresAt - est <= 0)
  BY DEF AcceptOutcome, DeniedBeforeExpiry, DeniedAfterExpiry

(* Storing: with an estimate at or ahead of the control plane's clock the
   local deadline falls at or before the permit's expiry. *)
LEMMA StoreTable ==
    ASSUME TableInv, NEW s \in Sessions, NEW p \in Permits, NEW est \in Int,
           now \in Nat, est >= now,
           AcceptOutcome(s, p, est) = "stored", Store(s, p, est)
    PROVE  TableStep
<1> USE DEF TableInv
<1>1. /\ p.expiresAt \in Nat /\ p.fence \in Nat /\ p.gen \in Nat
      /\ p.task \in Tasks \cup {NoTask} /\ p # NoPermit
  BY DEF Permits, NoPermit, OwnerKinds
<1>2. now + (p.expiresAt - est) \in Int /\ now + (p.expiresAt - est) <= p.expiresAt
  BY <1>1
<1>3. [task |-> p.task, token |-> p.fence] \in [task : Tasks \cup {NoTask}, token : Nat]
  BY <1>1
<1>4. TableType'
  BY <1>2, <1>3 DEF TableType, Store
<1>5. DeadlineWithinExpiry'
  BY <1>2 DEF DeadlineWithinExpiry, TableType, Store
<1>6. RevokedHoldsNothing'
  BY StoredIsNewer DEF RevokedHoldsNothing, TableType, Store
<1>7. ASSUME NEW x \in Sessions, epoch[x] # NoEpoch
      PROVE  epoch'[x].task = epoch[x].task /\ epoch'[x].token >= epoch[x].token
  <2>1. epoch[x].token \in Nat
    BY DEF TableType
  <2>2. CASE x # s \/ p.task = NoTask
    BY <2>1, <2>2 DEF Store, TableType
  <2>3. CASE x = s /\ p.task # NoTask
    <3>1. epoch[s].task = p.task /\ ~(p.fence < epoch[s].token)
      BY <1>7, <2>3, StoredIsNewer DEF StaleExecutor
    <3>2. epoch'[s] = [task |-> p.task, token |-> p.fence]
      BY <2>3 DEF Store, TableType
    <3> QED BY <1>1, <2>1, <2>3, <3>1, <3>2
  <2> QED BY <2>2, <2>3
<1>8. ASSUME NEW x \in Sessions, permit[x] # NoPermit
      PROVE  permit'[x].gen >= permit[x].gen
  <2>1. permit[x].gen \in Nat
    BY <1>8 DEF TableType, Permits
  <2>2. CASE x # s
    BY <2>1, <2>2 DEF Store, TableType
  <2>3. CASE x = s
    <3>1. ~(p.gen < permit[s].gen)
      BY <1>8, <2>3, StoredIsNewer DEF Registered
    <3> QED BY <1>1, <2>1, <2>3, <3>1 DEF Store, TableType
  <2> QED BY <2>2, <2>3
<1>9. \A x \in revoked : x \in revoked' /\ permit'[x] = NoPermit
  BY StoredIsNewer DEF RevokedHoldsNothing, TableType, Store
<1>10. LegalTableStep
  BY <1>7, <1>8, <1>9 DEF LegalTableStep
<1> QED BY <1>4, <1>5, <1>6, <1>10 DEF TableStep

(* SessionPermits.accept is one of the three. *)
LEMMA AcceptTable ==
    ASSUME TableInv, NEW s \in Sessions, NEW p \in Permits, NEW est \in Int,
           now \in Nat, est >= now, Accept(s, p, est)
    PROVE  TableStep
<1>1. CASE AcceptOutcome(s, p, est) = "stored"
  <2>1. Store(s, p, est)
    BY <1>1 DEF Accept
  <2> QED BY <1>1, <2>1, StoreTable
<1>2. CASE AcceptOutcome(s, p, est) = "revoked"
  <2>1. Revoke(s)
    BY <1>2 DEF Accept
  <2> QED BY <2>1, RevokeTable DEF Revoke
<1>3. CASE AcceptOutcome(s, p, est) \in {"denied", "ignored"}
  <2>1. UNCHANGED table
    BY <1>3 DEF Accept
  <2> QED BY <2>1, IdleTable
<1> QED BY <1>1, <1>2, <1>3 DEF AcceptOutcome

(* interruptExpiredSession revokes. *)
LEMMA InterruptTable ==
    ASSUME TableInv, NEW s \in Sessions, Interrupt(s)
    PROVE  TableStep
  BY RevokeTable DEF Interrupt

(* assert revokes a permit it finds expired and changes nothing else. *)
LEMMA AssertTable ==
    ASSUME TableInv, NEW s \in Sessions, AssertEffect(s)
    PROVE  TableStep
<1>1. CASE Expired(s)
  BY <1>1, RevokeTable DEF AssertEffect, Revoke
<1>2. CASE ~Expired(s)
  BY <1>2, IdleTable DEF AssertEffect
<1> QED BY <1>1, <1>2

-----------------------------------------------------------------------------
(* What a step may do to a session that is already revoked. *)
LegalManagerStep ==
    \A s \in revoked : /\ live[s] = "ABSENT" => live'[s] = "ABSENT"
                       /\ network'[s] => network[s]

GoodStep == IInv' /\ TableStep /\ LegalManagerStep

(* Losing sole authority leaves a command a command. *)
LEMMA OvertakenType ==
    ASSUME NEW s \in Sessions, NEW p, NEW est, running[s] \in SUBSET Commands
    PROVE  Overtaken(s, p, est) \in SUBSET Commands
<1> SUFFICES ASSUME NEW c \in running[s]
             PROVE  [c EXCEPT !.sole = @ /\ (AcceptOutcome(s, p, est) = "stored"
                                   => SameAuthority(c.owner, p))] \in Commands
  BY DEF Overtaken
<1>1. c \in [owner : Owners, by : Sources, sole : BOOLEAN]
  BY DEF Commands
<1>2. (c.sole /\ (AcceptOutcome(s, p, est) = "stored" => SameAuthority(c.owner, p)))
        \in BOOLEAN
  OBVIOUS
<1> HIDE DEF Owners, Sources, AcceptOutcome, SameAuthority
<1> QED BY <1>1, <1>2 DEF Commands

(* acceptPermit changes the proxy only when a permit was stored, and a permit
   is never stored for a revoked session. *)
LEMMA AcceptPermitStep ==
    ASSUME TableInv, NEW s \in Sessions, NEW p \in Permits, NEW est \in Int,
           now \in Nat, est >= now, network \in [Sessions -> BOOLEAN],
           AcceptPermit(s, p, est)
    PROVE  /\ TableStep
           /\ network' \in [Sessions -> BOOLEAN]
           /\ \A x \in revoked : network'[x] => network[x]
<1>1. TableStep
  BY AcceptTable DEF AcceptPermit
<1> DEFINE B == live[s] # "INTERRUPTED" /\ Authorizes(permit'[s], deadline'[s], NoOwner, FALSE)
<1>2. B \in BOOLEAN
  OBVIOUS
<1>3. network' = IF AcceptOutcome(s, p, est) = "stored"
                 THEN [network EXCEPT ![s] = B] ELSE network
  BY DEF AcceptPermit
<1> HIDE DEF B
<1>4. network' \in [Sessions -> BOOLEAN]
  BY <1>2, <1>3
<1>5. \A x \in revoked : network'[x] => network[x]
  BY <1>3, StoredIsNewer DEF TableInv, TableType
<1> QED BY <1>1, <1>4, <1>5

(* A table step keeps the table's invariant. *)
LEMMA TableStepKeeps == TableStep => TableInv'
  BY DEF TableStep

(* The clock facts every action uses. *)
LEMMA ClockFacts ==
    ASSUME IInv
    PROVE  /\ TableInv /\ now \in Nat /\ skew \in Nat /\ connected \in BOOLEAN
           /\ now + skew \in Int /\ now + skew >= now
  BY DEF IInv, ClockInv

(* Nothing happens. *)
LEMMA IdleIsGood ==
    ASSUME IInv, UNCHANGED vars
    PROVE  GoodStep
<1> USE PermitParameters
<1>1. TableStep
  BY ClockFacts, IdleTable DEF vars
<1> QED BY TableStepKeeps, <1>1
  DEF GoodStep, IInv, ClockInv, ManagerType, LegalManagerStep, vars, manager, TableInv, TableType

(* Time passes. *)
LEMMA TickIsGood ==
    ASSUME IInv, Tick
    PROVE  GoodStep
<1> USE PermitParameters
<1>1. TableStep
  BY ClockFacts, IdleTable DEF Tick
<1> QED BY ClockFacts, TableStepKeeps, <1>1
  DEF GoodStep, IInv, ClockInv, ManagerType, LegalManagerStep, Tick, manager

(* disconnect: the sessions are interrupted, the table is kept. *)
LEMMA DisconnectIsGood ==
    ASSUME IInv, Disconnect
    PROVE  GoodStep
<1> USE PermitParameters
<1>1. TableStep
  BY ClockFacts, IdleTable DEF Disconnect
<1>2. ManagerType'
  BY DEF IInv, ManagerType, Disconnect, LiveStates, Held
<1>3. LegalManagerStep
  BY DEF IInv, ManagerType, Disconnect, LegalManagerStep, Held, TableInv, TableType
<1> QED BY ClockFacts, TableStepKeeps, <1>1, <1>2, <1>3 DEF GoodStep, IInv, ClockInv, Disconnect

(* configureProtocol: an estimate that does not lag. *)
LEMMA HelloIsGood ==
    ASSUME IInv, NEW est \in Int, est >= now, Hello(est)
    PROVE  GoodStep
<1> USE PermitParameters
<1>1. TableStep
  BY ClockFacts, IdleTable DEF Hello
<1>2. est - now \in Nat
  BY ClockFacts
<1> QED BY ClockFacts, TableStepKeeps, <1>1, <1>2
  DEF GoodStep, IInv, ClockInv, ManagerType, LegalManagerStep, Hello, manager

(* The last check of session.open. *)
LEMMA OpenFinishedIsGood ==
    ASSUME IInv, NEW s \in Sessions, OpenFinished(s)
    PROVE  GoodStep
<1> USE PermitParameters
<1>1. TableStep
  BY ClockFacts, IdleTable, RevokeTable DEF OpenFinished, Revoke
<1>2. ManagerType'
  BY DEF IInv, ManagerType, OpenFinished, LiveStates, NetworkAllowed, Assert, Authorizes
<1>3. LegalManagerStep
  <2>1. s \in revoked => ~Authorizes(permit[s], deadline[s], NoOwner, TRUE)
    BY ClockFacts DEF TableInv, RevokedHoldsNothing, Authorizes
  <2> QED BY <2>1 DEF IInv, ManagerType, OpenFinished, LegalManagerStep, TableInv, TableType
<1> QED BY ClockFacts, TableStepKeeps, <1>1, <1>2, <1>3 DEF GoodStep, IInv, ClockInv, OpenFinished

(* The lease watchdog. *)
LEMMA WatchdogIsGood ==
    ASSUME IInv, NEW s \in Sessions, Watchdog(s)
    PROVE  GoodStep
<1> USE PermitParameters
<1>1. TableStep
  BY ClockFacts, InterruptTable, RevokeTable DEF Watchdog, Revoke
<1>2. ManagerType' /\ LegalManagerStep
  BY DEF IInv, ManagerType, Watchdog, Interrupt, LegalManagerStep, TableInv, TableType
<1> QED BY ClockFacts, TableStepKeeps, <1>1, <1>2 DEF GoodStep, IInv, ClockInv, Watchdog

(* close revokes at once. *)
LEMMA CloseStartedIsGood ==
    ASSUME IInv, NEW s \in Sessions, CloseStarted(s)
    PROVE  GoodStep
<1> USE PermitParameters
<1>1. TableStep
  BY ClockFacts, RevokeTable DEF CloseStarted, Revoke
<1> QED BY ClockFacts, TableStepKeeps, <1>1
  DEF GoodStep, IInv, ClockInv, ManagerType, LegalManagerStep, CloseStarted

(* The browser of a revoked session is gone. *)
LEMMA CloseFinishedIsGood ==
    ASSUME IInv, NEW s \in Sessions, CloseFinished(s)
    PROVE  GoodStep
<1> USE PermitParameters
<1>1. TableStep
  BY ClockFacts, IdleTable DEF CloseFinished
<1>2. ManagerType' /\ LegalManagerStep
  BY DEF IInv, ManagerType, CloseFinished, LegalManagerStep, LiveStates, TableInv, TableType
<1> QED BY ClockFacts, TableStepKeeps, <1>1, <1>2 DEF GoodStep, IInv, ClockInv, CloseFinished

(* The second check of a command. *)
LEMMA CommandFinishedIsGood ==
    ASSUME IInv, NEW s \in Sessions, NEW c \in running[s], CommandFinished(s, c)
    PROVE  GoodStep
<1> USE PermitParameters
<1>1. TableStep
  BY ClockFacts, IdleTable, AssertTable DEF CommandFinished
<1>2. running[s] \ {c} \in SUBSET Commands
  BY DEF IInv, ManagerType
<1>3. ManagerType' /\ LegalManagerStep
  BY <1>2 DEF IInv, ManagerType, CommandFinished, LegalManagerStep, LiveStates, TableInv, TableType
<1> QED BY ClockFacts, TableStepKeeps, <1>1, <1>3 DEF GoodStep, IInv, ClockInv, CommandFinished

(* session.open registers its permit. *)
LEMMA OpenSessionIsGood ==
    ASSUME IInv, NEW s \in Sessions, NEW p \in Permits, OpenSession(s, p)
    PROVE  GoodStep
<1> USE PermitParameters
<1>1. TableStep
  BY ClockFacts, AcceptTable DEF OpenSession
<1>2. ManagerType' /\ LegalManagerStep
  BY DEF IInv, ManagerType, OpenSession, LegalManagerStep, LiveStates, TableInv, TableType
<1> QED BY ClockFacts, TableStepKeeps, <1>1, <1>2 DEF GoodStep, IInv, ClockInv, OpenSession

(* applyReconcile adopts or interrupts. *)
LEMMA AdoptIsGood ==
    ASSUME IInv, NEW s \in Sessions, NEW p \in Permits, Adopt(s, p)
    PROVE  GoodStep
<1> USE PermitParameters
<1>1. CASE AcceptOutcome(s, p, now + skew) \in {"stored", "ignored"}
  <2>1. TableStep
    BY ClockFacts, <1>1, AcceptTable DEF Adopt
  <2>2. Overtaken(s, p, now + skew) \in SUBSET Commands
    BY OvertakenType DEF IInv, ManagerType
  <2> DEFINE B == Authorizes(permit'[s], deadline'[s], NoOwner, FALSE)
  <2>3. B \in BOOLEAN
    BY DEF Authorizes
  <2>4. /\ network' = [network EXCEPT ![s] = B]
        /\ live' = [live EXCEPT ![s] = IF p.kind = "HUMAN" THEN "HUMAN_CONTROL" ELSE resume[s]]
        /\ running' = [running EXCEPT ![s] = Overtaken(s, p, now + skew)]
        /\ UNCHANGED <<now, skew, connected, resume>>
        /\ live[s] = "INTERRUPTED"
    BY <1>1 DEF Adopt
  <2>5. s \in revoked => ~B
    BY <2>1 DEF TableStep, LegalTableStep, Authorizes
  <2> HIDE DEF B
  <2>6. ManagerType'
    BY <2>2, <2>3, <2>4 DEF IInv, ManagerType, LiveStates
  <2>7. LegalManagerStep
    BY <2>4, <2>5 DEF IInv, ManagerType, LegalManagerStep, TableInv, TableType
  <2> QED BY ClockFacts, TableStepKeeps, <2>1, <2>4, <2>6, <2>7 DEF GoodStep, IInv, ClockInv
<1>2. CASE AcceptOutcome(s, p, now + skew) \notin {"stored", "ignored"}
  <2>1. Interrupt(s) /\ UNCHANGED <<live, running>> /\ UNCHANGED <<now, skew, connected, resume>>
    BY <1>2 DEF Adopt
  <2>2. TableStep
    BY ClockFacts, <2>1, InterruptTable
  <2>3. ManagerType' /\ LegalManagerStep
    BY <2>1 DEF IInv, ManagerType, Interrupt, LegalManagerStep, TableInv, TableType
  <2> QED BY ClockFacts, TableStepKeeps, <2>1, <2>2, <2>3 DEF GoodStep, IInv, ClockInv
<1> QED BY <1>1, <1>2

(* An acknowledgement whose estimate does not lag. *)
LEMMA HeartbeatAckIsGood ==
    ASSUME IInv, NEW s \in Sessions, NEW p \in Permits, NEW est \in Int, est >= now,
           HeartbeatAck(s, p, est)
    PROVE  GoodStep
<1> USE PermitParameters
<1>1. est \in Int /\ est >= now /\ est - now \in Nat
  BY ClockFacts
<1>2. /\ skew' = est - now
      /\ UNCHANGED <<now, connected, live, resume>>
  BY DEF HeartbeatAck
<1>3. Overtaken(s, p, est) \in SUBSET Commands
  BY OvertakenType DEF IInv, ManagerType
<1>4. running' \in [Sessions -> SUBSET Commands]
  BY <1>3 DEF HeartbeatAck, IInv, ManagerType
<1>5. /\ TableStep /\ network' \in [Sessions -> BOOLEAN]
      /\ \A x \in revoked : network'[x] => network[x]
  <2>1. CASE ~Held(s)
    BY ClockFacts, <2>1, IdleTable DEF HeartbeatAck, IInv, ManagerType
  <2>2. CASE Held(s) /\ (AcceptOutcome(s, p, est) = "revoked" \/ s \in revoked)
    <3>1. Interrupt(s)
      BY <2>2 DEF HeartbeatAck
    <3> QED BY ClockFacts, <3>1, InterruptTable DEF IInv, ManagerType, Interrupt, TableInv, TableType
  <2>3. CASE Held(s) /\ ~(AcceptOutcome(s, p, est) = "revoked" \/ s \in revoked)
    <3>1. AcceptPermit(s, p, est)
      BY <2>3 DEF HeartbeatAck
    <3> QED BY ClockFacts, <1>1, <3>1, AcceptPermitStep DEF IInv, ManagerType
  <2> QED BY <2>1, <2>2, <2>3
<1> QED BY ClockFacts, TableStepKeeps, <1>1, <1>2, <1>4, <1>5
  DEF GoodStep, IInv, ClockInv, ManagerType, LegalManagerStep

(* The first check of a command. *)
LEMMA CommandStartedIsGood ==
    ASSUME IInv, NEW s \in Sessions, NEW p \in Permits, NEW o \in Owners, NEW by \in Sources,
           CommandStarted(s, p, o, by)
    PROVE  GoodStep
<1> USE PermitParameters
<1>1. UNCHANGED <<now, skew, connected, live, resume>>
  BY DEF CommandStarted
<1>2. o \in Owners
  BY DEF OwnersWith, Owners, Permits
<1>3. Overtaken(s, p, now + skew) \in SUBSET Commands
  BY OvertakenType DEF IInv, ManagerType
<1>4. [owner |-> o, by |-> by, sole |-> TRUE] \in Commands
  BY <1>2 DEF Commands
<1>5. running' \in [Sessions -> SUBSET Commands]
  BY <1>3, <1>4 DEF CommandStarted, IInv, ManagerType
<1>6. /\ TableStep /\ network' \in [Sessions -> BOOLEAN]
      /\ \A x \in revoked : network'[x] => network[x]
  BY ClockFacts, AcceptPermitStep DEF CommandStarted, IInv, ManagerType
<1> QED BY ClockFacts, TableStepKeeps, <1>1, <1>5, <1>6
  DEF GoodStep, IInv, ClockInv, ManagerType, LegalManagerStep

(* Every step of the Runtime, with an environment that sends well-formed
   permits and an estimate that does not lag, is a good step. *)
LEMMA StepIsGood ==
    ASSUME IInv, [Next]_vars
    PROVE  GoodStep
<1> USE PermitParameters
<1>1. \A est \in Estimates : est \in Int /\ est >= now
  BY ClockFacts DEF Estimates
<1>2. \A p \in Sent : p \in Permits /\ OwnersWith(p) \subseteq Owners
  BY DEF OwnersWith, Owners, Permits
<1>3. CASE UNCHANGED vars
  BY <1>3, IdleIsGood
<1>4. CASE Tick \/ Disconnect \/ \E est \in Estimates : Hello(est)
  BY <1>1, <1>4, TickIsGood, DisconnectIsGood, HelloIsGood
<1>5. ASSUME NEW s \in Sessions,
             \/ OpenFinished(s) \/ Watchdog(s) \/ CloseStarted(s) \/ CloseFinished(s)
             \/ \E c \in running[s] : CommandFinished(s, c)
      PROVE  GoodStep
  BY <1>5, OpenFinishedIsGood, WatchdogIsGood, CloseStartedIsGood, CloseFinishedIsGood,
     CommandFinishedIsGood
<1>6. ASSUME NEW s \in Sessions, NEW p \in Sent, OpenSession(s, p) \/ Adopt(s, p)
      PROVE  GoodStep
  BY <1>2, <1>6, OpenSessionIsGood, AdoptIsGood
<1>7. ASSUME NEW s \in Sessions, NEW p \in Sent, NEW est \in Estimates, HeartbeatAck(s, p, est)
      PROVE  GoodStep
  BY <1>1, <1>2, <1>7, HeartbeatAckIsGood
<1>8. ASSUME NEW s \in Sessions, NEW p \in Sent, NEW o \in OwnersWith(p), NEW by \in Sources,
             CommandStarted(s, p, o, by)
      PROVE  GoodStep
  BY <1>2, <1>8, CommandStartedIsGood
<1> QED BY <1>3, <1>4, <1>5, <1>6, <1>7, <1>8 DEF Next

(* The inductive invariant holds initially and throughout. *)
LEMMA InitIsGood == Init => IInv
<1> USE PermitParameters
<1> SUFFICES ASSUME Init PROVE IInv
  OBVIOUS
<1>1. NoEpoch \in [task : Tasks \cup {NoTask}, token : Nat]
  BY DEF NoEpoch
<1>2. TableInv
  BY <1>1 DEF Init, TableInv, TableType, DeadlineWithinExpiry, RevokedHoldsNothing
<1>3. ManagerType /\ ClockInv
  BY DEF Init, ManagerType, ClockInv, LiveStates
<1> QED BY <1>2, <1>3 DEF IInv

LEMMA Inductive == Spec => []IInv
<1>1. IInv /\ [Next]_vars => IInv'
  BY StepIsGood DEF GoodStep
<1> QED BY <1>1, InitIsGood, PTL DEF Spec

(* Every variable of the Runtime keeps its type. *)
THEOREM TypeCorrect == Spec => []TypeOK
<1>1. IInv => TypeOK
  BY DEF IInv, ClockInv, TableInv, TableType, ManagerType, TypeOK
<1> QED BY <1>1, Inductive, PTL

(* SessionPermits, configureProtocol and acceptSessionPermits: the Runtime
   forwards no traffic and reports no command once the control plane's own
   expiry of the permit has passed. *)
THEOREM PermitExpirySafe == Spec => []NoAuthorityPastExpiry
<1>1. IInv => NoAuthorityPastExpiry
  <2> SUFFICES ASSUME IInv, NEW s \in Sessions, permit[s] # NoPermit, deadline[s] > now
               PROVE  now < permit[s].expiresAt
    BY DEF NoAuthorityPastExpiry, Forwards, NetworkAllowed, Reported, Assert, Authorizes
  <2>1. permit[s].expiresAt \in Nat /\ deadline[s] \in Int /\ now \in Nat
    BY DEF IInv, TableInv, TableType, Permits, ClockInv
  <2> QED BY <2>1 DEF IInv, TableInv, DeadlineWithinExpiry
<1> QED BY <1>1, Inductive, PTL

(* SessionPermits.revoke is final for every later delivery. *)
THEOREM RevocationFinal == Spec => RevocationIsFinal
<1>1. IInv /\ [Next]_vars =>
        [\A s \in revoked :
          /\ s \in revoked' /\ permit'[s] = NoPermit
          /\ live[s] = "ABSENT" => live'[s] = "ABSENT"
          /\ network'[s] => network[s]]_vars
  BY StepIsGood DEF GoodStep, TableStep, LegalTableStep, LegalManagerStep
<1> QED BY <1>1, Inductive, PTL DEF Spec, RevocationIsFinal

(* SessionPermits.accept: executor epochs and control generations only grow. *)
THEOREM AuthorityMonotone == Spec => AuthorityNeverRegresses
<1>1. IInv /\ [Next]_vars =>
        [\A s \in Sessions :
          /\ epoch[s] # NoEpoch => /\ epoch'[s].task = epoch[s].task
                                   /\ epoch'[s].token >= epoch[s].token
          /\ permit[s] # NoPermit /\ permit'[s] # NoPermit
                => permit'[s].gen >= permit[s].gen]_vars
  BY StepIsGood DEF GoodStep, TableStep, LegalTableStep
<1> QED BY <1>1, Inductive, PTL DEF Spec, AuthorityNeverRegresses
=============================================================================
