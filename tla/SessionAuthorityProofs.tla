------------------------ MODULE SessionAuthorityProofs ------------------------
(***************************************************************************)
(* Proofs about SessionAuthority: the control plane's rows, the messages   *)
(* between it and the Runtime, and the Runtime's permit table, for every   *)
(* lease, TTL, bound and number of messages in flight.                     *)
(*                                                                         *)
(* The Runtime's own invariant (IInv) is kept because every permit that    *)
(* travels is well formed and every estimate of the server's time is ahead *)
(* of it.  On top of it AInv relates the three: what is granted, what      *)
(* travels and what is registered.  A snapshot that arrives late is        *)
(* harmless because it names an executor epoch or a control generation     *)
(* that is already behind, or because the heartbeat that carries it is     *)
(* answered in the order in which it was sent.                             *)
(***************************************************************************)
EXTENDS SessionAuthority, RuntimePermitsProofs, FiniteSetTheorems

Heartbeats == [type : {"heartbeat"}, sentAt : Nat]
Acks == [type : {"ack"}, sentAt : Nat, serverTime : Nat, permit : Permits \cup {None}]
Hellos == [type : {"hello"}, sentAt : Nat]
Accepteds == [type : {"accepted"}, sentAt : Nat, serverTime : Nat, listed : BOOLEAN,
              permit : Permits \cup {None}]
Reconciles == [type : {"reconcile"}, permit : Permits \cup {None}]
CommandMessages == [type : {"command"}, by : Sources, op : {"open", "page", "takeover", "release"},
                    permit : Permits, owner : Owners]
Messages == Heartbeats \cup Acks \cup Hellos \cup Accepteds \cup Reconciles \cup CommandMessages

Rows == [status : Open \cup {"LOST"}, quarantined : BOOLEAN, lease : Nat, gen : Nat, owner : Nat,
         permitExp : Nat, humanExp : Nat, setting : Settings]
TaskRows == [status : {"PENDING", "RUNNING", "WAITING_HUMAN", "FAILED"}, fence : Nat, lease : Nat,
             resume : BOOLEAN, humanExp : Nat, recovery : {"NONE", "PENDING", "HITL_CLOSING"}]

(* The rows: their types and bounds, no owner before the browser is open, and
   no takeover that is still to be dispatched for an active session. *)
RowsInv ==
    /\ row \in Rows /\ task \in TaskRows
    /\ row.gen <= MaxGen + 1 /\ (row.status # "LOST" => row.gen <= MaxGen)
    /\ row.owner <= MaxFence
    /\ row.status = "OPENING" => row.owner = 0
    /\ task.fence <= MaxFence + 1 /\ (task.status # "FAILED" => task.fence <= MaxFence)
    /\ task.status = "RUNNING" => task.lease <= now + TaskLease /\ task.fence # 0
    /\ task.recovery = "PENDING" => task.status = "FAILED"
    /\ human \in {"IDLE", "TAKING", "TAKEN", "HOLDING", "RELEASING"}
    /\ human = "TAKING" => row.status \in {"HUMAN_CONTROL", "LOST"}
    /\ checked \subseteq 1..MaxFence

(* An agent's permit never runs beyond the lease of the task it was granted
   for, nor past the recovery of a task whose lease was lost. *)
LeaseBound(e) ==
    /\ e <= now + TaskLease
    /\ task.status = "RUNNING" => e <= task.lease
    /\ task.recovery = "PENDING" => e <= now

(* A permit the control plane may have granted. *)
Granted(p) ==
    /\ p \in Permits /\ p.kind \in {"STARTUP", "AGENT", "HUMAN"}
    /\ p.fence <= row.owner /\ p.gen <= row.gen
    /\ p.kind = "STARTUP" => p.fence = 0
    /\ p.kind = "AGENT" => LeaseBound(p.expiresAt)

Carriers == {"ack", "accepted", "reconcile", "command"}
Carried == {m \in flight : m.type \in Carriers /\ m.permit # None}

CommandShape(m) ==
    /\ m.owner.kind = m.permit.kind /\ m.owner.gen = m.permit.gen
    /\ m.permit.kind = "STARTUP" <=> m.op = "open"

(* The messages, each by itself. *)
FlightInv ==
    /\ flight \subseteq Messages /\ IsFiniteSet(flight) /\ Cardinality(flight) <= MaxFlight
    /\ hbSeen \in Int
    /\ \A m \in flight :
          /\ m.type \in {"ack", "accepted"} => m.sentAt <= m.serverTime
          /\ m.type \in {"heartbeat", "hello"} => m.sentAt <= now
          /\ m.type = "command" => CommandShape(m)
    /\ \A m \in Carried : Granted(m.permit)

(* A connection: first the hello and its answer, then the reconciliation by
   itself, then heartbeats and their acknowledgements. *)
ConnectionInv ==
    /\ \A m \in flight : m.type \in {"hello", "accepted"} => ~connected
    /\ \A m \in flight : m.type \in {"heartbeat", "ack", "reconcile"} => connected
    /\ \A m, x \in flight : m.type = "reconcile" /\ x.type = "reconcile" => m = x
    /\ Handshaking => \A m \in flight : m.type \notin {"heartbeat", "ack"}
    /\ \A m, x \in flight : m.type = "ack" /\ x.type = "heartbeat" => m.sentAt < x.sentAt
    /\ \A m, x \in flight : m.type = "ack" /\ x.type = "ack" /\ m.sentAt = x.sentAt => m = x

(* What overtook what: a permit of before the task's claim, or of a takeover
   before it, is behind by its generation or by the heartbeat it answers. *)
OrderInv ==
    /\ \A m \in Carried : m.permit.kind = "STARTUP" /\ row.status = "HUMAN_CONTROL"
                             => m.permit.gen < row.gen
    /\ \A m \in Carried : m.permit.kind = "HUMAN" /\ m.permit.fence = 0 =>
          \/ m.permit.gen < row.gen
          \/ (row.owner = 0 /\ row.status \in {"HUMAN_CONTROL", "LOST"})
    /\ \A m, x \in Carried :
          m.permit.kind = "HUMAN" /\ m.permit.fence = 0 /\ x.permit.fence # 0
             => m.permit.gen < x.permit.gen
    /\ \A m, x \in Carried :
          /\ m.type = "ack" /\ m.permit.kind = "STARTUP"
          /\ x.permit.kind = "HUMAN" /\ x.permit.fence # 0
          => /\ x.type = "command" => m.permit.gen < x.permit.gen
             /\ x.type = "ack" => m.sentAt < x.sentAt

(* What is registered, and what may still arrive for it. *)
Registration ==
    /\ permit[Session] # NoPermit => Granted(permit[Session])
    /\ epoch[Session] # NoEpoch => epoch[Session].task = Task /\ epoch[Session].token # 0
    /\ epoch[Session].token <= row.owner
    /\ permit[Session] # NoPermit /\ permit[Session].fence # 0
          => epoch[Session].token = permit[Session].fence
    /\ Session \notin revoked =>
          /\ live[Session] = "ABSENT" <=> permit[Session] = NoPermit
          /\ live[Session] = "ABSENT" => running[Session] = {}

(* A message that cannot take the session back behind an owner's permit. *)
Behind(m) ==
    /\ m.permit.kind = "HUMAN" /\ m.permit.fence = 0 => m.permit.gen < permit[Session].gen
    /\ m.permit.kind = "STARTUP" /\ permit[Session].kind = "HUMAN" =>
          /\ m.type \in {"ack", "command"}
          /\ m.type = "ack" => m.permit.gen < permit[Session].gen \/ m.sentAt <= hbSeen

LateInv ==
    permit[Session] # NoPermit /\ permit[Session].fence # 0 => \A m \in Carried : Behind(m)

(* The authority (f, g) of an agent's command has been overtaken for good. *)
Passed(f, g) ==
    \/ epoch[Session].token > f
    \/ permit[Session].gen > g
    \/ permit[Session].kind = "HUMAN" /\ permit[Session].fence >= f

(* An agent's command that has lost its sole authority never gets it back. *)
CommandsInv ==
    \A c \in running[Session] : c.owner.kind = "AGENT" =>
        /\ c.owner.fence # 0 /\ c.owner.fence <= epoch[Session].token
        /\ permit[Session] # NoPermit =>
              /\ c.owner.gen <= permit[Session].gen
              /\ IF c.sole THEN SameAuthority(c.owner, permit[Session])
                 ELSE Passed(c.owner.fence, c.owner.gen)

AInv == IInv /\ RowsInv /\ FlightInv /\ ConnectionInv /\ OrderInv /\ Registration /\ LateInv
        /\ CommandsInv

-----------------------------------------------------------------------------
(* What the constants and the types say. *)
LEMMA Parameters ==
    ASSUME RowsInv
    PROVE  /\ Session \in Sessions /\ Sessions = {Session} /\ Tasks = {Task} /\ Task # NoTask
           /\ {SessionLease, TaskLease, HumanTTL, StartupWindow, ResumeBudget, MaxFlight} \subseteq Nat \ {0}
           /\ {MaxFence, MaxGen} \subseteq Nat
           /\ LeaseOf[Session] \in Leases
           /\ row.owner \in Nat /\ row.gen \in Nat /\ row.lease \in Nat /\ task.fence \in Nat
           /\ row.permitExp \in Nat /\ row.humanExp \in Nat /\ task.lease \in Nat /\ task.humanExp \in Nat
<1>1. row.setting \in Settings
  BY DEF RowsInv, Rows
<1>2. /\ row.owner \in Nat /\ row.gen \in Nat /\ row.lease \in Nat /\ task.fence \in Nat
      /\ row.permitExp \in Nat /\ row.humanExp \in Nat /\ task.lease \in Nat /\ task.humanExp \in Nat
  BY DEF RowsInv, Rows, TaskRows
<1>3. /\ Session \in Sessions /\ Sessions = {Session} /\ Tasks = {Task} /\ Task # NoTask
      /\ LeaseOf[Session] \in Leases
  BY AuthorityParameters, PermitParameters
<1>4. /\ {SessionLease, TaskLease, HumanTTL, StartupWindow, ResumeBudget, MaxFlight} \subseteq Nat \ {0}
      /\ {MaxFence, MaxGen} \subseteq Nat
  BY <1>1, AuthorityParameters DEF SessionLease, TaskLease, MaxFence, MaxGen
<1> QED BY <1>2, <1>3, <1>4

(* The fields of a permit. *)
LEMMA PermitFields ==
    ASSUME NEW p \in Permits
    PROVE  /\ p.fence \in Nat /\ p.gen \in Nat /\ p.expiresAt \in Nat
           /\ p.kind \in OwnerKinds /\ p.task \in Tasks \cup {NoTask}
           /\ p # NoPermit /\ p # None
           /\ (p.task = NoTask) = (p.fence = 0)
           /\ p.kind = "AGENT" => p.fence # 0
  BY DEF Permits, NoPermit, None, OwnerKinds

LEMMA CarriedPermit ==
    ASSUME FlightInv, NEW m \in Carried
    PROVE  m \in flight /\ m.type \in Carriers /\ m.permit \in Permits /\ Granted(m.permit)
  BY DEF FlightInv, Carried, Granted

(* What a permit of the rows says beyond having been granted. *)
OfRows(p) ==
    /\ p.fence = row.owner /\ p.gen = row.gen
    /\ p.task = (IF row.owner = 0 THEN NoTask ELSE Task)
    /\ row.status \in Open
    /\ p.kind = "STARTUP" => row.owner = 0 /\ row.status # "HUMAN_CONTROL"
    /\ p.kind = "HUMAN" /\ row.owner = 0 => row.status = "HUMAN_CONTROL"
    /\ p.kind = "HUMAN" /\ task.status = "RUNNING" => row.status = "HUMAN_CONTROL"
    /\ row.status = "HUMAN_CONTROL" => p.kind = "HUMAN"

LEMMA UntilFields ==
    ASSUME NEW k, NEW e
    PROVE  /\ PermitUntil(k, e).kind = k /\ PermitUntil(k, e).expiresAt = e
           /\ PermitUntil(k, e).fence = row.owner /\ PermitUntil(k, e).gen = row.gen
           /\ PermitUntil(k, e).task = (IF row.owner = 0 THEN NoTask ELSE Task)
  BY DEF PermitUntil

(* sessionExecutionPermit grants for the owner and generation of the row, a
   startup permit before the first claim only, and an agent's permit within
   the lease of its task. *)
LEMMA GrantOfRows ==
    ASSUME RowsInv, now \in Nat, NEW l \in Nat, PermitOf(l) # None
    PROVE  Granted(PermitOf(l)) /\ OfRows(PermitOf(l))
<1> SUFFICES ASSUME NEW p, p = PermitOf(l), p # None
             PROVE  Granted(p) /\ OfRows(p)
  OBVIOUS
<1>0. /\ Tasks = {Task} /\ Task # NoTask /\ LeaseOf[Session] \in Leases
      /\ row.owner \in Nat /\ row.gen \in Nat /\ row.lease \in Nat
      /\ row.permitExp \in Nat /\ row.humanExp \in Nat /\ task.lease \in Nat /\ task.humanExp \in Nat
  BY Parameters
<1>1. ASSUME NEW e \in Nat, NEW k \in {"STARTUP", "HUMAN", "AGENT"}, k = "AGENT" => row.owner # 0
      PROVE  PermitUntil(k, e) \in Permits
  <2>1. PermitUntil(k, e) \in [kind : OwnerKinds, lease : Leases, task : Tasks \cup {NoTask},
                               fence : Nat, gen : Nat, expiresAt : Nat]
    BY <1>0 DEF PermitUntil, OwnerKinds
  <2> QED BY <1>0, <1>1, <2>1 DEF Permits, PermitUntil
<1>2. row.status \in Open /\ ~row.quarantined
  BY DEF PermitOf
<1>3. ASSUME NEW e \in Nat, p = PermitUntil("HUMAN", e),
             row.status = "HUMAN_CONTROL" \/ (row.owner # 0 /\ task.status # "RUNNING")
      PROVE  Granted(p) /\ OfRows(p)
  <2>1. /\ p \in Permits /\ p.kind = "HUMAN" /\ p.fence = row.owner /\ p.gen = row.gen
        /\ p.task = (IF row.owner = 0 THEN NoTask ELSE Task)
    BY <1>1, <1>3, UntilFields
  <2>2. Granted(p)
    BY <1>0, <2>1 DEF Granted
  <2> QED BY <1>2, <1>3, <2>1, <2>2 DEF OfRows
<1>4. CASE row.status = "HUMAN_CONTROL"
  <2>1. p = PermitUntil("HUMAN", Earlier(l, row.humanExp))
    BY <1>2, <1>4 DEF PermitOf
  <2>2. Earlier(l, row.humanExp) \in Nat
    BY <1>0 DEF Earlier
  <2> QED BY <1>3, <1>4, <2>1, <2>2
<1>5. CASE row.status # "HUMAN_CONTROL" /\ row.owner = 0
  <2>1. p = PermitUntil("STARTUP", Earlier(l, row.permitExp))
    BY <1>2, <1>5 DEF PermitOf
  <2>2. Earlier(l, row.permitExp) \in Nat
    BY <1>0 DEF Earlier
  <2>3. /\ p \in Permits /\ p.kind = "STARTUP" /\ p.fence = row.owner /\ p.gen = row.gen
        /\ p.task = (IF row.owner = 0 THEN NoTask ELSE Task)
    BY <1>1, <2>1, <2>2, UntilFields
  <2>4. Granted(p)
    BY <1>0, <1>5, <2>3 DEF Granted
  <2> QED BY <1>2, <1>5, <2>3, <2>4 DEF OfRows
<1>6. CASE row.status # "HUMAN_CONTROL" /\ row.owner # 0 /\ task.status = "WAITING_HUMAN"
  <2>1. p = PermitUntil("HUMAN", Earlier(l, task.humanExp))
    BY <1>2, <1>6 DEF PermitOf
  <2>2. Earlier(l, task.humanExp) \in Nat
    BY <1>0 DEF Earlier
  <2> QED BY <1>3, <1>6, <2>1, <2>2
<1>7. CASE /\ row.status # "HUMAN_CONTROL" /\ row.owner # 0
           /\ task.status = "PENDING" /\ task.resume /\ row.permitExp > now
  <2>1. p = PermitUntil("HUMAN", Earlier(l, row.permitExp))
    BY <1>2, <1>7 DEF PermitOf
  <2>2. Earlier(l, row.permitExp) \in Nat
    BY <1>0 DEF Earlier
  <2> QED BY <1>3, <1>7, <2>1, <2>2
<1>8. CASE /\ row.status # "HUMAN_CONTROL" /\ row.owner # 0 /\ task.status # "WAITING_HUMAN"
           /\ ~(task.status = "PENDING" /\ task.resume /\ row.permitExp > now)
  <2>1. /\ task.status = "RUNNING" /\ task.fence = row.owner
        /\ p = PermitUntil("AGENT", Earlier(l, task.lease))
    BY <1>2, <1>8 DEF PermitOf
  <2>2. Earlier(l, task.lease) \in Nat /\ Earlier(l, task.lease) <= task.lease
    BY <1>0 DEF Earlier
  <2>3. TaskLease \in Nat /\ task.lease <= now + TaskLease /\ task.recovery # "PENDING"
    BY <2>1, Parameters DEF RowsInv
  <2>4. LeaseBound(Earlier(l, task.lease))
    BY <1>0, <2>1, <2>2, <2>3 DEF LeaseBound
  <2>5. p \in Permits
    BY <1>1, <1>8, <2>1, <2>2
  <2>6. p.kind = "AGENT" /\ p.expiresAt = Earlier(l, task.lease) /\ p.fence = row.owner /\ p.gen = row.gen
        /\ p.task = (IF row.owner = 0 THEN NoTask ELSE Task)
    BY <1>8, <2>1, UntilFields
  <2>7. Granted(p)
    BY <1>0, <2>4, <2>5, <2>6 DEF Granted
  <2> QED BY <1>2, <1>8, <2>1, <2>6, <2>7 DEF OfRows
<1> QED BY <1>4, <1>5, <1>6, <1>7, <1>8

-----------------------------------------------------------------------------
(* How the rows may move: owner, generation and time forward, a takeover under
   a generation of its own, and no lease bound relaxed. *)
RowMove ==
    /\ row'.setting = row.setting
    /\ row'.owner >= row.owner /\ row'.gen >= row.gen
    /\ \A e \in Nat : LeaseBound(e) => LeaseBound(e)'
    /\ row'.status = "HUMAN_CONTROL" => row.status = "HUMAN_CONTROL" \/ row'.gen > row.gen
    /\ row.owner = 0 /\ row.status \in {"HUMAN_CONTROL", "LOST"} =>
          \/ row'.gen > row.gen
          \/ (row'.owner = 0 /\ row'.status \in {"HUMAN_CONTROL", "LOST"})

LEMMA GrantedStays ==
    ASSUME RowsInv, RowsInv', RowMove, NEW p, Granted(p)
    PROVE  Granted(p)'
<1>1. p \in Permits /\ p.fence \in Nat /\ p.gen \in Nat /\ p.expiresAt \in Nat
  BY PermitFields DEF Granted
<1>2. row.owner \in Nat /\ row.gen \in Nat /\ row'.owner \in Nat /\ row'.gen \in Nat
  BY DEF RowsInv, Rows
<1>3. p.kind = "AGENT" => LeaseBound(p.expiresAt)'
  BY <1>1 DEF Granted, RowMove
<1>4. p.fence <= row'.owner /\ p.gen <= row'.gen
  BY <1>1, <1>2 DEF Granted, RowMove
<1> QED BY <1>1, <1>3, <1>4 DEF Granted

(* Time alone relaxes nothing. *)
LEMMA RowsStay ==
    ASSUME RowsInv, UNCHANGED <<row, task, human, checked>>, now \in Nat, now' \in {now, now + 1}
    PROVE  RowsInv' /\ RowMove
<1>0. TaskLease \in Nat /\ row.owner \in Nat /\ row.gen \in Nat /\ task.lease \in Nat
  BY Parameters
<1>1. RowsInv'
  BY <1>0 DEF RowsInv, TaskLease, MaxGen, MaxFence
<1>2. ASSUME NEW e \in Nat, LeaseBound(e)
      PROVE  LeaseBound(e)'
  BY <1>0, <1>2 DEF LeaseBound, TaskLease
<1> QED BY <1>0, <1>1, <1>2 DEF RowMove

-----------------------------------------------------------------------------
(* A message that enters the flight with a permit of the rows as they are. *)
NewMessage(n) ==
    /\ n.type \in Carriers /\ n.permit # None => Granted(n.permit) /\ OfRows(n.permit)
    /\ n.type = "command" /\ n.permit.kind = "HUMAN" /\ n.permit.fence # 0
          => row.status = "HUMAN_CONTROL"

(* Messages may leave and one may enter while the rows move: no old snapshot
   becomes newer than it was. *)
LEMMA MessagesStep ==
    ASSUME AInv, RowsInv', RowMove, NEW N, \A n, x \in N : n = x,
           flight' \subseteq flight \cup N,
           \A n \in N : NewMessage(n)',
           \A n \in N : n.type = "ack" => \A m \in flight : m.type = "ack" => m.sentAt < n.sentAt
    PROVE  OrderInv' /\ \A m \in Carried' : Granted(m.permit)'
<1>0. RowsInv /\ FlightInv /\ OrderInv
  BY DEF AInv
<1>1. /\ row.owner \in Nat /\ row.gen \in Nat /\ row'.owner \in Nat /\ row'.gen \in Nat
      /\ row'.owner >= row.owner /\ row'.gen >= row.gen
  BY <1>0 DEF RowsInv, Rows, RowMove
<1>2. ASSUME NEW m \in Carried'
      PROVE  \/ m \in Carried /\ Granted(m.permit) /\ Granted(m.permit)'
             \/ m \in N /\ Granted(m.permit)' /\ OfRows(m.permit)'
  <2>1. CASE m \in flight
    <3>1. m \in Carried
      BY <2>1 DEF Carried
    <3> QED BY <1>0, <3>1, CarriedPermit, GrantedStays
  <2>2. CASE m \in N
    BY <2>2 DEF Carried, NewMessage
  <2> QED BY <2>1, <2>2 DEF Carried
<1>3. \A m \in Carried' : /\ Granted(m.permit)' /\ m.permit \in Permits /\ m.permit.fence \in Nat
                          /\ m.permit.gen \in Nat
  BY <1>2, PermitFields DEF Granted
<1>4. ASSUME NEW m \in Carried', m.permit.kind = "STARTUP", row'.status = "HUMAN_CONTROL"
      PROVE  m.permit.gen < row'.gen
  <2>1. CASE m \in N /\ OfRows(m.permit)'
    BY <1>4, <2>1 DEF OfRows
  <2>2. CASE m \in Carried /\ Granted(m.permit)
    <3>1. row.status = "HUMAN_CONTROL" => m.permit.gen < row.gen
      BY <1>0, <1>4, <2>2 DEF OrderInv
    <3>2. m.permit.gen <= row.gen
      BY <2>2 DEF Granted
    <3> QED BY <1>1, <1>3, <1>4, <3>1, <3>2 DEF RowMove
  <2> QED BY <1>2, <2>1, <2>2
<1>5. ASSUME NEW m \in Carried', m.permit.kind = "HUMAN", m.permit.fence = 0
      PROVE  \/ m.permit.gen < row'.gen
             \/ (row'.owner = 0 /\ row'.status \in {"HUMAN_CONTROL", "LOST"})
  <2>1. CASE m \in N /\ OfRows(m.permit)'
    BY <1>5, <2>1 DEF OfRows
  <2>2. CASE m \in Carried /\ Granted(m.permit)
    <3>1. \/ m.permit.gen < row.gen
          \/ (row.owner = 0 /\ row.status \in {"HUMAN_CONTROL", "LOST"})
      BY <1>0, <1>5, <2>2 DEF OrderInv
    <3>2. m.permit.gen <= row.gen
      BY <2>2 DEF Granted
    <3> QED BY <1>1, <1>3, <3>1, <3>2 DEF RowMove
  <2> QED BY <1>2, <2>1, <2>2
<1>6. ASSUME NEW m \in Carried', NEW x \in Carried',
             m.permit.kind = "HUMAN", m.permit.fence = 0, x.permit.fence # 0
      PROVE  m.permit.gen < x.permit.gen
  <2>1. CASE x \in N /\ OfRows(x.permit)'
    BY <1>1, <1>3, <1>5, <1>6, <2>1 DEF OfRows
  <2>2. CASE x \in Carried /\ Granted(x.permit)
    <3>1. x.permit.fence <= row.owner
      BY <2>2 DEF Granted
    <3>2. ~(m \in N /\ OfRows(m.permit)')
      BY <1>1, <1>3, <1>6, <3>1 DEF OfRows
    <3>3. m \in Carried
      BY <1>2, <3>2
    <3> QED BY <1>0, <1>6, <2>2, <3>3 DEF OrderInv
  <2> QED BY <1>2, <2>1, <2>2
<1>7. ASSUME NEW m \in Carried', NEW x \in Carried', m.type = "ack", m.permit.kind = "STARTUP",
             x.permit.kind = "HUMAN", x.permit.fence # 0
      PROVE  /\ x.type = "command" => m.permit.gen < x.permit.gen
             /\ x.type = "ack" => m.sentAt < x.sentAt
  <2>1. CASE x \in N /\ OfRows(x.permit)'
    <3>1. x.type = "command" => m.permit.gen < x.permit.gen
      BY <1>4, <1>7, <2>1 DEF OfRows, NewMessage
    <3>2. ~(m \in N /\ OfRows(m.permit)')
      BY <1>7, <2>1 DEF OfRows
    <3>3. m \in flight
      BY <1>2, <3>2 DEF Carried
    <3> QED BY <1>7, <2>1, <3>1, <3>3
  <2>2. CASE x \in Carried /\ Granted(x.permit)
    <3>1. x.permit.fence <= row.owner
      BY <2>2 DEF Granted
    <3>2. ~(m \in N /\ OfRows(m.permit)')
      BY <1>1, <1>3, <1>7, <3>1 DEF OfRows
    <3>3. m \in Carried
      BY <1>2, <3>2
    <3> QED BY <1>0, <1>7, <2>2, <3>3 DEF OrderInv
  <2> QED BY <1>2, <2>1, <2>2
<1>8. OrderInv'
  BY <1>4, <1>5, <1>6, <1>7 DEF OrderInv
<1> QED BY <1>3, <1>8

(* The same for what is registered, while it stays registered. *)
LEMMA LateStays ==
    ASSUME AInv, RowsInv', RowMove, NEW N, flight' \subseteq flight \cup N,
           \A n \in N : NewMessage(n)',
           permit'[Session] \in {permit[Session], NoPermit},
           hbSeen' \in Int, hbSeen' >= hbSeen
    PROVE  LateInv'
<1> SUFFICES ASSUME permit'[Session] # NoPermit, permit'[Session].fence # 0, NEW m \in Carried'
             PROVE  Behind(m)'
  BY DEF LateInv
<1>0. RowsInv /\ FlightInv /\ LateInv /\ hbSeen \in Int
  BY DEF AInv, FlightInv
<1>1. permit'[Session] = permit[Session] /\ Granted(permit[Session])
  BY DEF AInv, Registration
<1>2. /\ permit[Session].fence \in Nat /\ permit[Session].fence <= row.owner
      /\ row.owner \in Nat /\ row'.owner \in Nat /\ row'.owner >= row.owner
  BY <1>0, <1>1, PermitFields DEF Granted, RowsInv, Rows, RowMove
<1>3. CASE m \in flight
  <2>1. m \in Carried
    BY <1>3 DEF Carried
  <2>2. Behind(m)
    BY <1>0, <1>1, <2>1 DEF LateInv
  <2>3. m.type = "ack" => m.sentAt \in Int
    BY <1>0, <1>3 DEF FlightInv, Messages, Heartbeats, Acks, Hellos, Accepteds, Reconciles,
                      CommandMessages
  <2> QED BY <1>0, <1>1, <2>2, <2>3 DEF Behind
<1>4. CASE m \in N
  <2>1. OfRows(m.permit)'
    BY <1>4 DEF NewMessage, Carried
  <2> QED BY <1>1, <1>2, <2>1 DEF OfRows, Behind
<1> QED BY <1>3, <1>4 DEF Carried

-----------------------------------------------------------------------------
(* What the permit table and the commands in execution go through: nothing is
   registered, or one permit that arrived is. *)
LEMMA RegisteredNow ==
    ASSUME AInv
    PROVE  /\ permit[Session] # NoPermit =>
                 /\ Granted(permit[Session]) /\ permit[Session] \in Permits
                 /\ permit[Session].fence \in Nat /\ permit[Session].gen \in Nat
                 /\ permit[Session].expiresAt \in Nat
           /\ permit[Session] \in Permits \cup {NoPermit}
           /\ epoch[Session] \in [task : Tasks \cup {NoTask}, token : Nat]
           /\ running[Session] \subseteq Commands
           /\ \A c \in running[Session] : c.owner.fence \in Nat /\ c.owner.gen \in Nat
           /\ row.owner \in Nat /\ row.gen \in Nat
<1>1. Session \in Sessions /\ row.owner \in Nat /\ row.gen \in Nat
  BY Parameters DEF AInv
<1>2. /\ permit[Session] \in Permits \cup {NoPermit}
      /\ epoch[Session] \in [task : Tasks \cup {NoTask}, token : Nat]
      /\ running[Session] \subseteq Commands
  BY <1>1 DEF AInv, IInv, TableInv, TableType, ManagerType
<1>3. \A c \in running[Session] : c.owner.fence \in Nat /\ c.owner.gen \in Nat
  BY <1>2 DEF Commands, Owners
<1>4. permit[Session] # NoPermit =>
                 /\ Granted(permit[Session]) /\ permit[Session] \in Permits
                 /\ permit[Session].fence \in Nat /\ permit[Session].gen \in Nat
                 /\ permit[Session].expiresAt \in Nat
  BY <1>2, PermitFields DEF AInv, Registration
<1> QED BY <1>1, <1>2, <1>3, <1>4

LEMMA QuietStep ==
    ASSUME AInv, RowsInv', RowMove,
           permit'[Session] \in {permit[Session], NoPermit}, epoch'[Session] = epoch[Session],
           running'[Session] \subseteq running[Session],
           Session \notin revoked' =>
              /\ Session \notin revoked /\ permit'[Session] = permit[Session]
              /\ live'[Session] = "ABSENT" <=> live[Session] = "ABSENT"
    PROVE  Registration' /\ CommandsInv'
<1>0. RowsInv /\ Registration /\ CommandsInv
  BY DEF AInv
<1>1. /\ row.owner \in Nat /\ row'.owner \in Nat /\ row'.owner >= row.owner
      /\ epoch[Session].token \in Nat
  BY <1>0, RegisteredNow DEF RowsInv, Rows, RowMove
<1>2. permit'[Session] # NoPermit =>
         permit'[Session] = permit[Session] /\ Granted(permit[Session])'
  <2> SUFFICES ASSUME permit'[Session] # NoPermit
               PROVE  permit'[Session] = permit[Session] /\ Granted(permit[Session])'
    OBVIOUS
  <2>1. permit'[Session] = permit[Session] /\ Granted(permit[Session])
    BY <1>0 DEF Registration
  <2> DEFINE p == permit'[Session]
  <2>2. \A q : Granted(q) => Granted(q)'
    BY <1>0, GrantedStays
  <2> QED BY <2>1, <2>2
<1>3. Registration'
  BY <1>0, <1>1, <1>2 DEF Registration
<1>4. CommandsInv'
  BY <1>0, <1>2 DEF CommandsInv, Passed
<1> QED BY <1>3, <1>4

(* accept stored a permit: every test of the code said so. *)
LEMMA StoredTests ==
    ASSUME NEW p, NEW est, AcceptOutcome(Session, p, est) = "stored"
    PROVE  /\ Session \notin revoked /\ ~StaleExecutor(Session, p)
           /\ Registered(Session) =>
                 /\ ~(p.gen < permit[Session].gen) /\ ~ResumesOldExecutor(Session, p)
                 /\ ~(permit[Session].kind = "AGENT" /\ p.kind = "STARTUP")
                 /\ ~StalePermitOwner(Session, p)
  BY DEF AcceptOutcome, DeniedBeforeExpiry, DeniedAfterExpiry

(* The permit of the message m is stored. *)
StoreOf(m, est) ==
    /\ AcceptOutcome(Session, m.permit, est) = "stored"
    /\ permit'[Session] = m.permit
    /\ epoch'[Session] = IF m.permit.task = NoTask THEN epoch[Session]
                         ELSE [task |-> m.permit.task, token |-> m.permit.fence]
    /\ live'[Session] # "ABSENT"

(* How a message reaches the Runtime: commands and acknowledgements after the
   handshake, an open command for a session that is not there, and no
   acknowledgement of a heartbeat older than one already acknowledged. *)
Delivered(m) ==
    /\ connected
    /\ m.type \in {"ack", "command", "reconcile"}
    /\ m.type = "ack" => m.sentAt > hbSeen
    /\ m.type = "command" => ~Handshaking
    /\ m.type = "command" /\ m.permit.kind = "STARTUP" => permit[Session] = NoPermit

(* After it nothing that still travels takes the session back. *)
LEMMA StoreLate ==
    ASSUME AInv, NEW m \in Carried, NEW est, StoreOf(m, est), Delivered(m),
           flight' \subseteq flight \ {m}, hbSeen' = (IF m.type = "ack" THEN m.sentAt ELSE hbSeen)
    PROVE  LateInv'
<1>0. FlightInv /\ ConnectionInv /\ OrderInv
  BY DEF AInv
<1> DEFINE p == m.permit
<1> SUFFICES ASSUME p.fence # 0, NEW x \in Carried', m # x, x \in Carried
             PROVE  Behind(x)'
  BY DEF LateInv, StoreOf, Carried
<1>1. permit'[Session] = p
  BY DEF StoreOf
<1>2. x.permit.kind = "HUMAN" /\ x.permit.fence = 0 => x.permit.gen < p.gen
  BY <1>0 DEF OrderInv
<1>3. ASSUME x.permit.kind = "STARTUP", p.kind = "HUMAN"
      PROVE  /\ x.type \in {"ack", "command"}
             /\ x.type = "ack" => x.permit.gen < p.gen \/ x.sentAt <= hbSeen'
  <2>1. x \in flight /\ m \in flight /\ x.type \in Carriers
    BY DEF Carried
  <2>2. x.type # "accepted"
    BY <1>0, <2>1 DEF ConnectionInv, Delivered
  <2>3. x.type # "reconcile"
    BY <1>0, <2>1 DEF ConnectionInv, Delivered, Handshaking
  <2>4. ASSUME x.type = "ack"
        PROVE  x.permit.gen < p.gen \/ x.sentAt <= hbSeen'
    <3>1. m.type # "reconcile"
      BY <1>0, <2>1, <2>4 DEF ConnectionInv, Handshaking
    <3>2. CASE m.type = "command"
      BY <1>0, <1>3, <2>4, <3>2 DEF OrderInv
    <3>3. CASE m.type = "ack"
      <4>1. x.sentAt < m.sentAt
        BY <1>0, <1>3, <2>4, <3>3 DEF OrderInv
      <4>2. x.sentAt \in Nat /\ m.sentAt \in Nat
        BY <1>0, <2>1, <2>4, <3>3 DEF FlightInv, Messages, Heartbeats, Acks, Hellos, Accepteds,
                                     Reconciles, CommandMessages
      <4> QED BY <3>3, <4>1, <4>2
    <3> QED BY <3>1, <3>2, <3>3 DEF Delivered
  <2> QED BY <2>1, <2>2, <2>3, <2>4 DEF Carriers
<1> QED BY <1>1, <1>2, <1>3 DEF Behind

(* An authority that was overtaken stays behind the permit that is stored. *)
LEMMA StillPassed ==
    ASSUME AInv, NEW m \in Carried, NEW est, StoreOf(m, est), Delivered(m),
           NEW f \in Nat, NEW g \in Nat, f # 0, f <= epoch[Session].token,
           permit[Session] # NoPermit, g <= permit[Session].gen, Passed(f, g)
    PROVE  Passed(f, g)'
<1> DEFINE p == m.permit
           R == permit[Session]
<1>0. FlightInv /\ LateInv
  BY DEF AInv
<1>1. /\ Granted(p) /\ p \in Permits /\ p.fence \in Nat /\ p.gen \in Nat
      /\ p.task \in Tasks \cup {NoTask} /\ (p.task = NoTask) = (p.fence = 0)
  BY <1>0, CarriedPermit, PermitFields
<1>2. /\ R.fence \in Nat /\ R.gen \in Nat /\ epoch[Session].token \in Nat
      /\ epoch[Session] # NoEpoch
  BY RegisteredNow DEF NoEpoch
<1>3. /\ ~StaleExecutor(Session, p) /\ p.gen >= R.gen
      /\ ~ResumesOldExecutor(Session, p) /\ ~StalePermitOwner(Session, p)
  BY <1>1, <1>2, StoredTests DEF StoreOf, Registered
<1>4. permit'[Session] = p
  BY DEF StoreOf
<1>5. epoch'[Session].token >= epoch[Session].token
  <2>1. CASE p.task = NoTask
    BY <1>2, <2>1 DEF StoreOf
  <2>2. CASE p.task # NoTask
    <3>1. p.fence >= epoch[Session].token
      BY <1>1, <1>2, <1>3, <2>2 DEF StaleExecutor
    <3> QED BY <1>1, <2>2, <3>1 DEF StoreOf
  <2> QED BY <2>1, <2>2
<1>6. epoch'[Session].token \in Nat
  BY <1>1, <1>2 DEF StoreOf
<1>7. CASE epoch[Session].token > f \/ R.gen > g
  BY <1>1, <1>2, <1>3, <1>4, <1>5, <1>6, <1>7 DEF Passed
<1>8. CASE R.kind = "HUMAN" /\ R.fence >= f
  <2>1. R.fence # 0
    BY <1>2, <1>8
  <2>2. Behind(m)
    BY <1>0, <2>1 DEF LateInv
  <2>3. CASE p.kind = "AGENT"
    <3>1. p.fence > epoch[Session].token \/ p.gen > R.gen
      BY <1>1, <1>2, <1>3, <1>8, <2>3 DEF ResumesOldExecutor
    <3>2. p.task # NoTask
      BY <1>1, <2>3, PermitFields
    <3>3. epoch'[Session].token = p.fence
      BY <3>2 DEF StoreOf
    <3> QED BY <1>1, <1>2, <1>4, <3>1, <3>3 DEF Passed
  <2>4. CASE p.kind = "HUMAN"
    <3>1. p.fence # 0
      BY <1>1, <1>2, <1>3, <2>2, <2>4 DEF Behind
    <3>2. p.fence >= R.fence
      BY <1>1, <1>2, <1>3, <2>1, <3>1 DEF StalePermitOwner
    <3> QED BY <1>1, <1>2, <1>4, <1>8, <2>4, <3>2 DEF Passed
  <2>5. CASE p.kind = "STARTUP"
    <3>1. m.type \in {"ack", "command"} /\ (m.type = "ack" => p.gen < R.gen \/ m.sentAt <= hbSeen)
      BY <1>8, <2>2, <2>5 DEF Behind
    <3>2. m.type = "ack" /\ m.sentAt > hbSeen
      BY <2>5, <3>1 DEF Delivered
    <3>3. m.sentAt \in Nat /\ hbSeen \in Int
      BY <1>0, <3>2 DEF FlightInv, Carried, Messages, Heartbeats, Acks, Hellos, Accepteds,
                        Reconciles, CommandMessages
    <3> QED BY <1>1, <1>2, <1>3, <3>1, <3>2, <3>3
  <2> QED BY <1>1, <2>3, <2>4, <2>5 DEF Granted
<1> QED BY <1>7, <1>8 DEF Passed

(* The authority that was registered is overtaken by any other one. *)
LEMMA NewlyPassed ==
    ASSUME AInv, NEW m \in Carried, NEW est, StoreOf(m, est), Delivered(m),
           NEW o, o.kind = "AGENT", o.fence \in Nat, o.gen \in Nat,
           permit[Session] # NoPermit, SameAuthority(o, permit[Session]),
           ~SameAuthority(o, m.permit), o.fence # 0
    PROVE  Passed(o.fence, o.gen)'
<1> DEFINE p == m.permit
           R == permit[Session]
<1>0. FlightInv /\ LateInv /\ Tasks = {Task}
  BY Parameters DEF AInv
<1>1. /\ Granted(p) /\ p \in Permits /\ p.fence \in Nat /\ p.gen \in Nat
      /\ p.task \in Tasks \cup {NoTask} /\ (p.task = NoTask) = (p.fence = 0)
  BY <1>0, CarriedPermit, PermitFields
<1>2. /\ R \in Permits /\ R.fence \in Nat /\ R.gen \in Nat /\ R.task \in Tasks \cup {NoTask}
      /\ (R.task = NoTask) = (R.fence = 0) /\ epoch[Session].token \in Nat
      /\ epoch[Session].token = R.fence
  BY RegisteredNow, PermitFields DEF AInv, Registration, SameAuthority
<1>3. R.kind = "AGENT" /\ R.fence = o.fence /\ R.gen = o.gen /\ R.task = o.task /\ R.task = Task
  BY <1>0, <1>2 DEF SameAuthority
<1>4. /\ ~StaleExecutor(Session, p) /\ p.gen >= R.gen /\ p.kind # "STARTUP"
      /\ ~StalePermitOwner(Session, p)
  BY <1>1, <1>2, <1>3, StoredTests DEF StoreOf, Registered
<1>5. permit'[Session] = p
  BY DEF StoreOf
<1>6. CASE p.kind = "AGENT"
  <2>1. p.task = Task /\ p.fence # 0
    BY <1>0, <1>1, <1>6, PermitFields
  <2>2. p.fence >= R.fence
    BY <1>1, <1>2, <1>3, <1>4, <2>1 DEF StalePermitOwner
  <2>3. p.fence # R.fence \/ p.gen # R.gen
    BY <1>3, <1>6, <2>1 DEF SameAuthority
  <2>4. epoch'[Session].token = p.fence
    BY <1>1, <2>1 DEF StoreOf
  <2> QED BY <1>1, <1>2, <1>3, <1>4, <1>5, <2>2, <2>3, <2>4 DEF Passed
<1>7. CASE p.kind = "HUMAN"
  <2>1. Behind(m)
    BY <1>0, <1>3 DEF LateInv
  <2>2. p.fence # 0
    BY <1>1, <1>2, <1>4, <1>7, <2>1 DEF Behind
  <2>3. p.fence >= R.fence
    BY <1>1, <1>2, <1>3, <1>4, <2>2 DEF StalePermitOwner
  <2> QED BY <1>3, <1>5, <1>7, <2>3 DEF Passed
<1> QED BY <1>1, <1>4, <1>6, <1>7 DEF Granted

(* Storing the permit of a message keeps the registration in order, and a
   command that it overtakes does not come back. *)
LEMMA StoreStep ==
    ASSUME AInv, RowsInv', RowMove, NEW m \in Carried, NEW est, StoreOf(m, est), Delivered(m),
           NEW X, running'[Session] \subseteq Overtaken(Session, m.permit, est) \cup X,
           \A c \in X : c.owner.kind = "AGENT" =>
              c.sole /\ c.owner.fence # 0 /\ SameAuthority(c.owner, m.permit)
    PROVE  Registration' /\ CommandsInv'
<1> DEFINE p == m.permit
           R == permit[Session]
<1>0. RowsInv /\ FlightInv /\ Registration /\ CommandsInv /\ Tasks = {Task} /\ Task # NoTask
  BY Parameters DEF AInv
<1>1. /\ Granted(p) /\ Granted(p)' /\ p \in Permits /\ p.fence \in Nat /\ p.gen \in Nat
      /\ p.task \in Tasks \cup {NoTask} /\ (p.task = NoTask) = (p.fence = 0) /\ p # NoPermit
  BY <1>0, CarriedPermit, PermitFields, GrantedStays
<1>2. /\ row.owner \in Nat /\ row'.owner \in Nat /\ row'.owner >= row.owner
      /\ epoch[Session].token \in Nat
  BY <1>0, RegisteredNow DEF RowsInv, Rows, RowMove
<1>3. permit'[Session] = p /\ live'[Session] # "ABSENT"
  BY DEF StoreOf
<1>4. epoch'[Session].token \in Nat /\ epoch'[Session].token >= epoch[Session].token
  <2>1. CASE p.task = NoTask
    BY <1>2, <2>1 DEF StoreOf
  <2>2. CASE p.task # NoTask
    <3>1. epoch'[Session].token = p.fence
      BY <2>2 DEF StoreOf
    <3>2. epoch[Session] # NoEpoch => p.fence >= epoch[Session].token
      BY <1>1, <1>2, <2>2, StoredTests DEF StaleExecutor, StoreOf
    <3>3. epoch[Session] = NoEpoch => epoch[Session].token = 0
      BY DEF NoEpoch
    <3> QED BY <1>1, <1>2, <3>1, <3>2, <3>3
  <2> QED BY <2>1, <2>2
<1>5. Registration'
  <2>1. /\ epoch'[Session] # NoEpoch => epoch'[Session].task = Task /\ epoch'[Session].token # 0
        /\ epoch'[Session].token <= row'.owner
        /\ p.fence # 0 => epoch'[Session].token = p.fence
    <3>1. CASE p.task = NoTask
      <4>1. epoch'[Session] = epoch[Session] /\ p.fence = 0
        BY <1>1, <3>1 DEF StoreOf
      <4> QED BY <1>0, <1>2, <4>1 DEF Registration
    <3>2. CASE p.task # NoTask
      <4>1. epoch'[Session] = [task |-> p.task, token |-> p.fence] /\ p.fence # 0 /\ p.task = Task
        BY <1>0, <1>1, <3>2 DEF StoreOf
      <4>2. p.fence <= row'.owner
        BY <1>1 DEF Granted
      <4> QED BY <4>1, <4>2
    <3> QED BY <3>1, <3>2
  <2>2. Granted(permit[Session])'
    BY <1>1, <1>3
  <2> QED BY <1>1, <1>3, <2>1, <2>2 DEF Registration
<1>6. ASSUME NEW c \in running'[Session], c.owner.kind = "AGENT"
      PROVE  /\ c.owner.fence # 0 /\ c.owner.fence <= epoch'[Session].token
             /\ c.owner.gen <= permit'[Session].gen
             /\ IF c.sole THEN SameAuthority(c.owner, permit'[Session])
                ELSE Passed(c.owner.fence, c.owner.gen)'
  <2>1. CASE c \in X
    <3>1. c.sole /\ c.owner.fence # 0 /\ SameAuthority(c.owner, p)
      BY <1>6, <2>1
    <3>2. c.owner.fence = p.fence /\ c.owner.gen = p.gen
      BY <3>1 DEF SameAuthority
    <3>3. epoch'[Session].token = p.fence
      BY <1>1, <3>1, <3>2 DEF StoreOf
    <3> QED BY <1>1, <1>3, <3>1, <3>2, <3>3
  <2>2. CASE c \in Overtaken(Session, p, est)
    <3>1. PICK d \in running[Session] :
             c = [d EXCEPT !.sole = @ /\ (AcceptOutcome(Session, p, est) = "stored"
                                             => SameAuthority(d.owner, p))]
      BY <2>2 DEF Overtaken
    <3>2. d \in [owner : Owners, by : Sources, sole : BOOLEAN]
      BY RegisteredNow DEF Commands
    <3>3. AcceptOutcome(Session, p, est) = "stored"
      BY DEF StoreOf
    <3>4. c.owner = d.owner /\ c.sole = (d.sole /\ SameAuthority(d.owner, p))
      BY <3>1, <3>2, <3>3
    <3>5. d.owner.kind = "AGENT" /\ d.owner.fence \in Nat /\ d.owner.gen \in Nat
      BY <1>6, <3>4, RegisteredNow
    <3>6. R # NoPermit
      BY <1>0, StoredTests DEF Registration, StoreOf
    <3>7. /\ d.owner.fence # 0 /\ d.owner.fence <= epoch[Session].token
          /\ d.owner.gen <= R.gen
          /\ IF d.sole THEN SameAuthority(d.owner, R) ELSE Passed(d.owner.fence, d.owner.gen)
      BY <1>0, <3>5, <3>6 DEF CommandsInv
    <3>8. R.gen \in Nat /\ p.gen >= R.gen
      BY <1>1, <3>6, RegisteredNow, StoredTests DEF StoreOf, Registered
    <3>9. d.owner.fence <= epoch'[Session].token /\ d.owner.gen <= p.gen
      BY <1>1, <1>2, <1>4, <3>5, <3>7, <3>8
    <3>10. CASE c.sole
      BY <1>3, <3>4, <3>7, <3>9, <3>10
    <3>11. CASE ~c.sole /\ ~d.sole
      <4>1. Passed(d.owner.fence, d.owner.gen)'
        BY <3>5, <3>6, <3>7, <3>11, StillPassed
      <4> QED BY <1>3, <3>4, <3>7, <3>9, <3>11, <4>1
    <3>12. CASE ~c.sole /\ d.sole
      <4>1. ~SameAuthority(d.owner, p)
        BY <3>4, <3>12
      <4>2. Passed(d.owner.fence, d.owner.gen)'
        BY <3>5, <3>6, <3>7, <3>12, <4>1, NewlyPassed
      <4> QED BY <1>3, <3>4, <3>7, <3>9, <3>12, <4>2
    <3> QED BY <3>10, <3>11, <3>12
  <2> QED BY <2>1, <2>2
<1>7. CommandsInv'
  BY <1>6 DEF CommandsInv
<1> QED BY <1>5, <1>7

-----------------------------------------------------------------------------
(* How many messages travel. *)
LEMMA Count ==
    ASSUME NEW S, IsFiniteSet(S), NEW n
    PROVE  /\ Cardinality(S) \in Nat /\ IsFiniteSet(S \cup {n})
           /\ Cardinality(S \cup {n}) <= Cardinality(S) + 1
           /\ \A m \in S : /\ IsFiniteSet((S \ {m}) \cup {n})
                           /\ Cardinality((S \ {m}) \cup {n}) <= Cardinality(S)
           /\ \A T \in SUBSET S : IsFiniteSet(T) /\ Cardinality(T) <= Cardinality(S)
           /\ IsFiniteSet({n}) /\ Cardinality({n}) = 1
           /\ IsFiniteSet({}) /\ Cardinality({}) = 0
<1>1. Cardinality(S) \in Nat
  BY FS_CardinalityType
<1>2. ASSUME NEW T, IsFiniteSet(T)
      PROVE  IsFiniteSet(T \cup {n}) /\ Cardinality(T \cup {n}) <= Cardinality(T) + 1
  <2>1. IsFiniteSet(T \cup {n})
    BY <1>2, FS_AddElement
  <2>2. Cardinality(T) \in Nat
    BY <1>2, FS_CardinalityType
  <2>3. Cardinality(T \cup {n}) = Cardinality(T) \/ Cardinality(T \cup {n}) = Cardinality(T) + 1
    BY <1>2, FS_AddElement
  <2> QED BY <2>1, <2>2, <2>3
<1>3. ASSUME NEW m \in S
      PROVE  /\ IsFiniteSet((S \ {m}) \cup {n})
             /\ Cardinality((S \ {m}) \cup {n}) <= Cardinality(S)
  <2>1. IsFiniteSet(S \ {m}) /\ Cardinality(S \ {m}) = Cardinality(S) - 1
    BY FS_RemoveElement
  <2>2. /\ IsFiniteSet((S \ {m}) \cup {n})
        /\ Cardinality((S \ {m}) \cup {n}) <= Cardinality(S \ {m}) + 1
    BY <1>2, <2>1
  <2>3. Cardinality((S \ {m}) \cup {n}) \in Nat
    BY <2>2, FS_CardinalityType
  <2> QED BY <1>1, <2>1, <2>2, <2>3
<1>4. \A T \in SUBSET S : IsFiniteSet(T) /\ Cardinality(T) <= Cardinality(S)
  BY FS_Subset
<1>5. IsFiniteSet({n}) /\ Cardinality({n}) = 1
  BY FS_Singleton
<1>6. IsFiniteSet({}) /\ Cardinality({}) = 0
  BY FS_EmptySet
<1> QED BY <1>1, <1>2, <1>3, <1>4, <1>5, <1>6

(* What every message says of itself. *)
Sane(m) ==
    /\ m \in Messages
    /\ m.type \in {"ack", "accepted"} => m.sentAt <= m.serverTime
    /\ m.type \in {"heartbeat", "hello"} => m.sentAt <= now
    /\ m.type = "command" => CommandShape(m)

LEMMA FlightStep ==
    ASSUME AInv, RowsInv', RowMove, now' \in {now, now + 1}, NEW N, \A n, x \in N : n = x,
           flight' \subseteq flight \cup N, IsFiniteSet(flight'), Cardinality(flight') <= MaxFlight,
           hbSeen' \in Int,
           \A n \in N : Sane(n)' /\ NewMessage(n)',
           \A n \in N : n.type = "ack" => \A m \in flight : m.type = "ack" => m.sentAt < n.sentAt
    PROVE  FlightInv' /\ OrderInv'
<1>0. FlightInv /\ now \in Nat
  BY DEF AInv, IInv, ClockInv
<1>1. OrderInv' /\ \A m \in Carried' : Granted(m.permit)'
  BY MessagesStep
<1>2. ASSUME NEW m \in flight'
      PROVE  Sane(m)'
  <2>1. CASE m \in flight
    <3>1. Sane(m)
      BY <1>0, <2>1 DEF FlightInv, Sane
    <3>2. m.type \in {"heartbeat", "hello"} => m.sentAt \in Nat
      BY <3>1 DEF Sane, Messages, Heartbeats, Acks, Hellos, Accepteds, Reconciles, CommandMessages
    <3> QED BY <1>0, <3>1, <3>2 DEF Sane
  <2> QED BY <1>2, <2>1
<1>3. FlightInv'
  BY <1>1, <1>2 DEF FlightInv, Sane
<1> QED BY <1>1, <1>3

(* The rows move, nothing else does. *)
LEMMA ControlStep ==
    ASSUME AInv, UNCHANGED <<runtime, flight, hbSeen>>, RowsInv', RowMove
    PROVE  AInv'
<1>0. IInv /\ FlightInv /\ ConnectionInv /\ RowsInv
  BY DEF AInv
<1>e. PICK N : N = {}
  OBVIOUS
<1>n. /\ \A n, x \in N : n = x
      /\ \A n \in N : Sane(n)' /\ NewMessage(n)'
      /\ \A n \in N : n.type = "ack" => \A m \in flight : m.type = "ack" => m.sentAt < n.sentAt
      /\ flight' \subseteq flight \cup N
  BY <1>e
<1>1. IInv'
  BY <1>0, IdleIsGood DEF GoodStep, runtime, vars
<1>2. FlightInv' /\ OrderInv'
  <2>1. now' = now
    BY DEF runtime
  <2>2. IsFiniteSet(flight') /\ Cardinality(flight') <= MaxFlight /\ hbSeen' \in Int
    BY <1>0 DEF FlightInv
  <2> QED BY <1>n, <2>1, <2>2, FlightStep
<1>3. ConnectionInv'
  BY <1>0 DEF ConnectionInv, Handshaking, runtime
<1>4. LateInv'
  <2>1. permit'[Session] = permit[Session] /\ hbSeen' \in Int /\ hbSeen' >= hbSeen
    BY <1>0 DEF FlightInv, runtime, table
  <2> QED BY <1>n, <2>1, LateStays
<1>5. Registration' /\ CommandsInv'
  BY QuietStep DEF runtime, table, manager
<1> QED BY <1>1, <1>2, <1>3, <1>4, <1>5 DEF AInv

(* The Runtime moves without registering anything, and messages may leave. *)
LEMMA RuntimeMoves ==
    ASSUME AInv, IInv', UNCHANGED control, now' \in {now, now + 1}, flight' \subseteq flight,
           hbSeen' \in Int, hbSeen' >= hbSeen, ConnectionInv',
           permit'[Session] \in {permit[Session], NoPermit}, epoch'[Session] = epoch[Session],
           running'[Session] \subseteq running[Session],
           Session \notin revoked' =>
              /\ Session \notin revoked /\ permit'[Session] = permit[Session]
              /\ live'[Session] = "ABSENT" <=> live[Session] = "ABSENT"
    PROVE  AInv'
<1>0. FlightInv /\ RowsInv /\ now \in Nat /\ UNCHANGED <<row, task, human, checked>>
  BY DEF AInv, control, IInv, ClockInv
<1>e. PICK N : N = {}
  OBVIOUS
<1>n. /\ \A n, x \in N : n = x
      /\ \A n \in N : Sane(n)' /\ NewMessage(n)'
      /\ \A n \in N : n.type = "ack" => \A m \in flight : m.type = "ack" => m.sentAt < n.sentAt
      /\ flight' \subseteq flight \cup N
  BY <1>e
<1>1. RowsInv' /\ RowMove
  BY <1>0, RowsStay
<1>2. FlightInv' /\ OrderInv'
  <2>1. IsFiniteSet(flight') /\ Cardinality(flight') <= MaxFlight
    <3>1. /\ IsFiniteSet(flight) /\ Cardinality(flight) <= MaxFlight /\ MaxFlight \in Nat
          /\ Cardinality(flight) \in Nat
      BY <1>0, Parameters, Count DEF FlightInv
    <3>2. IsFiniteSet(flight') /\ Cardinality(flight') <= Cardinality(flight)
      BY <3>1, Count
    <3>3. Cardinality(flight') \in Nat
      BY <3>2, Count
    <3> QED BY <3>1, <3>2, <3>3
  <2> QED BY <1>n, <1>1, <2>1, FlightStep
<1>3. LateInv'
  BY <1>n, <1>1, LateStays
<1>4. Registration' /\ CommandsInv'
  BY <1>1, QuietStep
<1> QED BY <1>1, <1>2, <1>3, <1>4 DEF AInv

(* A connection that stays up while messages leave. *)
LEMMA ConnectionStays ==
    ASSUME ConnectionInv, connected' = connected, flight' \subseteq flight
    PROVE  ConnectionInv'
  BY DEF ConnectionInv, Handshaking

-----------------------------------------------------------------------------
(* The control plane's transactions. *)
LEMMA RowFacts ==
    ASSUME AInv
    PROVE  /\ RowsInv /\ row \in Rows /\ task \in TaskRows /\ now \in Nat
           /\ row.lease \in Nat /\ row.gen \in Nat /\ row.owner \in Nat /\ row.permitExp \in Nat
           /\ row.humanExp \in Nat /\ task.fence \in Nat /\ task.lease \in Nat /\ task.humanExp \in Nat
           /\ row.setting.sessionLease \in Nat \ {0} /\ row.setting.taskLease \in Nat \ {0}
           /\ row.setting.claims \in Nat /\ row.setting.controls \in Nat
           /\ HumanTTL \in Nat /\ StartupWindow \in Nat /\ ResumeBudget \in Nat
<1>1. RowsInv /\ row \in Rows /\ task \in TaskRows /\ now \in Nat
  BY DEF AInv, RowsInv, IInv, ClockInv
<1> QED BY <1>1, Parameters DEF SessionLease, TaskLease, MaxFence, MaxGen

(* activateOpenedSession makes the session active under its first lease. *)
LEMMA ActivateKeeps ==
    ASSUME AInv, Activate
    PROVE  AInv'
<1>0. /\ RowsInv /\ row \in Rows /\ task \in TaskRows /\ now \in Nat /\ task.fence \in Nat
      /\ row.gen \in Nat /\ row.owner \in Nat /\ task.lease \in Nat /\ TaskLease \in Nat
      /\ MaxGen \in Nat /\ MaxFence \in Nat
      /\ now + SessionLease \in Nat
  BY RowFacts DEF TaskLease, MaxGen, MaxFence, SessionLease
<1>1. row' \in Rows
  BY <1>0 DEF Activate, Rows, Open
<1>2. task' \in TaskRows
  BY <1>0 DEF Activate, TaskRows
<1>3. /\ row'.setting = row.setting /\ now' = now
      /\ row'.status = "ACTIVE" /\ row.status = "OPENING"
      /\ row'.gen = row.gen /\ row'.owner = row.owner
      /\ task' = task
      /\ human' = human /\ checked' = checked
  BY <1>0 DEF Activate, Rows, TaskRows, runtime, RowsInv, MaxGen, MaxFence
<1>4. RowsInv'
  BY <1>0, <1>1, <1>2, <1>3 DEF RowsInv, TaskLease, MaxGen, MaxFence
<1>5. ASSUME NEW e \in Nat, LeaseBound(e)
      PROVE  LeaseBound(e)'
  BY <1>0, <1>3, <1>5 DEF LeaseBound, TaskLease
<1>6. RowMove
  BY <1>0, <1>3, <1>5 DEF RowMove
<1> QED BY <1>4, <1>6, ControlStep DEF Activate

(* The runner's check: the agent that owns the session has claimed it. *)
LEMMA AgentCommandCheckedKeeps ==
    ASSUME AInv, AgentCommandChecked
    PROVE  AInv'
<1>0. /\ RowsInv /\ now \in Nat /\ task.fence \in Nat /\ row.gen \in Nat /\ row.owner \in Nat
      /\ task.lease \in Nat /\ TaskLease \in Nat /\ MaxFence \in Nat
  BY RowFacts DEF TaskLease, MaxFence
<1>1. row' = row /\ task' = task /\ human' = human /\ now' = now /\ checked' = checked \cup {task.fence}
  BY DEF AgentCommandChecked, runtime
<1>2. task.fence # 0 /\ task.fence <= MaxFence /\ checked \subseteq 1..MaxFence
  BY <1>0 DEF AgentCommandChecked, RowsInv
<1>3. checked' \subseteq 1..MaxFence
  <2>1. task.fence \in 1..MaxFence
    BY <1>0, <1>2 DEF MaxFence
  <2> QED BY <1>1, <1>2, <2>1
<1>4. RowsInv'
  BY <1>0, <1>1, <1>3 DEF RowsInv, TaskLease, MaxGen, MaxFence
<1>5. \A e \in Nat : LeaseBound(e) => LeaseBound(e)'
  BY <1>0, <1>1 DEF LeaseBound, TaskLease
<1>6. RowMove
  BY <1>0, <1>1, <1>5 DEF RowMove
<1> QED BY <1>4, <1>6, ControlStep DEF AgentCommandChecked

(* A claim moves the owner's epoch on; the session is active, no human holds it. *)
LEMMA ClaimKeeps ==
    ASSUME AInv, Claim
    PROVE  AInv'
<1>0. /\ RowsInv /\ row \in Rows /\ task \in TaskRows /\ now \in Nat /\ task.fence \in Nat
      /\ row.gen \in Nat /\ row.owner \in Nat /\ task.lease \in Nat /\ TaskLease \in Nat
      /\ MaxGen \in Nat /\ MaxFence \in Nat
      /\ now + TaskLease \in Nat
      /\ task.fence + 1 \in Nat
  BY RowFacts DEF TaskLease, MaxGen, MaxFence
<1>1. row' \in Rows
  BY <1>0 DEF Claim, Rows, Open
<1>2. task' \in TaskRows
  BY <1>0 DEF Claim, TaskRows
<1>3. /\ row'.setting = row.setting /\ now' = now
      /\ row'.status = row.status /\ row.status = "ACTIVE" /\ row'.gen = row.gen
      /\ row'.owner = task.fence + 1 /\ task.fence < MaxFence /\ row.owner \in {0, task.fence}
      /\ task'.status = "RUNNING" /\ task'.fence = task.fence + 1 /\ task'.lease = now + TaskLease
      /\ task'.recovery = task.recovery /\ task.status = "PENDING"
      /\ human' = human /\ checked' = checked
  BY <1>0 DEF Claim, Rows, TaskRows, runtime, RowsInv, MaxGen, MaxFence
<1>4. RowsInv'
  BY <1>0, <1>1, <1>2, <1>3 DEF RowsInv, TaskLease, MaxGen, MaxFence
<1>5. ASSUME NEW e \in Nat, LeaseBound(e)
      PROVE  LeaseBound(e)'
  BY <1>0, <1>3, <1>5 DEF LeaseBound, TaskLease
<1>6. RowMove
  BY <1>0, <1>3, <1>5 DEF RowMove
<1> QED BY <1>4, <1>6, ControlStep DEF Claim

(* A renewal only extends the lease of the task. *)
LEMMA AgentHeartbeatKeeps ==
    ASSUME AInv, AgentHeartbeat
    PROVE  AInv'
<1>0. /\ RowsInv /\ row \in Rows /\ task \in TaskRows /\ now \in Nat /\ task.fence \in Nat
      /\ row.gen \in Nat /\ row.owner \in Nat /\ task.lease \in Nat /\ TaskLease \in Nat
      /\ MaxGen \in Nat /\ MaxFence \in Nat
      /\ now + TaskLease \in Nat
  BY RowFacts DEF TaskLease, MaxGen, MaxFence
<1>1. row' \in Rows
  BY <1>0 DEF AgentHeartbeat, Rows, Open
<1>2. task' \in TaskRows
  BY <1>0 DEF AgentHeartbeat, TaskRows
<1>3. /\ row'.setting = row.setting /\ now' = now
      /\ row'.status = row.status /\ row'.gen = row.gen /\ row'.owner = row.owner
      /\ task'.status = "RUNNING" /\ task.status = "RUNNING" /\ task'.fence = task.fence
      /\ task'.recovery = task.recovery /\ task'.lease = now + TaskLease /\ task.lease < now + TaskLease
      /\ human' = human /\ checked' = checked
  BY <1>0 DEF AgentHeartbeat, Rows, TaskRows, runtime, RowsInv, MaxGen, MaxFence
<1>4. RowsInv'
  BY <1>0, <1>1, <1>2, <1>3 DEF RowsInv, TaskLease, MaxGen, MaxFence
<1>5. ASSUME NEW e \in Nat, LeaseBound(e)
      PROVE  LeaseBound(e)'
  BY <1>0, <1>3, <1>5 DEF LeaseBound, TaskLease
<1>6. RowMove
  BY <1>0, <1>3, <1>5 DEF RowMove
<1> QED BY <1>4, <1>6, ControlStep DEF AgentHeartbeat

(* The task waits for a person and gives up its lease. *)
LEMMA RequestHumanKeeps ==
    ASSUME AInv, RequestHuman
    PROVE  AInv'
<1>0. /\ RowsInv /\ row \in Rows /\ task \in TaskRows /\ now \in Nat /\ task.fence \in Nat
      /\ row.gen \in Nat /\ row.owner \in Nat /\ task.lease \in Nat /\ TaskLease \in Nat
      /\ MaxGen \in Nat /\ MaxFence \in Nat
      /\ now + HumanTTL \in Nat
  BY RowFacts DEF TaskLease, MaxGen, MaxFence
<1>1. row' \in Rows
  BY <1>0 DEF RequestHuman, Rows, Open
<1>2. task' \in TaskRows
  BY <1>0 DEF RequestHuman, TaskRows
<1>3. /\ row'.setting = row.setting /\ now' = now
      /\ row'.status = row.status /\ row'.gen = row.gen /\ row'.owner = row.owner
      /\ task'.status = "WAITING_HUMAN" /\ task.status = "RUNNING" /\ task'.fence = task.fence
      /\ task'.recovery = task.recovery
      /\ human' = human /\ checked' = checked
  BY <1>0 DEF RequestHuman, Rows, TaskRows, runtime, RowsInv, MaxGen, MaxFence
<1>4. RowsInv'
  BY <1>0, <1>1, <1>2, <1>3 DEF RowsInv, TaskLease, MaxGen, MaxFence
<1>5. ASSUME NEW e \in Nat, LeaseBound(e)
      PROVE  LeaseBound(e)'
  BY <1>0, <1>3, <1>5 DEF LeaseBound, TaskLease
<1>6. RowMove
  BY <1>0, <1>3, <1>5 DEF RowMove
<1> QED BY <1>4, <1>6, ControlStep DEF RequestHuman

(* The intervention is resolved, the task waits to be claimed. *)
LEMMA ResolveHumanKeeps ==
    ASSUME AInv, ResolveHuman
    PROVE  AInv'
<1>0. /\ RowsInv /\ row \in Rows /\ task \in TaskRows /\ now \in Nat /\ task.fence \in Nat
      /\ row.gen \in Nat /\ row.owner \in Nat /\ task.lease \in Nat /\ TaskLease \in Nat
      /\ MaxGen \in Nat /\ MaxFence \in Nat
      /\ now + ResumeBudget \in Nat
      /\ now + Earlier(ResumeBudget, StartupWindow) \in Nat
  BY RowFacts DEF TaskLease, MaxGen, MaxFence, Earlier
<1>1. row' \in Rows
  BY <1>0 DEF ResolveHuman, Rows, Open
<1>2. task' \in TaskRows
  BY <1>0 DEF ResolveHuman, TaskRows
<1>3. /\ row'.setting = row.setting /\ now' = now
      /\ row'.status = row.status /\ row'.gen = row.gen /\ row'.owner = row.owner
      /\ task'.status = "PENDING" /\ task.status = "WAITING_HUMAN" /\ task'.fence = task.fence
      /\ task'.recovery = task.recovery
      /\ human' = human /\ checked' = checked
  BY <1>0 DEF ResolveHuman, Rows, TaskRows, runtime, RowsInv, MaxGen, MaxFence
<1>4. RowsInv'
  BY <1>0, <1>1, <1>2, <1>3 DEF RowsInv, TaskLease, MaxGen, MaxFence
<1>5. ASSUME NEW e \in Nat, LeaseBound(e)
      PROVE  LeaseBound(e)'
  BY <1>0, <1>3, <1>5 DEF LeaseBound, TaskLease
<1>6. RowMove
  BY <1>0, <1>3, <1>5 DEF RowMove
<1> QED BY <1>4, <1>6, ControlStep DEF ResolveHuman

(* A lost task was running under an expired lease, or was not claimed at all. *)
LEMMA RecoverExpiredLeaseKeeps ==
    ASSUME AInv, RecoverExpiredLease
    PROVE  AInv'
<1>0. /\ RowsInv /\ row \in Rows /\ task \in TaskRows /\ now \in Nat /\ task.fence \in Nat
      /\ row.gen \in Nat /\ row.owner \in Nat /\ task.lease \in Nat /\ TaskLease \in Nat
      /\ MaxGen \in Nat /\ MaxFence \in Nat
      /\ task.fence + 1 \in Nat
  BY RowFacts DEF TaskLease, MaxGen, MaxFence
<1>1. row' \in Rows
  BY <1>0 DEF RecoverExpiredLease, Rows, Open
<1>2. task' \in TaskRows
  BY <1>0 DEF RecoverExpiredLease, TaskRows
<1>3. /\ row'.setting = row.setting /\ now' = now
      /\ row'.status = row.status /\ row'.gen = row.gen /\ row'.owner = row.owner
      /\ task'.status = "FAILED" /\ task.status \in {"RUNNING", "PENDING"} /\ task'.fence = task.fence + 1
      /\ task.status = "RUNNING" => task.lease <= now
      /\ task'.recovery = "PENDING" => task.status = "RUNNING"
      /\ human' = human /\ checked' = checked
  BY <1>0 DEF RecoverExpiredLease, Rows, TaskRows, runtime, RowsInv, MaxGen, MaxFence, UnclaimableHumanResume
<1>4. RowsInv'
  BY <1>0, <1>1, <1>2, <1>3 DEF RowsInv, TaskLease, MaxGen, MaxFence
<1>5. ASSUME NEW e \in Nat, LeaseBound(e)
      PROVE  LeaseBound(e)'
  BY <1>0, <1>3, <1>5 DEF LeaseBound, TaskLease
<1>6. RowMove
  BY <1>0, <1>3, <1>5 DEF RowMove
<1> QED BY <1>4, <1>6, ControlStep DEF RecoverExpiredLease

(* A takeover has a generation of its own. *)
LEMMA TakeoverKeeps ==
    ASSUME AInv, Takeover
    PROVE  AInv'
<1>0. /\ RowsInv /\ row \in Rows /\ task \in TaskRows /\ now \in Nat /\ task.fence \in Nat
      /\ row.gen \in Nat /\ row.owner \in Nat /\ task.lease \in Nat /\ TaskLease \in Nat
      /\ MaxGen \in Nat /\ MaxFence \in Nat
      /\ now + HumanTTL \in Nat
      /\ row.gen + 1 \in Nat
  BY RowFacts DEF TaskLease, MaxGen, MaxFence
<1>1. row' \in Rows
  BY <1>0 DEF Takeover, Rows, Open
<1>2. task' \in TaskRows
  BY <1>0 DEF Takeover, TaskRows
<1>3. /\ row'.setting = row.setting /\ now' = now
      /\ row'.status = "HUMAN_CONTROL" /\ row.status = "ACTIVE" /\ row'.gen = row.gen + 1 /\ row.gen < MaxGen
      /\ row'.owner = row.owner
      /\ task' = task
      /\ human' = "TAKING" /\ checked' = checked
  BY <1>0 DEF Takeover, Rows, TaskRows, runtime, RowsInv, MaxGen, MaxFence
<1>4. RowsInv'
  BY <1>0, <1>1, <1>2, <1>3 DEF RowsInv, TaskLease, MaxGen, MaxFence
<1>5. ASSUME NEW e \in Nat, LeaseBound(e)
      PROVE  LeaseBound(e)'
  BY <1>0, <1>3, <1>5 DEF LeaseBound, TaskLease
<1>6. RowMove
  BY <1>0, <1>3, <1>5 DEF RowMove
<1> QED BY <1>4, <1>6, ControlStep DEF Takeover

(* A takeover that is rolled back takes a generation of its own. *)
LEMMA TakeoverAnsweredKeeps ==
    ASSUME AInv, TakeoverAnswered
    PROVE  AInv'
<1>0. /\ RowsInv /\ row \in Rows /\ task \in TaskRows /\ now \in Nat /\ task.fence \in Nat
      /\ row.gen \in Nat /\ row.owner \in Nat /\ task.lease \in Nat /\ TaskLease \in Nat
      /\ MaxGen \in Nat /\ MaxFence \in Nat
      /\ row.gen + 1 \in Nat
  BY RowFacts DEF TaskLease, MaxGen, MaxFence
<1>1. row' \in Rows
  <2>1. [row EXCEPT !.status = "ACTIVE", !.gen = row.gen + 1, !.humanExp = 0] \in Rows
    BY <1>0 DEF Rows, Open
  <2> QED BY <1>0, <2>1 DEF TakeoverAnswered
<1>2. task' \in TaskRows
  BY <1>0 DEF TakeoverAnswered, TaskRows
<1>3. /\ row'.setting = row.setting /\ now' = now
      /\ row'.owner = row.owner
      /\ row' = row \/ (row'.status = "ACTIVE" /\ row.status = "HUMAN_CONTROL" /\ row'.gen = row.gen + 1 /\ row.gen < MaxGen)
      /\ task' = task
      /\ human' \in {"HOLDING", "IDLE"} /\ checked' = checked
  BY <1>0 DEF TakeoverAnswered, Rows, TaskRows, runtime, RowsInv, MaxGen, MaxFence
<1>4. RowsInv'
  BY <1>0, <1>1, <1>2, <1>3 DEF RowsInv, TaskLease, MaxGen, MaxFence
<1>5. ASSUME NEW e \in Nat, LeaseBound(e)
      PROVE  LeaseBound(e)'
  BY <1>0, <1>3, <1>5 DEF LeaseBound, TaskLease
<1>6. RowMove
  BY <1>0, <1>3, <1>5 DEF RowMove
<1> QED BY <1>4, <1>6, ControlStep DEF TakeoverAnswered

(* So does the release. *)
LEMMA ReleaseAnsweredKeeps ==
    ASSUME AInv, ReleaseAnswered
    PROVE  AInv'
<1>0. /\ RowsInv /\ row \in Rows /\ task \in TaskRows /\ now \in Nat /\ task.fence \in Nat
      /\ row.gen \in Nat /\ row.owner \in Nat /\ task.lease \in Nat /\ TaskLease \in Nat
      /\ MaxGen \in Nat /\ MaxFence \in Nat
      /\ row.gen + 1 \in Nat
      /\ Earlier(row.lease, now + StartupWindow) \in Nat
  BY RowFacts DEF TaskLease, MaxGen, MaxFence, Earlier
<1>1. row' \in Rows
  <2> DEFINE due == IF row.owner = 0 THEN Earlier(row.lease, now + StartupWindow) ELSE row.permitExp
             freed == [row EXCEPT !.status = "ACTIVE", !.gen = row.gen + 1, !.humanExp = 0,
                                  !.permitExp = due]
  <2>1. due \in Nat
    BY <1>0, RowFacts
  <2>2. row' \in {row, freed}
    BY DEF ReleaseAnswered
  <2> HIDE DEF due
  <2>3. freed \in Rows
    BY <1>0, <2>1 DEF Rows, Open
  <2> QED BY <1>0, <2>2, <2>3
<1>2. task' \in TaskRows
  BY <1>0 DEF ReleaseAnswered, TaskRows
<1>3. /\ row'.setting = row.setting /\ now' = now
      /\ row'.owner = row.owner
      /\ row' = row \/ (row'.status = "ACTIVE" /\ row.status = "HUMAN_CONTROL" /\ row'.gen = row.gen + 1 /\ row.gen < MaxGen)
      /\ task' = task
      /\ human' \in {"HOLDING", "IDLE"} /\ checked' = checked
  BY <1>0 DEF ReleaseAnswered, Rows, TaskRows, runtime, RowsInv, MaxGen, MaxFence
<1>4. RowsInv'
  BY <1>0, <1>1, <1>2, <1>3 DEF RowsInv, TaskLease, MaxGen, MaxFence
<1>5. ASSUME NEW e \in Nat, LeaseBound(e)
      PROVE  LeaseBound(e)'
  BY <1>0, <1>3, <1>5 DEF LeaseBound, TaskLease
<1>6. RowMove
  BY <1>0, <1>3, <1>5 DEF RowMove
<1> QED BY <1>4, <1>6, ControlStep DEF ReleaseAnswered

(* Expired sessions and takeovers are quarantined. *)
LEMMA SweepSessionKeeps ==
    ASSUME AInv, SweepSession
    PROVE  AInv'
<1>0. /\ RowsInv /\ row \in Rows /\ task \in TaskRows /\ now \in Nat /\ task.fence \in Nat
      /\ row.gen \in Nat /\ row.owner \in Nat /\ task.lease \in Nat /\ TaskLease \in Nat
      /\ MaxGen \in Nat /\ MaxFence \in Nat
      /\ row.gen + 1 \in Nat
  BY RowFacts DEF TaskLease, MaxGen, MaxFence
<1>1. row' \in Rows
  <2> DEFINE lost == [row EXCEPT !.status = "LOST", !.quarantined = TRUE, !.permitExp = now,
                                 !.humanExp = 0]
  <2>1. lost \in Rows /\ lost.gen = row.gen
    BY <1>0 DEF Rows, Open
  <2>2. row' \in {lost, [lost EXCEPT !.gen = lost.gen + 1]}
    BY DEF SweepSession, Quarantined
  <2> HIDE DEF lost
  <2>3. [lost EXCEPT !.gen = lost.gen + 1] \in Rows
    BY <1>0, <2>1 DEF Rows
  <2> QED BY <2>1, <2>2, <2>3
<1>2. task' \in TaskRows
  BY <1>0 DEF SweepSession, TaskRows
<1>3. /\ row'.setting = row.setting /\ now' = now
      /\ row'.owner = row.owner /\ row'.status = "LOST" /\ row.status \in Open
      /\ row'.gen = row.gen \/ (row'.gen = row.gen + 1 /\ row.status = "HUMAN_CONTROL")
      /\ task' = task
      /\ human' = human /\ checked' = checked
  BY <1>0 DEF SweepSession, Rows, TaskRows, runtime, RowsInv, MaxGen, MaxFence, Quarantined
<1>4. RowsInv'
  BY <1>0, <1>1, <1>2, <1>3 DEF RowsInv, TaskLease, MaxGen, MaxFence
<1>5. ASSUME NEW e \in Nat, LeaseBound(e)
      PROVE  LeaseBound(e)'
  BY <1>0, <1>3, <1>5 DEF LeaseBound, TaskLease
<1>6. RowMove
  BY <1>0, <1>3, <1>5 DEF RowMove
<1> QED BY <1>4, <1>6, ControlStep DEF SweepSession

-----------------------------------------------------------------------------
(* Commands are sent. *)
LEMMA SendStep ==
    ASSUME AInv, UNCHANGED <<runtime, row, task, hbSeen>>, RowsInv', Room,
           NEW n \in CommandMessages, flight' = flight \cup {n}, CommandShape(n),
           Granted(n.permit), OfRows(n.permit),
           n.permit.kind = "HUMAN" /\ n.permit.fence # 0 => row.status = "HUMAN_CONTROL"
    PROVE  AInv'
<1>0. /\ IInv /\ FlightInv /\ ConnectionInv /\ RowsInv /\ now \in Nat
      /\ now' = now /\ permit'[Session] = permit[Session] /\ hbSeen' = hbSeen /\ hbSeen \in Int
  BY DEF AInv, IInv, ClockInv, FlightInv, runtime, table
<1>1. IInv'
  BY <1>0, IdleIsGood DEF GoodStep, runtime, vars
<1>2. RowMove
  BY <1>0, RowFacts DEF RowMove, LeaseBound, TaskLease
<1>3. n.type = "command" /\ n \in Messages
  BY DEF CommandMessages, Messages
<1>4. \A x \in {n} : Sane(x)' /\ NewMessage(x)'
  <2>1. Sane(n)'
    BY <1>3 DEF Sane, CommandShape
  <2>2. Granted(n.permit)'
    BY <1>0, <1>2, GrantedStays
  <2>3. OfRows(n.permit)'
    BY DEF OfRows
  <2> QED BY <2>1, <2>2, <2>3 DEF NewMessage
<1>5. PICK N : N = {n}
  OBVIOUS
<1>6. /\ \A x, y \in N : x = y
      /\ \A x \in N : Sane(x)' /\ NewMessage(x)'
      /\ \A x \in N : x.type = "ack" => \A m \in flight : m.type = "ack" => m.sentAt < x.sentAt
      /\ flight' \subseteq flight \cup N
  BY <1>3, <1>4, <1>5
<1>7. IsFiniteSet(flight') /\ Cardinality(flight') <= MaxFlight
  <2>1. /\ IsFiniteSet(flight') /\ Cardinality(flight') <= Cardinality(flight) + 1
        /\ Cardinality(flight) \in Nat
    BY <1>0, Count DEF FlightInv
  <2>2. Cardinality(flight') \in Nat /\ MaxFlight \in Nat
    BY <1>0, <2>1, Count, Parameters
  <2> QED BY <2>1, <2>2 DEF Room
<1>8. FlightInv' /\ OrderInv'
  BY <1>0, <1>2, <1>6, <1>7, FlightStep
<1>9. LateInv'
  BY <1>0, <1>2, <1>6, LateStays
<1>10. ConnectionInv'
  BY <1>0, <1>3 DEF ConnectionInv, Handshaking, runtime
<1>11. Registration' /\ CommandsInv'
  BY <1>2, QuietStep DEF runtime, table, manager
<1> QED BY <1>1, <1>8, <1>9, <1>10, <1>11 DEF AInv

(* The message of Send carries a permit of the rows. *)
LEMMA Sending ==
    ASSUME AInv, Dispatchable, Room, UNCHANGED <<runtime, row, task, hbSeen>>, RowsInv',
           NEW by \in Sources, NEW op \in {"open", "page", "takeover", "release"}, NEW fence \in Nat,
           Send(by, op, fence),
           PermitOf(row.lease).kind = "STARTUP" <=> op = "open",
           task.status = "RUNNING" \/ row.owner = 0 \/ row.status = "HUMAN_CONTROL"
    PROVE  AInv'
<1> DEFINE p == PermitOf(row.lease)
           owner == [kind |-> p.kind, gen |-> p.gen, task |-> IF fence = 0 THEN p.task ELSE Task,
                     fence |-> IF fence = 0 THEN p.fence ELSE fence]
           n == [type |-> "command", by |-> by, op |-> op, permit |-> p, owner |-> owner]
<1>0. RowsInv /\ now \in Nat /\ row.lease \in Nat /\ Tasks = {Task}
  BY RowFacts, Parameters
<1>1. Granted(p) /\ OfRows(p)
  BY <1>0, GrantOfRows DEF Dispatchable
<1>2. /\ p \in Permits /\ p.kind \in OwnerKinds /\ p.task \in Tasks \cup {NoTask}
      /\ p.fence \in Nat /\ p.gen \in Nat
  BY <1>1, PermitFields DEF Granted
<1>3. flight' = flight \cup {n}
  BY DEF Send
<1>4. p.kind = "HUMAN" /\ p.fence # 0 => row.status = "HUMAN_CONTROL"
  BY <1>1 DEF OfRows
<1> HIDE DEF p
<1>5. owner \in Owners /\ owner.kind = p.kind /\ owner.gen = p.gen
  BY <1>0, <1>2 DEF Owners
<1> HIDE DEF owner
<1>6. n \in CommandMessages
  BY <1>2, <1>5 DEF CommandMessages
<1>7. CommandShape(n)
  BY <1>5 DEF CommandShape, p
<1>8. n.permit = p
  OBVIOUS
<1> HIDE DEF n
<1> QED BY <1>1, <1>3, <1>4, <1>6, <1>7, <1>8, SendStep

(* Only who sends is left to say. *)
LEMMA DispatchOpenKeeps ==
    ASSUME AInv, DispatchOpen
    PROVE  AInv'
<1>1. RowsInv /\ row.owner = 0 /\ row.status = "OPENING"
  BY DEF DispatchOpen, AInv, RowsInv
<1>2. RowsInv'
  BY <1>1 DEF RowsInv, DispatchOpen, runtime, control, TaskLease, MaxGen, MaxFence
<1>3. OfRows(PermitOf(row.lease)) /\ Granted(PermitOf(row.lease))
  BY RowFacts, GrantOfRows DEF DispatchOpen, Dispatchable
<1>4. PermitOf(row.lease).kind = "STARTUP"
  BY <1>1, <1>3, PermitFields DEF OfRows, Granted
<1> QED BY <1>1, <1>2, <1>4, Sending DEF DispatchOpen, Sources, control

LEMMA AgentCommandDispatchedKeeps ==
    ASSUME AInv, NEW f \in checked, AgentCommandDispatched(f)
    PROVE  AInv'
<1>0. /\ RowsInv /\ checked \subseteq 1..MaxFence /\ MaxFence \in Nat
  BY RowFacts DEF RowsInv, MaxFence
<1>1. f \in Nat /\ f # 0
  BY <1>0 DEF MaxFence
<1>2. RowsInv'
  BY <1>0 DEF RowsInv, AgentCommandDispatched, runtime, TaskLease, MaxGen, MaxFence
<1>3. CASE UNCHANGED flight
  <2>1. RowMove
    BY <1>0, RowFacts DEF RowMove, LeaseBound, TaskLease, AgentCommandDispatched, runtime
  <2> QED BY <1>2, <1>3, <2>1, ControlStep DEF AgentCommandDispatched
<1>4. CASE ~UNCHANGED flight
  <2>1. Dispatchable /\ task.status = "RUNNING" /\ row.owner = f /\ Send("AGENT", "page", f)
    BY <1>4 DEF AgentCommandDispatched
  <2>2. OfRows(PermitOf(row.lease))
    BY <2>1, RowFacts, GrantOfRows DEF Dispatchable
  <2>3. PermitOf(row.lease).kind # "STARTUP"
    BY <1>1, <2>1, <2>2 DEF OfRows
  <2> QED BY <1>1, <1>2, <2>1, <2>3, Sending DEF AgentCommandDispatched, Sources
<1> QED BY <1>3, <1>4

LEMMA TakeoverDispatchedKeeps ==
    ASSUME AInv, TakeoverDispatched
    PROVE  AInv'
<1>0. RowsInv
  BY RowFacts
<1>1. RowsInv'
  BY <1>0 DEF RowsInv, TakeoverDispatched, runtime, TaskLease, MaxGen, MaxFence
<1>2. CASE Dispatchable
  <2>1. row.status = "HUMAN_CONTROL"
    BY <1>0, <1>2 DEF RowsInv, TakeoverDispatched, Dispatchable, Open
  <2>2. OfRows(PermitOf(row.lease))
    BY <1>2, RowFacts, GrantOfRows DEF Dispatchable
  <2>3. PermitOf(row.lease).kind = "HUMAN"
    BY <2>1, <2>2 DEF OfRows
  <2>4. Send("HUMAN", "takeover", 0)
    BY <1>2 DEF TakeoverDispatched
  <2> QED BY <1>1, <1>2, <2>1, <2>3, <2>4, Sending DEF TakeoverDispatched, Sources
<1>3. CASE ~Dispatchable
  <2>1. RowMove
    BY <1>0, RowFacts DEF RowMove, LeaseBound, TaskLease, TakeoverDispatched, runtime
  <2> QED BY <1>1, <1>3, <2>1, ControlStep DEF TakeoverDispatched
<1> QED BY <1>2, <1>3

LEMMA ReleaseDispatchedKeeps ==
    ASSUME AInv, ReleaseDispatched
    PROVE  AInv'
<1>0. RowsInv
  BY RowFacts
<1>1. RowsInv'
  BY <1>0 DEF RowsInv, ReleaseDispatched, runtime, TaskLease, MaxGen, MaxFence
<1>2. CASE row.status = "HUMAN_CONTROL" /\ Dispatchable
  <2>1. OfRows(PermitOf(row.lease))
    BY <1>2, RowFacts, GrantOfRows DEF Dispatchable
  <2>2. PermitOf(row.lease).kind = "HUMAN"
    BY <1>2, <2>1 DEF OfRows
  <2>3. Send("HUMAN", "release", 0)
    BY <1>2 DEF ReleaseDispatched
  <2> QED BY <1>1, <1>2, <2>2, <2>3, Sending DEF ReleaseDispatched, Sources
<1>3. CASE ~(row.status = "HUMAN_CONTROL" /\ Dispatchable)
  <2>1. RowMove
    BY <1>0, RowFacts DEF RowMove, LeaseBound, TaskLease, ReleaseDispatched, runtime
  <2> QED BY <1>1, <1>3, <2>1, ControlStep DEF ReleaseDispatched
<1> QED BY <1>2, <1>3

-----------------------------------------------------------------------------
(* The Runtime by itself: time, launches, the watchdog, closings, second
   checks.  Permits only disappear. *)
LEMMA Domains ==
    ASSUME AInv
    PROVE  /\ Session \in Sessions /\ Session \in DOMAIN permit /\ Session \in DOMAIN live
           /\ Session \in DOMAIN epoch /\ Session \in DOMAIN running /\ Session \in DOMAIN deadline
           /\ IInv /\ FlightInv /\ ConnectionInv /\ hbSeen \in Int /\ now \in Nat
           /\ live[Session] \in LiveStates
<1>1. Session \in Sessions
  BY Parameters DEF AInv
<1> QED BY <1>1 DEF AInv, IInv, TableInv, TableType, ManagerType, ClockInv, FlightInv

LEMMA RuntimeStepKeeps ==
    ASSUME AInv, RuntimeStep
    PROVE  AInv'
<1>0. /\ Session \in Sessions /\ IInv /\ ConnectionInv /\ hbSeen \in Int /\ now \in Nat
      /\ UNCHANGED <<control, flight, hbSeen>>
  BY Domains DEF RuntimeStep
<1>1. CASE Tick
  <2>1. IInv'
    BY <1>0, <1>1, TickIsGood DEF GoodStep
  <2>2. UNCHANGED <<connected, permit, epoch, revoked, live, running>> /\ now' = now + 1
    BY <1>1 DEF Tick, table, manager
  <2> QED BY <1>0, <2>1, <2>2, ConnectionStays, RuntimeMoves
<1>2. CASE OpenFinished(Session)
  <2>1. IInv'
    BY <1>0, <1>2, OpenFinishedIsGood DEF GoodStep
  <2>2. UNCHANGED <<connected, epoch, running, now>>
    BY <1>2 DEF OpenFinished, Revoke, table
  <2>3. /\ permit'[Session] \in {permit[Session], NoPermit}
        /\ Session \notin revoked' =>
              /\ Session \notin revoked /\ permit'[Session] = permit[Session]
              /\ live'[Session] = "ABSENT" <=> live[Session] = "ABSENT"
    BY <1>2, Domains DEF OpenFinished, Revoke, table
  <2> QED BY <1>0, <2>1, <2>2, <2>3, ConnectionStays, RuntimeMoves
<1>3. CASE Watchdog(Session)
  <2>1. IInv'
    BY <1>0, <1>3, WatchdogIsGood DEF GoodStep
  <2>2. UNCHANGED <<connected, epoch, running, now, live>>
    BY <1>3 DEF Watchdog, Revoke, Interrupt
  <2>3. permit'[Session] = NoPermit /\ Session \in revoked'
    BY <1>3, Domains DEF Watchdog, Revoke, Interrupt
  <2> QED BY <1>0, <2>1, <2>2, <2>3, ConnectionStays, RuntimeMoves
<1>4. CASE CloseFinished(Session)
  <2>1. IInv'
    BY <1>0, <1>4, CloseFinishedIsGood DEF GoodStep
  <2>2. UNCHANGED <<connected, epoch, running, now, permit, revoked>> /\ Session \in revoked
    BY <1>4 DEF CloseFinished, table
  <2> QED BY <1>0, <2>1, <2>2, ConnectionStays, RuntimeMoves
<1>5. ASSUME NEW c \in running[Session], CommandFinished(Session, c)
      PROVE  AInv'
  <2>1. IInv'
    BY <1>0, <1>5, CommandFinishedIsGood DEF GoodStep
  <2>2. UNCHANGED <<connected, epoch, now>>
    BY <1>5 DEF CommandFinished, AssertEffect, Revoke, table
  <2>3. running'[Session] \subseteq running[Session]
    BY <1>5, Domains DEF CommandFinished
  <2>4. \/ permit' = permit /\ revoked' = revoked
        \/ permit'[Session] = NoPermit /\ Session \in revoked'
    BY <1>5, Domains DEF CommandFinished, AssertEffect, Revoke, table
  <2>5. live'[Session] = "ABSENT" <=> live[Session] = "ABSENT"
    BY <1>5, Domains DEF CommandFinished
  <2> QED BY <1>0, <2>1, <2>2, <2>3, <2>4, <2>5, ConnectionStays, RuntimeMoves
<1> QED BY <1>1, <1>2, <1>3, <1>4, <1>5 DEF RuntimeStep

(* The connection takes its messages with it. *)
LEMMA ConnectionLostKeeps ==
    ASSUME AInv, ConnectionLost
    PROVE  AInv'
<1>0. /\ Session \in Sessions /\ IInv /\ now \in Nat /\ UNCHANGED control /\ flight' = {} /\ hbSeen' = -1
      /\ Disconnect /\ RowsInv /\ UNCHANGED <<row, task, human, checked>>
  BY Domains DEF ConnectionLost, AInv, control
<1>1. IInv'
  BY <1>0, DisconnectIsGood DEF GoodStep
<1>2. UNCHANGED <<permit, epoch, revoked, running, now>>
  BY <1>0 DEF Disconnect, table
<1>3. live'[Session] = "ABSENT" <=> live[Session] = "ABSENT"
  BY <1>0, Domains DEF Disconnect, Held
<1>4. ConnectionInv'
  BY <1>0 DEF ConnectionInv, Handshaking
<1>5. RowsInv' /\ RowMove
  BY <1>0, <1>2, RowsStay
<1>6. Registration' /\ CommandsInv'
  BY <1>2, <1>3, <1>5, QuietStep
<1>7. Carried' = {}
  BY <1>0 DEF Carried
<1>8. FlightInv' /\ OrderInv' /\ LateInv'
  <2>1. Cardinality(flight') = 0 /\ IsFiniteSet(flight') /\ flight' \subseteq Messages /\ MaxFlight \in Nat
    BY <1>0, FS_EmptySet, Parameters
  <2> QED BY <1>0, <1>7, <2>1 DEF FlightInv, OrderInv, LateInv
<1> QED BY <1>1, <1>4, <1>5, <1>6, <1>8 DEF AInv

(* The interval timer: later than every heartbeat and acknowledgement on the
   way. *)
LEMMA SendHeartbeatKeeps ==
    ASSUME AInv, SendHeartbeat
    PROVE  AInv'
<1> DEFINE n == [type |-> "heartbeat", sentAt |-> now]
<1>0. /\ IInv /\ FlightInv /\ ConnectionInv /\ RowsInv /\ now \in Nat /\ hbSeen \in Int
      /\ UNCHANGED <<now, skew, connected, permit, deadline, revoked, epoch, live, resume, network, running>>
      /\ UNCHANGED <<row, task, human, checked>> /\ hbSeen' = hbSeen
      /\ flight' = flight \cup {n} /\ connected /\ ~Handshaking /\ Room
      /\ \A m \in flight : m.type \in {"heartbeat", "ack"} => m.sentAt < now
  BY Domains DEF AInv, SendHeartbeat, runtime, control, table, manager
<1>1. IInv'
  BY <1>0, IdleIsGood DEF GoodStep, vars, table, manager
<1>2. RowsInv' /\ RowMove
  BY <1>0, RowsStay
<1>3. n.type = "heartbeat" /\ n.sentAt = now /\ n \in Messages
  BY <1>0 DEF Messages, Heartbeats
<1> HIDE DEF n
<1>5. PICK N : N = {n}
  OBVIOUS
<1>6. /\ \A x, y \in N : x = y
      /\ \A x \in N : Sane(x)' /\ NewMessage(x)'
      /\ \A x \in N : x.type = "ack" => \A m \in flight : m.type = "ack" => m.sentAt < x.sentAt
      /\ flight' \subseteq flight \cup N
  BY <1>0, <1>3, <1>5 DEF Sane, NewMessage, Carriers
<1>7. IsFiniteSet(flight') /\ Cardinality(flight') <= MaxFlight
  <2>1. /\ IsFiniteSet(flight') /\ Cardinality(flight') <= Cardinality(flight) + 1
        /\ Cardinality(flight) \in Nat
    BY <1>0, Count DEF FlightInv
  <2>2. Cardinality(flight') \in Nat /\ MaxFlight \in Nat
    BY <1>0, <2>1, Count, Parameters
  <2> QED BY <1>0, <2>1, <2>2 DEF Room
<1>8. FlightInv' /\ OrderInv'
  BY <1>0, <1>2, <1>6, <1>7, FlightStep
<1>9. LateInv'
  BY <1>0, <1>2, <1>6, LateStays
<1>10. ConnectionInv'
  <2>1. \A m \in flight' : m \in flight \/ m = n
    BY <1>0
  <2> QED BY <1>0, <1>3, <2>1 DEF ConnectionInv, Handshaking
<1>11. Registration' /\ CommandsInv'
  BY <1>0, <1>2, QuietStep
<1> QED BY <1>1, <1>2, <1>8, <1>9, <1>10, <1>11 DEF AInv

(* The bound on what travels admits the hello of a reconnection. *)
LEMMA RoomForOne == 1 <= MaxFlight
BY AuthorityParameters

LEMMA SendHelloKeeps ==
    ASSUME AInv, SendHello
    PROVE  AInv'
<1> DEFINE n == [type |-> "hello", sentAt |-> now]
<1>0. /\ IInv /\ FlightInv /\ ConnectionInv /\ RowsInv /\ now \in Nat /\ hbSeen \in Int
      /\ UNCHANGED <<now, skew, connected, permit, deadline, revoked, epoch, live, resume, network, running>>
      /\ UNCHANGED <<row, task, human, checked>> /\ hbSeen' = hbSeen
      /\ flight' = {n} /\ ~connected
  BY Domains DEF AInv, SendHello, runtime, control, table, manager
<1>1. IInv'
  BY <1>0, IdleIsGood DEF GoodStep, vars, table, manager
<1>2. RowsInv' /\ RowMove
  BY <1>0, RowsStay
<1>3. n.type = "hello" /\ n.sentAt = now /\ n \in Messages
  BY <1>0 DEF Messages, Hellos
<1> HIDE DEF n
<1>5. PICK N : N = {n}
  OBVIOUS
<1>6. /\ \A x, y \in N : x = y
      /\ \A x \in N : Sane(x)' /\ NewMessage(x)'
      /\ \A x \in N : x.type = "ack" => \A m \in flight : m.type = "ack" => m.sentAt < x.sentAt
      /\ flight' \subseteq flight \cup N
  BY <1>0, <1>3, <1>5 DEF Sane, NewMessage, Carriers
<1>7. IsFiniteSet(flight') /\ Cardinality(flight') <= MaxFlight
  <2>1. IsFiniteSet(N) /\ Cardinality(N) = 1
    BY <1>5, FS_Singleton
  <2>2. flight' = N
    BY <1>0, <1>5
  <2>4. 1 <= MaxFlight
    BY RoomForOne
  <2>5. IsFiniteSet(flight') /\ Cardinality(flight') = 1
    BY <2>1, <2>2, Zenon
  <2> QED BY <2>4, <2>5
<1>8. FlightInv' /\ OrderInv'
  BY <1>0, <1>2, <1>6, <1>7, FlightStep
<1>9. LateInv'
  BY <1>0, <1>2, <1>6, LateStays
<1>10. ConnectionInv'
  BY <1>0, <1>3 DEF ConnectionInv, Handshaking
<1>11. Registration' /\ CommandsInv'
  BY <1>0, <1>2, QuietStep
<1> QED BY <1>1, <1>2, <1>8, <1>9, <1>10, <1>11 DEF AInv

-----------------------------------------------------------------------------
(* The gateway.  renewSession extends or quarantines; what it acknowledges is
   a permit of the rows as they are afterwards. *)
LEMMA RenewMoves ==
    ASSUME RowsInv, now \in Nat, now' = now, UNCHANGED <<task, human, checked>>,
           RenewSession \/ row' = row
    PROVE  /\ RowsInv' /\ RowMove
           /\ Renewed \in Permits \cup {None}
           /\ \A p : p = Renewed /\ p # None => Granted(p)' /\ OfRows(p)'
<1> DEFINE p == Renewed
           l == now + SessionLease
<1>0. /\ row \in Rows /\ task \in TaskRows /\ task.fence \in Nat
      /\ row.gen \in Nat /\ row.owner \in Nat /\ task.lease \in Nat /\ TaskLease \in Nat
      /\ MaxGen \in Nat /\ MaxFence \in Nat /\ l \in Nat
  BY Parameters DEF RowsInv
<1>1. Renewable => p = PermitOf(l) /\ Granted(p) /\ OfRows(p) /\ p \in Permits /\ p.expiresAt \in Nat
  <2>1. Renewable => PermitOf(l) # None /\ p = PermitOf(l)
    BY DEF Renewable, Renewed
  <2>2. PermitOf(l) # None => Granted(PermitOf(l)) /\ OfRows(PermitOf(l))
    BY <1>0, GrantOfRows
  <2>3. PermitOf(l) # None => PermitOf(l) \in Permits /\ PermitOf(l).expiresAt \in Nat
    BY <2>2, PermitFields DEF Granted
  <2> QED BY <2>1, <2>2, <2>3
<1>2. /\ row' \in Rows /\ row'.setting = row.setting /\ row'.owner = row.owner /\ row'.gen = row.gen
      /\ row'.status = row.status \/ row'.status = "LOST"
      /\ Renewable => row'.status = row.status
  <2>1. CASE row' = row
    BY <1>0, <2>1
  <2>2. CASE row' # row /\ Renewable
    <3>1. row' = [row EXCEPT !.lease = l, !.permitExp = p.expiresAt]
      BY <1>1, <2>2 DEF RenewSession
    <3> HIDE DEF p, l
    <3> QED BY <1>0, <1>1, <2>2, <3>1 DEF Rows
  <2>3. CASE row' # row /\ ~Renewable
    <3>1. row' = [row EXCEPT !.status = "LOST", !.quarantined = TRUE, !.permitExp = now, !.humanExp = 0]
      BY <2>3 DEF RenewSession, Quarantined
    <3> QED BY <1>0, <2>3, <3>1 DEF Rows
  <2> QED BY <2>1, <2>2, <2>3
<1>3. RowsInv'
  BY <1>0, <1>2 DEF RowsInv, TaskLease, MaxGen, MaxFence
<1>4. ASSUME NEW e \in Nat, LeaseBound(e)
      PROVE  LeaseBound(e)'
  BY <1>0, <1>2, <1>4 DEF LeaseBound, TaskLease
<1>5. RowMove
  BY <1>0, <1>2, <1>4 DEF RowMove
<1>6. p \in Permits \cup {None}
  BY <1>1 DEF Renewed
<1>7. ASSUME NEW q, q = Renewed, q # None
      PROVE  Granted(q)' /\ OfRows(q)'
  <2>1. Renewable
    BY <1>7 DEF Renewed
  <2>2. Granted(q) /\ OfRows(q)
    BY <1>1, <1>7, <2>1
  <2>3. Granted(q)'
    BY <1>3, <1>5, <2>2, GrantedStays
  <2>4. OfRows(q)'
    BY <1>2, <2>1, <2>2 DEF OfRows
  <2> QED BY <2>3, <2>4
<1> QED BY <1>3, <1>5, <1>6, <1>7

(* handleHeartbeat: in the order of the heartbeats, so that the newest
   acknowledgement is of the latest rows. *)
LEMMA HandleHeartbeatKeeps ==
    ASSUME AInv, NEW m \in flight, HandleHeartbeat(m)
    PROVE  AInv'
<1>a. PICK n : n = [type |-> "ack", sentAt |-> m.sentAt, serverTime |-> now, permit |-> Renewed]
  OBVIOUS
<1>0. /\ IInv /\ FlightInv /\ ConnectionInv /\ RowsInv /\ now \in Nat /\ hbSeen \in Int
      /\ UNCHANGED <<now, skew, connected, permit, deadline, revoked, epoch, live, resume, network, running>>
      /\ UNCHANGED <<task, human, checked>> /\ hbSeen' = hbSeen
      /\ flight' = (flight \ {m}) \cup {n} /\ m.type = "heartbeat" /\ NextInQueue(m) /\ RenewSession
  BY <1>a, Domains DEF AInv, HandleHeartbeat, runtime, control, table, manager
<1>1. IInv'
  BY <1>0, IdleIsGood DEF GoodStep, vars, table, manager
<1>2. /\ RowsInv' /\ RowMove /\ Renewed \in Permits \cup {None}
      /\ \A p : p = Renewed /\ p # None => Granted(p)' /\ OfRows(p)'
  BY <1>0, RenewMoves
<1>3. m \in Heartbeats /\ m.sentAt \in Nat /\ m.sentAt <= now
  BY <1>0 DEF FlightInv, Messages, Heartbeats, Acks, Hellos, Accepteds, Reconciles, CommandMessages
<1>4. /\ n.type = "ack" /\ n.sentAt = m.sentAt /\ n.serverTime = now /\ n.permit = Renewed
      /\ n \in Messages
  BY <1>a, <1>0, <1>2, <1>3 DEF Messages, Acks
<1>5. PICK N : N = {n}
  OBVIOUS
<1>6. NewMessage(n)' /\ Sane(n)'
  <2>1. n.permit # None => Granted(n.permit)' /\ OfRows(n.permit)'
    BY <1>2, <1>4
  <2> QED BY <1>0, <1>3, <1>4, <2>1 DEF Sane, NewMessage
<1>7. connected /\ \A x \in flight : x.type # "reconcile"
  BY <1>0 DEF ConnectionInv, Handshaking
<1>8. \A x \in flight : x.type = "ack" => x.sentAt < m.sentAt
  BY <1>0 DEF ConnectionInv
<1>9. \A x \in flight : x.type = "heartbeat" /\ x # m => m.sentAt < x.sentAt
  <2> SUFFICES ASSUME NEW x \in flight, x.type = "heartbeat", x # m
               PROVE  m.sentAt < x.sentAt
    OBVIOUS
  <2>1. x \in Heartbeats /\ x.sentAt \in Nat
    BY <1>0 DEF FlightInv, Messages, Heartbeats, Acks, Hellos, Accepteds, Reconciles, CommandMessages
  <2>2. x.sentAt # m.sentAt
    BY <1>3, <2>1 DEF Heartbeats
  <2>3. m.sentAt <= x.sentAt
    BY <1>0 DEF NextInQueue
  <2> QED BY <1>3, <2>1, <2>2, <2>3
<1>10. /\ \A x, y \in N : x = y
       /\ \A x \in N : Sane(x)' /\ NewMessage(x)'
       /\ \A x \in N : x.type = "ack" => \A y \in flight : y.type = "ack" => y.sentAt < x.sentAt
       /\ flight' \subseteq flight \cup N
  BY <1>0, <1>4, <1>5, <1>6, <1>8
<1>11. IsFiniteSet(flight') /\ Cardinality(flight') <= MaxFlight
  <2>1. /\ IsFiniteSet(flight') /\ Cardinality(flight') <= Cardinality(flight)
        /\ Cardinality(flight) \in Nat /\ Cardinality(flight) <= MaxFlight
    BY <1>0, Count DEF FlightInv
  <2>2. Cardinality(flight') \in Nat /\ MaxFlight \in Nat
    BY <1>0, <2>1, Count, Parameters
  <2> QED BY <2>1, <2>2
<1>12. FlightInv' /\ OrderInv'
  BY <1>0, <1>2, <1>10, <1>11, FlightStep
<1>13. LateInv'
  BY <1>0, <1>2, <1>10, LateStays
<1>14. ConnectionInv'
  <2>1. \A x \in flight' : (x \in flight /\ x # m) \/ x = n
    BY <1>0
  <2>2. Handshaking' = FALSE
    BY <1>4, <1>7, <2>1 DEF Handshaking
  <2>3. /\ \A x, y \in flight' : x.type = "ack" /\ y.type = "heartbeat" => x.sentAt < y.sentAt
        /\ \A x, y \in flight' : x.type = "ack" /\ y.type = "ack" /\ x.sentAt = y.sentAt => x = y
    <3>1. \A x \in flight : x.type = "ack" => x.sentAt # n.sentAt
      <4> SUFFICES ASSUME NEW x \in flight, x.type = "ack"
                   PROVE  x.sentAt # n.sentAt
        OBVIOUS
      <4>1. x.sentAt \in Nat
        BY <1>0 DEF FlightInv, Messages, Heartbeats, Acks, Hellos, Accepteds, Reconciles,
                    CommandMessages
      <4> QED BY <1>3, <1>4, <1>8, <4>1
    <3> QED BY <1>0, <1>4, <1>9, <2>1, <3>1 DEF ConnectionInv
  <2> QED BY <1>0, <1>4, <1>7, <2>1, <2>2, <2>3 DEF ConnectionInv
<1>15. Registration' /\ CommandsInv'
  BY <1>0, <1>2, QuietStep
<1> QED BY <1>1, <1>2, <1>12, <1>13, <1>14, <1>15 DEF AInv

(* reconcile on the control plane: the answer travels alone. *)
LEMMA HandleHelloKeeps ==
    ASSUME AInv, NEW m \in flight, HandleHello(m)
    PROVE  AInv'
<1>a. PICK n : n = [type |-> "accepted", sentAt |-> m.sentAt, serverTime |-> now,
                    listed |-> Held(Session), permit |-> Renewed]
  OBVIOUS
<1>0. /\ IInv /\ FlightInv /\ ConnectionInv /\ RowsInv /\ now \in Nat /\ hbSeen \in Int
      /\ UNCHANGED <<now, skew, connected, permit, deadline, revoked, epoch, live, resume, network, running>>
      /\ UNCHANGED <<task, human, checked>> /\ hbSeen' = hbSeen
      /\ flight' = {n} /\ m.type = "hello" /\ (RenewSession \/ row' = row)
  BY <1>a, Domains DEF AInv, HandleHello, runtime, control, table, manager
<1>1. IInv'
  BY <1>0, IdleIsGood DEF GoodStep, vars, table, manager
<1>2. /\ RowsInv' /\ RowMove /\ Renewed \in Permits \cup {None}
      /\ \A p : p = Renewed /\ p # None => Granted(p)' /\ OfRows(p)'
  BY <1>0, RenewMoves
<1>3. m.sentAt \in Nat /\ m.sentAt <= now /\ ~connected
  BY <1>0 DEF FlightInv, ConnectionInv, Messages, Heartbeats, Acks, Hellos, Accepteds, Reconciles,
              CommandMessages
<1>4. /\ n.type = "accepted" /\ n.sentAt = m.sentAt /\ n.serverTime = now /\ n.permit = Renewed
      /\ n \in Messages
  BY <1>a, <1>0, <1>2, <1>3 DEF Messages, Accepteds, Held
<1>5. PICK N : N = {n}
  OBVIOUS
<1>6. NewMessage(n)' /\ Sane(n)'
  <2>1. n.permit # None => Granted(n.permit)' /\ OfRows(n.permit)'
    BY <1>2, <1>4
  <2> QED BY <1>0, <1>3, <1>4, <2>1 DEF Sane, NewMessage
<1>7. /\ \A x, y \in N : x = y
      /\ \A x \in N : Sane(x)' /\ NewMessage(x)'
      /\ \A x \in N : x.type = "ack" => \A y \in flight : y.type = "ack" => y.sentAt < x.sentAt
      /\ flight' \subseteq flight \cup N
  BY <1>0, <1>4, <1>5, <1>6
<1>8. IsFiniteSet(flight') /\ Cardinality(flight') <= MaxFlight
  <2>1. MaxFlight \in Nat \ {0}
    BY <1>0, Parameters
  <2>2. IsFiniteSet({n}) /\ Cardinality({n}) = 1
    BY FS_Singleton
  <2> QED BY <1>0, <2>1, <2>2
<1>9. FlightInv' /\ OrderInv'
  BY <1>0, <1>2, <1>7, <1>8, FlightStep
<1>10. LateInv'
  BY <1>0, <1>2, <1>7, LateStays
<1>11. ConnectionInv'
  BY <1>0, <1>3, <1>4 DEF ConnectionInv, Handshaking
<1>12. Registration' /\ CommandsInv'
  BY <1>0, <1>2, QuietStep
<1> QED BY <1>1, <1>2, <1>9, <1>10, <1>11, <1>12 DEF AInv

(* runtime.hello.accepted: the round trip puts the estimate ahead, and the
   reconciliation is all that travels. *)
LEMMA ReceiveAcceptedKeeps ==
    ASSUME AInv, NEW m \in flight, ReceiveAccepted(m)
    PROVE  AInv'
<1>a. PICK n : n = [type |-> "reconcile", permit |-> m.permit]
  OBVIOUS
<1> DEFINE est == m.serverTime + (now - m.sentAt)
<1>0. /\ IInv /\ FlightInv /\ ConnectionInv /\ RowsInv /\ now \in Nat /\ hbSeen \in Int
      /\ UNCHANGED <<now, permit, deadline, revoked, epoch, live, resume, network, running>>
      /\ UNCHANGED <<row, task, human, checked>> /\ hbSeen' = hbSeen
      /\ flight' \subseteq {n} /\ m.type = "accepted" /\ connected' = TRUE /\ Hello(est)
  BY <1>a, Domains DEF AInv, ReceiveAccepted, Hello, control, table, manager
<1>1. /\ m.sentAt \in Nat /\ m.serverTime \in Nat /\ m.sentAt <= m.serverTime
      /\ m.permit \in Permits \cup {None}
  BY <1>0 DEF FlightInv, Messages, Heartbeats, Acks, Hellos, Accepteds, Reconciles, CommandMessages
<1>2. est \in Int /\ est >= now
  BY <1>0, <1>1
<1>3. IInv'
  BY <1>0, <1>2, HelloIsGood DEF GoodStep
<1>4. RowsInv' /\ RowMove
  BY <1>0, RowsStay
<1>5. n.type = "reconcile" /\ n.permit = m.permit /\ n \in Messages
  BY <1>a, <1>1 DEF Messages, Reconciles
<1>6. \A x \in flight' : x = n
  BY <1>0
<1>7. n.permit # None => Granted(n.permit)'
  <2>1. n.permit # None => Granted(n.permit)
    BY <1>0, <1>5 DEF FlightInv, Carried, Carriers
  <2> QED BY <1>0, <1>4, <2>1, GrantedStays
<1>8. OrderInv'
  <2>1. \A x \in Carried' : x = n /\ x.type = "reconcile"
    BY <1>5, <1>6 DEF Carried
  <2>2. ASSUME n.permit # None
        PROVE  /\ n.permit.kind = "STARTUP" /\ row.status = "HUMAN_CONTROL" => n.permit.gen < row.gen
               /\ n.permit.kind = "HUMAN" /\ n.permit.fence = 0 =>
                     \/ n.permit.gen < row.gen
                     \/ (row.owner = 0 /\ row.status \in {"HUMAN_CONTROL", "LOST"})
    <3>1. m \in Carried
      BY <1>0, <1>5, <2>2 DEF Carried, Carriers
    <3> QED BY <1>5, <3>1 DEF AInv, OrderInv
  <2> QED BY <1>0, <2>1, <2>2 DEF OrderInv, Carried
<1>9. FlightInv'
  <2>1. IsFiniteSet(flight') /\ Cardinality(flight') <= MaxFlight
    <3>1. flight' = {} \/ flight' = {n}
      BY <1>6
    <3>2. MaxFlight \in Nat \ {0}
      BY <1>0, Parameters
    <3>3. IsFiniteSet({n}) /\ Cardinality({n}) = 1 /\ IsFiniteSet({}) /\ Cardinality({}) = 0
      BY FS_Singleton, FS_EmptySet
    <3> QED BY <3>1, <3>2, <3>3
  <2> QED BY <1>0, <1>5, <1>6, <1>7, <2>1 DEF FlightInv, Carried
<1>10. ConnectionInv'
  BY <1>0, <1>5, <1>6 DEF ConnectionInv, Handshaking
<1>11. Registration' /\ CommandsInv'
  BY <1>0, <1>4, QuietStep
<1>12. LateInv'
  <2> SUFFICES ASSUME permit[Session] # NoPermit, permit[Session].fence # 0, n.permit # None
               PROVE  Behind(n)'
    BY <1>0, <1>6 DEF LateInv, Carried
  <2>1. m \in Carried
    BY <1>0, <1>5 DEF Carried, Carriers
  <2>2. Behind(m)
    BY <2>1 DEF AInv, LateInv
  <2> QED BY <1>0, <1>5, <2>2 DEF Behind
<1> QED BY <1>3, <1>4, <1>8, <1>9, <1>10, <1>11, <1>12 DEF AInv

-----------------------------------------------------------------------------
(* Messages reach the Runtime. *)
LEMMA QuietOvertaken ==
    ASSUME AInv, NEW p, NEW est, AcceptOutcome(Session, p, est) # "stored"
    PROVE  Overtaken(Session, p, est) = running[Session]
<1> DEFINE Same(c) == [c EXCEPT !.sole = @ /\ (AcceptOutcome(Session, p, est) = "stored"
                                                   => SameAuthority(c.owner, p))]
<1>1. ASSUME NEW c \in running[Session]
      PROVE  Same(c) = c
  <2>1. c \in [owner : Owners, by : Sources, sole : BOOLEAN]
    BY RegisteredNow DEF Commands
  <2>2. Same(c) = [c EXCEPT !.sole = c.sole /\ (AcceptOutcome(Session, p, est) = "stored"
                                                    => SameAuthority(c.owner, p))]
    OBVIOUS
  <2>3. (c.sole /\ (AcceptOutcome(Session, p, est) = "stored" => SameAuthority(c.owner, p))) = c.sole
    BY <2>1
  <2>4. Same(c) = [c EXCEPT !.sole = c.sole]
    BY <2>2, <2>3
  <2> QED BY <2>1, <2>4
<1>2. Overtaken(Session, p, est) = {Same(c) : c \in running[Session]}
  BY DEF Overtaken
<1> HIDE DEF Same
<1> QED BY <1>1, <1>2

(* Its permit is stored. *)
LEMMA StoreKeeps ==
    ASSUME AInv, IInv', NEW m \in Carried, NEW est, StoreOf(m, est), Delivered(m),
           flight' = flight \ {m}, UNCHANGED <<now, connected, control>>,
           hbSeen' = (IF m.type = "ack" THEN m.sentAt ELSE hbSeen),
           NEW X, running'[Session] \subseteq Overtaken(Session, m.permit, est) \cup X,
           \A c \in X : c.owner.kind = "AGENT" =>
              c.sole /\ c.owner.fence # 0 /\ SameAuthority(c.owner, m.permit)
    PROVE  AInv'
<1>0. /\ FlightInv /\ ConnectionInv /\ RowsInv /\ now \in Nat /\ hbSeen \in Int
      /\ UNCHANGED <<row, task, human, checked>>
  BY Domains DEF AInv, control
<1>1. RowsInv' /\ RowMove
  BY <1>0, RowsStay
<1>2. hbSeen' \in Int
  BY <1>0 DEF Carried, FlightInv, Messages, Heartbeats, Acks, Hellos, Accepteds, Reconciles,
              CommandMessages
<1>3. IsFiniteSet(flight') /\ Cardinality(flight') <= MaxFlight
  <2>1. /\ IsFiniteSet(flight') /\ Cardinality(flight') <= Cardinality(flight)
        /\ Cardinality(flight) \in Nat /\ Cardinality(flight) <= MaxFlight
    BY <1>0, Count DEF FlightInv
  <2>2. Cardinality(flight') \in Nat /\ MaxFlight \in Nat
    BY <1>0, <2>1, Count, Parameters
  <2> QED BY <2>1, <2>2
<1>e. PICK N : N = {}
  OBVIOUS
<1>n. /\ \A n, x \in N : n = x
      /\ \A n \in N : Sane(n)' /\ NewMessage(n)'
      /\ \A n \in N : n.type = "ack" => \A x \in flight : x.type = "ack" => x.sentAt < n.sentAt
      /\ flight' \subseteq flight \cup N
  BY <1>e
<1>4. FlightInv' /\ OrderInv'
  BY <1>n, <1>1, <1>2, <1>3, FlightStep
<1>5. ConnectionInv'
  BY <1>0, ConnectionStays
<1>6. LateInv'
  BY StoreLate
<1>7. Registration' /\ CommandsInv'
  BY <1>1, StoreStep
<1> QED BY <1>1, <1>4, <1>5, <1>6, <1>7 DEF AInv

(* Nothing is stored, but a command starts under the authority registered. *)
LEMMA StartKeeps ==
    ASSUME AInv, IInv', NEW m \in flight, flight' = flight \ {m}, hbSeen' = hbSeen,
           UNCHANGED <<now, connected, control, permit, epoch, revoked, live>>,
           permit[Session] # NoPermit, Held(Session),
           NEW X, running'[Session] \subseteq running[Session] \cup X,
           \A c \in X : c.owner.kind = "AGENT" =>
              c.sole /\ c.owner.fence # 0 /\ SameAuthority(c.owner, permit[Session])
    PROVE  AInv'
<1>0. /\ FlightInv /\ ConnectionInv /\ RowsInv /\ now \in Nat /\ hbSeen \in Int
      /\ UNCHANGED <<row, task, human, checked>>
  BY Domains DEF AInv, control
<1>1. RowsInv' /\ RowMove
  BY <1>0, RowsStay
<1>3. IsFiniteSet(flight') /\ Cardinality(flight') <= MaxFlight
  <2>1. /\ IsFiniteSet(flight') /\ Cardinality(flight') <= Cardinality(flight)
        /\ Cardinality(flight) \in Nat /\ Cardinality(flight) <= MaxFlight
    BY <1>0, Count DEF FlightInv
  <2>2. Cardinality(flight') \in Nat /\ MaxFlight \in Nat
    BY <1>0, <2>1, Count, Parameters
  <2> QED BY <2>1, <2>2
<1>e. PICK N : N = {}
  OBVIOUS
<1>n. /\ \A n, x \in N : n = x
      /\ \A n \in N : Sane(n)' /\ NewMessage(n)'
      /\ \A n \in N : n.type = "ack" => \A x \in flight : x.type = "ack" => x.sentAt < n.sentAt
      /\ flight' \subseteq flight \cup N
  BY <1>e
<1>4. FlightInv' /\ OrderInv'
  BY <1>0, <1>n, <1>1, <1>3, FlightStep
<1>5. ConnectionInv'
  BY <1>0, ConnectionStays
<1>6. LateInv'
  BY <1>0, <1>n, <1>1, LateStays
<1>7. Registration'
  <2>1. Granted(permit[Session])'
    <3>1. Granted(permit[Session])
      BY RegisteredNow
    <3>2. \A q : Granted(q) => Granted(q)'
      BY <1>0, <1>1, GrantedStays
    <3> DEFINE q == permit[Session]
    <3>3. q' = q
      OBVIOUS
    <3> QED BY <3>1, <3>2, <3>3
  <2>2. /\ row'.owner >= row.owner /\ row'.owner = row.owner
    BY <1>0, RegisteredNow
  <2> QED BY <2>1, <2>2 DEF AInv, Registration, Held
<1>8. CommandsInv'
  <2> SUFFICES ASSUME NEW c \in running'[Session], c.owner.kind = "AGENT"
               PROVE  /\ c.owner.fence # 0 /\ c.owner.fence <= epoch[Session].token
                      /\ c.owner.gen <= permit[Session].gen
                      /\ IF c.sole THEN SameAuthority(c.owner, permit[Session])
                         ELSE Passed(c.owner.fence, c.owner.gen)
    BY DEF CommandsInv, Passed
  <2>1. CASE c \in running[Session]
    BY <2>1 DEF AInv, CommandsInv
  <2>2. CASE c \in X
    <3>1. c.sole /\ c.owner.fence # 0 /\ SameAuthority(c.owner, permit[Session])
      BY <2>2
    <3>2. c.owner.fence = permit[Session].fence /\ c.owner.gen = permit[Session].gen
      BY <3>1 DEF SameAuthority
    <3>3. permit[Session].fence \in Nat /\ permit[Session].gen \in Nat
      BY RegisteredNow
    <3>4. epoch[Session].token = permit[Session].fence
      BY <3>1, <3>2 DEF AInv, Registration
    <3> QED BY <3>1, <3>2, <3>3, <3>4
  <2> QED BY <2>1, <2>2
<1> QED BY <1>1, <1>4, <1>5, <1>6, <1>7, <1>8 DEF AInv

(* runtime.heartbeat.ack. *)
LEMMA ReceiveAckKeeps ==
    ASSUME AInv, NEW m \in flight, ReceiveAck(m)
    PROVE  AInv'
<1> DEFINE est == m.serverTime + (now - m.sentAt)
<1>0. /\ IInv /\ FlightInv /\ ConnectionInv /\ RowsInv /\ now \in Nat /\ hbSeen \in Int
      /\ Session \in Sessions /\ m.type = "ack" /\ connected /\ flight' = flight \ {m}
      /\ UNCHANGED control
  BY Domains DEF AInv, ReceiveAck
<1>1. /\ m.sentAt \in Nat /\ m.serverTime \in Nat /\ m.sentAt <= m.serverTime
      /\ m.permit \in Permits \cup {None}
  BY <1>0 DEF FlightInv, Messages, Heartbeats, Acks, Hellos, Accepteds, Reconciles, CommandMessages
<1>2. est \in Int /\ est >= now /\ m.serverTime - m.sentAt \in Nat
  BY <1>0, <1>1
<1>3. CASE m.sentAt <= hbSeen
  <2>1. UNCHANGED <<runtime, hbSeen>>
    BY <1>3 DEF ReceiveAck
  <2>2. IInv' /\ UNCHANGED <<now, connected, permit, epoch, revoked, live, running>>
    BY <1>0, <2>1, IdleIsGood DEF GoodStep, runtime, vars, table, manager
  <2> QED BY <1>0, <2>1, <2>2, ConnectionStays, RuntimeMoves
<1>4. CASE m.sentAt > hbSeen /\ m.permit = None
  <2>1. /\ hbSeen' = m.sentAt /\ Revoke(Session) /\ skew' = m.serverTime - m.sentAt
        /\ UNCHANGED <<now, connected, live, resume, network, running>>
    <3>1. ~(m.sentAt <= hbSeen)
      BY <1>0, <1>1, <1>4
    <3> QED BY <1>4, <3>1 DEF ReceiveAck, manager
  <2>2. TableStep
    BY <1>0, <2>1, RevokeTable DEF IInv, Revoke
  <2>3. IInv'
    BY <1>0, <1>2, <2>1, <2>2 DEF IInv, TableStep, ClockInv, ManagerType
  <2>4. permit'[Session] = NoPermit /\ Session \in revoked' /\ epoch' = epoch
    BY <2>1, Domains DEF Revoke
  <2> QED BY <1>0, <1>1, <1>4, <2>1, <2>3, <2>4, ConnectionStays, RuntimeMoves
<1>5. CASE m.sentAt > hbSeen /\ m.permit # None
  <2>1. hbSeen' = m.sentAt /\ HeartbeatAck(Session, m.permit, est)
    BY <1>0, <1>1, <1>5 DEF ReceiveAck
  <2>2. m.permit \in Permits /\ m \in Carried
    BY <1>0, <1>1, <1>5 DEF Carried, Carriers
  <2> DEFINE out == AcceptOutcome(Session, m.permit, est)
  <2>3. IInv'
    BY <1>0, <1>2, <2>1, <2>2, HeartbeatAckIsGood DEF GoodStep
  <2>4. UNCHANGED <<now, connected, live>> /\ hbSeen' \in Int /\ hbSeen' >= hbSeen
    BY <1>0, <1>1, <1>5, <2>1 DEF HeartbeatAck
  <2>5. CASE ~Held(Session)
    <3>1. UNCHANGED <<permit, epoch, revoked, running>>
      BY <2>1, <2>5 DEF HeartbeatAck, table
    <3> QED BY <1>0, <2>3, <2>4, <3>1, ConnectionStays, RuntimeMoves
  <2>6. CASE Held(Session) /\ out = "stored"
    <3>1. Session \notin revoked
      BY <2>6, StoredTests
    <3>2. AcceptPermit(Session, m.permit, est) /\ running'[Session] = Overtaken(Session, m.permit, est)
      BY <2>1, <2>6, <3>1, Domains DEF HeartbeatAck
    <3>3. Store(Session, m.permit, est)
      BY <2>6, <3>2 DEF AcceptPermit, Accept
    <3>4. StoreOf(m, est)
      BY <2>4, <2>6, <3>3, Domains DEF StoreOf, Store, Held
    <3>5. Delivered(m)
      BY <1>0, <1>5 DEF Delivered
    <3>6. PICK X : X = {}
      OBVIOUS
    <3>7. /\ running'[Session] \subseteq Overtaken(Session, m.permit, est) \cup X
          /\ \A c \in X : c.owner.kind = "AGENT" =>
                c.sole /\ c.owner.fence # 0 /\ SameAuthority(c.owner, m.permit)
      BY <3>2, <3>6
    <3>8. hbSeen' = IF m.type = "ack" THEN m.sentAt ELSE hbSeen
      BY <1>0, <2>1
    <3> HIDE DEF est, out
    <3> QED BY <1>0, <2>2, <2>3, <2>4, <3>4, <3>5, <3>7, <3>8, StoreKeeps
  <2>7. CASE Held(Session) /\ out # "stored"
    <3>1. running'[Session] = running[Session]
      BY <2>1, <2>7, QuietOvertaken, Domains DEF HeartbeatAck
    <3>2. /\ epoch' = epoch
          /\ \/ UNCHANGED <<permit, revoked>>
             \/ permit'[Session] = NoPermit /\ Session \in revoked'
      <4>1. CASE out = "revoked" \/ Session \in revoked
        <5>1. Interrupt(Session)
          BY <2>1, <2>7, <4>1 DEF HeartbeatAck
        <5> QED BY <5>1, Domains DEF Interrupt
      <4>2. CASE out # "revoked" /\ Session \notin revoked
        <5>1. AcceptPermit(Session, m.permit, est)
          BY <2>1, <2>7, <4>2 DEF HeartbeatAck
        <5>2. out \in {"denied", "ignored"}
          BY <2>7, <4>2 DEF AcceptOutcome
        <5> QED BY <5>1, <5>2 DEF AcceptPermit, Accept, table
      <4> QED BY <4>1, <4>2
    <3> HIDE DEF est, out
    <3> QED BY <1>0, <2>3, <2>4, <3>1, <3>2, ConnectionStays, RuntimeMoves
  <2> QED BY <2>5, <2>6, <2>7
<1> QED BY <1>0, <1>1, <1>3, <1>4, <1>5

(* applyReconcile: close, adopt or interrupt. *)
LEMMA ReceiveReconcileKeeps ==
    ASSUME AInv, NEW m \in flight, ReceiveReconcile(m)
    PROVE  AInv'
<1> DEFINE est == now + skew
<1>0. /\ IInv /\ FlightInv /\ ConnectionInv /\ RowsInv /\ now \in Nat /\ hbSeen \in Int
      /\ Session \in Sessions /\ m.type = "reconcile" /\ connected /\ flight' = flight \ {m}
      /\ UNCHANGED <<control, hbSeen>>
  BY Domains DEF AInv, ReceiveReconcile
<1>1. m.permit \in Permits \cup {None}
  BY <1>0 DEF FlightInv, Messages, Heartbeats, Acks, Hellos, Accepteds, Reconciles, CommandMessages
<1>2. CASE ~Held(Session)
  <2>1. UNCHANGED runtime
    BY <1>2 DEF ReceiveReconcile
  <2>2. IInv' /\ UNCHANGED <<now, connected, permit, epoch, revoked, live, running>>
    BY <1>0, <2>1, IdleIsGood DEF GoodStep, runtime, vars, table, manager
  <2> QED BY <1>0, <2>2, ConnectionStays, RuntimeMoves
<1>3. CASE Held(Session) /\ m.permit = None
  <2>1. CloseStarted(Session)
    BY <1>3 DEF ReceiveReconcile
  <2>2. IInv'
    BY <1>0, <2>1, CloseStartedIsGood DEF GoodStep
  <2>3. /\ UNCHANGED <<now, connected, live, running, epoch>>
        /\ permit'[Session] = NoPermit /\ Session \in revoked'
    BY <2>1, Domains DEF CloseStarted, Revoke
  <2> QED BY <1>0, <2>2, <2>3, ConnectionStays, RuntimeMoves
<1>4. CASE Held(Session) /\ m.permit # None
  <2>1. Adopt(Session, m.permit)
    BY <1>4 DEF ReceiveReconcile
  <2>2. m.permit \in Permits /\ m \in Carried
    BY <1>0, <1>1, <1>4 DEF Carried, Carriers
  <2> DEFINE out == AcceptOutcome(Session, m.permit, est)
  <2>3. IInv'
    BY <1>0, <2>1, <2>2, AdoptIsGood DEF GoodStep
  <2>4. UNCHANGED <<now, connected>>
    BY <2>1 DEF Adopt
  <2>5. out \in {"stored", "ignored"} =>
           /\ Accept(Session, m.permit, est)
           /\ live'[Session] # "ABSENT" /\ live[Session] # "ABSENT"
           /\ running'[Session] = Overtaken(Session, m.permit, est)
    <3>1. resume[Session] \in {"OPEN", "HUMAN_CONTROL"}
      BY <1>0 DEF IInv, ManagerType
    <3> QED BY <2>1, <3>1, Domains DEF Adopt
  <2>6. CASE out = "stored"
    <3>1. Store(Session, m.permit, est)
      BY <2>5, <2>6 DEF Accept
    <3>2. StoreOf(m, est)
      BY <2>5, <2>6, <3>1, Domains DEF StoreOf, Store
    <3>3. Delivered(m)
      BY <1>0 DEF Delivered
    <3>4. PICK X : X = {}
      OBVIOUS
    <3>5. /\ running'[Session] \subseteq Overtaken(Session, m.permit, est) \cup X
          /\ \A c \in X : c.owner.kind = "AGENT" =>
                c.sole /\ c.owner.fence # 0 /\ SameAuthority(c.owner, m.permit)
      BY <2>5, <2>6, <3>4
    <3>6. hbSeen' = IF m.type = "ack" THEN m.sentAt ELSE hbSeen
      BY <1>0
    <3> HIDE DEF est, out
    <3> QED BY <1>0, <2>2, <2>3, <2>4, <3>2, <3>3, <3>5, <3>6, StoreKeeps
  <2>7. CASE out = "ignored"
    <3>1. UNCHANGED <<permit, epoch, revoked>>
      BY <2>5, <2>7 DEF Accept, table
    <3>2. running'[Session] = running[Session]
      BY <2>5, <2>7, QuietOvertaken
    <3> HIDE DEF est, out
    <3> QED BY <1>0, <2>3, <2>4, <2>5, <2>7, <3>1, <3>2, ConnectionStays, RuntimeMoves
  <2>8. CASE out \notin {"stored", "ignored"}
    <3>1. Interrupt(Session) /\ UNCHANGED <<live, running>>
      BY <2>1, <2>8 DEF Adopt
    <3>2. permit'[Session] = NoPermit /\ Session \in revoked' /\ epoch' = epoch
      BY <3>1, Domains DEF Interrupt
    <3> QED BY <1>0, <2>3, <2>4, <3>1, <3>2, ConnectionStays, RuntimeMoves
  <2> QED BY <2>6, <2>7, <2>8
<1> QED BY <1>2, <1>3, <1>4

(* session.open and the commands: the permit is registered, then the issuer is
   checked against it. *)
LEMMA ReceiveCommandKeeps ==
    ASSUME AInv, NEW m \in flight, ReceiveCommand(m)
    PROVE  AInv'
<1> DEFINE p == m.permit
           est == now + skew
           out == AcceptOutcome(Session, p, est)
           new == [owner |-> m.owner, by |-> m.by, sole |-> TRUE]
<1>0. /\ IInv /\ FlightInv /\ ConnectionInv /\ RowsInv /\ now \in Nat /\ hbSeen \in Int
      /\ Session \in Sessions /\ m.type = "command" /\ connected /\ ~Handshaking
      /\ flight' = flight \ {m} /\ UNCHANGED <<control, hbSeen>>
      /\ hbSeen' = (IF m.type = "ack" THEN m.sentAt ELSE hbSeen)
  BY Domains DEF AInv, ReceiveCommand
<1>1. p \in Permits /\ m.owner \in Owners /\ m.by \in Sources /\ CommandShape(m) /\ p # None
  <2>1. p \in Permits /\ m.owner \in Owners /\ m.by \in Sources /\ CommandShape(m)
    BY <1>0 DEF FlightInv, Messages, Heartbeats, Acks, Hellos, Accepteds, Reconciles, CommandMessages
  <2> QED BY <2>1, PermitFields
<1>2. m \in Carried
  BY <1>0, <1>1 DEF Carried, Carriers
<1>3. CASE UNCHANGED runtime
  <2>1. IInv' /\ UNCHANGED <<now, connected, permit, epoch, revoked, live, running>>
    BY <1>0, <1>3, IdleIsGood DEF GoodStep, runtime, vars, table, manager
  <2> QED BY <1>0, <2>1, ConnectionStays, RuntimeMoves
<1>4. CASE /\ m.op = "open" /\ live[Session] = "ABSENT" /\ Session \notin revoked
           /\ OpenSession(Session, p)
  <2>1. IInv'
    BY <1>0, <1>1, <1>4, OpenSessionIsGood DEF GoodStep
  <2>2. UNCHANGED <<now, connected, running>> /\ Accept(Session, p, est)
    BY <1>4 DEF OpenSession
  <2>3. permit[Session] = NoPermit /\ running[Session] = {}
    BY <1>4 DEF AInv, Registration
  <2>4. CASE out = "stored"
    <3>1. Store(Session, p, est)
      BY <2>2, <2>4 DEF Accept
    <3>2. live'[Session] = "OPENING"
      BY <1>4, <2>4, Domains DEF OpenSession
    <3>3. StoreOf(m, est)
      BY <2>4, <3>1, <3>2, Domains DEF StoreOf, Store
    <3>4. Delivered(m)
      BY <1>0, <2>3 DEF Delivered
    <3>5. PICK X : X = {}
      OBVIOUS
    <3>6. /\ running'[Session] \subseteq Overtaken(Session, m.permit, est) \cup X
          /\ \A c \in X : c.owner.kind = "AGENT" =>
                c.sole /\ c.owner.fence # 0 /\ SameAuthority(c.owner, m.permit)
      BY <2>2, <2>3, <3>5
    <3> HIDE DEF est, out
    <3> QED BY <1>0, <1>2, <2>1, <2>2, <3>3, <3>4, <3>6, StoreKeeps
  <2>5. CASE out # "stored"
    <3>1. /\ epoch' = epoch /\ live' = live
          /\ \/ UNCHANGED <<permit, revoked>>
             \/ permit'[Session] = NoPermit /\ Session \in revoked'
      <4>1. out \in {"denied", "ignored", "revoked"}
        BY <2>5 DEF AcceptOutcome
      <4> QED BY <1>4, <2>2, <2>5, <4>1, Domains DEF OpenSession, Accept, Revoke, table
    <3> HIDE DEF est, out
    <3> QED BY <1>0, <2>1, <2>2, <3>1, ConnectionStays, RuntimeMoves
  <2> QED BY <2>4, <2>5
<1>5. CASE m.op # "open" /\ Held(Session) /\ CommandStarted(Session, p, m.owner, m.by)
  <2>1. IInv'
    BY <1>0, <1>1, <1>5, CommandStartedIsGood DEF GoodStep
  <2>2. /\ UNCHANGED <<now, connected, live>> /\ Accept(Session, p, est)
        /\ running'[Session] = Overtaken(Session, p, est) \cup
             IF out \in {"stored", "ignored"} /\ Authorizes(permit'[Session], deadline'[Session], m.owner, FALSE)
             THEN {new} ELSE {}
    BY <1>5, Domains DEF CommandStarted, AcceptPermit
  <2>3. PICK X : X = IF /\ out \in {"stored", "ignored"}
                        /\ Authorizes(permit'[Session], deadline'[Session], m.owner, FALSE)
                     THEN {new} ELSE {}
    OBVIOUS
  <2>4. ASSUME NEW c \in X, c.owner.kind = "AGENT", permit'[Session] \in Permits,
               permit'[Session].kind = p.kind
        PROVE  c.sole /\ c.owner.fence # 0 /\ SameAuthority(c.owner, permit'[Session])
    <3>1. /\ c.owner = m.owner /\ c.sole
          /\ Authorizes(permit'[Session], deadline'[Session], m.owner, FALSE)
      <4> HIDE DEF new, out
      <4>1. c = new /\ Authorizes(permit'[Session], deadline'[Session], m.owner, FALSE)
        BY <2>3, <2>4
      <4>2. new.owner = m.owner /\ new.sole
        BY DEF new
      <4> QED BY <4>1, <4>2
    <3>2. permit'[Session].kind = "AGENT" /\ m.owner.kind = "AGENT"
      BY <1>1, <2>4, <3>1 DEF CommandShape
    <3>3. SameAuthority(m.owner, permit'[Session])
      BY <3>1, <3>2 DEF Authorizes, SameAuthority
    <3>4. permit'[Session].fence # 0
      BY <2>4, <3>2, PermitFields
    <3> QED BY <3>1, <3>3, <3>4 DEF SameAuthority
  <2>5. CASE out = "stored"
    <3>1. Store(Session, p, est)
      BY <2>2, <2>5 DEF Accept
    <3>2. permit'[Session] = p
      BY <3>1, Domains DEF Store
    <3>3. StoreOf(m, est)
      BY <1>5, <2>2, <2>5, <3>1, Domains DEF StoreOf, Store, Held
    <3>4. p.kind # "STARTUP"
      BY <1>1, <1>5 DEF CommandShape
    <3>5. Delivered(m)
      BY <1>0, <3>4 DEF Delivered
    <3>6. /\ running'[Session] \subseteq Overtaken(Session, m.permit, est) \cup X
          /\ \A c \in X : c.owner.kind = "AGENT" =>
                c.sole /\ c.owner.fence # 0 /\ SameAuthority(c.owner, m.permit)
      BY <1>1, <2>2, <2>3, <2>4, <3>2
    <3> HIDE DEF est, out, new, p
    <3> QED BY <1>0, <1>2, <2>1, <2>2, <3>3, <3>5, <3>6, StoreKeeps
  <2>6. CASE out = "ignored"
    <3>1. UNCHANGED <<permit, epoch, revoked>>
      BY <2>2, <2>6 DEF Accept, table
    <3>2. SameOwner(Session, p)
      BY <2>6 DEF AcceptOutcome, StaleSnapshot
    <3>3. permit[Session] # NoPermit /\ permit[Session] \in Permits /\ permit[Session].kind = p.kind
      BY <3>2, RegisteredNow DEF SameOwner, Registered
    <3>4. Overtaken(Session, p, est) = running[Session]
      BY <2>6, QuietOvertaken
    <3>5. /\ running'[Session] \subseteq running[Session] \cup X
          /\ \A c \in X : c.owner.kind = "AGENT" =>
                c.sole /\ c.owner.fence # 0 /\ SameAuthority(c.owner, permit[Session])
      BY <2>2, <2>3, <2>4, <3>1, <3>3, <3>4
    <3> HIDE DEF est, out, new, p
    <3> QED BY <1>0, <1>5, <2>1, <2>2, <3>1, <3>3, <3>5, StartKeeps
  <2>7. CASE out \notin {"stored", "ignored"}
    <3>1. running'[Session] = running[Session]
      BY <2>2, <2>7, QuietOvertaken
    <3>2. /\ epoch' = epoch
          /\ \/ UNCHANGED <<permit, revoked>>
             \/ permit'[Session] = NoPermit /\ Session \in revoked'
      <4>1. out \in {"denied", "revoked"}
        BY <2>7 DEF AcceptOutcome
      <4> QED BY <2>2, <2>7, <4>1, Domains DEF Accept, Revoke, table
    <3> HIDE DEF est, out, new, p
    <3>3. UNCHANGED <<now, connected, live, hbSeen>> /\ ConnectionInv'
      BY <1>0, <2>2, ConnectionStays
    <3> QED BY <1>0, <2>1, <3>1, <3>2, <3>3, RuntimeMoves
  <2> QED BY <2>5, <2>6, <2>7
<1> QED BY <1>3, <1>4, <1>5 DEF ReceiveCommand

-----------------------------------------------------------------------------
(* AInv holds initially and every step keeps it. *)
LEMMA AuthorityInit ==
    ASSUME InitAuthority
    PROVE  AInv
<1>0. PICK s \in Settings :
         row = [status |-> "OPENING", quarantined |-> FALSE, lease |-> s.sessionLease, gen |-> 0,
                owner |-> 0, permitExp |-> StartupWindow, humanExp |-> 0, setting |-> s]
  BY DEF InitAuthority
<1>1. /\ Session \in Sessions /\ StartupWindow \in Nat /\ MaxFlight \in Nat
      /\ s.sessionLease \in Nat /\ s.taskLease \in Nat /\ s.claims \in Nat /\ s.controls \in Nat
  BY AuthorityParameters
<1>2. IInv
  BY InitIsGood DEF InitAuthority
<1>3. RowsInv
  <2>1. row \in Rows
    BY <1>0, <1>1 DEF Rows, Open
  <2>2. task \in TaskRows
    BY DEF InitAuthority, TaskRows
  <2> QED BY <1>0, <1>1, <2>1, <2>2 DEF RowsInv, InitAuthority, MaxGen, MaxFence
<1>4. flight = {} /\ Carried = {} /\ hbSeen = -1
  BY DEF InitAuthority, Carried
<1>5. FlightInv
  BY <1>1, <1>4, FS_EmptySet DEF FlightInv
<1>6. ConnectionInv /\ OrderInv /\ LateInv
  BY <1>4 DEF ConnectionInv, Handshaking, OrderInv, LateInv
<1>7. Registration /\ CommandsInv
  BY <1>0, <1>1 DEF InitAuthority, Init, Registration, CommandsInv, NoEpoch
<1> QED BY <1>2, <1>3, <1>5, <1>6, <1>7 DEF AInv

LEMMA AuthorityStep ==
    ASSUME AInv, [NextAuthority]_avars
    PROVE  AInv'
<1>1. CASE UNCHANGED avars
  <2>1. /\ UNCHANGED <<runtime, flight, hbSeen>> /\ UNCHANGED <<row, task, human, checked>>
        /\ now' = now
    BY <1>1 DEF avars, control, runtime
  <2>2. RowsInv' /\ RowMove
    BY <2>1, RowsStay, Domains DEF AInv
  <2> QED BY <2>1, <2>2, ControlStep
<1>2. CASE \E m \in flight : \/ HandleHeartbeat(m) \/ ReceiveAck(m) \/ HandleHello(m)
                             \/ ReceiveAccepted(m) \/ ReceiveReconcile(m) \/ ReceiveCommand(m)
  BY <1>2, HandleHeartbeatKeeps, ReceiveAckKeeps, HandleHelloKeeps, ReceiveAcceptedKeeps,
     ReceiveReconcileKeeps, ReceiveCommandKeeps
<1>3. CASE \/ RuntimeStep \/ ConnectionLost \/ SendHeartbeat \/ SendHello \/ DispatchOpen \/ Activate
           \/ AgentCommandChecked \/ \E f \in checked : AgentCommandDispatched(f)
  BY <1>3, RuntimeStepKeeps, ConnectionLostKeeps, SendHeartbeatKeeps, SendHelloKeeps,
     DispatchOpenKeeps, ActivateKeeps, AgentCommandCheckedKeeps, AgentCommandDispatchedKeeps
<1>4. CASE \/ Claim \/ AgentHeartbeat \/ RequestHuman \/ ResolveHuman \/ RecoverExpiredLease
           \/ Takeover \/ TakeoverDispatched \/ TakeoverAnswered
           \/ ReleaseDispatched \/ ReleaseAnswered \/ SweepSession
  BY <1>4, ClaimKeeps, AgentHeartbeatKeeps, RequestHumanKeeps, ResolveHumanKeeps,
     RecoverExpiredLeaseKeeps, TakeoverKeeps, TakeoverDispatchedKeeps, TakeoverAnsweredKeeps,
     ReleaseDispatchedKeeps, ReleaseAnsweredKeeps, SweepSessionKeeps
<1> QED BY <1>1, <1>2, <1>3, <1>4 DEF NextAuthority

LEMMA AuthorityInductive == SpecAuthority => []AInv
  BY AuthorityInit, AuthorityStep, PTL DEF SpecAuthority

-----------------------------------------------------------------------------
(* What the permit of the Runtime's table says was granted by
   session-permit.ts, and the rows have their shape. *)
THEOREM AuthorityGranted == SpecAuthority => []AuthorityWasGranted
<1>1. AInv => AuthorityWasGranted
  <2> SUFFICES ASSUME AInv PROVE AuthorityWasGranted
    OBVIOUS
  <2>1. TypeOK
    BY DEF AInv, IInv, ClockInv, TableInv, TableType, ManagerType, TypeOK
  <2>2. TypeAuthority
    <3>1. /\ row.status \in Open \cup {"LOST"} /\ task.status \in {"PENDING", "RUNNING", "WAITING_HUMAN", "FAILED"}
          /\ row.lease \in Nat /\ row.gen \in Nat /\ row.owner \in Nat /\ task.fence \in Nat
          /\ MaxGen \in Nat /\ MaxFence \in Nat
      BY RowFacts DEF Rows, TaskRows, MaxGen, MaxFence
    <3>2. row.gen \in 0..(MaxGen + 1) /\ row.owner \in 0..MaxFence /\ task.fence \in 0..(MaxFence + 1)
      BY <3>1 DEF AInv, RowsInv
    <3> QED BY <2>1, <3>1, <3>2 DEF TypeAuthority, AInv, RowsInv, FlightInv
  <2>3. permit[Session] # NoPermit =>
           /\ permit[Session].fence <= row.owner /\ permit[Session].gen <= row.gen
           /\ skew >= 0 /\ deadline[Session] <= permit[Session].expiresAt
    BY RegisteredNow, Domains DEF IInv, ClockInv, TableInv, DeadlineWithinExpiry, Granted
  <2> QED BY <2>2, <2>3 DEF AuthorityWasGranted
<1> QED BY <1>1, AuthorityInductive, PTL

(* recoverExpiredLeases declares an executor lost: every permit it was granted
   has expired, on the Runtime's clock as on the control plane's. *)
THEOREM LostIsSilent == SpecAuthority => []LostExecutorIsSilent
<1>1. AInv => LostExecutorIsSilent
  <2> SUFFICES ASSUME AInv, task.recovery = "PENDING"
               PROVE  /\ ~(permit[Session].kind = "AGENT" /\ Forwards(Session))
                      /\ \A c \in running[Session] : c.owner.kind = "AGENT" => ~Reported(Session, c)
    BY DEF LostExecutorIsSilent
  <2>1. permit[Session] # NoPermit /\ permit[Session].kind = "AGENT" => ~(deadline[Session] > now)
    <3> SUFFICES ASSUME permit[Session] # NoPermit, permit[Session].kind = "AGENT"
                 PROVE  ~(deadline[Session] > now)
      OBVIOUS
    <3>1. permit[Session].expiresAt \in Nat /\ permit[Session].expiresAt <= now
      BY RegisteredNow DEF Granted, LeaseBound
    <3>2. deadline[Session] \in Int /\ deadline[Session] <= permit[Session].expiresAt /\ now \in Nat
      BY Domains DEF IInv, TableInv, TableType, DeadlineWithinExpiry
    <3> QED BY <3>1, <3>2
  <2>2. ~(permit[Session].kind = "AGENT" /\ Forwards(Session))
    BY <2>1 DEF Forwards, NetworkAllowed, Assert, Authorizes
  <2>3. ASSUME NEW c \in running[Session], c.owner.kind = "AGENT", Reported(Session, c)
        PROVE  FALSE
    <3>1. /\ permit[Session] # NoPermit /\ deadline[Session] > now
          /\ permit[Session].kind \notin {"STARTUP", "HUMAN", "SYSTEM"}
      BY <2>3 DEF Reported, Assert, Authorizes
    <3>2. permit[Session].kind = "AGENT"
      BY <3>1, RegisteredNow DEF Granted
    <3> QED BY <2>1, <3>1, <3>2
  <2> QED BY <2>2, <2>3
<1> QED BY <1>1, AuthorityInductive, PTL

(* assertCommandAuthority, before and after the browser acts: an authority that
   was overtaken in between does not come back. *)
THEOREM AuthorityIsSole == SpecAuthority => []SoleAuthority
<1>1. AInv => SoleAuthority
  <2> SUFFICES ASSUME AInv, NEW c \in running[Session], c.owner.kind = "AGENT",
                      Reported(Session, c), ~c.sole
               PROVE  FALSE
    BY DEF SoleAuthority
  <2>1. /\ permit[Session] # NoPermit /\ permit[Session].kind \notin {"STARTUP", "HUMAN", "SYSTEM"}
        /\ c.owner.gen = permit[Session].gen
        /\ permit[Session].kind = "AGENT" => c.owner.fence = permit[Session].fence
    BY DEF Reported, Assert, Authorizes
  <2>2. permit[Session].kind = "AGENT" /\ permit[Session].fence # 0 /\ permit[Session].fence \in Nat
        /\ permit[Session].gen \in Nat
    BY <2>1, RegisteredNow, PermitFields DEF Granted
  <2>3. epoch[Session].token = permit[Session].fence
    BY <2>1, <2>2 DEF AInv, Registration
  <2>4. Passed(c.owner.fence, c.owner.gen)
    BY <2>1 DEF AInv, CommandsInv
  <2> QED BY <2>1, <2>2, <2>3, <2>4 DEF Passed
<1> QED BY <1>1, AuthorityInductive, PTL
=============================================================================
