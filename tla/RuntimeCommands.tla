--------------------------- MODULE RuntimeCommands ---------------------------
(***************************************************************************)
(* Commands of the control plane to one Browser Runtime, and the artifacts *)
(* their results carry.                                                    *)
(*                                                                         *)
(* A caller (RuntimeCommandDispatcher.execute) creates a command row,      *)
(* sends the command and polls the row until it is terminal, its deadline  *)
(* passes or its own caller gives up.  The Runtime runs the command and    *)
(* keeps the result in an outbox until the gateway acknowledges it, so a   *)
(* result is delivered again after a reconnection.  The gateway's handler  *)
(* (acceptResult) first records a deletion intent, then uploads the        *)
(* artifact, then claims the row and publishes the artifact in one         *)
(* transaction.  The lease sweeper settles rows whose caller is gone, and  *)
(* the retention worker deletes the objects whose intent has come due.     *)
(***************************************************************************)
EXTENDS Integers

CONSTANTS
    Commands,       \* the commands of one session
    Workers,        \* replicas that run the retention worker
    Deadline,       \* timeoutSeconds of a command
    UploadTime,     \* the 60 s abort signal of an upload
    IntentTime,     \* the 3600 s after which an upload intent comes due
    PurgeLease,     \* the 60 s claim of a deletion
    Backoff,        \* delay before a failed deletion is tried again
    Settings        \* what a behaviour is about, and its bounds (see below)

ASSUME CommandConstants ==
    /\ {Deadline, UploadTime, IntentTime, PurgeLease, Backoff} \subseteq Nat \ {0}
    /\ UploadTime < IntentTime
    /\ Commands # {}
    /\ Settings \subseteq [opens : SUBSET Commands, purgers : SUBSET Workers,
                           runtimes : SUBSET BOOLEAN, until : Nat, generations : Nat,
                           keys : Nat]

VARIABLES
    now,        \* the clock of the control plane
    command,    \* BrowserRuntimeCommand rows
    caller,     \* the execute call of each command: where it is, the generation it read
    sweeping,   \* how far the lease sweeper is with each command
    owner,      \* the executor's task is leased under the fence the commands carry
    session,    \* the session row: may it launch, and the launch identity registered
    generation, \* BrowserRuntime.connectionGeneration
    identifies, \* the Runtime row: the Runtime that connected last can identify its launches
    socket,     \* generation of the Runtime's open socket, 0 when there is none
    wire,       \* messages to the Runtime
    running,    \* commands the Runtime is executing
    browser,    \* the Runtime has launched a browser
    outbox,     \* results the Runtime keeps until they are acknowledged
    frames,     \* results on their way to the gateway
    handler,    \* the acceptResult call in progress on each connection
    uploads,    \* storage keys used so far
    objects,    \* keys with an object in storage
    intent,     \* ObjectStorageDeletionTask rows by storage key
    artifacts,  \* keys published as artifacts, with their command
    purger      \* the deletion each retention worker has claimed

cp == <<command, caller, sweeping, owner, session>>
rt == <<identifies, socket, running, browser, outbox, frames>>
store == <<uploads, objects, intent, artifacts, purger>>
vars == <<now, cp, generation, rt, wire, handler, store>>

OpenCommands == session.setting.opens    \* the session.open commands
Purgers == session.setting.purgers       \* the replicas that are up
Runtimes == session.setting.runtimes     \* whether those that connect identify launches
MaxTime == session.setting.until         \* bound: the clock
MaxGen == session.setting.generations    \* bound: connection generations
MaxKeys == session.setting.keys          \* bound: uploaded artifacts

Keys == UNION {1..s.keys : s \in Settings}
Generations == UNION {1..s.generations : s \in Settings}
Open == {"PENDING", "DISPATCHED"}
Terminal == {"SUCCEEDED", "FAILED", "CANCELLED", "TIMED_OUT"}
None == [is |-> FALSE, due |-> 0, token |-> 0, until |-> 0]
Idle == [pc |-> "idle", command |-> CHOOSE c \in Commands : TRUE,
         ok |-> FALSE, key |-> 0, by |-> 0]

TypeCommands ==
    (* Shape of every variable. *)
    /\ now \in 0..MaxTime
    /\ command \in [Commands ->
         [status : {"NONE"} \cup Open \cup Terminal, deadline : 0..MaxTime]]
    /\ caller \in [Commands ->
         [pc : {"idle", "created", "read", "registered", "sent", "waiting", "aborting",
                "cancel", "done"},
          gen : 0..MaxGen]]
    /\ sweeping \in [Commands -> {"no", "selected", "cancelled"}]
    /\ owner \in BOOLEAN
    /\ session \in [opening : BOOLEAN, launch : BOOLEAN, setting : Settings]
    /\ generation \in 0..MaxGen /\ identifies \in BOOLEAN
    /\ socket \in 0..MaxGen
    /\ wire \subseteq [type : {"execute", "cancel"}, command : Commands]
    /\ running \subseteq Commands
    /\ browser \in BOOLEAN
    /\ outbox \in [Commands -> {"none", "queued-ok", "queued-failed", "sent-ok", "sent-failed"}]
    /\ frames \subseteq [command : Commands, ok : BOOLEAN, gen : Generations]
    /\ handler \in [Generations ->
         [pc : {"idle", "upload", "put", "publish", "ack"}, command : Commands,
          ok : BOOLEAN, key : 0..MaxKeys, by : 0..(MaxTime + UploadTime)]]
    /\ uploads \in 0..MaxKeys
    /\ objects \subseteq Keys
    /\ intent \in [Keys -> [is : BOOLEAN, due : 0..(MaxTime + IntentTime + Backoff),
                            token : Nat, until : 0..(MaxTime + PurgeLease)]]
    /\ artifacts \subseteq (Keys \X Commands)
    /\ purger \in [Workers -> [key : 0..MaxKeys, token : Nat, deleted : BOOLEAN]]

Init ==
    /\ now = 0
    /\ command = [c \in Commands |-> [status |-> "NONE", deadline |-> 0]]
    /\ caller = [c \in Commands |-> [pc |-> "idle", gen |-> 0]]
    /\ sweeping = [c \in Commands |-> "no"]
    /\ owner = TRUE
    /\ \E s \in Settings : session = [opening |-> s.opens # {}, launch |-> FALSE, setting |-> s]
    /\ generation = 0 /\ identifies = FALSE /\ socket = 0
    /\ wire = {}
    /\ running = {}
    /\ browser = FALSE
    /\ outbox = [c \in Commands |-> "none"]
    /\ frames = {}
    /\ handler = [g \in Generations |-> Idle]
    /\ uploads = 0
    /\ objects = {}
    /\ intent = [k \in Keys |-> None]
    /\ artifacts = {}
    /\ purger = [w \in Workers |-> [key |-> 0, token |-> 0, deleted |-> FALSE]]

-----------------------------------------------------------------------------
(* The caller. *)

(* A message is for the connection of one generation, and reaches the Runtime
   only while that connection is open: RuntimeConnectionHub.send finds no
   socket of another generation on any replica. *)
Post(type, c, gen) ==
    wire' = IF socket # 0 /\ gen = socket THEN wire \cup {[type |-> type, command |-> c]} ELSE wire

(* A launch is the system's; every other command acts for an executor. *)
Owned(c) == c \in OpenCommands \/ owner

(* execute up to the creation of the row: the session can receive commands,
   the owner holds its lease.  The bound keeps every deadline on the clock. *)
Execute(c) ==
    /\ caller[c].pc = "idle"
    /\ Owned(c)
    /\ now + Deadline <= MaxTime
    /\ command' = [command EXCEPT ![c] = [status |-> "PENDING", deadline |-> now + Deadline]]
    /\ caller' = [caller EXCEPT ![c].pc = "created"]
    /\ UNCHANGED <<now, sweeping, owner, session, generation, rt, wire, handler, store>>

(* The Runtime row is read, and with it the generation the command will be
   sent to.  Past the deadline the command is not sent at all. *)
ReadRuntime(c) ==
    /\ caller[c].pc = "created"
    /\ caller' = [caller EXCEPT ![c] = IF now >= command[c].deadline
                                       THEN [@ EXCEPT !.pc = "waiting"]
                                       ELSE [pc |-> "read", gen |-> generation]]
    /\ UNCHANGED <<now, command, sweeping, owner, session, generation, rt, wire, handler, store>>

(* Mutant: session.open leaves without a registered launch identity, whatever
   the Runtime can do. *)
RegisterLaunchNothing(c) ==
    /\ caller[c].pc = "read" /\ c \in OpenCommands
    /\ caller' = [caller EXCEPT ![c].pc = "registered"]
    /\ UNCHANGED <<now, command, sweeping, owner, session, generation, rt, wire, handler, store>>

(* The transaction that registers the launch identity of a session.open before
   the command leaves: the connection is the one read before, the session may
   still launch.  Otherwise execute throws and leaves the row pending.  A
   Runtime before protocol 14, without closure-evidence-v1 or without a host
   instance launches under no identity.  (An identity of another host, or of a
   command sent before, throws too: see CallerStops.) *)
RegisterLaunch(c) ==
    /\ caller[c].pc = "read" /\ c \in OpenCommands
    /\ LET launchable == session.opening /\ generation = caller[c].gen
       IN  /\ session' = IF launchable /\ identifies THEN [session EXCEPT !.launch = TRUE]
                         ELSE session
           /\ caller' = [caller EXCEPT ![c].pc = IF launchable THEN "registered" ELSE "done"]
    /\ UNCHANGED <<now, command, sweeping, owner, generation, rt, wire, handler, store>>

Ready(c) == caller[c].pc = IF c \in OpenCommands THEN "registered" ELSE "read"

(* The second check of the owner, which throws, and the delivery. *)
Send(c) ==
    /\ Ready(c)
    /\ caller' = [caller EXCEPT ![c] = [pc |-> IF Owned(c) THEN "sent" ELSE "done", gen |-> 0]]
    /\ IF Owned(c) THEN Post("execute", c, caller[c].gen) ELSE UNCHANGED wire
    /\ UNCHANGED <<now, command, sweeping, owner, session, generation, rt, handler, store>>

(* The connected Runtime lacks a capability the command needs. *)
Unsupported(c) ==
    /\ Ready(c) /\ Owned(c)
    /\ command' = [command EXCEPT ![c].status = IF @ = "PENDING" THEN "FAILED" ELSE @]
    /\ caller' = [caller EXCEPT ![c] = [pc |-> "done", gen |-> 0]]
    /\ UNCHANGED <<now, sweeping, owner, session, generation, rt, wire, handler, store>>

(* Mutant: the row is marked dispatched whatever happened to it since. *)
MarkDispatchedAlways(c) ==
    /\ caller[c].pc = "sent"
    /\ command' = [command EXCEPT ![c].status = "DISPATCHED"]
    /\ caller' = [caller EXCEPT ![c].pc = "waiting"]
    /\ UNCHANGED <<now, sweeping, owner, session, generation, rt, wire, handler, store>>

(* The row is marked dispatched after the delivery, if nothing settled it. *)
MarkDispatched(c) ==
    /\ caller[c].pc = "sent"
    /\ command' = [command EXCEPT ![c].status = IF @ = "PENDING" THEN "DISPATCHED" ELSE @]
    /\ caller' = [caller EXCEPT ![c].pc = "waiting"]
    /\ UNCHANGED <<now, sweeping, owner, session, generation, rt, wire, handler, store>>

(* A poll of waitForCompletion finds the row terminal. *)
Poll(c) ==
    /\ caller[c].pc = "waiting"
    /\ now < command[c].deadline
    /\ command[c].status \in Terminal
    /\ caller' = [caller EXCEPT ![c] = [pc |-> "done", gen |-> 0]]
    /\ UNCHANGED <<now, command, sweeping, owner, session, generation, rt, wire, handler, store>>

(* A poll finds the row open and the caller's own signal aborted ... *)
Abort(c) ==
    /\ caller[c].pc = "waiting"
    /\ now < command[c].deadline
    /\ command[c].status \in Open
    /\ caller' = [caller EXCEPT ![c].pc = "aborting"]
    /\ UNCHANGED <<now, command, sweeping, owner, session, generation, rt, wire, handler, store>>

(* ... and cancel claims the row, unless it was settled in between. *)
Cancel(c) ==
    /\ caller[c].pc = "aborting"
    /\ LET settled == command[c].status \in Terminal
       IN  /\ command' = IF settled THEN command ELSE [command EXCEPT ![c].status = "CANCELLED"]
           /\ caller' = [caller EXCEPT ![c].pc = IF settled THEN "done" ELSE "cancel"]
    /\ UNCHANGED <<now, sweeping, owner, session, generation, rt, wire, handler, store>>

(* Mutant: a timeout is recorded under a status the row does not have. *)
TimeOutExpired(c) ==
    /\ caller[c].pc = "waiting"
    /\ now >= command[c].deadline
    /\ command' = [command EXCEPT ![c].status = IF @ \in Open THEN "EXPIRED" ELSE @]
    /\ caller' = [caller EXCEPT ![c].pc = "cancel"]
    /\ UNCHANGED <<now, sweeping, owner, session, generation, rt, wire, handler, store>>

(* The deadline passes: the row is claimed as timed out unless it is settled. *)
TimeOut(c) ==
    /\ caller[c].pc = "waiting"
    /\ now >= command[c].deadline
    /\ command' = [command EXCEPT ![c].status = IF @ \in Open THEN "TIMED_OUT" ELSE @]
    /\ caller' = [caller EXCEPT ![c].pc = "cancel"]
    /\ UNCHANGED <<now, sweeping, owner, session, generation, rt, wire, handler, store>>

(* The Runtime is told to stop, over whatever connection is current. *)
SendCancel(c) ==
    /\ caller[c].pc = "cancel"
    /\ Post("cancel", c, generation)
    /\ caller' = [caller EXCEPT ![c] = [pc |-> "done", gen |-> 0]]
    /\ UNCHANGED <<now, command, sweeping, owner, session, generation, rt, handler, store>>

(* The replica that runs the call stops, or a step of the call throws. *)
CallerStops(c) ==
    /\ caller[c].pc \notin {"idle", "done"}
    /\ caller' = [caller EXCEPT ![c] = [pc |-> "done", gen |-> 0]]
    /\ UNCHANGED <<now, command, sweeping, owner, session, generation, rt, wire, handler, store>>

(* Mutant: the sweeper forgets the rows that were never marked dispatched. *)
SweepSelectDispatched(c) ==
    /\ sweeping[c] = "no"
    /\ command[c].status = "DISPATCHED" /\ now >= command[c].deadline
    /\ sweeping' = [sweeping EXCEPT ![c] = "selected"]
    /\ UNCHANGED <<now, command, caller, owner, session, generation, rt, wire, handler, store>>

(* The sweeper selects the open rows past their deadline ... *)
SweepSelect(c) ==
    /\ sweeping[c] = "no"
    /\ command[c].status \in Open /\ now >= command[c].deadline
    /\ sweeping' = [sweeping EXCEPT ![c] = "selected"]
    /\ UNCHANGED <<now, command, caller, owner, session, generation, rt, wire, handler, store>>

(* ... cancels what is still open, and tells the Runtime ... *)
SweepCancel(c) ==
    /\ sweeping[c] = "selected"
    /\ sweeping' = [sweeping EXCEPT ![c] = "cancelled"]
    /\ IF command[c].status \in Terminal
       THEN UNCHANGED <<command, wire>>
       ELSE /\ command' = [command EXCEPT ![c].status = "CANCELLED"]
            /\ Post("cancel", c, generation)
    /\ UNCHANGED <<now, caller, owner, session, generation, rt, handler, store>>

(* ... and then renames a cancellation to a timeout, whoever cancelled; the
   replica may stop before it. *)
SweepMark(c) ==
    /\ sweeping[c] = "cancelled"
    /\ \/ command' = [command EXCEPT ![c].status = IF @ = "CANCELLED" THEN "TIMED_OUT" ELSE @]
       \/ UNCHANGED command
    /\ sweeping' = [sweeping EXCEPT ![c] = "no"]
    /\ UNCHANGED <<now, caller, owner, session, generation, rt, wire, handler, store>>

(* The executor's lease ends; the session stops accepting a launch. *)
LoseOwner ==
    /\ owner
    /\ owner' = FALSE
    /\ UNCHANGED <<now, command, caller, sweeping, session, generation, rt, wire, handler, store>>

LeaveOpening ==
    /\ session.opening
    /\ session' = [session EXCEPT !.opening = FALSE]
    /\ UNCHANGED <<now, command, caller, sweeping, owner, generation, rt, wire, handler, store>>

-----------------------------------------------------------------------------
(* The Runtime. *)

(* A hello is accepted under the next generation; what was sent and not
   acknowledged will be sent again.  A Runtime that is not the process that
   launched a browser may have another version. *)
Connect ==
    /\ socket = 0 /\ generation < MaxGen
    /\ generation' = generation + 1
    /\ socket' = generation + 1
    /\ identifies' \in IF browser THEN {identifies} ELSE Runtimes
    /\ UNCHANGED <<now, cp, running, browser, outbox, frames, wire, handler, store>>

Queued(ok) == IF ok THEN "queued-ok" ELSE "queued-failed"
Unsent(entry) == CASE entry = "sent-ok" -> "queued-ok"
                   [] entry = "sent-failed" -> "queued-failed"
                   [] OTHER -> entry

(* The socket closes: running commands are aborted, and each leaves a failed
   result in the outbox; sent results become unsent again. *)
Disconnect ==
    /\ socket # 0
    /\ socket' = 0
    /\ outbox' = [c \in Commands |-> IF c \in running THEN Queued(FALSE) ELSE Unsent(outbox[c])]
    /\ running' = {} /\ wire' = {}
    /\ UNCHANGED <<now, cp, generation, identifies, browser, frames, handler, store>>

(* The process stops: its memory, the outbox included, and its browser go. *)
RuntimeStops ==
    /\ socket' = 0
    /\ running' = {} /\ wire' = {}
    /\ browser' = FALSE
    /\ outbox' = [c \in Commands |-> "none"]
    /\ <<socket, running, browser, outbox>> # <<0, {}, FALSE, [c \in Commands |-> "none"]>>
    /\ UNCHANGED <<now, cp, generation, identifies, frames, handler, store>>

(* The Runtime handles messages concurrently, in any order.  A cancellation
   aborts a running command, which fails; cancelling a launch
   closes the browser. *)
Receive(m) ==
    /\ m \in wire
    /\ wire' = wire \ {m}
    /\ LET aborts == m.type = "cancel" /\ m.command \in running
           starts == m.type = "execute"
           launch == m.command \in OpenCommands
       IN  /\ running' = IF starts THEN running \cup {m.command}
                         ELSE IF aborts THEN running \ {m.command} ELSE running
           /\ outbox' = IF aborts THEN [outbox EXCEPT ![m.command] = Queued(FALSE)] ELSE outbox
           /\ browser' = ((browser /\ ~(aborts /\ launch)) \/ (starts /\ launch))
    /\ UNCHANGED <<now, cp, generation, identifies, socket, frames, handler, store>>

(* The command ends and its result is queued under its command id. *)
Finish(c, ok) ==
    /\ c \in running
    /\ running' = running \ {c}
    /\ outbox' = [outbox EXCEPT ![c] = IF @ = "none" THEN Queued(ok) ELSE @]
    /\ UNCHANGED <<now, cp, generation, identifies, socket, browser, frames, wire, handler, store>>

(* What is queued and not yet sent on this connection is sent. *)
FlushOutbox(c) ==
    /\ socket # 0
    /\ outbox[c] \in {"queued-ok", "queued-failed"}
    /\ LET ok == outbox[c] = "queued-ok"
       IN  /\ outbox' = [outbox EXCEPT ![c] = IF ok THEN "sent-ok" ELSE "sent-failed"]
           /\ frames' = frames \cup {[command |-> c, ok |-> ok, gen |-> socket]}
    /\ UNCHANGED <<now, cp, generation, identifies, socket, running, browser, wire, handler, store>>

(* A frame of a connection that closed may never arrive. *)
LoseFrame(f) ==
    /\ f \in frames /\ f.gen # socket
    /\ frames' = frames \ {f}
    /\ UNCHANGED <<now, cp, generation, identifies, socket, running, browser, outbox, wire, handler, store>>

-----------------------------------------------------------------------------
(* The gateway.  Frames of one connection are handled one after the other. *)

(* The handler of a result starts.  A frame of a replaced connection is
   refused, a settled command only acknowledged, and so is a result whose
   executor lost its lease. *)
AcceptResult(f) ==
    /\ f \in frames
    /\ handler[f.gen].pc = "idle"
    /\ frames' = frames \ {f}
    /\ LET moot == command[f.command].status \in Terminal \/ ~Owned(f.command)
           start == IF moot THEN "ack" ELSE IF f.ok THEN "upload" ELSE "publish"
       IN  handler' = IF generation # f.gen THEN handler
                      ELSE [handler EXCEPT ![f.gen] =
                              [Idle EXCEPT !.pc = start, !.command = f.command, !.ok = f.ok]]
    /\ UNCHANGED <<now, cp, generation, identifies, socket, running, browser, outbox, wire, store>>

(* Mutant: the cleanup intent is left out before the upload. *)
RecordIntentNone(g) ==
    /\ handler[g].pc = "upload" /\ uploads < MaxKeys
    /\ uploads' = uploads + 1
    /\ handler' = [handler EXCEPT ![g].pc = "put", ![g].key = uploads + 1, ![g].by = now + UploadTime]
    /\ UNCHANGED <<now, cp, generation, rt, wire, objects, intent, artifacts, purger>>

(* The cleanup intent is durable before the object is written. *)
RecordIntent(g) ==
    /\ handler[g].pc = "upload" /\ uploads < MaxKeys
    /\ uploads' = uploads + 1
    /\ intent' = [intent EXCEPT ![uploads + 1] = [None EXCEPT !.is = TRUE, !.due = now + IntentTime]]
    /\ handler' = [handler EXCEPT ![g].pc = "put", ![g].key = uploads + 1, ![g].by = now + UploadTime]
    /\ UNCHANGED <<now, cp, generation, rt, wire, objects, artifacts, purger>>

Put(g) ==
    /\ handler[g].pc = "put" /\ now <= handler[g].by
    /\ objects' = objects \cup {handler[g].key}
    /\ handler' = [handler EXCEPT ![g].pc = "publish", ![g].by = 0]
    /\ UNCHANGED <<now, cp, generation, rt, wire, uploads, intent, artifacts, purger>>

(* The handler throws, or its replica stops: the socket is closed by the
   gateway's catch, or with the replica. *)
HandlerStops(g) ==
    /\ handler[g].pc # "idle"
    /\ handler' = [handler EXCEPT ![g] = Idle]
    /\ IF socket = g
       THEN /\ socket' = 0 /\ running' = {} /\ wire' = {}
            /\ outbox' = [c \in Commands |-> IF c \in running THEN Queued(FALSE) ELSE Unsent(outbox[c])]
       ELSE UNCHANGED <<socket, running, wire, outbox>>
    /\ UNCHANGED <<now, cp, generation, identifies, browser, frames, store>>

(* Mutant: an intent that came due or was claimed is consumed all the same. *)
UnclaimedOrDue(k) == intent[k].is

(* The intent is still the handler's to consume. *)
Unclaimed(k) == intent[k].is /\ intent[k].token = 0 /\ now < intent[k].due

(* A result may still settle the row. *)
Claimable(c) == command[c].status \in Open

(* Mutant: the artifact is created also when the row was already settled. *)
PublishUnclaimed(g) ==
    /\ handler[g].pc = "publish"
    /\ LET c == handler[g].command
           k == handler[g].key
       IN  /\ handler[g].ok => Unclaimed(k)
           /\ command' = IF generation = g /\ Claimable(c)
                         THEN [command EXCEPT ![c].status = IF handler[g].ok THEN "SUCCEEDED" ELSE "FAILED"]
                         ELSE command
           /\ intent' = IF handler[g].ok THEN [intent EXCEPT ![k] = None] ELSE intent
           /\ artifacts' = IF handler[g].ok THEN artifacts \cup {<<k, c>>} ELSE artifacts
    /\ handler' = [handler EXCEPT ![g] = [Idle EXCEPT !.pc = "ack", !.command = handler[g].command]]
    /\ UNCHANGED <<now, caller, sweeping, owner, session, generation, rt, wire, uploads, objects, purger>>

(* Publication: one transaction that fences the connection, claims the open
   row, consumes the intent and creates the artifact.  When the connection is
   stale or the row is settled nothing changes, and the intent stays; when the
   intent is gone the transaction is undone and the handler throws. *)
Publish(g) ==
    /\ handler[g].pc = "publish"
    /\ LET c == handler[g].command
           k == handler[g].key
           claims == generation = g /\ Claimable(c)
       IN  /\ (claims /\ handler[g].ok) => Unclaimed(k)
           /\ command' = IF claims
                         THEN [command EXCEPT ![c].status = IF handler[g].ok THEN "SUCCEEDED" ELSE "FAILED"]
                         ELSE command
           /\ intent' = IF claims /\ handler[g].ok THEN [intent EXCEPT ![k] = None] ELSE intent
           /\ artifacts' = IF claims /\ handler[g].ok THEN artifacts \cup {<<k, c>>} ELSE artifacts
    /\ handler' = [handler EXCEPT ![g] = [Idle EXCEPT !.pc = "ack", !.command = handler[g].command]]
    /\ UNCHANGED <<now, caller, sweeping, owner, session, generation, rt, wire, uploads, objects, purger>>

(* The delivery is acknowledged on the connection the frame came from. *)
Acknowledge(g) ==
    /\ handler[g].pc = "ack"
    /\ handler' = [handler EXCEPT ![g] = Idle]
    /\ outbox' = IF socket = g THEN [outbox EXCEPT ![handler[g].command] = "none"] ELSE outbox
    /\ UNCHANGED <<now, cp, generation, identifies, socket, running, browser, frames, wire, store>>

-----------------------------------------------------------------------------
(* Retention. *)

Published(k) == \E c \in Commands : <<k, c>> \in artifacts

(* A worker claims a deletion that is due and not claimed; a key that is still
   referenced only loses its task. *)
PurgeClaim(w, k) ==
    /\ purger[w].key = 0
    /\ intent[k].is /\ intent[k].due <= now /\ intent[k].until <= now
    /\ IF Published(k)
       THEN /\ intent' = [intent EXCEPT ![k] = None]
            /\ UNCHANGED purger
       ELSE /\ intent' = [intent EXCEPT ![k].token = @ + 1, ![k].until = now + PurgeLease]
            /\ purger' = [purger EXCEPT ![w] = [key |-> k, token |-> intent[k].token + 1, deleted |-> FALSE]]
    /\ UNCHANGED <<now, cp, generation, rt, wire, handler, uploads, objects, artifacts>>

PurgeDelete(w) ==
    /\ purger[w].key # 0 /\ ~purger[w].deleted
    /\ objects' = objects \ {purger[w].key}
    /\ purger' = [purger EXCEPT ![w].deleted = TRUE]
    /\ UNCHANGED <<now, cp, generation, rt, wire, handler, uploads, intent, artifacts>>

Mine(w) == intent[purger[w].key].is /\ intent[purger[w].key].token = purger[w].token
NoPurge == [key |-> 0, token |-> 0, deleted |-> FALSE]

PurgeDone(w) ==
    /\ purger[w].deleted
    /\ intent' = IF Mine(w) THEN [intent EXCEPT ![purger[w].key] = None] ELSE intent
    /\ purger' = [purger EXCEPT ![w] = NoPurge]
    /\ UNCHANGED <<now, cp, generation, rt, wire, handler, uploads, objects, artifacts>>

(* The deletion fails and the task is put back. *)
PurgeFails(w) ==
    /\ purger[w].key # 0
    /\ intent' = IF Mine(w) THEN [intent EXCEPT ![purger[w].key].due = now + Backoff,
                                                ![purger[w].key].until = 0] ELSE intent
    /\ purger' = [purger EXCEPT ![w] = NoPurge]
    /\ UNCHANGED <<now, cp, generation, rt, wire, handler, uploads, objects, artifacts>>

(* The worker's replica stops with the claim in place. *)
PurgeStops(w) ==
    /\ purger[w].key # 0
    /\ purger' = [purger EXCEPT ![w] = NoPurge]
    /\ UNCHANGED <<now, cp, generation, rt, wire, handler, uploads, objects, intent, artifacts>>

(* An artifact past its retention loses its row and gains a deletion task in
   one transaction. *)
RetireArtifact(k) ==
    /\ Published(k)
    /\ artifacts' = {a \in artifacts : a[1] # k}
    /\ intent' = [intent EXCEPT ![k] = IF @.is THEN @ ELSE [None EXCEPT !.is = TRUE, !.due = now]]
    /\ UNCHANGED <<now, cp, generation, rt, wire, handler, uploads, objects, purger>>

Tick ==
    /\ now < MaxTime
    /\ now' = now + 1
    /\ UNCHANGED <<cp, generation, rt, wire, handler, store>>

-----------------------------------------------------------------------------
CallerStep(c) ==
    \/ Execute(c) \/ ReadRuntime(c) \/ RegisterLaunch(c) \/ Send(c) \/ Unsupported(c)
    \/ MarkDispatched(c) \/ Poll(c) \/ Abort(c) \/ Cancel(c) \/ TimeOut(c)
    \/ SendCancel(c) \/ CallerStops(c)

SweeperStep(c) == SweepSelect(c) \/ SweepCancel(c) \/ SweepMark(c)

RuntimeStep ==
    \/ Connect \/ Disconnect \/ RuntimeStops
    \/ \E m \in wire : Receive(m)
    \/ \E c \in Commands, ok \in BOOLEAN : Finish(c, ok)
    \/ \E c \in Commands : FlushOutbox(c)
    \/ \E f \in frames : LoseFrame(f)

GatewayStep(g) ==
    RecordIntent(g) \/ Put(g) \/ HandlerStops(g) \/ Publish(g) \/ Acknowledge(g)

PurgerStep(w) ==
    \/ \E k \in Keys : PurgeClaim(w, k)
    \/ PurgeDelete(w) \/ PurgeDone(w) \/ PurgeFails(w) \/ PurgeStops(w)

Next ==
    \/ \E c \in Commands : CallerStep(c) \/ SweeperStep(c)
    \/ \E f \in frames : AcceptResult(f)
    \/ LoseOwner \/ LeaveOpening
    \/ RuntimeStep
    \/ \E g \in Generations : GatewayStep(g)
    \/ \E w \in Purgers : PurgerStep(w)
    \/ \E k \in Keys : RetireArtifact(k)
    \/ Tick

Spec == Init /\ [][Next]_vars

(* The sweeper is an interval worker of every replica, and time passes. *)
FairSpec ==
    /\ Spec
    /\ WF_vars(Tick)
    /\ \A c \in Commands : WF_vars(SweepSelect(c)) /\ WF_vars(SweepCancel(c))

-----------------------------------------------------------------------------
(* The verdict of a command is final: of a result, a cancellation and a
   deadline, whichever settles the row first keeps it, whatever arrives,
   times out or is swept later.  The sweeper only renames a cancellation to
   a timeout. *)
VerdictStands ==
    [][\A c \in Commands :
         command[c].status \in Terminal =>
            \/ command'[c].status = command[c].status
            \/ command[c].status = "CANCELLED" /\ command'[c].status = "TIMED_OUT"
               /\ now >= command[c].deadline]_vars

(* No published artifact has lost its object, and no object is orphaned: neither the cleanup of an upload
   that took too long nor a deletion in progress can take the object of an
   artifact that was published in the meantime, and whatever stops between the
   steps of an upload, a stored object is published or has a deletion task. *)
PublishedIsStored ==
    /\ \A k \in Keys : Published(k) => k \in objects
    /\ \A k \in objects : Published(k) \/ intent[k].is

(* Redelivered results publish once: a command has artifacts only when it
   succeeded, and from one delivery only. *)
PublishedOnce ==
    /\ TypeCommands
    /\ \A a, b \in artifacts : a[2] = b[2] => a = b
    /\ \A a \in artifacts : command[a[2]].status = "SUCCEEDED"

(* A browser of a Runtime that can identify its launches never runs without
   the control plane having registered it: its identity was durable before the
   command could reach the Runtime, over whatever connections and versions of
   the Runtime, although the capability is read in one transaction and the
   message sent after another check.  (Of an older Runtime nothing is
   registered, and recovery puts its session before an operator.) *)
LaunchIsRegistered == browser /\ identifies => session.launch

(* Every command row is settled, also when the replica that waited for it
   stopped, and whatever becomes of the Runtime. *)
CommandSettles ==
    \A c \in Commands : command[c].status \in Open ~> command[c].status \in Terminal
=============================================================================
