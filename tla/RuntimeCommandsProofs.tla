------------------------ MODULE RuntimeCommandsProofs ------------------------
(***************************************************************************)
(* Proofs about RuntimeCommands: one session's commands, their results and *)
(* the artifacts these carry, for every number of commands, replicas,      *)
(* connections and uploads, and every length of the time limits.           *)
(***************************************************************************)
EXTENDS RuntimeCommands, TLAPS

(* The shapes, by who writes them. *)
CommandRows == [status : {"NONE"} \cup Open \cup Terminal, deadline : 0..MaxTime]
CallerRows ==
    [pc : {"idle", "created", "read", "registered", "sent", "waiting", "aborting", "cancel", "done"},
     gen : 0..MaxGen]
Messages == [type : {"execute", "cancel"}, command : Commands]
Entries == {"none", "queued-ok", "queued-failed", "sent-ok", "sent-failed"}
Frames == [command : Commands, ok : BOOLEAN, gen : Generations]
Handlers ==
    [pc : {"idle", "upload", "put", "publish", "ack"}, command : Commands, ok : BOOLEAN,
     key : 0..MaxKeys, by : 0..(MaxTime + UploadTime)]
Intents ==
    [is : BOOLEAN, due : 0..(MaxTime + IntentTime + Backoff), token : Nat,
     until : 0..(MaxTime + PurgeLease)]
Purges == [key : 0..MaxKeys, token : Nat, deleted : BOOLEAN]

CallTypes ==
    /\ now \in 0..MaxTime
    /\ command \in [Commands -> CommandRows] /\ caller \in [Commands -> CallerRows]
    /\ sweeping \in [Commands -> {"no", "selected", "cancelled"}] /\ owner \in BOOLEAN
    /\ session \in [opening : BOOLEAN, launch : BOOLEAN, setting : Settings]
RuntimeTypes ==
    /\ generation \in 0..MaxGen /\ identifies \in BOOLEAN /\ socket \in 0..MaxGen
    /\ wire \subseteq Messages /\ running \subseteq Commands /\ browser \in BOOLEAN
    /\ outbox \in [Commands -> Entries] /\ frames \subseteq Frames
StoreTypes ==
    /\ handler \in [Generations -> Handlers]
    /\ uploads \in 0..MaxKeys /\ objects \subseteq Keys /\ intent \in [Keys -> Intents]
    /\ artifacts \subseteq Keys \X Commands /\ purger \in [Workers -> Purges]

(* A row is created by its call, once; what is swept has expired. *)
Called ==
    \A c \in Commands :
        /\ caller[c].pc = "idle" => command[c].status = "NONE"
        /\ sweeping[c] # "no" => caller[c].pc # "idle" /\ now >= command[c].deadline

(* A call has read the generation of this connection or of an earlier one, and
   one that passed the registration on this connection left the launch
   registered, when the Runtime can identify it. *)
Registering ==
    \A c \in Commands :
        /\ caller[c].gen <= generation
        /\ c \in OpenCommands /\ caller[c].pc = "registered" /\ caller[c].gen = generation
              /\ identifies => session.launch

(* The launch of a Runtime that can identify it is registered before its
   message is sent; messages are those of the open connection, the newest. *)
Registered ==
    /\ browser /\ identifies => session.launch
    /\ \A m \in wire :
          m.type = "execute" /\ m.command \in OpenCommands /\ identifies => session.launch
    /\ socket \in {0, generation} /\ (socket = 0 => wire = {})
    /\ Registering

(* A key is used by one handler, until it is published or given up. *)
Uploading(g) == handler[g].pc \in {"put", "publish"} /\ handler[g].ok

Uploads ==
    /\ \A g \in Generations :
          /\ handler[g].pc \in {"upload", "put"} => handler[g].ok
          /\ Uploading(g) => handler[g].key \in 1..uploads
    /\ \A g, h \in Generations :
          Uploading(g) /\ Uploading(h) /\ handler[g].key = handler[h].key => g = h

(* The object of a key: published, or with a deletion task. *)
Stored(k) ==
    /\ Published(k) => k \in objects /\ ~intent[k].is
    /\ k \in objects => Published(k) \/ intent[k].is
    /\ k > uploads => ~intent[k].is /\ k \notin objects

(* The upload of a handler: while it may still write, its intent is not due,
   and while nobody has claimed its intent, what it wrote is there. *)
Kept(g) ==
    Uploading(g) =>
        LET k == handler[g].key IN
        /\ ~Published(k)
        /\ handler[g].pc = "put" /\ now <= handler[g].by =>
              intent[k].is /\ intent[k].token = 0 /\ handler[g].by < intent[k].due
        /\ handler[g].pc = "publish" /\ intent[k].is /\ intent[k].token = 0 => k \in objects

(* The claim of a deletion: no handler can publish what it deletes. *)
Purging(w) ==
    LET k == purger[w].key IN
    /\ purger[w].deleted => k # 0
    /\ k # 0 => /\ k \in 1..uploads /\ ~Published(k)
                /\ intent[k].is => intent[k].token # 0
                /\ purger[w].deleted => k \notin objects

(* A command's artifact is that of the result that settled it. *)
Once ==
    /\ \A a, b \in artifacts : a[2] = b[2] => a = b
    /\ \A a \in artifacts : command[a[2]].status = "SUCCEEDED"

CallInv == CallTypes /\ Called
LinkInv == RuntimeTypes /\ Registered
StoreInv ==
    /\ StoreTypes /\ Uploads /\ Once
    /\ \A k \in Keys : Stored(k)
    /\ \A g \in Generations : Kept(g)
    /\ \A w \in Workers : Purging(w)

CommandInv == CallInv /\ LinkInv /\ StoreInv

-----------------------------------------------------------------------------
(* Constants and frames. *)

(* The bounds of a behaviour are numbers, and index the keys and connections. *)
LEMMA Bounds ==
    ASSUME CallTypes
    PROVE  /\ MaxTime \in Nat /\ MaxGen \in Nat /\ MaxKeys \in Nat
           /\ OpenCommands \subseteq Commands /\ Purgers \subseteq Workers
           /\ Runtimes \subseteq BOOLEAN
           /\ 1..MaxKeys \subseteq Keys /\ 1..MaxGen \subseteq Generations
           /\ Keys \subseteq Nat \ {0} /\ Generations \subseteq Nat \ {0}
           /\ {Deadline, UploadTime, IntentTime, PurgeLease, Backoff} \subseteq Nat \ {0}
           /\ UploadTime < IntentTime
<1>1. session.setting \in Settings
  BY DEF CallTypes
<1>2. Settings \subseteq [opens : SUBSET Commands, purgers : SUBSET Workers,
                          runtimes : SUBSET BOOLEAN, until : Nat, generations : Nat,
                          keys : Nat]
  BY CommandConstants
<1>3. /\ MaxTime \in Nat /\ MaxGen \in Nat /\ MaxKeys \in Nat
      /\ OpenCommands \subseteq Commands /\ Purgers \subseteq Workers
      /\ Runtimes \subseteq BOOLEAN
  BY <1>1, <1>2 DEF MaxTime, MaxGen, MaxKeys, OpenCommands, Purgers, Runtimes
<1>4. 1..MaxKeys \subseteq Keys /\ 1..MaxGen \subseteq Generations
  BY <1>1 DEF Keys, Generations, MaxKeys, MaxGen
<1>5. Keys \subseteq Nat \ {0} /\ Generations \subseteq Nat \ {0}
  BY <1>2 DEF Keys, Generations
<1>6. {Deadline, UploadTime, IntentTime, PurgeLease, Backoff} \subseteq Nat \ {0} /\ UploadTime < IntentTime
  BY CommandConstants
<1> QED
  BY <1>3, <1>4, <1>5, <1>6

(* The empty handler and the empty deletion are of their type. *)
LEMMA Empties ==
    ASSUME CallTypes
    PROVE  /\ Idle \in Handlers /\ Idle.pc = "idle" /\ ~Idle.ok
           /\ None \in Intents /\ ~None.is
           /\ NoPurge \in Purges
<1>1. PICK c \in Commands : TRUE
  BY CommandConstants
<1>2. (CHOOSE d \in Commands : TRUE) \in Commands
  BY <1>1, Zenon
<1>3. MaxTime \in Nat /\ MaxKeys \in Nat /\ UploadTime \in Nat /\ IntentTime \in Nat
      /\ Backoff \in Nat /\ PurgeLease \in Nat
  BY Bounds
<1>4. Idle \in Handlers /\ Idle.pc = "idle" /\ ~Idle.ok
  BY <1>2, <1>3 DEF Idle, Handlers
<1> QED
  BY <1>3, <1>4 DEF None, Intents, NoPurge, Purges

(* The bounds and the launches of a behaviour never change. *)
LEMMA SettingStays ==
    ASSUME session'.setting = session.setting
    PROVE  /\ MaxTime' = MaxTime /\ MaxGen' = MaxGen /\ MaxKeys' = MaxKeys
           /\ OpenCommands' = OpenCommands /\ Purgers' = Purgers
BY DEF MaxTime, MaxGen, MaxKeys, OpenCommands, Purgers

(* TypeCommands is the conjunction of the three types. *)
LEMMA TypesAgree == TypeCommands <=> CallTypes /\ RuntimeTypes /\ StoreTypes
BY DEF TypeCommands, CallTypes, RuntimeTypes, StoreTypes, CommandRows, CallerRows, Messages,
       Entries, Frames, Handlers, Intents, Purges

(* What the calls do not touch keeps its invariant. *)
LEMMA CallKept ==
    ASSUME CallInv, UNCHANGED <<now, cp>>
    PROVE  CallInv'
<1>1. MaxTime' = MaxTime /\ MaxGen' = MaxGen
  BY DEF cp, MaxTime, MaxGen
<1>2. CommandRows' = CommandRows /\ CallerRows' = CallerRows
  BY <1>1 DEF CommandRows, CallerRows
<1>3. CallTypes'
  BY <1>1, <1>2 DEF CallInv, CallTypes, cp
<1>4. Called'
  BY DEF CallInv, Called, cp
<1> QED
  BY <1>3, <1>4 DEF CallInv

LEMMA LinkKept ==
    ASSUME LinkInv, UNCHANGED <<generation, rt, wire>>,
           session'.setting = session.setting, session.launch => session'.launch, Registering'
    PROVE  LinkInv'
<1>1. MaxGen' = MaxGen /\ OpenCommands' = OpenCommands
  BY SettingStays
<1>2. RuntimeTypes'
  BY <1>1 DEF LinkInv, RuntimeTypes, rt, Messages, Frames, Entries
<1>3. Registered'
  BY <1>1 DEF LinkInv, Registered, rt
<1> QED
  BY <1>2, <1>3 DEF LinkInv

Successes == \A c \in Commands : command[c].status = "SUCCEEDED" => command'[c].status = "SUCCEEDED"

LEMMA StoreKept ==
    ASSUME StoreInv, UNCHANGED <<now, handler, store>>, session'.setting = session.setting, Successes
    PROVE  StoreInv'
<1>1. MaxTime' = MaxTime /\ MaxKeys' = MaxKeys
  BY SettingStays
<1>2. StoreTypes'
  BY <1>1 DEF StoreInv, StoreTypes, store, Handlers, Intents, Purges
<1>3. Uploads'
  BY DEF StoreInv, Uploads, Uploading, store
<1>4. Once'
  BY DEF StoreInv, StoreTypes, Once, store, Successes
<1>5. \A k \in Keys : Stored(k)'
  BY DEF StoreInv, Stored, Published, store
<1>6. \A g \in Generations : Kept(g)'
  BY DEF StoreInv, Kept, Uploading, Published, store
<1>7. \A w \in Workers : Purging(w)'
  BY DEF StoreInv, Purging, Published, store
<1> QED
  BY <1>2, <1>3, <1>4, <1>5, <1>6, <1>7 DEF StoreInv

-----------------------------------------------------------------------------
(* The caller and the sweeper. *)

(* A step of one call: the row stays as it was or is settled, and the call has
   started. *)
CallMoves(c) ==
    /\ command' \in [Commands -> CommandRows] /\ caller' \in [Commands -> CallerRows]
    /\ \A d \in Commands : d # c => command'[d] = command[d] /\ caller'[d] = caller[d]
    /\ caller'[c].pc # "idle"
    /\ command'[c].deadline = command[c].deadline \/ caller[c].pc = "idle"
    /\ command[c].status = "SUCCEEDED" => command'[c].status = "SUCCEEDED"
    /\ caller'[c].gen <= generation
    /\ c \in OpenCommands /\ caller'[c].pc = "registered" /\ caller'[c].gen = generation
          /\ identifies => session'.launch

LEMMA CallMoved ==
    ASSUME CommandInv, NEW c \in Commands, CallMoves(c),
           UNCHANGED <<now, sweeping, owner, generation, identifies>>,
           session' = session \/ session' = [session EXCEPT !.launch = TRUE]
    PROVE  CallInv' /\ Registering' /\ Successes /\ session'.setting = session.setting
           /\ (session.launch => session'.launch)
<1>1. CallInv /\ LinkInv /\ CallTypes /\ Called
  BY DEF CommandInv, CallInv
<1>2. /\ session' \in [opening : BOOLEAN, launch : BOOLEAN, setting : Settings]
      /\ session'.setting = session.setting /\ (session.launch => session'.launch)
  BY <1>1 DEF CallTypes
<1>3. MaxTime' = MaxTime /\ MaxGen' = MaxGen /\ OpenCommands' = OpenCommands
  BY <1>2, SettingStays
<1>4. CommandRows' = CommandRows /\ CallerRows' = CallerRows
  BY <1>3 DEF CommandRows, CallerRows
<1>5. CallTypes'
  BY <1>1, <1>2, <1>3, <1>4 DEF CallTypes, CallMoves
<1>6. Called'
  <2> SUFFICES ASSUME NEW d \in Commands
               PROVE  /\ caller'[d].pc = "idle" => command'[d].status = "NONE"
                      /\ sweeping[d] # "no" => caller'[d].pc # "idle" /\ now >= command'[d].deadline
    BY DEF Called
  <2>1. CASE d = c
    BY <1>1, <2>1 DEF CallMoves, Called
  <2>2. CASE d # c
    BY <1>1, <2>2 DEF CallMoves, Called
  <2> QED
    BY <2>1, <2>2
<1>7. Registering'
  <2> SUFFICES ASSUME NEW d \in Commands
               PROVE  /\ caller'[d].gen <= generation
                      /\ d \in OpenCommands /\ caller'[d].pc = "registered"
                            /\ caller'[d].gen = generation /\ identifies => session'.launch
    BY <1>3 DEF Registering
  <2>1. CASE d = c
    BY <2>1 DEF CallMoves
  <2>2. CASE d # c
    BY <1>1, <1>2, <2>2 DEF CallMoves, LinkInv, Registered, Registering
  <2> QED
    BY <2>1, <2>2
<1>8. Successes
  <2> SUFFICES ASSUME NEW d \in Commands, command[d].status = "SUCCEEDED"
               PROVE  command'[d].status = "SUCCEEDED"
    BY DEF Successes
  <2> QED
    BY DEF CallMoves
<1> QED
  BY <1>2, <1>5, <1>6, <1>7, <1>8 DEF CallInv

(* The steps of the caller that send nothing. *)
LEMMA QuietCalls ==
    ASSUME CommandInv, NEW c \in Commands,
           \/ Execute(c) \/ ReadRuntime(c) \/ RegisterLaunch(c) \/ Unsupported(c)
           \/ MarkDispatched(c) \/ Poll(c) \/ Abort(c) \/ Cancel(c) \/ TimeOut(c) \/ CallerStops(c)
    PROVE  /\ CallMoves(c) /\ UNCHANGED <<now, sweeping, owner, generation, rt, wire, handler, store>>
           /\ session' = session \/ session' = [session EXCEPT !.launch = TRUE]
<1>1. CallTypes /\ Called /\ generation \in 0..MaxGen
  BY DEF CommandInv, CallInv, LinkInv, RuntimeTypes
<1>2. /\ command \in [Commands -> CommandRows] /\ caller \in [Commands -> CallerRows]
      /\ command[c].status = "SUCCEEDED" => command[c].status \notin Open
      /\ caller[c].gen <= generation
      /\ c \in OpenCommands /\ caller[c].pc = "registered" /\ caller[c].gen = generation
            /\ identifies => session.launch
  BY <1>1 DEF CallTypes, CommandInv, LinkInv, Registered, Registering, Open
<1>3. /\ MaxGen \in Nat /\ MaxTime \in Nat /\ Deadline \in Nat /\ now \in 0..MaxTime
      /\ generation \in Nat
  BY <1>1, Bounds DEF CallTypes
<1>a. command[c] \in CommandRows /\ caller[c] \in CallerRows
  BY <1>2
<1>4. CASE Execute(c)
  <2>1. command[c].status # "SUCCEEDED"
    BY <1>1, <1>4 DEF Execute, Called
  <2>2. [status |-> "PENDING", deadline |-> now + Deadline] \in CommandRows
    BY <1>3, <1>4 DEF Execute, CommandRows, Open
  <2> QED
    BY <1>2, <1>4, <2>1, <2>2 DEF Execute, CallMoves, CallerRows
<1>5. CASE ReadRuntime(c)
  BY <1>1, <1>2, <1>5 DEF ReadRuntime, CallMoves, CallerRows
<1>6. CASE RegisterLaunch(c)
  BY <1>1, <1>2, <1>6 DEF RegisterLaunch, CallMoves, CallerRows, CallTypes
<1>7. CASE Unsupported(c)
  <2>1. caller' \in [Commands -> CallerRows]
    BY <1>2, <1>3, <1>7 DEF Unsupported, CallerRows
  <2>2. command' \in [Commands -> CommandRows]
    BY <1>2, <1>7 DEF Unsupported, CommandRows, Terminal
  <2>3. caller[c].pc # "idle"
    BY <1>7 DEF Unsupported, Ready
  <2> QED
    BY <1>2, <1>3, <1>7, <2>1, <2>2, <2>3 DEF Unsupported, CallMoves, CommandRows, CallerRows
<1>8. CASE MarkDispatched(c)
  <2>1. command' \in [Commands -> CommandRows] /\ caller' \in [Commands -> CallerRows]
    BY <1>2, <1>8 DEF MarkDispatched, CommandRows, CallerRows, Open
  <2> QED
    BY <1>2, <1>8, <2>1 DEF MarkDispatched, CallMoves, CommandRows, CallerRows
<1>9. CASE Poll(c)
  BY <1>2, <1>3, <1>9 DEF Poll, CallMoves, CallerRows
<1>10. CASE Abort(c)
  BY <1>2, <1>3, <1>10 DEF Abort, CallMoves, CallerRows
<1>11. CASE Cancel(c)
  <2>1. command' \in [Commands -> CommandRows] /\ caller' \in [Commands -> CallerRows]
    BY <1>2, <1>11 DEF Cancel, CommandRows, CallerRows, Terminal
  <2> QED
    BY <1>2, <1>11, <2>1 DEF Cancel, CallMoves, CommandRows, CallerRows, Terminal
<1>12. CASE TimeOut(c)
  <2>1. command' \in [Commands -> CommandRows] /\ caller' \in [Commands -> CallerRows]
    BY <1>2, <1>12 DEF TimeOut, CommandRows, CallerRows, Terminal
  <2> QED
    BY <1>2, <1>12, <2>1 DEF TimeOut, CallMoves, CommandRows, CallerRows
<1>13. CASE CallerStops(c)
  BY <1>2, <1>3, <1>13 DEF CallerStops, CallMoves, CallerRows
<1> QED
  BY <1>4, <1>5, <1>6, <1>7, <1>8, <1>9, <1>10, <1>11, <1>12, <1>13

LEMMA QuietCallSteps ==
    ASSUME CommandInv, NEW c \in Commands,
           \/ Execute(c) \/ ReadRuntime(c) \/ RegisterLaunch(c) \/ Unsupported(c)
           \/ MarkDispatched(c) \/ Poll(c) \/ Abort(c) \/ Cancel(c) \/ TimeOut(c) \/ CallerStops(c)
    PROVE  CommandInv'
<1>1. /\ CallMoves(c) /\ UNCHANGED <<now, sweeping, owner, generation, rt, wire, handler, store>>
      /\ session' = session \/ session' = [session EXCEPT !.launch = TRUE]
  BY QuietCalls, Zenon
<1>2. CallInv' /\ Registering' /\ Successes /\ session'.setting = session.setting
      /\ (session.launch => session'.launch)
  BY <1>1, CallMoved DEF rt
<1>3. LinkInv'
  BY <1>1, <1>2, LinkKept DEF CommandInv
<1>4. StoreInv'
  BY <1>1, <1>2, StoreKept DEF CommandInv
<1> QED
  BY <1>2, <1>3, <1>4 DEF CommandInv

(* A message that is sent: a launch only when it is registered. *)
LEMMA Posted ==
    ASSUME CommandInv, NEW c \in Commands, NEW type \in {"execute", "cancel"}, NEW gen,
           Post(type, c, gen) \/ UNCHANGED wire,
           type = "execute" /\ c \in OpenCommands /\ gen = generation /\ identifies
              => session.launch,
           UNCHANGED <<generation, rt, session>>, Registering'
    PROVE  LinkInv'
<1>1. MaxGen' = MaxGen /\ OpenCommands' = OpenCommands
  BY SettingStays
<1>2. RuntimeTypes /\ Registered
  BY DEF CommandInv, LinkInv
<1> DEFINE m == [type |-> type, command |-> c]
<1>3. m \in Messages /\ m.type = type /\ m.command = c
  BY DEF Messages
<1>4. wire' \subseteq wire \cup {m}
  BY DEF Post
<1>5. wire' \subseteq Messages
  BY <1>2, <1>3, <1>4 DEF RuntimeTypes
<1>6. RuntimeTypes'
  BY <1>1, <1>2, <1>5 DEF RuntimeTypes, rt, Messages, Frames, Entries
<1>7. /\ \A n \in wire' :
            n.type = "execute" /\ n.command \in OpenCommands /\ identifies => session.launch
      /\ socket = 0 => wire' = {}
  <2>1. CASE wire' = wire
    BY <1>2, <2>1 DEF Registered
  <2>2. CASE socket # 0 /\ gen = socket /\ wire' = wire \cup {m}
    BY <1>2, <1>3, <2>2 DEF Registered
  <2> QED
    BY <2>1, <2>2 DEF Post
<1>8. Registered'
  BY <1>1, <1>2, <1>7 DEF Registered, rt
<1> QED
  BY <1>6, <1>8 DEF LinkInv

LEMMA SendStep ==
    ASSUME CommandInv, NEW c \in Commands, Send(c)
    PROVE  CommandInv'
<1>1. /\ CallTypes /\ Registered
      /\ command \in [Commands -> CommandRows] /\ caller \in [Commands -> CallerRows]
  BY DEF CommandInv, CallInv, LinkInv, CallTypes
<1>2. MaxGen \in Nat /\ generation \in 0..MaxGen
  BY <1>1, Bounds DEF CommandInv, LinkInv, RuntimeTypes
<1>3. CallMoves(c) /\ UNCHANGED <<now, sweeping, owner, session, generation, identifies>>
  BY <1>1, <1>2 DEF Send, CallMoves, CallerRows, rt
<1>4. CallInv' /\ Registering' /\ Successes
  BY <1>3, CallMoved
<1>5. c \in OpenCommands /\ caller[c].gen = generation /\ identifies => session.launch
  BY <1>1 DEF Send, Ready, Registered, Registering
<1>6. Post("execute", c, caller[c].gen) \/ UNCHANGED wire
  BY DEF Send
<1>7. UNCHANGED <<generation, rt, session, handler, store>>
  BY DEF Send
<1>8. LinkInv'
  BY <1>4, <1>5, <1>6, <1>7, Posted
<1>9. StoreInv'
  BY <1>3, <1>4, <1>7, StoreKept DEF CommandInv
<1> QED
  BY <1>4, <1>8, <1>9 DEF CommandInv

LEMMA SendCancelStep ==
    ASSUME CommandInv, NEW c \in Commands, SendCancel(c)
    PROVE  CommandInv'
<1>1. /\ CallTypes
      /\ command \in [Commands -> CommandRows] /\ caller \in [Commands -> CallerRows]
  BY DEF CommandInv, CallInv, CallTypes
<1>2. MaxGen \in Nat /\ generation \in 0..MaxGen
  BY <1>1, Bounds DEF CommandInv, LinkInv, RuntimeTypes
<1>3. CallMoves(c) /\ UNCHANGED <<now, sweeping, owner, session, generation, identifies>>
  BY <1>1, <1>2 DEF SendCancel, CallMoves, CallerRows, rt
<1>4. CallInv' /\ Registering' /\ Successes
  BY <1>3, CallMoved
<1>5. Post("cancel", c, generation) /\ UNCHANGED <<generation, rt, session, handler, store>>
  BY DEF SendCancel
<1>6. LinkInv'
  BY <1>4, <1>5, Posted
<1>7. StoreInv'
  BY <1>3, <1>4, <1>5, StoreKept DEF CommandInv
<1> QED
  BY <1>4, <1>6, <1>7 DEF CommandInv

(* A step of the sweeper: what it holds has expired, and it settles only open
   rows. *)
LEMMA Swept ==
    ASSUME CommandInv, NEW c \in Commands,
           SweepSelect(c) \/ SweepCancel(c) \/ SweepMark(c)
    PROVE  CallInv' /\ Successes /\ Registering'
           /\ UNCHANGED <<now, caller, owner, session, generation, rt, handler, store>>
           /\ (Post("cancel", c, generation) \/ UNCHANGED wire)
<1>1. /\ CallTypes /\ Called /\ Registered
      /\ command \in [Commands -> CommandRows]
      /\ sweeping \in [Commands -> {"no", "selected", "cancelled"}]
  BY DEF CommandInv, CallInv, LinkInv, CallTypes
<1>2. UNCHANGED <<now, caller, owner, session, generation, rt, handler, store>>
  BY DEF SweepSelect, SweepCancel, SweepMark
<1>3. MaxTime' = MaxTime /\ MaxGen' = MaxGen /\ OpenCommands' = OpenCommands
  BY <1>2, SettingStays
<1>4. CommandRows' = CommandRows /\ CallerRows' = CallerRows
  BY <1>3 DEF CommandRows, CallerRows
<1>5. /\ command' \in [Commands -> CommandRows]
      /\ sweeping' \in [Commands -> {"no", "selected", "cancelled"}]
      /\ \A d \in Commands :
            /\ d # c => command'[d] = command[d] /\ sweeping'[d] = sweeping[d]
            /\ command'[d].deadline = command[d].deadline
            /\ command[d].status = "SUCCEEDED" => command'[d].status = "SUCCEEDED"
  <2>1. CASE SweepSelect(c)
    BY <1>1, <2>1 DEF SweepSelect
  <2>2. CASE SweepCancel(c)
    BY <1>1, <2>2 DEF SweepCancel, CommandRows, Terminal
  <2>3. CASE SweepMark(c)
    BY <1>1, <2>3 DEF SweepMark, CommandRows, Terminal
  <2> QED
    BY <2>1, <2>2, <2>3
<1>6. /\ sweeping'[c] # "no" => caller[c].pc # "idle" /\ now >= command[c].deadline
      /\ caller[c].pc = "idle" => command'[c].status = command[c].status
  <2>1. CASE SweepSelect(c)
    BY <1>1, <2>1 DEF SweepSelect, Called, Open
  <2>2. CASE SweepCancel(c)
    BY <1>1, <2>2 DEF SweepCancel, Called
  <2>3. CASE SweepMark(c)
    BY <1>1, <2>3 DEF SweepMark, Called
  <2> QED
    BY <2>1, <2>2, <2>3
<1>7. CallTypes'
  BY <1>1, <1>2, <1>3, <1>4, <1>5 DEF CallTypes
<1>8. Called'
  <2> SUFFICES ASSUME NEW d \in Commands
               PROVE  /\ caller[d].pc = "idle" => command'[d].status = "NONE"
                      /\ sweeping'[d] # "no" => caller[d].pc # "idle" /\ now >= command'[d].deadline
    BY <1>2 DEF Called
  <2>1. CASE d = c
    BY <1>1, <1>5, <1>6, <2>1 DEF Called
  <2>2. CASE d # c
    BY <1>1, <1>5, <2>2 DEF Called
  <2> QED
    BY <2>1, <2>2
<1>9. Registering'
  BY <1>1, <1>2, <1>3 DEF Registering, Registered, rt
<1>10. Post("cancel", c, generation) \/ UNCHANGED wire
  BY DEF SweepSelect, SweepCancel, SweepMark
<1> QED
  BY <1>2, <1>5, <1>7, <1>8, <1>9, <1>10 DEF CallInv, Successes

LEMMA SweeperSteps ==
    ASSUME CommandInv, NEW c \in Commands, SweeperStep(c)
    PROVE  CommandInv'
<1>1. /\ CallInv' /\ Successes /\ Registering'
      /\ UNCHANGED <<now, caller, owner, session, generation, rt, handler, store>>
      /\ Post("cancel", c, generation) \/ UNCHANGED wire
  BY Swept DEF SweeperStep
<1>2. LinkInv'
  BY <1>1, Posted
<1>3. StoreInv'
  BY <1>1, StoreKept DEF CommandInv
<1> QED
  BY <1>1, <1>2, <1>3 DEF CommandInv

(* The end of the executor's lease, and of the session's opening. *)
LEMMA SessionSteps ==
    ASSUME CommandInv, LoseOwner \/ LeaveOpening
    PROVE  CommandInv'
<1>1. /\ UNCHANGED <<now, command, caller, sweeping, generation, rt, wire, handler, store>>
      /\ owner' \in BOOLEAN
      /\ session' = session \/ session' = [session EXCEPT !.opening = FALSE]
  BY DEF LoseOwner, LeaveOpening, CommandInv, CallInv, CallTypes
<1>2. CallTypes /\ Called /\ Registered
  BY DEF CommandInv, CallInv, LinkInv
<1>3. /\ session' \in [opening : BOOLEAN, launch : BOOLEAN, setting : Settings]
      /\ session'.setting = session.setting /\ session'.launch = session.launch
  BY <1>1, <1>2 DEF CallTypes
<1>4. MaxTime' = MaxTime /\ MaxGen' = MaxGen /\ OpenCommands' = OpenCommands
  BY <1>3, SettingStays
<1>5. CallTypes'
  BY <1>1, <1>2, <1>3, <1>4 DEF CallTypes, CommandRows, CallerRows
<1>6. Called'
  BY <1>1, <1>2 DEF Called
<1>7. Registering' /\ Successes
  BY <1>1, <1>2, <1>3, <1>4 DEF Registering, Registered, Successes, rt
<1>8. LinkInv'
  BY <1>1, <1>3, <1>7, LinkKept DEF CommandInv
<1>9. StoreInv'
  BY <1>1, <1>3, <1>7, StoreKept DEF CommandInv
<1> QED
  BY <1>5, <1>6, <1>8, <1>9 DEF CommandInv, CallInv

(* Time passes. *)
LEMMA TickStep ==
    ASSUME CommandInv, Tick
    PROVE  CommandInv'
<1>1. /\ UNCHANGED <<cp, generation, rt, wire, handler, store>> /\ now' = now + 1 /\ now < MaxTime
      /\ CallTypes /\ Called /\ LinkInv /\ StoreInv
  BY DEF Tick, CommandInv, CallInv
<1>2. session' = session /\ MaxTime' = MaxTime /\ MaxGen' = MaxGen /\ MaxKeys' = MaxKeys
  BY <1>1, SettingStays DEF cp
<1>3. MaxTime \in Nat /\ now \in 0..MaxTime
  BY <1>1, Bounds DEF CallTypes
<1>4. CallTypes'
  BY <1>1, <1>2, <1>3 DEF CallTypes, cp, CommandRows, CallerRows
<1>5. Called'
  <2> SUFFICES ASSUME NEW c \in Commands
               PROVE  /\ caller[c].pc = "idle" => command[c].status = "NONE"
                      /\ sweeping[c] # "no" => caller[c].pc # "idle" /\ now' >= command[c].deadline
    BY <1>1 DEF Called, cp
  <2>1. command[c].deadline \in Int
    BY <1>1, <1>3 DEF CallTypes, CommandRows
  <2> QED
    BY <1>1, <1>3, <2>1 DEF Called
<1>6. LinkInv'
  <2>1. Registering'
    BY <1>1, <1>2 DEF LinkInv, Registered, Registering, cp, rt, OpenCommands
  <2> QED
    BY <1>1, <1>2, <2>1, LinkKept
<1>7. StoreTypes' /\ Uploads' /\ Once'
  BY <1>1, <1>2 DEF StoreInv, StoreTypes, store, cp, Handlers, Intents, Purges, Uploads, Uploading, Once
<1>8. \A k \in Keys : Stored(k)'
  BY <1>1 DEF StoreInv, Stored, Published, store
<1>9. \A w \in Workers : Purging(w)'
  BY <1>1 DEF StoreInv, Purging, Published, store
<1>10. \A g \in Generations : Kept(g)'
  <2> SUFFICES ASSUME NEW g \in Generations
               PROVE  Kept(g)'
    OBVIOUS
  <2>1. handler[g].by \in Int
    BY <1>1, <1>3, Bounds DEF StoreInv, StoreTypes, Handlers
  <2>2. now' <= handler[g].by => now <= handler[g].by
    BY <1>1, <1>3, <2>1
  <2> QED
    BY <1>1, <2>2 DEF StoreInv, Kept, Uploading, Published, store
<1> QED
  BY <1>4, <1>5, <1>6, <1>7, <1>8, <1>9, <1>10 DEF CommandInv, CallInv, StoreInv

-----------------------------------------------------------------------------
(* The Runtime. *)

(* A step of the Runtime disturbs only the connection, what it runs and what
   it has to deliver; a new connection has no messages yet. *)
LEMMA RuntimeMoved ==
    ASSUME CommandInv, UNCHANGED <<now, cp, handler, store>>,
           \/ UNCHANGED <<generation, identifies>>
           \/ generation' = generation + 1 /\ generation < MaxGen /\ identifies' \in BOOLEAN
              /\ wire' = {},
           socket' \in {0, generation'}, wire' \subseteq wire, socket' = 0 => wire' = {},
           running' \subseteq Commands, browser' \in BOOLEAN, outbox' \in [Commands -> Entries],
           frames' \subseteq Frames, browser' /\ identifies' => session.launch
    PROVE  CommandInv'
<1>1. CallInv' /\ session' = session
  BY CallKept DEF CommandInv, cp
<1>2. MaxGen' = MaxGen /\ OpenCommands' = OpenCommands
  BY <1>1, SettingStays
<1>a. RuntimeTypes /\ Registered /\ MaxGen \in Nat /\ CallTypes
  BY Bounds DEF CommandInv, CallInv, LinkInv
<1>b. generation' \in 0..MaxGen /\ identifies' \in BOOLEAN /\ socket' \in 0..MaxGen
  BY <1>a DEF RuntimeTypes
<1>3. RuntimeTypes'
  BY <1>2, <1>a, <1>b DEF RuntimeTypes, Messages, Frames, Entries
<1>4. Registered'
  <2>1. \A m \in wire' :
           m.type = "execute" /\ m.command \in OpenCommands /\ identifies' => session.launch
    BY <1>a DEF Registered
  <2>2. Registering'
    <3> SUFFICES ASSUME NEW c \in Commands
                 PROVE  /\ caller[c].gen <= generation'
                        /\ c \in OpenCommands /\ caller[c].pc = "registered"
                              /\ caller[c].gen = generation' /\ identifies' => session.launch
      BY <1>1, <1>2 DEF Registering, cp
    <3>1. caller[c].gen \in 0..MaxGen /\ generation \in 0..MaxGen /\ caller[c].gen <= generation
      BY <1>a DEF CallTypes, CallerRows, RuntimeTypes, Registered, Registering
    <3>2. CASE UNCHANGED <<generation, identifies>>
      BY <1>a, <3>2 DEF Registered, Registering
    <3>3. CASE generation' = generation + 1
      BY <1>a, <3>1, <3>3
    <3> QED
      BY <3>2, <3>3
  <2> QED
    BY <1>1, <1>2, <2>1, <2>2 DEF Registered, cp
<1>5. StoreInv'
  BY <1>1, StoreKept DEF CommandInv, Successes, cp
<1> QED
  BY <1>1, <1>3, <1>4, <1>5 DEF CommandInv, LinkInv

(* What is still to be sent is of an entry's type. *)
LEMMA Requeued ==
    ASSUME RuntimeTypes
    PROVE  [c \in Commands |-> IF c \in running THEN Queued(FALSE) ELSE Unsent(outbox[c])]
              \in [Commands -> Entries]
<1> SUFFICES ASSUME NEW c \in Commands
             PROVE  (IF c \in running THEN Queued(FALSE) ELSE Unsent(outbox[c])) \in Entries
  OBVIOUS
<1>1. Queued(FALSE) \in Entries
  BY DEF Queued, Entries
<1>2. outbox[c] \in Entries
  BY DEF RuntimeTypes
<1>3. Unsent(outbox[c]) \in Entries
  <2>1. CASE outbox[c] = "sent-ok"
    BY <2>1 DEF Unsent, Entries
  <2>2. CASE outbox[c] = "sent-failed"
    BY <2>2 DEF Unsent, Entries
  <2>3. CASE outbox[c] \notin {"sent-ok", "sent-failed"}
    BY <1>2, <2>3 DEF Unsent, Entries
  <2> QED
    BY <2>1, <2>2, <2>3
<1> QED
  BY <1>1, <1>3

LEMMA RuntimeSteps ==
    ASSUME CommandInv, RuntimeStep
    PROVE  CommandInv'
<1>1. CallTypes /\ RuntimeTypes /\ Registered
  BY DEF CommandInv, CallInv, LinkInv
<1>2. /\ MaxGen \in Nat /\ 1..MaxGen \subseteq Generations
      /\ generation \in 0..MaxGen /\ socket \in 0..MaxGen
      /\ socket \in {0, generation} /\ (socket = 0 => wire = {})
      /\ identifies \in BOOLEAN /\ Runtimes \subseteq BOOLEAN
      /\ wire \subseteq Messages /\ running \subseteq Commands /\ browser \in BOOLEAN
      /\ outbox \in [Commands -> Entries] /\ frames \subseteq Frames
      /\ browser /\ identifies => session.launch
  BY <1>1, Bounds DEF RuntimeTypes, Registered
<1>3. CASE Connect
  <2>1. identifies' \in BOOLEAN /\ (browser => identifies' = identifies)
    BY <1>2, <1>3 DEF Connect
  <2>2. /\ generation' = generation + 1 /\ generation < MaxGen /\ socket' = generation'
        /\ wire' = {} /\ generation' # 0
        /\ UNCHANGED <<now, cp, running, browser, outbox, frames, handler, store>>
    BY <1>2, <1>3 DEF Connect
  <2> QED
    BY <1>2, <2>1, <2>2, RuntimeMoved
<1>4. CASE Disconnect
  <2>1. outbox' \in [Commands -> Entries]
    BY <1>1, <1>4, Requeued, Zenon DEF Disconnect
  <2> QED
    BY <1>2, <1>4, <2>1, RuntimeMoved DEF Disconnect
<1>5. CASE RuntimeStops
  <2>1. outbox' \in [Commands -> Entries]
    BY <1>2, <1>5 DEF RuntimeStops, Entries
  <2> QED
    BY <1>2, <1>5, <2>1, RuntimeMoved DEF RuntimeStops
<1>6. CASE \E m \in wire : Receive(m)
  <2>1. PICK m \in wire : Receive(m)
    BY <1>6
  <2>2. m.command \in Commands
    BY <1>2 DEF Messages
  <2>3. running' \subseteq Commands /\ wire' \subseteq wire
    BY <1>2, <2>1, <2>2 DEF Receive
  <2>4. outbox' \in [Commands -> Entries]
    <3>1. outbox' = outbox \/ outbox' = [outbox EXCEPT ![m.command] = Queued(FALSE)]
      BY <2>1 DEF Receive
    <3> QED
      BY <1>2, <3>1 DEF Queued, Entries
  <2>5. browser' \in BOOLEAN
    BY <2>1 DEF Receive
  <2>6. browser' => browser \/ (m.type = "execute" /\ m.command \in OpenCommands)
    BY <2>1 DEF Receive
  <2>7. browser' /\ identifies => session.launch
    BY <1>1, <2>6 DEF Registered
  <2>8. UNCHANGED <<now, cp, generation, identifies, socket, frames, handler, store>>
    BY <2>1 DEF Receive
  <2>9. socket' = 0 => wire' = {}
    BY <1>2, <2>3, <2>8
  <2> QED
    BY <1>2, <2>3, <2>4, <2>5, <2>7, <2>8, <2>9, RuntimeMoved
<1>7. CASE \E c \in Commands, ok \in BOOLEAN : Finish(c, ok)
  <2>1. PICK c \in Commands, ok \in BOOLEAN : Finish(c, ok)
    BY <1>7
  <2>2. Queued(ok) \in Entries
    BY DEF Queued, Entries
  <2>3. outbox' \in [Commands -> Entries] /\ running' \subseteq Commands
    BY <1>2, <2>1, <2>2 DEF Finish
  <2> QED
    BY <1>2, <2>1, <2>3, RuntimeMoved DEF Finish
<1>8. CASE \E c \in Commands : FlushOutbox(c)
  <2>1. PICK c \in Commands : FlushOutbox(c)
    BY <1>8
  <2>2. PICK ok \in BOOLEAN :
           /\ outbox' = [outbox EXCEPT ![c] = IF ok THEN "sent-ok" ELSE "sent-failed"]
           /\ frames' = frames \cup {[command |-> c, ok |-> ok, gen |-> socket]}
    BY <2>1, Zenon DEF FlushOutbox
  <2>3. outbox' \in [Commands -> Entries]
    BY <1>2, <2>2 DEF Entries
  <2>4. socket \in Generations
    BY <1>2, <2>1 DEF FlushOutbox
  <2>5. frames' \subseteq Frames
    BY <1>2, <2>2, <2>4 DEF Frames
  <2> QED
    BY <1>2, <2>1, <2>3, <2>5, RuntimeMoved DEF FlushOutbox
<1>9. CASE \E f \in frames : LoseFrame(f)
  BY <1>2, <1>9, RuntimeMoved DEF LoseFrame
<1> QED
  BY <1>3, <1>4, <1>5, <1>6, <1>7, <1>8, <1>9 DEF RuntimeStep

-----------------------------------------------------------------------------
(* The gateway. *)

(* A handler that holds no upload afterwards: it is idle, has only to
   acknowledge, or has just taken up a result. *)
LEMMA HandlerLetsGo ==
    ASSUME CommandInv, NEW g \in Generations, NEW r \in Handlers,
           r.pc = "upload" => r.ok, r.pc # "put", r.pc = "publish" => ~r.ok,
           handler' = [handler EXCEPT ![g] = r], UNCHANGED <<now, store>>,
           session'.setting = session.setting, Successes
    PROVE  StoreInv'
<1>1. StoreInv /\ handler \in [Generations -> Handlers]
  BY DEF CommandInv, StoreInv, StoreTypes
<1>2. MaxTime' = MaxTime /\ MaxKeys' = MaxKeys
  BY SettingStays
<1>3. handler' \in [Generations -> Handlers] /\ handler'[g] = r
      /\ \A h \in Generations : h # g => handler'[h] = handler[h]
  BY <1>1
<1>4. StoreTypes'
  BY <1>1, <1>2, <1>3 DEF StoreInv, StoreTypes, store, Handlers, Intents, Purges
<1>5. ~Uploading(g)' /\ \A h \in Generations : h # g => (Uploading(h)' <=> Uploading(h))
  BY <1>3 DEF Uploading
<1>6. Uploads'
  <2>1. \A h \in Generations :
           /\ handler'[h].pc \in {"upload", "put"} => handler'[h].ok
           /\ Uploading(h)' => handler'[h].key \in 1..uploads
    <3> SUFFICES ASSUME NEW h \in Generations
                 PROVE  /\ handler'[h].pc \in {"upload", "put"} => handler'[h].ok
                        /\ Uploading(h)' => handler'[h].key \in 1..uploads
      OBVIOUS
    <3>1. CASE h = g
      BY <1>3, <1>5, <3>1
    <3>2. CASE h # g
      BY <1>1, <1>3, <1>5, <3>2 DEF StoreInv, Uploads
    <3> QED
      BY <3>1, <3>2
  <2>2. \A h, i \in Generations :
           Uploading(h)' /\ Uploading(i)' /\ handler'[h].key = handler'[i].key => h = i
    BY <1>1, <1>3, <1>5 DEF StoreInv, Uploads
  <2> QED
    BY <2>1, <2>2 DEF Uploads, store
<1>7. Once' /\ (\A k \in Keys : Stored(k)') /\ (\A w \in Workers : Purging(w)')
  <2>1. Once'
    BY <1>1 DEF StoreInv, StoreTypes, Once, Successes, store
  <2> QED
    BY <1>1, <2>1 DEF StoreInv, Stored, Purging, Published, store
<1>8. \A h \in Generations : Kept(h)'
  <2> SUFFICES ASSUME NEW h \in Generations
               PROVE  Kept(h)'
    OBVIOUS
  <2>1. CASE h = g
    BY <1>5, <2>1 DEF Kept
  <2>2. CASE h # g
    BY <1>1, <1>3, <1>5, <2>2 DEF StoreInv, Kept, Published, store
  <2> QED
    BY <2>1, <2>2
<1> QED
  BY <1>4, <1>6, <1>7, <1>8 DEF StoreInv

LEMMA AcceptResultStep ==
    ASSUME CommandInv, NEW f \in frames, AcceptResult(f)
    PROVE  CommandInv'
<1>1. CallInv /\ CallTypes /\ RuntimeTypes /\ LinkInv
  BY DEF CommandInv, CallInv, LinkInv
<1>2. f \in Frames /\ Idle \in Handlers
  BY <1>1, Empties DEF RuntimeTypes
<1>3. /\ UNCHANGED <<now, cp, generation, identifies, socket, running, browser, outbox, wire,
                       store>>
      /\ frames' \subseteq frames
  BY DEF AcceptResult
<1>4. CallInv'
  BY <1>1, <1>3, CallKept
<1>5. LinkInv'
  <2>1. MaxGen' = MaxGen /\ OpenCommands' = OpenCommands
    BY <1>3, SettingStays DEF cp
  <2>2. RuntimeTypes'
    BY <1>1, <1>3, <2>1 DEF RuntimeTypes, Messages, Frames, Entries
  <2>3. Registered'
    BY <1>1, <1>3, <2>1 DEF LinkInv, Registered, Registering, cp
  <2> QED
    BY <2>2, <2>3 DEF LinkInv
<1>6. StoreInv'
  <2>1. CASE generation # f.gen
    <3>1. handler' = handler
      BY <2>1 DEF AcceptResult
    <3> QED
      BY <1>3, <3>1, StoreKept DEF CommandInv, Successes, cp
  <2>2. CASE generation = f.gen
    <3>1. PICK start \in {"ack", "upload", "publish"} :
             /\ start = "upload" => f.ok
             /\ start = "publish" => ~f.ok
             /\ handler' = [handler EXCEPT ![f.gen] =
                              [Idle EXCEPT !.pc = start, !.command = f.command, !.ok = f.ok]]
      <4> DEFINE moot == command[f.command].status \in Terminal \/ ~Owned(f.command)
      <4>1. handler' = [handler EXCEPT ![f.gen] =
                          [Idle EXCEPT !.pc = IF moot THEN "ack" ELSE IF f.ok THEN "upload" ELSE "publish",
                                       !.command = f.command, !.ok = f.ok]]
        BY <2>2 DEF AcceptResult
      <4> HIDE DEF moot
      <4>2. CASE moot
        BY <4>1, <4>2
      <4>3. CASE ~moot /\ f.ok
        BY <4>1, <4>3
      <4>4. CASE ~moot /\ ~f.ok
        BY <4>1, <4>4
      <4> QED
        BY <4>2, <4>3, <4>4
    <3> DEFINE r == [Idle EXCEPT !.pc = start, !.command = f.command, !.ok = f.ok]
    <3>2. r \in Handlers /\ r.pc = start /\ r.ok = f.ok
      BY <1>2 DEF Handlers, Frames
    <3>3. f.gen \in Generations /\ handler' = [handler EXCEPT ![f.gen] = r]
      BY <1>2, <3>1 DEF Frames
    <3> HIDE DEF r
    <3>4. (r.pc = "upload" => r.ok) /\ r.pc # "put" /\ (r.pc = "publish" => ~r.ok)
      BY <3>1, <3>2
    <3>5. session'.setting = session.setting /\ Successes
      BY <1>3 DEF Successes, cp
    <3> QED
      BY <1>3, <3>2, <3>3, <3>4, <3>5, HandlerLetsGo
  <2> QED
    BY <2>1, <2>2
<1> QED
  BY <1>4, <1>5, <1>6 DEF CommandInv

LEMMA HandlerStopsStep ==
    ASSUME CommandInv, NEW g \in Generations, HandlerStops(g)
    PROVE  CommandInv'
<1>1. CallInv /\ CallTypes /\ RuntimeTypes /\ LinkInv /\ Registered
  BY DEF CommandInv, CallInv, LinkInv
<1>2. /\ UNCHANGED <<now, cp, generation, identifies, browser, frames, store>>
      /\ handler' = [handler EXCEPT ![g] = Idle]
  BY DEF HandlerStops
<1>3. CallInv'
  BY <1>1, <1>2, CallKept
<1>4. StoreInv'
  BY <1>1, <1>2, Empties, HandlerLetsGo DEF Successes, cp
<1>5. /\ socket' \in 0..MaxGen /\ running' \subseteq Commands /\ wire' \subseteq wire
      /\ outbox' \in [Commands -> Entries]
      /\ socket' \in {0, generation} /\ (socket' = 0 => wire' = {})
  <2>1. CASE socket = g
    <3>1. outbox' = [c \in Commands |-> IF c \in running THEN Queued(FALSE) ELSE Unsent(outbox[c])]
      BY <2>1 DEF HandlerStops
    <3>2. outbox' \in [Commands -> Entries]
      BY <1>1, <3>1, Requeued, Zenon
    <3>3. MaxGen \in Nat /\ socket' = 0 /\ running' = {} /\ wire' = {}
      BY <1>1, <2>1, Bounds DEF HandlerStops
    <3> QED
      BY <3>2, <3>3
  <2>2. CASE socket # g
    BY <1>1, <2>2 DEF HandlerStops, RuntimeTypes, Registered
  <2> QED
    BY <2>1, <2>2
<1>6. MaxGen' = MaxGen /\ OpenCommands' = OpenCommands
  BY <1>2, SettingStays DEF cp
<1>7. RuntimeTypes'
  BY <1>1, <1>2, <1>5, <1>6 DEF RuntimeTypes, Messages, Frames, Entries
<1>8. Registered'
  BY <1>1, <1>2, <1>5, <1>6 DEF Registered, Registering, cp
<1> QED
  BY <1>3, <1>4, <1>7, <1>8 DEF CommandInv, LinkInv

LEMMA AcknowledgeStep ==
    ASSUME CommandInv, NEW g \in Generations, Acknowledge(g)
    PROVE  CommandInv'
<1>1. CallInv /\ CallTypes /\ RuntimeTypes /\ LinkInv /\ Registered /\ StoreTypes
  BY DEF CommandInv, CallInv, LinkInv, StoreInv
<1>2. /\ UNCHANGED <<now, cp, generation, identifies, socket, running, browser, frames, wire,
                       store>>
      /\ handler' = [handler EXCEPT ![g] = Idle]
  BY DEF Acknowledge
<1>3. CallInv'
  BY <1>1, <1>2, CallKept
<1>4. StoreInv'
  BY <1>1, <1>2, Empties, HandlerLetsGo DEF Successes, cp
<1>5. outbox' \in [Commands -> Entries]
  BY <1>1 DEF Acknowledge, RuntimeTypes, Entries
<1>6. MaxGen' = MaxGen /\ OpenCommands' = OpenCommands
  BY <1>2, SettingStays DEF cp
<1>7. RuntimeTypes'
  BY <1>1, <1>2, <1>5, <1>6 DEF RuntimeTypes, Messages, Frames, Entries
<1>8. Registered'
  BY <1>1, <1>2, <1>6 DEF Registered, Registering, cp
<1> QED
  BY <1>3, <1>4, <1>7, <1>8 DEF CommandInv, LinkInv

(* A step of the uploads and of retention leaves the calls and the Runtime alone. *)
LEMMA StoreOnly ==
    ASSUME CommandInv, UNCHANGED <<now, cp, generation, rt, wire>>, StoreInv'
    PROVE  CommandInv'
<1>1. CallInv' /\ session' = session
  BY CallKept DEF CommandInv, cp
<1>2. Registering'
  BY <1>1, SettingStays DEF CommandInv, LinkInv, Registered, Registering, cp, rt
<1>3. LinkInv'
  BY <1>1, <1>2, LinkKept DEF CommandInv
<1> QED
  BY <1>1, <1>3 DEF CommandInv

LEMMA RecordIntentStep ==
    ASSUME CommandInv, NEW g \in Generations, RecordIntent(g)
    PROVE  CommandInv'
<1>1. /\ CallTypes /\ StoreInv /\ StoreTypes
      /\ handler \in [Generations -> Handlers] /\ intent \in [Keys -> Intents]
      /\ uploads \in 0..MaxKeys /\ handler[g] \in Handlers /\ now \in 0..MaxTime
  BY DEF CommandInv, CallInv, CallTypes, StoreInv, StoreTypes
<1>2. /\ UNCHANGED <<now, cp, generation, rt, wire, objects, artifacts, purger>>
      /\ uploads < MaxKeys /\ handler[g].pc = "upload"
  BY DEF RecordIntent
<1>3. /\ MaxTime \in Nat /\ MaxKeys \in Nat /\ UploadTime \in Nat /\ IntentTime \in Nat
      /\ Backoff \in Nat /\ PurgeLease \in Nat
      /\ UploadTime < IntentTime /\ 1..MaxKeys \subseteq Keys /\ Keys \subseteq Nat \ {0}
  BY <1>1, Bounds
<1>4. MaxTime' = MaxTime /\ MaxKeys' = MaxKeys
  BY <1>2, SettingStays DEF cp
<1>a. PICK k \in 1..MaxKeys, due \in 0..(MaxTime + IntentTime + Backoff), by \in 0..(MaxTime + UploadTime) :
         /\ k = uploads + 1 /\ due = now + IntentTime /\ by = now + UploadTime /\ by < due
  <2>1. /\ uploads + 1 \in 1..MaxKeys /\ now + IntentTime \in 0..(MaxTime + IntentTime + Backoff)
        /\ now + UploadTime \in 0..(MaxTime + UploadTime) /\ now + UploadTime < now + IntentTime
    BY <1>1, <1>2, <1>3
  <2> QED
    BY <2>1
<1>5. k \in Keys /\ k > uploads /\ uploads' = k /\ uploads \in Nat
  BY <1>1, <1>2, <1>3, <1>a DEF RecordIntent
<1>6. handler[g].ok
  BY <1>1, <1>2 DEF StoreInv, Uploads
<1>b. PICK row \in Intents :
         row.is /\ row.token = 0 /\ row.due = due /\ intent' = [intent EXCEPT ![k] = row]
  <2> DEFINE r == [None EXCEPT !.is = TRUE, !.due = due]
  <2>a. None \in Intents /\ None.token = 0
    BY <1>1, Empties DEF None
  <2>1. r \in Intents /\ r.is /\ r.token = 0 /\ r.due = due
    BY <1>a, <2>a DEF Intents
  <2>2. intent' = [intent EXCEPT ![k] = r]
    BY <1>a DEF RecordIntent
  <2> HIDE DEF r
  <2> QED
    BY <2>1, <2>2
<1>7. PICK run \in Handlers :
         /\ run.pc = "put" /\ run.ok /\ run.key = k /\ run.by = by
         /\ handler' = [handler EXCEPT ![g] = run]
  <2>a. k \in 0..MaxKeys
    BY <1>3, <1>a
  <2> DEFINE q == [handler[g] EXCEPT !.pc = "put"]
             r == [q EXCEPT !.key = k, !.by = by]
  <2>b. q \in Handlers /\ q.pc = "put" /\ q.ok
    BY <1>1, <1>6 DEF Handlers
  <2>c. r = [handler[g] EXCEPT !.pc = "put", !.key = k, !.by = by]
    BY <1>1 DEF Handlers
  <2> HIDE DEF q
  <2>1. r \in Handlers /\ r.pc = "put" /\ r.ok /\ r.key = k /\ r.by = by
    BY <1>a, <2>a, <2>b DEF Handlers
  <2>2. handler' = [handler EXCEPT ![g].pc = "put", ![g].key = k, ![g].by = by]
    BY <1>a DEF RecordIntent
  <2>3. handler' = [handler EXCEPT ![g] = r]
    BY <1>1, <2>2, <2>c DEF Handlers
  <2> HIDE DEF r
  <2> QED
    BY <2>1, <2>3
<1>8. /\ ~intent[k].is /\ k \notin objects /\ ~Published(k)
  BY <1>1, <1>5 DEF StoreInv, Stored
<1>9. /\ handler' \in [Generations -> Handlers] /\ handler'[g] = run
      /\ \A h \in Generations : h # g => handler'[h] = handler[h]
      /\ intent' \in [Keys -> Intents] /\ intent'[k] = row
      /\ \A j \in Keys : j # k => intent'[j] = intent[j]
  BY <1>1, <1>5, <1>b, <1>7
<1>10. StoreTypes'
  BY <1>1, <1>2, <1>4, <1>5, <1>9 DEF StoreTypes, Handlers, Intents, Purges
<1>11. /\ Uploading(g)' /\ \A h \in Generations : h # g => (Uploading(h)' <=> Uploading(h))
  BY <1>7, <1>9 DEF Uploading
<1>12. \A h \in Generations : Uploading(h) => handler[h].key \in 1..uploads /\ handler[h].key # k
  BY <1>1, <1>5 DEF StoreInv, Uploads
<1>13. Uploads'
  <2>1. \A h \in Generations :
           /\ handler'[h].pc \in {"upload", "put"} => handler'[h].ok
           /\ Uploading(h)' => handler'[h].key \in 1..uploads'
    <3> SUFFICES ASSUME NEW h \in Generations
                 PROVE  /\ handler'[h].pc \in {"upload", "put"} => handler'[h].ok
                        /\ Uploading(h)' => handler'[h].key \in 1..uploads'
      OBVIOUS
    <3>1. CASE h = g
      BY <1>1, <1>2, <1>5, <1>7, <1>9, <3>1
    <3>2. CASE h # g
      <4>1. 1..uploads \subseteq 1..uploads'
        BY <1>5, <1>a
      <4> QED
        BY <1>1, <1>9, <1>11, <3>2, <4>1 DEF StoreInv, Uploads
    <3> QED
      BY <3>1, <3>2
  <2>2. \A h, i \in Generations :
           Uploading(h)' /\ Uploading(i)' /\ handler'[h].key = handler'[i].key => h = i
    <3> SUFFICES ASSUME NEW h \in Generations, NEW i \in Generations,
                        Uploading(h)', Uploading(i)', handler'[h].key = handler'[i].key
                 PROVE  h = i
      OBVIOUS
    <3>1. CASE h = g \/ i = g
      BY <1>7, <1>9, <1>11, <1>12, <3>1
    <3>2. CASE h # g /\ i # g
      BY <1>1, <1>9, <1>11, <3>2 DEF StoreInv, Uploads
    <3> QED
      BY <3>1, <3>2
  <2> QED
    BY <2>1, <2>2 DEF Uploads
<1>14. Once'
  BY <1>1, <1>2 DEF StoreInv, Once, cp
<1>15. \A j \in Keys : Stored(j)'
  <2> SUFFICES ASSUME NEW j \in Keys
               PROVE  Stored(j)'
    OBVIOUS
  <2>1. Published(j)' <=> Published(j)
    BY <1>2 DEF Published
  <2>2. CASE j = k
    BY <1>2, <1>5, <1>8, <2>1, <2>2 DEF Stored
  <2>3. CASE j # k
    <3>1. j > uploads' => j > uploads
      BY <1>3, <1>5, <1>a
    <3> QED
      BY <1>1, <1>2, <1>9, <2>1, <2>3, <3>1 DEF StoreInv, Stored
  <2> QED
    BY <2>2, <2>3
<1>16. \A h \in Generations : Kept(h)'
  <2> SUFFICES ASSUME NEW h \in Generations, Uploading(h)', NEW j \in Keys, j = handler'[h].key
               PROVE  /\ ~Published(j)'
                      /\ handler'[h].pc = "put" /\ now <= handler'[h].by =>
                            intent'[j].is /\ intent'[j].token = 0 /\ handler'[h].by < intent'[j].due
                      /\ handler'[h].pc = "publish" /\ intent'[j].is /\ intent'[j].token = 0 =>
                            j \in objects
    <3>1. \A h \in Generations : Uploading(h)' => handler'[h].key \in Keys
      BY <1>3, <1>5, <1>7, <1>9, <1>11, <1>12, <1>a
    <3> QED
      BY <1>2, <3>1 DEF Kept, Published
  <2>1. Published(j)' <=> Published(j)
    BY <1>2 DEF Published
  <2>2. CASE h = g
    <3>1. j = k /\ handler'[h].pc = "put" /\ handler'[h].by = by
      BY <1>7, <1>9, <2>2
    <3> QED
      BY <1>8, <1>9, <1>a, <1>b, <2>1, <3>1
  <2>3. CASE h # g
    <3>1. Uploading(h) /\ handler'[h] = handler[h]
      BY <1>9, <1>11, <2>3
    <3>2. j # k
      BY <1>12, <3>1
    <3>3. intent'[j] = intent[j]
      BY <1>9, <3>2
    <3> QED
      BY <1>1, <2>1, <3>1, <3>3 DEF StoreInv, Kept
  <2> QED
    BY <2>2, <2>3
<1>17. \A w \in Workers : Purging(w)'
  <2> SUFFICES ASSUME NEW w \in Workers
               PROVE  Purging(w)'
    OBVIOUS
  <2>1. Purging(w) /\ purger'[w] = purger[w]
    BY <1>1, <1>2 DEF StoreInv
  <2>2. CASE purger[w].key = 0
    BY <2>1, <2>2 DEF Purging
  <2>3. CASE purger[w].key # 0
    <3>1. purger[w].key \in 1..uploads
      BY <2>1, <2>3 DEF Purging
    <3>2. purger[w].key # k /\ purger[w].key \in Keys /\ purger[w].key \in 1..uploads'
      BY <1>3, <1>5, <1>a, <3>1
    <3>3. intent'[purger[w].key] = intent[purger[w].key]
      BY <1>9, <3>2
    <3>4. Published(purger[w].key)' <=> Published(purger[w].key)
      BY <1>2 DEF Published
    <3> QED
      BY <1>2, <2>1, <3>2, <3>3, <3>4 DEF Purging
  <2> QED
    BY <2>2, <2>3
<1>18. StoreInv'
  BY <1>10, <1>13, <1>14, <1>15, <1>16, <1>17 DEF StoreInv
<1> QED
  BY <1>2, <1>18, StoreOnly

LEMMA PutStep ==
    ASSUME CommandInv, NEW g \in Generations, Put(g)
    PROVE  CommandInv'
<1>1. /\ CallTypes /\ StoreInv /\ StoreTypes
      /\ handler \in [Generations -> Handlers] /\ uploads \in 0..MaxKeys /\ handler[g] \in Handlers
  BY DEF CommandInv, CallInv, StoreInv, StoreTypes
<1>2. /\ UNCHANGED <<now, cp, generation, rt, wire, uploads, intent, artifacts, purger>>
      /\ handler[g].pc = "put" /\ now <= handler[g].by
  BY DEF Put
<1>3. /\ MaxTime \in Nat /\ MaxKeys \in Nat /\ UploadTime \in Nat
      /\ 1..MaxKeys \subseteq Keys /\ Keys \subseteq Nat \ {0}
  BY <1>1, Bounds
<1>4. MaxTime' = MaxTime /\ MaxKeys' = MaxKeys
  BY <1>2, SettingStays DEF cp
<1>5. handler[g].ok /\ Uploading(g)
  BY <1>1, <1>2 DEF StoreInv, Uploads, Uploading
<1>6. PICK k \in 1..uploads : k = handler[g].key
  BY <1>1, <1>5 DEF StoreInv, Uploads
<1>7. k \in Keys /\ k \in 1..MaxKeys /\ ~(k > uploads)
  BY <1>1, <1>3, <1>6
<1>8. ~Published(k) /\ intent[k].is /\ intent[k].token = 0
  BY <1>1, <1>2, <1>5, <1>6 DEF StoreInv, Kept
<1>9. objects' = objects \cup {k}
  BY <1>6 DEF Put
<1>10. PICK run \in Handlers :
          /\ run.pc = "publish" /\ run.ok /\ run.key = k
          /\ handler' = [handler EXCEPT ![g] = run]
  <2> DEFINE r == [handler[g] EXCEPT !.pc = "publish", !.by = 0]
  <2>1. 0 \in 0..(MaxTime + UploadTime)
    BY <1>3
  <2>2. r \in Handlers /\ r.pc = "publish" /\ r.ok /\ r.key = k
    BY <1>1, <1>5, <1>6, <2>1 DEF Handlers
  <2>3. handler' = [handler EXCEPT ![g] = r]
    BY <1>1 DEF Put, Handlers
  <2> HIDE DEF r
  <2> QED
    BY <2>2, <2>3
<1>11. /\ handler' \in [Generations -> Handlers] /\ handler'[g] = run
       /\ \A h \in Generations : h # g => handler'[h] = handler[h]
  BY <1>1, <1>10
<1>12. StoreTypes'
  BY <1>1, <1>2, <1>4, <1>7, <1>9, <1>11 DEF StoreTypes, Handlers, Intents, Purges
<1>13. \A h \in Generations : (Uploading(h)' <=> Uploading(h)) /\ handler'[h].key = handler[h].key
  BY <1>5, <1>6, <1>10, <1>11 DEF Uploading
<1>14. Uploads'
  <2>1. \A h \in Generations :
           /\ handler'[h].pc \in {"upload", "put"} => handler'[h].ok
           /\ Uploading(h)' => handler'[h].key \in 1..uploads
    <3> SUFFICES ASSUME NEW h \in Generations
                 PROVE  handler'[h].pc \in {"upload", "put"} => handler'[h].ok
      BY <1>1, <1>13 DEF StoreInv, Uploads
    <3>1. CASE h = g
      BY <1>10, <1>11, <3>1
    <3>2. CASE h # g
      BY <1>1, <1>11, <3>2 DEF StoreInv, Uploads
    <3> QED
      BY <3>1, <3>2
  <2>2. \A h, i \in Generations :
           Uploading(h)' /\ Uploading(i)' /\ handler'[h].key = handler'[i].key => h = i
    BY <1>1, <1>13 DEF StoreInv, Uploads
  <2> QED
    BY <1>2, <2>1, <2>2 DEF Uploads
<1>15. Once'
  BY <1>1, <1>2 DEF StoreInv, Once, cp
<1>16. \A j \in Keys : Stored(j)'
  BY <1>1, <1>2, <1>7, <1>8, <1>9 DEF StoreInv, Stored, Published
<1>17. \A h \in Generations : Kept(h)'
  <2> SUFFICES ASSUME NEW h \in Generations
               PROVE  Kept(h)'
    OBVIOUS
  <2>1. CASE h = g
    <3>1. handler'[h].key = k /\ handler'[h].pc = "publish" /\ k \in objects'
      BY <1>9, <1>10, <1>11, <2>1
    <3>2. \A c \in Commands : <<k, c>> \notin artifacts'
      BY <1>2, <1>8 DEF Published
    <3> QED
      BY <3>1, <3>2 DEF Kept, Published
  <2>2. CASE h # g
    BY <1>1, <1>2, <1>9, <1>11, <2>2 DEF StoreInv, Kept, Uploading, Published
  <2> QED
    BY <2>1, <2>2
<1>18. \A w \in Workers : Purging(w)'
  <2> SUFFICES ASSUME NEW w \in Workers
               PROVE  Purging(w)'
    OBVIOUS
  <2>1. Purging(w)
    BY <1>1 DEF StoreInv
  <2>2. purger[w].key # k \/ purger[w].key = 0
    BY <1>8, <2>1 DEF Purging
  <2> QED
    BY <1>2, <1>7, <1>9, <2>1, <2>2 DEF Purging, Published
<1>19. StoreInv'
  BY <1>12, <1>14, <1>15, <1>16, <1>17, <1>18 DEF StoreInv
<1> QED
  BY <1>2, <1>19, StoreOnly

(* Publication changes the row it settles, and the object's task with it. *)
LEMMA PublishStep ==
    ASSUME CommandInv, NEW g \in Generations, Publish(g)
    PROVE  CommandInv'
<1> DEFINE claims == generation = g /\ Claimable(handler[g].command)
<1>1. /\ CallInv /\ CallTypes /\ Called /\ LinkInv /\ StoreInv /\ StoreTypes
      /\ handler \in [Generations -> Handlers] /\ handler[g] \in Handlers
      /\ command \in [Commands -> CommandRows]
  BY DEF CommandInv, CallInv, CallTypes, StoreInv, StoreTypes
<1>2. /\ handler[g].pc = "publish"
      /\ handler' = [handler EXCEPT ![g] = [Idle EXCEPT !.pc = "ack", !.command = handler[g].command]]
      /\ UNCHANGED <<now, caller, sweeping, owner, session, generation, rt, wire, uploads, objects, purger>>
  BY DEF Publish
<1>3. /\ (claims /\ handler[g].ok) => Unclaimed(handler[g].key)
      /\ command' = IF claims
                    THEN [command EXCEPT ![handler[g].command].status =
                                            IF handler[g].ok THEN "SUCCEEDED" ELSE "FAILED"]
                    ELSE command
      /\ intent' = IF claims /\ handler[g].ok THEN [intent EXCEPT ![handler[g].key] = None] ELSE intent
      /\ artifacts' = IF claims /\ handler[g].ok
                      THEN artifacts \cup {<<handler[g].key, handler[g].command>>} ELSE artifacts
  BY Zenon DEF Publish
<1> HIDE DEF claims
<1>4. PICK run \in Handlers : run.pc = "ack" /\ handler' = [handler EXCEPT ![g] = run]
  <2> DEFINE r == [Idle EXCEPT !.pc = "ack", !.command = handler[g].command]
  <2>1. Idle \in Handlers
    BY <1>1, Empties
  <2>2. r \in Handlers /\ r.pc = "ack"
    BY <1>1, <2>1 DEF Handlers
  <2>3. handler' = [handler EXCEPT ![g] = r]
    BY <1>2
  <2> HIDE DEF r
  <2> QED
    BY <2>2, <2>3
<1>5. PICK c \in Commands : c = handler[g].command
  BY <1>1 DEF Handlers
<1>6. MaxTime' = MaxTime /\ MaxGen' = MaxGen /\ MaxKeys' = MaxKeys /\ OpenCommands' = OpenCommands
  BY <1>2, SettingStays
<1>7. claims => command[c].status \in Open
  BY <1>5 DEF claims, Claimable
<1>8. /\ command' \in [Commands -> CommandRows]
      /\ \A d \in Commands :
            /\ command'[d].deadline = command[d].deadline
            /\ command[d].status \notin Open => command'[d] = command[d]
            /\ d # c => command'[d] = command[d]
  <2>1. CASE ~claims
    BY <1>1, <1>3, <2>1
  <2>2. CASE claims
    <3>1. PICK s \in Terminal : command' = [command EXCEPT ![c].status = s]
      <4>1. {"SUCCEEDED", "FAILED"} \subseteq Terminal
        BY DEF Terminal
      <4> QED
        BY <1>3, <1>5, <2>2, <4>1
    <3>2. command[c] \in CommandRows
      BY <1>1
    <3> QED
      BY <1>1, <1>7, <2>2, <3>1, <3>2 DEF CommandRows
  <2> QED
    BY <2>1, <2>2
<1>9. CallInv'
  <2>1. CallTypes'
    BY <1>1, <1>2, <1>6, <1>8 DEF CallTypes, CommandRows, CallerRows
  <2>2. Called'
    <3> SUFFICES ASSUME NEW d \in Commands
                 PROVE  /\ caller[d].pc = "idle" => command'[d].status = "NONE"
                        /\ sweeping[d] # "no" => caller[d].pc # "idle" /\ now >= command'[d].deadline
      BY <1>2 DEF Called
    <3>1. caller[d].pc = "idle" => command[d].status = "NONE" /\ command[d].status \notin Open
      BY <1>1 DEF Called, Open
    <3> QED
      BY <1>1, <1>8, <3>1 DEF Called
  <2> QED
    BY <2>1, <2>2 DEF CallInv
<1>10. LinkInv'
  BY <1>1, <1>2, <1>6, LinkKept DEF LinkInv, Registered, Registering, rt
<1>11. CASE ~(claims /\ handler[g].ok)
  <2>1. UNCHANGED <<now, store>> /\ Successes /\ session'.setting = session.setting
    BY <1>2, <1>3, <1>8, <1>11 DEF store, Successes, Open
  <2>2. StoreInv'
    BY <1>4, <2>1, HandlerLetsGo
  <2> QED
    BY <1>9, <1>10, <2>2 DEF CommandInv
<1>12. CASE claims /\ handler[g].ok
  <2>1. Uploading(g)
    BY <1>2, <1>12 DEF Uploading
  <2>2. PICK k \in 1..uploads : k = handler[g].key
    BY <1>1, <2>1 DEF StoreInv, Uploads
  <2>3. k \in Keys /\ uploads \in Nat /\ MaxKeys \in Nat
    BY <1>1, <2>2, Bounds DEF StoreTypes
  <2>4. /\ intent[k].is /\ intent[k].token = 0 /\ ~Published(k) /\ k \in objects
    BY <1>1, <1>2, <1>3, <1>12, <2>1, <2>2 DEF StoreInv, Kept, Unclaimed
  <2>5. /\ intent' = [intent EXCEPT ![k] = None] /\ artifacts' = artifacts \cup {<<k, c>>}
        /\ command'[c].status = "SUCCEEDED"
    BY <1>1, <1>3, <1>5, <1>12, <2>2 DEF CommandRows
  <2>6. \A a \in artifacts : a \in Keys \X Commands /\ a[2] # c /\ a[1] # k
    <3> SUFFICES ASSUME NEW a \in artifacts
                 PROVE  a \in Keys \X Commands /\ a[2] # c /\ a[1] # k
      OBVIOUS
    <3>1. a \in Keys \X Commands /\ command[a[2]].status = "SUCCEEDED"
      BY <1>1 DEF StoreInv, StoreTypes, Once
    <3>2. a[2] # c
      BY <1>7, <1>12, <3>1 DEF Open
    <3>3. a[1] # k
      BY <2>4, <3>1 DEF Published
    <3> QED
      BY <3>1, <3>2, <3>3
  <2>7. Once'
    <3>1. \A a, b \in artifacts' : a[2] = b[2] => a = b
      BY <1>1, <2>5, <2>6 DEF StoreInv, Once
    <3>2. \A a \in artifacts' : command'[a[2]].status = "SUCCEEDED"
      <4> SUFFICES ASSUME NEW a \in artifacts'
                   PROVE  command'[a[2]].status = "SUCCEEDED"
        OBVIOUS
      <4>1. CASE a \in artifacts
        BY <1>1, <1>8, <2>6, <4>1 DEF StoreInv, Once
      <4>2. CASE a = <<k, c>>
        BY <2>5, <4>2
      <4> QED
        BY <2>5, <4>1, <4>2
    <3> QED
      BY <3>1, <3>2 DEF Once
  <2>8. /\ Published(k)' /\ intent'[k] = None
        /\ \A j \in Keys : j # k => (Published(j)' <=> Published(j)) /\ intent'[j] = intent[j]
    BY <1>1, <2>3, <2>5, <2>6 DEF Published, StoreTypes
  <2>9. \A j \in Keys : Stored(j)'
    <3> SUFFICES ASSUME NEW j \in Keys
                 PROVE  Stored(j)'
      OBVIOUS
    <3>1. CASE j = k
      <4>1. ~(k > uploads) /\ ~None.is
        BY <2>2, <2>3 DEF None
      <4> QED
        BY <1>2, <2>4, <2>8, <3>1, <4>1 DEF Stored
    <3>2. CASE j # k
      BY <1>1, <1>2, <2>8, <3>2 DEF StoreInv, Stored
    <3> QED
      BY <3>1, <3>2
  <2>10. /\ handler' \in [Generations -> Handlers] /\ handler'[g] = run
         /\ \A h \in Generations : h # g => handler'[h] = handler[h]
    BY <1>1, <1>4
  <2>11. ~Uploading(g)' /\ \A h \in Generations : h # g => (Uploading(h)' <=> Uploading(h))
    BY <1>4, <2>10 DEF Uploading
  <2>12. Uploads'
    <3>1. \A h \in Generations :
             /\ handler'[h].pc \in {"upload", "put"} => handler'[h].ok
             /\ Uploading(h)' => handler'[h].key \in 1..uploads
      <4> SUFFICES ASSUME NEW h \in Generations
                   PROVE  /\ handler'[h].pc \in {"upload", "put"} => handler'[h].ok
                          /\ Uploading(h)' => handler'[h].key \in 1..uploads
        OBVIOUS
      <4>1. CASE h = g
        BY <1>4, <2>10, <2>11, <4>1
      <4>2. CASE h # g
        BY <1>1, <2>10, <2>11, <4>2 DEF StoreInv, Uploads
      <4> QED
        BY <4>1, <4>2
    <3>2. \A h, i \in Generations :
             Uploading(h)' /\ Uploading(i)' /\ handler'[h].key = handler'[i].key => h = i
      BY <1>1, <2>10, <2>11 DEF StoreInv, Uploads
    <3> QED
      BY <1>2, <3>1, <3>2 DEF Uploads
  <2>13. \A h \in Generations : Kept(h)'
    <3> SUFFICES ASSUME NEW h \in Generations
                 PROVE  Kept(h)'
      OBVIOUS
    <3>1. CASE h = g \/ ~Uploading(h)
      BY <2>11, <3>1 DEF Kept
    <3>2. CASE h # g /\ Uploading(h)
      <4>1. PICK j \in 1..uploads : j = handler[h].key
        BY <1>1, <3>2 DEF StoreInv, Uploads
      <4>2. j # k
        BY <1>1, <2>1, <2>2, <3>2, <4>1 DEF StoreInv, Uploads
      <4>3. j \in Keys
        BY <1>1, <4>1, Bounds DEF StoreTypes
      <4>4. (Published(j)' <=> Published(j)) /\ intent'[j] = intent[j]
        BY <2>8, <4>2, <4>3
      <4>5. /\ ~Published(j)
            /\ handler[h].pc = "put" /\ now <= handler[h].by =>
                  intent[j].is /\ intent[j].token = 0 /\ handler[h].by < intent[j].due
            /\ handler[h].pc = "publish" /\ intent[j].is /\ intent[j].token = 0 => j \in objects
        BY <1>1, <3>2, <4>1 DEF StoreInv, Kept
      <4>6. handler'[h] = handler[h] /\ now' = now /\ objects' = objects
        BY <1>2, <2>10, <3>2
      <4>7. \A d \in Commands : <<handler'[h].key, d>> \notin artifacts'
        BY <4>1, <4>4, <4>5, <4>6 DEF Published
      <4> QED
        BY <4>1, <4>4, <4>5, <4>6, <4>7 DEF Kept, Published
    <3> QED
      BY <3>1, <3>2
  <2>14. \A w \in Workers : Purging(w)'
    <3> SUFFICES ASSUME NEW w \in Workers
                 PROVE  Purging(w)'
      OBVIOUS
    <3>1. Purging(w)
      BY <1>1 DEF StoreInv
    <3>2. CASE purger[w].key = 0
      BY <1>2, <3>1, <3>2 DEF Purging
    <3>3. CASE purger[w].key # 0
      <4>1. PICK j \in 1..uploads : j = purger[w].key
        BY <3>1, <3>3 DEF Purging
      <4>2. j # k /\ j \in Keys
        BY <1>1, <2>4, <3>1, <3>3, <4>1, Bounds DEF Purging, StoreTypes
      <4>3. (Published(j)' <=> Published(j)) /\ intent'[j] = intent[j]
        BY <2>8, <4>2
      <4>4. \A d \in Commands : <<purger'[w].key, d>> \notin artifacts'
        BY <1>2, <3>1, <3>3, <4>1, <4>3 DEF Published, Purging
      <4> QED
        BY <1>2, <3>1, <3>3, <4>1, <4>3, <4>4 DEF Purging, Published
    <3> QED
      BY <3>2, <3>3
  <2>15. StoreTypes'
    <3>1. None \in Intents
      BY <1>1, Empties
    <3>2. intent' \in [Keys -> Intents] /\ artifacts' \subseteq Keys \X Commands
      BY <1>1, <2>3, <2>5, <3>1 DEF StoreTypes
    <3> QED
      BY <1>1, <1>2, <1>6, <2>10, <3>2 DEF StoreTypes, Handlers, Intents, Purges
  <2>16. StoreInv'
    BY <2>7, <2>9, <2>12, <2>13, <2>14, <2>15 DEF StoreInv
  <2> QED
    BY <1>9, <1>10, <2>16 DEF CommandInv
<1> QED
  BY <1>11, <1>12

-----------------------------------------------------------------------------
(* Retention. *)

(* A step of retention that leaves the artifacts alone. *)
LEMMA RetentionMoved ==
    ASSUME CommandInv, UNCHANGED <<now, cp, generation, rt, wire, handler, uploads, artifacts>>,
           objects' \subseteq objects, intent' \in [Keys -> Intents],
           purger' \in [Workers -> Purges],
           \A k \in Keys : Stored(k)', \A g \in Generations : Kept(g)',
           \A w \in Workers : Purging(w)'
    PROVE  CommandInv'
<1>1. MaxTime' = MaxTime /\ MaxKeys' = MaxKeys
  BY SettingStays DEF cp
<1>2. StoreTypes'
  BY <1>1 DEF CommandInv, StoreInv, StoreTypes, Handlers, Intents, Purges
<1>3. Uploads' /\ Once'
  BY DEF CommandInv, StoreInv, Uploads, Uploading, Once, cp
<1>4. StoreInv'
  BY <1>2, <1>3 DEF StoreInv
<1> QED
  BY <1>4, StoreOnly

(* What the claim of a deletion holds. *)
LEMMA Claim ==
    ASSUME CommandInv, NEW w \in Workers, purger[w].key # 0
    PROVE  \E k \in Keys :
              /\ k = purger[w].key /\ k \in 1..uploads /\ ~Published(k)
              /\ intent[k].is => intent[k].token # 0
              /\ purger[w].deleted => k \notin objects
<1>1. StoreInv /\ CallTypes /\ uploads \in 0..MaxKeys
  BY DEF CommandInv, CallInv, StoreInv, StoreTypes
<1>2. MaxKeys \in Nat /\ 1..MaxKeys \subseteq Keys
  BY <1>1, Bounds
<1>3. PICK k \in 1..uploads : k = purger[w].key
  BY <1>1 DEF StoreInv, Purging
<1>4. k \in Keys
  BY <1>1, <1>2, <1>3
<1> QED
  BY <1>1, <1>3, <1>4 DEF StoreInv, Purging

(* What the upload of a handler holds. *)
LEMMA Upload ==
    ASSUME CommandInv, NEW g \in Generations, Uploading(g)
    PROVE  \E k \in Keys :
              /\ k = handler[g].key /\ ~Published(k)
              /\ handler[g].pc = "put" /\ now <= handler[g].by =>
                    intent[k].is /\ intent[k].token = 0 /\ handler[g].by < intent[k].due
              /\ handler[g].pc = "publish" /\ intent[k].is /\ intent[k].token = 0 => k \in objects
<1>1. StoreInv /\ CallTypes /\ uploads \in 0..MaxKeys
  BY DEF CommandInv, CallInv, StoreInv, StoreTypes
<1>2. MaxKeys \in Nat /\ 1..MaxKeys \subseteq Keys
  BY <1>1, Bounds
<1>3. PICK k \in 1..uploads : k = handler[g].key
  BY <1>1 DEF StoreInv, Uploads
<1>4. k \in Keys
  BY <1>1, <1>2, <1>3
<1> QED
  BY <1>1, <1>3, <1>4 DEF StoreInv, Kept

LEMMA PurgeClaimStep ==
    ASSUME CommandInv, NEW w \in Workers, NEW k \in Keys, PurgeClaim(w, k)
    PROVE  CommandInv'
<1>1. /\ CallTypes /\ StoreInv /\ StoreTypes /\ uploads \in 0..MaxKeys /\ now \in 0..MaxTime
      /\ intent \in [Keys -> Intents] /\ purger \in [Workers -> Purges]
  BY DEF CommandInv, CallInv, CallTypes, StoreInv, StoreTypes
<1>2. /\ MaxTime \in Nat /\ MaxKeys \in Nat /\ Keys \subseteq Nat \ {0} /\ PurgeLease \in Nat
      /\ IntentTime \in Nat /\ Backoff \in Nat /\ UploadTime \in Nat
  BY <1>1, Bounds
<1>3. /\ UNCHANGED <<now, cp, generation, rt, wire, handler, uploads, objects, artifacts>>
      /\ intent[k].is /\ intent[k].due <= now
  BY DEF PurgeClaim
<1>4. ~Published(k) /\ ~(k > uploads)
  BY <1>1, <1>3 DEF StoreInv, Stored
<1>5. k \in 1..uploads /\ k \in 0..MaxKeys /\ k # 0
  BY <1>1, <1>2, <1>4
<1>6. PICK token \in Nat : token = intent[k].token + 1 /\ token # 0
  BY <1>1 DEF Intents
<1>7. PICK row \in Intents : row.is /\ row.token = token /\ intent' = [intent EXCEPT ![k] = row]
  <2> DEFINE r == [intent[k] EXCEPT !.token = token, !.until = now + PurgeLease]
  <2>1. now + PurgeLease \in 0..(MaxTime + PurgeLease) /\ intent[k] \in Intents
    BY <1>1, <1>2
  <2>2. r \in Intents /\ r.is /\ r.token = token
    BY <1>3, <2>1 DEF Intents
  <2>3. intent' = [intent EXCEPT ![k] = r]
    BY <1>1, <1>4, <1>6 DEF PurgeClaim, Intents
  <2> HIDE DEF r
  <2> QED
    BY <2>2, <2>3
<1>8. /\ intent' \in [Keys -> Intents] /\ intent'[k] = row
      /\ \A j \in Keys : j # k => intent'[j] = intent[j]
  BY <1>1, <1>7
<1>9. PICK p \in Purges : p.key = k /\ ~p.deleted /\ purger' = [purger EXCEPT ![w] = p]
  <2> DEFINE r == [key |-> k, token |-> token, deleted |-> FALSE]
  <2>1. r \in Purges
    BY <1>5 DEF Purges
  <2>2. purger' = [purger EXCEPT ![w] = r]
    BY <1>4, <1>6 DEF PurgeClaim
  <2> HIDE DEF r
  <2>3. r.key = k /\ ~r.deleted
    BY DEF r
  <2> QED
    BY <2>1, <2>2, <2>3
<1>10. /\ purger' \in [Workers -> Purges] /\ purger'[w] = p
       /\ \A v \in Workers : v # w => purger'[v] = purger[v]
  BY <1>1, <1>9
<1>11. \A j \in Keys : Published(j)' <=> Published(j)
  BY <1>3 DEF Published
<1>12. \A j \in Keys : Stored(j)'
  <2> SUFFICES ASSUME NEW j \in Keys
               PROVE  Stored(j)'
    OBVIOUS
  <2>1. CASE j = k
    BY <1>1, <1>3, <1>4, <1>7, <1>8, <2>1 DEF StoreInv, Stored, Published
  <2>2. CASE j # k
    BY <1>1, <1>3, <1>8, <2>2 DEF StoreInv, Stored, Published
  <2> QED
    BY <2>1, <2>2
<1>13. \A g \in Generations : Kept(g)'
  <2> SUFFICES ASSUME NEW g \in Generations, Uploading(g)
               PROVE  Kept(g)'
    BY <1>3 DEF Kept, Uploading
  <2>1. PICK j \in Keys :
           /\ j = handler[g].key /\ ~Published(j)
           /\ handler[g].pc = "put" /\ now <= handler[g].by =>
                 intent[j].is /\ intent[j].token = 0 /\ handler[g].by < intent[j].due
           /\ handler[g].pc = "publish" /\ intent[j].is /\ intent[j].token = 0 => j \in objects
    BY Upload
  <2>2. CASE j = k
    <3>1. handler[g].by \in Int /\ intent[k].due \in Int /\ now \in Int
      BY <1>1, <1>2 DEF StoreTypes, Handlers, Intents
    <3>2. ~(handler[g].pc = "put" /\ now <= handler[g].by)
      BY <1>3, <2>1, <2>2, <3>1
    <3> QED
      BY <1>3, <1>6, <1>7, <1>8, <2>1, <2>2, <3>2 DEF Kept, Published
  <2>3. CASE j # k
    <3>1. intent'[j] = intent[j]
      BY <1>8, <2>3
    <3> QED
      BY <1>3, <2>1, <3>1 DEF Kept, Published
  <2> QED
    BY <2>2, <2>3
<1>14. \A v \in Workers : Purging(v)'
  <2> SUFFICES ASSUME NEW v \in Workers
               PROVE  Purging(v)'
    OBVIOUS
  <2>1. CASE v = w
    BY <1>3, <1>4, <1>5, <1>6, <1>7, <1>8, <1>9, <1>10, <2>1 DEF Purging, Published
  <2>2. CASE v # w /\ purger[v].key = 0
    BY <1>1, <1>3, <1>10, <2>2 DEF StoreInv, Purging
  <2>3. CASE v # w /\ purger[v].key # 0
    <3>1. PICK j \in Keys :
             /\ j = purger[v].key /\ j \in 1..uploads /\ ~Published(j)
             /\ intent[j].is => intent[j].token # 0
             /\ purger[v].deleted => j \notin objects
      BY <2>3, Claim
    <3>2. intent'[j].is => intent'[j].token # 0
      BY <1>6, <1>7, <1>8, <3>1
    <3> QED
      BY <1>3, <1>10, <2>3, <3>1, <3>2 DEF Purging, Published
  <2> QED
    BY <2>1, <2>2, <2>3
<1> QED
  BY <1>3, <1>8, <1>10, <1>12, <1>13, <1>14, RetentionMoved

(* A worker that gives its claim back, having put the task in some state that is
   still claimed, or having dropped it after the object. *)
LEMMA ClaimEnds ==
    ASSUME CommandInv, NEW w \in Workers, purger[w].key # 0,
           UNCHANGED <<now, cp, generation, rt, wire, handler, uploads, objects, artifacts>>,
           purger' = [purger EXCEPT ![w] = NoPurge], intent' \in [Keys -> Intents],
           \A j \in Keys : j # purger[w].key => intent'[j] = intent[j],
           \/ intent' = intent
           \/ /\ intent[purger[w].key].is
              /\ intent'[purger[w].key].is /\ intent'[purger[w].key].token = intent[purger[w].key].token
           \/ purger[w].deleted /\ ~intent'[purger[w].key].is
    PROVE  CommandInv'
<1>1. /\ CallTypes /\ StoreInv /\ StoreTypes /\ uploads \in 0..MaxKeys
      /\ intent \in [Keys -> Intents] /\ purger \in [Workers -> Purges]
  BY DEF CommandInv, CallInv, StoreInv, StoreTypes
<1>2. PICK k \in Keys :
         /\ k = purger[w].key /\ k \in 1..uploads /\ ~Published(k)
         /\ intent[k].is => intent[k].token # 0
         /\ purger[w].deleted => k \notin objects
  BY Claim
<1>3. /\ \A j \in Keys : j # k => intent'[j] = intent[j]
      /\ intent'[k].is => intent'[k].token # 0 /\ intent[k].is
      /\ k \in objects => intent'[k].is \/ ~intent[k].is
  BY <1>2
<1>4. NoPurge \in Purges /\ NoPurge.key = 0 /\ ~NoPurge.deleted
  BY <1>1, Empties DEF NoPurge
<1>5. /\ purger' \in [Workers -> Purges] /\ purger'[w] = NoPurge
      /\ \A v \in Workers : v # w => purger'[v] = purger[v]
  BY <1>1, <1>4
<1>6. \A j \in Keys : Stored(j)'
  <2> SUFFICES ASSUME NEW j \in Keys
               PROVE  Stored(j)'
    OBVIOUS
  <2>1. CASE j = k
    BY <1>1, <1>2, <1>3, <2>1 DEF StoreInv, Stored, Published
  <2>2. CASE j # k
    BY <1>1, <1>3, <2>2 DEF StoreInv, Stored, Published
  <2> QED
    BY <2>1, <2>2
<1>7. \A g \in Generations : Kept(g)'
  <2> SUFFICES ASSUME NEW g \in Generations, Uploading(g)
               PROVE  Kept(g)'
    BY DEF Kept, Uploading
  <2>1. PICK j \in Keys :
           /\ j = handler[g].key /\ ~Published(j)
           /\ handler[g].pc = "put" /\ now <= handler[g].by =>
                 intent[j].is /\ intent[j].token = 0 /\ handler[g].by < intent[j].due
           /\ handler[g].pc = "publish" /\ intent[j].is /\ intent[j].token = 0 => j \in objects
    BY Upload
  <2>2. CASE j = k
    BY <1>2, <1>3, <2>1, <2>2 DEF Kept, Published
  <2>3. CASE j # k
    <3>1. intent'[j] = intent[j]
      BY <1>3, <2>3
    <3> QED
      BY <2>1, <3>1 DEF Kept, Published
  <2> QED
    BY <2>2, <2>3
<1>8. \A v \in Workers : Purging(v)'
  <2> SUFFICES ASSUME NEW v \in Workers
               PROVE  Purging(v)'
    OBVIOUS
  <2>1. CASE v = w
    BY <1>4, <1>5, <2>1 DEF Purging
  <2>2. CASE v # w /\ purger[v].key = 0
    BY <1>1, <1>5, <2>2 DEF StoreInv, Purging
  <2>3. CASE v # w /\ purger[v].key # 0
    <3>1. PICK j \in Keys :
             /\ j = purger[v].key /\ j \in 1..uploads /\ ~Published(j)
             /\ intent[j].is => intent[j].token # 0
             /\ purger[v].deleted => j \notin objects
      BY <2>3, Claim
    <3>2. intent'[j].is => intent'[j].token # 0
      BY <1>3, <3>1
    <3> QED
      BY <1>5, <2>3, <3>1, <3>2 DEF Purging, Published
  <2> QED
    BY <2>1, <2>2, <2>3
<1> QED
  BY <1>5, <1>6, <1>7, <1>8, RetentionMoved

LEMMA PurgeDeleteStep ==
    ASSUME CommandInv, NEW w \in Workers, PurgeDelete(w)
    PROVE  CommandInv'
<1>1. /\ CallTypes /\ StoreInv /\ StoreTypes
      /\ intent \in [Keys -> Intents] /\ purger \in [Workers -> Purges]
  BY DEF CommandInv, CallInv, StoreInv, StoreTypes
<1>2. /\ UNCHANGED <<now, cp, generation, rt, wire, handler, uploads, intent, artifacts>>
      /\ purger[w].key # 0
  BY DEF PurgeDelete
<1>3. PICK k \in Keys :
         /\ k = purger[w].key /\ k \in 1..uploads /\ ~Published(k)
         /\ intent[k].is => intent[k].token # 0
         /\ purger[w].deleted => k \notin objects
  BY <1>2, Claim
<1>4. objects' = objects \ {k}
  BY <1>3 DEF PurgeDelete
<1>5. PICK p \in Purges : p.key = k /\ purger' = [purger EXCEPT ![w] = p]
  <2> DEFINE r == [purger[w] EXCEPT !.deleted = TRUE]
  <2>1. r \in Purges /\ r.key = k
    BY <1>1, <1>3 DEF Purges
  <2>2. purger' = [purger EXCEPT ![w] = r]
    BY <1>1 DEF PurgeDelete, Purges
  <2> HIDE DEF r
  <2> QED
    BY <2>1, <2>2
<1>6. /\ purger' \in [Workers -> Purges] /\ purger'[w] = p
      /\ \A v \in Workers : v # w => purger'[v] = purger[v]
  BY <1>1, <1>5
<1>7. \A j \in Keys : Stored(j)'
  <2> SUFFICES ASSUME NEW j \in Keys
               PROVE  Stored(j)'
    OBVIOUS
  <2>1. CASE j = k
    BY <1>1, <1>2, <1>3, <1>4, <2>1 DEF StoreInv, Stored, Published
  <2>2. CASE j # k
    BY <1>1, <1>2, <1>4, <2>2 DEF StoreInv, Stored, Published
  <2> QED
    BY <2>1, <2>2
<1>8. \A g \in Generations : Kept(g)'
  <2> SUFFICES ASSUME NEW g \in Generations, Uploading(g)
               PROVE  Kept(g)'
    BY <1>2 DEF Kept, Uploading
  <2>1. PICK j \in Keys :
           /\ j = handler[g].key /\ ~Published(j)
           /\ handler[g].pc = "put" /\ now <= handler[g].by =>
                 intent[j].is /\ intent[j].token = 0 /\ handler[g].by < intent[j].due
           /\ handler[g].pc = "publish" /\ intent[j].is /\ intent[j].token = 0 => j \in objects
    BY Upload
  <2>2. CASE j = k
    BY <1>2, <1>3, <2>1, <2>2 DEF Kept, Published
  <2>3. CASE j # k
    BY <1>2, <1>4, <2>1, <2>3 DEF Kept, Published
  <2> QED
    BY <2>2, <2>3
<1>9. \A v \in Workers : Purging(v)'
  <2> SUFFICES ASSUME NEW v \in Workers
               PROVE  Purging(v)'
    OBVIOUS
  <2>1. CASE v = w
    <3>1. k # 0
      BY <1>2, <1>3
    <3> QED
      BY <1>2, <1>3, <1>4, <1>5, <1>6, <2>1, <3>1 DEF Purging, Published
  <2>2. CASE v # w /\ purger[v].key = 0
    BY <1>1, <1>6, <2>2 DEF StoreInv, Purging
  <2>3. CASE v # w /\ purger[v].key # 0
    <3>1. PICK j \in Keys :
             /\ j = purger[v].key /\ j \in 1..uploads /\ ~Published(j)
             /\ intent[j].is => intent[j].token # 0
             /\ purger[v].deleted => j \notin objects
      BY <2>3, Claim
    <3> QED
      BY <1>2, <1>4, <1>6, <2>3, <3>1 DEF Purging, Published
  <2> QED
    BY <2>1, <2>2, <2>3
<1> QED
  BY <1>1, <1>2, <1>4, <1>6, <1>7, <1>8, <1>9, RetentionMoved

LEMMA PurgeEnds ==
    ASSUME CommandInv, NEW w \in Workers, PurgeDone(w) \/ PurgeFails(w) \/ PurgeStops(w)
    PROVE  CommandInv'
<1>1. /\ CallTypes /\ StoreInv /\ now \in 0..MaxTime
      /\ intent \in [Keys -> Intents]
  BY DEF CommandInv, CallInv, CallTypes, StoreInv, StoreTypes
<1>2. /\ UNCHANGED <<now, cp, generation, rt, wire, handler, uploads, objects, artifacts>>
      /\ purger' = [purger EXCEPT ![w] = NoPurge] /\ purger[w].key # 0
  BY <1>1 DEF PurgeDone, PurgeFails, PurgeStops, StoreInv, Purging
<1>3. PICK k \in Keys : k = purger[w].key
  BY <1>2, Claim
<1>4. CASE intent' = intent
  BY <1>1, <1>2, <1>4, ClaimEnds
<1>5. CASE PurgeDone(w) /\ intent' # intent
  <2>1. intent' = [intent EXCEPT ![k] = None] /\ purger[w].deleted
    BY <1>3, <1>5 DEF PurgeDone
  <2>2. None \in Intents /\ ~None.is
    BY <1>1, Empties
  <2>3. /\ intent' \in [Keys -> Intents] /\ ~intent'[k].is
        /\ \A j \in Keys : j # k => intent'[j] = intent[j]
    BY <1>1, <2>1, <2>2
  <2> QED
    BY <1>2, <1>3, <2>1, <2>3, ClaimEnds
<1>6. CASE PurgeFails(w) /\ intent' # intent
  <2>1. /\ intent' = [intent EXCEPT ![k].due = now + Backoff, ![k].until = 0]
        /\ intent[k].is
    BY <1>3, <1>6 DEF PurgeFails, Mine
  <2>2. PICK row \in Intents :
           row.is /\ row.token = intent[k].token /\ intent' = [intent EXCEPT ![k] = row]
    <3> DEFINE r == [intent[k] EXCEPT !.due = now + Backoff, !.until = 0]
    <3>1. /\ MaxTime \in Nat /\ IntentTime \in Nat /\ Backoff \in Nat /\ PurgeLease \in Nat
      BY <1>1, Bounds
    <3>2. now + Backoff \in 0..(MaxTime + IntentTime + Backoff) /\ 0 \in 0..(MaxTime + PurgeLease)
      BY <1>1, <3>1
    <3>3. r \in Intents /\ r.is /\ r.token = intent[k].token
      BY <1>1, <2>1, <3>2 DEF Intents
    <3>4. intent' = [intent EXCEPT ![k] = r]
      BY <1>1, <2>1 DEF Intents
    <3> HIDE DEF r
    <3> QED
      BY <3>3, <3>4
  <2>3. /\ intent' \in [Keys -> Intents] /\ intent'[k].is /\ intent'[k].token = intent[k].token
        /\ \A j \in Keys : j # k => intent'[j] = intent[j]
    BY <1>1, <2>2
  <2> QED
    BY <1>2, <1>3, <2>1, <2>3, ClaimEnds
<1>7. CASE PurgeStops(w)
  BY <1>4, <1>7 DEF PurgeStops
<1> QED
  BY <1>4, <1>5, <1>6, <1>7

LEMMA RetireArtifactStep ==
    ASSUME CommandInv, NEW k \in Keys, RetireArtifact(k)
    PROVE  CommandInv'
<1>1. /\ CallTypes /\ StoreInv /\ StoreTypes /\ now \in 0..MaxTime
      /\ uploads \in 0..MaxKeys /\ intent \in [Keys -> Intents] /\ artifacts \subseteq Keys \X Commands
  BY DEF CommandInv, CallInv, CallTypes, StoreInv, StoreTypes
<1>2. /\ UNCHANGED <<now, cp, generation, rt, wire, handler, uploads, objects, purger>>
      /\ Published(k) /\ artifacts' = {a \in artifacts : a[1] # k}
  BY DEF RetireArtifact
<1>3. ~intent[k].is /\ k \in objects /\ ~(k > uploads)
  BY <1>1, <1>2 DEF StoreInv, Stored
<1>4. MaxTime' = MaxTime /\ MaxKeys' = MaxKeys
  BY <1>2, SettingStays DEF cp
<1>5. PICK row \in Intents : row.is /\ intent' = [intent EXCEPT ![k] = row]
  <2> DEFINE r == [None EXCEPT !.is = TRUE, !.due = now]
  <2>1. None \in Intents
    BY <1>1, Empties
  <2>2. now \in 0..(MaxTime + IntentTime + Backoff)
    BY <1>1, Bounds
  <2>3. r \in Intents /\ r.is
    BY <2>1, <2>2 DEF Intents
  <2>4. intent' = [intent EXCEPT ![k] = r]
    BY <1>3 DEF RetireArtifact
  <2> HIDE DEF r
  <2> QED
    BY <2>3, <2>4
<1>6. /\ intent' \in [Keys -> Intents] /\ intent'[k] = row
      /\ \A j \in Keys : j # k => intent'[j] = intent[j]
  BY <1>1, <1>5
<1>7. ~Published(k)' /\ \A j \in Keys : j # k => (Published(j)' <=> Published(j))
  BY <1>1, <1>2 DEF Published
<1>8. StoreTypes'
  BY <1>1, <1>2, <1>4, <1>6 DEF StoreTypes, Handlers, Intents, Purges
<1>9. Uploads' /\ Once'
  BY <1>1, <1>2 DEF StoreInv, Uploads, Uploading, Once, cp
<1>10. \A j \in Keys : Stored(j)'
  <2> SUFFICES ASSUME NEW j \in Keys
               PROVE  Stored(j)'
    OBVIOUS
  <2>1. CASE j = k
    BY <1>2, <1>3, <1>5, <1>6, <1>7, <2>1 DEF Stored
  <2>2. CASE j # k
    BY <1>1, <1>2, <1>6, <1>7, <2>2 DEF StoreInv, Stored
  <2> QED
    BY <2>1, <2>2
<1>11. \A g \in Generations : Kept(g)'
  <2> SUFFICES ASSUME NEW g \in Generations, Uploading(g)
               PROVE  Kept(g)'
    BY <1>2 DEF Kept, Uploading
  <2>1. PICK j \in Keys :
           /\ j = handler[g].key /\ ~Published(j)
           /\ handler[g].pc = "put" /\ now <= handler[g].by =>
                 intent[j].is /\ intent[j].token = 0 /\ handler[g].by < intent[j].due
           /\ handler[g].pc = "publish" /\ intent[j].is /\ intent[j].token = 0 => j \in objects
    BY Upload
  <2>2. j # k
    BY <1>2, <2>1
  <2>3. intent'[j] = intent[j]
    BY <1>6, <2>2
  <2>4. \A d \in Commands : <<handler'[g].key, d>> \notin artifacts'
    BY <1>2, <2>1 DEF Published
  <2> QED
    BY <1>2, <2>1, <2>3, <2>4 DEF Kept, Published
<1>12. \A w \in Workers : Purging(w)'
  <2> SUFFICES ASSUME NEW w \in Workers
               PROVE  Purging(w)'
    OBVIOUS
  <2>1. CASE purger[w].key = 0
    BY <1>1, <1>2, <2>1 DEF StoreInv, Purging
  <2>2. CASE purger[w].key # 0
    <3>1. PICK j \in Keys :
             /\ j = purger[w].key /\ j \in 1..uploads /\ ~Published(j)
             /\ intent[j].is => intent[j].token # 0
             /\ purger[w].deleted => j \notin objects
      BY <2>2, Claim
    <3>2. j # k
      BY <1>2, <3>1
    <3>3. intent'[j] = intent[j]
      BY <1>6, <3>2
    <3>4. \A d \in Commands : <<purger'[w].key, d>> \notin artifacts'
      BY <1>2, <3>1 DEF Published
    <3> QED
      BY <1>2, <2>2, <3>1, <3>3, <3>4 DEF Purging, Published
  <2> QED
    BY <2>1, <2>2
<1>13. StoreInv'
  BY <1>8, <1>9, <1>10, <1>11, <1>12 DEF StoreInv
<1> QED
  BY <1>2, <1>13, StoreOnly

-----------------------------------------------------------------------------
(* The invariant, and the properties it gives. *)

LEMMA InitCommandInv ==
    ASSUME Init
    PROVE  CommandInv
<1>1. PICK s \in Settings : session = [opening |-> s.opens # {}, launch |-> FALSE, setting |-> s]
  BY DEF Init
<1>2. session \in [opening : BOOLEAN, launch : BOOLEAN, setting : Settings] /\ ~session.launch
  BY <1>1
<1>3. MaxTime \in Nat /\ MaxGen \in Nat /\ MaxKeys \in Nat /\ Keys \subseteq Nat \ {0}
  <2>1. Settings \subseteq [opens : SUBSET Commands, purgers : SUBSET Workers,
                            runtimes : SUBSET BOOLEAN, until : Nat, generations : Nat,
                            keys : Nat]
    BY CommandConstants
  <2> QED
    BY <1>2, <2>1 DEF MaxTime, MaxGen, MaxKeys, Keys
<1>4. CallTypes
  BY <1>2, <1>3 DEF Init, CallTypes, CommandRows, CallerRows
<1>5. Called
  BY DEF Init, Called
<1>6. LinkInv
  <2>1. "none" \in Entries
    BY DEF Entries
  <2>2. /\ generation = 0 /\ identifies = FALSE /\ socket = 0 /\ wire = {} /\ running = {} /\ browser = FALSE
        /\ outbox = [c \in Commands |-> "none"] /\ frames = {}
        /\ \A c \in Commands : caller[c].pc = "idle" /\ caller[c].gen = 0
    BY DEF Init
  <2>3. RuntimeTypes
    <3>1. generation \in 0..MaxGen /\ socket \in 0..MaxGen
      BY <1>3, <2>2
    <3>2. outbox \in [Commands -> Entries] /\ browser \in BOOLEAN /\ identifies \in BOOLEAN
      BY <2>1, <2>2
    <3> QED
      BY <2>2, <3>1, <3>2 DEF RuntimeTypes
  <2>4. Registered
    BY <2>2 DEF Registered, Registering
  <2> QED
    BY <2>3, <2>4 DEF LinkInv
<1>7. Idle \in Handlers /\ Idle.pc = "idle" /\ None \in Intents /\ ~None.is /\ NoPurge \in Purges
  BY <1>4, Empties
<1>8. StoreTypes
  BY <1>3, <1>7 DEF Init, StoreTypes, NoPurge
<1>9. \A g \in Generations : handler[g].pc = "idle"
  BY <1>7 DEF Init
<1>10. Uploads /\ \A g \in Generations : Kept(g)
  BY <1>9 DEF Uploads, Uploading, Kept
<1>11. Once /\ \A k \in Keys : Stored(k)
  BY <1>7 DEF Init, Once, Stored, Published
<1>12. \A w \in Workers : Purging(w)
  BY DEF Init, Purging
<1> QED
  BY <1>4, <1>5, <1>6, <1>8, <1>10, <1>11, <1>12 DEF CommandInv, CallInv, StoreInv

LEMMA NextCommandInv ==
    ASSUME CommandInv, [Next]_vars
    PROVE  CommandInv'
<1>1. CASE UNCHANGED vars
  <2>1. UNCHANGED <<now, cp, handler, store>> /\ UNCHANGED <<generation, rt, wire>>
    BY <1>1 DEF vars
  <2>2. CallInv' /\ Registering'
    BY <2>1, CallKept DEF CommandInv, LinkInv, Registered, Registering, OpenCommands, cp, rt
  <2>3. session' = session /\ Successes
    BY <2>1 DEF cp, Successes
  <2> QED
    BY <2>1, <2>2, <2>3, LinkKept, StoreKept DEF CommandInv
<1>2. ASSUME NEW c \in Commands, CallerStep(c)
      PROVE  CommandInv'
  <2>1. CASE Send(c)
    BY <2>1, SendStep
  <2>2. CASE SendCancel(c)
    BY <2>2, SendCancelStep
  <2>3. CASE ~Send(c) /\ ~SendCancel(c)
    BY <1>2, <2>3, QuietCallSteps, Zenon DEF CallerStep
  <2> QED
    BY <2>1, <2>2, <2>3
<1>3. ASSUME NEW c \in Commands, SweeperStep(c)
      PROVE  CommandInv'
  BY <1>3, SweeperSteps
<1>4. ASSUME NEW f \in frames, AcceptResult(f)
      PROVE  CommandInv'
  BY <1>4, AcceptResultStep
<1>5. CASE LoseOwner \/ LeaveOpening
  BY <1>5, SessionSteps
<1>6. CASE RuntimeStep
  BY <1>6, RuntimeSteps
<1>7. ASSUME NEW g \in Generations, GatewayStep(g)
      PROVE  CommandInv'
  BY <1>7, RecordIntentStep, PutStep, HandlerStopsStep, PublishStep, AcknowledgeStep, Zenon
     DEF GatewayStep
<1>8. ASSUME NEW w \in Purgers, PurgerStep(w)
      PROVE  CommandInv'
  <2>1. w \in Workers
    BY Bounds DEF CommandInv, CallInv
  <2> QED
    BY <1>8, <2>1, PurgeClaimStep, PurgeDeleteStep, PurgeEnds, Zenon DEF PurgerStep
<1>9. ASSUME NEW k \in Keys, RetireArtifact(k)
      PROVE  CommandInv'
  BY <1>9, RetireArtifactStep
<1>10. CASE Tick
  BY <1>10, TickStep
<1> QED
  BY <1>1, <1>2, <1>3, <1>4, <1>5, <1>6, <1>7, <1>8, <1>9, <1>10, Zenon DEF Next

(* CommandInv is inductive: the parts every property below is read from. *)
THEOREM CommandInvariant == Spec => []CommandInv
<1>1. Init => CommandInv
  BY InitCommandInv
<1>2. CommandInv /\ [Next]_vars => CommandInv'
  BY NextCommandInv
<1> QED
  BY <1>1, <1>2, PTL DEF Spec

(* Redelivered results publish once: acceptResult claims an open row, so a
   command has the artifact of one delivery only, and only when it succeeded. *)
THEOREM PublishesOnce == Spec => []PublishedOnce
<1>1. CommandInv => PublishedOnce
  BY TypesAgree DEF CommandInv, CallInv, LinkInv, StoreInv, Once, PublishedOnce
<1> QED
  BY <1>1, CommandInvariant, PTL

(* No published artifact loses its object and no object is orphaned, whichever
   of the upload, its cleanup and retention is ahead, and wherever one stops. *)
THEOREM ObjectsAreAccounted == Spec => []PublishedIsStored
<1>1. CommandInv => PublishedIsStored
  <2> SUFFICES ASSUME CommandInv
               PROVE  PublishedIsStored
    OBVIOUS
  <2>1. objects \subseteq Keys /\ \A k \in Keys : Stored(k)
    BY DEF CommandInv, StoreInv, StoreTypes
  <2> QED
    BY <2>1 DEF Stored, PublishedIsStored
<1> QED
  BY <1>1, CommandInvariant, PTL

(* A browser of a Runtime that can identify its launches was registered: the
   launch identity is durable before the command that starts it can leave,
   whatever Runtimes connect, with or without that capability, and in which
   order. *)
THEOREM LaunchesAreRegistered == Spec => []LaunchIsRegistered
<1>1. CommandInv => LaunchIsRegistered
  BY DEF CommandInv, LinkInv, Registered, LaunchIsRegistered
<1> QED
  BY <1>1, CommandInvariant, PTL

(* What a step may do to a settled row. *)
Stands(c) ==
    command[c].status \in Terminal =>
       \/ command'[c].status = command[c].status
       \/ command[c].status = "CANCELLED" /\ command'[c].status = "TIMED_OUT"
          /\ now >= command[c].deadline

LEMMA RowsStand ==
    ASSUME CommandInv, [Next]_vars, NEW c \in Commands
    PROVE  Stands(c)
<1>1. /\ Called /\ command \in [Commands -> CommandRows] /\ CallTypes
      /\ sweeping \in [Commands -> {"no", "selected", "cancelled"}]
  BY DEF CommandInv, CallInv, CallTypes
<1>2. CASE UNCHANGED command
  BY <1>2 DEF Stands
<1>3. ASSUME NEW d \in Commands, CallerStep(d)
      PROVE  Stands(c)
  <2>1. command[c] \in CommandRows /\ command[d] \in CommandRows
    BY <1>1
  <2>2. CASE Execute(d)
    BY <1>1, <2>1, <2>2 DEF Execute, Called, Stands, Terminal
  <2>3. CASE ReadRuntime(d) \/ RegisterLaunch(d) \/ Send(d)
    BY <1>2, <2>3 DEF ReadRuntime, RegisterLaunch, Send
  <2>4. CASE Unsupported(d)
    BY <1>1, <2>1, <2>4 DEF Unsupported, Stands, Terminal, CommandRows
  <2>5. CASE MarkDispatched(d)
    BY <1>1, <2>1, <2>5 DEF MarkDispatched, Stands, Terminal, CommandRows
  <2>6. CASE Poll(d) \/ Abort(d) \/ SendCancel(d) \/ CallerStops(d)
    BY <1>2, <2>6 DEF Poll, Abort, SendCancel, CallerStops
  <2>7. CASE Cancel(d)
    BY <1>1, <2>1, <2>7 DEF Cancel, Stands, Terminal, CommandRows
  <2>8. CASE TimeOut(d)
    BY <1>1, <2>1, <2>8 DEF TimeOut, Stands, Terminal, Open, CommandRows
  <2> QED
    BY <1>3, <2>2, <2>3, <2>4, <2>5, <2>6, <2>7, <2>8, Zenon DEF CallerStep
<1>4. ASSUME NEW d \in Commands, SweeperStep(d)
      PROVE  Stands(c)
  <2>1. command[c] \in CommandRows /\ command[d] \in CommandRows
    BY <1>1
  <2>2. CASE SweepSelect(d)
    BY <1>2, <2>2 DEF SweepSelect
  <2>3. CASE SweepCancel(d)
    BY <1>1, <2>1, <2>3 DEF SweepCancel, Stands, Terminal, CommandRows
  <2>4. CASE SweepMark(d)
    BY <1>1, <2>1, <2>4 DEF SweepMark, Called, Stands, Terminal, CommandRows
  <2> QED
    BY <1>4, <2>2, <2>3, <2>4 DEF SweeperStep
<1>5. ASSUME NEW f \in frames, AcceptResult(f)
      PROVE  Stands(c)
  BY <1>2, <1>5 DEF AcceptResult, cp
<1>6. CASE LoseOwner \/ LeaveOpening \/ Tick
  BY <1>2, <1>6 DEF LoseOwner, LeaveOpening, Tick, cp
<1>7. CASE RuntimeStep
  BY <1>2, <1>7 DEF RuntimeStep, Connect, Disconnect, RuntimeStops, Receive, Finish, FlushOutbox,
                    LoseFrame, cp
<1>8. ASSUME NEW g \in Generations, GatewayStep(g)
      PROVE  Stands(c)
  <2>1. CASE Publish(g)
    <3>1. \/ UNCHANGED command
          \/ /\ Claimable(handler[g].command)
             /\ \E s : command' = [command EXCEPT ![handler[g].command].status = s]
      BY <2>1, Zenon DEF Publish
    <3>2. CASE Claimable(handler[g].command)
               /\ \E s : command' = [command EXCEPT ![handler[g].command].status = s]
      <4>1. c # handler[g].command \/ command[c].status \in Open
        BY <3>2 DEF Claimable
      <4>2. command[c].status \in Open => command[c].status \notin Terminal
        BY DEF Open, Terminal
      <4> QED
        BY <1>1, <3>2, <4>1, <4>2 DEF Stands
    <3> QED
      BY <1>2, <3>1, <3>2
  <2>2. CASE RecordIntent(g) \/ Put(g) \/ HandlerStops(g) \/ Acknowledge(g)
    BY <1>2, <2>2 DEF RecordIntent, Put, HandlerStops, Acknowledge, cp
  <2> QED
    BY <1>8, <2>1, <2>2 DEF GatewayStep
<1>9. ASSUME NEW w \in Purgers, PurgerStep(w)
      PROVE  Stands(c)
  BY <1>2, <1>9 DEF PurgerStep, PurgeClaim, PurgeDelete, PurgeDone, PurgeFails, PurgeStops, cp
<1>10. ASSUME NEW k \in Keys, RetireArtifact(k)
       PROVE  Stands(c)
  BY <1>2, <1>10 DEF RetireArtifact, cp
<1>11. CASE UNCHANGED vars
  BY <1>2, <1>11 DEF vars, cp
<1> QED
  BY <1>3, <1>4, <1>5, <1>6, <1>7, <1>8, <1>9, <1>10, <1>11, Zenon DEF Next

(* The verdict of a command is final: whoever settles the row first keeps it,
   but for the sweeper that renames a cancellation past the deadline. *)
THEOREM VerdictsStand == Spec => VerdictStands
<1>1. CommandInv /\ [Next]_vars =>
        [\A c \in Commands :
            command[c].status \in Terminal =>
               \/ command'[c].status = command[c].status
               \/ command[c].status = "CANCELLED" /\ command'[c].status = "TIMED_OUT"
                  /\ now >= command[c].deadline]_vars
  BY RowsStand DEF Stands
<1> QED
  BY <1>1, CommandInvariant, PTL DEF Spec, VerdictStands
=============================================================================
