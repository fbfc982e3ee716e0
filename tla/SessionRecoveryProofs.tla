------------------------ MODULE SessionRecoveryProofs ------------------------
(***************************************************************************)
(* The recovery of the sessions of one Runtime, for every set of sessions  *)
(* and every bound: at most one close may be executed at a time, and what a *)
(* session holds is freed by evidence alone.                               *)
(*                                                                         *)
(* OneCloseAtATime speaks of commands, and the code of the permit: the     *)
(* permit covers every command that may still be executed (PermitCovers),  *)
(* and a task gives back only a permit whose command has ended              *)
(* (TokensMatch, which needs command numbers never to be used again,       *)
(* CommandsInOrder).  The resources follow from what each session's own    *)
(* rows say (Sound).                                                       *)
(***************************************************************************)
EXTENDS SessionRecovery, FiniteSetTheorems, TLAPS

States ==
    {"NONE", "OBSERVED", "REQUESTED", "CLOSING", "RETRY_WAIT", "WAITING_RUNTIME",
     "NEEDS_OPERATOR", "VERIFIED"}
Writes == {"UNKNOWN", "SETTLED", "RETRY_AUTHORIZED"}
Errors == {"none", "unverified", "other", "offline", "unsupported", "exhausted"}
Guards == {"held", "quarantined", "none"}
Owners == {"running", "confirmed", "lost"}
Histories == {"none", "admitted", "recorded", "late"}

Rows ==
    [state : States, write : Writes, attempts : Nat, due : BOOLEAN,
     tok : {0} \cup Tokens, live : BOOLEAN, cmd : {0} \cup Commands, err : Errors]
SessionRows ==
    [status : {"ACTIVE", "LOST", "CLOSED"}, verified : BOOLEAN, quarantined : BOOLEAN]
CommandRows ==
    [status : {"none", "open", "timeout", "ok", "error"}, late : BOOLEAN,
     ran : {"no", "sent", "closed", "unverified"}]
Permits ==
    [s : Sessions \cup {"none"}, tok : {0} \cup Tokens, live : BOOLEAN,
     cmd : {0} \cup Commands]
Tasks ==
    [pc : {"none", "send", "wait", "report", "check", "release"}, cmd : {0} \cup Commands,
     code : {"none"}]
Closers == [pc : {"idle", "prepare", "send", "wait", "report"}, cmd : {0} \cup Commands]
Links ==
    [up : BOOLEAN, hello : BOOLEAN, supports : BOOLEAN, drops : Nat, setting : Settings]

(* The shape of every variable. *)
Typed ==
    /\ owner \in [Sessions -> Owners]
    /\ sess \in [Sessions -> SessionRows]
    /\ rec \in [Sessions -> Rows]
    /\ cmd \in [Sessions -> [Commands -> CommandRows]]
    /\ permit \in Permits
    /\ task \in [Sessions -> [Tokens -> Tasks]]
    /\ closer \in [Sessions -> Closers]
    /\ guard \in [Sessions -> Guards]
    /\ slot \in [Sessions -> BOOLEAN] /\ alive \in [Sessions -> BOOLEAN]
    /\ link \in Links /\ retries \in [Sessions -> Nat]
    /\ writes \in [Sessions -> Histories]

(* What the rows of a session say of it: of its attempts and its closure, *)
RowAgrees(s) ==
    /\ rec[s].attempts <= MaxAttempts
    /\ Verified(s) <=> rec[s].state = "VERIFIED"

(* and of what it holds.  A browser whose closure is verified is dead.  Writes
   that nobody confirmed are settled before that only when the session takes no
   commands any more and none was recorded, and a session that is quarantined or
   closed never takes commands again. *)
HeldUntilClosed(s) ==
    /\ Verified(s) => ~alive[s]
    /\ ~slot[s] => Verified(s)
    /\ guard[s] = "none" => Verified(s) /\ Settled(rec[s].write)
    /\ alive[s] /\ owner[s] # "confirmed" /\ Settled(rec[s].write) =>
          writes[s] # "recorded" /\ sess[s].status # "ACTIVE"
    /\ sess[s].verified \/ sess[s].quarantined => sess[s].status # "ACTIVE"

Sound == \A s \in Sessions : RowAgrees(s) /\ HeldUntilClosed(s)

(* Only a dead browser was reported closed. *)
ClosedIsDead ==
    \A s \in Sessions, n \in Commands : cmd[s][n].ran = "closed" => ~alive[s]

(* The commands of a session have the first numbers. *)
Used(s) == {n \in Commands : cmd[s][n].status # "none"}
CommandsInOrder == \A s \in Sessions : \E k \in Nat : Used(s) = 1 .. k

(* A command that may still be executed is the one of its session's row and of
   the permit, and the permit is of a command. *)
PermitCovers ==
    /\ \A s \in Sessions, n \in Commands :
          InFlight(s, n) /\ ~Verified(s) =>
             permit.s = s /\ permit.cmd = n /\ rec[s].cmd = n
    /\ permit.s # "none" =>
          permit.cmd \in Commands /\ cmd[permit.s][permit.cmd].status # "none"

(* A task that has the permit has it for its own command, and a task that is
   about to give it back has seen that command end. *)
TokensMatch ==
    \A s \in Sessions, t \in Tokens :
        task[s][t].pc # "none" =>
            /\ task[s][t].cmd \in Used(s)
            /\ permit.s = s /\ permit.tok = t => permit.cmd = task[s][t].cmd
            /\ task[s][t].pc = "release" => cmd[s][task[s][t].cmd].status # "open"

(* The inductive invariant: what is of one session, and what is of the permit. *)
Claims == CommandsInOrder /\ PermitCovers /\ TokensMatch
RecoveryInv == Typed /\ Sound /\ ClosedIsDead /\ Claims

----------------------------------------------------------------------------
(* Steps, by what they leave alone.                                        *)

(* The rows and the resources of other sessions. *)
Elsewhere(s) ==
    /\ link'.setting = link.setting
    /\ \A u \in Sessions \ {s} :
          /\ rec'[u] = rec[u] /\ sess'[u] = sess[u] /\ owner'[u] = owner[u]
          /\ guard'[u] = guard[u] /\ slot'[u] = slot[u] /\ alive'[u] = alive[u]
          /\ writes'[u] = writes[u]

(* No command is written or opened again. *)
QuietCommands ==
    \A u \in Sessions, n \in Commands :
        /\ cmd'[u][n].status = "none" <=> cmd[u][n].status = "none"
        /\ cmd'[u][n].status = "open" => cmd[u][n].status = "open"
        /\ cmd[u][n].late => cmd'[u][n].late

(* The permit stays with its session, claim and command. *)
SameClaim == permit'.s = permit.s /\ permit'.tok = permit.tok /\ permit'.cmd = permit.cmd

(* Rows keep their command, and closures stay verified. *)
RowsKeepCommand ==
    \A u \in Sessions : rec'[u].cmd = rec[u].cmd /\ (Verified(u) => Verified(u)')

(* Tasks end, or go on with their command. *)
TasksGoOn ==
    \A u \in Sessions, t \in Tokens :
        task'[u][t].pc # "none" =>
            /\ task[u][t].pc # "none" /\ task'[u][t].cmd = task[u][t].cmd
            /\ task'[u][t].pc = "release" =>
                  task[u][t].pc = "release" \/ cmd[u][task[u][t].cmd].status # "open"

(* A step about one session keeps what the rows say of every session. *)
LEMMA SoundElsewhere ==
    ASSUME Sound, NEW s \in Sessions, Elsewhere(s), RowAgrees(s)', HeldUntilClosed(s)'
    PROVE  Sound'
BY DEF Sound, Elsewhere, RowAgrees, HeldUntilClosed, Verified, MaxAttempts, Settled

(* A step that opens no command and moves no claim keeps what is of the permit. *)
LEMMA ClaimsKept ==
    ASSUME Typed, Claims, QuietCommands, SameClaim, RowsKeepCommand, TasksGoOn
    PROVE  Claims'
<1>1. CommandsInOrder'
  <2>1. \A u \in Sessions : Used(u)' = Used(u)
    BY DEF QuietCommands, Used
  <2> QED BY <2>1 DEF Claims, CommandsInOrder
<1>2. PermitCovers'
  <2>1. ASSUME NEW u \in Sessions, NEW n \in Commands, InFlight(u, n)', ~Verified(u)'
        PROVE  permit'.s = u /\ permit'.cmd = n /\ rec'[u].cmd = n
    <3>1. InFlight(u, n) /\ ~Verified(u)
      BY <2>1 DEF InFlight, QuietCommands, RowsKeepCommand, Typed, CommandRows
    <3> QED BY <3>1 DEF Claims, PermitCovers, SameClaim, RowsKeepCommand
  <2>2. ASSUME permit'.s # "none"
        PROVE  permit'.cmd \in Commands /\ cmd'[permit'.s][permit'.cmd].status # "none"
    <3>1. permit.s \in Sessions /\ permit.cmd \in Commands
          /\ cmd[permit.s][permit.cmd].status # "none"
      BY <2>2 DEF Claims, PermitCovers, SameClaim, Typed, Permits
    <3> QED BY <3>1 DEF SameClaim, QuietCommands
  <2> QED BY <2>1, <2>2 DEF PermitCovers
<1>3. TokensMatch'
  <2> SUFFICES ASSUME NEW u \in Sessions, NEW t \in Tokens, task'[u][t].pc # "none"
               PROVE  /\ task'[u][t].cmd \in Used(u)'
                      /\ permit'.s = u /\ permit'.tok = t => permit'.cmd = task'[u][t].cmd
                      /\ task'[u][t].pc = "release" => cmd'[u][task'[u][t].cmd].status # "open"
    BY DEF TokensMatch
  <2>1. /\ task[u][t].pc # "none" /\ task'[u][t].cmd = task[u][t].cmd
        /\ task[u][t].cmd \in Used(u)
        /\ permit.s = u /\ permit.tok = t => permit.cmd = task[u][t].cmd
    BY DEF TasksGoOn, Claims, TokensMatch
  <2>2. task'[u][t].pc = "release" => cmd[u][task[u][t].cmd].status # "open"
    BY <2>1 DEF TasksGoOn, Claims, TokensMatch
  <2> QED BY <2>1, <2>2 DEF SameClaim, QuietCommands, Used
<1> QED BY <1>1, <1>2, <1>3 DEF Claims

(* What the steps write in a recovery row leaves a row. *)
LEMMA RowUpdates ==
    ASSUME NEW r \in Rows, NEW b \in BOOLEAN, NEW w \in Writes, NEW st \in States,
           NEW e \in Errors, NEW n \in Commands, NEW t \in Tokens, NEW k \in Nat
    PROVE  /\ [r EXCEPT !.live = b] \in Rows
           /\ [r EXCEPT !.due = b] \in Rows
           /\ [r EXCEPT !.write = w] \in Rows
           /\ [r EXCEPT !.state = st] \in Rows
           /\ [r EXCEPT !.state = st, !.due = b] \in Rows
           /\ [r EXCEPT !.state = st, !.attempts = k, !.due = b] \in Rows
BY DEF Rows

(* So does the claim of a row, *)
LEMMA ClaimRow ==
    ASSUME NEW r \in Rows, NEW n \in Commands, NEW t \in Tokens, NEW k \in Nat
    PROVE  [r EXCEPT !.state = "CLOSING", !.cmd = n, !.tok = t, !.live = TRUE,
                     !.due = FALSE, !.attempts = k] \in Rows
BY DEF Rows, States

(* the end of a claim without evidence, *)
LEMMA UnclaimedRow ==
    ASSUME NEW r \in Rows, NEW st \in States, NEW e \in Errors
    PROVE  [r EXCEPT !.state = st, !.err = e, !.due = FALSE, !.tok = 0, !.live = FALSE]
             \in Rows
BY DEF Rows

(* and the end of a claim with evidence. *)
LEMMA VerifiedRow ==
    ASSUME NEW r \in Rows
    PROVE  [r EXCEPT !.state = "VERIFIED", !.due = TRUE, !.tok = 0, !.live = FALSE] \in Rows
BY DEF Rows, States

(* ensureRecovery moves only a row that nobody asked to recover yet, and settles
   the writes of a confirmed execution, of a history of observations, and of an
   audit. *)
LEMMA EnsuredRow ==
    ASSUME Typed, NEW s \in Sessions, NEW observed \in BOOLEAN, NEW stopped, NEW audited
    PROVE  /\ Ensured(s, observed, stopped, audited) \in Rows
           /\ Ensured(s, observed, stopped, audited).attempts = rec[s].attempts
           /\ Ensured(s, observed, stopped, audited).cmd = rec[s].cmd
           /\ Ensured(s, observed, stopped, audited).err = rec[s].err
           /\ Ensured(s, observed, stopped, audited).state = "VERIFIED" <=> rec[s].state = "VERIFIED"
           /\ rec[s].state = "NEEDS_OPERATOR" => Ensured(s, observed, stopped, audited).state = rec[s].state
           /\ Settled(Ensured(s, observed, stopped, audited).write) <=>
                 \/ Settled(rec[s].write) \/ owner[s] = "confirmed"
                 \/ ObservedOnly(s, stopped) \/ audited
<1> DEFINE old == rec[s]
           row == IF old.state = "NONE"
                    THEN [old EXCEPT !.state = IF observed THEN "OBSERVED" ELSE "REQUESTED",
                                     !.due = ~observed]
                  ELSE IF old.state = "OBSERVED" /\ ~observed
                    THEN [old EXCEPT !.state = "REQUESTED", !.due = TRUE]
                  ELSE old
           write == RefreshedWrite(s, row, stopped, audited)
<1>1. Ensured(s, observed, stopped, audited) = [row EXCEPT !.write = write]
  BY DEF Ensured
<1>2. old \in Rows
  BY DEF Typed
<1>3. /\ row \in Rows
      /\ row.attempts = old.attempts /\ row.cmd = old.cmd /\ row.err = old.err
      /\ row.write = old.write
      /\ row.state = "VERIFIED" <=> old.state = "VERIFIED"
      /\ old.state = "NEEDS_OPERATOR" => row.state = old.state
  <2>1. CASE old.state = "NONE"
    BY <1>2, <2>1 DEF Rows, States
  <2>2. CASE old.state = "OBSERVED" /\ ~observed
    BY <1>2, <2>2 DEF Rows, States
  <2>3. CASE old.state # "NONE" /\ ~(old.state = "OBSERVED" /\ ~observed)
    BY <1>2, <2>3
  <2> QED BY <2>1, <2>2, <2>3
<1> HIDE DEF row, old
<1>4. /\ write \in Writes
      /\ Settled(write) <=>
            \/ Settled(row.write) \/ owner[s] = "confirmed"
            \/ ObservedOnly(s, stopped) \/ audited
  BY <1>3 DEF RefreshedWrite, Settled, Writes, Rows
<1> HIDE DEF write
<1>5. [row EXCEPT !.write = write] \in Rows
  BY <1>3, <1>4 DEF Rows
<1> QED BY <1>1, <1>3, <1>4, <1>5 DEF old, Rows


(* A row, a command or a task that is written anew. *)
LEMMA RecUpdate ==
    ASSUME Typed, NEW s \in Sessions, NEW r \in Rows
    PROVE  /\ [rec EXCEPT ![s] = r] \in [Sessions -> Rows]
           /\ [rec EXCEPT ![s] = r][s] = r
           /\ \A u \in Sessions \ {s} : [rec EXCEPT ![s] = r][u] = rec[u]
BY DEF Typed

LEMMA SessUpdate ==
    ASSUME Typed, NEW s \in Sessions, NEW r \in SessionRows
    PROVE  /\ [sess EXCEPT ![s] = r] \in [Sessions -> SessionRows]
           /\ [sess EXCEPT ![s] = r][s] = r
           /\ \A u \in Sessions \ {s} : [sess EXCEPT ![s] = r][u] = sess[u]
BY DEF Typed

LEMMA CmdUpdate ==
    ASSUME Typed, NEW s \in Sessions, NEW n \in Commands, NEW c \in CommandRows
    PROVE  /\ [cmd EXCEPT ![s][n] = c] \in [Sessions -> [Commands -> CommandRows]]
           /\ [cmd EXCEPT ![s][n] = c][s][n] = c
           /\ \A u \in Sessions, m \in Commands :
                 u # s \/ m # n => [cmd EXCEPT ![s][n] = c][u][m] = cmd[u][m]
BY DEF Typed

LEMMA TaskUpdate ==
    ASSUME Typed, NEW s \in Sessions, NEW t \in Tokens, NEW k \in Tasks
    PROVE  /\ [task EXCEPT ![s][t] = k] \in [Sessions -> [Tokens -> Tasks]]
           /\ [task EXCEPT ![s][t] = k][s][t] = k
           /\ \A u \in Sessions, v \in Tokens :
                 u # s \/ v # t => [task EXCEPT ![s][t] = k][u][v] = task[u][v]
BY DEF Typed

LEMMA TaskGoes ==
    ASSUME Typed, NEW s \in Sessions, NEW t \in Tokens,
           NEW pc \in {"none", "send", "wait", "report", "check", "release"}, Goes(s, t, pc)
    PROVE  /\ task' \in [Sessions -> [Tokens -> Tasks]]
           /\ task'[s][t].pc = pc /\ task'[s][t].cmd = task[s][t].cmd
           /\ \A u \in Sessions, v \in Tokens :
                 u # s \/ v # t => task'[u][v] = task[u][v]
<1>1. task[s][t] \in Tasks
  BY DEF Typed
<1>2. [task[s][t] EXCEPT !.pc = pc] \in Tasks
  BY <1>1 DEF Tasks
<1>3. task' = [task EXCEPT ![s][t] = [task[s][t] EXCEPT !.pc = pc]]
  BY DEF Goes
<1> QED BY <1>1, <1>2, <1>3, TaskUpdate DEF Tasks

----------------------------------------------------------------------------
(* Steps that leave the rows and the resources alone.                      *)

LEMMA QuietStep ==
    ASSUME RecoveryInv, Typed', QuietCommands, SameClaim, TasksGoOn,
           UNCHANGED <<owner, sess, rec, guard, slot, writes>>, link'.setting = link.setting,
           \A s \in Sessions : alive'[s] => alive[s],
           \A s \in Sessions, n \in Commands :
              cmd'[s][n].ran = "closed" => cmd[s][n].ran = "closed" \/ ~alive'[s]
    PROVE  RecoveryInv'
<1>1. Sound'
  BY DEF RecoveryInv, Sound, RowAgrees, HeldUntilClosed, Verified, MaxAttempts
<1>2. ClosedIsDead'
  BY DEF RecoveryInv, ClosedIsDead
<1>3. RowsKeepCommand
  BY DEF RowsKeepCommand, Verified
<1>4. Claims'
  BY <1>3, ClaimsKept DEF RecoveryInv
<1> QED BY <1>1, <1>2, <1>4 DEF RecoveryInv

(* One command changes, and is not opened. *)
LEMMA CommandChanges ==
    ASSUME RecoveryInv, NEW s \in Sessions, NEW n \in Commands, NEW c \in CommandRows,
           cmd' = [cmd EXCEPT ![s][n] = c],
           c.status = "none" <=> cmd[s][n].status = "none",
           c.status = "open" => cmd[s][n].status = "open",
           cmd[s][n].late => c.late,
           c.ran = "closed" => cmd[s][n].ran = "closed" \/ ~alive'[s],
           alive' \in [Sessions -> BOOLEAN], \A u \in Sessions : alive'[u] => alive[u],
           closer' \in [Sessions -> Closers],
           task' \in [Sessions -> [Tokens -> Tasks]], TasksGoOn,
           UNCHANGED <<owner, sess, rec, permit, guard, slot, link, writes, retries>>
    PROVE  RecoveryInv'
<1>1. /\ cmd' \in [Sessions -> [Commands -> CommandRows]]
      /\ cmd'[s][n] = c
      /\ \A u \in Sessions, m \in Commands : u # s \/ m # n => cmd'[u][m] = cmd[u][m]
  BY CmdUpdate DEF RecoveryInv
<1>2. Typed'
  BY <1>1 DEF RecoveryInv, Typed
<1>3. QuietCommands
  BY <1>1 DEF QuietCommands
<1>4. SameClaim
  BY DEF SameClaim
<1>5. \A u \in Sessions, m \in Commands :
         cmd'[u][m].ran = "closed" => cmd[u][m].ran = "closed" \/ ~alive'[u]
  BY <1>1
<1> QED BY <1>2, <1>3, <1>4, <1>5, QuietStep

(* No command changes: a task goes on, or a close, or the connection. *)
LEMMA CommandsStay ==
    ASSUME RecoveryInv, TasksGoOn,
           task' \in [Sessions -> [Tokens -> Tasks]],
           closer' \in [Sessions -> Closers], link' \in Links, link'.setting = link.setting,
           UNCHANGED <<owner, sess, rec, cmd, permit, guard, slot, alive, writes, retries>>
    PROVE  RecoveryInv'
<1>1. Typed'
  BY DEF RecoveryInv, Typed
<1>2. QuietCommands /\ SameClaim
  BY DEF QuietCommands, SameClaim
<1> QED BY <1>1, <1>2, QuietStep

LEMMA DeadlinePassesKeeps ==
    ASSUME RecoveryInv, NEW s \in Sessions, DeadlinePasses(s)
    PROVE  RecoveryInv'
<1>1. PICK n \in Commands : cmd' = [cmd EXCEPT ![s][n].late = TRUE]
  BY DEF DeadlinePasses
<1> DEFINE c == [cmd[s][n] EXCEPT !.late = TRUE]
<1>2. cmd[s][n] \in CommandRows
  BY DEF RecoveryInv, Typed
<1>3. /\ c \in CommandRows /\ cmd' = [cmd EXCEPT ![s][n] = c]
      /\ c.status = cmd[s][n].status /\ c.late /\ c.ran = cmd[s][n].ran
  BY <1>1, <1>2 DEF CommandRows
<1> HIDE DEF c
<1>4. TasksGoOn /\ UNCHANGED <<owner, sess, rec, permit, task, closer, guard, slot, link, alive, writes, retries>>
  BY DEF DeadlinePasses, resources, TasksGoOn
<1> QED BY <1>3, <1>4, CommandChanges DEF RecoveryInv, Typed

LEMMA TimesOutKeeps ==
    ASSUME RecoveryInv, NEW s \in Sessions, TimesOut(s)
    PROVE  RecoveryInv'
<1>1. PICK n \in Commands : /\ cmd[s][n].status = "open"
                            /\ cmd' = [cmd EXCEPT ![s][n].status = "timeout"]
  BY DEF TimesOut
<1> DEFINE c == [cmd[s][n] EXCEPT !.status = "timeout"]
<1>2. cmd[s][n] \in CommandRows
  BY DEF RecoveryInv, Typed
<1>3. /\ c \in CommandRows /\ cmd' = [cmd EXCEPT ![s][n] = c]
      /\ c.status = "timeout" /\ c.late = cmd[s][n].late /\ c.ran = cmd[s][n].ran
  BY <1>1, <1>2 DEF CommandRows
<1> HIDE DEF c
<1>4. TasksGoOn /\ UNCHANGED <<owner, sess, rec, permit, task, closer, guard, slot, link, alive, writes, retries>>
  BY DEF TimesOut, resources, TasksGoOn
<1>5. cmd[s][n].status # "none" /\ c.status \notin {"none", "open"}
  BY <1>1, <1>3
<1>6. /\ alive' \in [Sessions -> BOOLEAN] /\ closer' \in [Sessions -> Closers]
      /\ task' \in [Sessions -> [Tokens -> Tasks]]
  BY <1>4 DEF RecoveryInv, Typed
<1> QED BY <1>3, <1>4, <1>5, <1>6, CommandChanges

LEMMA AcceptResultKeeps ==
    ASSUME RecoveryInv, NEW s \in Sessions, AcceptResult(s)
    PROVE  RecoveryInv'
<1>1. PICK n \in Commands, x \in {"ok", "error"} :
         /\ cmd[s][n].status = "open"
         /\ cmd' = [cmd EXCEPT ![s][n].status = x]
  BY DEF AcceptResult
<1> DEFINE c == [cmd[s][n] EXCEPT !.status = x]
<1>2. cmd[s][n] \in CommandRows
  BY DEF RecoveryInv, Typed
<1>3. /\ c \in CommandRows /\ cmd' = [cmd EXCEPT ![s][n] = c]
      /\ c.status = x /\ c.late = cmd[s][n].late /\ c.ran = cmd[s][n].ran
  BY <1>1, <1>2 DEF CommandRows
<1> HIDE DEF c
<1>4. TasksGoOn /\ UNCHANGED <<owner, sess, rec, permit, task, closer, guard, slot, link, alive, writes, retries>>
  BY DEF AcceptResult, resources, TasksGoOn
<1>5. cmd[s][n].status # "none" /\ c.status \notin {"none", "open"}
  BY <1>1, <1>3
<1>6. /\ alive' \in [Sessions -> BOOLEAN] /\ closer' \in [Sessions -> Closers]
      /\ task' \in [Sessions -> [Tokens -> Tasks]]
  BY <1>4 DEF RecoveryInv, Typed
<1> QED BY <1>3, <1>4, <1>5, <1>6, CommandChanges

LEMMA RuntimeClosesKeeps ==
    ASSUME RecoveryInv, NEW s \in Sessions, RuntimeCloses(s)
    PROVE  RecoveryInv'
<1>1. PICK n \in Commands, x \in {"closed", "unverified"} :
         /\ cmd' = [cmd EXCEPT ![s][n].ran = x]
         /\ \/ x = "closed" /\ alive' = [alive EXCEPT ![s] = FALSE]
            \/ x = "unverified" /\ alive' = alive
  BY DEF RuntimeCloses
<1> DEFINE c == [cmd[s][n] EXCEPT !.ran = x]
<1>2. cmd[s][n] \in CommandRows
  BY DEF RecoveryInv, Typed
<1>3. /\ c \in CommandRows /\ cmd' = [cmd EXCEPT ![s][n] = c]
      /\ c.status = cmd[s][n].status /\ c.late = cmd[s][n].late /\ c.ran = x
  BY <1>1, <1>2 DEF CommandRows
<1> HIDE DEF c
<1>4. /\ alive' \in [Sessions -> BOOLEAN]
      /\ \A u \in Sessions : alive'[u] => alive[u]
      /\ x = "closed" => ~alive'[s]
  BY <1>1 DEF RecoveryInv, Typed
<1>5. TasksGoOn /\ UNCHANGED <<owner, sess, rec, permit, task, closer, guard, slot, link, writes, retries>>
  BY DEF RuntimeCloses, resources, TasksGoOn
<1> QED BY <1>3, <1>4, <1>5, CommandChanges DEF RecoveryInv, Typed

(* The connection. *)
LEMMA ConnectionKeeps ==
    ASSUME RecoveryInv, Disconnect \/ Connect
    PROVE  RecoveryInv'
<1>1. link \in Links
  BY DEF RecoveryInv, Typed
<1>2. link' \in Links /\ link'.setting = link.setting
  <2>1. CASE Disconnect
    <3>1. link' = [link EXCEPT !.up = FALSE, !.drops = link.drops + 1]
      BY <2>1 DEF Disconnect
    <3>2. link.drops + 1 \in Nat
      BY <1>1 DEF Links
    <3> QED BY <1>1, <3>1, <3>2 DEF Links
  <2>2. CASE Connect
    <3>1. PICK supports \in BOOLEAN :
             link' = [link EXCEPT !.up = TRUE, !.hello = TRUE, !.supports = supports]
      BY <1>1, <2>2, Zenon DEF Connect, Links
    <3> QED BY <1>1, <3>1 DEF Links
  <2> QED BY <2>1, <2>2
<1>3. UNCHANGED <<owner, sess, rec, cmd, permit, task, closer, guard, slot, alive, writes, retries>>
  BY DEF Disconnect, Connect, resources
<1>4. TasksGoOn
  BY <1>3 DEF TasksGoOn
<1> QED BY <1>2, <1>3, <1>4, CommandsStay DEF RecoveryInv, Typed

(* The steps of an explicit close that write no row. *)
LEMMA CloserMoves ==
    ASSUME RecoveryInv, NEW s \in Sessions,
           PrepareRefused(s) \/ CloserAwait(s) \/ CloserStops(s)
    PROVE  RecoveryInv'
<1>1. closer[s] \in Closers
  BY DEF RecoveryInv, Typed
<1>2. PICK k \in Closers : closer' = [closer EXCEPT ![s] = k]
  <2>1. CASE PrepareRefused(s)
    <3>1. PICK pc \in {"idle", "report"} : closer' = [closer EXCEPT ![s] = [pc |-> pc, cmd |-> 0]]
      BY <2>1 DEF PrepareRefused
    <3> QED BY <3>1 DEF Closers
  <2>2. CASE CloserAwait(s)
    <3>1. closer' = [closer EXCEPT ![s] = [closer[s] EXCEPT !.pc = "report"]]
      BY <2>2 DEF CloserAwait
    <3> QED BY <1>1, <3>1 DEF Closers
  <2>3. CASE CloserStops(s)
    BY <2>3 DEF CloserStops, Closers
  <2> QED BY <2>1, <2>2, <2>3
<1>3. closer' \in [Sessions -> Closers]
  BY <1>2 DEF RecoveryInv, Typed
<1>4. UNCHANGED <<owner, sess, rec, cmd, permit, task, guard, slot, link, alive, writes, retries>>
  BY DEF PrepareRefused, CloserAwait, CloserStops, resources
<1>5. TasksGoOn
  BY <1>4 DEF TasksGoOn
<1> QED BY <1>3, <1>4, <1>5, CommandsStay DEF RecoveryInv, Typed

----------------------------------------------------------------------------
(* The tasks that dispatch a command.                                      *)

(* A task that runs has a command. *)
LEMMA TaskHasCommand ==
    ASSUME RecoveryInv, NEW s \in Sessions, NEW t \in Tokens, task[s][t].pc # "none"
    PROVE  task[s][t].cmd \in Commands
BY DEF RecoveryInv, Claims, TokensMatch, Used

(* One task goes on. *)
LEMMA OneTaskGoesOn ==
    ASSUME Typed, NEW s \in Sessions, NEW t \in Tokens,
           NEW pc \in {"none", "send", "wait", "report", "check", "release"},
           Goes(s, t, pc), task[s][t].pc # "none",
           pc = "release" => cmd[s][task[s][t].cmd].status # "open"
    PROVE  TasksGoOn /\ task' \in [Sessions -> [Tokens -> Tasks]]
BY TaskGoes DEF TasksGoOn

(* One task ends. *)
LEMMA OneTaskEnds ==
    ASSUME Typed, NEW s \in Sessions, NEW t \in Tokens,
           task' = [task EXCEPT ![s][t] = NoTask]
    PROVE  TasksGoOn /\ task' \in [Sessions -> [Tokens -> Tasks]]
<1>1. NoTask \in Tasks /\ NoTask.pc = "none"
  BY DEF NoTask, Tasks
<1>2. /\ task' \in [Sessions -> [Tokens -> Tasks]]
      /\ task'[s][t] = NoTask
      /\ \A u \in Sessions, v \in Tokens : u # s \/ v # t => task'[u][v] = task[u][v]
  BY <1>1, TaskUpdate
<1> QED BY <1>1, <1>2 DEF TasksGoOn

(* The command that is executed is sent, or stays as it is. *)
LEMMA SentOrStays ==
    ASSUME RecoveryInv, NEW s \in Sessions, NEW n \in {0} \cup Commands, TasksGoOn,
           \/ cmd' = cmd
           \/ n # 0 /\ cmd' = IF cmd[s][n].ran = "no" THEN [cmd EXCEPT ![s][n].ran = "sent"] ELSE cmd,
           task' \in [Sessions -> [Tokens -> Tasks]], closer' \in [Sessions -> Closers],
           UNCHANGED <<owner, sess, rec, permit, guard, slot, link, alive, writes, retries>>
    PROVE  RecoveryInv'
<1>1. CASE cmd' = cmd
  BY <1>1, CommandsStay DEF RecoveryInv, Typed
<1>2. CASE n # 0 /\ cmd' = [cmd EXCEPT ![s][n].ran = "sent"]
  <2> DEFINE c == [cmd[s][n] EXCEPT !.ran = "sent"]
  <2>1. n \in Commands
    BY <1>2
  <2>2. cmd[s][n] \in CommandRows
    BY <2>1 DEF RecoveryInv, Typed
  <2>3. /\ c \in CommandRows /\ cmd' = [cmd EXCEPT ![s][n] = c]
        /\ c.status = cmd[s][n].status /\ c.late = cmd[s][n].late /\ c.ran = "sent"
    BY <1>2, <2>2 DEF CommandRows
  <2> HIDE DEF c
  <2>4. alive' \in [Sessions -> BOOLEAN]
    BY DEF RecoveryInv, Typed
  <2> QED BY <2>1, <2>3, <2>4, CommandChanges
<1> QED BY <1>1, <1>2

LEMMA TaskSendKeeps ==
    ASSUME RecoveryInv, NEW s \in Sessions, NEW t \in Tokens, TaskSend(s, t)
    PROVE  RecoveryInv'
<1> DEFINE n == task[s][t].cmd
<1>1. task[s][t].pc = "send" /\ n \in Commands
  BY TaskHasCommand DEF TaskSend
<1>2. UNCHANGED <<owner, sess, rec, permit, closer, guard, slot, link, alive, writes, retries>>
  BY DEF TaskSend, resources
<1>3. PICK pc \in {"wait", "report"} : Goes(s, t, pc)
  BY DEF TaskSend, Execute
<1>4. \/ cmd' = cmd
      \/ n # 0 /\ cmd' = IF cmd[s][n].ran = "no" THEN [cmd EXCEPT ![s][n].ran = "sent"] ELSE cmd
  BY DEF TaskSend, Execute, InFlight
<1>5. TasksGoOn /\ task' \in [Sessions -> [Tokens -> Tasks]]
  BY <1>1, <1>3, OneTaskGoesOn DEF RecoveryInv
<1>6. closer' \in [Sessions -> Closers]
  BY <1>2 DEF RecoveryInv, Typed
<1> HIDE DEF n
<1> QED BY <1>1, <1>2, <1>4, <1>5, <1>6, SentOrStays

LEMMA CloserSendKeeps ==
    ASSUME RecoveryInv, NEW s \in Sessions, CloserSend(s)
    PROVE  RecoveryInv'
<1> DEFINE n == closer[s].cmd
<1>1. closer[s] \in Closers /\ n \in {0} \cup Commands
  BY DEF RecoveryInv, Typed, Closers
<1>2. UNCHANGED <<owner, sess, rec, permit, task, guard, slot, link, alive, writes, retries>>
  BY DEF CloserSend, resources
<1>3. PICK pc \in {"wait", "report"}, m \in {n, 0} :
         closer' = [closer EXCEPT ![s] = [pc |-> pc, cmd |-> m]]
  BY DEF CloserSend, Execute
<1>4. \/ cmd' = cmd
      \/ n # 0 /\ cmd' = IF cmd[s][n].ran = "no" THEN [cmd EXCEPT ![s][n].ran = "sent"] ELSE cmd
  BY DEF CloserSend, Execute, InFlight
<1>5. [pc |-> pc, cmd |-> m] \in Closers
  BY <1>1 DEF Closers
<1>6. closer' \in [Sessions -> Closers]
  BY <1>3, <1>5 DEF RecoveryInv, Typed
<1>7. TasksGoOn /\ task' \in [Sessions -> [Tokens -> Tasks]]
  BY <1>2 DEF TasksGoOn, RecoveryInv, Typed
<1> HIDE DEF n
<1> QED BY <1>1, <1>2, <1>4, <1>6, <1>7, SentOrStays

(* The steps of a task that write no row. *)
LEMMA TaskMoves ==
    ASSUME RecoveryInv, NEW s \in Sessions, NEW t \in Tokens,
           TaskAwait(s, t) \/ TaskCheck(s, t) \/ TaskStops(s, t)
    PROVE  RecoveryInv'
<1>1. TasksGoOn /\ task' \in [Sessions -> [Tokens -> Tasks]]
  <2>1. CASE TaskAwait(s, t)
    <3>1. PICK pc \in {"check", "report"} : Goes(s, t, pc)
      BY <2>1 DEF TaskAwait
    <3>2. task[s][t].pc # "none"
      BY <2>1 DEF TaskAwait
    <3> QED BY <3>1, <3>2, OneTaskGoesOn DEF RecoveryInv
  <2>2. CASE TaskCheck(s, t) /\ cmd[s][task[s][t].cmd].status = "open"
    BY <2>2, OneTaskEnds DEF TaskCheck, RecoveryInv
  <2>3. CASE TaskCheck(s, t) /\ cmd[s][task[s][t].cmd].status # "open"
    <3>1. Goes(s, t, "release") /\ task[s][t].pc = "check"
      BY <2>3 DEF TaskCheck
    <3> QED BY <2>3, <3>1, OneTaskGoesOn DEF RecoveryInv
  <2>4. CASE TaskStops(s, t)
    BY <2>4, OneTaskEnds DEF TaskStops, RecoveryInv
  <2> QED BY <2>1, <2>2, <2>3, <2>4
<1>2. UNCHANGED <<owner, sess, rec, cmd, permit, closer, guard, slot, link, alive, writes, retries>>
  BY DEF TaskAwait, TaskCheck, TaskStops, resources
<1> QED BY <1>1, <1>2, CommandsStay DEF RecoveryInv, Typed

(* A permit is given up when no command that may still be executed, of a session
   that is not closed, needs it. *)
LEMMA PermitGivenUp ==
    ASSUME RecoveryInv, permit' = NoPermit, cmd' = cmd, TasksGoOn,
           \A u \in Sessions, n \in Commands : InFlight(u, n) => Verified(u)'
    PROVE  Claims'
<1>1. CommandsInOrder'
  BY DEF RecoveryInv, Claims, CommandsInOrder, Used
<1>2. PermitCovers'
  BY DEF PermitCovers, NoPermit, InFlight
<1>3. TokensMatch'
  <2>1. \A u \in Sessions : permit'.s # u
    BY RecoveryAssumption DEF NoPermit
  <2> QED BY <2>1 DEF TokensMatch, TasksGoOn, RecoveryInv, Claims, Used
<1> QED BY <1>1, <1>2, <1>3 DEF Claims

(* The permit of a task that gives it back is of a command that ended. *)
LEMMA TaskReleaseKeeps ==
    ASSUME RecoveryInv, NEW s \in Sessions, NEW t \in Tokens, TaskRelease(s, t)
    PROVE  RecoveryInv'
<1>1. TasksGoOn /\ task' \in [Sessions -> [Tokens -> Tasks]]
  BY OneTaskEnds DEF TaskRelease, RecoveryInv
<1>2. UNCHANGED <<owner, sess, rec, cmd, closer, guard, slot, link, alive, writes, retries>>
  BY DEF TaskRelease, resources
<1>3. CASE permit' = permit
  BY <1>1, <1>2, <1>3, CommandsStay DEF RecoveryInv, Typed
<1>4. CASE permit.s = s /\ permit.tok = t /\ permit' = NoPermit
  <2>1. Typed'
    BY <1>1, <1>2, <1>4 DEF RecoveryInv, Typed, NoPermit, Permits
  <2>2. Sound' /\ ClosedIsDead'
    BY <1>2 DEF RecoveryInv, Sound, RowAgrees, HeldUntilClosed, Verified, MaxAttempts,
                ClosedIsDead
  <2>3. cmd[s][permit.cmd].status # "open"
    BY <1>4 DEF TaskRelease, RecoveryInv, Claims, TokensMatch
  <2>4. ASSUME NEW u \in Sessions, NEW n \in Commands, InFlight(u, n)
        PROVE  Verified(u)'
    <3>1. CASE ~Verified(u)
      <4>1. permit.s = u /\ permit.cmd = n
        BY <2>4, <3>1 DEF RecoveryInv, Claims, PermitCovers
      <4> QED BY <4>1, <1>4, <2>3, <2>4 DEF InFlight
    <3> QED BY <3>1, <1>2 DEF Verified
  <2>5. Claims'
    BY <1>1, <1>2, <1>4, <2>4, PermitGivenUp
  <2> QED BY <2>1, <2>2, <2>5 DEF RecoveryInv
<1> QED BY <1>3, <1>4 DEF TaskRelease, GivesBack

----------------------------------------------------------------------------
(* Steps that write the rows of one session and verify no closure.         *)

RowWrite(s, r, e, g) ==
    /\ rec' = [rec EXCEPT ![s] = r] /\ sess' = [sess EXCEPT ![s] = e]
    /\ guard' = [guard EXCEPT ![s] = g]
    /\ r.attempts <= MaxAttempts
    /\ e.verified = Verified(s) /\ (e.verified <=> r.state = "VERIFIED")
    /\ g = "none" => e.verified /\ Settled(r.write)
    /\ alive[s] /\ owner'[s] # "confirmed" /\ Settled(r.write) =>
          writes[s] # "recorded" /\ e.status # "ACTIVE"
    /\ e.verified \/ e.quarantined => e.status # "ACTIVE"

(* The row keeps its command. *)
RowStep(s, r, e, g) == RowWrite(s, r, e, g) /\ r.cmd = rec[s].cmd

LEMMA RowWriteSound ==
    ASSUME RecoveryInv, NEW s \in Sessions, NEW r \in Rows, NEW e \in SessionRows,
           NEW g \in Guards, RowWrite(s, r, e, g),
           owner' \in [Sessions -> Owners], \A u \in Sessions \ {s} : owner'[u] = owner[u],
           permit' \in Permits, cmd' \in [Sessions -> [Commands -> CommandRows]],
           closer' \in [Sessions -> Closers], retries' \in [Sessions -> Nat],
           task' \in [Sessions -> [Tokens -> Tasks]], UNCHANGED <<slot, link, alive, writes>>
    PROVE  /\ Typed' /\ Sound'
           /\ rec'[s] = r /\ (Verified(s)' <=> Verified(s))
           /\ \A u \in Sessions \ {s} : rec'[u] = rec[u] /\ Verified(u)' = Verified(u)
<1>1. /\ rec' \in [Sessions -> Rows] /\ rec'[s] = r
      /\ \A u \in Sessions \ {s} : rec'[u] = rec[u]
  BY RecUpdate DEF RecoveryInv, RowWrite
<1>2. /\ sess' \in [Sessions -> SessionRows] /\ sess'[s] = e
      /\ \A u \in Sessions \ {s} : sess'[u] = sess[u]
  BY SessUpdate DEF RecoveryInv, RowWrite
<1>3. /\ guard' \in [Sessions -> Guards] /\ guard'[s] = g
      /\ \A u \in Sessions \ {s} : guard'[u] = guard[u]
  BY DEF RecoveryInv, Typed, RowWrite
<1>4. Typed'
  BY <1>1, <1>2, <1>3 DEF RecoveryInv, Typed
<1>5. RowAgrees(s)'
  BY <1>1, <1>2 DEF RowWrite, RowAgrees, Verified, MaxAttempts
<1>6. HeldUntilClosed(s)'
  BY <1>1, <1>2, <1>3 DEF RowWrite, HeldUntilClosed, Verified, Settled, RecoveryInv, Sound
<1>7. Sound'
  BY <1>1, <1>2, <1>3, <1>5, <1>6, SoundElsewhere DEF RecoveryInv, Elsewhere
<1> QED BY <1>1, <1>2, <1>4, <1>7 DEF RowWrite, Verified

LEMMA RowStepKeeps ==
    ASSUME RecoveryInv, NEW s \in Sessions, NEW r \in Rows, NEW e \in SessionRows,
           NEW g \in Guards, RowStep(s, r, e, g),
           owner' \in [Sessions -> Owners], \A u \in Sessions \ {s} : owner'[u] = owner[u],
           permit' \in Permits, SameClaim,
           closer' \in [Sessions -> Closers], retries' \in [Sessions -> Nat],
           task' \in [Sessions -> [Tokens -> Tasks]], TasksGoOn,
           UNCHANGED <<cmd, slot, link, alive, writes>>
    PROVE  RecoveryInv'
<1>1. cmd' \in [Sessions -> [Commands -> CommandRows]]
  BY DEF RecoveryInv, Typed
<1>2. /\ Typed' /\ Sound'
      /\ rec'[s] = r /\ (Verified(s)' <=> Verified(s))
      /\ \A u \in Sessions \ {s} : rec'[u] = rec[u] /\ Verified(u)' = Verified(u)
  BY <1>1, RowWriteSound DEF RowStep
<1>3. ClosedIsDead'
  BY DEF RecoveryInv, ClosedIsDead
<1>4. RowsKeepCommand
  BY <1>2 DEF RowStep, RowsKeepCommand
<1>5. QuietCommands
  BY DEF QuietCommands
<1>6. Claims'
  BY <1>4, <1>5, ClaimsKept DEF RecoveryInv
<1> QED BY <1>2, <1>3, <1>6 DEF RecoveryInv

(* What is known of the rows of a session before a step. *)
LEMMA RowsNow ==
    ASSUME RecoveryInv, NEW s \in Sessions
    PROVE  /\ rec[s] \in Rows /\ sess[s] \in SessionRows /\ guard[s] \in Guards
           /\ rec = [rec EXCEPT ![s] = rec[s]] /\ sess = [sess EXCEPT ![s] = sess[s]]
           /\ guard = [guard EXCEPT ![s] = guard[s]]
           /\ rec[s].attempts <= MaxAttempts /\ Verified(s) \in BOOLEAN
           /\ Verified(s) <=> rec[s].state = "VERIFIED"
           /\ guard[s] = "none" => Verified(s) /\ Settled(rec[s].write)
           /\ alive[s] /\ owner[s] # "confirmed" /\ Settled(rec[s].write) =>
                 writes[s] # "recorded" /\ sess[s].status # "ACTIVE"
           /\ sess[s].verified \/ sess[s].quarantined => sess[s].status # "ACTIVE"
           /\ Verified(s) => ~alive[s]
           /\ owner[s] \in Owners
<1>1. rec[s] \in Rows /\ sess[s] \in SessionRows /\ guard[s] \in Guards /\ owner[s] \in Owners
  BY DEF RecoveryInv, Typed
<1>2. /\ rec = [rec EXCEPT ![s] = rec[s]] /\ sess = [sess EXCEPT ![s] = sess[s]]
      /\ guard = [guard EXCEPT ![s] = guard[s]]
  BY DEF RecoveryInv, Typed
<1>3. RowAgrees(s) /\ HeldUntilClosed(s)
  BY DEF RecoveryInv, Sound
<1>4. Verified(s) \in BOOLEAN
  BY <1>1 DEF Verified, SessionRows
<1> QED BY <1>1, <1>2, <1>3, <1>4 DEF RowAgrees, HeldUntilClosed

(* A quarantined session, and one whose writes are settled or not. *)
LEMMA SessionRowUpdates ==
    ASSUME NEW e \in SessionRows, NEW b \in BOOLEAN
    PROVE  LET lost == [e EXCEPT !.status = "LOST", !.quarantined = TRUE]
               kept == [e EXCEPT !.quarantined = b]
           IN  /\ lost \in SessionRows /\ lost.verified = e.verified /\ lost.status = "LOST"
               /\ kept \in SessionRows /\ kept.verified = e.verified
               /\ kept.status = e.status /\ kept.quarantined = b
BY DEF SessionRows

(* What stays while a row changes. *)
LEMMA OthersStay ==
    ASSUME RecoveryInv
    PROVE  /\ task' = task => TasksGoOn /\ task' \in [Sessions -> [Tokens -> Tasks]]
           /\ permit' = permit => SameClaim /\ permit' \in Permits
           /\ closer' = closer => closer' \in [Sessions -> Closers]
           /\ retries' = retries => retries' \in [Sessions -> Nat]
           /\ owner' = owner => /\ owner' \in [Sessions -> Owners]
                                /\ \A u \in Sessions : owner'[u] = owner[u]
BY DEF RecoveryInv, Typed, TasksGoOn, SameClaim

LEMMA OwnerEndsKeeps ==
    ASSUME RecoveryInv, NEW s \in Sessions, OwnerEnds(s)
    PROVE  RecoveryInv'
<1>1. UNCHANGED <<cmd, permit, task, closer, slot, link, alive, writes, retries>> /\ owner[s] = "running"
  BY DEF OwnerEnds
<1>2. PICK outcome \in {"confirmed", "lost"}, audited \in {FALSE, Settles} :
         /\ owner' = [owner EXCEPT ![s] = outcome]
         /\ IF (outcome = "confirmed" \/ audited) /\ Verified(s)
              THEN /\ rec' = [rec EXCEPT ![s].write = "SETTLED"]
                   /\ guard' = [guard EXCEPT ![s] = "none"]
                   /\ sess' = [sess EXCEPT ![s].quarantined = FALSE]
              ELSE UNCHANGED <<rec, guard, sess>>
  BY DEF OwnerEnds
<1>3. /\ owner' \in [Sessions -> Owners] /\ owner'[s] = outcome
      /\ \A u \in Sessions \ {s} : owner'[u] = owner[u]
  BY <1>2 DEF RecoveryInv, Typed, Owners
<1>4. CASE (outcome = "confirmed" \/ audited) /\ Verified(s)
  <2> DEFINE r == [rec[s] EXCEPT !.write = "SETTLED"]
             e == [sess[s] EXCEPT !.quarantined = FALSE]
  <2>1. /\ r \in Rows /\ r.cmd = rec[s].cmd /\ r.attempts = rec[s].attempts
        /\ r.state = rec[s].state /\ r.write = "SETTLED"
    BY RowsNow DEF Rows, Writes
  <2>2. /\ e \in SessionRows /\ e.verified = sess[s].verified
        /\ e.status = sess[s].status /\ ~e.quarantined
    BY RowsNow, SessionRowUpdates
  <2>3. rec' = [rec EXCEPT ![s] = r] /\ sess' = [sess EXCEPT ![s] = e]
    BY <1>2, <1>4
  <2> HIDE DEF r, e
  <2>4. RowStep(s, r, e, "none")
    BY <1>2, <1>3, <1>4, <2>1, <2>2, <2>3, RowsNow DEF RowStep, RowWrite, Settled, Verified
  <2> QED BY <1>1, <1>3, <2>1, <2>2, <2>4, RowStepKeeps, OthersStay DEF Guards
<1>5. CASE ~((outcome = "confirmed" \/ audited) /\ Verified(s))
  <2>1. RowStep(s, rec[s], sess[s], guard[s])
    BY <1>1, <1>2, <1>5, RowsNow DEF RowStep, RowWrite, Verified
  <2> QED BY <1>1, <1>3, <2>1, RowStepKeeps, OthersStay, RowsNow
<1> QED BY <1>4, <1>5

LEMMA QuarantineKeeps ==
    ASSUME RecoveryInv, NEW s \in Sessions, Quarantine(s)
    PROVE  RecoveryInv'
<1> DEFINE e == [sess[s] EXCEPT !.status = "LOST", !.quarantined = TRUE]
           g == IF guard[s] = "held" THEN "quarantined" ELSE guard[s]
<1>1. UNCHANGED <<owner, rec, cmd, permit, task, closer, slot, link, alive, writes, retries>>
  BY DEF Quarantine
<1>2. e \in SessionRows /\ e.verified = sess[s].verified /\ e.status = "LOST"
  BY RowsNow, SessionRowUpdates
<1>3. g \in Guards /\ (g = "none" <=> guard[s] = "none")
  BY RowsNow DEF Guards
<1>4. sess' = [sess EXCEPT ![s] = e] /\ guard' = [guard EXCEPT ![s] = g]
  BY DEF Quarantine, Quarantined
<1> HIDE DEF e, g
<1>5. RowStep(s, rec[s], e, g)
  BY <1>1, <1>2, <1>3, <1>4, RowsNow DEF RowStep, RowWrite, Verified
<1> QED BY <1>1, <1>2, <1>3, <1>5, RowStepKeeps, OthersStay, RowsNow

(* A session that takes commands has no settled writes, unless they are confirmed. *)
LEMMA HistoryKeeps ==
    ASSUME RecoveryInv, NEW s \in Sessions, Admit(s) \/ Record(s) \/ TakeOver(s)
    PROVE  RecoveryInv'
<1>1. UNCHANGED <<owner, sess, rec, cmd, permit, task, closer, guard, slot, link, alive, retries>>
  BY DEF Admit, Record, TakeOver, resources
<1>2. PICK h \in Histories :
         /\ writes' = [writes EXCEPT ![s] = h]
         /\ h = "recorded" => sess[s].status = "ACTIVE"
  BY DEF Admit, Record, TakeOver, Histories
<1>3. /\ writes' \in [Sessions -> Histories] /\ writes'[s] = h
      /\ \A u \in Sessions \ {s} : writes'[u] = writes[u]
  BY <1>2 DEF RecoveryInv, Typed
<1>4. Typed'
  BY <1>1, <1>3 DEF RecoveryInv, Typed
<1>5. RowAgrees(s)' /\ HeldUntilClosed(s)'
  <2>1. RowAgrees(s) /\ HeldUntilClosed(s)
    BY DEF RecoveryInv, Sound
  <2> QED BY <1>1, <1>2, <1>3, <2>1
          DEF RowAgrees, HeldUntilClosed, Verified, MaxAttempts, Settled
<1>6. Elsewhere(s)
  BY <1>1, <1>3 DEF Elsewhere
<1>7. Sound'
  BY <1>5, <1>6, SoundElsewhere DEF RecoveryInv
<1>8. ClosedIsDead'
  BY <1>1 DEF RecoveryInv, ClosedIsDead
<1>9. RowsKeepCommand /\ QuietCommands /\ SameClaim /\ TasksGoOn
  BY <1>1 DEF RowsKeepCommand, QuietCommands, SameClaim, TasksGoOn, Verified
<1> QED BY <1>4, <1>7, <1>8, <1>9, ClaimsKept DEF RecoveryInv

(* A row that keeps its state, its writes and its attempts, or is asked for again. *)
LEMMA RowMoves ==
    ASSUME RecoveryInv, NEW s \in Sessions, NEW r \in Rows, rec' = [rec EXCEPT ![s] = r],
           r.cmd = rec[s].cmd, r.attempts <= MaxAttempts, r.write = rec[s].write,
           r.state = "VERIFIED" <=> rec[s].state = "VERIFIED",
           retries' \in [Sessions -> Nat], permit' \in Permits, SameClaim,
           UNCHANGED <<owner, sess, guard, cmd, task, closer, slot, link, alive, writes>>
    PROVE  RecoveryInv'
<1>1. RowStep(s, r, sess[s], guard[s])
  BY RowsNow DEF RowStep, RowWrite, Verified
<1> QED BY <1>1, RowStepKeeps, OthersStay, RowsNow

LEMMA SettingTyped ==
    ASSUME Typed
    PROVE  /\ MaxAttempts \in Nat \ {0} /\ MaxTasks \in Nat \ {0} /\ MaxRetries \in Nat
           /\ 1 .. MaxTasks \subseteq Tokens
           /\ Here \subseteq Sessions
<1>1. link.setting \in Settings
  BY DEF Typed, Links
<1>2. /\ link.setting.attempts \in Nat \ {0} /\ link.setting.tasks \in Nat \ {0}
      /\ link.setting.retries \in Nat /\ link.setting.sessions \subseteq Sessions
  BY <1>1, RecoveryAssumption
<1> QED BY <1>1, <1>2 DEF MaxAttempts, MaxTasks, MaxRetries, Tokens, Here

LEMMA FallsDueKeeps ==
    ASSUME RecoveryInv, NEW s \in Sessions, FallsDue(s)
    PROVE  RecoveryInv'
<1> DEFINE r == [rec[s] EXCEPT !.due = TRUE]
<1>1. UNCHANGED <<owner, sess, guard, cmd, permit, task, closer, slot, link, alive, writes, retries>>
  BY DEF FallsDue, resources
<1>2. /\ r \in Rows /\ rec' = [rec EXCEPT ![s] = r] /\ r.cmd = rec[s].cmd
      /\ r.attempts = rec[s].attempts /\ r.write = rec[s].write /\ r.state = rec[s].state
  BY RowsNow DEF FallsDue, Rows
<1> HIDE DEF r
<1>3. r.attempts <= MaxAttempts
  BY <1>2, RowsNow
<1>4. retries' \in [Sessions -> Nat] /\ permit' \in Permits /\ SameClaim
  BY <1>1, OthersStay
<1> QED BY <1>1, <1>2, <1>3, <1>4, RowMoves

LEMMA RetryKeeps ==
    ASSUME RecoveryInv, NEW s \in Sessions, Retry(s)
    PROVE  RecoveryInv'
<1> DEFINE r == [rec[s] EXCEPT !.state = "REQUESTED", !.attempts = 0, !.due = TRUE]
<1>1. UNCHANGED <<owner, sess, guard, cmd, permit, task, closer, slot, link, alive, writes>>
  BY DEF Retry, resources
<1>2. /\ r \in Rows /\ rec' = [rec EXCEPT ![s] = r] /\ r.cmd = rec[s].cmd
      /\ r.attempts = 0 /\ r.write = rec[s].write /\ r.state = "REQUESTED"
  BY RowsNow DEF Retry, Rows, States
<1>3. rec[s].state # "VERIFIED"
  BY DEF Retry
<1>4. retries' \in [Sessions -> Nat]
  BY DEF Retry, RecoveryInv, Typed
<1>5. 0 <= MaxAttempts
  BY SettingTyped DEF RecoveryInv
<1> HIDE DEF r
<1> QED BY <1>1, <1>2, <1>3, <1>4, <1>5, RowMoves, OthersStay

LEMMA DeferredMoves ==
    ASSUME RecoveryInv, NEW s \in Sessions, NEW st \in States, NEW e \in Errors,
           Deferred(s, st, e)
    PROVE  \E r \in Rows : /\ rec' = [rec EXCEPT ![s] = r] /\ r.cmd = rec[s].cmd
                           /\ r.attempts = rec[s].attempts /\ r.write = rec[s].write
                           /\ r.state = st
<1> DEFINE r == [rec[s] EXCEPT !.state = st, !.err = e, !.due = FALSE, !.tok = 0, !.live = FALSE]
<1>1. r \in Rows /\ rec[s] \in Rows
  BY RowsNow, UnclaimedRow, Zenon
<1>2. rec' = [rec EXCEPT ![s] = r]
  BY DEF Deferred
<1>3. r.cmd = rec[s].cmd /\ r.attempts = rec[s].attempts /\ r.write = rec[s].write /\ r.state = st
  BY <1>1 DEF Rows
<1> QED BY <1>1, <1>2, <1>3

LEMMA ClaimWithoutRuntimeKeeps ==
    ASSUME RecoveryInv, NEW s \in Sessions, ClaimWithoutRuntime(s)
    PROVE  RecoveryInv'
<1>1. UNCHANGED <<owner, sess, guard, cmd, permit, task, closer, slot, link, alive, writes, retries>>
      /\ rec[s].state # "VERIFIED"
  BY DEF ClaimWithoutRuntime, Claimable, resources
<1>2. PICK st \in {"WAITING_RUNTIME", "NEEDS_OPERATOR"}, e \in {"offline", "unsupported"} :
         Deferred(s, st, e)
  BY DEF ClaimWithoutRuntime
<1>3. st \in States /\ e \in Errors /\ st # "VERIFIED"
  BY DEF States, Errors
<1>4. PICK r \in Rows : /\ rec' = [rec EXCEPT ![s] = r] /\ r.cmd = rec[s].cmd
                        /\ r.attempts = rec[s].attempts /\ r.write = rec[s].write
                        /\ r.state = st
  BY <1>2, <1>3, DeferredMoves
<1> QED BY <1>1, <1>3, <1>4, RowMoves, OthersStay, RowsNow

(* A claim runs out, or is renewed: the permit keeps its command. *)
LEMMA ClaimLives ==
    ASSUME RecoveryInv, NEW s \in Sessions, NEW b \in BOOLEAN,
           rec' = [rec EXCEPT ![s].live = b], 
           permit' = permit \/ permit' = [permit EXCEPT !.live = b],
           UNCHANGED <<owner, sess, guard, cmd, task, closer, slot, link, alive, writes, retries>>
    PROVE  RecoveryInv'
<1> DEFINE r == [rec[s] EXCEPT !.live = b]
<1>1. /\ r \in Rows /\ rec' = [rec EXCEPT ![s] = r] /\ r.cmd = rec[s].cmd
      /\ r.attempts = rec[s].attempts /\ r.write = rec[s].write /\ r.state = rec[s].state
  BY RowsNow DEF Rows
<1>2. permit \in Permits
  BY DEF RecoveryInv, Typed
<1>3. permit' \in Permits /\ SameClaim
  BY <1>2 DEF SameClaim, Permits
<1> HIDE DEF r
<1>4. r.attempts <= MaxAttempts
  BY <1>1, RowsNow
<1>5. retries' \in [Sessions -> Nat]
  BY OthersStay
<1> QED BY <1>1, <1>3, <1>4, <1>5, RowMoves

LEMMA ClaimExpiresKeeps ==
    ASSUME RecoveryInv, NEW s \in Sessions, ClaimExpires(s)
    PROVE  RecoveryInv'
BY ClaimLives DEF ClaimExpires, resources

LEMMA RenewKeeps ==
    ASSUME RecoveryInv, NEW s \in Sessions, NEW t \in Tokens, Renew(s, t)
    PROVE  RecoveryInv'
BY ClaimLives DEF Renew, resources

(* request leaves a held guard held unless the closure is verified and the writes
   are settled. *)
LEMMA RequestRowSteps ==
    ASSUME RecoveryInv, NEW s \in Sessions, NEW explicit \in BOOLEAN,
           NEW audited \in BOOLEAN, audited => Verified(s),
           RequestRow(s, explicit, audited), owner' = owner
    PROVE  \E r \in Rows, e \in SessionRows, g \in Guards : RowStep(s, r, e, g)
<1> DEFINE healthy == ~explicit /\ Healthy(s)
           stopped == ~healthy
           r == Ensured(s, healthy, stopped, audited)
           e == IF Verified(s) THEN [sess[s] EXCEPT !.quarantined = ~Settled(r.write)]
                ELSE IF healthy THEN sess[s]
                ELSE [sess[s] EXCEPT !.status = "LOST", !.quarantined = TRUE]
           g == IF Verified(s) THEN Released(s, r.write)
                ELSE IF healthy THEN guard[s] ELSE Guarded(s, r.write)
<1>1. healthy \in BOOLEAN /\ stopped \in BOOLEAN /\ Typed
  BY DEF RecoveryInv
<1>2. /\ r \in Rows /\ r.attempts = rec[s].attempts /\ r.cmd = rec[s].cmd
      /\ r.state = "VERIFIED" <=> rec[s].state = "VERIFIED"
      /\ Settled(r.write) <=>
            \/ Settled(rec[s].write) \/ owner[s] = "confirmed"
            \/ ObservedOnly(s, stopped) \/ audited
  <2> HIDE DEF healthy, stopped
  <2> QED BY <1>1, EnsuredRow
<1>3. rec' = [rec EXCEPT ![s] = r] /\ guard' = [guard EXCEPT ![s] = g]
  BY DEF RequestRow
<1>4. sess' = [sess EXCEPT ![s] = e]
  BY RowsNow DEF RequestRow, Quarantined
<1>5. /\ e \in SessionRows /\ e.verified = sess[s].verified
      /\ e.verified \/ e.quarantined => e.status # "ACTIVE"
      /\ sess[s].status # "ACTIVE" => e.status # "ACTIVE"
      /\ ~healthy /\ ~Verified(s) => e.status = "LOST"
  <2> HIDE DEF healthy, r
  <2> DEFINE kept == ~Settled(r.write)
  <2>1. kept \in BOOLEAN
    BY DEF Settled
  <2> HIDE DEF kept
  <2>2. CASE Verified(s)
    <3> DEFINE k == [sess[s] EXCEPT !.quarantined = kept]
    <3>1. e = k
      BY <2>2 DEF kept
    <3>2. k \in SessionRows /\ k.verified = sess[s].verified /\ k.status = sess[s].status
      BY <2>1, RowsNow, SessionRowUpdates
    <3> HIDE DEF e, k
    <3> QED BY <2>2, <3>1, <3>2, RowsNow DEF Verified
  <2>3. CASE ~Verified(s) /\ healthy
    BY <2>3, RowsNow DEF Verified
  <2>4. CASE ~Verified(s) /\ ~healthy
    BY <2>4, RowsNow, SessionRowUpdates DEF Verified
  <2> QED BY <2>2, <2>3, <2>4
<1>6. g \in Guards /\ (g = "none" => Verified(s) /\ Settled(r.write))
  <2>1. CASE Verified(s)
    BY <2>1 DEF Released, Guards
  <2>2. CASE ~Verified(s)
    BY <2>2, RowsNow DEF Guarded, Guards
  <2> QED BY <2>1, <2>2
<1> HIDE DEF healthy, stopped, r, e, g
<1>7. alive[s] /\ owner[s] # "confirmed" /\ Settled(r.write) =>
         writes[s] # "recorded" /\ e.status # "ACTIVE"
  <2> SUFFICES ASSUME alive[s], owner[s] # "confirmed", Settled(r.write)
               PROVE  writes[s] # "recorded" /\ e.status # "ACTIVE"
    OBVIOUS
  <2>1. ~Verified(s) /\ ~audited
    BY RowsNow
  <2>2. CASE Settled(rec[s].write)
    BY <1>5, <2>2, RowsNow
  <2>3. CASE ObservedOnly(s, stopped)
    BY <1>5, <2>1, <2>3 DEF ObservedOnly, stopped
  <2> QED BY <1>2, <2>1, <2>2, <2>3
<1>8. RowStep(s, r, e, g)
  BY <1>2, <1>3, <1>4, <1>5, <1>6, <1>7, RowsNow DEF RowStep, RowWrite, Verified
<1> QED BY <1>2, <1>5, <1>6, <1>8

LEMMA RequestKeeps ==
    ASSUME RecoveryInv, NEW s \in Sessions, Request(s)
    PROVE  RecoveryInv'
<1>1. PICK audited \in {FALSE, Settles /\ Verified(s)} : RequestRow(s, FALSE, audited)
  BY DEF Request
<1>2. UNCHANGED <<owner, cmd, permit, task, closer, slot, link, alive, writes, retries>>
  BY DEF Request
<1>3. audited \in BOOLEAN /\ (audited => Verified(s))
  BY <1>1
<1>4. PICK r \in Rows, e \in SessionRows, g \in Guards : RowStep(s, r, e, g)
  BY <1>1, <1>2, <1>3, RequestRowSteps
<1> QED BY <1>2, <1>4, RowStepKeeps, OthersStay

LEMMA ExplicitCloseKeeps ==
    ASSUME RecoveryInv, NEW s \in Sessions, ExplicitClose(s)
    PROVE  RecoveryInv'
<1>1. /\ RequestRow(s, TRUE, FALSE) /\ closer' = [closer EXCEPT ![s] = [pc |-> "prepare", cmd |-> 0]]
      /\ UNCHANGED <<owner, cmd, permit, task, slot, link, alive, writes, retries>>
  BY DEF ExplicitClose
<1>2. PICK r \in Rows, e \in SessionRows, g \in Guards : RowStep(s, r, e, g)
  BY <1>1, RequestRowSteps
<1>3. closer' \in [Sessions -> Closers]
  BY <1>1 DEF RecoveryInv, Typed, Closers
<1> QED BY <1>1, <1>2, <1>3, RowStepKeeps, OthersStay

(* A failure verifies nothing and frees nothing. *)
LEMMA FailureSteps ==
    ASSUME RecoveryInv, NEW s \in Sessions, NEW n, NEW t, NEW code \in Errors,
           RecordFailure(s, n, t, code), owner' = owner
    PROVE  \E r \in Rows, e \in SessionRows, g \in Guards : RowStep(s, r, e, g)
<1> DEFINE row == Ensured(s, FALSE, sess[s].quarantined, FALSE)
           g == Guarded(s, row.write)
<1>1. /\ row \in Rows /\ row.attempts = rec[s].attempts /\ row.cmd = rec[s].cmd
      /\ row.state = "VERIFIED" <=> rec[s].state = "VERIFIED"
      /\ Settled(row.write) <=>
            \/ Settled(rec[s].write) \/ owner[s] = "confirmed"
            \/ ObservedOnly(s, sess[s].quarantined)
  <2>1. sess[s].quarantined \in BOOLEAN
    BY RowsNow DEF SessionRows
  <2> QED BY <2>1, EnsuredRow DEF RecoveryInv
<1>2. g \in Guards /\ (g = "none" => guard[s] = "none")
  BY RowsNow DEF Guarded, Guards
<1>3. alive[s] /\ owner[s] # "confirmed" /\ Settled(row.write) =>
         writes[s] # "recorded" /\ sess[s].status # "ACTIVE"
  <2> HIDE DEF row
  <2> QED BY <1>1, RowsNow DEF ObservedOnly
<1>4. CASE Verified(s)
  <2>1. RowStep(s, rec[s], sess[s], guard[s])
    BY <1>4, RowsNow DEF RowStep, RowWrite, RecordFailure, Verified
  <2> QED BY <2>1, RowsNow
<1>5. CASE ~Verified(s) /\ Superseded(s, row, n, t)
  <2>1. rec' = [rec EXCEPT ![s] = row] /\ guard' = [guard EXCEPT ![s] = g] /\ sess' = sess
    BY <1>5 DEF RecordFailure
  <2> HIDE DEF row, g
  <2>2. RowStep(s, row, sess[s], g)
    BY <1>1, <1>2, <1>3, <1>5, <2>1, RowsNow DEF RowStep, RowWrite, Verified
  <2> QED BY <1>1, <1>2, <2>2, RowsNow
<1>6. CASE ~Verified(s) /\ ~Superseded(s, row, n, t)
  <2> DEFINE st == IF code = "unverified" \/ row.attempts >= MaxAttempts
                     THEN "NEEDS_OPERATOR" ELSE "RETRY_WAIT"
             r == [row EXCEPT !.state = st, !.err = code, !.due = FALSE, !.tok = 0, !.live = FALSE]
             e == [sess[s] EXCEPT !.status = "LOST", !.quarantined = TRUE]
  <2>1. /\ rec' = [rec EXCEPT ![s] = r] /\ guard' = [guard EXCEPT ![s] = g]
        /\ sess' = [sess EXCEPT ![s] = e]
    BY <1>6 DEF RecordFailure, Quarantined
  <2>2. st \in States /\ st # "VERIFIED"
    BY DEF States
  <2> HIDE DEF row, g, st
  <2>3. r \in Rows
    BY <1>1, <2>2, UnclaimedRow, Zenon
  <2>4. /\ r.attempts = row.attempts /\ r.cmd = row.cmd /\ r.state = st /\ r.write = row.write
    BY <1>1 DEF Rows
  <2>5. e \in SessionRows /\ e.verified = sess[s].verified /\ e.status = "LOST"
    BY RowsNow, SessionRowUpdates
  <2> HIDE DEF r, e
  <2>6. RowStep(s, r, e, g)
    BY <1>1, <1>2, <1>3, <1>6, <2>1, <2>2, <2>4, <2>5, RowsNow DEF RowStep, RowWrite, Verified
  <2> QED BY <1>2, <2>3, <2>5, <2>6
<1> QED BY <1>4, <1>5, <1>6

LEMMA TaskReportKeeps ==
    ASSUME RecoveryInv, NEW s \in Sessions, NEW t \in Tokens, TaskReport(s, t)
    PROVE  RecoveryInv'
<1> DEFINE n == task[s][t].cmd
<1>1. /\ task[s][t].pc = "report" /\ Goes(s, t, "check")
      /\ RecordFailure(s, n, t, Code(s, n))
      /\ UNCHANGED <<owner, cmd, permit, closer, slot, link, alive, writes, retries>>
  BY DEF TaskReport
<1>2. Code(s, n) \in Errors
  BY DEF Code, Errors
<1>3. PICK r \in Rows, e \in SessionRows, g \in Guards : RowStep(s, r, e, g)
  BY <1>1, <1>2, FailureSteps
<1>4. TasksGoOn /\ task' \in [Sessions -> [Tokens -> Tasks]]
  BY <1>1, OneTaskGoesOn DEF RecoveryInv
<1> QED BY <1>1, <1>3, <1>4, RowStepKeeps, OthersStay

LEMMA CloserReportKeeps ==
    ASSUME RecoveryInv, NEW s \in Sessions, CloserReport(s)
    PROVE  RecoveryInv'
<1> DEFINE n == closer[s].cmd
           code == IF n = 0 THEN "other" ELSE Code(s, n)
<1>1. /\ RecordFailure(s, n, 0, code)
      /\ closer' = [closer EXCEPT ![s] = [pc |-> "idle", cmd |-> 0]]
      /\ UNCHANGED <<owner, cmd, permit, task, slot, link, alive, writes, retries>>
  BY DEF CloserReport
<1>2. code \in Errors
  BY DEF Code, Errors
<1> HIDE DEF n, code
<1>3. PICK r \in Rows, e \in SessionRows, g \in Guards : RowStep(s, r, e, g)
  BY <1>1, <1>2, FailureSteps
<1>4. closer' \in [Sessions -> Closers]
  BY <1>1 DEF RecoveryInv, Typed, Closers
<1> QED BY <1>1, <1>3, <1>4, RowStepKeeps, OthersStay

LEMMA ResolveWriteKeeps ==
    ASSUME RecoveryInv, NEW s \in Sessions, ResolveWrite(s)
    PROVE  RecoveryInv'
<1>1. /\ Verified(s) /\ guard' = [guard EXCEPT ![s] = "none"]
      /\ sess' = [sess EXCEPT ![s].quarantined = FALSE]
      /\ UNCHANGED <<owner, cmd, permit, task, closer, slot, link, alive, writes, retries>>
  BY DEF ResolveWrite
<1>2. PICK write \in {"SETTLED", "RETRY_AUTHORIZED"} : rec' = [rec EXCEPT ![s].write = write]
  BY DEF ResolveWrite
<1> DEFINE r == [rec[s] EXCEPT !.write = write]
           e == [sess[s] EXCEPT !.quarantined = FALSE]
<1>3. /\ r \in Rows /\ r.cmd = rec[s].cmd /\ r.attempts = rec[s].attempts
      /\ r.state = rec[s].state /\ r.write = write
  BY RowsNow DEF Rows, Writes
<1>4. /\ e \in SessionRows /\ e.verified = sess[s].verified
      /\ e.status = sess[s].status /\ ~e.quarantined
  BY RowsNow, SessionRowUpdates
<1>5. rec' = [rec EXCEPT ![s] = r] /\ sess' = [sess EXCEPT ![s] = e]
  BY <1>1, <1>2
<1> HIDE DEF r, e
<1>6. RowStep(s, r, e, "none")
  BY <1>1, <1>3, <1>4, <1>5, RowsNow DEF RowStep, RowWrite, Settled, Verified
<1> QED BY <1>1, <1>3, <1>4, <1>6, RowStepKeeps, OthersStay DEF Guards

(* The Runtime's hello moves every row that waited for it. *)
LEMMA WakeRuntimeKeeps ==
    ASSUME RecoveryInv, WakeRuntime
    PROVE  RecoveryInv'
<1>1. UNCHANGED <<owner, sess, cmd, permit, task, closer, guard, slot, alive, writes, retries>>
  BY Zenon DEF WakeRuntime, resources
<1>2. link \in Links
  BY DEF RecoveryInv, Typed
<1>3. link' \in Links /\ link'.setting = link.setting
  BY <1>2, Zenon DEF WakeRuntime, Links
<1>4. rec' \in [Sessions -> Rows]
      /\ \A s \in Sessions : /\ rec'[s].cmd = rec[s].cmd /\ rec'[s].attempts = rec[s].attempts
                             /\ rec'[s].write = rec[s].write
                             /\ rec'[s].state = "VERIFIED" <=> rec[s].state = "VERIFIED"
  <2>1. ASSUME NEW s \in Sessions
        PROVE  /\ rec'[s] \in Rows
               /\ rec'[s].cmd = rec[s].cmd /\ rec'[s].attempts = rec[s].attempts
               /\ rec'[s].write = rec[s].write
               /\ rec'[s].state = "VERIFIED" <=> rec[s].state = "VERIFIED"
    <3>1. rec[s] \in Rows
      BY RowsNow
    <3>2. CASE link.supports /\ Waiting(s)
      <4>1. rec'[s] = [rec[s] EXCEPT !.state = "REQUESTED", !.due = TRUE]
        BY <3>2, Zenon DEF WakeRuntime
      <4>2. rec[s].state # "VERIFIED"
        BY <3>2 DEF Waiting
      <4> QED BY <3>1, <4>1, <4>2 DEF Rows, States
    <3>3. CASE ~(link.supports /\ Waiting(s))
      BY <3>1, <3>3, Zenon DEF WakeRuntime
    <3> QED BY <3>2, <3>3
  <2>2. rec' = [s \in Sessions |-> rec'[s]]
    BY Zenon DEF WakeRuntime
  <2> QED BY <2>1, <2>2
<1>5. Typed'
  BY <1>1, <1>3, <1>4 DEF RecoveryInv, Typed
<1>6. Sound'
  <2> SUFFICES ASSUME NEW s \in Sessions PROVE RowAgrees(s)' /\ HeldUntilClosed(s)'
    BY DEF Sound
  <2>1. RowAgrees(s) /\ HeldUntilClosed(s)
    BY DEF RecoveryInv, Sound
  <2> QED BY <1>1, <1>3, <1>4, <2>1 DEF RowAgrees, HeldUntilClosed, Verified, MaxAttempts, Settled
<1>7. ClosedIsDead'
  BY <1>1 DEF RecoveryInv, ClosedIsDead
<1>8. QuietCommands /\ SameClaim /\ TasksGoOn /\ RowsKeepCommand
  BY <1>1, <1>4 DEF QuietCommands, SameClaim, TasksGoOn, RowsKeepCommand, Verified
<1> QED BY <1>5, <1>6, <1>7, <1>8, ClaimsKept DEF RecoveryInv

----------------------------------------------------------------------------
(* Steps that move the permit.                                             *)

(* A free permit covers no command of another session. *)
LEMMA OnlyOwnCommand ==
    ASSUME RecoveryInv, NEW s \in Sessions, permit.s = s \/ PermitFree(s),
           NEW u \in Sessions, NEW m \in Commands, InFlight(u, m), ~Verified(u)
    PROVE  u = s /\ m = rec[s].cmd
<1>1. permit.s = u /\ permit.cmd = m /\ rec[u].cmd = m
  BY DEF RecoveryInv, Claims, PermitCovers
<1>2. u # "none"
  BY RecoveryAssumption
<1> QED BY <1>1, <1>2 DEF PermitFree

LEMMA ClaimExhaustedKeeps ==
    ASSUME RecoveryInv, NEW s \in Sessions, ClaimExhausted(s)
    PROVE  RecoveryInv'
<1>1. /\ UNCHANGED <<owner, sess, guard, cmd, task, closer, slot, link, alive, writes, retries>>
      /\ rec[s].state # "VERIFIED" /\ ~Pending(s) /\ PermitFree(s) /\ permit' = NoPermit
      /\ Deferred(s, "NEEDS_OPERATOR", "exhausted")
  BY DEF ClaimExhausted, Claimable, resources
<1>2. PICK r \in Rows : /\ rec' = [rec EXCEPT ![s] = r] /\ r.cmd = rec[s].cmd
                        /\ r.attempts = rec[s].attempts /\ r.write = rec[s].write
                        /\ r.state = "NEEDS_OPERATOR"
  BY <1>1, DeferredMoves DEF States, Errors
<1>3. RowWrite(s, r, sess[s], guard[s])
  BY <1>1, <1>2, RowsNow DEF RowWrite, Verified
<1>4. permit' \in Permits /\ cmd' \in [Sessions -> [Commands -> CommandRows]]
  BY <1>1 DEF RecoveryInv, Typed, NoPermit, Permits
<1>5. /\ Typed' /\ Sound'
      /\ \A u \in Sessions : Verified(u)' <=> Verified(u)
  BY <1>1, <1>3, <1>4, RowWriteSound, RowsNow, OthersStay
<1>6. ClosedIsDead'
  BY <1>1 DEF RecoveryInv, ClosedIsDead
<1>7. ASSUME NEW u \in Sessions, NEW n \in Commands, InFlight(u, n)
      PROVE  Verified(u)'
  BY <1>1, <1>5, <1>7, OnlyOwnCommand DEF Pending
<1>8. Claims'
  BY <1>1, <1>7, PermitGivenUp, OthersStay
<1> QED BY <1>5, <1>6, <1>8 DEF RecoveryInv

(* Evidence of a closed browser ends the claim and frees the resources. *)
LEMMA AcceptEvidenceKeeps ==
    ASSUME RecoveryInv, NEW s \in Sessions, AcceptEvidence(s)
    PROVE  RecoveryInv'
<1>1. UNCHANGED <<owner, cmd, task, closer, link, alive, writes, retries>>
  BY DEF AcceptEvidence
<1>2. ~alive[s]
  BY DEF AcceptEvidence, RecoveryInv, ClosedIsDead
<1>3. PICK audited \in BOOLEAN : CommitEvidence(s, audited)
  <2>1. Settles \in BOOLEAN
    BY RecoveryAssumption DEF RecoveryInv, Typed, Links, Settles
  <2> QED BY <2>1 DEF AcceptEvidence
<1> DEFINE write == RefreshedWrite(s, rec[s], TRUE, audited)
           row == [rec[s] EXCEPT !.write = write]
           r == IF Verified(s) THEN row
                ELSE [row EXCEPT !.state = "VERIFIED", !.due = TRUE, !.tok = 0, !.live = FALSE]
           e == [status |-> "CLOSED", verified |-> TRUE, quarantined |-> ~Settled(write)]
           g == Released(s, write)
<1>4. write \in Writes
  BY RowsNow DEF RefreshedWrite, Rows, Writes
<1>5. /\ rec' = [rec EXCEPT ![s] = r] /\ sess' = [sess EXCEPT ![s] = e]
      /\ guard' = [guard EXCEPT ![s] = g] /\ slot' = [slot EXCEPT ![s] = FALSE]
      /\ permit' = IF permit.s = s THEN NoPermit ELSE permit
  BY <1>3 DEF CommitEvidence
<1>6. e \in SessionRows /\ e.verified /\ e.status = "CLOSED"
  BY DEF SessionRows, Settled
<1>7. g \in Guards /\ (g = "none" => Settled(write))
  BY DEF Released, Guards
<1> HIDE DEF write, g, e
<1>8. row \in Rows /\ row.cmd = rec[s].cmd /\ row.attempts = rec[s].attempts
      /\ row.state = rec[s].state /\ row.write = write
  BY <1>4, RowsNow DEF Rows
<1> HIDE DEF row
<1>9. r \in Rows /\ r.cmd = rec[s].cmd /\ r.attempts = rec[s].attempts
      /\ r.state = "VERIFIED" /\ r.write = write
  <2>1. CASE Verified(s)
    BY <1>8, <2>1, RowsNow
  <2>2. CASE ~Verified(s)
    BY <1>8, <2>2, VerifiedRow, Zenon DEF Rows
  <2> QED BY <2>1, <2>2
<1> HIDE DEF r
<1>10. /\ rec' \in [Sessions -> Rows] /\ rec'[s] = r
       /\ \A u \in Sessions \ {s} : rec'[u] = rec[u]
  BY <1>5, <1>9, RecUpdate DEF RecoveryInv
<1>11. /\ sess' \in [Sessions -> SessionRows] /\ sess'[s] = e
       /\ \A u \in Sessions \ {s} : sess'[u] = sess[u]
  BY <1>5, <1>6, SessUpdate DEF RecoveryInv
<1>12. /\ guard' \in [Sessions -> Guards] /\ guard'[s] = g
       /\ \A u \in Sessions \ {s} : guard'[u] = guard[u]
       /\ slot' \in [Sessions -> BOOLEAN] /\ ~slot'[s]
       /\ \A u \in Sessions \ {s} : slot'[u] = slot[u]
  BY <1>5, <1>7 DEF RecoveryInv, Typed
<1>13. permit' \in Permits
  BY <1>5 DEF RecoveryInv, Typed, NoPermit, Permits
<1>14. Typed'
  BY <1>1, <1>10, <1>11, <1>12, <1>13 DEF RecoveryInv, Typed
<1>15. RowAgrees(s)' /\ HeldUntilClosed(s)'
  BY <1>1, <1>2, <1>6, <1>7, <1>9, <1>10, <1>11, <1>12, RowsNow
     DEF RowAgrees, HeldUntilClosed, Verified, MaxAttempts
<1>16. Elsewhere(s)
  BY <1>1, <1>10, <1>11, <1>12 DEF Elsewhere
<1>17. Sound'
  BY <1>15, <1>16, SoundElsewhere DEF RecoveryInv
<1>18. ClosedIsDead'
  BY <1>1 DEF RecoveryInv, ClosedIsDead
<1>19. RowsKeepCommand /\ QuietCommands /\ TasksGoOn
  BY <1>1, <1>6, <1>9, <1>10, <1>11 DEF RowsKeepCommand, QuietCommands, TasksGoOn, Verified
<1>20. Claims'
  <2>1. CASE permit.s = s
    <3>1. ASSUME NEW u \in Sessions, NEW n \in Commands, InFlight(u, n)
          PROVE  Verified(u)'
      <4>1. Verified(s)'
        BY <1>6, <1>11 DEF Verified
      <4>2. u # s => permit.s # u
        BY <2>1
      <4>3. Verified(u) => Verified(u)'
        BY <1>19 DEF RowsKeepCommand
      <4> QED BY <3>1, <4>1, <4>2, <4>3 DEF RecoveryInv, Claims, PermitCovers
    <3> QED BY <1>1, <1>5, <1>19, <2>1, <3>1, PermitGivenUp
  <2>2. CASE permit.s # s
    <3>1. SameClaim
      BY <1>5, <2>2 DEF SameClaim
    <3> QED BY <1>19, <3>1, ClaimsKept DEF RecoveryInv
  <2> QED BY <2>1, <2>2
<1> QED BY <1>14, <1>17, <1>18, <1>20 DEF RecoveryInv

(* The next command of a session was never used, and is next in order. *)
LEMMA NextIsFresh ==
    ASSUME RecoveryInv, NEW s \in Sessions, NextCommand(s) \in Commands
    PROVE  /\ cmd[s][NextCommand(s)].status = "none"
           /\ \E k \in Nat : Used(s) \cup {NextCommand(s)} = 1 .. k
<1>1. PICK k \in Nat : Used(s) = 1 .. k
  BY DEF RecoveryInv, Claims, CommandsInOrder
<1>2. NextCommand(s) = k + 1
  <2>1. Cardinality(1 .. k) = k
    BY FS_Interval
  <2>2. NextCommand(s) = 1 + Cardinality(Used(s))
    BY DEF NextCommand, Used
  <2> QED BY <1>1, <2>1, <2>2
<1>3. NextCommand(s) \notin Used(s)
  BY <1>1, <1>2
<1>4. Used(s) \cup {NextCommand(s)} = 1 .. (k + 1)
  BY <1>1, <1>2
<1> QED BY <1>3, <1>4 DEF Used

(* A claim takes the permit for the one command that may still be executed, or for
   a new one. *)
LEMMA ClaimStep ==
    ASSUME RecoveryInv, NEW s \in Sessions, NEW tok \in Tokens, NEW n \in Commands,
           ~Verified(s), permit.s = s \/ PermitFree(s),
           Pending(s) \/ rec[s].attempts < MaxAttempts,
           n = IF Pending(s) THEN rec[s].cmd ELSE NextCommand(s),
           cmd' = WithCommand(s, n), Claimed(s, n, tok),
           task'[s][tok].pc # "none" => task'[s][tok].cmd = n /\ task'[s][tok].pc = "send",
           \A u \in Sessions, v \in Tokens : u # s \/ v # tok => task'[u][v] = task[u][v],
           task' \in [Sessions -> [Tokens -> Tasks]], closer' \in [Sessions -> Closers],
           UNCHANGED <<owner, sess, guard, slot, link, alive, writes, retries>>
    PROVE  RecoveryInv'
<1> DEFINE a == rec[s].attempts + IF Pending(s) THEN 0 ELSE 1
           r == [rec[s] EXCEPT !.state = "CLOSING", !.cmd = n, !.tok = tok, !.live = TRUE,
                               !.due = FALSE, !.attempts = a]
           c == [NoCommand EXCEPT !.status = "open"]
<1>1. rec[s].attempts \in Nat /\ MaxAttempts \in Nat
  BY RowsNow, SettingTyped DEF Rows, RecoveryInv
<1>2. a \in Nat /\ a <= MaxAttempts
  BY <1>1, RowsNow
<1>3. rec' = [rec EXCEPT ![s] = r]
  BY DEF Claimed
<1>4. permit' = [s |-> s, tok |-> tok, live |-> TRUE, cmd |-> n] /\ permit' \in Permits
  BY DEF Claimed, Permits
<1> HIDE DEF a
<1>5. r \in Rows
  BY <1>2, RowsNow, ClaimRow, Zenon
<1>6. r.state = "CLOSING" /\ r.cmd = n /\ r.attempts = a /\ r.write = rec[s].write
  BY RowsNow DEF Rows
<1> HIDE DEF r
<1>7. RowWrite(s, r, sess[s], guard[s])
  BY <1>2, <1>3, <1>6, RowsNow DEF RowWrite, Verified
<1>8. /\ c \in CommandRows /\ c.status = "open" /\ c.ran = "no" /\ ~c.late
  BY DEF NoCommand, CommandRows
<1>9. \/ Pending(s) /\ cmd' = cmd /\ cmd[s][n].status = "open" /\ n \in Used(s)
      \/ /\ ~Pending(s) /\ cmd' = [cmd EXCEPT ![s][n] = c] /\ cmd[s][n].status = "none"
         /\ \E k \in Nat : Used(s) \cup {n} = 1 .. k
  BY NextIsFresh, Zenon DEF WithCommand, Pending, InFlight, Used
<1> HIDE DEF c
<1>10. /\ cmd' \in [Sessions -> [Commands -> CommandRows]]
       /\ cmd'[s][n].status = "open"
       /\ \A u \in Sessions, m \in Commands : u # s \/ m # n => cmd'[u][m] = cmd[u][m]
       /\ cmd'[s][n].ran = "closed" => cmd[s][n].ran = "closed"
  <2>1. CASE cmd' = cmd /\ cmd[s][n].status = "open"
    BY <2>1 DEF RecoveryInv, Typed
  <2>2. CASE cmd' = [cmd EXCEPT ![s][n] = c]
    <3> DEFINE written == [cmd EXCEPT ![s][n] = c]
    <3>1. /\ written \in [Sessions -> [Commands -> CommandRows]] /\ written[s][n] = c
          /\ \A u \in Sessions, m \in Commands : u # s \/ m # n => written[u][m] = cmd[u][m]
      BY <1>8, CmdUpdate DEF RecoveryInv
    <3>2. cmd' = written
      BY <2>2
    <3> HIDE DEF written
    <3> QED BY <1>8, <3>1, <3>2
  <2> QED BY <1>9, <2>1, <2>2
<1>11. owner' \in [Sessions -> Owners] /\ retries' \in [Sessions -> Nat]
  BY OthersStay
<1>12. /\ Typed' /\ Sound' /\ rec'[s] = r
       /\ \A u \in Sessions : Verified(u)' <=> Verified(u)
       /\ \A u \in Sessions \ {s} : rec'[u] = rec[u]
  BY <1>4, <1>5, <1>7, <1>10, <1>11, RowWriteSound, RowsNow
<1>13. ClosedIsDead'
  <2>1. alive' = alive /\ ClosedIsDead
    BY DEF RecoveryInv, Claimed
  <2>2. \A u \in Sessions, m \in Commands : cmd'[u][m].ran = "closed" => cmd[u][m].ran = "closed"
    BY <1>10
  <2> QED BY <2>1, <2>2 DEF ClosedIsDead
<1>14. CommandsInOrder'
  <2> SUFFICES ASSUME NEW u \in Sessions PROVE \E k \in Nat : Used(u)' = 1 .. k
    BY DEF CommandsInOrder
  <2>1. \E k \in Nat : Used(u) = 1 .. k
    BY DEF RecoveryInv, Claims, CommandsInOrder
  <2>2. CASE u # s \/ cmd' = cmd
    <3>1. Used(u)' = Used(u)
      BY <1>10, <2>2 DEF Used
    <3> QED BY <2>1, <3>1
  <2>3. CASE u = s /\ \E k \in Nat : Used(s) \cup {n} = 1 .. k
    <3>1. Used(u)' = Used(u) \cup {n}
      BY <1>10, <2>3 DEF Used
    <3> QED BY <2>3, <3>1
  <2> QED BY <1>9, <2>2, <2>3
<1>15. PermitCovers'
  <2>1. ASSUME NEW u \in Sessions, NEW m \in Commands, InFlight(u, m)', ~Verified(u)'
        PROVE  u = s /\ m = n
    <3>1. CASE u # s \/ m # n
      <4>1. InFlight(u, m) /\ ~Verified(u)
        BY <1>10, <1>12, <2>1, <3>1 DEF InFlight
      <4>2. u = s /\ m = rec[s].cmd
        BY <4>1, OnlyOwnCommand
      <4> QED BY <4>1, <4>2 DEF Pending
    <3> QED BY <3>1
  <2>2. permit'.s = s /\ permit'.cmd = n /\ rec'[s].cmd = n
    BY <1>4, <1>6, <1>12
  <2> QED BY <1>10, <2>1, <2>2 DEF PermitCovers
<1>16. TokensMatch'
  <2> SUFFICES ASSUME NEW u \in Sessions, NEW t \in Tokens, task'[u][t].pc # "none"
               PROVE  /\ task'[u][t].cmd \in Used(u)'
                      /\ permit'.s = u /\ permit'.tok = t => permit'.cmd = task'[u][t].cmd
                      /\ task'[u][t].pc = "release" => cmd'[u][task'[u][t].cmd].status # "open"
    BY DEF TokensMatch
  <2>1. permit'.s = s /\ permit'.tok = tok /\ permit'.cmd = n
    BY <1>4
  <2>2. CASE u = s /\ t = tok
    BY <1>10, <2>1, <2>2 DEF Used
  <2>3. CASE u # s \/ t # tok
    <3>1. /\ task'[u][t] = task[u][t] /\ task[u][t].cmd \in Used(u)
          /\ task[u][t].pc = "release" => cmd[u][task[u][t].cmd].status # "open"
      BY <2>3 DEF RecoveryInv, Claims, TokensMatch
    <3>2. task[u][t].pc = "release" => cmd'[u][task[u][t].cmd].status # "open"
      BY <1>9, <1>10, <3>1 DEF Used
    <3>3. task[u][t].cmd \in Used(u)'
      BY <1>10, <3>1 DEF Used
    <3> QED BY <2>1, <2>3, <3>1, <3>2, <3>3
  <2> QED BY <2>2, <2>3
<1> QED BY <1>12, <1>13, <1>14, <1>15, <1>16 DEF RecoveryInv, Claims

LEMMA ClaimKeeps ==
    ASSUME RecoveryInv, NEW s \in Sessions, Claim(s)
    PROVE  RecoveryInv'
<1> DEFINE n == IF Pending(s) THEN rec[s].cmd ELSE NextCommand(s)
<1>1. PICK tok \in FreeToken(s) :
         /\ n \in Commands /\ cmd' = WithCommand(s, n) /\ Claimed(s, n, tok)
         /\ task' = [task EXCEPT ![s][tok] = [NoTask EXCEPT !.pc = "send", !.cmd = n]]
  BY DEF Claim
<1>2. /\ ~Verified(s) /\ PermitFree(s) /\ (Pending(s) \/ rec[s].attempts < MaxAttempts)
      /\ UNCHANGED <<owner, sess, guard, closer, slot, link, alive, writes, retries>>
  BY DEF Claim, Claimable, resources
<1>3. tok \in Tokens
  BY <1>1, SettingTyped DEF FreeToken, RecoveryInv
<1> DEFINE k == [NoTask EXCEPT !.pc = "send", !.cmd = n]
<1>4. k \in Tasks /\ k.pc = "send" /\ k.cmd = n
  BY <1>1 DEF NoTask, Tasks
<1> HIDE DEF k
<1>5. /\ task' \in [Sessions -> [Tokens -> Tasks]] /\ task'[s][tok] = k
      /\ \A u \in Sessions, v \in Tokens : u # s \/ v # tok => task'[u][v] = task[u][v]
  BY <1>1, <1>3, <1>4, TaskUpdate DEF RecoveryInv, k
<1>6. closer' \in [Sessions -> Closers]
  BY <1>2, OthersStay
<1> QED BY <1>1, <1>2, <1>3, <1>4, <1>5, <1>6, ClaimStep

LEMMA PrepareCloseKeeps ==
    ASSUME RecoveryInv, NEW s \in Sessions, PrepareClose(s)
    PROVE  RecoveryInv'
<1> DEFINE n == IF Pending(s) THEN rec[s].cmd ELSE NextCommand(s)
<1>1. PICK tok \in FreeToken(s) :
         /\ n \in Commands /\ cmd' = WithCommand(s, n) /\ Claimed(s, n, tok)
         /\ closer' = [closer EXCEPT ![s] = [pc |-> "send", cmd |-> n]]
  BY DEF PrepareClose
<1>2. /\ ~Verified(s) /\ (permit.s = s \/ PermitFree(s))
      /\ Pending(s) \/ rec[s].attempts < MaxAttempts
      /\ UNCHANGED <<owner, sess, guard, task, slot, link, alive, writes, retries>>
  BY DEF PrepareClose, CanPrepare, resources
<1>3. tok \in Tokens /\ task[s][tok].pc = "none"
  BY <1>1, SettingTyped DEF FreeToken, RecoveryInv
<1>4. [pc |-> "send", cmd |-> n] \in Closers
  BY <1>1 DEF Closers
<1>5. closer' \in [Sessions -> Closers]
  BY <1>1, <1>4 DEF RecoveryInv, Typed
<1>6. task' \in [Sessions -> [Tokens -> Tasks]]
  BY <1>2, OthersStay
<1> HIDE DEF n
<1> QED BY <1>1, <1>2, <1>3, <1>5, <1>6, ClaimStep DEF n

----------------------------------------------------------------------------
(* The invariant of every behaviour.                                       *)

LEMMA RecoveryInit == Init => RecoveryInv
<1> SUFFICES ASSUME Init PROVE RecoveryInv
  OBVIOUS
<1>1. PICK supports \in BOOLEAN, b \in Settings :
         link = [up |-> TRUE, hello |-> FALSE, supports |-> supports, drops |-> 0, setting |-> b]
  BY DEF Init
<1>2. link \in Links
  BY <1>1 DEF Links
<1>3. /\ owner \in [Sessions -> Owners] /\ writes \in [Sessions -> Histories] /\ slot \in [Sessions -> BOOLEAN]
      /\ alive \in [Sessions -> BOOLEAN] /\ guard \in [Sessions -> Guards]
      /\ retries \in [Sessions -> Nat]
  BY DEF Init, Owners, Guards, Histories
<1>4. /\ sess \in [Sessions -> SessionRows] /\ permit \in Permits
      /\ closer \in [Sessions -> Closers]
  BY DEF Init, SessionRows, NoPermit, Permits, Closers
<1>5. cmd \in [Sessions -> [Commands -> CommandRows]]
  BY DEF Init, NoCommand, CommandRows
<1>6. task \in [Sessions -> [Tokens -> Tasks]]
  BY DEF Init, NoTask, Tasks
<1>7. rec \in [Sessions -> Rows]
  BY DEF Init, Rows, States, Writes, Errors
<1>8. Typed
  BY <1>2, <1>3, <1>4, <1>5, <1>6, <1>7 DEF Typed
<1>9. MaxAttempts \in Nat
  BY <1>8, SettingTyped
<1>10. Sound
  BY <1>9 DEF Init, Sound, RowAgrees, HeldUntilClosed, Verified, Settled
<1>11. \A s \in Sessions, n \in Commands : cmd[s][n].status = "none" /\ cmd[s][n].ran = "no"
  BY DEF Init, NoCommand
<1>12. ClosedIsDead
  BY <1>11 DEF ClosedIsDead
<1>13. CommandsInOrder
  <2>1. \A s \in Sessions : Used(s) = 1 .. 0
    BY <1>11 DEF Used
  <2> QED BY <2>1 DEF CommandsInOrder
<1>14. PermitCovers
  BY <1>11 DEF PermitCovers, InFlight, Init, NoPermit
<1>15. TokensMatch
  BY DEF TokensMatch, Init, NoTask
<1> QED BY <1>8, <1>10, <1>12, <1>13, <1>14, <1>15 DEF RecoveryInv, Claims

LEMMA RecoveryStep == RecoveryInv /\ [Next]_vars => RecoveryInv'
<1> SUFFICES ASSUME RecoveryInv, [Next]_vars PROVE RecoveryInv'
  OBVIOUS
<1>1. Here \subseteq Sessions
  BY SettingTyped DEF RecoveryInv
<1>2. CASE UNCHANGED vars
  <2>1. TasksGoOn /\ task' \in [Sessions -> [Tokens -> Tasks]]
    BY <1>2, OthersStay DEF vars
  <2> QED BY <1>2, <2>1, CommandsStay DEF RecoveryInv, Typed, vars
<1>3. CASE WakeRuntime \/ Disconnect \/ Connect
  BY <1>3, WakeRuntimeKeeps, ConnectionKeeps
<1>4. ASSUME NEW s \in Here,
             \/ OwnerEnds(s) \/ Quarantine(s) \/ DeadlinePasses(s) \/ TimesOut(s)
             \/ Admit(s) \/ Record(s) \/ TakeOver(s)
             \/ ClaimExpires(s) \/ FallsDue(s)
      PROVE  RecoveryInv'
  BY <1>1, <1>4, OwnerEndsKeeps, QuarantineKeeps, DeadlinePassesKeeps, TimesOutKeeps,
     HistoryKeeps, ClaimExpiresKeeps, FallsDueKeeps
<1>5. ASSUME NEW s \in Here,
             \/ Request(s) \/ ExplicitClose(s) \/ Closer(s) \/ CloserStops(s)
             \/ Retry(s) \/ ResolveWrite(s)
      PROVE  RecoveryInv'
  BY <1>1, <1>5, RequestKeeps, ExplicitCloseKeeps, PrepareCloseKeeps, CloserMoves,
     CloserSendKeeps, CloserReportKeeps, RetryKeeps, ResolveWriteKeeps DEF Closer
<1>6. ASSUME NEW s \in Here,
             \/ AcceptEvidence(s) \/ AcceptResult(s)
             \/ ClaimWithoutRuntime(s) \/ ClaimExhausted(s) \/ Claim(s) \/ RuntimeCloses(s)
      PROVE  RecoveryInv'
  BY <1>1, <1>6, AcceptEvidenceKeeps, AcceptResultKeeps, ClaimWithoutRuntimeKeeps,
     ClaimExhaustedKeeps, ClaimKeeps, RuntimeClosesKeeps
<1>7. ASSUME NEW s \in Here, NEW t \in Tokens,
             Task(s, t) \/ TaskStops(s, t) \/ Renew(s, t)
      PROVE  RecoveryInv'
  BY <1>1, <1>7, TaskSendKeeps, TaskMoves, TaskReportKeeps, TaskReleaseKeeps, RenewKeeps
     DEF Task
<1> QED BY <1>2, <1>3, <1>4, <1>5, <1>6, <1>7 DEF Next

(* In every behaviour of the recovery the rows have their shape, say what the
   session holds, and the permit covers every close that may still be executed. *)
THEOREM RecoveryInvariant == Spec => []RecoveryInv
BY RecoveryInit, RecoveryStep, PTL DEF Spec

(* Two closes never compete for the Runtime: a claim takes the permit only when no
   command of another session may still be executed, and nobody gives it back for a
   command that is still open. *)
THEOREM OneClose == Spec => []OneCloseAtATime
<1>1. RecoveryInv => OneCloseAtATime
  BY DEF RecoveryInv, Claims, PermitCovers, OneCloseAtATime
<1> QED BY <1>1, RecoveryInvariant, PTL

(* The slot, the leases and the guard of a session are never free while its browser
   may still run; and the rows and the permit have their shape. *)
THEOREM ResourcesKept == Spec => []ResourcesOutliveBrowser
<1>1. RecoveryInv => ResourcesOutliveBrowser
  <2> SUFFICES ASSUME RecoveryInv PROVE ResourcesOutliveBrowser
    OBVIOUS
  <2>1. \A s \in Sessions : alive[s] => slot[s] /\ guard[s] # "none"
    BY DEF RecoveryInv, Sound, HeldUntilClosed
  <2>2. MaxAttempts \in Nat
    BY SettingTyped DEF RecoveryInv
  <2>3. ASSUME NEW s \in Sessions
        PROVE  /\ rec[s].state \in States /\ rec[s].write \in Writes
               /\ rec[s].attempts \in 0 .. MaxAttempts
               /\ rec[s].cmd \in {0} \cup Commands /\ rec[s].tok \in {0} \cup Tokens
               /\ Verified(s) <=> rec[s].state = "VERIFIED"
    BY <2>2, RowsNow DEF Rows
  <2>4. permit.s # "none" => cmd[permit.s][permit.cmd].status # "none"
    BY DEF RecoveryInv, Claims, PermitCovers
  <2>5. owner \in [Sessions -> Owners] /\ sess \in [Sessions -> SessionRows]
          /\ writes \in [Sessions -> Histories]
    BY DEF RecoveryInv, Typed
  <2>6. TypeRecovery
    BY <2>3, <2>4, <2>5 DEF TypeRecovery, States, Writes, Owners, SessionRows, Histories
  <2> QED BY <2>1, <2>6 DEF ResourcesOutliveBrowser
<1> QED BY <1>1, RecoveryInvariant, PTL

(* The write guard waits for a settled outcome; and while the browser may still run,
   writes that nobody confirmed are settled only if the session recorded none as long
   as it took commands, and it takes none any more. *)
THEOREM GuardWaits == Spec => []GuardAwaitsOutcome
<1>1. RecoveryInv => GuardAwaitsOutcome
  BY DEF RecoveryInv, Sound, HeldUntilClosed, GuardAwaitsOutcome
<1> QED BY <1>1, RecoveryInvariant, PTL

----------------------------------------------------------------------------
(* A row that an operator must decide.                                     *)

(* Recovery of another session does not move it. *)
LEMMA OtherRows ==
    ASSUME NEW s \in Sessions, NEW u \in Sessions, u # s, NEW r,
           rec' = [rec EXCEPT ![u] = r], RecoveryInv
    PROVE  rec'[s] = rec[s]
BY DEF RecoveryInv, Typed

(* A request and a failure leave it as it is. *)
LEMMA RequestLeaves ==
    ASSUME RecoveryInv, NEW s \in Sessions, NEW u \in Sessions, NEW explicit \in BOOLEAN,
           NEW audited \in BOOLEAN, RequestRow(u, explicit, audited),
           rec[s].state = "NEEDS_OPERATOR"
    PROVE  rec'[s].state = rec[s].state
<1> DEFINE healthy == ~explicit /\ Healthy(u)
           stopped == ~healthy
<1>1. rec' = [rec EXCEPT ![u] = Ensured(u, healthy, stopped, audited)]
      /\ healthy \in BOOLEAN /\ stopped \in BOOLEAN
  BY DEF RequestRow
<1> HIDE DEF healthy, stopped
<1>2. rec[u].state = "NEEDS_OPERATOR" =>
         Ensured(u, healthy, stopped, audited).state = rec[u].state
  BY <1>1, EnsuredRow DEF RecoveryInv
<1>3. rec \in [Sessions -> Rows]
  BY DEF RecoveryInv, Typed
<1> QED BY <1>1, <1>2, <1>3

LEMMA FailureLeaves ==
    ASSUME RecoveryInv, NEW s \in Sessions, NEW u \in Sessions, NEW n, NEW t, NEW code,
           RecordFailure(u, n, t, code), rec[s].state = "NEEDS_OPERATOR"
    PROVE  rec'[s].state = rec[s].state
<1> DEFINE row == Ensured(u, FALSE, sess[u].quarantined, FALSE)
<1>1. rec[u].state = "NEEDS_OPERATOR" => row.state = rec[u].state
  <2>1. sess[u].quarantined \in BOOLEAN
    BY RowsNow DEF SessionRows
  <2> QED BY <2>1, EnsuredRow DEF RecoveryInv
<1>2. rec \in [Sessions -> Rows]
  BY DEF RecoveryInv, Typed
<1>3. CASE u # s
  <2>1. \/ rec' = rec
        \/ \E r : rec' = [rec EXCEPT ![u] = r]
    BY DEF RecordFailure
  <2> QED BY <1>2, <1>3, <2>1
<1>4. CASE u = s
  <2>1. Superseded(u, row, n, t)
    BY <1>1, <1>4 DEF Superseded
  <2>2. rec' = rec \/ rec' = [rec EXCEPT ![u] = row]
    BY <2>1 DEF RecordFailure
  <2> HIDE DEF row
  <2> QED BY <1>1, <1>2, <1>4, <2>2
<1> QED BY <1>3, <1>4

(* Claims are of rows that need no operator. *)
LEMMA ClaimsLeave ==
    ASSUME RecoveryInv, NEW s \in Sessions, NEW u \in Sessions, rec[s].state = "NEEDS_OPERATOR",
           Claim(u) \/ ClaimExhausted(u) \/ ClaimWithoutRuntime(u) \/ PrepareClose(u) \/ FallsDue(u)
    PROVE  rec'[s] = rec[s]
<1>1. u # s
  BY DEF Claim, ClaimExhausted, ClaimWithoutRuntime, PrepareClose, FallsDue, Claimable, CanPrepare
<1>2. \E r : rec' = [rec EXCEPT ![u] = r]
  <2>1. CASE Claim(u) \/ PrepareClose(u)
    BY <2>1, Zenon DEF Claim, PrepareClose, Claimed
  <2>2. CASE ClaimExhausted(u) \/ ClaimWithoutRuntime(u)
    BY <2>2 DEF ClaimExhausted, ClaimWithoutRuntime, Deferred
  <2>3. CASE FallsDue(u)
    BY <2>3 DEF FallsDue
  <2> QED BY <2>1, <2>2, <2>3
<1> QED BY <1>1, <1>2, OtherRows

(* The steps that change no state of a row. *)
LEMMA StatesStay ==
    ASSUME RecoveryInv, NEW s \in Sessions, NEW u \in Sessions,
           \/ OwnerEnds(u) \/ ClaimExpires(u) \/ ResolveWrite(u)
           \/ \E t \in Tokens : Renew(u, t)
    PROVE  rec'[s].state = rec[s].state
<1>1. \/ rec' = rec
      \/ rec' = [rec EXCEPT ![u].write = "SETTLED"]
      \/ rec' = [rec EXCEPT ![u].write = "RETRY_AUTHORIZED"]
      \/ rec' = [rec EXCEPT ![u].live = FALSE]
      \/ rec' = [rec EXCEPT ![u].live = TRUE]
  BY DEF OwnerEnds, ClaimExpires, ResolveWrite, Renew
<1>2. rec \in [Sessions -> Rows]
  BY DEF RecoveryInv, Typed
<1> QED BY <1>1, <1>2 DEF Rows

OperatorStep(s) ==
    \/ rec'[s].state = "VERIFIED"
    \/ rec'[s].state = "REQUESTED" /\ (retries'[s] > retries[s] \/ rec[s].err = "unsupported")

LEMMA RetryDecides ==
    ASSUME RecoveryInv, NEW s \in Sessions, NEW u \in Sessions, Retry(u)
    PROVE  rec'[s].state = rec[s].state \/ OperatorStep(s)
<1>1. /\ rec' = [rec EXCEPT ![u] = [rec[u] EXCEPT !.state = "REQUESTED", !.attempts = 0,
                                                 !.due = TRUE]]
      /\ retries' = [retries EXCEPT ![u] = retries[u] + 1]
  BY DEF Retry
<1>2. rec[u] \in Rows
  BY RowsNow
<1>3. CASE u = s
  <2>1. retries'[s] > retries[s]
    BY <1>1, <1>3 DEF RecoveryInv, Typed
  <2>2. rec'[s].state = "REQUESTED"
    BY <1>1, <1>2, <1>3 DEF RecoveryInv, Typed, Rows
  <2> QED BY <2>1, <2>2 DEF OperatorStep
<1>4. CASE u # s
  BY <1>1, <1>4, OtherRows
<1> QED BY <1>3, <1>4

LEMMA EvidenceDecides ==
    ASSUME RecoveryInv, NEW s \in Sessions, NEW u \in Sessions, AcceptEvidence(u),
           rec[s].state = "NEEDS_OPERATOR"
    PROVE  rec'[s].state = rec[s].state \/ OperatorStep(s)
<1>1. PICK audited : CommitEvidence(u, audited)
  BY DEF AcceptEvidence
<1>2. CASE u # s
  <2>1. \E r : rec' = [rec EXCEPT ![u] = r]
    BY <1>1 DEF CommitEvidence
  <2> QED BY <1>2, <2>1, OtherRows
<1>3. CASE u = s
  <2>1. ~Verified(s)
    BY RowsNow
  <2> DEFINE row == [rec[s] EXCEPT !.write = RefreshedWrite(s, rec[s], TRUE, audited)]
  <2>2. rec' = [rec EXCEPT ![s] = [row EXCEPT !.state = "VERIFIED", !.due = TRUE, !.tok = 0,
                                              !.live = FALSE]]
    BY <1>1, <1>3, <2>1 DEF CommitEvidence
  <2>3. "state" \in DOMAIN row
    BY RowsNow DEF Rows
  <2> HIDE DEF row
  <2>4. rec'[s].state = "VERIFIED"
    BY <2>2, <2>3 DEF RecoveryInv, Typed
  <2> QED BY <2>4 DEF OperatorStep
<1> QED BY <1>2, <1>3

LEMMA WakeDecides ==
    ASSUME RecoveryInv, NEW s \in Sessions, WakeRuntime, rec[s].state = "NEEDS_OPERATOR"
    PROVE  rec'[s].state = rec[s].state \/ OperatorStep(s)
<1>1. rec[s] \in Rows
  BY RowsNow
<1>2. CASE link.supports /\ Waiting(s)
  <2>1. rec'[s] = [rec[s] EXCEPT !.state = "REQUESTED", !.due = TRUE]
    BY <1>2, Zenon DEF WakeRuntime
  <2>2. rec[s].err = "unsupported"
    BY <1>2 DEF Waiting
  <2> QED BY <1>1, <2>1, <2>2 DEF OperatorStep, Rows
<1>3. CASE ~(link.supports /\ Waiting(s))
  BY <1>3, Zenon DEF WakeRuntime
<1> QED BY <1>2, <1>3

LEMMA OperatorStays ==
    ASSUME RecoveryInv, [Next]_vars, NEW s \in Sessions, rec[s].state = "NEEDS_OPERATOR"
    PROVE  rec'[s].state = rec[s].state \/ OperatorStep(s)
<1>1. Here \subseteq Sessions
  BY SettingTyped DEF RecoveryInv
<1>2. CASE UNCHANGED vars \/ Disconnect \/ Connect
  BY <1>2 DEF vars, Disconnect, Connect
<1>3. CASE WakeRuntime
  BY <1>3, WakeDecides
<1>4. ASSUME NEW u \in Here,
             \/ OwnerEnds(u) \/ ClaimExpires(u) \/ ResolveWrite(u)
             \/ \E t \in Tokens : Renew(u, t)
      PROVE  rec'[s].state = rec[s].state
  BY <1>1, <1>4, StatesStay
<1>5. ASSUME NEW u \in Here,
             \/ Quarantine(u) \/ Admit(u) \/ Record(u) \/ TakeOver(u) \/ DeadlinePasses(u) \/ TimesOut(u) \/ PrepareRefused(u)
             \/ CloserSend(u) \/ CloserAwait(u) \/ CloserStops(u) \/ AcceptResult(u)
             \/ RuntimeCloses(u)
      PROVE  rec'[s].state = rec[s].state
  BY <1>5 DEF Quarantine, Admit, Record, TakeOver, DeadlinePasses, TimesOut, PrepareRefused, CloserSend, CloserAwait,
              CloserStops, AcceptResult, RuntimeCloses
<1>6. ASSUME NEW u \in Here, NEW t \in Tokens,
             \/ TaskSend(u, t) \/ TaskAwait(u, t) \/ TaskCheck(u, t) \/ TaskRelease(u, t)
             \/ TaskStops(u, t)
      PROVE  rec'[s].state = rec[s].state
  BY <1>6 DEF TaskSend, TaskAwait, TaskCheck, TaskRelease, TaskStops
<1>7. ASSUME NEW u \in Here,
             \/ Claim(u) \/ ClaimExhausted(u) \/ ClaimWithoutRuntime(u) \/ PrepareClose(u)
             \/ FallsDue(u)
      PROVE  rec'[s].state = rec[s].state
  BY <1>1, <1>7, ClaimsLeave
<1>8. ASSUME NEW u \in Here, Request(u) \/ ExplicitClose(u)
      PROVE  rec'[s].state = rec[s].state
  BY <1>1, <1>8, RequestLeaves DEF Request, ExplicitClose
<1>9. ASSUME NEW u \in Here, CloserReport(u) \/ \E t \in Tokens : TaskReport(u, t)
      PROVE  rec'[s].state = rec[s].state
  BY <1>1, <1>9, FailureLeaves DEF CloserReport, TaskReport
<1>10. ASSUME NEW u \in Here, Retry(u) \/ AcceptEvidence(u)
       PROVE  rec'[s].state = rec[s].state \/ OperatorStep(s)
  BY <1>1, <1>10, RetryDecides, EvidenceDecides
<1> QED BY <1>2, <1>3, <1>4, <1>5, <1>6, <1>7, <1>8, <1>9, <1>10 DEF Next, Task, Closer

(* A row that an operator must decide moves only by a retry, by a Runtime that can
   now show what became of the browser, or by evidence. *)
THEOREM OperatorHasTheWord == Spec => OperatorDecides
<1>1. RecoveryInv /\ [Next]_vars =>
        [\A s \in Sessions :
            rec[s].state = "NEEDS_OPERATOR" /\ rec[s].state' # rec[s].state =>
               \/ rec[s].state' = "VERIFIED"
               \/ rec[s].state' = "REQUESTED" /\ (retries[s]' > retries[s] \/ rec[s].err = "unsupported")
         ]_vars
  BY OperatorStays DEF OperatorStep
<1> QED BY <1>1, RecoveryInvariant, PTL DEF Spec, OperatorDecides
=============================================================================
