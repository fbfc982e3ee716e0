--------------------------- MODULE RunLeaseProofs ---------------------------
(***************************************************************************)
(* Proofs about RunLease: one run, its attempts and their leases, for      *)
(* every retry policy, lease, budget and number of attempts.               *)
(*                                                                         *)
(* The rows of a run are written by many transactions that never meet.     *)
(* What makes their conclusions agree is that only the current attempt is  *)
(* ever open or being recovered (Current), that the rows of one attempt    *)
(* agree with each other (Sound), and that the clock of a run is set with  *)
(* the state that it bounds (Budgeted).                                    *)
(***************************************************************************)
EXTENDS RunLease, TLAPS, FiniteSetTheorems

(* The rows under the setting s. *)
TimesOf(s) == 0..(s.until + QueueTime + s.taskLease + s.budget + HumanTime + Window + s.extension)

RunRows(s) ==
    [lifecycle : Runnable \cup Terminal \cup {"WAITING_HUMAN"},
     disposition : {"NONE", "NOT_RUN", "BLOCKED", "EXECUTED", "RUNTIME_LOST", "BROWSER_UNAVAILABLE"},
     verdict : {"NONE", "DECIDED"}, attempt : Attempts, recoveries : 0..s.attempts,
     budgeted : BOOLEAN, started : BOOLEAN, deadline : TimesOf(s), hard : TimesOf(s),
     asked : 0..s.human, setting : Settings]

AttemptRows(s) ==
    [task : OpenTask \cup {"ABSENT", "SUCCEEDED", "FAILED", "TIMED_OUT", "CANCELLED"},
     fence : Nat, lease : TimesOf(s), done : Nat, ckpt : Nat, owner : Nat,
     rec : {"NONE", "STARTUP_CLOSING"} \cup Recovering \cup Decided,
     sess : {"NONE", "ACTIVE", "LOST", "CLOSED"}, permit : TimesOf(s), restarts : 0..2,
     effect : {"NONE", "COMMAND", "WRITE"}, write : {"NONE", "UNKNOWN"} \cup WriteSettled]

Interventions(s) ==
    [status : {"NONE", "PENDING", "RESOLVED", "EXPIRED", "CANCELLED"}, n : 0..s.attempts, exp : TimesOf(s)]

(* One attempt's row: settled writes belong to a browser that accepts no
   commands, and say what the browser did; an executor's task is not being
   recovered, a recovered one has failed and its browser's owner is behind, and
   a success is not in doubt. *)
Sound(a) ==
    /\ a.write \in WriteSettled => a.sess \in {"LOST", "CLOSED"}
    /\ a.write = "NO_WRITE" => a.effect # "WRITE"
    /\ a.write = "CONFIRMED" => a.task = "SUCCEEDED"
    /\ a.task = "PENDING" => a.rec \in {"NONE", "STARTUP_CLOSING"}
    /\ a.task \in {"RUNNING", "WAITING_HUMAN"} => a.rec = "NONE"
    /\ a.rec \in Recovering => a.task = "FAILED" /\ a.owner < a.fence
    /\ a.owner <= a.fence
    /\ a.task = "SUCCEEDED" => a.rec \in {"NONE", "RESOLVED"}
    /\ a.rec = "RETRY_SCHEDULED" => a.sess = "CLOSED" /\ a.write \in WriteSettled
    /\ a.restarts <= 1 \/ a.sess = "NONE"

(* Only the current attempt is open or being recovered; earlier ones wrote
   nothing, and a retried one is earlier. *)
Current(n) ==
    /\ n # Cur => att[n].task \notin OpenTask /\ att[n].rec \notin Recovering
    /\ n < Cur => att[n].effect # "WRITE"
    /\ att[n].rec = "RETRY_SCHEDULED" => n < Cur
    /\ att[n].task = "RUNNING" => run.lifecycle = "RUNNING"
    /\ att[n].write = "OPERATOR" => run.lifecycle \in Terminal

(* The run: who waits for whom, and its clock. *)
Phase ==
    /\ Cur <= MaxAttempts
    /\ hitl.status = "PENDING" <=> run.lifecycle = "WAITING_HUMAN"
    /\ run.lifecycle = "WAITING_HUMAN" => hitl.n = Cur /\ att[Cur].task = "WAITING_HUMAN"
    /\ run.lifecycle \in Runnable =>
          att[Cur].task \in {"PENDING", "RUNNING"} \/ att[Cur].rec \in Recovering
    /\ run.lifecycle = "RUNNING" => att[Cur].task # "PENDING"
    /\ run.lifecycle \in Terminal => att[Cur].task \notin OpenTask

Budgeted ==
    /\ run.lifecycle \in Runnable => run.deadline <= run.hard
    /\ run.lifecycle = "RUNNING" /\ att[Cur].sess = "ACTIVE" => att[Cur].permit <= run.deadline

(* At most one lost lease is retried. *)
Retried == {n \in Attempts : att[n].rec = "RETRY_SCHEDULED"}

RetriedOnce ==
    \/ run.recoveries = 0 /\ Retried = {}
    \/ run.recoveries = 1 /\ \E k \in Attempts : Retried = {k}

Earned ==
    run.verdict # "NONE" =>
        /\ run.lifecycle = "COMPLETED" /\ run.disposition = "EXECUTED"
        /\ att[Cur].task = "SUCCEEDED"

RunInv ==
    /\ TypeRun
    /\ \A n \in Attempts : Sound(att[n]) /\ Current(n)
    /\ Phase /\ Budgeted /\ RetriedOnce /\ Earned

-----------------------------------------------------------------------------
(* The types of RunLease, field by field. *)
LEMMA Types ==
    TypeRun <=>
      /\ now \in 0..run.setting.until
      /\ run \in RunRows(run.setting)
      /\ att \in [Attempts -> AttemptRows(run.setting)]
      /\ hitl \in Interventions(run.setting)
      /\ issued \subseteq [n : Attempts, fence : Nat]
      /\ cancels \in {"IDLE", "BLOCKED", "NOT_RUN", "DONE"}
  BY DEF TypeRun, RunRows, AttemptRows, Interventions, TimesOf, Times, MaxTime, TaskLease, Budget,
         Extension, MaxAttempts, MaxHuman

(* The same, of the rows after a step. *)
LEMMA TypesNext ==
    ASSUME /\ now' \in 0..run'.setting.until
           /\ run' \in RunRows(run'.setting)
           /\ att' \in [Attempts -> AttemptRows(run'.setting)]
           /\ hitl' \in Interventions(run'.setting)
           /\ issued' \subseteq [n : Attempts, fence : Nat]
           /\ cancels' \in {"IDLE", "BLOCKED", "NOT_RUN", "DONE"}
    PROVE  TypeRun'
  BY DEF TypeRun, RunRows, AttemptRows, Interventions, TimesOf, Times, MaxTime, TaskLease, Budget,
         Extension, MaxAttempts, MaxHuman

(* What the constants and a setting say: every instant a step computes is one
   of its times. *)
LEMMA SettingFacts ==
    ASSUME NEW s \in Settings
    PROVE  /\ {QueueTime, HumanTime, Window} \subseteq Nat \ {0}
           /\ {s.attempts, s.taskLease, s.budget} \subseteq Nat \ {0}
           /\ {s.extension, s.until, s.human} \subseteq Nat
           /\ 1..s.attempts \subseteq Attempts
           /\ \A t \in TimesOf(s) : t \in Nat
           /\ \A t \in 0..s.until : /\ t + QueueTime \in TimesOf(s) /\ t + HumanTime \in TimesOf(s)
                                    /\ t + Window \in TimesOf(s) /\ t + s.taskLease \in TimesOf(s)
                                    /\ t + s.budget \in TimesOf(s)
                                    /\ t + s.budget + s.extension \in TimesOf(s)
                                    /\ t \in Nat
           /\ 0 \in TimesOf(s)
<1>1. s \in [attempts : Nat \ {0}, taskLease : Nat \ {0}, budget : Nat \ {0},
             extension : Nat, pause : BOOLEAN, onTimeout : {"CANCEL", "FAIL"},
             retryOn : SUBSET Classes, until : Nat, human : Nat, cancels : 0..1]
  BY RunParameters
<1>2. /\ {QueueTime, HumanTime, Window} \subseteq Nat \ {0}
      /\ {s.attempts, s.taskLease, s.budget} \subseteq Nat \ {0}
      /\ {s.extension, s.until, s.human} \subseteq Nat
  BY <1>1, RunParameters
<1>3. 1..s.attempts \subseteq Attempts
  BY DEF Attempts
<1> QED BY <1>2, <1>3 DEF TimesOf

(* Attempts have positive numbers. *)
LEMMA AttemptFacts ==
    ASSUME NEW n \in Attempts
    PROVE  n \in Nat /\ n >= 1
<1>1. PICK s \in Settings : n \in 1..s.attempts
  BY DEF Attempts
<1> QED BY <1>1, SettingFacts

(* What is known of the rows before a step. *)
LEMMA Facts ==
    ASSUME RunInv
    PROVE  /\ run.setting \in Settings
           /\ now \in 0..run.setting.until /\ now \in Nat
           /\ run \in RunRows(run.setting) /\ att \in [Attempts -> AttemptRows(run.setting)]
           /\ hitl \in Interventions(run.setting) /\ issued \subseteq [n : Attempts, fence : Nat]
           /\ Cur \in Attempts /\ Cur \in 1..run.setting.attempts /\ Cur \in Nat
           /\ run.deadline \in Nat /\ run.hard \in Nat
           /\ \A n \in Attempts : /\ att[n] \in AttemptRows(run.setting)
                                  /\ att[n].fence \in Nat /\ att[n].owner \in Nat
                                  /\ att[n].permit \in Nat /\ att[n].lease \in Nat
                                  /\ Sound(att[n]) /\ Current(n)
           /\ \A c \in issued : c.n \in Attempts /\ c.fence \in Nat
           /\ cancels \in {"IDLE", "BLOCKED", "NOT_RUN", "DONE"}
<1>1. /\ now \in 0..run.setting.until /\ cancels \in {"IDLE", "BLOCKED", "NOT_RUN", "DONE"}
      /\ run \in RunRows(run.setting) /\ att \in [Attempts -> AttemptRows(run.setting)]
      /\ hitl \in Interventions(run.setting) /\ issued \subseteq [n : Attempts, fence : Nat]
  BY Types DEF RunInv
<1>2. /\ run.setting \in Settings /\ run.attempt \in Attempts
      /\ run.deadline \in TimesOf(run.setting) /\ run.hard \in TimesOf(run.setting)
  BY <1>1 DEF RunRows
<1>3. Cur \in Attempts /\ Cur \in 1..run.setting.attempts /\ Cur \in Nat
  BY <1>2, AttemptFacts, SettingFacts DEF Cur, RunInv, Phase, MaxAttempts
<1>4. run.deadline \in Nat /\ run.hard \in Nat /\ now \in Nat
  BY <1>1, <1>2, SettingFacts
<1>5. \A n \in Attempts : /\ att[n] \in AttemptRows(run.setting)
                          /\ att[n].fence \in Nat /\ att[n].owner \in Nat
                          /\ att[n].permit \in Nat /\ att[n].lease \in Nat
  <2>1. \A n \in Attempts : att[n] \in AttemptRows(run.setting)
    BY <1>1
  <2>2. \A a \in AttemptRows(run.setting) : /\ a.fence \in Nat /\ a.owner \in Nat
                                            /\ a.permit \in TimesOf(run.setting)
                                            /\ a.lease \in TimesOf(run.setting)
    BY DEF AttemptRows
  <2> QED BY <1>2, <2>1, <2>2, SettingFacts
<1> QED BY <1>1, <1>2, <1>3, <1>4, <1>5 DEF RunInv

-----------------------------------------------------------------------------
(* One row of an attempt moves, the run's state stays what it is. *)
LEMMA RowStep ==
    ASSUME RunInv, NEW n \in Attempts, NEW a \in AttemptRows(run.setting),
           att' = [att EXCEPT ![n] = a], run' \in RunRows(run.setting),
           run'.setting = run.setting, run'.attempt = run.attempt,
           run'.lifecycle = run.lifecycle, run'.verdict = run.verdict,
           run'.disposition = run.disposition, run'.recoveries = run.recoveries,
           UNCHANGED <<now, hitl, issued, cancels>>,
           Sound(a), a.task = att[n].task,
           a.rec \in Recovering <=> att[n].rec \in Recovering,
           a.rec = "RETRY_SCHEDULED" <=> att[n].rec = "RETRY_SCHEDULED",
           a.effect = "WRITE" => att[n].effect = "WRITE" \/ n = Cur,
           a.write = "OPERATOR" => run.lifecycle \in Terminal,
           Budgeted'
    PROVE  RunInv'
<1>0. /\ att \in [Attempts -> AttemptRows(run.setting)] /\ Cur \in Attempts /\ Cur' = Cur
      /\ \A m \in Attempts : Sound(att[m]) /\ Current(m) /\ m \in Nat
      /\ TypeRun /\ Phase /\ RetriedOnce /\ Earned
  BY Facts, AttemptFacts DEF RunInv, Cur
<1>1. /\ att' \in [Attempts -> AttemptRows(run.setting)] /\ att'[n] = a
      /\ \A m \in Attempts : m # n => att'[m] = att[m]
  BY <1>0
<1>2. TypeRun'
  BY <1>0, <1>1, Facts, TypesNext
<1>3. \A m \in Attempts : Sound(att'[m]) /\ Current(m)'
  BY <1>0, <1>1 DEF Current
<1>4. Phase'
  BY <1>0, <1>1 DEF Phase, MaxAttempts
<1>5. RetriedOnce'
  <2>1. Retried' = Retried
    BY <1>1 DEF Retried
  <2> QED BY <1>0, <2>1 DEF RetriedOnce
<1>6. Earned'
  BY <1>0, <1>1 DEF Earned
<1> QED BY <1>2, <1>3, <1>4, <1>5, <1>6 DEF RunInv

(* The same, of a step that leaves the run alone. *)
LEMMA RowOnly ==
    ASSUME RunInv, NEW n \in Attempts, NEW a \in AttemptRows(run.setting),
           att' = [att EXCEPT ![n] = a], UNCHANGED <<now, run, hitl, issued, cancels>>,
           Sound(a), a.task = att[n].task,
           a.rec \in Recovering <=> att[n].rec \in Recovering,
           a.rec = "RETRY_SCHEDULED" <=> att[n].rec = "RETRY_SCHEDULED",
           a.effect = "WRITE" => att[n].effect = "WRITE" \/ n = Cur,
           a.write = "OPERATOR" => run.lifecycle \in Terminal,
           n = Cur /\ run.lifecycle = "RUNNING" /\ a.sess = "ACTIVE" => a.permit <= run.deadline
    PROVE  RunInv'
<1>1. run' = run /\ run' \in RunRows(run.setting)
  BY Facts
<1>2. Budgeted'
  <2>1. att'[Cur] = IF n = Cur THEN a ELSE att[Cur]
    BY Facts
  <2> QED BY <1>1, <2>1 DEF Budgeted, Cur, RunInv
<1> QED BY <1>1, <1>2, RowStep

(* One lemma per action: first those that leave the run as it is. *)
LEMMA AdmitKeeps ==
    ASSUME RunInv, Admit
    PROVE  RunInv'
<1> DEFINE n == Cur
           a == [att[n] EXCEPT !.sess = "ACTIVE", !.permit = now + Window]
<1>1. n \in Attempts /\ att[n] \in AttemptRows(run.setting) /\ Sound(att[n]) /\ Current(n)
  BY Facts
<1>2. att' = [att EXCEPT ![n] = a]
  BY <1>1, Facts DEF Admit
<1>3. a \in AttemptRows(run.setting)
  BY <1>1, Facts, SettingFacts DEF AttemptRows
<1>4. Sound(a)
  BY <1>1, <1>3 DEF Sound, Admit, AttemptRows
<1>5. run.lifecycle # "RUNNING"
  BY DEF RunInv, Phase, Admit
<1>6. a.task = att[n].task /\ a.rec = att[n].rec /\ a.effect = att[n].effect /\ a.write = att[n].write
  BY <1>1 DEF AttemptRows
<1> HIDE DEF a
<1> QED BY <1>1, <1>2, <1>3, <1>4, <1>5, <1>6, RowOnly DEF Admit, Current

(* A browser nobody claimed is closed, so it has no permit to bound. *)
LEMMA StartupExpiredKeeps ==
    ASSUME RunInv, StartupExpired
    PROVE  RunInv'
<1> DEFINE n == Cur
           a == [att[n] EXCEPT !.rec = "STARTUP_CLOSING",
                               !.sess = IF att[n].sess = "CLOSED" THEN "CLOSED" ELSE "LOST"]
<1>1. n \in Attempts /\ att[n] \in AttemptRows(run.setting) /\ Sound(att[n]) /\ Current(n)
  BY Facts
<1>2. att' = [att EXCEPT ![n] = a]
  BY <1>1, Facts DEF StartupExpired
<1>3. a \in AttemptRows(run.setting)
  BY <1>1 DEF AttemptRows
<1>4. Sound(a) /\ a.sess # "ACTIVE"
  BY <1>1, <1>3 DEF Sound, StartupExpired, AttemptRows, Recovering
<1>5. att[n].rec = "NONE" /\ a.rec = "STARTUP_CLOSING"
  BY <1>1 DEF AttemptRows, StartupExpired
<1>6. a.task = att[n].task /\ a.effect = att[n].effect /\ a.write = att[n].write
  BY <1>1 DEF AttemptRows
<1> HIDE DEF a
<1> QED BY <1>1, <1>2, <1>3, <1>4, <1>5, <1>6, RowOnly DEF StartupExpired, Current, Recovering

(* The attempt that gets another browser still has none. *)
LEMMA StartupRecoveredKeeps ==
    ASSUME RunInv, StartupRecovered
    PROVE  RunInv'
<1> DEFINE n == Cur
           back == run.lifecycle \in Runnable /\ run.deadline > now
           a == IF back
                THEN [att[n] EXCEPT !.rec = "NONE", !.sess = "NONE", !.write = "NONE",
                                    !.restarts = att[n].restarts + 1]
                ELSE [att[n] EXCEPT !.rec = "NONE"]
<1>1. n \in Attempts /\ att[n] \in AttemptRows(run.setting) /\ Sound(att[n]) /\ Current(n)
  BY Facts
<1>2. att' = [att EXCEPT ![n] = a]
  <2>1. CASE back
    <3>1. att' = [att EXCEPT ![n] =
                    [att[n] EXCEPT !.rec = "NONE", !.sess = "NONE", !.write = "NONE",
                                   !.restarts = att[n].restarts + 1]]
      BY <2>1, <1>1, Facts, Zenon DEF StartupRecovered
    <3> QED BY <2>1, <3>1
  <2>2. CASE ~back
    <3>1. att' = [att EXCEPT ![n] = [att[n] EXCEPT !.rec = "NONE"]]
      BY <2>2, <1>1, Facts, Zenon DEF StartupRecovered
    <3> QED BY <2>2, <3>1
  <2> QED BY <2>1, <2>2
<1>3. att[n].rec = "STARTUP_CLOSING" /\ att[n].task = "PENDING" /\ att[n].sess = "CLOSED"
  BY DEF StartupRecovered
<1>4. att[n].restarts \in 0..1
  BY <1>1, <1>3 DEF Sound, AttemptRows
<1>5. a \in AttemptRows(run.setting) /\ Sound(a) /\ a.sess # "ACTIVE"
  <2>1. CASE back
    <3>1. a \in AttemptRows(run.setting)
      <4>1. PICK k \in 0..2 : k = att[n].restarts + 1
        BY <1>4
      <4>2. [att[n] EXCEPT !.rec = "NONE", !.sess = "NONE", !.write = "NONE", !.restarts = k]
              \in AttemptRows(run.setting)
        BY <1>1 DEF AttemptRows
      <4> QED BY <2>1, <4>1, <4>2
    <3>2. Sound(a) /\ a.sess # "ACTIVE"
      BY <1>1, <1>3, <1>4, <2>1 DEF Sound, AttemptRows, WriteSettled, Recovering
    <3> QED BY <3>1, <3>2
  <2>2. CASE ~back
    <3>1. a \in AttemptRows(run.setting)
      BY <1>1, <2>2 DEF AttemptRows
    <3>2. Sound(a) /\ a.sess # "ACTIVE"
      BY <1>1, <1>3, <1>4, <2>2 DEF Sound, AttemptRows, WriteSettled, Recovering
    <3> QED BY <3>1, <3>2
  <2> QED BY <2>1, <2>2
<1>6. /\ a.task = att[n].task /\ a.rec = "NONE" /\ a.effect = att[n].effect
      /\ a.write \in {"NONE", att[n].write}
  BY <1>1 DEF AttemptRows
<1> HIDE DEF a
<1> QED BY <1>1, <1>2, <1>3, <1>5, <1>6, RowOnly DEF StartupRecovered, Current, Recovering

(* The assessment settles only what a stopped browser can be said to have done. *)
LEMMA RequestClosureKeeps ==
    ASSUME RunInv, NEW n \in Attempts, RequestClosure(n)
    PROVE  RunInv'
<1>1. att[n] \in AttemptRows(run.setting) /\ Sound(att[n]) /\ Current(n)
  BY Facts
<1>2. PICK proof \in BOOLEAN :
        att' = [att EXCEPT ![n].sess = "LOST", ![n].permit = 0, ![n].write = Assess(n, FALSE, proof)]
  BY DEF RequestClosure
<1>3. PICK w : w = Assess(n, FALSE, proof)
  OBVIOUS
<1>4. /\ w \in {"UNKNOWN"} \cup WriteSettled
      /\ w = "NO_WRITE" => att[n].effect # "WRITE"
      /\ w = "CONFIRMED" => att[n].task = "SUCCEEDED"
      /\ w = "OPERATOR" => att[n].write = "OPERATOR"
  BY <1>1, <1>3 DEF Assess, Sound, AttemptRows, WriteSettled
<1> DEFINE a == [att[n] EXCEPT !.sess = "LOST", !.permit = 0, !.write = w]
<1>5. att' = [att EXCEPT ![n] = a]
  BY <1>2, <1>3, Facts
<1>6. a \in AttemptRows(run.setting)
  BY <1>1, <1>4, Facts, SettingFacts DEF AttemptRows
<1>7. att[n].sess \in {"ACTIVE", "LOST"}
  BY DEF RequestClosure
<1>8. Sound(a) /\ a.sess # "ACTIVE"
  BY <1>1, <1>4, <1>7 DEF Sound, AttemptRows
<1>9. /\ a.task = att[n].task /\ a.rec = att[n].rec /\ a.effect = att[n].effect /\ a.write = w
  BY <1>1 DEF AttemptRows
<1> HIDE DEF a
<1> QED BY <1>1, <1>4, <1>5, <1>6, <1>8, <1>9, RowOnly DEF RequestClosure, Current

(* An unassessed recovery settles nothing. *)
LEMMA ObserveSessionKeeps ==
    ASSUME RunInv, NEW n \in Attempts, ObserveSession(n)
    PROVE  RunInv'
<1> DEFINE a == [att[n] EXCEPT !.write = "UNKNOWN"]
<1>1. att[n] \in AttemptRows(run.setting) /\ Sound(att[n]) /\ Current(n)
  BY Facts
<1>2. att' = [att EXCEPT ![n] = a]
  BY <1>1, Facts DEF ObserveSession
<1>3. a \in AttemptRows(run.setting)
  BY <1>1 DEF AttemptRows
<1>4. Sound(a)
  BY <1>1, <1>3 DEF Sound, AttemptRows, WriteSettled, ObserveSession
<1>5. /\ a.task = att[n].task /\ a.rec = att[n].rec /\ a.effect = att[n].effect /\ a.write = "UNKNOWN"
      /\ a.sess = att[n].sess /\ a.permit = att[n].permit
  BY <1>1 DEF AttemptRows
<1>6. n = Cur /\ run.lifecycle = "RUNNING" /\ a.sess = "ACTIVE" => a.permit <= run.deadline
  BY <1>5 DEF RunInv, Budgeted
<1> HIDE DEF a
<1> QED BY <1>1, <1>2, <1>3, <1>4, <1>5, <1>6, RowOnly DEF ObserveSession, Current

(* A lost session has no permit. *)
LEMMA SessionLostKeeps ==
    ASSUME RunInv, NEW n \in Attempts, SessionLost(n)
    PROVE  RunInv'
<1> DEFINE a == [att[n] EXCEPT !.sess = "LOST", !.permit = 0]
<1>1. att[n] \in AttemptRows(run.setting) /\ Sound(att[n]) /\ Current(n)
  BY Facts
<1>2. att' = [att EXCEPT ![n] = a]
  BY <1>1, Facts DEF SessionLost
<1>3. a \in AttemptRows(run.setting)
  BY <1>1, Facts, SettingFacts DEF AttemptRows
<1>4. Sound(a)
  BY <1>1, <1>3 DEF Sound, AttemptRows, WriteSettled, SessionLost
<1>5. /\ a.task = att[n].task /\ a.rec = att[n].rec /\ a.effect = att[n].effect
      /\ a.write = att[n].write /\ a.sess # "ACTIVE"
  BY <1>1 DEF AttemptRows
<1> HIDE DEF a
<1> QED BY <1>1, <1>2, <1>3, <1>4, <1>5, RowOnly DEF SessionLost, Current

(* A task being recovered is behind its fence, so its state survives the
   reconciliation. *)
LEMMA ClosureVerifiedKeeps ==
    ASSUME RunInv, NEW n \in Attempts, ClosureVerified(n)
    PROVE  RunInv'
<1>1. att[n] \in AttemptRows(run.setting) /\ Sound(att[n]) /\ Current(n)
  BY Facts
<1>2. PICK proof \in BOOLEAN :
        att' = [att EXCEPT ![n].sess = "CLOSED", ![n].write = Assess(n, TRUE, proof),
                           ![n].rec = Reconciled(n, Assess(n, TRUE, proof))]
  BY DEF ClosureVerified
<1>3. PICK w : w = Assess(n, TRUE, proof)
  OBVIOUS
<1>4. PICK r : r = Reconciled(n, w)
  OBVIOUS
<1>5. /\ w \in {"UNKNOWN"} \cup WriteSettled
      /\ w = "NO_WRITE" => att[n].effect # "WRITE"
      /\ w = "CONFIRMED" => att[n].task = "SUCCEEDED"
      /\ w = "OPERATOR" => att[n].write = "OPERATOR"
  BY <1>1, <1>3 DEF Assess, Sound, AttemptRows, WriteSettled
<1>6. att[n].sess = "LOST" /\ att[n].rec # "RETRY_SCHEDULED"
  BY <1>1 DEF ClosureVerified, Sound
<1>7. \/ r = att[n].rec
      \/ r = "RESOLVED" /\ att[n].rec = "WRITE_OUTCOME_UNKNOWN" /\ att[n].task \notin OpenTask
      \/ /\ r = "WRITE_OUTCOME_UNKNOWN" /\ att[n].task \in {"FAILED", "CANCELLED", "TIMED_OUT"}
         /\ att[n].owner = att[n].fence
  BY <1>4 DEF Reconciled
<1> DEFINE a == [att[n] EXCEPT !.sess = "CLOSED", !.write = w, !.rec = r]
<1>8. att' = [att EXCEPT ![n] = a]
  BY <1>2, <1>3, <1>4, Facts
<1>9. a \in AttemptRows(run.setting)
  <2>1. r \in {"NONE", "STARTUP_CLOSING"} \cup Recovering \cup Decided
    BY <1>1, <1>7 DEF AttemptRows, Decided
  <2> QED BY <1>1, <1>5, <2>1 DEF AttemptRows
<1>10. /\ a.task = att[n].task /\ a.rec = r /\ a.effect = att[n].effect /\ a.write = w
       /\ a.sess = "CLOSED" /\ a.owner = att[n].owner /\ a.fence = att[n].fence
       /\ a.restarts = att[n].restarts
  BY <1>1 DEF AttemptRows
<1>11. att[n].owner \in Nat /\ att[n].fence \in Nat
  BY Facts
<1> HIDE DEF a
<1>12. r \in Recovering <=> att[n].rec \in Recovering
  BY <1>1, <1>7, <1>11 DEF Sound, Recovering
<1>13. Sound(a)
  BY <1>1, <1>5, <1>6, <1>7, <1>10, <1>11, <1>12 DEF Sound, OpenTask, Recovering
<1>14. r = "RETRY_SCHEDULED" <=> att[n].rec = "RETRY_SCHEDULED"
  BY <1>6, <1>7
<1> QED BY <1>1, <1>5, <1>8, <1>9, <1>10, <1>12, <1>13, <1>14, RowOnly DEF ClosureVerified, Current

(* An operator settles the writes of an ended run only. *)
LEMMA OperatorResolvesKeeps ==
    ASSUME RunInv, NEW n \in Attempts, OperatorResolves(n)
    PROVE  RunInv'
<1> DEFINE a == [att[n] EXCEPT !.write = "OPERATOR",
                               !.rec = IF att[n].owner # 0 THEN "RESOLVED" ELSE att[n].rec]
<1>1. att[n] \in AttemptRows(run.setting) /\ Sound(att[n]) /\ Current(n)
  BY Facts
<1>2. att' = [att EXCEPT ![n] = a]
  BY <1>1, Facts DEF OperatorResolves
<1>3. a \in AttemptRows(run.setting)
  <2>1. PICK r : r = IF att[n].owner # 0 THEN "RESOLVED" ELSE att[n].rec
    OBVIOUS
  <2>2. r \in {"NONE", "STARTUP_CLOSING"} \cup Recovering \cup Decided
    BY <1>1, <2>1 DEF AttemptRows, Decided
  <2>3. [att[n] EXCEPT !.write = "OPERATOR", !.rec = r] \in AttemptRows(run.setting)
    BY <1>1, <2>2 DEF AttemptRows, WriteSettled
  <2> QED BY <2>1, <2>3
<1>4. /\ a.task = att[n].task /\ a.effect = att[n].effect /\ a.write = "OPERATOR"
      /\ a.rec = IF att[n].owner # 0 THEN "RESOLVED" ELSE att[n].rec
      /\ a.sess = "CLOSED" /\ att[n].sess = "CLOSED"
      /\ a.owner = att[n].owner /\ a.fence = att[n].fence
      /\ a.restarts = att[n].restarts
  BY <1>1 DEF AttemptRows, OperatorResolves
<1>5. att[n].owner # 0 => att[n].rec \notin Recovering /\ att[n].rec # "RETRY_SCHEDULED"
  BY DEF OperatorResolves
<1>6. run.lifecycle \in Terminal /\ att[n].task \notin OpenTask
  BY DEF OperatorResolves
<1> HIDE DEF a
<1>7. Sound(a)
  <2>1. CASE att[n].owner # 0
    BY <1>1, <1>4, <1>6, <2>1 DEF Sound, OpenTask, WriteSettled, Recovering
  <2>2. CASE att[n].owner = 0
    BY <1>1, <1>4, <1>6, <2>2 DEF Sound, OpenTask, WriteSettled
  <2> QED BY <2>1, <2>2
<1>8. /\ a.rec \in Recovering <=> att[n].rec \in Recovering
      /\ a.rec = "RETRY_SCHEDULED" <=> att[n].rec = "RETRY_SCHEDULED"
  BY <1>4, <1>5 DEF Recovering
<1> QED BY <1>1, <1>2, <1>3, <1>4, <1>6, <1>7, <1>8, RowOnly DEF OperatorResolves, Current

(* An owner's lease is of the current attempt, and its run is running. *)
LEMMA OwnerIsCurrent ==
    ASSUME RunInv, NEW c \in issued, Owns(c)
    PROVE  /\ c.n \in Attempts /\ c.n = Cur /\ c.fence \in Nat /\ att[c.n].fence = c.fence
           /\ att[c.n].task = "RUNNING" /\ att[c.n].rec = "NONE"
           /\ run.lifecycle = "RUNNING"
<1>1. c.n \in Attempts /\ c.fence \in Nat /\ Sound(att[c.n]) /\ Current(c.n)
  BY Facts
<1> QED BY <1>1 DEF Owns, Current, Sound, OpenTask

(* Only the current attempt writes. *)
LEMMA BrowserCommandKeeps ==
    ASSUME RunInv, NEW c \in issued, BrowserCommand(c)
    PROVE  RunInv'
<1>1. PICK e \in {"COMMAND", "WRITE"} : att' = [att EXCEPT ![c.n].effect = e]
  BY DEF BrowserCommand
<1>2. PICK n : n = c.n
  OBVIOUS
<1>3. n \in Attempts /\ n = Cur /\ att[n].sess = "ACTIVE"
  BY <1>2, OwnerIsCurrent DEF BrowserCommand, Usable
<1>4. att[n] \in AttemptRows(run.setting) /\ Sound(att[n]) /\ Current(n)
  BY <1>3, Facts
<1> DEFINE a == [att[n] EXCEPT !.effect = e]
<1>5. att' = [att EXCEPT ![n] = a]
  BY <1>1, <1>2, <1>3, Facts
<1>6. a \in AttemptRows(run.setting)
  BY <1>4 DEF AttemptRows
<1>7. /\ a.task = att[n].task /\ a.rec = att[n].rec /\ a.write = att[n].write
      /\ a.sess = att[n].sess /\ a.permit = att[n].permit
  BY <1>4 DEF AttemptRows
<1>8. Sound(a)
  BY <1>3, <1>4, <1>6 DEF Sound, AttemptRows, WriteSettled
<1>9. n = Cur /\ run.lifecycle = "RUNNING" /\ a.sess = "ACTIVE" => a.permit <= run.deadline
  BY <1>7 DEF RunInv, Budgeted
<1> HIDE DEF a
<1> QED BY <1>3, <1>4, <1>5, <1>6, <1>7, <1>8, <1>9, RowOnly DEF BrowserCommand, Current

(* An announcement moves nothing that an invariant is about. *)
LEMMA FinalizeKeeps ==
    ASSUME RunInv, NEW c \in issued, Finalize(c)
    PROVE  RunInv'
<1>1. PICK n : n = c.n
  OBVIOUS
<1> DEFINE a == [att[n] EXCEPT !.ckpt = c.fence]
<1>2. n \in Attempts /\ c.fence \in Nat
  BY <1>1, Facts
<1>3. att[n] \in AttemptRows(run.setting) /\ Sound(att[n]) /\ Current(n)
  BY <1>2, Facts
<1>4. att' = [att EXCEPT ![n] = a]
  BY <1>1, <1>2, Facts DEF Finalize
<1>5. a \in AttemptRows(run.setting)
  BY <1>2, <1>3 DEF AttemptRows
<1>6. /\ a.task = att[n].task /\ a.rec = att[n].rec /\ a.write = att[n].write
      /\ a.effect = att[n].effect /\ a.sess = att[n].sess /\ a.permit = att[n].permit
  BY <1>3 DEF AttemptRows
<1>7. Sound(a)
  BY <1>3, <1>5 DEF Sound, AttemptRows
<1>8. n = Cur /\ run.lifecycle = "RUNNING" /\ a.sess = "ACTIVE" => a.permit <= run.deadline
  BY <1>6 DEF RunInv, Budgeted
<1> HIDE DEF a
<1> QED BY <1>2, <1>3, <1>4, <1>5, <1>6, <1>7, <1>8, RowOnly DEF Finalize, Current

(* A deferred recovery is still one. *)
LEMMA DeferRecoveryKeeps ==
    ASSUME RunInv, NEW n \in Attempts, DeferRecovery(n)
    PROVE  RunInv'
<1> DEFINE a == [att[n] EXCEPT !.rec = "CLOSING"]
<1>1. att[n] \in AttemptRows(run.setting) /\ Sound(att[n]) /\ Current(n) /\ att[n].rec = "PENDING"
  BY Facts DEF DeferRecovery
<1>2. att' = [att EXCEPT ![n] = a]
  BY <1>1, Facts DEF DeferRecovery
<1>3. a \in AttemptRows(run.setting)
  BY <1>1 DEF AttemptRows, Recovering
<1>4. /\ a.task = att[n].task /\ a.rec = "CLOSING" /\ a.write = att[n].write
      /\ a.effect = att[n].effect /\ a.sess = att[n].sess /\ a.permit = att[n].permit
  BY <1>1 DEF AttemptRows
<1>5. Sound(a)
  BY <1>1, <1>3 DEF Sound, AttemptRows, Recovering
<1>6. n = Cur /\ run.lifecycle = "RUNNING" /\ a.sess = "ACTIVE" => a.permit <= run.deadline
  BY <1>4 DEF RunInv, Budgeted
<1> HIDE DEF a
<1> QED BY <1>1, <1>2, <1>3, <1>4, <1>5, <1>6, RowOnly DEF DeferRecovery, Current, Recovering

(* The permit follows the deadline as it was, the deadline moves only forward. *)
LEMMA HeartbeatKeeps ==
    ASSUME RunInv, NEW c \in issued, Heartbeat(c)
    PROVE  RunInv'
<1>1. PICK d \in {run.deadline} \cup {EarlierOf(run.deadline + 1, run.hard)} :
        run' = [run EXCEPT !.deadline = IF d > run.deadline THEN d ELSE run.deadline]
  BY DEF Heartbeat
<1>2. PICK n, e : n = c.n /\ e = IF d > run.deadline THEN d ELSE run.deadline
  OBVIOUS
<1>3. PICK p : p = IF att[n].sess = "ACTIVE" /\ att[n].owner = c.fence
                   THEN EarlierOf(now + TaskLease, run.deadline) ELSE att[n].permit
  OBVIOUS
<1>4. n \in Attempts /\ n = Cur /\ run.lifecycle = "RUNNING"
  BY <1>2, OwnerIsCurrent DEF Heartbeat
<1>5. att[n] \in AttemptRows(run.setting) /\ Sound(att[n]) /\ Current(n) /\ Cur = run.attempt
  BY <1>4, Facts DEF Cur
<1>6. run.deadline <= run.hard /\ run.deadline \in Nat /\ run.hard \in Nat
  BY <1>4, Facts DEF RunInv, Budgeted, Runnable
<1>7. run.deadline <= e /\ e <= run.hard /\ e \in Nat
  BY <1>1, <1>2, <1>6 DEF EarlierOf
<1>8. e \in TimesOf(run.setting)
  BY <1>6, <1>7, Facts, SettingFacts DEF RunRows, TimesOf
<1>9. /\ run' \in RunRows(run.setting) /\ run'.deadline = e /\ run'.hard = run.hard
      /\ run'.setting = run.setting /\ run'.attempt = run.attempt
      /\ run'.lifecycle = run.lifecycle /\ run'.verdict = run.verdict
      /\ run'.disposition = run.disposition /\ run'.recoveries = run.recoveries
  BY <1>1, <1>2, <1>8, Facts DEF RunRows
<1>10. now + TaskLease \in TimesOf(run.setting) /\ now + TaskLease \in Nat
  BY Facts, SettingFacts DEF TaskLease
<1>11. p \in TimesOf(run.setting)
  BY <1>3, <1>5, <1>10, Facts DEF EarlierOf, AttemptRows, RunRows
<1>12. att[n].sess = "ACTIVE" => p <= run.deadline
  BY <1>3, <1>4, <1>6, <1>10 DEF EarlierOf, RunInv, Budgeted
<1> DEFINE a == [att[n] EXCEPT !.lease = now + TaskLease, !.permit = p]
<1>13. att' = [att EXCEPT ![n] = a]
  BY <1>2, <1>3, <1>4, Facts DEF Heartbeat
<1>14. a \in AttemptRows(run.setting)
  BY <1>5, <1>10, <1>11 DEF AttemptRows
<1>15. /\ a.task = att[n].task /\ a.rec = att[n].rec /\ a.write = att[n].write
       /\ a.effect = att[n].effect /\ a.sess = att[n].sess /\ a.permit = p
  BY <1>5 DEF AttemptRows
<1>16. Sound(a)
  BY <1>5, <1>14 DEF Sound, AttemptRows
<1> HIDE DEF a
<1>17. Budgeted'
  <2>1. att'[run'.attempt] = a
    BY <1>4, <1>5, <1>9, <1>13, Facts
  <2>2. p \in Nat
    BY <1>11, Facts, SettingFacts
  <2> QED BY <1>4, <1>6, <1>7, <1>9, <1>12, <1>15, <2>1, <2>2 DEF Budgeted, Cur, Runnable
<1>18. UNCHANGED <<now, hitl, issued, cancels>>
  BY DEF Heartbeat
<1>19. a.write = "OPERATOR" => run.lifecycle \in Terminal
  BY <1>5, <1>15 DEF Current
<1> QED BY <1>4, <1>5, <1>9, <1>13, <1>14, <1>15, <1>16, <1>17, <1>18, <1>19, RowStep

-----------------------------------------------------------------------------
(* The run r, its current attempt a and its intervention h agree. *)
Agree(r, a, h) ==
    /\ h.status = "PENDING" <=> r.lifecycle = "WAITING_HUMAN"
    /\ r.lifecycle = "WAITING_HUMAN" => h.n = Cur /\ a.task = "WAITING_HUMAN"
    /\ r.lifecycle \in Runnable => a.task \in {"PENDING", "RUNNING"} \/ a.rec \in Recovering
    /\ r.lifecycle = "RUNNING" => a.task # "PENDING"
    /\ a.task = "RUNNING" => r.lifecycle = "RUNNING"
    /\ r.lifecycle \in Terminal => a.task \notin OpenTask
    /\ r.lifecycle \in Runnable => r.deadline <= r.hard
    /\ r.lifecycle = "RUNNING" /\ a.sess = "ACTIVE" => a.permit <= r.deadline
    /\ r.verdict # "NONE" =>
          r.lifecycle = "COMPLETED" /\ r.disposition = "EXECUTED" /\ a.task = "SUCCEEDED"
    /\ a.write = "OPERATOR" => r.lifecycle \in Terminal

(* What is known of the current attempt. *)
LEMMA CurrentFacts ==
    ASSUME RunInv
    PROVE  /\ att[Cur] \in AttemptRows(run.setting) /\ Sound(att[Cur]) /\ Current(Cur)
           /\ Agree(run, att[Cur], hitl)
           /\ att[Cur].rec # "RETRY_SCHEDULED"
<1>1. att[Cur] \in AttemptRows(run.setting) /\ Sound(att[Cur]) /\ Current(Cur) /\ Cur \in Nat
  BY Facts
<1>2. Phase /\ Budgeted /\ Earned
  BY DEF RunInv
<1> QED BY <1>1, <1>2 DEF Agree, Phase, Budgeted, Earned, Current

(* The current attempt moves with its run. *)
LEMMA CurrentMoves ==
    ASSUME RunInv, NEW a \in AttemptRows(run.setting),
           att' = [att EXCEPT ![Cur] = a], run' \in RunRows(run.setting),
           run'.setting = run.setting, run'.attempt = run.attempt,
           run'.recoveries = run.recoveries,
           run.lifecycle \in Terminal => run'.lifecycle \in Terminal,
           hitl' \in Interventions(run.setting), issued' \subseteq [n : Attempts, fence : Nat],
           cancels' \in {"IDLE", "BLOCKED", "NOT_RUN", "DONE"}, now' = now,
           Sound(a), a.rec # "RETRY_SCHEDULED", Agree(run', a, hitl')
    PROVE  RunInv'
<1>0. /\ att \in [Attempts -> AttemptRows(run.setting)] /\ Cur \in Attempts /\ Cur' = Cur
      /\ \A m \in Attempts : Sound(att[m]) /\ Current(m) /\ m \in Nat
      /\ TypeRun /\ Phase /\ RetriedOnce /\ Earned
  BY Facts, AttemptFacts DEF RunInv, Cur
<1>1. /\ att' \in [Attempts -> AttemptRows(run.setting)] /\ att'[Cur] = a /\ att'[Cur'] = a
      /\ \A m \in Attempts : m # Cur => att'[m] = att[m]
  BY <1>0
<1>2. TypeRun'
  BY <1>0, <1>1, Facts, TypesNext
<1>3. \A m \in Attempts : Sound(att'[m])
  BY <1>0, <1>1
<1>4. ASSUME NEW m \in Attempts PROVE Current(m)'
  <2>1. CASE m = Cur
    <3>1. Cur \in Nat
      BY Facts
    <3> QED BY <1>0, <1>1, <2>1, <3>1 DEF Current, Agree
  <2>2. CASE m # Cur
    <3>1. att'[m] = att[m] /\ Current(m) /\ att[m].task # "RUNNING"
      BY <1>0, <1>1, <2>2 DEF Current, OpenTask
    <3> QED BY <1>0, <2>2, <3>1 DEF Current
  <2> QED BY <2>1, <2>2
<1>5. Phase'
  BY <1>0, <1>1 DEF Phase, Agree, MaxAttempts
<1>6. Budgeted' /\ Earned'
  BY <1>0, <1>1 DEF Budgeted, Earned, Agree
<1>7. RetriedOnce'
  <2>1. Retried' = Retried
    BY <1>0, <1>1, CurrentFacts DEF Retried
  <2> QED BY <1>0, <2>1 DEF RetriedOnce
<1> QED BY <1>2, <1>3, <1>4, <1>5, <1>6, <1>7 DEF RunInv

(* A further attempt begins. *)
LEMMA NextAttempt ==
    ASSUME RunInv, NEW a \in AttemptRows(run.setting), Cur < MaxAttempts,
           att' = [m \in Attempts |-> IF m = Cur THEN a
                                      ELSE IF m = Cur + 1 THEN NewAttempt ELSE att[m]],
           run' \in RunRows(run.setting), run'.setting = run.setting, run'.attempt = Cur + 1,
           run'.lifecycle = "QUEUED", run'.verdict = "NONE",
           run'.deadline = run.deadline, run'.hard = run.hard,
           run.lifecycle \in Runnable,
           UNCHANGED <<now, hitl, issued, cancels>>,
           Sound(a), a.task \notin OpenTask, a.rec \notin Recovering, a.effect # "WRITE",
           a.write # "OPERATOR",
           \/ a.rec = "RETRY_SCHEDULED" /\ run.recoveries = 0 /\ run'.recoveries = 1
           \/ a.rec # "RETRY_SCHEDULED" /\ run'.recoveries = run.recoveries
    PROVE  RunInv'
<1> DEFINE n == Cur + 1
<1>0. /\ att \in [Attempts -> AttemptRows(run.setting)] /\ Cur \in Attempts /\ Cur \in Nat
      /\ \A m \in Attempts : Sound(att[m]) /\ Current(m) /\ m \in Nat
      /\ TypeRun /\ Phase /\ RetriedOnce /\ Budgeted
  BY Facts, AttemptFacts DEF RunInv
<1>1. n \in Attempts /\ n \in 1..run.setting.attempts /\ n # Cur /\ Cur' = n
  BY <1>0, Facts, SettingFacts DEF MaxAttempts, Cur
<1>2. /\ NewAttempt \in AttemptRows(run.setting) /\ Sound(NewAttempt)
      /\ NewAttempt.task = "PENDING" /\ NewAttempt.rec = "NONE" /\ NewAttempt.effect = "NONE"
      /\ NewAttempt.write = "NONE" /\ NewAttempt.sess = "NONE"
  BY Facts, SettingFacts DEF NewAttempt, NoAttempt, AttemptRows, Sound, OpenTask, WriteSettled, Recovering
<1>3. /\ att' \in [Attempts -> AttemptRows(run.setting)] /\ att'[Cur] = a /\ att'[n] = NewAttempt
      /\ \A m \in Attempts : m # Cur /\ m # n => att'[m] = att[m]
  BY <1>0, <1>1, <1>2
<1>4. TypeRun'
  BY <1>3, Facts, TypesNext
<1>5. \A m \in Attempts : Sound(att'[m])
  BY <1>0, <1>2, <1>3
<1>6. ASSUME NEW m \in Attempts PROVE Current(m)'
  <2>1. CASE m = Cur
    BY <1>0, <1>1, <1>3, <2>1 DEF Current, OpenTask
  <2>2. CASE m = n
    BY <1>0, <1>1, <1>2, <1>3, <2>2 DEF Current
  <2>3. CASE m # Cur /\ m # n
    <3>1. att'[m] = att[m] /\ Current(m) /\ m \in Nat
      BY <1>0, <1>3, <2>3
    <3>2. att[m].task \notin OpenTask /\ att[m].rec \notin Recovering /\ att[m].write # "OPERATOR"
      BY <2>3, <3>1 DEF Current, Runnable, Terminal
    <3>3. m < n => m < Cur
      BY <1>0, <2>3, <3>1
    <3> QED BY <1>0, <1>1, <2>3, <3>1, <3>2, <3>3 DEF Current, OpenTask
  <2> QED BY <2>1, <2>2, <2>3
<1>7. Phase'
  <2>1. hitl.status # "PENDING"
    BY <1>0 DEF Phase, Runnable
  <2> QED BY <1>0, <1>1, <1>2, <1>3, <2>1 DEF Phase, MaxAttempts, Terminal
<1>8. Budgeted' /\ Earned'
  BY <1>0 DEF Budgeted, Earned
<1>9. RetriedOnce'
  <2>1. att[n].rec # "RETRY_SCHEDULED" /\ att[Cur].rec # "RETRY_SCHEDULED"
    BY <1>0, <1>1 DEF Current
  <2>2. CASE a.rec # "RETRY_SCHEDULED"
    <3>1. Retried' = Retried
      BY <1>0, <1>1, <1>2, <1>3, <2>1, <2>2 DEF Retried
    <3> QED BY <1>0, <2>2, <3>1 DEF RetriedOnce
  <2>3. CASE a.rec = "RETRY_SCHEDULED"
    <3>1. Retried = {}
      BY <1>0, <2>3 DEF RetriedOnce
    <3>2. Retried' = {Cur}
      BY <1>0, <1>1, <1>2, <1>3, <2>3, <3>1 DEF Retried
    <3> QED BY <1>0, <2>3, <3>2 DEF RetriedOnce
  <2> QED BY <2>2, <2>3
<1> QED BY <1>4, <1>5, <1>6, <1>7, <1>8, <1>9 DEF RunInv

(* The actions that move the run with its current attempt. *)
LEMMA AdmissionFailedKeeps ==
    ASSUME RunInv, AdmissionFailed
    PROVE  RunInv'
<1> DEFINE a == [att[Cur] EXCEPT !.task = "FAILED"]
<1>1. /\ att[Cur] \in AttemptRows(run.setting) /\ Sound(att[Cur]) /\ Agree(run, att[Cur], hitl)
      /\ run \in RunRows(run.setting)
  BY CurrentFacts, Facts
<1>2. att' = [att EXCEPT ![Cur] = a]
  BY Facts DEF AdmissionFailed
<1>3. a \in AttemptRows(run.setting)
  BY <1>1 DEF AttemptRows
<1>4. a.task = "FAILED" /\ a.rec = "NONE"
  BY <1>1 DEF AttemptRows, AdmissionFailed
<1>5. Sound(a)
  BY <1>1, <1>3, <1>4 DEF Sound, AttemptRows, AdmissionFailed, Recovering
<1>6. run.lifecycle \in Runnable /\ UNCHANGED <<now, hitl, issued, cancels>>
  BY DEF AdmissionFailed
<1>7. /\ run' \in RunRows(run.setting) /\ run'.setting = run.setting /\ run'.attempt = run.attempt
      /\ run'.recoveries = run.recoveries /\ run'.lifecycle = "COMPLETED" /\ run'.verdict = "NONE"
  BY <1>1 DEF RunRows, AdmissionFailed, Terminal
<1>8. Agree(run', a, hitl')
  BY <1>1, <1>4, <1>6, <1>7 DEF Agree, Runnable, Terminal, OpenTask
<1> HIDE DEF a
<1> QED BY <1>2, <1>3, <1>4, <1>5, <1>6, <1>7, <1>8, Facts, CurrentMoves DEF Terminal

(* The lease, the permit and the budget begin together. *)
LEMMA ClaimKeeps ==
    ASSUME RunInv, NEW n \in Attempts, Claim(n)
    PROVE  RunInv'
<1>1. /\ att[n] \in AttemptRows(run.setting) /\ Sound(att[n]) /\ Current(n)
      /\ att[n].fence \in Nat /\ run \in RunRows(run.setting) /\ run.deadline \in Nat /\ run.hard \in Nat
  BY Facts
<1>2. /\ att[n].task = "PENDING" /\ run.lifecycle \in Runnable /\ Usable(n)
      /\ att[n].rec # "STARTUP_CLOSING" /\ UNCHANGED <<now, hitl, cancels>>
  BY DEF Claim
<1>3. n = Cur /\ att[n].rec = "NONE" /\ att[n].sess = "ACTIVE"
  BY <1>1, <1>2 DEF Current, OpenTask, Sound, Usable
<1>4. PICK d, f : /\ d = IF run.budgeted THEN run.deadline ELSE now + Budget
                  /\ f = att[n].fence + 1
  OBVIOUS
<1>5. PICK h : h = IF run.budgeted THEN run.hard ELSE d + Extension
  OBVIOUS
<1>6. /\ d \in TimesOf(run.setting) /\ h \in TimesOf(run.setting) /\ d \in Nat /\ d <= h
      /\ now + TaskLease \in TimesOf(run.setting) /\ now + TaskLease \in Nat
      /\ f \in Nat
  <2>1. CASE run.budgeted
    BY <1>1, <1>2, <1>4, <1>5, <2>1, Facts, SettingFacts DEF RunInv, Budgeted, RunRows, TaskLease
  <2>2. CASE ~run.budgeted
    BY <1>1, <1>4, <1>5, <2>2, Facts, SettingFacts DEF TaskLease, Budget, Extension
  <2> QED BY <2>1, <2>2
<1>7. PICK p : p = EarlierOf(now + TaskLease, d)
  OBVIOUS
<1>8. p \in TimesOf(run.setting) /\ p <= d
  BY <1>6, <1>7 DEF EarlierOf
<1> DEFINE a == [att[Cur] EXCEPT !.task = "RUNNING", !.fence = f, !.lease = now + TaskLease,
                                 !.owner = f, !.permit = p]
<1>9. /\ run' = [run EXCEPT !.lifecycle = "RUNNING", !.started = TRUE, !.budgeted = TRUE,
                            !.deadline = d, !.hard = h]
      /\ att' = [att EXCEPT ![Cur] = a] /\ issued' = issued \cup {[n |-> n, fence |-> f]}
  <2>1. /\ run' = [run EXCEPT !.lifecycle = "RUNNING", !.started = TRUE, !.budgeted = TRUE,
                            !.deadline = d, !.hard = h]
        /\ issued' = issued \cup {[n |-> n, fence |-> f]}
    BY <1>4, <1>5 DEF Claim
  <2>2. att' = [att EXCEPT ![n].task = "RUNNING", ![n].fence = f, ![n].lease = now + TaskLease,
                           ![n].owner = f, ![n].permit = p]
    BY <1>4, <1>7 DEF Claim
  <2> QED BY <1>3, <2>1, <2>2, Facts
<1>10. a \in AttemptRows(run.setting)
  BY <1>1, <1>3, <1>6, <1>8 DEF AttemptRows, OpenTask
<1>11. /\ a.task = "RUNNING" /\ a.rec = "NONE" /\ a.sess = "ACTIVE" /\ a.permit = p
       /\ a.write = att[n].write /\ a.owner = f /\ a.fence = f /\ a.restarts = att[n].restarts
  BY <1>1, <1>3 DEF AttemptRows
<1> HIDE DEF a
<1>12. a.write \notin WriteSettled
  BY <1>1, <1>3, <1>11 DEF Sound
<1>13. Sound(a)
  BY <1>1, <1>3, <1>6, <1>11, <1>12 DEF Sound, WriteSettled, Recovering
<1>14. /\ run' \in RunRows(run.setting) /\ run'.setting = run.setting /\ run'.attempt = run.attempt
       /\ run'.recoveries = run.recoveries /\ run'.lifecycle = "RUNNING"
       /\ run'.verdict = run.verdict /\ run'.deadline = d /\ run'.hard = h
  BY <1>1, <1>6, <1>9 DEF RunRows, Runnable
<1>15. hitl.status # "PENDING" /\ run.verdict = "NONE"
  BY <1>2, <1>1, CurrentFacts DEF Agree, Runnable, RunRows
<1>16. Agree(run', a, hitl')
  BY <1>2, <1>6, <1>8, <1>11, <1>12, <1>14, <1>15 DEF Agree, Runnable, Terminal, WriteSettled
<1>17. issued' \subseteq [n : Attempts, fence : Nat]
  BY <1>6, <1>9, Facts
<1>18. run.lifecycle \notin Terminal
  BY <1>2 DEF Runnable, Terminal
<1> QED BY <1>2, <1>9, <1>10, <1>11, <1>13, <1>14, <1>16, <1>17, <1>18, Facts, CurrentMoves

(* The intervention is of the attempt that asked. *)
LEMMA RequestHumanKeeps ==
    ASSUME RunInv, NEW c \in issued, RequestHuman(c)
    PROVE  RunInv'
<1>1. /\ c.n \in Attempts /\ c.n = Cur /\ c.fence \in Nat /\ att[Cur].task = "RUNNING"
      /\ att[Cur].rec = "NONE" /\ run.lifecycle = "RUNNING"
  BY OwnerIsCurrent DEF RequestHuman, AcceptsOutcome
<1>2. /\ att[Cur] \in AttemptRows(run.setting) /\ Sound(att[Cur]) /\ Agree(run, att[Cur], hitl)
      /\ run \in RunRows(run.setting)
  BY CurrentFacts, Facts
<1>3. PICK x : x = IF PauseForHuman THEN now + HumanTime ELSE EarlierOf(now + HumanTime, run.deadline)
  OBVIOUS
<1>4. x \in TimesOf(run.setting)
  BY <1>2, <1>3, Facts, SettingFacts DEF EarlierOf, RunRows
<1>5. PICK d : d = IF PauseForHuman THEN x ELSE run.deadline
  OBVIOUS
<1>6. d \in TimesOf(run.setting)
  BY <1>2, <1>4, <1>5 DEF RunRows
<1> DEFINE a == [att[Cur] EXCEPT !.task = "WAITING_HUMAN", !.lease = 0, !.done = c.fence]
<1>7. /\ hitl' = [status |-> "PENDING", n |-> Cur, exp |-> x]
      /\ run' = [run EXCEPT !.lifecycle = "WAITING_HUMAN", !.disposition = "BLOCKED",
                            !.verdict = "NONE", !.asked = run.asked + 1, !.deadline = d]
      /\ att' = [att EXCEPT ![Cur] = a] /\ UNCHANGED <<now, issued, cancels>>
  <2>1. /\ hitl' = [status |-> "PENDING", n |-> Cur, exp |-> x]
        /\ run' = [run EXCEPT !.lifecycle = "WAITING_HUMAN", !.disposition = "BLOCKED",
                              !.verdict = "NONE", !.asked = run.asked + 1, !.deadline = d]
        /\ UNCHANGED <<now, issued, cancels>>
    BY <1>1, <1>3, <1>5 DEF RequestHuman
  <2>2. att' = [att EXCEPT ![Cur] = a]
    BY <1>1, Facts DEF RequestHuman
  <2> QED BY <2>1, <2>2
<1>8. a \in AttemptRows(run.setting)
  <2>1. 0 \in TimesOf(run.setting)
    BY Facts, SettingFacts
  <2>2. PICK w \in AttemptRows(run.setting) : w = [att[Cur] EXCEPT !.task = "WAITING_HUMAN"]
    BY <1>2 DEF AttemptRows, OpenTask
  <2>3. PICK f \in Nat : f = c.fence
    BY <1>1
  <2>4. [w EXCEPT !.lease = 0, !.done = f] \in AttemptRows(run.setting)
    BY <2>1 DEF AttemptRows
  <2> QED BY <2>2, <2>3, <2>4
<1>9. /\ a.task = "WAITING_HUMAN" /\ a.rec = "NONE" /\ a.write = att[Cur].write
      /\ a.sess = att[Cur].sess /\ a.permit = att[Cur].permit
  BY <1>1, <1>2 DEF AttemptRows
<1>10. Sound(a)
  BY <1>1, <1>2, <1>8, <1>9 DEF Sound, AttemptRows, Recovering
<1>11. run.asked + 1 \in 0..run.setting.human
  BY <1>2, Facts, SettingFacts DEF RequestHuman, MaxHuman, RunRows
<1>12. /\ run' \in RunRows(run.setting) /\ run'.setting = run.setting /\ run'.attempt = run.attempt
       /\ run'.recoveries = run.recoveries /\ run'.lifecycle = "WAITING_HUMAN"
       /\ run'.verdict = "NONE"
  <2>1. PICK k \in 0..run.setting.human : k = run.asked + 1
    BY <1>11
  <2> QED BY <1>2, <1>6, <1>7, <2>1 DEF RunRows
<1>13. hitl' \in Interventions(run.setting)
  BY <1>4, <1>7, Facts DEF Interventions
<1> HIDE DEF a
<1>14. a.write # "OPERATOR"
  BY <1>1, <1>2, <1>9 DEF Agree, Terminal
<1>15. Agree(run', a, hitl')
  BY <1>7, <1>9, <1>12, <1>14 DEF Agree, Runnable, Terminal
<1>16. run.lifecycle \notin Terminal
  BY <1>1 DEF Terminal
<1> QED BY <1>7, <1>8, <1>9, <1>10, <1>12, <1>13, <1>15, <1>16, Facts, CurrentMoves

(* A revoked lease leaves its task to the recovery, and its browser behind. *)
LEMMA RevokeLeaseKeeps ==
    ASSUME RunInv, NEW n \in Attempts, RevokeLease(n)
    PROVE  RunInv'
<1>1. /\ att[n] \in AttemptRows(run.setting) /\ Sound(att[n]) /\ Current(n)
      /\ att[n].fence \in Nat /\ att[n].owner \in Nat /\ run \in RunRows(run.setting)
  BY Facts
<1>2. att[n].task \in {"RUNNING", "PENDING"} /\ run.lifecycle \in Runnable
  BY <1>1 DEF RevokeLease, UnclaimableResume, Current, Runnable
<1>3. n = Cur
  BY <1>1, <1>2 DEF Current, OpenTask
<1>4. PICK r, p, z :
        /\ r = IF att[n].task = "PENDING" THEN "HITL_CLOSING" ELSE "PENDING"
        /\ p = IF att[n].owner = att[n].fence THEN 0 ELSE att[n].permit
        /\ z = IF att[n].sess = "ACTIVE" /\ att[n].owner = att[n].fence THEN "LOST" ELSE att[n].sess
  OBVIOUS
<1> DEFINE a == [att[Cur] EXCEPT !.task = "FAILED", !.fence = att[n].fence + 1, !.lease = 0,
                                 !.rec = r, !.permit = p, !.sess = z]
<1>5. att' = [att EXCEPT ![Cur] = a] /\ UNCHANGED <<now, run, hitl, issued, cancels>>
  <2>1. att' = [att EXCEPT ![n].task = "FAILED", ![n].fence = att[n].fence + 1, ![n].lease = 0,
                           ![n].rec = r, ![n].permit = p, ![n].sess = z]
    BY <1>1, <1>4, Facts DEF RevokeLease
  <2> QED BY <1>3, <2>1, Facts DEF RevokeLease
<1>6. a \in AttemptRows(run.setting)
  <2>1. r \in Recovering /\ p \in TimesOf(run.setting) /\ z \in {"NONE", "ACTIVE", "LOST", "CLOSED"}
    BY <1>1, <1>4, Facts, SettingFacts DEF AttemptRows, Recovering
  <2>2. PICK f \in Nat : f = att[n].fence + 1
    BY <1>1
  <2>3. 0 \in TimesOf(run.setting)
    BY Facts, SettingFacts
  <2>4. PICK x \in AttemptRows(run.setting) :
          x = [att[n] EXCEPT !.task = "FAILED", !.fence = f, !.lease = 0]
    BY <1>1, <2>2, <2>3 DEF AttemptRows
  <2>5. [x EXCEPT !.rec = r, !.permit = p, !.sess = z] \in AttemptRows(run.setting)
    BY <2>1 DEF AttemptRows
  <2> QED BY <1>3, <2>2, <2>4, <2>5
<1>7. /\ a.task = "FAILED" /\ a.rec = r /\ a.write = att[n].write /\ a.sess = z /\ a.permit = p
      /\ a.owner = att[n].owner /\ a.fence = att[n].fence + 1 /\ a.restarts = att[n].restarts
      /\ a.effect = att[n].effect
  BY <1>1, <1>3 DEF AttemptRows
<1> HIDE DEF a
<1>8. r \in Recovering /\ r # "RETRY_SCHEDULED"
  BY <1>4 DEF Recovering
<1>9. Sound(a)
  BY <1>1, <1>2, <1>4, <1>7, <1>8 DEF Sound
<1>10. z = "ACTIVE" => att[n].sess = "ACTIVE" /\ p = att[n].permit
  BY <1>4
<1>11. Agree(run', a, hitl')
  BY <1>2, <1>3, <1>5, <1>7, <1>8, <1>10, CurrentFacts DEF Agree, Runnable, Terminal, OpenTask
<1> QED BY <1>5, <1>6, <1>7, <1>8, <1>9, <1>11, Facts, CurrentMoves

(* A resumed run waits with a deadline before its hard one. *)
LEMMA ResolveInterventionKeeps ==
    ASSUME RunInv, ResolveIntervention
    PROVE  RunInv'
<1>1. /\ att[Cur] \in AttemptRows(run.setting) /\ Sound(att[Cur]) /\ Agree(run, att[Cur], hitl)
      /\ run \in RunRows(run.setting) /\ hitl \in Interventions(run.setting)
  BY CurrentFacts, Facts
<1>2. /\ hitl.status = "PENDING" /\ run.lifecycle = "WAITING_HUMAN"
      /\ hitl.n = Cur /\ att[Cur].task = "WAITING_HUMAN" /\ att[Cur].rec = "NONE"
  BY <1>1 DEF ResolveIntervention, Agree, Sound
<1>3. PICK d : d = now + Budget
  OBVIOUS
<1>4. /\ d \in TimesOf(run.setting) /\ d + Extension \in TimesOf(run.setting) /\ d <= d + Extension
      /\ d \in Nat /\ now + Window \in TimesOf(run.setting) /\ now + Window \in Nat
  BY <1>3, Facts, SettingFacts DEF Budget, Extension
<1>5. PICK p : p = IF att[Cur].sess = "ACTIVE" /\ att[Cur].owner = att[Cur].fence
                   THEN EarlierOf(d, now + Window) ELSE att[Cur].permit
  OBVIOUS
<1>6. p \in TimesOf(run.setting)
  BY <1>1, <1>4, <1>5 DEF EarlierOf, AttemptRows
<1> DEFINE a == [att[Cur] EXCEPT !.task = "PENDING", !.done = 0, !.permit = p]
<1>7. /\ run' = [run EXCEPT !.lifecycle = "QUEUED", !.disposition = "NONE", !.verdict = "NONE",
                            !.budgeted = TRUE, !.deadline = d, !.hard = d + Extension]
      /\ hitl' = [hitl EXCEPT !.status = "RESOLVED"] /\ UNCHANGED <<now, issued, cancels>>
  BY <1>3 DEF ResolveIntervention
<1>8. att' = [att EXCEPT ![Cur] = a]
  <2>1. att' = [att EXCEPT ![Cur].task = "PENDING", ![Cur].done = 0, ![Cur].permit = p]
    BY <1>2, <1>3, <1>5, Facts DEF ResolveIntervention
  <2> QED BY <2>1, Facts
<1>9. a \in AttemptRows(run.setting)
  BY <1>1, <1>6 DEF AttemptRows, OpenTask
<1>10. a.task = "PENDING" /\ a.rec = "NONE" /\ a.write = att[Cur].write
  BY <1>1, <1>2 DEF AttemptRows
<1>11. Sound(a)
  BY <1>1, <1>2, <1>9, <1>10 DEF Sound, AttemptRows, Recovering
<1>12. /\ run' \in RunRows(run.setting) /\ run'.setting = run.setting /\ run'.attempt = run.attempt
       /\ run'.recoveries = run.recoveries /\ run'.lifecycle = "QUEUED"
       /\ run'.verdict = "NONE" /\ run'.deadline = d /\ run'.hard = d + Extension
  BY <1>1, <1>4, <1>7 DEF RunRows, Runnable
<1>13. hitl' \in Interventions(run.setting) /\ hitl'.status = "RESOLVED"
  BY <1>1, <1>7 DEF Interventions
<1> HIDE DEF a
<1>14. a.write # "OPERATOR"
  BY <1>1, <1>2, <1>10 DEF Agree, Terminal
<1>15. Agree(run', a, hitl')
  BY <1>4, <1>10, <1>12, <1>13, <1>14 DEF Agree, Runnable, Terminal
<1>16. run.lifecycle \notin Terminal
  BY <1>2 DEF Terminal
<1> QED BY <1>7, <1>8, <1>9, <1>10, <1>11, <1>12, <1>13, <1>15, <1>16, Facts, CurrentMoves

(* An unanswered intervention ends its run and its task. *)
LEMMA ExpireInterventionKeeps ==
    ASSUME RunInv, ExpireIntervention
    PROVE  RunInv'
<1>1. /\ att[Cur] \in AttemptRows(run.setting) /\ Sound(att[Cur]) /\ Agree(run, att[Cur], hitl)
      /\ run \in RunRows(run.setting) /\ hitl \in Interventions(run.setting)
  BY CurrentFacts, Facts
<1>2. /\ hitl.status = "PENDING" /\ run.lifecycle = "WAITING_HUMAN"
      /\ hitl.n = Cur /\ att[Cur].task = "WAITING_HUMAN" /\ att[Cur].rec = "NONE"
  BY <1>1 DEF ExpireIntervention, Agree, Sound
<1>3. PICK t, b, l : /\ t = IF CancelOnTimeout THEN "CANCELLED" ELSE "FAILED"
                     /\ b = Blocked
                     /\ l = IF CancelOnTimeout THEN "CANCELLED" ELSE "COMPLETED"
  OBVIOUS
<1>4. t \in {"CANCELLED", "FAILED"} /\ b \in {"BLOCKED", "NOT_RUN"} /\ l \in {"CANCELLED", "COMPLETED"}
  BY <1>3 DEF Blocked
<1> DEFINE a == [att[Cur] EXCEPT !.task = t]
<1>5. /\ run' = [run EXCEPT !.verdict = "NONE", !.disposition = b, !.lifecycle = l]
      /\ hitl' = [hitl EXCEPT !.status = "EXPIRED"] /\ UNCHANGED <<now, issued, cancels>>
  BY <1>2, <1>3 DEF ExpireIntervention
<1>6. att' = [att EXCEPT ![Cur] = a]
  <2>1. att' = [att EXCEPT ![Cur].task = t]
    BY <1>2, <1>3, Facts DEF ExpireIntervention
  <2> QED BY <2>1, Facts
<1>7. a \in AttemptRows(run.setting)
  BY <1>1, <1>4 DEF AttemptRows
<1>8. a.task = t /\ a.rec = "NONE" /\ a.write = att[Cur].write
  BY <1>1, <1>2 DEF AttemptRows
<1>9. Sound(a)
  BY <1>1, <1>2, <1>4, <1>7, <1>8 DEF Sound, AttemptRows, Recovering
<1>10. /\ run' \in RunRows(run.setting) /\ run'.setting = run.setting /\ run'.attempt = run.attempt
       /\ run'.recoveries = run.recoveries /\ run'.lifecycle = l /\ run'.verdict = "NONE"
  BY <1>1, <1>4, <1>5 DEF RunRows, Terminal
<1>11. hitl' \in Interventions(run.setting) /\ hitl'.status = "EXPIRED"
  BY <1>1, <1>5 DEF Interventions
<1> HIDE DEF a
<1>12. Agree(run', a, hitl')
  BY <1>4, <1>8, <1>10, <1>11 DEF Agree, Runnable, Terminal, OpenTask
<1>13. run.lifecycle \notin Terminal
  BY <1>2 DEF Terminal
<1> QED BY <1>5, <1>6, <1>7, <1>8, <1>9, <1>10, <1>11, <1>12, <1>13, Facts, CurrentMoves

(* What submitOutcome makes of an outcome: an outcome in doubt is not retried,
   and only a completion that is not in doubt is a success. *)
LEMMA EffectiveOutcome ==
    ASSUME RunInv, NEW c \in issued, NEW o \in Outcomes, NEW e, e = Effective(c, o)
    PROVE  /\ e.kind \in {"COMPLETED", "RETRYABLE", "FATAL"}
           /\ e.disposition \in {"EXECUTED", "BLOCKED", "RUNTIME_LOST"}
           /\ Audited(o) /\ Uncertain(c) => e.kind = "FATAL"
           /\ e.kind = "COMPLETED" => e.disposition = "EXECUTED"
           /\ e.kind = "RETRYABLE" => ~Uncertain(c)
<1>1. o.kind \in {"COMPLETED", "RETRYABLE", "FATAL"} /\ o.term \in {"NONE", "FORCED", "SESSION_LOST"}
  BY DEF Outcomes
<1>2. o.kind # "COMPLETED" => o.term = "NONE"
  BY DEF Outcomes
<1>3. CASE Audited(o) /\ Uncertain(c)
  <2>1. e = [kind |-> "FATAL", disposition |-> "BLOCKED", class |-> o.class]
    BY <1>3 DEF Effective
  <2> QED BY <2>1
<1>4. CASE ~(Audited(o) /\ Uncertain(c)) /\ o.term = "SESSION_LOST"
  <2>1. e = [kind |-> "FATAL", disposition |-> "RUNTIME_LOST", class |-> "OTHER"]
    BY <1>4 DEF Effective
  <2> QED BY <1>4, <2>1
<1>5. CASE ~(Audited(o) /\ Uncertain(c)) /\ o.term # "SESSION_LOST"
  <2>1. e = [kind |-> o.kind, class |-> o.class,
             disposition |-> IF o.kind = "COMPLETED" THEN "EXECUTED" ELSE "BLOCKED"]
    BY <1>5 DEF Effective
  <2> QED BY <1>1, <1>5, <2>1 DEF Audited
<1> QED BY <1>3, <1>4, <1>5

(* An outcome ends the run, or starts another attempt after one that wrote
   nothing. *)
LEMMA SubmitOutcomeKeeps ==
    ASSUME RunInv, NEW c \in issued, NEW o \in Outcomes, SubmitOutcome(c, o)
    PROVE  RunInv'
<1>1. /\ c.n \in Attempts /\ c.n = Cur /\ c.fence \in Nat /\ att[Cur].task = "RUNNING"
      /\ att[Cur].rec = "NONE" /\ run.lifecycle = "RUNNING"
  BY OwnerIsCurrent DEF SubmitOutcome, AcceptsOutcome
<1>2. /\ att[Cur] \in AttemptRows(run.setting) /\ Sound(att[Cur]) /\ Agree(run, att[Cur], hitl)
      /\ run \in RunRows(run.setting) /\ att \in [Attempts -> AttemptRows(run.setting)]
      /\ Cur \in Attempts
  BY CurrentFacts, Facts
<1> DEFINE out == Effective(c, o)
           Committed(e, retry, doubt, t, l) ==
             \E confirmed \in BOOLEAN :
               /\ confirmed => e.kind = "COMPLETED" /\ att[c.n].write = "UNKNOWN" /\ att[c.n].sess = "CLOSED"
               /\ att' = [n \in Attempts |->
                            IF n = c.n
                            THEN [att[c.n] EXCEPT !.task = t, !.lease = 0, !.done = c.fence,
                                    !.rec = IF doubt THEN "WRITE_OUTCOME_UNKNOWN" ELSE att[c.n].rec,
                                    !.write = IF confirmed THEN "CONFIRMED" ELSE att[c.n].write]
                            ELSE IF retry /\ n = c.n + 1 THEN NewAttempt ELSE att[n]]
               /\ run' = [run EXCEPT !.lifecycle = l,
                            !.disposition = IF retry THEN "NONE" ELSE e.disposition,
                            !.verdict = IF e.kind = "COMPLETED" THEN "DECIDED" ELSE "NONE",
                            !.attempt = IF retry THEN c.n + 1 ELSE run.attempt]
<1>3. PICK e, retry, doubt, t, l :
        /\ e = out /\ retry = ShouldRetry(c.n, e) /\ doubt = (Audited(o) /\ Uncertain(c))
        /\ t = TaskStatusOf(e) /\ l = LifecycleOf(c.n, e)
        /\ Committed(e, retry, doubt, t, l)
  <2>1. Committed(out, ShouldRetry(c.n, out), Audited(o) /\ Uncertain(c), TaskStatusOf(out), LifecycleOf(c.n, out))
    BY Zenon DEF SubmitOutcome
  <2> HIDE DEF Committed, out
  <2> WITNESS out, ShouldRetry(c.n, out), Audited(o) /\ Uncertain(c), TaskStatusOf(out), LifecycleOf(c.n, out)
  <2> QED BY <2>1, Zenon
<1>4. PICK confirmed \in BOOLEAN :
        /\ confirmed => e.kind = "COMPLETED" /\ att[c.n].write = "UNKNOWN" /\ att[c.n].sess = "CLOSED"
        /\ att' = [n \in Attempts |->
                     IF n = c.n
                     THEN [att[c.n] EXCEPT !.task = t, !.lease = 0, !.done = c.fence,
                             !.rec = IF doubt THEN "WRITE_OUTCOME_UNKNOWN" ELSE att[c.n].rec,
                             !.write = IF confirmed THEN "CONFIRMED" ELSE att[c.n].write]
                     ELSE IF retry /\ n = c.n + 1 THEN NewAttempt ELSE att[n]]
        /\ run' = [run EXCEPT !.lifecycle = l,
                     !.disposition = IF retry THEN "NONE" ELSE e.disposition,
                     !.verdict = IF e.kind = "COMPLETED" THEN "DECIDED" ELSE "NONE",
                     !.attempt = IF retry THEN c.n + 1 ELSE run.attempt]
  BY <1>3, Zenon
<1> HIDE DEF Committed
<1>5. PICK r, w, b, v : /\ r = IF doubt THEN "WRITE_OUTCOME_UNKNOWN" ELSE att[Cur].rec
                        /\ w = IF confirmed THEN "CONFIRMED" ELSE att[Cur].write
                        /\ b = IF retry THEN "NONE" ELSE e.disposition
                        /\ v = IF e.kind = "COMPLETED" THEN "DECIDED" ELSE "NONE"
  OBVIOUS
<1>6. /\ e.kind \in {"COMPLETED", "RETRYABLE", "FATAL"}
      /\ e.disposition \in {"EXECUTED", "BLOCKED", "RUNTIME_LOST"}
      /\ doubt => e.kind = "FATAL"
      /\ e.kind = "COMPLETED" => e.disposition = "EXECUTED"
      /\ e.kind = "RETRYABLE" => ~Uncertain(c)
  BY <1>3, EffectiveOutcome
<1>7. /\ t \in {"SUCCEEDED", "TIMED_OUT", "FAILED"} /\ l \in {"QUEUED", "TIMED_OUT", "COMPLETED"}
      /\ t = "SUCCEEDED" <=> e.kind = "COMPLETED"
      /\ l = "QUEUED" <=> retry
      /\ e.kind = "COMPLETED" => l = "COMPLETED"
      /\ retry => e.kind = "RETRYABLE" /\ Cur < MaxAttempts
  BY <1>1, <1>3 DEF TaskStatusOf, LifecycleOf, ShouldRetry
<1>8. att[Cur].write \notin {"CONFIRMED", "OPERATOR"}
  BY <1>1, <1>2 DEF Sound, Agree, Terminal
<1> DEFINE a == [att[Cur] EXCEPT !.task = t, !.lease = 0, !.done = c.fence, !.rec = r, !.write = w]
<1>9. /\ att' = [n \in Attempts |-> IF n = Cur THEN a
                                    ELSE IF retry /\ n = Cur + 1 THEN NewAttempt ELSE att[n]]
      /\ run' = [run EXCEPT !.lifecycle = l, !.disposition = b, !.verdict = v,
                            !.attempt = IF retry THEN Cur + 1 ELSE run.attempt]
  BY <1>1, <1>4, <1>5
<1>10. a \in AttemptRows(run.setting)
  <2>1. /\ r \in {"NONE", "STARTUP_CLOSING"} \cup Recovering \cup Decided
        /\ w \in {"NONE", "UNKNOWN"} \cup WriteSettled
        /\ t \in OpenTask \cup {"ABSENT", "SUCCEEDED", "FAILED", "TIMED_OUT", "CANCELLED"}
    BY <1>2, <1>5, <1>7 DEF AttemptRows, Decided, WriteSettled
  <2>2. 0 \in TimesOf(run.setting)
    BY Facts, SettingFacts
  <2>3. PICK f \in Nat : f = c.fence
    BY <1>1
  <2>4. [att[Cur] EXCEPT !.task = t, !.lease = 0, !.done = f, !.rec = r, !.write = w]
          \in AttemptRows(run.setting)
    <3>1. PICK x \in AttemptRows(run.setting) : x = att[Cur]
      BY <1>2
    <3>2. PICK y \in AttemptRows(run.setting) : y = [x EXCEPT !.task = t, !.lease = 0, !.done = f]
      BY <2>1, <2>2 DEF AttemptRows
    <3>3. [y EXCEPT !.rec = r, !.write = w] \in AttemptRows(run.setting)
      BY <2>1 DEF AttemptRows
    <3>4. [y EXCEPT !.rec = r, !.write = w]
            = [att[Cur] EXCEPT !.task = t, !.lease = 0, !.done = f, !.rec = r, !.write = w]
      BY <3>1, <3>2
    <3> QED BY <3>3, <3>4
  <2> QED BY <2>3, <2>4
<1>11. /\ a.task = t /\ a.rec = r /\ a.write = w /\ a.effect = att[Cur].effect
       /\ a.sess = att[Cur].sess /\ a.owner = att[Cur].owner /\ a.fence = att[Cur].fence
       /\ a.restarts = att[Cur].restarts /\ a.permit = att[Cur].permit
  BY <1>2 DEF AttemptRows
<1> HIDE DEF a
<1>12. r \in {"NONE", "WRITE_OUTCOME_UNKNOWN"}
  BY <1>1, <1>5
<1>13. t = "SUCCEEDED" => r = "NONE"
  BY <1>1, <1>5, <1>6, <1>7
<1>14. /\ w \in {"NONE", "UNKNOWN", "NO_WRITE", "CONFIRMED"}
       /\ w = "CONFIRMED" => t = "SUCCEEDED" /\ att[Cur].sess = "CLOSED"
       /\ w = "NO_WRITE" => att[Cur].write = "NO_WRITE"
  BY <1>1, <1>2, <1>4, <1>5, <1>7, <1>8 DEF AttemptRows, WriteSettled
<1>15. Sound(a)
  BY <1>2, <1>7, <1>11, <1>12, <1>13, <1>14 DEF Sound, WriteSettled, Recovering
<1>16. UNCHANGED <<now, hitl, issued, cancels>> /\ run.lifecycle \notin Terminal
       /\ run.lifecycle \in Runnable
  BY <1>1 DEF SubmitOutcome, Terminal, Runnable
<1>17. CASE ~retry
  <2>1. att' = [att EXCEPT ![Cur] = a]
    BY <1>2, <1>9, <1>17
  <2>2. l \in {"COMPLETED", "TIMED_OUT"}
    BY <1>7, <1>17
  <2>3. /\ run' \in RunRows(run.setting) /\ run'.setting = run.setting /\ run'.attempt = run.attempt
        /\ run'.recoveries = run.recoveries /\ run'.lifecycle = l /\ run'.verdict = v
        /\ run'.disposition = b
    BY <1>2, <1>5, <1>6, <1>9, <1>17, <2>2 DEF RunRows, Terminal
  <2>4. Agree(run', a, hitl')
    BY <1>1, <1>2, <1>5, <1>6, <1>7, <1>11, <1>16, <1>17, <2>2, <2>3 DEF Agree, Runnable, Terminal, OpenTask
  <2> QED BY <1>10, <1>11, <1>12, <1>15, <1>16, <2>1, <2>3, <2>4, Facts, CurrentMoves
<1>18. CASE retry
  <2>1. Cur < MaxAttempts /\ l = "QUEUED" /\ v = "NONE" /\ b = "NONE" /\ t # "SUCCEEDED"
    BY <1>5, <1>6, <1>7, <1>18
  <2>2. /\ run' \in RunRows(run.setting) /\ run'.setting = run.setting /\ run'.attempt = Cur + 1
        /\ run'.recoveries = run.recoveries /\ run'.lifecycle = "QUEUED" /\ run'.verdict = "NONE"
        /\ run'.deadline = run.deadline /\ run'.hard = run.hard
    <3>1. Cur + 1 \in Attempts
      BY <2>1, Facts, SettingFacts DEF MaxAttempts
    <3>2. run' = [run EXCEPT !.lifecycle = "QUEUED", !.disposition = "NONE", !.verdict = "NONE",
                             !.attempt = Cur + 1]
      BY <1>9, <1>18, <2>1
    <3> QED BY <1>2, <3>1, <3>2 DEF RunRows, Runnable
  <2>3. att' = [m \in Attempts |-> IF m = Cur THEN a ELSE IF m = Cur + 1 THEN NewAttempt ELSE att[m]]
    BY <1>9, <1>18
  <2>4. att[Cur].effect # "WRITE"
    <3>1. ~Uncertain(c)
      BY <1>6, <1>7, <1>18
    <3> QED BY <1>1, <1>2, <1>8, <3>1 DEF Uncertain, Sound, WriteSettled
  <2>5. /\ a.task \notin OpenTask /\ a.rec \notin Recovering /\ a.rec # "RETRY_SCHEDULED"
        /\ a.effect # "WRITE" /\ a.write # "OPERATOR"
    BY <1>7, <1>11, <1>12, <1>14, <2>4 DEF OpenTask, Recovering
  <2> QED BY <1>10, <1>15, <1>16, <2>1, <2>2, <2>3, <2>5, NextAttempt
<1> QED BY <1>17, <1>18

(* A recovery ends the run, or starts another attempt after the one closure
   that is proved. *)
LEMMA DecideRecoveryKeeps ==
    ASSUME RunInv, NEW n \in Attempts, DecideRecovery(n)
    PROVE  RunInv'
<1>1. /\ att[n] \in AttemptRows(run.setting) /\ Sound(att[n]) /\ Current(n)
      /\ att[n].rec \in Recovering /\ run \in RunRows(run.setting)
      /\ att \in [Attempts -> AttemptRows(run.setting)] /\ Cur \in Attempts /\ Cur \in Nat
  BY Facts DEF DecideRecovery
<1>2. n = Cur /\ att[n].task = "FAILED" /\ Agree(run, att[n], hitl)
  BY <1>1, CurrentFacts DEF Current, Sound
<1>3. run.lifecycle # "WAITING_HUMAN" /\ hitl.status # "PENDING"
  BY <1>2 DEF Agree
<1>4. PICK d : d = LeaseRecoveryDecision(n)
  OBVIOUS
<1>5. d \in {"WRITE_OUTCOME_UNKNOWN", "EXHAUSTED", "RETRY_SCHEDULED"}
  BY <1>4 DEF LeaseRecoveryDecision
<1> DEFINE a == [att[n] EXCEPT !.rec = d]
<1>6. a \in AttemptRows(run.setting)
  BY <1>1, <1>5 DEF AttemptRows, Decided
<1>7. /\ a.task = "FAILED" /\ a.rec = d /\ a.write = att[n].write /\ a.effect = att[n].effect
      /\ a.sess = att[n].sess /\ a.owner = att[n].owner /\ a.fence = att[n].fence
      /\ a.restarts = att[n].restarts /\ a.permit = att[n].permit
  BY <1>1, <1>2 DEF AttemptRows
<1>8. UNCHANGED <<now, hitl, issued, cancels>>
  BY DEF DecideRecovery
<1>9. CASE d # "RETRY_SCHEDULED"
  <2>1. att' = [att EXCEPT ![Cur] = a]
    BY <1>1, <1>2, <1>4, <1>9 DEF DecideRecovery
  <2> HIDE DEF a
  <2>2. Sound(a)
    BY <1>1, <1>5, <1>7, <1>9 DEF Sound, Recovering
  <2>3. CASE run.lifecycle \in Terminal
    <3>1. run' = run
      BY <1>4, <1>9, <2>3 DEF DecideRecovery
    <3>2. Agree(run, a, hitl)
      BY <1>2, <1>3, <1>7, <2>3 DEF Agree, Runnable, Terminal
    <3> QED BY <1>1, <1>5, <1>6, <1>7, <1>8, <1>9, <2>1, <2>2, <3>1, <3>2, Facts, CurrentMoves
  <2>4. CASE run.lifecycle \notin Terminal
    <3>1. PICK l, b : /\ l = IF run.deadline <= now THEN "TIMED_OUT" ELSE "COMPLETED"
                      /\ b = IF Announced(n) \/ d = "WRITE_OUTCOME_UNKNOWN" THEN "BLOCKED" ELSE "RUNTIME_LOST"
      OBVIOUS
    <3>2. run' = [run EXCEPT !.lifecycle = l, !.verdict = "NONE", !.disposition = b]
      BY <1>4, <1>9, <2>4, <3>1 DEF DecideRecovery
    <3>3. l \in {"TIMED_OUT", "COMPLETED"} /\ b \in {"BLOCKED", "RUNTIME_LOST"}
      BY <3>1
    <3>4. /\ run' \in RunRows(run.setting) /\ run'.setting = run.setting /\ run'.attempt = run.attempt
          /\ run'.recoveries = run.recoveries /\ run'.lifecycle = l /\ run'.verdict = "NONE"
      BY <1>1, <3>2, <3>3 DEF RunRows, Terminal
    <3>5. Agree(run', a, hitl')
      BY <1>3, <1>7, <1>8, <3>3, <3>4 DEF Agree, Runnable, Terminal, OpenTask
    <3> QED BY <1>5, <1>6, <1>7, <1>8, <1>9, <2>1, <2>2, <2>4, <3>4, <3>5, Facts, CurrentMoves
  <2> QED BY <2>3, <2>4
<1>10. CASE d = "RETRY_SCHEDULED"
  <2>1. /\ att' = [m \in Attempts |-> IF m = Cur THEN a
                                      ELSE IF m = Cur + 1 THEN NewAttempt ELSE att[m]]
        /\ run' = [run EXCEPT !.recoveries = run.recoveries + 1, !.lifecycle = "QUEUED",
                              !.disposition = "RUNTIME_LOST", !.attempt = Cur + 1]
    BY <1>2, <1>4, <1>10 DEF DecideRecovery
  <2> HIDE DEF a
  <2>2. /\ att[n].write \in WriteSettled /\ att[n].sess = "CLOSED" /\ ~RunExpired
        /\ ~(run.recoveries >= 1) /\ ~(n >= MaxAttempts)
    BY <1>4, <1>10 DEF LeaseRecoveryDecision
  <2>3. run.recoveries = 0 /\ Cur < MaxAttempts
    <3>1. run.recoveries \in {0, 1}
      BY DEF RunInv, RetriedOnce
    <3>2. MaxAttempts \in Nat
      BY Facts, SettingFacts DEF MaxAttempts
    <3> QED BY <1>1, <1>2, <2>2, <3>1, <3>2
  <2>4. run.lifecycle \in Runnable /\ run.lifecycle \notin Terminal
    BY <1>1, <1>3, <2>2 DEF RunExpired, RunRows
  <2>5. run.verdict = "NONE"
    BY <1>1, <1>2, <2>4 DEF Agree, Runnable, RunRows
  <2>6. a.write = "NO_WRITE" /\ a.effect # "WRITE"
    BY <1>1, <1>2, <1>7, <2>2, <2>4 DEF Sound, Current, WriteSettled
  <2>7. Sound(a)
    BY <1>1, <1>7, <1>10, <2>2 DEF Sound, Recovering
  <2>8. /\ run' \in RunRows(run.setting) /\ run'.setting = run.setting /\ run'.attempt = Cur + 1
        /\ run'.recoveries = 1 /\ run'.lifecycle = "QUEUED" /\ run'.verdict = "NONE"
        /\ run'.deadline = run.deadline /\ run'.hard = run.hard
    <3>1. Cur + 1 \in Attempts /\ 1 \in 0..run.setting.attempts
      BY <2>3, Facts, SettingFacts DEF MaxAttempts
    <3>2. run' = [run EXCEPT !.recoveries = 1, !.lifecycle = "QUEUED",
                             !.disposition = "RUNTIME_LOST", !.attempt = Cur + 1]
      BY <2>1, <2>3
    <3> QED BY <1>1, <2>5, <3>1, <3>2 DEF RunRows, Runnable
  <2>9. a.task \notin OpenTask /\ a.rec \notin Recovering
    BY <1>7, <1>10 DEF OpenTask, Recovering
  <2> QED BY <1>6, <1>7, <1>8, <1>10, <2>1, <2>3, <2>4, <2>6, <2>7, <2>8, <2>9, NextAttempt
<1> QED BY <1>9, <1>10

(* Closing the open tasks of a run closes that of its current attempt. *)
LEMMA CloseTasksKeeps ==
    ASSUME RunInv, NEW t \in {"TIMED_OUT", "CANCELLED"}, CloseTasks(t),
           run' \in RunRows(run.setting), run'.setting = run.setting,
           run'.attempt = run.attempt, run'.recoveries = run.recoveries,
           run'.lifecycle \in Terminal, run'.verdict = "NONE",
           hitl' \in Interventions(run.setting), hitl'.status # "PENDING",
           cancels' \in {"IDLE", "BLOCKED", "NOT_RUN", "DONE"}, UNCHANGED <<now, issued>>
    PROVE  RunInv'
<1>1. /\ att[Cur] \in AttemptRows(run.setting) /\ Sound(att[Cur]) /\ Agree(run, att[Cur], hitl)
      /\ att \in [Attempts -> AttemptRows(run.setting)] /\ Cur \in Attempts
      /\ att[Cur].rec # "RETRY_SCHEDULED" /\ \A n \in Attempts : Current(n)
  BY CurrentFacts, Facts
<1>2. \A n \in Attempts : n # Cur => att[n].task \notin OpenTask
  BY <1>1 DEF Current
<1> DEFINE ended == [att[Cur] EXCEPT !.task = t]
<1>3. PICK a : a = IF att[Cur].task \in OpenTask THEN ended ELSE att[Cur]
  OBVIOUS
<1>4. att' = [att EXCEPT ![Cur] = a]
  BY <1>1, <1>2, <1>3 DEF CloseTasks
<1>5. ended \in AttemptRows(run.setting)
  BY <1>1 DEF AttemptRows
<1>6. /\ a \in AttemptRows(run.setting) /\ a.task \notin OpenTask
      /\ a.rec = att[Cur].rec /\ a.write = att[Cur].write
  BY <1>1, <1>3, <1>5 DEF AttemptRows, OpenTask
<1>7. Sound(a)
  <2>1. CASE att[Cur].task \in OpenTask
    <3>1. a = ended
      BY <1>3, <2>1
    <3> QED BY <1>1, <2>1, <3>1 DEF Sound, AttemptRows, OpenTask, Recovering
  <2>2. CASE att[Cur].task \notin OpenTask
    BY <1>1, <1>3, <2>2
  <2> QED BY <2>1, <2>2
<1> HIDE DEF ended
<1>8. Agree(run', a, hitl')
  BY <1>6 DEF Agree, Terminal, Runnable, OpenTask
<1> QED BY <1>1, <1>4, <1>6, <1>7, <1>8, Facts, CurrentMoves

(* The sweep of the deadlines. *)
LEMMA ExpireRunKeeps ==
    ASSUME RunInv, ExpireRun
    PROVE  RunInv'
<1>1. run \in RunRows(run.setting) /\ hitl \in Interventions(run.setting)
  BY Facts
<1>2. PICK b : b = Blocked
  OBVIOUS
<1>3. b \in {"BLOCKED", "NOT_RUN"}
  BY <1>2 DEF Blocked
<1>4. run' = [run EXCEPT !.lifecycle = "TIMED_OUT", !.verdict = "NONE", !.disposition = b]
  BY <1>2 DEF ExpireRun
<1>5. /\ run' \in RunRows(run.setting) /\ run'.setting = run.setting /\ run'.attempt = run.attempt
      /\ run'.recoveries = run.recoveries /\ run'.lifecycle \in Terminal /\ run'.verdict = "NONE"
  BY <1>1, <1>3, <1>4 DEF RunRows, Terminal
<1>6. hitl' \in Interventions(run.setting) /\ hitl'.status # "PENDING"
  <2>1. hitl' = hitl \/ hitl' = [hitl EXCEPT !.status = "EXPIRED"]
    BY DEF ExpireRun
  <2>2. hitl.status = "PENDING" => hitl' = [hitl EXCEPT !.status = "EXPIRED"]
    BY DEF ExpireRun
  <2> QED BY <1>1, <2>1, <2>2 DEF Interventions
<1> QED BY <1>5, <1>6, Facts, CloseTasksKeeps DEF ExpireRun

(* A cancellation, even of a run that has ended. *)
LEMMA CancelCommitKeeps ==
    ASSUME RunInv, CancelCommit
    PROVE  RunInv'
<1>1. run \in RunRows(run.setting) /\ hitl \in Interventions(run.setting)
  BY Facts
<1>2. cancels \in {"BLOCKED", "NOT_RUN"}
  BY DEF CancelCommit
<1>3. run' = [run EXCEPT !.lifecycle = "CANCELLED", !.verdict = "NONE", !.disposition = cancels]
  BY DEF CancelCommit
<1>4. /\ run' \in RunRows(run.setting) /\ run'.setting = run.setting /\ run'.attempt = run.attempt
      /\ run'.recoveries = run.recoveries /\ run'.lifecycle \in Terminal /\ run'.verdict = "NONE"
  BY <1>1, <1>2, <1>3 DEF RunRows, Terminal
<1>5. hitl' \in Interventions(run.setting) /\ hitl'.status # "PENDING"
  <2>1. hitl' = hitl \/ hitl' = [hitl EXCEPT !.status = "CANCELLED"]
    BY DEF CancelCommit
  <2>2. hitl.status = "PENDING" => hitl' = [hitl EXCEPT !.status = "CANCELLED"]
    BY DEF CancelCommit
  <2> QED BY <1>1, <2>1, <2>2 DEF Interventions
<1> QED BY <1>4, <1>5, CloseTasksKeeps DEF CancelCommit

(* The clock and the reads of a cancellation move no row. *)
LEMMA RowsStand ==
    ASSUME RunInv, UNCHANGED <<run, att, hitl, issued>>,
           now' \in 0..run.setting.until, cancels' \in {"IDLE", "BLOCKED", "NOT_RUN", "DONE"}
    PROVE  RunInv'
<1>1. TypeRun'
  BY Facts, TypesNext
<1>2. /\ \A n \in Attempts : Sound(att'[n]) /\ Current(n)'
      /\ Phase' /\ Budgeted' /\ RetriedOnce' /\ Earned'
  BY DEF RunInv, Current, Phase, Budgeted, RetriedOnce, Retried, Earned, Cur, MaxAttempts
<1> QED BY <1>1, <1>2 DEF RunInv

(* A new run. *)
LEMMA RunInvInit == Init => RunInv
<1> SUFFICES ASSUME Init PROVE RunInv
  OBVIOUS
<1>1. PICK s \in Settings :
        run = [lifecycle |-> "QUEUED", disposition |-> "NONE", verdict |-> "NONE",
               attempt |-> 1, recoveries |-> 0, budgeted |-> FALSE, started |-> FALSE,
               deadline |-> QueueTime, hard |-> QueueTime, asked |-> 0, setting |-> s]
  BY DEF Init
<1>2. /\ s.attempts \in Nat \ {0} /\ s.human \in Nat /\ s.until \in Nat /\ 1 \in Attempts
      /\ 0 \in TimesOf(s) /\ QueueTime \in TimesOf(s) /\ QueueTime \in Nat
  <2>1. 0 \in 0..s.until /\ 0 + QueueTime = QueueTime /\ 1 \in 1..s.attempts
    BY SettingFacts
  <2> QED BY <2>1, SettingFacts
<1>3. run \in RunRows(run.setting) /\ run.setting = s /\ Cur = 1
  BY <1>1, <1>2 DEF RunRows, Runnable, Cur
<1>4. /\ NewAttempt \in AttemptRows(s) /\ NoAttempt \in AttemptRows(s)
      /\ Sound(NewAttempt) /\ Sound(NoAttempt)
      /\ \A a \in {NewAttempt, NoAttempt} :
            a.rec = "NONE" /\ a.effect = "NONE" /\ a.write = "NONE" /\ a.sess = "NONE"
      /\ NewAttempt.task = "PENDING" /\ NoAttempt.task = "ABSENT"
  BY <1>2 DEF NewAttempt, NoAttempt, AttemptRows, Sound, OpenTask, WriteSettled, Recovering
<1>5. att = [n \in Attempts |-> IF n = 1 THEN NewAttempt ELSE NoAttempt] /\ now = 0
      /\ hitl = NoIntervention /\ issued = {} /\ cancels = "IDLE"
  BY DEF Init
<1>6. /\ att \in [Attempts -> AttemptRows(s)] /\ att[1] = NewAttempt
      /\ \A n \in Attempts : n # 1 => att[n] = NoAttempt
  BY <1>2, <1>4, <1>5
<1>7. hitl \in Interventions(s) /\ hitl.status = "NONE"
  BY <1>2, <1>5 DEF NoIntervention, Interventions
<1>8. TypeRun
  BY <1>2, <1>3, <1>5, <1>6, <1>7, Types
<1>9. \A n \in Attempts : Sound(att[n]) /\ Current(n)
  BY <1>3, <1>4, <1>6 DEF Current, OpenTask, Recovering
<1>10. Phase
  BY <1>1, <1>2, <1>3, <1>4, <1>6, <1>7 DEF Phase, MaxAttempts, Terminal, Runnable
<1>11. Budgeted /\ Earned
  BY <1>1, <1>2, <1>3 DEF Budgeted, Earned
<1>12. RetriedOnce
  <2>1. Retried = {}
    BY <1>4, <1>6 DEF Retried
  <2> QED BY <1>1, <2>1 DEF RetriedOnce
<1> QED BY <1>8, <1>9, <1>10, <1>11, <1>12 DEF RunInv

(* Every step keeps the invariant. *)
LEMMA RunInvNext == RunInv /\ [Next]_vars => RunInv'
<1> SUFFICES ASSUME RunInv, [Next]_vars PROVE RunInv'
  OBVIOUS
<1>1. CASE UNCHANGED vars
  BY <1>1, Facts, RowsStand DEF vars
<1>2. CASE Tick
  <2>1. now' \in 0..run.setting.until
    BY <1>2, Facts, SettingFacts DEF Tick, MaxTime
  <2> QED BY <1>2, <2>1, Facts, RowsStand DEF Tick
<1>3. CASE CancelRead
  BY <1>3, Facts, RowsStand DEF CancelRead, Blocked
<1>4. CASE Admit
  BY <1>4, AdmitKeeps
<1>5. CASE AdmissionFailed
  BY <1>5, AdmissionFailedKeeps
<1>6. CASE StartupExpired
  BY <1>6, StartupExpiredKeeps
<1>7. CASE StartupRecovered
  BY <1>7, StartupRecoveredKeeps
<1>8. ASSUME NEW n \in Attempts,
             \/ RequestClosure(n) \/ ObserveSession(n) \/ SessionLost(n)
             \/ ClosureVerified(n) \/ OperatorResolves(n)
      PROVE  RunInv'
  BY <1>8, RequestClosureKeeps, ObserveSessionKeeps, SessionLostKeeps, ClosureVerifiedKeeps,
     OperatorResolvesKeeps
<1>9. ASSUME NEW n \in Attempts,
             Claim(n) \/ RevokeLease(n) \/ DeferRecovery(n) \/ DecideRecovery(n)
      PROVE  RunInv'
  BY <1>9, ClaimKeeps, RevokeLeaseKeeps, DeferRecoveryKeeps, DecideRecoveryKeeps
<1>10. ASSUME NEW c \in issued,
              Heartbeat(c) \/ BrowserCommand(c) \/ Finalize(c) \/ RequestHuman(c)
       PROVE  RunInv'
  BY <1>10, HeartbeatKeeps, BrowserCommandKeeps, FinalizeKeeps, RequestHumanKeeps
<1>11. ASSUME NEW c \in issued, NEW o \in Outcomes, SubmitOutcome(c, o)
       PROVE  RunInv'
  BY <1>11, SubmitOutcomeKeeps
<1>12. CASE ResolveIntervention
  BY <1>12, ResolveInterventionKeeps
<1>13. CASE ExpireIntervention
  BY <1>13, ExpireInterventionKeeps
<1>14. CASE ExpireRun
  BY <1>14, ExpireRunKeeps
<1>15. CASE CancelCommit
  BY <1>15, CancelCommitKeeps
<1> QED BY <1>1, <1>2, <1>3, <1>4, <1>5, <1>6, <1>7, <1>8, <1>9, <1>10, <1>11, <1>12, <1>13,
           <1>14, <1>15, Zenon DEF Next

(* The inductive invariant of the run. *)
THEOREM RunInvariant == Spec => []RunInv
<1>1. Init => RunInv
  BY RunInvInit
<1>2. RunInv /\ [Next]_vars => RunInv'
  BY RunInvNext
<1> QED BY <1>1, <1>2, PTL DEF Spec

-----------------------------------------------------------------------------
(* Of the leases handed out at most one may report (requireLease): an owner is *)
(* the running task's, only the current attempt's task runs, and the fence     *)
(* tells its leases apart.                                                     *)
THEOREM OneExecutor == Spec => []OneLiveExecutor
<1>1. RunInv => OneLiveExecutor
  <2> SUFFICES ASSUME RunInv, NEW c \in issued, Owns(c)
               PROVE  /\ c.n = Cur /\ run.lifecycle = "RUNNING"
                      /\ \A d \in issued : Owns(d) => d = c
    BY DEF OneLiveExecutor
  <2>1. c.n = Cur /\ run.lifecycle = "RUNNING" /\ c.fence = att[Cur].fence
    BY OwnerIsCurrent
  <2>2. ASSUME NEW d \in issued, Owns(d) PROVE d = c
    <3>1. d.n = Cur /\ d.fence = att[Cur].fence
      BY <2>2, OwnerIsCurrent
    <3>2. c \in [n : Attempts, fence : Nat] /\ d \in [n : Attempts, fence : Nat]
      BY Facts
    <3> QED BY <2>1, <3>1, <3>2
  <2> QED BY <2>1, <2>2
<1> QED BY <1>1, RunInvariant, PTL

(* An attempt that wrote is never followed by another (submitOutcome,          *)
(* leaseRecoveryDecision), whatever the retry policy allows.                   *)
THEOREM WritesAreNotReplayed == Spec => []NoSilentReplay
<1>1. RunInv => NoSilentReplay
  BY DEF RunInv, Current, NoSilentReplay
<1> QED BY <1>1, RunInvariant, PTL

(* A lost lease is retried over a browser that is proved closed and whose      *)
(* writes are settled, once in the life of a run, however many attempts the    *)
(* policy grants (recoverExpiredLeases, infrastructureRecoveryCount).          *)
THEOREM OneRecovery == Spec => []RetryAfterClosure
<1>1. RunInv => RetryAfterClosure
  <2> SUFFICES ASSUME RunInv PROVE RetryAfterClosure
    OBVIOUS
  <2>1. \A n \in Attempts : att[n].rec = "RETRY_SCHEDULED" =>
           att[n].sess = "CLOSED" /\ att[n].write \in WriteSettled /\ n < Cur
    BY DEF RunInv, Sound, Current
  <2>2. run.recoveries = Cardinality(Retried) /\ run.recoveries <= 1
    <3>1. CASE run.recoveries = 0 /\ Retried = {}
      BY <3>1, FS_EmptySet
    <3>2. CASE run.recoveries = 1 /\ \E k \in Attempts : Retried = {k}
      BY <3>2, FS_Singleton
    <3> QED BY <3>1, <3>2 DEF RunInv, RetriedOnce
  <2> QED BY <2>1, <2>2 DEF RetryAfterClosure, Retried
<1> QED BY <1>1, RunInvariant, PTL

(* The rows of a run agree, and its verdict is that of its last attempt's      *)
(* accepted completion (submitOutcome, projectRuntimeOutcome, expireRuns,      *)
(* cancel).                                                                    *)
THEOREM VerdictsAreEarned == Spec => []VerdictIsEarned
<1>1. RunInv => VerdictIsEarned
  <2> SUFFICES ASSUME RunInv PROVE VerdictIsEarned
    OBVIOUS
  <2>1. /\ TypeRun /\ Phase /\ Earned /\ Cur \in Attempts
        /\ \A n \in Attempts : Sound(att[n]) /\ Current(n)
    BY Facts DEF RunInv
  <2>2. RowsAgree
    BY <2>1 DEF RowsAgree, Phase, Current, Terminal
  <2> QED BY <2>1, <2>2 DEF VerdictIsEarned, Earned, Sound
<1> QED BY <1>1, RunInvariant, PTL

(* A browser's permit ends with the run's budget (claim, heartbeat,            *)
(* resolveIntervention).                                                       *)
THEOREM PermitsEndWithBudget == Spec => []PermitEndsWithBudget
<1>1. RunInv => PermitEndsWithBudget
  BY DEF RunInv, Budgeted, PermitEndsWithBudget, Usable, Runnable
<1> QED BY <1>1, RunInvariant, PTL
=============================================================================
