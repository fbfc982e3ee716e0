----------------------- MODULE BrowserAdmissionProofs -----------------------
(***************************************************************************)
(* Proofs about BrowserAdmission, for every number of executions,          *)
(* replicas, slots and permits, and any claims.                            *)
(***************************************************************************)
EXTENDS BrowserAdmission, FunctionTheorems, FiniteSetTheorems, SequenceTheorems, WellFoundedInduction, TLAPS

(* The shapes of the rows. *)
Waiting == {"REQUESTED", "WAITING_CAPACITY", "ALLOCATING"}
Codes == {"NONE", "ADMISSION_STALE", "IDENTITY_CAPACITY", "LEASE_RECOVERY", "DATA_LOCK",
          "NO_AVAILABLE_SLOT", "SESSION_OPEN_FAILED"}
Scopes == UNION {UNION {Settings[n].claims[e] : e \in Settings[n].executions} : n \in DOMAIN Settings}
ExecRows ==
    [status : Waiting \cup {"ACTIVE", "RELEASING", "RELEASED", "LOST", "FAILED"}, tok : Tokens \cup {0},
     sess : 0..MaxSessions, restarts : {0, 1}, code : Codes, open : BOOLEAN]
TaskRows == [status : {"PENDING", "RUNNING", "ENDED"}, closing : BOOLEAN, stamp : Nat]
SessRows ==
    [exec : Executions \cup {0}, slot : Nat, permit : Nat, leases : SUBSET Scopes,
     status : {"NONE", "OPENING", "ACTIVE", "LOST", "CLOSED"}, quarantined : BOOLEAN, lapsed : BOOLEAN,
     owned : BOOLEAN, closed : BOOLEAN, closing : BOOLEAN, write : {"NONE", "SETTLED", "UNKNOWN"}]
Holding == {"OPEN", "AWAIT", "ACTIVATE", "FAIL_OPEN", "CLOSE"}
Working == Holding \cup {"ACQUIRE", "REOPEN", "REREAD", "ALLOCATE"}
WorkRows ==
    [pc : Working \cup {"IDLE", "WAIT", "DEFER", "FAIL"}, exec : Executions \cup {0},
     tok : Tokens \cup {0}, cur : Tokens \cup {0}, sess : 0..MaxSessions, code : Codes]
RelRows ==
    [pc : {"IDLE", "READ", "EMPTY", "CLOSED", "MARK", "CLOSE", "FINISH", "RECOVER"},
     exec : Executions \cup {0}, sess : 0..MaxSessions, tok : Tokens \cup {0}, stamp : Nat]

RowTypes ==
    /\ exec \in [Executions -> ExecRows] /\ task \in [Executions -> TaskRows]
    /\ sess \in [SessionIds -> SessRows] /\ browser \in [SessionIds -> {"NONE", "SENT", "LIVE", "GONE"}]
    /\ work \in [Workers -> WorkRows] /\ rel \in [Releasers -> RelRows]
    /\ spent \in [lapses : Nat, crashes : Nat, setting : DOMAIN Settings]

(* Sessions are created in turn. *)
Numbered ==
    /\ \E n \in 0..MaxSessions : Created = 1..n
    /\ \A s \in SessionIds \ Created : sess[s] = NoSession /\ browser[s] = "NONE"

(* Slot, permit and leases are all held until the closure; after it, what
   guards a write whose outcome is unknown. *)
Guarded(e) == {c \in Claims[e] : c.origin = "NORMAL" /\ c.mode = "WRITE"}

SessionFits(s) ==
    /\ sess[s].exec \in Runs
    /\ sess[s].closed <=> sess[s].status = "CLOSED"
    /\ sess[s].closed <=> sess[s].slot = 0
    /\ sess[s].closed <=> browser[s] = "GONE"
    /\ sess[s].closed => /\ sess[s].permit = 0
                         /\ sess[s].leases = IF sess[s].write = "UNKNOWN" THEN Guarded(sess[s].exec) ELSE {}
    /\ ~sess[s].closed => /\ sess[s].slot \in 1..Capacity
                          /\ sess[s].leases = Claims[sess[s].exec]
                          /\ Identity[sess[s].exec] # NoIdentity => sess[s].permit \in 1..Permits

(* No two of them share a slot or a permit, and none was admitted against
   what an earlier one holds. *)
Apart ==
    \A s, t \in Created : s < t /\ ~sess[t].closed =>
        /\ ~AnyConflict(Claims[sess[t].exec], sess[s].leases)
        /\ ~sess[s].closed =>
              /\ sess[s].slot # sess[t].slot
              /\ Identity[sess[s].exec] = Identity[sess[t].exec] /\ Identity[sess[t].exec] # NoIdentity
                 => sess[s].permit # sess[t].permit

Resources == Numbered /\ (\A s \in Created : SessionFits(s)) /\ Apart

(* An execution refers to its last session; the one before it is closed, had
   no agent, and was given up by the one restart. *)
Mine(e) == {s \in Created : sess[s].exec = e}

ExecFits(e) ==
    /\ exec[e].sess # 0 => exec[e].sess \in Mine(e)
    /\ \A s \in Mine(e) \ {exec[e].sess} :
          /\ sess[s].closed /\ ~sess[s].owned
          /\ exec[e].restarts = 1
          /\ exec[e].sess # 0 => s < exec[e].sess
          /\ \A t \in Mine(e) \ {exec[e].sess} : s = t

(* A session that is active is its execution's, which has been admitted; one
   whose closing was asked for has been lost, or its run is over. *)
Admitted(s) ==
    /\ sess[s].status = "ACTIVE" =>
          exec[sess[s].exec].sess = s /\ exec[sess[s].exec].status \notin Waiting
    /\ sess[s].status \in {"OPENING", "ACTIVE"} /\ sess[s].closing => ~exec[sess[s].exec].open

(* The task that runs has a browser that works, and nobody is closing it. *)
TaskFits(e) ==
    task[e].status = "RUNNING" =>
        LET s == exec[e].sess IN
        /\ s # 0 /\ exec[e].open /\ ~task[e].closing
        /\ Usable(s) /\ sess[s].owned /\ ~sess[s].closing

(* A worker knows a token of its own.  What it reads again, after it gave the
   first browser up, is that token, unless the run was called off. *)
WorkerFits(w) ==
    LET e == work[w].exec IN
    /\ work[w].pc = "IDLE" => work[w] = NoWork
    /\ work[w].pc # "IDLE" => e \in Runs /\ work[w].tok # 0 /\ work[w].cur \in {0, work[w].tok}
    /\ work[w].pc \in Holding \cup {"ALLOCATE", "WAIT"} /\ work[w].cur = 0 => ~exec[e].open
    /\ work[w].pc = "REREAD" =>
          exec[e].sess = 0 /\ (exec[e].tok = work[w].tok \/ (exec[e].tok = 0 /\ ~exec[e].open))
    /\ work[w].pc \in Holding \cup {"REOPEN"} => work[w].sess \in Created
    /\ work[w].pc \in Holding => sess[work[w].sess].status # "ACTIVE"
    /\ work[w].pc = "CLOSE" => sess[work[w].sess].status # "OPENING"
    /\ work[w].pc \in Working /\ exec[e].tok = work[w].tok
       => exec[e].status \notin {"REQUESTED", "WAITING_CAPACITY", "FAILED"}

WorkersApart ==
    \A v, w \in Workers : v # w =>
        /\ work[v].pc # "IDLE" => work[v].tok # work[w].tok
        /\ work[v].pc \in Holding /\ work[w].pc \in Holding => work[v].sess # work[w].sess

(* A release is for a run that is over, or it holds the reservation of the
   startup recovery, and with it the session it set out to close. *)
ReleaseFits(r) ==
    LET e == rel[r].exec  s == rel[r].sess IN
    /\ rel[r].pc = "IDLE" => rel[r] = NoRelease
    /\ rel[r].pc # "IDLE" => e \in Runs
    /\ s # 0 => s \in Mine(e)
    /\ rel[r].pc \in {"CLOSED", "MARK", "CLOSE", "FINISH", "RECOVER"} => s # 0
    /\ rel[r].pc # "IDLE" /\ rel[r].stamp = 0 => ~exec[e].open /\ rel[r].pc # "RECOVER"
    /\ rel[r].stamp # 0 =>
          /\ task[e].closing /\ task[e].stamp = rel[r].stamp /\ rel[r].pc # "EMPTY"
          /\ s # 0 /\ exec[e].sess = s /\ sess[s].status \notin {"OPENING", "ACTIVE"}

ReleasesApart == \A q, r \in Releasers : q # r /\ rel[q].stamp # 0 => rel[q].stamp # rel[r].stamp

AdmissionInv ==
    /\ RowTypes /\ Resources
    /\ \A e \in Executions : ExecFits(e) /\ TaskFits(e)
    /\ \A s \in Created : Admitted(s)
    /\ \A w \in Workers : WorkerFits(w)
    /\ \A r \in Releasers : ReleaseFits(r)
    /\ WorkersApart /\ ReleasesApart

(* The least of some numbers is one of them. *)
LEMMA LeastIsOne ==
    ASSUME NEW S \in SUBSET Nat, S # {}
    PROVE  Min(S) \in S
<1> DEFINE R == OpToRel(<, Nat)
<1>1. \A x, y \in Nat : x < y => <<x, y>> \in R
  BY DEF OpToRel
<1>2. IsWellFoundedOn(R, Nat)
  BY NatLessThanWellFounded
<1> HIDE DEF R
<1>3. PICK x \in S : \A y \in S : ~(<<y, x>> \in R)
  BY <1>2, WFMin
<1>4. ASSUME NEW y \in S PROVE x <= y
  <2>1. x \in Nat /\ y \in Nat
    OBVIOUS
  <2>2. ~(<<y, x>> \in R)
    BY <1>3
  <2>3. ~(y < x)
    BY <1>1, <2>1, <2>2, Zenon
  <2> QED BY <2>1, <2>3
<1> QED BY <1>4 DEF Min

(* What a table holds is no more than it has rows. *)
LEMMA ImageIsSmall ==
    ASSUME NEW S, IsFiniteSet(S), NEW f, DOMAIN f = S
    PROVE  LET T == {f[x] : x \in S} IN
           IsFiniteSet(T) /\ Cardinality(T) \in Nat /\ Cardinality(T) <= Cardinality(S)
<1> DEFINE T == {f[x] : x \in S}  g == [x \in S |-> f[x]]
<1>1. g \in Surjection(S, T)
  BY DEF Surjection
<1>2. IsFiniteSet(T) /\ Cardinality(T) <= Cardinality(S)
  BY <1>1, FS_Surjection
<1> QED BY <1>2, FS_CardinalityType

LEMMA UnionIsSmall ==
    ASSUME NEW S, IsFiniteSet(S), NEW T, IsFiniteSet(T), NEW m \in Nat, NEW n \in Nat,
           Cardinality(S) <= m, Cardinality(T) <= n
    PROVE  IsFiniteSet(S \cup T) /\ Cardinality(S \cup T) \in Nat /\ Cardinality(S \cup T) <= m + n
<1>1. /\ IsFiniteSet(S \cup T)
      /\ Cardinality(S \cup T) = Cardinality(S) + Cardinality(T) - Cardinality(S \cap T)
  BY FS_Union
<1>2. IsFiniteSet(S \cap T)
  BY FS_Subset
<1>3. Cardinality(S) \in Nat /\ Cardinality(T) \in Nat /\ Cardinality(S \cap T) \in Nat
      /\ Cardinality(S \cup T) \in Nat
  BY <1>1, <1>2, FS_CardinalityType
<1>4. Cardinality(S) + Cardinality(T) - Cardinality(S \cap T) <= m + n
  BY <1>3
<1> QED BY <1>1, <1>3, <1>4

(* What is not used up has a rest. *)
LEMMA SomeAreLeft ==
    ASSUME NEW n \in Nat, NEW S, IsFiniteSet(S), Cardinality(S) < n
    PROVE  Min((1..n) \ S) \in (1..n) \ S
<1>1. IsFiniteSet(1..n) /\ Cardinality(1..n) = n
  BY FS_Interval
<1>2. ASSUME 1..n \subseteq S PROVE FALSE
  <2>1. Cardinality(1..n) <= Cardinality(S)
    BY <1>2, FS_Subset
  <2> QED BY <1>1, <2>1, FS_CardinalityType
<1>3. (1..n) \ S # {}
  BY <1>2
<1> QED BY <1>3, LeastIsOne

(* A token or a stamp that is drawn is one nothing remembers. *)
LEMMA TokenIsNew ==
    ASSUME RowTypes
    PROVE  /\ NewToken \in Tokens
           /\ \A e \in Executions : exec[e].tok # NewToken
           /\ \A w \in Workers : work[w].tok # NewToken /\ work[w].cur # NewToken
           /\ \A r \in Releasers : rel[r].tok # NewToken
<1> DEFINE fe == [e \in Executions |-> exec[e].tok]  fw == [w \in Workers |-> work[w].tok]
           fc == [w \in Workers |-> work[w].cur]     fr == [r \in Releasers |-> rel[r].tok]
           E == {fe[e] : e \in Executions}  W == {fw[w] : w \in Workers}
           C == {fc[w] : w \in Workers}     R == {fr[r] : r \in Releasers}
<1>1. /\ IsFiniteSet(Executions) /\ IsFiniteSet(Workers) /\ IsFiniteSet(Releasers)
      /\ Cardinality(Executions) \in Nat /\ Cardinality(Workers) \in Nat /\ Cardinality(Releasers) \in Nat
  BY AdmissionParameters, FS_CardinalityType
<1>2. /\ DOMAIN fe = Executions /\ DOMAIN fw = Workers /\ DOMAIN fc = Workers /\ DOMAIN fr = Releasers
      /\ E = {exec[e].tok : e \in Executions} /\ W = {work[w].tok : w \in Workers}
      /\ C = {work[w].cur : w \in Workers} /\ R = {rel[r].tok : r \in Releasers}
  OBVIOUS
<1> HIDE DEF fe, fw, fc, fr
<1>3. /\ IsFiniteSet(E) /\ Cardinality(E) <= Cardinality(Executions)
      /\ IsFiniteSet(W) /\ Cardinality(W) <= Cardinality(Workers)
      /\ IsFiniteSet(C) /\ Cardinality(C) <= Cardinality(Workers)
      /\ IsFiniteSet(R) /\ Cardinality(R) <= Cardinality(Releasers)
  <2>1. IsFiniteSet(E) /\ Cardinality(E) <= Cardinality(Executions)
    BY <1>1, <1>2, ImageIsSmall
  <2>2. IsFiniteSet(W) /\ Cardinality(W) <= Cardinality(Workers)
    BY <1>1, <1>2, ImageIsSmall
  <2>3. IsFiniteSet(C) /\ Cardinality(C) <= Cardinality(Workers)
    BY <1>1, <1>2, ImageIsSmall
  <2>4. IsFiniteSet(R) /\ Cardinality(R) <= Cardinality(Releasers)
    BY <1>1, <1>2, ImageIsSmall
  <2> QED BY <2>1, <2>2, <2>3, <2>4
<1> HIDE DEF E, W, C, R
<1> DEFINE a == Cardinality(Executions)  b == Cardinality(Workers)  c == Cardinality(Releasers)
<1>4. a \in Nat /\ b \in Nat /\ c \in Nat /\ a + b \in Nat /\ a + b + b \in Nat /\ a + b + b + c \in Nat
  BY <1>1
<1>5. IsFiniteSet(E \cup W) /\ Cardinality(E \cup W) <= a + b
  BY <1>3, <1>4, UnionIsSmall
<1>6. IsFiniteSet(E \cup W \cup C) /\ Cardinality(E \cup W \cup C) <= a + b + b
  BY <1>3, <1>4, <1>5, UnionIsSmall
<1>7. /\ IsFiniteSet(E \cup W \cup C \cup R) /\ Cardinality(E \cup W \cup C \cup R) \in Nat
      /\ Cardinality(E \cup W \cup C \cup R) <= a + b + b + c
  BY <1>3, <1>4, <1>6, UnionIsSmall
<1>8. a + 2 * b + c + 1 = a + b + b + c + 1 /\ a + 2 * b + c + 1 \in Nat
  BY <1>4
<1>9. Cardinality(E \cup W \cup C \cup R) < a + 2 * b + c + 1
  BY <1>4, <1>7, <1>8
<1>10. NewToken = Min(Tokens \ (E \cup W \cup C \cup R))
  BY <1>2 DEF NewToken
<1>11. NewToken \in Tokens \ (E \cup W \cup C \cup R)
  BY <1>7, <1>8, <1>9, <1>10, SomeAreLeft DEF Tokens
<1> QED BY <1>2, <1>11

LEMMA StampIsNew ==
    ASSUME RowTypes
    PROVE  NewStamp \in Nat \ {0} /\ \A r \in Releasers : rel[r].stamp # NewStamp
<1> DEFINE f == [r \in Releasers |-> rel[r].stamp]  R == {f[r] : r \in Releasers}
           n == Cardinality(Releasers)
<1>1. IsFiniteSet(Releasers) /\ n \in Nat
  BY AdmissionParameters, FS_CardinalityType
<1>2. DOMAIN f = Releasers /\ R = {rel[r].stamp : r \in Releasers}
  OBVIOUS
<1> HIDE DEF f
<1>3. IsFiniteSet(R) /\ Cardinality(R) \in Nat /\ Cardinality(R) <= n
  BY <1>1, <1>2, ImageIsSmall
<1> HIDE DEF R
<1>4. n + 1 \in Nat /\ Cardinality(R) < n + 1
  BY <1>1, <1>3
<1>5. NewStamp = Min((1..(n + 1)) \ R)
  BY <1>2 DEF NewStamp
<1>6. NewStamp \in (1..(n + 1)) \ R
  BY <1>3, <1>4, <1>5, SomeAreLeft
<1> QED BY <1>2, <1>4, <1>6

(* What a behaviour is about does not change. *)
LEMMA SettingFacts ==
    ASSUME RowTypes
    PROVE  /\ Runs \subseteq Executions /\ FailFast \subseteq Runs /\ Cancelled \subseteq Runs
           /\ Permits \in Nat \ {0} /\ Capacity \in Nat \ {0} /\ Setting.sessions \in 0..MaxSessions
           /\ Setting.workers \subseteq Workers /\ Setting.releasers \subseteq Releasers
           /\ \A e \in Runs : Claims[e] \in SUBSET Scopes
           /\ \A e \in Runs : \A c \in Claims[e] :
                 c.mode \in Modes /\ c.origin \in Origins /\ c.key \in Seq(STRING)
           /\ MaxSessions \in Nat /\ Executions \subseteq Nat \ {0} /\ 0 \notin Runs
<1>1. PICK n \in DOMAIN Settings : n = spent.setting
  BY DEF RowTypes
<1>2. Setting = Settings[n]
  BY <1>1 DEF Setting
<1>3. \A e \in Runs : Claims[e] \in SUBSET Scopes
  BY <1>2 DEF Scopes, Runs, Claims
<1> QED BY <1>2, <1>3, AdmissionParameters DEF Runs, FailFast, Cancelled, Permits, Capacity, Claims

LEMMA SettingStays ==
    ASSUME spent'.setting = spent.setting
    PROVE  /\ Setting' = Setting /\ Runs' = Runs /\ Claims' = Claims /\ Identity' = Identity
           /\ Permits' = Permits /\ Capacity' = Capacity
BY DEF Setting, Runs, Claims, Identity, Permits, Capacity

(* Most steps leave alone what a session holds. *)
SameHold(s) ==
    /\ sess'[s].status = "NONE" <=> sess[s].status = "NONE"
    /\ sess[s].status = "NONE" => sess'[s] = sess[s] /\ browser'[s] = browser[s]
    /\ sess'[s].exec = sess[s].exec /\ sess'[s].slot = sess[s].slot /\ sess'[s].permit = sess[s].permit
    /\ sess'[s].leases = sess[s].leases /\ sess'[s].closed = sess[s].closed
    /\ sess'[s].status = "CLOSED" <=> sess[s].status = "CLOSED"
    /\ browser'[s] = "GONE" <=> browser[s] = "GONE"
    /\ sess[s].closed => sess'[s].write = sess[s].write

LEMMA CreatedKept ==
    ASSUME \A s \in SessionIds : sess'[s].status = "NONE" <=> sess[s].status = "NONE"
    PROVE  Created' = Created
BY DEF Created

LEMMA ResourcesKept ==
    ASSUME RowTypes, Resources, spent'.setting = spent.setting, \A s \in SessionIds : SameHold(s)
    PROVE  Resources' /\ Created' = Created
<1>1. Created' = Created /\ Created \subseteq SessionIds
  BY CreatedKept DEF SameHold, Created
<1>2. Numbered'
  BY <1>1 DEF Numbered, Resources, SameHold, Created
<1>3. ASSUME NEW s \in Created PROVE SessionFits(s)'
  <2>1. /\ SessionFits(s) /\ SameHold(s)
    BY <1>1, <1>3 DEF Resources
  <2> QED BY <2>1, SettingStays DEF SessionFits, SameHold, Guarded
<1>4. Apart'
  <2> SUFFICES ASSUME NEW s \in Created, NEW t \in Created, s < t, ~sess'[t].closed
               PROVE  /\ ~AnyConflict(Claims[sess[t].exec], sess[s].leases)'
                      /\ ~sess'[s].closed =>
                            /\ sess'[s].slot # sess'[t].slot
                            /\ Identity'[sess'[s].exec] = Identity'[sess'[t].exec]
                               /\ Identity'[sess'[t].exec] # NoIdentity
                               => sess'[s].permit # sess'[t].permit
    BY <1>1 DEF Apart
  <2>1. SameHold(s) /\ SameHold(t)
    BY <1>1
  <2>2. ~sess[t].closed
    BY <2>1 DEF SameHold
  <2>3. /\ ~AnyConflict(Claims[sess[t].exec], sess[s].leases)
        /\ ~sess[s].closed =>
              /\ sess[s].slot # sess[t].slot
              /\ Identity[sess[s].exec] = Identity[sess[t].exec] /\ Identity[sess[t].exec] # NoIdentity
                 => sess[s].permit # sess[t].permit
    BY <2>2 DEF Resources, Apart
  <2> QED BY <2>1, <2>3, SettingStays DEF SameHold, AnyConflict
<1> QED BY <1>1, <1>2, <1>3, <1>4 DEF Resources

(* The chain of an execution's sessions: no session changes hands, what is
   closed stays closed, and only the last one gets an agent. *)
LEMMA ChainKept ==
    ASSUME RowTypes, Created' = Created, NEW e \in Executions, ExecFits(e),
           exec'[e].sess = exec[e].sess, exec'[e].restarts = exec[e].restarts,
           \A s \in Created : /\ sess'[s].exec = sess[s].exec /\ (sess[s].closed => sess'[s].closed)
                              /\ sess'[s].owned => sess[s].owned \/ exec[sess[s].exec].sess = s
    PROVE  ExecFits(e)'
<1>1. Mine(e)' = Mine(e)
  BY DEF Mine
<1>2. \A s \in Mine(e) \ {exec[e].sess} : sess'[s].closed /\ (sess'[s].owned => sess[s].owned)
  BY DEF Mine, ExecFits
<1> QED BY <1>1, <1>2 DEF ExecFits

LEMMA TaskKept ==
    ASSUME NEW e \in Executions, TaskFits(e),
           task'[e].status = "RUNNING" =>
              /\ task[e].status = "RUNNING" /\ task'[e].closing = task[e].closing
              /\ exec'[e].sess = exec[e].sess /\ exec'[e].open = exec[e].open
              /\ sess'[exec[e].sess] = sess[exec[e].sess]
    PROVE  TaskFits(e)'
BY DEF TaskFits, Usable

LEMMA WorkerKept ==
    ASSUME NEW w \in Workers, WorkerFits(w), work'[w] = work[w], spent'.setting = spent.setting,
           Created \subseteq Created',
           LET e == work[w].exec IN
              /\ exec'[e].open => exec[e].open
              /\ work[w].pc = "REREAD" =>
                    exec'[e].sess = exec[e].sess
                    /\ (exec'[e].tok = exec[e].tok \/ (exec'[e].tok = 0 /\ ~exec'[e].open))
              /\ work[w].pc \in Working /\ exec'[e].tok = work[w].tok =>
                    exec[e].tok = work[w].tok
                    /\ (exec'[e].status \in {"REQUESTED", "WAITING_CAPACITY", "FAILED"}
                        => exec[e].status \in {"REQUESTED", "WAITING_CAPACITY", "FAILED"}),
           work[w].pc \in Holding =>
              /\ sess'[work[w].sess].status = "ACTIVE" => sess[work[w].sess].status = "ACTIVE"
              /\ sess'[work[w].sess].status = "OPENING" => sess[work[w].sess].status = "OPENING"
    PROVE  WorkerFits(w)'
<1>1. Runs' = Runs /\ Holding \subseteq Working /\ "REREAD" \in Working /\ "CLOSE" \in Holding
  BY SettingStays DEF Working, Holding
<1> QED BY <1>1 DEF WorkerFits

LEMMA ReleaseKept ==
    ASSUME NEW r \in Releasers, ReleaseFits(r), rel'[r] = rel[r], spent'.setting = spent.setting,
           Created \subseteq Created',
           LET e == rel[r].exec  s == rel[r].sess IN
              /\ exec'[e].open => exec[e].open
              /\ rel[r].stamp # 0 =>
                    /\ task'[e].closing = task[e].closing /\ task'[e].stamp = task[e].stamp
                    /\ exec'[e].sess = exec[e].sess
              /\ s \in Created => /\ sess'[s].exec = sess[s].exec
                                  /\ sess'[s].status \in {"OPENING", "ACTIVE"} =>
                                        sess[s].status \in {"OPENING", "ACTIVE"}
    PROVE  ReleaseFits(r)'
BY SettingStays DEF ReleaseFits, Mine

(* One worker moves on with the token and the session it has, or is done. *)
LEMMA WorkersKeptApart ==
    ASSUME RowTypes, WorkersApart, NEW w \in Workers, NEW q, work' = [work EXCEPT ![w] = q],
           q.pc = "IDLE" \/ (work[w].pc # "IDLE" /\ q.tok = work[w].tok),
           q.pc \in Holding => work[w].pc \in Holding /\ q.sess = work[w].sess,
           q.pc = "IDLE" => q.tok = 0, \A v \in Workers : work[v].pc # "IDLE" => work[v].tok # 0
    PROVE  WorkersApart'
<1>1. work'[w] = q /\ \A v \in Workers \ {w} : work'[v] = work[v]
  BY DEF RowTypes
<1> QED BY <1>1 DEF WorkersApart, Holding

---------------------------------------------------------------------------
(* Steps of a worker that move nothing but itself. *)
LEMMA WorkMoves ==
    ASSUME AdmissionInv, NEW w \in Workers, NEW q \in WorkRows, work' = [work EXCEPT ![w] = q],
           UNCHANGED <<exec, task, sess, browser, rel>>,
           spent' \in [lapses : Nat, crashes : Nat, setting : DOMAIN Settings],
           spent'.setting = spent.setting, WorkerFits(w)',
           q.pc = "IDLE" \/ (work[w].pc # "IDLE" /\ q.tok = work[w].tok),
           q.pc = "IDLE" => q.tok = 0,
           q.pc \in Holding => work[w].pc \in Holding /\ q.sess = work[w].sess
    PROVE  AdmissionInv'
<1>1. RowTypes'
  BY DEF AdmissionInv, RowTypes
<1>2. Resources' /\ Created' = Created
  BY ResourcesKept DEF AdmissionInv, SameHold
<1>3. \A e \in Executions : ExecFits(e)' /\ TaskFits(e)'
  BY <1>2, ChainKept, TaskKept DEF AdmissionInv
<1>4. \A s \in Created' : Admitted(s)'
  BY <1>2 DEF AdmissionInv, Admitted
<1>5. ASSUME NEW v \in Workers PROVE WorkerFits(v)'
  <2>1. CASE v = w
    BY <2>1
  <2>2. CASE v # w
    <3>1. work'[v] = work[v] /\ WorkerFits(v)
      BY <2>2 DEF AdmissionInv, RowTypes
    <3> QED BY <1>2, <3>1, WorkerKept
  <2> QED BY <2>1, <2>2
<1>6. ASSUME NEW r \in Releasers PROVE ReleaseFits(r)'
  BY <1>2, ReleaseKept DEF AdmissionInv
<1>7. WorkersApart'
  <2>1. \A v \in Workers : work[v].pc # "IDLE" => work[v].tok # 0
    BY DEF AdmissionInv, WorkerFits
  <2> QED BY <2>1, WorkersKeptApart DEF AdmissionInv
<1>8. ReleasesApart'
  BY DEF AdmissionInv, ReleasesApart
<1> QED BY <1>1, <1>2, <1>3, <1>4, <1>5, <1>6, <1>7, <1>8 DEF AdmissionInv

LEMMA IdleFits ==
    NoWork \in WorkRows /\ NoWork.pc = "IDLE" /\ NoWork.tok = 0 /\ NoRelease \in RelRows
    /\ NoRelease.pc = "IDLE" /\ NoRelease.stamp = 0 /\ NoRelease.sess = 0
<1>1. 0 \in Executions \cup {0} /\ 0 \in Tokens \cup {0} /\ 0 \in 0..MaxSessions /\ "NONE" \in Codes
  BY AdmissionParameters DEF Codes
<1> QED BY <1>1 DEF NoWork, NoRelease, WorkRows, RelRows

(* A refused worker keeps its token. *)
LEMMA RefuseStep ==
    ASSUME AdmissionInv, NEW w \in Workers, NEW code \in Codes, Refuse(w, code), work[w].pc # "IDLE",
           code \in Unavailable /\ work[w].cur = 0 => ~exec[work[w].exec].open,
           UNCHANGED <<exec, task, sess, browser, rel, spent>>
    PROVE  AdmissionInv'
<1>1. PICK p : p = IF code \in Unavailable THEN "WAIT" ELSE "DEFER"
  OBVIOUS
<1>2. PICK q : q = [work[w] EXCEPT !.code = code, !.pc = p]
  OBVIOUS
<1>3. work' = [work EXCEPT ![w] = q]
  BY <1>1, <1>2 DEF Refuse
<1>4. p \in {"WAIT", "DEFER"} /\ (p = "WAIT" => code \in Unavailable)
  BY <1>1
<1>5. work \in [Workers -> WorkRows] /\ work[w] \in WorkRows
  BY DEF AdmissionInv, RowTypes
<1>6. q \in WorkRows /\ q.pc = p /\ q.tok = work[w].tok /\ q.exec = work[w].exec /\ q.cur = work[w].cur
  BY <1>2, <1>4, <1>5 DEF WorkRows
<1>7. work'[w] = q
  BY <1>3, <1>5
<1>8. WorkerFits(w)'
  <2>1. WorkerFits(w) /\ Runs' = Runs
    BY SettingStays DEF AdmissionInv
  <2> QED BY <1>4, <1>6, <1>7, <2>1 DEF WorkerFits, Holding, Working
<1> QED BY <1>3, <1>4, <1>6, <1>8, WorkMoves DEF Holding, AdmissionInv, RowTypes

LEMMA EndStep ==
    ASSUME AdmissionInv, NEW w \in Workers, Ends(w), UNCHANGED <<exec, task, sess, browser, rel>>,
           spent' \in [lapses : Nat, crashes : Nat, setting : DOMAIN Settings],
           spent'.setting = spent.setting
    PROVE  AdmissionInv'
<1>1. work' = [work EXCEPT ![w] = NoWork] /\ work'[w] = NoWork
  BY DEF Ends, AdmissionInv, RowTypes
<1>2. WorkerFits(w)'
  BY <1>1, IdleFits DEF WorkerFits, Holding, Working
<1> QED BY <1>1, <1>2, IdleFits, WorkMoves DEF Holding

LEMMA AcquireStep ==
    ASSUME AdmissionInv, NEW w \in Workers, Acquire(w)
    PROVE  AdmissionInv'
<1>1. PICK e : e = work[w].exec
  OBVIOUS
<1>2. PICK s : s = exec[e].sess
  OBVIOUS
<1>3. /\ work[w].pc = "ACQUIRE" /\ work[w] \in WorkRows /\ work \in [Workers -> WorkRows]
      /\ WorkerFits(w) /\ e \in Runs /\ e \in Executions /\ exec[e] \in ExecRows
      /\ work[w].tok # 0
      /\ UNCHANGED <<exec, task, sess, browser, rel, spent>>
  <2>1. /\ work[w].pc = "ACQUIRE" /\ UNCHANGED <<exec, task, sess, browser, rel, spent>>
    BY DEF Acquire
  <2>2. work[w] \in WorkRows /\ work \in [Workers -> WorkRows] /\ WorkerFits(w)
    BY DEF AdmissionInv, RowTypes
  <2>3. e \in Runs /\ work[w].tok # 0
    BY <1>1, <2>1, <2>2 DEF WorkerFits
  <2> QED BY <2>1, <2>2, <2>3, SettingFacts DEF AdmissionInv, RowTypes
<1>4. spent' \in [lapses : Nat, crashes : Nat, setting : DOMAIN Settings] /\ spent'.setting = spent.setting
  BY <1>3 DEF AdmissionInv, RowTypes
<1>5. \/ Refuse(w, "ADMISSION_STALE") \/ Refuse(w, "LEASE_RECOVERY") \/ Ends(w)
      \/ exec[e].tok = work[w].tok /\ work' = [work EXCEPT ![w].pc = "ALLOCATE", ![w].cur = exec[e].tok]
      \/ s # 0 /\ work' = [work EXCEPT ![w].pc = "REOPEN", ![w].sess = s]
  BY <1>1, <1>2, Zenon DEF Acquire
<1>6. CASE Refuse(w, "ADMISSION_STALE")
  BY <1>3, <1>6, RefuseStep DEF Codes, Unavailable
<1>7. CASE Refuse(w, "LEASE_RECOVERY")
  BY <1>3, <1>7, RefuseStep DEF Codes, Unavailable
<1>8. CASE Ends(w)
  BY <1>3, <1>4, <1>8, EndStep
<1>9. CASE exec[e].tok = work[w].tok /\ work' = [work EXCEPT ![w].pc = "ALLOCATE", ![w].cur = exec[e].tok]
  <2>1. PICK k \in Tokens : k = exec[e].tok /\ k = work[w].tok /\ k # 0
    BY <1>3, <1>9 DEF ExecRows
  <2>2. PICK q : q = [work[w] EXCEPT !.pc = "ALLOCATE", !.cur = k]
    OBVIOUS
  <2>3. /\ work' = [work EXCEPT ![w] = q] /\ q \in WorkRows /\ q.pc = "ALLOCATE" /\ q.tok = work[w].tok
        /\ q.cur = k /\ q.exec = e /\ work'[w] = q
    BY <1>1, <1>3, <1>9, <2>1, <2>2 DEF WorkRows, Working
  <2>4. WorkerFits(w)'
    <3>1. WorkerFits(w) /\ Runs' = Runs
      BY <1>3, SettingStays
    <3> QED BY <1>1, <1>3, <2>1, <2>3, <3>1 DEF WorkerFits, Holding, Working
  <2> QED BY <1>3, <1>4, <2>3, <2>4, WorkMoves DEF Holding
<1>10. CASE s # 0 /\ work' = [work EXCEPT ![w].pc = "REOPEN", ![w].sess = s]
  <2>1. s \in 0..MaxSessions /\ s \in Created
    BY <1>2, <1>3, <1>10 DEF ExecRows, AdmissionInv, ExecFits, Mine
  <2>2. PICK q : q = [work[w] EXCEPT !.pc = "REOPEN", !.sess = s]
    OBVIOUS
  <2>3. /\ work' = [work EXCEPT ![w] = q] /\ q \in WorkRows /\ q.pc = "REOPEN" /\ q.tok = work[w].tok
        /\ q.cur = work[w].cur /\ q.exec = e /\ q.sess = s /\ work'[w] = q
    BY <1>1, <1>3, <1>10, <2>1, <2>2 DEF WorkRows, Working
  <2>4. WorkerFits(w)'
    <3>1. WorkerFits(w) /\ Runs' = Runs /\ Created' = Created
      BY <1>3, SettingStays DEF Created
    <3> QED BY <1>1, <1>3, <2>1, <2>3, <3>1 DEF WorkerFits, Holding, Working
  <2> QED BY <1>3, <1>4, <2>3, <2>4, WorkMoves DEF Holding
<1> QED BY <1>5, <1>6, <1>7, <1>8, <1>9, <1>10

(* A worker that goes on to another statement. *)
LEMMA ToRow ==
    ASSUME RowTypes, NEW w \in Workers, NEW pc \in Working \cup {"IDLE", "WAIT", "DEFER", "FAIL"}, To(w, pc)
    PROVE  \E q \in WorkRows :
              /\ work' = [work EXCEPT ![w] = q] /\ work'[w] = q /\ q.pc = pc /\ q.tok = work[w].tok
              /\ q.cur = work[w].cur /\ q.exec = work[w].exec /\ q.sess = work[w].sess
<1>1. PICK q : q = [work[w] EXCEPT !.pc = pc]
  OBVIOUS
<1>2. work \in [Workers -> WorkRows]
  BY DEF RowTypes
<1>3. q \in WorkRows /\ q.pc = pc /\ q.tok = work[w].tok /\ q.cur = work[w].cur
      /\ q.exec = work[w].exec /\ q.sess = work[w].sess
  BY <1>1, <1>2 DEF WorkRows
<1> QED BY <1>1, <1>2, <1>3 DEF To

LEMMA WorkerFacts ==
    ASSUME AdmissionInv, NEW w \in Workers
    PROVE  /\ work \in [Workers -> WorkRows] /\ work[w] \in WorkRows /\ WorkerFits(w)
           /\ work[w].pc # "IDLE" =>
                 /\ work[w].exec \in Runs /\ work[w].exec \in Executions
                 /\ exec[work[w].exec] \in ExecRows /\ exec \in [Executions -> ExecRows]
                 /\ task[work[w].exec] \in TaskRows /\ task \in [Executions -> TaskRows]
                 /\ work[w].tok # 0 /\ work[w].cur \in {0, work[w].tok}
           /\ work[w].pc \in Holding \cup {"REOPEN"} => work[w].sess \in Created /\ work[w].sess \in SessionIds
           /\ spent \in [lapses : Nat, crashes : Nat, setting : DOMAIN Settings]
           /\ \A v \in Workers : work[v].pc # "IDLE" => work[v].tok # 0
<1>1. WorkerFits(w) /\ RowTypes
  BY DEF AdmissionInv
<1>2. work[w].pc # "IDLE" => work[w].exec \in Executions
  BY <1>1, SettingFacts DEF WorkerFits
<1> QED BY <1>1, <1>2 DEF WorkerFits, RowTypes, Created, AdmissionInv

LEMMA RereadStep ==
    ASSUME AdmissionInv, NEW w \in Workers, Reread(w)
    PROVE  AdmissionInv'
<1>1. work[w].pc = "REREAD" /\ UNCHANGED <<exec, task, sess, browser, rel, spent>>
  BY DEF Reread
<1>2. PICK k \in Tokens \cup {0} : k = exec[work[w].exec].tok
  BY <1>1, WorkerFacts DEF ExecRows
<1>3. k = work[w].tok \/ (k = 0 /\ ~exec[work[w].exec].open)
  BY <1>1, <1>2, WorkerFacts DEF WorkerFits
<1>4. PICK x \in WorkRows : x = [work[w] EXCEPT !.pc = "ALLOCATE", !.cur = k]
  BY WorkerFacts DEF WorkRows, Working
<1>5. PICK q : q = [work[w] EXCEPT !.pc = "ALLOCATE", !.cur = k, !.sess = 0]
  OBVIOUS
<1>6. /\ q \in WorkRows /\ q.pc = "ALLOCATE" /\ q.tok = work[w].tok /\ q.cur = k /\ q.exec = work[w].exec
  <2>1. q = [x EXCEPT !.sess = 0] /\ 0 \in 0..MaxSessions
    BY <1>4, <1>5, AdmissionParameters
  <2>2. /\ x.pc = "ALLOCATE" /\ x.tok = work[w].tok /\ x.cur = k /\ x.exec = work[w].exec
    BY <1>4, WorkerFacts DEF WorkRows
  <2> QED BY <2>1, <2>2 DEF WorkRows
<1>7. work' = [work EXCEPT ![w] = q] /\ work'[w] = q
  BY <1>2, <1>5, WorkerFacts DEF Reread
<1>8. WorkerFits(w)'
  <2>1. WorkerFits(w) /\ Runs' = Runs
    BY <1>1, WorkerFacts, SettingStays
  <2> QED BY <1>1, <1>3, <1>6, <1>7, <2>1 DEF WorkerFits, Holding, Working
<1> QED BY <1>1, <1>6, <1>7, <1>8, WorkerFacts, WorkMoves DEF Holding

LEMMA AllocateRefusedStep ==
    ASSUME AdmissionInv, NEW w \in Workers, AllocateRefused(w)
    PROVE  AdmissionInv'
<1>1. PICK must : must = Refusals(work[w].exec, work[w].cur)
  OBVIOUS
<1>2. PICK codes : codes = IF must # {} THEN must ELSE MayRefuse(w, work[w].exec)
  OBVIOUS
<1>3. /\ work[w].pc = "ALLOCATE" /\ \E code \in codes : Refuse(w, code)
      /\ UNCHANGED <<exec, task, sess, browser, rel, spent>>
  BY <1>1, <1>2, Zenon DEF AllocateRefused
<1>4. must \subseteq Codes
  BY <1>1 DEF Refusals, Codes
<1>5. codes \subseteq Codes
  BY <1>2, <1>4 DEF MayRefuse, Codes
<1>6. PICK code \in Codes : Refuse(w, code)
  BY <1>3, <1>5
<1>7. work[w].cur = 0 => ~exec[work[w].exec].open
  BY <1>3, WorkerFacts DEF WorkerFits
<1> QED BY <1>3, <1>6, <1>7, RefuseStep

LEMMA OpenAnsweredStep ==
    ASSUME AdmissionInv, NEW w \in Workers, OpenAnswered(w)
    PROVE  AdmissionInv'
<1>1. /\ work[w].pc = "AWAIT" /\ UNCHANGED <<exec, task, sess, browser, rel, spent>>
  BY DEF OpenAnswered
<1>2. PICK pc \in {"ACTIVATE", "FAIL_OPEN"} : To(w, pc)
  BY DEF OpenAnswered
<1>3. PICK q \in WorkRows :
         /\ work' = [work EXCEPT ![w] = q] /\ work'[w] = q /\ q.pc = pc /\ q.tok = work[w].tok
         /\ q.cur = work[w].cur /\ q.exec = work[w].exec /\ q.sess = work[w].sess
  BY <1>2, ToRow DEF AdmissionInv, Working, Holding
<1>4. WorkerFits(w)'
  <2>1. WorkerFits(w) /\ Runs' = Runs /\ Created' = Created
    BY <1>1, WorkerFacts, SettingStays DEF Created
  <2> QED BY <1>1, <1>2, <1>3, <2>1 DEF WorkerFits, Holding, Working
<1> QED BY <1>1, <1>2, <1>3, <1>4, WorkerFacts, WorkMoves DEF Holding

---------------------------------------------------------------------------
(* Steps that move sessions.  All but what the moving worker or release knows
   is kept. *)
RestKept ==
    /\ RowTypes' /\ Resources' /\ Created' = Created
    /\ \A e \in Executions : ExecFits(e)' /\ TaskFits(e)'
    /\ \A s \in Created' : Admitted(s)'
    /\ \A w \in Workers : work'[w] = work[w] => WorkerFits(w)'
    /\ \A r \in Releasers : rel'[r] = rel[r] => ReleaseFits(r)'

(* A row with the resources, the agent and the writes of the session's. *)
Keeps(s, q) ==
    /\ q.exec = sess[s].exec /\ q.slot = sess[s].slot /\ q.permit = sess[s].permit
    /\ q.leases = sess[s].leases /\ q.closed = sess[s].closed /\ q.write = sess[s].write
    /\ q.owned = sess[s].owned

LEMMA SessionMoves ==
    ASSUME AdmissionInv, UNCHANGED <<exec, task>>, RowTypes', spent'.setting = spent.setting,
           \A s \in SessionIds : SameHold(s),
           \A s \in Created :
              /\ sess'[s].owned => sess[s].owned
              /\ sess'[s].status \in {"OPENING", "ACTIVE"} => sess[s].status = sess'[s].status
              /\ sess'[s].status \in {"OPENING", "ACTIVE"} /\ sess'[s].closing
                 => sess[s].closing \/ ~exec[sess[s].exec].open,
           \A e \in Executions : task[e].status = "RUNNING" => sess'[exec[e].sess] = sess[exec[e].sess]
    PROVE  RestKept
<1>1. Resources' /\ Created' = Created /\ Created \subseteq SessionIds
  BY ResourcesKept DEF AdmissionInv, Created
<1>2. ASSUME NEW e \in Executions PROVE ExecFits(e)' /\ TaskFits(e)'
  <2>1. ExecFits(e) /\ TaskFits(e) /\ RowTypes
    BY DEF AdmissionInv
  <2>2. ExecFits(e)'
    BY <1>1, <2>1, ChainKept DEF SameHold
  <2> QED BY <2>1, <2>2, TaskKept
<1>3. ASSUME NEW s \in Created PROVE Admitted(s)'
  <2>1. Admitted(s) /\ SameHold(s)
    BY <1>1 DEF AdmissionInv
  <2> QED BY <2>1 DEF Admitted, SameHold
<1>4. ASSUME NEW w \in Workers, work'[w] = work[w] PROVE WorkerFits(w)'
  <2>1. WorkerFits(w) /\ (work[w].pc \in Holding => work[w].sess \in Created)
    BY DEF AdmissionInv, WorkerFits
  <2> QED BY <1>1, <1>4, <2>1, WorkerKept
<1>5. ASSUME NEW r \in Releasers, rel'[r] = rel[r] PROVE ReleaseFits(r)'
  <2>1. ReleaseFits(r)
    BY DEF AdmissionInv
  <2> QED BY <1>1, <1>5, <2>1, ReleaseKept DEF SameHold
<1> QED BY <1>1, <1>2, <1>3, <1>4, <1>5 DEF RestKept

(* A running task's browser is not one that was lost, lapsed or given up. *)
LEMMA InUse ==
    ASSUME AdmissionInv, NEW e \in Executions, task[e].status = "RUNNING", NEW s, s = exec[e].sess
    PROVE  /\ s \in Created /\ sess[s].exec = e /\ exec[e].open /\ sess[s].status = "ACTIVE"
           /\ ~sess[s].lapsed /\ ~sess[s].quarantined /\ ~sess[s].closed /\ sess[s].owned
           /\ ~sess[s].closing /\ ~task[e].closing /\ exec[e].status \notin Waiting
BY DEF AdmissionInv, TaskFits, ExecFits, Mine, Usable, Admitted

LEMMA SessionTouched ==
    ASSUME AdmissionInv, UNCHANGED <<exec, task, browser>>, spent'.setting = spent.setting,
           work' \in [Workers -> WorkRows], rel' \in [Releasers -> RelRows],
           spent' \in [lapses : Nat, crashes : Nat, setting : DOMAIN Settings],
           NEW s \in Created, NEW q \in SessRows, sess' = [sess EXCEPT ![s] = q],
           Keeps(s, q),
           q.status = sess[s].status \/ (q.status = "LOST" /\ ~sess[s].closed),
           q.status \in {"OPENING", "ACTIVE"} /\ q.closing => sess[s].closing \/ ~exec[sess[s].exec].open,
           \A e \in Executions : task[e].status = "RUNNING" => exec[e].sess # s
    PROVE  RestKept
<1>1. sess \in [SessionIds -> SessRows] /\ s \in SessionIds /\ sess[s].status # "NONE" /\ SessionFits(s)
  BY DEF AdmissionInv, RowTypes, Created, Resources
<1>2. sess'[s] = q /\ \A t \in SessionIds \ {s} : sess'[t] = sess[t]
  BY <1>1
<1>3. RowTypes'
  BY <1>1 DEF AdmissionInv, RowTypes
<1>4. q.status # "NONE" /\ (q.status = "CLOSED" <=> sess[s].status = "CLOSED")
  BY <1>1 DEF SessionFits
<1>5. ASSUME NEW t \in SessionIds PROVE SameHold(t)
  <2>1. CASE t = s
    BY <1>1, <1>2, <1>4, <2>1 DEF SameHold, Keeps
  <2>2. CASE t # s
    BY <1>2, <2>2 DEF SameHold
  <2> QED BY <2>1, <2>2
<1>6. ASSUME NEW e \in Executions, task[e].status = "RUNNING" PROVE sess'[exec[e].sess] = sess[exec[e].sess]
  <2>1. exec[e].sess # s /\ exec[e].sess \in SessionIds
    BY <1>6, InUse DEF Created
  <2> QED BY <1>2, <2>1
<1>7. \A t \in Created :
         /\ sess'[t].owned => sess[t].owned
         /\ sess'[t].status \in {"OPENING", "ACTIVE"} => sess[t].status = sess'[t].status
         /\ sess'[t].status \in {"OPENING", "ACTIVE"} /\ sess'[t].closing
            => sess[t].closing \/ ~exec[sess[t].exec].open
  BY <1>2 DEF Created, Keeps
<1> QED BY <1>3, <1>5, <1>6, <1>7, SessionMoves

(* Nothing but the session moves. *)
LEMMA OnlyTouched ==
    ASSUME AdmissionInv, UNCHANGED <<exec, task, browser, work, rel>>, spent'.setting = spent.setting,
           spent' \in [lapses : Nat, crashes : Nat, setting : DOMAIN Settings],
           NEW s \in Created, NEW q \in SessRows, sess' = [sess EXCEPT ![s] = q],
           Keeps(s, q),
           q.status = sess[s].status \/ (q.status = "LOST" /\ ~sess[s].closed),
           q.status \in {"OPENING", "ACTIVE"} /\ q.closing => sess[s].closing \/ ~exec[sess[s].exec].open,
           \A e \in Executions : task[e].status = "RUNNING" => exec[e].sess # s
    PROVE  AdmissionInv'
<1>1. work \in [Workers -> WorkRows] /\ rel \in [Releasers -> RelRows]
  BY DEF AdmissionInv, RowTypes
<1>2. RestKept
  BY <1>1, SessionTouched
<1>3. WorkersApart' /\ ReleasesApart'
  BY DEF AdmissionInv, WorkersApart, ReleasesApart
<1> QED BY <1>2, <1>3 DEF AdmissionInv, RestKept

LEMMA SessionFacts ==
    ASSUME AdmissionInv
    PROVE  /\ sess \in [SessionIds -> SessRows] /\ Created \subseteq SessionIds
           /\ \A s \in SessionIds : sess[s] \in SessRows
           /\ \A s \in Created :
                 /\ sess[s].status # "NONE" /\ SessionFits(s) /\ Admitted(s)
                 /\ sess[s].exec \in Runs /\ sess[s].exec \in Executions
           /\ \A e \in Executions : task[e].status = "RUNNING" => exec[e].sess # 0
           /\ spent \in [lapses : Nat, crashes : Nat, setting : DOMAIN Settings]
BY SettingFacts DEF AdmissionInv, RowTypes, Created, Resources, SessionFits, TaskFits

(* What quarantine makes of a session. *)
LEMMA QuarantineRow ==
    ASSUME AdmissionInv, NEW s \in Created, Quarantine(s)
    PROVE  \E q \in SessRows :
              /\ sess' = [sess EXCEPT ![s] = q]
              /\ Keeps(s, q) /\ q.status \notin {"NONE", "OPENING", "ACTIVE"}
              /\ q.status = sess[s].status \/ (q.status = "LOST" /\ ~sess[s].closed)
<1>1. sess \in [SessionIds -> SessRows] /\ s \in SessionIds /\ sess[s] \in SessRows /\ SessionFits(s)
  BY SessionFacts
<1>2. CASE sess[s].closed
  <2>1. sess' = [sess EXCEPT ![s] = sess[s]]
    BY <1>1, <1>2 DEF Quarantine
  <2> QED BY <1>1, <1>2, <2>1 DEF SessionFits, Keeps
<1>3. CASE ~sess[s].closed
  <2>1. PICK q : q = [sess[s] EXCEPT !.status = "LOST", !.quarantined = TRUE]
    OBVIOUS
  <2>2. /\ q \in SessRows /\ q.status = "LOST"
        /\ Keeps(s, q)
    BY <1>1, <2>1 DEF SessRows, Keeps
  <2>3. sess' = [sess EXCEPT ![s] = q]
    BY <1>1, <1>3, <2>1 DEF Quarantine
  <2> QED BY <1>3, <2>2, <2>3
<1> QED BY <1>2, <1>3

LEMMA ClosingRow ==
    ASSUME AdmissionInv, NEW s \in Created, sess' = [sess EXCEPT ![s].closing = TRUE]
    PROVE  \E q \in SessRows :
              /\ sess' = [sess EXCEPT ![s] = q]
              /\ Keeps(s, q) /\ q.status = sess[s].status
<1>1. sess \in [SessionIds -> SessRows] /\ s \in SessionIds /\ sess[s] \in SessRows
  BY SessionFacts
<1>2. PICK q : q = [sess[s] EXCEPT !.closing = TRUE]
  OBVIOUS
<1>3. /\ q \in SessRows
      /\ Keeps(s, q) /\ q.status = sess[s].status
  BY <1>1, <1>2 DEF SessRows, Keeps
<1>4. sess' = [sess EXCEPT ![s] = q]
  BY <1>1, <1>2
<1> QED BY <1>3, <1>4

LEMMA LapseStep ==
    ASSUME AdmissionInv, NEW s \in SessionIds, Lapse(s)
    PROVE  AdmissionInv'
<1>1. /\ sess[s].status \in {"OPENING", "ACTIVE"} /\ ~sess[s].owned /\ sess[s] \in SessRows /\ s \in Created
      /\ UNCHANGED <<exec, task, browser, work, rel>> /\ sess' = [sess EXCEPT ![s].lapsed = TRUE]
  BY SessionFacts DEF Lapse, Created
<1>2. /\ spent' \in [lapses : Nat, crashes : Nat, setting : DOMAIN Settings]
      /\ spent'.setting = spent.setting
  BY SessionFacts DEF Lapse
<1>3. PICK q : q = [sess[s] EXCEPT !.lapsed = TRUE]
  OBVIOUS
<1>4. /\ q \in SessRows
      /\ Keeps(s, q) /\ q.status = sess[s].status /\ q.closing = sess[s].closing
  BY <1>1, <1>3 DEF SessRows, Keeps
<1>5. sess' = [sess EXCEPT ![s] = q]
  BY <1>1, <1>3, SessionFacts
<1>6. \A e \in Executions : task[e].status = "RUNNING" => exec[e].sess # s
  BY <1>1, InUse
<1> QED BY <1>1, <1>2, <1>4, <1>5, <1>6, OnlyTouched

LEMMA ExpireSlotStep ==
    ASSUME AdmissionInv, NEW s \in SessionIds, ExpireSlot(s)
    PROVE  AdmissionInv'
<1>1. /\ sess[s].status \in {"OPENING", "ACTIVE"} /\ sess[s].lapsed /\ s \in Created /\ Quarantine(s)
      /\ UNCHANGED <<exec, task, browser, work, rel, spent>>
  BY DEF ExpireSlot, Created
<1>2. \A e \in Executions : task[e].status = "RUNNING" => exec[e].sess # s
  BY <1>1, InUse
<1>3. PICK q \in SessRows :
         /\ sess' = [sess EXCEPT ![s] = q]
         /\ Keeps(s, q) /\ q.status \notin {"NONE", "OPENING", "ACTIVE"}
         /\ q.status = sess[s].status \/ (q.status = "LOST" /\ ~sess[s].closed)
  BY <1>1, QuarantineRow
<1> QED BY <1>1, <1>2, <1>3, OnlyTouched, SessionFacts

LEMMA CleanUpStep ==
    ASSUME AdmissionInv, NEW e \in Runs, CleanUp(e)
    PROVE  AdmissionInv'
<1>1. PICK s : s = exec[e].sess
  OBVIOUS
<1>2. /\ e \in Executions /\ s # 0 /\ ~exec[e].open /\ sess' = [sess EXCEPT ![s].closing = TRUE]
      /\ UNCHANGED <<exec, task, browser, work, rel, spent>>
  BY <1>1, SettingFacts DEF CleanUp, AdmissionInv
<1>3. s \in Created /\ sess[s].exec = e
  BY <1>1, <1>2 DEF AdmissionInv, ExecFits, Mine
<1>4. PICK q \in SessRows :
         /\ sess' = [sess EXCEPT ![s] = q]
         /\ Keeps(s, q) /\ q.status = sess[s].status
  BY <1>2, <1>3, ClosingRow
<1>5. \A f \in Executions : task[f].status = "RUNNING" => exec[f].sess # s
  BY <1>2, <1>3, InUse
<1> QED BY <1>2, <1>3, <1>4, <1>5, OnlyTouched, SessionFacts

LEMMA FailOpenStep ==
    ASSUME AdmissionInv, NEW w \in Workers, FailOpen(w)
    PROVE  AdmissionInv'
<1>1. PICK s : s = work[w].sess
  OBVIOUS
<1>2. /\ work[w].pc = "FAIL_OPEN" /\ Quarantine(s) /\ To(w, "CLOSE")
      /\ UNCHANGED <<exec, task, browser, rel, spent>>
  BY <1>1 DEF FailOpen
<1>3. s \in Created /\ sess[s].status # "ACTIVE"
  BY <1>1, <1>2, WorkerFacts DEF WorkerFits, Holding
<1>4. PICK q \in SessRows :
         /\ sess' = [sess EXCEPT ![s] = q]
         /\ Keeps(s, q) /\ q.status \notin {"NONE", "OPENING", "ACTIVE"}
         /\ q.status = sess[s].status \/ (q.status = "LOST" /\ ~sess[s].closed)
  BY <1>2, <1>3, QuarantineRow
<1>5. PICK v \in WorkRows :
         /\ work' = [work EXCEPT ![w] = v] /\ work'[w] = v /\ v.pc = "CLOSE" /\ v.tok = work[w].tok
         /\ v.cur = work[w].cur /\ v.exec = work[w].exec /\ v.sess = work[w].sess
  BY <1>2, ToRow DEF AdmissionInv, Working, Holding
<1>6. \A e \in Executions : task[e].status = "RUNNING" => exec[e].sess # s
  BY <1>3, InUse
<1>7. RestKept
  <2>1. work' \in [Workers -> WorkRows] /\ rel' \in [Releasers -> RelRows]
    BY <1>2, <1>5, WorkerFacts DEF AdmissionInv, RowTypes
  <2> QED BY <1>2, <1>3, <1>4, <1>6, <2>1, SessionTouched, SessionFacts
<1>8. WorkerFits(w)'
  <2>1. sess'[s] = q
    BY <1>3, <1>4, SessionFacts
  <2>2. WorkerFits(w) /\ Runs' = Runs /\ Created' = Created
    BY <1>2, <1>7, WorkerFacts, SettingStays DEF RestKept
  <2> QED BY <1>1, <1>2, <1>3, <1>4, <1>5, <2>1, <2>2 DEF WorkerFits, Holding, Working
<1>9. \A x \in Workers : WorkerFits(x)'
  <2>1. \A x \in Workers \ {w} : work'[x] = work[x]
    BY <1>5, WorkerFacts
  <2> QED BY <1>7, <1>8, <2>1 DEF RestKept
<1>10. WorkersApart'
  BY <1>2, <1>5, WorkerFacts, WorkersKeptApart DEF AdmissionInv, Holding
<1>11. ReleasesApart' /\ \A r \in Releasers : ReleaseFits(r)'
  BY <1>2, <1>7 DEF AdmissionInv, ReleasesApart, RestKept
<1> QED BY <1>7, <1>9, <1>10, <1>11 DEF AdmissionInv, RestKept

LEMMA CloseOpenedStep ==
    ASSUME AdmissionInv, NEW w \in Workers, CloseOpened(w)
    PROVE  AdmissionInv'
<1>1. PICK s : s = work[w].sess
  OBVIOUS
<1>2. /\ work[w].pc = "CLOSE" /\ sess' = [sess EXCEPT ![s].closing = TRUE]
      /\ UNCHANGED <<exec, task, browser, rel, spent>>
      /\ \E code \in {"SESSION_OPEN_FAILED", "ADMISSION_STALE"} : Refuse(w, code)
  BY <1>1 DEF CloseOpened
<1>3. s \in Created /\ sess[s].status \notin {"OPENING", "ACTIVE"}
  BY <1>1, <1>2, WorkerFacts DEF WorkerFits, Holding
<1>4. PICK q \in SessRows :
         /\ sess' = [sess EXCEPT ![s] = q]
         /\ Keeps(s, q) /\ q.status = sess[s].status
  BY <1>2, <1>3, ClosingRow
<1>5. PICK code \in {"SESSION_OPEN_FAILED", "ADMISSION_STALE"} : Refuse(w, code)
  BY <1>2
<1>6. PICK p \in {"WAIT", "DEFER"} : p = IF code \in Unavailable THEN "WAIT" ELSE "DEFER"
  OBVIOUS
<1>7. PICK v : v = [work[w] EXCEPT !.code = code, !.pc = p]
  OBVIOUS
<1>8. /\ v \in WorkRows /\ v.pc = p /\ v.tok = work[w].tok
      /\ v.cur = work[w].cur /\ v.exec = work[w].exec /\ v.sess = work[w].sess
  <2>1. work[w] \in WorkRows /\ code \in Codes
    BY WorkerFacts DEF Codes
  <2> QED BY <1>7, <2>1 DEF WorkRows
<1>9. work' = [work EXCEPT ![w] = v] /\ work'[w] = v
  BY <1>5, <1>6, <1>7, WorkerFacts DEF Refuse
<1>10. \A e \in Executions : task[e].status = "RUNNING" => exec[e].sess # s
  BY <1>3, InUse
<1>11. RestKept
  <2>1. work' \in [Workers -> WorkRows] /\ rel' \in [Releasers -> RelRows]
    BY <1>2, <1>8, <1>9, WorkerFacts DEF AdmissionInv, RowTypes
  <2> QED BY <1>2, <1>3, <1>4, <1>10, <2>1, SessionTouched, SessionFacts
<1>12. WorkerFits(w)'
  <2>1. WorkerFits(w) /\ Runs' = Runs
    BY <1>2, WorkerFacts, SettingStays
  <2> QED BY <1>2, <1>8, <1>9, <2>1 DEF WorkerFits, Holding, Working
<1>13. \A x \in Workers : WorkerFits(x)'
  <2>1. \A x \in Workers \ {w} : work'[x] = work[x]
    BY <1>9, WorkerFacts
  <2> QED BY <1>11, <1>12, <2>1 DEF RestKept
<1>14. WorkersApart'
  BY <1>2, <1>8, <1>9, WorkerFacts, WorkersKeptApart DEF AdmissionInv, Holding
<1>15. ReleasesApart' /\ \A r \in Releasers : ReleaseFits(r)'
  BY <1>2, <1>11 DEF AdmissionInv, ReleasesApart, RestKept
<1> QED BY <1>11, <1>13, <1>14, <1>15 DEF AdmissionInv, RestKept

LEMMA SendOpenStep ==
    ASSUME AdmissionInv, NEW w \in Workers, SendOpen(w)
    PROVE  AdmissionInv'
<1>1. PICK s : s = work[w].sess
  OBVIOUS
<1>2. PICK b : b = IF browser[s] = "NONE" THEN "SENT" ELSE browser[s]
  OBVIOUS
<1>3. /\ work[w].pc = "OPEN" /\ To(w, "AWAIT") /\ UNCHANGED <<exec, task, sess, rel, spent>>
      /\ s \in Created /\ s \in SessionIds
  BY <1>1, WorkerFacts DEF SendOpen, Holding
<1>4. browser' = [browser EXCEPT ![s] = b] /\ browser \in [SessionIds -> {"NONE", "SENT", "LIVE", "GONE"}]
  BY <1>1, <1>2 DEF SendOpen, AdmissionInv, RowTypes
<1>5. b \in {"NONE", "SENT", "LIVE", "GONE"} /\ (b = "GONE" <=> browser[s] = "GONE")
  BY <1>2, <1>3, <1>4
<1>6. PICK v \in WorkRows :
         /\ work' = [work EXCEPT ![w] = v] /\ work'[w] = v /\ v.pc = "AWAIT" /\ v.tok = work[w].tok
         /\ v.cur = work[w].cur /\ v.exec = work[w].exec /\ v.sess = work[w].sess
  BY <1>3, ToRow DEF AdmissionInv, Working, Holding
<1>7. RestKept
  <2>1. RowTypes'
    BY <1>3, <1>4, <1>5, <1>6 DEF AdmissionInv, RowTypes
  <2>2. ASSUME NEW t \in SessionIds PROVE SameHold(t)
    BY <1>3, <1>4, <1>5 DEF SameHold, Created
  <2> QED BY <1>3, <2>1, <2>2, SessionMoves
<1>8. WorkerFits(w)'
  <2>1. WorkerFits(w) /\ Runs' = Runs /\ Created' = Created
    BY <1>3, <1>7, WorkerFacts, SettingStays DEF RestKept
  <2> QED BY <1>1, <1>3, <1>6, <2>1 DEF WorkerFits, Holding, Working
<1>9. \A x \in Workers : WorkerFits(x)'
  <2>1. \A x \in Workers \ {w} : work'[x] = work[x]
    BY <1>6, WorkerFacts
  <2> QED BY <1>7, <1>8, <2>1 DEF RestKept
<1>10. WorkersApart'
  BY <1>3, <1>6, WorkerFacts, WorkersKeptApart DEF AdmissionInv, Holding
<1>11. ReleasesApart' /\ \A r \in Releasers : ReleaseFits(r)'
  BY <1>3, <1>7 DEF AdmissionInv, ReleasesApart, RestKept
<1> QED BY <1>7, <1>9, <1>10, <1>11 DEF AdmissionInv, RestKept

LEMMA RuntimeOpensStep ==
    ASSUME AdmissionInv, NEW s \in SessionIds, RuntimeOpens(s)
    PROVE  AdmissionInv'
<1>1. /\ browser[s] = "SENT" /\ browser' = [browser EXCEPT ![s] = "LIVE"]
      /\ browser \in [SessionIds -> {"NONE", "SENT", "LIVE", "GONE"}]
      /\ UNCHANGED <<exec, task, sess, work, rel, spent>>
  BY DEF RuntimeOpens, AdmissionInv, RowTypes
<1>2. s \in Created
  BY <1>1 DEF AdmissionInv, Resources, Numbered
<1>3. RestKept
  <2>1. RowTypes'
    BY <1>1 DEF AdmissionInv, RowTypes
  <2>2. ASSUME NEW t \in SessionIds PROVE SameHold(t)
    BY <1>1, <1>2 DEF SameHold, Created
  <2> QED BY <1>1, <2>1, <2>2, SessionMoves
<1>4. WorkersApart' /\ ReleasesApart'
  BY <1>1 DEF AdmissionInv, WorkersApart, ReleasesApart
<1> QED BY <1>1, <1>3, <1>4 DEF AdmissionInv, RestKept

(* A closure is verified, or the outcome behind it is: resources are freed. *)
LEMMA ResourcesFreed ==
    ASSUME AdmissionInv, spent'.setting = spent.setting, NEW s \in Created, NEW q \in SessRows,
           sess' = [sess EXCEPT ![s] = q], browser' = [browser EXCEPT ![s] = "GONE"],
           q.exec = sess[s].exec, q.status = "CLOSED", q.closed, q.slot = 0, q.permit = 0,
           q.leases = (IF q.write = "UNKNOWN" THEN Guarded(q.exec) ELSE {}),
           q.leases \subseteq sess[s].leases
    PROVE  Resources' /\ Created' = Created
<1>1. /\ sess \in [SessionIds -> SessRows] /\ s \in SessionIds /\ sess[s].status # "NONE"
      /\ SessionFits(s) /\ browser \in [SessionIds -> {"NONE", "SENT", "LIVE", "GONE"}]
  BY SessionFacts DEF AdmissionInv, RowTypes
<1>2. /\ sess'[s] = q /\ browser'[s] = "GONE"
      /\ \A t \in SessionIds \ {s} : sess'[t] = sess[t] /\ browser'[t] = browser[t]
  BY <1>1
<1>3. Created' = Created /\ Created \subseteq SessionIds
  BY <1>1, <1>2 DEF Created
<1>4. Numbered'
  BY <1>2, <1>3 DEF Numbered, Resources, AdmissionInv
<1>5. ASSUME NEW t \in Created PROVE SessionFits(t)'
  <2>1. CASE t = s
    <3>1. sess'[s].exec \in Runs /\ sess'[s].closed /\ sess'[s].status = "CLOSED" /\ sess'[s].slot = 0
          /\ sess'[s].permit = 0 /\ browser'[s] = "GONE"
      BY <1>1, <1>2 DEF SessionFits
    <3>2. sess'[s].leases = IF sess'[s].write = "UNKNOWN" THEN Guarded(sess'[s].exec) ELSE {}
      BY <1>2
    <3> QED BY <2>1, <3>1, <3>2, SettingStays DEF SessionFits, Guarded
  <2>2. CASE t # s
    <3>1. SessionFits(t) /\ sess'[t] = sess[t] /\ browser'[t] = browser[t]
      BY <1>2, <1>3, <2>2 DEF Resources, AdmissionInv
    <3> QED BY <3>1, SettingStays DEF SessionFits, Guarded
  <2> QED BY <2>1, <2>2
<1>6. Apart'
  <2> SUFFICES ASSUME NEW u \in Created, NEW t \in Created, u < t, ~sess'[t].closed
               PROVE  /\ ~AnyConflict(Claims[sess[t].exec], sess[u].leases)'
                      /\ ~sess'[u].closed =>
                            /\ sess'[u].slot # sess'[t].slot
                            /\ Identity'[sess'[u].exec] = Identity'[sess'[t].exec]
                               /\ Identity'[sess'[t].exec] # NoIdentity
                               => sess'[u].permit # sess'[t].permit
    BY <1>3 DEF Apart
  <2>1. t # s /\ sess'[t] = sess[t] /\ sess'[u].leases \subseteq sess[u].leases
        /\ (~sess'[u].closed => sess'[u] = sess[u])
    BY <1>2, <1>3
  <2>2. /\ ~AnyConflict(Claims[sess[t].exec], sess[u].leases)
        /\ ~sess[u].closed =>
              /\ sess[u].slot # sess[t].slot
              /\ Identity[sess[u].exec] = Identity[sess[t].exec] /\ Identity[sess[t].exec] # NoIdentity
                 => sess[u].permit # sess[t].permit
    BY <2>1 DEF AdmissionInv, Resources, Apart
  <2>3. ~AnyConflict(Claims[sess[t].exec], sess[u].leases)'
    BY <2>1, <2>2, SettingStays DEF AnyConflict
  <2> QED BY <2>1, <2>2, <2>3, SettingStays
<1> QED BY <1>3, <1>4, <1>5, <1>6 DEF Resources

LEMMA FreedStep ==
    ASSUME AdmissionInv, UNCHANGED <<task, work, rel, spent>>, NEW s \in Created, NEW q \in SessRows,
           sess' = [sess EXCEPT ![s] = q], browser' = [browser EXCEPT ![s] = "GONE"],
           q.exec = sess[s].exec, q.status = "CLOSED", q.closed, q.slot = 0, q.permit = 0,
           q.leases = (IF q.write = "UNKNOWN" THEN Guarded(q.exec) ELSE {}),
           q.leases \subseteq sess[s].leases, q.owned = sess[s].owned,
           NEW e \in Executions, e = sess[s].exec, NEW x \in ExecRows, exec' = [exec EXCEPT ![e] = x],
           x.sess = exec[e].sess, x.restarts = exec[e].restarts, x.open = exec[e].open,
           \/ x = exec[e]
           \/ exec[e].sess = s /\ x.status = "RELEASED" /\ x.tok = 0,
           \A f \in Executions : task[f].status = "RUNNING" => exec[f].sess # s
    PROVE  AdmissionInv'
<1>1. /\ sess \in [SessionIds -> SessRows] /\ s \in SessionIds /\ e \in Executions
      /\ exec \in [Executions -> ExecRows] /\ RowTypes /\ Created \subseteq SessionIds
  BY SessionFacts DEF AdmissionInv, RowTypes
<1>2. sess'[s] = q /\ \A t \in SessionIds \ {s} : sess'[t] = sess[t]
  BY <1>1
<1>3. exec'[e] = x /\ \A f \in Executions \ {e} : exec'[f] = exec[f]
  BY <1>1
<1>4. RowTypes'
  BY <1>1 DEF RowTypes
<1>5. Resources' /\ Created' = Created
  BY ResourcesFreed
<1>6. \A f \in Executions : /\ exec'[f].sess = exec[f].sess /\ exec'[f].restarts = exec[f].restarts
                            /\ exec'[f].open = exec[f].open
  BY <1>3
<1>7. ASSUME NEW f \in Executions PROVE ExecFits(f)' /\ TaskFits(f)'
  <2>1. ExecFits(f) /\ TaskFits(f)
    BY DEF AdmissionInv
  <2>2. ExecFits(f)'
    BY <1>1, <1>2, <1>5, <1>6, <2>1, ChainKept
  <2>3. task[f].status = "RUNNING" => sess'[exec[f].sess] = sess[exec[f].sess]
    BY <1>1, <1>2, InUse
  <2> QED BY <1>6, <2>1, <2>2, <2>3, TaskKept
<1>8. ASSUME NEW t \in Created PROVE Admitted(t)'
  <2>1. Admitted(t) /\ t \in SessionIds
    BY <1>1 DEF AdmissionInv
  <2> QED BY <1>2, <1>3, <1>6, <2>1, SessionFacts DEF Admitted, Waiting
<1>9. ASSUME NEW w \in Workers PROVE WorkerFits(w)'
  <2>1. WorkerFits(w) /\ work'[w] = work[w]
    BY DEF AdmissionInv
  <2>2. CASE work[w].pc = "IDLE"
    BY <2>1, <2>2 DEF WorkerFits, Working, Holding
  <2>3. CASE work[w].pc # "IDLE"
    <3>1. work[w].exec \in Executions /\ work[w].tok # 0
      BY <2>3, WorkerFacts
    <3>2. work[w].pc \in Holding => work[w].sess \in SessionIds
      BY WorkerFacts
    <3>3. s # 0
      BY <1>1, AdmissionParameters DEF SessionIds
    <3>4. /\ work[w].pc = "REREAD" => exec[work[w].exec].sess = 0
      BY <2>1 DEF WorkerFits
    <3>5. work[w].pc = "REREAD" => exec'[work[w].exec].tok = exec[work[w].exec].tok
      BY <1>3, <3>1, <3>3, <3>4
    <3> QED BY <1>2, <1>3, <1>5, <1>6, <2>1, <3>1, <3>2, <3>5, WorkerKept
  <2> QED BY <2>2, <2>3
<1>10. ASSUME NEW r \in Releasers PROVE ReleaseFits(r)'
  <2>1. ReleaseFits(r) /\ rel'[r] = rel[r]
    BY DEF AdmissionInv
  <2>2. CASE rel[r].pc = "IDLE"
    BY <2>1, <2>2, IdleFits DEF ReleaseFits
  <2>3. CASE rel[r].pc # "IDLE"
    <3>1. rel[r].exec \in Executions
      BY <1>1, <2>1, <2>3, SettingFacts DEF ReleaseFits
    <3> QED BY <1>1, <1>2, <1>5, <1>6, <2>1, <3>1, ReleaseKept
  <2> QED BY <2>2, <2>3
<1>11. WorkersApart' /\ ReleasesApart'
  BY DEF AdmissionInv, WorkersApart, ReleasesApart
<1> QED BY <1>4, <1>5, <1>7, <1>8, <1>9, <1>10, <1>11 DEF AdmissionInv

LEMMA OutcomeResolvedStep ==
    ASSUME AdmissionInv, NEW s \in SessionIds, OutcomeResolved(s)
    PROVE  AdmissionInv'
<1>1. /\ sess[s].closed /\ UNCHANGED <<exec, task, browser, work, rel, spent>>
      /\ sess' = [sess EXCEPT ![s].write = "SETTLED", ![s].leases = {}, ![s].quarantined = FALSE]
      /\ sess[s] \in SessRows /\ sess \in [SessionIds -> SessRows]
  BY SessionFacts DEF OutcomeResolved
<1>2. s \in Created
  BY <1>1 DEF AdmissionInv, Resources, Numbered, NoSession
<1>3. /\ SessionFits(s) /\ sess[s].exec \in Executions
      /\ browser \in [SessionIds -> {"NONE", "SENT", "LIVE", "GONE"}]
      /\ exec \in [Executions -> ExecRows]
  BY <1>2, SessionFacts DEF AdmissionInv, RowTypes
<1>4. PICK q : q = [sess[s] EXCEPT !.write = "SETTLED", !.leases = {}, !.quarantined = FALSE]
  OBVIOUS
<1>5. /\ q \in SessRows /\ q.write = "SETTLED" /\ q.leases = {} /\ q.exec = sess[s].exec
      /\ q.status = sess[s].status /\ q.closed = sess[s].closed /\ q.slot = sess[s].slot
      /\ q.permit = sess[s].permit /\ q.owned = sess[s].owned
  BY <1>1, <1>4 DEF SessRows
<1>6. /\ sess' = [sess EXCEPT ![s] = q] /\ browser' = [browser EXCEPT ![s] = "GONE"]
      /\ q.status = "CLOSED" /\ q.closed /\ q.slot = 0 /\ q.permit = 0
  BY <1>1, <1>3, <1>4, <1>5 DEF SessionFits
<1>7. PICK e \in Executions : e = sess[s].exec
  BY <1>3
<1>8. PICK x \in ExecRows : x = exec[e]
  BY <1>3
<1>9. exec' = [exec EXCEPT ![e] = x]
  BY <1>1, <1>3, <1>8
<1>10. \A f \in Executions : task[f].status = "RUNNING" => exec[f].sess # s
  BY <1>1, InUse
<1>11. /\ x.sess = exec[e].sess /\ x.restarts = exec[e].restarts /\ x.open = exec[e].open
       /\ q.leases = (IF q.write = "UNKNOWN" THEN Guarded(q.exec) ELSE {})
       /\ q.leases \subseteq sess[s].leases /\ UNCHANGED <<task, work, rel, spent>>
  BY <1>1, <1>5, <1>8
<1> QED BY <1>2, <1>5, <1>6, <1>7, <1>8, <1>9, <1>10, <1>11, FreedStep

LEMMA ClosureVerifiedStep ==
    ASSUME AdmissionInv, NEW s \in SessionIds, ClosureVerified(s)
    PROVE  AdmissionInv'
<1>1. /\ s \in Created /\ ~sess[s].closed /\ (sess[s].closing \/ sess[s].status = "LOST")
      /\ browser' = [browser EXCEPT ![s] = "GONE"] /\ UNCHANGED <<task, work, rel, spent>>
  BY DEF ClosureVerified
<1>2. /\ SessionFits(s) /\ sess[s] \in SessRows /\ sess \in [SessionIds -> SessRows]
      /\ exec \in [Executions -> ExecRows]
  BY <1>1, SessionFacts DEF AdmissionInv, RowTypes
<1>3. PICK e \in Executions : e = sess[s].exec
  BY <1>1, SessionFacts
<1>4. \E write \in {"NONE", "SETTLED", "UNKNOWN"} :
         sess' = [sess EXCEPT ![s].status = "CLOSED", ![s].closed = TRUE, ![s].slot = 0, ![s].permit = 0,
                              ![s].write = write, ![s].leases = Kept(s, write),
                              ![s].quarantined = Kept(s, write) # {}]
  <2> DEFINE outcomes == IF sess[s].write = "NONE" /\ browser[s] # "NONE" THEN Outcomes(s) ELSE {sess[s].write}
  <2>1. outcomes \subseteq {"NONE", "SETTLED", "UNKNOWN"}
    BY <1>2 DEF Outcomes, SessRows
  <2>2. \E write \in outcomes :
         sess' = [sess EXCEPT ![s].status = "CLOSED", ![s].closed = TRUE, ![s].slot = 0, ![s].permit = 0,
                              ![s].write = write, ![s].leases = Kept(s, write),
                              ![s].quarantined = Kept(s, write) # {}]
    BY Zenon DEF ClosureVerified
  <2> HIDE DEF outcomes
  <2> QED BY <2>1, <2>2, Zenon
<1>5. PICK write \in {"NONE", "SETTLED", "UNKNOWN"} :
         sess' = [sess EXCEPT ![s].status = "CLOSED", ![s].closed = TRUE, ![s].slot = 0, ![s].permit = 0,
                              ![s].write = write, ![s].leases = Kept(s, write),
                              ![s].quarantined = Kept(s, write) # {}]
  BY <1>4
<1>6. PICK kept : kept = Kept(s, write)
  OBVIOUS
<1>7. /\ kept = IF write = "UNKNOWN" THEN Guarded(sess[s].exec) ELSE {}
      /\ kept \subseteq sess[s].leases /\ kept \in SUBSET Scopes
  BY <1>1, <1>2, <1>6 DEF Kept, SessionFits, Guarded, SessRows
<1>8. PICK kind \in BOOLEAN : kind = (kept # {})
  OBVIOUS
<1>9. PICK y \in SessRows : y = [sess[s] EXCEPT !.status = "CLOSED", !.closed = TRUE, !.slot = 0, !.permit = 0]
  BY <1>2 DEF SessRows
<1>10. PICK q : q = [y EXCEPT !.write = write, !.leases = kept, !.quarantined = kind]
  OBVIOUS
<1>11. /\ y.exec = sess[s].exec /\ y.status = "CLOSED" /\ y.closed = TRUE /\ y.slot = 0 /\ y.permit = 0
       /\ y.owned = sess[s].owned
  BY <1>2, <1>9 DEF SessRows
<1>12. /\ q \in SessRows /\ q.write = write /\ q.leases = kept /\ q.exec = y.exec
       /\ q.status = y.status /\ q.closed = y.closed /\ q.slot = y.slot
       /\ q.permit = y.permit /\ q.owned = y.owned
  BY <1>7, <1>10 DEF SessRows
<1>13. sess' = [sess EXCEPT ![s] = q]
  BY <1>2, <1>5, <1>6, <1>8, <1>9, <1>10
<1>14. PICK x \in ExecRows :
          /\ exec' = [exec EXCEPT ![e] = x]
          /\ x.sess = exec[e].sess /\ x.restarts = exec[e].restarts /\ x.open = exec[e].open
          /\ \/ x = exec[e]
             \/ exec[e].sess = s /\ x.status = "RELEASED" /\ x.tok = 0
  <2>1. CASE exec[e].sess = s /\ exec[e].status \in {"ACTIVE", "RELEASING", "LOST", "FAILED"}
    <3>1. exec' = [exec EXCEPT ![e].status = "RELEASED", ![e].tok = 0]
      BY <1>3, <2>1 DEF ClosureVerified
    <3>2. PICK x : x = [exec[e] EXCEPT !.status = "RELEASED", !.tok = 0]
      OBVIOUS
    <3>3. /\ x \in ExecRows /\ x.status = "RELEASED" /\ x.tok = 0
          /\ x.sess = exec[e].sess /\ x.restarts = exec[e].restarts /\ x.open = exec[e].open
      BY <1>2, <3>2 DEF ExecRows
    <3>4. exec' = [exec EXCEPT ![e] = x]
      BY <1>2, <3>1, <3>2
    <3> QED BY <2>1, <3>3, <3>4
  <2>2. CASE ~(exec[e].sess = s /\ exec[e].status \in {"ACTIVE", "RELEASING", "LOST", "FAILED"})
    <3>1. exec' = exec
      BY <1>3, <2>2, Zenon DEF ClosureVerified
    <3> QED BY <1>2, <3>1
  <2> QED BY <2>1, <2>2
<1>15. \A f \in Executions : task[f].status = "RUNNING" => exec[f].sess # s
  BY <1>1, InUse
<1>16. /\ q.leases = (IF q.write = "UNKNOWN" THEN Guarded(q.exec) ELSE {})
       /\ q.leases \subseteq sess[s].leases /\ q.exec = sess[s].exec /\ q.owned = sess[s].owned
       /\ q.status = "CLOSED" /\ q.closed /\ q.slot = 0 /\ q.permit = 0
  BY <1>7, <1>11, <1>12
<1> QED BY <1>1, <1>3, <1>12, <1>13, <1>14, <1>15, <1>16, FreedStep

LEMMA ReleaseFacts ==
    ASSUME AdmissionInv, NEW r \in Releasers
    PROVE  /\ rel \in [Releasers -> RelRows] /\ rel[r] \in RelRows /\ ReleaseFits(r)
           /\ rel[r].pc # "IDLE" =>
                 /\ rel[r].exec \in Runs /\ rel[r].exec \in Executions
                 /\ exec[rel[r].exec] \in ExecRows /\ exec \in [Executions -> ExecRows]
                 /\ task[rel[r].exec] \in TaskRows /\ task \in [Executions -> TaskRows]
           /\ rel[r].sess # 0 => rel[r].sess \in Created /\ sess[rel[r].sess].exec = rel[r].exec
           /\ spent \in [lapses : Nat, crashes : Nat, setting : DOMAIN Settings]
<1>1. ReleaseFits(r) /\ RowTypes
  BY DEF AdmissionInv
<1>2. rel[r].pc # "IDLE" => rel[r].exec \in Executions
  BY <1>1, SettingFacts DEF ReleaseFits
<1> QED BY <1>1, <1>2 DEF ReleaseFits, RowTypes, Mine

(* A release that goes on to another statement. *)
LEMMA RelToRow ==
    ASSUME RowTypes, NEW r \in Releasers,
           NEW pc \in {"IDLE", "READ", "EMPTY", "CLOSED", "MARK", "CLOSE", "FINISH", "RECOVER"}, RelTo(r, pc)
    PROVE  \E q \in RelRows :
              /\ rel' = [rel EXCEPT ![r] = q] /\ rel'[r] = q /\ q.pc = pc /\ q.tok = rel[r].tok
              /\ q.stamp = rel[r].stamp /\ q.exec = rel[r].exec /\ q.sess = rel[r].sess
<1>1. PICK q : q = [rel[r] EXCEPT !.pc = pc]
  OBVIOUS
<1>2. rel \in [Releasers -> RelRows]
  BY DEF RowTypes
<1>3. q \in RelRows /\ q.pc = pc /\ q.tok = rel[r].tok /\ q.stamp = rel[r].stamp
      /\ q.exec = rel[r].exec /\ q.sess = rel[r].sess
  BY <1>1, <1>2 DEF RelRows
<1> QED BY <1>1, <1>2, <1>3 DEF RelTo

---------------------------------------------------------------------------
(* Steps of a release that move nothing but itself. *)
LEMMA ReleasesKeptApart ==
    ASSUME RowTypes, ReleasesApart, NEW r \in Releasers, NEW q, rel' = [rel EXCEPT ![r] = q],
           q.stamp \in {0, rel[r].stamp}
    PROVE  ReleasesApart'
<1>1. rel'[r] = q /\ \A p \in Releasers \ {r} : rel'[p] = rel[p]
  BY DEF RowTypes
<1> QED BY <1>1 DEF ReleasesApart

LEMMA ReleaseMoves ==
    ASSUME AdmissionInv, NEW r \in Releasers, NEW q \in RelRows, rel' = [rel EXCEPT ![r] = q],
           UNCHANGED <<exec, task, sess, browser, work>>,
           spent' \in [lapses : Nat, crashes : Nat, setting : DOMAIN Settings],
           spent'.setting = spent.setting, ReleaseFits(r)', q.stamp \in {0, rel[r].stamp}
    PROVE  AdmissionInv'
<1>1. RowTypes'
  BY DEF AdmissionInv, RowTypes
<1>2. RestKept
  BY <1>1, SessionMoves DEF SameHold
<1>3. \A p \in Releasers \ {r} : rel'[p] = rel[p]
  BY ReleaseFacts
<1>4. \A p \in Releasers : ReleaseFits(p)'
  BY <1>2, <1>3 DEF RestKept
<1>5. ReleasesApart' /\ WorkersApart'
  BY ReleasesKeptApart DEF AdmissionInv, WorkersApart
<1> QED BY <1>2, <1>4, <1>5 DEF RestKept, AdmissionInv

LEMMA StartReleaseStep ==
    ASSUME AdmissionInv, NEW r \in Releasers, NEW e \in Runs, StartRelease(r, e)
    PROVE  AdmissionInv'
<1>1. /\ rel[r].pc = "IDLE" /\ ~exec[e].open /\ e \in Executions
      /\ rel' = [rel EXCEPT ![r] = [NoRelease EXCEPT !.pc = "READ", !.exec = e]]
      /\ UNCHANGED <<exec, task, sess, browser, work, spent>>
  BY SettingFacts DEF StartRelease, AdmissionInv
<1>2. PICK q : q = [NoRelease EXCEPT !.pc = "READ", !.exec = e]
  OBVIOUS
<1>3. q \in RelRows /\ q.pc = "READ" /\ q.exec = e /\ q.stamp = 0 /\ q.sess = 0
  BY <1>1, <1>2, IdleFits DEF NoRelease, RelRows
<1>4. rel' = [rel EXCEPT ![r] = q] /\ rel'[r] = q
  BY <1>1, <1>2, ReleaseFacts
<1>5. ReleaseFits(r)'
  <2>1. Runs' = Runs
    BY <1>1, SettingStays
  <2> QED BY <1>1, <1>3, <1>4, <2>1 DEF ReleaseFits
<1> QED BY <1>1, <1>3, <1>4, <1>5, ReleaseMoves, ReleaseFacts

LEMMA ReleaseReadStep ==
    ASSUME AdmissionInv, NEW r \in Releasers, ReleaseRead(r)
    PROVE  AdmissionInv'
<1>1. PICK e : e = rel[r].exec
  OBVIOUS
<1>2. PICK s : s = exec[e].sess
  OBVIOUS
<1>3. rel[r].pc = "READ" /\ UNCHANGED <<exec, task, sess, browser, work, spent>>
  BY DEF ReleaseRead
<1>4. e \in Executions /\ exec[e] \in ExecRows /\ rel[r] \in RelRows /\ ReleaseFits(r) /\ e \in Runs
  BY <1>1, <1>3, ReleaseFacts
<1>5. PICK n \in 0..MaxSessions : n = IF s = 0 THEN rel[r].sess ELSE s
  BY <1>2, <1>4 DEF ExecRows, RelRows
<1>6. PICK k \in Tokens \cup {0} : k = exec[e].tok
  BY <1>4 DEF ExecRows
<1>7. PICK pc \in {"EMPTY", "CLOSED", "MARK"} :
         pc = IF s = 0 THEN "EMPTY" ELSE IF sess[s].closed THEN "CLOSED" ELSE "MARK"
  OBVIOUS
<1>8. PICK q : q = [rel[r] EXCEPT !.sess = n, !.tok = k, !.pc = pc]
  OBVIOUS
<1>9. /\ q \in RelRows /\ q.pc = pc /\ q.exec = e /\ q.sess = n /\ q.stamp = rel[r].stamp
  BY <1>1, <1>4, <1>8 DEF RelRows
<1>10. rel' = [rel EXCEPT ![r] = q] /\ rel'[r] = q
  BY <1>1, <1>2, <1>5, <1>6, <1>7, <1>8, ReleaseFacts DEF ReleaseRead
<1>11. ReleaseFits(r)'
  <2>1. Runs' = Runs /\ Created' = Created /\ Mine(e)' = Mine(e)
    BY <1>3, SettingStays DEF Created, Mine
  <2>2. s # 0 => s \in Mine(e)
    BY <1>2, <1>4 DEF AdmissionInv, ExecFits
  <2>3. s # 0 => n = s
    BY <1>5
  <2>4. CASE s = 0
    <3>1. n = rel[r].sess /\ pc = "EMPTY" /\ rel[r].stamp = 0
      BY <1>1, <1>2, <1>4, <1>5, <1>7, <2>4 DEF ReleaseFits
    <3> QED BY <1>1, <1>3, <1>4, <1>9, <1>10, <2>1, <3>1 DEF ReleaseFits
  <2>5. CASE s # 0
    <3>1. pc # "EMPTY"
      BY <1>7, <2>5
    <3> QED BY <1>1, <1>2, <1>3, <1>4, <1>9, <1>10, <2>1, <2>2, <2>3, <2>5, <3>1 DEF ReleaseFits
  <2> QED BY <2>4, <2>5
<1> QED BY <1>3, <1>9, <1>10, <1>11, ReleaseMoves, ReleaseFacts

LEMMA ReleaseCloseStep ==
    ASSUME AdmissionInv, NEW r \in Releasers, ReleaseClose(r)
    PROVE  AdmissionInv'
<1>1. PICK s : s = rel[r].sess
  OBVIOUS
<1>2. /\ rel[r].pc = "CLOSE" /\ sess' = [sess EXCEPT ![s].closing = TRUE] /\ RelTo(r, "FINISH")
      /\ UNCHANGED <<exec, task, browser, work, spent>>
  BY <1>1 DEF ReleaseClose
<1>3. /\ s \in Created /\ s \in Mine(rel[r].exec) /\ ReleaseFits(r) /\ sess[s].exec = rel[r].exec
  BY <1>1, <1>2, ReleaseFacts DEF ReleaseFits, Mine
<1>4. PICK q \in SessRows :
         /\ sess' = [sess EXCEPT ![s] = q]
         /\ Keeps(s, q) /\ q.status = sess[s].status
  BY <1>2, <1>3, ClosingRow
<1>5. PICK p \in RelRows :
         /\ rel' = [rel EXCEPT ![r] = p] /\ rel'[r] = p /\ p.pc = "FINISH" /\ p.tok = rel[r].tok
         /\ p.stamp = rel[r].stamp /\ p.exec = rel[r].exec /\ p.sess = rel[r].sess
  BY <1>2, RelToRow DEF AdmissionInv
<1>6. sess[s].status \in {"OPENING", "ACTIVE"} => ~exec[sess[s].exec].open
  BY <1>1, <1>2, <1>3 DEF ReleaseFits
<1>7. \A f \in Executions : task[f].status = "RUNNING" => exec[f].sess # s
  BY <1>6, InUse
<1>8. RestKept
  <2>1. work' \in [Workers -> WorkRows] /\ rel' \in [Releasers -> RelRows]
    BY <1>2, <1>5, ReleaseFacts DEF AdmissionInv, RowTypes
  <2> QED BY <1>2, <1>3, <1>4, <1>6, <1>7, <2>1, SessionTouched, SessionFacts
<1>9. ReleaseFits(r)'
  <2>1. sess'[s] = q /\ sess'[s].exec = sess[s].exec /\ sess'[s].status = sess[s].status
    BY <1>3, <1>4, SessionFacts DEF Keeps
  <2>2. Runs' = Runs /\ Created' = Created
    BY <1>2, <1>8, SettingStays DEF RestKept
  <2> QED BY <1>1, <1>2, <1>3, <1>5, <2>1, <2>2 DEF ReleaseFits, Mine
<1>10. \A p1 \in Releasers : ReleaseFits(p1)'
  <2>1. \A p1 \in Releasers \ {r} : rel'[p1] = rel[p1]
    BY <1>5, ReleaseFacts
  <2> QED BY <1>8, <1>9, <2>1 DEF RestKept
<1>11. ReleasesApart' /\ WorkersApart' /\ \A w \in Workers : WorkerFits(w)'
  <2>1. ReleasesApart'
    BY <1>5, ReleasesKeptApart DEF AdmissionInv
  <2> QED BY <1>2, <1>8, <2>1 DEF AdmissionInv, WorkersApart, RestKept
<1> QED BY <1>8, <1>10, <1>11 DEF RestKept, AdmissionInv

LEMMA CrashStep ==
    ASSUME AdmissionInv, Crash
    PROVE  AdmissionInv'
<1>1. /\ UNCHANGED <<exec, task, sess, browser>>
      /\ spent' \in [lapses : Nat, crashes : Nat, setting : DOMAIN Settings]
      /\ spent'.setting = spent.setting
  BY DEF Crash, AdmissionInv, RowTypes
<1>2. CASE \E w \in Workers : Ends(w) /\ UNCHANGED rel
  BY <1>1, <1>2, EndStep
<1>3. CASE \E r \in Releasers : rel' = [rel EXCEPT ![r] = NoRelease] /\ UNCHANGED work
  <2>1. PICK r \in Releasers : rel' = [rel EXCEPT ![r] = NoRelease] /\ UNCHANGED work
    BY <1>3
  <2>2. rel'[r] = NoRelease
    BY <2>1, ReleaseFacts
  <2>3. ReleaseFits(r)'
    BY <2>2, IdleFits DEF ReleaseFits
  <2> QED BY <1>1, <2>1, <2>3, IdleFits, ReleaseMoves
<1> QED BY <1>2, <1>3 DEF Crash

---------------------------------------------------------------------------
(* Steps that move an execution's row. *)
Unowned == {"REQUESTED", "WAITING_CAPACITY", "FAILED"}

(* What the new row of an execution may be to a worker that does not move. *)
Bears(v, e, x) ==
    /\ work[v].pc = "REREAD" => x.tok = exec[e].tok \/ (x.tok = 0 /\ ~x.open)
    /\ work[v].pc \in Working /\ x.tok = work[v].tok =>
          exec[e].tok = work[v].tok /\ (x.status \in Unowned => exec[e].status \in Unowned)

LEMMA ExecMoves ==
    ASSUME AdmissionInv, UNCHANGED <<sess, browser, spent>>, RowTypes',
           NEW e \in Executions, NEW x \in ExecRows, exec' = [exec EXCEPT ![e] = x],
           x.sess = exec[e].sess, x.restarts = exec[e].restarts, x.open => exec[e].open,
           \A f \in Executions : task'[f].status = "RUNNING" =>
              task[f].status = "RUNNING" /\ task'[f].closing = task[f].closing /\ (f = e => x.open = exec[e].open),
           x.status \in Waiting => exec[e].sess = 0 \/ sess[exec[e].sess].status # "ACTIVE",
           \A v \in Workers : work'[v] = work[v] /\ work[v].pc # "IDLE" /\ work[v].exec = e => Bears(v, e, x),
           \A r \in Releasers : rel'[r] = rel[r] /\ rel[r].stamp # 0 =>
              /\ task'[rel[r].exec].closing = task[rel[r].exec].closing
              /\ task'[rel[r].exec].stamp = task[rel[r].exec].stamp
    PROVE  RestKept
<1>1. exec \in [Executions -> ExecRows] /\ RowTypes
  BY DEF AdmissionInv, RowTypes
<1>2. exec'[e] = x /\ \A f \in Executions \ {e} : exec'[f] = exec[f]
  BY <1>1
<1>3. Resources' /\ Created' = Created /\ Created \subseteq SessionIds
  BY ResourcesKept DEF AdmissionInv, SameHold, Created
<1>4. \A f \in Executions : /\ exec'[f].sess = exec[f].sess /\ exec'[f].restarts = exec[f].restarts
                            /\ exec'[f].open => exec[f].open
  BY <1>2
<1>5. ASSUME NEW f \in Executions PROVE ExecFits(f)' /\ TaskFits(f)'
  <2>1. ExecFits(f) /\ TaskFits(f)
    BY DEF AdmissionInv
  <2>2. ExecFits(f)'
    BY <1>1, <1>3, <1>4, <2>1, ChainKept
  <2> QED BY <1>2, <1>4, <2>1, <2>2, TaskKept
<1>6. ASSUME NEW s \in Created PROVE Admitted(s)'
  <2>1. Admitted(s) /\ sess[s].exec \in Executions
    BY SessionFacts
  <2>2. CASE sess[s].exec = e
    <3>1. s # 0
      BY <1>3, AdmissionParameters DEF SessionIds
    <3> QED BY <1>2, <2>1, <2>2, <3>1 DEF Admitted
  <2>3. CASE sess[s].exec # e
    BY <1>2, <2>1, <2>3 DEF Admitted
  <2> QED BY <2>2, <2>3
<1>7. ASSUME NEW w \in Workers, work'[w] = work[w] PROVE WorkerFits(w)'
  <2>1. WorkerFits(w)
    BY DEF AdmissionInv
  <2>2. CASE work[w].pc = "IDLE"
    BY <1>7, <2>1, <2>2, IdleFits DEF WorkerFits, Working, Holding
  <2>3. CASE work[w].pc # "IDLE"
    <3>1. work[w].exec \in Executions
      BY <2>3, WorkerFacts
    <3>2. CASE work[w].exec = e
      <4>1. Bears(w, e, x)
        BY <1>7, <2>3, <3>2
      <4> QED BY <1>2, <1>3, <1>4, <1>7, <2>1, <3>1, <3>2, <4>1, WorkerKept DEF Bears, Unowned
    <3>3. CASE work[w].exec # e
      <4>1. exec'[work[w].exec] = exec[work[w].exec]
        BY <1>2, <3>1, <3>3
      <4> QED BY <1>3, <1>7, <2>1, <4>1, WorkerKept
    <3> QED BY <3>2, <3>3
  <2> QED BY <2>2, <2>3
<1>8. ASSUME NEW r \in Releasers, rel'[r] = rel[r] PROVE ReleaseFits(r)'
  <2>1. ReleaseFits(r)
    BY DEF AdmissionInv
  <2>2. CASE rel[r].pc = "IDLE"
    BY <1>8, <2>1, <2>2, IdleFits DEF ReleaseFits
  <2>3. CASE rel[r].pc # "IDLE"
    <3>1. rel[r].exec \in Executions
      BY <2>3, ReleaseFacts
    <3> QED BY <1>3, <1>4, <1>8, <2>1, <3>1, ReleaseKept
  <2> QED BY <2>2, <2>3
<1> QED BY <1>3, <1>5, <1>6, <1>7, <1>8 DEF RestKept

(* A run that is waiting has no browser that works, and no task that runs. *)
LEMMA WaitingHasNone ==
    ASSUME AdmissionInv, NEW e \in Executions, exec[e].status \in Waiting
    PROVE  /\ task[e].status # "RUNNING"
           /\ exec[e].sess = 0 \/ sess[exec[e].sess].status # "ACTIVE"
BY InUse DEF AdmissionInv, ExecFits, Mine, Admitted

(* Only one worker has the token of an execution. *)
LEMMA SoleOwner ==
    ASSUME AdmissionInv, NEW w \in Workers, work[w].pc # "IDLE",
           NEW v \in Workers, work[v].pc # "IDLE", work[v].tok = work[w].tok
    PROVE  v = w
BY DEF AdmissionInv, WorkersApart

(* The worker that has the token writes the row and moves on. *)
LEMMA OwnerWrites ==
    ASSUME AdmissionInv, UNCHANGED <<sess, browser, rel, spent>>, NEW w \in Workers, work[w].pc # "IDLE",
           NEW e \in Executions, e = work[w].exec, NEW x \in ExecRows, exec' = [exec EXCEPT ![e] = x],
           x.tok = exec[e].tok, x.sess = exec[e].sess, x.restarts = exec[e].restarts,
           x.open => exec[e].open,
           x = exec[e] \/ (exec[e].tok = work[w].tok /\ exec[e].status \in Waiting),
           NEW y \in TaskRows, task' = [task EXCEPT ![e] = y],
           y.closing = task[e].closing, y.stamp = task[e].stamp,
           y.status = task[e].status \/ y.status # "RUNNING",
           NEW q \in WorkRows, work' = [work EXCEPT ![w] = q], q.pc # work[w].pc, q.pc \notin Holding,
           q.pc = "IDLE" \/ q.tok = work[w].tok, q.pc = "IDLE" => q.tok = 0, WorkerFits(w)'
    PROVE  AdmissionInv'
<1>1. /\ exec \in [Executions -> ExecRows] /\ task \in [Executions -> TaskRows]
      /\ work \in [Workers -> WorkRows]
  BY DEF AdmissionInv, RowTypes
<1>2. /\ exec'[e] = x /\ task'[e] = y /\ \A f \in Executions \ {e} : task'[f] = task[f]
      /\ work'[w] = q /\ \A v \in Workers \ {w} : work'[v] = work[v]
  BY <1>1
<1>3. RowTypes'
  BY <1>1 DEF AdmissionInv, RowTypes
<1>4. ASSUME NEW v \in Workers, work'[v] = work[v], work[v].pc # "IDLE", work[v].exec = e
      PROVE  Bears(v, e, x)
  <2>1. v # w
    BY <1>2, <1>4
  <2>2. exec[e].tok = work[w].tok => work[v].tok # exec[e].tok
    BY <1>4, <2>1, SoleOwner
  <2> QED BY <2>2 DEF Bears
<1>5. x.status \in Waiting => exec[e].sess = 0 \/ sess[exec[e].sess].status # "ACTIVE"
  BY WaitingHasNone
<1>6. ASSUME NEW f \in Executions, task'[f].status = "RUNNING"
      PROVE  task[f].status = "RUNNING" /\ task'[f].closing = task[f].closing /\ (f = e => x.open = exec[e].open)
  BY <1>2, <1>6, WaitingHasNone
<1>7. \A r \in Releasers : task'[rel[r].exec].closing = task[rel[r].exec].closing
                           /\ task'[rel[r].exec].stamp = task[rel[r].exec].stamp
  BY <1>1
<1>8. RestKept
  BY <1>3, <1>4, <1>5, <1>6, <1>7, ExecMoves
<1>9. \A v \in Workers : WorkerFits(v)'
  BY <1>2, <1>8 DEF RestKept
<1>10. WorkersApart'
  BY WorkerFacts, WorkersKeptApart DEF AdmissionInv
<1>11. ReleasesApart' /\ \A r \in Releasers : ReleaseFits(r)'
  BY <1>8 DEF AdmissionInv, ReleasesApart, RestKept
<1> QED BY <1>8, <1>9, <1>10, <1>11 DEF AdmissionInv, RestKept

LEMMA WaitStep ==
    ASSUME AdmissionInv, NEW w \in Workers, Wait(w)
    PROVE  AdmissionInv'
<1>1. PICK pc \in {"FAIL", "DEFER"} : pc = IF work[w].exec \in FailFast THEN "FAIL" ELSE "DEFER"
  OBVIOUS
<1>2. /\ work[w].pc = "WAIT" /\ To(w, pc) /\ UNCHANGED <<task, sess, browser, rel, spent>>
  BY <1>1 DEF Wait
<1>3. PICK e \in Executions : e = work[w].exec
  BY <1>2, WorkerFacts
<1>4. /\ exec \in [Executions -> ExecRows] /\ task \in [Executions -> TaskRows]
      /\ exec[e] \in ExecRows /\ task[e] \in TaskRows /\ WorkerFits(w) /\ work[w] \in WorkRows
  BY WorkerFacts DEF AdmissionInv, RowTypes
<1>5. PICK q \in WorkRows :
         /\ work' = [work EXCEPT ![w] = q] /\ work'[w] = q /\ q.pc = pc /\ q.tok = work[w].tok
         /\ q.cur = work[w].cur /\ q.exec = work[w].exec /\ q.sess = work[w].sess
  BY <1>2, ToRow DEF AdmissionInv
<1>6. PICK x \in ExecRows :
         /\ exec' = [exec EXCEPT ![e] = x] /\ x.tok = exec[e].tok /\ x.sess = exec[e].sess
         /\ x.restarts = exec[e].restarts /\ x.open = exec[e].open
         /\ x = exec[e] \/ (exec[e].tok = work[w].tok /\ exec[e].status \in Waiting)
  <2> DEFINE waits == exec[e].tok = work[w].cur /\ exec[e].open /\ exec[e].status \in Waiting
  <2>1. CASE waits
    <3>1. PICK code \in Codes : code = work[w].code
      BY <1>4 DEF WorkRows
    <3>2. PICK x : x = [exec[e] EXCEPT !.status = "WAITING_CAPACITY", !.code = code]
      OBVIOUS
    <3>3. /\ x \in ExecRows /\ x.tok = exec[e].tok /\ x.sess = exec[e].sess
          /\ x.restarts = exec[e].restarts /\ x.open = exec[e].open
      BY <1>4, <3>2 DEF ExecRows, Waiting
    <3>4. exec' = [exec EXCEPT ![e] = x]
      BY <1>3, <1>4, <2>1, <3>1, <3>2 DEF Wait, Waiting
    <3>5. exec[e].tok = work[w].tok
      BY <1>2, <1>3, <2>1, WorkerFacts DEF WorkerFits
    <3> QED BY <2>1, <3>3, <3>4, <3>5
  <2>2. CASE ~waits
    <3>1. exec' = [exec EXCEPT ![e] = exec[e]]
      BY <1>3, <1>4, <2>2 DEF Wait, Waiting
    <3> QED BY <1>4, <3>1
  <2> QED BY <2>1, <2>2
<1>7. PICK y \in TaskRows : y = task[e] /\ task' = [task EXCEPT ![e] = y]
  BY <1>2, <1>4
<1>8. WorkerFits(w)'
  <2>1. Runs' = Runs
    BY <1>2, SettingStays
  <2> QED BY <1>2, <1>4, <1>5, <2>1 DEF WorkerFits, Holding, Working
<1>9. /\ y.closing = task[e].closing /\ y.stamp = task[e].stamp /\ y.status = task[e].status
      /\ q.pc # work[w].pc /\ q.pc \notin Holding /\ q.pc # "IDLE" /\ work[w].pc # "IDLE"
      /\ UNCHANGED <<sess, browser, rel, spent>> /\ (x.open => exec[e].open)
  BY <1>1, <1>2, <1>5, <1>6, <1>7 DEF Holding
<1> QED BY <1>3, <1>5, <1>6, <1>7, <1>8, <1>9, OwnerWrites

LEMMA DeferStep ==
    ASSUME AdmissionInv, NEW w \in Workers, Defer(w)
    PROVE  AdmissionInv'
<1>1. /\ work[w].pc = "DEFER" /\ work' = [work EXCEPT ![w] = NoWork]
      /\ UNCHANGED <<task, sess, browser, rel, spent>>
  BY DEF Defer, Ends
<1>2. PICK e \in Executions : e = work[w].exec
  BY <1>1, WorkerFacts
<1>3. /\ exec \in [Executions -> ExecRows] /\ task \in [Executions -> TaskRows]
      /\ exec[e] \in ExecRows /\ task[e] \in TaskRows /\ work[w] \in WorkRows
  BY WorkerFacts DEF AdmissionInv, RowTypes
<1>4. PICK x \in ExecRows :
         /\ exec' = [exec EXCEPT ![e] = x] /\ x.tok = exec[e].tok /\ x.sess = exec[e].sess
         /\ x.restarts = exec[e].restarts /\ x.open = exec[e].open
         /\ x = exec[e] \/ (exec[e].tok = work[w].tok /\ exec[e].status \in Waiting)
  <2>1. CASE Owns(w)
    <3>1. PICK code \in Codes : code = work[w].code
      BY <1>3 DEF WorkRows
    <3>2. PICK x : x = [exec[e] EXCEPT !.status = "WAITING_CAPACITY", !.code = code]
      OBVIOUS
    <3>3. /\ x \in ExecRows /\ x.tok = exec[e].tok /\ x.sess = exec[e].sess
          /\ x.restarts = exec[e].restarts /\ x.open = exec[e].open
      BY <1>3, <3>2 DEF ExecRows, Waiting
    <3>4. exec' = [exec EXCEPT ![e] = x]
      BY <1>2, <1>3, <2>1, <3>1, <3>2 DEF Defer
    <3> QED BY <1>2, <2>1, <3>3, <3>4 DEF Owns, Waiting
  <2>2. CASE ~Owns(w)
    <3>1. exec' = [exec EXCEPT ![e] = exec[e]]
      BY <1>2, <1>3, <2>2 DEF Defer
    <3> QED BY <1>3, <3>1
  <2> QED BY <2>1, <2>2
<1>5. PICK y \in TaskRows : y = task[e] /\ task' = [task EXCEPT ![e] = y]
  BY <1>1, <1>3
<1>6. WorkerFits(w)'
  <2>1. work'[w] = NoWork
    BY <1>1, WorkerFacts
  <2> QED BY <2>1, IdleFits DEF WorkerFits, Holding, Working
<1> QED BY <1>1, <1>2, <1>4, <1>5, <1>6, IdleFits, OwnerWrites DEF Holding

LEMMA FailStep ==
    ASSUME AdmissionInv, NEW w \in Workers, Fail(w)
    PROVE  AdmissionInv'
<1>1. /\ work[w].pc = "FAIL" /\ Ends(w) /\ work' = [work EXCEPT ![w] = NoWork]
      /\ UNCHANGED <<sess, browser, rel, spent>>
  BY DEF Fail, Ends
<1>2. CASE ~Owns(w)
  <2>1. UNCHANGED <<exec, task>>
    BY <1>2 DEF Fail
  <2> QED BY <1>1, <2>1, EndStep, WorkerFacts
<1>3. CASE Owns(w)
  <2>1. PICK e \in Executions : e = work[w].exec
    BY <1>1, WorkerFacts
  <2>2. /\ exec \in [Executions -> ExecRows] /\ task \in [Executions -> TaskRows]
        /\ exec[e] \in ExecRows /\ task[e] \in TaskRows
    BY DEF AdmissionInv, RowTypes
  <2>3. PICK x : x = [exec[e] EXCEPT !.status = "FAILED", !.open = FALSE]
    OBVIOUS
  <2>4. /\ x \in ExecRows /\ x.tok = exec[e].tok /\ x.sess = exec[e].sess
        /\ x.restarts = exec[e].restarts /\ x.open = FALSE
    BY <2>2, <2>3 DEF ExecRows
  <2>5. exec' = [exec EXCEPT ![e] = x]
    BY <1>3, <2>1, <2>2, <2>3 DEF Fail
  <2>6. PICK st \in {"PENDING", "RUNNING", "ENDED"} :
           st = IF task[e].status = "PENDING" THEN "ENDED" ELSE task[e].status
    BY <2>2 DEF TaskRows
  <2>7. PICK y : y = [task[e] EXCEPT !.status = st]
    OBVIOUS
  <2>8. /\ y \in TaskRows /\ y.closing = task[e].closing /\ y.stamp = task[e].stamp
        /\ y.status = task[e].status \/ y.status # "RUNNING"
    BY <2>2, <2>6, <2>7 DEF TaskRows
  <2>9. task' = [task EXCEPT ![e] = y]
    BY <1>3, <2>1, <2>2, <2>6, <2>7 DEF Fail
  <2>10. WorkerFits(w)'
    <3>1. work'[w] = NoWork
      BY <1>1, WorkerFacts
    <3> QED BY <3>1, IdleFits DEF WorkerFits, Holding, Working
  <2>11. exec[e].tok = work[w].tok /\ exec[e].status \in Waiting
    BY <1>3, <2>1 DEF Owns, Waiting
  <2> QED BY <1>1, <2>1, <2>4, <2>5, <2>8, <2>9, <2>10, <2>11, IdleFits, OwnerWrites DEF Holding
<1> QED BY <1>2, <1>3

LEMMA ClaimStep ==
    ASSUME AdmissionInv, NEW w \in Workers, NEW e \in Runs, Claim(w, e)
    PROVE  AdmissionInv'
<1>1. /\ work[w].pc = "IDLE" /\ exec[e].open /\ Claimed(w, e) /\ e \in Executions
      /\ UNCHANGED <<task, sess, browser, rel, spent>> /\ exec[e].status \in Waiting
  BY SettingFacts DEF Claim, Claimed, AdmissionInv, Waiting
<1>2. /\ exec \in [Executions -> ExecRows] /\ exec[e] \in ExecRows /\ work \in [Workers -> WorkRows]
  BY <1>1 DEF AdmissionInv, RowTypes
<1>3. PICK t \in Tokens :
         /\ t = NewToken
         /\ \A f \in Executions : exec[f].tok # t
         /\ \A v \in Workers : work[v].tok # t /\ work[v].cur # t
  BY TokenIsNew DEF AdmissionInv
<1>4. t # 0
  BY <1>3, AdmissionParameters DEF Tokens
<1>5. PICK x : x = [exec[e] EXCEPT !.status = "ALLOCATING", !.tok = t]
  OBVIOUS
<1>6. /\ x \in ExecRows /\ x.tok = t /\ x.sess = exec[e].sess /\ x.status = "ALLOCATING"
      /\ x.restarts = exec[e].restarts /\ x.open = exec[e].open
  BY <1>2, <1>5 DEF ExecRows, Waiting
<1>7. exec' = [exec EXCEPT ![e] = x]
  BY <1>1, <1>2, <1>3, <1>5 DEF Claimed
<1>8. PICK q : q = [NoWork EXCEPT !.pc = "ACQUIRE", !.exec = e, !.tok = t]
  OBVIOUS
<1>9. q \in WorkRows /\ q.pc = "ACQUIRE" /\ q.exec = e /\ q.tok = t /\ q.cur = 0
  BY <1>1, <1>8, IdleFits DEF NoWork, WorkRows, Working
<1>10. work' = [work EXCEPT ![w] = q] /\ work'[w] = q /\ \A v \in Workers \ {w} : work'[v] = work[v]
  BY <1>1, <1>2, <1>3, <1>8 DEF Claimed
<1>11. RowTypes'
  BY <1>1, <1>2, <1>6, <1>7, <1>9, <1>10 DEF AdmissionInv, RowTypes
<1>12. ASSUME NEW v \in Workers, work'[v] = work[v], work[v].pc # "IDLE", work[v].exec = e
       PROVE  Bears(v, e, x)
  <2>1. WorkerFits(v) /\ work[v].tok # t
    BY <1>3 DEF AdmissionInv
  <2>2. work[v].pc # "REREAD"
    <3>1. CASE exec[e].status \in {"REQUESTED", "WAITING_CAPACITY"}
      BY <1>1, <1>12, <2>1, <3>1 DEF WorkerFits, Working
    <3>2. CASE Stale(e)
      BY <1>12, <3>2 DEF Stale
    <3> QED BY <3>1, <3>2 DEF Claim
  <2> QED BY <1>6, <2>1, <2>2 DEF Bears
<1>13. RestKept
  BY <1>1, <1>6, <1>7, <1>11, <1>12, WaitingHasNone, ExecMoves
<1>14. WorkerFits(w)'
  <2>1. Runs' = Runs /\ exec'[e] = x
    BY <1>1, <1>2, <1>7, SettingStays
  <2> QED BY <1>4, <1>6, <1>9, <1>10, <2>1 DEF WorkerFits, Working, Holding
<1>15. \A v \in Workers : WorkerFits(v)'
  BY <1>10, <1>13, <1>14 DEF RestKept
<1>16. WorkersApart'
  BY <1>3, <1>9, <1>10 DEF AdmissionInv, WorkersApart, Holding
<1>17. ReleasesApart' /\ \A r \in Releasers : ReleaseFits(r)'
  BY <1>1, <1>13 DEF AdmissionInv, ReleasesApart, RestKept
<1> QED BY <1>13, <1>15, <1>16, <1>17 DEF AdmissionInv, RestKept

(* The release writes the row of its execution. *)
LEMMA ReleaseWrites ==
    ASSUME AdmissionInv, UNCHANGED <<task, sess, browser, work, spent>>,
           NEW r \in Releasers, rel[r].pc # "IDLE",
           NEW e \in Executions, e = rel[r].exec, NEW x \in ExecRows, exec' = [exec EXCEPT ![e] = x],
           x.sess = exec[e].sess, x.restarts = exec[e].restarts, x.open = exec[e].open,
           x.tok = exec[e].tok \/ (x.tok = 0 /\ ~exec[e].open),
           x.status = exec[e].status \/ x.status \in {"RELEASING", "RELEASED", "LOST"},
           NEW q \in RelRows, rel' = [rel EXCEPT ![r] = q],
           \/ q = NoRelease
           \/ /\ q.exec = rel[r].exec /\ q.sess = rel[r].sess /\ q.stamp = rel[r].stamp
              /\ q.sess # 0 /\ q.pc \in {"CLOSE", "FINISH", "RECOVER"} /\ (q.pc = "RECOVER" => q.stamp # 0)
    PROVE  AdmissionInv'
<1>1. exec \in [Executions -> ExecRows] /\ rel \in [Releasers -> RelRows]
  BY DEF AdmissionInv, RowTypes
<1>2. rel'[r] = q /\ exec'[e] = x /\ \A p \in Releasers \ {r} : rel'[p] = rel[p]
  BY <1>1
<1>3. RowTypes'
  BY <1>1 DEF AdmissionInv, RowTypes
<1>4. ASSUME NEW v \in Workers, work'[v] = work[v], work[v].pc # "IDLE", work[v].exec = e
      PROVE  Bears(v, e, x)
  <2>1. work[v].tok # 0
    BY <1>4, WorkerFacts
  <2> QED BY <2>1 DEF Bears, Unowned
<1>5. x.status \in Waiting => exec[e].sess = 0 \/ sess[exec[e].sess].status # "ACTIVE"
  BY WaitingHasNone DEF Waiting
<1>6. RestKept
  BY <1>3, <1>4, <1>5, ExecMoves
<1>7. ReleaseFits(r)'
  <2>1. Runs' = Runs /\ Created' = Created /\ Mine(e)' = Mine(e)
    BY SettingStays DEF Created, Mine
  <2>2. ReleaseFits(r)
    BY DEF AdmissionInv
  <2> QED BY <1>2, <2>1, <2>2, IdleFits DEF ReleaseFits, NoRelease
<1>8. \A p \in Releasers : ReleaseFits(p)'
  BY <1>2, <1>6, <1>7 DEF RestKept
<1>9. ReleasesApart'
  BY IdleFits, ReleasesKeptApart DEF AdmissionInv
<1>10. WorkersApart' /\ \A w \in Workers : WorkerFits(w)'
  BY <1>6 DEF AdmissionInv, WorkersApart, RestKept
<1> QED BY <1>6, <1>8, <1>9, <1>10 DEF AdmissionInv, RestKept

LEMMA ReleasedRow ==
    ASSUME AdmissionInv, NEW r \in Releasers, rel[r].pc # "IDLE", Released(r)
    PROVE  \E q \in RelRows :
              /\ rel' = [rel EXCEPT ![r] = q]
              /\ \/ q = NoRelease
                 \/ /\ q.exec = rel[r].exec /\ q.sess = rel[r].sess /\ q.stamp = rel[r].stamp
                    /\ q.sess # 0 /\ q.pc = "RECOVER" /\ q.stamp # 0
<1>1. CASE rel[r].stamp = 0
  <2>1. rel' = [rel EXCEPT ![r] = NoRelease]
    BY <1>1 DEF Released
  <2> QED BY <2>1, IdleFits
<1>2. CASE rel[r].stamp # 0
  <2>1. RelTo(r, "RECOVER")
    BY <1>2 DEF Released
  <2>2. PICK q \in RelRows :
           /\ rel' = [rel EXCEPT ![r] = q] /\ rel'[r] = q /\ q.pc = "RECOVER" /\ q.tok = rel[r].tok
           /\ q.stamp = rel[r].stamp /\ q.exec = rel[r].exec /\ q.sess = rel[r].sess
    BY <2>1, RelToRow DEF AdmissionInv
  <2>3. rel[r].sess # 0
    BY <1>2, ReleaseFacts DEF ReleaseFits
  <2> QED BY <1>2, <2>2, <2>3
<1> QED BY <1>1, <1>2

(* A row of which only the status, and maybe the token, is written. *)
LEMMA StatusRow ==
    ASSUME NEW x \in ExecRows, NEW st \in {"RELEASING", "RELEASED", "LOST"}
    PROVE  /\ [x EXCEPT !.status = st] \in ExecRows /\ [x EXCEPT !.status = st].status = st
           /\ [x EXCEPT !.status = st].tok = x.tok /\ [x EXCEPT !.status = st].sess = x.sess
           /\ [x EXCEPT !.status = st].restarts = x.restarts /\ [x EXCEPT !.status = st].open = x.open
           /\ [x EXCEPT !.status = st].code = x.code
BY DEF ExecRows

LEMMA ReleaseEmptyStep ==
    ASSUME AdmissionInv, NEW r \in Releasers, ReleaseEmpty(r)
    PROVE  AdmissionInv'
<1>1. rel[r].pc = "EMPTY" /\ Released(r) /\ UNCHANGED <<task, sess, browser, work, spent>>
  BY DEF ReleaseEmpty
<1>2. PICK e \in Executions : e = rel[r].exec
  BY <1>1, ReleaseFacts
<1>3. exec \in [Executions -> ExecRows] /\ exec[e] \in ExecRows /\ ~exec[e].open
  BY <1>1, <1>2, ReleaseFacts DEF ReleaseFits
<1>4. PICK x \in ExecRows :
         /\ exec' = [exec EXCEPT ![e] = x] /\ x.sess = exec[e].sess /\ x.restarts = exec[e].restarts
         /\ x.open = exec[e].open /\ (x.tok = exec[e].tok \/ x.tok = 0)
         /\ x.status = exec[e].status \/ x.status = "RELEASED"
  <2>1. CASE CalledOff(r)
    <3>1. PICK y \in ExecRows : y = [exec[e] EXCEPT !.status = "RELEASED"]
      BY <1>3, StatusRow
    <3>2. /\ y.status = "RELEASED" /\ y.sess = exec[e].sess /\ y.restarts = exec[e].restarts
          /\ y.open = exec[e].open
      BY <1>3, <3>1, StatusRow
    <3>3. PICK x : x = [y EXCEPT !.tok = 0]
      OBVIOUS
    <3>4. /\ x \in ExecRows /\ x.status = y.status /\ x.sess = y.sess /\ x.restarts = y.restarts
          /\ x.open = y.open /\ x.tok = 0
      BY <3>3 DEF ExecRows
    <3>5. exec' = [exec EXCEPT ![e] = x]
      BY <1>2, <1>3, <2>1, <3>1, <3>3 DEF ReleaseEmpty
    <3> QED BY <3>2, <3>4, <3>5
  <2>2. CASE ~CalledOff(r)
    <3>1. exec' = [exec EXCEPT ![e] = exec[e]]
      BY <1>2, <1>3, <2>2 DEF ReleaseEmpty
    <3> QED BY <1>3, <3>1
  <2> QED BY <2>1, <2>2
<1>5. PICK q \in RelRows :
         /\ rel' = [rel EXCEPT ![r] = q]
         /\ \/ q = NoRelease
            \/ /\ q.exec = rel[r].exec /\ q.sess = rel[r].sess /\ q.stamp = rel[r].stamp
               /\ q.sess # 0 /\ q.pc = "RECOVER" /\ q.stamp # 0
  BY <1>1, ReleasedRow
<1> QED BY <1>1, <1>2, <1>3, <1>4, <1>5, ReleaseWrites

LEMMA ReleaseClosedStep ==
    ASSUME AdmissionInv, NEW r \in Releasers, ReleaseClosed(r)
    PROVE  AdmissionInv'
<1>1. rel[r].pc = "CLOSED" /\ Released(r) /\ UNCHANGED <<task, sess, browser, work, spent>>
  BY DEF ReleaseClosed
<1>2. PICK e \in Executions : e = rel[r].exec
  BY <1>1, ReleaseFacts
<1>3. exec \in [Executions -> ExecRows] /\ exec[e] \in ExecRows
  BY <1>1, <1>2, ReleaseFacts
<1>4. PICK x \in ExecRows : x = [exec[e] EXCEPT !.status = "RELEASED"]
  BY <1>3, StatusRow
<1>5. /\ x.status = "RELEASED" /\ x.sess = exec[e].sess /\ x.restarts = exec[e].restarts
      /\ x.open = exec[e].open /\ x.tok = exec[e].tok
  BY <1>3, <1>4, StatusRow
<1>6. exec' = [exec EXCEPT ![e] = x]
  BY <1>2, <1>3, <1>4 DEF ReleaseClosed
<1>7. PICK q \in RelRows :
         /\ rel' = [rel EXCEPT ![r] = q]
         /\ \/ q = NoRelease
            \/ /\ q.exec = rel[r].exec /\ q.sess = rel[r].sess /\ q.stamp = rel[r].stamp
               /\ q.sess # 0 /\ q.pc = "RECOVER" /\ q.stamp # 0
  BY <1>1, ReleasedRow
<1> QED BY <1>1, <1>2, <1>5, <1>6, <1>7, ReleaseWrites

LEMMA ReleaseMarkStep ==
    ASSUME AdmissionInv, NEW r \in Releasers, ReleaseMark(r)
    PROVE  AdmissionInv'
<1>1. rel[r].pc = "MARK" /\ RelTo(r, "CLOSE") /\ UNCHANGED <<task, sess, browser, work, spent>>
  BY DEF ReleaseMark
<1>2. PICK e \in Executions : e = rel[r].exec
  BY <1>1, ReleaseFacts
<1>3. exec \in [Executions -> ExecRows] /\ exec[e] \in ExecRows /\ rel[r].sess # 0
  BY <1>1, <1>2, ReleaseFacts DEF ReleaseFits
<1>4. PICK st \in {"RELEASED", "RELEASING"} :
         st = IF exec[e].status = "RELEASED" THEN exec[e].status ELSE "RELEASING"
  OBVIOUS
<1>5. PICK x \in ExecRows : x = [exec[e] EXCEPT !.status = st]
  BY <1>3, StatusRow
<1>6. /\ x.status = st /\ x.sess = exec[e].sess /\ x.restarts = exec[e].restarts
      /\ x.open = exec[e].open /\ x.tok = exec[e].tok
  BY <1>3, <1>5, StatusRow
<1>7. exec' = [exec EXCEPT ![e] = x]
  BY <1>2, <1>3, <1>4, <1>5 DEF ReleaseMark
<1>8. PICK q \in RelRows :
         /\ rel' = [rel EXCEPT ![r] = q] /\ rel'[r] = q /\ q.pc = "CLOSE" /\ q.tok = rel[r].tok
         /\ q.stamp = rel[r].stamp /\ q.exec = rel[r].exec /\ q.sess = rel[r].sess
  BY <1>1, RelToRow DEF AdmissionInv
<1> QED BY <1>1, <1>2, <1>3, <1>6, <1>7, <1>8, ReleaseWrites

LEMMA ReleaseFinishStep ==
    ASSUME AdmissionInv, NEW r \in Releasers, ReleaseFinish(r)
    PROVE  AdmissionInv'
<1>1. rel[r].pc = "FINISH" /\ Released(r) /\ UNCHANGED <<task, sess, browser, work, spent>>
  BY DEF ReleaseFinish
<1>2. PICK e \in Executions : e = rel[r].exec
  BY <1>1, ReleaseFacts
<1>3. exec \in [Executions -> ExecRows] /\ exec[e] \in ExecRows
  BY <1>1, <1>2, ReleaseFacts
<1>4. PICK x \in ExecRows :
         /\ exec' = [exec EXCEPT ![e] = x] /\ x.sess = exec[e].sess /\ x.restarts = exec[e].restarts
         /\ x.open = exec[e].open /\ x.tok = exec[e].tok
         /\ x.status = exec[e].status \/ x.status \in {"RELEASED", "LOST"}
  <2> DEFINE s == rel[r].sess
  <2>1. CASE exec[e].sess = s /\ exec[e].status # "RELEASED"
    <3>1. PICK st \in {"RELEASED", "LOST"} : st = IF sess[s].closed THEN "RELEASED" ELSE "LOST"
      OBVIOUS
    <3>2. PICK x \in ExecRows : x = [exec[e] EXCEPT !.status = st]
      BY <1>3, StatusRow
    <3>3. /\ x.status = st /\ x.sess = exec[e].sess /\ x.restarts = exec[e].restarts
          /\ x.open = exec[e].open /\ x.tok = exec[e].tok
      BY <1>3, <3>2, StatusRow
    <3>4. exec' = [exec EXCEPT ![e] = x]
      BY <1>2, <1>3, <2>1, <3>1, <3>2 DEF ReleaseFinish
    <3> QED BY <3>1, <3>3, <3>4
  <2>2. CASE ~(exec[e].sess = s /\ exec[e].status # "RELEASED")
    <3>1. exec' = [exec EXCEPT ![e] = exec[e]]
      BY <1>2, <1>3, <2>2 DEF ReleaseFinish
    <3> QED BY <1>3, <3>1
  <2> QED BY <2>1, <2>2
<1>5. PICK q \in RelRows :
         /\ rel' = [rel EXCEPT ![r] = q]
         /\ \/ q = NoRelease
            \/ /\ q.exec = rel[r].exec /\ q.sess = rel[r].sess /\ q.stamp = rel[r].stamp
               /\ q.sess # 0 /\ q.pc = "RECOVER" /\ q.stamp # 0
  BY <1>1, ReleasedRow
<1> QED BY <1>1, <1>2, <1>4, <1>5, ReleaseWrites

LEMMA RecoverStep ==
    ASSUME AdmissionInv, NEW r \in Releasers, Recover(r)
    PROVE  AdmissionInv'
<1>1. /\ rel[r].pc = "RECOVER" /\ rel' = [rel EXCEPT ![r] = NoRelease]
      /\ UNCHANGED <<sess, browser, work, spent>>
  BY DEF Recover
<1>2. PICK e \in Executions : e = rel[r].exec
  BY <1>1, ReleaseFacts
<1>3. PICK s : s = rel[r].sess
  OBVIOUS
<1>4. /\ exec \in [Executions -> ExecRows] /\ exec[e] \in ExecRows /\ rel[r].stamp # 0
      /\ task \in [Executions -> TaskRows] /\ task[e] \in TaskRows /\ exec[e].sess = s /\ s # 0
  BY <1>1, <1>2, <1>3, ReleaseFacts DEF ReleaseFits
<1>5. rel'[r] = NoRelease /\ \A p \in Releasers \ {r} : rel'[p] = rel[p]
  BY <1>1, ReleaseFacts
<1>6. PICK mine : mine = (Unstarted(e) /\ task[e].closing /\ task[e].stamp = rel[r].stamp)
  OBVIOUS
<1>7. PICK x \in ExecRows :
         /\ exec' = [exec EXCEPT ![e] = x] /\ x.sess = exec[e].sess /\ x.restarts = exec[e].restarts
         /\ x.open = exec[e].open
         /\ \/ x = exec[e]
            \/ /\ sess[s].closed /\ \A v \in Workers : work[v].tok # x.tok
  <2>1. CASE Proved(s) /\ mine /\ exec[e].open
    <3>1. PICK t \in Tokens : t = NewToken /\ \A v \in Workers : work[v].tok # t
      BY TokenIsNew DEF AdmissionInv
    <3>2. PICK x : x = [exec[e] EXCEPT !.status = "WAITING_CAPACITY", !.tok = t, !.code = "LEASE_RECOVERY"]
      OBVIOUS
    <3>3. /\ x \in ExecRows /\ x.tok = t /\ x.sess = exec[e].sess
          /\ x.restarts = exec[e].restarts /\ x.open = exec[e].open
      BY <1>4, <3>2 DEF ExecRows, Waiting, Codes
    <3>4. exec' = [exec EXCEPT ![e].status = "WAITING_CAPACITY", ![e].tok = t, ![e].code = "LEASE_RECOVERY"]
      BY <1>2, <1>3, <1>4, <1>6, <2>1, <3>1 DEF Recover
    <3>5. exec' = [exec EXCEPT ![e] = x]
      BY <1>4, <3>2, <3>4
    <3> QED BY <2>1, <3>1, <3>3, <3>5 DEF Proved
  <2>2. CASE ~(Proved(s) /\ mine /\ exec[e].open)
    <3>1. exec' = exec
      BY <1>2, <1>3, <1>4, <1>6, <2>2 DEF Recover
    <3> QED BY <1>4, <3>1
  <2> QED BY <2>1, <2>2
<1>8. PICK y \in TaskRows :
         /\ task' = [task EXCEPT ![e] = y] /\ y.status = task[e].status
         /\ \/ y = task[e]
            \/ task[e].status = "PENDING" /\ task[e].stamp = rel[r].stamp
  <2>1. CASE Proved(s) /\ mine
    <3>1. PICK y : y = [task[e] EXCEPT !.closing = FALSE, !.stamp = 0]
      OBVIOUS
    <3>2. y \in TaskRows /\ y.status = task[e].status
      BY <1>4, <3>1 DEF TaskRows
    <3>3. task' = [task EXCEPT ![e] = y]
      BY <1>2, <1>3, <1>4, <1>6, <2>1, <3>1 DEF Recover
    <3> QED BY <1>6, <2>1, <3>2, <3>3 DEF Unstarted
  <2>2. CASE ~(Proved(s) /\ mine)
    <3>1. task' = task
      BY <1>2, <1>3, <1>6, <2>2 DEF Recover
    <3> QED BY <1>4, <3>1
  <2> QED BY <2>1, <2>2
<1>9. RowTypes'
  BY <1>1, <1>4, <1>7, <1>8, IdleFits DEF AdmissionInv, RowTypes
<1>10. ASSUME NEW v \in Workers, work'[v] = work[v], work[v].pc # "IDLE", work[v].exec = e
       PROVE  Bears(v, e, x)
  <2>1. work[v].pc # "REREAD"
    BY <1>4, <1>10, WorkerFacts DEF WorkerFits
  <2> QED BY <1>7, <2>1 DEF Bears
<1>11. x.status \in Waiting => exec[e].sess = 0 \/ sess[exec[e].sess].status # "ACTIVE"
  <2>1. s \in Created /\ (sess[s].closed => sess[s].status # "ACTIVE")
    BY <1>3, <1>4, ReleaseFacts, SessionFacts DEF SessionFits
  <2> QED BY <1>4, <1>7, <2>1, WaitingHasNone
<1>12. ASSUME NEW f \in Executions, task'[f].status = "RUNNING"
       PROVE  task[f].status = "RUNNING" /\ task'[f].closing = task[f].closing /\ (f = e => x.open = exec[e].open)
  BY <1>4, <1>7, <1>8, <1>12
<1>13. ASSUME NEW p \in Releasers, rel'[p] = rel[p], rel[p].stamp # 0
       PROVE  /\ task'[rel[p].exec].closing = task[rel[p].exec].closing
              /\ task'[rel[p].exec].stamp = task[rel[p].exec].stamp
  <2>1. p # r
    BY <1>4, <1>5, <1>13, IdleFits
  <2>2. rel[p].stamp # rel[r].stamp /\ task[rel[p].exec].stamp = rel[p].stamp
    BY <1>13, <2>1, ReleaseFacts DEF AdmissionInv, ReleasesApart, ReleaseFits
  <2>3. rel[p].exec = e => y = task[e]
    BY <1>8, <2>2
  <2> QED BY <1>4, <1>8, <2>3
<1>14. RestKept
  BY <1>1, <1>7, <1>9, <1>10, <1>11, <1>12, <1>13, ExecMoves
<1>15. ReleaseFits(r)'
  BY <1>5, IdleFits DEF ReleaseFits
<1>16. \A p \in Releasers : ReleaseFits(p)'
  BY <1>5, <1>14, <1>15 DEF RestKept
<1>17. ReleasesApart'
  BY <1>1, IdleFits, ReleasesKeptApart DEF AdmissionInv
<1>18. WorkersApart' /\ \A w \in Workers : WorkerFits(w)'
  BY <1>1, <1>14 DEF AdmissionInv, WorkersApart, RestKept
<1> QED BY <1>14, <1>16, <1>17, <1>18 DEF AdmissionInv, RestKept

LEMMA RunEndsStep ==
    ASSUME AdmissionInv, NEW e \in Runs, RunEnds(e)
    PROVE  AdmissionInv'
<1>1. /\ exec' = [exec EXCEPT ![e].open = FALSE] /\ task' = [task EXCEPT ![e].status = "ENDED"]
      /\ UNCHANGED <<sess, browser, work, rel, spent>> /\ e \in Executions
      /\ exec \in [Executions -> ExecRows] /\ exec[e] \in ExecRows
      /\ task \in [Executions -> TaskRows] /\ task[e] \in TaskRows
  BY SettingFacts DEF RunEnds, AdmissionInv, RowTypes
<1>2. PICK x : x = [exec[e] EXCEPT !.open = FALSE]
  OBVIOUS
<1>3. /\ x \in ExecRows /\ x.tok = exec[e].tok /\ x.sess = exec[e].sess
      /\ x.restarts = exec[e].restarts /\ x.open = FALSE /\ x.status = exec[e].status
  BY <1>1, <1>2 DEF ExecRows
<1>4. PICK y : y = [task[e] EXCEPT !.status = "ENDED"]
  OBVIOUS
<1>5. y \in TaskRows /\ y.status = "ENDED" /\ y.closing = task[e].closing /\ y.stamp = task[e].stamp
  BY <1>1, <1>4 DEF TaskRows
<1>6. exec' = [exec EXCEPT ![e] = x] /\ task' = [task EXCEPT ![e] = y]
  BY <1>1, <1>2, <1>4
<1>7. RowTypes'
  <2>1. exec' \in [Executions -> ExecRows]
    BY <1>1, <1>3, <1>6
  <2>2. task' \in [Executions -> TaskRows]
    BY <1>1, <1>5, <1>6
  <2> QED BY <1>1, <2>1, <2>2 DEF AdmissionInv, RowTypes
<1>8. RestKept
  <2>1. \A v \in Workers : Bears(v, e, x)
    BY <1>3 DEF Bears
  <2>2. \A f \in Executions : task'[f].status = "RUNNING" => f # e /\ task'[f] = task[f]
    BY <1>1, <1>5, <1>6
  <2>3. \A r \in Releasers : /\ task'[rel[r].exec].closing = task[rel[r].exec].closing
                             /\ task'[rel[r].exec].stamp = task[rel[r].exec].stamp
    BY <1>1, <1>5, <1>6
  <2>4. \A f \in Executions : task'[f].status = "RUNNING" =>
           task[f].status = "RUNNING" /\ task'[f].closing = task[f].closing /\ (f = e => x.open = exec[e].open)
    BY <2>2
  <2>5. x.status \in Waiting => exec[e].sess = 0 \/ sess[exec[e].sess].status # "ACTIVE"
    BY <1>1, <1>3, WaitingHasNone
  <2>6. UNCHANGED <<sess, browser, spent>> /\ (x.open => exec[e].open) /\ e \in Executions
    BY <1>1, <1>3
  <2> QED BY <1>3, <1>6, <1>7, <2>1, <2>3, <2>4, <2>5, <2>6, ExecMoves
<1>9. WorkersApart' /\ ReleasesApart'
  BY <1>1 DEF AdmissionInv, WorkersApart, ReleasesApart
<1> QED BY <1>1, <1>8, <1>9 DEF AdmissionInv, RestKept


---------------------------------------------------------------------------
(* Steps that move an execution's row together with its session's. *)
LEMMA BothMove ==
    ASSUME AdmissionInv, UNCHANGED <<browser, spent>>, RowTypes',
           NEW e \in Executions, NEW x \in ExecRows, exec' = [exec EXCEPT ![e] = x],
           NEW s \in Created, s = exec[e].sess, NEW q \in SessRows, sess' = [sess EXCEPT ![s] = q],
           x.sess = s, x.restarts = exec[e].restarts, x.open => exec[e].open,
           q.exec = sess[s].exec, q.slot = sess[s].slot, q.permit = sess[s].permit,
           q.leases = sess[s].leases, q.closed = sess[s].closed, q.status # "NONE",
           q.status = "CLOSED" <=> sess[s].status = "CLOSED", sess[s].closed => q.write = sess[s].write,
           q.status \in {"OPENING", "ACTIVE"} => sess[s].status \in {"OPENING", "ACTIVE"},
           TaskFits(e)', Admitted(s)', \A f \in Executions \ {e} : task'[f] = task[f],
           \A v \in Workers : work'[v] = work[v] /\ work[v].pc # "IDLE" =>
              /\ work[v].exec = e => Bears(v, e, x)
              /\ work[v].pc \in Holding /\ work[v].sess = s /\ q.status \in {"OPENING", "ACTIVE"}
                 => q.status = sess[s].status,
           \A r \in Releasers : rel'[r] = rel[r] /\ rel[r].stamp # 0 =>
              /\ task'[rel[r].exec].closing = task[rel[r].exec].closing
              /\ task'[rel[r].exec].stamp = task[rel[r].exec].stamp
    PROVE  RestKept
<1>1. /\ exec \in [Executions -> ExecRows] /\ sess \in [SessionIds -> SessRows] /\ RowTypes
      /\ s \in SessionIds /\ Created \subseteq SessionIds /\ sess[s].status # "NONE"
  BY SessionFacts DEF AdmissionInv, RowTypes
<1>2. exec'[e] = x /\ \A f \in Executions \ {e} : exec'[f] = exec[f]
  BY <1>1
<1>3. sess'[s] = q /\ \A t \in SessionIds \ {s} : sess'[t] = sess[t]
  BY <1>1
<1>4. s # 0 /\ sess[s].exec = e /\ s \in Mine(e)
  <2>1. s # 0
    BY <1>1, AdmissionParameters DEF SessionIds
  <2> QED BY <2>1 DEF AdmissionInv, ExecFits, Mine
<1>5. ASSUME NEW t \in SessionIds PROVE SameHold(t)
  <2>1. CASE t = s
    BY <1>1, <1>3, <2>1 DEF SameHold
  <2>2. CASE t # s
    BY <1>3, <2>2 DEF SameHold
  <2> QED BY <2>1, <2>2
<1>6. Resources' /\ Created' = Created
  BY <1>1, <1>5, ResourcesKept DEF AdmissionInv
<1>7. \A f \in Executions : /\ exec'[f].sess = exec[f].sess /\ exec'[f].restarts = exec[f].restarts
                            /\ exec'[f].open => exec[f].open
  BY <1>2
<1>8. ASSUME NEW f \in Executions PROVE ExecFits(f)'
  <2>1. ExecFits(f)
    BY DEF AdmissionInv
  <2>2. \A t \in Created : /\ sess'[t].exec = sess[t].exec /\ (sess[t].closed => sess'[t].closed)
                           /\ sess'[t].owned => sess[t].owned \/ exec[sess[t].exec].sess = t
    BY <1>1, <1>3, <1>4
  <2> QED BY <1>1, <1>6, <1>7, <2>1, <2>2, ChainKept
<1>9. ASSUME NEW f \in Executions PROVE TaskFits(f)'
  <2>1. CASE f = e
    BY <2>1
  <2>2. CASE f # e
    <3>1. TaskFits(f) /\ task'[f] = task[f] /\ exec'[f] = exec[f]
      BY <1>2, <2>2 DEF AdmissionInv
    <3>2. task[f].status = "RUNNING" => sess'[exec[f].sess] = sess[exec[f].sess]
      BY <1>1, <1>3, <1>4, <2>2, InUse
    <3> QED BY <3>1, <3>2, TaskKept
  <2> QED BY <2>1, <2>2
<1>10. ASSUME NEW t \in Created PROVE Admitted(t)'
  <2>1. Admitted(t) /\ sess[t].exec \in Executions /\ SessionFits(t)
    BY SessionFacts
  <2>2. CASE t = s
    BY <2>2
  <2>3. CASE t # s /\ sess[t].exec = e
    <3>1. sess'[t] = sess[t] /\ sess[t].closed
      BY <1>1, <1>3, <2>3 DEF AdmissionInv, ExecFits, Mine
    <3> QED BY <2>1, <3>1 DEF Admitted, SessionFits
  <2>4. CASE t # s /\ sess[t].exec # e
    <3>1. sess'[t] = sess[t] /\ exec'[sess[t].exec] = exec[sess[t].exec]
      BY <1>1, <1>2, <1>3, <2>1, <2>4
    <3> QED BY <2>1, <3>1 DEF Admitted
  <2> QED BY <2>2, <2>3, <2>4
<1>11. ASSUME NEW w \in Workers, work'[w] = work[w] PROVE WorkerFits(w)'
  <2>1. WorkerFits(w)
    BY DEF AdmissionInv
  <2>2. CASE work[w].pc = "IDLE"
    BY <1>11, <2>1, <2>2, IdleFits DEF WorkerFits, Working, Holding
  <2>3. CASE work[w].pc # "IDLE"
    <3>1. work[w].exec \in Executions /\ (work[w].pc \in Holding => work[w].sess \in SessionIds)
      BY <2>3, WorkerFacts
    <3>2. work[w].pc \in Holding =>
             /\ sess'[work[w].sess].status = "ACTIVE" => sess[work[w].sess].status = "ACTIVE"
             /\ sess'[work[w].sess].status = "OPENING" => sess[work[w].sess].status = "OPENING"
      BY <1>3, <1>11, <2>3, <3>1
    <3>3. CASE work[w].exec = e
      <4>1. Bears(w, e, x)
        BY <1>11, <2>3, <3>3
      <4> QED BY <1>2, <1>6, <1>7, <1>11, <2>1, <3>1, <3>2, <3>3, <4>1, WorkerKept DEF Bears, Unowned
    <3>4. CASE work[w].exec # e
      <4>1. exec'[work[w].exec] = exec[work[w].exec]
        BY <1>2, <3>1, <3>4
      <4> QED BY <1>6, <1>11, <2>1, <3>2, <4>1, WorkerKept
    <3> QED BY <3>3, <3>4
  <2> QED BY <2>2, <2>3
<1>12. ASSUME NEW r \in Releasers, rel'[r] = rel[r] PROVE ReleaseFits(r)'
  <2>1. ReleaseFits(r)
    BY DEF AdmissionInv
  <2>2. CASE rel[r].pc = "IDLE"
    BY <1>12, <2>1, <2>2, IdleFits DEF ReleaseFits
  <2>3. CASE rel[r].pc # "IDLE"
    <3>1. rel[r].exec \in Executions
      BY <2>3, ReleaseFacts
    <3>2. \A t \in Created : /\ sess'[t].exec = sess[t].exec
                             /\ sess'[t].status \in {"OPENING", "ACTIVE"} =>
                                   sess[t].status \in {"OPENING", "ACTIVE"}
      BY <1>1, <1>3
    <3> QED BY <1>6, <1>7, <1>12, <2>1, <3>1, <3>2, ReleaseKept
  <2> QED BY <2>2, <2>3
<1> QED BY <1>6, <1>8, <1>9, <1>10, <1>11, <1>12 DEF RestKept

LEMMA ClaimTaskStep ==
    ASSUME AdmissionInv, NEW e \in Runs, ClaimTask(e)
    PROVE  AdmissionInv'
<1>1. PICK s : s = exec[e].sess
  OBVIOUS
<1>2. /\ exec[e].open /\ exec[e].status = "ACTIVE" /\ s # 0 /\ Claimable(e) /\ Usable(s)
      /\ task' = [task EXCEPT ![e].status = "RUNNING"] /\ sess' = [sess EXCEPT ![s].owned = TRUE]
      /\ UNCHANGED <<exec, browser, work, rel, spent>> /\ e \in Executions
  BY <1>1, SettingFacts DEF ClaimTask, AdmissionInv
<1>3. s \in Created /\ sess[s].exec = e
  BY <1>1, <1>2 DEF AdmissionInv, ExecFits, Mine
<1>4. /\ exec \in [Executions -> ExecRows] /\ exec[e] \in ExecRows
      /\ task \in [Executions -> TaskRows] /\ task[e] \in TaskRows
      /\ sess \in [SessionIds -> SessRows] /\ sess[s] \in SessRows /\ s \in SessionIds /\ Admitted(s)
  BY <1>2, <1>3, SessionFacts DEF AdmissionInv, RowTypes
<1>5. PICK q : q = [sess[s] EXCEPT !.owned = TRUE]
  OBVIOUS
<1>6. /\ q \in SessRows /\ q.owned = TRUE
      /\ q.status = sess[s].status /\ q.lapsed = sess[s].lapsed /\ q.quarantined = sess[s].quarantined
      /\ q.closing = sess[s].closing
      /\ q.exec = sess[s].exec /\ q.slot = sess[s].slot /\ q.permit = sess[s].permit
      /\ q.leases = sess[s].leases /\ q.closed = sess[s].closed /\ q.write = sess[s].write
  BY <1>4, <1>5 DEF SessRows
<1>7. PICK y : y = [task[e] EXCEPT !.status = "RUNNING"]
  OBVIOUS
<1>8. y \in TaskRows /\ y.status = "RUNNING" /\ y.closing = task[e].closing /\ y.stamp = task[e].stamp
  BY <1>4, <1>7 DEF TaskRows
<1>9. /\ sess' = [sess EXCEPT ![s] = q] /\ task' = [task EXCEPT ![e] = y]
      /\ exec' = [exec EXCEPT ![e] = exec[e]]
  BY <1>2, <1>4, <1>5, <1>7
<1>10. sess'[s] = q /\ task'[e] = y /\ exec'[e] = exec[e] /\ \A f \in Executions \ {e} : task'[f] = task[f]
  BY <1>2, <1>4, <1>9
<1>11. RowTypes'
  <2>1. sess' \in [SessionIds -> SessRows] /\ task' \in [Executions -> TaskRows]
    BY <1>4, <1>6, <1>8, <1>9
  <2> QED BY <1>2, <2>1 DEF AdmissionInv, RowTypes
<1>12. TaskFits(e)'
  <2>1. ~sess[s].closing
    BY <1>2, <1>3, <1>4 DEF Admitted, Usable
  <2> QED BY <1>1, <1>2, <1>6, <1>8, <1>10, <2>1 DEF TaskFits, Usable, Claimable
<1>13. Admitted(s)'
  BY <1>2, <1>3, <1>4, <1>6, <1>10 DEF Admitted
<1>14. RestKept
  <2>1. PICK x \in ExecRows : x = exec[e]
    BY <1>4
  <2>2. \A v \in Workers : work'[v] = work[v] /\ work[v].pc # "IDLE" =>
           /\ work[v].exec = e => Bears(v, e, x)
           /\ work[v].pc \in Holding /\ work[v].sess = s /\ q.status \in {"OPENING", "ACTIVE"}
              => q.status = sess[s].status
    BY <1>6, <2>1 DEF Bears
  <2>3. \A r \in Releasers : rel'[r] = rel[r] /\ rel[r].stamp # 0 =>
           /\ task'[rel[r].exec].closing = task[rel[r].exec].closing
           /\ task'[rel[r].exec].stamp = task[rel[r].exec].stamp
    BY <1>4, <1>8, <1>9
  <2>4. q.status # "NONE" /\ UNCHANGED <<browser, spent>>
    BY <1>2, <1>3, <1>6, SessionFacts
  <2>5. /\ exec' = [exec EXCEPT ![e] = x]
        /\ x.sess = s /\ x.restarts = exec[e].restarts /\ (x.open => exec[e].open)
        /\ (q.status = "CLOSED" <=> sess[s].status = "CLOSED")
        /\ (q.status \in {"OPENING", "ACTIVE"} => sess[s].status \in {"OPENING", "ACTIVE"})
    BY <1>1, <1>6, <1>9, <2>1
  <2> QED BY <1>1, <1>2, <1>3, <1>6, <1>9, <1>10, <1>11, <1>12, <1>13, <2>2, <2>3, <2>4, <2>5, BothMove
<1>15. WorkersApart' /\ ReleasesApart'
  BY <1>2 DEF AdmissionInv, WorkersApart, ReleasesApart
<1> QED BY <1>2, <1>14, <1>15 DEF AdmissionInv, RestKept

LEMMA TaskEndsStep ==
    ASSUME AdmissionInv, NEW e \in Runs, TaskEnds(e)
    PROVE  AdmissionInv'
<1>1. PICK s : s = exec[e].sess
  OBVIOUS
<1>2. /\ task[e].status = "RUNNING" /\ task' = [task EXCEPT ![e].status = "ENDED"]
      /\ exec' = [exec EXCEPT ![e].open = FALSE]
      /\ UNCHANGED <<browser, work, rel, spent>> /\ e \in Executions
  BY SettingFacts DEF TaskEnds, AdmissionInv
<1>3. s \in Created /\ sess[s].exec = e /\ ~sess[s].closed /\ sess[s].status = "ACTIVE"
  BY <1>1, <1>2, InUse
<1>4. /\ exec \in [Executions -> ExecRows] /\ exec[e] \in ExecRows
      /\ task \in [Executions -> TaskRows] /\ task[e] \in TaskRows
      /\ sess \in [SessionIds -> SessRows] /\ sess[s] \in SessRows /\ s \in SessionIds /\ Admitted(s)
  BY <1>2, <1>3, SessionFacts DEF AdmissionInv, RowTypes
<1>5. PICK write \in {"SETTLED", "UNKNOWN"}, lost \in BOOLEAN :
         sess' = [sess EXCEPT ![s].write = write, ![s].quarantined = sess[s].quarantined \/ lost]
  BY <1>1, <1>4 DEF TaskEnds, Outcomes
<1>6. PICK kind \in BOOLEAN : kind = (sess[s].quarantined \/ lost)
  OBVIOUS
<1>7. PICK q : q = [sess[s] EXCEPT !.write = write, !.quarantined = kind]
  OBVIOUS
<1>8. /\ q \in SessRows /\ q.status = sess[s].status /\ q.closing = sess[s].closing
      /\ q.exec = sess[s].exec /\ q.slot = sess[s].slot /\ q.permit = sess[s].permit
      /\ q.leases = sess[s].leases /\ q.closed = sess[s].closed
  BY <1>4, <1>7 DEF SessRows
<1>9. PICK y : y = [task[e] EXCEPT !.status = "ENDED"]
  OBVIOUS
<1>10. y \in TaskRows /\ y.status = "ENDED" /\ y.closing = task[e].closing /\ y.stamp = task[e].stamp
  BY <1>4, <1>9 DEF TaskRows
<1>11. PICK x : x = [exec[e] EXCEPT !.open = FALSE]
  OBVIOUS
<1>12. /\ x \in ExecRows /\ x.tok = exec[e].tok /\ x.sess = exec[e].sess /\ x.status = exec[e].status
       /\ x.restarts = exec[e].restarts /\ x.open = FALSE
  BY <1>4, <1>11 DEF ExecRows
<1>13. /\ sess' = [sess EXCEPT ![s] = q] /\ task' = [task EXCEPT ![e] = y]
       /\ exec' = [exec EXCEPT ![e] = x]
  BY <1>2, <1>4, <1>5, <1>6, <1>7, <1>9, <1>11
<1>14. sess'[s] = q /\ task'[e] = y /\ exec'[e] = x /\ \A f \in Executions \ {e} : task'[f] = task[f]
  BY <1>2, <1>4, <1>13
<1>15. RowTypes'
  <2>1. sess' \in [SessionIds -> SessRows] /\ task' \in [Executions -> TaskRows]
        /\ exec' \in [Executions -> ExecRows]
    BY <1>4, <1>8, <1>10, <1>12, <1>13
  <2> QED BY <1>2, <2>1 DEF AdmissionInv, RowTypes
<1>16. TaskFits(e)'
  BY <1>10, <1>14 DEF TaskFits
<1>17. Admitted(s)'
  BY <1>1, <1>3, <1>4, <1>8, <1>12, <1>14 DEF Admitted
<1>18. RestKept
  <2>1. \A v \in Workers : work'[v] = work[v] /\ work[v].pc # "IDLE" =>
           /\ work[v].exec = e => Bears(v, e, x)
           /\ work[v].pc \in Holding /\ work[v].sess = s /\ q.status \in {"OPENING", "ACTIVE"}
              => q.status = sess[s].status
    BY <1>8, <1>12 DEF Bears
  <2>2. \A r \in Releasers : rel'[r] = rel[r] /\ rel[r].stamp # 0 =>
           /\ task'[rel[r].exec].closing = task[rel[r].exec].closing
           /\ task'[rel[r].exec].stamp = task[rel[r].exec].stamp
    BY <1>4, <1>10, <1>13
  <2>3. /\ q.status # "NONE" /\ UNCHANGED <<browser, spent>>
        /\ x.sess = s /\ (x.open => exec[e].open) /\ (sess[s].closed => q.write = sess[s].write)
        /\ (q.status = "CLOSED" <=> sess[s].status = "CLOSED")
        /\ (q.status \in {"OPENING", "ACTIVE"} => sess[s].status \in {"OPENING", "ACTIVE"})
    BY <1>1, <1>2, <1>3, <1>8, <1>12
  <2> QED BY <1>1, <1>2, <1>3, <1>8, <1>12, <1>13, <1>14, <1>15, <1>16, <1>17, <2>1, <2>2, <2>3, BothMove
<1>19. WorkersApart' /\ ReleasesApart'
  BY <1>2 DEF AdmissionInv, WorkersApart, ReleasesApart
<1> QED BY <1>2, <1>18, <1>19 DEF AdmissionInv, RestKept

LEMMA ReserveStep ==
    ASSUME AdmissionInv, NEW p \in Releasers, NEW e \in Runs, Reserve(p, e)
    PROVE  AdmissionInv'
<1>1. PICK s : s = exec[e].sess
  OBVIOUS
<1>2. PICK n \in Nat \ {0} : n = NewStamp /\ \A r \in Releasers : rel[r].stamp # n
  BY StampIsNew DEF AdmissionInv
<1>3. /\ rel[p].pc = "IDLE" /\ exec[e].open /\ s # 0 /\ Unstarted(e) /\ ~Reserved(e) /\ Quarantine(s)
      /\ task' = [task EXCEPT ![e].closing = TRUE, ![e].stamp = n]
      /\ exec' = [exec EXCEPT ![e].status = "LOST", ![e].code = "LEASE_RECOVERY"]
      /\ rel' = [rel EXCEPT ![p] = [pc |-> "READ", exec |-> e, sess |-> s, tok |-> 0, stamp |-> n]]
      /\ UNCHANGED <<browser, work, spent>> /\ e \in Executions
  BY <1>1, <1>2, SettingFacts DEF Reserve, AdmissionInv
<1>4. s \in Created /\ sess[s].exec = e
  BY <1>1, <1>3 DEF AdmissionInv, ExecFits, Mine
<1>5. /\ exec \in [Executions -> ExecRows] /\ exec[e] \in ExecRows
      /\ task \in [Executions -> TaskRows] /\ task[e] \in TaskRows /\ rel \in [Releasers -> RelRows]
      /\ sess \in [SessionIds -> SessRows] /\ s \in SessionIds /\ SessionFits(s) /\ sess[s].status # "NONE"
  BY <1>3, <1>4, SessionFacts DEF AdmissionInv, RowTypes
<1>6. PICK q \in SessRows :
         /\ sess' = [sess EXCEPT ![s] = q]
         /\ Keeps(s, q) /\ q.status \notin {"NONE", "OPENING", "ACTIVE"}
         /\ q.status = sess[s].status \/ (q.status = "LOST" /\ ~sess[s].closed)
  BY <1>3, <1>4, QuarantineRow
<1>7. PICK x : x = [exec[e] EXCEPT !.status = "LOST", !.code = "LEASE_RECOVERY"]
  OBVIOUS
<1>8. /\ x \in ExecRows /\ x.tok = exec[e].tok /\ x.sess = exec[e].sess /\ x.status = "LOST"
      /\ x.restarts = exec[e].restarts /\ x.open = exec[e].open
  BY <1>5, <1>7 DEF ExecRows, Codes
<1>9. PICK y : y = [task[e] EXCEPT !.closing = TRUE, !.stamp = n]
  OBVIOUS
<1>10. y \in TaskRows /\ y.closing = TRUE /\ y.stamp = n /\ y.status = task[e].status
  BY <1>5, <1>9 DEF TaskRows
<1>11. PICK z : z = [pc |-> "READ", exec |-> e, sess |-> s, tok |-> 0, stamp |-> n]
  OBVIOUS
<1>12. z \in RelRows /\ z.pc = "READ" /\ z.exec = e /\ z.sess = s /\ z.stamp = n
  <2>1. s \in 0..MaxSessions
    BY <1>5, AdmissionParameters DEF SessionIds
  <2> QED BY <1>3, <1>11, <2>1 DEF RelRows
<1>13. /\ task' = [task EXCEPT ![e] = y] /\ exec' = [exec EXCEPT ![e] = x] /\ rel' = [rel EXCEPT ![p] = z]
  BY <1>3, <1>5, <1>7, <1>9, <1>11
<1>14. /\ sess'[s] = q /\ task'[e] = y /\ exec'[e] = x /\ \A f \in Executions \ {e} : task'[f] = task[f]
       /\ rel'[p] = z /\ \A r \in Releasers \ {p} : rel'[r] = rel[r]
  BY <1>3, <1>5, <1>6, <1>13
<1>15. RowTypes'
  <2>1. sess' \in [SessionIds -> SessRows] /\ task' \in [Executions -> TaskRows]
        /\ exec' \in [Executions -> ExecRows] /\ rel' \in [Releasers -> RelRows]
    BY <1>5, <1>6, <1>8, <1>10, <1>12, <1>13
  <2> QED BY <1>3, <2>1 DEF AdmissionInv, RowTypes
<1>16. TaskFits(e)'
  BY <1>3, <1>10, <1>14 DEF TaskFits, Unstarted
<1>17. Admitted(s)'
  BY <1>6, <1>14 DEF Admitted
<1>18. ASSUME NEW r \in Releasers, rel'[r] = rel[r], rel[r].stamp # 0
       PROVE  /\ task'[rel[r].exec].closing = task[rel[r].exec].closing
              /\ task'[rel[r].exec].stamp = task[rel[r].exec].stamp
  <2>1. ReleaseFits(r) /\ rel[r].exec \in Executions
    BY <1>18, IdleFits, ReleaseFacts DEF ReleaseFits
  <2>2. rel[r].exec # e
    BY <1>3, <1>18, <2>1 DEF ReleaseFits, Reserved
  <2> QED BY <1>14, <2>1, <2>2
<1>19. RestKept
  <2>1. \A v \in Workers : work'[v] = work[v] /\ work[v].pc # "IDLE" =>
           /\ work[v].exec = e => Bears(v, e, x)
           /\ work[v].pc \in Holding /\ work[v].sess = s /\ q.status \in {"OPENING", "ACTIVE"}
              => q.status = sess[s].status
    BY <1>6, <1>8 DEF Bears, Unowned
  <2>2. /\ UNCHANGED <<browser, spent>>
        /\ x.sess = s /\ (x.open => exec[e].open) /\ (sess[s].closed => q.write = sess[s].write)
        /\ q.exec = sess[s].exec /\ q.slot = sess[s].slot /\ q.permit = sess[s].permit
        /\ q.leases = sess[s].leases /\ q.closed = sess[s].closed /\ q.status # "NONE"
        /\ (q.status = "CLOSED" <=> sess[s].status = "CLOSED")
        /\ (q.status \in {"OPENING", "ACTIVE"} => sess[s].status \in {"OPENING", "ACTIVE"})
    BY <1>1, <1>3, <1>5, <1>6, <1>8 DEF Keeps, SessionFits
  <2>3. x.restarts = exec[e].restarts /\ s \in Created /\ s = exec[e].sess /\ e \in Executions
    BY <1>1, <1>3, <1>4, <1>8
  <2>4. \A f \in Executions \ {e} : task'[f] = task[f]
    BY <1>14
  <2>5. exec' = [exec EXCEPT ![e] = x] /\ sess' = [sess EXCEPT ![s] = q]
    BY <1>6, <1>13
  <2> QED BY <1>8, <1>15, <1>16, <1>17, <1>18, <2>1, <2>2, <2>3, <2>4, <2>5, BothMove
<1>20. ReleaseFits(p)'
  <2>1. Runs' = Runs /\ Mine(e)' = Mine(e) /\ s \in Mine(e)
    <3>1. Created' = Created /\ \A t \in Created : sess'[t].exec = sess[t].exec
      BY <1>5, <1>6, <1>14, <1>19 DEF RestKept, Keeps, Created
    <3> QED BY <1>3, <1>4, <3>1, SettingStays DEF Mine
  <2>2. /\ rel'[p].pc = "READ" /\ rel'[p].exec = e /\ rel'[p].sess = s /\ rel'[p].stamp = n /\ n # 0
        /\ task'[e].closing /\ task'[e].stamp = n /\ exec'[e].sess = s /\ s # 0
        /\ sess'[s].status \notin {"OPENING", "ACTIVE"}
    BY <1>1, <1>2, <1>3, <1>6, <1>8, <1>10, <1>12, <1>14
  <2> QED BY <2>1, <2>2 DEF ReleaseFits
<1>21. \A r \in Releasers : ReleaseFits(r)'
  BY <1>14, <1>19, <1>20 DEF RestKept
<1>22. ReleasesApart'
  BY <1>2, <1>12, <1>14 DEF AdmissionInv, ReleasesApart
<1>23. WorkersApart' /\ \A w \in Workers : WorkerFits(w)'
  BY <1>3, <1>19 DEF AdmissionInv, WorkersApart, RestKept
<1> QED BY <1>19, <1>21, <1>22, <1>23 DEF AdmissionInv, RestKept

LEMMA ActivateStep ==
    ASSUME AdmissionInv, NEW w \in Workers, Activate(w)
    PROVE  AdmissionInv'
<1>1. PICK s : s = work[w].sess
  OBVIOUS
<1>2. work[w].pc = "ACTIVATE" /\ UNCHANGED <<task, browser, rel, spent>>
  BY DEF Activate
<1>3. PICK e \in Executions : e = work[w].exec
  BY <1>2, WorkerFacts
<1>4. PICK activated \in BOOLEAN : activated =
         (sess[s].status = "OPENING" /\ ~sess[s].quarantined /\ ~sess[s].closed /\ ~sess[s].lapsed)
  OBVIOUS
<1>5. PICK bound \in BOOLEAN : bound =
         (/\ exec[e].sess = s /\ exec[e].tok = work[w].cur /\ exec[e].open
          /\ exec[e].status \in {"REQUESTED", "WAITING_CAPACITY", "ALLOCATING"})
  OBVIOUS
<1>6. CASE ~(activated /\ bound)
  <2>1. /\ Refuse(w, IF activated THEN "ADMISSION_STALE" ELSE "LEASE_RECOVERY")
        /\ UNCHANGED <<exec, sess>>
    BY <1>1, <1>3, <1>4, <1>5, <1>6 DEF Activate
  <2>2. PICK code \in Codes : Refuse(w, code) /\ code \notin Unavailable
    <3>1. CASE activated
      BY <2>1, <3>1 DEF Codes, Unavailable
    <3>2. CASE ~activated
      BY <2>1, <3>2 DEF Codes, Unavailable
    <3> QED BY <3>1, <3>2
  <2> QED BY <1>2, <2>1, <2>2, RefuseStep
<1>7. CASE activated /\ bound
  <2>1. /\ sess' = [sess EXCEPT ![s].status = "ACTIVE"]
        /\ exec' = [exec EXCEPT ![e].status = "ACTIVE", ![e].code = "NONE"]
        /\ work' = [work EXCEPT ![w] = NoWork]
    BY <1>1, <1>3, <1>4, <1>5, <1>7 DEF Activate, Ends
  <2>2. s \in Created /\ sess[s].exec = e /\ exec[e].sess = s /\ ~sess[s].closed /\ sess[s].status = "OPENING"
    <3>1. s \in Created
      BY <1>1, <1>2, WorkerFacts DEF Holding
    <3>2. s # 0
      BY <3>1, AdmissionParameters DEF Created, SessionIds
    <3>3. exec[e].sess = s /\ ~sess[s].closed /\ sess[s].status = "OPENING"
      BY <1>4, <1>5, <1>7
    <3>4. ExecFits(e)
      BY DEF AdmissionInv
    <3> QED BY <3>1, <3>2, <3>3, <3>4 DEF ExecFits, Mine
  <2>3. /\ exec \in [Executions -> ExecRows] /\ exec[e] \in ExecRows /\ work \in [Workers -> WorkRows]
        /\ task \in [Executions -> TaskRows] /\ task[e] \in TaskRows /\ exec[e].status \in Waiting
        /\ sess \in [SessionIds -> SessRows] /\ sess[s] \in SessRows /\ s \in SessionIds /\ Admitted(s)
    BY <1>5, <1>7, <2>2, SessionFacts DEF AdmissionInv, RowTypes, Waiting
  <2>4. PICK q : q = [sess[s] EXCEPT !.status = "ACTIVE"]
    OBVIOUS
  <2>5. /\ q \in SessRows /\ q.status = "ACTIVE" /\ q.closing = sess[s].closing
        /\ q.exec = sess[s].exec /\ q.slot = sess[s].slot /\ q.permit = sess[s].permit
        /\ q.leases = sess[s].leases /\ q.closed = sess[s].closed /\ q.write = sess[s].write
    BY <2>3, <2>4 DEF SessRows
  <2>6. PICK x : x = [exec[e] EXCEPT !.status = "ACTIVE", !.code = "NONE"]
    OBVIOUS
  <2>7. /\ x \in ExecRows /\ x.tok = exec[e].tok /\ x.sess = exec[e].sess /\ x.status = "ACTIVE"
        /\ x.restarts = exec[e].restarts /\ x.open = exec[e].open
    BY <2>3, <2>6 DEF ExecRows, Codes
  <2>8. /\ sess' = [sess EXCEPT ![s] = q] /\ exec' = [exec EXCEPT ![e] = x]
    BY <2>1, <2>3, <2>4, <2>6
  <2>9. /\ sess'[s] = q /\ exec'[e] = x /\ task' = task
        /\ work'[w] = NoWork /\ \A v \in Workers \ {w} : work'[v] = work[v]
    BY <1>2, <2>1, <2>3, <2>8
  <2>10. RowTypes'
    <3>1. sess' \in [SessionIds -> SessRows]
      BY <2>3, <2>5, <2>8
    <3>2. work' \in [Workers -> WorkRows]
      BY <2>1, <2>3, IdleFits
    <3>3. exec' \in [Executions -> ExecRows]
      BY <2>3, <2>7, <2>8
    <3> QED BY <1>2, <3>1, <3>2, <3>3 DEF AdmissionInv, RowTypes
  <2>11. TaskFits(e)'
    BY <2>3, <2>9, WaitingHasNone DEF TaskFits
  <2>12. Admitted(s)'
    BY <2>2, <2>3, <2>5, <2>7, <2>9 DEF Admitted, Waiting
  <2>13. ASSUME NEW v \in Workers, work'[v] = work[v], work[v].pc # "IDLE"
         PROVE  /\ work[v].exec = e => Bears(v, e, x)
                /\ work[v].pc \in Holding /\ work[v].sess = s /\ q.status \in {"OPENING", "ACTIVE"}
                   => q.status = sess[s].status
    <3>1. v # w
      BY <2>9, <2>13, IdleFits
    <3>2. ~(work[v].pc \in Holding /\ work[v].sess = s)
      BY <1>1, <1>2, <3>1 DEF AdmissionInv, WorkersApart, Holding
    <3> QED BY <2>7, <3>2 DEF Bears, Unowned
  <2>14. RestKept
    <3>1. /\ UNCHANGED <<browser, spent>> /\ q.status # "NONE"
          /\ x.sess = s /\ (x.open => exec[e].open) /\ (sess[s].closed => q.write = sess[s].write)
          /\ (q.status = "CLOSED" <=> sess[s].status = "CLOSED")
          /\ (q.status \in {"OPENING", "ACTIVE"} => sess[s].status \in {"OPENING", "ACTIVE"})
          /\ \A f \in Executions \ {e} : task'[f] = task[f]
      BY <1>2, <2>2, <2>5, <2>7
    <3>2. \A r \in Releasers : rel'[r] = rel[r] /\ rel[r].stamp # 0 =>
             /\ task'[rel[r].exec].closing = task[rel[r].exec].closing
             /\ task'[rel[r].exec].stamp = task[rel[r].exec].stamp
      BY <2>9
    <3>3. \A v \in Workers : work'[v] = work[v] /\ work[v].pc # "IDLE" =>
             /\ work[v].exec = e => Bears(v, e, x)
             /\ work[v].pc \in Holding /\ work[v].sess = s /\ q.status \in {"OPENING", "ACTIVE"}
                => q.status = sess[s].status
      BY <2>13
    <3>4. s = exec[e].sess /\ s \in Created /\ x.restarts = exec[e].restarts
      BY <2>2, <2>7
    <3> QED BY <2>5, <2>7, <2>8, <2>10, <2>11, <2>12, <3>1, <3>2, <3>3, <3>4, BothMove
  <2>15. \A v \in Workers : WorkerFits(v)'
    <3>1. WorkerFits(w)'
      BY <2>9, IdleFits DEF WorkerFits, Holding, Working
    <3> QED BY <2>9, <2>14, <3>1 DEF RestKept
  <2>16. WorkersApart'
    <3>1. \A v \in Workers : work[v].pc # "IDLE" => work[v].tok # 0
      BY WorkerFacts
    <3> QED BY <2>1, <3>1, IdleFits, WorkersKeptApart DEF AdmissionInv, Holding
  <2>17. ReleasesApart' /\ \A r \in Releasers : ReleaseFits(r)'
    BY <1>2, <2>14 DEF AdmissionInv, ReleasesApart, RestKept
  <2> QED BY <2>14, <2>15, <2>16, <2>17 DEF AdmissionInv, RestKept
<1> QED BY <1>6, <1>7

(* The first browser is given up: it is closed, and no agent ever had it. *)
LEMMA ReopenStep ==
    ASSUME AdmissionInv, NEW w \in Workers, Reopen(w)
    PROVE  AdmissionInv'
<1>1. PICK s : s = work[w].sess
  OBVIOUS
<1>2. work[w].pc = "REOPEN" /\ UNCHANGED <<task, sess, browser, rel, spent>>
  BY DEF Reopen
<1>3. PICK e \in Executions : e = work[w].exec
  BY <1>2, WorkerFacts
<1>4. /\ exec \in [Executions -> ExecRows] /\ exec[e] \in ExecRows
      /\ work \in [Workers -> WorkRows] /\ work[w] \in WorkRows /\ s \in Created /\ s \in SessionIds
      /\ WorkerFits(w) /\ ExecFits(e) /\ s # 0
  BY <1>1, <1>2, WorkerFacts, AdmissionParameters DEF AdmissionInv, RowTypes, SessionIds
<1>5. \/ Refuse(w, "LEASE_RECOVERY") /\ UNCHANGED exec
      \/ Refuse(w, "ADMISSION_STALE") /\ UNCHANGED exec
      \/ To(w, "FAIL") /\ UNCHANGED exec
      \/ /\ Reopenable(e) /\ ~Exhausted(e) /\ exec[e].sess = s /\ exec[e].tok = work[w].tok
         /\ ~sess[s].owned /\ sess[s].closed
         /\ exec' = [exec EXCEPT ![e].sess = 0, ![e].restarts = @ + 1] /\ To(w, "REREAD")
  BY <1>1, <1>3, Zenon DEF Reopen
<1>6. CASE Refuse(w, "LEASE_RECOVERY") /\ UNCHANGED exec
  BY <1>2, <1>6, RefuseStep DEF Codes, Unavailable
<1>7. CASE Refuse(w, "ADMISSION_STALE") /\ UNCHANGED exec
  BY <1>2, <1>7, RefuseStep DEF Codes, Unavailable
<1>8. CASE To(w, "FAIL") /\ UNCHANGED exec
  <2>1. PICK q \in WorkRows :
           /\ work' = [work EXCEPT ![w] = q] /\ work'[w] = q /\ q.pc = "FAIL" /\ q.tok = work[w].tok
           /\ q.cur = work[w].cur /\ q.exec = work[w].exec /\ q.sess = work[w].sess
    BY <1>8, ToRow DEF AdmissionInv
  <2>2. WorkerFits(w)'
    <3>1. Runs' = Runs
      BY <1>2, SettingStays
    <3> QED BY <1>2, <1>4, <2>1, <3>1 DEF WorkerFits, Holding, Working
  <2> QED BY <1>2, <1>8, <2>1, <2>2, WorkerFacts, WorkMoves DEF Holding
<1>9. CASE /\ Reopenable(e) /\ ~Exhausted(e) /\ exec[e].sess = s /\ exec[e].tok = work[w].tok
           /\ ~sess[s].owned /\ sess[s].closed
           /\ exec' = [exec EXCEPT ![e].sess = 0, ![e].restarts = @ + 1] /\ To(w, "REREAD")
  <2>1. exec[e].restarts = 0
    BY <1>4, <1>9 DEF Exhausted, ExecRows
  <2>2. PICK x : x = [exec[e] EXCEPT !.sess = 0, !.restarts = 1]
    OBVIOUS
  <2>3. /\ x \in ExecRows /\ x.sess = 0 /\ x.restarts = 1 /\ x.tok = exec[e].tok
        /\ x.open = exec[e].open /\ x.status = exec[e].status
    <3>1. 0 \in 0..MaxSessions
      BY SettingFacts DEF AdmissionInv
    <3> QED BY <1>4, <2>2, <3>1 DEF ExecRows
  <2>4. exec' = [exec EXCEPT ![e] = x]
    <3>1. exec[e].restarts + 1 = 1
      BY <2>1
    <3>2. exec' = [exec EXCEPT ![e].sess = 0, ![e].restarts = 1]
      BY <1>9, <3>1
    <3> QED BY <1>4, <2>2, <3>2
  <2>5. exec'[e] = x /\ \A f \in Executions \ {e} : exec'[f] = exec[f]
    BY <1>4, <2>4
  <2>6. PICK q \in WorkRows :
           /\ work' = [work EXCEPT ![w] = q] /\ work'[w] = q /\ q.pc = "REREAD" /\ q.tok = work[w].tok
           /\ q.cur = work[w].cur /\ q.exec = work[w].exec /\ q.sess = work[w].sess
    BY <1>9, ToRow DEF AdmissionInv, Working
  <2>7. \A v \in Workers \ {w} : work'[v] = work[v]
    BY <1>4, <2>6
  <2>8. RowTypes'
    BY <1>2, <1>4, <2>3, <2>4, <2>6 DEF AdmissionInv, RowTypes
  <2>9. Resources' /\ Created' = Created
    BY <1>2, ResourcesKept DEF AdmissionInv, SameHold
  <2>10. \A f \in Executions : Mine(f)' = Mine(f)
    BY <1>2, <2>9 DEF Mine
  <2>11. Mine(e) = {s} /\ sess[s].exec = e
    BY <1>4, <1>9, <2>1 DEF ExecFits, Mine
  <2>12. ASSUME NEW f \in Executions PROVE ExecFits(f)' /\ TaskFits(f)'
    <3>1. CASE f = e
      <4>1. ExecFits(e)'
        <5>1. /\ Mine(e)' = {s} /\ exec'[e].sess = 0 /\ exec'[e].restarts = 1
              /\ sess'[s].closed /\ ~sess'[s].owned
          BY <1>2, <1>9, <2>3, <2>5, <2>10, <2>11
        <5> QED BY <5>1 DEF ExecFits
      <4>2. TaskFits(e)'
        BY <1>2, <1>9 DEF TaskFits, Reopenable, Unstarted
      <4> QED BY <3>1, <4>1, <4>2
    <3>2. CASE f # e
      <4>1. ExecFits(f) /\ TaskFits(f) /\ exec'[f] = exec[f]
        BY <2>5, <3>2 DEF AdmissionInv
      <4>2. ExecFits(f)'
        BY <1>2, <2>10, <4>1 DEF ExecFits
      <4> QED BY <1>2, <4>1, <4>2, TaskKept
    <3> QED BY <3>1, <3>2
  <2>13. ASSUME NEW t \in Created PROVE Admitted(t)'
    <3>1. Admitted(t) /\ sess[t].exec \in Executions /\ SessionFits(t)
      BY SessionFacts
    <3>2. CASE t = s
      BY <1>2, <1>9, <3>1, <3>2 DEF Admitted, SessionFits
    <3>3. CASE t # s
      <4>1. sess[t].exec # e
        BY <2>11, <3>3 DEF Mine
      <4> QED BY <1>2, <2>5, <3>1, <4>1 DEF Admitted
    <3> QED BY <3>2, <3>3
  <2>14. ASSUME NEW v \in Workers PROVE WorkerFits(v)'
    <3>1. CASE v = w
      <4>1. Runs' = Runs
        BY <1>2, SettingStays
      <4> QED BY <1>2, <1>3, <1>4, <1>9, <2>3, <2>5, <2>6, <3>1, <4>1 DEF WorkerFits, Holding, Working
    <3>2. CASE v # w
      <4>1. WorkerFits(v) /\ work'[v] = work[v]
        BY <2>7, <3>2 DEF AdmissionInv
      <4>2. CASE work[v].pc = "IDLE"
        BY <4>1, <4>2 DEF WorkerFits, Working, Holding
      <4>3. CASE work[v].pc # "IDLE"
        <5>1. work[v].exec \in Executions
          BY <4>3, WorkerFacts
        <5>2. work[v].pc = "REREAD" => work[v].exec # e
          BY <1>4, <1>9, <4>1 DEF WorkerFits
        <5>3. /\ exec'[work[v].exec].open = exec[work[v].exec].open
              /\ exec'[work[v].exec].tok = exec[work[v].exec].tok
              /\ exec'[work[v].exec].status = exec[work[v].exec].status
              /\ work[v].pc = "REREAD" => exec'[work[v].exec].sess = exec[work[v].exec].sess
          BY <2>3, <2>5, <5>1, <5>2
        <5> QED BY <1>2, <2>9, <4>1, <5>3, WorkerKept
      <4> QED BY <4>2, <4>3
    <3> QED BY <3>1, <3>2
  <2>15. ASSUME NEW p \in Releasers PROVE ReleaseFits(p)'
    <3>1. ReleaseFits(p) /\ rel'[p] = rel[p]
      BY <1>2 DEF AdmissionInv
    <3>2. CASE rel[p].pc = "IDLE"
      BY <3>1, <3>2, IdleFits DEF ReleaseFits
    <3>3. CASE rel[p].pc # "IDLE"
      <4>1. rel[p].exec \in Executions
        BY <3>3, ReleaseFacts
      <4>2. rel[p].stamp # 0 => rel[p].exec # e
        BY <1>9, <3>1 DEF ReleaseFits, Reopenable
      <4>3. /\ exec'[rel[p].exec].open = exec[rel[p].exec].open
            /\ rel[p].stamp # 0 => exec'[rel[p].exec].sess = exec[rel[p].exec].sess
        BY <2>3, <2>5, <4>1, <4>2
      <4> QED BY <1>2, <2>9, <3>1, <4>3, ReleaseKept
    <3> QED BY <3>2, <3>3
  <2>16. WorkersApart'
    <3>1. q.pc \notin Holding /\ work[w].pc # "IDLE" /\ q.pc # "IDLE"
      BY <1>2, <2>6 DEF Holding
    <3>2. \A v \in Workers : work[v].pc # "IDLE" => work[v].tok # 0
      BY WorkerFacts
    <3> QED BY <2>6, <3>1, <3>2, WorkersKeptApart DEF AdmissionInv
  <2>17. ReleasesApart'
    BY <1>2 DEF AdmissionInv, ReleasesApart
  <2> QED BY <2>8, <2>9, <2>12, <2>13, <2>14, <2>15, <2>16, <2>17 DEF AdmissionInv
<1> QED BY <1>5, <1>6, <1>7, <1>8, <1>9

---------------------------------------------------------------------------
(* A session is created: what allocateSession has checked, it may take. *)
LEMMA NothingRefused ==
    ASSUME NEW e, NEW tok, Refusals(e, tok) = {}
    PROVE  /\ exec[e].sess = 0 /\ exec[e].tok = tok /\ exec[e].open /\ exec[e].status \in Waiting
           /\ Identity[e] # NoIdentity => FreePermits(Identity[e]) # {}
           /\ Blockers(e) = {} /\ ~(Cardinality(TakenSlots) >= Capacity)
<1> DEFINE stale == exec[e].sess # 0 \/ exec[e].tok # tok \/ ~exec[e].open
                    \/ exec[e].status \notin {"REQUESTED", "WAITING_CAPACITY", "ALLOCATING"}
           full == Identity[e] # NoIdentity
                   /\ (FreePermits(Identity[e]) = {} \/ Cardinality(Holders(Identity[e])) >= Permits)
           codes == {IF sess[s].quarantined THEN "LEASE_RECOVERY" ELSE "DATA_LOCK" : s \in Blockers(e)}
<1>1. ~stale
  BY DEF Refusals
<1>2. ~full
  BY <1>1 DEF Refusals
<1>3. Blockers(e) = {}
  <2>1. CASE Blockers(e) # {}
    <3>1. Refusals(e, tok) = codes
      BY <1>1, <1>2, <2>1 DEF Refusals
    <3>2. codes # {}
      BY <2>1
    <3> QED BY <3>1, <3>2
  <2> QED BY <2>1
<1>4. ~(Cardinality(TakenSlots) >= Capacity)
  BY <1>1, <1>2, <1>3 DEF Refusals
<1> QED BY <1>1, <1>2, <1>3, <1>4 DEF Waiting

(* The sessions there are have the numbers up to some n. *)
LEMMA NextSession ==
    ASSUME AdmissionInv
    PROVE  \E n \in 0..MaxSessions :
              /\ Created = 1..n /\ IsFiniteSet(Created) /\ Cardinality(Created) = n /\ (n + 1) \notin Created
<1>1. PICK n \in 0..MaxSessions : Created = 1..n
  BY DEF AdmissionInv, Resources, Numbered
<1>2. n \in Nat
  BY SettingFacts DEF AdmissionInv
<1>3. IsFiniteSet(1..n) /\ Cardinality(1..n) = n
  BY <1>2, FS_Interval
<1> QED BY <1>1, <1>2, <1>3

LEMMA FreeSlot ==
    ASSUME AdmissionInv, ~(Cardinality(TakenSlots) >= Capacity)
    PROVE  Min((1..Capacity) \ TakenSlots) \in (1..Capacity) \ TakenSlots
<1> DEFINE f == [s \in Created |-> sess[s].slot]  T == {f[s] : s \in Created}
<1>1. IsFiniteSet(Created) /\ DOMAIN f = Created /\ T = {sess[s].slot : s \in Created}
  BY NextSession
<1> HIDE DEF f
<1>2. IsFiniteSet(T)
  BY <1>1, ImageIsSmall
<1>3. TakenSlots \subseteq T
  BY <1>1 DEF TakenSlots
<1>4. IsFiniteSet(TakenSlots)
  BY <1>2, <1>3, FS_Subset
<1>5. Cardinality(TakenSlots) \in Nat /\ Capacity \in Nat
  BY <1>4, FS_CardinalityType, SettingFacts DEF AdmissionInv
<1>6. Cardinality(TakenSlots) < Capacity
  BY <1>5
<1> QED BY <1>4, <1>5, <1>6, SomeAreLeft

LEMMA FreePermit ==
    ASSUME NEW i, FreePermits(i) # {}
    PROVE  Min(FreePermits(i)) \in FreePermits(i)
<1>1. FreePermits(i) \in SUBSET Nat
  BY DEF FreePermits
<1> QED BY <1>1, LeastIsOne

(* The session that allocateSession creates. *)
Fresh(e, s, q) ==
    /\ q.exec = e /\ q.status = "OPENING" /\ q.leases = Claims[e] /\ ~q.owned /\ ~q.closed /\ ~q.closing
    /\ q.write = "NONE" /\ q.slot \in (1..Capacity) \ TakenSlots
    /\ Identity[e] # NoIdentity => q.permit \in FreePermits(Identity[e])

LEMMA ResourcesTaken ==
    ASSUME AdmissionInv, UNCHANGED <<browser, spent>>, NEW e \in Runs, Blockers(e) = {},
           NEW n \in 0..MaxSessions, Created = 1..n, NEW s \in SessionIds, s = n + 1,
           NEW q \in SessRows, sess' = [sess EXCEPT ![s] = q], Fresh(e, s, q)
    PROVE  Resources' /\ Created' = Created \cup {s}
<1>1. sess \in [SessionIds -> SessRows] /\ n \in Nat /\ Created \subseteq SessionIds /\ s \notin Created
      /\ \A t \in Created : t < s
  BY SessionFacts, SettingFacts DEF AdmissionInv
<1>2. sess'[s] = q /\ \A t \in SessionIds \ {s} : sess'[t] = sess[t]
  BY <1>1
<1>3. Created' = Created \cup {s}
  BY <1>1, <1>2 DEF Created, Fresh
<1>4. browser[s] = "NONE"
  BY <1>1 DEF AdmissionInv, Resources, Numbered
<1>5. Numbered'
  <2>1. Created \cup {s} = 1..(n + 1) /\ n + 1 \in 0..MaxSessions
    BY <1>1, AdmissionParameters DEF SessionIds
  <2>2. \A t \in SessionIds \ (Created \cup {s}) : sess'[t] = NoSession /\ browser'[t] = "NONE"
    BY <1>2 DEF AdmissionInv, Resources, Numbered
  <2>3. \E m \in 0..MaxSessions : Created' = 1..m
    BY <1>3, <2>1
  <2> QED BY <1>3, <2>2, <2>3 DEF Numbered
<1>6. ASSUME NEW t \in Created' PROVE SessionFits(t)'
  <2>1. CASE t = s
    <3>1. ~sess'[t].closed /\ sess'[t].status = "OPENING" /\ sess'[t].exec = e /\ browser'[t] = "NONE"
          /\ sess'[t].slot \in 1..Capacity /\ sess'[t].leases = Claims[e]
          /\ (Identity[e] # NoIdentity => sess'[t].permit \in 1..Permits)
      BY <1>2, <1>4, <2>1 DEF Fresh, FreePermits
    <3>2. sess'[t].slot # 0
      BY <3>1, SettingFacts DEF AdmissionInv
    <3> QED BY <3>1, <3>2, SettingStays DEF SessionFits
  <2>2. CASE t # s
    <3>1. t \in Created /\ sess'[t] = sess[t] /\ SessionFits(t)
      BY <1>1, <1>2, <1>3, <2>2 DEF AdmissionInv, Resources
    <3> QED BY <3>1, SettingStays DEF SessionFits, Guarded
  <2> QED BY <2>1, <2>2
<1>7. Apart'
  <2> SUFFICES ASSUME NEW u \in Created', NEW t \in Created', u < t, ~sess'[t].closed
               PROVE  /\ ~AnyConflict(Claims[sess[t].exec], sess[u].leases)'
                      /\ ~sess'[u].closed =>
                            /\ sess'[u].slot # sess'[t].slot
                            /\ Identity'[sess'[u].exec] = Identity'[sess'[t].exec]
                               /\ Identity'[sess'[t].exec] # NoIdentity
                               => sess'[u].permit # sess'[t].permit
    BY DEF Apart
  <2>1. u \in Created /\ sess'[u] = sess[u]
    <3>1. u # s
      BY <1>1, <1>3
    <3> QED BY <1>1, <1>2, <1>3, <3>1
  <2>2. CASE t = s
    <3>1. ~AnyConflict(Claims[e], sess[u].leases)
      BY <2>1 DEF Blockers
    <3>2. ~AnyConflict(Claims[sess[t].exec], sess[u].leases)'
      BY <1>2, <2>1, <2>2, <3>1, SettingStays DEF AnyConflict, Fresh
    <3>3. sess'[t].slot \notin TakenSlots /\ sess'[t].slot \in 1..Capacity /\ sess'[t].exec = e
      BY <1>2, <2>2 DEF Fresh
    <3>4. ~sess[u].closed => sess[u].slot # sess'[t].slot
      BY <2>1, <3>3 DEF TakenSlots
    <3>5. ~sess[u].closed /\ Identity[sess[u].exec] = Identity[e] /\ Identity[e] # NoIdentity
          => sess[u].permit # sess'[t].permit
      BY <1>2, <2>1, <2>2 DEF Fresh, FreePermits, Holders
    <3> QED BY <2>1, <3>2, <3>3, <3>4, <3>5, SettingStays
  <2>3. CASE t # s
    <3>1. t \in Created /\ sess'[t] = sess[t]
      BY <1>1, <1>2, <1>3, <2>3
    <3>2. /\ ~AnyConflict(Claims[sess[t].exec], sess[u].leases)
          /\ ~sess[u].closed =>
                /\ sess[u].slot # sess[t].slot
                /\ Identity[sess[u].exec] = Identity[sess[t].exec] /\ Identity[sess[t].exec] # NoIdentity
                   => sess[u].permit # sess[t].permit
      BY <2>1, <3>1 DEF AdmissionInv, Resources, Apart
    <3>3. ~AnyConflict(Claims[sess[t].exec], sess[u].leases)'
      BY <2>1, <3>1, <3>2, SettingStays DEF AnyConflict
    <3> QED BY <2>1, <3>1, <3>2, <3>3, SettingStays
  <2> QED BY <2>2, <2>3
<1> QED BY <1>3, <1>5, <1>6, <1>7 DEF Resources

(* The row that Allocate writes. *)
LEMMA FreshRow ==
    ASSUME AdmissionInv, NEW w \in Workers, Allocate(w)
    PROVE  \E n \in 0..MaxSessions : \E s \in SessionIds : \E q \in SessRows :
              /\ Created = 1..n /\ s = n + 1 /\ s \notin Created /\ Fresh(work[w].exec, s, q)
              /\ sess' = [sess EXCEPT ![s] = q] /\ exec' = [exec EXCEPT ![work[w].exec].sess = s]
              /\ work' = [work EXCEPT ![w].pc = "OPEN", ![w].sess = s]
<1> DEFINE e == work[w].exec
<1>1. work[w].pc = "ALLOCATE" /\ Refusals(e, work[w].cur) = {}
  BY DEF Allocate
<1>2. e \in Runs /\ e \in Executions
  BY <1>1, WorkerFacts
<1>3. /\ Identity[e] # NoIdentity => FreePermits(Identity[e]) # {}
      /\ ~(Cardinality(TakenSlots) >= Capacity)
  BY <1>1, NothingRefused
<1>4. PICK n \in 0..MaxSessions : Created = 1..n /\ Cardinality(Created) = n /\ (n + 1) \notin Created
  BY NextSession
<1>5. PICK s : s = n + 1
  OBVIOUS
<1>6. PICK slot : slot = Min((1..Capacity) \ TakenSlots)
  OBVIOUS
<1>7. PICK permit : permit = IF Identity[e] = NoIdentity THEN 0 ELSE Min(FreePermits(Identity[e]))
  OBVIOUS
<1>8. slot \in (1..Capacity) \ TakenSlots /\ slot \in Nat
  <2>1. slot \in (1..Capacity) \ TakenSlots
    BY <1>3, <1>6, FreeSlot
  <2> QED BY <2>1
<1>9. permit \in Nat /\ (Identity[e] # NoIdentity => permit \in FreePermits(Identity[e]))
  <2>1. CASE Identity[e] = NoIdentity
    BY <1>7, <2>1
  <2>2. CASE Identity[e] # NoIdentity
    <3>1. permit \in FreePermits(Identity[e])
      BY <1>3, <1>7, <2>2, FreePermit
    <3> QED BY <3>1 DEF FreePermits
  <2> QED BY <2>1, <2>2
<1>10. PICK q : q = [NoSession EXCEPT !.exec = e, !.status = "OPENING", !.leases = Claims[e],
                                     !.slot = slot, !.permit = permit]
  OBVIOUS
<1>11. Claims[e] \in SUBSET Scopes
  BY <1>2, SettingFacts DEF AdmissionInv
<1>12. q = [exec |-> e, slot |-> slot, permit |-> permit, leases |-> Claims[e], status |-> "OPENING",
            quarantined |-> FALSE, lapsed |-> FALSE, owned |-> FALSE, closed |-> FALSE,
            closing |-> FALSE, write |-> "NONE"]
  BY <1>10 DEF NoSession
<1>13. q \in SessRows
  BY <1>2, <1>8, <1>9, <1>11, <1>12 DEF SessRows
<1>14. Fresh(e, s, q)
  BY <1>8, <1>9, <1>12 DEF Fresh
<1>15. /\ s <= Setting.sessions
       /\ sess' = [sess EXCEPT ![s] = q] /\ exec' = [exec EXCEPT ![e].sess = s]
       /\ work' = [work EXCEPT ![w].pc = "OPEN", ![w].sess = s]
  BY <1>4, <1>5, <1>6, <1>7, <1>10 DEF Allocate
<1>16. s \in SessionIds
  BY <1>5, <1>15, SettingFacts DEF AdmissionInv, SessionIds
<1> QED BY <1>4, <1>5, <1>13, <1>14, <1>15, <1>16

LEMMA AllocateStep ==
    ASSUME AdmissionInv, NEW w \in Workers, Allocate(w)
    PROVE  AdmissionInv'
<1>1. work[w].pc = "ALLOCATE" /\ UNCHANGED <<task, browser, rel, spent>>
  BY DEF Allocate
<1>2. PICK e \in Executions : e = work[w].exec
  BY <1>1, WorkerFacts
<1>3. PICK n \in 0..MaxSessions, s \in SessionIds, q \in SessRows :
              /\ Created = 1..n /\ s = n + 1 /\ s \notin Created /\ Fresh(e, s, q)
              /\ sess' = [sess EXCEPT ![s] = q] /\ exec' = [exec EXCEPT ![e].sess = s]
              /\ work' = [work EXCEPT ![w].pc = "OPEN", ![w].sess = s]
  <2>1. \E n \in 0..MaxSessions : \E s \in SessionIds : \E q \in SessRows :
              /\ Created = 1..n /\ s = n + 1 /\ s \notin Created /\ Fresh(work[w].exec, s, q)
              /\ sess' = [sess EXCEPT ![s] = q] /\ exec' = [exec EXCEPT ![work[w].exec].sess = s]
              /\ work' = [work EXCEPT ![w].pc = "OPEN", ![w].sess = s]
    BY FreshRow
  <2> QED BY <1>2, <2>1, Zenon
<1>4. /\ exec[e].sess = 0 /\ exec[e].tok = work[w].cur /\ exec[e].open /\ exec[e].status \in Waiting
      /\ Blockers(e) = {}
  BY <1>1, <1>2, NothingRefused DEF Allocate
<1>5. /\ exec \in [Executions -> ExecRows] /\ exec[e] \in ExecRows
      /\ work \in [Workers -> WorkRows] /\ work[w] \in WorkRows
      /\ sess \in [SessionIds -> SessRows] /\ Created \subseteq SessionIds
      /\ WorkerFits(w) /\ ExecFits(e) /\ e \in Runs /\ s \in 0..MaxSessions /\ s # 0
  <2>1. s \in 0..MaxSessions /\ s # 0
    BY <1>3, AdmissionParameters DEF SessionIds
  <2>2. e \in Runs /\ WorkerFits(w) /\ work \in [Workers -> WorkRows] /\ work[w] \in WorkRows
    BY <1>1, <1>2, WorkerFacts
  <2> QED BY <1>2, <2>1, <2>2, SessionFacts DEF AdmissionInv, RowTypes
<1>6. work[w].cur = work[w].tok /\ work[w].tok # 0
  BY <1>1, <1>2, <1>4, <1>5 DEF WorkerFits
<1>7. PICK x : x = [exec[e] EXCEPT !.sess = s]
  OBVIOUS
<1>8. /\ x \in ExecRows /\ x.sess = s /\ x.tok = exec[e].tok /\ x.restarts = exec[e].restarts
      /\ x.open = exec[e].open /\ x.status = exec[e].status
  BY <1>5, <1>7 DEF ExecRows
<1>9. PICK z : z = [work[w] EXCEPT !.pc = "OPEN", !.sess = s]
  OBVIOUS
<1>10. /\ z \in WorkRows /\ z.pc = "OPEN" /\ z.sess = s /\ z.tok = work[w].tok /\ z.cur = work[w].cur
       /\ z.exec = e
  BY <1>2, <1>5, <1>9 DEF WorkRows, Working, Holding
<1>11. exec' = [exec EXCEPT ![e] = x] /\ work' = [work EXCEPT ![w] = z]
  BY <1>3, <1>5, <1>7, <1>9
<1>12. /\ exec'[e] = x /\ work'[w] = z /\ sess'[s] = q
       /\ \A f \in Executions \ {e} : exec'[f] = exec[f]
       /\ \A v \in Workers \ {w} : work'[v] = work[v]
       /\ \A t \in SessionIds \ {s} : sess'[t] = sess[t]
  BY <1>3, <1>5, <1>11
<1>13. RowTypes'
  <2>1. sess' \in [SessionIds -> SessRows]
    BY <1>3, <1>5
  <2>2. work' \in [Workers -> WorkRows]
    BY <1>5, <1>10, <1>11
  <2>3. exec' \in [Executions -> ExecRows]
    BY <1>5, <1>8, <1>11
  <2> QED BY <1>1, <2>1, <2>2, <2>3 DEF AdmissionInv, RowTypes
<1>14. Resources' /\ Created' = Created \cup {s}
  BY <1>1, <1>3, <1>4, <1>5, ResourcesTaken
<1>15. Runs' = Runs
  BY <1>1, SettingStays
<1>16. \A t \in Created : t # s /\ t \in SessionIds /\ sess'[t] = sess[t] /\ t < s
  BY <1>3, <1>5, <1>12, SettingFacts DEF AdmissionInv
<1>17. Mine(e)' = Mine(e) \cup {s} /\ \A f \in Executions \ {e} : Mine(f)' = Mine(f)
  BY <1>3, <1>12, <1>14, <1>16 DEF Mine, Fresh
<1>18. ASSUME NEW f \in Executions PROVE ExecFits(f)' /\ TaskFits(f)'
  <2>1. CASE f = e
    <3>1. \A t \in Mine(e) :
             sess[t].closed /\ ~sess[t].owned /\ exec[e].restarts = 1 /\ t \in Created /\ \A u \in Mine(e) : t = u
      BY <1>4, <1>5, <1>16, SettingFacts DEF ExecFits, Mine, AdmissionInv, SessionIds
    <3>2. ExecFits(e)'
      BY <1>8, <1>12, <1>16, <1>17, <3>1 DEF ExecFits
    <3>3. TaskFits(e)'
      BY <1>1, <1>4, WaitingHasNone DEF TaskFits
    <3> QED BY <2>1, <3>2, <3>3
  <2>2. CASE f # e
    <3>1. ExecFits(f) /\ TaskFits(f) /\ exec'[f] = exec[f]
      BY <1>12, <2>2 DEF AdmissionInv
    <3>2. Mine(f)' = Mine(f) /\ \A t \in Mine(f) : sess'[t] = sess[t]
      BY <1>16, <1>17, <2>2 DEF Mine
    <3>3. ExecFits(f)'
      BY <3>1, <3>2 DEF ExecFits
    <3>4. task[f].status = "RUNNING" => sess'[exec[f].sess] = sess[exec[f].sess]
      BY <1>16, InUse
    <3> QED BY <1>1, <3>1, <3>3, <3>4, TaskKept
  <2> QED BY <2>1, <2>2
<1>19. ASSUME NEW t \in Created' PROVE Admitted(t)'
  <2>1. CASE t = s
    BY <1>3, <1>12, <2>1 DEF Admitted, Fresh
  <2>2. CASE t # s
    <3>1. t \in Created /\ sess'[t] = sess[t]
      BY <1>14, <1>16, <2>2
    <3>2. Admitted(t) /\ sess[t].exec \in Executions /\ SessionFits(t)
      BY <3>1, SessionFacts
    <3>3. CASE sess[t].exec = e
      <4>1. sess[t].closed
        BY <1>4, <1>5, <3>1, <3>3, AdmissionParameters DEF ExecFits, Mine, Created, SessionIds
      <4> QED BY <3>1, <3>2, <4>1 DEF Admitted, SessionFits
    <3>4. CASE sess[t].exec # e
      BY <1>12, <3>1, <3>2, <3>4 DEF Admitted
    <3> QED BY <3>3, <3>4
  <2> QED BY <2>1, <2>2
<1>20. ASSUME NEW v \in Workers PROVE WorkerFits(v)'
  <2>1. CASE v = w
    <3>1. /\ work'[v].pc = "OPEN" /\ work'[v].exec = e /\ work'[v].sess = s /\ work'[v].tok = work[w].tok
          /\ work'[v].cur = work[w].tok /\ s \in Created' /\ sess'[s].status = "OPENING"
          /\ exec'[e].tok = work[w].tok /\ exec'[e].status \notin Unowned
      <4>1. exec[e].status \notin Unowned
        BY <1>1, <1>2, <1>4, <1>5, <1>6 DEF WorkerFits, Working, Unowned
      <4> QED BY <1>3, <1>4, <1>6, <1>8, <1>10, <1>12, <1>14, <2>1, <4>1 DEF Fresh
    <3> QED BY <1>5, <1>6, <1>15, <3>1 DEF WorkerFits, Holding, Working, Unowned
  <2>2. CASE v # w
    <3>1. WorkerFits(v) /\ work'[v] = work[v]
      BY <1>12, <2>2 DEF AdmissionInv
    <3>2. CASE work[v].pc = "IDLE"
      BY <3>1, <3>2 DEF WorkerFits, Working, Holding
    <3>3. CASE work[v].pc # "IDLE"
      <4>1. work[v].exec \in Executions /\ (work[v].pc \in Holding => work[v].sess \in Created)
        BY <3>3, WorkerFacts
      <4>2. work[v].tok # work[w].tok
        BY <1>1, <2>2, <3>3, SoleOwner
      <4>3. work[v].pc = "REREAD" => work[v].exec # e
        BY <1>4, <1>6, <3>1, <4>2 DEF WorkerFits
      <4>4. /\ exec'[work[v].exec].open = exec[work[v].exec].open
            /\ exec'[work[v].exec].tok = exec[work[v].exec].tok
            /\ exec'[work[v].exec].status = exec[work[v].exec].status
            /\ work[v].pc = "REREAD" => exec'[work[v].exec].sess = exec[work[v].exec].sess
        BY <1>8, <1>12, <4>1, <4>3
      <4>5. work[v].pc \in Holding => sess'[work[v].sess] = sess[work[v].sess]
        BY <1>16, <4>1
      <4>6. Created \subseteq Created' /\ spent' = spent
        BY <1>1, <1>14
      <4> QED BY <3>1, <4>4, <4>5, <4>6, WorkerKept
    <3> QED BY <3>2, <3>3
  <2> QED BY <2>1, <2>2
<1>21. ASSUME NEW p \in Releasers PROVE ReleaseFits(p)'
  <2>1. ReleaseFits(p) /\ rel'[p] = rel[p]
    BY <1>1 DEF AdmissionInv
  <2>2. CASE rel[p].pc = "IDLE"
    BY <2>1, <2>2, IdleFits DEF ReleaseFits
  <2>3. CASE rel[p].pc # "IDLE"
    <3>1. rel[p].exec \in Executions
      BY <2>3, ReleaseFacts
    <3>2. rel[p].stamp # 0 => rel[p].exec # e
      BY <1>4, <2>1 DEF ReleaseFits
    <3>3. /\ exec'[rel[p].exec].open = exec[rel[p].exec].open
          /\ rel[p].stamp # 0 => exec'[rel[p].exec].sess = exec[rel[p].exec].sess
      BY <1>8, <1>12, <3>1, <3>2
    <3>4. Created \subseteq Created' /\ spent' = spent /\ task' = task
      BY <1>1, <1>14
    <3> QED BY <1>16, <2>1, <3>3, <3>4, ReleaseKept
  <2> QED BY <2>2, <2>3
<1>22. WorkersApart'
  <2>1. \A v \in Workers \ {w} : work[v].pc \in Holding => work[v].sess # s
    BY <1>16, WorkerFacts
  <2>2. work[w].pc # "IDLE" /\ "OPEN" \in Holding /\ z.pc # "IDLE"
    BY <1>1, <1>10 DEF Holding
  <2>3. \A u, v \in Workers : u # v /\ work[u].pc # "IDLE" => work[u].tok # work[v].tok
    BY DEF AdmissionInv, WorkersApart
  <2>4. \A v \in Workers : work'[v].tok = work[v].tok /\ (work'[v].pc # "IDLE" => work[v].pc # "IDLE")
    BY <1>10, <1>12, <2>2
  <2>5. ASSUME NEW u \in Workers, NEW v \in Workers, u # v, work'[u].pc \in Holding, work'[v].pc \in Holding
        PROVE  work'[u].sess # work'[v].sess
    <3>1. CASE u = w
      BY <1>10, <1>12, <2>1, <2>5, <3>1
    <3>2. CASE v = w
      BY <1>10, <1>12, <2>1, <2>5, <3>2
    <3>3. CASE u # w /\ v # w
      BY <1>12, <2>5, <3>3 DEF AdmissionInv, WorkersApart
    <3> QED BY <3>1, <3>2, <3>3
  <2> QED BY <2>3, <2>4, <2>5 DEF WorkersApart
<1>23. ReleasesApart'
  BY <1>1 DEF AdmissionInv, ReleasesApart
<1> QED BY <1>13, <1>14, <1>18, <1>19, <1>20, <1>21, <1>22, <1>23 DEF AdmissionInv

---------------------------------------------------------------------------
LEMMA AdmissionInvInit ==
    ASSUME Init
    PROVE  AdmissionInv
<1>1. /\ exec = [e \in Executions |->
            [status |-> "REQUESTED", tok |-> 0, sess |-> 0, restarts |-> 0, code |-> "NONE", open |-> e \in Runs]]
      /\ task = [e \in Executions |-> [status |-> "PENDING", closing |-> FALSE, stamp |-> 0]]
      /\ sess = [s \in SessionIds |-> NoSession] /\ browser = [s \in SessionIds |-> "NONE"]
      /\ work = [w \in Workers |-> NoWork] /\ rel = [r \in Releasers |-> NoRelease]
  BY DEF Init
<1>2. 0 \in 0..MaxSessions
  BY AdmissionParameters
<1>3. NoSession \in SessRows
  BY DEF NoSession, SessRows
<1>4. RowTypes
  <2>1. exec \in [Executions -> ExecRows]
    <3>1. ASSUME NEW e \in Executions
          PROVE  [status |-> "REQUESTED", tok |-> 0, sess |-> 0, restarts |-> 0, code |-> "NONE",
                  open |-> e \in Runs] \in ExecRows
      <4>1. (e \in Runs) \in BOOLEAN
        OBVIOUS
      <4> QED BY <1>2, <4>1 DEF ExecRows, Waiting, Codes
    <3> QED BY <1>1, <3>1
  <2>2. task \in [Executions -> TaskRows]
    BY <1>1 DEF TaskRows
  <2>3. sess \in [SessionIds -> SessRows] /\ work \in [Workers -> WorkRows] /\ rel \in [Releasers -> RelRows]
    BY <1>1, <1>3, IdleFits
  <2>4. spent \in [lapses : Nat, crashes : Nat, setting : DOMAIN Settings]
    <3>1. PICK n \in DOMAIN Settings : spent = [lapses |-> 0, crashes |-> 0, setting |-> n]
      BY DEF Init
    <3> QED BY <3>1
  <2> QED BY <1>1, <2>1, <2>2, <2>3, <2>4 DEF RowTypes
<1>5. Created = {}
  BY <1>1 DEF Created, NoSession
<1>6. Resources
  <2>1. 1..0 = {}
    OBVIOUS
  <2> QED BY <1>1, <1>2, <1>5, <2>1 DEF Resources, Numbered, Apart
<1>7. \A e \in Executions : ExecFits(e) /\ TaskFits(e)
  <2>1. \A e \in Executions : Mine(e) = {} /\ exec[e].sess = 0 /\ task[e].status = "PENDING"
    BY <1>1, <1>5 DEF Mine
  <2> QED BY <2>1 DEF ExecFits, TaskFits
<1>8. \A w \in Workers : WorkerFits(w)
  BY <1>1, IdleFits DEF WorkerFits, Holding, Working
<1>9. \A r \in Releasers : ReleaseFits(r)
  BY <1>1, IdleFits DEF ReleaseFits
<1>10. WorkersApart /\ ReleasesApart
  BY <1>1, IdleFits DEF WorkersApart, ReleasesApart, Holding
<1> QED BY <1>4, <1>5, <1>6, <1>7, <1>8, <1>9, <1>10 DEF AdmissionInv

LEMMA AdmissionStays ==
    ASSUME AdmissionInv, UNCHANGED vars
    PROVE  AdmissionInv'
<1>1. UNCHANGED <<exec, task, sess, browser, work, rel, spent>>
  BY DEF vars
<1>2. RowTypes'
  BY <1>1 DEF AdmissionInv, RowTypes
<1>3. RestKept
  BY <1>1, <1>2, SessionMoves DEF SameHold
<1>4. WorkersApart' /\ ReleasesApart'
  BY <1>1 DEF AdmissionInv, WorkersApart, ReleasesApart
<1> QED BY <1>1, <1>3, <1>4 DEF AdmissionInv, RestKept

LEMMA AdmitStep ==
    ASSUME AdmissionInv, NEW w \in Workers, Admit(w)
    PROVE  AdmissionInv'
<1>1. CASE Acquire(w)
  BY <1>1, AcquireStep
<1>2. CASE Reopen(w)
  BY <1>2, ReopenStep
<1>3. CASE Reread(w)
  BY <1>3, RereadStep
<1>4. CASE AllocateRefused(w)
  BY <1>4, AllocateRefusedStep
<1>5. CASE Allocate(w)
  BY <1>5, AllocateStep
<1>6. CASE SendOpen(w)
  BY <1>6, SendOpenStep
<1>7. CASE OpenAnswered(w)
  BY <1>7, OpenAnsweredStep
<1>8. CASE Activate(w)
  BY <1>8, ActivateStep
<1>9. CASE FailOpen(w)
  BY <1>9, FailOpenStep
<1>10. CASE CloseOpened(w)
  BY <1>10, CloseOpenedStep
<1>11. CASE Wait(w)
  BY <1>11, WaitStep
<1>12. CASE Defer(w)
  BY <1>12, DeferStep
<1>13. CASE Fail(w)
  BY <1>13, FailStep
<1> QED BY <1>1, <1>2, <1>3, <1>4, <1>5, <1>6, <1>7, <1>8, <1>9, <1>10, <1>11, <1>12, <1>13 DEF Admit

LEMMA ReleaseStep ==
    ASSUME AdmissionInv, NEW r \in Releasers, Release(r)
    PROVE  AdmissionInv'
<1>1. CASE ReleaseRead(r)
  BY <1>1, ReleaseReadStep
<1>2. CASE ReleaseEmpty(r)
  BY <1>2, ReleaseEmptyStep
<1>3. CASE ReleaseClosed(r)
  BY <1>3, ReleaseClosedStep
<1>4. CASE ReleaseMark(r)
  BY <1>4, ReleaseMarkStep
<1>5. CASE ReleaseClose(r)
  BY <1>5, ReleaseCloseStep
<1>6. CASE ReleaseFinish(r)
  BY <1>6, ReleaseFinishStep
<1>7. CASE Recover(r)
  BY <1>7, RecoverStep
<1> QED BY <1>1, <1>2, <1>3, <1>4, <1>5, <1>6, <1>7 DEF Release

LEMMA AdmissionInvNext ==
    ASSUME AdmissionInv, [Next]_vars
    PROVE  AdmissionInv'
<1>1. Setting.workers \subseteq Workers /\ Setting.releasers \subseteq Releasers
  BY SettingFacts DEF AdmissionInv
<1>2. ASSUME NEW w \in Setting.workers, Admit(w) \/ \E e \in Runs : Claim(w, e)
      PROVE  AdmissionInv'
  <2>1. w \in Workers
    BY <1>1
  <2> QED BY <1>2, <2>1, AdmitStep, ClaimStep
<1>3. ASSUME NEW r \in Setting.releasers, Release(r) \/ \E e \in Runs : Reserve(r, e) \/ StartRelease(r, e)
      PROVE  AdmissionInv'
  <2>1. r \in Releasers
    BY <1>1
  <2> QED BY <1>3, <2>1, ReleaseStep, ReserveStep, StartReleaseStep
<1>4. ASSUME NEW s \in SessionIds,
             RuntimeOpens(s) \/ Lapse(s) \/ ExpireSlot(s) \/ ClosureVerified(s) \/ OutcomeResolved(s)
      PROVE  AdmissionInv'
  BY <1>4, RuntimeOpensStep, LapseStep, ExpireSlotStep, ClosureVerifiedStep, OutcomeResolvedStep
<1>5. ASSUME NEW e \in Runs, ClaimTask(e) \/ TaskEnds(e) \/ RunEnds(e) \/ CleanUp(e)
      PROVE  AdmissionInv'
  BY <1>5, ClaimTaskStep, TaskEndsStep, RunEndsStep, CleanUpStep
<1>6. CASE Crash
  BY <1>6, CrashStep
<1>7. CASE UNCHANGED vars
  BY <1>7, AdmissionStays
<1> QED BY <1>2, <1>3, <1>4, <1>5, <1>6, <1>7 DEF Next

(* The rows have their shapes, what a session holds is held by it alone, an
   execution's sessions follow on each other, and every allocation and release
   in progress still knows what it was about. *)
THEOREM AdmissionInvariant == Spec => []AdmissionInv
<1>1. Init => AdmissionInv
  BY AdmissionInvInit
<1>2. AdmissionInv /\ [Next]_vars => AdmissionInv'
  BY AdmissionInvNext
<1> QED BY <1>1, <1>2, PTL DEF Spec

---------------------------------------------------------------------------
(* What the invariant says of the browsers that may run. *)
LEMMA RunningFacts ==
    ASSUME AdmissionInv
    PROVE  \A s \in MayRun :
              /\ s \in Created /\ s \in SessionIds /\ s \in Nat \ {0} /\ ~sess[s].closed /\ sess[s].exec \in Runs
              /\ sess[s].slot \in 1..Capacity /\ sess[s].leases = Claims[sess[s].exec]
              /\ Identity[sess[s].exec] # NoIdentity => sess[s].permit \in 1..Permits
BY SessionFacts, SettingFacts DEF MayRun, SessionFits, Created, SessionIds, AdmissionInv

LEMMA RunningApart ==
    ASSUME AdmissionInv, NEW s \in MayRun, NEW t \in MayRun, s # t
    PROVE  /\ sess[s].slot # sess[t].slot
           /\ Identity[sess[s].exec] = Identity[sess[t].exec] /\ Identity[sess[t].exec] # NoIdentity
              => sess[s].permit # sess[t].permit
<1>1. s \in Nat /\ t \in Nat /\ s \in Created /\ t \in Created /\ ~sess[s].closed /\ ~sess[t].closed
  BY RunningFacts
<1>2. CASE s < t
  BY <1>1, <1>2 DEF AdmissionInv, Resources, Apart
<1>3. CASE t < s
  BY <1>1, <1>3 DEF AdmissionInv, Resources, Apart
<1> QED BY <1>1, <1>2, <1>3

LEMMA ResourcesHeldInv ==
    ASSUME AdmissionInv
    PROVE  ResourcesHeld
<1>1. Capacity \in Nat /\ Permits \in Nat
  BY SettingFacts DEF AdmissionInv
<1>2. Cardinality(MayRun) <= Capacity
  <2> DEFINE f == [s \in MayRun |-> sess[s].slot]
  <2>1. f \in Injection(MayRun, 1..Capacity)
    BY RunningFacts, RunningApart DEF Injection, IsInjective
  <2>2. IsFiniteSet(1..Capacity) /\ Cardinality(1..Capacity) = Capacity
    BY <1>1, FS_Interval
  <2>3. Cardinality(MayRun) <= Cardinality(1..Capacity)
    BY <2>1, <2>2, FS_Injection
  <2> QED BY <2>2, <2>3
<1>3. ASSUME NEW i \in {Identity[e] : e \in Runs} \ {NoIdentity}
      PROVE  Cardinality({s \in MayRun : Identity[sess[s].exec] = i}) <= Permits
  <2> DEFINE S == {s \in MayRun : Identity[sess[s].exec] = i}  f == [s \in S |-> sess[s].permit]
  <2>1. f \in Injection(S, 1..Permits)
    BY RunningFacts, RunningApart DEF Injection, IsInjective
  <2>2. IsFiniteSet(1..Permits) /\ Cardinality(1..Permits) = Permits
    BY <1>1, FS_Interval
  <2>3. Cardinality(S) <= Cardinality(1..Permits)
    BY <2>1, <2>2, FS_Injection
  <2> QED BY <2>2, <2>3
<1> QED BY <1>2, <1>3, RunningApart DEF ResourcesHeld

(* One of two overlapping keys is a prefix of the other. *)
LEMMA OverlapIsPrefix ==
    ASSUME NEW k \in Seq(STRING), NEW l \in Seq(STRING), Overlap(k, l)
    PROVE  IsPrefix(k, l) \/ IsPrefix(l, k)
<1>1. Len(k) \in Nat /\ Len(l) \in Nat
  OBVIOUS
<1>2. ASSUME NEW u \in Seq(STRING), NEW v \in Seq(STRING), Len(u) <= Len(v),
             \A i \in 1..Len(u) : u[i] = v[i]
      PROVE  IsPrefix(u, v)
  <2> DEFINE m == Len(u)
  <2>1. m \in Nat /\ Len(v) \in Nat /\ m <= Len(v) /\ u \in [1..m -> STRING] /\ v \in [1..Len(v) -> STRING]
    BY <1>2
  <2>2. SubSeq(u, 1, m) = [i \in 1..m |-> u[i]] /\ SubSeq(v, 1, m) = [i \in 1..m |-> v[i]]
    BY <2>1, SubSeqRestrict DEF Restrict
  <2>3. SubSeq(u, 1, m) = SubSeq(v, 1, m)
    BY <1>2, <2>2
  <2> QED BY <1>2, <2>3 DEF IsPrefix
<1>3. CASE Len(k) < Len(l)
  BY <1>1, <1>2, <1>3 DEF Overlap
<1>4. CASE ~(Len(k) < Len(l))
  <2>1. Len(l) <= Len(k) /\ \A i \in 1..Len(l) : l[i] = k[i]
    BY <1>1, <1>4 DEF Overlap
  <2> QED BY <1>2, <2>1
<1> QED BY <1>3, <1>4

LEMMA ConflictSymmetric ==
    ASSUME NEW c, NEW d, Conflict(c, d)
    PROVE  Conflict(d, c)
BY DEF Conflict

(* Claims that do not conflict leave each other alone. *)
LEMMA NoConflict ==
    ASSUME NEW c, NEW d, ~Conflict(c, d), {c.mode, d.mode} \subseteq Modes,
           c.key \in Seq(STRING), d.key \in Seq(STRING)
    PROVE  \/ c.mode = "READ" /\ d.mode = "READ"
           \/ c.root # d.root /\ "*" \notin {c.root, d.root}
           \/ c.root = d.root /\ ~Overlap(c.key, d.key)
<1>1. Overlap(c.key, d.key) => IsPrefix(c.key, d.key) \/ IsPrefix(d.key, c.key)
  BY OverlapIsPrefix
<1> QED BY <1>1 DEF Conflict, Modes

LEMMA ClaimsExclusiveInv ==
    ASSUME AdmissionInv
    PROVE  ClaimsExclusive
<1>1. ASSUME NEW s \in Created, NEW t \in MayRun, s < t, NEW c \in sess[s].leases,
             NEW d \in Claims[sess[t].exec]
      PROVE  ~Conflict(c, d)
  <2>1. ~AnyConflict(Claims[sess[t].exec], sess[s].leases)
    BY <1>1, RunningFacts DEF AdmissionInv, Resources, Apart
  <2> QED BY <2>1, ConflictSymmetric DEF AnyConflict
<1>2. ASSUME NEW s \in MayRun, NEW t \in MayRun, s # t,
             NEW c \in Claims[sess[s].exec], NEW d \in Claims[sess[t].exec]
      PROVE  \/ c.mode = "READ" /\ d.mode = "READ"
             \/ c.root # d.root /\ "*" \notin {c.root, d.root}
             \/ c.root = d.root /\ ~Overlap(c.key, d.key)
  <2>1. /\ s \in Created /\ t \in Created /\ s \in Nat /\ t \in Nat
        /\ sess[s].leases = Claims[sess[s].exec] /\ sess[t].leases = Claims[sess[t].exec]
        /\ sess[s].exec \in Runs /\ sess[t].exec \in Runs
    BY RunningFacts
  <2>2. ~Conflict(c, d)
    <3>1. CASE s < t
      BY <1>1, <2>1, <3>1
    <3>2. CASE t < s
      <4>1. ~Conflict(d, c)
        BY <1>1, <2>1, <3>2
      <4> QED BY <4>1, ConflictSymmetric
    <3> QED BY <1>2, <2>1, <3>1, <3>2
  <2>3. {c.mode, d.mode} \subseteq Modes /\ c.key \in Seq(STRING) /\ d.key \in Seq(STRING)
    BY <2>1, SettingFacts DEF AdmissionInv
  <2> QED BY <2>2, <2>3, NoConflict
<1>3. ASSUME NEW s \in Created, sess[s].write = "UNKNOWN", NEW t \in MayRun,
             NEW c \in Claims[sess[s].exec], NEW d \in Claims[sess[t].exec],
             t > s, c.mode = "WRITE", c.origin = "NORMAL"
      PROVE  ~Conflict(c, d)
  <2>1. c \in sess[s].leases
    BY <1>3, SessionFacts DEF SessionFits, Guarded
  <2>2. s < t
    BY <1>3, RunningFacts, SessionFacts DEF SessionIds
  <2> QED BY <1>1, <2>1, <2>2
<1> QED BY <1>2, <1>3 DEF ClaimsExclusive

LEMMA OneBrowserInv ==
    ASSUME AdmissionInv
    PROVE  OneBrowserPerAttempt
<1> SUFFICES ASSUME NEW e \in Executions
             PROVE  /\ Cardinality(Mine(e) \cap MayRun) <= 1
                    /\ Cardinality(Mine(e)) <= 2
                    /\ \A o, n \in Mine(e) : o < n => ~sess[o].owned
                    /\ task[e].status = "RUNNING" =>
                          exec[e].sess # 0 /\ Usable(exec[e].sess) /\ ~sess[exec[e].sess].closing
  BY DEF OneBrowserPerAttempt, Mine
<1> DEFINE s == exec[e].sess
<1>1. ExecFits(e) /\ TaskFits(e)
  BY DEF AdmissionInv
<1>2. \A S, x : S \subseteq {x} => Cardinality(S) <= 1
  <2> SUFFICES ASSUME NEW S, NEW x, S \subseteq {x} PROVE Cardinality(S) <= 1
    OBVIOUS
  <2>1. IsFiniteSet({x}) /\ Cardinality({x}) = 1
    BY FS_Singleton
  <2>2. Cardinality(S) <= Cardinality({x})
    BY <2>1, FS_Subset
  <2> QED BY <2>1, <2>2
<1>3. Cardinality(Mine(e) \cap MayRun) <= 1
  <2>1. Mine(e) \cap MayRun \subseteq {s}
    BY <1>1, RunningFacts DEF ExecFits
  <2> QED BY <1>2, <2>1
<1>4. Cardinality(Mine(e)) <= 2
  <2>1. \E u : Mine(e) \subseteq {s} \cup {u}
    BY <1>1 DEF ExecFits
  <2>2. PICK u : Mine(e) \subseteq {s} \cup {u}
    BY <2>1
  <2>3. IsFiniteSet({s} \cup {u}) /\ Cardinality({s} \cup {u}) \in Nat /\ Cardinality({s} \cup {u}) <= 1 + 1
    <3>1. IsFiniteSet({s}) /\ Cardinality({s}) = 1
      BY FS_Singleton
    <3>2. IsFiniteSet({u}) /\ Cardinality({u}) = 1
      BY FS_Singleton
    <3>3. Cardinality({s}) <= 1 /\ Cardinality({u}) <= 1 /\ 1 \in Nat
      BY <3>1, <3>2
    <3> QED BY <3>1, <3>2, <3>3, UnionIsSmall
  <2>4. Cardinality(Mine(e)) <= Cardinality({s} \cup {u}) /\ IsFiniteSet(Mine(e))
    BY <2>2, <2>3, FS_Subset
  <2>5. Cardinality(Mine(e)) \in Nat
    BY <2>4, FS_CardinalityType
  <2> QED BY <2>3, <2>4, <2>5
<1>5. ASSUME NEW o \in Mine(e), NEW n \in Mine(e), o < n PROVE ~sess[o].owned
  <2>1. o \in Nat /\ n \in Nat /\ o # 0 /\ n # 0
    BY <1>5 DEF Mine, Created, SessionIds
  <2>2. CASE o = s
    BY <1>1, <1>5, <2>1, <2>2 DEF ExecFits
  <2>3. CASE o # s
    BY <1>1, <2>3 DEF ExecFits
  <2> QED BY <2>2, <2>3
<1>6. task[e].status = "RUNNING" => s # 0 /\ Usable(s) /\ ~sess[s].closing
  BY <1>1 DEF TaskFits
<1> QED BY <1>3, <1>4, <1>5, <1>6

LEMMA ActiveIsAdmittedInv ==
    ASSUME AdmissionInv
    PROVE  ActiveIsAdmitted
<1>1. TypeAdmission
  <2>1. ASSUME NEW e \in Executions
        PROVE  /\ exec[e].status \in {"REQUESTED", "WAITING_CAPACITY", "ALLOCATING", "ACTIVE", "RELEASING",
                                      "RELEASED", "LOST", "FAILED"}
               /\ exec[e].tok \in Tokens \cup {0} /\ exec[e].sess \in SessionIds \cup {0}
               /\ exec[e].sess # 0 => sess[exec[e].sess].exec = e
               /\ task[e].status \in {"PENDING", "RUNNING", "ENDED"}
    <3>1. exec[e] \in ExecRows /\ task[e] \in TaskRows /\ ExecFits(e)
      BY DEF AdmissionInv, RowTypes
    <3>2. exec[e].sess \in SessionIds \cup {0}
      BY <3>1 DEF ExecFits, Mine, Created
    <3> QED BY <3>1, <3>2 DEF ExecRows, TaskRows, ExecFits, Mine, Waiting
  <2>2. \A s \in Created : (sess[s].closed <=> sess[s].slot = 0) /\ (sess[s].closed <=> browser[s] = "GONE")
    BY SessionFacts DEF SessionFits
  <2>3. \A w \in Workers : work[w].pc \in Working \cup {"IDLE", "WAIT", "DEFER", "FAIL"}
    BY DEF AdmissionInv, RowTypes, WorkRows
  <2>4. \A r \in Releasers : rel[r].pc \in {"IDLE", "READ", "EMPTY", "CLOSED", "MARK", "CLOSE", "FINISH", "RECOVER"}
    BY DEF AdmissionInv, RowTypes, RelRows
  <2> QED BY <2>1, <2>2, <2>3, <2>4 DEF TypeAdmission, Working, Holding
<1>2. \A s \in Created : sess[s].status = "ACTIVE" =>
         /\ exec[sess[s].exec].sess = s
         /\ exec[sess[s].exec].status \notin {"REQUESTED", "WAITING_CAPACITY", "ALLOCATING"}
  BY DEF AdmissionInv, Admitted, Waiting
<1>3. \A w \in Workers :
         work[w].pc \in {"ACQUIRE", "REOPEN", "REREAD", "ALLOCATE", "OPEN", "AWAIT", "ACTIVATE", "FAIL_OPEN", "CLOSE"}
             /\ exec[work[w].exec].tok = work[w].tok
         => exec[work[w].exec].status \notin {"REQUESTED", "WAITING_CAPACITY", "FAILED"}
  BY DEF AdmissionInv, WorkerFits, Working, Holding
<1> QED BY <1>1, <1>2, <1>3 DEF ActiveIsAdmitted

(* However many replicas allocate, and whatever has expired: no Runtime has
   more browsers than slots, and no login identity more than its
   executionConcurrency; slots and permits are freed by evidence only. *)
THEOREM ResourcesAreHeld == Spec => []ResourcesHeld
<1>1. AdmissionInv => ResourcesHeld
  BY ResourcesHeldInv
<1> QED BY <1>1, AdmissionInvariant, PTL

(* No two browsers work on overlapping accounts or data of which one may
   change them, and data whose last writer's outcome is unknown is handed to
   nobody before it is known (resourcesConflict, the leases of sessions). *)
THEOREM ClaimsAreExclusive == Spec => []ClaimsExclusive
<1>1. AdmissionInv => ClaimsExclusive
  BY ClaimsExclusiveInv
<1> QED BY <1>1, AdmissionInvariant, PTL

(* An attempt has one browser at a time and two in all, the second only if no
   agent ever had the first; and nobody closes the browser of a running task
   (acquireForExecutionRun, recoverStartupExecutions). *)
THEOREM OneBrowserForAttempt == Spec => []OneBrowserPerAttempt
<1>1. AdmissionInv => OneBrowserPerAttempt
  BY OneBrowserInv
<1> QED BY <1>1, AdmissionInvariant, PTL

(* A browser in use belongs to an execution that has been admitted, and no
   superseded allocation puts back or fails the row that another one owns
   (activateOpenedSession, defer, fail). *)
THEOREM ActiveWasAdmitted == Spec => []ActiveIsAdmitted
<1>1. AdmissionInv => ActiveIsAdmitted
  BY ActiveIsAdmittedInv
<1> QED BY <1>1, AdmissionInvariant, PTL
=============================================================================
