--------------------------- MODULE ClosureJournal ---------------------------
(***************************************************************************)
(* How a Browser Runtime opens one session's browser, closes it, and       *)
(* attests the closure to the control plane, across stops of the daemon    *)
(* and reboots of its host (apps/browser-runtime: closure-journal.ts and   *)
(* open, close and closeWithEvidence of index.ts).                         *)
(*                                                                         *)
(* Three tasks run in the daemon's event loop: one session.open, the       *)
(* memoised close(), and closeWithEvidence(), which the daemon runs one at *)
(* a time.  A task gives up the loop at every await, so every action below *)
(* is the code from one await to the next.  A file is written as a whole   *)
(* (write, fsync, rename), hence in one step, and a stop falls before or   *)
(* after it.  One epoch (lease and fencing token) is followed, so the      *)
(* epoch comparisons always succeed.  A live session without a journal     *)
(* record, which closeWithEvidence also accepts, belongs to builds older   *)
(* than the journal and is left out.                                       *)
(***************************************************************************)
EXTENDS Naturals

CONSTANTS MaxDaemon,  \* bound: daemon instances
          MaxHost     \* bound: boots of the host

ASSUME JournalParameters == {MaxDaemon, MaxHost} \subseteq Nat \ {0}

VARIABLES
    host, daemon,  \* the identities of the running host and daemon
    intended,      \* the daemon the control plane registered for the launch
    rec,           \* the session's journal file
    store,         \* the daemon's state file: the session's row and revokedSessionIds
    revoked,       \* permits.isRevoked, in memory
    live,          \* sessions.has
    open,          \* the task of openingTasks, with the locals it carries
    fresh,         \* freshLaunchDescriptors has the descriptor of the last open
    close,         \* the task of closingSessions
    evid,          \* the task of recoveryClosing
    outbox,        \* the closure results on disk, by the daemon that wrote them
    browser,       \* a process with the session's marker exists
    launches,      \* history: processes ever started
    attested       \* history: closure methods evidence was issued for

journalVars == <<host, daemon, intended, rec, store, revoked, live, open, fresh, close,
                 evid, outbox, browser, launches, attested>>
ids == <<host, daemon, intended>>
history == <<launches, attested>>

Methods == {"LIVE_SESSION_TERMINATED", "IDENTIFIED_PROCESS_SET_TERMINATED",
            "LAUNCH_PREVENTED"}
NoRecord == [launch |-> 0, revoked |-> FALSE, proc |-> FALSE, closed |-> "none"]
NoOpen == [pc |-> "idle", launched |-> FALSE, started |-> FALSE,
           handle |-> FALSE, pid |-> FALSE]
NoClose == [pc |-> "idle", initial |-> "none", epoch |-> FALSE, opening |-> FALSE,
            session |-> FALSE, journal |-> NoRecord]
NoEvid == [pc |-> "idle", desc |-> "none"]

\* The file exists once any of its fields was written.
Exists == rec # NoRecord
HasLaunch(r) == r.launch # 0
Opening == open.pc # "idle"

(* closure-journal.ts: each operation is serialised and reads the file     *)
(* afresh, so it sees exactly the file as it is when it runs.              *)

(* Mutant: a launch record of an earlier daemon does not stop a launch. *)
CanLaunchAgain == ~rec.revoked /\ rec.closed = "none"
(* Mutant: only a revocation stops a launch. *)
CanLaunchUnrevoked == ~store.revoked
CanLaunch == ~Exists

Revoke == rec' = [rec EXCEPT !.revoked = TRUE]

(* Mutant: the launch is left to be recorded with the process. *)
RecordLaunchLater == UNCHANGED rec
RecordLaunch == rec' = [NoRecord EXCEPT !.launch = host]

(* Mutant: the prevented launch is not revoked. *)
PreventLaunchUnrevoked ==
    rec' = [NoRecord EXCEPT !.launch = host, !.closed = "LAUNCH_PREVENTED"]
PreventLaunch ==
    rec' = [NoRecord EXCEPT !.launch = host, !.revoked = TRUE,
                            !.closed = "LAUNCH_PREVENTED"]

RecordAbortedLaunch ==
    rec' = IF rec.revoked /\ ~HasLaunch(rec)
             THEN [rec EXCEPT !.launch = host,
                              !.closed = "IDENTIFIED_PROCESS_SET_TERMINATED"]
             ELSE rec

CanComplete == rec.launch = host /\ rec.revoked
Complete(method) ==
    rec' = IF rec.closed = "none" THEN [rec EXCEPT !.closed = method] ELSE rec

----------------------------------------------------------------------------
(* open() and openSession().                                               *)

To(pc) == [open EXCEPT !.pc = pc]
OpenOnly == UNCHANGED <<ids, fresh, live, close, evid, outbox, attested>>

(* A session.open command.  The launch was registered for `intended`, so   *)
(* the command reaches that daemon or a later one.                         *)
StartOpen ==
    /\ ~Opening /\ ~revoked /\ ~live
    /\ daemon >= intended
    /\ open' = [NoOpen EXCEPT !.pc = IF store.row THEN "caught" ELSE "assert"]
    /\ fresh' = FALSE
    /\ UNCHANGED <<ids, rec, store, revoked, live, close, evid, outbox, browser, history>>

OpenAssert ==
    /\ open.pc = "assert"
    /\ open' = To(IF CanLaunch THEN "record" ELSE "caught")
    /\ fresh' = CanLaunch
    /\ UNCHANGED <<ids, rec, store, revoked, live, close, evid, outbox, browser, history>>

OpenRecord ==
    /\ open.pc = "record"
    /\ IF CanLaunch THEN RecordLaunch ELSE UNCHANGED rec
    /\ open' = IF CanLaunch THEN [open EXCEPT !.pc = "persist", !.launched = TRUE]
                            ELSE To("caught")
    /\ UNCHANGED <<store, revoked, browser, launches>>
    /\ OpenOnly

(* The profile or the snapshot may be in use; otherwise the descriptor is  *)
(* persisted.                                                              *)
OpenPersist ==
    /\ open.pc = "persist"
    /\ \/ open' = To("caught") /\ UNCHANGED store
       \/ open' = To("check") /\ store' = [store EXCEPT !.row = TRUE]
    /\ UNCHANGED <<rec, revoked, browser, launches>>
    /\ OpenOnly

(* The proxy, the snapshot and the profile are prepared, which may fail.   *)
OpenCheck ==
    /\ open.pc = "check"
    /\ \/ open' = To("caught")
       \/ ~revoked /\ open' = [open EXCEPT !.pc = "spawn", !.started = TRUE]
    /\ UNCHANGED <<rec, store, revoked, browser, launches>>
    /\ OpenOnly

(* chromium.launch: it returns a handle, or fails with or without leaving  *)
(* a process behind.                                                       *)
OpenSpawn ==
    /\ open.pc = "spawn"
    /\ \E handle, process \in BOOLEAN :
          /\ handle => process
          /\ open' = [open EXCEPT !.pc = IF handle THEN "discover" ELSE "caught",
                                  !.handle = handle]
          /\ browser' = process
          /\ launches' = launches + IF process THEN 1 ELSE 0
    /\ UNCHANGED <<rec, store, revoked>>
    /\ OpenOnly

(* Creating the context may fail after the browser started.                *)
OpenDiscover ==
    /\ open.pc = "discover"
    /\ \/ open' = To("caught")
       \/ browser /\ open' = [open EXCEPT !.pc = "attach", !.pid = TRUE]
    /\ UNCHANGED <<rec, store, revoked, browser, launches>>
    /\ OpenOnly

OpenAttach ==
    /\ open.pc = "attach"
    /\ IF HasLaunch(rec) /\ rec.closed = "none"
         THEN rec' = [rec EXCEPT !.proc = TRUE] /\ open' = To("identify")
         ELSE open' = To("caught") /\ UNCHANGED rec
    /\ UNCHANGED <<store, revoked, browser, launches>>
    /\ OpenOnly

OpenIdentify ==
    /\ open.pc = "identify"
    /\ store' = [store EXCEPT !.row = TRUE, !.pid = TRUE]
    /\ open' = To("finish")
    /\ UNCHANGED <<rec, revoked, browser, launches>>
    /\ OpenOnly

(* Routes and pages are set up, which may fail.                            *)
OpenFinish ==
    /\ open.pc = "finish"
    /\ \/ open' = To("caught") /\ UNCHANGED <<live, store>>
       \/ /\ ~revoked
          /\ live' = TRUE
          /\ store' = [store EXCEPT !.row = TRUE, !.pid = TRUE]
          /\ open' = NoOpen
    /\ UNCHANGED <<ids, rec, revoked, fresh, close, evid, outbox, browser, history>>

(* The catch block.  A handle that does not close is closed by process     *)
(* identity; without one, and when that fails too, the task ends here.     *)
OpenCaught ==
    /\ open.pc = "caught"
    /\ \/ /\ open' = To("unpersist")
          /\ browser' = (browser /\ ~open.handle)
       \/ /\ open.handle
          /\ open' = NoOpen
          /\ UNCHANGED browser
    /\ UNCHANGED <<rec, store, revoked, launches>>
    /\ OpenOnly

OpenUnpersist ==
    /\ open.pc = "unpersist"
    /\ store' = IF open.pid THEN [store EXCEPT !.row = FALSE, !.pid = FALSE] ELSE store
    /\ revoked' = TRUE
    /\ open' = To("revoke")
    /\ UNCHANGED <<rec, browser, launches>>
    /\ OpenOnly

OpenRevoke ==
    /\ open.pc = "revoke"
    /\ store' = [store EXCEPT !.revoked = TRUE]
    /\ open' = IF open.launched THEN To("revokeJournal") ELSE NoOpen
    /\ UNCHANGED <<rec, revoked, browser, launches>>
    /\ OpenOnly

OpenRevokeJournal ==
    /\ open.pc = "revokeJournal"
    /\ Revoke
    /\ open' = IF open.started /\ ~open.handle /\ ~open.pid THEN NoOpen ELSE To("kill")
    /\ UNCHANGED <<store, revoked, browser, launches>>
    /\ OpenOnly

(* Mutant: the failed open closes the session through close(), which waits *)
(* for the open.                                                           *)
OpenKillWaits ==
    /\ open.pc = "kill" /\ close.pc = "idle"
    /\ browser' = FALSE /\ open' = To("complete")
    /\ UNCHANGED <<rec, store, revoked, launches>>
    /\ OpenOnly

OpenKill ==
    /\ open.pc = "kill"
    /\ \/ browser' = FALSE /\ open' = To("complete")
       \/ browser /\ open' = NoOpen /\ UNCHANGED browser
    /\ UNCHANGED <<rec, store, revoked, launches>>
    /\ OpenOnly

OpenComplete ==
    /\ open.pc = "complete"
    /\ IF CanComplete
         THEN Complete(IF open.handle THEN "LIVE_SESSION_TERMINATED"
                                      ELSE "IDENTIFIED_PROCESS_SET_TERMINATED")
         ELSE UNCHANGED rec
    /\ open' = NoOpen
    /\ UNCHANGED <<store, revoked, browser, launches>>
    /\ OpenOnly

OpenTask ==
    \/ OpenAssert \/ OpenRecord \/ OpenPersist \/ OpenCheck \/ OpenSpawn
    \/ OpenDiscover \/ OpenAttach \/ OpenIdentify \/ OpenFinish \/ OpenCaught
    \/ OpenUnpersist \/ OpenRevoke \/ OpenRevokeJournal \/ OpenKill \/ OpenComplete

----------------------------------------------------------------------------
(* close() and closeSession().  `initial` is the object the task read: the *)
(* live session, the descriptor of the pending open, or the stored row.    *)

Descriptor == CASE live -> "live" [] Opening -> "opening" [] store.row -> "row"
                [] OTHER -> "none"
Closing == close.pc # "idle"
CloseTo(pc) == close' = [close EXCEPT !.pc = pc]
CloseOnly == UNCHANGED <<ids, open, fresh, outbox, history>>

(* A close that ends answers the evidence task that waits for it.          *)
CloseEnds(ok) ==
    /\ close' = NoClose
    /\ evid' = IF evid.pc # "closing" THEN evid
               ELSE IF ok THEN [evid EXCEPT !.pc = "prove"] ELSE NoEvid

(* The synchronous start of closeSession.                                  *)
BeginClose ==
    /\ revoked' = TRUE
    /\ close' = [NoClose EXCEPT !.pc = "read", !.initial = Descriptor]

(* session.close, the watchdog, a reconciliation or a shutdown.            *)
StartClose ==
    /\ ~Closing
    /\ BeginClose
    /\ UNCHANGED <<rec, store, live, evid, browser>>
    /\ CloseOnly

CloseRead ==
    /\ close.pc = "read"
    /\ LET epoch == close.initial # "none" \/ Exists
       IN  close' = [close EXCEPT !.epoch = epoch,
                                  !.pc = IF epoch THEN "revokeJournal" ELSE "revoke"]
    /\ UNCHANGED <<rec, store, revoked, live, evid, browser>>
    /\ CloseOnly

CloseRevokeJournal ==
    /\ close.pc = "revokeJournal"
    /\ Revoke
    /\ CloseTo("revoke")
    /\ UNCHANGED <<store, revoked, live, evid, browser>>
    /\ CloseOnly

CloseRevoke ==
    /\ close.pc = "revoke"
    /\ store' = [store EXCEPT !.revoked = TRUE]
    /\ close' = [close EXCEPT !.pc = "await", !.opening = Opening]
    /\ UNCHANGED <<rec, revoked, live, evid, browser>>
    /\ CloseOnly

(* opening?.catch: a revoked session is not opened again, so a pending     *)
(* open is the one whose descriptor was read.                              *)
CloseAwait ==
    /\ close.pc = "await"
    /\ ~Opening
    /\ CloseTo(IF close.opening /\ close.initial = "opening" /\ fresh
                 THEN "abort" ELSE "look")
    /\ UNCHANGED <<rec, store, revoked, live, evid, browser>>
    /\ CloseOnly

CloseAbort ==
    /\ close.pc = "abort"
    /\ RecordAbortedLaunch
    /\ CloseTo("look")
    /\ UNCHANGED <<store, revoked, live, evid, browser>>
    /\ CloseOnly

CloseLook ==
    /\ close.pc = "look"
    /\ close' = [close EXCEPT !.pc = "kill", !.session = live, !.journal = rec]
    /\ UNCHANGED <<rec, store, revoked, live, evid, browser>>
    /\ CloseOnly

(* The closure of the live session, of the process the journal or the row  *)
(* identifies, or of whatever carries the marker.  The processes of an     *)
(* earlier host, and a launch that left neither an identity nor a process, *)
(* cannot be verified.                                                     *)
Verifiable ==
    LET journal == close.journal IN
    IF HasLaunch(journal)
      THEN journal.launch = host /\ (journal.closed # "none" \/ journal.proc \/ browser)
      ELSE store.row => store.pid

(* Mutant: the identified process is taken for dead without being closed. *)
KillForgotten ==
    /\ close.pc = "kill"
    /\ IF close.session \/ Verifiable THEN CloseTo("complete") /\ UNCHANGED evid
                                     ELSE CloseEnds(FALSE)
    /\ UNCHANGED <<rec, store, revoked, live, browser>>
    /\ CloseOnly

CloseKill ==
    /\ close.pc = "kill"
    /\ \/ /\ close.session \/ Verifiable
          /\ CloseTo("complete")
          /\ browser' = (browser /\ ~close.session /\ close.journal.closed # "none")
          /\ UNCHANGED evid
       \/ /\ browser \/ ~(close.session \/ Verifiable)
          /\ CloseEnds(FALSE)
          /\ UNCHANGED browser
    /\ UNCHANGED <<rec, store, revoked, live>>
    /\ CloseOnly

CloseComplete ==
    /\ close.pc = "complete"
    /\ IF close.epoch /\ HasLaunch(rec)
         THEN IF CanComplete
                THEN /\ Complete(IF close.session THEN "LIVE_SESSION_TERMINATED"
                                  ELSE "IDENTIFIED_PROCESS_SET_TERMINATED")
                     /\ CloseTo("delete") /\ UNCHANGED evid
                ELSE CloseEnds(FALSE) /\ UNCHANGED rec
         ELSE CloseTo("delete") /\ UNCHANGED <<rec, evid>>
    /\ UNCHANGED <<store, revoked, live, browser>>
    /\ CloseOnly

CloseDelete ==
    /\ close.pc = "delete"
    /\ live' = FALSE
    /\ store' = [store EXCEPT !.row = FALSE, !.pid = FALSE]
    /\ CloseEnds(TRUE)
    /\ UNCHANGED <<rec, revoked, browser>>
    /\ CloseOnly

CloseTask ==
    \/ CloseRead \/ CloseRevokeJournal \/ CloseRevoke \/ CloseAwait \/ CloseAbort
    \/ CloseLook \/ CloseKill \/ CloseComplete \/ CloseDelete

----------------------------------------------------------------------------
(* closeWithEvidence(), one request of the control plane at a time.        *)

EvidTo(pc) == evid' = [evid EXCEPT !.pc = pc]
EvidOnly == UNCHANGED <<ids, store, live, open, fresh, browser, launches>>

StartEvidence ==
    /\ evid.pc = "idle"
    /\ evid' = [NoEvid EXCEPT !.pc = "read", !.desc = Descriptor]
    /\ UNCHANGED <<rec, revoked, close, outbox, attested>>
    /\ EvidOnly

(* The checks on the record the task has just read.                        *)
Judge ==
    IF rec.launch # host THEN evid' = NoEvid /\ UNCHANGED revoked
    ELSE IF rec.closed # "none" THEN EvidTo("prove") /\ UNCHANGED revoked
    ELSE EvidTo("revoke") /\ revoked' = TRUE

(* The registered launch was this daemon's and this daemon knows nothing of *)
(* it.                                                                     *)
NeverLaunched ==
    ~HasLaunch(rec) /\ evid.desc = "none" /\ ~Opening /\ intended = daemon

(* The pending open is looked up after the file was read, the descriptor   *)
(* before.                                                                 *)
EvidRead ==
    /\ evid.pc = "read"
    /\ IF ~HasLaunch(rec) /\ Opening /\ evid.desc # "none"
         THEN EvidTo("abortRevoke") /\ revoked' = TRUE
         ELSE IF NeverLaunched THEN EvidTo("prevent") /\ revoked' = TRUE
         ELSE Judge
    /\ UNCHANGED <<rec, close, outbox, attested>>
    /\ EvidOnly

EvidAbortRevoke ==
    /\ evid.pc = "abortRevoke"
    /\ Revoke
    /\ EvidTo("await")
    /\ UNCHANGED <<revoked, close, outbox, attested>>
    /\ EvidOnly

EvidAwait ==
    /\ evid.pc = "await"
    /\ ~Opening
    /\ EvidTo(IF evid.desc = "opening" /\ fresh THEN "abort" ELSE "judge")
    /\ UNCHANGED <<rec, revoked, close, outbox, attested>>
    /\ EvidOnly

EvidAbort ==
    /\ evid.pc = "abort"
    /\ RecordAbortedLaunch
    /\ EvidTo("judge")
    /\ UNCHANGED <<revoked, close, outbox, attested>>
    /\ EvidOnly

EvidPrevent ==
    /\ evid.pc = "prevent"
    /\ IF HasLaunch(rec) THEN evid' = NoEvid /\ UNCHANGED rec
       ELSE PreventLaunch /\ EvidTo("judge")
    /\ UNCHANGED <<revoked, close, outbox, attested>>
    /\ EvidOnly

EvidJudge ==
    /\ evid.pc = "judge"
    /\ Judge
    /\ UNCHANGED <<rec, close, outbox, attested>>
    /\ EvidOnly

(* journal.revoke, then close(), which joins the close in progress.        *)
EvidRevoke ==
    /\ evid.pc = "revoke"
    /\ Revoke
    /\ EvidTo("join")
    /\ UNCHANGED <<revoked, close, outbox, attested>>
    /\ EvidOnly

EvidJoin ==
    /\ evid.pc = "join"
    /\ EvidTo("closing")
    /\ IF Closing THEN UNCHANGED <<close, revoked>> ELSE BeginClose
    /\ UNCHANGED <<rec, outbox, attested>>
    /\ EvidOnly

(* journal.evidence, then the result is queued on disk.                    *)
EvidProve ==
    /\ evid.pc = "prove"
    /\ IF rec.closed # "none" /\ rec.launch = host
         THEN attested' = attested \cup {rec.closed} /\ EvidTo("queue")
         ELSE evid' = NoEvid /\ UNCHANGED attested
    /\ UNCHANGED <<rec, revoked, close, outbox>>
    /\ EvidOnly

EvidQueue ==
    /\ evid.pc = "queue"
    /\ outbox' = outbox \cup {<<host, daemon>>}
    /\ evid' = NoEvid
    /\ UNCHANGED <<rec, revoked, close, attested>>
    /\ EvidOnly

EvidTask ==
    \/ EvidRead \/ EvidAbortRevoke \/ EvidAwait \/ EvidAbort \/ EvidPrevent
    \/ EvidJudge \/ EvidRevoke \/ EvidJoin \/ EvidProve \/ EvidQueue

(* delivery.ack: the control plane accepted the queued result.  Only a     *)
(* result of the running daemon is ever sent (pendingResults).             *)
Acknowledge ==
    /\ <<host, daemon>> \in outbox
    /\ outbox' = outbox \ {<<host, daemon>>}
    /\ UNCHANGED <<ids, rec, store, revoked, live, open, fresh, close, evid, browser,
                   history>>

----------------------------------------------------------------------------
(* The daemon stops, alone or with its host, and starts again.  Its memory *)
(* is lost; the revocations of the state file are put back into the        *)
(* permits.  A browser may outlive its daemon, never its host.             *)
Restart(newHost, survives) ==
    /\ daemon < MaxDaemon
    /\ host' = newHost
    /\ daemon' = daemon + 1
    /\ revoked' = store.revoked
    /\ live' = FALSE /\ fresh' = FALSE
    /\ open' = NoOpen /\ close' = NoClose /\ evid' = NoEvid
    /\ browser' = (browser /\ survives)
    /\ UNCHANGED <<intended, rec, store, outbox, history>>

DaemonRestarts == \E survives \in BOOLEAN : Restart(host, survives)
HostReboots == host < MaxHost /\ Restart(host + 1, FALSE)

InitJournal ==
    /\ host = 1 /\ daemon = 1
    /\ intended \in 1 .. MaxDaemon
    /\ rec = NoRecord
    /\ store = [row |-> FALSE, pid |-> FALSE, revoked |-> FALSE]
    /\ revoked = FALSE /\ live = FALSE /\ fresh = FALSE
    /\ open = NoOpen /\ close = NoClose /\ evid = NoEvid
    /\ outbox = {} /\ browser = FALSE
    /\ launches = 0 /\ attested = {}

NextJournal ==
    \/ StartOpen \/ OpenTask
    \/ StartClose \/ CloseTask
    \/ StartEvidence \/ EvidTask
    \/ Acknowledge
    \/ DaemonRestarts \/ HostReboots

SpecJournal == InitJournal /\ [][NextJournal]_journalVars

(* Every awaited operation ends: file writes, and Chromium's launch and    *)
(* close, which have time limits.                                          *)
FairJournal ==
    WF_journalVars(OpenTask) /\ WF_journalVars(CloseTask) /\ WF_journalVars(EvidTask)

FairSpecJournal == SpecJournal /\ FairJournal

----------------------------------------------------------------------------
(* Types, and the journal's shape: a record is closed only for a launch.   *)
TypeJournal ==
    /\ host \in 1 .. MaxHost /\ daemon \in 1 .. MaxDaemon
    /\ intended \in 1 .. MaxDaemon
    /\ rec \in [launch : 0 .. MaxHost, revoked : BOOLEAN, proc : BOOLEAN,
                closed : Methods \cup {"none"}]
    /\ rec.closed # "none" => HasLaunch(rec) /\ rec.revoked
    /\ store \in [row : BOOLEAN, pid : BOOLEAN, revoked : BOOLEAN]
    /\ {revoked, live, fresh, browser} \subseteq BOOLEAN
    /\ launches \in 0 .. MaxDaemon /\ attested \subseteq Methods

(* A browser process exists only under a launch record of its host, in     *)
(* whatever order the daemon stopped: what recovery finds on disk covers   *)
(* every process that may be alive.                                        *)
LaunchIsJournaled == browser => rec.launch = host

(* A session id starts at most one browser in its life, over every retry   *)
(* of session.open and every daemon.                                       *)
OneLaunch == launches <= 1

(* Once closure evidence was issued no process of the session is alive, and *)
(* none appears later: the control plane frees the profile, the account    *)
(* and the write guards on the strength of it.                             *)
AttestedIsDead == attested # {} => ~browser

(* LAUNCH_PREVENTED is attested only of a launch that never happened and   *)
(* never will, a late session.open to a later daemon included.             *)
PreventedNeverRan == "LAUNCH_PREVENTED" \in attested => launches = 0

(* The journal has its shape, what recovery finds in it covers every process
   that may be alive, and a session starts at most one browser over every retry
   of session.open and every daemon. *)
LaunchesAreKnown == TypeJournal /\ LaunchIsJournaled /\ OneLaunch

(* Once closeWithEvidence has issued evidence nothing of the session is alive or
   appears later, and a launch attested as prevented never happened. *)
EvidenceIsTrue == AttestedIsDead /\ PreventedNeverRan

(* close() and closeWithEvidence() end: the first waits for the open, the  *)
(* second for both, and the open waits for neither.                        *)
CloseConcludes ==
    /\ (close.pc # "idle") ~> (close.pc = "idle")
    /\ (evid.pc # "idle") ~> (evid.pc = "idle")
=============================================================================
