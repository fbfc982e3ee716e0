------------------------- MODULE MCBrowserAdmission -------------------------
(* Executions that share a Runtime, an identity, an account or data.        *)
EXTENDS BrowserAdmission, TLC
CONSTANTS u, w1, w2, r1, r2
Replicas == Permutations(Workers) \cup Permutations(Releasers)

Scope(key, mode, origin) == [root |-> "shop", key |-> key, mode |-> mode, origin |-> origin]
(* The first changes the orders and uses an account, the second reads one order. *)
Overlapping ==
    <<{Scope(<<"orders">>, "WRITE", "NORMAL"), Scope(<<"accounts", "a">>, "WRITE", "ACCOUNT")},
      {Scope(<<"orders", "o1">>, "READ", "NORMAL")}>>
WritersClaims ==
    <<{Scope(<<"orders">>, "WRITE", "NORMAL")}, {Scope(<<"orders", "o1">>, "WRITE", "NORMAL")}>>

(* Two executions on two replicas, which do not overlap in anything. *)
Two ==
    [executions |-> {1, 2}, claims |-> <<{}, {}>>, identity |-> <<NoIdentity, NoIdentity>>,
     permits |-> 1, capacity |-> 2, failFast |-> {}, cancelled |-> {},
     workers |-> {w1, w2}, releasers |-> {}, oneReplica |-> FALSE, takenOver |-> FALSE,
     sessions |-> 2, lapses |-> 1, crashes |-> 0]

(* They compete for a slot, a login identity, data; one is started again. *)
Slots == [Two EXCEPT !.capacity = 1, !.failFast = {1, 2}]
Identities == [Two EXCEPT !.identity = <<u, u>>, !.lapses = 0]
Data == [Two EXCEPT !.claims = Overlapping, !.lapses = 0]
Startup == [Two EXCEPT !.executions = {1}, !.releasers = {r1, r2}, !.cancelled = {1},
                       !.takenOver = TRUE, !.sessions = 3]

(* For liveness: one execution over two replicas that may stop, and two that
   change the same data with one slot. *)
Restart == [Two EXCEPT !.executions = {1}, !.claims = WritersClaims, !.capacity = 1,
                       !.releasers = {r1}, !.oneReplica = TRUE, !.crashes = 2]
Writers == [Two EXCEPT !.claims = WritersClaims, !.capacity = 1, !.workers = {w1},
                       !.oneReplica = TRUE, !.sessions = 4, !.lapses = 0]

Safe == <<Slots, Identities, Data, Startup>>
Live == <<Restart, Writers>>
=============================================================================
