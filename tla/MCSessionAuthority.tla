-------------------------- MODULE MCSessionAuthority --------------------------
(* SessionAuthority for TLC: one session and its task, with short leases.     *)
EXTENDS SessionAuthority

CONSTANTS s1, t1, l1, none

MCSessions == {s1}
MCTasks == {t1}
MCLeases == {l1}
MCLeaseOf == [s \in MCSessions |-> l1]
MCSent == {}

Setting(ofSession, ofTask, horizon, claims, controls, reconnects) ==
    [sessionLease |-> ofSession, taskLease |-> ofTask, horizon |-> horizon, claims |-> claims,
     controls |-> controls, reconnects |-> reconnects]

(* Claims again and again, takeovers, lost connections, a session lease that
   outlives the task's over lost connections, and a task lease that is renewed. *)
Reclaimed == Setting(1, 1, 2, 2, 0, FALSE)
TakenOver == Setting(1, 1, 2, 1, 2, FALSE)
Reconnecting == Setting(1, 1, 2, 1, 0, TRUE)
Outlasting == Setting(2, 1, 2, 1, 0, TRUE)
Renewing == Setting(1, 2, 2, 1, 0, FALSE)

AllSettings == {Reclaimed, TakenOver, Reconnecting, Outlasting, Renewing}
LongLeases == {Setting(2, 2, 2, 2, 2, FALSE)}
=============================================================================
