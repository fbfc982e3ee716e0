-------------------------- MODULE MCSessionRecovery -------------------------
(* SessionRecovery for TLC.                                                 *)
EXTENDS SessionRecovery

CONSTANTS s1, s2

Setting(sessions, running, explicit, attempts, again, drops) ==
    [sessions |-> sessions, running |-> running, explicit |-> explicit, tasks |-> 1,
     attempts |-> attempts, retries |-> again, drops |-> drops,
     settles |-> sessions = {s1}]

(* One session: from its execution's end on, over a reconnection; attempt
   after attempt, closed explicitly too; after an operator's retry; and two
   that compete for the permit of their Runtime. *)
Ending == Setting({s1}, {s1}, {}, 1, 0, 1)
Repeated == Setting({s1}, {}, {s1}, 2, 0, 0)
Retried == Setting({s1}, {}, {}, 1, 1, 0)
Competing == Setting({s1, s2}, {}, {}, 1, 0, 0)

AllSettings == {Ending, Repeated, Retried, Competing}
=============================================================================
