---------------------------- MODULE MCRuntimePermits ----------------------------
(* RuntimePermits for TLC: one session, two tasks, permits of every kind that
   differ in executor, generation, lease and expiry. *)
EXTENDS RuntimePermits

CONSTANTS s1, t1, t2, l1, l2, none

MCSessions == {s1}
MCTasks == {t1, t2}
MCLeases == {l1, l2}
MCLeaseOf == [s \in MCSessions |-> l1]

P(k, l, t, f, g, e) ==
    [kind |-> k, lease |-> l, task |-> t, fence |-> f, gen |-> g, expiresAt |-> e]

MCSent == { P("STARTUP", l1, none, 0, 0, 2), P("SYSTEM", l1, none, 0, 0, 3),
            P("AGENT", l1, t1, 1, 0, 2), P("AGENT", l1, t1, 1, 0, 3),
            P("AGENT", l1, t1, 2, 0, 4), P("HUMAN", l1, t1, 1, 0, 3),
            P("HUMAN", l1, t1, 1, 1, 3), P("AGENT", l1, t1, 1, 2, 4),
            P("AGENT", l1, t2, 3, 0, 4), P("AGENT", l2, t1, 3, 0, 4) }
=============================================================================
