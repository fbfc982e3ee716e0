-------------------------- MODULE MCRuntimeCommands --------------------------
(* RuntimeCommands for TLC: one command, so that the interleaving of its
   caller, its deliveries, the sweeper and retention is explored in full. *)
EXTENDS RuntimeCommands

CONSTANTS c1, w1, w2

Setting(opens, purgers, until, generations, keys) ==
    [opens |-> opens, purgers |-> purgers, until |-> until,
     generations |-> generations, keys |-> keys,
     runtimes |-> IF opens = {} THEN {TRUE} ELSE BOOLEAN]

(* A result that is delivered twice, and one that outlives the deadline; two
   replicas that delete an upload; a launch over two connections,
   of a Runtime that can identify its launches or not, or is upgraded. *)
Redelivered == Setting({}, {w1}, 1, 2, 2)
Late == Setting({}, {w1}, 2, 2, 1)
Retained == Setting({}, {w1, w2}, 3, 1, 1)
Launched == Setting({c1}, {}, 2, 2, 0)

AllSettings == {Redelivered, Late, Retained, Launched}
=============================================================================
