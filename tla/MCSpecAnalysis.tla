--------------------------- MODULE MCSpecAnalysis ---------------------------
(* SpecAnalysis for TLC: two workers, one person and one projecting replica, *)
(* with a budget of two attempts, or in the agent pool of one and a second   *)
(* that the person asks for.                                                 *)
EXTENDS SpecAnalysis

CONSTANTS w1, w2, h1, p1

MCPlans == { [executor |-> "AGENT", budget |-> 1], [executor |-> "AGENT", budget |-> 2],
             [executor |-> "DETERMINISTIC", budget |-> 2] }
=============================================================================
