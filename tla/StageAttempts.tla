---------------------------- MODULE StageAttempts ----------------------------
(***************************************************************************)
(* What the control plane promises of the attempts of one stage: they are  *)
(* numbered, one is open at a time, one worker holds it while it runs, and *)
(* whatever ended an attempt is never rewritten.  SpecAnalysis implements  *)
(* it.                                                                     *)
(***************************************************************************)
EXTENDS Naturals

CONSTANTS Numbers,  \* the numbers attempts may have, from 1
          Workers, NoWorker

VARIABLES status,   \* of each attempt; NONE before it exists
          holder    \* the worker that may report for it

avars == <<status, holder>>

OpenStatuses == {"PENDING", "RUNNING"}
Withdrawn == {"TIMED_OUT", "CANCELLED"}
Statuses == {"NONE"} \cup OpenStatuses \cup Withdrawn \cup {"SUCCEEDED", "FAILED"}

Open == {n \in Numbers : status[n] \in OpenStatuses}

Init ==
    /\ status = [n \in Numbers |-> IF n = 1 THEN "PENDING" ELSE "NONE"]
    /\ holder = [n \in Numbers |-> NoWorker]

Take(n, w) ==
    /\ status[n] = "PENDING"
    /\ status' = [status EXCEPT ![n] = "RUNNING"]
    /\ holder' = [holder EXCEPT ![n] = w]

(* Its holder, or the recovery of its lease, ends it; a failure may open the
   next attempt at once. *)
Report(n) ==
    /\ status[n] = "RUNNING" /\ holder[n] # NoWorker
    /\ \/ status' = [status EXCEPT ![n] = "SUCCEEDED"]
       \/ status' = [status EXCEPT ![n] = "FAILED"]
       \/ /\ n + 1 \in Numbers /\ status[n + 1] = "NONE"
          /\ status' = [status EXCEPT ![n] = "FAILED", ![n + 1] = "PENDING"]
    /\ holder' = [holder EXCEPT ![n] = NoWorker]

(* The task was cancelled or its time is over. *)
Withdraw(n) ==
    /\ status[n] \in OpenStatuses
    /\ \E s \in Withdrawn : status' = [status EXCEPT ![n] = s]
    /\ holder' = [holder EXCEPT ![n] = NoWorker]

(* A person asks for another attempt. *)
Again(n) ==
    /\ Open = {}
    /\ n > 1 /\ status[n] = "NONE" /\ status[n - 1] # "NONE"
    /\ status' = [status EXCEPT ![n] = "PENDING"]
    /\ UNCHANGED holder

Next ==
    \E n \in Numbers :
        Report(n) \/ Withdraw(n) \/ Again(n) \/ \E w \in Workers : Take(n, w)

Spec == Init /\ [][Next]_avars
=============================================================================
