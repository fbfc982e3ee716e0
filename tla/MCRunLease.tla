----------------------------- MODULE MCRunLease -----------------------------
(* RunLease for TLC.  The clock bound lies past every deadline a run can have: *)
(* the first is at most QueueTime - 1 + budget + extension, and each human     *)
(* wait and resumption adds at most one HumanTime, budget and extension.       *)
EXTENDS RunLease

Setting(attempts, lease, budget, extension, pause, onTimeout, retryOn, until, asked, calls) ==
    [attempts |-> attempts, taskLease |-> lease, budget |-> budget, extension |-> extension,
     pause |-> pause, onTimeout |-> onTimeout, retryOn |-> retryOn, until |-> until,
     human |-> asked, cancels |-> calls]

(* A budget shorter than the lease; three attempts lost one after the other; an
   intervention between two attempts; cancellations of either. *)
Short == Setting(2, 2, 1, 1, FALSE, "CANCEL", {}, 4, 1, 0)
Lost == Setting(3, 1, 3, 0, TRUE, "FAIL", {}, 3, 0, 0)
Asking == Setting(2, 1, 1, 0, TRUE, "FAIL", {"TIMEOUT"}, 2, 1, 0)
Cancelled == Setting(2, 1, 1, 0, TRUE, "FAIL", {}, 1, 0, 1)
CancelledAsking == Setting(1, 1, 1, 0, TRUE, "FAIL", {}, 2, 1, 1)

AllSettings == {Short, Lost, Asking, Cancelled, CancelledAsking}
OneAttempt == {Setting(1, 1, 2, 0, TRUE, "FAIL", {}, 2, 0, 1)}
=============================================================================
