------------------------------ MODULE MCProcesses ------------------------------
(* Programs of one process each, which share nothing, for TLC.  A behaviour is *)
(* one of the worker's lease supervisor (LeaseSupervisor, with the proportions *)
(* of the deployed settings: a lease of several renewal intervals and a safety *)
(* margin of one) or one of the Browser Runtime's closure journal              *)
(* (ClosureJournal).  The other does not move.                                 *)
EXTENDS LeaseSupervisor, ClosureJournal

OneOrTwo == {1, 2}

VARIABLE program

InitEither ==
    /\ program \in {"supervisor", "journal"} /\ Init /\ InitJournal
    /\ program = "supervisor" => intended = 1
    /\ program = "journal" => now = 0

NextEither ==
    \/ program = "supervisor" /\ Next /\ UNCHANGED <<program, journalVars>>
    \/ program = "journal" /\ NextJournal /\ UNCHANGED <<program, supervisorVars>>

SpecEither ==
    /\ InitEither /\ [][NextEither]_<<program, supervisorVars, journalVars>>
    /\ WF_supervisorVars(program = "supervisor" /\ Tick)
    /\ WF_supervisorVars(program = "supervisor" /\ Expire)
    /\ FairJournal
=============================================================================
