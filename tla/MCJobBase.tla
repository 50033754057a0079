------------------------------ MODULE MCJobBase ------------------------------
(* One job, its client and two threads of the scheduler.                   *)
EXTENDS JobBase
=============================================================================
