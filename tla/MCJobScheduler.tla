--------------------------- MODULE MCJobScheduler ---------------------------
(* Two schedulers as in the revision graph: the default one, without       *)
(* threads of its own, and cpuLoadScheduler, with one.  It is made with    *)
(* aggressiveThreading; without, its idle thread is kept.                  *)
EXTENDS JobScheduler

CONSTANTS default, cpuLoad

MCThreadCount == [s \in Schedulers |-> IF s = cpuLoad THEN 1 ELSE 0]
MCMaxFromShared == [s \in Schedulers |-> 2]
MCMaxJobs == [n \in HWThreads |-> IF n = 1 THEN 5 ELSE 4]
MCAggressive == [n \in HWThreads |-> IF n = 1 THEN {cpuLoad} ELSE {}]
=============================================================================
