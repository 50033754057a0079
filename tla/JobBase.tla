------------------------------- MODULE JobBase -------------------------------
(***************************************************************************)
(* One job of the AsyncFramework (CJobBase of JobBase.cpp, with the        *)
(* COneShotEvent of WaitableEvent.cpp), between the client that owns it,   *)
(* the scheduler's queue and the threads of that scheduler.  No lock       *)
(* protects a job: the steps are its interlocked operations and reads.     *)
(*                                                                         *)
(* todo[t] is what thread t still has to do of the calls it is in, as a    *)
(* sequence of steps; a step may put others in front of the rest.          *)
(***************************************************************************)
EXTENDS Naturals, Sequences, FiniteSets

CONSTANTS
  Client,         \* the thread that owns, waits for and deletes the job
  Workers         \* threads of the scheduler, or waiting for its empty queue

ASSUME ClientAssumption == Client \notin Workers

Threads == Workers \cup {Client}
Events == {"executionDone", "deletable"}

VARIABLES
  waiting, terminated, scheduled, \* the flags of the job
  state,          \* COneShotEvent::state
  event,          \* COneShotEvent::event: "none", "reset" or "set"
  deleted,        \* the job is gone
  queued,         \* it is in the scheduler's queue
  transferOwnership,
  removed,        \* the client took it out of the queue and has not put it back
  drained,        \* history: it was taken out of the queue of a stopped scheduler
  requeued,       \* history: it was put back although somebody had claimed it
  todo,
  runs            \* history: how often InternalExecute was called

flagVars == <<waiting, terminated, scheduled>>
eventVars == <<state, event>>
away == <<removed, drained, requeued>>
vars == <<flagVars, eventVars, deleted, queued, transferOwnership, away, todo, runs>>

(* The constructors of CFuture, CAsyncCall and the queries call Schedule.  *)
Init ==
  /\ waiting = TRUE /\ terminated = FALSE /\ scheduled = FALSE
  /\ state = [e \in Events |-> FALSE]
  /\ event = [e \in Events |-> "none"]
  /\ deleted = FALSE /\ queued = FALSE
  /\ removed = FALSE /\ drained = FALSE /\ requeued = FALSE
  /\ transferOwnership \in BOOLEAN
  /\ todo = [t \in Threads |-> IF t = Client THEN <<"onSchedule", "push">> ELSE << >>]
  /\ runs = 0

-----------------------------------------------------------------------------
(* Steps                                                                   *)

At(t, step) == todo[t] # << >> /\ Head(todo[t]) = step

(* t goes on with "steps" and then with what it had to do after this step. *)
Continue(t, steps) == todo' = [todo EXCEPT ![t] = steps \o Tail(@)]

(* The steps that belong to one of the two events.                         *)
Of(e) ==
  IF e = "deletable"
  THEN [set |-> "setDeletable", signal |-> "signalDeletable", wait |-> "waitDeletable",
        alloc |-> "allocDeletable", look |-> "lookDeletable", block |-> "blockDeletable"]
  ELSE [set |-> "setDone", signal |-> "signalDone", wait |-> "waitDone",
        alloc |-> "allocDone", look |-> "lookDone", block |-> "blockDone"]

OnSchedule(t) ==
  /\ At(t, "onSchedule")
  /\ scheduled' = TRUE
  /\ Continue(t, << >>)
  /\ UNCHANGED <<waiting, terminated, eventVars, deleted, queued, transferOwnership, away, runs>>

(* The part of CJobScheduler::Schedule under its mutex.                    *)
Push(t) ==
  /\ At(t, "push")
  /\ queued' = TRUE
  /\ Continue(t, << >>)
  /\ UNCHANGED <<flagVars, eventVars, deleted, transferOwnership, away, runs>>

(* Fault: Execute reads the flag and resets it only when it runs the job.  *)
Claim_NotExchanged(t) ==
  /\ At(t, "claim")
  /\ Continue(t, IF waiting THEN <<"run", "setDone", "testScheduled">> ELSE << >>)
  /\ UNCHANGED <<flagVars, eventVars, deleted, queued, transferOwnership, away, runs>>

(* Fault: the job counts as done before it is executed.                    *)
Claim_DoneFirst(t) ==
  /\ At(t, "claim")
  /\ waiting' = FALSE
  /\ Continue(t, IF waiting THEN <<"setDone", "run", "testScheduled">> ELSE << >>)
  /\ UNCHANGED <<terminated, scheduled, eventVars, deleted, queued, transferOwnership, away, runs>>

(* Execute                                                                 *)
Claim(t) ==
  /\ At(t, "claim")
  /\ waiting' = FALSE
  /\ Continue(t, IF waiting THEN <<"run", "setDone", "testScheduled">> ELSE << >>)
  /\ UNCHANGED <<terminated, scheduled, eventVars, deleted, queued, transferOwnership, away, runs>>

Run(t) ==
  /\ At(t, "run")
  /\ waiting' = FALSE
  /\ runs' = IF terminated THEN runs ELSE runs + 1
  /\ Continue(t, << >>)
  /\ UNCHANGED <<terminated, scheduled, eventVars, deleted, queued, transferOwnership, away>>

(* Fault: a job that is executed elsewhere than by the scheduler may be    *)
(* deleted although it is still in the queue.                              *)
TestScheduled_Ignored(t) ==
  /\ At(t, "testScheduled")
  /\ Continue(t, <<"setDeletable">>)
  /\ UNCHANGED <<flagVars, eventVars, deleted, queued, transferOwnership, away, runs>>

TestScheduled(t) ==
  /\ At(t, "testScheduled")
  /\ Continue(t, IF scheduled THEN << >> ELSE <<"setDeletable">>)
  /\ UNCHANGED <<flagVars, eventVars, deleted, queued, transferOwnership, away, runs>>

(* OnUnSchedule                                                            *)
Unschedule(t) ==
  /\ At(t, "unschedule")
  /\ scheduled' = FALSE
  /\ Continue(t, <<"testDone">>)
  /\ UNCHANGED <<waiting, terminated, eventVars, deleted, queued, transferOwnership, away, runs>>

(* Fault: the second of the two that could set "deletable" relies on the   *)
(* first one.                                                              *)
TestDone_Never(t) ==
  /\ At(t, "testDone")
  /\ Continue(t, << >>)
  /\ UNCHANGED <<flagVars, eventVars, deleted, queued, transferOwnership, away, runs>>

TestDone(t) ==
  /\ At(t, "testDone")
  /\ Continue(t, IF state["executionDone"] THEN <<"setDeletable">> ELSE << >>)
  /\ UNCHANGED <<flagVars, eventVars, deleted, queued, transferOwnership, away, runs>>

(* COneShotEvent::Set; the handle is looked at after the state has changed.*)
SetState(t, e) ==
  /\ At(t, Of(e).set)
  /\ state' = [state EXCEPT ![e] = TRUE]
  /\ Continue(t, IF state[e] THEN << >> ELSE <<Of(e).signal>>)
  /\ UNCHANGED <<flagVars, event, deleted, queued, transferOwnership, away, runs>>

SignalEvent(t, e) ==
  /\ At(t, Of(e).signal)
  /\ event' = [event EXCEPT ![e] = IF @ = "none" THEN @ ELSE "set"]
  /\ Continue(t, << >>)
  /\ UNCHANGED <<flagVars, state, deleted, queued, transferOwnership, away, runs>>

(* COneShotEvent::WaitFor: the first look at "state", AutoAlloc, the       *)
(* second look, the wait.  WaitForEndOrTimeout has no second look.         *)
FirstLook(t, e) ==
  /\ At(t, Of(e).wait)
  /\ Continue(t, IF state[e] THEN << >> ELSE <<Of(e).alloc, Of(e).look>>)
  /\ UNCHANGED <<flagVars, eventVars, deleted, queued, transferOwnership, away, runs>>

AutoAlloc(t, e) ==
  /\ At(t, Of(e).alloc)
  /\ event' = [event EXCEPT ![e] = IF @ = "none" THEN "reset" ELSE @]
  /\ Continue(t, << >>)
  /\ UNCHANGED <<flagVars, state, deleted, queued, transferOwnership, away, runs>>

(* Fault: there is no second look.                                         *)
SecondLook_Skipped(t, e) ==
  /\ At(t, Of(e).look)
  /\ Continue(t, <<Of(e).block>>)
  /\ UNCHANGED <<flagVars, eventVars, deleted, queued, transferOwnership, away, runs>>

SecondLook(t, e) ==
  /\ At(t, Of(e).look)
  /\ Continue(t, IF state[e] THEN << >> ELSE <<Of(e).block>>)
  /\ UNCHANGED <<flagVars, eventVars, deleted, queued, transferOwnership, away, runs>>

Unblock(t, e) ==
  /\ At(t, Of(e).block) /\ event[e] = "set"
  /\ Continue(t, << >>)
  /\ UNCHANGED <<flagVars, eventVars, deleted, queued, transferOwnership, away, runs>>

TimedLook(t) ==
  /\ At(t, "waitTimed")
  /\ Continue(t, IF state["executionDone"] THEN << >> ELSE <<"allocDone", "blockTimed">>)
  /\ UNCHANGED <<flagVars, eventVars, deleted, queued, transferOwnership, away, runs>>

(* Signalled or timed out                                                  *)
EndTimed(t) ==
  /\ At(t, "blockTimed")
  /\ Continue(t, << >>)
  /\ UNCHANGED <<flagVars, eventVars, deleted, queued, transferOwnership, away, runs>>

(* Delete looks at "waiting" and executes a job that nobody has claimed.   *)
TestWaiting(t) ==
  /\ At(t, "testWaiting")
  /\ Continue(t, IF waiting THEN <<"claim">> ELSE << >>)
  /\ UNCHANGED <<flagVars, eventVars, deleted, queued, transferOwnership, away, runs>>

DeleteThis(t) ==
  /\ At(t, "delete")
  /\ deleted' = TRUE
  /\ Continue(t, << >>)
  /\ UNCHANGED <<flagVars, eventVars, queued, transferOwnership, away, runs>>

(* What may be left to do when the job is deleted: the end of the calls    *)
(* that made it deletable.                                                 *)
Endings == {"testDone", "setDeletable", "signalDone", "signalDeletable"}

InUse == queued \/ \E t \in Threads : \E i \in DOMAIN todo[t] : todo[t][i] \notin Endings

(* What comes after a job was deleted in use is undefined.                 *)
Step(t) ==
  /\ deleted => ~InUse
  /\ \/ OnSchedule(t) \/ Push(t) \/ Claim(t) \/ Run(t) \/ TestScheduled(t) \/ Unschedule(t)
     \/ TestDone(t) \/ TimedLook(t) \/ EndTimed(t) \/ TestWaiting(t) \/ DeleteThis(t)
     \/ \E e \in Events :
          \/ SetState(t, e) \/ SignalEvent(t, e)
          \/ FirstLook(t, e) \/ AutoAlloc(t, e) \/ SecondLook(t, e) \/ Unblock(t, e)

-----------------------------------------------------------------------------
(* Calls                                                                   *)

(* ThreadFunc with a job that AssignJob extracted.                         *)
Take(w) ==
  /\ todo[w] = << >> /\ queued /\ ~deleted
  /\ queued' = FALSE
  /\ todo' = [todo EXCEPT ![w] = <<"claim", "unschedule">>
                 \o IF transferOwnership THEN <<"delete">> ELSE << >>]
  /\ UNCHANGED <<flagVars, eventVars, deleted, transferOwnership, away, runs>>

(* WaitForEmptyQueue removes the jobs of a stopped scheduler itself, and   *)
(* deletes its own ones although they have never been executed.            *)
Drain(w) ==
  /\ todo[w] = << >> /\ queued /\ ~deleted
  /\ queued' = FALSE /\ drained' = TRUE
  /\ todo' = [todo EXCEPT ![w] = <<"unschedule">>
                 \o IF transferOwnership THEN <<"delete">> ELSE << >>]
  /\ UNCHANGED <<flagVars, eventVars, deleted, transferOwnership, removed, requeued, runs>>

(* A job that belongs to the scheduler is not used by others.              *)
ClientFree == todo[Client] = << >> /\ ~deleted /\ ~transferOwnership
Calls(steps) == todo' = [todo EXCEPT ![Client] = steps]

WaitUntilDone ==
  /\ ClientFree
  /\ \E inlineExecution \in BOOLEAN :
       Calls((IF inlineExecution THEN <<"claim">> ELSE << >>) \o <<"waitDone">>)
  /\ UNCHANGED <<flagVars, eventVars, deleted, queued, transferOwnership, away, runs>>

WaitUntilDoneOrTimeout ==
  /\ ClientFree
  /\ Calls(<<"waitTimed">>)
  /\ UNCHANGED <<flagVars, eventVars, deleted, queued, transferOwnership, away, runs>>

(* Fault: the job is handed out and stays in the queue.                    *)
RemoveJobFromQueue_Keeps ==
  /\ ClientFree /\ queued
  /\ removed' = TRUE
  /\ Calls(<<"unschedule">>)
  /\ UNCHANGED <<flagVars, eventVars, deleted, queued, transferOwnership, drained,
                 requeued, runs>>

(* The job is among those that RemoveJobFromQueue takes.                   *)
RemoveJobFromQueue ==
  /\ ClientFree /\ queued
  /\ queued' = FALSE /\ removed' = TRUE
  /\ Calls(<<"unschedule">>)
  /\ UNCHANGED <<flagVars, eventVars, deleted, transferOwnership, drained, requeued, runs>>

(* What was removed and not terminated is put back, executed or not.       *)
ScheduleAgain ==
  /\ ClientFree /\ removed /\ ~terminated
  /\ removed' = FALSE /\ requeued' = (requeued \/ ~waiting)
  /\ Calls(<<"onSchedule", "push">>)
  /\ UNCHANGED <<flagVars, eventVars, deleted, queued, transferOwnership, drained, runs>>

(* By the client, or by whoever terminates a job that contains this one.   *)
Terminate ==
  /\ ~deleted /\ ~transferOwnership /\ ~terminated
  /\ terminated' = TRUE
  /\ UNCHANGED <<waiting, scheduled, eventVars, deleted, queued, transferOwnership, away, todo, runs>>

Delete ==
  /\ ClientFree
  /\ \E terminate \in BOOLEAN : terminated' = (terminated \/ terminate)
  /\ Calls(<<"testWaiting", "waitDeletable", "delete">>)
  /\ UNCHANGED <<waiting, scheduled, eventVars, deleted, queued, transferOwnership, away, runs>>

Next ==
  \/ \E t \in Threads : Step(t)
  \/ \E w \in Workers : Take(w) \/ Drain(w)
  \/ WaitUntilDone \/ WaitUntilDoneOrTimeout \/ RemoveJobFromQueue \/ ScheduleAgain
  \/ Terminate \/ Delete

Spec == Init /\ [][Next]_vars

(* Threads run, InternalExecute ends, and no job stays in the queue of a   *)
(* stopped scheduler.                                                      *)
FairSpec ==
  /\ Spec
  /\ \A t \in Threads : WF_vars(Step(t))
  /\ \A w \in Workers : WF_vars(Take(w))

-----------------------------------------------------------------------------
Steps ==
  {"onSchedule", "push", "claim", "run", "testScheduled", "unschedule", "testDone",
   "setDone", "setDeletable", "signalDone", "signalDeletable", "waitDone", "waitDeletable",
   "allocDone", "allocDeletable", "lookDone", "lookDeletable", "blockDone", "blockDeletable", "waitTimed", "blockTimed",
   "testWaiting", "delete"}

TypeOK ==
  /\ waiting \in BOOLEAN /\ terminated \in BOOLEAN /\ scheduled \in BOOLEAN
  /\ state \in [Events -> BOOLEAN] /\ event \in [Events -> {"none", "reset", "set"}]
  /\ deleted \in BOOLEAN /\ queued \in BOOLEAN /\ transferOwnership \in BOOLEAN
  /\ removed \in BOOLEAN /\ drained \in BOOLEAN /\ requeued \in BOOLEAN
  /\ runs \in {0, 1}
  /\ \A t \in Threads : Len(todo[t]) <= 5 /\ \A i \in 1..Len(todo[t]) : todo[t][i] \in Steps

(* "Jobs will be executed only once" (IJob.h:34), whoever of worker,       *)
(* waiting client and Delete gets there first: one thread at most has the  *)
(* execution before it, and none while the job counts as waiting.          *)
OneExecutor ==
  LET executors == {t \in Threads : \E i \in DOMAIN todo[t] : todo[t][i] \in {"run", "setDone"}}
  IN  Cardinality(executors) <= IF waiting THEN 0 ELSE 1

(* "The job must not be deleted before [OnUnSchedule] has been called"     *)
(* (IJob.h:92): when it is deleted it is in no queue, and nobody runs it   *)
(* or waits for it.  A job that was executed, removed from the queue and   *)
(* put back breaks this: it is deletable before it is scheduled again.     *)
NotDeletedInQueue == deleted => ~InUse

(* The assertions of OnSchedule and OnUnSchedule hold, and the one of the  *)
(* destructor does unless a stopped scheduler deletes its own job, which   *)
(* is never deletable then (JobScheduler.cpp:534, JobBase.cpp:58).         *)
CodeAssertions ==
  \A t \in Threads :
    /\ At(t, "onSchedule") => ~scheduled
    /\ At(t, "unschedule") => scheduled
    /\ At(t, "delete") => (state["deletable"] <=> ~(drained /\ transferOwnership))

(* A thread does not sleep over an event whose state was set, although the *)
(* handle is made only when somebody waits and the state is set without a  *)
(* lock: the handle is signalled, or a setter is about to do so.           *)
NoMissedSignal ==
  \A t \in Threads, e \in Events : At(t, Of(e).block) /\ state[e] =>
    event[e] = "set" \/ \E u \in Threads : At(u, Of(e).signal)

(* The flags, the two events, the queue and the calls under way fit        *)
(* together; only a job that was put back after somebody had claimed it    *)
(* may be deleted in use.                                                  *)
JobInv ==
  /\ TypeOK /\ OneExecutor /\ CodeAssertions /\ NoMissedSignal
  /\ requeued \/ NotDeletedInQueue

Waiting(t) == \E step \in {"waitDone", "allocDone", "lookDone", "blockDone"} : At(t, step)

(* Whoever comes back from WaitUntilDone finds the job executed, or        *)
(* terminated before.                                                      *)
ResultIsThere ==
  [][\A t \in Threads :
       Waiting(t) /\ todo'[t] = << >> => runs = 1 \/ terminated]_vars

(* Delete comes back, whether the job waits, runs, or was executed while   *)
(* it was still in the queue.                                              *)
DeleteEnds == At(Client, "testWaiting") ~> deleted

(* So does WaitUntilDone, unless the job is out of the queue before        *)
(* anybody has claimed it.                                                 *)
WaitEnds ==
  At(Client, "waitDone") ~> ~Waiting(Client) \/ (waiting /\ (removed \/ drained))

=============================================================================
