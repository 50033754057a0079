----------------------------- MODULE JobScheduler -----------------------------
(***************************************************************************)
(* CJobScheduler and its thread pools (JobScheduler.h and .cpp in          *)
(* src/src/AsyncFramework): schedulers with private threads that borrow    *)
(* from one shared pool, and register as "starving" when it is empty.      *)
(*                                                                         *)
(* A step is what happens under one critical section of the pool, together *)
(* with what the scheduler's own mutex hides.  The mutex of a scheduler is *)
(* held across several such steps; the pool's never is.  Jobs are alike    *)
(* and the queue is its length: which job comes next is not modelled.      *)
(* A thread (CThread) is identified by its SThreadInfo.                    *)
(***************************************************************************)
EXTENDS Ordered, SequencesExt

CONSTANTS
  Schedulers,
  Clients,         \* threads that use schedulers and belong to none
  Workers,         \* threads that schedulers and pool may create
  NoOne,
  ThreadCount,     \* private threads of a scheduler
  MaxFromShared,   \* threads it may borrow
  HWThreads,       \* how many processors there may be; for each of these numbers:
  Aggressive,      \* which schedulers were made with aggressiveThreading
  MaxJobs,         \* bound on the calls of Schedule
  MaxStops,        \* bound on the calls of Stop
  MaxCalls         \* bound on the other calls

ASSUME NoOneAssumption == NoOne \notin Schedulers \cup Clients \cup Workers
ASSUME WhoAssumption == Clients \cap Workers = {}

(* One pair for each of the threads that f counts for the schedulers.      *)
Each(f) == UNION {{s} \X (1..f[s]) : s \in Schedulers}

(* Every scheduler may have a thread, and there are enough for all.        *)
ASSUME CountAssumption ==
  /\ IsFiniteSet(Schedulers)
  /\ ThreadCount \in [Schedulers -> Nat] /\ MaxFromShared \in [Schedulers -> Nat]
  /\ HWThreads \subseteq Nat \ {0} /\ MaxJobs \in [HWThreads -> Nat]
  /\ MaxStops \in Nat /\ MaxCalls \in Nat
  /\ Aggressive \in [HWThreads -> SUBSET Schedulers]
  /\ \A s \in Schedulers : ThreadCount[s] + MaxFromShared[s] > 0
  /\ IsFiniteSet(Workers)
  /\ \A n \in HWThreads : Cardinality(Workers) >= n + Cardinality(Each(ThreadCount))

VARIABLES
  \* a scheduler
  mutex,             \* who holds it between two steps
  queue,             \* jobs waiting
  running, suspended,\* threads.running and threads.suspended
  yetToCreate, fromShared, starved, stopCount,
  emptyEvent,
  aggressiveThreading,
  alive,             \* "open", "closing" in its destructor, "gone"
  \* CThreadPool
  maxCount, pool, allocCount, sharedYetToCreate, starving,
  \* a thread
  wpc,               \* where it is
  at,                \* the scheduler whose AssignJob it is in
  target,            \* the starving scheduler it notifies
  owner,             \* SThreadInfo::owner
  sleeping,          \* CThread::suspended
  \* clients
  cpc, on, jobs, stops, calls,
  passedOver,        \* history: notified, and left without a thread
  overtaken          \* history: waits, and its event was reset by a Schedule

lifeVars == <<alive, aggressiveThreading>>
waitVars == <<emptyEvent, overtaken>>
schedVars == <<mutex, queue, stopCount, waitVars, lifeVars>>
threadVars == <<running, suspended, yetToCreate, fromShared, owner, sleeping>>
poolVars == <<maxCount, pool, allocCount, sharedYetToCreate>>
hungerVars == <<starving, starved, passedOver>>
workerVars == <<wpc, at, target>>
budgetVars == <<jobs, stops, calls>>
clientVars == <<cpc, on, budgetVars>>
vars == <<schedVars, threadVars, poolVars, hungerVars, workerVars, clientVars>>

(* No thread runs yet; the first scheduler has set up the pool.            *)
Init ==
  /\ maxCount \in HWThreads
  /\ mutex = [s \in Schedulers |-> NoOne]
  /\ queue = [s \in Schedulers |-> 0]
  /\ running = [s \in Schedulers |-> {}]
  /\ suspended = [s \in Schedulers |-> {}]
  /\ yetToCreate = ThreadCount
  /\ fromShared = [s \in Schedulers |-> 0]
  /\ starved = [s \in Schedulers |-> FALSE]
  /\ stopCount = [s \in Schedulers |-> 0]
  /\ emptyEvent = [s \in Schedulers |-> FALSE]
  /\ alive = [s \in Schedulers |-> "open"]
  /\ aggressiveThreading = [s \in Schedulers |-> s \in Aggressive[maxCount]]
  /\ sharedYetToCreate = maxCount /\ pool = {} /\ allocCount = 0
  /\ starving = << >>
  /\ wpc = [w \in Workers |-> "loop"]
  /\ at = [w \in Workers |-> NoOne]
  /\ target = [w \in Workers |-> NoOne]
  /\ owner = [w \in Workers |-> NoOne]
  /\ sleeping = [w \in Workers |-> TRUE]
  /\ cpc = [c \in Clients |-> "idle"]
  /\ on = [c \in Clients |-> NoOne]
  /\ jobs = 0 /\ stops = 0 /\ calls = 0
  /\ passedOver = [s \in Schedulers |-> FALSE]
  /\ overtaken = {}

runningCount(s) == Cardinality(running[s])
unusedCount(s) == ThreadCount[s] + MaxFromShared[s] - runningCount(s)

(* Threads that do not exist: they are in no list and in no code.          *)
Unborn ==
  {w \in Workers : wpc[w] = "loop"}
    \ (pool \cup UNION {running[s] \cup suspended[s] : s \in Schedulers})

-----------------------------------------------------------------------------
(* Getting a thread; the caller holds the scheduler's mutex.               *)

HasPrivate(s) == suspended[s] # {} \/ yetToCreate[s] > 0
MayBorrow(s) == ~HasPrivate(s) /\ fromShared[s] < MaxFromShared[s] /\ ~starved[s]
SharedLeft == pool # {} \/ sharedYetToCreate > 0

Resumed(s, w) ==
  /\ running' = [running EXCEPT ![s] = @ \cup {w}]
  /\ owner' = [owner EXCEPT ![w] = s]
  /\ sleeping' = [sleeping EXCEPT ![w] = FALSE]
  /\ passedOver' = [passedOver EXCEPT ![s] = FALSE]

AllocatePrivate(s) ==
  /\ HasPrivate(s)
  /\ IF suspended[s] # {}
     THEN LET w == CHOOSE w \in suspended[s] : TRUE IN
          /\ Resumed(s, w)
          /\ suspended' = [suspended EXCEPT ![s] = @ \ {w}]
          /\ UNCHANGED yetToCreate
     ELSE /\ Resumed(s, CHOOSE w \in Unborn : TRUE)
          /\ yetToCreate' = [yetToCreate EXCEPT ![s] = @ - 1]
          /\ UNCHANGED suspended
  /\ UNCHANGED <<fromShared, poolVars>>

(* Fault: a thread that is started is not counted as handed out.           *)
TryAlloc_Uncounted(w) ==
  IF pool # {}
  THEN /\ w = CHOOSE x \in pool : TRUE
       /\ pool' = pool \ {w} /\ allocCount' = allocCount + 1
       /\ UNCHANGED <<maxCount, sharedYetToCreate>>
  ELSE /\ sharedYetToCreate > 0
       /\ w = CHOOSE x \in Unborn : TRUE
       /\ sharedYetToCreate' = sharedYetToCreate - 1
       /\ UNCHANGED <<maxCount, pool, allocCount>>

(* The thread the shared pool hands out, one that waits or a new one.      *)
TryAlloc(w) ==
  IF pool # {}
  THEN /\ w = CHOOSE x \in pool : TRUE
       /\ pool' = pool \ {w} /\ allocCount' = allocCount + 1
       /\ UNCHANGED <<maxCount, sharedYetToCreate>>
  ELSE /\ sharedYetToCreate > 0
       /\ w = CHOOSE x \in Unborn : TRUE
       /\ sharedYetToCreate' = sharedYetToCreate - 1
       /\ allocCount' = allocCount + 1
       /\ UNCHANGED <<maxCount, pool>>

AllocateShared(s) ==
  /\ MayBorrow(s)
  /\ \E w \in Workers : TryAlloc(w) /\ Resumed(s, w)
  /\ fromShared' = [fromShared EXCEPT ![s] = @ + 1]
  /\ UNCHANGED <<suspended, yetToCreate>>

(* TryAlloc returned NULL; AddStarving is a step of its own.               *)
BecomesStarved(s) ==
  /\ MayBorrow(s) /\ ~SharedLeft
  /\ starved' = [starved EXCEPT ![s] = TRUE]
  /\ UNCHANGED <<threadVars, poolVars, passedOver>>

AllocateThread(s) == (AllocatePrivate(s) \/ AllocateShared(s)) /\ UNCHANGED starved

NoThreadToGet(s) == ~HasPrivate(s) /\ ~MayBorrow(s)

-----------------------------------------------------------------------------
(* Clients                                                                 *)

Goto(c, pc, s) == cpc' = [cpc EXCEPT ![c] = pc] /\ on' = [on EXCEPT ![c] = s]

(* A client calls a method of a scheduler whose mutex is free.             *)
MayCall(c, s) == cpc[c] = "idle" /\ alive[s] = "open" /\ mutex[s] = NoOne
Call(c, s) == MayCall(c, s) /\ calls < MaxCalls /\ calls' = calls + 1 /\ UNCHANGED <<jobs, stops>>

AddThread(s) ==
  /\ stopCount[s] = 0
  /\ aggressiveThreading[s] \/ (queue[s] + 1 > 2 * runningCount(s) /\ unusedCount(s) > 0)

Waits(c) == cpc[c] \in {"waitEmpty", "waitClosing"}

Pushed(s) ==
  /\ queue' = [queue EXCEPT ![s] = @ + 1]
  /\ emptyEvent' = [emptyEvent EXCEPT ![s] = @ /\ queue[s] > 0]
  /\ overtaken' = overtaken \cup
       {c \in Clients : Waits(c) /\ on[c] = s /\ emptyEvent[s] /\ queue[s] = 0 /\ stopCount[s] # 0}

Schedule(c, s) ==
  /\ MayCall(c, s) /\ jobs < MaxJobs[maxCount]
  /\ jobs' = jobs + 1
  /\ Pushed(s)
  /\ \/ /\ ~AddThread(s) \/ NoThreadToGet(s)
        /\ UNCHANGED <<threadVars, poolVars, starved, passedOver, mutex, cpc, on>>
     \/ AddThread(s) /\ AllocateThread(s) /\ UNCHANGED <<mutex, cpc, on>>
     \/ /\ AddThread(s) /\ BecomesStarved(s)
        /\ mutex' = [mutex EXCEPT ![s] = c]
        /\ Goto(c, "register", s)
  /\ UNCHANGED <<stopCount, lifeVars,
                 starving, workerVars, stops, calls>>

(* AddStarving in Schedule or Resume, and the end of these.                *)
Register(c) ==
  /\ cpc[c] = "register"
  /\ starving' = Append(starving, on[c])
  /\ mutex' = [mutex EXCEPT ![on[c]] = NoOne]
  /\ Goto(c, "idle", NoOne)
  /\ UNCHANGED <<queue, stopCount, waitVars, lifeVars,
                 threadVars, poolVars, starved, passedOver, workerVars, budgetVars>>

RemoveJobFromQueue(c, s) ==
  /\ Call(c, s)
  /\ \E watermark \in 0..queue[s] - 1 : queue' = [queue EXCEPT ![s] = watermark]
  /\ UNCHANGED <<mutex, stopCount, waitVars, lifeVars,
                 threadVars, poolVars, hungerVars, workerVars, cpc, on>>

(* A CSchedulerSuspension is made with Stop and calls Resume at its end;   *)
(* its owner may go on using the scheduler in between.                     *)
Stop(c, s) ==
  /\ MayCall(c, s) /\ stops < MaxStops
  /\ stops' = stops + 1
  /\ stopCount' = [stopCount EXCEPT ![s] = @ + 1]
  /\ UNCHANGED <<mutex, queue, waitVars, lifeVars,
                 threadVars, poolVars, hungerVars, workerVars, cpc, on, jobs, calls>>

Resume(c, s) ==
  /\ MayCall(c, s) /\ stopCount[s] > 0
  /\ stopCount' = [stopCount EXCEPT ![s] = @ - 1]
  /\ IF stopCount[s] = 1
     THEN mutex' = [mutex EXCEPT ![s] = c] /\ Goto(c, "resume", s)
     ELSE UNCHANGED <<mutex, cpc, on>>
  /\ UNCHANGED <<queue, waitVars, lifeVars,
                 threadVars, poolVars, hungerVars, workerVars, budgetVars>>

(* Fault: schedulers without aggressive threading are not resumed.         *)
MoreThreads_Aggressive(s) == queue[s] > runningCount(s) /\ aggressiveThreading[s]

MoreThreads(s) ==
  \/ queue[s] > runningCount(s) /\ aggressiveThreading[s]
  \/ queue[s] > 4 * runningCount(s) /\ unusedCount(s) > 0

ResumeThreads(c) ==
  /\ cpc[c] = "resume"
  /\ LET s == on[c] IN
     \/ /\ MoreThreads(s) /\ AllocateThread(s)
        /\ UNCHANGED <<mutex, cpc, on>>
     \/ MoreThreads(s) /\ BecomesStarved(s) /\ Goto(c, "register", s) /\ UNCHANGED mutex
     \/ /\ ~MoreThreads(s) \/ NoThreadToGet(s)
        /\ mutex' = [mutex EXCEPT ![s] = NoOne]
        /\ Goto(c, "idle", NoOne)
        /\ UNCHANGED <<threadVars, poolVars, starved, passedOver>>
  /\ UNCHANGED <<queue, stopCount, waitVars, lifeVars,
                 starving, workerVars, budgetVars>>

(* WaitForEmptyQueue, with or without a time-out; the destructor's own     *)
(* call is the one of "Closing".                                           *)
WaitForEmptyQueue(c, s) ==
  /\ Call(c, s)
  /\ Goto(c, "checkEmpty", s)
  /\ UNCHANGED <<schedVars, threadVars, poolVars, hungerVars, workerVars>>

(* Fault: jobs of a stopped scheduler are left in the queue.               *)
Drained_Kept(s) == queue[s]

Drained(s) == IF stopCount[s] # 0 THEN 0 ELSE queue[s]

(* The destructor ends with the deletion of the suspended threads.         *)
CheckEmpty(c) ==
  /\ cpc[c] \in {"checkEmpty", "checkClosing"}
  /\ LET s == on[c]
         done == running[s] = {} /\ Drained(s) = 0
         gone == done /\ cpc[c] = "checkClosing" IN
     /\ mutex[s] = NoOne
     /\ queue' = [queue EXCEPT ![s] = Drained(s)]
     /\ suspended' = [suspended EXCEPT ![s] = IF gone THEN {} ELSE @]
     /\ alive' = [alive EXCEPT ![s] = IF gone THEN "gone" ELSE @]
     /\ emptyEvent' = [emptyEvent EXCEPT ![s] = @ /\ done]
     /\ IF done THEN Goto(c, "idle", NoOne)
        ELSE Goto(c, IF cpc[c] = "checkEmpty" THEN "waitEmpty" ELSE "waitClosing", s)
  /\ UNCHANGED <<mutex, stopCount, aggressiveThreading,
                 running, yetToCreate, fromShared, owner, sleeping,
                 overtaken, poolVars, hungerVars, workerVars, budgetVars>>

WaitEnds(c) ==
  /\ overtaken' = overtaken \ {c}
  /\ UNCHANGED <<mutex, queue, stopCount, emptyEvent, lifeVars,
                 threadVars, poolVars, hungerVars, workerVars, budgetVars>>

EmptyWoken(c) ==
  /\ Waits(c)
  /\ emptyEvent[on[c]]
  /\ Goto(c, IF cpc[c] = "waitEmpty" THEN "checkEmpty" ELSE "checkClosing", on[c])
  /\ WaitEnds(c)

EmptyTimeout(c) ==
  /\ cpc[c] = "waitEmpty"
  /\ Goto(c, "idle", NoOne)
  /\ WaitEnds(c)

-----------------------------------------------------------------------------
(* The destructor: StopStarvation without the mutex, then                  *)
(* WaitForEmptyQueue and the end (CheckEmpty).  A CSchedulerSuspension     *)
(* uses the scheduler in its destructor: it is gone before.                *)

Destroy(c, s) ==
  /\ Call(c, s)
  /\ stopCount[s] = 0 /\ \A d \in Clients \ {c} : on[d] # s
  /\ alive' = [alive EXCEPT ![s] = "closing"]
  /\ Goto(c, IF starved[s] THEN "unregister" ELSE "checkClosing", s)
  /\ UNCHANGED <<aggressiveThreading, mutex, queue, stopCount, waitVars,
                 threadVars, poolVars, hungerVars, workerVars>>

(* RemoveStarving                                                          *)
Unregistered(s) ==
  /\ Contains(starving, s)
  /\ starving' = Selected(starving, {i \in DOMAIN starving : starving[i] # s})
  /\ starved' = [starved EXCEPT ![s] = FALSE]

(* Fault: the destructor does not wait for the notification under way.     *)
UnregisterClosing_OneTry(c) ==
  /\ cpc[c] = "unregister"
  /\ IF starved[on[c]] /\ Contains(starving, on[c])
     THEN Unregistered(on[c])
     ELSE UNCHANGED <<starving, starved>>
  /\ Goto(c, "checkClosing", on[c])
  /\ UNCHANGED <<schedVars, threadVars, poolVars, passedOver, workerVars, budgetVars>>

(* StopStarvation; if the scheduler is not registered it tries again.      *)
UnregisterClosing(c) ==
  /\ cpc[c] = "unregister"
  /\ IF starved[on[c]] THEN Unregistered(on[c]) ELSE UNCHANGED <<starving, starved>>
  /\ Goto(c, "checkClosing", on[c])
  /\ UNCHANGED <<schedVars, threadVars, poolVars, passedOver, workerVars, budgetVars>>

-----------------------------------------------------------------------------
(* Threads of the pools                                                    *)

MoveTo(w, pc) == wpc' = [wpc EXCEPT ![w] = pc]

(* AssignJob with a job to do.                                             *)
TakeJob(w) ==
  /\ wpc[w] = "loop" /\ ~sleeping[w]
  /\ LET s == owner[w] IN
     /\ mutex[s] = NoOne
     /\ queue[s] > 0 /\ stopCount[s] = 0
     /\ queue' = [queue EXCEPT ![s] = @ - 1]
  /\ MoveTo(w, "exec")
  /\ UNCHANGED <<mutex, stopCount, waitVars, lifeVars,
                 threadVars, poolVars, hungerVars, at, target, clientVars>>

(* The job is executed.                                                    *)
JobEnds(w) ==
  /\ wpc[w] = "exec"
  /\ MoveTo(w, "loop")
  /\ UNCHANGED <<schedVars, threadVars, poolVars, hungerVars, at, target, clientVars>>

SignalEmpty(s, rest) == emptyEvent' = [emptyEvent EXCEPT ![s] = @ \/ rest = {}]

(* Fault: the last borrowed thread is not paid back.                       *)
InDebt_OffByOne(s) == fromShared[s] > 1

InDebt(s) == fromShared[s] > 0

(* AssignJob without a job: the thread leaves "running".  If the scheduler *)
(* owes a thread, this one is paid back, and the mutex is kept meanwhile;  *)
(* otherwise the thread is kept, or ended for a new one if threading is    *)
(* aggressive.                                                             *)
RunsIdle(w) ==
  /\ wpc[w] = "loop" /\ ~sleeping[w]
  /\ LET s == owner[w] IN
     /\ mutex[s] = NoOne
     /\ queue[s] = 0 \/ stopCount[s] # 0
     /\ running' = [running EXCEPT ![s] = @ \ {w}]
     /\ \/ /\ InDebt(s)
           /\ mutex' = [mutex EXCEPT ![s] = w]
           /\ at' = [at EXCEPT ![w] = s]
           /\ MoveTo(w, IF starved[s] THEN "stopStarving" ELSE "release")
           /\ UNCHANGED <<suspended, yetToCreate, emptyEvent>>
        \/ /\ ~InDebt(s)
           /\ IF aggressiveThreading[s]
              THEN yetToCreate' = [yetToCreate EXCEPT ![s] = @ + 1] /\ UNCHANGED suspended
              ELSE suspended' = [suspended EXCEPT ![s] = @ \cup {w}] /\ UNCHANGED yetToCreate
           /\ SignalEmpty(s, running[s] \ {w})
           /\ UNCHANGED <<mutex, at, wpc>>
  /\ sleeping' = [sleeping EXCEPT ![w] = TRUE]
  /\ UNCHANGED <<queue, stopCount, overtaken, lifeVars, fromShared, owner,
                 poolVars, hungerVars, target, clientVars>>

(* StopStarvation under the mutex.                                         *)
StopStarvation(w) ==
  /\ wpc[w] = "stopStarving"
  /\ IF starved[at[w]] THEN Unregistered(at[w]) ELSE UNCHANGED <<starving, starved>>
  /\ MoveTo(w, "release")
  /\ UNCHANGED <<schedVars, threadVars, poolVars, passedOver, at, target, clientVars>>

(* The end of AssignJob after Release.                                     *)
PaidBack(w) ==
  LET s == at[w] IN
  /\ fromShared' = [fromShared EXCEPT ![s] = @ - 1]
  /\ SignalEmpty(s, running[s])
  /\ mutex' = [mutex EXCEPT ![s] = NoOne]
  /\ at' = [at EXCEPT ![w] = NoOne]
  /\ MoveTo(w, "loop")

(* CThreadPool::Release up to the notification of the starving.  A thread  *)
(* too many would wait for its own end.                                    *)
Release(w) ==
  /\ wpc[w] = "release"
  /\ owner' = [owner EXCEPT ![w] = NoOne]
  /\ allocCount' = allocCount - 1
  /\ IF Cardinality(pool) + allocCount - 1 < maxCount
     THEN /\ pool' = pool \cup {w}
          /\ IF starving = << >>
             THEN PaidBack(w)
             ELSE MoveTo(w, "select") /\ UNCHANGED <<fromShared, emptyEvent, mutex, at>>
     ELSE /\ MoveTo(w, "endsItself")
          /\ UNCHANGED <<pool, fromShared, emptyEvent, mutex, at>>
  /\ UNCHANGED <<queue, stopCount, overtaken, lifeVars, running, suspended,
                 yetToCreate, sleeping, maxCount, sharedYetToCreate, hungerVars, target, clientVars>>

SelectStarving(w) ==
  /\ wpc[w] = "select"
  /\ IF starving = << >> \/ pool = {}
     THEN PaidBack(w) /\ UNCHANGED <<starving, target>>
     ELSE /\ target' = [target EXCEPT ![w] = Head(starving)]
          /\ starving' = Tail(starving)
          /\ MoveTo(w, "notify")
          /\ UNCHANGED <<fromShared, emptyEvent, mutex, at>>
  /\ UNCHANGED <<queue, stopCount, overtaken, lifeVars, running, suspended,
                 yetToCreate, owner, sleeping, poolVars, starved, passedOver, clientVars>>

WantsMore(s) ==
  /\ stopCount[s] # 0
  /\ queue[s] > 2 * runningCount(s)
  /\ suspended[s] = {} /\ yetToCreate[s] = 0
  /\ fromShared[s] < MaxFromShared[s]

(* The end of ThreadAvailable.                                             *)
LeaveAvailable(w) ==
  /\ passedOver' = [passedOver EXCEPT ![target[w]] = @ \/ running[target[w]] = {}]
  /\ target' = [target EXCEPT ![w] = NoOne]
  /\ MoveTo(w, "select")

(* Fault: the flag is not reset.                                           *)
NotStarved_Missed(s) == UNCHANGED starved

NotStarved(s) == starved' = [starved EXCEPT ![s] = FALSE]

(* ThreadAvailable: the mutex of the notified scheduler is taken, ...      *)
ThreadAvailable(w) ==
  /\ wpc[w] = "notify" /\ mutex[target[w]] = NoOne
  /\ NotStarved(target[w])
  /\ IF WantsMore(target[w])
     THEN /\ mutex' = [mutex EXCEPT ![target[w]] = w]
          /\ MoveTo(w, "available")
          /\ UNCHANGED <<passedOver, target>>
     ELSE LeaveAvailable(w) /\ UNCHANGED mutex
  /\ UNCHANGED <<queue, stopCount, waitVars, lifeVars,
                 threadVars, poolVars, starving, at, clientVars>>

(* ... threads are taken ...                                               *)
AvailableTaken(w) ==
  /\ wpc[w] = "available"
  /\ WantsMore(target[w])
  /\ AllocateShared(target[w])
  /\ UNCHANGED <<schedVars, starving, starved, workerVars, clientVars>>

(* ... until there are none left, ...                                      *)
AvailableStarves(w) ==
  /\ wpc[w] = "available"
  /\ WantsMore(target[w])
  /\ BecomesStarved(target[w])
  /\ MoveTo(w, "registerAgain")
  /\ UNCHANGED <<schedVars, starving, at, target, clientVars>>

RegisterAgain(w) ==
  /\ wpc[w] = "registerAgain"
  /\ starving' = Append(starving, target[w])
  /\ mutex' = [mutex EXCEPT ![target[w]] = NoOne]
  /\ target' = [target EXCEPT ![w] = NoOne]
  /\ MoveTo(w, "select")
  /\ UNCHANGED <<queue, stopCount, waitVars, lifeVars,
                 threadVars, poolVars, starved, passedOver, at, clientVars>>

(* ... or no more are wanted.                                              *)
AvailableEnds(w) ==
  /\ wpc[w] = "available"
  /\ ~WantsMore(target[w])
  /\ mutex' = [mutex EXCEPT ![target[w]] = NoOne]
  /\ LeaveAvailable(w)
  /\ UNCHANGED <<queue, stopCount, waitVars, lifeVars,
                 threadVars, poolVars, starving, starved, at, clientVars>>

-----------------------------------------------------------------------------
Worker(w) ==
  \/ TakeJob(w) \/ JobEnds(w) \/ RunsIdle(w) \/ StopStarvation(w) \/ Release(w)
  \/ SelectStarving(w) \/ ThreadAvailable(w) \/ AvailableTaken(w) \/ AvailableStarves(w)
  \/ RegisterAgain(w) \/ AvailableEnds(w)

(* A call that was made goes on.                                           *)
ClientGoesOn(c) ==
  \/ Register(c) \/ ResumeThreads(c) \/ CheckEmpty(c) \/ EmptyWoken(c)
  \/ UnregisterClosing(c)

ClientCalls(c, s) ==
  \/ Schedule(c, s) \/ RemoveJobFromQueue(c, s) \/ Stop(c, s) \/ WaitForEmptyQueue(c, s)
  \/ Destroy(c, s)

Next ==
  \/ \E w \in Workers : Worker(w)
  \/ \E c \in Clients :
       ClientGoesOn(c) \/ EmptyTimeout(c) \/ \E s \in Schedulers : Resume(c, s) \/ ClientCalls(c, s)

Spec == Init /\ [][Next]_vars

(* Threads run, jobs end, calls go on, and a suspension ends with its      *)
(* scope.                                                                  *)
FairSpec ==
  /\ Spec
  /\ \A w \in Workers : WF_vars(Worker(w))
  /\ \A c \in Clients : WF_vars(ClientGoesOn(c))
  /\ \A s \in Schedulers : WF_vars(\E c \in Clients : Resume(c, s))

-----------------------------------------------------------------------------
(* The bounds of the model.                                                *)
Bounded ==
  /\ queue \in [Schedulers -> 0..MaxJobs[maxCount]] /\ jobs \in 0..MaxJobs[maxCount]
  /\ stops \in 0..MaxStops /\ calls \in 0..MaxCalls

TypeOK ==
  /\ Bounded
  /\ mutex \in [Schedulers -> Workers \cup Clients \cup {NoOne}]
  /\ running \in [Schedulers -> SUBSET Workers] /\ suspended \in [Schedulers -> SUBSET Workers]
  /\ yetToCreate \in [Schedulers -> Nat] /\ fromShared \in [Schedulers -> Nat]
  /\ starved \in [Schedulers -> BOOLEAN] /\ stopCount \in [Schedulers -> Nat]
  /\ emptyEvent \in [Schedulers -> BOOLEAN]
  /\ alive \in [Schedulers -> {"open", "closing", "gone"}]
  /\ pool \subseteq Workers /\ allocCount \in Nat /\ sharedYetToCreate \in Nat
  /\ starving \in Seq(Schedulers)
  /\ wpc \in [Workers -> {"loop", "exec", "stopStarving", "release", "select", "notify",
                         "available", "registerAgain", "endsItself"}]
  /\ at \in [Workers -> Schedulers \cup {NoOne}] /\ target \in [Workers -> Schedulers \cup {NoOne}]
  /\ owner \in [Workers -> Schedulers \cup {NoOne}] /\ sleeping \in [Workers -> BOOLEAN]
  /\ cpc \in [Clients -> {"idle", "register", "resume", "checkEmpty", "checkClosing",
                         "waitEmpty", "waitClosing", "unregister"}]
  /\ on \in [Clients -> Schedulers \cup {NoOne}]
  /\ maxCount \in HWThreads
  /\ aggressiveThreading \in [Schedulers -> BOOLEAN]
  /\ passedOver \in [Schedulers -> BOOLEAN] /\ overtaken \subseteq Clients

(* The scheduler's data is not in the middle of a change.                  *)
Free(s) == mutex[s] = NoOne

(* "threads handed out plus threads still in the pool will not exceed      *)
(* maxCount" (JobScheduler.h:229-231), although a scheduler gives back     *)
(* other threads than it borrowed; so no thread has to end itself in       *)
(* Release, where it would wait for its own end under two locks.           *)
ThreadsAccounted ==
  /\ Cardinality(pool) + allocCount + sharedYetToCreate = maxCount
  /\ \A s \in Schedulers : Free(s) /\ alive[s] # "gone" =>
       runningCount(s) + Cardinality(suspended[s]) + yetToCreate[s] = ThreadCount[s] + fromShared[s]
  /\ \A w \in Workers : wpc[w] # "endsItself"

(* fromShared "must be 0, if suspended is not empty" (JobScheduler.h:357): *)
(* a scheduler with idle threads of its own does not keep borrowed ones    *)
(* from others, whichever threads run idle in which order.                 *)
DebtPaidFirst == \A s \in Schedulers : Free(s) /\ fromShared[s] > 0 => suspended[s] = {}

(* A scheduler that counts as starving is in the pool's list or about to   *)
(* be notified: otherwise StopStarvation would loop for ever, and the      *)
(* scheduler would never borrow a thread again.                            *)
StarvedIsRegistered ==
  \A s \in Schedulers : starved[s] =>
    \/ Contains(starving, s)
    \/ \E w \in Workers : wpc[w] \in {"notify", "registerAgain"} /\ target[w] = s
    \/ \E c \in Clients : cpc[c] = "register" /\ on[c] = s

(* Jobs are not left without a thread, whatever Schedule, Resume and the   *)
(* threads that run idle decide from; the exception is a scheduler without *)
(* threads of its own that waits for the pool, or that ThreadAvailable     *)
(* left alone (JobScheduler.cpp:501 tests stopCount for not being 0), or   *)
(* whose destructor has taken it from the list.                            *)
NoStrandedJobs ==
  \A s \in Schedulers : Free(s) /\ queue[s] > 0 /\ stopCount[s] = 0 =>
    \/ running[s] # {}
    \/ ThreadCount[s] = 0 /\ (starved[s] \/ passedOver[s] \/ alive[s] = "closing")

(* Whoever sleeps until the queue is empty will be woken: something is     *)
(* still running that signals the event when it ends.  A scheduler without *)
(* private threads may have none (see NoStrandedJobs), and then            *)
(* RemoveJobFromQueue, which signals nothing, may even empty its queue.    *)
(* The same goes for a stopped scheduler whose event was set, when a       *)
(* client schedules a job before the one that waits has come to run.       *)
EmptyWaitersCovered ==
  \A c \in Clients :
    /\ Waits(c) /\ c \notin overtaken
    /\ Free(on[c]) /\ ~emptyEvent[on[c]] /\ ThreadCount[on[c]] > 0
    => running[on[c]] # {}

(* Nobody notifies a scheduler that is deleted, no thread belongs to it.   *)
NotUsedWhenGone ==
  \A s \in Schedulers : alive[s] = "gone" =>
    /\ \A w \in Workers : target[w] # s /\ at[w] # s
    /\ running[s] = {} /\ suspended[s] = {} /\ ~Contains(starving, s)

(* What the schedulers and the pool know of threads, debts and starvation  *)
(* fits together, no job is left without a thread and nobody uses what is  *)
(* gone.                                                                   *)
SchedulerInv ==
  /\ TypeOK /\ ThreadsAccounted /\ DebtPaidFirst
  /\ StarvedIsRegistered /\ NoStrandedJobs /\ EmptyWaitersCovered
  /\ NotUsedWhenGone

-----------------------------------------------------------------------------
(* A thread holds the mutex of its scheduler and tries to unregister it,   *)
(* another one has taken it from the list and waits for that mutex.        *)
Entangled ==
  \E w, x \in Workers :
    /\ wpc[w] = "stopStarving" /\ starved[at[w]] /\ ~Contains(starving, at[w])
    /\ wpc[x] = "notify" /\ target[x] = at[w]

(* A scheduler with private threads gets its jobs done, and whoever waits  *)
(* for that comes back, as long as every suspension ends (a client that    *)
(* waits does not end one) and no threads are entangled in StopStarvation. *)
SuspensionsEnd == \A s \in Schedulers : []<>(stopCount[s] = 0)

JobsGetDone ==
  SuspensionsEnd =>
    \A s \in Schedulers : ThreadCount[s] > 0 => (queue[s] > 0 ~> queue[s] = 0 \/ Entangled)

WaitsEnd ==
  \A c \in Clients :
    Waits(c) /\ ThreadCount[on[c]] > 0 ~> cpc[c] = "idle" \/ Entangled \/ c \in overtaken

=============================================================================
