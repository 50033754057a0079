-------------------------- MODULE JobScheduler_proofs --------------------------
(***************************************************************************)
(* Proofs about JobScheduler, for any number of schedulers, threads and    *)
(* clients: SchedulerInv holds.                                            *)
(*                                                                         *)
(* What SchedulerInv says of a scheduler whose mutex is free has to be     *)
(* known while it is held as well: HoldInv says who holds it, and how far  *)
(* that thread or client has come.  PlaceInv puts every thread into one    *)
(* place; PoolInv and CountInv then count threads and debts on both sides, *)
(* where a thread that is paid back belongs to nobody for some steps       *)
(* (Pays, Paying).  A scheduler starves for exactly one reason             *)
(* (StarvingInv): it is listed, notified, or about to be listed.  And      *)
(* whoever waits is covered by a thread that runs, or by one that has left *)
(* "running" and will signal before it lets the mutex go (WaitInv).        *)
(***************************************************************************)
EXTENDS JobScheduler, Ordered_proofs

(* A thread that has given itself back and still notifies others, and all  *)
(* that are about to pay a debt back.                                      *)
Paying == {"select", "notify", "available", "registerAgain"}
Owing == {"stopStarving", "release"} \cup Paying

(* Where a thread is, and to whom it belongs.                              *)
PlaceInv ==
  /\ \A s \in Schedulers : \A w \in running[s] : owner[w] = s /\ ~sleeping[w]
  /\ \A s \in Schedulers : \A w \in suspended[s] :
       owner[w] = s /\ sleeping[w] /\ wpc[w] = "loop"
  /\ \A w \in pool : owner[w] = NoOne /\ sleeping[w] /\ wpc[w] \in {"loop"} \cup Paying
  /\ \A w \in Workers :
       /\ ~sleeping[w] => owner[w] \in Schedulers /\ w \in running[owner[w]]
       /\ wpc[w] = "exec" => ~sleeping[w]
       /\ wpc[w] \in {"stopStarving", "release"} => sleeping[w] /\ owner[w] = at[w]
       /\ wpc[w] \in Paying => w \in pool \/ ~sleeping[w]
       /\ wpc[w] # "endsItself"

(* What a thread in AssignJob or ThreadAvailable holds.                    *)
WorkerHolds(w) ==
  /\ wpc[w] \in Owing <=> at[w] # NoOne
  /\ at[w] # NoOne =>
       /\ mutex[at[w]] = w /\ fromShared[at[w]] > 0
       /\ queue[at[w]] = 0 \/ stopCount[at[w]] # 0
       /\ wpc[w] # "stopStarving" => ~starved[at[w]]
  /\ wpc[w] \in {"notify", "available", "registerAgain"} <=> target[w] # NoOne
  /\ wpc[w] \in {"available", "registerAgain"} =>
       mutex[target[w]] = w /\ stopCount[target[w]] # 0 /\ target[w] # at[w]

ClientHolds(c) == cpc[c] \in {"register", "resume"} => mutex[on[c]] = c

Held(s) ==
  /\ mutex[s] \in Clients => cpc[mutex[s]] \in {"register", "resume"} /\ on[mutex[s]] = s
  /\ mutex[s] \in Workers =>
       \/ at[mutex[s]] = s
       \/ wpc[mutex[s]] \in {"available", "registerAgain"} /\ target[mutex[s]] = s

HoldInv ==
  /\ \A w \in Workers : WorkerHolds(w)
  /\ \A c \in Clients : ClientHolds(c)
  /\ \A s \in Schedulers : Held(s)

ClosingAt == {"unregister", "checkClosing", "waitClosing"}

(* What a client may use: a scheduler that is open, or that it destroys.   *)
Uses(c) ==
  /\ cpc[c] = "idle" <=> on[c] = NoOne
  /\ cpc[c] \in ClosingAt =>
       alive[on[c]] = "closing" /\ \A d \in Clients \ {c} : on[d] # on[c]
  /\ cpc[c] \notin {"idle"} \cup ClosingAt => alive[on[c]] = "open"
  /\ cpc[c] \in {"checkClosing", "waitClosing"} => ~starved[on[c]]

(* A scheduler that ends has not been stopped, and leaves nothing behind.  *)
Ends(s) ==
  /\ alive[s] = "closing" => stopCount[s] = 0
  /\ alive[s] = "gone" =>
       mutex[s] = NoOne /\ ~starved[s] /\ running[s] = {} /\ suspended[s] = {}

ClientInv == (\A c \in Clients : Uses(c)) /\ (\A s \in Schedulers : Ends(s))

Pays(s) == IF \E w \in Workers : at[w] = s THEN 1 ELSE 0

(* What is counted is there.                                               *)
PoolInv ==
  /\ Cardinality(pool) + allocCount + sharedYetToCreate = maxCount
  /\ Cardinality(Unborn) >= sharedYetToCreate + Cardinality(Each(yetToCreate))
  /\ allocCount + Cardinality({w \in Workers : wpc[w] \in Paying}) = Cardinality(Each(fromShared))

(* Threads and debts of a scheduler.                                       *)
Counted(s) ==
  alive[s] # "gone" =>
    runningCount(s) + Cardinality(suspended[s]) + yetToCreate[s] + Pays(s)
      = ThreadCount[s] + fromShared[s]

CountInv == \A s \in Schedulers : Counted(s)

DebtInv ==
  \A s \in Schedulers : fromShared[s] > 0 => suspended[s] = {} /\ yetToCreate[s] = 0

BudgetInv == \A s \in Schedulers : queue[s] <= jobs

Notifying(w, s) == wpc[w] \in {"notify", "registerAgain"} /\ target[w] = s
Registering(c, s) == cpc[c] = "register" /\ on[c] = s

(* A scheduler is starved for one reason.                                  *)
StarvingInv ==
  /\ IsInjective(starving)
  /\ \A s \in Schedulers :
       /\ s \in Range(starving) => starved[s]
       /\ \A w \in Workers : Notifying(w, s) =>
            /\ starved[s] /\ s \notin Range(starving)
            /\ \A x \in Workers \ {w} : ~Notifying(x, s)
       /\ \A c \in Clients : Registering(c, s) =>
            /\ starved[s] /\ s \notin Range(starving)
            /\ \A w \in Workers : ~Notifying(w, s)
       /\ starved[s] =>
            \/ s \in Range(starving)
            \/ \E w \in Workers : Notifying(w, s)
            \/ \E c \in Clients : Registering(c, s)

(* A client in a call has left the scheduler with a thread, or will.       *)
CallInv ==
  \A c \in Clients :
    /\ cpc[c] = "register" /\ ThreadCount[on[c]] > 0 => running[on[c]] # {}
    /\ cpc[c] = "resume" => stopCount[on[c]] = 0

(* Who waits is covered, also while the mutex is held, except by a thread  *)
(* that will set the event before it lets the mutex go.                    *)
Covered(c) ==
  /\ Waits(c) /\ c \notin overtaken
  /\ ~emptyEvent[on[c]] /\ ThreadCount[on[c]] > 0 /\ Pays(on[c]) = 0
  => running[on[c]] # {}

WaitInv == \A c \in Clients : Covered(c)

IInv ==
  /\ TypeOK /\ PlaceInv /\ HoldInv /\ ClientInv /\ PoolInv /\ CountInv /\ DebtInv
  /\ BudgetInv /\ StarvingInv /\ NoStrandedJobs /\ CallInv /\ WaitInv

-----------------------------------------------------------------------------
(* Counting threads.                                                       *)

(* The pairs of Each(f) are those it is made of, and they are finitely     *)
(* many.                                                                   *)
LEMMA EachMembers ==
  ASSUME NEW f \in [Schedulers -> Nat]
  PROVE  /\ \A p : p \in Each(f) <=> \E s \in Schedulers : \E i \in 1..f[s] : p = <<s, i>>
         /\ IsFiniteSet(Each(f))
         /\ Cardinality(Each(f)) \in Nat
<1> DEFINE rows == [s \in Schedulers |-> {s} \X (1..f[s])]
           Rows == {{s} \X (1..f[s]) : s \in Schedulers}
<1>1. \A p : p \in Each(f) <=> \E s \in Schedulers : \E i \in 1..f[s] : p = <<s, i>>
  BY DEF Each
<1>2. rows \in Surjection(Schedulers, Rows)
  BY DEF Surjection
<1>3. IsFiniteSet(Rows)
  BY <1>2, CountAssumption, FS_Surjection
<1>4. ASSUME NEW s \in Schedulers PROVE IsFiniteSet({s} \X (1..f[s]))
  <2>1. f[s] \in Nat
    OBVIOUS
  <2>2. IsFiniteSet({s})
    BY FS_Singleton
  <2>4. IsFiniteSet(1..f[s])
    <3> DEFINE n == f[s]
    <3>1. 1 \in Int /\ n \in Int
      BY <2>1
    <3> HIDE DEF n
    <3>2. IsFiniteSet(1..n)
      BY <3>1, FS_Interval
    <3>3. QED
      BY <3>2 DEF n
  <2>3. QED
    BY <2>2, <2>4, FS_Product
<1>5. IsFiniteSet(UNION Rows)
  BY <1>3, <1>4, FS_UNION
<1>6. QED
  BY <1>1, <1>5, FS_CardinalityType DEF Each

(* One thread more of one scheduler is one pair more.                      *)
LEMMA EachPlus ==
  ASSUME NEW f \in [Schedulers -> Nat], NEW s \in Schedulers
  PROVE  Cardinality(Each([f EXCEPT ![s] = @ + 1])) = Cardinality(Each(f)) + 1
<1> DEFINE g == [f EXCEPT ![s] = @ + 1]
           new == <<s, f[s] + 1>>
<1>1. g \in [Schedulers -> Nat]
  OBVIOUS
<1>2. \A t \in Schedulers : \A i : i \in 1..g[t] <=> i \in 1..f[t] \/ (t = s /\ i = f[s] + 1)
  OBVIOUS
<1>3. /\ \A p : p \in Each(f) <=> \E t \in Schedulers : \E i \in 1..f[t] : p = <<t, i>>
      /\ IsFiniteSet(Each(f))
  BY EachMembers
<1>4. \A p : p \in Each(g) <=> \E t \in Schedulers : \E i \in 1..g[t] : p = <<t, i>>
  BY <1>1, EachMembers
<1>5. new \notin Each(f)
  BY <1>3
<1>6. \A p : p \in Each(g) => p \in Each(f) \cup {new}
  BY <1>2, <1>3, <1>4
<1>7. f[s] + 1 \in 1..g[s]
  OBVIOUS
<1>8. new \in Each(g)
  BY <1>4, <1>7
<1>9. \A p : p \in Each(f) => p \in Each(g)
  BY <1>2, <1>3, <1>4
<1>10. Each(g) = Each(f) \cup {new}
  BY <1>6, <1>8, <1>9
<1>11. Cardinality(Each(f) \cup {new}) = Cardinality(Each(f)) + 1
  BY <1>3, <1>5, FS_AddElement
<1>12. QED
  BY <1>10, <1>11

(* One thread less is one pair less.                                       *)
LEMMA EachMinus ==
  ASSUME NEW f \in [Schedulers -> Nat], NEW s \in Schedulers, f[s] > 0
  PROVE  Cardinality(Each([f EXCEPT ![s] = @ - 1])) = Cardinality(Each(f)) - 1
<1> DEFINE g == [f EXCEPT ![s] = @ - 1]
<1>0. g \in [Schedulers -> Nat]
  OBVIOUS
<1>1. [g EXCEPT ![s] = @ + 1] = f
  <2>1. g[s] + 1 = f[s] /\ \A t \in Schedulers \ {s} : g[t] = f[t]
    OBVIOUS
  <2>2. \A t \in Schedulers : [g EXCEPT ![s] = @ + 1][t] = f[t]
    BY <2>1
  <2>3. QED
    BY <2>2
<1>2. Cardinality(Each([g EXCEPT ![s] = @ + 1])) = Cardinality(Each(g)) + 1
  BY <1>0, EachPlus
<1>3. Cardinality(Each(g)) \in Nat
  BY <1>0, EachMembers
<1>4. QED
  BY <1>1, <1>2, <1>3

-----------------------------------------------------------------------------
(* What a step leaves alone keeps its part of the invariant.               *)

USE DEF vars, schedVars, lifeVars, waitVars, threadVars, poolVars, hungerVars, workerVars,
        budgetVars, clientVars

(* Threads are counted.                                                    *)
LEMMA CountFrame ==
  ASSUME CountInv, UNCHANGED <<alive, running, suspended, yetToCreate, at, fromShared>>
  PROVE  CountInv'
BY DEF CountInv, Counted, runningCount, Pays

(* The same, when more threads may be created.                             *)
LEMMA PoolFrame ==
  ASSUME PoolInv, TypeOK, Unborn \subseteq Unborn',
         {w \in Workers : wpc[w] \in Paying}' = {w \in Workers : wpc[w] \in Paying},
         UNCHANGED <<maxCount, pool, allocCount, sharedYetToCreate, yetToCreate, fromShared>>
  PROVE  PoolInv'
<1>1. IsFiniteSet(Unborn) /\ IsFiniteSet(Unborn')
  BY CountAssumption, FS_Subset DEF Unborn
<1>2. Cardinality(Unborn) <= Cardinality(Unborn')
  BY <1>1, FS_Subset
<1>3. Cardinality(Unborn) \in Nat /\ Cardinality(Unborn') \in Nat
  BY <1>1, FS_CardinalityType
<1>4. yetToCreate \in [Schedulers -> Nat] /\ sharedYetToCreate \in Nat
  BY DEF TypeOK
<1>5. Cardinality(Each(yetToCreate)) \in Nat
  BY <1>4, EachMembers
<1>6. Each(yetToCreate)' = Each(yetToCreate) /\ Each(fromShared)' = Each(fromShared)
  BY DEF Each
<1>7. Cardinality(Unborn)' >= sharedYetToCreate' + Cardinality(Each(yetToCreate))'
  <2> DEFINE u == Cardinality(Unborn)
             v == Cardinality(Unborn')
             e == Cardinality(Each(yetToCreate))
  <2>1. u \in Nat /\ v \in Nat /\ e \in Nat /\ u <= v /\ sharedYetToCreate \in Nat
    BY <1>2, <1>3, <1>4, <1>5
  <2>2. u >= sharedYetToCreate + e
    BY DEF PoolInv
  <2> HIDE DEF u, v, e
  <2>3. v >= sharedYetToCreate + e
    BY <2>1, <2>2
  <2>4. QED
    BY <2>3, <1>6 DEF v, e
<1>8. QED
  BY <1>6, <1>7 DEF PoolInv

(* Threads keep their lists and their places in the code.                  *)
LEMMA PlaceFrame ==
  ASSUME PlaceInv, UNCHANGED <<running, suspended, pool, owner, sleeping, wpc, at>>
  PROVE  PlaceInv'
BY DEF PlaceInv, Paying

(* Nobody begins or ends to starve.                                        *)
LEMMA StarvingFrame ==
  ASSUME StarvingInv, UNCHANGED <<starving, starved>>,
         \A w \in Workers : \A s \in Schedulers : Notifying(w, s)' <=> Notifying(w, s),
         \A c \in Clients : \A s \in Schedulers : Registering(c, s)' <=> Registering(c, s)
  PROVE  StarvingInv'
BY DEF StarvingInv

(* Threads that are neither begun nor ended.                               *)
LEMMA UnbornFrame ==
  ASSUME UNCHANGED <<running, suspended, pool, wpc>>
  PROVE  /\ Unborn' = Unborn
         /\ {w \in Workers : wpc[w] \in Paying}' = {w \in Workers : wpc[w] \in Paying}
BY DEF Unborn

(* What is counted for the bounds.                                         *)
LEMMA JobBounds ==
  ASSUME TypeOK
  PROVE  /\ MaxJobs[maxCount] \in Nat /\ MaxStops \in Nat /\ MaxCalls \in Nat
         /\ jobs \in Nat /\ queue \in [Schedulers -> Nat]
         /\ \A s \in Schedulers : queue[s] <= MaxJobs[maxCount]
<1>1. MaxJobs[maxCount] \in Nat /\ MaxStops \in Nat /\ MaxCalls \in Nat
  BY CountAssumption DEF TypeOK
<1>2. QED
  BY <1>1 DEF TypeOK, Bounded

(* Jobs are only removed.                                                  *)
LEMMA BoundedFrame ==
  ASSUME TypeOK, UNCHANGED maxCount,
         queue' \in [Schedulers -> Nat], \A s \in Schedulers : queue'[s] <= queue[s],
         UNCHANGED jobs, stops' \in Nat, stops' <= MaxStops, calls' \in Nat, calls' <= MaxCalls
  PROVE  Bounded'
<1>1. /\ MaxJobs[maxCount] \in Nat /\ jobs \in 0..MaxJobs[maxCount]
      /\ \A s \in Schedulers : queue[s] \in Nat /\ queue[s] <= MaxJobs[maxCount]
  BY JobBounds DEF TypeOK, Bounded
<1>2. \A s \in Schedulers : queue'[s] \in 0..MaxJobs[maxCount]
  BY <1>1
<1>3. QED
  BY <1>1, <1>2, CountAssumption DEF Bounded

(* A step of a client that only waits, begins or ends.                     *)
LEMMA ThreadFrame ==
  ASSUME IInv, UNCHANGED <<threadVars, poolVars, wpc, at, alive>>
  PROVE  PlaceInv' /\ PoolInv' /\ CountInv' /\ DebtInv'
BY PlaceFrame, PoolFrame, UnbornFrame, CountFrame DEF IInv, DebtInv

-----------------------------------------------------------------------------
(* The calls of a client that leave the threads alone.                     *)

(* Stop only counts, and no scheduler that ends is stopped.                *)
LEMMA StopStep ==
  ASSUME IInv, NEW c \in Clients, NEW s \in Schedulers, Stop(c, s)
  PROVE  IInv'
<1> USE DEF IInv, Stop, MayCall
<1>1. TypeOK'
  <2>1. stops \in Nat /\ calls \in Nat /\ calls <= MaxCalls
    BY JobBounds DEF TypeOK, Bounded
  <2>2. Bounded'
    BY <2>1, BoundedFrame, JobBounds
  <2>3. QED
    BY <2>2 DEF TypeOK
<1>2. PlaceInv'
  BY PlaceFrame
<1>3. HoldInv'
  <2>1. ASSUME NEW v \in Workers PROVE WorkerHolds(v)'
    BY DEF HoldInv, WorkerHolds, Owing, Paying, TypeOK
  <2>2. ASSUME NEW d \in Clients PROVE ClientHolds(d)'
    BY DEF HoldInv, ClientHolds, ClientInv, Uses, TypeOK
  <2>3. ASSUME NEW t \in Schedulers PROVE Held(t)'
    BY DEF HoldInv, Held, TypeOK
  <2>4. QED
    BY <2>1, <2>2, <2>3 DEF HoldInv
<1>4. ClientInv'
  <2>1. ASSUME NEW d \in Clients PROVE Uses(d)'
    BY DEF ClientInv, Uses, ClosingAt, TypeOK
  <2>2. ASSUME NEW t \in Schedulers PROVE Ends(t)'
    BY DEF ClientInv, Ends, TypeOK
  <2>3. QED
    BY <2>1, <2>2 DEF ClientInv
<1>5. PoolInv' /\ CountInv'
  BY PoolFrame, UnbornFrame, CountFrame
<1>6. DebtInv' /\ BudgetInv'
  BY DEF DebtInv, BudgetInv
<1>7. StarvingInv'
  BY StarvingFrame DEF Registering, Notifying
<1>8. NoStrandedJobs'
  BY DEF NoStrandedJobs, Free, TypeOK
<1>9. CallInv'
  BY NoOneAssumption DEF CallInv, HoldInv, ClientHolds, TypeOK
<1>10. WaitInv'
  BY DEF WaitInv, Covered, Waits, Pays
<1>11. QED
  BY <1>1, <1>2, <1>3, <1>4, <1>5, <1>6, <1>7, <1>8, <1>9, <1>10

(* RemoveJobFromQueue leaves a shorter queue, and nobody has to be told.   *)
LEMMA RemoveJobStep ==
  ASSUME IInv, NEW c \in Clients, NEW s \in Schedulers, RemoveJobFromQueue(c, s)
  PROVE  IInv'
<1> USE DEF IInv, RemoveJobFromQueue, Call, MayCall
<1>1. TypeOK'
  <2>1. stops \in 0..MaxStops /\ calls \in Nat
    BY DEF TypeOK, Bounded
  <2>2. queue' \in [Schedulers -> Nat] /\ \A t \in Schedulers : queue'[t] <= queue[t]
    BY JobBounds
  <2>3. Bounded'
    BY <2>1, <2>2, BoundedFrame, JobBounds
  <2>4. QED
    BY <2>3 DEF TypeOK
<1>2. PlaceInv'
  BY PlaceFrame
<1>3. HoldInv'
  <2>1. ASSUME NEW v \in Workers PROVE WorkerHolds(v)'
    BY DEF HoldInv, WorkerHolds, Owing, Paying, TypeOK
  <2>2. ASSUME NEW d \in Clients PROVE ClientHolds(d)'
    BY DEF HoldInv, ClientHolds, ClientInv, Uses, TypeOK
  <2>3. ASSUME NEW t \in Schedulers PROVE Held(t)'
    BY DEF HoldInv, Held, TypeOK
  <2>4. QED
    BY <2>1, <2>2, <2>3 DEF HoldInv
<1>4. ClientInv'
  <2>1. ASSUME NEW d \in Clients PROVE Uses(d)'
    BY DEF ClientInv, Uses, ClosingAt, TypeOK
  <2>2. ASSUME NEW t \in Schedulers PROVE Ends(t)'
    BY DEF ClientInv, Ends, TypeOK
  <2>3. QED
    BY <2>1, <2>2 DEF ClientInv
<1>5. PoolInv' /\ CountInv'
  BY PoolFrame, UnbornFrame, CountFrame
<1>6. DebtInv' /\ BudgetInv'
  BY JobBounds DEF DebtInv, BudgetInv
<1>7. StarvingInv'
  BY StarvingFrame DEF Registering, Notifying
<1>8. NoStrandedJobs'
  BY JobBounds DEF NoStrandedJobs, Free, TypeOK
<1>9. CallInv'
  BY NoOneAssumption DEF CallInv, HoldInv, ClientHolds, TypeOK
<1>10. WaitInv'
  BY DEF WaitInv, Covered, Waits, Pays
<1>11. QED
  BY <1>1, <1>2, <1>3, <1>4, <1>5, <1>6, <1>7, <1>8, <1>9, <1>10

(* A thread of the scheduler takes a job and goes on running.              *)
LEMMA TakeJobStep ==
  ASSUME IInv, NEW w \in Workers, TakeJob(w)
  PROVE  IInv'
<1> USE DEF IInv, TakeJob, MoveTo
<1>0. owner[w] \in Schedulers /\ w \in running[owner[w]]
  BY DEF PlaceInv
<1>1. TypeOK'
  <2>1. stops \in 0..MaxStops /\ calls \in 0..MaxCalls
    BY DEF TypeOK, Bounded
  <2>2. queue' \in [Schedulers -> Nat] /\ \A t \in Schedulers : queue'[t] <= queue[t]
    BY <1>0, JobBounds
  <2>3. Bounded'
    BY <2>1, <2>2, BoundedFrame, JobBounds
  <2>4. QED
    BY <2>3 DEF TypeOK
<1>2. PlaceInv'
  BY DEF PlaceInv, Paying, TypeOK
<1>3. HoldInv'
  <2>1. ASSUME NEW v \in Workers PROVE WorkerHolds(v)'
    BY DEF HoldInv, WorkerHolds, Owing, Paying, TypeOK
  <2>2. ASSUME NEW d \in Clients PROVE ClientHolds(d)'
    BY DEF HoldInv, ClientHolds, ClientInv, Uses, TypeOK
  <2>3. ASSUME NEW t \in Schedulers PROVE Held(t)'
    BY DEF HoldInv, Held, TypeOK
  <2>4. QED
    BY <2>1, <2>2, <2>3 DEF HoldInv
<1>4. ClientInv'
  <2>1. ASSUME NEW d \in Clients PROVE Uses(d)'
    BY DEF ClientInv, Uses, ClosingAt, TypeOK
  <2>2. ASSUME NEW t \in Schedulers PROVE Ends(t)'
    BY DEF ClientInv, Ends, TypeOK
  <2>3. QED
    BY <2>1, <2>2 DEF ClientInv
<1>5. PoolInv' /\ CountInv'
  <2>1. Unborn' = Unborn
    BY <1>0 DEF Unborn, TypeOK
  <2>2. {v \in Workers : wpc[v] \in Paying}' = {v \in Workers : wpc[v] \in Paying}
    BY DEF TypeOK, Paying
  <2>3. QED
    BY <2>1, <2>2, PoolFrame, CountFrame
<1>6. DebtInv' /\ BudgetInv'
  BY <1>0, JobBounds DEF DebtInv, BudgetInv
<1>7. StarvingInv'
  <2>1. \A v \in Workers : \A s \in Schedulers : Notifying(v, s)' <=> Notifying(v, s)
    BY DEF Notifying, TypeOK
  <2>2. QED
    BY <2>1, StarvingFrame DEF Registering
<1>8. NoStrandedJobs'
  BY <1>0, JobBounds DEF NoStrandedJobs, Free, TypeOK
<1>9. CallInv'
  BY NoOneAssumption DEF CallInv, HoldInv, ClientHolds, TypeOK
<1>10. WaitInv'
  BY DEF WaitInv, Covered, Waits, Pays
<1>11. QED
  BY <1>1, <1>2, <1>3, <1>4, <1>5, <1>6, <1>7, <1>8, <1>9, <1>10

(* A step of a client that begins, goes on or ends a call changes no more  *)
(* than this.                                                              *)
ClientTypes ==
  /\ cpc \in [Clients -> {"idle", "register", "resume", "checkEmpty", "checkClosing",
                         "waitEmpty", "waitClosing", "unregister"}]
  /\ on \in [Clients -> Schedulers \cup {NoOne}]

Moved(c, pc, s) ==
  /\ cpc'[c] = pc /\ on'[c] = s
  /\ \A d \in Clients : d # c => cpc'[d] = cpc[d] /\ on'[d] = on[d]

(* The client is in one of the calls then.                                 *)
LEMMA GotoTypes ==
  ASSUME TypeOK, NEW c \in Clients, NEW pc, NEW s, Goto(c, pc, s),
         pc \in {"idle", "register", "resume", "checkEmpty", "checkClosing",
                 "waitEmpty", "waitClosing", "unregister"},
         s \in Schedulers \cup {NoOne}
  PROVE  ClientTypes' /\ Moved(c, pc, s)
BY DEF Goto, TypeOK, ClientTypes, Moved

(* What one client does is nothing to the others.                          *)
LEMMA OthersUse ==
  ASSUME IInv, NEW c \in Clients, NEW pc, NEW s \in Schedulers \cup {NoOne}, Moved(c, pc, s),
         UNCHANGED alive, s \in Schedulers /\ s # on[c] => alive[s] = "open",
         \A t \in Schedulers : starved'[t] => starved[t] \/ alive[t] = "open",
         NEW d \in Clients, d # c
  PROVE  Uses(d)'
<1> USE DEF IInv
<1>1. Uses(d) /\ on[d] \in Schedulers \cup {NoOne} /\ cpc'[d] = cpc[d] /\ on'[d] = on[d]
  BY DEF ClientInv, TypeOK, Moved
<1>2. cpc[d] \in {"checkClosing", "waitClosing"} => ~starved'[on[d]]
  BY <1>1 DEF Uses, ClosingAt
<1>3. ASSUME cpc[d] \in ClosingAt, NEW e \in Clients \ {d} PROVE on'[e] # on[d]
  <2>1. on[e] # on[d] /\ alive[on[d]] = "closing" /\ on[d] \in Schedulers
    BY <1>1, <1>3, NoOneAssumption DEF Uses, ClosingAt
  <2>2. CASE e = c
    BY <2>1, <2>2 DEF Moved
  <2>3. CASE e # c
    BY <2>1, <2>3 DEF Moved
  <2>4. QED
    BY <2>2, <2>3
<1>4. QED
  BY <1>1, <1>2, <1>3 DEF Uses, ClosingAt

(* Nobody waits before the queue has been looked at.                       *)
LEMMA WaitForEmptyQueueStep ==
  ASSUME IInv, NEW c \in Clients, NEW s \in Schedulers, WaitForEmptyQueue(c, s)
  PROVE  IInv'
<1> USE DEF IInv, WaitForEmptyQueue, Call, MayCall
<1>t. ClientTypes'
  BY GotoTypes
<1>0. Moved(c, "checkEmpty", s) /\ on[c] = NoOne
  BY GotoTypes DEF ClientInv, Uses
<1>1. TypeOK'
  <2>1. stops \in 0..MaxStops /\ calls \in Nat
    BY DEF TypeOK, Bounded
  <2>2. Bounded'
    BY <2>1, BoundedFrame, JobBounds
  <2>3. QED
    BY <1>t, <2>2 DEF TypeOK, ClientTypes
<1>2. PlaceInv' /\ PoolInv' /\ CountInv' /\ DebtInv'
  BY ThreadFrame
<1>3. HoldInv'
  <2>1. ASSUME NEW v \in Workers PROVE WorkerHolds(v)'
    BY <1>0, NoOneAssumption DEF Moved, HoldInv, WorkerHolds, Owing, Paying, TypeOK
  <2>2. ASSUME NEW d \in Clients PROVE ClientHolds(d)'
    BY <1>0, NoOneAssumption DEF Moved, HoldInv, ClientHolds, ClientInv, Uses, TypeOK
  <2>3. ASSUME NEW t \in Schedulers PROVE Held(t)'
    BY <1>0, NoOneAssumption DEF Moved, HoldInv, Held, TypeOK
  <2>4. QED
    BY <2>1, <2>2, <2>3 DEF HoldInv
<1>4. ClientInv'
  <2>1. ASSUME NEW d \in Clients PROVE Uses(d)'
    <3>1. CASE d = c
      BY <1>0, <3>1, NoOneAssumption DEF Moved, Uses, ClosingAt
    <3>2. CASE d # c
      BY <1>0, <3>2, OthersUse
    <3>3. QED
      BY <3>1, <3>2
  <2>2. ASSUME NEW t \in Schedulers PROVE Ends(t)'
    BY <1>0, NoOneAssumption DEF Moved, ClientInv, Ends, TypeOK
  <2>3. QED
    BY <2>1, <2>2 DEF ClientInv
<1>5. BudgetInv'
  BY DEF BudgetInv
<1>6. StarvingInv'
  BY <1>0, StarvingFrame DEF Moved, Registering, Notifying
<1>7. NoStrandedJobs'
  BY DEF NoStrandedJobs, Free
<1>8. CallInv'
  BY <1>0 DEF Moved, CallInv
<1>9. WaitInv'
  BY <1>0 DEF Moved, WaitInv, Covered, Waits, Pays
<1>10. QED
  BY <1>1, <1>2, <1>3, <1>4, <1>5, <1>6, <1>7, <1>8, <1>9

(* The mutex is held when threads are to be resumed.                       *)
LEMMA ResumeStep ==
  ASSUME IInv, NEW c \in Clients, NEW s \in Schedulers, Resume(c, s)
  PROVE  IInv'
<1> USE DEF IInv, Resume, MayCall
<1>0. CASE stopCount[s] # 1
  <2>1. TypeOK'
    <3>1. stops \in 0..MaxStops /\ calls \in 0..MaxCalls
      BY DEF TypeOK, Bounded
    <3>2. Bounded'
      BY <3>1, BoundedFrame, JobBounds
    <3>3. QED
      BY <3>2, <1>0 DEF TypeOK
  <2>2. PlaceInv' /\ PoolInv' /\ CountInv' /\ DebtInv'
    BY ThreadFrame
  <2>3. HoldInv'
    <3>1. ASSUME NEW v \in Workers PROVE WorkerHolds(v)'
      BY <1>0, NoOneAssumption DEF HoldInv, WorkerHolds, Owing, Paying, TypeOK
    <3>2. ASSUME NEW d \in Clients PROVE ClientHolds(d)'
      BY <1>0, NoOneAssumption DEF HoldInv, ClientHolds, ClientInv, Uses, TypeOK
    <3>3. ASSUME NEW t \in Schedulers PROVE Held(t)'
      BY <1>0, NoOneAssumption DEF HoldInv, Held, TypeOK
    <3>4. QED
      BY <3>1, <3>2, <3>3 DEF HoldInv
  <2>4. ClientInv'
    <3>1. ASSUME NEW d \in Clients PROVE Uses(d)'
      BY <1>0 DEF ClientInv, Uses, ClosingAt, TypeOK
    <3>2. ASSUME NEW t \in Schedulers PROVE Ends(t)'
      BY <1>0 DEF ClientInv, Ends, TypeOK
    <3>3. QED
      BY <3>1, <3>2 DEF ClientInv
  <2>5. BudgetInv'
    BY DEF BudgetInv
  <2>6. StarvingInv'
    BY <1>0, StarvingFrame DEF Registering, Notifying
  <2>7. NoStrandedJobs'
    BY <1>0 DEF NoStrandedJobs, Free, TypeOK
  <2>8. CallInv'
    BY <1>0, NoOneAssumption DEF CallInv, HoldInv, ClientHolds, TypeOK
  <2>9. WaitInv'
    BY <1>0 DEF WaitInv, Covered, Waits, Pays
  <2>10. QED
    BY <2>1, <2>2, <2>3, <2>4, <2>5, <2>6, <2>7, <2>8, <2>9
<1>1. CASE stopCount[s] = 1
  <2>t. ClientTypes'
    BY <1>1, GotoTypes
  <2>0. /\ Moved(c, "resume", s) /\ on[c] = NoOne
        /\ mutex' = [mutex EXCEPT ![s] = c]
    BY <1>1, GotoTypes DEF ClientInv, Uses
  <2>1. TypeOK'
    <3>1. stops \in 0..MaxStops /\ calls \in 0..MaxCalls
      BY DEF TypeOK, Bounded
    <3>2. Bounded'
      BY <3>1, BoundedFrame, JobBounds
    <3>3. QED
      BY <3>2, <2>t, <2>0 DEF TypeOK, ClientTypes
  <2>2. PlaceInv' /\ PoolInv' /\ CountInv' /\ DebtInv'
    BY ThreadFrame
  <2>3. HoldInv'
    <3>1. ASSUME NEW v \in Workers PROVE WorkerHolds(v)'
      BY <2>0, NoOneAssumption, WhoAssumption DEF Moved, HoldInv, WorkerHolds, Owing, Paying, TypeOK
    <3>2. ASSUME NEW d \in Clients PROVE ClientHolds(d)'
      <4>1. CASE d = c
        BY <2>0, <4>1 DEF Moved, ClientHolds, TypeOK
      <4>2. CASE d # c
        <5>1. cpc'[d] = cpc[d] /\ on'[d] = on[d] /\ ClientHolds(d)
          BY <2>0, <4>2 DEF Moved, HoldInv
        <5>2. mutex[s] = NoOne /\ d # NoOne /\ mutex \in [Schedulers -> Workers \cup Clients \cup {NoOne}]
          BY NoOneAssumption DEF TypeOK
        <5>3. QED
          BY <2>0, <5>1, <5>2 DEF ClientHolds
      <4>3. QED
        BY <4>1, <4>2
    <3>3. ASSUME NEW t \in Schedulers PROVE Held(t)'
      <4>1. CASE t = s
        BY <2>0, <4>1, WhoAssumption DEF Moved, Held, TypeOK
      <4>2. CASE t # s
        <5>1. mutex'[t] = mutex[t] /\ Held(t)
          BY <2>0, <4>2 DEF HoldInv, TypeOK
        <5>2. QED
          BY <2>0, <5>1 DEF Held, Moved
      <4>3. QED
        BY <4>1, <4>2
    <3>4. QED
      BY <3>1, <3>2, <3>3 DEF HoldInv
  <2>4. ClientInv'
    <3>1. ASSUME NEW d \in Clients PROVE Uses(d)'
      BY <2>0, NoOneAssumption DEF Moved, ClientInv, Uses, ClosingAt, TypeOK
    <3>2. ASSUME NEW t \in Schedulers PROVE Ends(t)'
      BY <2>0, NoOneAssumption DEF Moved, ClientInv, Ends, TypeOK
    <3>3. QED
      BY <3>1, <3>2 DEF ClientInv
  <2>5. BudgetInv'
    BY DEF BudgetInv
  <2>6. StarvingInv'
    BY <2>0, StarvingFrame DEF Moved, Registering, Notifying
  <2>7. NoStrandedJobs'
    BY <2>0, NoOneAssumption DEF Moved, NoStrandedJobs, Free, TypeOK
  <2>8. CallInv'
    BY <2>0, <1>1, NoOneAssumption DEF Moved, CallInv, HoldInv, ClientHolds, TypeOK
  <2>9. WaitInv'
    BY <2>0 DEF Moved, WaitInv, Covered, Waits, Pays
  <2>10. QED
    BY <2>1, <2>2, <2>3, <2>4, <2>5, <2>6, <2>7, <2>8, <2>9
<1>2. QED
  BY <1>0, <1>1

(* A wait for the empty queue ends, or its time is up.                     *)
LEMMA WaitEndsStep ==
  ASSUME IInv, NEW c \in Clients, EmptyWoken(c) \/ EmptyTimeout(c)
  PROVE  IInv'
<1> USE DEF IInv
<1>a. /\ Waits(c) /\ WaitEnds(c) /\ on[c] \in Schedulers
      /\ cpc[c] \in {"waitEmpty", "waitClosing"}
  BY NoOneAssumption DEF EmptyWoken, EmptyTimeout, Waits, ClientInv, Uses, TypeOK
<1>b. PICK pc, s :
        /\ Goto(c, pc, s)
        /\ \/ pc = "idle" /\ s = NoOne
           \/ pc = "checkEmpty" /\ cpc[c] = "waitEmpty" /\ s = on[c]
           \/ pc = "checkClosing" /\ cpc[c] = "waitClosing" /\ s = on[c]
  <2>1. CASE EmptyWoken(c)
    BY <1>a, <2>1 DEF EmptyWoken
  <2>2. CASE EmptyTimeout(c)
    BY <2>2 DEF EmptyTimeout
  <2>3. QED
    BY <2>1, <2>2
<1>0. Moved(c, pc, s) /\ ClientTypes'
  BY <1>a, <1>b, GotoTypes
<1> USE <1>a DEF WaitEnds
<1>1. TypeOK'
  <2>1. stops \in 0..MaxStops /\ calls \in 0..MaxCalls
    BY DEF TypeOK, Bounded
  <2>2. Bounded'
    BY <2>1, BoundedFrame, JobBounds
  <2>3. QED
    BY <1>0, <2>2 DEF TypeOK, ClientTypes
<1>2. PlaceInv' /\ PoolInv' /\ CountInv' /\ DebtInv'
  BY ThreadFrame
<1>3. HoldInv'
  <2>1. ASSUME NEW v \in Workers PROVE WorkerHolds(v)'
    BY DEF HoldInv, WorkerHolds, Owing, Paying, TypeOK
  <2>2. ASSUME NEW d \in Clients PROVE ClientHolds(d)'
    BY <1>0, <1>b DEF Moved, HoldInv, ClientHolds
  <2>3. ASSUME NEW t \in Schedulers PROVE Held(t)'
    BY <1>0, <1>b DEF Moved, HoldInv, Held
  <2>4. QED
    BY <2>1, <2>2, <2>3 DEF HoldInv
<1>4. ClientInv'
  <2>1. ASSUME NEW d \in Clients PROVE Uses(d)'
    <3>1. CASE d = c
      <4>1. Uses(c)
        BY DEF ClientInv
      <4>2. ASSUME cpc[c] = "waitClosing", NEW e \in Clients \ {c} PROVE on'[e] # on[c]
        BY <4>1, <4>2, <1>0 DEF Uses, ClosingAt, Moved
      <4>3. QED
        BY <1>0, <1>b, <3>1, <4>1, <4>2, NoOneAssumption DEF Moved, Uses, ClosingAt
    <3>2. CASE d # c
      <4>1. /\ s \in Schedulers \cup {NoOne} /\ UNCHANGED alive
            /\ (s \in Schedulers /\ s # on[c] => alive[s] = "open")
            /\ \A t \in Schedulers : starved'[t] => starved[t] \/ alive[t] = "open"
        BY <1>b, NoOneAssumption
      <4>2. QED
        BY <1>0, <3>2, <4>1, OthersUse
    <3>3. QED
      BY <3>1, <3>2
  <2>2. ASSUME NEW t \in Schedulers PROVE Ends(t)'
    BY DEF ClientInv, Ends, TypeOK
  <2>3. QED
    BY <2>1, <2>2 DEF ClientInv
<1>5. BudgetInv'
  BY DEF BudgetInv
<1>6. StarvingInv'
  BY <1>0, <1>b, StarvingFrame DEF Moved, Registering, Notifying
<1>7. NoStrandedJobs'
  BY DEF NoStrandedJobs, Free
<1>8. CallInv'
  BY <1>0, <1>b DEF Moved, CallInv
<1>9. WaitInv'
  BY <1>0, <1>b DEF Moved, WaitInv, Covered, Waits, Pays
<1>10. QED
  BY <1>1, <1>2, <1>3, <1>4, <1>5, <1>6, <1>7, <1>8, <1>9

(* The destructor begins.                                                  *)
LEMMA DestroyStep ==
  ASSUME IInv, NEW c \in Clients, NEW s \in Schedulers, Destroy(c, s)
  PROVE  IInv'
<1> USE DEF IInv, Destroy, Call, MayCall
<1>b. PICK pc :
        /\ Goto(c, pc, s)
        /\ pc \in {"unregister", "checkClosing"} /\ (pc = "checkClosing" => ~starved[s])
  OBVIOUS
<1>0. Moved(c, pc, s) /\ ClientTypes' /\ on[c] = NoOne
  BY <1>b, GotoTypes DEF ClientInv, Uses
<1>1. TypeOK'
  <2>1. stops \in 0..MaxStops /\ calls \in Nat
    BY DEF TypeOK, Bounded
  <2>2. Bounded'
    BY <2>1, BoundedFrame, JobBounds
  <2>3. QED
    BY <1>0, <2>2 DEF TypeOK, ClientTypes
<1>2. PlaceInv' /\ PoolInv' /\ DebtInv'
  BY PlaceFrame, PoolFrame, UnbornFrame DEF DebtInv
<1>c. CountInv'
  BY DEF CountInv, Counted, runningCount, Pays, TypeOK
<1>3. HoldInv'
  <2>1. ASSUME NEW v \in Workers PROVE WorkerHolds(v)'
    BY DEF HoldInv, WorkerHolds, Owing, Paying, TypeOK
  <2>2. ASSUME NEW d \in Clients PROVE ClientHolds(d)'
    BY <1>0, <1>b DEF Moved, HoldInv, ClientHolds
  <2>3. ASSUME NEW t \in Schedulers PROVE Held(t)'
    BY <1>0, <1>b DEF Moved, HoldInv, Held
  <2>4. QED
    BY <2>1, <2>2, <2>3 DEF HoldInv
<1>4. ClientInv'
  <2>1. ASSUME NEW d \in Clients PROVE Uses(d)'
    <3>1. CASE d = c
      <4>1. \A e \in Clients \ {c} : on'[e] # s
        BY <1>0 DEF Moved
      <4>2. alive'[s] = "closing"
        BY DEF TypeOK
      <4>3. QED
        BY <1>0, <1>b, <3>1, <4>1, <4>2, NoOneAssumption DEF Moved, Uses, ClosingAt
    <3>2. CASE d # c
      <4>1. /\ Uses(d) /\ on[d] \in Schedulers \cup {NoOne} /\ on[d] # s
            /\ on'[d] = on[d] /\ cpc'[d] = cpc[d]
        BY <1>0, <3>2 DEF Moved, ClientInv, TypeOK
      <4>2. on[d] # NoOne => alive'[on[d]] = alive[on[d]]
        BY <4>1 DEF TypeOK
      <4>3. \A e \in Clients \ {d} : on[e] # on[d] => on'[e] # on[d]
        BY <1>0, <4>1 DEF Moved
      <4>4. QED
        BY <4>1, <4>2, <4>3 DEF Uses, ClosingAt
    <3>3. QED
      BY <3>1, <3>2
  <2>2. ASSUME NEW t \in Schedulers PROVE Ends(t)'
    BY DEF ClientInv, Ends, TypeOK
  <2>3. QED
    BY <2>1, <2>2 DEF ClientInv
<1>5. BudgetInv'
  BY DEF BudgetInv
<1>6. StarvingInv'
  BY <1>0, <1>b, StarvingFrame DEF Moved, Registering, Notifying
<1>7. NoStrandedJobs'
  BY DEF NoStrandedJobs, Free, TypeOK
<1>8. CallInv'
  BY <1>0, <1>b DEF Moved, CallInv
<1>9. WaitInv'
  BY <1>0, <1>b DEF Moved, WaitInv, Covered, Waits, Pays
<1>10. QED
  BY <1>1, <1>2, <1>c, <1>3, <1>4, <1>5, <1>6, <1>7, <1>8, <1>9

-----------------------------------------------------------------------------
(* The list of the starving.                                               *)

(* A scheduler that starves is put on the list: it was announced before.   *)
LEMMA AppendStarving ==
  ASSUME TypeOK, StarvingInv, NEW s \in Schedulers, s \notin Range(starving), starved[s],
         starving' = Append(starving, s), UNCHANGED starved,
         \A w \in Workers : \A t \in Schedulers :
           Notifying(w, t)' <=> Notifying(w, t) /\ t # s,
         \A c \in Clients : \A t \in Schedulers :
           Registering(c, t)' <=> Registering(c, t) /\ t # s
  PROVE  StarvingInv' /\ starving' \in Seq(Schedulers)
<1>1. starving \in Seq(Schedulers) /\ IsInjective(starving)
  BY DEF TypeOK, StarvingInv
<1>2. /\ starving' \in Seq(Schedulers) /\ IsInjective(starving')
      /\ Range(starving') = Range(starving) \cup {s}
  BY <1>1, AppendEffect
<1> HIDE DEF Notifying, Registering
<1>3. \A t \in Schedulers : t \in Range(starving') => starved'[t]
  BY <1>2 DEF StarvingInv
<1>4. \A t \in Schedulers : \A w \in Workers : Notifying(w, t)' =>
        /\ starved'[t] /\ t \notin Range(starving')
        /\ \A x \in Workers \ {w} : ~Notifying(x, t)'
  BY <1>2 DEF StarvingInv
<1>5. \A t \in Schedulers : \A c \in Clients : Registering(c, t)' =>
        /\ starved'[t] /\ t \notin Range(starving')
        /\ \A w \in Workers : ~Notifying(w, t)'
  BY <1>2 DEF StarvingInv
<1>6. \A t \in Schedulers : starved'[t] =>
        \/ t \in Range(starving')
        \/ \E w \in Workers : Notifying(w, t)'
        \/ \E c \in Clients : Registering(c, t)'
  <2> SUFFICES ASSUME NEW t \in Schedulers, starved'[t], t # s
               PROVE  \/ t \in Range(starving')
                      \/ \E w \in Workers : Notifying(w, t)'
                      \/ \E c \in Clients : Registering(c, t)'
    BY <1>2
  <2>1. \/ t \in Range(starving)
        \/ \E w \in Workers : Notifying(w, t)
        \/ \E c \in Clients : Registering(c, t)
    BY DEF StarvingInv
  <2>2. QED
    BY <2>1, <1>2
<1>7. QED
  BY <1>2, <1>3, <1>4, <1>5, <1>6 DEF StarvingInv

(* RemoveStarving takes just this scheduler from the list.                 *)
LEMMA UnregisterStarving ==
  ASSUME TypeOK, StarvingInv, NEW s \in Schedulers, Unregistered(s),
         \A w \in Workers : \A t \in Schedulers : Notifying(w, t)' <=> Notifying(w, t),
         \A c \in Clients : \A t \in Schedulers : Registering(c, t)' <=> Registering(c, t)
  PROVE  /\ StarvingInv' /\ starving' \in Seq(Schedulers)
         /\ starved' = [starved EXCEPT ![s] = FALSE]
<1> DEFINE places == {i \in DOMAIN starving : starving[i] # s}
<1>1. /\ starving \in Seq(Schedulers) /\ IsInjective(starving)
      /\ starved \in [Schedulers -> BOOLEAN]
  BY DEF TypeOK, StarvingInv
<1>2. starving' = Selected(starving, places) /\ starved' = [starved EXCEPT ![s] = FALSE]
  BY DEF Unregistered
<1>3. /\ starving' \in Seq(Schedulers) /\ IsInjective(starving')
      /\ Range(starving') = {starving[i] : i \in places}
  BY <1>1, <1>2, SelectedEffect
<1>4. Range(starving') = Range(starving) \ {s}
  BY <1>3 DEF Range
<1>5. s \in Range(starving)
  BY <1>1 DEF Unregistered, Contains, Range
<1>6. ~starved'[s] /\ \A t \in Schedulers \ {s} : starved'[t] = starved[t]
  BY <1>1, <1>2
<1> HIDE DEF Notifying, Registering
<1>7. \A t \in Schedulers : t \in Range(starving') => starved'[t]
  BY <1>4, <1>6 DEF StarvingInv
<1>8. \A w \in Workers : ~Notifying(w, s)
  BY <1>5 DEF StarvingInv
<1>9. \A c \in Clients : ~Registering(c, s)
  BY <1>5 DEF StarvingInv
<1>10. \A t \in Schedulers : \A w \in Workers : Notifying(w, t)' =>
        /\ starved'[t] /\ t \notin Range(starving')
        /\ \A x \in Workers \ {w} : ~Notifying(x, t)'
  BY <1>4, <1>6, <1>8 DEF StarvingInv
<1>11. \A t \in Schedulers : \A c \in Clients : Registering(c, t)' =>
        /\ starved'[t] /\ t \notin Range(starving')
        /\ \A w \in Workers : ~Notifying(w, t)'
  BY <1>4, <1>6, <1>9 DEF StarvingInv
<1>12. \A t \in Schedulers : starved'[t] =>
        \/ t \in Range(starving')
        \/ \E w \in Workers : Notifying(w, t)'
        \/ \E c \in Clients : Registering(c, t)'
  <2> SUFFICES ASSUME NEW t \in Schedulers, starved'[t]
               PROVE  \/ t \in Range(starving')
                      \/ \E w \in Workers : Notifying(w, t)'
                      \/ \E c \in Clients : Registering(c, t)'
    OBVIOUS
  <2>1. t # s /\ starved[t]
    BY <1>6
  <2>2. \/ t \in Range(starving)
        \/ \E w \in Workers : Notifying(w, t)
        \/ \E c \in Clients : Registering(c, t)
    BY <2>1 DEF StarvingInv
  <2>3. QED
    BY <2>1, <2>2, <1>4
<1>13. QED
  BY <1>2, <1>3, <1>7, <1>10, <1>11, <1>12 DEF StarvingInv

(* A client in a call is in a call of a scheduler, and so is a thread that *)
(* pays.                                                                   *)
LEMMA CallsWhom ==
  ASSUME IInv
  PROVE  /\ \A c \in Clients : cpc[c] # "idle" => on[c] \in Schedulers
         /\ \A w \in Workers : wpc[w] \in Owing <=> at[w] \in Schedulers
         /\ \A w \in Workers :
              wpc[w] \in {"notify", "available", "registerAgain"} <=> target[w] \in Schedulers
BY NoOneAssumption DEF IInv, ClientInv, Uses, HoldInv, WorkerHolds, TypeOK

(* AddStarving, the end of Schedule and Resume.                            *)
LEMMA RegisterStep ==
  ASSUME IInv, NEW c \in Clients, Register(c)
  PROVE  IInv'
<1> USE DEF IInv
<1> DEFINE s == on[c]
<1>a. /\ s \in Schedulers /\ mutex[s] = c /\ cpc[c] = "register" /\ Registering(c, s)
      /\ Goto(c, "idle", NoOne)
  BY NoOneAssumption DEF Register, ClientInv, Uses, TypeOK, HoldInv, ClientHolds, Registering
<1>0. Moved(c, "idle", NoOne) /\ ClientTypes'
  BY <1>a, GotoTypes
<1>m. mutex' = [mutex EXCEPT ![s] = NoOne]
  BY DEF Register
<1>n. \A d \in Clients \ {c} : cpc[d] \in {"register", "resume"} => on[d] # s
  BY <1>a DEF HoldInv, ClientHolds
<1>o. \A v \in Workers : at[v] # s /\ (wpc[v] \in {"available", "registerAgain"} => target[v] # s)
  BY <1>a, NoOneAssumption, WhoAssumption DEF HoldInv, WorkerHolds
<1>s. StarvingInv' /\ starving' \in Seq(Schedulers)
  <2>1. s \notin Range(starving) /\ starved[s] /\ \A w \in Workers : ~Notifying(w, s)
    BY <1>a DEF StarvingInv
  <2>2. \A v \in Workers : \A t \in Schedulers : Notifying(v, t)' <=> Notifying(v, t) /\ t # s
    BY <2>1 DEF Register, Notifying
  <2>3. \A d \in Clients : \A t \in Schedulers : Registering(d, t)' <=> Registering(d, t) /\ t # s
    BY <1>0, <1>a, <1>n, NoOneAssumption DEF Registering, Moved
  <2>4. QED
    BY <1>a, <2>1, <2>2, <2>3, AppendStarving DEF Register
<1> HIDE DEF s
<1> USE DEF Register
<1>1. TypeOK'
  <2>1. stops \in 0..MaxStops /\ calls \in 0..MaxCalls
    BY DEF TypeOK, Bounded
  <2>2. Bounded'
    BY <2>1, BoundedFrame, JobBounds
  <2>3. QED
    BY <1>0, <1>m, <1>s, <2>2 DEF TypeOK, ClientTypes
<1>2. PlaceInv' /\ PoolInv' /\ CountInv' /\ DebtInv'
  BY ThreadFrame
<1>3. HoldInv'
  <2>1. ASSUME NEW v \in Workers PROVE WorkerHolds(v)'
    BY <1>m, <1>o DEF HoldInv, WorkerHolds, Owing, Paying, TypeOK
  <2>2. ASSUME NEW d \in Clients PROVE ClientHolds(d)'
    <3> SUFFICES ASSUME cpc'[d] \in {"register", "resume"} PROVE mutex'[on'[d]] = d
      BY DEF ClientHolds
    <3>1. d # c /\ cpc'[d] = cpc[d] /\ on'[d] = on[d]
      BY <1>0 DEF Moved
    <3>2. on[d] \in Schedulers /\ on[d] # s /\ mutex[on[d]] = d
      BY <3>1, <1>n, CallsWhom DEF HoldInv, ClientHolds
    <3>3. QED
      BY <3>1, <3>2, <1>m DEF TypeOK
  <2>3. ASSUME NEW t \in Schedulers PROVE Held(t)'
    <3>1. CASE t = s
      BY <1>a, <1>m, <3>1, NoOneAssumption DEF Held, TypeOK
    <3>2. CASE t # s
      BY <1>0, <1>a, <1>m, <3>2 DEF Moved, HoldInv, Held, TypeOK
    <3>3. QED
      BY <3>1, <3>2
  <2>4. QED
    BY <2>1, <2>2, <2>3 DEF HoldInv
<1>4. ClientInv'
  <2>1. ASSUME NEW d \in Clients PROVE Uses(d)'
    <3>1. CASE d = c
      BY <1>0, <3>1 DEF Moved, Uses, ClosingAt
    <3>2. CASE d # c
      BY <1>0, <3>2, NoOneAssumption, OthersUse
    <3>3. QED
      BY <3>1, <3>2
  <2>2. ASSUME NEW t \in Schedulers PROVE Ends(t)'
    BY <1>m DEF ClientInv, Ends, TypeOK
  <2>3. QED
    BY <2>1, <2>2 DEF ClientInv
<1>5. BudgetInv'
  BY DEF BudgetInv
<1>7. NoStrandedJobs'
  <2> SUFFICES ASSUME NEW t \in Schedulers, Free(t)', queue[t] > 0, stopCount[t] = 0,
                      running[t] = {}
               PROVE  ThreadCount[t] = 0 /\ (starved[t] \/ passedOver[t] \/ alive[t] = "closing")
    BY DEF NoStrandedJobs
  <2>1. CASE t = s
    <3>1. ThreadCount[s] = 0
      <4>1. ThreadCount[s] \in Nat /\ ~(ThreadCount[s] > 0)
        BY <1>a, <2>1, CountAssumption DEF CallInv, s
      <4>2. QED
        BY <4>1
    <3>2. starved[s]
      BY <1>a DEF StarvingInv
    <3>3. QED
      BY <2>1, <3>1, <3>2
  <2>2. CASE t # s
    BY <1>m, <2>2 DEF NoStrandedJobs, Free, TypeOK
  <2>3. QED
    BY <2>1, <2>2
<1>8. CallInv'
  BY <1>0 DEF Moved, CallInv
<1>9. WaitInv'
  BY <1>0 DEF Moved, WaitInv, Covered, Waits, Pays
<1>10. QED
  BY <1>1, <1>2, <1>3, <1>4, <1>5, <1>s, <1>7, <1>8, <1>9

(* StopStarvation leaves a scheduler that does not starve.                 *)
LEMMA StopsStarving ==
  ASSUME TypeOK, StarvingInv, NEW s \in Schedulers,
         IF starved[s] THEN Unregistered(s) ELSE UNCHANGED <<starving, starved>>,
         \A w \in Workers : \A t \in Schedulers : Notifying(w, t)' <=> Notifying(w, t),
         \A c \in Clients : \A t \in Schedulers : Registering(c, t)' <=> Registering(c, t)
  PROVE  /\ StarvingInv' /\ starving' \in Seq(Schedulers)
         /\ starved' \in [Schedulers -> BOOLEAN] /\ ~starved'[s]
         /\ \A t \in Schedulers : starved'[t] => starved[t]
         /\ \A t \in Schedulers \ {s} : starved'[t] = starved[t]
<1>1. CASE starved[s]
  <2>1. /\ StarvingInv' /\ starving' \in Seq(Schedulers)
        /\ starved' = [starved EXCEPT ![s] = FALSE]
    BY <1>1, UnregisterStarving
  <2>2. QED
    BY <2>1 DEF TypeOK
<1>2. CASE ~starved[s]
  <2>1. StarvingInv'
    BY <1>2, StarvingFrame
  <2>2. QED
    BY <1>2, <2>1 DEF TypeOK
<1>3. QED
  BY <1>1, <1>2 DEF TypeOK

(* A scheduler that ends is taken from the list, if it is there.           *)
LEMMA UnregisterClosingStep ==
  ASSUME IInv, NEW c \in Clients, UnregisterClosing(c)
  PROVE  IInv'
<1> USE DEF IInv, UnregisterClosing
<1> DEFINE s == on[c]
<1>a. /\ s \in Schedulers /\ cpc[c] = "unregister" /\ alive[s] = "closing"
      /\ Goto(c, "checkClosing", s)
  BY CallsWhom DEF ClientInv, Uses, ClosingAt
<1>0. Moved(c, "checkClosing", s) /\ ClientTypes'
  BY <1>a, GotoTypes
<1>s. /\ StarvingInv' /\ starving' \in Seq(Schedulers)
      /\ starved' \in [Schedulers -> BOOLEAN] /\ ~starved'[s]
      /\ \A t \in Schedulers : starved'[t] => starved[t]
      /\ \A t \in Schedulers \ {s} : starved'[t] = starved[t]
  <2>1. \A v \in Workers : \A t \in Schedulers : Notifying(v, t)' <=> Notifying(v, t)
    BY DEF Notifying
  <2>2. \A d \in Clients : \A t \in Schedulers : Registering(d, t)' <=> Registering(d, t)
    BY <1>0, <1>a DEF Registering, Moved
  <2>3. QED
    BY <1>a, <2>1, <2>2, StopsStarving
<1> HIDE DEF s
<1>1. TypeOK'
  <2>1. stops \in 0..MaxStops /\ calls \in 0..MaxCalls
    BY DEF TypeOK, Bounded
  <2>2. Bounded'
    BY <2>1, BoundedFrame, JobBounds
  <2>3. QED
    BY <1>0, <1>s, <2>2 DEF TypeOK, ClientTypes
<1>2. PlaceInv' /\ PoolInv' /\ CountInv' /\ DebtInv'
  BY ThreadFrame
<1>3. HoldInv'
  <2>1. ASSUME NEW v \in Workers PROVE WorkerHolds(v)'
    BY <1>s, CallsWhom DEF HoldInv, WorkerHolds, Owing
  <2>2. ASSUME NEW d \in Clients PROVE ClientHolds(d)'
    BY <1>0 DEF Moved, HoldInv, ClientHolds
  <2>3. ASSUME NEW t \in Schedulers PROVE Held(t)'
    BY <1>0, <1>a DEF Moved, HoldInv, Held
  <2>4. QED
    BY <2>1, <2>2, <2>3 DEF HoldInv
<1>4. ClientInv'
  <2>1. ASSUME NEW d \in Clients PROVE Uses(d)'
    <3>1. CASE d = c
      <4>1. \A e \in Clients \ {c} : on[e] # s
        BY <1>a DEF ClientInv, Uses, ClosingAt, s
      <4>2. \A e \in Clients \ {c} : on'[e] # s
        BY <4>1, <1>0 DEF Moved
      <4>3. QED
        BY <1>0, <1>a, <1>s, <3>1, <4>2, NoOneAssumption DEF Moved, Uses, ClosingAt
    <3>2. CASE d # c
      <4>1. /\ s \in Schedulers \cup {NoOne} /\ UNCHANGED alive /\ s = on[c]
            /\ \A t \in Schedulers : starved'[t] => starved[t] \/ alive[t] = "open"
        BY <1>a, <1>s DEF s
      <4>2. QED
        BY <1>0, <3>2, <4>1, OthersUse
    <3>3. QED
      BY <3>1, <3>2
  <2>2. ASSUME NEW t \in Schedulers PROVE Ends(t)'
    BY <1>s DEF ClientInv, Ends, TypeOK
  <2>3. QED
    BY <2>1, <2>2 DEF ClientInv
<1>5. BudgetInv'
  BY DEF BudgetInv
<1>7. NoStrandedJobs'
  BY <1>a, <1>s DEF NoStrandedJobs, Free
<1>8. CallInv'
  BY <1>0 DEF Moved, CallInv
<1>9. WaitInv'
  BY <1>0, <1>a DEF Moved, WaitInv, Covered, Waits, Pays
<1>10. QED
  BY <1>1, <1>2, <1>3, <1>4, <1>5, <1>s, <1>7, <1>8, <1>9

-----------------------------------------------------------------------------
(* Threads.                                                                *)

(* The thread is back in its loop, and still running.                      *)
LEMMA JobEndsStep ==
  ASSUME IInv, NEW w \in Workers, JobEnds(w)
  PROVE  IInv'
<1> USE DEF IInv, JobEnds, MoveTo
<1>0. owner[w] \in Schedulers /\ w \in running[owner[w]]
  BY DEF PlaceInv
<1>1. TypeOK'
  <2>1. stops \in 0..MaxStops /\ calls \in 0..MaxCalls
    BY DEF TypeOK, Bounded
  <2>2. Bounded'
    BY <2>1, BoundedFrame, JobBounds
  <2>3. QED
    BY <2>2 DEF TypeOK
<1>2. PlaceInv'
  BY DEF PlaceInv, Paying, TypeOK
<1>3. HoldInv'
  <2>1. ASSUME NEW v \in Workers PROVE WorkerHolds(v)'
    BY DEF HoldInv, WorkerHolds, Owing, Paying, TypeOK
  <2>2. ASSUME NEW d \in Clients PROVE ClientHolds(d)'
    BY DEF HoldInv, ClientHolds
  <2>3. ASSUME NEW t \in Schedulers PROVE Held(t)'
    BY DEF HoldInv, Held, TypeOK
  <2>4. QED
    BY <2>1, <2>2, <2>3 DEF HoldInv
<1>4. ClientInv'
  BY DEF ClientInv, Uses, Ends, ClosingAt
<1>5. PoolInv' /\ CountInv'
  <2>1. Unborn \subseteq Unborn'
    BY DEF Unborn, TypeOK
  <2>2. {v \in Workers : wpc[v] \in Paying}' = {v \in Workers : wpc[v] \in Paying}
    BY DEF TypeOK, Paying
  <2>3. QED
    BY <2>1, <2>2, PoolFrame, CountFrame
<1>6. DebtInv' /\ BudgetInv'
  BY DEF DebtInv, BudgetInv
<1>7. StarvingInv'
  <2>1. \A v \in Workers : \A s \in Schedulers : Notifying(v, s)' <=> Notifying(v, s)
    BY DEF Notifying, TypeOK
  <2>2. QED
    BY <2>1, StarvingFrame DEF Registering
<1>8. NoStrandedJobs'
  BY DEF NoStrandedJobs, Free
<1>9. CallInv'
  BY DEF CallInv
<1>10. WaitInv'
  BY DEF WaitInv, Covered, Waits, Pays
<1>11. QED
  BY <1>1, <1>2, <1>3, <1>4, <1>5, <1>6, <1>7, <1>8, <1>9, <1>10

(* The scheduler is taken from the list, under its mutex.                  *)
LEMMA StopStarvationStep ==
  ASSUME IInv, NEW w \in Workers, StopStarvation(w)
  PROVE  IInv'
<1> USE DEF IInv, StopStarvation, MoveTo
<1> DEFINE s == at[w]
<1>a. /\ s \in Schedulers /\ wpc[w] = "stopStarving" /\ wpc' = [wpc EXCEPT ![w] = "release"]
      /\ mutex[s] = w /\ alive[s] # "gone"
  BY CallsWhom, NoOneAssumption DEF Owing, HoldInv, WorkerHolds, ClientInv, Ends
<1>s. /\ StarvingInv' /\ starving' \in Seq(Schedulers)
      /\ starved' \in [Schedulers -> BOOLEAN] /\ ~starved'[s]
      /\ \A t \in Schedulers : starved'[t] => starved[t]
      /\ \A t \in Schedulers \ {s} : starved'[t] = starved[t]
  <2>1. \A v \in Workers : \A t \in Schedulers : Notifying(v, t)' <=> Notifying(v, t)
    BY <1>a DEF Notifying, TypeOK
  <2>2. \A d \in Clients : \A t \in Schedulers : Registering(d, t)' <=> Registering(d, t)
    BY DEF Registering
  <2>3. QED
    BY <1>a, <2>1, <2>2, StopsStarving
<1>1. TypeOK'
  <2>1. stops \in 0..MaxStops /\ calls \in 0..MaxCalls
    BY DEF TypeOK, Bounded
  <2>2. Bounded'
    BY <2>1, BoundedFrame, JobBounds
  <2>3. QED
    BY <1>a, <1>s, <2>2 DEF TypeOK
<1>2. PlaceInv'
  BY <1>a DEF PlaceInv, Paying, TypeOK
<1>3. HoldInv'
  <2>1. ASSUME NEW v \in Workers PROVE WorkerHolds(v)'
    <3>1. CASE v = w
      <4>1. WorkerHolds(w) /\ s # NoOne /\ wpc'[w] = "release"
        BY <1>a, NoOneAssumption DEF HoldInv, TypeOK
      <4>2. mutex'[s] = w /\ (queue'[s] = 0 \/ stopCount'[s] # 0) /\ fromShared'[s] > 0
        BY <4>1 DEF WorkerHolds
      <4>3. QED
        BY <4>1, <4>2, <1>a, <1>s, <3>1 DEF WorkerHolds, Owing
    <3>2. CASE v # w
      <4>1. wpc'[v] = wpc[v]
        BY <1>a, <3>2 DEF TypeOK
      <4>2. at[v] # NoOne => at[v] \in Schedulers
        BY DEF TypeOK
      <4>3. QED
        BY <1>s, <4>1, <4>2 DEF HoldInv, WorkerHolds
    <3>3. QED
      BY <3>1, <3>2
  <2>2. ASSUME NEW d \in Clients PROVE ClientHolds(d)'
    BY DEF HoldInv, ClientHolds
  <2>3. ASSUME NEW t \in Schedulers PROVE Held(t)'
    BY <1>a DEF HoldInv, Held, TypeOK
  <2>4. QED
    BY <2>1, <2>2, <2>3 DEF HoldInv
<1>4. ClientInv'
  <2>1. ASSUME NEW d \in Clients PROVE Uses(d)'
    BY <1>s, CallsWhom DEF ClientInv, Uses, ClosingAt
  <2>2. ASSUME NEW t \in Schedulers PROVE Ends(t)'
    BY <1>s DEF ClientInv, Ends
  <2>3. QED
    BY <2>1, <2>2 DEF ClientInv
<1>5. PoolInv' /\ CountInv'
  <2>1. Unborn \subseteq Unborn'
    BY <1>a DEF Unborn, TypeOK
  <2>2. {v \in Workers : wpc[v] \in Paying}' = {v \in Workers : wpc[v] \in Paying}
    BY <1>a DEF TypeOK, Paying
  <2>3. QED
    BY <2>1, <2>2, PoolFrame, CountFrame
<1>6. DebtInv' /\ BudgetInv'
  BY DEF DebtInv, BudgetInv
<1>8. NoStrandedJobs'
  BY <1>a, <1>s, NoOneAssumption DEF NoStrandedJobs, Free
<1>9. CallInv'
  BY DEF CallInv
<1>10. WaitInv'
  BY DEF WaitInv, Covered, Waits, Pays
<1>11. QED
  BY <1>1, <1>2, <1>3, <1>4, <1>5, <1>6, <1>s, <1>8, <1>9, <1>10

-----------------------------------------------------------------------------
(* A client looks whether the queue is empty, and the end of a scheduler.  *)

(* Somebody who is going to wait resets the event while a thread is still  *)
(* running; a scheduler that ends is left by all its threads.              *)
LEMMA CheckEmptyStep ==
  ASSUME IInv, NEW c \in Clients, CheckEmpty(c)
  PROVE  IInv'
<1> USE DEF IInv
<1> DEFINE s == on[c]
           done == running[s] = {} /\ Drained(s) = 0
           gone == done /\ cpc[c] = "checkClosing"
<1>a. /\ s \in Schedulers /\ mutex[s] = NoOne /\ cpc[c] \in {"checkEmpty", "checkClosing"}
      /\ Uses(c)
  BY CallsWhom DEF CheckEmpty, ClientInv
<1>b. /\ queue' = [queue EXCEPT ![s] = Drained(s)]
      /\ suspended' = [suspended EXCEPT ![s] = IF gone THEN {} ELSE @]
      /\ alive' = [alive EXCEPT ![s] = IF gone THEN "gone" ELSE @]
      /\ emptyEvent' = [emptyEvent EXCEPT ![s] = @ /\ done]
      /\ UNCHANGED <<mutex, stopCount, aggressiveThreading,
                     running, yetToCreate, fromShared, owner, sleeping,
                     overtaken, poolVars, hungerVars, workerVars, budgetVars>>
  BY DEF CheckEmpty
<1>c. PICK pc, x :
        /\ Goto(c, pc, x)
        /\ \/ done /\ pc = "idle" /\ x = NoOne
           \/ ~done /\ pc = "waitEmpty" /\ cpc[c] = "checkEmpty" /\ x = s
           \/ ~done /\ pc = "waitClosing" /\ cpc[c] = "checkClosing" /\ x = s
  BY <1>a DEF CheckEmpty
<1>0. Moved(c, pc, x) /\ ClientTypes'
  BY <1>a, <1>c, GotoTypes
<1>q. /\ Drained(s) \in Nat /\ Drained(s) <= queue[s]
      /\ Drained(s) > 0 => stopCount[s] = 0 /\ Drained(s) = queue[s]
  BY <1>a, JobBounds DEF Drained
<1>d. ~done /\ ThreadCount[s] > 0 => running[s] # {}
  <2> SUFFICES ASSUME ~done, ThreadCount[s] > 0, running[s] = {} PROVE FALSE
    OBVIOUS
  <2>1. Drained(s) > 0
    BY <1>q
  <2>2. queue[s] > 0 /\ stopCount[s] = 0
    BY <2>1, <1>q
  <2>3. ThreadCount[s] = 0
    BY <1>a, <2>2 DEF NoStrandedJobs, Free
  <2>4. QED
    BY <2>3
<1>g. gone => /\ running[s] = {} /\ ~starved[s] /\ alive[s] = "closing"
              /\ \A d \in Clients \ {c} : on[d] # s
  BY <1>a DEF Uses, ClosingAt
<1> HIDE DEF s, done, gone
<1>1. TypeOK'
  <2>1. stops \in 0..MaxStops /\ calls \in 0..MaxCalls
    BY DEF TypeOK, Bounded
  <2>2. queue' \in [Schedulers -> Nat] /\ \A t \in Schedulers : queue'[t] <= queue[t]
    BY <1>a, <1>b, <1>q, JobBounds
  <2>3. Bounded'
    BY <1>b, <2>1, <2>2, BoundedFrame, JobBounds
  <2>4. /\ suspended' \in [Schedulers -> SUBSET Workers] /\ emptyEvent' \in [Schedulers -> BOOLEAN]
        /\ alive' \in [Schedulers -> {"open", "closing", "gone"}]
    BY <1>a, <1>b DEF TypeOK
  <2>5. QED
    BY <1>0, <1>b, <2>3, <2>4 DEF TypeOK, ClientTypes
<1>u. \A t \in Schedulers : suspended'[t] \subseteq suspended[t]
  BY <1>a, <1>b DEF TypeOK
<1>v. \A t \in Schedulers : alive'[t] = IF t = s /\ gone THEN "gone" ELSE alive[t]
  BY <1>a, <1>b DEF TypeOK
<1>w. \A t \in Schedulers : ~(t = s /\ gone) => suspended'[t] = suspended[t]
  BY <1>a, <1>b DEF TypeOK
<1>2. PlaceInv'
  BY <1>b, <1>u DEF PlaceInv, Paying
<1>p. PoolInv'
  <2>1. Unborn \subseteq Unborn'
    BY <1>b, <1>u DEF Unborn
  <2>2. QED
    BY <2>1, <1>b, PoolFrame
<1>n. CountInv'
  <2> SUFFICES ASSUME NEW t \in Schedulers PROVE Counted(t)'
    BY DEF CountInv
  <2>1. CASE t = s /\ gone
    BY <2>1, <1>v DEF Counted
  <2>2. CASE ~(t = s /\ gone)
    <3>1. Counted(t) /\ alive'[t] = alive[t] /\ suspended'[t] = suspended[t]
      BY <2>2, <1>v, <1>w DEF CountInv
    <3>2. QED
      BY <1>b, <3>1 DEF Counted, runningCount, Pays
  <2>3. QED
    BY <2>1, <2>2
<1>e. DebtInv' /\ BudgetInv'
  <2>1. DebtInv'
    BY <1>b, <1>u DEF DebtInv
  <2>2. ASSUME NEW t \in Schedulers PROVE queue'[t] <= jobs
    <3>1. queue[t] <= jobs /\ queue[t] \in Nat /\ jobs \in Nat
      BY JobBounds DEF BudgetInv
    <3>2. CASE t = s
      <4>1. queue'[t] = Drained(s)
        BY <1>a, <1>b, <3>2, JobBounds
      <4>2. QED
        BY <4>1, <3>1, <3>2, <1>q
    <3>3. CASE t # s
      BY <1>b, <3>1, <3>3, JobBounds
    <3>4. QED
      BY <3>2, <3>3
  <2>3. QED
    BY <1>b, <2>1, <2>2 DEF BudgetInv
<1>3. HoldInv'
  <2>1. ASSUME NEW v \in Workers PROVE WorkerHolds(v)'
    <3>1. \A t \in Schedulers : queue[t] = 0 => queue'[t] = 0
      BY <1>a, <1>b, <1>q, JobBounds
    <3>2. at[v] # NoOne => at[v] \in Schedulers
      BY DEF TypeOK
    <3>3. QED
      BY <1>b, <3>1, <3>2 DEF HoldInv, WorkerHolds
  <2>2. ASSUME NEW d \in Clients PROVE ClientHolds(d)'
    BY <1>0, <1>b, <1>c DEF Moved, HoldInv, ClientHolds
  <2>3. ASSUME NEW t \in Schedulers PROVE Held(t)'
    BY <1>0, <1>a, <1>b, <1>c DEF Moved, HoldInv, Held
  <2>4. QED
    BY <2>1, <2>2, <2>3 DEF HoldInv
<1>4. ClientInv'
  <2>1. ASSUME NEW d \in Clients PROVE Uses(d)'
    <3>1. CASE d = c
      <4>1. CASE done
        BY <1>0, <1>c, <3>1, <4>1 DEF Moved, Uses, ClosingAt
      <4>2. CASE ~done
        <5>1. /\ cpc'[c] = pc /\ on'[c] = s /\ s # NoOne /\ alive'[s] = alive[s]
              /\ pc \in {"waitEmpty", "waitClosing"} /\ UNCHANGED starved
          BY <1>0, <1>a, <1>b, <1>c, <1>v, <4>2, NoOneAssumption DEF Moved, gone
        <5>2. ASSUME pc = "waitClosing", NEW e \in Clients \ {c} PROVE on'[e] # s
          <6>1. cpc[c] = "checkClosing"
            BY <5>2, <1>c
          <6>2. on[e] # s
            BY <6>1, <1>a, <5>2 DEF Uses, ClosingAt, s
          <6>3. QED
            BY <6>2, <5>2, <1>0 DEF Moved
        <5>3. pc = "waitClosing" => alive[s] = "closing" /\ ~starved[s]
          BY <1>a, <1>c DEF Uses, ClosingAt, s
        <5>4. pc = "waitEmpty" => alive[s] = "open"
          BY <1>a, <1>c DEF Uses, ClosingAt, s
        <5>5. QED
          BY <3>1, <5>1, <5>2, <5>3, <5>4 DEF Uses, ClosingAt
      <4>3. QED
        BY <4>1, <4>2
    <3>2. CASE d # c
      <4>1. Uses(d) /\ cpc'[d] = cpc[d] /\ on'[d] = on[d] /\ on[d] \in Schedulers \cup {NoOne}
        BY <1>0, <3>2 DEF Moved, ClientInv, TypeOK
      <4>2. on[d] \in Schedulers => alive'[on[d]] = alive[on[d]]
        BY <1>g, <1>v, <3>2, <4>1
      <4>3. ASSUME cpc[d] \in ClosingAt, NEW e \in Clients \ {d} PROVE on'[e] # on[d]
        <5>1. on[e] # on[d] /\ on[d] # NoOne /\ on[c] # on[d]
          BY <3>2, <4>1, <4>3 DEF Uses, ClosingAt
        <5>2. CASE e = c
          BY <5>1, <5>2, <1>0, <1>c DEF Moved, s
        <5>3. CASE e # c
          BY <5>1, <5>3, <1>0 DEF Moved
        <5>4. QED
          BY <5>2, <5>3
      <4>4. QED
        BY <1>b, <4>1, <4>2, <4>3 DEF Uses, ClosingAt
    <3>3. QED
      BY <3>1, <3>2
  <2>2. ASSUME NEW t \in Schedulers PROVE Ends(t)'
    <3>1. Ends(t)
      BY DEF ClientInv
    <3>2. CASE t = s /\ gone
      <4>1. suspended'[t] = {} /\ alive'[t] = "gone"
        BY <1>a, <1>b, <1>v, <3>2 DEF TypeOK
      <4>2. QED
        BY <4>1, <1>a, <1>b, <1>g, <3>2 DEF Ends
    <3>3. CASE ~(t = s /\ gone)
      BY <1>b, <1>v, <1>w, <3>1, <3>3 DEF Ends
    <3>4. QED
      BY <3>2, <3>3
  <2>3. QED
    BY <2>1, <2>2 DEF ClientInv
<1>6. StarvingInv'
  BY <1>0, <1>a, <1>b, <1>c, StarvingFrame DEF Moved, Registering, Notifying
<1>7. NoStrandedJobs'
  <2> SUFFICES ASSUME NEW t \in Schedulers, mutex[t] = NoOne, queue'[t] > 0, stopCount[t] = 0,
                      running[t] = {}
               PROVE  ThreadCount[t] = 0 /\ (starved[t] \/ passedOver[t] \/ alive'[t] = "closing")
    BY <1>b DEF NoStrandedJobs, Free
  <2>1. queue[t] > 0 /\ queue'[t] \in Nat
    <3>1. CASE t = s
      <4>1. queue'[t] = Drained(s)
        BY <1>a, <1>b, <3>1, JobBounds
      <4>2. QED
        BY <4>1, <3>1, <1>q, JobBounds
    <3>2. CASE t # s
      BY <1>b, <3>2, JobBounds
    <3>3. QED
      BY <3>1, <3>2
  <2>2. alive'[t] = alive[t]
    <3>1. CASE t = s /\ gone
      <4>1. queue'[t] = 0
        BY <1>a, <1>b, <3>1, JobBounds DEF gone, done
      <4>2. QED
        BY <4>1
    <3>2. QED
      BY <3>1, <1>v
  <2>3. QED
    BY <2>1, <2>2 DEF NoStrandedJobs, Free
<1>8. CallInv'
  BY <1>0, <1>b, <1>c DEF Moved, CallInv
<1>9. WaitInv'
  <2> SUFFICES ASSUME NEW d \in Clients, Waits(d)', d \notin overtaken, ~emptyEvent'[on'[d]],
                      ThreadCount[on'[d]] > 0, Pays(on[d])' = 0
               PROVE  running[on'[d]] # {}
    BY <1>b DEF WaitInv, Covered
  <2>1. CASE d = c
    <3>1. ~done /\ on'[d] = s
      BY <2>1, <1>0, <1>c DEF Moved, Waits
    <3>2. QED
      BY <3>1, <1>d
  <2>2. CASE d # c
    <3>1. on'[d] = on[d] /\ Waits(d) /\ Covered(d) /\ on[d] \in Schedulers
      BY <2>2, <1>0, CallsWhom DEF Moved, Waits, WaitInv
    <3>2. CASE on[d] = s /\ ~done
      BY <3>1, <3>2, <1>d
    <3>3. CASE on[d] # s \/ done
      <4>1. emptyEvent'[on[d]] = emptyEvent[on[d]]
        BY <1>a, <1>b, <3>1, <3>3 DEF TypeOK
      <4>2. Pays(on[d]) = 0
        BY <3>1, <1>b DEF Pays
      <4>3. QED
        BY <3>1, <4>1, <4>2 DEF Covered
    <3>4. QED
      BY <3>2, <3>3
  <2>3. QED
    BY <2>1, <2>2
<1>10. QED
  BY <1>1, <1>2, <1>p, <1>n, <1>e, <1>3, <1>4, <1>6, <1>7, <1>8, <1>9

-----------------------------------------------------------------------------
(* A thread for a scheduler.                                               *)

Taken(s, w) ==
  /\ running' = [running EXCEPT ![s] = @ \cup {w}]
  /\ owner' = [owner EXCEPT ![w] = s]
  /\ sleeping' = [sleeping EXCEPT ![w] = FALSE]
  /\ passedOver' = [passedOver EXCEPT ![s] = FALSE]
  /\ UNCHANGED maxCount

Recycled(s, w) ==
  /\ w \in suspended[s] /\ suspended' = [suspended EXCEPT ![s] = @ \ {w}]
  /\ UNCHANGED <<pool, yetToCreate, fromShared, allocCount, sharedYetToCreate>>

Created(s, w) ==
  /\ w \in Unborn /\ suspended[s] = {} /\ yetToCreate[s] > 0
  /\ yetToCreate' = [yetToCreate EXCEPT ![s] = @ - 1]
  /\ UNCHANGED <<suspended, pool, fromShared, allocCount, sharedYetToCreate>>

Borrowed(s, w) ==
  /\ suspended[s] = {} /\ yetToCreate[s] = 0
  /\ fromShared' = [fromShared EXCEPT ![s] = @ + 1]
  /\ allocCount' = allocCount + 1
  /\ \/ w \in pool /\ pool' = pool \ {w} /\ UNCHANGED sharedYetToCreate
     \/ /\ w \in Unborn /\ sharedYetToCreate > 0
        /\ sharedYetToCreate' = sharedYetToCreate - 1 /\ UNCHANGED pool
  /\ UNCHANGED <<suspended, yetToCreate>>

(* As long as threads may be created there are some to be created.         *)
LEMMA UnbornLeft ==
  ASSUME IInv, sharedYetToCreate > 0 \/ \E s \in Schedulers : yetToCreate[s] > 0
  PROVE  Unborn # {}
<1>1. /\ yetToCreate \in [Schedulers -> Nat] /\ sharedYetToCreate \in Nat
      /\ IsFiniteSet(Each(yetToCreate)) /\ Cardinality(Each(yetToCreate)) \in Nat
  BY EachMembers DEF IInv, TypeOK
<1>2. Cardinality(Unborn) >= sharedYetToCreate + Cardinality(Each(yetToCreate))
  BY DEF IInv, PoolInv
<1>3. ASSUME NEW s \in Schedulers, yetToCreate[s] > 0 PROVE Cardinality(Each(yetToCreate)) # 0
  <2>1. 1 \in 1..yetToCreate[s]
    BY <1>1, <1>3
  <2>2. <<s, 1>> \in Each(yetToCreate)
    BY <1>1, <2>1, EachMembers
  <2>3. QED
    BY <1>1, <2>2, FS_EmptySet
<1>4. Cardinality({}) = 0
  BY FS_EmptySet
<1>5. CASE sharedYetToCreate > 0
  <2> DEFINE e == Cardinality(Each(yetToCreate))
             u == Cardinality(Unborn)
  <2>1. e \in Nat /\ u >= sharedYetToCreate + e
    BY <1>1, <1>2
  <2> HIDE DEF e, u
  <2>2. u # 0
    BY <2>1, <1>1, <1>5
  <2>3. QED
    BY <2>2, <1>4 DEF u
<1>6. CASE \E s \in Schedulers : yetToCreate[s] > 0
  <2> DEFINE e == Cardinality(Each(yetToCreate))
             u == Cardinality(Unborn)
  <2>1. e \in Nat /\ e # 0 /\ u >= sharedYetToCreate + e
    BY <1>1, <1>2, <1>3, <1>6
  <2> HIDE DEF e, u
  <2>2. u # 0
    BY <2>1, <1>1
  <2>3. QED
    BY <2>2, <1>4 DEF u
<1>7. QED
  BY <1>5, <1>6

(* AllocateThread takes a suspended thread, a new private one or one of    *)
(* the pool.                                                               *)
LEMMA AllocateEffect ==
  ASSUME IInv, NEW s \in Schedulers, AllocatePrivate(s) \/ AllocateShared(s)
  PROVE  \E w \in Workers :
           Taken(s, w) /\ (Recycled(s, w) \/ Created(s, w) \/ Borrowed(s, w))
<1>t. /\ suspended[s] \subseteq Workers /\ pool \subseteq Workers /\ Unborn \subseteq Workers
      /\ yetToCreate[s] \in Nat
  BY DEF IInv, TypeOK, Unborn
<1>1. CASE AllocatePrivate(s) /\ suspended[s] # {}
  <2> DEFINE w == CHOOSE w \in suspended[s] : TRUE
  <2>1. w \in suspended[s]
    BY <1>1
  <2> HIDE DEF w
  <2>2. Resumed(s, w) /\ Recycled(s, w)
    BY <1>1, <2>1 DEF AllocatePrivate, Recycled, w
  <2>3. Taken(s, w)
    BY <1>1, <2>2 DEF Resumed, Taken, AllocatePrivate
  <2>4. QED
    BY <1>t, <2>1, <2>2, <2>3
<1>2. CASE AllocatePrivate(s) /\ suspended[s] = {}
  <2> DEFINE w == CHOOSE w \in Unborn : TRUE
  <2>0. yetToCreate[s] > 0
    BY <1>2 DEF AllocatePrivate, HasPrivate
  <2>1. w \in Unborn
    BY <2>0, UnbornLeft
  <2> HIDE DEF w
  <2>2. Resumed(s, w) /\ Created(s, w)
    BY <1>2, <2>0, <2>1 DEF AllocatePrivate, Created, w
  <2>3. Taken(s, w)
    BY <1>2, <2>2 DEF Resumed, Taken, AllocatePrivate
  <2>4. QED
    BY <1>t, <2>1, <2>2, <2>3
<1>3. CASE AllocateShared(s)
  <2>0. suspended[s] = {} /\ yetToCreate[s] = 0
    BY <1>3, <1>t DEF AllocateShared, MayBorrow, HasPrivate
  <2>1. PICK w \in Workers : TryAlloc(w) /\ Resumed(s, w)
    BY <1>3 DEF AllocateShared
  <2>2. CASE pool # {}
    <3>1. w \in pool
      BY <2>1, <2>2 DEF TryAlloc
    <3>2. Borrowed(s, w) /\ UNCHANGED maxCount
      BY <1>3, <2>0, <2>1, <2>2, <3>1 DEF TryAlloc, Borrowed, AllocateShared
    <3>3. QED
      BY <2>1, <3>2 DEF Resumed, Taken
  <2>3. CASE pool = {}
    <3>0. sharedYetToCreate > 0
      BY <2>1, <2>3 DEF TryAlloc
    <3>1. w \in Unborn
      BY <2>1, <2>3, <3>0, UnbornLeft DEF TryAlloc
    <3>2. Borrowed(s, w) /\ UNCHANGED maxCount
      BY <1>3, <2>0, <2>1, <2>3, <3>0, <3>1 DEF TryAlloc, Borrowed, AllocateShared
    <3>3. QED
      BY <2>1, <3>2 DEF Resumed, Taken
  <2>4. QED
    BY <2>2, <2>3
<1>4. QED
  BY <1>1, <1>2, <1>3

(* A thread that is taken sleeps, and no other scheduler has it.           *)
LEMMA TakenSleeps ==
  ASSUME IInv, NEW s \in Schedulers, NEW w \in Workers,
         w \in suspended[s] \/ w \in Unborn \/ w \in pool
  PROVE  /\ \A t \in Schedulers : w \notin running[t] /\ (t # s => w \notin suspended[t])
         /\ wpc[w] \in {"loop"} \cup Paying
         /\ w \in suspended[s] => w \notin pool
         /\ w \in Unborn => w \notin pool /\ w \notin suspended[s]
         /\ wpc[w] # "loop" => w \in pool
<1> USE DEF IInv
<1>1. CASE w \in suspended[s]
  BY <1>1, NoOneAssumption DEF PlaceInv, Unborn
<1>2. CASE w \in Unborn
  BY <1>2 DEF Unborn
<1>3. CASE w \in pool
  BY <1>3, NoOneAssumption DEF PlaceInv, Unborn
<1>4. QED
  BY <1>1, <1>2, <1>3

(* The lists after that.                                                   *)
LEMMA AllocatePlace ==
  ASSUME IInv, NEW s \in Schedulers, NEW w \in Workers,
         Taken(s, w), Recycled(s, w) \/ Created(s, w) \/ Borrowed(s, w),
         UNCHANGED <<wpc, at>>
  PROVE  /\ PlaceInv'
         /\ running' \in [Schedulers -> SUBSET Workers]
         /\ suspended' \in [Schedulers -> SUBSET Workers]
         /\ owner' \in [Workers -> Schedulers \cup {NoOne}] /\ sleeping' \in [Workers -> BOOLEAN]
         /\ passedOver' \in [Schedulers -> BOOLEAN] /\ pool' \subseteq Workers
<1> USE DEF IInv
<1>0. w \in suspended[s] \/ w \in Unborn \/ w \in pool
  BY DEF Recycled, Created, Borrowed
<1>1. /\ \A t \in Schedulers : w \notin running[t] /\ (t # s => w \notin suspended[t])
      /\ wpc[w] \in {"loop"} \cup Paying
      /\ w \in suspended[s] => w \notin pool
      /\ w \in Unborn => w \notin pool /\ w \notin suspended[s]
  BY <1>0, TakenSleeps
<1>2. /\ running' \in [Schedulers -> SUBSET Workers]
      /\ owner' \in [Workers -> Schedulers \cup {NoOne}] /\ sleeping' \in [Workers -> BOOLEAN]
      /\ passedOver' \in [Schedulers -> BOOLEAN]
  BY DEF Taken, TypeOK
<1>3. suspended' \in [Schedulers -> SUBSET Workers] /\ pool' \subseteq Workers
  BY DEF Recycled, Created, Borrowed, TypeOK
<1>4. /\ \A t \in Schedulers : running'[t] = IF t = s THEN running[t] \cup {w} ELSE running[t]
      /\ \A v \in Workers : /\ owner'[v] = IF v = w THEN s ELSE owner[v]
                            /\ sleeping'[v] = IF v = w THEN FALSE ELSE sleeping[v]
  BY DEF Taken, TypeOK
<1>5. /\ \A t \in Schedulers : suspended'[t] \subseteq suspended[t] /\ w \notin suspended'[t]
      /\ pool' = pool \ {w}
  <2>1. CASE Recycled(s, w)
    BY <2>1, <1>1 DEF Recycled, TypeOK
  <2>2. CASE Created(s, w)
    BY <2>2, <1>1 DEF Created
  <2>3. CASE Borrowed(s, w)
    BY <2>3, <1>1 DEF Borrowed
  <2>4. QED
    BY <2>1, <2>2, <2>3
<1>6. ASSUME NEW t \in Schedulers, NEW v \in running'[t]
      PROVE  owner'[v] = t /\ ~sleeping'[v]
  <2>1. v \in Workers
    BY <1>2
  <2>2. CASE v = w
    BY <1>1, <1>4, <2>1, <2>2
  <2>3. CASE v # w
    <3>1. v \in running[t]
      BY <1>4, <2>3
    <3>2. owner[v] = t /\ ~sleeping[v]
      BY <3>1 DEF PlaceInv
    <3>3. QED
      BY <3>2, <1>4, <2>1, <2>3
  <2>4. QED
    BY <2>2, <2>3
<1>7. ASSUME NEW t \in Schedulers, NEW v \in suspended'[t]
      PROVE  owner'[v] = t /\ sleeping'[v] /\ wpc[v] = "loop"
  <2>1. v \in Workers /\ v # w /\ v \in suspended[t]
    BY <1>3, <1>5
  <2>2. owner[v] = t /\ sleeping[v] /\ wpc[v] = "loop"
    BY <2>1 DEF PlaceInv
  <2>3. QED
    BY <2>1, <2>2, <1>4
<1>8. \A v \in pool' : owner'[v] = NoOne /\ sleeping'[v] /\ wpc[v] \in {"loop"} \cup Paying
  BY <1>3, <1>4, <1>5 DEF PlaceInv
<1>9. ASSUME NEW v \in Workers
      PROVE  /\ ~sleeping'[v] => owner'[v] \in Schedulers /\ v \in running'[owner'[v]]
             /\ wpc[v] = "exec" => ~sleeping'[v]
             /\ wpc[v] \in {"stopStarving", "release"} => sleeping'[v] /\ owner'[v] = at[v]
             /\ wpc[v] \in Paying => v \in pool' \/ ~sleeping'[v]
             /\ wpc[v] # "endsItself"
  <2>1. CASE v = w
    BY <1>1, <1>4, <2>1 DEF Paying
  <2>2. CASE v # w
    <3>1. owner'[v] = owner[v] /\ sleeping'[v] = sleeping[v] /\ (v \in pool => v \in pool')
      BY <1>4, <1>5, <2>2
    <3>2. ~sleeping[v] => owner[v] \in Schedulers /\ v \in running[owner[v]]
      BY DEF PlaceInv
    <3>3. ~sleeping[v] => v \in running'[owner[v]]
      BY <3>2, <1>4
    <3>4. QED
      BY <3>1, <3>2, <3>3 DEF PlaceInv
  <2>3. QED
    BY <2>1, <2>2
<1>10. PlaceInv'
  BY <1>6, <1>7, <1>8, <1>9 DEF PlaceInv, Paying
<1>11. QED
  BY <1>2, <1>3, <1>10

(* The threads that are taken and those that may still be created.         *)
LEMMA AllocateUnborn ==
  ASSUME IInv, NEW s \in Schedulers, NEW w \in Workers,
         Taken(s, w), Recycled(s, w) \/ Created(s, w) \/ Borrowed(s, w), UNCHANGED wpc
  PROVE  Unborn' = Unborn \ {w}
<1> USE DEF IInv
<1>0. w \in suspended[s] \/ w \in Unborn \/ w \in pool
  BY DEF Recycled, Created, Borrowed
<1>1. /\ \A t \in Schedulers : running'[t] = IF t = s THEN running[t] \cup {w} ELSE running[t]
      /\ \A t \in Schedulers : suspended'[t] \cup {w} = suspended[t] \cup {w}
      /\ pool' \cup {w} = pool \cup {w}
  <2>1. \A t \in Schedulers : running'[t] = IF t = s THEN running[t] \cup {w} ELSE running[t]
    BY DEF Taken, TypeOK
  <2>2. \A t \in Schedulers : suspended'[t] \cup {w} = suspended[t] \cup {w}
    BY DEF Recycled, Created, Borrowed, TypeOK
  <2>3. pool' \cup {w} = pool \cup {w}
    BY DEF Recycled, Created, Borrowed
  <2>4. QED
    BY <2>1, <2>2, <2>3
<1>2. w \notin Unborn'
  <2>1. w \in running'[s]
    BY <1>1
  <2>2. QED
    BY <2>1 DEF Unborn
<1>3. ASSUME NEW v \in Workers, v # w PROVE v \in Unborn' <=> v \in Unborn
  <2>1. v \in pool' <=> v \in pool
    BY <1>1, <1>3
  <2>2. ASSUME NEW t \in Schedulers
        PROVE  v \in running'[t] \cup suspended'[t] <=> v \in running[t] \cup suspended[t]
    <3>1. v \in running'[t] <=> v \in running[t]
      <4>1. CASE t = s
        <5>1. running'[t] = running[t] \cup {w}
          BY <1>1, <4>1
        <5>2. QED
          BY <5>1, <1>3
      <4>2. CASE t # s
        BY <1>1, <4>2
      <4>3. QED
        BY <4>1, <4>2
    <3>2. suspended'[t] \cup {w} = suspended[t] \cup {w}
      BY <1>1
    <3>3. QED
      BY <3>1, <3>2, <1>3
  <2>3. QED
    BY <2>1, <2>2 DEF Unborn
<1>4. Unborn \subseteq Workers /\ Unborn' \subseteq Workers
  BY DEF Unborn
<1>5. QED
  BY <1>2, <1>3, <1>4

(* What the pool counts.                                                   *)
LEMMA AllocatePool ==
  ASSUME IInv, NEW s \in Schedulers, NEW w \in Workers,
         Taken(s, w), Recycled(s, w) \/ Created(s, w) \/ Borrowed(s, w), UNCHANGED wpc
  PROVE  PoolInv' /\ allocCount' \in Nat /\ sharedYetToCreate' \in Nat
<1> USE DEF IInv
<1> DEFINE P == {v \in Workers : wpc[v] \in Paying}
           p == Cardinality(pool)
           u == Cardinality(Unborn)
           y == Cardinality(Each(yetToCreate))
           f == Cardinality(Each(fromShared))
           n == Cardinality(P)
<1>t. /\ yetToCreate \in [Schedulers -> Nat] /\ fromShared \in [Schedulers -> Nat]
      /\ pool \subseteq Workers /\ Unborn \subseteq Workers /\ IsFiniteSet(Workers)
  BY CountAssumption DEF TypeOK, Unborn
<1>f. IsFiniteSet(pool) /\ IsFiniteSet(Unborn) /\ IsFiniteSet(P)
  BY <1>t, FS_Subset
<1>n. /\ p \in Nat /\ u \in Nat /\ n \in Nat
      /\ y \in Nat /\ f \in Nat
      /\ maxCount \in Int /\ allocCount \in Nat /\ sharedYetToCreate \in Nat
  <2>1. p \in Nat /\ u \in Nat /\ n \in Nat
    BY <1>f, FS_CardinalityType
  <2>2. y \in Nat
    BY <1>t, EachMembers
  <2>3. f \in Nat
    BY <1>t, EachMembers
  <2>4. maxCount \in Int /\ allocCount \in Nat /\ sharedYetToCreate \in Nat
    BY CountAssumption DEF TypeOK
  <2>5. QED
    BY <2>1, <2>2, <2>3, <2>4
<1>0. p + allocCount + sharedYetToCreate = maxCount /\ u >= sharedYetToCreate + y /\ allocCount + n = f
  BY DEF PoolInv
<1>1. Unborn' = Unborn \ {w} /\ P' = P /\ maxCount' = maxCount
  BY AllocateUnborn DEF Taken
<1>2. /\ w \in suspended[s] => w \notin Unborn
      /\ w \in Unborn => w \notin pool
      /\ w \in pool => w \notin Unborn
  BY TakenSleeps
<1>3. CASE Recycled(s, w)
  <2>1. Unborn' = Unborn
    BY <1>1, <1>2, <1>3 DEF Recycled
  <2>2. Each(yetToCreate)' = Each(yetToCreate) /\ Each(fromShared)' = Each(fromShared)
    BY <1>3 DEF Recycled, Each
  <2>3. QED
    BY <1>3, <1>1, <1>n, <2>1, <2>2 DEF PoolInv, Recycled
<1>4. CASE Created(s, w)
  <2>1. Cardinality(Unborn') = u - 1
    BY <1>4, <1>1, <1>f, FS_RemoveElement DEF Created
  <2>2. Cardinality(Each(yetToCreate))' = y - 1
    <3>1. Each(yetToCreate)' = Each([yetToCreate EXCEPT ![s] = @ - 1])
      BY <1>4 DEF Created, Each
    <3>2. QED
      BY <1>4, <1>t, <3>1, EachMinus DEF Created
  <2>3. Each(fromShared)' = Each(fromShared)
    BY <1>4 DEF Created, Each
  <2>4. UNCHANGED <<pool, allocCount, sharedYetToCreate>>
    BY <1>4 DEF Created
  <2>5. Cardinality(Unborn') >= sharedYetToCreate' + Cardinality(Each(yetToCreate))'
    <3> HIDE DEF u, y
    <3>1. QED
      BY <2>1, <2>2, <2>4, <1>0, <1>n
  <2>6. QED
    BY <1>1, <1>n, <2>3, <2>4, <2>5 DEF PoolInv
<1>5. CASE Borrowed(s, w)
  <2>1. Each(yetToCreate)' = Each(yetToCreate)
    BY <1>5 DEF Borrowed, Each
  <2>2. Cardinality(Each(fromShared))' = f + 1
    <3>1. Each(fromShared)' = Each([fromShared EXCEPT ![s] = @ + 1])
      BY <1>5 DEF Borrowed, Each
    <3>2. QED
      BY <1>t, <3>1, EachPlus
  <2>3. allocCount' = allocCount + 1
    BY <1>5 DEF Borrowed
  <2>4. allocCount' + Cardinality(P') = Cardinality(Each(fromShared))'
    <3> HIDE DEF f, n
    <3>1. n = Cardinality(P')
      BY <1>1 DEF n
    <3>2. QED
      BY <3>1, <2>2, <2>3, <1>0, <1>n
  <2>5. CASE w \in pool /\ pool' = pool \ {w} /\ UNCHANGED sharedYetToCreate
    <3>1. Cardinality(pool') = p - 1
      BY <2>5, <1>f, FS_RemoveElement
    <3>2. Unborn' = Unborn
      BY <1>1, <1>2, <2>5
    <3>3. Cardinality(pool') + allocCount' + sharedYetToCreate' = maxCount'
      <4> HIDE DEF p
      <4>1. QED
        BY <3>1, <2>3, <2>5, <1>0, <1>1, <1>n
    <3>4. QED
      BY <2>1, <2>3, <2>4, <2>5, <3>2, <3>3, <1>n DEF PoolInv
  <2>6. CASE /\ w \in Unborn /\ sharedYetToCreate > 0
             /\ sharedYetToCreate' = sharedYetToCreate - 1 /\ UNCHANGED pool
    <3>1. Cardinality(Unborn') = u - 1
      BY <2>6, <1>1, <1>f, FS_RemoveElement
    <3>2. Cardinality(pool') + allocCount' + sharedYetToCreate' = maxCount'
      <4> HIDE DEF p
      <4>1. p = Cardinality(pool')
        BY <2>6 DEF p
      <4>2. QED
        BY <4>1, <2>3, <2>6, <1>0, <1>1, <1>n
    <3>3. Cardinality(Unborn') >= sharedYetToCreate' + Cardinality(Each(yetToCreate))'
      <4> HIDE DEF u, y
      <4>1. y = Cardinality(Each(yetToCreate))'
        BY <2>1 DEF y
      <4>2. QED
        BY <3>1, <4>1, <2>6, <1>0, <1>n
    <3>4. QED
      BY <2>3, <2>4, <2>6, <3>2, <3>3, <1>n DEF PoolInv
  <2>7. QED
    BY <1>5, <2>5, <2>6 DEF Borrowed
<1>6. QED
  BY <1>3, <1>4, <1>5

(* What the scheduler counts.                                              *)
LEMMA AllocateCount ==
  ASSUME IInv, NEW s \in Schedulers, NEW w \in Workers,
         Taken(s, w), Recycled(s, w) \/ Created(s, w) \/ Borrowed(s, w),
         UNCHANGED <<at, alive>>
  PROVE  /\ CountInv' /\ DebtInv'
         /\ yetToCreate' \in [Schedulers -> Nat] /\ fromShared' \in [Schedulers -> Nat]
         /\ \A t \in Schedulers : fromShared'[t] >= fromShared[t]
<1> USE DEF IInv
<1>t. /\ yetToCreate \in [Schedulers -> Nat] /\ fromShared \in [Schedulers -> Nat]
      /\ running \in [Schedulers -> SUBSET Workers] /\ suspended \in [Schedulers -> SUBSET Workers]
      /\ IsFiniteSet(Workers)
  BY CountAssumption DEF TypeOK
<1>0. w \in suspended[s] \/ w \in Unborn \/ w \in pool
  BY DEF Recycled, Created, Borrowed
<1>1. w \notin running[s]
  BY <1>0, TakenSleeps
<1>2. yetToCreate' \in [Schedulers -> Nat] /\ fromShared' \in [Schedulers -> Nat]
  BY <1>t DEF Recycled, Created, Borrowed
<1>3. \A t \in Schedulers : fromShared'[t] >= fromShared[t]
  BY <1>t DEF Recycled, Created, Borrowed
<1>4. DebtInv'
  BY <1>t DEF DebtInv, Recycled, Created, Borrowed
<1>5. ASSUME NEW t \in Schedulers, t # s PROVE Counted(t)'
  <2>1. /\ running'[t] = running[t] /\ suspended'[t] = suspended[t]
        /\ yetToCreate'[t] = yetToCreate[t] /\ fromShared'[t] = fromShared[t]
    BY <1>t, <1>5 DEF Taken, Recycled, Created, Borrowed
  <2>2. Counted(t)
    BY DEF CountInv
  <2>3. QED
    BY <2>1, <2>2 DEF Counted, runningCount, Pays
<1>6. Counted(s)'
  <2> DEFINE r == Cardinality(running[s])
             u == Cardinality(suspended[s])
             y == yetToCreate[s]
             p == Pays(s)
             f == fromShared[s]
             c == ThreadCount[s]
  <2>f. IsFiniteSet(running[s]) /\ IsFiniteSet(suspended[s])
    BY <1>t, FS_Subset
  <2>n. /\ r \in Nat /\ u \in Nat /\ y \in Nat /\ p \in Nat /\ f \in Nat /\ c \in Nat
    BY <2>f, <1>t, CountAssumption, FS_CardinalityType DEF Pays
  <2> SUFFICES ASSUME alive[s] # "gone"
               PROVE  Cardinality(running'[s]) + Cardinality(suspended'[s]) + yetToCreate'[s] + Pays(s)'
                        = ThreadCount[s] + fromShared'[s]
    BY DEF Counted, runningCount
  <2>0. r + u + y + p = c + f
    BY DEF CountInv, Counted, runningCount
  <2>1. Pays(s)' = p
    BY DEF Pays
  <2>2. Cardinality(running'[s]) = r + 1
    <3>1. running'[s] = running[s] \cup {w}
      BY <1>t DEF Taken
    <3>2. QED
      BY <3>1, <1>1, <2>f, FS_AddElement
  <2>3. CASE Recycled(s, w)
    <3>1. suspended'[s] = suspended[s] \ {w} /\ w \in suspended[s]
      BY <1>t, <2>3 DEF Recycled
    <3>2. Cardinality(suspended'[s]) = u - 1
      BY <3>1, <2>f, FS_RemoveElement
    <3>3. yetToCreate'[s] = y /\ fromShared'[s] = f
      BY <2>3 DEF Recycled
    <3> HIDE DEF r, u, y, p, f, c
    <3>4. (r + 1) + (u - 1) + y + p = c + f
      BY <2>0, <2>n
    <3>5. QED
      BY <2>1, <2>2, <3>2, <3>3, <3>4 DEF c
  <2>4. CASE Created(s, w)
    <3>1. Cardinality(suspended'[s]) = u /\ yetToCreate'[s] = y - 1 /\ fromShared'[s] = f
      BY <1>t, <2>4 DEF Created
    <3> HIDE DEF r, u, y, p, f, c
    <3>2. (r + 1) + u + (y - 1) + p = c + f
      BY <2>0, <2>n
    <3>3. QED
      BY <2>1, <2>2, <3>1, <3>2 DEF c
  <2>5. CASE Borrowed(s, w)
    <3>1. Cardinality(suspended'[s]) = u /\ yetToCreate'[s] = y /\ fromShared'[s] = f + 1
      BY <1>t, <2>5 DEF Borrowed
    <3> HIDE DEF r, u, y, p, f, c
    <3>2. (r + 1) + u + y + p = c + (f + 1)
      BY <2>0, <2>n
    <3>3. QED
      BY <2>1, <2>2, <3>1, <3>2 DEF c
  <2>6. QED
    BY <2>3, <2>4, <2>5
<1>7. QED
  BY <1>2, <1>3, <1>4, <1>5, <1>6 DEF CountInv

(* All that AllocateThread does to threads and pool.                       *)
ThreadTypes ==
  /\ running \in [Schedulers -> SUBSET Workers] /\ suspended \in [Schedulers -> SUBSET Workers]
  /\ yetToCreate \in [Schedulers -> Nat] /\ fromShared \in [Schedulers -> Nat]
  /\ owner \in [Workers -> Schedulers \cup {NoOne}] /\ sleeping \in [Workers -> BOOLEAN]
  /\ passedOver \in [Schedulers -> BOOLEAN]
  /\ pool \subseteq Workers /\ allocCount \in Nat /\ sharedYetToCreate \in Nat

(* A thread is moved from one place to another, and what is counted of it  *)
(* with it.                                                                *)
LEMMA AllocateKeeps ==
  ASSUME IInv, NEW s \in Schedulers, AllocatePrivate(s) \/ AllocateShared(s),
         UNCHANGED <<wpc, at, alive>>
  PROVE  /\ PlaceInv' /\ PoolInv' /\ CountInv' /\ DebtInv' /\ ThreadTypes' /\ UNCHANGED maxCount
         /\ running'[s] # {}
         /\ \A t \in Schedulers : running[t] \subseteq running'[t]
         /\ \A t \in Schedulers : fromShared'[t] >= fromShared[t]
         /\ \A t \in Schedulers \ {s} : /\ running'[t] = running[t] /\ suspended'[t] = suspended[t]
                                        /\ passedOver'[t] = passedOver[t]
<1>1. PICK w \in Workers : Taken(s, w) /\ (Recycled(s, w) \/ Created(s, w) \/ Borrowed(s, w))
  BY AllocateEffect
<1>2. /\ PlaceInv'
      /\ running' \in [Schedulers -> SUBSET Workers] /\ suspended' \in [Schedulers -> SUBSET Workers]
      /\ owner' \in [Workers -> Schedulers \cup {NoOne}] /\ sleeping' \in [Workers -> BOOLEAN]
      /\ passedOver' \in [Schedulers -> BOOLEAN] /\ pool' \subseteq Workers
  BY <1>1, AllocatePlace
<1>3. PoolInv' /\ allocCount' \in Nat /\ sharedYetToCreate' \in Nat
  BY <1>1, AllocatePool
<1>4. /\ CountInv' /\ DebtInv'
      /\ yetToCreate' \in [Schedulers -> Nat] /\ fromShared' \in [Schedulers -> Nat]
      /\ \A t \in Schedulers : fromShared'[t] >= fromShared[t]
  BY <1>1, AllocateCount
<1>5. /\ w \in running'[s] /\ \A t \in Schedulers : running[t] \subseteq running'[t]
      /\ \A t \in Schedulers \ {s} : running'[t] = running[t] /\ passedOver'[t] = passedOver[t]
  BY <1>1 DEF Taken, IInv, TypeOK
<1>6. \A t \in Schedulers \ {s} : suspended'[t] = suspended[t]
  BY <1>1 DEF Recycled, Created, Borrowed, IInv, TypeOK
<1>7. UNCHANGED maxCount
  BY <1>1 DEF Taken
<1>8. QED
  BY <1>2, <1>3, <1>4, <1>5, <1>6, <1>7 DEF ThreadTypes

(* A scheduler that has no thread, and cannot get one of its own, has no   *)
(* private threads at all and has borrowed none.                           *)
LEMMA WithoutThreads ==
  ASSUME IInv, NEW s \in Schedulers, alive[s] # "gone", Pays(s) = 0,
         running[s] = {}, ~HasPrivate(s)
  PROVE  ThreadCount[s] = 0 /\ fromShared[s] = 0
<1>1. /\ ThreadCount[s] \in Nat /\ fromShared[s] \in Nat /\ yetToCreate[s] = 0 /\ suspended[s] = {}
  BY CountAssumption DEF IInv, TypeOK, HasPrivate
<1>2. Cardinality({}) = 0
  BY FS_EmptySet
<1>3. runningCount(s) + Cardinality(suspended[s]) + yetToCreate[s] + Pays(s)
        = ThreadCount[s] + fromShared[s]
  BY DEF IInv, CountInv, Counted
<1>4. runningCount(s) = 0 /\ Cardinality(suspended[s]) = 0
  BY <1>1, <1>2 DEF runningCount
<1>5. 0 = ThreadCount[s] + fromShared[s]
  BY <1>1, <1>3, <1>4
<1>6. QED
  BY <1>1, <1>5

(* Nobody else pays while the mutex is free or held by somebody else.      *)
LEMMA PaysNot ==
  ASSUME IInv, NEW s \in Schedulers,
         mutex[s] \in Workers => wpc[mutex[s]] \in {"available", "registerAgain"} /\ target[mutex[s]] = s
  PROVE  Pays(s) = 0 /\ \A v \in Workers : at[v] # s
<1>1. ASSUME NEW v \in Workers, at[v] = s PROVE FALSE
  <2>1. mutex[s] = v
    BY <1>1, NoOneAssumption DEF IInv, HoldInv, WorkerHolds
  <2>2. target[v] # at[v]
    BY <2>1 DEF IInv, HoldInv, WorkerHolds
  <2>3. QED
    BY <1>1, <2>1, <2>2
<1>2. QED
  BY <1>1 DEF Pays

(* Threads and clients hold what they held.                                *)
LEMMA HoldFrame ==
  ASSUME IInv, UNCHANGED <<wpc, at, target, mutex, starved, stopCount, cpc, on>>,
         fromShared' \in [Schedulers -> Nat],
         \A t \in Schedulers : fromShared'[t] >= fromShared[t],
         \A t \in Schedulers : mutex[t] \in Workers => queue'[t] = queue[t]
  PROVE  HoldInv'
<1>1. ASSUME NEW v \in Workers PROVE WorkerHolds(v)'
  <2>1. WorkerHolds(v)
    BY DEF IInv, HoldInv
  <2>2. CASE at[v] = NoOne
    BY <2>1, <2>2 DEF WorkerHolds
  <2>3. CASE at[v] # NoOne
    <3>1. at[v] \in Schedulers /\ mutex[at[v]] = v /\ fromShared[at[v]] > 0
      BY <2>1, <2>3 DEF WorkerHolds, IInv, TypeOK
    <3>2. fromShared[at[v]] \in Nat /\ fromShared'[at[v]] \in Nat /\ fromShared'[at[v]] >= fromShared[at[v]]
      BY <3>1 DEF IInv, TypeOK
    <3>3. fromShared'[at[v]] > 0 /\ queue'[at[v]] = queue[at[v]]
      BY <3>1, <3>2
    <3>4. QED
      BY <2>1, <3>1, <3>3 DEF WorkerHolds
  <2>4. QED
    BY <2>2, <2>3
<1>2. QED
  BY <1>1 DEF IInv, HoldInv, ClientHolds, Held

(* A scheduler begins to starve, and somebody is about to register it.     *)
LEMMA BeginsStarving ==
  ASSUME TypeOK, StarvingInv, NEW s \in Schedulers, ~starved[s],
         starved' = [starved EXCEPT ![s] = TRUE], UNCHANGED starving,
         NEW x \in Workers \cup Clients,
         \A w \in Workers : \A t \in Schedulers :
           Notifying(w, t)' <=> Notifying(w, t) \/ (w = x /\ t = s),
         \A c \in Clients : \A t \in Schedulers :
           Registering(c, t)' <=> Registering(c, t) \/ (c = x /\ t = s)
  PROVE  StarvingInv' /\ starved' \in [Schedulers -> BOOLEAN]
<1>1. /\ starved' \in [Schedulers -> BOOLEAN] /\ starved'[s]
      /\ \A t \in Schedulers \ {s} : starved'[t] = starved[t]
  BY DEF TypeOK
<1> HIDE DEF Notifying, Registering
<1>2. /\ s \notin Range(starving) /\ \A w \in Workers : ~Notifying(w, s)
      /\ \A c \in Clients : ~Registering(c, s)
  BY DEF StarvingInv
<1>3. \A t \in Schedulers : t \in Range(starving) => starved'[t]
  BY <1>1, <1>2 DEF StarvingInv
<1>4. ASSUME NEW t \in Schedulers, NEW w \in Workers, Notifying(w, t)'
      PROVE  /\ starved'[t] /\ t \notin Range(starving)
             /\ \A v \in Workers \ {w} : ~Notifying(v, t)'
  <2>1. CASE t = s
    BY <2>1, <1>1, <1>2, <1>4
  <2>2. CASE t # s
    BY <2>2, <1>1, <1>4 DEF StarvingInv
  <2>3. QED
    BY <2>1, <2>2
<1>5. ASSUME NEW t \in Schedulers, NEW c \in Clients, Registering(c, t)'
      PROVE  /\ starved'[t] /\ t \notin Range(starving)
             /\ \A w \in Workers : ~Notifying(w, t)'
  <2>1. CASE t = s
    BY <2>1, <1>1, <1>2, <1>5, WhoAssumption
  <2>2. CASE t # s
    BY <2>2, <1>1, <1>5 DEF StarvingInv
  <2>3. QED
    BY <2>1, <2>2
<1>6. ASSUME NEW t \in Schedulers, starved'[t]
      PROVE  \/ t \in Range(starving)
             \/ \E w \in Workers : Notifying(w, t)'
             \/ \E c \in Clients : Registering(c, t)'
  <2>1. CASE t = s
    BY <2>1
  <2>2. CASE t # s
    BY <2>2, <1>1, <1>6 DEF StarvingInv
  <2>3. QED
    BY <2>1, <2>2
<1>7. QED
  BY <1>1, <1>3, <1>4, <1>5, <1>6 DEF StarvingInv

-----------------------------------------------------------------------------
(* Schedule.                                                               *)

(* The first job of a scheduler without threads makes it get one, unless   *)
(* it has none of its own.                                                 *)
LEMMA JobFindsThread ==
  ASSUME IInv, NEW s \in Schedulers, mutex[s] = NoOne, alive[s] # "gone",
         stopCount[s] = 0, running[s] = {},
         ~AddThread(s) \/ NoThreadToGet(s)
  PROVE  ThreadCount[s] = 0 /\ starved[s]
<1>1. Pays(s) = 0
  BY NoOneAssumption, PaysNot
<1>2. /\ ThreadCount[s] \in Nat /\ MaxFromShared[s] \in Nat /\ ThreadCount[s] + MaxFromShared[s] > 0
      /\ queue[s] \in Nat
  BY CountAssumption, JobBounds DEF IInv
<1>3. runningCount(s) = 0
  BY FS_EmptySet DEF runningCount
<1>4. AddThread(s)
  BY <1>2, <1>3 DEF AddThread, unusedCount
<1>5. ~HasPrivate(s) /\ ~MayBorrow(s)
  BY <1>4 DEF NoThreadToGet
<1>6. ThreadCount[s] = 0 /\ fromShared[s] = 0
  BY <1>1, <1>5, WithoutThreads
<1>7. QED
  BY <1>2, <1>5, <1>6 DEF MayBorrow

(* What Schedule does to the queue and to those that wait for its end.     *)
LEMMA PushedEffect ==
  ASSUME IInv, NEW s \in Schedulers, Pushed(s), jobs' = jobs + 1, jobs < MaxJobs[maxCount],
         UNCHANGED <<maxCount, stops, calls>>
  PROVE  /\ Bounded' /\ BudgetInv'
         /\ emptyEvent' \in [Schedulers -> BOOLEAN] /\ overtaken' \subseteq Clients
         /\ \A t \in Schedulers \ {s} : queue'[t] = queue[t] /\ emptyEvent'[t] = emptyEvent[t]
         /\ \A c \in Clients : c \in overtaken => c \in overtaken'
<1> DEFINE top == MaxJobs[maxCount]
<1>1. /\ queue \in [Schedulers -> Nat] /\ jobs \in Nat /\ top \in Nat
      /\ \A t \in Schedulers : queue[t] <= jobs
      /\ stops \in 0..MaxStops /\ calls \in 0..MaxCalls
  BY JobBounds DEF IInv, BudgetInv, TypeOK, Bounded
<1>2. queue' = [queue EXCEPT ![s] = @ + 1]
  BY DEF Pushed
<1>3. \A t \in Schedulers : queue'[t] = IF t = s THEN queue[t] + 1 ELSE queue[t]
  BY <1>1, <1>2
<1>4. ASSUME NEW t \in Schedulers PROVE queue'[t] \in Nat /\ queue'[t] <= jobs'
  <2>1. queue[t] \in Nat /\ queue[t] <= jobs /\ jobs \in Nat
    BY <1>1
  <2>2. QED
    BY <1>3, <2>1
<1>5. jobs' \in 0..top
  <2> HIDE DEF top
  <2>1. jobs < top
    BY DEF top
  <2>2. QED
    BY <1>1, <2>1
<1>6. \A t \in Schedulers : queue'[t] \in 0..top
  <2> HIDE DEF top
  <2>1. TAKE t \in Schedulers
  <2>2. queue'[t] \in Nat /\ queue'[t] <= jobs' /\ jobs' \in 0..top /\ top \in Nat
    BY <1>1, <1>4, <1>5
  <2>3. QED
    BY <2>2
<1>7. queue' \in [Schedulers -> 0..top]
  BY <1>1, <1>2, <1>6
<1>8. Bounded'
  BY <1>1, <1>5, <1>7 DEF Bounded
<1>9. BudgetInv'
  BY <1>4 DEF BudgetInv
<1>10. QED
  BY <1>3, <1>8, <1>9 DEF Pushed, IInv, TypeOK

(* A job more: who waits for the queue to be empty is covered, or          *)
(* overtaken.                                                              *)
LEMMA ScheduleStep ==
  ASSUME IInv, NEW c \in Clients, NEW s \in Schedulers, Schedule(c, s)
  PROVE  IInv'
<1> USE DEF IInv
<1>a. /\ cpc[c] = "idle" /\ on[c] = NoOne /\ alive[s] = "open" /\ mutex[s] = NoOne
      /\ Pushed(s) /\ jobs' = jobs + 1 /\ jobs < MaxJobs[maxCount]
      /\ UNCHANGED <<stopCount, lifeVars, starving, workerVars, stops, calls>>
  BY DEF Schedule, MayCall, ClientInv, Uses
<1>p. Pays(s) = 0 /\ \A v \in Workers : at[v] # s
  BY <1>a, NoOneAssumption, PaysNot
<1>b. PICK pc, x :
        \/ /\ pc = "idle" /\ x = NoOne /\ (~AddThread(s) \/ NoThreadToGet(s))
           /\ UNCHANGED <<threadVars, poolVars, starved, passedOver, mutex, cpc, on>>
        \/ /\ pc = "idle" /\ x = NoOne /\ (AllocatePrivate(s) \/ AllocateShared(s))
           /\ UNCHANGED <<starved, mutex, cpc, on>>
        \/ /\ pc = "register" /\ x = s /\ AddThread(s) /\ BecomesStarved(s)
           /\ mutex' = [mutex EXCEPT ![s] = c] /\ Goto(c, "register", s)
  <2>1. CASE /\ ~AddThread(s) \/ NoThreadToGet(s)
             /\ UNCHANGED <<threadVars, poolVars, starved, passedOver, mutex, cpc, on>>
    BY <2>1
  <2>2. CASE AddThread(s) /\ AllocateThread(s) /\ UNCHANGED <<mutex, cpc, on>>
    BY <2>2 DEF AllocateThread
  <2>3. CASE /\ AddThread(s) /\ BecomesStarved(s)
             /\ mutex' = [mutex EXCEPT ![s] = c] /\ Goto(c, "register", s)
    BY <2>3
  <2>4. QED
    BY <2>1, <2>2, <2>3 DEF Schedule
<1> DEFINE nothing == /\ pc = "idle" /\ x = NoOne /\ (~AddThread(s) \/ NoThreadToGet(s))
                      /\ UNCHANGED <<threadVars, poolVars, starved, passedOver, mutex, cpc, on>>
           allocates == /\ pc = "idle" /\ x = NoOne /\ (AllocatePrivate(s) \/ AllocateShared(s))
                        /\ UNCHANGED <<starved, mutex, cpc, on>>
           starves == /\ pc = "register" /\ x = s /\ AddThread(s) /\ BecomesStarved(s)
                      /\ mutex' = [mutex EXCEPT ![s] = c] /\ Goto(c, "register", s)
<1>c. nothing \/ allocates \/ starves
  BY <1>b
<1> HIDE DEF nothing, allocates, starves
<1>0. Moved(c, pc, x) /\ ClientTypes'
  <2>1. CASE nothing \/ allocates
    BY <2>1, <1>a DEF nothing, allocates, Moved, ClientTypes, TypeOK
  <2>2. CASE starves
    BY <2>2, GotoTypes DEF starves
  <2>3. QED
    BY <2>1, <2>2, <1>c
<1>m. /\ starves => pc = "register" /\ x = s /\ mutex' = [mutex EXCEPT ![s] = c]
      /\ ~starves => pc = "idle" /\ x = NoOne /\ mutex' = mutex /\ starved' = starved
  BY <1>c DEF nothing, allocates, starves
<1>k. /\ PlaceInv' /\ PoolInv' /\ CountInv' /\ DebtInv' /\ ThreadTypes' /\ UNCHANGED maxCount
      /\ \A t \in Schedulers : running[t] \subseteq running'[t]
      /\ \A t \in Schedulers : fromShared'[t] >= fromShared[t]
      /\ \A t \in Schedulers \ {s} : /\ running'[t] = running[t] /\ suspended'[t] = suspended[t]
                                     /\ passedOver'[t] = passedOver[t]
  <2>1. CASE allocates
    BY <2>1, <1>a, AllocateKeeps DEF allocates
  <2>2. CASE nothing \/ starves
    <3>1. UNCHANGED <<threadVars, poolVars, passedOver, wpc, at, alive>>
      BY <2>2, <1>a DEF nothing, starves, BecomesStarved
    <3>2. PlaceInv' /\ PoolInv' /\ CountInv' /\ DebtInv'
      BY <3>1, ThreadFrame
    <3>3. \A t \in Schedulers : fromShared'[t] >= fromShared[t]
      BY <3>1 DEF TypeOK
    <3>4. QED
      BY <3>1, <3>2, <3>3 DEF ThreadTypes, TypeOK
  <2>3. QED
    BY <2>1, <2>2, <1>c
<1>q. /\ Bounded' /\ BudgetInv'
      /\ emptyEvent' \in [Schedulers -> BOOLEAN] /\ overtaken' \subseteq Clients
      /\ \A t \in Schedulers \ {s} : queue'[t] = queue[t] /\ emptyEvent'[t] = emptyEvent[t]
      /\ \A d \in Clients : d \in overtaken => d \in overtaken'
  BY <1>a, <1>k, PushedEffect
<1>s. StarvingInv' /\ starved' \in [Schedulers -> BOOLEAN]
  <2>1. CASE starves
    <3>1. ~starved[s] /\ starved' = [starved EXCEPT ![s] = TRUE]
      BY <2>1 DEF starves, BecomesStarved, MayBorrow
    <3>2. \A v \in Workers : \A t \in Schedulers :
            Notifying(v, t)' <=> Notifying(v, t) \/ (v = c /\ t = s)
      BY <1>a, WhoAssumption DEF Notifying
    <3>3. \A d \in Clients : \A t \in Schedulers :
            Registering(d, t)' <=> Registering(d, t) \/ (d = c /\ t = s)
      BY <2>1, <1>0, <1>a, <1>m DEF Registering, Moved
    <3>4. QED
      BY <1>a, <3>1, <3>2, <3>3, BeginsStarving
  <2>2. CASE ~starves
    <3>1. \A d \in Clients : \A t \in Schedulers : Registering(d, t)' <=> Registering(d, t)
      BY <2>2, <1>0, <1>a, <1>m DEF Registering, Moved
    <3>2. \A v \in Workers : \A t \in Schedulers : Notifying(v, t)' <=> Notifying(v, t)
      BY <1>a DEF Notifying
    <3>3. QED
      BY <2>2, <1>a, <1>m, <3>1, <3>2, StarvingFrame DEF TypeOK
  <2>3. QED
    BY <2>1, <2>2
<1>1. TypeOK'
  <2>1. mutex' \in [Schedulers -> Workers \cup Clients \cup {NoOne}]
    BY <1>m DEF TypeOK
  <2>2. UNCHANGED <<stopCount, alive, starving, wpc, at, target, aggressiveThreading>>
    BY <1>a
  <2>3. QED
    BY <1>0, <1>k, <1>q, <1>s, <2>1, <2>2 DEF TypeOK, ClientTypes, ThreadTypes
<1>3. HoldInv'
  <2>1. CASE ~starves
    <3>1. UNCHANGED <<wpc, at, target, mutex, starved, stopCount, cpc, on>>
      BY <2>1, <1>a, <1>c DEF nothing, allocates
    <3>2. \A t \in Schedulers : mutex[t] \in Workers => queue'[t] = queue[t]
      BY <1>a, <1>q, NoOneAssumption
    <3>3. QED
      BY <3>1, <3>2, <1>k, HoldFrame DEF ThreadTypes
  <2>2. CASE starves
    <3>0. /\ mutex' = [mutex EXCEPT ![s] = c] /\ Moved(c, "register", s)
          /\ UNCHANGED <<fromShared, stopCount, wpc, at, target>>
          /\ \A t \in Schedulers \ {s} : starved'[t] = starved[t]
      BY <2>2, <1>0, <1>a DEF starves, BecomesStarved, TypeOK
    <3>1. ASSUME NEW v \in Workers PROVE WorkerHolds(v)'
      <4>1. WorkerHolds(v) /\ at[v] # s
        BY <1>p DEF HoldInv
      <4>2. at[v] # NoOne => at[v] \in Schedulers \ {s}
        BY <4>1 DEF TypeOK
      <4>3. target[v] \in Schedulers /\ mutex[target[v]] = v => target[v] # s
        BY <1>a, NoOneAssumption
      <4>4. \A t \in Schedulers \ {s} : mutex'[t] = mutex[t] /\ queue'[t] = queue[t]
        BY <3>0, <1>q DEF TypeOK
      <4>5. at[v] # NoOne =>
              /\ mutex'[at[v]] = v /\ fromShared'[at[v]] > 0
              /\ queue'[at[v]] = 0 \/ stopCount'[at[v]] # 0
              /\ wpc'[v] # "stopStarving" => ~starved'[at[v]]
        BY <3>0, <4>1, <4>2, <4>4 DEF WorkerHolds
      <4>6. wpc[v] \in {"available", "registerAgain"} => mutex'[target[v]] = v
        <5> SUFFICES ASSUME wpc[v] \in {"available", "registerAgain"} PROVE mutex'[target[v]] = v
          OBVIOUS
        <5>1. target[v] \in Schedulers /\ mutex[target[v]] = v
          BY <4>1, CallsWhom DEF WorkerHolds
        <5>2. QED
          BY <5>1, <4>3, <4>4
      <4>7. QED
        BY <3>0, <4>1, <4>5, <4>6 DEF WorkerHolds
    <3>2. ASSUME NEW d \in Clients PROVE ClientHolds(d)'
      <4>1. CASE d = c
        BY <3>0, <4>1 DEF Moved, ClientHolds, TypeOK
      <4>2. CASE d # c
        <5>1. cpc'[d] = cpc[d] /\ on'[d] = on[d] /\ ClientHolds(d)
          BY <3>0, <4>2 DEF Moved, HoldInv
        <5>2. d # NoOne /\ mutex \in [Schedulers -> Workers \cup Clients \cup {NoOne}]
          BY NoOneAssumption DEF TypeOK
        <5>3. QED
          BY <1>a, <3>0, <5>1, <5>2 DEF ClientHolds
      <4>3. QED
        BY <4>1, <4>2
    <3>3. ASSUME NEW t \in Schedulers PROVE Held(t)'
      <4>1. CASE t = s
        BY <3>0, <4>1, WhoAssumption DEF Moved, Held, TypeOK
      <4>2. CASE t # s
        <5>1. mutex'[t] = mutex[t] /\ Held(t)
          BY <3>0, <4>2 DEF HoldInv, TypeOK
        <5>2. mutex[t] \in Clients => mutex[t] # c
          BY <5>1, <1>a DEF Held
        <5>3. QED
          BY <3>0, <5>1, <5>2 DEF Held, Moved
      <4>3. QED
        BY <4>1, <4>2
    <3>4. QED
      BY <3>1, <3>2, <3>3 DEF HoldInv
  <2>3. QED
    BY <2>1, <2>2
<1>4. ClientInv'
  <2>0. \A t \in Schedulers : starved'[t] => starved[t] \/ alive[t] = "open"
    <3>1. CASE starves
      BY <3>1, <1>a DEF starves, BecomesStarved, TypeOK
    <3>2. CASE ~starves
      BY <3>2, <1>m
    <3>3. QED
      BY <3>1, <3>2
  <2>1. ASSUME NEW d \in Clients PROVE Uses(d)'
    <3>1. CASE d = c
      BY <1>0, <1>a, <1>m, <3>1, NoOneAssumption DEF Moved, Uses, ClosingAt
    <3>2. CASE d # c
      <4>1. x \in Schedulers \cup {NoOne} /\ (x \in Schedulers /\ x # on[c] => alive[x] = "open")
        BY <1>a, <1>m, NoOneAssumption
      <4>2. QED
        BY <1>0, <1>a, <2>0, <3>2, <4>1, OthersUse
    <3>3. QED
      BY <3>1, <3>2
  <2>2. ASSUME NEW t \in Schedulers PROVE Ends(t)'
    <3>1. CASE t = s
      BY <1>a, <3>1 DEF Ends
    <3>2. CASE t # s
      <4>1. Ends(t) /\ running'[t] = running[t] /\ suspended'[t] = suspended[t]
        BY <1>k, <3>2 DEF ClientInv
      <4>2. mutex'[t] = mutex[t]
        BY <1>m, <3>2 DEF TypeOK
      <4>3. alive[t] = "gone" => ~starved'[t]
        BY <2>0, <4>1 DEF Ends
      <4>4. QED
        BY <1>a, <4>1, <4>2, <4>3 DEF Ends
    <3>3. QED
      BY <3>1, <3>2
  <2>3. QED
    BY <2>1, <2>2 DEF ClientInv
<1>i. nothing /\ stopCount[s] = 0 /\ running[s] = {} => ThreadCount[s] = 0 /\ starved[s]
  BY <1>a, JobFindsThread DEF nothing
<1>j. starves /\ running[s] = {} => ThreadCount[s] = 0
  BY <1>a, <1>p, WithoutThreads DEF starves, BecomesStarved, MayBorrow
<1>l. allocates => running'[s] # {}
  BY <1>a, AllocateKeeps DEF allocates
<1>n. nothing => UNCHANGED <<running, starved, passedOver>>
  BY DEF nothing
<1>7. NoStrandedJobs'
  <2> SUFFICES ASSUME NEW t \in Schedulers, Free(t)', queue'[t] > 0, stopCount[t] = 0,
                      running'[t] = {}
               PROVE  ThreadCount[t] = 0 /\ (starved'[t] \/ passedOver'[t] \/ alive[t] = "closing")
    BY <1>a DEF NoStrandedJobs
  <2>1. CASE t = s
    <3>1. ~starves
      BY <2>1, <1>m, NoOneAssumption DEF Free, TypeOK
    <3>2. nothing
      BY <2>1, <3>1, <1>c, <1>l
    <3>3. QED
      BY <2>1, <3>2, <1>i, <1>n
  <2>2. CASE t # s
    <3>1. mutex'[t] = mutex[t] /\ queue'[t] = queue[t] /\ running'[t] = running[t]
          /\ passedOver'[t] = passedOver[t]
      BY <1>k, <1>m, <1>q, <2>2 DEF TypeOK
    <3>2. starved[t] => starved'[t]
      BY <1>c, <2>2 DEF nothing, allocates, starves, BecomesStarved, TypeOK
    <3>3. QED
      BY <3>1, <3>2 DEF NoStrandedJobs, Free
  <2>3. QED
    BY <2>1, <2>2
<1>8. CallInv'
  <2> SUFFICES ASSUME NEW d \in Clients
               PROVE  /\ cpc'[d] = "register" /\ ThreadCount[on'[d]] > 0 => running'[on'[d]] # {}
                      /\ cpc'[d] = "resume" => stopCount[on'[d]] = 0
    BY <1>a DEF CallInv
  <2>1. CASE d = c
    <3>1. cpc'[d] = pc /\ on'[d] = x
      BY <2>1, <1>0 DEF Moved
    <3>2. CASE starves
      <4>1. running'[s] = running[s] /\ pc = "register" /\ x = s
        BY <3>2, <1>m DEF starves, BecomesStarved
      <4>2. running[s] = {} => ThreadCount[s] = 0
        BY <3>2, <1>j
      <4>3. QED
        BY <3>1, <4>1, <4>2
    <3>3. CASE ~starves
      BY <3>1, <3>3, <1>m
    <3>4. QED
      BY <3>2, <3>3
  <2>2. CASE d # c
    <3>1. cpc'[d] = cpc[d] /\ on'[d] = on[d]
      BY <2>2, <1>0 DEF Moved
    <3>2. cpc[d] # "idle" => on[d] \in Schedulers
      BY CallsWhom
    <3>3. cpc[d] # "idle" => running[on[d]] \subseteq running'[on[d]]
      BY <3>2, <1>k
    <3>4. QED
      BY <3>1, <3>3 DEF CallInv
  <2>3. QED
    BY <2>1, <2>2
<1>9. WaitInv'
  <2> SUFFICES ASSUME NEW d \in Clients, Waits(d)', d \notin overtaken', ~emptyEvent'[on'[d]],
                      ThreadCount[on'[d]] > 0, Pays(on[d])' = 0
               PROVE  running'[on'[d]] # {}
    BY DEF WaitInv, Covered
  <2>1. d # c
    BY <1>0, <1>m DEF Moved, Waits
  <2>2. /\ on'[d] = on[d] /\ Waits(d) /\ on[d] \in Schedulers /\ d \notin overtaken
        /\ Pays(on[d]) = 0 /\ Covered(d) /\ running[on[d]] \subseteq running'[on[d]]
    <3>1. cpc'[d] = cpc[d] /\ on'[d] = on[d] /\ Waits(d) /\ d \notin overtaken
      BY <2>1, <1>0, <1>q DEF Moved, Waits
    <3>2. on[d] \in Schedulers
      BY <3>1, CallsWhom DEF Waits
    <3>3. Pays(on[d]) = 0
      BY <3>1, <1>a DEF Pays
    <3>4. QED
      BY <3>1, <3>2, <3>3, <1>k DEF WaitInv
  <2>3. CASE on[d] # s
    BY <2>2, <2>3, <1>q DEF Covered
  <2>4. CASE on[d] = s
    <3>1. CASE ~emptyEvent[s]
      BY <2>2, <2>4, <3>1 DEF Covered
    <3>2. CASE emptyEvent[s]
      <4>1. ~(queue[s] > 0)
        BY <2>2, <2>4, <3>2, <1>a DEF Pushed, TypeOK
      <4>2. stopCount[s] = 0
        BY <2>2, <2>4, <3>2, <4>1, <1>a, JobBounds DEF Pushed
      <4>3. CASE running[s] = {}
        <5>1. ThreadCount[s] > 0
          BY <2>2, <2>4
        <5>2. allocates
          BY <4>2, <4>3, <5>1, <1>c, <1>i, <1>j
        <5>3. QED
          BY <5>2, <1>l, <2>2, <2>4
      <4>4. QED
        BY <4>3, <2>2, <2>4
    <3>3. QED
      BY <3>1, <3>2
  <2>5. QED
    BY <2>3, <2>4
<1>10. QED
  BY <1>1, <1>k, <1>q, <1>3, <1>4, <1>s, <1>7, <1>8, <1>9

-----------------------------------------------------------------------------
(* Resume goes on.                                                         *)

(* A scheduler with jobs and without threads is given one, unless it has   *)
(* none of its own.                                                        *)
LEMMA ResumeFindsThread ==
  ASSUME IInv, NEW s \in Schedulers, alive[s] # "gone", Pays(s) = 0,
         queue[s] > 0, running[s] = {},
         ~MoreThreads(s) \/ NoThreadToGet(s)
  PROVE  ThreadCount[s] = 0 /\ starved[s]
<1>2. /\ ThreadCount[s] \in Nat /\ MaxFromShared[s] \in Nat /\ ThreadCount[s] + MaxFromShared[s] > 0
      /\ queue[s] \in Nat
  BY CountAssumption, JobBounds DEF IInv
<1>3. runningCount(s) = 0
  BY FS_EmptySet DEF runningCount
<1>4. MoreThreads(s)
  BY <1>2, <1>3 DEF MoreThreads, unusedCount
<1>5. ~HasPrivate(s) /\ ~MayBorrow(s)
  BY <1>4 DEF NoThreadToGet
<1>6. ThreadCount[s] = 0 /\ fromShared[s] = 0
  BY <1>5, WithoutThreads
<1>7. QED
  BY <1>2, <1>5, <1>6 DEF MayBorrow

(* One thread more, as long as jobs are waiting, then the mutex is let go. *)
LEMMA ResumeThreadsStep ==
  ASSUME IInv, NEW c \in Clients, ResumeThreads(c)
  PROVE  IInv'
<1> USE DEF IInv
<1> DEFINE s == on[c]
           ends == /\ ~MoreThreads(s) \/ NoThreadToGet(s)
                   /\ mutex' = [mutex EXCEPT ![s] = NoOne] /\ Goto(c, "idle", NoOne)
                   /\ UNCHANGED <<threadVars, poolVars, starved, passedOver>>
           allocates == /\ AllocatePrivate(s) \/ AllocateShared(s)
                        /\ UNCHANGED <<starved, mutex, cpc, on>>
           starves == /\ MoreThreads(s) /\ BecomesStarved(s)
                      /\ Goto(c, "register", s) /\ UNCHANGED mutex
<1>a. /\ cpc[c] = "resume" /\ s \in Schedulers /\ mutex[s] = c /\ alive[s] = "open"
      /\ stopCount[s] = 0
      /\ UNCHANGED <<queue, stopCount, waitVars, lifeVars, starving, workerVars, budgetVars>>
  BY CallsWhom DEF ResumeThreads, HoldInv, ClientHolds, ClientInv, Uses, ClosingAt, CallInv
<1>p. Pays(s) = 0 /\ \A v \in Workers : at[v] # s
  BY <1>a, WhoAssumption, PaysNot
<1>o. \A v \in Workers : wpc[v] \in {"available", "registerAgain"} => target[v] # s
  BY <1>a, WhoAssumption DEF HoldInv, WorkerHolds
<1>n. \A d \in Clients \ {c} : cpc[d] \in {"register", "resume"} => on[d] # s
  BY <1>a DEF HoldInv, ClientHolds
<1>c. ends \/ allocates \/ starves
  BY DEF ResumeThreads, AllocateThread
<1> HIDE DEF s, ends, allocates, starves
<1>b. PICK pc, x :
        \/ ends /\ pc = "idle" /\ x = NoOne
        \/ allocates /\ pc = "resume" /\ x = s
        \/ starves /\ pc = "register" /\ x = s
  BY <1>c
<1>0. Moved(c, pc, x) /\ ClientTypes'
  <2>1. CASE allocates /\ pc = "resume" /\ x = s
    BY <2>1, <1>a DEF allocates, Moved, ClientTypes, TypeOK, s
  <2>2. CASE ends /\ pc = "idle" /\ x = NoOne
    BY <2>2, GotoTypes DEF ends
  <2>3. CASE starves /\ pc = "register" /\ x = s
    BY <2>3, <1>a, GotoTypes DEF starves
  <2>4. QED
    BY <2>1, <2>2, <2>3, <1>b
<1>m. /\ x = s => mutex' = mutex /\ pc \in {"resume", "register"}
      /\ x # s => mutex' = [mutex EXCEPT ![s] = NoOne] /\ pc = "idle" /\ x = NoOne
  BY <1>a, <1>b, NoOneAssumption DEF ends, allocates, starves
<1>h. \A t \in Schedulers \ {s} : mutex'[t] = mutex[t] /\ starved'[t] = starved[t]
  BY <1>b, <1>m DEF TypeOK, ends, allocates, starves, BecomesStarved
<1>k. /\ PlaceInv' /\ PoolInv' /\ CountInv' /\ DebtInv' /\ ThreadTypes' /\ UNCHANGED maxCount
      /\ \A t \in Schedulers : running[t] \subseteq running'[t]
      /\ \A t \in Schedulers : fromShared'[t] >= fromShared[t]
      /\ \A t \in Schedulers \ {s} : /\ running'[t] = running[t] /\ suspended'[t] = suspended[t]
                                     /\ passedOver'[t] = passedOver[t]
  <2>1. CASE allocates
    BY <2>1, <1>a, AllocateKeeps DEF allocates
  <2>2. CASE ends \/ starves
    <3>1. UNCHANGED <<threadVars, poolVars, passedOver, wpc, at, alive>>
      BY <2>2, <1>a DEF ends, starves, BecomesStarved
    <3>2. PlaceInv' /\ PoolInv' /\ CountInv' /\ DebtInv'
      BY <3>1, ThreadFrame
    <3>3. \A t \in Schedulers : fromShared'[t] >= fromShared[t]
      BY <3>1 DEF TypeOK
    <3>4. QED
      BY <3>1, <3>2, <3>3 DEF ThreadTypes, TypeOK
  <2>3. QED
    BY <2>1, <2>2, <1>c
<1>s. StarvingInv' /\ starved' \in [Schedulers -> BOOLEAN]
  <2>0. \A v \in Workers : \A t \in Schedulers : Notifying(v, t)' <=> Notifying(v, t)
    BY <1>a DEF Notifying
  <2>1. CASE starves /\ pc = "register" /\ x = s
    <3>1. ~starved[s] /\ starved' = [starved EXCEPT ![s] = TRUE]
      BY <2>1 DEF starves, BecomesStarved, MayBorrow
    <3>2. \A v \in Workers : \A t \in Schedulers :
            Notifying(v, t)' <=> Notifying(v, t) \/ (v = c /\ t = s)
      BY <2>0, WhoAssumption
    <3>3. \A d \in Clients : \A t \in Schedulers :
            Registering(d, t)' <=> Registering(d, t) \/ (d = c /\ t = s)
      BY <2>1, <1>0, <1>a DEF Registering, Moved
    <3>4. c \in Workers \cup Clients /\ s \in Schedulers /\ starving' = starving
      BY <1>a
    <3>5. QED
      BY <3>1, <3>2, <3>3, <3>4, BeginsStarving
  <2>2. CASE (ends /\ pc = "idle" /\ x = NoOne) \/ (allocates /\ pc = "resume" /\ x = s)
    <3>1. \A d \in Clients : \A t \in Schedulers : Registering(d, t)' <=> Registering(d, t)
      BY <2>2, <1>0, <1>a DEF Registering, Moved
    <3>2. starved' = starved
      BY <2>2 DEF ends, allocates
    <3>3. QED
      BY <2>0, <1>a, <3>1, <3>2, StarvingFrame DEF TypeOK
  <2>3. QED
    BY <2>1, <2>2, <1>b
<1>q. Bounded'
  <2>1. /\ queue \in [Schedulers -> Nat] /\ \A t \in Schedulers : queue[t] <= queue[t]
        /\ stops \in 0..MaxStops /\ calls \in 0..MaxCalls
    BY JobBounds DEF TypeOK, Bounded
  <2>2. QED
    BY <1>a, <1>k, <2>1, BoundedFrame, JobBounds
<1>1. TypeOK'
  <2>1. mutex' \in [Schedulers -> Workers \cup Clients \cup {NoOne}]
    BY <1>m DEF TypeOK
  <2>2. UNCHANGED <<stopCount, alive, starving, wpc, at, target, aggressiveThreading, emptyEvent, overtaken>>
    BY <1>a
  <2>3. QED
    BY <1>0, <1>k, <1>q, <1>s, <2>1, <2>2 DEF TypeOK, ClientTypes, ThreadTypes
<1>3. HoldInv'
  <2>1. ASSUME NEW v \in Workers PROVE WorkerHolds(v)'
    <3>1. WorkerHolds(v) /\ at[v] # s
      BY <1>p DEF HoldInv
    <3>2. at[v] # NoOne => at[v] \in Schedulers \ {s}
      BY <3>1 DEF TypeOK
    <3>3. at[v] # NoOne =>
            /\ mutex'[at[v]] = v /\ fromShared'[at[v]] > 0
            /\ queue'[at[v]] = 0 \/ stopCount'[at[v]] # 0
            /\ wpc'[v] # "stopStarving" => ~starved'[at[v]]
      <4> SUFFICES ASSUME at[v] # NoOne
                   PROVE  /\ mutex'[at[v]] = v /\ fromShared'[at[v]] > 0
                          /\ queue'[at[v]] = 0 \/ stopCount'[at[v]] # 0
                          /\ wpc'[v] # "stopStarving" => ~starved'[at[v]]
        OBVIOUS
      <4>1. mutex'[at[v]] = mutex[at[v]] /\ starved'[at[v]] = starved[at[v]]
        BY <3>2, <1>h
      <4>2. /\ fromShared[at[v]] \in Nat /\ fromShared'[at[v]] \in Nat
            /\ fromShared'[at[v]] >= fromShared[at[v]]
        BY <3>2, <1>k DEF ThreadTypes, TypeOK
      <4>3. fromShared[at[v]] > 0
        BY <3>1 DEF WorkerHolds
      <4>4. fromShared'[at[v]] > 0
        BY <4>2, <4>3
      <4>5. QED
        BY <3>1, <4>1, <4>4, <1>a DEF WorkerHolds
    <3>4. wpc[v] \in {"available", "registerAgain"} => mutex'[target[v]] = v
      <4> SUFFICES ASSUME wpc[v] \in {"available", "registerAgain"} PROVE mutex'[target[v]] = v
        OBVIOUS
      <4>1. target[v] \in Schedulers /\ mutex[target[v]] = v /\ target[v] # s
        BY <3>1, <1>o, CallsWhom DEF WorkerHolds
      <4>2. QED
        BY <4>1, <1>h
    <3>5. QED
      BY <1>a, <3>1, <3>3, <3>4 DEF WorkerHolds
  <2>2. ASSUME NEW d \in Clients PROVE ClientHolds(d)'
    <3>1. CASE d = c
      BY <1>0, <1>a, <1>m, <3>1 DEF Moved, ClientHolds
    <3>2. CASE d # c
      <4> SUFFICES ASSUME cpc'[d] \in {"register", "resume"} PROVE mutex'[on'[d]] = d
        BY DEF ClientHolds
      <4>1. cpc'[d] = cpc[d] /\ on'[d] = on[d] /\ ClientHolds(d)
        BY <1>0, <3>2 DEF Moved, HoldInv
      <4>2. on[d] # s /\ on[d] \in Schedulers
        BY <1>n, <3>2, <4>1, CallsWhom
      <4>3. QED
        BY <1>h, <4>1, <4>2 DEF ClientHolds
    <3>3. QED
      BY <3>1, <3>2
  <2>3. ASSUME NEW t \in Schedulers PROVE Held(t)'
    <3>1. CASE t = s
      <4>1. mutex'[t] = NoOne \/ (mutex'[t] = c /\ cpc'[c] \in {"register", "resume"} /\ on'[c] = s)
        BY <1>0, <1>a, <1>m, <3>1 DEF Moved, TypeOK
      <4>2. QED
        BY <3>1, <4>1, WhoAssumption, NoOneAssumption DEF Held
    <3>2. CASE t # s
      <4>1. mutex'[t] = mutex[t] /\ Held(t)
        BY <3>2, <1>h DEF HoldInv
      <4>2. mutex[t] \in Clients => mutex[t] # c
        BY <3>2, <4>1 DEF Held, s
      <4>3. QED
        BY <1>0, <1>a, <4>1, <4>2 DEF Held, Moved
    <3>3. QED
      BY <3>1, <3>2
  <2>4. QED
    BY <2>1, <2>2, <2>3 DEF HoldInv
<1>4. ClientInv'
  <2>0. \A t \in Schedulers : starved'[t] => starved[t] \/ alive[t] = "open"
    BY <1>a, <1>h
  <2>1. ASSUME NEW d \in Clients PROVE Uses(d)'
    <3>1. CASE d = c
      BY <1>0, <1>a, <1>m, <3>1, NoOneAssumption DEF Moved, Uses, ClosingAt
    <3>2. CASE d # c
      <4>1. x \in Schedulers \cup {NoOne} /\ (x \in Schedulers /\ x # on[c] => alive[x] = "open")
        BY <1>a, <1>m, NoOneAssumption DEF s
      <4>2. QED
        BY <1>0, <1>a, <2>0, <3>2, <4>1, OthersUse
    <3>3. QED
      BY <3>1, <3>2
  <2>2. ASSUME NEW t \in Schedulers PROVE Ends(t)'
    <3>1. CASE t = s
      BY <1>a, <3>1 DEF Ends
    <3>2. CASE t # s
      <4>1. Ends(t) /\ running'[t] = running[t] /\ suspended'[t] = suspended[t]
        BY <1>k, <3>2 DEF ClientInv
      <4>2. mutex'[t] = mutex[t] /\ starved'[t] = starved[t]
        BY <1>h, <3>2
      <4>3. QED
        BY <1>a, <4>1, <4>2 DEF Ends
    <3>3. QED
      BY <3>1, <3>2
  <2>3. QED
    BY <2>1, <2>2 DEF ClientInv
<1>5. BudgetInv'
  BY <1>a DEF BudgetInv
<1>7. NoStrandedJobs'
  <2> SUFFICES ASSUME NEW t \in Schedulers, Free(t)', queue[t] > 0, stopCount[t] = 0,
                      running'[t] = {}
               PROVE  ThreadCount[t] = 0 /\ (starved'[t] \/ passedOver'[t] \/ alive[t] = "closing")
    BY <1>a DEF NoStrandedJobs
  <2>1. CASE t = s
    <3>1. x # s
      BY <2>1, <1>a, <1>m, NoOneAssumption DEF Free
    <3>2. ends /\ running'[s] = running[s] /\ starved'[s] = starved[s]
      BY <3>1, <1>b DEF ends
    <3>3. ThreadCount[s] = 0 /\ starved[s]
      BY <2>1, <3>2, <1>a, <1>p, ResumeFindsThread DEF ends
    <3>4. QED
      BY <2>1, <3>2, <3>3
  <2>2. CASE t # s
    BY <1>h, <1>k, <2>2 DEF NoStrandedJobs, Free
  <2>3. QED
    BY <2>1, <2>2
<1>8. CallInv'
  <2> SUFFICES ASSUME NEW d \in Clients
               PROVE  /\ cpc'[d] = "register" /\ ThreadCount[on'[d]] > 0 => running'[on'[d]] # {}
                      /\ cpc'[d] = "resume" => stopCount[on'[d]] = 0
    BY <1>a DEF CallInv
  <2>1. CASE d = c
    <3>1. cpc'[d] = pc /\ on'[d] = x
      BY <2>1, <1>0 DEF Moved
    <3>2. CASE starves /\ pc = "register" /\ x = s
      <4>1. running'[s] = running[s] /\ ~HasPrivate(s)
        BY <3>2 DEF starves, BecomesStarved, MayBorrow
      <4>2. running[s] = {} => ThreadCount[s] = 0
        BY <4>1, <1>a, <1>p, WithoutThreads
      <4>3. QED
        BY <3>1, <3>2, <4>1, <4>2
    <3>3. CASE pc # "register"
      BY <3>1, <3>3, <1>a, <1>m, NoOneAssumption
    <3>4. QED
      BY <3>2, <3>3, <1>b
  <2>2. CASE d # c
    <3>1. cpc'[d] = cpc[d] /\ on'[d] = on[d]
      BY <2>2, <1>0 DEF Moved
    <3>2. cpc[d] # "idle" => on[d] \in Schedulers
      BY CallsWhom
    <3>3. cpc[d] # "idle" => running[on[d]] \subseteq running'[on[d]]
      BY <3>2, <1>k
    <3>4. QED
      BY <3>1, <3>3 DEF CallInv
  <2>3. QED
    BY <2>1, <2>2
<1>9. WaitInv'
  <2> SUFFICES ASSUME NEW d \in Clients, Waits(d)', d \notin overtaken, ~emptyEvent[on'[d]],
                      ThreadCount[on'[d]] > 0, Pays(on[d])' = 0
               PROVE  running'[on'[d]] # {}
    BY <1>a DEF WaitInv, Covered
  <2>1. d # c
    BY <1>0, <1>m DEF Moved, Waits
  <2>2. cpc'[d] = cpc[d] /\ on'[d] = on[d] /\ Waits(d)
    BY <2>1, <1>0 DEF Moved, Waits
  <2>3. on[d] \in Schedulers
    BY <2>2, CallsWhom DEF Waits
  <2>4. Pays(on[d]) = 0
    BY <2>2, <1>a DEF Pays
  <2>5. running[on[d]] # {}
    BY <2>2, <2>4 DEF WaitInv, Covered
  <2>6. QED
    BY <2>2, <2>3, <2>5, <1>k
<1>10. QED
  BY <1>1, <1>k, <1>3, <1>4, <1>5, <1>s, <1>7, <1>8, <1>9

-----------------------------------------------------------------------------
(* A thread that pays gives the others their chance.                       *)

(* Nobody else is at the notified scheduler, whose mutex the thread holds: *)
(* no debt of it is paid, and no client is in a call that needs the mutex. *)
LEMMA AvailableFacts ==
  ASSUME IInv, NEW w \in Workers, wpc[w] \in {"available", "registerAgain"}
  PROVE  /\ target[w] \in Schedulers /\ mutex[target[w]] = w /\ stopCount[target[w]] # 0
         /\ alive[target[w]] = "open"
         /\ \A v \in Workers : at[v] # target[w]
         /\ \A v \in Workers \ {w} :
              wpc[v] \in {"available", "registerAgain"} => target[v] # target[w]
         /\ \A c \in Clients : cpc[c] \in {"register", "resume"} => on[c] # target[w]
<1> USE DEF IInv
<1>1. target[w] \in Schedulers
  BY CallsWhom
<1>2. mutex[target[w]] = w /\ stopCount[target[w]] # 0
  BY DEF HoldInv, WorkerHolds
<1>3. alive[target[w]] = "open"
  <2>1. Ends(target[w]) /\ alive[target[w]] \in {"open", "closing", "gone"}
    BY <1>1 DEF ClientInv, TypeOK
  <2>2. QED
    BY <1>2, <2>1, NoOneAssumption DEF Ends
<1>4. \A v \in Workers : at[v] # target[w]
  BY <1>1, <1>2, PaysNot
<1>5. ASSUME NEW v \in Workers \ {w}, wpc[v] \in {"available", "registerAgain"}
      PROVE  target[v] # target[w]
  BY <1>2, <1>5 DEF HoldInv, WorkerHolds
<1>6. ASSUME NEW c \in Clients, cpc[c] \in {"register", "resume"} PROVE on[c] # target[w]
  BY <1>2, <1>6, WhoAssumption DEF HoldInv, ClientHolds
<1>7. QED
  BY <1>1, <1>2, <1>3, <1>4, <1>5, <1>6

(* The thread stays among those that pay.                                  *)
LEMMA StillPaying ==
  ASSUME IInv, NEW w \in Workers, NEW pc \in Paying, wpc[w] \in Paying, MoveTo(w, pc),
         UNCHANGED <<threadVars, poolVars, at, alive>>
  PROVE  /\ PlaceInv' /\ PoolInv' /\ CountInv' /\ DebtInv'
         /\ wpc' \in [Workers -> {"loop", "exec", "stopStarving", "release", "select", "notify",
                                  "available", "registerAgain", "endsItself"}]
         /\ wpc'[w] = pc /\ \A v \in Workers : v # w => wpc'[v] = wpc[v]
<1> USE DEF IInv
<1>1. /\ wpc' \in [Workers -> {"loop", "exec", "stopStarving", "release", "select", "notify",
                               "available", "registerAgain", "endsItself"}]
      /\ wpc'[w] = pc /\ \A v \in Workers : v # w => wpc'[v] = wpc[v]
  BY DEF MoveTo, TypeOK, Paying
<1>2. \A v \in Workers : \/ wpc'[v] = wpc[v]
                         \/ v = w /\ wpc[v] \in Paying /\ wpc'[v] \in Paying
  BY <1>1
<1>3. {v \in Workers : wpc[v] \in Paying}' = {v \in Workers : wpc[v] \in Paying}
  BY <1>2
<1>4. Unborn \subseteq Unborn'
  BY <1>2 DEF Unborn, Paying
<1>5. PoolInv'
  BY <1>3, <1>4, PoolFrame
<1>6. CountInv' /\ DebtInv'
  BY CountFrame DEF DebtInv
<1>7. PlaceInv'
  <2>1. \A s \in Schedulers : \A v \in suspended[s] : wpc'[v] = "loop"
    <3>1. \A s \in Schedulers : suspended[s] \subseteq Workers
      BY DEF TypeOK
    <3>2. QED
      BY <1>2, <3>1 DEF PlaceInv, Paying
  <2>2. \A v \in pool : wpc'[v] \in {"loop"} \cup Paying
    <3>1. pool \subseteq Workers
      BY DEF TypeOK
    <3>2. QED
      BY <1>2, <3>1 DEF PlaceInv
  <2>3. ASSUME NEW v \in Workers
        PROVE  /\ wpc'[v] = "exec" => ~sleeping[v]
               /\ wpc'[v] \in {"stopStarving", "release"} => sleeping[v] /\ owner[v] = at[v]
               /\ wpc'[v] \in Paying => v \in pool \/ ~sleeping[v]
               /\ wpc'[v] # "endsItself"
    BY <1>2 DEF PlaceInv, Paying
  <2>4. QED
    BY <2>1, <2>2, <2>3 DEF PlaceInv
<1>8. QED
  BY <1>1, <1>5, <1>6, <1>7

(* Nothing is counted in such a step.                                      *)
LEMMA BudgetFrame ==
  ASSUME IInv, UNCHANGED <<queue, budgetVars, maxCount>>
  PROVE  Bounded' /\ BudgetInv'
BY DEF IInv, TypeOK, Bounded, BudgetInv

(* AllocateShared in ThreadAvailable.                                      *)
LEMMA AvailableTakenStep ==
  ASSUME IInv, NEW w \in Workers, AvailableTaken(w)
  PROVE  IInv'
<1> USE DEF IInv
<1> DEFINE s == target[w]
<1>a. /\ s \in Schedulers /\ mutex[s] = w /\ stopCount[s] # 0 /\ alive[s] = "open"
      /\ AllocateShared(s)
      /\ UNCHANGED <<schedVars, starving, starved, workerVars, clientVars>>
  BY AvailableFacts DEF AvailableTaken
<1> HIDE DEF s
<1>k. /\ PlaceInv' /\ PoolInv' /\ CountInv' /\ DebtInv' /\ ThreadTypes' /\ UNCHANGED maxCount
      /\ \A t \in Schedulers : running[t] \subseteq running'[t]
      /\ \A t \in Schedulers : fromShared'[t] >= fromShared[t]
      /\ \A t \in Schedulers \ {s} : /\ running'[t] = running[t] /\ suspended'[t] = suspended[t]
                                     /\ passedOver'[t] = passedOver[t]
  BY <1>a, AllocateKeeps
<1>q. Bounded' /\ BudgetInv'
  BY <1>a, <1>k, BudgetFrame
<1>1. TypeOK'
  BY <1>a, <1>k, <1>q DEF TypeOK, ThreadTypes
<1>3. HoldInv'
  BY <1>a, <1>k, HoldFrame DEF ThreadTypes
<1>4. ClientInv'
  <2>1. ASSUME NEW d \in Clients PROVE Uses(d)'
    BY <1>a DEF ClientInv, Uses, ClosingAt
  <2>2. ASSUME NEW t \in Schedulers PROVE Ends(t)'
    BY <1>a, <1>k DEF ClientInv, Ends
  <2>3. QED
    BY <2>1, <2>2 DEF ClientInv
<1>6. StarvingInv'
  BY <1>a, StarvingFrame DEF Registering, Notifying
<1>7. NoStrandedJobs'
  BY <1>a, <1>k DEF NoStrandedJobs, Free
<1>8. CallInv'
  <2>1. \A d \in Clients : cpc[d] = "register" => running[on[d]] \subseteq running'[on[d]]
    BY <1>k, CallsWhom
  <2>2. QED
    BY <1>a, <2>1 DEF CallInv
<1>9. WaitInv'
  <2>1. \A d \in Clients : Waits(d) => running[on[d]] \subseteq running'[on[d]]
    BY <1>k, CallsWhom DEF Waits
  <2>2. QED
    BY <1>a, <2>1 DEF WaitInv, Covered, Waits, Pays
<1>10. QED
  BY <1>1, <1>k, <1>q, <1>3, <1>4, <1>6, <1>7, <1>8, <1>9

(* ThreadAvailable finds no thread in the pool.                            *)
LEMMA AvailableStarvesStep ==
  ASSUME IInv, NEW w \in Workers, AvailableStarves(w)
  PROVE  IInv'
<1> USE DEF IInv
<1> DEFINE s == target[w]
<1>a. /\ s \in Schedulers /\ mutex[s] = w /\ stopCount[s] # 0 /\ alive[s] = "open"
      /\ \A v \in Workers : at[v] # s
      /\ wpc[w] = "available" /\ MoveTo(w, "registerAgain")
      /\ ~starved[s] /\ starved' = [starved EXCEPT ![s] = TRUE]
      /\ UNCHANGED <<threadVars, poolVars, passedOver, schedVars, starving, at, target, clientVars>>
  BY AvailableFacts DEF AvailableStarves, BecomesStarved, MayBorrow
<1>k. /\ PlaceInv' /\ PoolInv' /\ CountInv' /\ DebtInv'
      /\ wpc' \in [Workers -> {"loop", "exec", "stopStarving", "release", "select", "notify",
                               "available", "registerAgain", "endsItself"}]
      /\ wpc'[w] = "registerAgain" /\ \A v \in Workers : v # w => wpc'[v] = wpc[v]
  <2>1. "registerAgain" \in Paying /\ "available" \in Paying
    BY DEF Paying
  <2>2. QED
    BY <1>a, <2>1, StillPaying
<1>n. target[w] = s
  OBVIOUS
<1> HIDE DEF s
<1>h. \A t \in Schedulers \ {s} : starved'[t] = starved[t]
  BY <1>a DEF TypeOK
<1>q. Bounded' /\ BudgetInv'
  BY <1>a, BudgetFrame
<1>s. StarvingInv' /\ starved' \in [Schedulers -> BOOLEAN]
  <2>1. \A v \in Workers : \A t \in Schedulers : Notifying(v, t)' <=> Notifying(v, t) \/ (v = w /\ t = s)
    BY <1>a, <1>k, <1>n DEF Notifying
  <2>2. \A d \in Clients : \A t \in Schedulers : Registering(d, t)' <=> Registering(d, t) \/ (d = w /\ t = s)
    BY <1>a, WhoAssumption DEF Registering
  <2>3. w \in Workers \cup Clients /\ s \in Schedulers /\ starving' = starving
    BY <1>a
  <2>4. QED
    BY <1>a, <2>1, <2>2, <2>3, BeginsStarving
<1>1. TypeOK'
  BY <1>a, <1>k, <1>q, <1>s DEF TypeOK
<1>3. HoldInv'
  <2>1. ASSUME NEW v \in Workers PROVE WorkerHolds(v)'
    <3>1. WorkerHolds(v) /\ at[v] # s /\ (at[v] # NoOne => at[v] \in Schedulers)
      BY <1>a DEF HoldInv, TypeOK
    <3>2. at[v] # NoOne => starved'[at[v]] = starved[at[v]]
      BY <3>1, <1>h
    <3>3. CASE v = w
      BY <3>1, <3>2, <3>3, <1>a, <1>k DEF WorkerHolds, Owing, Paying
    <3>4. CASE v # w
      BY <3>1, <3>2, <3>4, <1>a, <1>k DEF WorkerHolds
    <3>5. QED
      BY <3>3, <3>4
  <2>2. ASSUME NEW d \in Clients PROVE ClientHolds(d)'
    BY <1>a DEF HoldInv, ClientHolds
  <2>3. ASSUME NEW t \in Schedulers PROVE Held(t)'
    BY <1>a, <1>k DEF HoldInv, Held
  <2>4. QED
    BY <2>1, <2>2, <2>3 DEF HoldInv
<1>4. ClientInv'
  <2>1. ASSUME NEW d \in Clients PROVE Uses(d)'
    <3>1. Uses(d)
      BY DEF ClientInv
    <3>2. cpc[d] \in {"checkClosing", "waitClosing"} => on[d] \in Schedulers \ {s}
      BY <3>1, <1>a, CallsWhom DEF Uses, ClosingAt
    <3>3. QED
      BY <1>a, <1>h, <3>1, <3>2 DEF Uses, ClosingAt
  <2>2. ASSUME NEW t \in Schedulers PROVE Ends(t)'
    <3>1. CASE t = s
      BY <1>a, <3>1 DEF Ends
    <3>2. CASE t # s
      BY <1>a, <1>h, <3>2 DEF ClientInv, Ends
    <3>3. QED
      BY <3>1, <3>2
  <2>3. QED
    BY <2>1, <2>2 DEF ClientInv
<1>7. NoStrandedJobs'
  BY <1>a, <1>h DEF NoStrandedJobs, Free
<1>8. CallInv'
  BY <1>a DEF CallInv
<1>9. WaitInv'
  BY <1>a DEF WaitInv, Covered, Waits, Pays
<1>10. QED
  BY <1>1, <1>k, <1>q, <1>3, <1>4, <1>s, <1>7, <1>8, <1>9

(* The mutex of the notified scheduler is let go.                          *)
LEMMA LetsGo ==
  ASSUME IInv, NEW w \in Workers, wpc[w] \in {"available", "registerAgain"},
         mutex' = [mutex EXCEPT ![target[w]] = NoOne],
         target' = [target EXCEPT ![w] = NoOne],
         MoveTo(w, "select"),
         UNCHANGED <<queue, stopCount, fromShared, starved, at, cpc, on>>
  PROVE  /\ HoldInv'
         /\ mutex' \in [Schedulers -> Workers \cup Clients \cup {NoOne}]
         /\ target' \in [Workers -> Schedulers \cup {NoOne}]
         /\ \A t \in Schedulers \ {target[w]} : mutex'[t] = mutex[t]
<1> USE DEF IInv
<1> DEFINE s == target[w]
<1>a. /\ s \in Schedulers /\ \A v \in Workers : at[v] # s
      /\ \A v \in Workers \ {w} : wpc[v] \in {"available", "registerAgain"} => target[v] # s
      /\ \A c \in Clients : cpc[c] \in {"register", "resume"} => on[c] # s
      /\ mutex[s] = w
  BY AvailableFacts
<1>b. /\ mutex'[s] = NoOne /\ \A t \in Schedulers \ {s} : mutex'[t] = mutex[t]
      /\ target'[w] = NoOne /\ \A v \in Workers : v # w => target'[v] = target[v]
      /\ wpc'[w] = "select" /\ \A v \in Workers : v # w => wpc'[v] = wpc[v]
      /\ mutex' \in [Schedulers -> Workers \cup Clients \cup {NoOne}]
      /\ target' \in [Workers -> Schedulers \cup {NoOne}]
  BY <1>a DEF TypeOK, MoveTo
<1>n. target[w] = s
  OBVIOUS
<1> HIDE DEF s
<1>1. ASSUME NEW v \in Workers PROVE WorkerHolds(v)'
  <2>1. WorkerHolds(v) /\ at[v] # s /\ (at[v] # NoOne => at[v] \in Schedulers)
    BY <1>a DEF HoldInv, TypeOK
  <2>2. at[v] # NoOne => mutex'[at[v]] = mutex[at[v]]
    BY <2>1, <1>b
  <2>3. CASE v = w
    BY <2>1, <2>2, <2>3, <1>b DEF WorkerHolds, Owing, Paying
  <2>4. CASE v # w
    <3>1. wpc[v] \in {"available", "registerAgain"} =>
            target[v] \in Schedulers /\ target[v] # s /\ mutex[target[v]] = v
      BY <2>1, <2>4, <1>a, CallsWhom DEF WorkerHolds
    <3>2. wpc[v] \in {"available", "registerAgain"} => mutex'[target[v]] = v
      BY <3>1, <1>b
    <3>3. QED
      BY <2>1, <2>2, <2>4, <3>1, <3>2, <1>b DEF WorkerHolds
  <2>5. QED
    BY <2>3, <2>4
<1>2. ASSUME NEW d \in Clients PROVE ClientHolds(d)'
  <2>1. cpc[d] \in {"register", "resume"} => on[d] \in Schedulers \ {s}
    BY <1>a, CallsWhom
  <2>2. QED
    BY <2>1, <1>b DEF HoldInv, ClientHolds
<1>3. ASSUME NEW t \in Schedulers PROVE Held(t)'
  <2>1. CASE t = s
    BY <2>1, <1>b, NoOneAssumption DEF Held
  <2>2. CASE t # s
    <3>1. Held(t) /\ mutex'[t] = mutex[t]
      BY <2>2, <1>b DEF HoldInv
    <3>2. mutex[t] = w => at[w] = t
      BY <2>2, <3>1, <1>n DEF Held
    <3>3. QED
      BY <3>1, <3>2, <1>b DEF Held
  <2>3. QED
    BY <2>1, <2>2
<1>4. QED
  BY <1>1, <1>2, <1>3, <1>b, <1>n DEF HoldInv

(* The scheduler is listed again before its mutex is let go.               *)
LEMMA RegisterAgainStep ==
  ASSUME IInv, NEW w \in Workers, RegisterAgain(w)
  PROVE  IInv'
<1> USE DEF IInv
<1> DEFINE s == target[w]
<1>a. /\ s \in Schedulers /\ mutex[s] = w /\ stopCount[s] # 0 /\ alive[s] = "open"
      /\ wpc[w] = "registerAgain" /\ MoveTo(w, "select")
      /\ mutex' = [mutex EXCEPT ![s] = NoOne] /\ target' = [target EXCEPT ![w] = NoOne]
      /\ starving' = Append(starving, s)
      /\ UNCHANGED <<queue, stopCount, waitVars, lifeVars,
                     threadVars, poolVars, starved, passedOver, at, clientVars>>
  BY AvailableFacts DEF RegisterAgain
<1>k. /\ PlaceInv' /\ PoolInv' /\ CountInv' /\ DebtInv'
      /\ wpc' \in [Workers -> {"loop", "exec", "stopStarving", "release", "select", "notify",
                               "available", "registerAgain", "endsItself"}]
      /\ wpc'[w] = "select" /\ \A v \in Workers : v # w => wpc'[v] = wpc[v]
  <2>1. "registerAgain" \in Paying /\ "select" \in Paying
    BY DEF Paying
  <2>2. QED
    BY <1>a, <2>1, StillPaying
<1>3. /\ HoldInv'
      /\ mutex' \in [Schedulers -> Workers \cup Clients \cup {NoOne}]
      /\ target' \in [Workers -> Schedulers \cup {NoOne}]
      /\ \A t \in Schedulers \ {s} : mutex'[t] = mutex[t]
  BY <1>a, LetsGo
<1>n. target[w] = s
  OBVIOUS
<1> HIDE DEF s
<1>q. Bounded' /\ BudgetInv'
  BY <1>a, BudgetFrame
<1>s. StarvingInv' /\ starving' \in Seq(Schedulers)
  <2>1. Notifying(w, s)
    BY <1>a, <1>n DEF Notifying
  <2>2. /\ s \notin Range(starving) /\ starved[s]
        /\ \A x \in Workers \ {w} : ~Notifying(x, s)
    BY <1>a, <2>1 DEF StarvingInv
  <2>3. \A c \in Clients : ~Registering(c, s)
    BY <1>a, <2>1 DEF StarvingInv
  <2>4. \A v \in Workers : \A t \in Schedulers : Notifying(v, t)' <=> Notifying(v, t) /\ t # s
    <3>1. target'[w] = NoOne /\ \A v \in Workers : v # w => target'[v] = target[v]
      BY <1>a DEF TypeOK
    <3>2. QED
      BY <1>k, <1>n, <2>2, <3>1, NoOneAssumption DEF Notifying
  <2>5. \A d \in Clients : \A t \in Schedulers : Registering(d, t)' <=> Registering(d, t) /\ t # s
    BY <1>a, <2>3 DEF Registering
  <2>6. QED
    BY <1>a, <2>2, <2>4, <2>5, AppendStarving
<1>1. TypeOK'
  BY <1>a, <1>k, <1>q, <1>s, <1>3 DEF TypeOK
<1>4. ClientInv'
  <2>1. ASSUME NEW d \in Clients PROVE Uses(d)'
    BY <1>a DEF ClientInv, Uses, ClosingAt
  <2>2. ASSUME NEW t \in Schedulers PROVE Ends(t)'
    BY <1>a, <1>3 DEF ClientInv, Ends
  <2>3. QED
    BY <2>1, <2>2 DEF ClientInv
<1>7. NoStrandedJobs'
  BY <1>a, <1>3 DEF NoStrandedJobs, Free
<1>8. CallInv'
  BY <1>a DEF CallInv
<1>9. WaitInv'
  BY <1>a DEF WaitInv, Covered, Waits, Pays
<1>10. QED
  BY <1>1, <1>k, <1>q, <1>3, <1>4, <1>s, <1>7, <1>8, <1>9

(* Nothing is registered: the scheduler has got what it wanted.            *)
LEMMA AvailableEndsStep ==
  ASSUME IInv, NEW w \in Workers, AvailableEnds(w)
  PROVE  IInv'
<1> USE DEF IInv
<1> DEFINE s == target[w]
<1>a. /\ s \in Schedulers /\ mutex[s] = w /\ stopCount[s] # 0 /\ alive[s] = "open"
      /\ wpc[w] = "available" /\ MoveTo(w, "select")
      /\ mutex' = [mutex EXCEPT ![s] = NoOne] /\ target' = [target EXCEPT ![w] = NoOne]
      /\ passedOver' = [passedOver EXCEPT ![s] = @ \/ running[s] = {}]
      /\ UNCHANGED <<queue, stopCount, waitVars, lifeVars,
                     threadVars, poolVars, starving, starved, at, clientVars>>
  BY AvailableFacts DEF AvailableEnds, LeaveAvailable
<1>k. /\ PlaceInv' /\ PoolInv' /\ CountInv' /\ DebtInv'
      /\ wpc' \in [Workers -> {"loop", "exec", "stopStarving", "release", "select", "notify",
                               "available", "registerAgain", "endsItself"}]
      /\ wpc'[w] = "select" /\ \A v \in Workers : v # w => wpc'[v] = wpc[v]
  <2>1. "available" \in Paying /\ "select" \in Paying
    BY DEF Paying
  <2>2. QED
    BY <1>a, <2>1, StillPaying
<1>3. /\ HoldInv'
      /\ mutex' \in [Schedulers -> Workers \cup Clients \cup {NoOne}]
      /\ target' \in [Workers -> Schedulers \cup {NoOne}]
      /\ \A t \in Schedulers \ {s} : mutex'[t] = mutex[t]
  BY <1>a, LetsGo
<1>p. /\ passedOver' \in [Schedulers -> BOOLEAN]
      /\ \A t \in Schedulers \ {s} : passedOver'[t] = passedOver[t]
  BY <1>a DEF TypeOK
<1> HIDE DEF s
<1>q. Bounded' /\ BudgetInv'
  BY <1>a, BudgetFrame
<1>s. StarvingInv'
  <2>1. \A v \in Workers : \A t \in Schedulers : Notifying(v, t)' <=> Notifying(v, t)
    <3>1. \A v \in Workers : v # w => target'[v] = target[v]
      BY <1>a DEF TypeOK
    <3>2. QED
      BY <1>a, <1>k, <3>1 DEF Notifying
  <2>2. \A d \in Clients : \A t \in Schedulers : Registering(d, t)' <=> Registering(d, t)
    BY <1>a DEF Registering
  <2>3. QED
    BY <1>a, <2>1, <2>2, StarvingFrame
<1>1. TypeOK'
  BY <1>a, <1>k, <1>q, <1>p, <1>3 DEF TypeOK
<1>4. ClientInv'
  <2>1. ASSUME NEW d \in Clients PROVE Uses(d)'
    BY <1>a DEF ClientInv, Uses, ClosingAt
  <2>2. ASSUME NEW t \in Schedulers PROVE Ends(t)'
    BY <1>a, <1>3 DEF ClientInv, Ends
  <2>3. QED
    BY <2>1, <2>2 DEF ClientInv
<1>7. NoStrandedJobs'
  BY <1>a, <1>p, <1>3 DEF NoStrandedJobs, Free
<1>8. CallInv'
  BY <1>a DEF CallInv
<1>9. WaitInv'
  BY <1>a DEF WaitInv, Covered, Waits, Pays
<1>10. QED
  BY <1>1, <1>k, <1>q, <1>3, <1>4, <1>s, <1>7, <1>8, <1>9

(* The flag of the scheduler that is notified is taken back.               *)
LEMMA EndsStarving ==
  ASSUME TypeOK, StarvingInv, NEW s \in Schedulers, NEW w \in Workers, Notifying(w, s),
         starved' = [starved EXCEPT ![s] = FALSE], UNCHANGED starving,
         \A v \in Workers : \A t \in Schedulers :
           Notifying(v, t)' <=> Notifying(v, t) /\ t # s,
         \A c \in Clients : \A t \in Schedulers : Registering(c, t)' <=> Registering(c, t)
  PROVE  StarvingInv' /\ starved' \in [Schedulers -> BOOLEAN]
<1>1. /\ starved' \in [Schedulers -> BOOLEAN] /\ ~starved'[s]
      /\ \A t \in Schedulers \ {s} : starved'[t] = starved[t]
  BY DEF TypeOK
<1> HIDE DEF Notifying, Registering
<1>2. s \notin Range(starving) /\ \A c \in Clients : ~Registering(c, s)
  BY DEF StarvingInv
<1>3. \A t \in Schedulers : t \in Range(starving) => starved'[t]
  BY <1>1, <1>2 DEF StarvingInv
<1>4. \A t \in Schedulers : \A v \in Workers : Notifying(v, t)' =>
        /\ starved'[t] /\ t \notin Range(starving)
        /\ \A x \in Workers \ {v} : ~Notifying(x, t)'
  BY <1>1 DEF StarvingInv
<1>5. \A t \in Schedulers : \A c \in Clients : Registering(c, t)' =>
        /\ starved'[t] /\ t \notin Range(starving)
        /\ \A v \in Workers : ~Notifying(v, t)'
  BY <1>1, <1>2 DEF StarvingInv
<1>6. ASSUME NEW t \in Schedulers, starved'[t]
      PROVE  \/ t \in Range(starving)
             \/ \E v \in Workers : Notifying(v, t)'
             \/ \E c \in Clients : Registering(c, t)'
  <2>1. t # s /\ starved[t]
    BY <1>1, <1>6
  <2>2. QED
    BY <2>1 DEF StarvingInv
<1>7. QED
  BY <1>1, <1>3, <1>4, <1>5, <1>6 DEF StarvingInv

(* The scheduler is not starving any more, whether it takes threads or     *)
(* not.                                                                    *)
LEMMA ThreadAvailableStep ==
  ASSUME IInv, NEW w \in Workers, ThreadAvailable(w)
  PROVE  IInv'
<1> USE DEF IInv
<1> DEFINE s == target[w]
           takes == /\ stopCount[s] # 0 /\ mutex' = [mutex EXCEPT ![s] = w]
                    /\ MoveTo(w, "available") /\ UNCHANGED <<passedOver, target>>
           leaves == /\ passedOver' = [passedOver EXCEPT ![s] = @ \/ running[s] = {}]
                     /\ target' = [target EXCEPT ![w] = NoOne]
                     /\ MoveTo(w, "select") /\ UNCHANGED mutex
<1>a. /\ s \in Schedulers /\ mutex[s] = NoOne /\ wpc[w] = "notify"
      /\ starved' = [starved EXCEPT ![s] = FALSE]
      /\ UNCHANGED <<queue, stopCount, waitVars, lifeVars,
                     threadVars, poolVars, starving, at, clientVars>>
  BY CallsWhom DEF ThreadAvailable, NotStarved
<1>c. takes \/ leaves
  BY DEF ThreadAvailable, WantsMore, LeaveAvailable
<1>n. target[w] = s
  OBVIOUS
<1> HIDE DEF s, takes, leaves
<1>b. PICK pc \in {"available", "select"} :
        (takes /\ pc = "available") \/ (leaves /\ pc = "select")
  BY <1>c
<1>m. MoveTo(w, pc)
  BY <1>b DEF takes, leaves
<1>k. /\ PlaceInv' /\ PoolInv' /\ CountInv' /\ DebtInv'
      /\ wpc' \in [Workers -> {"loop", "exec", "stopStarving", "release", "select", "notify",
                               "available", "registerAgain", "endsItself"}]
      /\ wpc'[w] = pc /\ \A v \in Workers : v # w => wpc'[v] = wpc[v]
  <2>1. pc \in Paying /\ wpc[w] \in Paying
    BY <1>a DEF Paying
  <2>2. QED
    BY <1>a, <1>m, <2>1, StillPaying
<1>h. /\ mutex' \in [Schedulers -> Workers \cup Clients \cup {NoOne}]
      /\ \A t \in Schedulers \ {s} : mutex'[t] = mutex[t] /\ starved'[t] = starved[t]
      /\ starved' \in [Schedulers -> BOOLEAN] /\ ~starved'[s]
      /\ target' \in [Workers -> Schedulers \cup {NoOne}]
      /\ \A v \in Workers : v # w => target'[v] = target[v]
      /\ passedOver' \in [Schedulers -> BOOLEAN]
      /\ \A t \in Schedulers \ {s} : passedOver'[t] = passedOver[t]
  <2>1. CASE takes
    BY <2>1, <1>a DEF takes, TypeOK
  <2>2. CASE leaves
    BY <2>2, <1>a DEF leaves, TypeOK
  <2>3. QED
    BY <2>1, <2>2, <1>c
<1>t. /\ takes /\ pc = "available" => mutex'[s] = w /\ target'[w] = s /\ stopCount[s] # 0
      /\ leaves /\ pc = "select" =>
           mutex'[s] = NoOne /\ target'[w] = NoOne /\ (running[s] = {} => passedOver'[s])
  BY <1>a, <1>n DEF takes, leaves, TypeOK
<1>q. Bounded' /\ BudgetInv'
  BY <1>a, BudgetFrame
<1>s. StarvingInv'
  <2>1. Notifying(w, s)
    BY <1>a, <1>n DEF Notifying
  <2>2. \A v \in Workers : \A t \in Schedulers : Notifying(v, t)' <=> Notifying(v, t) /\ t # s
    <3>1. \A x \in Workers \ {w} : ~Notifying(x, s)
      BY <1>a, <2>1 DEF StarvingInv
    <3>2. ASSUME NEW v \in Workers, v # w, NEW t \in Schedulers
          PROVE  Notifying(v, t)' <=> Notifying(v, t)
      BY <3>2, <1>k, <1>h DEF Notifying
    <3>3. ASSUME NEW t \in Schedulers PROVE ~Notifying(w, t)' /\ (Notifying(w, t) => t = s)
      BY <1>k, <1>n DEF Notifying
    <3>4. QED
      BY <3>1, <3>2, <3>3
  <2>3. \A d \in Clients : \A t \in Schedulers : Registering(d, t)' <=> Registering(d, t)
    BY <1>a DEF Registering
  <2>4. starving' = starving
    BY <1>a
  <2>5. QED
    BY <1>a, <2>1, <2>2, <2>3, <2>4, EndsStarving
<1>1. TypeOK'
  BY <1>a, <1>k, <1>q, <1>h DEF TypeOK
<1>3. HoldInv'
  <2>1. ASSUME NEW v \in Workers PROVE WorkerHolds(v)'
    <3>1. WorkerHolds(v) /\ at[v] # s /\ (at[v] # NoOne => at[v] \in Schedulers)
      BY <1>a, NoOneAssumption, PaysNot DEF HoldInv, TypeOK
    <3>2. at[v] # NoOne => mutex'[at[v]] = mutex[at[v]] /\ starved'[at[v]] = starved[at[v]]
      BY <3>1, <1>h
    <3>3. CASE v = w
      <4>1. wpc'[w] \in {"available", "select"} /\ s # NoOne
        BY <1>a, <1>k, NoOneAssumption
      <4>2. (wpc'[w] = "available" /\ mutex'[s] = w /\ target'[w] = s /\ stopCount[s] # 0)
              \/ (wpc'[w] = "select" /\ target'[w] = NoOne)
        BY <1>b, <1>k, <1>t
      <4>3. at[w] # NoOne
        BY <1>a, <3>1, <3>3 DEF WorkerHolds, Owing, Paying
      <4>4. /\ mutex[at[w]] = w /\ fromShared[at[w]] > 0
            /\ queue[at[w]] = 0 \/ stopCount[at[w]] # 0
            /\ ~starved[at[w]]
        BY <1>a, <3>1, <3>3, <4>3 DEF WorkerHolds
      <4>5. QED
        BY <3>1, <3>2, <3>3, <4>1, <4>2, <4>3, <4>4, <1>a DEF WorkerHolds, Owing, Paying
    <3>4. CASE v # w
      <4>1. wpc[v] \in {"available", "registerAgain"} => target[v] \in Schedulers /\ mutex[target[v]] = v
        BY <3>1, CallsWhom DEF WorkerHolds
      <4>2. wpc[v] \in {"available", "registerAgain"} => mutex'[target[v]] = v
        BY <4>1, <1>a, <1>h, NoOneAssumption
      <4>3. QED
        BY <3>1, <3>2, <3>4, <4>2, <1>a, <1>k, <1>h DEF WorkerHolds
    <3>5. QED
      BY <3>3, <3>4
  <2>2. ASSUME NEW d \in Clients PROVE ClientHolds(d)'
    <3>1. cpc[d] \in {"register", "resume"} => on[d] \in Schedulers \ {s}
      BY <1>a, CallsWhom, NoOneAssumption DEF HoldInv, ClientHolds
    <3>2. QED
      BY <3>1, <1>a, <1>h DEF HoldInv, ClientHolds
  <2>3. ASSUME NEW t \in Schedulers PROVE Held(t)'
    <3>1. CASE t = s
      <4>1. mutex'[s] = NoOne \/ (mutex'[s] = w /\ wpc'[w] = "available" /\ target'[w] = s)
        BY <1>b, <1>k, <1>t
      <4>2. QED
        BY <3>1, <4>1, NoOneAssumption, WhoAssumption DEF Held
    <3>2. CASE t # s
      <4>1. Held(t) /\ mutex'[t] = mutex[t]
        BY <3>2, <1>h DEF HoldInv
      <4>2. mutex[t] = w => at[w] = t
        BY <4>1, <1>a DEF Held
      <4>3. QED
        BY <4>1, <4>2, <1>a, <1>k, <1>h DEF Held
    <3>3. QED
      BY <3>1, <3>2
  <2>4. QED
    BY <2>1, <2>2, <2>3 DEF HoldInv
<1>4. ClientInv'
  <2>1. ASSUME NEW d \in Clients PROVE Uses(d)'
    <3>1. Uses(d)
      BY DEF ClientInv
    <3>2. cpc[d] \in {"checkClosing", "waitClosing"} => ~starved'[on[d]]
      BY <3>1, <1>h, CallsWhom DEF Uses
    <3>3. QED
      BY <1>a, <3>1, <3>2 DEF Uses, ClosingAt
  <2>2. ASSUME NEW t \in Schedulers PROVE Ends(t)'
    <3>1. Ends(t)
      BY DEF ClientInv
    <3>2. alive[t] = "gone" => t # s
      <4>1. starved[s]
        BY <1>a, <1>n DEF StarvingInv, Notifying
      <4>2. QED
        BY <3>1, <4>1 DEF Ends
    <3>3. QED
      BY <1>a, <1>h, <3>1, <3>2 DEF Ends
  <2>3. QED
    BY <2>1, <2>2 DEF ClientInv
<1>7. NoStrandedJobs'
  <2> SUFFICES ASSUME NEW t \in Schedulers, Free(t)', queue[t] > 0, stopCount[t] = 0,
                      running[t] = {}
               PROVE  ThreadCount[t] = 0 /\ (starved'[t] \/ passedOver'[t] \/ alive[t] = "closing")
    BY <1>a DEF NoStrandedJobs
  <2>1. CASE t = s
    <3>1. ThreadCount[s] = 0
      BY <2>1, <1>a DEF NoStrandedJobs, Free
    <3>2. pc = "select"
      BY <2>1, <1>b, <1>t
    <3>3. passedOver'[s]
      BY <2>1, <3>2, <1>b, <1>t
    <3>4. QED
      BY <2>1, <3>1, <3>3
  <2>2. CASE t # s
    BY <1>h, <2>2 DEF NoStrandedJobs, Free
  <2>3. QED
    BY <2>1, <2>2
<1>8. CallInv'
  BY <1>a DEF CallInv
<1>9. WaitInv'
  BY <1>a DEF WaitInv, Covered, Waits, Pays
<1>10. QED
  BY <1>1, <1>k, <1>q, <1>3, <1>4, <1>s, <1>7, <1>8, <1>9

-----------------------------------------------------------------------------
(* A debt is paid back.                                                    *)

(* What a thread that gives itself back, or has done so, knows.            *)
LEMMA OwingFacts ==
  ASSUME IInv, NEW w \in Workers, wpc[w] \in Owing
  PROVE  /\ at[w] \in Schedulers /\ mutex[at[w]] = w /\ fromShared[at[w]] > 0
         /\ queue[at[w]] = 0 \/ stopCount[at[w]] # 0
         /\ wpc[w] # "stopStarving" => ~starved[at[w]]
         /\ alive[at[w]] # "gone" /\ Pays(at[w]) = 1
         /\ \A v \in Workers : v # w => at[v] # at[w]
         /\ \A v \in Workers : wpc[v] \in {"available", "registerAgain"} => target[v] # at[w]
         /\ \A c \in Clients : cpc[c] \in {"register", "resume"} => on[c] # at[w]
<1> USE DEF IInv
<1>1. at[w] \in Schedulers /\ at[w] # NoOne
  BY CallsWhom, NoOneAssumption
<1>2. WorkerHolds(w)
  BY DEF HoldInv
<1>3. mutex[at[w]] = w
  BY <1>1, <1>2 DEF WorkerHolds
<1>4. alive[at[w]] # "gone"
  BY <1>1, <1>3, NoOneAssumption DEF ClientInv, Ends
<1>5. \A v \in Workers : v # w => at[v] # at[w]
  BY <1>1, <1>3, NoOneAssumption DEF HoldInv, WorkerHolds
<1>6. ASSUME NEW v \in Workers, wpc[v] \in {"available", "registerAgain"}
      PROVE  target[v] # at[w]
  <2>1. mutex[target[v]] = v /\ target[v] # at[v]
    BY <1>6 DEF HoldInv, WorkerHolds
  <2>2. QED
    BY <2>1, <1>3
<1>7. \A c \in Clients : cpc[c] \in {"register", "resume"} => on[c] # at[w]
  BY <1>3, WhoAssumption DEF HoldInv, ClientHolds
<1>8. Pays(at[w]) = 1
  BY DEF Pays
<1>9. QED
  BY <1>1, <1>2, <1>3, <1>4, <1>5, <1>6, <1>7, <1>8 DEF WorkerHolds

(* The end of AssignJob is right for the scheduler and those that wait.    *)
LEMMA PaidBackKeeps ==
  ASSUME IInv, NEW w \in Workers, wpc[w] \in {"release", "select"}, PaidBack(w),
         UNCHANGED <<queue, stopCount, overtaken, alive, running, suspended,
                     yetToCreate, starved, target, cpc, on, passedOver>>
  PROVE  /\ CountInv' /\ DebtInv' /\ HoldInv' /\ ClientInv' /\ NoStrandedJobs' /\ CallInv' /\ WaitInv'
         /\ fromShared' \in [Schedulers -> Nat]
         /\ Cardinality(Each(fromShared))' = Cardinality(Each(fromShared)) - 1
         /\ emptyEvent' \in [Schedulers -> BOOLEAN]
         /\ mutex' \in [Schedulers -> Workers \cup Clients \cup {NoOne}]
         /\ at' \in [Workers -> Schedulers \cup {NoOne}]
         /\ wpc' \in [Workers -> {"loop", "exec", "stopStarving", "release", "select", "notify",
                                  "available", "registerAgain", "endsItself"}]
         /\ wpc'[w] = "loop" /\ at'[w] = NoOne
         /\ \A v \in Workers : v # w => wpc'[v] = wpc[v] /\ at'[v] = at[v]
<1> USE DEF IInv
<1>s. PICK s \in Schedulers : at[w] = s
  BY OwingFacts DEF Owing, Paying
<1>a. /\ s \in Schedulers /\ mutex[s] = w /\ fromShared[s] > 0
      /\ queue[s] = 0 \/ stopCount[s] # 0
      /\ alive[s] # "gone" /\ Pays(s) = 1
      /\ \A v \in Workers : v # w => at[v] # s
      /\ \A v \in Workers : wpc[v] \in {"available", "registerAgain"} => target[v] # s
      /\ \A c \in Clients : cpc[c] \in {"register", "resume"} => on[c] # s
  BY <1>s, OwingFacts DEF Owing, Paying
<1>b. /\ fromShared' = [fromShared EXCEPT ![s] = @ - 1]
      /\ emptyEvent' = [emptyEvent EXCEPT ![s] = @ \/ running[s] = {}]
      /\ mutex' = [mutex EXCEPT ![s] = NoOne]
      /\ at' = [at EXCEPT ![w] = NoOne]
      /\ wpc' = [wpc EXCEPT ![w] = "loop"]
  BY <1>s DEF PaidBack, SignalEmpty, MoveTo
<1>c. /\ emptyEvent' \in [Schedulers -> BOOLEAN]
      /\ mutex' \in [Schedulers -> Workers \cup Clients \cup {NoOne}]
      /\ at' \in [Workers -> Schedulers \cup {NoOne}]
      /\ wpc' \in [Workers -> {"loop", "exec", "stopStarving", "release", "select", "notify",
                               "available", "registerAgain", "endsItself"}]
      /\ wpc'[w] = "loop" /\ at'[w] = NoOne
      /\ \A v \in Workers : v # w => wpc'[v] = wpc[v] /\ at'[v] = at[v]
      /\ mutex'[s] = NoOne
      /\ emptyEvent'[s] = (emptyEvent[s] \/ running[s] = {})
      /\ \A t \in Schedulers \ {s} : mutex'[t] = mutex[t] /\ emptyEvent'[t] = emptyEvent[t]
  BY <1>a, <1>b DEF TypeOK
<1>d. /\ fromShared \in [Schedulers -> Nat] /\ fromShared' \in [Schedulers -> Nat]
      /\ fromShared'[s] = fromShared[s] - 1
      /\ \A t \in Schedulers \ {s} : fromShared'[t] = fromShared[t]
  BY <1>a, <1>b DEF TypeOK
<1>e. Cardinality(Each(fromShared))' = Cardinality(Each(fromShared)) - 1
  <2>1. Each(fromShared)' = Each([fromShared EXCEPT ![s] = @ - 1])
    BY <1>b DEF Each
  <2>2. QED
    BY <1>a, <1>d, <2>1, EachMinus
<1>f. Pays(s)' = 0 /\ \A t \in Schedulers \ {s} : Pays(t)' = Pays(t)
  <2>1. \A v \in Workers : at'[v] # s
    BY <1>a, <1>c, NoOneAssumption
  <2>2. ASSUME NEW t \in Schedulers \ {s} PROVE \A v \in Workers : at'[v] = t <=> at[v] = t
    BY <1>c, <1>s, <2>2, NoOneAssumption
  <2>3. QED
    BY <2>1, <2>2 DEF Pays
<1>1. CountInv'
  <2> SUFFICES ASSUME NEW t \in Schedulers PROVE Counted(t)'
    BY DEF CountInv
  <2>1. Counted(t)
    BY DEF CountInv
  <2>2. CASE t = s
    <3> DEFINE r == runningCount(s)
               u == Cardinality(suspended[s])
               y == yetToCreate[s]
               f == fromShared[s]
               c == ThreadCount[s]
    <3>n. /\ r \in Nat /\ u \in Nat /\ y \in Nat /\ f \in Nat /\ c \in Nat
      <4>1. IsFiniteSet(running[s]) /\ IsFiniteSet(suspended[s])
        BY <1>a, CountAssumption, FS_Subset DEF TypeOK
      <4>2. r \in Nat /\ u \in Nat
        BY <4>1, FS_CardinalityType DEF runningCount
      <4>3. QED
        BY <1>a, <4>2, CountAssumption DEF TypeOK
    <3>0. r + u + y + 1 = c + f
      BY <2>1, <2>2, <1>a DEF Counted
    <3>1. runningCount(s)' = r /\ Cardinality(suspended[s])' = u /\ yetToCreate[s]' = y
      BY DEF runningCount
    <3>2. fromShared'[s] = f - 1 /\ Pays(s)' = 0
      BY <1>d, <1>f
    <3>3. r + u + y + 0 = c + (f - 1)
      <4> HIDE DEF r, u, y, f, c
      <4>1. QED
        BY <3>n, <3>0
    <3>4. QED
      BY <2>2, <3>1, <3>2, <3>3 DEF Counted
  <2>3. CASE t # s
    <3>1. Pays(t)' = Pays(t) /\ fromShared'[t] = fromShared[t]
      BY <2>3, <1>d, <1>f
    <3>2. QED
      BY <2>1, <3>1 DEF Counted, runningCount
  <2>4. QED
    BY <2>2, <2>3
<1>2. DebtInv'
  <2> SUFFICES ASSUME NEW t \in Schedulers, fromShared'[t] > 0
               PROVE  suspended[t] = {} /\ yetToCreate[t] = 0
    BY DEF DebtInv
  <2>1. fromShared[t] > 0
    BY <1>d
  <2>2. QED
    BY <2>1 DEF DebtInv
<1>3. HoldInv'
  <2>1. ASSUME NEW v \in Workers PROVE WorkerHolds(v)'
    <3>1. WorkerHolds(v) /\ (at[v] # NoOne => at[v] \in Schedulers)
      BY DEF HoldInv, TypeOK
    <3>2. CASE v = w
      BY <3>1, <3>2, <1>c DEF WorkerHolds, Owing, Paying
    <3>3. CASE v # w
      <4>1. at[v] # NoOne =>
              mutex'[at[v]] = mutex[at[v]] /\ fromShared'[at[v]] = fromShared[at[v]]
        BY <3>1, <3>3, <1>a, <1>c, <1>d, <1>s
      <4>2. wpc[v] \in {"available", "registerAgain"} => mutex'[target[v]] = mutex[target[v]]
        BY <1>a, <1>c, CallsWhom
      <4>3. QED
        BY <3>1, <3>3, <4>1, <4>2, <1>c DEF WorkerHolds
    <3>4. QED
      BY <3>2, <3>3
  <2>2. ASSUME NEW d \in Clients PROVE ClientHolds(d)'
    <3>1. cpc[d] \in {"register", "resume"} => on[d] \in Schedulers \ {s}
      BY <1>a, CallsWhom
    <3>2. QED
      BY <3>1, <1>c DEF HoldInv, ClientHolds
  <2>3. ASSUME NEW t \in Schedulers PROVE Held(t)'
    <3>1. CASE t = s
      BY <3>1, <1>c, NoOneAssumption DEF Held
    <3>2. CASE t # s
      <4>1. Held(t) /\ mutex'[t] = mutex[t]
        BY <3>2, <1>c DEF HoldInv
      <4>2. mutex[t] # w
        BY <3>2, <4>1, <1>s, <1>a DEF Held
      <4>3. QED
        BY <4>1, <4>2, <1>c DEF Held
    <3>3. QED
      BY <3>1, <3>2
  <2>4. QED
    BY <2>1, <2>2, <2>3 DEF HoldInv
<1>4. ClientInv'
  <2>1. ASSUME NEW d \in Clients PROVE Uses(d)'
    BY DEF ClientInv, Uses, ClosingAt
  <2>2. ASSUME NEW t \in Schedulers PROVE Ends(t)'
    BY <1>a, <1>c DEF ClientInv, Ends
  <2>3. QED
    BY <2>1, <2>2 DEF ClientInv
<1>5. NoStrandedJobs'
  <2> SUFFICES ASSUME NEW t \in Schedulers, mutex'[t] = NoOne, queue[t] > 0, stopCount[t] = 0,
                      running[t] = {}
               PROVE  ThreadCount[t] = 0 /\ (starved[t] \/ passedOver[t] \/ alive[t] = "closing")
    BY DEF NoStrandedJobs, Free
  <2>1. t # s
    BY <1>a
  <2>2. QED
    BY <2>1, <1>c DEF NoStrandedJobs, Free
<1>6. CallInv'
  BY DEF CallInv
<1>7. WaitInv'
  <2> SUFFICES ASSUME NEW d \in Clients, Waits(d), d \notin overtaken, ~emptyEvent'[on[d]],
                      ThreadCount[on[d]] > 0, Pays(on[d])' = 0
               PROVE  running[on[d]] # {}
    BY DEF WaitInv, Covered, Waits
  <2>1. on[d] \in Schedulers
    BY CallsWhom DEF Waits
  <2>2. CASE on[d] = s
    BY <2>2, <1>c
  <2>3. CASE on[d] # s
    <3>1. Pays(on[d]) = 0
      <4>1. \A v \in Workers : at'[v] # on[d]
        BY DEF Pays
      <4>2. \A v \in Workers : at[v] # on[d]
        BY <4>1, <2>3, <1>c, <1>s
      <4>3. QED
        BY <4>2 DEF Pays
    <3>2. QED
      BY <2>1, <2>3, <3>1, <1>c DEF WaitInv, Covered
  <2>4. QED
    BY <2>2, <2>3
<1>8. QED
  BY <1>1, <1>2, <1>3, <1>4, <1>5, <1>6, <1>7, <1>c, <1>d, <1>e

(* The first of the list is taken from it, and is about to be notified.    *)
LEMMA HeadStarving ==
  ASSUME TypeOK, StarvingInv, starving # << >>, NEW w \in Workers,
         starving' = Tail(starving), UNCHANGED starved,
         NEW s, s = Head(starving),
         \A v \in Workers : \A t \in Schedulers :
           Notifying(v, t)' <=> Notifying(v, t) \/ (v = w /\ t = s),
         \A c \in Clients : \A t \in Schedulers : Registering(c, t)' <=> Registering(c, t)
  PROVE  StarvingInv' /\ starving' \in Seq(Schedulers) /\ s \in Schedulers
<1>1. starving \in Seq(Schedulers) /\ IsInjective(starving)
  BY DEF TypeOK, StarvingInv
<1>2. /\ s \in Schedulers /\ starving' \in Seq(Schedulers)
      /\ Range(starving) = {s} \cup Range(starving')
      /\ s \notin Range(starving') /\ IsInjective(starving')
  BY <1>1, TailEffect
<1> HIDE DEF Notifying, Registering
<1>3. /\ starved[s] /\ \A v \in Workers : ~Notifying(v, s)
      /\ \A c \in Clients : ~Registering(c, s)
  BY <1>2 DEF StarvingInv
<1>4. \A t \in Schedulers : t \in Range(starving') => starved'[t]
  BY <1>2 DEF StarvingInv
<1>5. ASSUME NEW t \in Schedulers, NEW v \in Workers, Notifying(v, t)'
      PROVE  /\ starved'[t] /\ t \notin Range(starving')
             /\ \A x \in Workers \ {v} : ~Notifying(x, t)'
  <2>1. CASE t = s
    BY <2>1, <1>2, <1>3, <1>5
  <2>2. CASE t # s
    BY <2>2, <1>2, <1>5 DEF StarvingInv
  <2>3. QED
    BY <2>1, <2>2
<1>6. ASSUME NEW t \in Schedulers, NEW c \in Clients, Registering(c, t)'
      PROVE  /\ starved'[t] /\ t \notin Range(starving')
             /\ \A v \in Workers : ~Notifying(v, t)'
  <2>1. t # s
    BY <1>3, <1>6
  <2>2. QED
    BY <2>1, <1>2, <1>6 DEF StarvingInv
<1>7. ASSUME NEW t \in Schedulers, starved'[t]
      PROVE  \/ t \in Range(starving')
             \/ \E v \in Workers : Notifying(v, t)'
             \/ \E c \in Clients : Registering(c, t)'
  <2>1. CASE t = s
    BY <2>1
  <2>2. CASE t # s
    BY <2>2, <1>2, <1>7 DEF StarvingInv
  <2>3. QED
    BY <2>1, <2>2
<1>8. QED
  BY <1>2, <1>4, <1>5, <1>6, <1>7 DEF StarvingInv

(* What the pool counts, as numbers.                                       *)
LEMMA PoolNumbers ==
  ASSUME IInv
  PROVE  /\ IsFiniteSet(pool) /\ IsFiniteSet(Unborn) /\ IsFiniteSet({v \in Workers : wpc[v] \in Paying})
         /\ Cardinality(pool) \in Nat /\ Cardinality(Unborn) \in Nat
         /\ Cardinality({v \in Workers : wpc[v] \in Paying}) \in Nat
         /\ Cardinality(Each(yetToCreate)) \in Nat /\ Cardinality(Each(fromShared)) \in Nat
         /\ maxCount \in Nat /\ allocCount \in Nat /\ sharedYetToCreate \in Nat
<1> USE DEF IInv
<1>1. /\ yetToCreate \in [Schedulers -> Nat] /\ fromShared \in [Schedulers -> Nat]
      /\ pool \subseteq Workers /\ Unborn \subseteq Workers /\ IsFiniteSet(Workers)
  BY CountAssumption DEF TypeOK, Unborn
<1>2. /\ IsFiniteSet(pool) /\ IsFiniteSet(Unborn) /\ IsFiniteSet({v \in Workers : wpc[v] \in Paying})
  BY <1>1, FS_Subset
<1>3. Cardinality(Each(yetToCreate)) \in Nat
  BY <1>1, EachMembers
<1>4. Cardinality(Each(fromShared)) \in Nat
  BY <1>1, EachMembers
<1>5. maxCount \in Nat /\ allocCount \in Nat /\ sharedYetToCreate \in Nat
  BY CountAssumption DEF TypeOK
<1>6. QED
  BY <1>2, <1>3, <1>4, <1>5, FS_CardinalityType

(* The first of the list is about to be notified, or the debt is paid.     *)
LEMMA SelectStarvingStep ==
  ASSUME IInv, NEW w \in Workers, SelectStarving(w)
  PROVE  IInv'
<1> USE DEF IInv
<1>a. /\ wpc[w] = "select"
      /\ UNCHANGED <<queue, stopCount, overtaken, lifeVars, running, suspended,
                     yetToCreate, owner, sleeping, poolVars, starved, passedOver, clientVars>>
  BY DEF SelectStarving
<1>q. Bounded' /\ BudgetInv'
  BY <1>a, BudgetFrame
<1>1. CASE PaidBack(w) /\ UNCHANGED <<starving, target>>
  <2>1. /\ CountInv' /\ DebtInv' /\ HoldInv' /\ ClientInv' /\ NoStrandedJobs' /\ CallInv' /\ WaitInv'
        /\ fromShared' \in [Schedulers -> Nat]
        /\ Cardinality(Each(fromShared))' = Cardinality(Each(fromShared)) - 1
        /\ emptyEvent' \in [Schedulers -> BOOLEAN]
        /\ mutex' \in [Schedulers -> Workers \cup Clients \cup {NoOne}]
        /\ at' \in [Workers -> Schedulers \cup {NoOne}]
        /\ wpc' \in [Workers -> {"loop", "exec", "stopStarving", "release", "select", "notify",
                                 "available", "registerAgain", "endsItself"}]
        /\ wpc'[w] = "loop" /\ at'[w] = NoOne
        /\ \A v \in Workers : v # w => wpc'[v] = wpc[v] /\ at'[v] = at[v]
    BY <1>1, <1>a, PaidBackKeeps
  <2>2. TypeOK'
    BY <1>1, <1>a, <1>q, <2>1 DEF TypeOK
  <2>3. PlaceInv'
    <3>1. \A s \in Schedulers : suspended[s] \subseteq Workers
      BY DEF TypeOK
    <3>2. \A s \in Schedulers : \A v \in suspended[s] : wpc'[v] = "loop"
      BY <2>1, <3>1 DEF PlaceInv
    <3>3. \A v \in pool : wpc'[v] \in {"loop"} \cup Paying
      BY <2>1 DEF PlaceInv, TypeOK
    <3>4. ASSUME NEW v \in Workers
          PROVE  /\ wpc'[v] = "exec" => ~sleeping[v]
                 /\ wpc'[v] \in {"stopStarving", "release"} => sleeping[v] /\ owner[v] = at'[v]
                 /\ wpc'[v] \in Paying => v \in pool \/ ~sleeping[v]
                 /\ wpc'[v] # "endsItself"
      BY <2>1 DEF PlaceInv, Paying
    <3>5. QED
      BY <1>a, <3>2, <3>3, <3>4 DEF PlaceInv
  <2>4. PoolInv'
    <3> DEFINE P == {v \in Workers : wpc[v] \in Paying}
               f == Cardinality(Each(fromShared))
               n == Cardinality(P)
    <3>1. Unborn' = Unborn
      <4>1. w \notin Unborn
        BY <1>a DEF Unborn
      <4>2. w \in pool \/ ~sleeping[w]
        BY <1>a DEF PlaceInv, Paying
      <4>3. w \notin Unborn'
        BY <1>a, <4>2 DEF Unborn, PlaceInv
      <4>4. \A v \in Workers : v # w => (v \in Unborn' <=> v \in Unborn)
        BY <1>a, <2>1 DEF Unborn
      <4>5. Unborn \subseteq Workers /\ Unborn' \subseteq Workers
        BY DEF Unborn
      <4>6. QED
        BY <4>1, <4>3, <4>4, <4>5
    <3>2. P' = P \ {w} /\ w \in P
      BY <1>a, <2>1 DEF Paying
    <3>3. Cardinality(P') = n - 1
      <4>1. IsFiniteSet(P)
        BY PoolNumbers
      <4>2. QED
        BY <3>2, <4>1, FS_RemoveElement
    <3>4. allocCount + n = f
      BY DEF PoolInv
    <3>5. allocCount + (n - 1) = f - 1
      <4>1. n \in Nat /\ f \in Nat /\ allocCount \in Nat
        BY PoolNumbers
      <4> HIDE DEF n, f
      <4>2. QED
        BY <3>4, <4>1
    <3>6. Each(yetToCreate)' = Each(yetToCreate)
      BY <1>a DEF Each
    <3>7. QED
      BY <1>a, <2>1, <3>1, <3>3, <3>5, <3>6 DEF PoolInv
  <2>5. StarvingInv'
    <3>1. \A v \in Workers : \A t \in Schedulers : Notifying(v, t)' <=> Notifying(v, t)
      BY <1>1, <1>a, <2>1 DEF Notifying
    <3>2. \A d \in Clients : \A t \in Schedulers : Registering(d, t)' <=> Registering(d, t)
      BY <1>a DEF Registering
    <3>3. QED
      BY <1>1, <1>a, <3>1, <3>2, StarvingFrame
  <2>6. QED
    BY <1>q, <2>1, <2>2, <2>3, <2>4, <2>5
<1>2. CASE /\ starving # << >>
           /\ target' = [target EXCEPT ![w] = Head(starving)]
           /\ starving' = Tail(starving) /\ MoveTo(w, "notify")
           /\ UNCHANGED <<fromShared, emptyEvent, mutex, at>>
  <2> DEFINE s == Head(starving)
  <2>k. /\ PlaceInv' /\ PoolInv' /\ CountInv' /\ DebtInv'
        /\ wpc' \in [Workers -> {"loop", "exec", "stopStarving", "release", "select", "notify",
                                 "available", "registerAgain", "endsItself"}]
        /\ wpc'[w] = "notify" /\ \A v \in Workers : v # w => wpc'[v] = wpc[v]
    <3>1. "notify" \in Paying /\ wpc[w] \in Paying
      BY <1>a DEF Paying
    <3>2. QED
      BY <1>a, <1>2, <3>1, StillPaying
  <2>s. StarvingInv' /\ starving' \in Seq(Schedulers) /\ s \in Schedulers
    <3>0. s \in Schedulers
      BY <1>2, TailEffect DEF TypeOK
    <3>1. \A v \in Workers : \A t \in Schedulers : Notifying(v, t)' <=> Notifying(v, t) \/ (v = w /\ t = s)
      BY <1>2, <1>a, <2>k, <3>0 DEF Notifying, TypeOK
    <3>2. \A d \in Clients : \A t \in Schedulers : Registering(d, t)' <=> Registering(d, t)
      BY <1>a DEF Registering
    <3>3. UNCHANGED starved /\ starving' = Tail(starving) /\ starving # << >>
      BY <1>a, <1>2
    <3>4. QED
      BY <3>1, <3>2, <3>3, HeadStarving
  <2>t. /\ target' \in [Workers -> Schedulers \cup {NoOne}]
        /\ target'[w] = s /\ \A v \in Workers : v # w => target'[v] = target[v]
    BY <1>2, <2>s DEF TypeOK
  <2> HIDE DEF s
  <2>1. TypeOK'
    BY <1>2, <1>a, <1>q, <2>k, <2>s, <2>t DEF TypeOK
  <2>2. HoldInv'
    <3>1. ASSUME NEW v \in Workers PROVE WorkerHolds(v)'
      <4>1. WorkerHolds(v)
        BY DEF HoldInv
      <4>2. CASE v = w
        <5>1. s # NoOne
          BY <2>s, NoOneAssumption
        <5>2. QED
          BY <4>1, <4>2, <5>1, <1>2, <1>a, <2>k, <2>t DEF WorkerHolds, Owing, Paying
      <4>3. CASE v # w
        BY <4>1, <4>3, <1>2, <1>a, <2>k, <2>t DEF WorkerHolds
      <4>4. QED
        BY <4>2, <4>3
    <3>2. ASSUME NEW d \in Clients PROVE ClientHolds(d)'
      BY <1>2, <1>a DEF HoldInv, ClientHolds
    <3>3. ASSUME NEW t \in Schedulers PROVE Held(t)'
      <4>1. Held(t)
        BY DEF HoldInv
      <4>2. QED
        BY <4>1, <1>2, <1>a, <2>k, <2>t DEF Held
    <3>4. QED
      BY <3>1, <3>2, <3>3 DEF HoldInv
  <2>3. ClientInv'
    <3>1. ASSUME NEW d \in Clients PROVE Uses(d)'
      BY <1>a DEF ClientInv, Uses, ClosingAt
    <3>2. ASSUME NEW t \in Schedulers PROVE Ends(t)'
      BY <1>2, <1>a DEF ClientInv, Ends
    <3>3. QED
      BY <3>1, <3>2 DEF ClientInv
  <2>4. NoStrandedJobs'
    BY <1>2, <1>a DEF NoStrandedJobs, Free
  <2>5. CallInv'
    BY <1>a DEF CallInv
  <2>6. WaitInv'
    BY <1>2, <1>a DEF WaitInv, Covered, Waits, Pays
  <2>7. QED
    BY <1>q, <2>k, <2>s, <2>1, <2>2, <2>3, <2>4, <2>5, <2>6
<1>3. QED
  BY <1>1, <1>2 DEF SelectStarving

(* For every thread that is about to be released, and every one that is    *)
(* released and not yet counted off, a scheduler has borrowed one; so one  *)
(* is handed out as long as one is to be released.                         *)
LEMMA OneHandedOut ==
  ASSUME IInv, NEW w \in Workers, wpc[w] = "release"
  PROVE  allocCount > 0
<1> USE DEF IInv
<1> DEFINE P == {v \in Workers : wpc[v] \in Paying}
           Q == P \cup {w}
           E == Each(fromShared)
           g == [v \in Q |-> <<at[v], 1>>]
           f == Cardinality(E)
           n == Cardinality(P)
<1>1. IsFiniteSet(P) /\ n \in Nat /\ f \in Nat /\ allocCount \in Nat
  BY PoolNumbers
<1>2. w \notin P
  BY DEF Paying
<1>3. fromShared \in [Schedulers -> Nat]
  BY DEF TypeOK
<1>4. IsFiniteSet(E) /\ \A p : p \in E <=> \E s \in Schedulers : \E i \in 1..fromShared[s] : p = <<s, i>>
  BY <1>3, EachMembers
<1>5. ASSUME NEW v \in Q
      PROVE  at[v] \in Schedulers /\ g[v] \in E /\ \A x \in Q : x # v => at[x] # at[v]
  <2>1. v \in Workers /\ wpc[v] \in Owing
    BY DEF Owing
  <2>2. at[v] \in Schedulers /\ fromShared[at[v]] > 0 /\ \A x \in Workers : x # v => at[x] # at[v]
    BY <2>1, OwingFacts
  <2>3. 1 \in 1..fromShared[at[v]]
    BY <1>3, <2>2
  <2>4. <<at[v], 1>> \in E
    BY <1>4, <2>2, <2>3
  <2>5. \A x \in Q : x \in Workers
    OBVIOUS
  <2>6. QED
    BY <2>2, <2>4, <2>5
<1>6. g \in [Q -> E]
  BY <1>5
<1>7. \A v, x \in Q : g[v] = g[x] => v = x
  <2> SUFFICES ASSUME NEW v \in Q, NEW x \in Q, g[v] = g[x] PROVE v = x
    OBVIOUS
  <2>1. <<at[v], 1>> = <<at[x], 1>>
    OBVIOUS
  <2>2. at[v] = at[x]
    BY <2>1
  <2>3. QED
    BY <2>2, <1>5
<1>8. g \in Injection(Q, E)
  BY <1>6, <1>7 DEF Injection, IsInjective
<1>9. Cardinality(Q) <= f
  BY <1>4, <1>8, FS_Injection
<1>10. Cardinality(Q) = n + 1
  BY <1>1, <1>2, FS_AddElement
<1>11. allocCount + n = f
  BY DEF PoolInv
<1> HIDE DEF f, n
<1>12. n + 1 <= f
  BY <1>9, <1>10
<1>13. QED
  BY <1>1, <1>11, <1>12

(* A thread that is released is in the pool, which does not overflow.      *)
LEMMA ReleasedEffect ==
  ASSUME IInv, NEW w \in Workers, Release(w)
  PROVE  /\ pool' = pool \cup {w} /\ pool' \subseteq Workers
         /\ allocCount' = allocCount - 1 /\ allocCount' \in Nat
         /\ Cardinality(pool') = Cardinality(pool) + 1
         /\ w \notin pool /\ sleeping[w] /\ owner[w] = at[w]
         /\ owner' = [owner EXCEPT ![w] = NoOne]
         /\ \A t \in Schedulers : w \notin running[t] /\ w \notin suspended[t]
         /\ \/ PaidBack(w)
            \/ MoveTo(w, "select") /\ UNCHANGED <<fromShared, emptyEvent, mutex, at>>
<1> USE DEF IInv
<1>1. wpc[w] = "release" /\ allocCount' = allocCount - 1
  BY DEF Release
<1>2. allocCount' \in Nat
  <2>1. allocCount > 0 /\ allocCount \in Nat
    BY <1>1, OneHandedOut DEF TypeOK
  <2>2. QED
    BY <1>1, <2>1
<1>3. Cardinality(pool) + allocCount - 1 < maxCount
  <2> DEFINE p == Cardinality(pool)
  <2>1. p \in Nat /\ allocCount \in Nat /\ sharedYetToCreate \in Nat /\ maxCount \in Nat
    BY PoolNumbers
  <2>2. p + allocCount + sharedYetToCreate = maxCount
    BY DEF PoolInv
  <2> HIDE DEF p
  <2>3. p + allocCount - 1 < maxCount
    BY <2>1, <2>2
  <2>4. QED
    BY <2>3 DEF p
<1>4. pool' = pool \cup {w} /\ owner' = [owner EXCEPT ![w] = NoOne]
  BY <1>3 DEF Release
<1>5. w \notin pool
  BY <1>1 DEF PlaceInv, Paying
<1>6. Cardinality(pool') = Cardinality(pool) + 1
  <2>1. IsFiniteSet(pool)
    BY PoolNumbers
  <2>2. QED
    BY <1>4, <1>5, <2>1, FS_AddElement
<1>7. sleeping[w] /\ owner[w] = at[w] /\ \A t \in Schedulers : w \notin running[t] /\ w \notin suspended[t]
  BY <1>1 DEF PlaceInv
<1>8. \/ PaidBack(w)
      \/ MoveTo(w, "select") /\ UNCHANGED <<fromShared, emptyEvent, mutex, at>>
  BY <1>3 DEF Release
<1>9. pool' \subseteq Workers
  BY <1>4 DEF TypeOK
<1>10. QED
  BY <1>1, <1>2, <1>4, <1>5, <1>6, <1>7, <1>8, <1>9

(* Where the threads are then.                                             *)
LEMMA ReleasedPlace ==
  ASSUME IInv, NEW w \in Workers, Release(w),
         wpc'[w] \in {"loop", "select"},
         \A v \in Workers : v # w => wpc'[v] = wpc[v] /\ at'[v] = at[v]
  PROVE  PlaceInv' /\ owner' \in [Workers -> Schedulers \cup {NoOne}] /\ Unborn' = Unborn
<1> USE DEF IInv
<1>1. /\ pool' = pool \cup {w} /\ pool' \subseteq Workers
      /\ sleeping[w] /\ owner' = [owner EXCEPT ![w] = NoOne]
      /\ \A t \in Schedulers : w \notin running[t] /\ w \notin suspended[t]
  BY ReleasedEffect
<1>2. wpc[w] = "release" /\ UNCHANGED <<running, suspended, sleeping>>
  BY DEF Release
<1>3. /\ owner' \in [Workers -> Schedulers \cup {NoOne}] /\ owner'[w] = NoOne
      /\ \A v \in Workers : v # w => owner'[v] = owner[v]
  BY <1>1 DEF TypeOK
<1>4. \A s \in Schedulers : running[s] \subseteq Workers /\ suspended[s] \subseteq Workers
  BY DEF TypeOK
<1>5. \A s \in Schedulers : \A v \in running[s] : owner'[v] = s /\ ~sleeping[v]
  BY <1>1, <1>3, <1>4 DEF PlaceInv
<1>6. \A s \in Schedulers : \A v \in suspended[s] : owner'[v] = s /\ sleeping[v] /\ wpc'[v] = "loop"
  BY <1>1, <1>3, <1>4 DEF PlaceInv
<1>7. \A v \in pool' : owner'[v] = NoOne /\ sleeping[v] /\ wpc'[v] \in {"loop"} \cup Paying
  BY <1>1, <1>3 DEF PlaceInv, Paying
<1>8. ASSUME NEW v \in Workers
      PROVE  /\ ~sleeping[v] => owner'[v] \in Schedulers /\ v \in running[owner'[v]]
             /\ wpc'[v] = "exec" => ~sleeping[v]
             /\ wpc'[v] \in {"stopStarving", "release"} => sleeping[v] /\ owner'[v] = at'[v]
             /\ wpc'[v] \in Paying => v \in pool' \/ ~sleeping[v]
             /\ wpc'[v] # "endsItself"
  <2>1. CASE v = w
    BY <2>1, <1>1, <1>2
  <2>2. CASE v # w
    BY <2>2, <1>1, <1>3 DEF PlaceInv
  <2>3. QED
    BY <2>1, <2>2
<1>9. PlaceInv'
  BY <1>2, <1>5, <1>6, <1>7, <1>8 DEF PlaceInv
<1>10. Unborn' = Unborn
  <2>1. w \notin Unborn /\ w \notin Unborn'
    BY <1>1, <1>2 DEF Unborn
  <2>2. \A v \in Workers : v # w => (v \in Unborn' <=> v \in Unborn)
    BY <1>1, <1>2 DEF Unborn
  <2>3. Unborn \subseteq Workers /\ Unborn' \subseteq Workers
    BY DEF Unborn
  <2>4. QED
    BY <2>1, <2>2, <2>3
<1>11. QED
  BY <1>3, <1>9, <1>10

(* A thread that was borrowed is in the pool again, before the debt is     *)
(* taken off.                                                              *)
LEMMA ReleaseStep ==
  ASSUME IInv, NEW w \in Workers, Release(w)
  PROVE  IInv'
<1> USE DEF IInv
<1> DEFINE P == {v \in Workers : wpc[v] \in Paying}
           p == Cardinality(pool)
           f == Cardinality(Each(fromShared))
           n == Cardinality(P)
<1>a. /\ wpc[w] = "release"
      /\ UNCHANGED <<queue, stopCount, overtaken, lifeVars, running, suspended,
                     yetToCreate, sleeping, maxCount, sharedYetToCreate, hungerVars, target, clientVars>>
  BY DEF Release
<1>b. /\ pool' \subseteq Workers
      /\ allocCount' = allocCount - 1 /\ allocCount' \in Nat
      /\ Cardinality(pool') = p + 1
      /\ \/ PaidBack(w)
         \/ MoveTo(w, "select") /\ UNCHANGED <<fromShared, emptyEvent, mutex, at>>
  BY ReleasedEffect
<1>q. Bounded' /\ BudgetInv'
  BY <1>a, BudgetFrame
<1>n. /\ p \in Nat /\ f \in Nat /\ n \in Nat /\ allocCount \in Nat /\ sharedYetToCreate \in Nat
      /\ IsFiniteSet(P)
  BY PoolNumbers
<1>0. /\ p + allocCount + sharedYetToCreate = maxCount
      /\ allocCount + n = f
  BY DEF PoolInv
<1>c. Cardinality(pool') + allocCount' + sharedYetToCreate' = maxCount'
  <2> HIDE DEF p, n, f
  <2>1. (p + 1) + (allocCount - 1) + sharedYetToCreate = maxCount
    BY <1>n, <1>0
  <2>2. QED
    BY <2>1, <1>a, <1>b
<1>e. Each(yetToCreate)' = Each(yetToCreate)
  BY <1>a DEF Each
<1>s. ASSUME wpc'[w] \in {"loop", "select"}, \A v \in Workers : v # w => wpc'[v] = wpc[v]
      PROVE  StarvingInv'
  <2>1. \A v \in Workers : \A t \in Schedulers : Notifying(v, t)' <=> Notifying(v, t)
    BY <1>a, <1>s DEF Notifying
  <2>2. \A d \in Clients : \A t \in Schedulers : Registering(d, t)' <=> Registering(d, t)
    BY <1>a DEF Registering
  <2>3. QED
    BY <1>a, <2>1, <2>2, StarvingFrame
<1>1. CASE PaidBack(w)
  <2>1. /\ CountInv' /\ DebtInv' /\ HoldInv' /\ ClientInv' /\ NoStrandedJobs' /\ CallInv' /\ WaitInv'
        /\ fromShared' \in [Schedulers -> Nat]
        /\ Cardinality(Each(fromShared))' = f - 1
        /\ emptyEvent' \in [Schedulers -> BOOLEAN]
        /\ mutex' \in [Schedulers -> Workers \cup Clients \cup {NoOne}]
        /\ at' \in [Workers -> Schedulers \cup {NoOne}]
        /\ wpc' \in [Workers -> {"loop", "exec", "stopStarving", "release", "select", "notify",
                                 "available", "registerAgain", "endsItself"}]
        /\ wpc'[w] = "loop" /\ at'[w] = NoOne
        /\ \A v \in Workers : v # w => wpc'[v] = wpc[v] /\ at'[v] = at[v]
    BY <1>1, <1>a, PaidBackKeeps
  <2>2. PlaceInv' /\ owner' \in [Workers -> Schedulers \cup {NoOne}] /\ Unborn' = Unborn
    BY <2>1, ReleasedPlace
  <2>3. TypeOK'
    BY <1>a, <1>b, <1>q, <2>1, <2>2 DEF TypeOK
  <2>4. P' = P
    BY <1>a, <2>1 DEF Paying
  <2>5. allocCount' + Cardinality(P') = Cardinality(Each(fromShared))'
    <3> HIDE DEF f, n
    <3>1. (allocCount - 1) + n = f - 1
      BY <1>n, <1>0
    <3>2. QED
      BY <3>1, <2>1, <2>4, <1>b DEF n
  <2>6. PoolInv'
    BY <1>a, <1>c, <1>e, <2>2, <2>5 DEF PoolInv
  <2>7. QED
    BY <1>q, <1>s, <2>1, <2>2, <2>3, <2>6
<1>2. CASE MoveTo(w, "select") /\ UNCHANGED <<fromShared, emptyEvent, mutex, at>>
  <2>1. /\ wpc' \in [Workers -> {"loop", "exec", "stopStarving", "release", "select", "notify",
                                 "available", "registerAgain", "endsItself"}]
        /\ wpc'[w] = "select" /\ \A v \in Workers : v # w => wpc'[v] = wpc[v]
    BY <1>2 DEF MoveTo, TypeOK
  <2>2. PlaceInv' /\ owner' \in [Workers -> Schedulers \cup {NoOne}] /\ Unborn' = Unborn
    BY <1>2, <2>1, ReleasedPlace
  <2>3. TypeOK'
    BY <1>2, <1>a, <1>b, <1>q, <2>1, <2>2 DEF TypeOK
  <2>4. PoolInv'
    <3>1. P' = P \cup {w} /\ w \notin P
      BY <1>a, <2>1 DEF Paying
    <3>2. Cardinality(P') = n + 1
      BY <3>1, <1>n, FS_AddElement
    <3>3. Each(fromShared)' = Each(fromShared)
      BY <1>2 DEF Each
    <3>4. allocCount' + Cardinality(P') = f
      <4> HIDE DEF f, n
      <4>1. (allocCount - 1) + (n + 1) = f
        BY <1>n, <1>0
      <4>2. QED
        BY <4>1, <3>2, <1>b
    <3>5. QED
      BY <1>a, <1>c, <1>e, <2>2, <3>3, <3>4 DEF PoolInv
  <2>5. CountInv' /\ DebtInv'
    BY <1>2, <1>a, CountFrame DEF DebtInv
  <2>6. HoldInv'
    <3>1. ASSUME NEW v \in Workers PROVE WorkerHolds(v)'
      <4>1. WorkerHolds(v)
        BY DEF HoldInv
      <4>2. CASE v = w
        BY <4>1, <4>2, <1>2, <1>a, <2>1 DEF WorkerHolds, Owing, Paying
      <4>3. CASE v # w
        BY <4>1, <4>3, <1>2, <1>a, <2>1 DEF WorkerHolds
      <4>4. QED
        BY <4>2, <4>3
    <3>2. ASSUME NEW d \in Clients PROVE ClientHolds(d)'
      BY <1>2, <1>a DEF HoldInv, ClientHolds
    <3>3. ASSUME NEW t \in Schedulers PROVE Held(t)'
      <4>1. Held(t)
        BY DEF HoldInv
      <4>2. QED
        BY <4>1, <1>2, <1>a, <2>1 DEF Held
    <3>4. QED
      BY <3>1, <3>2, <3>3 DEF HoldInv
  <2>7. ClientInv'
    <3>1. ASSUME NEW d \in Clients PROVE Uses(d)'
      BY <1>a DEF ClientInv, Uses, ClosingAt
    <3>2. ASSUME NEW t \in Schedulers PROVE Ends(t)'
      BY <1>2, <1>a DEF ClientInv, Ends
    <3>3. QED
      BY <3>1, <3>2 DEF ClientInv
  <2>8. NoStrandedJobs' /\ CallInv' /\ WaitInv'
    BY <1>2, <1>a DEF NoStrandedJobs, Free, CallInv, WaitInv, Covered, Waits, Pays
  <2>9. QED
    BY <1>q, <1>s, <2>1, <2>2, <2>3, <2>4, <2>5, <2>6, <2>7, <2>8
<1>3. QED
  BY <1>b, <1>1, <1>2

-----------------------------------------------------------------------------
(* A thread runs idle.                                                     *)

(* It gives itself back, ends for a new one, or waits in the scheduler.    *)
Leaves(w, s) ==
  /\ InDebt(s) /\ mutex' = [mutex EXCEPT ![s] = w] /\ at' = [at EXCEPT ![w] = s]
  /\ MoveTo(w, IF starved[s] THEN "stopStarving" ELSE "release")
  /\ UNCHANGED <<suspended, yetToCreate, emptyEvent>>

Stays(w, s) ==
  /\ ~InDebt(s)
  /\ \/ yetToCreate' = [yetToCreate EXCEPT ![s] = @ + 1] /\ UNCHANGED suspended
     \/ suspended' = [suspended EXCEPT ![s] = @ \cup {w}] /\ UNCHANGED yetToCreate
  /\ emptyEvent' = [emptyEvent EXCEPT ![s] = @ \/ running[s] \ {w} = {}]
  /\ UNCHANGED <<mutex, at, wpc>>

(* The thread was at a scheduler whose mutex is free; it sleeps, and it    *)
(* alone has left "running".                                               *)
LEMMA IdleEffect ==
  ASSUME IInv, NEW w \in Workers, RunsIdle(w)
  PROVE  \E s \in Schedulers :
           /\ owner[w] = s /\ w \in running[s] /\ wpc[w] = "loop" /\ ~sleeping[w]
           /\ mutex[s] = NoOne /\ alive[s] # "gone"
           /\ queue[s] = 0 \/ stopCount[s] # 0
           /\ Pays(s) = 0 /\ at[w] = NoOne /\ target[w] = NoOne /\ w \notin pool
           /\ \A v \in Workers : at[v] # s
           /\ \A v \in Workers : wpc[v] \in {"available", "registerAgain"} => target[v] # s
           /\ \A c \in Clients : cpc[c] \in {"register", "resume"} => on[c] # s
           /\ \A t \in Schedulers : w \notin suspended[t] /\ (t # s => w \notin running[t])
           /\ running' = [running EXCEPT ![s] = @ \ {w}]
           /\ sleeping' = [sleeping EXCEPT ![w] = TRUE]
           /\ Leaves(w, s) \/ Stays(w, s)
           /\ UNCHANGED <<queue, stopCount, overtaken, lifeVars, fromShared, owner,
                          poolVars, hungerVars, target, clientVars>>
<1> USE DEF IInv
<1>1. wpc[w] = "loop" /\ ~sleeping[w] /\ w \in Workers
  BY DEF RunsIdle
<1>2. PICK s \in Schedulers : owner[w] = s /\ w \in running[s]
  BY <1>1 DEF PlaceInv
<1>3. mutex[s] = NoOne /\ (queue[s] = 0 \/ stopCount[s] # 0)
  BY <1>2 DEF RunsIdle
<1>4. alive[s] # "gone"
  BY <1>2 DEF ClientInv, Ends
<1>5. Pays(s) = 0 /\ \A v \in Workers : at[v] # s
  BY <1>3, NoOneAssumption, PaysNot
<1>6. at[w] = NoOne /\ target[w] = NoOne
  BY <1>1 DEF HoldInv, WorkerHolds, Owing, Paying
<1>7. w \notin pool /\ \A t \in Schedulers : w \notin suspended[t] /\ (t # s => w \notin running[t])
  BY <1>1, <1>2 DEF PlaceInv
<1>8. \A v \in Workers : wpc[v] \in {"available", "registerAgain"} => target[v] # s
  BY <1>3, NoOneAssumption DEF HoldInv, WorkerHolds
<1>9. \A c \in Clients : cpc[c] \in {"register", "resume"} => on[c] # s
  BY <1>3, NoOneAssumption DEF HoldInv, ClientHolds
<1>10. /\ running' = [running EXCEPT ![s] = @ \ {w}]
       /\ sleeping' = [sleeping EXCEPT ![w] = TRUE]
       /\ UNCHANGED <<queue, stopCount, overtaken, lifeVars, fromShared, owner,
                      poolVars, hungerVars, target, clientVars>>
  BY <1>2 DEF RunsIdle
<1>11. Leaves(w, s) \/ Stays(w, s)
  BY <1>2 DEF RunsIdle, Leaves, Stays, SignalEmpty
<1>12. QED
  BY <1>1, <1>2, <1>3, <1>4, <1>5, <1>6, <1>7, <1>8, <1>9, <1>10, <1>11

(* The thread that leaves "running" pays a debt, ends or is kept; it       *)
(* signals if it was the last.                                             *)
LEMMA RunsIdleStep ==
  ASSUME IInv, NEW w \in Workers, RunsIdle(w)
  PROVE  IInv'
<1> USE DEF IInv
<1>a. PICK s \in Schedulers :
        /\ owner[w] = s /\ w \in running[s] /\ wpc[w] = "loop" /\ ~sleeping[w]
        /\ mutex[s] = NoOne /\ alive[s] # "gone"
        /\ queue[s] = 0 \/ stopCount[s] # 0
        /\ Pays(s) = 0 /\ at[w] = NoOne /\ target[w] = NoOne /\ w \notin pool
        /\ \A v \in Workers : at[v] # s
        /\ \A v \in Workers : wpc[v] \in {"available", "registerAgain"} => target[v] # s
        /\ \A c \in Clients : cpc[c] \in {"register", "resume"} => on[c] # s
        /\ \A t \in Schedulers : w \notin suspended[t] /\ (t # s => w \notin running[t])
        /\ running' = [running EXCEPT ![s] = @ \ {w}]
        /\ sleeping' = [sleeping EXCEPT ![w] = TRUE]
        /\ Leaves(w, s) \/ Stays(w, s)
        /\ UNCHANGED <<queue, stopCount, overtaken, lifeVars, fromShared, owner,
                       poolVars, hungerVars, target, clientVars>>
  BY IdleEffect
<1>q. Bounded' /\ BudgetInv'
  BY <1>a, BudgetFrame
<1>r. /\ running' \in [Schedulers -> SUBSET Workers] /\ sleeping' \in [Workers -> BOOLEAN]
      /\ running'[s] = running[s] \ {w} /\ \A t \in Schedulers \ {s} : running'[t] = running[t]
      /\ sleeping'[w] /\ \A v \in Workers : v # w => sleeping'[v] = sleeping[v]
  BY <1>a DEF TypeOK
<1>t. /\ mutex' \in [Schedulers -> Workers \cup Clients \cup {NoOne}]
      /\ at' \in [Workers -> Schedulers \cup {NoOne}]
      /\ wpc' \in [Workers -> {"loop", "exec", "stopStarving", "release", "select", "notify",
                               "available", "registerAgain", "endsItself"}]
      /\ suspended' \in [Schedulers -> SUBSET Workers] /\ yetToCreate' \in [Schedulers -> Nat]
      /\ emptyEvent' \in [Schedulers -> BOOLEAN]
      /\ \A v \in Workers : v # w => wpc'[v] = wpc[v] /\ at'[v] = at[v]
      /\ \A t \in Schedulers \ {s} :
           /\ mutex'[t] = mutex[t] /\ suspended'[t] = suspended[t]
           /\ yetToCreate'[t] = yetToCreate[t] /\ emptyEvent'[t] = emptyEvent[t]
  <2>1. CASE Leaves(w, s)
    BY <2>1, <1>a DEF Leaves, MoveTo, TypeOK
  <2>2. CASE Stays(w, s)
    <3>1. UNCHANGED <<mutex, at, wpc>>
      BY <2>2 DEF Stays
    <3>2. /\ suspended' \in [Schedulers -> SUBSET Workers] /\ yetToCreate' \in [Schedulers -> Nat]
          /\ \A t \in Schedulers \ {s} :
               suspended'[t] = suspended[t] /\ yetToCreate'[t] = yetToCreate[t]
      <4>1. CASE yetToCreate' = [yetToCreate EXCEPT ![s] = @ + 1] /\ UNCHANGED suspended
        BY <4>1 DEF TypeOK
      <4>2. CASE suspended' = [suspended EXCEPT ![s] = @ \cup {w}] /\ UNCHANGED yetToCreate
        BY <4>2 DEF TypeOK
      <4>3. QED
        BY <2>2, <4>1, <4>2 DEF Stays
    <3>3. /\ emptyEvent' \in [Schedulers -> BOOLEAN]
          /\ \A t \in Schedulers \ {s} : emptyEvent'[t] = emptyEvent[t]
      BY <2>2 DEF Stays, TypeOK
    <3>4. QED
      BY <3>1, <3>2, <3>3 DEF TypeOK
  <2>3. QED
    BY <2>1, <2>2, <1>a
<1>d. \/ /\ Leaves(w, s) /\ fromShared[s] > 0 /\ mutex'[s] = w /\ at'[w] = s
         /\ wpc'[w] \in {"stopStarving", "release"} /\ (wpc'[w] = "release" => ~starved[s])
         /\ suspended' = suspended /\ yetToCreate' = yetToCreate /\ emptyEvent' = emptyEvent
      \/ /\ Stays(w, s) /\ fromShared[s] = 0 /\ mutex' = mutex /\ at' = at /\ wpc' = wpc
         /\ \/ /\ suspended' = suspended /\ yetToCreate'[s] = yetToCreate[s] + 1
               /\ yetToCreate' = [yetToCreate EXCEPT ![s] = @ + 1]
            \/ suspended'[s] = suspended[s] \cup {w} /\ yetToCreate' = yetToCreate
         /\ running[s] \ {w} = {} => emptyEvent'[s]
  <2>1. CASE Leaves(w, s)
    BY <2>1, <1>a DEF Leaves, InDebt, MoveTo, TypeOK
  <2>2. CASE Stays(w, s)
    <3>1. fromShared[s] = 0
      BY <2>2 DEF Stays, InDebt, TypeOK
    <3>2. emptyEvent'[s] = (emptyEvent[s] \/ running[s] \ {w} = {})
      BY <2>2 DEF Stays, TypeOK
    <3>3. \/ /\ suspended' = suspended /\ yetToCreate'[s] = yetToCreate[s] + 1
             /\ yetToCreate' = [yetToCreate EXCEPT ![s] = @ + 1]
          \/ suspended'[s] = suspended[s] \cup {w} /\ yetToCreate' = yetToCreate
      BY <2>2 DEF Stays, TypeOK
    <3>4. QED
      BY <2>2, <3>1, <3>2, <3>3 DEF Stays
  <2>3. QED
    BY <2>1, <2>2, <1>a
<1>1. TypeOK'
  BY <1>a, <1>q, <1>r, <1>t DEF TypeOK
<1>2. PlaceInv'
  <2>0. \A t \in Schedulers : running[t] \subseteq Workers /\ suspended[t] \subseteq Workers
    BY DEF TypeOK
  <2>1. ASSUME NEW t \in Schedulers, NEW v \in running'[t] PROVE owner[v] = t /\ ~sleeping'[v]
    <3>1. v \in running[t] /\ v # w /\ v \in Workers
      BY <2>0, <2>1, <1>a, <1>r
    <3>2. QED
      BY <3>1, <1>r DEF PlaceInv
  <2>2. ASSUME NEW t \in Schedulers, NEW v \in suspended'[t]
        PROVE  owner[v] = t /\ sleeping'[v] /\ wpc'[v] = "loop"
    <3>1. CASE v = w
      <4>1. t = s /\ wpc' = wpc
        BY <2>2, <3>1, <1>a, <1>d, <1>t
      <4>2. QED
        BY <3>1, <4>1, <1>a, <1>r
    <3>2. CASE v # w
      <4>1. v \in suspended[t]
        BY <2>2, <3>2, <1>d, <1>t
      <4>2. v \in Workers /\ owner[v] = t /\ sleeping[v] /\ wpc[v] = "loop"
        BY <2>0, <4>1 DEF PlaceInv
      <4>3. QED
        BY <3>2, <4>2, <1>r, <1>t
    <3>3. QED
      BY <3>1, <3>2
  <2>3. \A v \in pool : v \in Workers /\ v # w
    BY <1>a DEF TypeOK
  <2>4. \A v \in pool : owner[v] = NoOne /\ sleeping'[v] /\ wpc'[v] \in {"loop"} \cup Paying
    BY <2>3, <1>r, <1>t DEF PlaceInv
  <2>5. ASSUME NEW v \in Workers
        PROVE  /\ ~sleeping'[v] => owner[v] \in Schedulers /\ v \in running'[owner[v]]
               /\ wpc'[v] = "exec" => ~sleeping'[v]
               /\ wpc'[v] \in {"stopStarving", "release"} => sleeping'[v] /\ owner[v] = at'[v]
               /\ wpc'[v] \in Paying => v \in pool \/ ~sleeping'[v]
               /\ wpc'[v] # "endsItself"
    <3>1. CASE v = w
      <4>1. (wpc'[w] \in {"stopStarving", "release"} /\ at'[w] = s) \/ wpc'[w] = "loop"
        BY <1>a, <1>d
      <4>2. QED
        BY <3>1, <4>1, <1>a, <1>r DEF Paying
    <3>2. CASE v # w
      <4>1. ~sleeping[v] => owner[v] \in Schedulers /\ v \in running[owner[v]]
        BY DEF PlaceInv
      <4>2. ~sleeping[v] => v \in running'[owner[v]]
        BY <3>2, <4>1, <1>r
      <4>3. QED
        BY <3>2, <4>1, <4>2, <1>r, <1>t DEF PlaceInv
    <3>3. QED
      BY <3>1, <3>2
  <2>6. QED
    BY <1>a, <2>1, <2>2, <2>4, <2>5 DEF PlaceInv
<1>3. HoldInv'
  <2>1. ASSUME NEW v \in Workers PROVE WorkerHolds(v)'
    <3>1. WorkerHolds(v) /\ at[v] # s /\ (at[v] # NoOne => at[v] \in Schedulers)
      BY <1>a DEF HoldInv, TypeOK
    <3>2. CASE v = w
      <4>1. CASE Leaves(w, s) /\ fromShared[s] > 0 /\ mutex'[s] = w /\ at'[w] = s
                 /\ wpc'[w] \in {"stopStarving", "release"} /\ (wpc'[w] = "release" => ~starved[s])
        <5>1. s # NoOne
          BY NoOneAssumption
        <5>2. QED
          BY <3>2, <4>1, <5>1, <1>a DEF WorkerHolds, Owing, Paying
      <4>2. CASE mutex' = mutex /\ at' = at /\ wpc' = wpc
        BY <3>1, <3>2, <4>2, <1>a DEF WorkerHolds
      <4>3. QED
        BY <4>1, <4>2, <1>d
    <3>3. CASE v # w
      <4>1. at[v] # NoOne => mutex'[at[v]] = mutex[at[v]]
        BY <3>1, <1>t
      <4>2. wpc[v] \in {"available", "registerAgain"} => mutex'[target[v]] = mutex[target[v]]
        BY <1>a, <1>t, CallsWhom
      <4>3. QED
        BY <3>1, <3>3, <4>1, <4>2, <1>a, <1>t DEF WorkerHolds
    <3>4. QED
      BY <3>2, <3>3
  <2>2. ASSUME NEW d \in Clients PROVE ClientHolds(d)'
    <3>1. cpc[d] \in {"register", "resume"} => on[d] \in Schedulers \ {s}
      BY <1>a, CallsWhom
    <3>2. QED
      BY <3>1, <1>a, <1>t DEF HoldInv, ClientHolds
  <2>3. ASSUME NEW t \in Schedulers PROVE Held(t)'
    <3>1. CASE t = s
      <4>1. mutex'[s] = NoOne \/ (mutex'[s] = w /\ at'[w] = s)
        BY <1>a, <1>d
      <4>2. QED
        BY <3>1, <4>1, NoOneAssumption, WhoAssumption DEF Held
    <3>2. CASE t # s
      <4>1. Held(t) /\ mutex'[t] = mutex[t]
        BY <3>2, <1>t DEF HoldInv
      <4>2. mutex[t] # w
        BY <4>1, <1>a, NoOneAssumption DEF Held
      <4>3. QED
        BY <4>1, <4>2, <1>a, <1>t DEF Held
    <3>3. QED
      BY <3>1, <3>2
  <2>4. QED
    BY <2>1, <2>2, <2>3 DEF HoldInv
<1>4. ClientInv'
  <2>1. ASSUME NEW d \in Clients PROVE Uses(d)'
    BY <1>a DEF ClientInv, Uses, ClosingAt
  <2>2. ASSUME NEW t \in Schedulers PROVE Ends(t)'
    BY <1>a, <1>r, <1>t DEF ClientInv, Ends
  <2>3. QED
    BY <2>1, <2>2 DEF ClientInv
<1>p. \A t \in Schedulers : t # s => Pays(t)' = Pays(t)
  <2>1. ASSUME NEW t \in Schedulers, t # s PROVE \A v \in Workers : at'[v] = t <=> at[v] = t
    BY <2>1, <1>a, <1>d, <1>t, NoOneAssumption
  <2>2. QED
    BY <2>1 DEF Pays
<1>c. CountInv'
  <2> SUFFICES ASSUME NEW t \in Schedulers PROVE Counted(t)'
    BY DEF CountInv
  <2>1. Counted(t)
    BY DEF CountInv
  <2>2. CASE t = s
    <3> DEFINE r == Cardinality(running[s])
               u == Cardinality(suspended[s])
               y == yetToCreate[s]
               f == fromShared[s]
               c == ThreadCount[s]
    <3>f. IsFiniteSet(running[s]) /\ IsFiniteSet(suspended[s])
      BY CountAssumption, FS_Subset DEF TypeOK
    <3>n. /\ r \in Nat /\ u \in Nat /\ y \in Nat /\ f \in Nat /\ c \in Nat
      BY <3>f, FS_CardinalityType, CountAssumption DEF TypeOK
    <3>0. r + u + y + 0 = c + f
      BY <2>1, <2>2, <1>a DEF Counted, runningCount
    <3>1. Cardinality(running'[s]) = r - 1
      BY <3>f, <1>a, <1>r, FS_RemoveElement
    <3>2. CASE Leaves(w, s) /\ at'[w] = s /\ suspended' = suspended /\ yetToCreate' = yetToCreate
      <4>1. Pays(s)' = 1
        BY <3>2 DEF Pays
      <4>2. (r - 1) + u + y + 1 = c + f
        <5> HIDE DEF r, u, y, f, c
        <5>1. QED
          BY <3>n, <3>0
      <4>3. QED
        BY <2>2, <3>1, <3>2, <4>1, <4>2, <1>a DEF Counted, runningCount
    <3>3. CASE at' = at /\ suspended' = suspended /\ yetToCreate'[s] = yetToCreate[s] + 1
      <4>1. Pays(s)' = 0
        BY <3>3, <1>a DEF Pays
      <4>2. (r - 1) + u + (y + 1) + 0 = c + f
        <5> HIDE DEF r, u, y, f, c
        <5>1. QED
          BY <3>n, <3>0
      <4>3. QED
        BY <2>2, <3>1, <3>3, <4>1, <4>2, <1>a DEF Counted, runningCount
    <3>4. CASE at' = at /\ suspended'[s] = suspended[s] \cup {w} /\ yetToCreate' = yetToCreate
      <4>1. Pays(s)' = 0
        BY <3>4, <1>a DEF Pays
      <4>2. Cardinality(suspended'[s]) = u + 1
        BY <3>4, <3>f, <1>a, FS_AddElement
      <4>3. (r - 1) + (u + 1) + y + 0 = c + f
        <5> HIDE DEF r, u, y, f, c
        <5>1. QED
          BY <3>n, <3>0
      <4>4. QED
        BY <2>2, <3>1, <3>4, <4>1, <4>2, <4>3, <1>a DEF Counted, runningCount
    <3>5. QED
      BY <3>2, <3>3, <3>4, <1>d
  <2>3. CASE t # s
    <3>1. /\ Pays(t)' = Pays(t) /\ running'[t] = running[t] /\ suspended'[t] = suspended[t]
          /\ yetToCreate'[t] = yetToCreate[t]
      BY <2>3, <1>p, <1>r, <1>t
    <3>2. QED
      BY <2>1, <3>1, <1>a DEF Counted, runningCount
  <2>4. QED
    BY <2>2, <2>3
<1>e. DebtInv'
  <2> SUFFICES ASSUME NEW t \in Schedulers, fromShared[t] > 0
               PROVE  suspended'[t] = {} /\ yetToCreate'[t] = 0
    BY <1>a DEF DebtInv
  <2>1. suspended[t] = {} /\ yetToCreate[t] = 0
    BY DEF DebtInv
  <2>2. CASE t = s
    BY <2>1, <2>2, <1>d
  <2>3. CASE t # s
    BY <2>1, <2>3, <1>t
  <2>4. QED
    BY <2>2, <2>3
<1>o. PoolInv'
  <2> DEFINE P == {v \in Workers : wpc[v] \in Paying}
             u == Cardinality(Unborn)
             y == Cardinality(Each(yetToCreate))
  <2>1. P' = P
    <3>1. wpc'[w] \notin Paying /\ wpc[w] \notin Paying
      BY <1>a, <1>d DEF Paying
    <3>2. QED
      BY <3>1, <1>t
  <2>2. Each(fromShared)' = Each(fromShared)
    BY <1>a DEF Each
  <2>n. u \in Nat /\ y \in Nat /\ sharedYetToCreate \in Nat /\ IsFiniteSet(Unborn)
    BY PoolNumbers
  <2>0. u >= sharedYetToCreate + y
    BY DEF PoolInv
  <2>3. \A v \in Workers : v # w => (v \in Unborn' <=> v \in Unborn)
    <3>1. ASSUME NEW v \in Workers, v # w, NEW t \in Schedulers
          PROVE  v \in running'[t] \cup suspended'[t] <=> v \in running[t] \cup suspended[t]
      <4>1. CASE t = s
        BY <3>1, <4>1, <1>d, <1>r
      <4>2. CASE t # s
        BY <4>2, <1>r, <1>t
      <4>3. QED
        BY <4>1, <4>2
    <3>2. QED
      BY <3>1, <1>a, <1>t DEF Unborn
  <2>4. w \notin Unborn
    BY <1>a DEF Unborn
  <2>5. Unborn \subseteq Workers /\ Unborn' \subseteq Workers
    BY DEF Unborn
  <2>6. Cardinality(Unborn') >= sharedYetToCreate + Cardinality(Each(yetToCreate))'
    <3>1. CASE yetToCreate' = yetToCreate
      <4>1. Each(yetToCreate)' = Each(yetToCreate)
        BY <3>1 DEF Each
      <4>2. Unborn \subseteq Unborn'
        BY <2>3, <2>4, <2>5
      <4>3. IsFiniteSet(Unborn')
        BY <2>5, CountAssumption, FS_Subset
      <4>4. u <= Cardinality(Unborn') /\ Cardinality(Unborn') \in Nat
        BY <4>2, <4>3, FS_Subset, FS_CardinalityType
      <4>5. Cardinality(Unborn') >= sharedYetToCreate + y
        <5> HIDE DEF u, y
        <5>1. QED
          BY <2>n, <2>0, <4>4
      <4>6. QED
        BY <4>1, <4>5
    <3>2. CASE /\ wpc' = wpc /\ suspended' = suspended
               /\ yetToCreate' = [yetToCreate EXCEPT ![s] = @ + 1]
      <4>1. Each(yetToCreate)' = Each([yetToCreate EXCEPT ![s] = @ + 1])
        BY <3>2 DEF Each
      <4>2. yetToCreate \in [Schedulers -> Nat]
        BY DEF TypeOK
      <4>3. Cardinality(Each(yetToCreate))' = y + 1
        BY <4>1, <4>2, EachPlus
      <4>4. w \in Unborn'
        <5>1. \A t \in Schedulers : w \notin running'[t] \cup suspended'[t]
          BY <3>2, <1>a, <1>r
        <5>2. QED
          BY <5>1, <3>2, <1>a DEF Unborn
      <4>5. Unborn' = Unborn \cup {w}
        BY <4>4, <2>3, <2>5
      <4>6. Cardinality(Unborn') = u + 1
        BY <4>5, <2>4, <2>n, FS_AddElement
      <4>7. Cardinality(Unborn') >= sharedYetToCreate + Cardinality(Each(yetToCreate))'
        <5> HIDE DEF u, y
        <5>1. u + 1 >= sharedYetToCreate + (y + 1)
          BY <2>n, <2>0
        <5>2. QED
          BY <5>1, <4>3, <4>6
      <4>8. QED
        BY <4>7
    <3>3. QED
      BY <3>1, <3>2, <1>d
  <2>7. QED
    BY <1>a, <2>1, <2>2, <2>6 DEF PoolInv
<1>6. StarvingInv'
  <2>1. \A v \in Workers : \A t \in Schedulers : Notifying(v, t)' <=> Notifying(v, t)
    <3>1. wpc'[w] \notin {"notify", "registerAgain"} /\ wpc[w] \notin {"notify", "registerAgain"}
      BY <1>a, <1>d
    <3>2. QED
      BY <3>1, <1>a, <1>t DEF Notifying
  <2>2. \A d \in Clients : \A t \in Schedulers : Registering(d, t)' <=> Registering(d, t)
    BY <1>a DEF Registering
  <2>3. QED
    BY <1>a, <2>1, <2>2, StarvingFrame
<1>7. NoStrandedJobs'
  <2> SUFFICES ASSUME NEW t \in Schedulers, mutex'[t] = NoOne, queue[t] > 0, stopCount[t] = 0,
                      running'[t] = {}
               PROVE  ThreadCount[t] = 0 /\ (starved[t] \/ passedOver[t] \/ alive[t] = "closing")
    BY <1>a DEF NoStrandedJobs, Free
  <2>1. t # s
    BY <1>a
  <2>2. QED
    BY <2>1, <1>r, <1>t DEF NoStrandedJobs, Free
<1>8. CallInv'
  <2>1. \A d \in Clients : cpc[d] = "register" => running'[on[d]] = running[on[d]]
    BY <1>a, <1>r, CallsWhom
  <2>2. QED
    BY <2>1, <1>a DEF CallInv
<1>9. WaitInv'
  <2> SUFFICES ASSUME NEW d \in Clients, Waits(d), d \notin overtaken, ~emptyEvent'[on[d]],
                      ThreadCount[on[d]] > 0, Pays(on[d])' = 0
               PROVE  running'[on[d]] # {}
    BY <1>a DEF WaitInv, Covered, Waits
  <2>1. on[d] \in Schedulers
    BY CallsWhom DEF Waits
  <2>2. CASE on[d] = s
    <3>1. \A v \in Workers : at'[v] # on'[d]
      BY DEF Pays
    <3>2. at'[w] # s
      BY <2>2, <3>1, <1>a
    <3>3. QED
      BY <2>2, <3>2, <1>d, <1>r
  <2>3. CASE on[d] # s
    <3>1. \A v \in Workers : at'[v] # on[d]
      BY <1>a DEF Pays
    <3>2. \A v \in Workers : at[v] # on[d]
      BY <3>1, <2>1, <2>3, <1>a, <1>t, NoOneAssumption
    <3>3. Pays(on[d]) = 0
      BY <3>2 DEF Pays
    <3>4. emptyEvent'[on[d]] = emptyEvent[on[d]] /\ running'[on[d]] = running[on[d]]
      BY <2>1, <2>3, <1>r, <1>t
    <3>5. QED
      BY <3>3, <3>4 DEF WaitInv, Covered
  <2>4. QED
    BY <2>2, <2>3
<1>10. QED
  BY <1>1, <1>2, <1>q, <1>3, <1>4, <1>c, <1>e, <1>o, <1>6, <1>7, <1>8, <1>9

-----------------------------------------------------------------------------
(* All together.                                                           *)

(* Nothing has begun.                                                      *)
LEMMA InitHolds ==
  ASSUME Init
  PROVE  IInv
<1> USE DEF Init
<1>0. /\ ThreadCount \in [Schedulers -> Nat] /\ MaxFromShared \in [Schedulers -> Nat]
      /\ maxCount \in Nat \ {0} /\ maxCount \in HWThreads
      /\ Cardinality(Workers) >= maxCount + Cardinality(Each(ThreadCount))
      /\ IsFiniteSet(Workers) /\ IsFiniteSet(Schedulers)
  BY CountAssumption
<1>1. TypeOK
  <2>1. Bounded
    BY CountAssumption DEF Bounded
  <2>2. starving \in Seq(Schedulers)
    OBVIOUS
  <2>3. aggressiveThreading \in [Schedulers -> BOOLEAN]
    OBVIOUS
  <2>4. QED
    BY <1>0, <2>1, <2>2, <2>3 DEF TypeOK
<1>2. PlaceInv
  BY DEF PlaceInv, Paying
<1>3. HoldInv
  <2>1. \A w \in Workers : WorkerHolds(w)
    BY DEF WorkerHolds, Owing, Paying
  <2>2. \A c \in Clients : ClientHolds(c)
    BY DEF ClientHolds
  <2>3. \A s \in Schedulers : Held(s)
    BY NoOneAssumption DEF Held
  <2>4. QED
    BY <2>1, <2>2, <2>3 DEF HoldInv
<1>4. ClientInv
  BY DEF ClientInv, Uses, Ends, ClosingAt
<1>5. PoolInv
  <2>1. Unborn = Workers
    <3>1. \A s \in Schedulers : running[s] \cup suspended[s] = {}
      OBVIOUS
    <3>2. \A w \in Workers : w \in Unborn
      BY <3>1 DEF Unborn
    <3>3. Unborn \subseteq Workers
      BY DEF Unborn
    <3>4. QED
      BY <3>2, <3>3
  <2>2. {w \in Workers : wpc[w] \in Paying} = {}
    BY DEF Paying
  <2>3. Each(fromShared) = {}
    <3>1. fromShared \in [Schedulers -> Nat] /\ \A s \in Schedulers : fromShared[s] = 0
      OBVIOUS
    <3>2. \A p : p \in Each(fromShared) <=>
            \E s \in Schedulers : \E i \in 1..fromShared[s] : p = <<s, i>>
      BY <3>1, EachMembers
    <3>3. \A s \in Schedulers : \A i \in 1..fromShared[s] : FALSE
      BY <3>1
    <3>4. QED
      BY <3>2, <3>3
  <2>4. Cardinality({}) = 0
    BY FS_EmptySet
  <2>5. Cardinality(pool) + allocCount + sharedYetToCreate = maxCount
    BY <1>0, <2>4
  <2>6. Cardinality(Unborn) >= sharedYetToCreate + Cardinality(Each(yetToCreate))
    BY <1>0, <2>1
  <2>7. allocCount + Cardinality({w \in Workers : wpc[w] \in Paying})
          = Cardinality(Each(fromShared))
    <3>1. allocCount = 0
      OBVIOUS
    <3>2. Cardinality({w \in Workers : wpc[w] \in Paying}) = 0
      BY <2>2, <2>4
    <3>3. Cardinality(Each(fromShared)) = 0
      BY <2>3, <2>4
    <3>4. QED
      BY <3>1, <3>2, <3>3
  <2>8. QED
    BY <2>5, <2>6, <2>7 DEF PoolInv
<1>6. CountInv
  <2> SUFFICES ASSUME NEW s \in Schedulers PROVE Counted(s)
    BY DEF CountInv
  <2>1. Pays(s) = 0
    BY NoOneAssumption DEF Pays
  <2>2. runningCount(s) = 0 /\ Cardinality(suspended[s]) = 0
    BY FS_EmptySet DEF runningCount
  <2>3. yetToCreate[s] = ThreadCount[s] /\ fromShared[s] = 0 /\ ThreadCount[s] \in Nat
    BY <1>0
  <2>4. QED
    BY <2>1, <2>2, <2>3 DEF Counted
<1>7. DebtInv /\ BudgetInv
  BY DEF DebtInv, BudgetInv
<1>8. StarvingInv
  <2>1. Range(starving) = {} /\ IsInjective(starving)
    BY DEF Range, IsInjective
  <2>2. \A w \in Workers : \A s \in Schedulers : ~Notifying(w, s)
    BY DEF Notifying
  <2>3. \A c \in Clients : \A s \in Schedulers : ~Registering(c, s)
    BY DEF Registering
  <2>4. \A s \in Schedulers : ~starved[s]
    OBVIOUS
  <2>5. QED
    BY <2>1, <2>2, <2>3, <2>4 DEF StarvingInv
<1>9. NoStrandedJobs
  BY DEF NoStrandedJobs
<1>10. CallInv
  BY DEF CallInv
<1>11. WaitInv
  BY DEF WaitInv, Covered, Waits
<1>12. QED
  BY <1>1, <1>2, <1>3, <1>4, <1>5, <1>6, <1>7, <1>8, <1>9, <1>10, <1>11 DEF IInv

(* Every step keeps the invariant.                                         *)
LEMMA NextKeeps ==
  ASSUME IInv, Next
  PROVE  IInv'
<1>1. ASSUME NEW w \in Workers, Worker(w) PROVE IInv'
  BY <1>1, TakeJobStep, JobEndsStep, RunsIdleStep, StopStarvationStep, ReleaseStep,
     SelectStarvingStep, ThreadAvailableStep, AvailableTakenStep, AvailableStarvesStep,
     RegisterAgainStep, AvailableEndsStep DEF Worker
<1>2. ASSUME NEW c \in Clients, ClientGoesOn(c) PROVE IInv'
  BY <1>2, RegisterStep, ResumeThreadsStep, CheckEmptyStep, WaitEndsStep,
     UnregisterClosingStep DEF ClientGoesOn
<1>3. ASSUME NEW c \in Clients, EmptyTimeout(c) PROVE IInv'
  BY <1>3, WaitEndsStep
<1>4. ASSUME NEW c \in Clients, NEW s \in Schedulers, Resume(c, s) PROVE IInv'
  BY <1>4, ResumeStep
<1>5. ASSUME NEW c \in Clients, NEW s \in Schedulers, ClientCalls(c, s) PROVE IInv'
  BY <1>5, ScheduleStep, RemoveJobStep, StopStep, WaitForEmptyQueueStep, DestroyStep
     DEF ClientCalls
<1>6. QED
  BY <1>1, <1>2, <1>3, <1>4, <1>5 DEF Next

(* And so does a step of something else.                                   *)
LEMMA StutterKeeps ==
  ASSUME IInv, UNCHANGED vars
  PROVE  IInv'
<1> USE DEF IInv
<1>1. TypeOK'
  BY DEF TypeOK, Bounded
<1>2. PlaceInv' /\ PoolInv' /\ CountInv' /\ DebtInv'
  BY ThreadFrame
<1>3. HoldInv'
  BY DEF HoldInv, WorkerHolds, ClientHolds, Held
<1>4. ClientInv'
  BY DEF ClientInv, Uses, Ends
<1>5. BudgetInv'
  BY DEF BudgetInv
<1>6. StarvingInv'
  BY StarvingFrame DEF Notifying, Registering
<1>7. NoStrandedJobs'
  BY DEF NoStrandedJobs, Free
<1>8. CallInv' /\ WaitInv'
  BY DEF CallInv, WaitInv, Covered, Waits, Pays
<1>9. QED
  BY <1>1, <1>2, <1>3, <1>4, <1>5, <1>6, <1>7, <1>8

(* What the runs check follows.                                            *)
LEMMA SchedulerInvFollows ==
  ASSUME IInv
  PROVE  SchedulerInv
<1> USE DEF IInv
<1>1. ThreadsAccounted
  <2>1. ASSUME NEW s \in Schedulers, Free(s), alive[s] # "gone"
        PROVE  runningCount(s) + Cardinality(suspended[s]) + yetToCreate[s]
                 = ThreadCount[s] + fromShared[s]
    <3>1. Pays(s) = 0
      BY <2>1, NoOneAssumption, PaysNot DEF Free
    <3>2. runningCount(s) + Cardinality(suspended[s]) + yetToCreate[s] + Pays(s)
            = ThreadCount[s] + fromShared[s]
      BY <2>1 DEF CountInv, Counted
    <3>3. runningCount(s) \in Nat /\ Cardinality(suspended[s]) \in Nat /\ yetToCreate[s] \in Nat
      <4>1. IsFiniteSet(running[s]) /\ IsFiniteSet(suspended[s])
        BY CountAssumption, FS_Subset DEF TypeOK
      <4>2. QED
        BY <4>1, FS_CardinalityType DEF runningCount, TypeOK
    <3>4. QED
      BY <3>1, <3>2, <3>3
  <2>2. \A w \in Workers : wpc[w] # "endsItself"
    BY DEF PlaceInv
  <2>3. QED
    BY <2>1, <2>2 DEF ThreadsAccounted, PoolInv
<1>2. DebtPaidFirst
  BY DEF DebtInv, DebtPaidFirst
<1>3. StarvedIsRegistered
  BY DEF StarvingInv, StarvedIsRegistered, Contains, Range, Notifying, Registering
<1>4. EmptyWaitersCovered
  <2> SUFFICES ASSUME NEW c \in Clients, Waits(c), c \notin overtaken,
                      Free(on[c]), ~emptyEvent[on[c]], ThreadCount[on[c]] > 0
               PROVE  running[on[c]] # {}
    BY DEF EmptyWaitersCovered
  <2>1. Pays(on[c]) = 0
    BY CallsWhom, NoOneAssumption, PaysNot DEF Waits, Free
  <2>2. QED
    BY <2>1 DEF WaitInv, Covered
<1>5. NotUsedWhenGone
  <2> SUFFICES ASSUME NEW s \in Schedulers, alive[s] = "gone"
               PROVE  /\ \A w \in Workers : target[w] # s /\ at[w] # s
                      /\ running[s] = {} /\ suspended[s] = {} /\ ~Contains(starving, s)
    BY DEF NotUsedWhenGone
  <2>1. mutex[s] = NoOne /\ ~starved[s] /\ running[s] = {} /\ suspended[s] = {}
    BY DEF ClientInv, Ends
  <2>2. \A w \in Workers : at[w] # s
    BY <2>1, NoOneAssumption, PaysNot
  <2>3. ASSUME NEW w \in Workers, target[w] = s PROVE FALSE
    <3>1. wpc[w] \in {"notify", "available", "registerAgain"}
      BY <2>3, CallsWhom
    <3>2. wpc[w] # "available" /\ wpc[w] # "registerAgain"
      BY <2>1, <2>3, NoOneAssumption DEF HoldInv, WorkerHolds
    <3>3. starved[s]
      BY <2>3, <3>1, <3>2 DEF StarvingInv, Notifying
    <3>4. QED
      BY <2>1, <3>3
  <2>4. ~Contains(starving, s)
    <3>1. s \notin Range(starving)
      BY <2>1 DEF StarvingInv
    <3>2. QED
      BY <3>1 DEF Contains, Range
  <2>5. QED
    BY <2>1, <2>2, <2>3, <2>4
<1>6. QED
  BY <1>1, <1>2, <1>3, <1>4, <1>5 DEF SchedulerInv

(* The inductive invariant.                                                *)
THEOREM Inductive == Spec => []IInv
<1>1. IInv /\ [Next]_vars => IInv'
  BY NextKeeps, StutterKeeps
<1>2. QED
  BY <1>1, InitHolds, PTL DEF Spec

(* What the schedulers and the pool of CJobScheduler know of threads,      *)
(* debts and starvation fits together, however many schedulers, threads    *)
(* and clients there are.                                                  *)
THEOREM SchedulersAgree == Spec => []SchedulerInv
<1>1. IInv => SchedulerInv
  BY SchedulerInvFollows
<1>2. QED
  BY <1>1, Inductive, PTL

=============================================================================
