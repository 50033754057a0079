--------------------------- MODULE JobBase_proofs ---------------------------
(***************************************************************************)
(* A job is executed once, and not deleted under anybody unless it was put *)
(* back after it had been claimed, for any number of threads (JobInv of    *)
(* JobBase).                                                               *)
(*                                                                         *)
(* Control says in which order the steps of a call come. All else is said  *)
(* in terms of the step that a thread comes to next (First).               *)
(***************************************************************************)
EXTENDS JobBase, FiniteSetTheorems, SequenceTheorems, TLAPS

USE DEF away

First(t) == IF todo[t] = << >> THEN "idle" ELSE Head(todo[t])

-----------------------------------------------------------------------------
(* The calls                                                               *)

WorkerSteps ==
  {"claim", "run", "setDone", "signalDone", "testScheduled", "unschedule", "testDone",
   "setDeletable", "signalDeletable", "delete"}

(* What ends the call of a thread of the scheduler.                        *)
Last == IF transferOwnership THEN "delete" ELSE "idle"

(* In a call of t the step x may be followed by y.                         *)
Follows(t, x, y) ==
  /\ t # Client => x \in WorkerSteps /\ (x = "delete" => transferOwnership)
  /\ x = "run" => y = "setDone"
  /\ x \in {"setDone", "signalDone"} => y = "testScheduled"
  /\ x \in {"claim", "testScheduled"} =>
       y \in IF t = Client THEN {"waitDone", "waitDeletable"} ELSE {"unschedule"}
  /\ x \in {"unschedule", "testDone"} => y = IF t = Client THEN "idle" ELSE Last
  /\ x \in {"setDeletable", "signalDeletable"} =>
       IF t = Client THEN y \in {"idle", "waitDone", "waitDeletable"} ELSE y = Last
  /\ x = "onSchedule" => y = "push"
  /\ x = "testWaiting" => y = "waitDeletable"
  /\ x = "allocDone" => y \in {"lookDone", "blockTimed"}
  /\ x = "allocDeletable" => y = "lookDeletable"
  /\ x \in {"waitDeletable", "lookDeletable", "blockDeletable"} => y = "delete"
  /\ x \in {"push", "delete", "waitDone", "lookDone", "blockDone", "waitTimed", "blockTimed"} =>
       y = "idle"

(* How many steps may come after x.                                        *)
Height(x) ==
  IF x = "run" THEN 4
  ELSE IF x \in {"setDone", "signalDone"} THEN 3
  ELSE IF x \in {"claim", "testScheduled", "setDeletable", "signalDeletable", "testWaiting",
                 "allocDone", "allocDeletable"} THEN 2
  ELSE IF x \in {"push", "delete", "waitDone", "lookDone", "blockDone", "waitTimed",
                 "blockTimed"} THEN 0
  ELSE 1

After(call, i) == IF i < Len(call) THEN call[i + 1] ELSE "idle"

Call(t, call) ==
  /\ call \in Seq(Steps)
  /\ \A i \in 1..Len(call) :
       Follows(t, call[i], After(call, i)) /\ Len(call) - i <= Height(call[i])

Control == todo \in [Threads -> Seq(Steps)] /\ \A t \in Threads : Call(t, todo[t])

-----------------------------------------------------------------------------
(* The inductive invariant                                                 *)

Holding == {"claim", "run", "setDone", "signalDone", "testScheduled", "unschedule"}
Busy(w) == First(w) # "idle"
Scheduling == First(Client) \in {"onSchedule", "push"}
Executing(t) == First(t) \in {"run", "setDone"}

Flags ==
  /\ waiting \in BOOLEAN /\ terminated \in BOOLEAN /\ scheduled \in BOOLEAN
  /\ state \in [Events -> BOOLEAN] /\ event \in [Events -> {"none", "reset", "set"}]
  /\ deleted \in BOOLEAN /\ queued \in BOOLEAN /\ transferOwnership \in BOOLEAN
  /\ removed \in BOOLEAN /\ drained \in BOOLEAN /\ requeued \in BOOLEAN
  /\ runs \in {0, 1}

(* The job is about to be queued, in the queue, taken out by the client,   *)
(* or with one thread of the scheduler; "scheduled" says so, but for the   *)
(* moments before it is set and after it is reset.                         *)
Places ==
  /\ \A v, w \in Workers : Busy(v) /\ Busy(w) => v = w
  /\ Scheduling \/ queued \/ removed => \A w \in Workers : ~Busy(w)
  /\ Scheduling => ~queued /\ ~removed
  /\ queued => ~removed
  /\ First(Client) \in {"unschedule", "testDone"} => removed
  /\ scheduled <=> \/ First(Client) \in {"push", "unschedule"} \/ queued
                   \/ \E w \in Workers : First(w) \in Holding

(* It is executed once.                                                    *)
Execution ==
  /\ \A t, u \in Threads : Executing(t) /\ Executing(u) => t = u
  /\ \A t \in Threads : Executing(t) => ~waiting /\ ~state["executionDone"]
  /\ \A t \in Threads : First(t) = "run" => runs = 0
  /\ waiting => ~state["executionDone"] /\ runs = 0
  /\ \A t \in Threads : First(t) \in {"signalDone", "testScheduled"} => state["executionDone"]

(* A job that belongs to the scheduler is with nobody else, and executed   *)
(* when its thread is through with it, unless the scheduler was stopped.   *)
Ownership ==
  transferOwnership =>
    /\ First(Client) \in {"onSchedule", "push", "idle"} /\ ~removed /\ ~requeued
    /\ Scheduling \/ queued \/ drained => waiting
    /\ Scheduling \/ queued => ~drained
    /\ \A w \in Workers :
         /\ First(w) = "claim" => waiting /\ ~drained
         /\ First(w) \in {"unschedule", "testDone"} => state["executionDone"] \/ drained

Unscheduled == ~scheduled /\ ~Scheduling

(* What may be deleted has been executed and is not scheduled, nor will be *)
(* unless it was put back when it was executed; but for the own jobs of a  *)
(* stopped scheduler.                                                      *)
Deletion ==
  /\ state["deletable"] => state["executionDone"] /\ (Unscheduled \/ requeued)
  /\ \A t \in Threads :
       First(t) = "setDeletable" => state["executionDone"] /\ (Unscheduled \/ requeued)
  /\ \A t \in Threads : First(t) = "signalDeletable" => state["deletable"]
  /\ \A t \in Threads : First(t) = "delete" =>
       state["deletable"] \/ (drained /\ transferOwnership)
  /\ deleted => /\ First(Client) = "idle" /\ (Unscheduled \/ requeued)
                /\ transferOwnership => \A w \in Workers : ~Busy(w)

(* Handles are made before they are waited for, and signalled after the    *)
(* state is set.                                                           *)
Handles ==
  /\ \A e \in Events : event[e] = "set" => state[e]
  /\ \A e \in Events : First(Client) \in {Of(e).look, Of(e).block} => event[e] # "none"
  /\ \A e \in Events : First(Client) = Of(e).block /\ state[e] =>
       event[e] = "set" \/ \E u \in Threads : First(u) = Of(e).signal

IInv == Control /\ Flags /\ Places /\ Execution /\ Ownership /\ Deletion /\ Handles

-----------------------------------------------------------------------------
(* How calls go on                                                         *)

Others(t) == \A u \in Threads \ {t} : todo'[u] = todo[u] /\ First(u)' = First(u)

Second(t) == After(todo[t], 1)

(* A thread replaces its call by another one.                              *)
LEMMA Becomes ==
  ASSUME Control, NEW t \in Threads, NEW call, Call(t, call),
         UNCHANGED transferOwnership, todo' = [todo EXCEPT ![t] = call]
  PROVE  /\ Control' /\ Others(t)
         /\ First(t)' = After(call, 0)
<1>1. call \in Seq(Steps) /\ todo \in [Threads -> Seq(Steps)]
  BY DEF Call, Control
<1>2. todo' \in [Threads -> Seq(Steps)] /\ todo'[t] = call
  BY <1>1
<1>3. \A u \in Threads : u # t => todo'[u] = todo[u]
  BY <1>1
<1>4. ASSUME NEW u \in Threads
      PROVE  Call(u, todo[u])'
  <2>1. Call(u, todo'[u])
    BY <1>2, <1>3 DEF Control
  <2> QED
    BY <2>1 DEF Call, Follows, Last, After, Height
<1>5. First(t)' = After(call, 0)
  BY <1>1, <1>2 DEF First, After
<1> QED
  BY <1>2, <1>3, <1>4, <1>5 DEF Control, Others, First

(* The steps p come before what is left.                                   *)
LEMMA GoesOn ==
  ASSUME Control, NEW t \in Threads, todo[t] # << >>, NEW p \in Seq(Steps),
         UNCHANGED transferOwnership, Continue(t, p),
         \A i \in 1..Len(p) :
           /\ Follows(t, p[i], IF i < Len(p) THEN p[i + 1] ELSE Second(t))
           /\ Len(p) - i + Height(First(t)) <= Height(p[i])
  PROVE  /\ Control' /\ Others(t)
         /\ First(t)' = IF p = << >> THEN Second(t) ELSE p[1]
<1> DEFINE call == todo[t]
           rest == p \o Tail(call)
<1>1. /\ call \in Seq(Steps) /\ Len(call) \in Nat /\ Len(call) > 0 /\ First(t) = call[1]
      /\ Len(p) \in Nat
  BY DEF Control, First
<1>2. /\ rest \in Seq(Steps)
      /\ Len(rest) = Len(p) + Len(call) - 1
      /\ \A i \in 1..Len(p) : rest[i] = p[i]
      /\ \A i \in 1..Len(call) - 1 : rest[Len(p) + i] = call[i + 1]
  BY <1>1
<1>3. \A i \in 1..Len(call) : Follows(t, call[i], After(call, i)) /\ Len(call) - i <= Height(call[i])
  BY DEF Control, Call
<1>h. \A x : Height(x) \in Nat
  BY DEF Height
<1>4. Len(call) - 1 <= Height(First(t))
  BY <1>1, <1>3
<1> HIDE DEF call, rest
<1>5. ASSUME NEW i \in 1..Len(rest)
      PROVE  Follows(t, rest[i], After(rest, i)) /\ Len(rest) - i <= Height(rest[i])
  <2>1. CASE i < Len(p)
    <3>1. i \in 1..Len(p) /\ i + 1 \in 1..Len(p) /\ i < Len(rest)
      BY <1>1, <1>2, <2>1
    <3>2. rest[i] = p[i] /\ After(rest, i) = p[i + 1]
      BY <1>2, <3>1 DEF After
    <3>3. Follows(t, p[i], p[i + 1]) /\ Len(p) - i + Height(First(t)) <= Height(p[i])
      BY <2>1, <3>1
    <3>4. Len(rest) - i <= Len(p) - i + Height(First(t))
      BY <1>1, <1>2, <1>4, <1>h
    <3>5. Height(p[i]) \in Nat /\ Height(First(t)) \in Nat
      BY <1>h
    <3> QED
      BY <1>1, <1>2, <3>2, <3>3, <3>4, <3>5
  <2>2. CASE i = Len(p)
    <3>1. rest[i] = p[i] /\ After(rest, i) = Second(t)
      BY <1>1, <1>2, <2>2 DEF After, Second, call
    <3> QED
      BY <1>1, <1>2, <1>4, <1>h, <2>2, <3>1
  <2>3. CASE i > Len(p)
    <3> DEFINE j == i - Len(p)
    <3>1. j \in 1..Len(call) - 1 /\ i = Len(p) + j
      BY <1>1, <1>2, <2>3
    <3>2. rest[i] = call[j + 1]
      BY <1>2, <3>1
    <3>3. After(rest, i) = After(call, j + 1)
      <4>1. CASE j + 1 < Len(call)
        <5>1. j + 1 \in 1..Len(call) - 1 /\ i < Len(rest) /\ i + 1 = Len(p) + (j + 1)
          BY <1>1, <1>2, <3>1, <4>1
        <5>2. rest[i + 1] = call[(j + 1) + 1]
          BY <1>2, <5>1
        <5> QED
          BY <4>1, <5>1, <5>2 DEF After
      <4>2. CASE j + 1 = Len(call)
        BY <1>1, <1>2, <3>1, <4>2 DEF After
      <4> QED
        BY <1>1, <3>1, <4>1, <4>2
    <3> QED
      BY <1>1, <1>2, <1>3, <3>1, <3>2, <3>3
  <2> QED
    BY <1>1, <2>1, <2>2, <2>3
<1>6. Call(t, rest)
  BY <1>2, <1>5 DEF Call
<1>7. After(rest, 0) = IF p = << >> THEN Second(t) ELSE p[1]
  BY <1>1, <1>2 DEF After, Second, call
<1>8. todo' = [todo EXCEPT ![t] = rest]
  BY DEF Continue, rest, call
<1> QED
  BY <1>6, <1>7, <1>8, Becomes

(* The step that comes next has a successor.                               *)
LEMMA Coming ==
  ASSUME Control, NEW t \in Threads, NEW x, At(t, x)
  PROVE  /\ todo[t] # << >> /\ First(t) = x
         /\ Follows(t, x, Second(t))
BY DEF At, First, Control, Call, Second

(* A thread without a call comes to no step.                               *)
LEMMA Idle ==
  ASSUME NEW t \in Threads
  PROVE  todo[t] = << >> => First(t) = "idle"
BY DEF First

(* No step, one, two or three steps in front of what is left.              *)
LEMMA None ==
  ASSUME Control, NEW t \in Threads, todo[t] # << >>,
         UNCHANGED transferOwnership, Continue(t, << >>)
  PROVE  Control' /\ Others(t) /\ First(t)' = Second(t)
<1> DEFINE p == << >>
<1>1. p \in Seq(Steps) /\ Len(p) = 0 /\ p = << >> /\ Continue(t, p)
  OBVIOUS
<1> HIDE DEF p
<1>2. \A i \in 1..Len(p) : FALSE
  BY <1>1
<1> QED
  BY <1>1, <1>2, GoesOn

(* One step in front of what is left: it must fit what follows.            *)
LEMMA One ==
  ASSUME Control, NEW t \in Threads, todo[t] # << >>,
         NEW a \in Steps, Follows(t, a, Second(t)), Height(First(t)) <= Height(a),
         UNCHANGED transferOwnership, Continue(t, <<a>>)
  PROVE  Control' /\ Others(t) /\ First(t)' = a
<1> DEFINE p == <<a>>
<1>1. p \in Seq(Steps) /\ Len(p) = 1 /\ p[1] = a /\ p # << >>
  OBVIOUS
<1>2. Height(a) \in Nat /\ Height(First(t)) \in Nat
  BY DEF Height
<1>3. Continue(t, p)
  OBVIOUS
<1> HIDE DEF p
<1> QED
  BY <1>1, <1>2, <1>3, GoesOn

(* Two steps in front of what is left.                                     *)
LEMMA Two ==
  ASSUME Control, NEW t \in Threads, todo[t] # << >>,
         NEW a \in Steps, NEW b \in Steps,
         Follows(t, a, b), Follows(t, b, Second(t)),
         1 + Height(First(t)) <= Height(a), Height(First(t)) <= Height(b),
         UNCHANGED transferOwnership, Continue(t, <<a, b>>)
  PROVE  Control' /\ Others(t) /\ First(t)' = a
<1> DEFINE p == <<a, b>>
<1>1. p \in Seq(Steps) /\ Len(p) = 2 /\ p[1] = a /\ p[2] = b /\ p # << >>
  OBVIOUS
<1>2. Height(a) \in Nat /\ Height(b) \in Nat /\ Height(First(t)) \in Nat
  BY DEF Height
<1>3. Continue(t, p)
  OBVIOUS
<1> HIDE DEF p
<1>4. \A i \in 1..Len(p) : i = 1 \/ i = 2
  BY <1>1
<1>5. \A i \in 1..Len(p) :
           /\ Follows(t, p[i], IF i < Len(p) THEN p[i + 1] ELSE Second(t))
           /\ Len(p) - i + Height(First(t)) <= Height(p[i])
  BY <1>1, <1>2, <1>4
<1> QED
  BY <1>1, <1>3, <1>5, GoesOn

(* Three steps in front of what is left.                                   *)
LEMMA Three ==
  ASSUME Control, NEW t \in Threads, todo[t] # << >>,
         NEW a \in Steps, NEW b \in Steps, NEW c \in Steps,
         Follows(t, a, b), Follows(t, b, c), Follows(t, c, Second(t)),
         2 + Height(First(t)) <= Height(a), 1 + Height(First(t)) <= Height(b),
         Height(First(t)) <= Height(c),
         UNCHANGED transferOwnership, Continue(t, <<a, b, c>>)
  PROVE  Control' /\ Others(t) /\ First(t)' = a
<1> DEFINE p == <<a, b, c>>
<1>1. p \in Seq(Steps) /\ Len(p) = 3 /\ p[1] = a /\ p[2] = b /\ p[3] = c /\ p # << >>
  OBVIOUS
<1>2. Height(a) \in Nat /\ Height(b) \in Nat /\ Height(c) \in Nat /\ Height(First(t)) \in Nat
  BY DEF Height
<1>3. Continue(t, p)
  OBVIOUS
<1> HIDE DEF p
<1>4. \A i \in 1..Len(p) : i = 1 \/ i = 2 \/ i = 3
  BY <1>1
<1>5. \A i \in 1..Len(p) :
           /\ Follows(t, p[i], IF i < Len(p) THEN p[i + 1] ELSE Second(t))
           /\ Len(p) - i + Height(First(t)) <= Height(p[i])
  BY <1>1, <1>2, <1>4
<1> QED
  BY <1>1, <1>3, <1>5, GoesOn

-----------------------------------------------------------------------------
(* The steps                                                               *)

Data == Flags /\ Places /\ Execution /\ Ownership /\ Deletion

(* The names of the steps of the two events.                               *)
LEMMA Names ==
  ASSUME NEW e \in Events
  PROVE  \/ /\ e = "deletable"
            /\ Of(e).set = "setDeletable" /\ Of(e).signal = "signalDeletable"
            /\ Of(e).wait = "waitDeletable" /\ Of(e).alloc = "allocDeletable"
            /\ Of(e).look = "lookDeletable" /\ Of(e).block = "blockDeletable"
         \/ /\ e = "executionDone"
            /\ Of(e).set = "setDone" /\ Of(e).signal = "signalDone"
            /\ Of(e).wait = "waitDone" /\ Of(e).alloc = "allocDone"
            /\ Of(e).look = "lookDone" /\ Of(e).block = "blockDone"
BY DEF Events, Of

(* Where neither events nor waits for them are concerned.                  *)
LEMMA OtherSteps ==
  ASSUME Handles, NEW t \in Threads, Others(t), UNCHANGED eventVars,
         First(t) \notin {"signalDone", "signalDeletable"},
         First(t)' \notin {"lookDone", "lookDeletable", "blockDone", "blockDeletable"}
  PROVE  Handles'
<1>1. Client \in Threads /\ UNCHANGED <<state, event>>
  BY DEF Threads, eventVars
<1>2. \A e \in Events : First(Client)' \in {Of(e).look, Of(e).block} => First(Client)' = First(Client)
  BY <1>1, Names DEF Others
<1>3. \A u \in Threads, e \in Events : First(u) = Of(e).signal => First(u)' = First(u)
  BY Names DEF Others
<1> QED
  BY <1>1, <1>2, <1>3 DEF Handles

(* The client is a thread, and no other one.                               *)
LEMMA Who == Client \in Threads /\ \A w \in Workers : w \in Threads /\ w # Client
BY ClientAssumption DEF Threads

(* Where the job stays in its place.                                       *)
LEMMA SamePlace ==
  ASSUME Places, NEW t \in Threads, Others(t), UNCHANGED <<scheduled, queued, removed>>,
         t = Client => /\ First(t) \notin {"onSchedule", "push", "unschedule"}
                       /\ First(t)' \notin {"onSchedule", "push", "unschedule", "testDone"},
         t # Client => First(t) # "idle" /\ (First(t) \in Holding <=> First(t)' \in Holding)
  PROVE  Places'
<1>1. \A w \in Workers : (Busy(w)' => Busy(w)) /\ (First(w)' \in Holding <=> First(w) \in Holding)
  BY Who DEF Others, Busy
<1>2. First(Client)' \in {"onSchedule", "push", "unschedule", "testDone"} => First(Client)' = First(Client)
  BY Who DEF Others
<1>3. /\ First(Client) \in {"push", "unschedule"} => First(Client)' = First(Client)
      /\ First(Client) \in {"onSchedule", "push"} => First(Client)' = First(Client)
  BY Who DEF Others
<1>4. Scheduling' => Scheduling /\ t # Client
  BY <1>2 DEF Scheduling
<1>5. ~Scheduling'
  BY <1>4 DEF Places, Threads, Busy
<1> QED
  BY <1>1, <1>2, <1>3, <1>5 DEF Places, Holding

(* Execute: the exchange that lets one thread through.                     *)
LEMMA ClaimStep ==
  ASSUME IInv, NEW t \in Threads, Claim(t)
  PROVE  IInv'
<1>1. /\ Control' /\ Others(t) /\ First(t) = "claim"
      /\ First(t)' \in IF waiting THEN {"run"}
                       ELSE IF t = Client THEN {"waitDone", "waitDeletable"} ELSE {"unschedule"}
  <2>1. /\ Control /\ At(t, "claim") /\ UNCHANGED transferOwnership
        /\ Continue(t, IF waiting THEN <<"run", "setDone", "testScheduled">> ELSE << >>)
    BY DEF IInv, Claim
  <2>2. todo[t] # << >> /\ First(t) = "claim" /\ Follows(t, "claim", Second(t))
    BY <2>1, Coming
  <2>3. CASE waiting
    <3>1. Continue(t, <<"run", "setDone", "testScheduled">>)
      BY <2>1, <2>3
    <3>2. /\ Follows(t, "run", "setDone") /\ Follows(t, "setDone", "testScheduled")
          /\ Follows(t, "testScheduled", Second(t))
      BY <2>2 DEF Follows, WorkerSteps
    <3>3. /\ "run" \in Steps /\ "setDone" \in Steps /\ "testScheduled" \in Steps
      BY DEF Steps
    <3>4. /\ Height("run") = 4 /\ Height("setDone") = 3 /\ Height("testScheduled") = 2
          /\ Height("claim") = 2
      BY DEF Height
    <3> QED
      BY <2>1, <2>2, <2>3, <3>1, <3>2, <3>3, <3>4, Three
  <2>4. CASE ~waiting
    <3>1. Continue(t, << >>)
      BY <2>1, <2>4
    <3> QED
      BY <2>1, <2>2, <2>4, <3>1, None DEF Follows
  <2> QED
    BY <2>3, <2>4
<1>2. /\ waiting' = FALSE
      /\ UNCHANGED <<terminated, scheduled, state, event, deleted, queued, transferOwnership, removed, drained, requeued, runs>>
  BY DEF Claim, eventVars
<1>3. Client \in Threads /\ Client \notin Workers /\ \A w \in Workers : w \in Threads
  BY ClientAssumption DEF Threads
<1>4. Data
  BY DEF IInv, Data
<1>5. Flags'
  BY <1>2, <1>4 DEF Data, Flags
<1>6. Places'
  BY <1>1, <1>2, <1>4, SamePlace DEF Data, Holding
<1>7. Execution'
  BY <1>1, <1>2, <1>3, <1>4
  DEF Data, Others, Flags, Execution, Executing
<1>8. Ownership'
  <2> SUFFICES ASSUME transferOwnership PROVE Ownership'
    BY <1>2 DEF Ownership
  <2>1. t \in Workers
    BY <1>1, <1>4 DEF Data, Ownership, Threads
  <2>2. ~queued /\ ~removed /\ \A w \in Workers : Busy(w) => w = t
    BY <1>1, <1>4, <2>1 DEF Data, Places, Busy
  <2>3. waiting /\ ~drained /\ First(t)' = "run" /\ ~Scheduling
    BY <1>1, <1>4, <2>1, Who DEF Data, Ownership, Places, Busy
  <2>4. \A w \in Workers : w # t => First(w)' = First(w) /\ First(w) = "idle"
    BY <1>1, <2>2, Who DEF Others, Busy
  <2>5. First(Client)' = First(Client)
    BY <1>1, <2>1, Who DEF Others
  <2> QED
    BY <1>2, <1>4, <2>2, <2>3, <2>4, <2>5 DEF Data, Ownership, Scheduling
<1>9. Deletion'
  BY <1>1, <1>2, <1>3, <1>4
  DEF Data, Others, Flags, Places, Execution, Ownership, Deletion, Unscheduled, Busy, Holding,
      Scheduling
<1>10. Handles'
  BY <1>1, <1>2, OtherSteps DEF IInv, eventVars
<1> QED
  BY <1>1, <1>5, <1>6, <1>7, <1>8, <1>9, <1>10 DEF IInv

(* Where a thread that executes the job, or ends with it, goes on.         *)
LEMMA SameOwner ==
  ASSUME Ownership, NEW t \in Threads, Others(t), First(t) # "idle",
         UNCHANGED <<transferOwnership, queued, removed, drained, requeued, waiting>>,
         state["executionDone"] => state'["executionDone"],
         t = Client => First(t) \notin {"onSchedule", "push"},
         t # Client => /\ First(t)' # "claim"
                       /\ transferOwnership /\ First(t)' \in {"unschedule", "testDone"} =>
                            state'["executionDone"] \/ drained
  PROVE  Ownership'
<1> SUFFICES ASSUME transferOwnership PROVE Ownership'
  BY DEF Ownership
<1>1. t # Client /\ First(Client)' = First(Client)
  BY Who DEF Ownership, Others
<1>2. \A w \in Workers : w # t => First(w)' = First(w)
  BY Who DEF Others
<1> QED
  BY <1>1, <1>2 DEF Ownership, Scheduling

(* Execute: InternalExecute.                                               *)
LEMMA RunStep ==
  ASSUME IInv, NEW t \in Threads, Run(t)
  PROVE  IInv'
<1>1. Control' /\ Others(t) /\ First(t) = "run" /\ First(t)' = "setDone"
  <2>1. Control /\ At(t, "run") /\ UNCHANGED transferOwnership /\ Continue(t, << >>)
    BY DEF IInv, Run
  <2>2. todo[t] # << >> /\ First(t) = "run" /\ Follows(t, "run", Second(t))
    BY <2>1, Coming
  <2> QED
    BY <2>1, <2>2, None DEF Follows
<1>2. /\ waiting' = FALSE /\ runs' = IF terminated THEN runs ELSE runs + 1
      /\ UNCHANGED <<terminated, scheduled, state, event, deleted, queued, transferOwnership, removed, drained, requeued>>
  BY DEF Run, eventVars
<1>3. Data /\ Handles
  BY DEF IInv, Data
<1>4. waiting = FALSE /\ runs = 0
  BY <1>1, <1>3 DEF Data, Execution, Executing, Flags
<1>5. Flags'
  <2>1. runs' = 0 \/ runs' = 1
    BY <1>2, <1>4
  <2>2. waiting' = FALSE
    BY <1>2
  <2>3. UNCHANGED <<terminated, scheduled, state, event, deleted, queued, transferOwnership, removed, drained, requeued>>
    BY <1>2
  <2> QED
    BY <1>3, <2>1, <2>2, <2>3 DEF Data, Flags
<1>6. Places'
  BY <1>1, <1>2, <1>3, SamePlace DEF Data, Holding
<1>7. Execution'
  BY <1>1, <1>2, <1>3, <1>4 DEF Data, Others, Flags, Execution, Executing
<1>8. Ownership'
  BY <1>1, <1>2, <1>3, <1>4, SameOwner DEF Data
<1>9. Deletion'
  BY <1>1, <1>2, <1>3, <1>4, Who DEF Data, Others, Deletion, Unscheduled, Scheduling, Busy
<1>10. Handles'
  BY <1>1, <1>2, <1>3, OtherSteps DEF eventVars
<1> QED
  BY <1>1, <1>5, <1>6, <1>7, <1>8, <1>9, <1>10 DEF IInv

(* Execute: the event "executionDone" is set.                              *)
LEMMA SetDoneStep ==
  ASSUME IInv, NEW t \in Threads, SetState(t, "executionDone")
  PROVE  IInv'
<1>1. Control' /\ Others(t) /\ First(t) = "setDone" /\ First(t)' = "signalDone"
  <2>1. /\ Control /\ At(t, "setDone") /\ UNCHANGED transferOwnership
        /\ Continue(t, IF state["executionDone"] THEN << >> ELSE <<"signalDone">>)
    BY Names DEF IInv, SetState, Events, Of
  <2>2. todo[t] # << >> /\ First(t) = "setDone" /\ Follows(t, "setDone", Second(t))
    BY <2>1, Coming
  <2>3. Continue(t, <<"signalDone">>)
    BY <2>1, <2>2 DEF IInv, Execution, Executing
  <2>4. "signalDone" \in Steps /\ Follows(t, "signalDone", Second(t)) /\ Height("setDone") <= Height("signalDone")
    BY <2>2 DEF Steps, Follows, WorkerSteps, Height
  <2> QED
    BY <2>1, <2>2, <2>3, <2>4, One
<1>e. state' = [state EXCEPT !["executionDone"] = TRUE]
  BY DEF SetState
<1>2. UNCHANGED <<waiting, terminated, scheduled, event, deleted, queued, transferOwnership, removed, drained, requeued, runs>>
  BY DEF SetState, flagVars
<1>3. Data /\ Handles
  BY DEF IInv, Data
<1>4. /\ waiting = FALSE /\ state' \in [Events -> BOOLEAN] /\ state'["executionDone"] = TRUE
      /\ state'["deletable"] = state["deletable"]
  BY <1>1, <1>e, <1>3 DEF Data, Execution, Executing, Flags, Events
<1>5. Flags'
  BY <1>2, <1>3, <1>4 DEF Data, Flags
<1>6. Places'
  BY <1>1, <1>2, <1>3, SamePlace DEF Data, Holding
<1>7. Execution'
  <2>1. \A u \in Threads : ~Executing(u)'
    BY <1>1, <1>3 DEF Data, Execution, Executing, Others
  <2> QED
    BY <1>1, <1>2, <1>3, <1>4, <2>1 DEF Data, Others, Execution, Executing
<1>8. Ownership'
  BY <1>1, <1>2, <1>3, <1>4, SameOwner DEF Data
<1>9. Deletion'
  BY <1>1, <1>2, <1>3, <1>4, Who DEF Data, Others, Deletion, Unscheduled, Scheduling, Busy
<1>10. Handles'
  <2>1. \A e \in Events : event[e] = "set" => state'[e]
    BY <1>e, <1>3 DEF Data, Flags, Handles
  <2>2. \A u \in Threads : First(u) \in {"signalDone", "signalDeletable"} => First(u)' = First(u)
    BY <1>1 DEF Others
  <2>3. First(Client)' \in {"lookDone", "lookDeletable", "blockDone", "blockDeletable"} => First(Client)' = First(Client)
    BY <1>1, Who DEF Others
  <2>4. \A e \in Events : First(Client)' \in {Of(e).look, Of(e).block} => event[e] # "none"
    BY <1>3, <2>3, Names DEF Handles
  <2>5. \A e \in Events : First(Client)' = Of(e).block /\ state'[e] =>
          event[e] = "set" \/ \E u \in Threads : First(u)' = Of(e).signal
    <3> TAKE e \in Events
    <3>1. CASE e = "executionDone"
      BY <1>1, <3>1, Names
    <3>2. CASE e = "deletable"
      <4> SUFFICES ASSUME First(Client)' = Of(e).block, state'[e], event[e] # "set"
                   PROVE  \E u \in Threads : First(u)' = Of(e).signal
        OBVIOUS
      <4>1. First(Client) = Of(e).block /\ state[e]
        BY <1>4, <2>3, <3>2, Names
      <4>2. PICK u \in Threads : First(u) = Of(e).signal
        BY <1>3, <4>1 DEF Handles
      <4> QED
        BY <2>2, <3>2, <4>2, Names
    <3> QED
      BY <3>1, <3>2 DEF Events
  <2> QED
    BY <1>2, <2>1, <2>4, <2>5 DEF Handles
<1> QED
  BY <1>1, <1>5, <1>6, <1>7, <1>8, <1>9, <1>10 DEF IInv

(* Execute: the look at "scheduled".                                       *)
LEMMA TestScheduledStep ==
  ASSUME IInv, NEW t \in Threads, TestScheduled(t)
  PROVE  IInv'
<1>0. Data /\ Handles /\ Control
  BY DEF IInv, Data
<1>1. /\ Control' /\ Others(t) /\ First(t) = "testScheduled"
      /\ First(t)' \in IF t # Client THEN {"unschedule"}
                       ELSE IF scheduled THEN {"waitDone", "waitDeletable"} ELSE {"setDeletable"}
  <2>1. /\ At(t, "testScheduled") /\ UNCHANGED transferOwnership
        /\ Continue(t, IF scheduled THEN << >> ELSE <<"setDeletable">>)
    BY DEF TestScheduled
  <2>2. todo[t] # << >> /\ First(t) = "testScheduled" /\ Follows(t, "testScheduled", Second(t))
    BY <1>0, <2>1, Coming
  <2>3. CASE scheduled
    <3>1. Continue(t, << >>)
      BY <2>1, <2>3
    <3> QED
      BY <1>0, <2>1, <2>2, <2>3, <3>1, None DEF Follows
  <2>4. CASE ~scheduled
    <3>1. t = Client
      BY <1>0, <2>2, <2>4 DEF Data, Places, Holding, Threads
    <3>2. Continue(t, <<"setDeletable">>)
      BY <2>1, <2>4
    <3>3. /\ "setDeletable" \in Steps /\ Follows(t, "setDeletable", Second(t))
          /\ Height("testScheduled") <= Height("setDeletable")
      BY <2>2, <3>1 DEF Steps, Follows, WorkerSteps, Height
    <3> QED
      BY <1>0, <2>1, <2>2, <2>4, <3>1, <3>2, <3>3, One
  <2> QED
    BY <2>3, <2>4
<1>2. UNCHANGED <<waiting, terminated, scheduled, state, event, deleted, queued, transferOwnership, removed, drained, requeued, runs>>
  BY DEF TestScheduled, eventVars, flagVars
<1>4. state["executionDone"]
  BY <1>0, <1>1 DEF Data, Execution
<1>5. Flags'
  BY <1>0, <1>2 DEF Data, Flags
<1>6. Places'
  BY <1>0, <1>1, <1>2, SamePlace DEF Data, Holding
<1>7. Execution'
  BY <1>0, <1>1, <1>2 DEF Data, Others, Execution, Executing
<1>8. Ownership'
  BY <1>0, <1>1, <1>2, <1>4, SameOwner DEF Data
<1>9. Deletion'
  BY <1>0, <1>1, <1>2, <1>4, Who DEF Data, Others, Deletion, Unscheduled, Scheduling, Busy
<1>10. Handles'
  BY <1>0, <1>1, <1>2, OtherSteps DEF eventVars
<1> QED
  BY <1>1, <1>5, <1>6, <1>7, <1>8, <1>9, <1>10 DEF IInv

(* OnUnSchedule: the exchange of "scheduled".                              *)
LEMMA UnscheduleStep ==
  ASSUME IInv, NEW t \in Threads, Unschedule(t)
  PROVE  IInv'
<1>0. Data /\ Handles /\ Control
  BY DEF IInv, Data
<1>1. Control' /\ Others(t) /\ First(t) = "unschedule" /\ First(t)' = "testDone"
  <2>1. At(t, "unschedule") /\ UNCHANGED transferOwnership /\ Continue(t, <<"testDone">>)
    BY DEF Unschedule
  <2>2. todo[t] # << >> /\ First(t) = "unschedule" /\ Follows(t, "unschedule", Second(t))
    BY <1>0, <2>1, Coming
  <2>3. /\ "testDone" \in Steps /\ Follows(t, "testDone", Second(t))
        /\ Height("unschedule") <= Height("testDone")
    BY <2>2 DEF Steps, Follows, WorkerSteps, Height
  <2> QED
    BY <1>0, <2>1, <2>2, <2>3, One
<1>2. /\ scheduled' = FALSE
      /\ UNCHANGED <<waiting, terminated, state, event, deleted, queued, transferOwnership, removed, drained, requeued, runs>>
  BY DEF Unschedule, eventVars
<1>5. Flags'
  BY <1>0, <1>2 DEF Data, Flags
<1>6. Places'
  <2>1. /\ t # Client => First(Client)' = First(Client)
        /\ \A w \in Workers : w # t => First(w)' = First(w)
    BY <1>1, Who DEF Others
  <2>2. ~queued /\ ~Scheduling /\ (t = Client => removed) /\ \A w \in Workers : w # t => ~Busy(w)
    BY <1>0, <1>1, Who DEF Data, Places, Busy, Scheduling, Threads
  <2>3. t # Client => ~removed /\ First(Client) \notin {"unschedule", "testDone", "push"}
    BY <1>0, <1>1, Who DEF Data, Places, Busy, Scheduling, Threads
  <2>4. \A w \in Workers : w # t => First(w)' = "idle"
    BY <2>1, <2>2 DEF Busy
  <2>5. First(Client)' \notin {"onSchedule", "push", "unschedule"}
    BY <1>1, <2>1, <2>2, <2>3 DEF Scheduling
  <2>6. \A w \in Workers : First(w)' \notin Holding
    BY <1>1, <2>4, Who DEF Holding
  <2>7. t = Client => \A w \in Workers : First(w)' = "idle"
    BY <2>4, Who
  <2> QED
    BY <1>1, <1>2, <2>1, <2>2, <2>3, <2>4, <2>5, <2>6, <2>7 DEF Places, Busy, Scheduling
<1>7. Execution'
  BY <1>0, <1>1, <1>2 DEF Data, Others, Execution, Executing
<1>8. Ownership'
  <2>1. t # Client /\ transferOwnership => state["executionDone"] \/ drained
    BY <1>0, <1>1, Who DEF Data, Ownership, Threads
  <2> QED
    BY <1>0, <1>1, <1>2, <2>1, SameOwner DEF Data
<1>9. Deletion'
  <2>1. scheduled
    BY <1>0, <1>1, Who DEF Data, Places, Holding, Threads
  <2> QED
    BY <1>0, <1>1, <1>2, <2>1, Who DEF Data, Others, Deletion, Unscheduled, Scheduling, Busy
<1>10. Handles'
  BY <1>0, <1>1, <1>2, OtherSteps DEF eventVars
<1> QED
  BY <1>1, <1>5, <1>6, <1>7, <1>8, <1>9, <1>10 DEF IInv

(* OnUnSchedule: the look at "executionDone".                              *)
LEMMA TestDoneStep ==
  ASSUME IInv, NEW t \in Threads, TestDone(t)
  PROVE  IInv'
<1>0. Data /\ Handles /\ Control
  BY DEF IInv, Data
<1>1. /\ Control' /\ Others(t) /\ First(t) = "testDone"
      /\ First(t)' = IF state["executionDone"] THEN "setDeletable"
                     ELSE IF t = Client THEN "idle" ELSE Last
  <2>1. /\ At(t, "testDone") /\ UNCHANGED transferOwnership
        /\ Continue(t, IF state["executionDone"] THEN <<"setDeletable">> ELSE << >>)
    BY DEF TestDone
  <2>2. todo[t] # << >> /\ First(t) = "testDone" /\ Follows(t, "testDone", Second(t))
    BY <1>0, <2>1, Coming
  <2>3. CASE state["executionDone"]
    <3>1. Continue(t, <<"setDeletable">>)
      BY <2>1, <2>3
    <3>2. /\ "setDeletable" \in Steps /\ Follows(t, "setDeletable", Second(t))
          /\ Height("testDone") <= Height("setDeletable")
      BY <2>2 DEF Steps, Follows, WorkerSteps, Height
    <3> QED
      BY <1>0, <2>1, <2>2, <2>3, <3>1, <3>2, One
  <2>4. CASE ~state["executionDone"]
    <3>1. Continue(t, << >>)
      BY <2>1, <2>4
    <3> QED
      BY <1>0, <2>1, <2>2, <2>4, <3>1, None DEF Follows
  <2> QED
    BY <2>3, <2>4
<1>2. UNCHANGED <<waiting, terminated, scheduled, state, event, deleted, queued, transferOwnership, removed, drained, requeued, runs>>
  BY DEF TestDone, eventVars, flagVars
<1>3. t # Client => (transferOwnership => state["executionDone"] \/ drained)
  BY <1>0, <1>1, Who DEF Data, Ownership, Threads
<1>4. /\ First(t)' \in {"setDeletable", "idle", "delete"}
      /\ First(t)' = "setDeletable" => state["executionDone"]
      /\ First(t)' = "delete" => drained /\ transferOwnership
  BY <1>1, <1>3 DEF Last
<1>5. Flags'
  BY <1>0, <1>2 DEF Data, Flags
<1>6. Places'
  BY <1>0, <1>1, <1>2, <1>4, SamePlace DEF Data, Holding
<1>7. Execution'
  BY <1>0, <1>1, <1>2, <1>4 DEF Data, Others, Execution, Executing
<1>8. Ownership'
  BY <1>0, <1>1, <1>2, <1>4, SameOwner DEF Data
<1>9. Deletion'
  <2>1. ~scheduled /\ ~Scheduling
    <3>1. CASE t = Client
      BY <1>0, <1>1, <3>1, Who DEF Data, Places, Scheduling, Busy, Holding
    <3>2. CASE t \in Workers
      BY <1>0, <1>1, <3>2, Who DEF Data, Places, Scheduling, Busy, Holding
    <3> QED
      BY <3>1, <3>2 DEF Threads
  <2>2. ~Scheduling'
    BY <1>1, <1>4, <2>1, Who DEF Others, Scheduling
  <2> QED
    BY <1>0, <1>1, <1>2, <1>4, <2>1, <2>2, Who DEF Data, Others, Deletion, Unscheduled, Busy
<1>10. Handles'
  BY <1>0, <1>1, <1>2, <1>4, OtherSteps DEF eventVars
<1> QED
  BY <1>1, <1>5, <1>6, <1>7, <1>8, <1>9, <1>10 DEF IInv

(* The event "deletable" is set, by either side.                           *)
LEMMA SetDeletableStep ==
  ASSUME IInv, NEW t \in Threads, SetState(t, "deletable")
  PROVE  IInv'
<1>0. Data /\ Handles /\ Control
  BY DEF IInv, Data
<1>1. /\ Control' /\ Others(t) /\ First(t) = "setDeletable"
      /\ First(t)' \in IF ~state["deletable"] THEN {"signalDeletable"}
                       ELSE IF t = Client THEN {"idle", "waitDone", "waitDeletable"} ELSE {"idle", "delete"}
  <2>1. /\ At(t, "setDeletable") /\ UNCHANGED transferOwnership
        /\ Continue(t, IF state["deletable"] THEN << >> ELSE <<"signalDeletable">>)
    BY Names DEF SetState, Events, Of
  <2>2. todo[t] # << >> /\ First(t) = "setDeletable" /\ Follows(t, "setDeletable", Second(t))
    BY <1>0, <2>1, Coming
  <2>3. CASE ~state["deletable"]
    <3>1. Continue(t, <<"signalDeletable">>)
      BY <2>1, <2>3
    <3>2. /\ "signalDeletable" \in Steps /\ Follows(t, "signalDeletable", Second(t))
          /\ Height("setDeletable") <= Height("signalDeletable")
      BY <2>2 DEF Steps, Follows, WorkerSteps, Height
    <3> QED
      BY <1>0, <2>1, <2>2, <2>3, <3>1, <3>2, One
  <2>4. CASE state["deletable"]
    <3>1. Continue(t, << >>)
      BY <2>1, <2>4
    <3> QED
      BY <1>0, <2>1, <2>2, <2>4, <3>1, None DEF Follows, Last
  <2> QED
    BY <2>3, <2>4
<1>e. state' = [state EXCEPT !["deletable"] = TRUE]
  BY DEF SetState
<1>2. UNCHANGED <<waiting, terminated, scheduled, event, deleted, queued, transferOwnership, removed, drained, requeued, runs>>
  BY DEF SetState, flagVars
<1>4. /\ state' \in [Events -> BOOLEAN] /\ state'["deletable"] = TRUE
      /\ state'["executionDone"] = state["executionDone"]
  BY <1>0, <1>e DEF Data, Flags, Events
<1>5. Flags'
  BY <1>0, <1>2, <1>4 DEF Data, Flags
<1>6. Places'
  BY <1>0, <1>1, <1>2, SamePlace DEF Data, Holding
<1>7. Execution'
  BY <1>0, <1>1, <1>2, <1>4 DEF Data, Others, Execution, Executing
<1>8. Ownership'
  BY <1>0, <1>1, <1>2, <1>4, SameOwner DEF Data
<1>9. Deletion'
  BY <1>0, <1>1, <1>2, <1>4, Who DEF Data, Others, Deletion, Unscheduled, Scheduling, Busy
<1>10. Handles'
  <2>1. \A e \in Events : event[e] = "set" => state'[e]
    BY <1>e, <1>0 DEF Data, Flags, Handles
  <2>2. \A u \in Threads : First(u) \in {"signalDone", "signalDeletable"} => First(u)' = First(u)
    BY <1>1 DEF Others
  <2>3. First(Client)' \in {"lookDone", "lookDeletable", "blockDone", "blockDeletable"} => First(Client)' = First(Client)
    BY <1>1, Who DEF Others
  <2>4. \A e \in Events : First(Client)' \in {Of(e).look, Of(e).block} => event[e] # "none"
    BY <1>0, <2>3, Names DEF Handles
  <2>5. \A e \in Events : First(Client)' = Of(e).block /\ state'[e] =>
          event[e] = "set" \/ \E u \in Threads : First(u)' = Of(e).signal
    <3> SUFFICES ASSUME NEW e \in Events, First(Client)' = Of(e).block, state'[e], event[e] # "set"
                 PROVE  \E u \in Threads : First(u)' = Of(e).signal
      OBVIOUS
    <3>1. CASE state[e]
      <4>1. First(Client) = Of(e).block
        BY <2>3, Names
      <4>2. PICK u \in Threads : First(u) = Of(e).signal
        BY <1>0, <3>1, <4>1 DEF Handles
      <4> QED
        BY <2>2, <4>2, Names
    <3>2. CASE ~state[e]
      <4>1. e = "deletable"
        BY <1>4, <3>2 DEF Events
      <4> QED
        BY <1>1, <3>2, <4>1, Names
    <3> QED
      BY <3>1, <3>2
  <2> QED
    BY <1>2, <2>1, <2>4, <2>5 DEF Handles
<1> QED
  BY <1>1, <1>5, <1>6, <1>7, <1>8, <1>9, <1>10 DEF IInv

(* COneShotEvent::Set: the handle is signalled.                            *)
LEMMA SignalStep ==
  ASSUME IInv, NEW t \in Threads, NEW e \in Events, SignalEvent(t, e)
  PROVE  IInv'
<1>0. Data /\ Handles /\ Control
  BY DEF IInv, Data
<1>1. /\ Control' /\ Others(t) /\ First(t) = Of(e).signal
      /\ First(t)' \in IF e = "executionDone" THEN {"testScheduled"}
                       ELSE IF t = Client THEN {"idle", "waitDone", "waitDeletable"} ELSE {"idle", "delete"}
  <2>1. At(t, Of(e).signal) /\ UNCHANGED transferOwnership /\ Continue(t, << >>)
    BY DEF SignalEvent
  <2>2. todo[t] # << >> /\ First(t) = Of(e).signal /\ Follows(t, Of(e).signal, Second(t))
    BY <1>0, <2>1, Coming
  <2>3. Control' /\ Others(t) /\ First(t)' = Second(t)
    BY <1>0, <2>1, <2>2, None
  <2>4. CASE e = "executionDone"
    BY <2>2, <2>3, <2>4, Names DEF Follows
  <2>5. CASE e = "deletable"
    BY <2>2, <2>3, <2>5, Names DEF Follows, Last
  <2> QED
    BY <2>4, <2>5, <2>2, <2>3 DEF Events
<1>e. event' = [event EXCEPT ![e] = IF @ = "none" THEN @ ELSE "set"]
  BY DEF SignalEvent
<1>2. UNCHANGED <<waiting, terminated, scheduled, state, deleted, queued, transferOwnership, removed, drained, requeued, runs>>
  BY DEF SignalEvent, flagVars
<1>4. /\ event' \in [Events -> {"none", "reset", "set"}]
      /\ \A d \in Events : d # e => event'[d] = event[d]
      /\ event'[e] = IF event[e] = "none" THEN "none" ELSE "set"
  BY <1>0, <1>e DEF Data, Flags, Events
<1>s. \/ e = "executionDone" /\ First(t) = "signalDone"
      \/ e = "deletable" /\ First(t) = "signalDeletable"
  BY <1>1, Names
<1>t. state[e]
  BY <1>0, <1>s DEF Data, Execution, Deletion
<1>5. Flags'
  BY <1>0, <1>2, <1>4 DEF Data, Flags
<1>6. Places'
  BY <1>0, <1>1, <1>2, <1>s, SamePlace DEF Data, Holding
<1>7. Execution'
  BY <1>0, <1>1, <1>2, <1>s DEF Data, Others, Execution, Executing
<1>8. Ownership'
  BY <1>0, <1>1, <1>2, <1>s, SameOwner DEF Data
<1>9. Deletion'
  BY <1>0, <1>1, <1>2, <1>s, Who DEF Data, Others, Deletion, Unscheduled, Scheduling, Busy
<1>10. Handles'
  <2>1. \A d \in Events : event'[d] = "set" => state[d]
    BY <1>0, <1>4, <1>t DEF Handles
  <2>2. First(Client)' \in {"lookDone", "lookDeletable", "blockDone", "blockDeletable"} => First(Client)' = First(Client)
    BY <1>1, Who DEF Others
  <2>3. \A d \in Events : First(Client)' \in {Of(d).look, Of(d).block} => First(Client) \in {Of(d).look, Of(d).block}
    BY <2>2, Names
  <2>4. \A d \in Events : First(Client)' \in {Of(d).look, Of(d).block} => event'[d] # "none"
    BY <1>0, <1>4, <2>3 DEF Handles
  <2>5. \A d \in Events : First(Client)' = Of(d).block /\ state[d] =>
          event'[d] = "set" \/ \E u \in Threads : First(u)' = Of(d).signal
    <3> SUFFICES ASSUME NEW d \in Events, First(Client)' = Of(d).block, state[d], event'[d] # "set"
                 PROVE  \E u \in Threads : First(u)' = Of(d).signal
      OBVIOUS
    <3>1. event'[d] # "none"
      BY <2>4
    <3>2. d # e /\ event[d] # "set"
      BY <1>4, <3>1
    <3>3. First(Client) = Of(d).block
      BY <2>2, Names
    <3>4. PICK u \in Threads : First(u) = Of(d).signal
      BY <1>0, <3>2, <3>3 DEF Handles
    <3>5. u # t
      BY <1>s, <3>2, <3>4, Names
    <3> QED
      BY <1>1, <3>4, <3>5 DEF Others
  <2> QED
    BY <1>2, <2>1, <2>4, <2>5 DEF Handles
<1> QED
  BY <1>1, <1>5, <1>6, <1>7, <1>8, <1>9, <1>10 DEF IInv

-----------------------------------------------------------------------------
(* The client                                                              *)

Own == {"idle", "claim", "waitDone", "allocDone", "lookDone", "blockDone", "waitDeletable",
        "allocDeletable", "lookDeletable", "blockDeletable", "waitTimed", "blockTimed",
        "testWaiting"}

(* A step of the client that has to do with nobody else.                   *)
LEMMA OwnStep ==
  ASSUME Data, Others(Client), ~deleted, ~transferOwnership,
         First(Client) \in Own, First(Client)' \in Own \cup {"delete"},
         First(Client)' = "delete" => state["deletable"],
         terminated' \in BOOLEAN, event' \in [Events -> {"none", "reset", "set"}],
         UNCHANGED <<waiting, scheduled, state, deleted, queued, transferOwnership, removed, drained, requeued, runs>>
  PROVE  Data'
<1>1. \A w \in Workers : First(w)' = First(w)
  BY Who DEF Others
<1>2. Flags'
  BY DEF Data, Flags
<1>3. Places'
  <2>1. ~Scheduling /\ ~Scheduling' /\ First(Client)' \notin {"push", "unschedule", "testDone"}
        /\ First(Client) \notin {"push", "unschedule"}
    BY DEF Own, Scheduling
  <2> QED
    BY <1>1, <2>1 DEF Data, Places, Busy, Holding
<1>4. Execution'
  <2>1. \A t \in Threads : First(t)' \in {"run", "setDone", "signalDone", "testScheduled"} => First(t)' = First(t)
    BY DEF Others, Own
  <2> QED
    BY <2>1 DEF Data, Execution, Executing
<1>5. Ownership'
  BY DEF Ownership
<1>6. Deletion'
  <2>1. \A t \in Threads : First(t)' \in {"setDeletable", "signalDeletable"} => First(t)' = First(t)
    BY DEF Others, Own
  <2>2. \A t \in Threads : First(t)' = "delete" => First(t) = "delete" \/ state["deletable"]
    BY DEF Others
  <2>3. ~Scheduling'
    BY DEF Own, Scheduling
  <2> QED
    BY <2>1, <2>2, <2>3 DEF Data, Deletion, Unscheduled
<1> QED
  BY <1>2, <1>3, <1>4, <1>5, <1>6 DEF Data

(* Only the client waits and deletes by Delete; nobody else uses a job     *)
(* meanwhile that is gone or belongs to the scheduler.                     *)
LEMMA ClientOnly ==
  ASSUME IInv, NEW t \in Threads, NEW x \in Own \ {"idle", "claim"}, At(t, x)
  PROVE  /\ t = Client /\ ~deleted /\ ~transferOwnership
         /\ todo[t] # << >> /\ First(t) = x /\ Follows(t, x, Second(t))
<1>1. todo[t] # << >> /\ First(t) = x /\ Follows(t, x, Second(t))
  BY Coming DEF IInv
<1>2. t = Client
  BY <1>1 DEF Follows, WorkerSteps, Own
<1> QED
  BY <1>1, <1>2 DEF IInv, Deletion, Ownership, Own

(* COneShotEvent::WaitFor: the first look at the state.                    *)
LEMMA FirstLookStep ==
  ASSUME IInv, NEW t \in Threads, NEW e \in Events, FirstLook(t, e)
  PROVE  IInv'
<1>1. /\ At(t, Of(e).wait) /\ Of(e).wait \in Own \ {"idle", "claim"}
      /\ Continue(t, IF state[e] THEN << >> ELSE <<Of(e).alloc, Of(e).look>>)
      /\ UNCHANGED <<waiting, terminated, scheduled, state, event, deleted, queued, transferOwnership, removed, drained, requeued, runs>>
  BY Names DEF FirstLook, Own, flagVars, eventVars
<1>2. /\ t = Client /\ ~deleted /\ ~transferOwnership
      /\ todo[t] # << >> /\ First(t) = Of(e).wait /\ Follows(t, Of(e).wait, Second(t))
  BY <1>1, ClientOnly
<1>3. /\ Control' /\ Others(t)
      /\ First(t)' \in IF ~state[e] THEN {Of(e).alloc}
                       ELSE IF e = "deletable" THEN {"delete"} ELSE {"idle"}
  <2>1. CASE state[e]
    <3>1. Continue(t, << >>)
      BY <1>1, <2>1
    <3> QED
      BY <1>1, <1>2, <2>1, <3>1, None, Names DEF IInv, Follows
  <2>2. CASE ~state[e]
    <3> DEFINE a == Of(e).alloc
               l == Of(e).look
    <3>1. Continue(t, <<a, l>>)
      BY <1>1, <2>2
    <3>2. a \in Steps /\ l \in Steps /\ Follows(t, a, l) /\ Follows(t, l, Second(t))
      BY <1>2, Names DEF Steps, Follows
    <3>3. 1 + Height(First(t)) <= Height(a) /\ Height(First(t)) <= Height(l)
      BY <1>2, Names DEF Height
    <3> HIDE DEF a, l
    <3>4. Control' /\ Others(t) /\ First(t)' = a
      BY <1>1, <1>2, <3>1, <3>2, <3>3, Two DEF IInv
    <3> QED
      BY <2>2, <3>4 DEF a
  <2> QED
    BY <2>1, <2>2
<1>4. /\ First(t) \in Own /\ First(t)' \in Own \cup {"delete"}
      /\ First(t)' = "delete" => state["deletable"]
  BY <1>1, <1>2, <1>3, Names DEF Own
<1>5. Data'
  BY <1>1, <1>2, <1>3, <1>4, OwnStep DEF IInv, Data, Flags
<1>6. Handles'
  BY <1>1, <1>2, <1>3, OtherSteps, Names DEF IInv, eventVars
<1> QED
  BY <1>3, <1>5, <1>6 DEF IInv, Data

(* COneShotEvent::WaitFor: the handle is made.                             *)
LEMMA AutoAllocStep ==
  ASSUME IInv, NEW t \in Threads, NEW e \in Events, AutoAlloc(t, e)
  PROVE  IInv'
<1>1. /\ At(t, Of(e).alloc) /\ Of(e).alloc \in Own \ {"idle", "claim"} /\ Continue(t, << >>)
      /\ event' = [event EXCEPT ![e] = IF @ = "none" THEN "reset" ELSE @]
      /\ UNCHANGED <<waiting, terminated, scheduled, state, deleted, queued, transferOwnership, removed, drained, requeued, runs>>
  BY Names DEF AutoAlloc, Own, flagVars
<1>2. /\ t = Client /\ ~deleted /\ ~transferOwnership
      /\ todo[t] # << >> /\ First(t) = Of(e).alloc /\ Follows(t, Of(e).alloc, Second(t))
  BY <1>1, ClientOnly
<1>3. Control' /\ Others(t) /\ First(t)' = Second(t)
  BY <1>1, <1>2, None DEF IInv
<1>4. First(t)' \in IF e = "deletable" THEN {"lookDeletable"} ELSE {"lookDone", "blockTimed"}
  BY <1>2, <1>3, Names DEF Follows
<1>5. /\ event' \in [Events -> {"none", "reset", "set"}] /\ event'[e] # "none"
      /\ \A d \in Events : event'[d] = "set" => event[d] = "set"
  BY <1>1 DEF IInv, Flags
<1>6. First(t) \in Own /\ First(t)' \in Own \ {"delete"}
  BY <1>1, <1>2, <1>4 DEF Own
<1>7. Data'
  BY <1>1, <1>2, <1>3, <1>5, <1>6, OwnStep DEF IInv, Data, Flags
<1>8. Handles'
  <2>1. \A d \in Events : First(Client)' \in {Of(d).look, Of(d).block} => d = e
    BY <1>2, <1>4, Names
  <2>2. \A d \in Events : First(Client)' # Of(d).block
    BY <1>2, <1>4, Names
  <2> QED
    BY <1>1, <1>5, <2>1, <2>2 DEF IInv, Handles
<1> QED
  BY <1>3, <1>7, <1>8 DEF IInv, Data

(* COneShotEvent::WaitFor: the second look at the state.                   *)
LEMMA SecondLookStep ==
  ASSUME IInv, NEW t \in Threads, NEW e \in Events, SecondLook(t, e)
  PROVE  IInv'
<1>1. /\ At(t, Of(e).look) /\ Of(e).look \in Own \ {"idle", "claim"}
      /\ Continue(t, IF state[e] THEN << >> ELSE <<Of(e).block>>)
      /\ UNCHANGED <<waiting, terminated, scheduled, state, event, deleted, queued, transferOwnership, removed, drained, requeued, runs>>
  BY Names DEF SecondLook, Own, flagVars, eventVars
<1>2. /\ t = Client /\ ~deleted /\ ~transferOwnership
      /\ todo[t] # << >> /\ First(t) = Of(e).look /\ Follows(t, Of(e).look, Second(t))
  BY <1>1, ClientOnly
<1>3. /\ Control' /\ Others(t)
      /\ First(t)' \in IF ~state[e] THEN {Of(e).block}
                       ELSE IF e = "deletable" THEN {"delete"} ELSE {"idle"}
  <2>1. CASE state[e]
    <3>1. Continue(t, << >>)
      BY <1>1, <2>1
    <3> QED
      BY <1>1, <1>2, <2>1, <3>1, None, Names DEF IInv, Follows
  <2>2. CASE ~state[e]
    <3> DEFINE b == Of(e).block
    <3>1. Continue(t, <<b>>)
      BY <1>1, <2>2
    <3>2. b \in Steps /\ Follows(t, b, Second(t)) /\ Height(First(t)) <= Height(b)
      BY <1>2, Names DEF Steps, Follows, Height
    <3> HIDE DEF b
    <3>3. Control' /\ Others(t) /\ First(t)' = b
      BY <1>1, <1>2, <3>1, <3>2, One DEF IInv
    <3> QED
      BY <2>2, <3>3 DEF b
  <2> QED
    BY <2>1, <2>2
<1>4. /\ First(t) \in Own /\ First(t)' \in Own \cup {"delete"}
      /\ First(t)' = "delete" => state["deletable"]
  BY <1>1, <1>2, <1>3, Names DEF Own
<1>5. Data'
  BY <1>1, <1>2, <1>3, <1>4, OwnStep DEF IInv, Data, Flags
<1>6. Handles'
  <2>1. \A d \in Events : First(Client)' \in {Of(d).look, Of(d).block} => d = e /\ ~state[e]
    BY <1>2, <1>3, Names
  <2>2. event[e] # "none"
    BY <1>2 DEF IInv, Handles
  <2> QED
    BY <1>1, <2>1, <2>2 DEF IInv, Handles
<1> QED
  BY <1>3, <1>5, <1>6 DEF IInv, Data

(* COneShotEvent::WaitFor: the wait returns.                               *)
LEMMA UnblockStep ==
  ASSUME IInv, NEW t \in Threads, NEW e \in Events, Unblock(t, e)
  PROVE  IInv'
<1>1. /\ At(t, Of(e).block) /\ Of(e).block \in Own \ {"idle", "claim"}
      /\ event[e] = "set" /\ Continue(t, << >>)
      /\ UNCHANGED <<waiting, terminated, scheduled, state, event, deleted, queued, transferOwnership, removed, drained, requeued, runs>>
  BY Names DEF Unblock, Own, flagVars, eventVars
<1>2. /\ t = Client /\ ~deleted /\ ~transferOwnership
      /\ todo[t] # << >> /\ First(t) = Of(e).block /\ Follows(t, Of(e).block, Second(t))
  BY <1>1, ClientOnly
<1>3. Control' /\ Others(t) /\ First(t)' = Second(t)
  BY <1>1, <1>2, None DEF IInv
<1>4. First(t)' = (IF e = "deletable" THEN "delete" ELSE "idle") /\ state[e]
  BY <1>1, <1>2, <1>3, Names DEF IInv, Follows, Handles
<1>5. Data'
  BY <1>1, <1>2, <1>3, <1>4, OwnStep DEF IInv, Data, Flags, Own
<1>6. Handles'
  BY <1>1, <1>2, <1>3, <1>4, OtherSteps, Names DEF IInv, eventVars
<1> QED
  BY <1>3, <1>5, <1>6 DEF IInv, Data

(* WaitForEndOrTimeout: its only look at the state.                        *)
LEMMA TimedLookStep ==
  ASSUME IInv, NEW t \in Threads, TimedLook(t)
  PROVE  IInv'
<1>1. /\ At(t, "waitTimed") /\ "waitTimed" \in Own \ {"idle", "claim"}
      /\ Continue(t, IF state["executionDone"] THEN << >> ELSE <<"allocDone", "blockTimed">>)
      /\ UNCHANGED <<waiting, terminated, scheduled, state, event, deleted, queued, transferOwnership, removed, drained, requeued, runs>>
  BY DEF TimedLook, Own, flagVars, eventVars
<1>2. /\ t = Client /\ ~deleted /\ ~transferOwnership
      /\ todo[t] # << >> /\ First(t) = "waitTimed" /\ Follows(t, "waitTimed", Second(t))
  BY <1>1, ClientOnly
<1>3. Control' /\ Others(t) /\ First(t)' \in {"allocDone", "idle"}
  <2>1. CASE state["executionDone"]
    <3>1. Continue(t, << >>)
      BY <1>1, <2>1
    <3> QED
      BY <1>1, <1>2, <3>1, None DEF IInv, Follows
  <2>2. CASE ~state["executionDone"]
    <3>1. Continue(t, <<"allocDone", "blockTimed">>)
      BY <1>1, <2>2
    <3>2. /\ "allocDone" \in Steps /\ "blockTimed" \in Steps
          /\ Follows(t, "allocDone", "blockTimed") /\ Follows(t, "blockTimed", Second(t))
      BY <1>2 DEF Steps, Follows
    <3>3. Height("allocDone") = 2 /\ Height("blockTimed") = 0 /\ Height("waitTimed") = 0
      BY DEF Height
    <3> QED
      BY <1>1, <1>2, <3>1, <3>2, <3>3, Two DEF IInv
  <2> QED
    BY <2>1, <2>2
<1>5. Data'
  BY <1>1, <1>2, <1>3, OwnStep DEF IInv, Data, Flags, Own
<1>6. Handles'
  BY <1>1, <1>2, <1>3, OtherSteps DEF IInv, eventVars
<1> QED
  BY <1>3, <1>5, <1>6 DEF IInv, Data

(* WaitForEndOrTimeout: the wait returns.                                  *)
LEMMA EndTimedStep ==
  ASSUME IInv, NEW t \in Threads, EndTimed(t)
  PROVE  IInv'
<1>1. /\ At(t, "blockTimed") /\ "blockTimed" \in Own \ {"idle", "claim"} /\ Continue(t, << >>)
      /\ UNCHANGED <<waiting, terminated, scheduled, state, event, deleted, queued, transferOwnership, removed, drained, requeued, runs>>
  BY DEF EndTimed, Own, flagVars, eventVars
<1>2. /\ t = Client /\ ~deleted /\ ~transferOwnership
      /\ todo[t] # << >> /\ First(t) = "blockTimed" /\ Follows(t, "blockTimed", Second(t))
  BY <1>1, ClientOnly
<1>3. Control' /\ Others(t) /\ First(t)' = "idle"
  BY <1>1, <1>2, None DEF IInv, Follows
<1>5. Data'
  BY <1>1, <1>2, <1>3, OwnStep DEF IInv, Data, Flags, Own
<1>6. Handles'
  BY <1>1, <1>2, <1>3, OtherSteps DEF IInv, eventVars
<1> QED
  BY <1>3, <1>5, <1>6 DEF IInv, Data

(* Delete: the look at "waiting".                                          *)
LEMMA TestWaitingStep ==
  ASSUME IInv, NEW t \in Threads, TestWaiting(t)
  PROVE  IInv'
<1>1. /\ At(t, "testWaiting") /\ "testWaiting" \in Own \ {"idle", "claim"}
      /\ Continue(t, IF waiting THEN <<"claim">> ELSE << >>)
      /\ UNCHANGED <<waiting, terminated, scheduled, state, event, deleted, queued, transferOwnership, removed, drained, requeued, runs>>
  BY DEF TestWaiting, Own, flagVars, eventVars
<1>2. /\ t = Client /\ ~deleted /\ ~transferOwnership
      /\ todo[t] # << >> /\ First(t) = "testWaiting" /\ Follows(t, "testWaiting", Second(t))
  BY <1>1, ClientOnly
<1>3. Control' /\ Others(t) /\ First(t)' \in {"claim", "waitDeletable"}
  <2>1. CASE waiting
    <3>1. Continue(t, <<"claim">>)
      BY <1>1, <2>1
    <3>2. /\ "claim" \in Steps /\ Follows(t, "claim", Second(t))
          /\ Height("testWaiting") <= Height("claim")
      BY <1>2 DEF Steps, Follows, Height
    <3> QED
      BY <1>1, <1>2, <3>1, <3>2, One DEF IInv
  <2>2. CASE ~waiting
    <3>1. Continue(t, << >>)
      BY <1>1, <2>2
    <3> QED
      BY <1>1, <1>2, <3>1, None DEF IInv, Follows
  <2> QED
    BY <2>1, <2>2
<1>5. Data'
  BY <1>1, <1>2, <1>3, OwnStep DEF IInv, Data, Flags, Own
<1>6. Handles'
  BY <1>1, <1>2, <1>3, OtherSteps DEF IInv, eventVars
<1> QED
  BY <1>3, <1>5, <1>6 DEF IInv, Data

(* The job is deleted.                                                     *)
LEMMA DeleteStep ==
  ASSUME IInv, NEW t \in Threads, DeleteThis(t)
  PROVE  IInv'
<1>0. Data /\ Handles /\ Control
  BY DEF IInv, Data
<1>1. Control' /\ Others(t) /\ First(t) = "delete" /\ First(t)' = "idle" /\ Follows(t, "delete", "idle")
  <2>1. At(t, "delete") /\ UNCHANGED transferOwnership /\ Continue(t, << >>)
    BY DEF DeleteThis
  <2>2. todo[t] # << >> /\ First(t) = "delete" /\ Follows(t, "delete", Second(t))
    BY <1>0, <2>1, Coming
  <2> QED
    BY <1>0, <2>1, <2>2, None DEF Follows
<1>2. /\ deleted' = TRUE
      /\ UNCHANGED <<waiting, terminated, scheduled, state, event, queued, transferOwnership, removed, drained, requeued, runs>>
  BY DEF DeleteThis, flagVars, eventVars
<1>4. t # Client => transferOwnership
  BY <1>1 DEF Follows
<1>3. ~Scheduling /\ (Unscheduled \/ requeued)
  <2>1. CASE t = Client
    BY <1>0, <1>1, <2>1 DEF Data, Deletion, Ownership, Scheduling
  <2>2. CASE t \in Workers
    <3>1. Busy(t) /\ transferOwnership
      BY <1>1, <1>4, <2>2, Who DEF Busy
    <3>2. /\ ~Scheduling /\ ~queued /\ First(Client) \notin {"push", "unschedule"}
          /\ \A w \in Workers : w # t => ~Busy(w)
      BY <1>0, <2>2, <3>1 DEF Data, Places, Ownership, Scheduling
    <3>3. \A w \in Workers : First(w) \notin Holding
      BY <1>1, <3>2 DEF Busy, Holding
    <3> QED
      BY <1>0, <3>2, <3>3 DEF Data, Places, Unscheduled
  <2> QED
    BY <2>1, <2>2 DEF Threads
<1>5. Flags'
  BY <1>0, <1>2 DEF Data, Flags
<1>6. Places'
  BY <1>0, <1>1, <1>2, SamePlace DEF Data, Holding
<1>7. Execution'
  BY <1>0, <1>1, <1>2 DEF Data, Others, Execution, Executing
<1>8. Ownership'
  BY <1>0, <1>1, <1>2, SameOwner DEF Data
<1>9. Deletion'
  <2>1. \A u \in Threads : First(u)' \in {"setDeletable", "signalDeletable", "delete"} => First(u)' = First(u)
    BY <1>1 DEF Others
  <2>2. ~Scheduling' /\ (Unscheduled' \/ requeued')
    BY <1>1, <1>2, <1>3, Who DEF Unscheduled, Scheduling, Others
  <2>3. First(Client)' = "idle"
    BY <1>0, <1>1, <1>3, <1>4, Who DEF Data, Ownership, Scheduling, Others
  <2>4. transferOwnership => \A w \in Workers : ~Busy(w)'
    <3> SUFFICES ASSUME transferOwnership, NEW w \in Workers PROVE First(w)' = "idle"
      BY DEF Busy
    <3>1. t # Client
      BY <1>0, <1>1 DEF Data, Ownership
    <3>2. t \in Workers
      BY <3>1 DEF Threads
    <3> QED
      BY <1>0, <1>1, <3>2, Who DEF Data, Places, Busy, Others
  <2> QED
    BY <1>0, <1>2, <1>3, <2>1, <2>2, <2>3, <2>4 DEF Data, Deletion, Unscheduled
<1>10. Handles'
  BY <1>0, <1>1, <1>2, OtherSteps DEF eventVars
<1> QED
  BY <1>1, <1>5, <1>6, <1>7, <1>8, <1>9, <1>10 DEF IInv

-----------------------------------------------------------------------------
(* Scheduling and the calls                                                *)

(* A thread begins a call of one, two or three steps.                      *)
LEMMA Begins ==
  ASSUME Control, NEW t \in Threads, UNCHANGED transferOwnership,
         NEW a \in Steps, NEW b \in Steps, NEW c \in Steps
  PROVE  /\ todo' = [todo EXCEPT ![t] = <<a>>] /\ Follows(t, a, "idle")
              => Control' /\ Others(t) /\ First(t)' = a
         /\ todo' = [todo EXCEPT ![t] = <<a, b>>] /\ Height(a) > 0
              /\ Follows(t, a, b) /\ Follows(t, b, "idle")
              => Control' /\ Others(t) /\ First(t)' = a
         /\ todo' = [todo EXCEPT ![t] = <<a, b, c>>] /\ Height(a) > 1 /\ Height(b) > 0
              /\ Follows(t, a, b) /\ Follows(t, b, c) /\ Follows(t, c, "idle")
              => Control' /\ Others(t) /\ First(t)' = a
<1>h. Height(a) \in Nat /\ Height(b) \in Nat /\ Height(c) \in Nat
  BY DEF Height
<1>1. ASSUME todo' = [todo EXCEPT ![t] = <<a>>], Follows(t, a, "idle")
      PROVE  Control' /\ Others(t) /\ First(t)' = a
  <2> DEFINE p == <<a>>
  <2>1. p \in Seq(Steps) /\ Len(p) = 1 /\ p[1] = a
    OBVIOUS
  <2>2. todo' = [todo EXCEPT ![t] = p]
    BY <1>1
  <2> HIDE DEF p
  <2>3. Call(t, p)
    BY <1>h, <1>1, <2>1 DEF Call, After
  <2>4. After(p, 0) = a
    BY <2>1 DEF After
  <2> QED
    BY <2>2, <2>3, <2>4, Becomes
<1>2. ASSUME todo' = [todo EXCEPT ![t] = <<a, b>>], Height(a) > 0,
             Follows(t, a, b), Follows(t, b, "idle")
      PROVE  Control' /\ Others(t) /\ First(t)' = a
  <2> DEFINE p == <<a, b>>
  <2>1. p \in Seq(Steps) /\ Len(p) = 2 /\ p[1] = a /\ p[2] = b
    OBVIOUS
  <2>2. todo' = [todo EXCEPT ![t] = p]
    BY <1>2
  <2> HIDE DEF p
  <2>3. \A i \in 1..Len(p) : i = 1 \/ i = 2
    BY <2>1
  <2>4. Call(t, p)
    BY <1>h, <1>2, <2>1, <2>3 DEF Call, After
  <2>5. After(p, 0) = a
    BY <2>1 DEF After
  <2> QED
    BY <2>2, <2>4, <2>5, Becomes
<1>3. ASSUME todo' = [todo EXCEPT ![t] = <<a, b, c>>], Height(a) > 1, Height(b) > 0,
             Follows(t, a, b), Follows(t, b, c), Follows(t, c, "idle")
      PROVE  Control' /\ Others(t) /\ First(t)' = a
  <2> DEFINE p == <<a, b, c>>
  <2>1. p \in Seq(Steps) /\ Len(p) = 3 /\ p[1] = a /\ p[2] = b /\ p[3] = c
    OBVIOUS
  <2>2. todo' = [todo EXCEPT ![t] = p]
    BY <1>3
  <2> HIDE DEF p
  <2>3. \A i \in 1..Len(p) : i = 1 \/ i = 2 \/ i = 3
    BY <2>1
  <2>4. Call(t, p)
    BY <1>h, <1>3, <2>1, <2>3 DEF Call, After
  <2>5. After(p, 0) = a
    BY <2>1 DEF After
  <2> QED
    BY <2>2, <2>4, <2>5, Becomes
<1> QED
  BY <1>1, <1>2, <1>3

(* Schedule: the exchange of "scheduled".                                  *)
LEMMA OnScheduleStep ==
  ASSUME IInv, NEW t \in Threads, OnSchedule(t)
  PROVE  IInv'
<1>0. Data /\ Handles /\ Control
  BY DEF IInv, Data
<1>1. t = Client /\ Control' /\ Others(t) /\ First(t) = "onSchedule" /\ First(t)' = "push"
  <2>1. At(t, "onSchedule") /\ UNCHANGED transferOwnership /\ Continue(t, << >>)
    BY DEF OnSchedule
  <2>2. todo[t] # << >> /\ First(t) = "onSchedule" /\ Follows(t, "onSchedule", Second(t))
    BY <1>0, <2>1, Coming
  <2> QED
    BY <1>0, <2>1, <2>2, None DEF Follows, WorkerSteps
<1>2. /\ scheduled' = TRUE
      /\ UNCHANGED <<waiting, terminated, state, event, deleted, queued, transferOwnership, removed, drained, requeued, runs>>
  BY DEF OnSchedule, eventVars
<1>3. \A w \in Workers : First(w)' = First(w)
  BY <1>1, Who DEF Others
<1>5. Flags'
  BY <1>0, <1>2 DEF Data, Flags
<1>6. Places'
  BY <1>0, <1>1, <1>2, <1>3 DEF Data, Places, Busy, Scheduling, Holding
<1>7. Execution'
  BY <1>0, <1>1, <1>2 DEF Data, Others, Execution, Executing
<1>8. Ownership'
  BY <1>0, <1>1, <1>2, <1>3 DEF Data, Ownership, Scheduling
<1>9. Deletion'
  BY <1>0, <1>1, <1>2, Who DEF Data, Others, Deletion, Unscheduled, Scheduling, Busy
<1>10. Handles'
  BY <1>0, <1>1, <1>2, OtherSteps DEF eventVars
<1> QED
  BY <1>1, <1>5, <1>6, <1>7, <1>8, <1>9, <1>10 DEF IInv

(* Schedule: the job enters the queue.                                     *)
LEMMA PushStep ==
  ASSUME IInv, NEW t \in Threads, Push(t)
  PROVE  IInv'
<1>0. Data /\ Handles /\ Control
  BY DEF IInv, Data
<1>1. t = Client /\ Control' /\ Others(t) /\ First(t) = "push" /\ First(t)' = "idle"
  <2>1. At(t, "push") /\ UNCHANGED transferOwnership /\ Continue(t, << >>)
    BY DEF Push
  <2>2. todo[t] # << >> /\ First(t) = "push" /\ Follows(t, "push", Second(t))
    BY <1>0, <2>1, Coming
  <2> QED
    BY <1>0, <2>1, <2>2, None DEF Follows, WorkerSteps
<1>2. /\ queued' = TRUE
      /\ UNCHANGED <<waiting, terminated, scheduled, state, event, deleted, transferOwnership, removed, drained, requeued, runs>>
  BY DEF Push, eventVars, flagVars
<1>3. \A w \in Workers : First(w)' = First(w)
  BY <1>1, Who DEF Others
<1>5. Flags'
  BY <1>0, <1>2 DEF Data, Flags
<1>6. Places'
  BY <1>0, <1>1, <1>2, <1>3 DEF Data, Places, Busy, Scheduling, Holding
<1>7. Execution'
  BY <1>0, <1>1, <1>2 DEF Data, Others, Execution, Executing
<1>8. Ownership'
  BY <1>0, <1>1, <1>2, <1>3 DEF Data, Places, Scheduling, Ownership
<1>9. Deletion'
  BY <1>0, <1>1, <1>2, Who DEF Data, Others, Deletion, Unscheduled, Scheduling, Busy
<1>10. Handles'
  BY <1>0, <1>1, <1>2, OtherSteps DEF eventVars
<1> QED
  BY <1>1, <1>5, <1>6, <1>7, <1>8, <1>9, <1>10 DEF IInv

(* A thread of the scheduler takes the job out of the queue.               *)
LEMMA TakeStep ==
  ASSUME IInv, NEW w \in Workers, Take(w)
  PROVE  IInv'
<1>0. Data /\ Handles /\ Control /\ w \in Threads /\ w # Client
  BY Who DEF IInv, Data
<1>1. Control' /\ Others(w) /\ First(w) = "idle" /\ First(w)' = "claim"
  <2> DEFINE d == IF transferOwnership THEN <<"delete">> ELSE << >>
             p == <<"claim", "unschedule">> \o d
  <2>1. /\ "claim" \in Steps /\ "unschedule" \in Steps /\ "delete" \in Steps
        /\ Height("claim") = 2 /\ Height("unschedule") = 1 /\ Height("delete") = 0
    BY DEF Steps, Height
  <2>2. /\ todo[w] = << >> /\ UNCHANGED transferOwnership
        /\ todo' = [todo EXCEPT ![w] = p]
    BY DEF Take
  <2>3. d \in Seq(Steps)
        /\ (transferOwnership => Len(d) = 1 /\ d[1] = "delete")
        /\ (~transferOwnership => Len(d) = 0)
    BY <2>1
  <2>4. /\ p \in Seq(Steps) /\ Len(p) = 2 + Len(d) /\ p[1] = "claim" /\ p[2] = "unschedule"
        /\ Len(d) = 1 => p[3] = d[1]
    BY <2>1, <2>3
  <2> HIDE DEF d, p
  <2>5. \A i \in 1..Len(p) : i = 1 \/ i = 2 \/ (i = 3 /\ transferOwnership)
    <3>1. CASE transferOwnership
      <4>1. Len(d) = 1
        BY <2>3, <3>1
      <4>2. Len(p) = 3
        BY <2>4, <4>1
      <4> QED
        BY <3>1, <4>2
    <3>2. CASE ~transferOwnership
      <4>1. Len(p) = 2
        BY <2>3, <2>4, <3>2
      <4> QED
        BY <4>1
    <3> QED
      BY <3>1, <3>2
  <2>6. /\ Follows(w, "claim", "unschedule") /\ Follows(w, "unschedule", Last)
        /\ transferOwnership => Follows(w, "delete", "idle")
    BY <1>0 DEF Follows, WorkerSteps
  <2>7. /\ After(p, 1) = "unschedule" /\ After(p, 2) = Last
        /\ transferOwnership => After(p, 3) = "idle"
    <3>1. CASE transferOwnership
      <4>1. Len(d) = 1 /\ d[1] = "delete"
        BY <2>3, <3>1
      <4>2. Len(p) = 3 /\ p[2] = "unschedule" /\ p[3] = "delete"
        BY <2>4, <4>1
      <4> QED
        BY <3>1, <4>2 DEF After, Last
    <3>2. CASE ~transferOwnership
      BY <2>3, <2>4, <3>2 DEF After, Last
    <3> QED
      BY <3>1, <3>2
  <2>8. Call(w, p)
    BY <2>1, <2>3, <2>4, <2>5, <2>6, <2>7 DEF Call
  <2>9. After(p, 0) = "claim"
    BY <2>3, <2>4 DEF After
  <2> QED
    BY <1>0, <2>2, <2>8, <2>9, Becomes, Idle
<1>2. /\ queued /\ queued' = FALSE /\ ~deleted
      /\ UNCHANGED <<waiting, terminated, scheduled, state, event, deleted, transferOwnership, removed, drained, requeued, runs>>
  BY DEF Take, eventVars, flagVars
<1>3. /\ First(Client)' = First(Client)
      /\ \A v \in Workers : v # w => First(v)' = "idle"
  BY <1>0, <1>1, <1>2, Who DEF Data, Places, Busy, Others
<1>4. scheduled /\ ~Scheduling /\ ~removed /\ First(Client) \notin {"push", "unschedule", "testDone"}
  BY <1>0, <1>2 DEF Data, Places, Scheduling
<1>5. Flags'
  BY <1>0, <1>2 DEF Data, Flags
<1>6. Places'
  BY <1>1, <1>2, <1>3, <1>4 DEF Places, Busy, Scheduling, Holding
<1>7. Execution'
  BY <1>0, <1>1, <1>2 DEF Data, Others, Execution, Executing
<1>8. Ownership'
  BY <1>0, <1>1, <1>2, <1>3, <1>4 DEF Data, Ownership, Scheduling
<1>9. Deletion'
  BY <1>0, <1>1, <1>2, <1>4, Who DEF Data, Others, Deletion, Unscheduled, Scheduling, Busy
<1>10. Handles'
  BY <1>0, <1>1, <1>2, OtherSteps DEF eventVars
<1> QED
  BY <1>1, <1>5, <1>6, <1>7, <1>8, <1>9, <1>10 DEF IInv

(* The job of a stopped scheduler is taken out of the queue.               *)
LEMMA DrainStep ==
  ASSUME IInv, NEW w \in Workers, Drain(w)
  PROVE  IInv'
<1>0. Data /\ Handles /\ Control /\ w \in Threads /\ w # Client
  BY Who DEF IInv, Data
<1>1. Control' /\ Others(w) /\ First(w) = "idle" /\ First(w)' = "unschedule"
  <2> DEFINE d == IF transferOwnership THEN <<"delete">> ELSE << >>
             p == <<"unschedule">> \o d
  <2>1. /\ "unschedule" \in Steps /\ "delete" \in Steps
        /\ Height("unschedule") = 1 /\ Height("delete") = 0
    BY DEF Steps, Height
  <2>2. /\ todo[w] = << >> /\ UNCHANGED transferOwnership
        /\ todo' = [todo EXCEPT ![w] = p]
    BY DEF Drain
  <2>3. d \in Seq(Steps)
        /\ (transferOwnership => Len(d) = 1 /\ d[1] = "delete")
        /\ (~transferOwnership => Len(d) = 0)
    BY <2>1
  <2>4. /\ p \in Seq(Steps) /\ Len(p) = 1 + Len(d) /\ p[1] = "unschedule"
        /\ Len(d) = 1 => p[2] = d[1]
    BY <2>1, <2>3
  <2> HIDE DEF d, p
  <2>5. Call(w, p) /\ After(p, 0) = "unschedule"
    <3>1. CASE transferOwnership
      <4>1. Len(d) = 1 /\ d[1] = "delete"
        BY <2>3, <3>1
      <4>2. Len(p) = 2 /\ p[1] = "unschedule" /\ p[2] = "delete"
        BY <2>4, <4>1
      <4>3. Follows(w, "unschedule", "delete") /\ Follows(w, "delete", "idle")
        BY <1>0, <3>1 DEF Follows, WorkerSteps, Last
      <4>4. \A i \in 1..Len(p) : i = 1 \/ i = 2
        BY <4>2
      <4>5. After(p, 0) = "unschedule" /\ After(p, 1) = "delete" /\ After(p, 2) = "idle"
        BY <4>2 DEF After
      <4>6. Call(w, p)
        BY <2>1, <2>4, <4>2, <4>3, <4>4, <4>5 DEF Call
      <4> QED
        BY <4>5, <4>6
    <3>2. CASE ~transferOwnership
      <4>1. Len(p) = 1
        BY <2>3, <2>4, <3>2
      <4>2. Follows(w, "unschedule", "idle")
        BY <1>0, <3>2 DEF Follows, WorkerSteps, Last
      <4>3. \A i \in 1..Len(p) : i = 1
        BY <4>1
      <4> QED
        BY <2>1, <2>4, <4>1, <4>2, <4>3 DEF Call, After
    <3> QED
      BY <3>1, <3>2
  <2> QED
    BY <1>0, <2>2, <2>5, Becomes, Idle
<1>2. /\ queued /\ queued' = FALSE /\ drained' = TRUE /\ ~deleted
      /\ UNCHANGED <<waiting, terminated, scheduled, state, event, deleted, transferOwnership, removed, requeued, runs>>
  BY DEF Drain, eventVars, flagVars
<1>3. /\ First(Client)' = First(Client)
      /\ \A v \in Workers : v # w => First(v)' = "idle"
  BY <1>0, <1>1, <1>2, Who DEF Data, Places, Busy, Others
<1>4. scheduled /\ ~Scheduling /\ ~removed /\ First(Client) \notin {"push", "unschedule", "testDone"}
  BY <1>0, <1>2 DEF Data, Places, Scheduling
<1>5. Flags'
  BY <1>0, <1>2 DEF Data, Flags
<1>6. Places'
  BY <1>1, <1>2, <1>3, <1>4 DEF Places, Busy, Scheduling, Holding
<1>7. Execution'
  BY <1>0, <1>1, <1>2 DEF Data, Others, Execution, Executing
<1>8. Ownership'
  BY <1>0, <1>1, <1>2, <1>3, <1>4 DEF Data, Ownership, Scheduling
<1>9. Deletion'
  <2>1. \A u \in Threads : First(u)' \in {"setDeletable", "signalDeletable", "delete"} =>
          First(u)' = First(u)
    BY <1>1 DEF Others
  <2>2. ~Scheduling'
    BY <1>3, <1>4 DEF Scheduling
  <2>3. ~Unscheduled
    BY <1>4 DEF Unscheduled
  <2>4. /\ state["deletable"] => state["executionDone"] /\ requeued
        /\ \A u \in Threads : First(u) = "setDeletable" => state["executionDone"] /\ requeued
        /\ \A u \in Threads : First(u) = "signalDeletable" => state["deletable"]
        /\ \A u \in Threads : First(u) = "delete" =>
             state["deletable"] \/ (drained /\ transferOwnership)
    BY <1>0, <2>3 DEF Data, Deletion
  <2> QED
    BY <1>2, <2>1, <2>4 DEF Deletion
<1>10. Handles'
  BY <1>0, <1>1, <1>2, OtherSteps DEF eventVars
<1> QED
  BY <1>1, <1>5, <1>6, <1>7, <1>8, <1>9, <1>10 DEF IInv

(* The client is in no call, and the job is its own.                       *)
LEMMA Free ==
  ASSUME IInv, ClientFree
  PROVE  /\ Control /\ Data /\ Handles /\ Client \in Threads
         /\ First(Client) = "idle" /\ ~deleted /\ ~transferOwnership
BY Who, Idle DEF ClientFree, IInv, Data

(* The client waits.                                                       *)
LEMMA WaitUntilDoneStep ==
  ASSUME IInv, WaitUntilDone
  PROVE  IInv'
<1>0. /\ Control /\ Data /\ Handles /\ Client \in Threads
      /\ First(Client) = "idle" /\ ~deleted /\ ~transferOwnership
  BY Free DEF WaitUntilDone
<1>1. UNCHANGED <<waiting, terminated, scheduled, state, event, deleted, queued, transferOwnership, removed, drained, requeued, runs>>
  BY DEF WaitUntilDone, flagVars, eventVars
<1>2. PICK inlineExecution \in BOOLEAN :
        Calls((IF inlineExecution THEN <<"claim">> ELSE << >>) \o <<"waitDone">>)
  BY DEF WaitUntilDone
<1>3. Control' /\ Others(Client) /\ First(Client)' \in {"claim", "waitDone"}
  <2>1. "claim" \in Steps /\ "waitDone" \in Steps /\ Height("claim") = 2
    BY DEF Steps, Height
  <2>2. Follows(Client, "claim", "waitDone") /\ Follows(Client, "waitDone", "idle")
    BY DEF Follows
  <2> DEFINE c == IF inlineExecution THEN <<"claim">> ELSE << >>
             p == c \o <<"waitDone">>
  <2>3. /\ c \in Seq(Steps) /\ Len(c) = (IF inlineExecution THEN 1 ELSE 0)
        /\ inlineExecution => c[1] = "claim"
    BY <2>1
  <2>4. /\ p \in Seq(Steps) /\ Len(p) = Len(c) + 1 /\ p[Len(c) + 1] = "waitDone"
        /\ Len(c) = 1 => p[1] = c[1]
    BY <2>1, <2>3
  <2>5. todo' = [todo EXCEPT ![Client] = p]
    BY <1>2 DEF Calls
  <2> HIDE DEF c, p
  <2>6. CASE inlineExecution
    <3>1. Len(p) = 2 /\ p[1] = "claim" /\ p[2] = "waitDone"
      BY <2>3, <2>4, <2>6
    <3>2. \A i \in 1..Len(p) : i = 1 \/ i = 2
      BY <3>1
    <3>3. Call(Client, p)
      BY <2>1, <2>2, <2>4, <3>1, <3>2 DEF Call, After, Height
    <3>4. After(p, 0) = "claim"
      BY <3>1 DEF After
    <3> QED
      BY <1>0, <1>1, <2>5, <3>3, <3>4, Becomes
  <2>7. CASE ~inlineExecution
    <3>1. Len(p) = 1 /\ p[1] = "waitDone"
      BY <2>3, <2>4, <2>7
    <3>2. \A i \in 1..Len(p) : i = 1
      BY <3>1
    <3>3. Call(Client, p)
      BY <2>1, <2>2, <2>4, <3>1, <3>2 DEF Call, After, Height
    <3>4. After(p, 0) = "waitDone"
      BY <3>1 DEF After
    <3> QED
      BY <1>0, <1>1, <2>5, <3>3, <3>4, Becomes
  <2> QED
    BY <2>6, <2>7
<1>4. Data'
  BY <1>0, <1>1, <1>3, OwnStep DEF Data, Flags, Own
<1>5. Handles'
  BY <1>0, <1>1, <1>3, OtherSteps DEF eventVars
<1> QED
  BY <1>3, <1>4, <1>5 DEF IInv, Data

(* The client waits for some time.                                         *)
LEMMA WaitUntilDoneOrTimeoutStep ==
  ASSUME IInv, WaitUntilDoneOrTimeout
  PROVE  IInv'
<1>0. /\ Control /\ Data /\ Handles /\ Client \in Threads
      /\ First(Client) = "idle" /\ ~deleted /\ ~transferOwnership
  BY Free DEF WaitUntilDoneOrTimeout
<1>1. UNCHANGED <<waiting, terminated, scheduled, state, event, deleted, queued, transferOwnership, removed, drained, requeued, runs>>
  BY DEF WaitUntilDoneOrTimeout, flagVars, eventVars
<1>3. Control' /\ Others(Client) /\ First(Client)' = "waitTimed"
  <2>1. "waitTimed" \in Steps /\ Follows(Client, "waitTimed", "idle")
    BY DEF Steps, Follows
  <2>2. todo' = [todo EXCEPT ![Client] = <<"waitTimed">>]
    BY DEF WaitUntilDoneOrTimeout, Calls
  <2> QED
    BY <1>0, <1>1, <2>1, <2>2, Begins
<1>4. Data'
  BY <1>0, <1>1, <1>3, OwnStep DEF Data, Flags, Own
<1>5. Handles'
  BY <1>0, <1>1, <1>3, OtherSteps DEF eventVars
<1> QED
  BY <1>3, <1>4, <1>5 DEF IInv, Data

(* The client calls Delete.                                                *)
LEMMA DeleteCallStep ==
  ASSUME IInv, Delete
  PROVE  IInv'
<1>0. /\ Control /\ Data /\ Handles /\ Client \in Threads
      /\ First(Client) = "idle" /\ ~deleted /\ ~transferOwnership
  BY Free DEF Delete
<1>1. /\ terminated' \in BOOLEAN
      /\ UNCHANGED <<waiting, scheduled, state, event, deleted, queued, transferOwnership, removed, drained, requeued, runs>>
  BY DEF Delete, eventVars
<1>3. Control' /\ Others(Client) /\ First(Client)' = "testWaiting"
  <2>1. "testWaiting" \in Steps /\ "waitDeletable" \in Steps /\ "delete" \in Steps
    BY DEF Steps
  <2>2. /\ Follows(Client, "testWaiting", "waitDeletable")
        /\ Follows(Client, "waitDeletable", "delete") /\ Follows(Client, "delete", "idle")
    BY DEF Follows
  <2>3. Height("testWaiting") > 1 /\ Height("waitDeletable") > 0
    BY DEF Height
  <2>4. todo' = [todo EXCEPT ![Client] = <<"testWaiting", "waitDeletable", "delete">>]
    BY DEF Delete, Calls
  <2> QED
    BY <1>0, <1>1, <2>1, <2>2, <2>3, <2>4, Begins
<1>4. Data'
  BY <1>0, <1>1, <1>3, OwnStep DEF Data, Flags, Own
<1>5. Handles'
  BY <1>0, <1>1, <1>3, OtherSteps DEF eventVars
<1> QED
  BY <1>3, <1>4, <1>5 DEF IInv, Data

(* The client takes the job out of the queue.                              *)
LEMMA RemoveJobFromQueueStep ==
  ASSUME IInv, RemoveJobFromQueue
  PROVE  IInv'
<1>0. /\ Control /\ Data /\ Handles /\ Client \in Threads
      /\ First(Client) = "idle" /\ ~deleted /\ ~transferOwnership
  BY Free DEF RemoveJobFromQueue
<1>1. /\ queued /\ queued' = FALSE /\ removed' = TRUE
      /\ UNCHANGED <<waiting, terminated, scheduled, state, event, deleted, transferOwnership, drained, requeued, runs>>
  BY DEF RemoveJobFromQueue, flagVars, eventVars
<1>2. Control' /\ Others(Client) /\ First(Client)' = "unschedule"
  <2>1. "unschedule" \in Steps /\ Follows(Client, "unschedule", "idle")
    BY DEF Steps, Follows
  <2>2. todo' = [todo EXCEPT ![Client] = <<"unschedule">>]
    BY DEF RemoveJobFromQueue, Calls
  <2> QED
    BY <1>0, <1>1, <2>1, <2>2, Begins
<1>3. \A w \in Workers : First(w)' = First(w) /\ First(w) = "idle"
  BY <1>0, <1>1, <1>2, Who DEF Data, Places, Busy, Others
<1>4. scheduled
  BY <1>0, <1>1 DEF Data, Places
<1>5. Flags'
  BY <1>0, <1>1 DEF Data, Flags
<1>6. Places'
  BY <1>1, <1>2, <1>3, <1>4 DEF Places, Busy, Scheduling, Holding
<1>7. Execution'
  BY <1>0, <1>1, <1>2 DEF Data, Others, Execution, Executing
<1>8. Ownership'
  BY <1>0, <1>1 DEF Ownership
<1>9. Deletion'
  BY <1>0, <1>1, <1>2, <1>4, Who DEF Data, Others, Deletion, Unscheduled, Scheduling, Busy
<1>10. Handles'
  BY <1>0, <1>1, <1>2, OtherSteps DEF eventVars
<1> QED
  BY <1>2, <1>5, <1>6, <1>7, <1>8, <1>9, <1>10 DEF IInv

(* The client puts it back.                                                *)
LEMMA ScheduleAgainStep ==
  ASSUME IInv, ScheduleAgain
  PROVE  IInv'
<1>0. /\ Control /\ Data /\ Handles /\ Client \in Threads
      /\ First(Client) = "idle" /\ ~deleted /\ ~transferOwnership
  BY Free DEF ScheduleAgain
<1>1. /\ removed /\ removed' = FALSE /\ requeued' = (requeued \/ ~waiting)
      /\ UNCHANGED <<waiting, terminated, scheduled, state, event, deleted, queued, transferOwnership, drained, runs>>
  BY DEF ScheduleAgain, flagVars, eventVars
<1>2. Control' /\ Others(Client) /\ First(Client)' = "onSchedule"
  <2>1. "onSchedule" \in Steps /\ "push" \in Steps /\ Height("onSchedule") > 0
    BY DEF Steps, Height
  <2>2. Follows(Client, "onSchedule", "push") /\ Follows(Client, "push", "idle")
    BY DEF Follows
  <2>3. todo' = [todo EXCEPT ![Client] = <<"onSchedule", "push">>]
    BY DEF ScheduleAgain, Calls
  <2> QED
    BY <1>0, <1>1, <2>1, <2>2, <2>3, Begins
<1>3. \A w \in Workers : First(w)' = First(w) /\ First(w) = "idle"
  BY <1>0, <1>1, <1>2, Who DEF Data, Places, Busy, Others
<1>4. ~scheduled /\ ~queued
  BY <1>0, <1>1, <1>3 DEF Data, Places, Holding
<1>5. Flags'
  BY <1>0, <1>1 DEF Data, Flags
<1>6. Places'
  BY <1>1, <1>2, <1>3, <1>4 DEF Places, Busy, Scheduling, Holding
<1>7. Execution'
  BY <1>0, <1>1, <1>2 DEF Data, Others, Execution, Executing
<1>8. Ownership'
  BY <1>0, <1>1 DEF Ownership
<1>9. Deletion'
  <2>1. \A u \in Threads :
          First(u)' \in {"setDeletable", "signalDeletable", "delete"} => First(u) = First(u)'
    BY <1>2 DEF Others
  <2>2. state["executionDone"] => requeued'
    BY <1>0, <1>1 DEF Data, Execution, Flags
  <2> QED
    BY <1>0, <1>1, <2>1, <2>2 DEF Data, Deletion
<1>10. Handles'
  BY <1>0, <1>1, <1>2, OtherSteps DEF eventVars
<1> QED
  BY <1>2, <1>5, <1>6, <1>7, <1>8, <1>9, <1>10 DEF IInv

(* Where no call begins or goes on.                                        *)
LEMMA Unmoved ==
  ASSUME IInv, terminated' \in BOOLEAN,
         UNCHANGED <<waiting, scheduled, eventVars, deleted, queued, transferOwnership, removed, drained, requeued, todo, runs>>
  PROVE  IInv'
<1>1. \A t \in Threads : First(t)' = First(t)
  BY DEF First
<1>2. Control'
  BY DEF IInv, Control, Call, Follows, Last
<1>3. Flags' /\ Execution' /\ Deletion' /\ Handles' /\ Ownership' /\ Places'
  <2>1. \A w \in Workers : First(w)' = First(w) /\ w \in Threads
    BY <1>1, Who
  <2>2. First(Client)' = First(Client)
    BY <1>1, Who
  <2>3. Flags'
    BY DEF IInv, Flags, eventVars
  <2>4. Execution'
    BY <1>1 DEF IInv, Execution, Executing, eventVars
  <2>5. Deletion'
    BY <1>1, <2>1, <2>2 DEF IInv, Deletion, Unscheduled, Scheduling, Busy, eventVars
  <2>6. Handles'
    BY <1>1, <2>2 DEF IInv, Handles, eventVars
  <2>7. Ownership'
    BY <2>1, <2>2 DEF IInv, Ownership, Scheduling, eventVars
  <2>8. Places'
    BY <2>1, <2>2 DEF IInv, Places, Busy, Scheduling
  <2> QED
    BY <2>3, <2>4, <2>5, <2>6, <2>7, <2>8
<1> QED
  BY <1>2, <1>3 DEF IInv

(* The job as it is when its constructor has ended.                        *)
LEMMA InitIInv == Init => IInv
<1> SUFFICES ASSUME Init PROVE IInv
  OBVIOUS
<1> DEFINE p == <<"onSchedule", "push">>
<1>1. /\ p \in Seq(Steps) /\ Len(p) = 2 /\ p[1] = "onSchedule" /\ p[2] = "push"
      /\ p # << >> /\ Head(p) = "onSchedule" /\ << >> \in Seq(Steps)
  BY DEF Steps
<1>2. todo = [t \in Threads |-> IF t = Client THEN p ELSE << >>]
  BY DEF Init
<1>3. /\ waiting = TRUE /\ terminated = FALSE /\ scheduled = FALSE
      /\ state = [e \in Events |-> FALSE] /\ event = [e \in Events |-> "none"]
      /\ deleted = FALSE /\ queued = FALSE
      /\ removed = FALSE /\ drained = FALSE /\ requeued = FALSE
      /\ transferOwnership \in BOOLEAN /\ runs = 0
  BY DEF Init
<1> HIDE DEF p
<1>4. /\ First(Client) = "onSchedule"
      /\ \A t \in Threads : t # Client => First(t) = "idle"
      /\ \A w \in Workers : First(w) = "idle"
  BY <1>1, <1>2, Who DEF First
<1>5. Control
  <2>1. Call(Client, p)
    <3>1. Follows(Client, "onSchedule", "push") /\ Follows(Client, "push", "idle")
      BY DEF Follows
    <3>2. Height("onSchedule") = 1 /\ Height("push") = 0
      BY DEF Height
    <3>3. \A i \in 1..Len(p) : i = 1 \/ i = 2
      BY <1>1
    <3> QED
      BY <1>1, <3>1, <3>2, <3>3 DEF Call, After
  <2>2. \A t \in Threads : Call(t, << >>)
    BY <1>1 DEF Call
  <2> QED
    BY <1>1, <1>2, <2>1, <2>2 DEF Control
<1>6. Flags
  BY <1>3 DEF Flags
<1>7. Places
  BY <1>3, <1>4 DEF Places, Busy, Scheduling, Holding
<1>8. Execution
  BY <1>3, <1>4 DEF Execution, Executing, Events
<1>9. Ownership
  BY <1>3, <1>4 DEF Ownership
<1>10. Deletion
  BY <1>3, <1>4 DEF Deletion, Events
<1>11. Handles
  BY <1>3, <1>4, Names DEF Handles
<1> QED
  BY <1>5, <1>6, <1>7, <1>8, <1>9, <1>10, <1>11 DEF IInv

(* IInv is inductive.                                                      *)
LEMMA NextIInv == IInv /\ [Next]_vars => IInv'
<1> SUFFICES ASSUME IInv, [Next]_vars PROVE IInv'
  OBVIOUS
<1>1. ASSUME NEW t \in Threads, Step(t) PROVE IInv'
  <2>1. CASE OnSchedule(t) \/ Push(t) \/ Claim(t) \/ Run(t) \/ TestScheduled(t) \/ Unschedule(t)
    BY <2>1, OnScheduleStep, PushStep, ClaimStep, RunStep, TestScheduledStep, UnscheduleStep
  <2>2. CASE TestDone(t) \/ TimedLook(t) \/ EndTimed(t) \/ TestWaiting(t) \/ DeleteThis(t)
    BY <2>2, TestDoneStep, TimedLookStep, EndTimedStep, TestWaitingStep, DeleteStep
  <2>3. ASSUME NEW e \in Events,
               \/ SetState(t, e) \/ SignalEvent(t, e)
               \/ FirstLook(t, e) \/ AutoAlloc(t, e) \/ SecondLook(t, e) \/ Unblock(t, e)
        PROVE  IInv'
    <3>1. e = "executionDone" \/ e = "deletable"
      BY DEF Events
    <3> QED
      BY <2>3, <3>1, SetDoneStep, SetDeletableStep, SignalStep, FirstLookStep, AutoAllocStep,
         SecondLookStep, UnblockStep
  <2> QED
    BY <1>1, <2>1, <2>2, <2>3 DEF Step
<1>2. ASSUME NEW w \in Workers, Take(w) \/ Drain(w) PROVE IInv'
  BY <1>2, TakeStep, DrainStep
<1>3. CASE WaitUntilDone
  BY <1>3, WaitUntilDoneStep
<1>4. CASE WaitUntilDoneOrTimeout
  BY <1>4, WaitUntilDoneOrTimeoutStep
<1>5. CASE RemoveJobFromQueue
  BY <1>5, RemoveJobFromQueueStep
<1>6. CASE ScheduleAgain
  BY <1>6, ScheduleAgainStep
<1>7. CASE Terminate
  BY <1>7, Unmoved DEF Terminate
<1>8. CASE Delete
  BY <1>8, DeleteCallStep
<1>9. CASE UNCHANGED vars
  BY <1>9, Unmoved DEF vars, flagVars, IInv, Flags
<1> QED
  BY <1>1, <1>2, <1>3, <1>4, <1>5, <1>6, <1>7, <1>8, <1>9 DEF Next

-----------------------------------------------------------------------------
(* What follows                                                            *)

(* A step that is still to come and concerns the execution comes next, or  *)
(* after "run".                                                            *)
LEMMA ExecutingAt ==
  ASSUME Control, NEW t \in Threads, NEW i \in 1..Len(todo[t]), todo[t][i] \in {"run", "setDone"}
  PROVE  Executing(t)
<1> DEFINE call == todo[t]
<1>1. /\ call \in Seq(Steps) /\ Len(call) \in Nat
      /\ \A j \in 1..Len(call) : Follows(t, call[j], After(call, j)) /\ call[j] \in Steps
  BY DEF Control, Call
<1>2. call # << >> /\ First(t) = call[1]
  BY <1>1 DEF First
<1> HIDE DEF call
<1>3. \A j \in 2..Len(call) : call[j] # "run" /\ (call[j] = "setDone" => call[j - 1] = "run")
  <2> TAKE j \in 2..Len(call)
  <2>1. j - 1 \in 1..Len(call) /\ j \in 1..Len(call) /\ After(call, j - 1) = call[j]
    BY <1>1 DEF After
  <2>2. Follows(t, call[j - 1], call[j]) /\ call[j - 1] \in Steps
    BY <1>1, <2>1
  <2> QED
    BY <2>2 DEF Follows, Steps, Last
<1>4. i \in 1..Len(call) /\ call[i] \in {"run", "setDone"}
  BY DEF call
<1>5. CASE i = 1
  BY <1>2, <1>4, <1>5 DEF Executing
<1>6. CASE i > 1
  <2>1. call[i] = "setDone" /\ call[i - 1] = "run"
    BY <1>1, <1>3, <1>4, <1>6
  <2>2. i - 1 = 1
    BY <1>1, <1>3, <1>4, <1>6, <2>1
  <2> QED
    BY <1>2, <2>1, <2>2 DEF Executing
<1> QED
  BY <1>1, <1>4, <1>5, <1>6

(* Who comes first in a call of one step comes last.                       *)
LEMMA Alone ==
  ASSUME Control, NEW t \in Threads, Follows(t, First(t), "idle"),
         \A y \in Steps : ~Follows(t, First(t), y)
  PROVE  \A i \in 1..Len(todo[t]) : todo[t][i] = First(t)
<1> DEFINE call == todo[t]
<1>1. /\ call \in Seq(Steps) /\ Len(call) \in Nat
      /\ \A j \in 1..Len(call) : Follows(t, call[j], After(call, j)) /\ call[j] \in Steps
  BY DEF Control, Call
<1>2. Len(call) > 0 => First(t) = call[1]
  BY <1>1 DEF First
<1> HIDE DEF call
<1>3. ~(Len(call) > 1)
  <2> SUFFICES ASSUME Len(call) > 1 PROVE FALSE
    OBVIOUS
  <2>1. Follows(t, call[1], call[2]) /\ call[2] \in Steps
    BY <1>1 DEF After
  <2> QED
    BY <1>1, <1>2, <2>1
<1> QED
  BY <1>1, <1>2, <1>3 DEF call

(* When the job is deleted all calls but its endings are over: who holds a *)
(* job that belongs to the client is at one of them, and nobody holds      *)
(* another one.                                                            *)
LEMMA NobodyLeft ==
  ASSUME IInv
  PROVE  requeued \/ NotDeletedInQueue
<1> SUFFICES ASSUME deleted, ~requeued
             PROVE  ~queued /\ \A t \in Threads : \A i \in DOMAIN todo[t] : todo[t][i] \in Endings
  BY DEF NotDeletedInQueue, InUse
<1>1. ~scheduled /\ First(Client) = "idle"
      /\ (transferOwnership => \A w \in Workers : ~Busy(w))
  BY DEF IInv, Deletion, Unscheduled
<1>2. ~queued /\ \A w \in Workers : First(w) \notin Holding
  BY <1>1 DEF IInv, Places
<1>3. ASSUME NEW t \in Threads, NEW i \in DOMAIN todo[t] PROVE todo[t][i] \in Endings
  <2>1. todo[t] \in Seq(Steps) /\ i \in 1..Len(todo[t]) /\ First(t) = todo[t][1] /\ First(t) \in Steps
    BY DEF IInv, Control, First
  <2>2. t \in Workers /\ ~transferOwnership
    BY <1>1, <2>1 DEF Threads, Steps, Busy
  <2>3. Follows(t, First(t), Second(t))
    BY <2>1 DEF IInv, Control, Call, Second
  <2>4. First(t) \in {"testDone", "setDeletable", "signalDeletable"}
    BY <1>2, <2>2, <2>3, Who DEF Follows, WorkerSteps, Holding
  <2>5. Follows(t, First(t), "idle") /\ \A y \in Steps : ~Follows(t, First(t), y)
    BY <2>2, <2>4, Who DEF Follows, Last, Steps, WorkerSteps
  <2> QED
    BY <2>1, <2>4, <2>5, Alone DEF Endings, IInv
<1> QED
  BY <1>2, <1>3

(* The properties follow from the invariant.                               *)
LEMMA Follow == IInv => JobInv
<1> SUFFICES ASSUME IInv PROVE JobInv
  OBVIOUS
<1>0. Control /\ Flags /\ Places /\ Execution /\ Ownership /\ Deletion /\ Handles
  BY DEF IInv
<1>1. TypeOK
  <2>1. ASSUME NEW t \in Threads
        PROVE  Len(todo[t]) <= 5 /\ \A i \in 1..Len(todo[t]) : todo[t][i] \in Steps
    <3>1. /\ todo[t] \in Seq(Steps) /\ Len(todo[t]) \in Nat
          /\ \A i \in 1..Len(todo[t]) : todo[t][i] \in Steps /\ Len(todo[t]) - i <= Height(todo[t][i])
      BY <1>0 DEF Control, Call
    <3>2. CASE Len(todo[t]) = 0
      BY <3>1, <3>2
    <3>3. CASE Len(todo[t]) # 0
      <4>1. Len(todo[t]) - 1 <= Height(todo[t][1])
        BY <3>1, <3>3
      <4>2. Height(todo[t][1]) \in 0..4
        BY DEF Height
      <4> QED
        BY <3>1, <4>1, <4>2
    <3> QED
      BY <3>2, <3>3
  <2> QED
    BY <1>0, <2>1 DEF Flags, TypeOK
<1>2. OneExecutor
  <2> DEFINE executors == {t \in Threads : \E i \in DOMAIN todo[t] : todo[t][i] \in {"run", "setDone"}}
  <2>1. \A t \in executors : t \in Threads /\ Executing(t)
    <3> TAKE t \in executors
    <3>1. PICK i \in DOMAIN todo[t] : todo[t][i] \in {"run", "setDone"}
      OBVIOUS
    <3>2. DOMAIN todo[t] = 1..Len(todo[t])
      BY <1>0 DEF Control
    <3> QED
      BY <1>0, <3>1, <3>2, ExecutingAt
  <2> HIDE DEF executors
  <2>2. CASE executors = {}
    BY <2>2, FS_EmptySet DEF OneExecutor, executors
  <2>3. CASE executors # {}
    <3>1. PICK t \in executors : TRUE
      BY <2>3
    <3>2. executors = {t} /\ ~waiting
      BY <1>0, <2>1, <3>1 DEF Execution
    <3>3. Cardinality(executors) = 1
      BY <3>2, FS_Singleton
    <3> QED
      BY <3>2, <3>3 DEF OneExecutor, executors
  <2> QED
    BY <2>2, <2>3
<1>3. requeued \/ NotDeletedInQueue
  BY NobodyLeft
<1>4. CodeAssertions
  <2> SUFFICES ASSUME NEW t \in Threads
               PROVE  /\ At(t, "onSchedule") => ~scheduled
                      /\ At(t, "unschedule") => scheduled
                      /\ At(t, "delete") => (state["deletable"] <=> ~(drained /\ transferOwnership))
    BY DEF CodeAssertions
  <2>1. ASSUME At(t, "onSchedule") PROVE ~scheduled
    <3>1. t = Client /\ First(t) = "onSchedule"
      BY <1>0, <2>1, Coming DEF Follows, WorkerSteps
    <3> QED
      BY <1>0, <3>1 DEF Places, Scheduling, Busy, Holding
  <2>2. ASSUME At(t, "unschedule") PROVE scheduled
    <3>1. First(t) = "unschedule" /\ (t = Client \/ t \in Workers)
      BY <1>0, <2>2, Coming DEF Threads
    <3> QED
      BY <1>0, <3>1 DEF Places, Holding
  <2>3. ASSUME At(t, "delete") PROVE state["deletable"] <=> ~(drained /\ transferOwnership)
    <3>1. state["deletable"] \/ (drained /\ transferOwnership)
      BY <1>0, <2>3, Coming DEF Deletion
    <3>2. drained /\ transferOwnership => ~state["deletable"]
      BY <1>0 DEF Ownership, Deletion, Execution
    <3> QED
      BY <3>1, <3>2
  <2> QED
    BY <2>1, <2>2, <2>3
<1>5. NoMissedSignal
  <2> SUFFICES ASSUME NEW t \in Threads, NEW e \in Events, At(t, Of(e).block), state[e]
               PROVE  event[e] = "set" \/ \E u \in Threads : At(u, Of(e).signal)
    BY DEF NoMissedSignal
  <2>1. First(t) = Of(e).block /\ t = Client
    BY <1>0, Coming, Names DEF Follows, WorkerSteps
  <2>2. event[e] = "set" \/ \E u \in Threads : First(u) = Of(e).signal
    BY <1>0, <2>1 DEF Handles
  <2>3. \A u \in Threads : First(u) = Of(e).signal => At(u, Of(e).signal)
    BY Names DEF First, At
  <2> QED
    BY <2>2, <2>3
<1> QED
  BY <1>1, <1>2, <1>3, <1>4, <1>5 DEF JobInv

(* For any number of threads that run, wait for, remove, put back, drain   *)
(* and delete a job: Execute runs it once, OnSchedule and OnUnSchedule     *)
(* find what they assert, the destructor does unless a stopped scheduler   *)
(* deletes its own job, nobody sleeps over an event, and the job is        *)
(* deleted when it is in no queue and nobody runs or waits for it unless   *)
(* it was put back although somebody had claimed it.                       *)
THEOREM Once == Spec => []JobInv
BY InitIInv, NextIInv, Follow, PTL DEF Spec

-----------------------------------------------------------------------------
(* Who waits finds the job done                                            *)

(* Where a thread comes to when it goes on.                                *)
LEMMA Leads ==
  ASSUME Control, NEW t \in Threads, todo[t] # << >>, NEW p \in Seq(Steps), Continue(t, p)
  PROVE  /\ \A u \in Threads : u # t => First(u)' = First(u) /\ todo'[u] = todo[u]
         /\ First(t)' = IF p = << >> THEN Second(t) ELSE Head(p)
<1> DEFINE call == todo[t]
           rest == p \o Tail(call)
<1>1. /\ call \in Seq(Steps) /\ Len(call) \in Nat /\ Len(call) > 0 /\ Len(p) \in Nat
      /\ todo \in [Threads -> Seq(Steps)]
  BY DEF Control
<1>2. todo' = [todo EXCEPT ![t] = rest]
  BY DEF Continue
<1>3. /\ rest \in Seq(Steps) /\ Len(rest) = Len(p) + Len(call) - 1
      /\ Len(p) > 0 => rest[1] = p[1]
      /\ Len(p) = 0 /\ Len(call) > 1 => rest[1] = call[2]
  BY <1>1
<1>4. p = << >> <=> Len(p) = 0
  BY <1>1
<1> HIDE DEF call, rest
<1>5. todo'[t] = rest /\ \A u \in Threads : u # t => todo'[u] = todo[u]
  BY <1>1, <1>2
<1>6. rest = << >> \/ Head(rest) = rest[1]
  BY <1>3
<1>7. Second(t) = IF Len(call) > 1 THEN call[2] ELSE "idle"
  BY <1>1 DEF Second, After, call
<1>8. First(t)' = IF p = << >> THEN Second(t) ELSE Head(p)
  <2>1. CASE Len(p) = 0 /\ Len(call) = 1
    <3>1. rest = << >>
      BY <1>1, <1>3, <2>1
    <3> QED
      BY <1>1, <1>4, <1>5, <1>7, <2>1, <3>1 DEF First
  <2>2. CASE Len(p) = 0 /\ Len(call) > 1
    <3>1. rest # << >>
      BY <1>1, <1>3, <2>2
    <3> QED
      BY <1>3, <1>4, <1>5, <1>6, <1>7, <2>2, <3>1 DEF First
  <2>3. CASE Len(p) > 0
    <3>1. rest # << >> /\ Head(p) = p[1]
      BY <1>1, <1>3, <2>3
    <3> QED
      BY <1>3, <1>4, <1>5, <1>6, <2>3, <3>1 DEF First
  <2>4. (Len(p) = 0 /\ Len(call) = 1) \/ (Len(p) = 0 /\ Len(call) > 1) \/ Len(p) > 0
    <3> DEFINE m == Len(p)
               n == Len(call)
    <3>1. m \in Nat /\ n \in Nat /\ n > 0
      BY <1>1
    <3> HIDE DEF m, n
    <3>2. (m = 0 /\ n = 1) \/ (m = 0 /\ n > 1) \/ m > 0
      BY <3>1
    <3> QED
      BY <3>2 DEF m, n
  <2> QED
    BY <2>1, <2>2, <2>3, <2>4
<1> QED
  BY <1>5, <1>8 DEF First

(* What a step of t does, as far as the execution and those who wait for   *)
(* it are concerned; p are the steps that it puts before the others.       *)
GoesWith(t, p) ==
  /\ Continue(t, p) /\ (p # << >> => Head(p) # "setDone")
  /\ First(t) \in {"waitDone", "lookDone"} /\ p = << >> => state["executionDone"]

Goes(t) ==
  /\ todo[t] # << >> /\ UNCHANGED terminated
  /\ IF First(t) = "run" THEN Run(t) ELSE UNCHANGED runs
  /\ First(t) # "setDone" => state'["executionDone"] = state["executionDone"]
  /\ First(t) = "blockDone" => event["executionDone"] = "set"
  /\ \E p \in Seq(Steps) : GoesWith(t, p)

LEMMA StepGoes ==
  ASSUME Control, Flags, NEW t \in Threads, Step(t)
  PROVE  Goes(t)
<1> USE DEF eventVars, flagVars
<1>s. /\ << >> \in Seq(Steps)
      /\ \A a \in Steps : <<a>> \in Seq(Steps) /\ Head(<<a>>) = a /\ <<a>> # << >>
      /\ \A a, b \in Steps : <<a, b>> \in Seq(Steps) /\ Head(<<a, b>>) = a /\ <<a, b>> # << >>
      /\ \A a, b, c \in Steps :
           <<a, b, c>> \in Seq(Steps) /\ Head(<<a, b, c>>) = a /\ <<a, b, c>> # << >>
  OBVIOUS
<1>n. /\ \A x \in {"run", "setDone", "testScheduled", "setDeletable", "testDone", "claim",
                   "allocDone", "blockTimed"} : x \in Steps
      /\ \A e \in Events : {Of(e).signal, Of(e).alloc, Of(e).look, Of(e).block} \subseteq Steps
  BY Names DEF Steps
<1>0. \A x : At(t, x) => todo[t] # << >> /\ First(t) = x
  BY Coming
<1>1. CASE Claim(t)
  <2>1. First(t) = "claim" /\ todo[t] # << >> /\ UNCHANGED <<state, runs, terminated>>
    BY <1>0, <1>1 DEF Claim
  <2>2. \E p \in Seq(Steps) : GoesWith(t, p)
    <3>1. CASE waiting
      <4>1. GoesWith(t, <<"run", "setDone", "testScheduled">>)
        BY <1>1, <1>n, <1>s, <2>1, <3>1 DEF Claim, GoesWith
      <4> QED
        BY <1>n, <1>s, <4>1
    <3>2. CASE ~waiting
      BY <1>1, <1>s, <2>1, <3>2 DEF Claim, GoesWith
    <3> QED
      BY <3>1, <3>2
  <2> QED
    BY <2>1, <2>2 DEF Goes
<1>2. CASE Run(t)
  <2>1. /\ First(t) = "run" /\ todo[t] # << >> /\ Continue(t, << >>)
        /\ UNCHANGED <<state, terminated>>
    BY <1>0, <1>2 DEF Run
  <2> QED
    BY <1>2, <1>s, <2>1 DEF Goes, GoesWith
<1>3. CASE OnSchedule(t) \/ Push(t) \/ EndTimed(t) \/ DeleteThis(t)
  <2>1. /\ First(t) \in {"onSchedule", "push", "blockTimed", "delete"} /\ todo[t] # << >>
        /\ Continue(t, << >>) /\ UNCHANGED <<state, terminated, runs>>
    BY <1>0, <1>3 DEF OnSchedule, Push, EndTimed, DeleteThis
  <2> QED
    BY <1>s, <2>1 DEF Goes, GoesWith
<1>4. CASE TestScheduled(t) \/ Unschedule(t) \/ TestDone(t) \/ TimedLook(t) \/ TestWaiting(t)
  <2>1. /\ First(t) \in {"testScheduled", "unschedule", "testDone", "waitTimed", "testWaiting"}
        /\ todo[t] # << >> /\ UNCHANGED <<state, terminated, runs>>
    BY <1>0, <1>4 DEF TestScheduled, Unschedule, TestDone, TimedLook, TestWaiting
  <2>2. \/ Continue(t, << >>) \/ Continue(t, <<"setDeletable">>) \/ Continue(t, <<"testDone">>)
        \/ Continue(t, <<"allocDone", "blockTimed">>) \/ Continue(t, <<"claim">>)
    BY <1>4 DEF TestScheduled, Unschedule, TestDone, TimedLook, TestWaiting
  <2>3. \E p \in Seq(Steps) : GoesWith(t, p)
    <3>1. /\ Continue(t, << >>) => GoesWith(t, << >>)
          /\ Continue(t, <<"setDeletable">>) => GoesWith(t, <<"setDeletable">>)
          /\ Continue(t, <<"testDone">>) => GoesWith(t, <<"testDone">>)
          /\ Continue(t, <<"allocDone", "blockTimed">>) => GoesWith(t, <<"allocDone", "blockTimed">>)
          /\ Continue(t, <<"claim">>) => GoesWith(t, <<"claim">>)
      BY <1>n, <1>s, <2>1 DEF GoesWith
    <3> QED
      BY <1>n, <1>s, <2>2, <3>1
  <2> QED
    BY <2>1, <2>3 DEF Goes
<1>5. ASSUME NEW e \in Events, SetState(t, e)
      PROVE  /\ todo[t] # << >> /\ First(t) = Of(e).set /\ UNCHANGED <<terminated, runs>>
             /\ state' = [state EXCEPT ![e] = TRUE] /\ \E p \in Seq(Steps) : GoesWith(t, p)
  <2>1. /\ First(t) = Of(e).set /\ todo[t] # << >> /\ UNCHANGED <<terminated, runs>>
        /\ state' = [state EXCEPT ![e] = TRUE]
    BY <1>0, <1>5 DEF SetState
  <2>2. \E p \in Seq(Steps) : GoesWith(t, p)
    <3>1. CASE state[e]
      BY <1>5, <1>s, <2>1, <3>1, Names DEF SetState, GoesWith
    <3>2. CASE ~state[e]
      <4>1. GoesWith(t, <<Of(e).signal>>)
        BY <1>5, <1>n, <1>s, <2>1, <3>2, Names DEF SetState, GoesWith
      <4> QED
        BY <1>n, <1>s, <4>1
    <3> QED
      BY <3>1, <3>2
  <2> QED
    BY <2>1, <2>2
<1>6. ASSUME NEW e \in Events,
             SignalEvent(t, e) \/ FirstLook(t, e) \/ AutoAlloc(t, e) \/ SecondLook(t, e) \/ Unblock(t, e)
      PROVE  /\ todo[t] # << >> /\ UNCHANGED <<terminated, runs, state>>
             /\ First(t) \in {Of(e).signal, Of(e).wait, Of(e).alloc, Of(e).look, Of(e).block}
             /\ First(t) = "blockDone" => event["executionDone"] = "set"
             /\ \E p \in Seq(Steps) : GoesWith(t, p)
  <2>1. /\ First(t) \in {Of(e).signal, Of(e).wait, Of(e).alloc, Of(e).look, Of(e).block}
        /\ todo[t] # << >> /\ UNCHANGED <<terminated, runs, state>>
        /\ First(t) = Of(e).block => Unblock(t, e)
    <3>1. SignalEvent(t, e) \/ FirstLook(t, e) \/ AutoAlloc(t, e) \/ SecondLook(t, e) =>
            First(t) \in {Of(e).signal, Of(e).wait, Of(e).alloc, Of(e).look}
      BY <1>0 DEF SignalEvent, FirstLook, AutoAlloc, SecondLook
    <3>2. Of(e).block \notin {Of(e).signal, Of(e).wait, Of(e).alloc, Of(e).look}
      BY Names
    <3> QED
      BY <1>0, <1>6, <3>1, <3>2 DEF SignalEvent, FirstLook, AutoAlloc, SecondLook, Unblock
  <2>2. First(t) = "blockDone" => event["executionDone"] = "set"
    BY <2>1, Names DEF Unblock
  <2>3. \/ Continue(t, << >>) /\ (First(t) \in {Of(e).wait, Of(e).look} => state[e])
        \/ Continue(t, <<Of(e).alloc, Of(e).look>>) \/ Continue(t, <<Of(e).block>>)
    <3>1. SignalEvent(t, e) \/ AutoAlloc(t, e) \/ Unblock(t, e) =>
            Continue(t, << >>) /\ First(t) \in {Of(e).signal, Of(e).alloc, Of(e).block}
      BY <1>0 DEF SignalEvent, AutoAlloc, Unblock
    <3>2. FirstLook(t, e) => \/ Continue(t, << >>) /\ state[e]
                             \/ Continue(t, <<Of(e).alloc, Of(e).look>>)
      BY DEF FirstLook
    <3>3. SecondLook(t, e) => \/ Continue(t, << >>) /\ state[e]
                              \/ Continue(t, <<Of(e).block>>)
      BY DEF SecondLook
    <3>4. {Of(e).signal, Of(e).alloc, Of(e).block} \cap {Of(e).wait, Of(e).look} = {}
      BY Names
    <3> QED
      BY <1>6, <3>1, <3>2, <3>3, <3>4
  <2>4. \E p \in Seq(Steps) : GoesWith(t, p)
    <3>1. Continue(t, << >>) /\ (First(t) \in {Of(e).wait, Of(e).look} => state[e]) => GoesWith(t, << >>)
      BY <2>1, Names DEF GoesWith
    <3>2. /\ Continue(t, <<Of(e).alloc, Of(e).look>>) => GoesWith(t, <<Of(e).alloc, Of(e).look>>)
          /\ Continue(t, <<Of(e).block>>) => GoesWith(t, <<Of(e).block>>)
      BY <1>n, <1>s, Names DEF GoesWith
    <3> QED
      BY <1>n, <1>s, <2>3, <3>1, <3>2
  <2> QED
    BY <2>1, <2>2, <2>4
<1>7. ASSUME NEW e \in Events, SetState(t, e)
      PROVE  /\ First(t) \in {"setDone", "setDeletable"}
             /\ First(t) # "setDone" => state'["executionDone"] = state["executionDone"]
  <2>1. First(t) = Of(e).set /\ state' = [state EXCEPT ![e] = TRUE]
    BY <1>5, <1>7
  <2>2. CASE e = "executionDone"
    BY <2>1, <2>2, Names
  <2>3. CASE e = "deletable"
    <3>1. First(t) = "setDeletable" /\ state'["executionDone"] = state["executionDone"]
      BY <2>1, <2>3 DEF Flags, Events, Of
    <3> QED
      BY <3>1
  <2> QED
    BY <2>2, <2>3 DEF Events
<1>8. ASSUME NEW e \in Events, SetState(t, e) PROVE Goes(t)
  BY <1>5, <1>7, <1>8 DEF Goes
<1>9. ASSUME NEW e \in Events,
             SignalEvent(t, e) \/ FirstLook(t, e) \/ AutoAlloc(t, e) \/ SecondLook(t, e) \/ Unblock(t, e)
      PROVE  Goes(t)
  <2>1. First(t) \notin {"run", "setDone"}
    BY <1>6, <1>9, Names
  <2> QED
    BY <1>6, <1>9, <2>1 DEF Goes
<1> QED
  BY <1>1, <1>2, <1>3, <1>4, <1>8, <1>9 DEF Step

(* Unless the job is terminated it has been executed once it counts as     *)
(* done, and before that once its execution is over.                       *)
Executed == runs = 1 \/ terminated

ExecutedOnce ==
  /\ \A t \in Threads : First(t) = "setDone" => Executed
  /\ state["executionDone"] => Executed

(* No step forgets it: only "run" leads to "setDone", and only that sets   *)
(* the state.                                                              *)
LEMMA StepExecuted ==
  ASSUME IInv, ExecutedOnce, NEW t \in Threads, Step(t)
  PROVE  ExecutedOnce'
<1>1. Control /\ Flags /\ Execution /\ Goes(t)
  BY StepGoes DEF IInv
<1>2. CASE First(t) = "run"
  <2>1. runs = 0 /\ terminated \in BOOLEAN
    BY <1>1, <1>2 DEF Execution, Flags
  <2>2. runs' = (IF terminated THEN runs ELSE runs + 1) /\ UNCHANGED terminated
    BY <1>1, <1>2 DEF Goes, Run
  <2>3. Executed'
    BY <2>1, <2>2 DEF Executed
  <2> QED
    BY <2>3 DEF ExecutedOnce
<1>3. CASE First(t) # "run"
  <2>1. Executed => Executed'
    BY <1>1, <1>3 DEF Goes, Executed
  <2>2. PICK p \in Seq(Steps) : GoesWith(t, p)
    BY <1>1 DEF Goes
  <2>3. /\ \A u \in Threads : u # t => First(u)' = First(u)
        /\ First(t)' = IF p = << >> THEN Second(t) ELSE Head(p)
    BY <1>1, <2>2, Leads DEF Goes, GoesWith
  <2>4. First(t)' # "setDone"
    <3>1. Follows(t, First(t), Second(t)) /\ First(t) \in Steps
      BY <1>1, Coming DEF Goes, At, First, Control
    <3>2. Second(t) # "setDone"
      BY <1>3, <3>1 DEF Follows, Steps, Last
    <3> QED
      BY <2>2, <2>3, <3>2 DEF GoesWith
  <2>5. state'["executionDone"] => state["executionDone"] \/ First(t) = "setDone"
    BY <1>1 DEF Goes
  <2> QED
    BY <2>1, <2>3, <2>4, <2>5 DEF ExecutedOnce
<1> QED
  BY <1>2, <1>3

(* The steps of a call, and of two that are made one after the other.      *)
LEMMA Joined ==
  ASSUME NEW q \in Seq(Steps), NEW r \in Seq(Steps), r # << >>
  PROVE  q \o r \in Seq(Steps) /\ q \o r # << >> /\ Head(q \o r) = Head(IF q = << >> THEN r ELSE q)
OBVIOUS

LEMMA Extended ==
  ASSUME NEW q \in Seq(Steps), NEW r \in Seq(Steps), q # << >>
  PROVE  q \o r \in Seq(Steps) /\ q \o r # << >> /\ Head(q \o r) = Head(q)
OBVIOUS

LEMMA Literal ==
  /\ << >> \in Seq(Steps)
  /\ \A a \in Steps : <<a>> \in Seq(Steps) /\ Head(<<a>>) = a /\ <<a>> # << >>
  /\ \A a, b \in Steps : <<a, b>> \in Seq(Steps) /\ Head(<<a, b>>) = a /\ <<a, b>> # << >>
  /\ \A a, b, c \in Steps :
       <<a, b, c>> \in Seq(Steps) /\ Head(<<a, b, c>>) = a /\ <<a, b, c>> # << >>
OBVIOUS

(* A thread begins a call; none begins with the end of an execution.       *)
StartsCall(t) ==
  /\ todo[t] = << >>
  /\ \E call \in Seq(Steps) : /\ todo' = [todo EXCEPT ![t] = call]
                             /\ call # << >> /\ Head(call) # "setDone"

LEMMA CallBegins ==
  ASSUME \/ \E w \in Workers : Take(w) \/ Drain(w)
         \/ WaitUntilDone \/ WaitUntilDoneOrTimeout \/ RemoveJobFromQueue \/ ScheduleAgain
         \/ Terminate \/ Delete \/ UNCHANGED vars
  PROVE  /\ UNCHANGED <<state, runs>> /\ (terminated => terminated')
         /\ UNCHANGED todo \/ \E t \in Threads : StartsCall(t)
<1> USE DEF eventVars, flagVars, vars, Calls
<1>n. \A x \in {"claim", "unschedule", "delete", "waitDone", "waitTimed", "onSchedule",
                "push", "testWaiting", "waitDeletable"} : x \in Steps
  BY DEF Steps
<1>1. ASSUME NEW w \in Workers, Take(w) \/ Drain(w) PROVE StartsCall(w)
  <2> DEFINE q == IF Take(w) THEN <<"claim", "unschedule">> ELSE <<"unschedule">>
             r == IF transferOwnership THEN <<"delete">> ELSE << >>
  <2>1. q \in Seq(Steps) /\ q # << >> /\ Head(q) \in {"claim", "unschedule"}
    BY <1>n, Literal
  <2>2. r \in Seq(Steps)
    BY <1>n, Literal
  <2>3. todo[w] = << >> /\ todo' = [todo EXCEPT ![w] = q \o r]
    <3>1. CASE Take(w)
      BY <3>1 DEF Take
    <3>2. CASE ~Take(w)
      BY <1>1, <3>2 DEF Drain
    <3> QED
      BY <3>1, <3>2
  <2> HIDE DEF q, r
  <2>4. q \o r \in Seq(Steps) /\ q \o r # << >> /\ Head(q \o r) \in {"claim", "unschedule"}
    BY <2>1, <2>2, Extended
  <2> QED
    BY <2>3, <2>4 DEF StartsCall
<1>2. CASE WaitUntilDone
  <2>1. PICK inlineExecution \in BOOLEAN :
          todo' = [todo EXCEPT ![Client] =
                     (IF inlineExecution THEN <<"claim">> ELSE << >>) \o <<"waitDone">>]
    BY <1>2 DEF WaitUntilDone
  <2>2. todo[Client] = << >> /\ UNCHANGED <<state, runs, terminated>>
    BY <1>2 DEF WaitUntilDone, ClientFree
  <2> DEFINE q == IF inlineExecution THEN <<"claim">> ELSE << >>
             r == <<"waitDone">>
  <2>3. q \in Seq(Steps) /\ (q # << >> => Head(q) = "claim")
    BY <1>n, Literal
  <2>4. r \in Seq(Steps) /\ r # << >> /\ Head(r) = "waitDone"
    BY <1>n, Literal
  <2>5. todo' = [todo EXCEPT ![Client] = q \o r]
    BY <2>1
  <2> HIDE DEF q, r
  <2>6. q \o r \in Seq(Steps) /\ q \o r # << >> /\ Head(q \o r) # "setDone"
    <3>1. Head(q \o r) = Head(IF q = << >> THEN r ELSE q)
      BY <2>3, <2>4, Joined
    <3> QED
      BY <2>3, <2>4, <3>1, Joined
  <2>7. StartsCall(Client)
    BY <2>2, <2>5, <2>6 DEF StartsCall
  <2> QED
    BY <2>2, <2>7, Who
<1>3. ASSUME NEW call \in Seq(Steps), call # << >>, Head(call) # "setDone",
             ClientFree, Calls(call)
      PROVE  \E t \in Threads : StartsCall(t)
  BY <1>3, Who DEF StartsCall, ClientFree
<1>4. CASE WaitUntilDoneOrTimeout
  <2>1. ClientFree /\ Calls(<<"waitTimed">>) /\ UNCHANGED <<state, runs, terminated>>
    BY <1>4 DEF WaitUntilDoneOrTimeout
  <2>2. <<"waitTimed">> \in Seq(Steps) /\ <<"waitTimed">> # << >> /\ Head(<<"waitTimed">>) = "waitTimed"
    BY <1>n, Literal
  <2> QED
    BY <1>3, <2>1, <2>2
<1>5. CASE RemoveJobFromQueue
  <2>1. ClientFree /\ Calls(<<"unschedule">>) /\ UNCHANGED <<state, runs, terminated>>
    BY <1>5 DEF RemoveJobFromQueue
  <2>2. <<"unschedule">> \in Seq(Steps) /\ <<"unschedule">> # << >> /\ Head(<<"unschedule">>) = "unschedule"
    BY <1>n, Literal
  <2> QED
    BY <1>3, <2>1, <2>2
<1>6. CASE ScheduleAgain
  <2>1. ClientFree /\ Calls(<<"onSchedule", "push">>) /\ UNCHANGED <<state, runs, terminated>>
    BY <1>6 DEF ScheduleAgain
  <2>2. /\ <<"onSchedule", "push">> \in Seq(Steps) /\ <<"onSchedule", "push">> # << >>
        /\ Head(<<"onSchedule", "push">>) = "onSchedule"
    BY <1>n, Literal
  <2> QED
    BY <1>3, <2>1, <2>2
<1>7. CASE Delete
  <2> DEFINE call == <<"testWaiting", "waitDeletable", "delete">>
  <2>1. ClientFree /\ Calls(call) /\ UNCHANGED <<state, runs>> /\ (terminated => terminated')
    BY <1>7 DEF Delete
  <2>2. call \in Seq(Steps) /\ call # << >> /\ Head(call) = "testWaiting"
    BY <1>n, Literal
  <2> HIDE DEF call
  <2> QED
    BY <1>3, <2>1, <2>2
<1>8. CASE Terminate \/ UNCHANGED vars
  BY <1>8 DEF Terminate
<1>9. ASSUME NEW w \in Workers, Take(w) \/ Drain(w) PROVE UNCHANGED <<state, runs, terminated>>
  BY <1>9 DEF Take, Drain
<1> QED
  BY <1>1, <1>2, <1>4, <1>5, <1>6, <1>7, <1>8, <1>9, Who

(* Nor does a call that begins forget the execution, and it leaves the     *)
(* calls of the others as they are.                                        *)
LEMMA CallExecuted ==
  ASSUME IInv, ExecutedOnce,
         \/ \E w \in Workers : Take(w) \/ Drain(w)
         \/ WaitUntilDone \/ WaitUntilDoneOrTimeout \/ RemoveJobFromQueue \/ ScheduleAgain
         \/ Terminate \/ Delete \/ UNCHANGED vars
  PROVE  /\ ExecutedOnce'
         /\ \A t \in Threads : todo[t] # << >> => todo'[t] = todo[t]
<1>1. /\ UNCHANGED <<state, runs>> /\ (terminated => terminated')
      /\ UNCHANGED todo \/ \E t \in Threads : StartsCall(t)
  BY CallBegins
<1>2. Executed => Executed'
  BY <1>1 DEF Executed
<1>3. todo \in [Threads -> Seq(Steps)]
  BY DEF IInv, Control
<1>4. ASSUME NEW t \in Threads, StartsCall(t), NEW u \in Threads
      PROVE  /\ First(u)' = "setDone" => First(u) = "setDone"
             /\ todo[u] # << >> => todo'[u] = todo[u]
  <2>1. PICK call \in Seq(Steps) : /\ todo' = [todo EXCEPT ![t] = call]
                                  /\ call # << >> /\ Head(call) # "setDone"
    BY <1>4 DEF StartsCall
  <2>2. todo[t] = << >> /\ todo'[t] = call /\ (u # t => todo'[u] = todo[u])
    BY <1>3, <1>4, <2>1 DEF StartsCall
  <2>3. CASE u = t
    BY <2>1, <2>2, <2>3 DEF First
  <2>4. CASE u # t
    BY <2>2, <2>4 DEF First
  <2> QED
    BY <2>3, <2>4
<1>5. UNCHANGED todo =>
        \A u \in Threads : /\ First(u)' = "setDone" => First(u) = "setDone"
                           /\ todo[u] # << >> => todo'[u] = todo[u]
  BY DEF First
<1>6. \A u \in Threads : /\ First(u)' = "setDone" => First(u) = "setDone"
                         /\ todo[u] # << >> => todo'[u] = todo[u]
  BY <1>1, <1>4, <1>5
<1> QED
  BY <1>1, <1>2, <1>6 DEF ExecutedOnce

(* Who waits for the end of the job goes on only when it is there.         *)
LEMMA WaitersComeBack ==
  ASSUME IInv, ExecutedOnce, [Next]_vars, NEW t \in Threads, Waiting(t), todo'[t] = << >>
  PROVE  runs = 1 \/ terminated
<1>1. /\ todo[t] # << >> /\ First(t) \in {"waitDone", "allocDone", "lookDone", "blockDone"}
      /\ Follows(t, First(t), Second(t))
  BY Coming DEF Waiting, IInv
<1>2. PICK u \in Threads : Step(u)
  BY <1>1, CallExecuted DEF Next
<1>3. Control /\ Flags /\ Handles /\ Goes(u)
  BY <1>2, StepGoes DEF IInv
<1>4. PICK p \in Seq(Steps) : GoesWith(u, p)
  BY <1>3 DEF Goes
<1>5. /\ \A v \in Threads : v # u => todo'[v] = todo[v]
      /\ First(u)' = IF p = << >> THEN Second(u) ELSE Head(p)
  BY <1>3, <1>4, Leads DEF Goes, GoesWith
<1>6. u = t
  BY <1>1, <1>5
<1>7. First(t)' = "idle"
  BY DEF First
<1>8. p = << >> /\ First(t) # "allocDone"
  <2>1. p # << >> => Head(p) \in Steps /\ Head(p) # "idle"
    BY DEF Steps
  <2> QED
    BY <1>1, <1>5, <1>6, <1>7, <2>1 DEF Follows
<1>9. state["executionDone"]
  BY <1>1, <1>3, <1>4, <1>6, <1>8 DEF Goes, GoesWith, Handles, Events
<1> QED
  BY <1>9 DEF ExecutedOnce, Executed

(* WaitUntilDone comes back when the job has been executed, by whichever   *)
(* thread, or terminated: "executionDone" is set after InternalExecute,    *)
(* and the event's handle is not signalled before its state is set.        *)
THEOREM ResultThere == Spec => ResultIsThere
<1>1. Init => IInv /\ ExecutedOnce
  <2>1. ASSUME Init PROVE ExecutedOnce
    <3>1. \A t \in Threads : First(t) # "setDone"
      <4>1. /\ <<"onSchedule", "push">> # << >> /\ Head(<<"onSchedule", "push">>) = "onSchedule"
        OBVIOUS
      <4> QED
        BY <2>1, <4>1 DEF Init, First
    <3> QED
      BY <2>1, <3>1 DEF Init, ExecutedOnce, Events
  <2> QED
    BY <2>1, InitIInv
<1>2. IInv /\ ExecutedOnce /\ [Next]_vars => IInv' /\ ExecutedOnce'
  <2> SUFFICES ASSUME IInv, ExecutedOnce, [Next]_vars PROVE ExecutedOnce'
    BY NextIInv
  <2> QED
    BY StepExecuted, CallExecuted DEF Next
<1>3. IInv /\ ExecutedOnce /\ [Next]_vars =>
        [\A t \in Threads : Waiting(t) /\ todo'[t] = << >> => runs = 1 \/ terminated]_vars
  BY WaitersComeBack
<1> QED
  BY <1>1, <1>2, <1>3, PTL DEF Spec, ResultIsThere

=============================================================================
