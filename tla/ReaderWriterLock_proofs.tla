----------------------- MODULE ReaderWriterLock_proofs -----------------------
(* Proofs about ReaderWriterLock for any finite set of threads.            *)
EXTENDS ReaderWriterLock, FiniteSetTheorems, TLAPS

(* Counting a finite set: when it is empty, and one element in or out.     *)
LEMMA CardFacts ==
  ASSUME NEW S, IsFiniteSet(S)
  PROVE  /\ Cardinality(S) \in Nat
         /\ Cardinality(S) = 0 <=> S = {}
         /\ \A x : x \notin S => Cardinality(S \cup {x}) = Cardinality(S) + 1
         /\ \A x \in S : Cardinality(S \ {x}) = Cardinality(S) - 1
         /\ \A x \in S : Cardinality(S) = 1 => S = {x}
<1>1. Cardinality(S) \in Nat
  BY FS_CardinalityType
<1>2. Cardinality(S) = 0 <=> S = {}
  BY FS_EmptySet
<1>3. \A x : x \notin S => Cardinality(S \cup {x}) = Cardinality(S) + 1
  BY FS_AddElement
<1>4. \A x \in S : Cardinality(S \ {x}) = Cardinality(S) - 1
  BY FS_RemoveElement
<1>5. ASSUME NEW x \in S, Cardinality(S) = 1 PROVE S = {x}
  <2>1. IsFiniteSet(S \ {x}) /\ Cardinality(S \ {x}) = 0
    BY <1>4, <1>5, FS_RemoveElement
  <2>2. S \ {x} = {}
    BY <2>1, FS_EmptySet
  <2> QED BY <2>2
<1> QED BY <1>1, <1>2, <1>3, <1>4, <1>5

(* The four sets are finite and, given the units of waiting threads,       *)
(* disjoint.                                                               *)
LEMMA SetFacts ==
  ASSUME TypeOK, UnitsOfWaiters
  PROVE  /\ IsFiniteSet(Readers) /\ IsFiniteSet(Waiting)
         /\ IsFiniteSet(Writers) /\ IsFiniteSet(Queued)
         /\ IsFiniteSet(Writers \cup Queued)
         /\ Readers \cap Writers = {} /\ Readers \cap Queued = {}
         /\ Readers \cap Waiting = {} /\ Writers \cap Queued = {}
         /\ Writers \cap Waiting = {} /\ Queued \cap Waiting = {}
<1>1. /\ Readers \subseteq Threads /\ Waiting \subseteq Threads
      /\ Writers \subseteq Threads /\ Queued \subseteq Threads
  BY DEF Readers, Waiting, Writers, Queued
<1>2. /\ IsFiniteSet(Readers) /\ IsFiniteSet(Waiting)
      /\ IsFiniteSet(Writers) /\ IsFiniteSet(Queued)
  BY <1>1, ThreadsFinite, FS_Subset
<1>3. IsFiniteSet(Writers \cup Queued)
  BY <1>1, ThreadsFinite, FS_Subset
<1>4. /\ Readers \cap Writers = {} /\ Readers \cap Queued = {}
      /\ Readers \cap Waiting = {} /\ Writers \cap Queued = {}
      /\ Writers \cap Waiting = {} /\ Queued \cap Waiting = {}
  BY DEF TypeOK, UnitsOfWaiters, Readers, Writers, Queued, Waiting,
         ReaderWaiting, WriterQueued
<1> QED BY <1>2, <1>3, <1>4

-----------------------------------------------------------------------------
(* Where the threads are after a step.                                     *)
Sets(R, W, Q, Wt) ==
  Readers' = R /\ Writers' = W /\ Queued' = Q /\ Waiting' = Wt

Same == Sets(Readers, Writers, Queued, Waiting)

(* The steps inside the lock's code that change no set.                    *)
Internal(t) ==
  \/ AcquireReaderAgain(t) \/ ReaderWoken(t) \/ ReaderTimeout(t)
  \/ ReaderOvertaken(t) \/ ReaderWaitAgain(t) \/ AcquireWriterAgain(t)
  \/ WriterTimeout(t) \/ WriterEnter(t)

LEMMA InternalEffect ==
  ASSUME TypeOK, UnitsOfWaiters, NEW t \in Threads, Internal(t)
  PROVE  Same
<1> USE DEF TypeOK, UnitsOfWaiters, Same, Sets, Readers, Writers, Queued,
           Waiting, ReaderWaiting, WriterQueued, Goto, InMap, m_map
<1>1. CASE AcquireReaderAgain(t) BY <1>1 DEF AcquireReaderAgain
<1>2. CASE ReaderWoken(t) BY <1>2 DEF ReaderWoken
<1>3. CASE ReaderTimeout(t) BY <1>3 DEF ReaderTimeout
<1>4. CASE ReaderOvertaken(t) BY <1>4 DEF ReaderOvertaken
<1>5. CASE ReaderWaitAgain(t) BY <1>5 DEF ReaderWaitAgain
<1>6. CASE AcquireWriterAgain(t) BY <1>6 DEF AcquireWriterAgain
<1>7. CASE WriterTimeout(t) BY <1>7 DEF WriterTimeout
<1>8. CASE WriterEnter(t) BY <1>8 DEF WriterEnter
<1> QED BY <1>1, <1>2, <1>3, <1>4, <1>5, <1>6, <1>7, <1>8 DEF Internal

(* The steps with one outcome: where the thread was and where it goes.     *)
LEMMA MoveEffect ==
  ASSUME TypeOK, UnitsOfWaiters, NEW t \in Threads
  PROVE
    /\ AcquireReaderAtOnce(t) =>
         /\ t \notin Readers \cup Writers \cup Queued \cup Waiting
         /\ Sets(Readers \cup {t}, Writers, Queued, Waiting)
    /\ AcquireReaderQueue(t) =>
         /\ t \notin Readers \cup Writers \cup Queued \cup Waiting
         /\ Sets(Readers, Writers, Queued, Waiting \cup {t})
    /\ ReaderEnter(t) =>
         /\ t \in Waiting
         /\ Sets(Readers \cup {t}, Writers, Queued, Waiting \ {t})
    /\ ReaderGiveUp(t) =>
         /\ t \in Waiting
         /\ Sets(Readers, Writers, Queued, Waiting \ {t})
    /\ AcquireWriterAtOnce(t) =>
         /\ t \notin Readers \cup Writers \cup Queued \cup Waiting
         /\ Sets(Readers, Writers \cup {t}, Queued, Waiting)
    /\ UpgradeAtOnce(t) =>
         /\ t \in Readers
         /\ Sets(Readers \ {t}, Writers \cup {t}, Queued, Waiting)
    /\ AcquireWriterQueue(t) =>
         /\ t \notin Readers \cup Writers \cup Queued \cup Waiting
         /\ Sets(Readers, Writers, Queued \cup {t}, Waiting)
    /\ UpgradeQueue(t) =>
         /\ t \in Readers
         /\ Sets(Readers \ {t}, Writers, Queued \cup {t}, Waiting)
    /\ WriterWoken(t) =>
         /\ t \in Queued
         /\ Sets(Readers, Writers \cup {t}, Queued \ {t}, Waiting)
    /\ WriterExpiredGranted(t) =>
         /\ t \in Queued
         /\ Sets(Readers, Writers \cup {t}, Queued \ {t}, Waiting)
<1> USE DEF TypeOK, UnitsOfWaiters, Sets, Readers, Writers, Queued,
           Waiting, ReaderWaiting, WriterQueued, Goto, InMap, m_map
<1>1. AcquireReaderAtOnce(t) =>
            /\ t \notin Readers \cup Writers \cup Queued \cup Waiting
            /\ Sets(Readers \cup {t}, Writers, Queued, Waiting)
  BY DEF AcquireReaderAtOnce
<1>2. AcquireReaderQueue(t) =>
            /\ t \notin Readers \cup Writers \cup Queued \cup Waiting
            /\ Sets(Readers, Writers, Queued, Waiting \cup {t})
  BY DEF AcquireReaderQueue, ReaderWaitEnter
<1>3. ReaderEnter(t) =>
            /\ t \in Waiting
            /\ Sets(Readers \cup {t}, Writers, Queued, Waiting \ {t})
  BY DEF ReaderEnter
<1>4. ReaderGiveUp(t) =>
            /\ t \in Waiting
            /\ Sets(Readers, Writers, Queued, Waiting \ {t})
  BY DEF ReaderGiveUp
<1>5. AcquireWriterAtOnce(t) =>
            /\ t \notin Readers \cup Writers \cup Queued \cup Waiting
            /\ Sets(Readers, Writers \cup {t}, Queued, Waiting)
  BY DEF AcquireWriterAtOnce
<1>6. UpgradeAtOnce(t) =>
            /\ t \in Readers
            /\ Sets(Readers \ {t}, Writers \cup {t}, Queued, Waiting)
  BY DEF UpgradeAtOnce
<1>7. AcquireWriterQueue(t) =>
            /\ t \notin Readers \cup Writers \cup Queued \cup Waiting
            /\ Sets(Readers, Writers, Queued \cup {t}, Waiting)
  BY DEF AcquireWriterQueue, WriterWaitEnter
<1>8. UpgradeQueue(t) =>
            /\ t \in Readers
            /\ Sets(Readers \ {t}, Writers, Queued \cup {t}, Waiting)
  BY DEF UpgradeQueue, WriterWaitEnter
<1>9. WriterWoken(t) =>
            /\ t \in Queued
            /\ Sets(Readers, Writers \cup {t}, Queued \ {t}, Waiting)
  BY DEF WriterWoken
<1>10. WriterExpiredGranted(t) =>
            /\ t \in Queued
            /\ Sets(Readers, Writers \cup {t}, Queued \ {t}, Waiting)
  BY DEF WriterExpiredGranted
<1> QED BY <1>1, <1>2, <1>3, <1>4, <1>5, <1>6, <1>7, <1>8, <1>9, <1>10

(* The steps with several outcomes.                                        *)
LEMMA BranchEffect ==
  ASSUME TypeOK, UnitsOfWaiters, NEW t \in Threads
  PROVE
    /\ WriterExpiredLast(t) =>
         /\ t \in Queued
         /\ readerUnits[t] > 0 => Sets(Readers \cup {t}, Writers, Queued \ {t}, Waiting)
         /\ readerUnits[t] = 0 => Sets(Readers, Writers, Queued \ {t}, Waiting)
    /\ WriterExpiredQueued(t) =>
         /\ t \in Queued
         /\ readerUnits[t] > 0 => Sets(Readers, Writers, Queued \ {t}, Waiting \cup {t})
         /\ readerUnits[t] = 0 => Sets(Readers, Writers, Queued \ {t}, Waiting)
    /\ UpgradeReenter(t) =>
         /\ t \in Waiting
         /\ m_iNumOfReaderEntered = 0 =>
           Sets(Readers, Writers \cup {t}, Queued, Waiting \ {t})
         /\ m_iNumOfReaderEntered # 0 =>
           Sets(Readers \cup {t}, Writers, Queued, Waiting \ {t})
    /\ ReleaseReaderLock(t) =>
         /\ t \in Readers \cup Writers
         /\ readerUnits[t] = 1 /\ writerUnits[t] = 0 =>
           t \in Readers /\ Sets(Readers \ {t}, Writers, Queued, Waiting)
         /\ ~(readerUnits[t] = 1 /\ writerUnits[t] = 0) => Same
    /\ ReleaseWriterLock(t) =>
         /\ t \in Writers
         /\ writerUnits[t] = 1 /\ readerUnits[t] > 0 =>
           Sets(Readers \cup {t}, Writers \ {t}, Queued, Waiting)
         /\ writerUnits[t] = 1 /\ readerUnits[t] = 0 =>
           Sets(Readers, Writers \ {t}, Queued, Waiting)
         /\ writerUnits[t] # 1 => Same
    /\ ReleaseAllLocks(t) =>
         /\ writerUnits[t] > 0 =>
           t \in Writers /\ Sets(Readers, Writers \ {t}, Queued, Waiting)
         /\ writerUnits[t] = 0 =>
           t \in Readers /\ Sets(Readers \ {t}, Writers, Queued, Waiting)
<1> USE DEF TypeOK, UnitsOfWaiters, Same, Sets, Readers, Writers, Queued,
           Waiting, ReaderWaiting, WriterQueued, Goto, InMap, m_map
<1>1. WriterExpiredLast(t) =>
            /\ t \in Queued
            /\ readerUnits[t] > 0 => Sets(Readers \cup {t}, Writers, Queued \ {t}, Waiting)
            /\ readerUnits[t] = 0 => Sets(Readers, Writers, Queued \ {t}, Waiting)
  BY DEF WriterExpiredLast
<1>2. WriterExpiredQueued(t) =>
            /\ t \in Queued
            /\ readerUnits[t] > 0 => Sets(Readers, Writers, Queued \ {t}, Waiting \cup {t})
            /\ readerUnits[t] = 0 => Sets(Readers, Writers, Queued \ {t}, Waiting)
  BY DEF WriterExpiredQueued, ReaderWaitEnter
<1>3. UpgradeReenter(t) =>
            /\ t \in Waiting
            /\ m_iNumOfReaderEntered = 0 =>
              Sets(Readers, Writers \cup {t}, Queued, Waiting \ {t})
            /\ m_iNumOfReaderEntered # 0 =>
              Sets(Readers \cup {t}, Writers, Queued, Waiting \ {t})
  BY DEF UpgradeReenter
<1>4. ReleaseReaderLock(t) =>
            /\ t \in Readers \cup Writers
            /\ readerUnits[t] = 1 /\ writerUnits[t] = 0 =>
              t \in Readers /\ Sets(Readers \ {t}, Writers, Queued, Waiting)
            /\ ~(readerUnits[t] = 1 /\ writerUnits[t] = 0) => Same
  BY DEF ReleaseReaderLock
<1>5. ReleaseWriterLock(t) =>
            /\ t \in Writers
            /\ writerUnits[t] = 1 /\ readerUnits[t] > 0 =>
              Sets(Readers \cup {t}, Writers \ {t}, Queued, Waiting)
            /\ writerUnits[t] = 1 /\ readerUnits[t] = 0 =>
              Sets(Readers, Writers \ {t}, Queued, Waiting)
            /\ writerUnits[t] # 1 => Same
  BY DEF ReleaseWriterLock
<1>6. ReleaseAllLocks(t) =>
            /\ writerUnits[t] > 0 =>
              t \in Writers /\ Sets(Readers, Writers \ {t}, Queued, Waiting)
            /\ writerUnits[t] = 0 =>
              t \in Readers /\ Sets(Readers \ {t}, Writers, Queued, Waiting)
  BY DEF ReleaseAllLocks
<1> QED BY <1>1, <1>2, <1>3, <1>4, <1>5, <1>6

-----------------------------------------------------------------------------
(* The part of IInv that speaks of the four sets only.                     *)
SetInv ==
  /\ CountersExact
  /\ HandlesLive
  /\ EventDiscipline
  /\ MutualExclusion
  /\ NoLostWakeup

(* A counter n follows a set S when t enters or leaves S, or neither.      *)
Follows(n, S, n1, S1, t) ==
  \/ n1 = n /\ S1 = S
  \/ n1 = n + 1 /\ t \notin S /\ S1 = S \cup {t}
  \/ n1 = n - 1 /\ t \in S /\ S1 = S \ {t}

LEMMA FollowsCard ==
  ASSUME NEW S, IsFiniteSet(S), NEW n, n = Cardinality(S), NEW n1, NEW S1,
         NEW t, Follows(n, S, n1, S1, t)
  PROVE  n1 = Cardinality(S1)
BY CardFacts DEF Follows

(* All three counters follow their sets.                                   *)
CountersFollow(t) ==
  /\ Follows(m_iNumOfReaderEntered, Readers, m_iNumOfReaderEntered', Readers', t)
  /\ Follows(m_iNumOfWriter, Writers \cup Queued,
             m_iNumOfWriter', Writers' \cup Queued', t)
  /\ Follows(m_iNumOfReaderWaiting, Waiting, m_iNumOfReaderWaiting', Waiting', t)

(* What the code learns by comparing a counter with 0 or 1.                *)
LEMMA CounterTests ==
  ASSUME IInv, NEW t \in Threads
  PROVE  /\ m_iNumOfReaderEntered = 0 <=> Readers = {}
         /\ m_iNumOfReaderEntered = 1 /\ t \in Readers => Readers = {t}
         /\ m_iNumOfReaderEntered # 1 /\ t \in Readers =>
              \E u \in Readers : u # t
         /\ m_iNumOfWriter = 0 <=> Writers = {} /\ Queued = {}
         /\ m_iNumOfWriter = 1 /\ t \in Writers => Writers = {t} /\ Queued = {}
         /\ m_iNumOfWriter = 1 /\ t \in Queued => Writers = {} /\ Queued = {t}
         /\ m_iNumOfWriter # 1 /\ t \in Writers \cup Queued =>
              \E u \in Writers \cup Queued : u # t
         /\ m_iNumOfReaderWaiting = 0 <=> Waiting = {}
         /\ m_iNumOfReaderWaiting = 1 /\ t \in Waiting => Waiting = {t}
         /\ m_iNumOfReaderWaiting # 1 /\ t \in Waiting =>
              \E u \in Waiting : u # t
<1>1. /\ IsFiniteSet(Readers) /\ IsFiniteSet(Waiting)
      /\ IsFiniteSet(Writers \cup Queued) /\ Writers \cap Queued = {}
  BY SetFacts DEF IInv
<1>2. ASSUME NEW S, IsFiniteSet(S), t \in S, \A u \in S : u = t
      PROVE  Cardinality(S) = 1
  <2>1. Cardinality(S \ {t}) = Cardinality(S) - 1 /\ Cardinality(S) \in Nat
    BY <1>2, CardFacts
  <2>2. S \ {t} = {}
    BY <1>2
  <2>3. Cardinality(S \ {t}) = 0
    BY <2>2, FS_EmptySet
  <2> QED BY <2>1, <2>3
<1>3. /\ m_iNumOfReaderEntered = 0 <=> Readers = {}
      /\ m_iNumOfReaderEntered = 1 /\ t \in Readers => Readers = {t}
  BY <1>1, CardFacts DEF IInv, CountersExact
<1>4. /\ m_iNumOfWriter = 0 <=> Writers \cup Queued = {}
      /\ m_iNumOfWriter = 1 /\ t \in Writers \cup Queued =>
           Writers \cup Queued = {t}
  BY <1>1, CardFacts DEF IInv, CountersExact
<1>5. /\ m_iNumOfReaderWaiting = 0 <=> Waiting = {}
      /\ m_iNumOfReaderWaiting = 1 /\ t \in Waiting => Waiting = {t}
  BY <1>1, CardFacts DEF IInv, CountersExact
<1>6. m_iNumOfWriter # 1 /\ t \in Writers \cup Queued =>
        \E u \in Writers \cup Queued : u # t
  BY <1>1, <1>2 DEF IInv, CountersExact
<1>7. m_iNumOfReaderWaiting # 1 /\ t \in Waiting => \E u \in Waiting : u # t
  BY <1>1, <1>2 DEF IInv, CountersExact
<1>9. m_iNumOfReaderEntered # 1 /\ t \in Readers => \E u \in Readers : u # t
  BY <1>1, <1>2 DEF IInv, CountersExact
<1>8. /\ m_iNumOfWriter = 0 <=> Writers = {} /\ Queued = {}
      /\ m_iNumOfWriter = 1 /\ t \in Writers => Writers = {t} /\ Queued = {}
      /\ m_iNumOfWriter = 1 /\ t \in Queued => Writers = {} /\ Queued = {t}
  BY <1>1, <1>4
<1> QED BY <1>3, <1>5, <1>6, <1>7, <1>8, <1>9

LEMMA SetInvStep ==
  ASSUME IInv, NEW t \in Threads,
         Request(t) \/ Proceed(t) \/ Timeout(t) \/ Release(t)
  PROVE  SetInv'
<1> DEFINE Events == /\ HandlesLive
                     /\ EventDiscipline
                     /\ MutualExclusion
                     /\ NoLostWakeup
<1>1. /\ Readers \cap Writers = {} /\ Readers \cap Queued = {}
      /\ Readers \cap Waiting = {} /\ Writers \cap Queued = {}
      /\ Writers \cap Waiting = {} /\ Queued \cap Waiting = {}
  BY SetFacts DEF IInv
<1>2. IInv /\ TypeOK /\ UnitsOfWaiters /\ Events
  BY DEF IInv
<1>3. CountersFollow(t) => CountersExact'
  <2>1. /\ IsFiniteSet(Readers) /\ IsFiniteSet(Waiting)
        /\ IsFiniteSet(Writers \cup Queued)
    BY SetFacts DEF IInv
  <2> QED BY <1>2, <2>1, FollowsCard DEF IInv, CountersExact, CountersFollow
<1> SUFFICES CountersFollow(t) /\ Events'
  BY <1>3 DEF SetInv
<1> USE DEF TypeOK, EventState, HandlesLive, EventDiscipline, MutualExclusion, NoLostWakeup,
           CountersFollow, Follows, Sets, Same, counters, events,
           CreateIfNull, SetEvent, ResetEvent
<1>10. CASE Internal(t)
  <2>1. Same BY <1>2, <1>10, InternalEffect
  <2>2. UNCHANGED <<counters, m_hSafeToReadEvent, m_hSafeToWriteEvent>>
    BY <1>10 DEF Internal, AcquireReaderAgain, ReaderWoken, ReaderTimeout, ReaderOvertaken,
                      ReaderWaitAgain, AcquireWriterAgain, WriterTimeout, WriterEnter
  <2> QED BY <1>2, <2>1, <2>2
<1>11. CASE AcquireReaderAtOnce(t)
  <2>1. /\ t \notin Readers \cup Writers \cup Queued \cup Waiting
        /\ Sets(Readers \cup {t}, Writers, Queued, Waiting)
    BY <1>2, <1>11, MoveEffect
  <2>2. CountersFollow(t)
    BY <1>1, <1>2, CounterTests, <1>11, <2>1 DEF AcquireReaderAtOnce
  <2>3. Events'
    BY <1>1, <1>2, CounterTests, <1>11, <2>1 DEF AcquireReaderAtOnce
  <2> QED BY <2>2, <2>3
<1>12. CASE AcquireReaderQueue(t)
  <2>1. /\ t \notin Readers \cup Writers \cup Queued \cup Waiting
        /\ Sets(Readers, Writers, Queued, Waiting \cup {t})
    BY <1>2, <1>12, MoveEffect
  <2>2. CountersFollow(t)
    BY <1>1, <1>2, CounterTests, <1>12, <2>1 DEF AcquireReaderQueue, ReaderWaitEnter
  <2>3. Events'
    BY <1>1, <1>2, CounterTests, <1>12, <2>1 DEF AcquireReaderQueue, ReaderWaitEnter
  <2> QED BY <2>2, <2>3
<1>13. CASE ReaderEnter(t)
  <2>1. /\ t \in Waiting
        /\ Sets(Readers \cup {t}, Writers, Queued, Waiting \ {t})
    BY <1>2, <1>13, MoveEffect
  <2>2. CountersFollow(t)
    BY <1>1, <1>2, CounterTests, <1>13, <2>1 DEF ReaderEnter, ReaderWaitLeave
  <2>3. Events'
    BY <1>1, <1>2, CounterTests, <1>13, <2>1 DEF ReaderEnter, ReaderWaitLeave
  <2> QED BY <2>2, <2>3
<1>14. CASE ReaderGiveUp(t)
  <2>1. /\ t \in Waiting
        /\ Sets(Readers, Writers, Queued, Waiting \ {t})
    BY <1>2, <1>14, MoveEffect
  <2>2. CountersFollow(t)
    BY <1>1, <1>2, CounterTests, <1>14, <2>1 DEF ReaderGiveUp, ReaderWaitLeave
  <2>3. Events'
    BY <1>1, <1>2, CounterTests, <1>14, <2>1 DEF ReaderGiveUp, ReaderWaitLeave
  <2> QED BY <2>2, <2>3
<1>15. CASE AcquireWriterAtOnce(t)
  <2>1. /\ t \notin Readers \cup Writers \cup Queued \cup Waiting
        /\ Sets(Readers, Writers \cup {t}, Queued, Waiting)
    BY <1>2, <1>15, MoveEffect
  <2>2. CountersFollow(t)
    BY <1>1, <1>2, CounterTests, <1>15, <2>1 DEF AcquireWriterAtOnce
  <2>3. Events'
    BY <1>1, <1>2, CounterTests, <1>15, <2>1 DEF AcquireWriterAtOnce
  <2> QED BY <2>2, <2>3
<1>16. CASE UpgradeAtOnce(t)
  <2>1. /\ t \in Readers
        /\ Sets(Readers \ {t}, Writers \cup {t}, Queued, Waiting)
    BY <1>2, <1>16, MoveEffect
  <2>2. CountersFollow(t)
    BY <1>1, <1>2, CounterTests, <1>16, <2>1 DEF UpgradeAtOnce
  <2>3. Events'
    BY <1>1, <1>2, CounterTests, <1>16, <2>1 DEF UpgradeAtOnce
  <2> QED BY <2>2, <2>3
<1>17. CASE AcquireWriterQueue(t)
  <2>1. /\ t \notin Readers \cup Writers \cup Queued \cup Waiting
        /\ Sets(Readers, Writers, Queued \cup {t}, Waiting)
    BY <1>2, <1>17, MoveEffect
  <2>2. CountersFollow(t)
    BY <1>1, <1>2, CounterTests, <1>17, <2>1 DEF AcquireWriterQueue, WriterWaitEnter
  <2>3. Events'
    BY <1>1, <1>2, CounterTests, <1>17, <2>1 DEF AcquireWriterQueue, WriterWaitEnter
  <2> QED BY <2>2, <2>3
<1>18. CASE UpgradeQueue(t)
  <2>1. /\ t \in Readers
        /\ Sets(Readers \ {t}, Writers, Queued \cup {t}, Waiting)
    BY <1>2, <1>18, MoveEffect
  <2>2. CountersFollow(t)
    BY <1>1, <1>2, CounterTests, <1>18, <2>1 DEF UpgradeQueue, WriterWaitEnter
  <2>3. Events'
    BY <1>1, <1>2, CounterTests, <1>18, <2>1 DEF UpgradeQueue, WriterWaitEnter
  <2> QED BY <2>2, <2>3
<1>19. CASE WriterWoken(t)
  <2>1. /\ t \in Queued
        /\ Sets(Readers, Writers \cup {t}, Queued \ {t}, Waiting)
    BY <1>2, <1>19, MoveEffect
  <2>2. CountersFollow(t)
    BY <1>1, <1>2, CounterTests, <1>19, <2>1 DEF WriterWoken
  <2>3. Events'
    BY <1>1, <1>2, CounterTests, <1>19, <2>1 DEF WriterWoken
  <2> QED BY <2>2, <2>3
<1>20. CASE WriterExpiredGranted(t)
  <2>1. /\ t \in Queued
        /\ Sets(Readers, Writers \cup {t}, Queued \ {t}, Waiting)
    BY <1>2, <1>20, MoveEffect
  <2>2. CountersFollow(t)
    BY <1>1, <1>2, CounterTests, <1>20, <2>1 DEF WriterExpiredGranted
  <2>3. Events'
    BY <1>1, <1>2, CounterTests, <1>20, <2>1 DEF WriterExpiredGranted
  <2> QED BY <2>2, <2>3
<1>21. CASE WriterExpiredLast(t)
  <2>1. CASE readerUnits[t] > 0
    <3>1. /\ t \in Queued
          /\ Sets(Readers \cup {t}, Writers, Queued \ {t}, Waiting)
      BY <1>2, <1>21, <2>1, BranchEffect
    <3>2. CountersFollow(t)
      BY <1>1, <1>2, CounterTests, <1>21, <2>1, <3>1 DEF WriterExpiredLast
    <3>3. Events'
      BY <1>1, <1>2, CounterTests, <1>21, <2>1, <3>1 DEF WriterExpiredLast
    <3> QED BY <3>2, <3>3
  <2>2. CASE readerUnits[t] = 0
    <3>1. /\ t \in Queued
          /\ Sets(Readers, Writers, Queued \ {t}, Waiting)
      BY <1>2, <1>21, <2>2, BranchEffect
    <3>2. CountersFollow(t)
      BY <1>1, <1>2, CounterTests, <1>21, <2>2, <3>1 DEF WriterExpiredLast
    <3>3. Events'
      BY <1>1, <1>2, CounterTests, <1>21, <2>2, <3>1 DEF WriterExpiredLast
    <3> QED BY <3>2, <3>3
  <2> QED BY <2>1, <2>2, <1>2
<1>22. CASE WriterExpiredQueued(t)
  <2>1. CASE readerUnits[t] > 0
    <3>1. /\ t \in Queued
          /\ Sets(Readers, Writers, Queued \ {t}, Waiting \cup {t})
      BY <1>2, <1>22, <2>1, BranchEffect
    <3>2. CountersFollow(t)
      BY <1>1, <1>2, CounterTests, <1>22, <2>1, <3>1 DEF WriterExpiredQueued, ReaderWaitEnter
    <3>3. Events'
      BY <1>1, <1>2, CounterTests, <1>22, <2>1, <3>1 DEF WriterExpiredQueued, ReaderWaitEnter
    <3> QED BY <3>2, <3>3
  <2>2. CASE readerUnits[t] = 0
    <3>1. /\ t \in Queued
          /\ Sets(Readers, Writers, Queued \ {t}, Waiting)
      BY <1>2, <1>22, <2>2, BranchEffect
    <3>2. CountersFollow(t)
      BY <1>1, <1>2, CounterTests, <1>22, <2>2, <3>1 DEF WriterExpiredQueued, ReaderWaitEnter
    <3>3. Events'
      BY <1>1, <1>2, CounterTests, <1>22, <2>2, <3>1 DEF WriterExpiredQueued, ReaderWaitEnter
    <3> QED BY <3>2, <3>3
  <2> QED BY <2>1, <2>2, <1>2
<1>23. CASE UpgradeReenter(t)
  <2>1. CASE m_iNumOfReaderEntered = 0
    <3>1. /\ t \in Waiting
          /\ Sets(Readers, Writers \cup {t}, Queued, Waiting \ {t})
      BY <1>2, <1>23, <2>1, BranchEffect
    <3>2. CountersFollow(t)
      BY <1>1, <1>2, CounterTests, <1>23, <2>1, <3>1 DEF UpgradeReenter, ReaderWaitLeave
    <3>3. Events'
      BY <1>1, <1>2, CounterTests, <1>23, <2>1, <3>1 DEF UpgradeReenter, ReaderWaitLeave
    <3> QED BY <3>2, <3>3
  <2>2. CASE m_iNumOfReaderEntered # 0
    <3>1. /\ t \in Waiting
          /\ Sets(Readers \cup {t}, Writers, Queued, Waiting \ {t})
      BY <1>2, <1>23, <2>2, BranchEffect
    <3>2. CountersFollow(t)
      BY <1>1, <1>2, CounterTests, <1>23, <2>2, <3>1 DEF UpgradeReenter, ReaderWaitLeave
    <3>3. Events'
      BY <1>1, <1>2, CounterTests, <1>23, <2>2, <3>1 DEF UpgradeReenter, ReaderWaitLeave
    <3> QED BY <3>2, <3>3
  <2> QED BY <2>1, <2>2, <1>2
<1>24. CASE ReleaseReaderLock(t)
  <2>1. CASE readerUnits[t] = 1 /\ writerUnits[t] = 0
    <3>1. /\ t \in Readers
          /\ Sets(Readers \ {t}, Writers, Queued, Waiting)
      BY <1>2, <1>24, <2>1, BranchEffect
    <3>2. CountersFollow(t)
      BY <1>1, <1>2, CounterTests, <1>24, <2>1, <3>1 DEF ReleaseReaderLock, _ReaderRelease
    <3>3. Events'
      BY <1>1, <1>2, CounterTests, <1>24, <2>1, <3>1 DEF ReleaseReaderLock, _ReaderRelease
    <3> QED BY <3>2, <3>3
  <2>2. CASE ~(readerUnits[t] = 1 /\ writerUnits[t] = 0)
    <3>1. /\ Same
      BY <1>2, <1>24, <2>2, BranchEffect
    <3>2. CountersFollow(t)
      BY <1>1, <1>2, CounterTests, <1>24, <2>2, <3>1 DEF ReleaseReaderLock, _ReaderRelease
    <3>3. Events'
      BY <1>1, <1>2, CounterTests, <1>24, <2>2, <3>1 DEF ReleaseReaderLock, _ReaderRelease
    <3> QED BY <3>2, <3>3
  <2> QED BY <2>1, <2>2, <1>2
<1>25. CASE ReleaseWriterLock(t)
  <2>1. CASE writerUnits[t] = 1 /\ readerUnits[t] > 0
    <3>1. /\ t \in Writers
          /\ Sets(Readers \cup {t}, Writers \ {t}, Queued, Waiting)
      BY <1>2, <1>25, <2>1, BranchEffect
    <3>2. CountersFollow(t)
      BY <1>1, <1>2, CounterTests, <1>25, <2>1, <3>1 DEF ReleaseWriterLock, _WriterRelease
    <3>3. Events'
      BY <1>1, <1>2, CounterTests, <1>25, <2>1, <3>1 DEF ReleaseWriterLock, _WriterRelease
    <3> QED BY <3>2, <3>3
  <2>2. CASE writerUnits[t] = 1 /\ readerUnits[t] = 0
    <3>1. /\ t \in Writers
          /\ Sets(Readers, Writers \ {t}, Queued, Waiting)
      BY <1>2, <1>25, <2>2, BranchEffect
    <3>2. CountersFollow(t)
      BY <1>1, <1>2, CounterTests, <1>25, <2>2, <3>1 DEF ReleaseWriterLock, _WriterRelease
    <3>3. Events'
      BY <1>1, <1>2, CounterTests, <1>25, <2>2, <3>1 DEF ReleaseWriterLock, _WriterRelease
    <3> QED BY <3>2, <3>3
  <2>3. CASE writerUnits[t] # 1
    <3>1. /\ Same
      BY <1>2, <1>25, <2>3, BranchEffect
    <3>2. CountersFollow(t)
      BY <1>1, <1>2, CounterTests, <1>25, <2>3, <3>1 DEF ReleaseWriterLock, _WriterRelease
    <3>3. Events'
      BY <1>1, <1>2, CounterTests, <1>25, <2>3, <3>1 DEF ReleaseWriterLock, _WriterRelease
    <3> QED BY <3>2, <3>3
  <2> QED BY <2>1, <2>2, <2>3, <1>2
<1>26. CASE ReleaseAllLocks(t)
  <2>1. CASE writerUnits[t] > 0
    <3>1. /\ t \in Writers
          /\ Sets(Readers, Writers \ {t}, Queued, Waiting)
      BY <1>2, <1>26, <2>1, BranchEffect
    <3>2. CountersFollow(t)
      BY <1>1, <1>2, CounterTests, <1>26, <2>1, <3>1 DEF ReleaseAllLocks, _WriterRelease, _ReaderRelease
    <3>3. Events'
      BY <1>1, <1>2, CounterTests, <1>26, <2>1, <3>1 DEF ReleaseAllLocks, _WriterRelease, _ReaderRelease
    <3> QED BY <3>2, <3>3
  <2>2. CASE writerUnits[t] = 0
    <3>1. /\ t \in Readers
          /\ Sets(Readers \ {t}, Writers, Queued, Waiting)
      BY <1>2, <1>26, <2>2, BranchEffect
    <3>2. CountersFollow(t)
      BY <1>1, <1>2, CounterTests, <1>26, <2>2, <3>1 DEF ReleaseAllLocks, _WriterRelease, _ReaderRelease
    <3>3. Events'
      BY <1>1, <1>2, CounterTests, <1>26, <2>2, <3>1 DEF ReleaseAllLocks, _WriterRelease, _ReaderRelease
    <3> QED BY <3>2, <3>3
  <2> QED BY <2>1, <2>2, <1>2
<1> QED
  BY <1>10, <1>11, <1>12, <1>13, <1>14, <1>15, <1>16, <1>17, <1>18,
     <1>19, <1>20, <1>21, <1>22, <1>23, <1>24, <1>25, <1>26
     DEF Request, Proceed, Timeout, Release, Internal

-----------------------------------------------------------------------------
(* The part of IInv that speaks of single threads and of the handles.      *)
ThreadInv ==
  /\ m_hSafeToReadEvent \in EventState
  /\ m_hSafeToWriteEvent \in EventState
  /\ readerUnits \in [Threads -> Nat]
  /\ writerUnits \in [Threads -> Nat]
  /\ pc \in [Threads -> PC]
  /\ timed \in [Threads -> BOOLEAN]
  /\ UnitsOfWaiters

LEMMA ThreadInvStep ==
  ASSUME IInv, NEW t \in Threads,
         Request(t) \/ Proceed(t) \/ Timeout(t) \/ Release(t)
  PROVE  ThreadInv'
<1> ThreadInv
  BY DEF IInv, TypeOK, ThreadInv
<1> USE DEF ThreadInv, UnitsOfWaiters, ReaderWaiting, PC, EventState, Goto,
           InMap, m_map, events, CreateIfNull, SetEvent, ResetEvent
<1>1. CASE Request(t)
  <2>1. CASE AcquireReaderAgain(t) BY <2>1 DEF AcquireReaderAgain
  <2>2. CASE AcquireReaderAtOnce(t) BY <2>2 DEF AcquireReaderAtOnce
  <2>3. CASE AcquireReaderQueue(t)
    BY <2>3 DEF AcquireReaderQueue, ReaderWaitEnter
  <2>4. CASE AcquireWriterAgain(t) BY <2>4 DEF AcquireWriterAgain
  <2>5. CASE AcquireWriterAtOnce(t) BY <2>5 DEF AcquireWriterAtOnce
  <2>6. CASE AcquireWriterQueue(t)
    BY <2>6 DEF AcquireWriterQueue, WriterWaitEnter
  <2>7. CASE UpgradeAtOnce(t) BY <2>7 DEF UpgradeAtOnce
  <2>8. CASE UpgradeQueue(t) BY <2>8 DEF UpgradeQueue, WriterWaitEnter
  <2> QED BY <1>1, <2>1, <2>2, <2>3, <2>4, <2>5, <2>6, <2>7, <2>8 DEF Request
<1>2. CASE Proceed(t)
  <2>1. CASE ReaderWoken(t) BY <2>1 DEF ReaderWoken
  <2>2. CASE ReaderEnter(t) BY <2>2 DEF ReaderEnter, ReaderWaitLeave
  <2>3. CASE ReaderOvertaken(t) BY <2>3 DEF ReaderOvertaken
  <2>4. CASE ReaderWaitAgain(t) BY <2>4 DEF ReaderWaitAgain
  <2>5. CASE ReaderGiveUp(t) BY <2>5 DEF ReaderGiveUp, ReaderWaitLeave
  <2>6. CASE UpgradeReenter(t) BY <2>6 DEF UpgradeReenter, ReaderWaitLeave
  <2>7. CASE WriterWoken(t) BY <2>7 DEF WriterWoken
  <2>8. CASE WriterExpiredGranted(t) BY <2>8 DEF WriterExpiredGranted
  <2>9. CASE WriterExpiredLast(t) BY <2>9 DEF WriterExpiredLast
  <2>10. CASE WriterExpiredQueued(t)
    BY <2>10 DEF WriterExpiredQueued, ReaderWaitEnter
  <2>11. CASE WriterEnter(t) BY <2>11 DEF WriterEnter
  <2> QED BY <1>2, <2>1, <2>2, <2>3, <2>4, <2>5, <2>6, <2>7, <2>8, <2>9,
             <2>10, <2>11 DEF Proceed
<1>3. CASE Timeout(t)
  BY <1>3 DEF Timeout, ReaderTimeout, WriterTimeout
<1>4. CASE Release(t)
  <2>1. CASE ReleaseReaderLock(t)
    BY <2>1 DEF ReleaseReaderLock, _ReaderRelease
  <2>2. CASE ReleaseWriterLock(t)
    BY <2>2 DEF ReleaseWriterLock, _WriterRelease
  <2>3. CASE ReleaseAllLocks(t)
    BY <2>3 DEF ReleaseAllLocks, _WriterRelease, _ReaderRelease
  <2> QED BY <1>4, <2>1, <2>2, <2>3 DEF Release
<1> QED BY <1>1, <1>2, <1>3, <1>4

-----------------------------------------------------------------------------
LEMMA InitIInv == Init => IInv
<1> SUFFICES ASSUME Init PROVE IInv
  OBVIOUS
<1>1. TypeOK /\ UnitsOfWaiters
  BY DEF Init, TypeOK, UnitsOfWaiters, EventState, PC, ReaderWaiting
<1>2. Readers = {} /\ Writers = {} /\ Queued = {} /\ Waiting = {}
  BY DEF Init, Readers, Writers, Queued, Waiting, ReaderWaiting, WriterQueued
<1>3. CountersExact
  BY <1>2, FS_EmptySet DEF Init, CountersExact
<1>4. HandlesLive /\ EventDiscipline /\ MutualExclusion /\ NoLostWakeup
  BY <1>2 DEF Init, HandlesLive, EventDiscipline, MutualExclusion, NoLostWakeup
<1> QED BY <1>1, <1>3, <1>4 DEF IInv

LEMMA StepIInv == IInv /\ [Next]_vars => IInv'
<1> SUFFICES ASSUME IInv, [Next]_vars PROVE IInv'
  OBVIOUS
<1>1. CASE Next
  <2>1. PICK t \in Threads : Request(t) \/ Proceed(t) \/ Timeout(t) \/ Release(t)
    BY <1>1 DEF Next
  <2>2. SetInv' BY <2>1, SetInvStep
  <2>3. ThreadInv' BY <2>1, ThreadInvStep
  <2>4. /\ Readers' \subseteq Threads /\ Waiting' \subseteq Threads
        /\ (Writers \cup Queued)' \subseteq Threads
    BY DEF Readers, Waiting, Writers, Queued
  <2>5. /\ IsFiniteSet(Readers') /\ IsFiniteSet(Waiting')
        /\ IsFiniteSet((Writers \cup Queued)')
    BY <2>4, ThreadsFinite, FS_Subset
  <2>6. /\ m_iNumOfWriter' \in Nat /\ m_iNumOfReaderEntered' \in Nat
        /\ m_iNumOfReaderWaiting' \in Nat
    BY <2>2, <2>5, CardFacts DEF SetInv, CountersExact
  <2>7. TypeOK'
    BY <2>3, <2>6 DEF ThreadInv, TypeOK
  <2> QED BY <2>2, <2>3, <2>7 DEF SetInv, ThreadInv, IInv
<1>2. CASE UNCHANGED vars
  BY <1>2 DEF vars, counters, events, m_map, IInv, TypeOK, CountersExact,
     UnitsOfWaiters, HandlesLive, EventDiscipline, MutualExclusion,
     NoLostWakeup, Readers, Writers, Queued, Waiting
<1> QED BY <1>1, <1>2

(* The inductive invariant holds in every state of every execution, for    *)
(* any finite set of threads and any bound on recursion.                   *)
THEOREM Invariance == Spec => []IInv
BY InitIInv, StepIInv, PTL DEF Spec

(* Every variable keeps its type.                                          *)
THEOREM TypeCorrect == Spec => []TypeOK
<1>1. IInv => TypeOK BY DEF IInv
<1> QED BY <1>1, Invariance, PTL

(* Never a reader beside a writer, never two writers.                      *)
THEOREM Exclusion == Spec => []MutualExclusion
<1>1. IInv => MutualExclusion BY DEF IInv
<1> QED BY <1>1, Invariance, PTL

(* No wakeup is lost and no thread waits on a closed handle.               *)
THEOREM Wakeups == Spec => [](NoLostWakeup /\ HandlesLive)
<1>1. IInv => NoLostWakeup /\ HandlesLive BY DEF IInv
<1> QED BY <1>1, Invariance, PTL

(* The assertions of the code never fire.                                  *)
THEOREM AssertionsHold == Spec => []CodeAssertions
<1>1. ASSUME IInv PROVE CodeAssertions
  <2>1. \A t \in Readers : m_iNumOfReaderEntered >= 1
    BY <1>1, CounterTests DEF IInv, TypeOK, Readers
  <2>2. ASSUME NEW t \in Writers
        PROVE  /\ m_iNumOfReaderEntered = 0
               /\ m_iNumOfWriter > 1 => m_hSafeToWriteEvent # "null"
    <3>1. t \in Threads BY DEF Writers
    <3>2. m_iNumOfReaderEntered = 0
      BY <1>1, <3>1, CounterTests DEF IInv, MutualExclusion
    <3>3. ASSUME m_iNumOfWriter > 1 PROVE m_hSafeToWriteEvent # "null"
      <4>1. m_iNumOfWriter # 1
        BY <3>3
      <4>2. PICK u \in Writers \cup Queued : u # t
        BY <1>1, <3>1, <4>1, CounterTests
      <4>3. u \in Queued
        BY <1>1, <4>2 DEF IInv, MutualExclusion
      <4> QED BY <1>1, <4>3 DEF IInv, HandlesLive
    <3> QED BY <3>2, <3>3
  <2>3. ASSUME \A t \in Threads : pc[t] = "idle" /\ ~InMap(t)
        PROVE  m_hSafeToReadEvent = "null" /\ m_hSafeToWriteEvent = "null"
    <3>1. Waiting = {} /\ Queued = {} /\ Writers = {}
      BY <1>1, <2>3 DEF IInv, TypeOK, InMap, Waiting, Queued, Writers,
                        ReaderWaiting, WriterQueued
    <3> QED BY <1>1, <3>1 DEF IInv, EventDiscipline
  <2> QED BY <2>1, <2>2, <2>3 DEF CodeAssertions
<1> QED BY <1>1, Invariance, PTL

-----------------------------------------------------------------------------
(* The refinement: what each step is in the abstract lock.                 *)
LEMMA StepRefines ==
  ASSUME IInv, NEW t \in Threads,
         Request(t) \/ Proceed(t) \/ Timeout(t) \/ Release(t)
  PROVE  [Abs!Next]_(Abs!vars)
<1>1. IInv /\ TypeOK /\ UnitsOfWaiters /\ MutualExclusion /\ EventDiscipline
  BY DEF IInv
<1>2. /\ Readers \cap Writers = {} /\ Readers \cap Queued = {}
      /\ Readers \cap Waiting = {} /\ Writers \cap Queued = {}
      /\ Writers \cap Waiting = {} /\ Queued \cap Waiting = {}
  BY SetFacts DEF IInv
<1>3. ASSUME Same PROVE UNCHANGED Abs!vars
  BY <1>3 DEF Same, Sets, Abs!vars
<1> USE DEF Sets
<1>10. CASE Internal(t)
  BY <1>1, <1>3, <1>10, InternalEffect
<1>11. CASE AcquireReaderAtOnce(t)
  <2>1. Abs!JoinReaders(t)
    BY <1>1, <1>2, <1>11, MoveEffect, CounterTests
       DEF AcquireReaderAtOnce, MutualExclusion, EventDiscipline, Abs!JoinReaders
  <2> QED BY <2>1 DEF Abs!Next
<1>12. CASE ReaderEnter(t)
  <2>1. Abs!JoinReaders(t)
    BY <1>1, <1>2, <1>12, MoveEffect, CounterTests
       DEF ReaderEnter, MutualExclusion, EventDiscipline, Abs!JoinReaders
  <2> QED BY <2>1 DEF Abs!Next
<1>13. CASE AcquireWriterAtOnce(t)
  <2>1. Abs!BecomeWriter(t)
    BY <1>1, <1>2, <1>13, MoveEffect, CounterTests
       DEF AcquireWriterAtOnce, MutualExclusion, EventDiscipline, Abs!BecomeWriter
  <2> QED BY <2>1 DEF Abs!Next
<1>14. CASE UpgradeAtOnce(t)
  <2>1. Abs!BecomeWriter(t)
    BY <1>1, <1>2, <1>14, MoveEffect, CounterTests
       DEF UpgradeAtOnce, MutualExclusion, EventDiscipline, Abs!BecomeWriter
  <2> QED BY <2>1 DEF Abs!Next
<1>15. CASE AcquireWriterQueue(t)
  <2>1. Abs!Enqueue(t)
    BY <1>1, <1>2, <1>15, MoveEffect, CounterTests
       DEF AcquireWriterQueue, MutualExclusion, EventDiscipline, Abs!Enqueue
  <2> QED BY <2>1 DEF Abs!Next
<1>16. CASE UpgradeQueue(t)
  <2>1. Abs!Enqueue(t)
    BY <1>1, <1>2, <1>16, MoveEffect, CounterTests
       DEF UpgradeQueue, MutualExclusion, EventDiscipline, Abs!Enqueue
  <2> QED BY <2>1 DEF Abs!Next
<1>17. CASE WriterWoken(t)
  <2>1. Abs!BecomeWriter(t)
    BY <1>1, <1>2, <1>17, MoveEffect, CounterTests
       DEF WriterWoken, MutualExclusion, EventDiscipline, Abs!BecomeWriter
  <2> QED BY <2>1 DEF Abs!Next
<1>18. CASE WriterExpiredGranted(t)
  <2>1. Abs!BecomeWriter(t)
    BY <1>1, <1>2, <1>18, MoveEffect, CounterTests
       DEF WriterExpiredGranted, MutualExclusion, EventDiscipline, Abs!BecomeWriter
  <2> QED BY <2>1 DEF Abs!Next
<1>19. CASE AcquireReaderQueue(t)
  BY <1>1, <1>19, MoveEffect DEF Abs!vars
<1>20. CASE ReaderGiveUp(t)
  BY <1>1, <1>20, MoveEffect DEF Abs!vars
<1>21. CASE WriterExpiredLast(t)
  <2>1. CASE readerUnits[t] > 0
    <3>1. Abs!FallBackToReader(t)
      BY <1>1, <1>2, <1>21, <2>1, BranchEffect, CounterTests
         DEF WriterExpiredLast, MutualExclusion, Abs!FallBackToReader
    <3> QED BY <3>1 DEF Abs!Next
  <2>2. CASE readerUnits[t] = 0
    <3>1. Abs!GiveUp(t)
      BY <1>1, <1>2, <1>21, <2>2, BranchEffect, CounterTests
         DEF WriterExpiredLast, MutualExclusion, Abs!GiveUp
    <3> QED BY <3>1 DEF Abs!Next
  <2> QED BY <2>1, <2>2, <1>1 DEF TypeOK
<1>22. CASE WriterExpiredQueued(t)
  <2>1. readerUnits[t] > 0 \/ readerUnits[t] = 0
    BY DEF IInv, TypeOK
  <2>2. Abs!GiveUp(t)
    BY <1>1, <1>2, <1>22, <2>1, BranchEffect DEF Abs!GiveUp
  <2> QED BY <2>2 DEF Abs!Next
<1>23. CASE UpgradeReenter(t)
  <2>1. CASE m_iNumOfReaderEntered = 0
    <3>1. Abs!BecomeWriter(t)
      BY <1>1, <1>2, <1>23, <2>1, BranchEffect, CounterTests
         DEF UpgradeReenter, MutualExclusion, Abs!BecomeWriter
    <3> QED BY <3>1 DEF Abs!Next
  <2>2. CASE m_iNumOfReaderEntered # 0
    <3>1. Abs!JoinReaders(t)
      BY <1>1, <1>2, <1>23, <2>2, BranchEffect, CounterTests
         DEF UpgradeReenter, MutualExclusion, Abs!JoinReaders
    <3> QED BY <3>1 DEF Abs!Next
  <2> QED BY <2>1, <2>2, <1>1 DEF TypeOK
<1>24. CASE ReleaseReaderLock(t)
  <2>1. CASE readerUnits[t] = 1 /\ writerUnits[t] = 0
    <3>1. Abs!LeaveReaders(t)
      BY <1>1, <1>2, <1>24, <2>1, BranchEffect, CounterTests
         DEF ReleaseReaderLock, MutualExclusion, Abs!LeaveReaders
    <3> QED BY <3>1 DEF Abs!Next
  <2>2. CASE ~(readerUnits[t] = 1 /\ writerUnits[t] = 0)
    BY <1>1, <1>3, <1>24, <2>2, BranchEffect
  <2> QED BY <2>1, <2>2, <1>1 DEF TypeOK
<1>25. CASE ReleaseWriterLock(t)
  <2>1. CASE writerUnits[t] = 1 /\ readerUnits[t] > 0
    <3>1. Abs!Downgrade(t)
      BY <1>1, <1>2, <1>25, <2>1, BranchEffect, CounterTests
         DEF ReleaseWriterLock, MutualExclusion, Abs!Downgrade
    <3> QED BY <3>1 DEF Abs!Next
  <2>2. CASE writerUnits[t] = 1 /\ readerUnits[t] = 0
    <3>1. Abs!ReleaseWriter(t)
      BY <1>1, <1>2, <1>25, <2>2, BranchEffect, CounterTests
         DEF ReleaseWriterLock, MutualExclusion, Abs!ReleaseWriter
    <3> QED BY <3>1 DEF Abs!Next
  <2>3. CASE writerUnits[t] # 1
    BY <1>1, <1>3, <1>25, <2>3, BranchEffect
  <2> QED BY <2>1, <2>2, <2>3, <1>1 DEF TypeOK
<1>26. CASE ReleaseAllLocks(t)
  <2>1. CASE writerUnits[t] > 0
    <3>1. Abs!ReleaseWriter(t)
      BY <1>1, <1>2, <1>26, <2>1, BranchEffect, CounterTests
         DEF ReleaseAllLocks, MutualExclusion, Abs!ReleaseWriter
    <3> QED BY <3>1 DEF Abs!Next
  <2>2. CASE writerUnits[t] = 0
    <3>1. Abs!LeaveReaders(t)
      BY <1>1, <1>2, <1>26, <2>2, BranchEffect, CounterTests
         DEF ReleaseAllLocks, MutualExclusion, Abs!LeaveReaders
    <3> QED BY <3>1 DEF Abs!Next
  <2> QED BY <2>1, <2>2, <1>1 DEF TypeOK
<1> QED
  BY <1>10, <1>11, <1>12, <1>13, <1>14, <1>15, <1>16, <1>17, <1>18,
     <1>19, <1>20, <1>21, <1>22, <1>23, <1>24, <1>25, <1>26
     DEF Request, Proceed, Timeout, Release, Internal

(* The event-based lock implements the abstract one: in particular no      *)
(* thread becomes a reader while a writer is inside or queued, except a    *)
(* writer that is downgraded or an upgrade that failed.                    *)
THEOREM Refinement == Spec => ImplementsAbstract
<1>1. Init => Abs!Init
  BY DEF Init, Abs!Init, Readers, Writers, Queued, WriterQueued
<1>2. IInv /\ [Next]_vars => [Abs!Next]_(Abs!vars)
  <2> SUFFICES ASSUME IInv, [Next]_vars PROVE [Abs!Next]_(Abs!vars)
    OBVIOUS
  <2>1. CASE Next
    BY <2>1, StepRefines DEF Next
  <2>2. CASE UNCHANGED vars
    BY <2>2 DEF vars, m_map, Abs!vars, Readers, Writers, Queued
  <2> QED BY <2>1, <2>2
<1> QED BY <1>1, <1>2, Invariance, PTL DEF Spec, ImplementsAbstract, Abs!Spec

=============================================================================
