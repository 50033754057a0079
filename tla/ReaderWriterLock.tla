--------------------------- MODULE ReaderWriterLock ---------------------------
(***************************************************************************)
(* CReaderWriterLock (src/src/Utils/ReaderWriterLock.{h,cpp}): the         *)
(* re-entrant reader-writer lock that guards the status cache              *)
(* (CSVNStatusCache::m_guard) of TSVNCache.exe.                            *)
(*                                                                         *)
(* Every block between EnterCS() and LeaveCS() is one atomic action: m_cs  *)
(* guards all the members.  What happens outside m_cs is an action of its  *)
(* own: a WaitForSingleObject that returns because the event is signalled  *)
(* or because the time is up, each followed by a separate EnterCS().       *)
(*                                                                         *)
(* m_map packs a thread's reader units in the low and its writer units in  *)
(* the high half of a DWORD; the halves are two functions here, and a      *)
(* thread without entry in m_map has 0 in both.  A thread that waits       *)
(* with readerUnits > 0 is one that is being upgraded.                     *)
(*                                                                         *)
(* A call with dwTimeout = 0 that cannot be served changes nothing: it is  *)
(* a stuttering step.                                                      *)
(***************************************************************************)
EXTENDS Integers, FiniteSets

CONSTANTS
  Threads,       \* the threads that use the lock
  MaxRecursion   \* bound on the units of one thread (code: READER_RECURRENCE_MASK)

ASSUME ThreadsFinite == IsFiniteSet(Threads)
ASSUME MaxRecursionPositive == MaxRecursion \in Nat \ {0}

VARIABLES
  m_iNumOfWriter,         \* writers: the one inside and all that wait
  m_iNumOfReaderEntered,  \* readers inside
  m_iNumOfReaderWaiting,  \* threads inside _ReaderWait
  m_hSafeToReadEvent,     \* manual-reset event, created and closed on demand
  m_hSafeToWriteEvent,    \* auto-reset event, created and closed on demand
  readerUnits,            \* m_map[t] & READER_RECURRENCE_MASK
  writerUnits,            \* m_map[t] / WRITER_RECURRENCE_UNIT
  pc,                     \* where in the lock's code a thread is
  timed                   \* dwTimeout of the thread's call is not INFINITE

counters == <<m_iNumOfWriter, m_iNumOfReaderEntered, m_iNumOfReaderWaiting>>
events   == <<m_hSafeToReadEvent, m_hSafeToWriteEvent>>
m_map    == <<readerUnits, writerUnits>>
vars     == <<counters, events, m_map, pc, timed>>

(* A handle is NULL, or an event that is not signalled ("reset") or is.    *)
EventState == {"null", "reset", "set"}

CreateIfNull(event) == IF event = "null" THEN "reset" ELSE event
SetEvent(event)     == IF event = "null" THEN "null" ELSE "set"
ResetEvent(event)   == IF event = "null" THEN "null" ELSE "reset"

(* idle     : outside the lock's code, with or without units               *)
(* rWait    : _ReaderWait, blocked on m_hSafeToReadEvent                   *)
(* rWoken   : its wait returned WAIT_OBJECT_0, before EnterCS              *)
(* rExpired : its wait timed out, before EnterCS                           *)
(* rRetry   : a writer was faster, about to compare dwConsumedTime         *)
(* wWait    : _WriterWaitAndLeaveCSIfSuccess, blocked on the write event   *)
(* wExpired : its wait timed out, before EnterCS                           *)
(* wGranted : the lock is the thread's, m_map not yet updated              *)
PC == {"idle", "rWait", "rWoken", "rExpired", "rRetry",
       "wWait", "wExpired", "wGranted"}

Init ==
  /\ m_iNumOfWriter = 0
  /\ m_iNumOfReaderEntered = 0
  /\ m_iNumOfReaderWaiting = 0
  /\ m_hSafeToReadEvent = "null"
  /\ m_hSafeToWriteEvent = "null"
  /\ readerUnits = [t \in Threads |-> 0]
  /\ writerUnits = [t \in Threads |-> 0]
  /\ pc = [t \in Threads |-> "idle"]
  /\ timed = [t \in Threads |-> FALSE]

Goto(t, label) == pc' = [pc EXCEPT ![t] = label]

InMap(t) == readerUnits[t] > 0 \/ writerUnits[t] > 0

-----------------------------------------------------------------------------
(* CReaderWriterLock::AcquireReaderLock *)

(* The thread is in m_map already, as a reader or as a writer.             *)
AcquireReaderAgain(t) ==
  /\ pc[t] = "idle"
  /\ InMap(t)
  /\ readerUnits[t] < MaxRecursion
  /\ readerUnits' = [readerUnits EXCEPT ![t] = @ + 1]
  /\ UNCHANGED <<counters, events, writerUnits, pc, timed>>

(* Fault: readers join other readers although a writer is queued.          *)
AcquireReaderAtOnce_Barging(t) ==
  /\ pc[t] = "idle"
  /\ ~InMap(t)
  /\ m_iNumOfWriter = 0 \/ m_iNumOfReaderEntered > 0
  /\ m_iNumOfReaderEntered' = m_iNumOfReaderEntered + 1
  /\ readerUnits' = [readerUnits EXCEPT ![t] = 1]
  /\ UNCHANGED <<m_iNumOfWriter, m_iNumOfReaderWaiting, events, writerUnits,
                 pc, timed>>

(* No writer, neither inside nor queued.                                   *)
AcquireReaderAtOnce(t) ==
  /\ pc[t] = "idle"
  /\ ~InMap(t)
  /\ m_iNumOfWriter = 0
  /\ m_iNumOfReaderEntered' = m_iNumOfReaderEntered + 1
  /\ readerUnits' = [readerUnits EXCEPT ![t] = 1]
  /\ UNCHANGED <<m_iNumOfWriter, m_iNumOfReaderWaiting, events, writerUnits,
                 pc, timed>>

(* Entry of _ReaderWait up to its first LeaveCS.                           *)
ReaderWaitEnter(t) ==
  /\ m_iNumOfReaderWaiting' = m_iNumOfReaderWaiting + 1
  /\ m_hSafeToReadEvent' = CreateIfNull(m_hSafeToReadEvent)
  /\ Goto(t, "rWait")

AcquireReaderQueue(t) ==
  /\ pc[t] = "idle"
  /\ ~InMap(t)
  /\ m_iNumOfWriter # 0
  /\ ReaderWaitEnter(t)
  /\ \E isTimed \in BOOLEAN : timed' = [timed EXCEPT ![t] = isTimed]
  /\ UNCHANGED <<m_iNumOfWriter, m_iNumOfReaderEntered, m_hSafeToWriteEvent,
                 m_map>>

(* WaitForSingleObject(m_hSafeToReadEvent) returns: the event is           *)
(* manual-reset, so it stays signalled.                                    *)
ReaderWoken(t) ==
  /\ pc[t] = "rWait"
  /\ m_hSafeToReadEvent = "set"
  /\ Goto(t, "rWoken")
  /\ UNCHANGED <<counters, events, m_map, timed>>

(* WAIT_TIMEOUT: the time is up and the event is not signalled.            *)
ReaderTimeout(t) ==
  /\ pc[t] = "rWait"
  /\ timed[t]
  /\ m_hSafeToReadEvent # "set"
  /\ Goto(t, "rExpired")
  /\ UNCHANGED <<counters, events, m_map, timed>>

(* Fault: the handle leaks when the last reader leaves.                    *)
ReaderWaitLeave_Leak ==
  /\ m_iNumOfReaderWaiting' = m_iNumOfReaderWaiting - 1
  /\ UNCHANGED m_hSafeToReadEvent

(* Fault: every reader that leaves closes the handle.                      *)
ReaderWaitLeave_CloseEarly ==
  /\ m_iNumOfReaderWaiting' = m_iNumOfReaderWaiting - 1
  /\ m_hSafeToReadEvent' = "null"

(* The tail of _ReaderWait: the last one to leave closes the event.        *)
ReaderWaitLeave ==
  /\ m_iNumOfReaderWaiting' = m_iNumOfReaderWaiting - 1
  /\ m_hSafeToReadEvent' = IF m_iNumOfReaderWaiting = 1 THEN "null"
                                                        ELSE m_hSafeToReadEvent

(* Fault: an expired wait counts as success when other readers are inside. *)
ReaderEnter_Overtaking(t) ==
  /\ pc[t] \in {"rWoken", "rExpired"}
  /\ readerUnits[t] = 0
  /\ m_iNumOfWriter = 0 \/ m_iNumOfReaderEntered > 0
  /\ m_iNumOfReaderEntered' = m_iNumOfReaderEntered + 1
  /\ ReaderWaitLeave
  /\ readerUnits' = [readerUnits EXCEPT ![t] = 1]
  /\ Goto(t, "idle")
  /\ UNCHANGED <<m_iNumOfWriter, m_hSafeToWriteEvent, writerUnits, timed>>

(* EnterCS after the wait, and no writer is there: _ReaderWait returns     *)
(* TRUE, whether or not the time was up.                                   *)
ReaderEnter(t) ==
  /\ pc[t] \in {"rWoken", "rExpired"}
  /\ readerUnits[t] = 0
  /\ m_iNumOfWriter = 0
  /\ m_iNumOfReaderEntered' = m_iNumOfReaderEntered + 1
  /\ ReaderWaitLeave
  /\ readerUnits' = [readerUnits EXCEPT ![t] = 1]
  /\ Goto(t, "idle")
  /\ UNCHANGED <<m_iNumOfWriter, m_hSafeToWriteEvent, writerUnits, timed>>

(* EnterCS after the wait, but a writer was faster: wait again, for a      *)
(* limited wait after a look at the time that is left.                     *)
ReaderOvertaken(t) ==
  /\ pc[t] = "rWoken"
  /\ m_iNumOfWriter # 0
  /\ Goto(t, IF timed[t] THEN "rRetry" ELSE "rWait")
  /\ UNCHANGED <<counters, events, m_map, timed>>

ReaderWaitAgain(t) ==
  /\ pc[t] = "rRetry"
  /\ Goto(t, "rWait")
  /\ UNCHANGED <<counters, events, m_map, timed>>

(* The reader gives up: its time was up and a writer is there, or the time *)
(* was used up when it looked (then m_iNumOfWriter is not looked at).      *)
ReaderGiveUp(t) ==
  /\ \/ pc[t] = "rExpired" /\ m_iNumOfWriter # 0
     \/ pc[t] = "rRetry"
  /\ ReaderWaitLeave
  /\ Goto(t, "idle")
  /\ UNCHANGED <<m_iNumOfWriter, m_iNumOfReaderEntered, m_hSafeToWriteEvent,
                 m_map, timed>>

-----------------------------------------------------------------------------
(* CReaderWriterLock::ReleaseReaderLock *)

_ReaderRelease ==
  /\ m_iNumOfReaderEntered' = m_iNumOfReaderEntered - 1
  /\ m_hSafeToWriteEvent' = IF m_iNumOfReaderEntered = 1
                            THEN SetEvent(m_hSafeToWriteEvent)
                            ELSE m_hSafeToWriteEvent
  /\ UNCHANGED <<m_iNumOfWriter, m_iNumOfReaderWaiting, m_hSafeToReadEvent>>

(* Fault: recursion is not counted, every call leaves the readers.         *)
ReleaseReaderLock_NoRecursion(t) ==
  /\ pc[t] = "idle"
  /\ readerUnits[t] > 0
  /\ readerUnits' = [readerUnits EXCEPT ![t] = @ - 1]
  /\ _ReaderRelease
  /\ UNCHANGED <<writerUnits, pc, timed>>

ReleaseReaderLock(t) ==
  /\ pc[t] = "idle"
  /\ readerUnits[t] > 0
  /\ readerUnits' = [readerUnits EXCEPT ![t] = @ - 1]
  /\ IF readerUnits[t] = 1 /\ writerUnits[t] = 0
     THEN _ReaderRelease
     ELSE UNCHANGED <<counters, events>>
  /\ UNCHANGED <<writerUnits, pc, timed>>

-----------------------------------------------------------------------------
(* CReaderWriterLock::AcquireWriterLock *)

AcquireWriterAgain(t) ==
  /\ pc[t] = "idle"
  /\ writerUnits[t] > 0
  /\ writerUnits[t] < MaxRecursion
  /\ writerUnits' = [writerUnits EXCEPT ![t] = @ + 1]
  /\ UNCHANGED <<counters, events, readerUnits, pc, timed>>

AcquireWriterAtOnce(t) ==
  /\ pc[t] = "idle"
  /\ ~InMap(t)
  /\ m_iNumOfWriter = 0
  /\ m_iNumOfReaderEntered = 0
  /\ m_iNumOfWriter' = m_iNumOfWriter + 1
  /\ writerUnits' = [writerUnits EXCEPT ![t] = 1]
  /\ UNCHANGED <<m_iNumOfReaderEntered, m_iNumOfReaderWaiting, events,
                 readerUnits, pc, timed>>

(* The only reader becomes the writer ahead of all queued writers.         *)
UpgradeAtOnce(t) ==
  /\ pc[t] = "idle"
  /\ readerUnits[t] > 0
  /\ writerUnits[t] = 0
  /\ m_iNumOfReaderEntered = 1
  /\ m_iNumOfReaderEntered' = 0
  /\ m_iNumOfWriter' = m_iNumOfWriter + 1
  /\ writerUnits' = [writerUnits EXCEPT ![t] = 1]
  /\ UNCHANGED <<m_iNumOfReaderWaiting, events, readerUnits, pc, timed>>

(* _WriterWaitAndLeaveCSIfSuccess up to its LeaveCS.                       *)
WriterWaitEnter(t) ==
  /\ m_iNumOfWriter' = m_iNumOfWriter + 1
  /\ m_hSafeToReadEvent' = IF m_iNumOfWriter = 0
                           THEN ResetEvent(m_hSafeToReadEvent)
                           ELSE m_hSafeToReadEvent
  /\ m_hSafeToWriteEvent' = CreateIfNull(m_hSafeToWriteEvent)
  /\ Goto(t, "wWait")
  /\ \E isTimed \in BOOLEAN : timed' = [timed EXCEPT ![t] = isTimed]
  /\ UNCHANGED <<m_iNumOfReaderWaiting, m_map>>

AcquireWriterQueue(t) ==
  /\ pc[t] = "idle"
  /\ ~InMap(t)
  /\ m_iNumOfWriter # 0 \/ m_iNumOfReaderEntered # 0
  /\ WriterWaitEnter(t)
  /\ UNCHANGED m_iNumOfReaderEntered

(* _UpgradeToWriterLockAndLeaveCS: the thread stops being a reader and     *)
(* goes to the writers' queue.                                             *)
UpgradeQueue(t) ==
  /\ pc[t] = "idle"
  /\ readerUnits[t] > 0
  /\ writerUnits[t] = 0
  /\ m_iNumOfReaderEntered # 1
  /\ m_iNumOfReaderEntered' = m_iNumOfReaderEntered - 1
  /\ WriterWaitEnter(t)

(* WaitForSingleObject(m_hSafeToWriteEvent) returns and resets the event.  *)
WriterWoken(t) ==
  /\ pc[t] = "wWait"
  /\ m_hSafeToWriteEvent = "set"
  /\ m_hSafeToWriteEvent' = "reset"
  /\ Goto(t, "wGranted")
  /\ UNCHANGED <<counters, m_hSafeToReadEvent, m_map, timed>>

WriterTimeout(t) ==
  /\ pc[t] = "wWait"
  /\ timed[t]
  /\ m_hSafeToWriteEvent # "set"
  /\ Goto(t, "wExpired")
  /\ UNCHANGED <<counters, events, m_map, timed>>

(* EnterCS after the timeout, the thread was the last of the queue and     *)
(* nobody is inside: it becomes the writer all the same.                   *)
WriterExpiredGranted(t) ==
  /\ pc[t] = "wExpired"
  /\ m_iNumOfWriter = 1
  /\ m_iNumOfReaderEntered = 0
  /\ m_hSafeToWriteEvent' = "null"
  /\ Goto(t, "wGranted")
  /\ UNCHANGED <<counters, m_hSafeToReadEvent, m_map, timed>>

(* Fault: the readers queued behind the last writer are not woken.         *)
WriterExpiredLast_NoWakeup(t) ==
  /\ pc[t] = "wExpired"
  /\ m_iNumOfWriter = 1
  /\ m_iNumOfReaderEntered # 0
  /\ m_iNumOfWriter' = 0
  /\ m_hSafeToWriteEvent' = "null"
  /\ m_iNumOfReaderEntered' = IF readerUnits[t] > 0
                              THEN m_iNumOfReaderEntered + 1
                              ELSE m_iNumOfReaderEntered
  /\ Goto(t, "idle")
  /\ UNCHANGED <<m_iNumOfReaderWaiting, m_hSafeToReadEvent, m_map, timed>>

(* Fault: the failed upgrade is not counted as a reader again.             *)
WriterExpiredLast_NotCounted(t) ==
  /\ pc[t] = "wExpired"
  /\ m_iNumOfWriter = 1
  /\ m_iNumOfReaderEntered # 0
  /\ m_iNumOfWriter' = 0
  /\ m_hSafeToWriteEvent' = "null"
  /\ m_hSafeToReadEvent' = SetEvent(m_hSafeToReadEvent)
  /\ Goto(t, "idle")
  /\ UNCHANGED <<m_iNumOfReaderEntered, m_iNumOfReaderWaiting, m_map, timed>>

(* EnterCS after the timeout, the thread was the last of the queue, but    *)
(* readers are inside: no writer any more, the waiting readers may enter,  *)
(* and a thread that was a reader is one again.                            *)
WriterExpiredLast(t) ==
  /\ pc[t] = "wExpired"
  /\ m_iNumOfWriter = 1
  /\ m_iNumOfReaderEntered # 0
  /\ m_iNumOfWriter' = 0
  /\ m_hSafeToWriteEvent' = "null"
  /\ m_hSafeToReadEvent' = SetEvent(m_hSafeToReadEvent)
  /\ m_iNumOfReaderEntered' = IF readerUnits[t] > 0
                              THEN m_iNumOfReaderEntered + 1
                              ELSE m_iNumOfReaderEntered
  /\ Goto(t, "idle")
  /\ UNCHANGED <<m_iNumOfReaderWaiting, m_map, timed>>

(* EnterCS after the timeout, other writers are there: a thread that was a *)
(* reader waits, without limit, to be one again; any other returns FALSE.  *)
WriterExpiredQueued(t) ==
  /\ pc[t] = "wExpired"
  /\ m_iNumOfWriter # 1
  /\ m_iNumOfWriter' = m_iNumOfWriter - 1
  /\ IF readerUnits[t] > 0
     THEN /\ ReaderWaitEnter(t)
          /\ timed' = [timed EXCEPT ![t] = FALSE]
     ELSE /\ Goto(t, "idle")
          /\ UNCHANGED <<m_iNumOfReaderWaiting, m_hSafeToReadEvent, timed>>
  /\ UNCHANGED <<m_iNumOfReaderEntered, m_hSafeToWriteEvent, m_map>>

(* The failed upgrade ends: the thread is a reader again or, if it is the  *)
(* only one inside, the writer.                                            *)
UpgradeReenter(t) ==
  /\ pc[t] = "rWoken"
  /\ readerUnits[t] > 0
  /\ m_iNumOfWriter = 0
  /\ ReaderWaitLeave
  /\ IF m_iNumOfReaderEntered = 0
     THEN /\ m_iNumOfWriter' = 1
          /\ Goto(t, "wGranted")
          /\ UNCHANGED m_iNumOfReaderEntered
     ELSE /\ m_iNumOfReaderEntered' = m_iNumOfReaderEntered + 1
          /\ Goto(t, "idle")
          /\ UNCHANGED m_iNumOfWriter
  /\ UNCHANGED <<m_hSafeToWriteEvent, m_map, timed>>

(* Back in AcquireWriterLock, which enters its unit in m_map.              *)
WriterEnter(t) ==
  /\ pc[t] = "wGranted"
  /\ writerUnits' = [writerUnits EXCEPT ![t] = @ + 1]
  /\ Goto(t, "idle")
  /\ UNCHANGED <<counters, events, readerUnits, timed>>

-----------------------------------------------------------------------------
(* CReaderWriterLock::ReleaseWriterLock and ReleaseAllLocks *)

(* Fault: a downgrade wakes a queued writer too.                           *)
_WriterRelease_WakesOnDowngrade(blDowngrade) ==
  /\ m_iNumOfReaderEntered' = IF blDowngrade THEN m_iNumOfReaderEntered + 1
                                             ELSE m_iNumOfReaderEntered
  /\ m_iNumOfWriter' = m_iNumOfWriter - 1
  /\ IF m_iNumOfWriter = 1
     THEN /\ m_hSafeToWriteEvent' = "null"
          /\ m_hSafeToReadEvent' = SetEvent(m_hSafeToReadEvent)
     ELSE /\ m_hSafeToWriteEvent' = SetEvent(m_hSafeToWriteEvent)
          /\ UNCHANGED m_hSafeToReadEvent
  /\ UNCHANGED m_iNumOfReaderWaiting

_WriterRelease(blDowngrade) ==
  /\ m_iNumOfReaderEntered' = IF blDowngrade THEN m_iNumOfReaderEntered + 1
                                             ELSE m_iNumOfReaderEntered
  /\ m_iNumOfWriter' = m_iNumOfWriter - 1
  /\ IF m_iNumOfWriter = 1
     THEN /\ m_hSafeToWriteEvent' = "null"
          /\ m_hSafeToReadEvent' = SetEvent(m_hSafeToReadEvent)
     ELSE /\ m_hSafeToWriteEvent' = IF blDowngrade
                                    THEN m_hSafeToWriteEvent
                                    ELSE SetEvent(m_hSafeToWriteEvent)
          /\ UNCHANGED m_hSafeToReadEvent
  /\ UNCHANGED m_iNumOfReaderWaiting

ReleaseWriterLock(t) ==
  /\ pc[t] = "idle"
  /\ writerUnits[t] > 0
  /\ writerUnits' = [writerUnits EXCEPT ![t] = @ - 1]
  /\ IF writerUnits[t] = 1
     THEN _WriterRelease(readerUnits[t] > 0)
     ELSE UNCHANGED <<counters, events>>
  /\ UNCHANGED <<readerUnits, pc, timed>>

ReleaseAllLocks(t) ==
  /\ pc[t] = "idle"
  /\ InMap(t)
  /\ readerUnits' = [readerUnits EXCEPT ![t] = 0]
  /\ writerUnits' = [writerUnits EXCEPT ![t] = 0]
  /\ IF writerUnits[t] > 0 THEN _WriterRelease(FALSE) ELSE _ReaderRelease
  /\ UNCHANGED <<pc, timed>>

-----------------------------------------------------------------------------
(* A call returns at once, or the thread goes to one of the queues.        *)
Request(t) ==
  \/ AcquireReaderAgain(t) \/ AcquireReaderAtOnce(t) \/ AcquireReaderQueue(t)
  \/ AcquireWriterAgain(t) \/ AcquireWriterAtOnce(t) \/ AcquireWriterQueue(t)
  \/ UpgradeAtOnce(t) \/ UpgradeQueue(t)

Release(t) ==
  ReleaseReaderLock(t) \/ ReleaseWriterLock(t) \/ ReleaseAllLocks(t)

(* The thread runs on inside the lock's code, nothing holds it back.       *)
Proceed(t) ==
  \/ ReaderWoken(t) \/ ReaderEnter(t) \/ ReaderOvertaken(t)
  \/ ReaderWaitAgain(t) \/ ReaderGiveUp(t) \/ UpgradeReenter(t)
  \/ WriterWoken(t) \/ WriterExpiredGranted(t) \/ WriterExpiredLast(t)
  \/ WriterExpiredQueued(t) \/ WriterEnter(t)

Timeout(t) == ReaderTimeout(t) \/ WriterTimeout(t)

Next ==
  \E t \in Threads : Request(t) \/ Proceed(t) \/ Timeout(t) \/ Release(t)

Spec == Init /\ [][Next]_vars

(* A runnable thread is scheduled, and a limited wait ends.                *)
Fairness == \A t \in Threads : WF_vars(Proceed(t)) /\ WF_vars(Timeout(t))

FairSpec == Spec /\ Fairness

-----------------------------------------------------------------------------
(* Who is where. *)

ReaderWaiting == {"rWait", "rWoken", "rExpired", "rRetry"}
WriterQueued  == {"wWait", "wExpired"}

Readers == {t \in Threads : pc[t] = "idle" /\ readerUnits[t] > 0
                                           /\ writerUnits[t] = 0}
Writers == {t \in Threads : writerUnits[t] > 0 \/ pc[t] = "wGranted"}
Queued  == {t \in Threads : pc[t] \in WriterQueued}
Waiting == {t \in Threads : pc[t] \in ReaderWaiting}

(* Every variable has its type.                                            *)
TypeOK ==
  /\ m_iNumOfWriter \in Nat
  /\ m_iNumOfReaderEntered \in Nat
  /\ m_iNumOfReaderWaiting \in Nat
  /\ m_hSafeToReadEvent \in EventState
  /\ m_hSafeToWriteEvent \in EventState
  /\ readerUnits \in [Threads -> Nat]
  /\ writerUnits \in [Threads -> Nat]
  /\ pc \in [Threads -> PC]
  /\ timed \in [Threads -> BOOLEAN]

(* "At any given time, it allows either concurrent read access for         *)
(* multiple threads, or write access for a single thread"                  *)
(* (ReaderWriterLock.h:28).                                                *)
MutualExclusion ==
  /\ Writers # {} => Readers = {}
  /\ \A t, u \in Writers : t = u

(* The _ASSERTs of ReaderWriterLock.cpp at the points where they are       *)
(* evaluated: a thread that is about to release counts as a reader (lines  *)
(* 146, 201, 450); a writer about to release finds no reader inside (242)  *)
(* and, with other writers queued, an event to signal (266); and when      *)
(* nobody uses the lock the destructor finds both handles closed (59).     *)
CodeAssertions ==
  /\ \A t \in Readers : m_iNumOfReaderEntered >= 1
  /\ \A t \in Writers : pc[t] = "idle" =>
       /\ m_iNumOfReaderEntered = 0
       /\ m_iNumOfWriter > 1 => m_hSafeToWriteEvent # "null"
  /\ (\A t \in Threads : pc[t] = "idle" /\ ~InMap(t)) =>
       m_hSafeToReadEvent = "null" /\ m_hSafeToWriteEvent = "null"

(* The handles are passed to WaitForSingleObject outside m_cs; they are    *)
(* created and closed on demand, but never while a thread is between       *)
(* LeaveCS and the return of its wait.                                     *)
HandlesLive ==
  /\ Waiting # {} => m_hSafeToReadEvent # "null"
  /\ Queued # {} => m_hSafeToWriteEvent # "null"

(* No wakeup is lost, whichever waits time out in between: with nobody     *)
(* inside, a queued writer finds the write event signalled; with no writer *)
(* left, a waiting reader finds the read event signalled.                  *)
NoLostWakeup ==
  /\ Queued # {} /\ Writers = {} /\ Readers = {} => m_hSafeToWriteEvent = "set"
  /\ Waiting # {} /\ m_iNumOfWriter = 0 => m_hSafeToReadEvent = "set"

(* The counters are the sizes of the sets they stand for.                  *)
CountersExact ==
  /\ m_iNumOfReaderEntered = Cardinality(Readers)
  /\ m_iNumOfWriter = Cardinality(Writers \cup Queued)
  /\ m_iNumOfReaderWaiting = Cardinality(Waiting)

(* The units of a thread that is inside the lock's code: a writer never    *)
(* waits, and an upgrade that failed waits without limit.                  *)
UnitsOfWaiters ==
  \A t \in Threads :
    /\ pc[t] # "idle" => writerUnits[t] = 0
    /\ pc[t] \in {"rExpired", "rRetry"} => timed[t]
    /\ pc[t] \in ReaderWaiting /\ timed[t] => readerUnits[t] = 0

(* A handle exists only while there is a thread to wait for it, and a      *)
(* signalled write event is the right to write that nobody has taken yet.  *)
EventDiscipline ==
  /\ Waiting = {} => m_hSafeToReadEvent = "null"
  /\ Writers \cup Queued = {} => m_hSafeToWriteEvent = "null"
  /\ m_hSafeToWriteEvent = "set" => Writers = {} /\ Readers = {}

(* The inductive invariant of the lock.                                    *)
IInv ==
  /\ TypeOK
  /\ CountersExact
  /\ UnitsOfWaiters
  /\ HandlesLive
  /\ EventDiscipline
  /\ MutualExclusion
  /\ NoLostWakeup

-----------------------------------------------------------------------------
(* What the clients owe the lock: nobody stays inside for ever.            *)
HoldersLeave == \A t \in Threads : []<>(t \notin Readers \cup Writers)

(* "this helps protect writers against indefinite blockage by readers"     *)
(* (ReaderWriterLock.h:40): while writers are queued someone gets to       *)
(* write, unless all of them give up, whatever the readers do.             *)
WriterProgress == HoldersLeave => (Queued # {} ~> Writers # {} \/ Queued = {})

(* Once no thread asks for write access any more every waiting reader,     *)
(* a failed upgrade included, leaves _ReaderWait.                          *)
ReaderProgress ==
  <>[](Writers \cup Queued = {}) =>
    \A t \in Threads : t \in Waiting ~> t \notin Waiting

(* The lock is this abstract one: units, events and wakeups are hidden.    *)
Abs == INSTANCE AbstractRWLock
         WITH readers <- Readers, writers <- Writers, queued <- Queued

ImplementsAbstract == Abs!Spec

=============================================================================
