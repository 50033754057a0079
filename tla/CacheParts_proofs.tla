-------------------------- MODULE CacheParts_proofs --------------------------
(***************************************************************************)
(* Proofs about the parts of TSVNCache that share no state with each other *)
(* and are small enough to be read together.                               *)
(*                                                                         *)
(* CacheProcess, for any number of pipe threads, starts and faults:        *)
(* ProcessInv holds.  A damaged file is paid for by the fault that damaged *)
(* it, wherever it has been copied to (CrashInv); what is known of a saved *)
(* cache follows it through the copy (LoadInv); and whoever is to delete   *)
(* the instance has closed every handle before (StopInv).                  *)
(*                                                                         *)
(* UniqueQueue, for any set of values and any width of the counter: map    *)
(* and deque represent one queue without duplicates, which is sorted until *)
(* the push of a queued value takes the last priority, and again once it   *)
(* is rebuilt; and the container implements UniqueFifo.  Both end with the *)
(* push that takes a priority of a queued entry.                           *)
(*                                                                         *)
(* ShellUpdater, for any number of threads, paths and reports: merging     *)
(* loses no path, and what is not flagged is merged.                       *)
(*                                                                         *)
(* NoWatchPaths, for any tree of directories and any timeouts: blocks are  *)
(* on directories, and one that times out has its directory crawled.  For  *)
(* that the directories above another are in one line, so that the closest *)
(* root of a working copy exists and comes before what is in it.           *)
(***************************************************************************)
EXTENDS CacheProcess, UniqueQueue, ShellUpdater, NoWatchPaths, Ordered_proofs,
        SequenceTheorems

-----------------------------------------------------------------------------
(* The process *)


(* Before the message loop.                                                *)
Starting == {"copy", "copying", "erase", "read", "init"}

Left(queue) == {queue[i] : i \in DOMAIN queue}

(* Where Stop was called from, and who still has an instance.              *)
AfterInv ==
  /\ main = "lock" => after \in {"save", "unlock"}
  /\ main \in {"stop", "wait", "unlock"} => after # "none"
  /\ main = "unlock" => after # "delete"
  /\ main \in {"save", "saving"} => after = "save"
  /\ main = "discard" => after = "discard"
  /\ main = "wait" => toStop # << >>
  /\ ~m_pInstance => \/ main \in {"exited", "destroy", "leave"}
                     \/ main = "unlock" /\ after = "discard"

(* A worker whose handles are closed has ended or was given up, and Stop   *)
(* leaves no handle open.                                                  *)
StopInv ==
  /\ main \in Starting => open = Workers
  /\ \A w \in Workers \ open : thread[w] \in {"none", "done"} \/ w \in gaveUp
  /\ main \in {"stop", "wait"} => open \subseteq Left(toStop)
  /\ main \in {"save", "saving", "discard", "delete"} \/ ~m_pInstance => open = {}

(* The window's thread holds the guard only within a message.              *)
LockInv ==
  Main \in writers =>
    /\ main \in {"stop", "wait", "save", "saving", "discard", "unlock"}
    /\ after # "delete"

(* Each damaged file that will be read can crash the process once.         *)
CrashInv ==
  /\ crashes <= faults
  /\ path = "corrupt" \/ (path2 = "corrupt" /\ main \in {"copy", "erase", "read"}) =>
       crashes + 1 <= faults
  /\ path = "corrupt" /\ path2 = "corrupt" /\ main \in {"copy", "read"} =>
       crashes + 2 <= faults

(* A file that can be loaded is the saved one, or something went wrong.    *)
LoadInv ==
  /\ path \in {"whole", "corrupt"} => kept \/ faults > 0
  /\ main \in {"read", "init"} => path = "none" \/ faults > 0
  /\ main = "copy" /\ path2 # "none" => faults > 0
  /\ main \in {"erase", "read"} /\ path2 \in {"whole", "corrupt"} => kept \/ faults > 0
  /\ main \in {"exited", "copy", "copying", "erase", "read"} => ~loaded
  /\ main = "init" /\ loaded => kept \/ faults > 0

(* And the saved one is where it has to be.                                *)
KeptInv ==
  kept =>
    /\ main \notin {"read", "init"} => path = "whole"
    /\ \/ main \in Starting \cup {"exited", "unlock", "destroy", "delete", "leave"}
       \/ main \in {"stop", "wait"} /\ after = "delete"
    /\ main = "unlock" => after = "save"
    /\ main \in {"erase", "read"} => path2 = "whole"
    /\ main = "init" => loaded

IInv == TypeOK /\ AfterInv /\ StopInv /\ LockInv /\ CrashInv /\ LoadInv /\ KeptInv

USE DEF vars, fileVars, guardVars, stopVars, history, StartUnchanged, MessageUnchanged,
        StopUnchanged, SaveUnchanged, OtherUnchanged

-----------------------------------------------------------------------------
(* What the other threads do leaves everything but them and the guard.     *)
Others ==
  \/ \E w \in Workers : Work(w)
  \/ \E t \in Threads \ {Main} : Section(t)
  \/ \E c \in Clients : Request(c)

(* Workers and clients leave the files and the window's thread alone.      *)
LEMMA OthersEffect == Others => UNCHANGED OtherUnchanged
BY DEF Others, Work, Section, ReadLock, WriteLock, WriteLockGranted, ReadLockTimesOut, Release,
       Request

(* The invariants of the files.                                            *)
FilesOK ==
  /\ path \in Contents /\ crashes \in Nat /\ faults \in Nat
  /\ kept \in BOOLEAN /\ loaded \in BOOLEAN
  /\ after \in {"none", "save", "unlock", "discard", "delete"}

(* A damaged file has been paid for, wherever the process ends.            *)
LEMMA CrashStep ==
  ASSUME FilesOK, CrashInv, [Next]_vars
  PROVE  CrashInv'
<1> USE DEF CrashInv, FilesOK
<1>1. CASE Start
  BY <1>1 DEF Start, Fault
<1>2. CASE CopyBegins \/ CopyEnds \/ CopyFails
  BY <1>2 DEF CopyBegins, CopyEnds, CopyFails, Fault
<1>3. CASE DeleteOriginal
  BY <1>3 DEF DeleteOriginal, Fault
<1>4. CASE ReadNothing \/ ReadAll \/ ReadError \/ ReadCrash
  BY <1>4 DEF ReadNothing, ReadAll, ReadError, ReadCrash, ProcessEnds
<1>5. CASE InitThreads \/ NoCommands \/ Close \/ QueryEndSession \/ OtherMessage
  BY <1>5 DEF InitThreads, NoCommands, Close, QueryEndSession, OtherMessage
<1>6. CASE LockGuard \/ GuardGranted \/ GuardTimesOut \/ UnlockGuard
  BY <1>6 DEF LockGuard, GuardGranted, GuardTimesOut, UnlockGuard, BeginStop
<1>7. CASE StopNext \/ StopWait \/ StopEnds
  BY <1>7 DEF StopNext, StopWait, StopEnds
<1>8. CASE SaveBegins \/ SaveEnds \/ SaveFails \/ Discard
  BY <1>8 DEF SaveBegins, SaveEnds, SaveFails, Discard, Fault
<1>9. CASE Destroy \/ Delete \/ Leave
  BY <1>9 DEF Destroy, Delete, Leave, ProcessEnds, BeginStop
<1>10. CASE Crash \/ Damage
  BY <1>10 DEF Crash, Damage, ProcessEnds, Fault
<1>11. CASE Others \/ UNCHANGED vars
  BY <1>11, OthersEffect
<1> QED
  BY <1>1, <1>2, <1>3, <1>4, <1>5, <1>6, <1>7, <1>8, <1>9, <1>10, <1>11
  DEF Next, Create, Ending, Others

(* What can be loaded was saved, or a fault has happened.                  *)
LEMMA LoadStep ==
  ASSUME FilesOK, LoadInv, KeptInv, [Next]_vars
  PROVE  LoadInv'
<1> USE DEF LoadInv, KeptInv, FilesOK, Starting, Contents
<1>1. CASE Start
  BY <1>1 DEF Start, Fault
<1>2. CASE CopyBegins \/ CopyEnds \/ CopyFails
  BY <1>2 DEF CopyBegins, CopyEnds, CopyFails, Fault
<1>3. CASE DeleteOriginal
  BY <1>3 DEF DeleteOriginal, Fault
<1>4. CASE ReadNothing \/ ReadAll \/ ReadError \/ ReadCrash
  BY <1>4 DEF ReadNothing, ReadAll, ReadError, ReadCrash, ProcessEnds
<1>5. CASE InitThreads \/ NoCommands \/ Close \/ QueryEndSession \/ OtherMessage
  BY <1>5 DEF InitThreads, NoCommands, Close, QueryEndSession, OtherMessage
<1>6. CASE LockGuard \/ GuardGranted \/ GuardTimesOut \/ UnlockGuard
  BY <1>6 DEF LockGuard, GuardGranted, GuardTimesOut, UnlockGuard, BeginStop
<1>7. CASE StopNext \/ StopWait \/ StopEnds
  BY <1>7 DEF StopNext, StopWait, StopEnds
<1>8. CASE SaveBegins \/ SaveEnds \/ SaveFails \/ Discard
  BY <1>8 DEF SaveBegins, SaveEnds, SaveFails, Discard, Fault
<1>9. CASE Destroy \/ Delete \/ Leave
  BY <1>9 DEF Destroy, Delete, Leave, ProcessEnds, BeginStop
<1>10. CASE Crash \/ Damage
  BY <1>10 DEF Crash, Damage, ProcessEnds, Fault
<1>11. CASE Others \/ UNCHANGED vars
  BY <1>11, OthersEffect
<1> HIDE DEF LoadInv, KeptInv, FilesOK
<1> QED
  BY <1>1, <1>2, <1>3, <1>4, <1>5, <1>6, <1>7, <1>8, <1>9, <1>10, <1>11
  DEF Next, Create, Ending, Others

(* What was saved stays where the next start looks for it.                 *)
LEMMA KeptStep ==
  ASSUME FilesOK, AfterInv, KeptInv, [Next]_vars
  PROVE  KeptInv'
<1> USE DEF AfterInv, KeptInv, FilesOK, Starting
<1>1. CASE Start
  BY <1>1 DEF Start, Fault
<1>2. CASE CopyBegins \/ CopyEnds \/ CopyFails
  BY <1>2 DEF CopyBegins, CopyEnds, CopyFails, Fault
<1>3. CASE DeleteOriginal
  BY <1>3 DEF DeleteOriginal, Fault
<1>4. CASE ReadNothing \/ ReadAll \/ ReadError \/ ReadCrash
  BY <1>4 DEF ReadNothing, ReadAll, ReadError, ReadCrash, ProcessEnds
<1>5. CASE InitThreads \/ NoCommands \/ Close \/ QueryEndSession \/ OtherMessage
  BY <1>5 DEF InitThreads, NoCommands, Close, QueryEndSession, OtherMessage
<1>6. CASE LockGuard \/ GuardGranted \/ GuardTimesOut \/ UnlockGuard
  BY <1>6 DEF LockGuard, GuardGranted, GuardTimesOut, UnlockGuard, BeginStop
<1>7. CASE StopNext \/ StopWait \/ StopEnds
  BY <1>7 DEF StopNext, StopWait, StopEnds
<1>8. CASE SaveBegins \/ SaveEnds \/ SaveFails \/ Discard
  BY <1>8 DEF SaveBegins, SaveEnds, SaveFails, Discard, Fault
<1>9. CASE Destroy \/ Delete \/ Leave
  BY <1>9 DEF Destroy, Delete, Leave, ProcessEnds, BeginStop
<1>10. CASE Crash \/ Damage
  BY <1>10 DEF Crash, Damage, ProcessEnds, Fault
<1>11. CASE Others \/ UNCHANGED vars
  BY <1>11, OthersEffect
<1> QED
  BY <1>1, <1>2, <1>3, <1>4, <1>5, <1>6, <1>7, <1>8, <1>9, <1>10, <1>11
  DEF Next, Create, Ending, Others

-----------------------------------------------------------------------------
(* The invariants of Stop.                                                 *)

(* Stop comes back to where it was called from.                            *)
LEMMA AfterStep ==
  ASSUME FilesOK, AfterInv, [Next]_vars
  PROVE  AfterInv'
<1> USE DEF AfterInv, FilesOK
<1>1. CASE Start
  BY <1>1 DEF Start
<1>2. CASE CopyBegins \/ CopyEnds \/ CopyFails \/ DeleteOriginal
  BY <1>2 DEF CopyBegins, CopyEnds, CopyFails, DeleteOriginal
<1>4. CASE ReadNothing \/ ReadAll \/ ReadError \/ ReadCrash
  BY <1>4 DEF ReadNothing, ReadAll, ReadError, ReadCrash, ProcessEnds
<1>5. CASE InitThreads \/ NoCommands \/ Close \/ QueryEndSession \/ OtherMessage
  BY <1>5 DEF InitThreads, NoCommands, Close, QueryEndSession, OtherMessage
<1>6. CASE LockGuard \/ GuardGranted \/ GuardTimesOut \/ UnlockGuard
  BY <1>6 DEF LockGuard, GuardGranted, GuardTimesOut, UnlockGuard, BeginStop
<1>7. CASE StopNext \/ StopWait \/ StopEnds
  BY <1>7 DEF StopNext, StopWait, StopEnds
<1>8. CASE SaveBegins \/ SaveEnds \/ SaveFails \/ Discard
  BY <1>8 DEF SaveBegins, SaveEnds, SaveFails, Discard
<1>9. CASE Destroy \/ Delete \/ Leave
  BY <1>9 DEF Destroy, Delete, Leave, ProcessEnds, BeginStop
<1>10. CASE Crash \/ Damage
  BY <1>10 DEF Crash, Damage, ProcessEnds
<1>11. CASE Others \/ UNCHANGED vars
  BY <1>11, OthersEffect
<1> QED
  BY <1>1, <1>2, <1>4, <1>5, <1>6, <1>7, <1>8, <1>9, <1>10, <1>11
  DEF Next, Create, Ending, Others

(* What Stop has still to stop is what is left of the three.               *)
Remaining == {ToStop, <<"crawler", "updater">>, <<"updater">>, << >>}

(* Stop takes one worker after the other.                                  *)
LEMMA LeftShrinks ==
  /\ Left(ToStop) = Workers /\ Left(<< >>) = {}
  /\ \A queue \in Remaining : queue # << >> =>
       /\ Head(queue) \in Workers /\ Tail(queue) \in Remaining
       /\ Left(queue) = {Head(queue)} \cup Left(Tail(queue))
<1>1. Left(<< >>) = {}
  BY DEF Left
<1>2. Left(<<"updater">>) = {"updater"}
  BY DEF Left
<1>3. Left(<<"crawler", "updater">>) = {"crawler", "updater"}
  BY DEF Left
<1>4. Left(ToStop) = Workers
  BY DEF Left, ToStop, Workers
<1>5. /\ Tail(ToStop) = <<"crawler", "updater">> /\ Head(ToStop) = "watcher"
      /\ Tail(<<"crawler", "updater">>) = <<"updater">>
      /\ Head(<<"crawler", "updater">>) = "crawler"
      /\ Tail(<<"updater">>) = << >> /\ Head(<<"updater">>) = "updater"
  BY DEF ToStop
<1> QED
  BY <1>1, <1>2, <1>3, <1>4, <1>5 DEF Remaining, Workers

(* A worker whose handles are closed has ended or was given up.            *)
LEMMA StopStep ==
  ASSUME TypeOK, AfterInv, StopInv, [Next]_vars
  PROVE  StopInv'
<1> USE DEF StopInv
<1>t. /\ toStop \in Remaining /\ open \subseteq Workers
      /\ after \in {"none", "save", "unlock", "discard", "delete"}
  BY DEF TypeOK, Remaining
<1>1. CASE Start
  BY <1>1 DEF Start, Starting
<1>2. CASE CopyBegins \/ CopyEnds \/ CopyFails \/ DeleteOriginal
  BY <1>2 DEF CopyBegins, CopyEnds, CopyFails, DeleteOriginal, Starting
<1>3. CASE ReadNothing \/ ReadAll \/ ReadError
  BY <1>3 DEF ReadNothing, ReadAll, ReadError, Starting
<1>4. CASE InitThreads
  BY <1>4 DEF InitThreads, Starting
<1>5. CASE NoCommands \/ Close \/ QueryEndSession \/ OtherMessage
  BY <1>5 DEF NoCommands, Close, QueryEndSession, OtherMessage, Starting
<1>6. CASE LockGuard \/ GuardGranted \/ GuardTimesOut
  BY <1>6, <1>t, LeftShrinks
  DEF LockGuard, GuardGranted, GuardTimesOut, BeginStop, Starting, AfterInv
<1>7. CASE UnlockGuard
  BY <1>7 DEF UnlockGuard, Starting
<1>8. CASE StopNext
  BY <1>8, <1>t, LeftShrinks DEF StopNext, Starting
<1>9. CASE StopWait
  BY <1>9, <1>t, LeftShrinks DEF StopWait, Starting, AfterInv
<1>10. CASE StopEnds
  BY <1>10, <1>t, LeftShrinks DEF StopEnds, Starting
<1>11. CASE SaveBegins \/ SaveEnds \/ SaveFails \/ Discard
  BY <1>11, <1>t DEF SaveBegins, SaveEnds, SaveFails, Discard, Starting
<1>12. CASE Destroy
  BY <1>12, <1>t, LeftShrinks DEF Destroy, BeginStop, Starting
<1>13. CASE Delete
  BY <1>13 DEF Delete, Starting
<1>14. CASE Leave \/ Crash \/ ReadCrash
  BY <1>14 DEF Leave, Crash, ReadCrash, ProcessEnds, Starting
<1>15. CASE Damage \/ UNCHANGED vars
  BY <1>15 DEF Damage
<1>16. CASE Others
  <2>1. \A w \in Workers : thread[w] \in {"none", "done"} => thread'[w] = thread[w]
    BY <1>16 DEF Others, TypeOK, Work, Section, ReadLock, WriteLock, WriteLockGranted,
                ReadLockTimesOut, Release, Request, Goes
  <2> QED
    BY <1>16, <2>1, OthersEffect
<1> HIDE DEF StopInv
<1> QED
  BY <1>1, <1>2, <1>3, <1>4, <1>5, <1>6, <1>7, <1>8, <1>9, <1>10, <1>11, <1>12, <1>13, <1>14,
     <1>15, <1>16
  DEF Next, Create, Ending, Others

(* The guard of the window's thread.                                       *)
LEMMA LockStep ==
  ASSUME TypeOK, AfterInv, LockInv, [Next]_vars
  PROVE  LockInv'
<1> USE DEF LockInv
<1>1. CASE Start \/ CopyBegins \/ CopyEnds \/ CopyFails \/ DeleteOriginal
  BY <1>1 DEF Start, CopyBegins, CopyEnds, CopyFails, DeleteOriginal
<1>2. CASE ReadNothing \/ ReadAll \/ ReadError \/ InitThreads \/ NoCommands
  BY <1>2 DEF ReadNothing, ReadAll, ReadError, InitThreads, NoCommands
<1>3. CASE Close \/ QueryEndSession \/ OtherMessage
  BY <1>3 DEF Close, QueryEndSession, OtherMessage
<1>4. CASE LockGuard \/ GuardGranted \/ GuardTimesOut
  BY <1>4 DEF LockGuard, GuardGranted, GuardTimesOut, BeginStop, AfterInv, m_guard!Enqueue,
              m_guard!GiveUp
<1>5. CASE UnlockGuard
  BY <1>5 DEF UnlockGuard
<1>6. CASE StopNext \/ StopWait \/ StopEnds
  BY <1>6 DEF StopNext, StopWait, StopEnds, TypeOK, AfterInv
<1>7. CASE SaveBegins \/ SaveEnds \/ SaveFails \/ Discard
  BY <1>7 DEF SaveBegins, SaveEnds, SaveFails, Discard
<1>8. CASE Destroy \/ Delete
  BY <1>8 DEF Destroy, Delete, BeginStop
<1>9. CASE Leave \/ Crash \/ ReadCrash
  BY <1>9 DEF Leave, Crash, ReadCrash, ProcessEnds
<1>10. CASE Damage \/ UNCHANGED vars
  BY <1>10 DEF Damage
<1>11. CASE Others
  <2>1. Main \in writers' => Main \in writers
    BY <1>11, ThreadsDiffer
    DEF Others, Work, Section, ReadLock, WriteLock, WriteLockGranted, ReadLockTimesOut, Release,
        Request, Clients, Workers, m_guard!JoinReaders, m_guard!LeaveReaders,
        m_guard!BecomeWriter, m_guard!Enqueue, m_guard!ReleaseWriter
  <2> QED
    BY <1>11, <2>1, OthersEffect
<1> HIDE DEF LockInv
<1> QED
  BY <1>1, <1>2, <1>3, <1>4, <1>5, <1>6, <1>7, <1>8, <1>9, <1>10, <1>11
  DEF Next, Create, Ending, Others

-----------------------------------------------------------------------------
(* Types.                                                                  *)
LEMMA TypeStep ==
  ASSUME TypeOK, AfterInv, [Next]_vars
  PROVE  TypeOK'
<1> USE DEF TypeOK
<1>t. toStop \in Remaining /\ (main = "wait" => toStop # << >>)
  BY DEF Remaining, AfterInv
<1>c. "none" \in Contents /\ "part" \in Contents /\ "whole" \in Contents
      /\ {"corrupt", "foreign"} \subseteq Contents
  BY DEF Contents
<1>f. Fault => faults' \in 0..MaxFaults
  BY BoundsAreNumbers DEF Fault
<1>1. CASE Start
  <2>1. path2' \in Contents /\ faults' \in 0..MaxFaults /\ starts' \in 0..MaxStarts
    BY <1>1, <1>c, <1>f, BoundsAreNumbers DEF Start
  <2>2. thread' \in [Workers \cup Clients -> {"none", "idle", "reading", "ask", "inside", "done"}]
    BY <1>1 DEF Start
  <2>3. running' \cup open' \cup gaveUp' \subseteq Workers
    BY <1>1 DEF Start, Workers
  <2> QED
    BY <1>1, <2>1, <2>2, <2>3 DEF Start
<1>2. CASE CopyBegins \/ CopyEnds
  BY <1>2, <1>c DEF CopyBegins, CopyEnds
<1>18. CASE CopyFails \/ DeleteOriginal
  <2>1. path' \in Contents /\ faults' \in 0..MaxFaults /\ kept' \in BOOLEAN
    BY <1>18, <1>c, <1>f DEF CopyFails, DeleteOriginal
  <2> QED
    BY <1>18, <2>1 DEF CopyFails, DeleteOriginal
<1>3. CASE ReadNothing \/ ReadAll \/ ReadError
  BY <1>3, <1>c DEF ReadNothing, ReadAll, ReadError
<1>4. CASE InitThreads
  BY <1>4 DEF InitThreads
<1>5. CASE NoCommands \/ Close
  BY <1>5 DEF NoCommands, Close
<1>24. CASE QueryEndSession \/ OtherMessage
  BY <1>24 DEF QueryEndSession, OtherMessage
<1>6. CASE LockGuard
  BY <1>6 DEF LockGuard, BeginStop, Threads, m_guard!BecomeWriter, m_guard!Enqueue
<1>7. CASE GuardGranted \/ GuardTimesOut
  BY <1>7 DEF GuardGranted, GuardTimesOut, BeginStop, Threads, m_guard!BecomeWriter,
              m_guard!GiveUp
<1>8. CASE UnlockGuard
  BY <1>8 DEF UnlockGuard
<1>9. CASE StopNext
  BY <1>9, <1>t, LeftShrinks DEF StopNext, Remaining
<1>10. CASE StopWait
  BY <1>10, <1>t, LeftShrinks DEF StopWait, Remaining
<1>11. CASE StopEnds
  <2>1. main' \in {"save", "unlock", "discard", "delete"}
    BY <1>11 DEF StopEnds, AfterInv
  <2> QED
    BY <1>11, <2>1 DEF StopEnds
<1>12. CASE SaveBegins \/ SaveFails
  <2>1. path' \in Contents /\ faults' \in 0..MaxFaults
    BY <1>12, <1>c, <1>f DEF SaveBegins, SaveFails
  <2> QED
    BY <1>12, <2>1 DEF SaveBegins, SaveFails
<1>22. CASE SaveEnds
  BY <1>22, <1>c DEF SaveEnds
<1>23. CASE Discard
  BY <1>23, <1>c DEF Discard
<1>13. CASE Destroy
  <2>1. main' \in {"stop", "leave"} /\ toStop' \in {ToStop, toStop}
    BY <1>13 DEF Destroy, BeginStop
  <2> QED
    BY <1>13, <2>1 DEF Destroy
<1>20. CASE Delete
  BY <1>20 DEF Delete
<1>14. CASE Leave
  <2>1. thread' \in [Workers \cup Clients -> {"none", "idle", "reading", "ask", "inside", "done"}]
    BY <1>14 DEF Leave, ProcessEnds
  <2> QED
    BY <1>14, <2>1 DEF Leave, ProcessEnds
<1>21. CASE ReadCrash
  <2>1. thread' \in [Workers \cup Clients -> {"none", "idle", "reading", "ask", "inside", "done"}]
    BY <1>21 DEF ReadCrash, ProcessEnds
  <2>2. crashes' \in Nat
    BY <1>21 DEF ReadCrash
  <2> QED
    BY <1>21, <2>1, <2>2 DEF ReadCrash, ProcessEnds
<1>15. CASE Crash
  <2>1. kept' \in BOOLEAN
    BY <1>15 DEF Crash
  <2>2. thread' \in [Workers \cup Clients -> {"none", "idle", "reading", "ask", "inside", "done"}]
    BY <1>15 DEF Crash, ProcessEnds
  <2> QED
    BY <1>15, <2>1, <2>2 DEF Crash, ProcessEnds
<1>16. CASE Damage
  <2>1. path' \in Contents /\ faults' \in 0..MaxFaults
    BY <1>16, <1>c, <1>f DEF Damage
  <2> QED
    BY <1>16, <2>1 DEF Damage
<1>19. CASE UNCHANGED vars
  BY <1>19
<1>17. CASE Others
  <2>1. thread' \in [Workers \cup Clients -> {"none", "idle", "reading", "ask", "inside", "done"}]
    BY <1>17 DEF Others, Work, Section, ReadLock, WriteLock, WriteLockGranted,
                ReadLockTimesOut, Release, Request, Goes, AfterSection
  <2>2. readers' \cup writers' \cup queued' \subseteq Threads
    BY <1>17
    DEF Others, Work, Section, ReadLock, WriteLock, WriteLockGranted, ReadLockTimesOut, Release,
        Request, m_guard!JoinReaders, m_guard!LeaveReaders, m_guard!BecomeWriter,
        m_guard!Enqueue, m_guard!ReleaseWriter
  <2> QED
    BY <1>17, <2>1, <2>2, OthersEffect
<1> HIDE DEF TypeOK
<1> QED
  BY <1>1, <1>2, <1>3, <1>4, <1>5, <1>6, <1>7, <1>8, <1>9, <1>10, <1>11, <1>12, <1>13, <1>14,
     <1>15, <1>16, <1>17, <1>18, <1>19, <1>20, <1>21, <1>22, <1>23, <1>24
  DEF Next, Create, Ending, Others

-----------------------------------------------------------------------------
(* The process has not been started yet.                                   *)
LEMMA Initially == Init => IInv
<1> SUFFICES ASSUME Init PROVE IInv
  OBVIOUS
<1> USE DEF Init, m_guard!Init
<1>k. kept \in BOOLEAN /\ (kept <=> path = "whole")
  OBVIOUS
<1>1. TypeOK
  <2>1. path \in Contents /\ path2 \in Contents
    BY DEF Contents
  <2>2. thread \in [Workers \cup Clients -> {"none", "idle", "reading", "ask", "inside", "done"}]
    OBVIOUS
  <2>3. crashes \in Nat /\ faults \in 0..MaxFaults /\ starts \in 0..MaxStarts
    BY BoundsAreNumbers
  <2> QED
    BY <1>k, <2>1, <2>2, <2>3 DEF TypeOK
<1>2. AfterInv /\ StopInv /\ LockInv
  BY DEF AfterInv, StopInv, LockInv, Starting
<1>3. CrashInv /\ LoadInv /\ KeptInv
  BY <1>k DEF CrashInv, LoadInv, KeptInv, Starting
<1> QED
  BY <1>1, <1>2, <1>3 DEF IInv

(* Every step keeps all of it.                                             *)
LEMMA Inductive == IInv /\ [Next]_vars => IInv'
<1> SUFFICES ASSUME IInv, [Next]_vars PROVE IInv'
  OBVIOUS
<1> USE DEF IInv
<1>1. FilesOK
  BY BoundsAreNumbers DEF TypeOK, FilesOK
<1>2. TypeOK'
  BY TypeStep
<1>3. AfterInv' /\ StopInv' /\ LockInv'
  BY <1>1, AfterStep, StopStep, LockStep
<1>4. CrashInv' /\ LoadInv' /\ KeptInv'
  BY <1>1, CrashStep, LoadStep, KeptStep
<1> QED
  BY <1>2, <1>3, <1>4

(* A damaged file crashes the process at most once, wherever else it ends; *)
(* a saved cache is loaded at the next start; and nobody that Stop has     *)
(* waited for goes on when the instance is deleted.                        *)
THEOREM Lifecycle == Spec => []ProcessInv
<1>1. IInv => ProcessInv
  <2> SUFFICES ASSUME IInv PROVE ProcessInv
    OBVIOUS
  <2>1. TypeOK /\ CrashesOnce
    BY DEF IInv, CrashInv, CrashesOnce
  <2>2. UsedWhileThere
    BY DEF IInv, AfterInv, StopInv, LockInv, UsedWhileThere
  <2>3. LoadsWhatWasSaved
    BY DEF IInv, KeptInv, LoadInv, LoadsWhatWasSaved
  <2> QED
    BY <2>1, <2>2, <2>3 DEF ProcessInv
<1> QED
  BY Initially, Inductive, <1>1, PTL DEF Spec


-----------------------------------------------------------------------------
(* UniqueQueue *)


Entries == [value : Values, priority : 0..SizeModulus - 1]
Positions(queue) == 1..Len(queue)

(* The map knows the entries, and no two of these have a priority in       *)
(* common.  So no value is there twice.                                    *)
Represents(map, queue) ==
  /\ queue \in Seq(Entries)
  /\ DOMAIN map \subseteq Values
  /\ \A i \in Positions(queue) :
       queue[i].value \in DOMAIN map /\ map[queue[i].value] = queue[i].priority
  /\ \A v \in DOMAIN map : \E i \in Positions(queue) : queue[i].value = v
  /\ \A i, j \in Positions(queue) : i # j => queue[i].priority # queue[j].priority

(* The entries are sorted by their priorities, which are below the bound.  *)
Sorted(queue, bound) ==
  /\ \A i, j \in Positions(queue) : i < j => queue[i].priority < queue[j].priority
  /\ \A i \in Positions(queue) : queue[i].priority < bound

QueueIInv ==
  /\ QueueTypeOK
  /\ overflow # "shared" => Represents(m_QueueTMap, m_Queue)
  /\ overflow = "no" => Sorted(m_Queue, m_highestValue)

-----------------------------------------------------------------------------
(* Sequences *)

(* What an entry of the deque is made of.                                  *)
LEMMA EntryTyped ==
  ASSUME NEW queue \in Seq(Entries), NEW i \in Positions(queue)
  PROVE  /\ queue[i].priority \in 0..SizeModulus - 1 /\ queue[i].priority \in Nat
         /\ queue[i].value \in Values
<1>1. queue[i] \in Entries
  BY DEF Positions
<1> QED
  BY <1>1, Bounds DEF Entries

(* The search by priority erases one entry at most.                        *)
LEMMA EraseTyped ==
  ASSUME NEW queue \in Seq(Entries), NEW p
  PROVE  EraseByPriority(queue, p) \in Seq(Entries)
<1> DEFINE places == {i \in 1..Len(queue) : queue[i].priority = p}
<1>1. CASE places = {}
  BY <1>1 DEF EraseByPriority, RemoveFirstMatch
<1>2. CASE places # {}
  <2>1. places \in SUBSET Int /\ IsFiniteSet(places)
    <3>1. IsFiniteSet(1..Len(queue)) /\ places \subseteq 1..Len(queue)
      BY FS_Interval
    <3> QED
      BY <3>1, FS_Subset
  <2>2. \E m \in places : \A i \in places : m <= i
    <3> HIDE DEF places
    <3> QED
      BY <1>2, <2>1, Least
  <2>3. Min(places) \in places
    BY <2>2 DEF Min
  <2>4. SelectInSeq(queue, LAMBDA s : s.priority = p) = Min(places)
    BY <1>2 DEF SelectInSeq
  <2>5. \E i \in 1..Len(queue) : queue[i].priority = p
    BY <1>2
  <2>6. EraseByPriority(queue, p) = RemoveAt(queue, Min(places))
    BY <2>4, <2>5 DEF EraseByPriority, RemoveFirstMatch
  <2>7. Min(places) \in 1..Len(queue)
    BY <2>3
  <2> HIDE DEF places
  <2> QED
    BY <2>6, <2>7, RemoveAtEffect
<1> QED
  BY <1>1, <1>2

(* The search by priority erases the very entry it is made for.            *)
LEMMA EraseEffect ==
  ASSUME NEW map, NEW queue, Represents(map, queue),
         NEW k \in Positions(queue)
  PROVE  EraseByPriority(queue, queue[k].priority) = RemoveAt(queue, k)
<1> DEFINE p == queue[k].priority
<1>1. {i \in 1..Len(queue) : queue[i].priority = p} = {k}
  <2>1. \A i \in 1..Len(queue) : queue[i].priority \in Nat
    BY EntryTyped DEF Represents, Positions
  <2>2. \A i \in 1..Len(queue) : i # k => queue[i].priority # p
    BY DEF Represents, Positions
  <2> QED
    BY <2>2 DEF Positions
<1>2. SelectInSeq(queue, LAMBDA s : s.priority = p) = k
  BY <1>1 DEF SelectInSeq, Min, Positions
<1>3. \E i \in 1..Len(queue) : queue[i].priority = p
  BY DEF Positions
<1> QED
  BY <1>2, <1>3 DEF EraseByPriority, RemoveFirstMatch

-----------------------------------------------------------------------------
(* What the operations do to a representation                              *)

(* Without an entry, and without its value in the map, a queue is still    *)
(* represented.                                                            *)
LEMMA Shrunk ==
  ASSUME NEW map, NEW queue, Represents(map, queue),
         NEW k \in Positions(queue)
  PROVE  Represents(Restrict(map, DOMAIN map \ {queue[k].value}), RemoveAt(queue, k))
<1> DEFINE less == Restrict(map, DOMAIN map \ {queue[k].value})
           short == RemoveAt(queue, k)
           At(i) == IF i < k THEN i ELSE i + 1
<1>1. queue \in Seq(Entries) /\ k \in 1..Len(queue)
  BY DEF Represents, Positions
<1>2. /\ short \in Seq(Entries) /\ Len(short) = Len(queue) - 1
      /\ \A i \in 1..Len(short) : short[i] = queue[At(i)]
  BY <1>1, RemoveAtEffect
<1>3. \A i \in 1..Len(short) : At(i) \in Positions(queue) \ {k}
  BY <1>1, <1>2 DEF Positions
<1>4. \A i \in Positions(queue) \ {k} : \E j \in 1..Len(short) : At(j) = i
  <2> TAKE i \in Positions(queue) \ {k}
  <2>1. CASE i < k
    BY <1>1, <1>2, <2>1 DEF Positions
  <2>2. CASE i > k
    <3>1. i - 1 \in 1..Len(short) /\ At(i - 1) = i
      BY <1>1, <1>2, <2>2 DEF Positions
    <3> QED
      BY <3>1
  <2> QED
    BY <1>1, <2>1, <2>2 DEF Positions
<1>5. DOMAIN less = DOMAIN map \ {queue[k].value} /\ \A v \in DOMAIN less : less[v] = map[v]
  BY DEF Restrict
<1>6. \A i, j \in 1..Len(short) : i # j => At(i) # At(j)
  BY <1>1
<1> HIDE DEF less, short, At
<1>7. \A i \in Positions(queue) \ {k} : queue[i].value # queue[k].value
  <2> SUFFICES ASSUME NEW i \in Positions(queue) \ {k}, queue[i].value = queue[k].value
               PROVE  FALSE
    OBVIOUS
  <2>1. queue[i].priority = queue[k].priority
    BY DEF Represents
  <2> QED
    BY <2>1 DEF Represents
<1>8. \A i \in 1..Len(short) :
        short[i].value \in DOMAIN less /\ less[short[i].value] = short[i].priority
  <2> TAKE i \in 1..Len(short)
  <2>1. PICK j \in Positions(queue) \ {k} : short[i] = queue[j]
    BY <1>2, <1>3
  <2>2. queue[j].value \in DOMAIN map /\ map[queue[j].value] = queue[j].priority
    BY DEF Represents
  <2> QED
    BY <1>5, <1>7, <2>1, <2>2
<1>9. \A v \in DOMAIN less : \E i \in 1..Len(short) : short[i].value = v
  <2> TAKE v \in DOMAIN less
  <2>1. PICK i \in Positions(queue) : queue[i].value = v
    BY <1>5 DEF Represents
  <2>2. i # k
    BY <1>5, <2>1
  <2> QED
    BY <1>2, <1>4, <2>1, <2>2
<1>10. \A i, j \in 1..Len(short) : i # j => short[i].priority # short[j].priority
  <2> TAKE i, j \in 1..Len(short)
  <2>1. PICK k1 \in Positions(queue) : k1 = At(i) /\ short[i] = queue[k1]
    BY <1>2, <1>3
  <2>2. PICK k2 \in Positions(queue) : k2 = At(j) /\ short[j] = queue[k2]
    BY <1>2, <1>3
  <2>3. i # j => k1 # k2
    BY <1>6, <2>1, <2>2
  <2> QED
    BY <2>1, <2>2, <2>3 DEF Represents
<1>11. DOMAIN less \subseteq Values
  BY <1>5 DEF Represents
<1>12. Represents(less, short)
  BY <1>2, <1>8, <1>9, <1>10, <1>11 DEF Represents, Positions
<1> QED
  BY <1>12 DEF less, short

(* And so it stays sorted.                                                 *)
LEMMA ShrunkSorted ==
  ASSUME NEW queue \in Seq(Entries), NEW bound, Sorted(queue, bound),
         NEW k \in Positions(queue)
  PROVE  Sorted(RemoveAt(queue, k), bound)
<1> DEFINE short == RemoveAt(queue, k)
           At(i) == IF i < k THEN i ELSE i + 1
<1>1. k \in 1..Len(queue) /\ Len(queue) \in Nat
  BY DEF Positions
<1>2. Len(short) = Len(queue) - 1 /\ \A i \in 1..Len(short) : short[i] = queue[At(i)]
  BY <1>1, RemoveAtEffect
<1>3. /\ \A i \in 1..Len(short) : At(i) \in Positions(queue)
      /\ \A i, j \in 1..Len(short) : i < j => At(i) < At(j)
  BY <1>1, <1>2 DEF Positions
<1> HIDE DEF short, At
<1>4. Sorted(short, bound)
  BY <1>2, <1>3 DEF Sorted, Positions
<1> QED
  BY <1>4 DEF short

(* With a new entry under a priority that no other has it is as well.      *)
LEMMA Grown ==
  ASSUME NEW map, NEW queue, Represents(map, queue),
         NEW p \in 0..SizeModulus - 1, \A i \in Positions(queue) : queue[i].priority # p,
         NEW v \in Values, v \notin DOMAIN map,
         NEW more, DOMAIN more = DOMAIN map \cup {v}, more[v] = p,
         \A w \in DOMAIN map : more[w] = map[w]
  PROVE  Represents(more, Append(queue, UniqueQueueStruct(v, p)))
<1> DEFINE entry == UniqueQueueStruct(v, p)
           long == Append(queue, entry)
<1>1. entry \in Entries /\ entry.value = v /\ entry.priority = p
  BY DEF UniqueQueueStruct, Entries
<1>2. queue \in Seq(Entries) /\ Len(queue) \in Nat
  BY DEF Represents
<1> HIDE DEF entry
<1>3. /\ long \in Seq(Entries) /\ Len(long) = Len(queue) + 1
      /\ \A i \in 1..Len(queue) : long[i] = queue[i]
      /\ long[Len(queue) + 1] = entry
  BY <1>1, <1>2
<1> HIDE DEF long
<1>4. \A i \in 1..Len(long) : i \in Positions(queue) \/ i = Len(queue) + 1
  BY <1>2, <1>3 DEF Positions
<1>5. Positions(queue) \subseteq 1..Len(long) /\ Len(queue) + 1 \in 1..Len(long)
  BY <1>2, <1>3 DEF Positions
<1>6. \A i \in Positions(queue) : long[i] = queue[i]
  BY <1>3 DEF Positions
<1>7. \A i \in 1..Len(long) :
        long[i].value \in DOMAIN more /\ more[long[i].value] = long[i].priority
  BY <1>1, <1>3, <1>4, <1>6 DEF Represents
<1>8. \A w \in DOMAIN more : \E i \in 1..Len(long) : long[i].value = w
  BY <1>1, <1>3, <1>5, <1>6 DEF Represents
<1>9. \A i, j \in 1..Len(long) : i # j => long[i].priority # long[j].priority
  <2>1. \A i, j \in Positions(queue) : i # j => long[i].priority # long[j].priority
    BY <1>6 DEF Represents
  <2>2. \A i \in Positions(queue) : long[i].priority # long[Len(queue) + 1].priority
    BY <1>1, <1>3, <1>6
  <2> QED
    BY <1>4, <2>1, <2>2
<1>10. DOMAIN more \subseteq Values
  BY DEF Represents
<1>11. Represents(more, long)
  BY <1>3, <1>7, <1>8, <1>9, <1>10 DEF Represents, Positions
<1> QED
  BY <1>11 DEF long, entry

(* A new entry under the next priority comes last.                         *)
LEMMA GrownSorted ==
  ASSUME NEW queue \in Seq(Entries), NEW bound \in Nat, Sorted(queue, bound),
         NEW v \in Values, bound \in 0..SizeModulus - 1
  PROVE  Sorted(Append(queue, UniqueQueueStruct(v, bound)), bound + 1)
<1> DEFINE entry == UniqueQueueStruct(v, bound)
           long == Append(queue, entry)
<1>1. entry \in Entries /\ entry.priority = bound
  BY DEF UniqueQueueStruct, Entries
<1> HIDE DEF entry
<1>2. /\ Len(queue) \in Nat /\ Len(long) = Len(queue) + 1
      /\ \A i \in Positions(queue) : long[i] = queue[i] /\ queue[i].priority \in Nat
      /\ long[Len(queue) + 1] = entry
  BY <1>1, EntryTyped DEF Positions
<1> HIDE DEF long
<1>3. \A i \in Positions(queue) : long[i].priority < bound
  BY <1>2 DEF Sorted
<1>4. \A i \in 1..Len(long) : i \in Positions(queue) \/ i = Len(queue) + 1
  BY <1>2 DEF Positions
<1>5. \A i, j \in 1..Len(long) : i < j => long[i].priority < long[j].priority
  <2> SUFFICES ASSUME NEW i \in 1..Len(long), NEW j \in 1..Len(long), i < j
               PROVE  long[i].priority < long[j].priority
    OBVIOUS
  <2>1. i \in Positions(queue)
    BY <1>2 DEF Positions
  <2>2. CASE j \in Positions(queue)
    BY <1>2, <2>1, <2>2 DEF Sorted
  <2>3. CASE j = Len(queue) + 1
    BY <1>1, <1>2, <1>3, <2>1, <2>3
  <2> QED
    BY <1>4, <2>2, <2>3
<1>6. \A i \in 1..Len(long) : long[i].priority < bound + 1
  <2> TAKE i \in 1..Len(long)
  <2>1. CASE i \in Positions(queue)
    BY <1>2, <1>3, <2>1
  <2>2. CASE i = Len(queue) + 1
    BY <1>1, <1>2, <2>2
  <2> QED
    BY <1>4, <2>1, <2>2
<1>7. Sorted(long, bound + 1)
  BY <1>5, <1>6 DEF Sorted, Positions
<1> QED
  BY <1>7 DEF long, entry

(* A rebuilt queue represents its values, with their number as the bound.  *)
LEMMA Rebuild ==
  ASSUME NEW S \in SUBSET Values
  PROVE  /\ Cardinality(S) \in 0..SizeModulus - 1
         /\ Represents(MapOf(RebuiltQueue(S)), RebuiltQueue(S))
         /\ Sorted(RebuiltQueue(S), Cardinality(S))
         /\ DOMAIN RebuiltQueue(S) = 1..Cardinality(S)
         /\ \A i \in 1..Cardinality(S) : RebuiltQueue(S)[i].value = InOrder(S)[i]
<1> DEFINE n == Cardinality(S)
           q == RebuiltQueue(S)
           o == InOrder(S)
<1>1. IsFiniteSet(S) /\ S \in SUBSET Int
  BY ValuesRanked, FS_Subset
<1>2. n \in 0..SizeModulus - 1
  <2>1. n <= Cardinality(Values) /\ n \in Nat /\ Cardinality(Values) \in Nat
    BY <1>1, ValuesRanked, FS_Subset, FS_CardinalityType
  <2> QED
    BY <2>1, Bounds
<1>3. /\ o \in [1..n -> S] /\ Increasing(o)
      /\ \A v \in S : \E i \in 1..n : o[i] = v
  BY <1>1, Enumerates
<1>4. /\ DOMAIN q = 1..n
      /\ \A i \in 1..n : q[i].value = o[i] /\ q[i].priority = i - 1
  BY DEF RebuiltQueue, UniqueQueueStruct
<1>5. q \in Seq(Entries) /\ Len(q) = n
  <2>1. \A i \in 1..n : UniqueQueueStruct(o[i], i - 1) \in Entries
    <3> TAKE i \in 1..n
    <3>1. o[i] \in Values /\ i - 1 \in 0..SizeModulus - 1
      BY <1>2, <1>3, Bounds
    <3> QED
      BY <3>1 DEF UniqueQueueStruct, Entries
  <2>2. q = [i \in 1..n |-> UniqueQueueStruct(o[i], i - 1)]
    BY DEF RebuiltQueue
  <2> QED
    BY <1>2, <2>1, <2>2
<1> HIDE DEF q, o, n
<1>6. \A i, j \in 1..n : o[i] = o[j] => i = j
  <2> SUFFICES ASSUME NEW i \in 1..n, NEW j \in 1..n, i < j PROVE o[i] # o[j]
    BY <1>2
  <2>1. o[i] < o[j] /\ o[i] \in Int /\ o[j] \in Int
    BY <1>1, <1>3 DEF Increasing
  <2> QED
    BY <2>1
<1>7. DOMAIN MapOf(q) = S
  <2>1. {q[i].value : i \in DOMAIN q} = S
    BY <1>3, <1>4
  <2> QED
    BY <2>1 DEF MapOf
<1>8. \A i \in 1..n : MapOf(q)[q[i].value] = q[i].priority
  <2> TAKE i \in 1..n
  <2>1. q[i].value \in {q[j].value : j \in DOMAIN q}
    BY <1>4
  <2>2. (CHOOSE j \in DOMAIN q : q[j].value = q[i].value) = i
    BY <1>4, <1>6
  <2> QED
    BY <2>1, <2>2 DEF MapOf
<1>9. \A i, j \in 1..n : i < j => q[i].priority < q[j].priority
  BY <1>2, <1>4
<1>10. \A i \in 1..n : q[i].priority < n
  BY <1>2, <1>4
<1>11. \A i \in 1..n : q[i].value \in S
  BY <1>3, <1>4
<1>12. \A v \in S : \E i \in 1..n : q[i].value = v
  BY <1>3, <1>4
<1>13. Represents(MapOf(q), q)
  <2>1. \A i, j \in 1..n : i # j => q[i].priority # q[j].priority
    BY <1>2, <1>4
  <2> QED
    BY <1>5, <1>7, <1>8, <1>11, <1>12, <2>1 DEF Represents, Positions
<1>14. Sorted(q, n)
  BY <1>5, <1>9, <1>10 DEF Sorted, Positions
<1> QED
  BY <1>2, <1>4, <1>13, <1>14 DEF q, o, n

(* The counter wraps, or it does not.                                      *)
LEMMA IncrementEffect ==
  ASSUME NEW n \in 0..SizeModulus - 1
  PROVE  IF n + 1 = SizeModulus THEN Increment(n) = 0 ELSE Increment(n) = n + 1
<1>1. SizeModulus \in Nat /\ SizeModulus > 0
  BY Bounds
<1>2. CASE n + 1 = SizeModulus
  <2>1. SizeModulus % SizeModulus = 0
    BY <1>1
  <2> QED
    BY <1>2, <2>1 DEF Increment
<1>3. CASE n + 1 # SizeModulus
  <2>1. n + 1 \in 0..SizeModulus - 1
    BY <1>1, <1>3
  <2>2. (n + 1) % SizeModulus = n + 1
    BY <1>1, <2>1
  <2> QED
    BY <1>3, <2>2 DEF Increment
<1> QED
  BY <1>2, <1>3

-----------------------------------------------------------------------------
(* The operations *)

(* A queued value has its place, and only one.                             *)
LEMMA PlaceOf ==
  ASSUME QueueIInv, overflow # "shared", NEW v, Queued(v)
  PROVE  \E k \in Positions(m_Queue) :
           /\ m_Queue[k].value = v
           /\ EraseByPriority(m_Queue, m_QueueTMap[v]) = RemoveAt(m_Queue, k)
<1>1. PICK k \in Positions(m_Queue) : m_Queue[k].value = v
  BY DEF QueueIInv, Represents, Queued
<1>2. m_QueueTMap[v] = m_Queue[k].priority
  BY <1>1 DEF QueueIInv, Represents
<1> QED
  BY <1>1, <1>2, EraseEffect DEF QueueIInv

(* What is stored is typed, whether or not it is a queue any longer.       *)
LEMMA QueueTyped == QueueIInv /\ [QueueNext]_queueVars => QueueTypeOK'
<1> SUFFICES ASSUME QueueIInv, [QueueNext]_queueVars PROVE QueueTypeOK'
  OBVIOUS
<1>1. /\ DOMAIN m_QueueTMap \subseteq Values
      /\ \A v \in DOMAIN m_QueueTMap : m_QueueTMap[v] \in 0..SizeModulus - 1
      /\ m_Queue \in Seq(Entries) /\ m_highestValue \in 0..SizeModulus - 1
      /\ overflow \in {"no", "wrapped", "shared"}
  BY DEF QueueIInv, QueueTypeOK, Entries
<1>2. \A n \in 0..SizeModulus - 1 : Increment(n) \in 0..SizeModulus - 1
  BY Bounds, IncrementEffect
<1>3. \A v \in Values : UniqueQueueStruct(v, m_highestValue) \in Entries
  BY <1>1 DEF UniqueQueueStruct, Entries
<1>4. \A p : EraseByPriority(m_Queue, p) \in Seq(Entries)
  BY <1>1, EraseTyped
<1>5. \A V : /\ DOMAIN Restrict(m_QueueTMap, DOMAIN m_QueueTMap \ V) \subseteq Values
             /\ \A v \in DOMAIN Restrict(m_QueueTMap, DOMAIN m_QueueTMap \ V) :
                  Restrict(m_QueueTMap, DOMAIN m_QueueTMap \ V)[v] \in 0..SizeModulus - 1
  BY <1>1 DEF Restrict
<1>6. ASSUME NEW v \in Values, PushNew(v) PROVE QueueTypeOK'
  <2>1. CASE Increment(m_highestValue) = 0
    <3> DEFINE S == DOMAIN m_QueueTMap \cup {v}
    <3>1. S \in SUBSET Values
      BY <1>1
    <3> HIDE DEF S
    <3>2. /\ m_Queue' = RebuiltQueue(S) /\ m_QueueTMap' = MapOf(RebuiltQueue(S))
          /\ m_highestValue' = Cardinality(S) % SizeModulus /\ overflow' = "no"
      BY <1>6, <2>1 DEF PushNew, S
    <3>3. /\ Cardinality(S) \in 0..SizeModulus - 1
          /\ Represents(m_QueueTMap', m_Queue')
      BY <3>1, <3>2, Rebuild
    <3>4. Cardinality(S) % SizeModulus = Cardinality(S)
      BY Bounds, <3>3
    <3>5. \A w \in DOMAIN m_QueueTMap' : m_QueueTMap'[w] \in 0..SizeModulus - 1
      <4> TAKE w \in DOMAIN m_QueueTMap'
      <4>1. PICK i \in Positions(m_Queue') : m_Queue'[i].value = w
        BY <3>3 DEF Represents
      <4> QED
        BY <3>3, <4>1, EntryTyped DEF Represents
    <3> QED
      BY <3>2, <3>3, <3>4, <3>5 DEF QueueTypeOK, Represents, Entries
  <2>2. CASE Increment(m_highestValue) # 0
    <3>1. m_Queue' \in Seq(Entries)
      BY <1>1, <1>3, <1>6, <2>2 DEF PushNew
    <3>2. /\ DOMAIN m_QueueTMap' \subseteq Values
          /\ \A w \in DOMAIN m_QueueTMap' : m_QueueTMap'[w] \in 0..SizeModulus - 1
      BY <1>1, <1>6, <2>2 DEF PushNew, Inserted
    <3>3. m_highestValue' \in 0..SizeModulus - 1 /\ overflow' \in {"no", "wrapped", "shared"}
      BY <1>1, <1>2, <1>6, <2>2 DEF PushNew
    <3> QED
      BY <3>1, <3>2, <3>3 DEF QueueTypeOK, Entries
  <2> QED
    BY <2>1, <2>2
<1>7. ASSUME NEW v \in Values, PushAgain(v) PROVE QueueTypeOK'
  <2>1. m_Queue' \in Seq(Entries)
    BY <1>3, <1>4, <1>7 DEF PushAgain
  <2>2. /\ DOMAIN m_QueueTMap' \subseteq Values
        /\ \A w \in DOMAIN m_QueueTMap' : m_QueueTMap'[w] \in 0..SizeModulus - 1
    BY <1>1, <1>7 DEF PushAgain
  <2>3. m_highestValue' \in 0..SizeModulus - 1 /\ overflow' \in {"no", "wrapped", "shared"}
    BY <1>1, <1>2, <1>7 DEF PushAgain, PushesAgain
  <2> QED
    BY <2>1, <2>2, <2>3 DEF QueueTypeOK, Entries
<1>8. ASSUME NEW v \in Values, erase(v) PROVE QueueTypeOK'
  BY <1>1, <1>4, <1>5, <1>8 DEF erase, Removes, QueueTypeOK, Entries
<1>9. CASE Pop
  <2>1. m_Queue' \in Seq(Entries)
    BY <1>1, <1>9 DEF Pop
  <2>2. m_highestValue' \in 0..SizeModulus - 1 /\ overflow' \in {"no", "wrapped", "shared"}
    BY <1>1, <1>9, Bounds DEF Pop, Removes
  <2> QED
    BY <1>5, <1>9, <2>1, <2>2 DEF Pop, QueueTypeOK, Entries
<1>10. CASE PopEmpty \/ UNCHANGED queueVars
  BY <1>10 DEF PopEmpty, queueVars, QueueIInv, QueueTypeOK
<1> QED
  BY <1>6, <1>7, <1>8, <1>9, <1>10 DEF QueueNext

(* In a sorted queue the next priority is nobody's.                        *)
LEMMA SortedIsFree ==
  ASSUME NEW queue \in Seq(Entries), Sorted(queue, m_highestValue), m_highestValue \in Nat
  PROVE  ~Taken(queue)
BY EntryTyped DEF Sorted, Taken, Positions

(* Every operation of the container keeps the representation.              *)
LEMMA QueueInductive == QueueIInv /\ [QueueNext]_queueVars => QueueIInv'
<1> SUFFICES ASSUME QueueIInv, [QueueNext]_queueVars PROVE QueueIInv'
  OBVIOUS
<1> DEFINE Kept == /\ overflow' # "shared" => Represents(m_QueueTMap', m_Queue')
                   /\ overflow' = "no" => Sorted(m_Queue', m_highestValue')
<1> SUFFICES Kept
  BY QueueTyped DEF QueueIInv
<1>1. /\ m_highestValue \in Nat /\ m_highestValue \in 0..SizeModulus - 1
      /\ SizeModulus \in Nat /\ m_Queue \in Seq(Entries)
      /\ Len(m_Queue) \in Nat /\ DOMAIN m_Queue = Positions(m_Queue)
      /\ overflow # "shared" => Represents(m_QueueTMap, m_Queue)
      /\ overflow = "no" => Sorted(m_Queue, m_highestValue)
      /\ overflow \in {"no", "wrapped", "shared"}
      /\ DOMAIN m_QueueTMap \subseteq Values
  BY Bounds DEF QueueIInv, QueueTypeOK, Entries, Positions
<1>2. ASSUME NEW v \in Values, PushNew(v) PROVE Kept
  <2>1. v \notin DOMAIN m_QueueTMap
    BY <1>2 DEF PushNew, Queued
  <2>2. CASE Increment(m_highestValue) = 0
    <3> DEFINE S == DOMAIN m_QueueTMap \cup {v}
    <3>1. S \in SUBSET Values
      BY <1>1
    <3> HIDE DEF S
    <3>2. /\ m_Queue' = RebuiltQueue(S) /\ m_QueueTMap' = MapOf(RebuiltQueue(S))
          /\ m_highestValue' = Cardinality(S) % SizeModulus
      BY <1>2, <2>2 DEF PushNew, S
    <3>3. /\ Cardinality(S) \in 0..SizeModulus - 1
          /\ Represents(MapOf(RebuiltQueue(S)), RebuiltQueue(S))
          /\ Sorted(RebuiltQueue(S), Cardinality(S))
      BY <3>1, Rebuild
    <3>4. Cardinality(S) % SizeModulus = Cardinality(S)
      BY <1>1, <3>3
    <3> QED
      BY <3>2, <3>3, <3>4
  <2>3. CASE Increment(m_highestValue) # 0
    <3>1. m_highestValue' = m_highestValue + 1
      BY <1>1, <1>2, <2>3, IncrementEffect DEF PushNew
    <3>2. /\ m_Queue' = Append(m_Queue, UniqueQueueStruct(v, m_highestValue))
          /\ m_QueueTMap' = Inserted(v, m_highestValue)
          /\ overflow' = IF Taken(m_Queue) THEN "shared" ELSE overflow
      BY <1>2, <2>3 DEF PushNew
    <3>3. ASSUME overflow' # "shared" PROVE Represents(m_QueueTMap', m_Queue')
      <4>1. overflow # "shared" /\ \A i \in Positions(m_Queue) : m_Queue[i].priority # m_highestValue
        BY <1>1, <3>2, <3>3 DEF Taken
      <4> QED
        BY <1>1, <2>1, <3>2, <4>1, Grown DEF Inserted
    <3>4. ASSUME overflow' = "no" PROVE Sorted(m_Queue', m_highestValue')
      <4>1. Sorted(m_Queue, m_highestValue)
        BY <1>1, <3>2, <3>4
      <4> QED
        BY <1>1, <3>1, <3>2, <4>1, GrownSorted
    <3> QED
      BY <3>3, <3>4
  <2> QED
    BY <2>2, <2>3
<1>3. ASSUME NEW v \in Values, PushAgain(v) PROVE Kept
  <2> DEFINE rest == EraseByPriority(m_Queue, m_QueueTMap[v])
  <2>1. /\ v \in DOMAIN m_QueueTMap /\ m_highestValue' = Increment(m_highestValue)
        /\ m_QueueTMap' = [m_QueueTMap EXCEPT ![v] = m_highestValue]
        /\ m_Queue' = Append(rest, UniqueQueueStruct(v, m_highestValue))
        /\ overflow' = IF overflow = "shared" \/ Taken(rest) THEN "shared"
                       ELSE IF Increment(m_highestValue) = 0 THEN "wrapped" ELSE overflow
    BY <1>3 DEF PushAgain, PushesAgain, Queued
  <2> SUFFICES ASSUME overflow # "shared", ~Taken(rest) PROVE Kept
    BY <2>1
  <2>2. PICK k \in Positions(m_Queue) : m_Queue[k].value = v /\ rest = RemoveAt(m_Queue, k)
    BY <1>3, PlaceOf DEF PushAgain
  <2> DEFINE less == Restrict(m_QueueTMap, DOMAIN m_QueueTMap \ {v})
  <2>3. Represents(less, rest)
    BY <1>1, <2>2, Shrunk
  <2>4. /\ v \notin DOMAIN less /\ DOMAIN m_QueueTMap' = DOMAIN less \cup {v}
        /\ m_QueueTMap'[v] = m_highestValue
        /\ \A w \in DOMAIN less : m_QueueTMap'[w] = less[w]
    BY <2>1 DEF Restrict
  <2>5. rest \in Seq(Entries)
    BY <1>1, EraseTyped
  <2> HIDE DEF less, rest
  <2>6. \A i \in Positions(rest) : rest[i].priority # m_highestValue
    BY <2>5 DEF Taken, Positions
  <2>7. Represents(m_QueueTMap', m_Queue')
    BY <1>1, <2>1, <2>3, <2>4, <2>6, Grown
  <2>8. ASSUME overflow' = "no" PROVE Sorted(m_Queue', m_highestValue')
    <3>1. overflow = "no" /\ m_highestValue' = m_highestValue + 1
      BY <1>1, <2>1, <2>8, IncrementEffect
    <3>2. Sorted(rest, m_highestValue)
      BY <1>1, <2>2, <3>1, ShrunkSorted
    <3> QED
      BY <1>1, <2>1, <2>5, <3>1, <3>2, GrownSorted
  <2> QED
    BY <2>7, <2>8
(* Without entries every queue is sorted; otherwise the entry that goes    *)
(* leaves the rest as it is.                                               *)
<1>4. ASSUME NEW k \in Positions(m_Queue), overflow # "shared", Removes,
             m_Queue' = RemoveAt(m_Queue, k),
             m_QueueTMap' = Restrict(m_QueueTMap, DOMAIN m_QueueTMap \ {m_Queue[k].value}),
             m_highestValue' = m_highestValue \/ m_Queue' = << >>
      PROVE  Kept
  <2>1. Represents(m_QueueTMap', m_Queue')
    BY <1>1, <1>4, Shrunk
  <2>2. CASE m_Queue' = << >>
    BY <2>1, <2>2 DEF Sorted, Positions
  <2>3. CASE m_Queue' # << >>
    <3>1. overflow' = overflow /\ m_highestValue' = m_highestValue
      BY <1>4, <2>3 DEF Removes
    <3> QED
      BY <1>1, <1>4, <2>1, <3>1, ShrunkSorted
  <2> QED
    BY <2>2, <2>3
<1>5. ASSUME overflow = "shared", Removes PROVE Kept
  <2>1. overflow' # "shared" => m_Queue' = << >> /\ DOMAIN m_QueueTMap' = {}
    BY <1>5 DEF Removes
  <2>2. m_Queue' = << >> /\ DOMAIN m_QueueTMap' = {} => Represents(m_QueueTMap', m_Queue')
    BY DEF Represents, Positions
  <2>3. m_Queue' = << >> => Sorted(m_Queue', m_highestValue')
    BY DEF Sorted, Positions
  <2> QED
    BY <2>1, <2>2, <2>3
<1>6. ASSUME NEW v \in Values, erase(v) PROVE Kept
  <2>1. /\ Queued(v) /\ Removes /\ m_highestValue' = m_highestValue
        /\ m_Queue' = EraseByPriority(m_Queue, m_QueueTMap[v])
        /\ m_QueueTMap' = Restrict(m_QueueTMap, DOMAIN m_QueueTMap \ {v})
    BY <1>6 DEF erase
  <2>2. CASE overflow # "shared"
    <3>1. PICK k \in Positions(m_Queue) :
            /\ m_Queue[k].value = v
            /\ EraseByPriority(m_Queue, m_QueueTMap[v]) = RemoveAt(m_Queue, k)
      BY <2>1, <2>2, PlaceOf
    <3> HIDE DEF Kept
    <3> QED
      BY <1>4, <2>1, <2>2, <3>1
  <2> HIDE DEF Kept
  <2> QED
    BY <1>5, <2>1, <2>2
<1>7. CASE Pop
  <2>1. /\ m_Queue \in Seq(Entries) /\ m_Queue # << >>
        /\ m_Queue' = Tail(m_Queue) /\ Removes
        /\ m_QueueTMap' = Restrict(m_QueueTMap, DOMAIN m_QueueTMap \ {Head(m_Queue).value})
        /\ m_highestValue' = IF Len(m_Queue) = 1 THEN 0 ELSE m_highestValue
    BY <1>1, <1>7 DEF Pop
  <2>2. 1 \in Positions(m_Queue) /\ Head(m_Queue) = m_Queue[1]
    BY <2>1 DEF Positions
  <2>3. /\ Tail(m_Queue) \in Seq(Entries) /\ Len(Tail(m_Queue)) = Len(m_Queue) - 1
        /\ \A i \in 1..Len(m_Queue) - 1 : Tail(m_Queue)[i] = m_Queue[i + 1]
    BY <2>1
  <2>4. m_Queue' = RemoveAt(m_Queue, 1)
    <3>1. /\ RemoveAt(m_Queue, 1) \in Seq(Entries)
          /\ Len(RemoveAt(m_Queue, 1)) = Len(m_Queue) - 1
          /\ \A i \in 1..Len(m_Queue) - 1 : RemoveAt(m_Queue, 1)[i] = m_Queue[i + 1]
      BY <2>1, <2>2, RemoveAtEffect DEF Positions
    <3> QED
      BY <2>1, <2>3, <3>1, SeqEqual
  <2>5. m_highestValue' = m_highestValue \/ m_Queue' = << >>
    BY <2>1, <2>3
  <2> HIDE DEF Kept
  <2>6. CASE overflow # "shared"
    BY <1>4, <2>1, <2>2, <2>4, <2>5, <2>6
  <2> QED
    BY <1>5, <2>1, <2>6
<1>8. CASE PopEmpty \/ UNCHANGED queueVars
  BY <1>1, <1>8 DEF PopEmpty, queueVars
<1> HIDE DEF Kept
<1> QED
  BY <1>2, <1>3, <1>6, <1>7, <1>8 DEF QueueNext

-----------------------------------------------------------------------------
(* The abstract queue *)

ValuesOf(queue) == [i \in DOMAIN queue |-> queue[i].value]

(* QueueContents is a queue of values, each at one place.                       *)
LEMMA ContentsEffect ==
  ASSUME QueueIInv, overflow # "shared"
  PROVE  /\ QueueContents \in Seq(Values) /\ Len(QueueContents) = Len(m_Queue)
         /\ \A i \in Positions(m_Queue) : QueueContents[i] = m_Queue[i].value
         /\ \A i, j \in Positions(m_Queue) : QueueContents[i] = QueueContents[j] => i = j
         /\ ToSet(QueueContents) = DOMAIN m_QueueTMap
<1>1. /\ m_Queue \in Seq(Entries) /\ DOMAIN m_Queue = Positions(m_Queue)
      /\ Len(m_Queue) \in Nat
  BY DEF QueueIInv, Represents, Positions
<1>2. \A i \in Positions(m_Queue) : m_Queue[i].value \in Values /\ m_Queue[i].priority \in Nat
  BY <1>1, EntryTyped
<1>3. /\ QueueContents \in Seq(Values) /\ Len(QueueContents) = Len(m_Queue)
      /\ DOMAIN QueueContents = Positions(m_Queue)
      /\ \A i \in Positions(m_Queue) : QueueContents[i] = m_Queue[i].value
  BY <1>1, <1>2 DEF QueueContents, Positions
<1>4. \A i, j \in Positions(m_Queue) : QueueContents[i] = QueueContents[j] => i = j
  <2> SUFFICES ASSUME NEW i \in Positions(m_Queue), NEW j \in Positions(m_Queue), i # j
               PROVE  QueueContents[i] # QueueContents[j]
    OBVIOUS
  <2>2. m_Queue[i].priority # m_Queue[j].priority
    BY DEF QueueIInv, Represents
  <2>3. /\ m_QueueTMap[m_Queue[i].value] = m_Queue[i].priority
        /\ m_QueueTMap[m_Queue[j].value] = m_Queue[j].priority
    BY DEF QueueIInv, Represents
  <2>4. m_Queue[i].value # m_Queue[j].value
    BY <2>2, <2>3
  <2> QED
    BY <1>3, <2>4
<1>5. ToSet(QueueContents) = DOMAIN m_QueueTMap
  <2>1. \A v \in DOMAIN m_QueueTMap : \E i \in Positions(m_Queue) : QueueContents[i] = v
    BY <1>3 DEF QueueIInv, Represents
  <2>2. \A i \in Positions(m_Queue) : QueueContents[i] \in DOMAIN m_QueueTMap
    BY <1>3 DEF QueueIInv, Represents
  <2> QED
    BY <1>3, <2>1, <2>2 DEF ToSet
<1> QED
  BY <1>3, <1>4, <1>5

(* The values of a deque, place by place.                                  *)
LEMMA ValuesOfEffect ==
  ASSUME NEW queue \in Seq(Entries)
  PROVE  /\ ValuesOf(queue) \in Seq(Values) /\ Len(ValuesOf(queue)) = Len(queue)
         /\ \A i \in 1..Len(queue) : ValuesOf(queue)[i] = queue[i].value
BY EntryTyped DEF ValuesOf, Positions

(* The contents of a queue that lost or got an entry.                      *)
LEMMA ContentsShrink ==
  ASSUME NEW queue \in Seq(Entries), NEW k \in Positions(queue)
  PROVE  /\ ValuesOf(RemoveAt(queue, k)) = RemoveAt(ValuesOf(queue), k)
         /\ ValuesOf(queue) \in Seq(Values)
<1>1. /\ ValuesOf(queue) \in Seq(Values) /\ Len(ValuesOf(queue)) = Len(queue)
      /\ \A i \in Positions(queue) : ValuesOf(queue)[i] = queue[i].value
  BY ValuesOfEffect DEF Positions
<1>2. /\ RemoveAt(queue, k) \in Seq(Entries) /\ Len(RemoveAt(queue, k)) = Len(queue) - 1
      /\ \A i \in 1..Len(queue) - 1 :
           RemoveAt(queue, k)[i] = IF i < k THEN queue[i] ELSE queue[i + 1]
  BY RemoveAtEffect DEF Positions
<1>3. /\ RemoveAt(ValuesOf(queue), k) \in Seq(Values)
      /\ Len(RemoveAt(ValuesOf(queue), k)) = Len(queue) - 1
      /\ \A i \in 1..Len(queue) - 1 :
           RemoveAt(ValuesOf(queue), k)[i] =
             IF i < k THEN ValuesOf(queue)[i] ELSE ValuesOf(queue)[i + 1]
  BY <1>1, RemoveAtEffect DEF Positions
<1>4. /\ ValuesOf(RemoveAt(queue, k)) \in Seq(Values)
      /\ Len(ValuesOf(RemoveAt(queue, k))) = Len(queue) - 1
      /\ \A i \in 1..Len(queue) - 1 : ValuesOf(RemoveAt(queue, k))[i] = RemoveAt(queue, k)[i].value
  BY <1>2, ValuesOfEffect
<1>5. \A i \in 1..Len(queue) - 1 : ValuesOf(RemoveAt(queue, k))[i] = RemoveAt(ValuesOf(queue), k)[i]
  <2> TAKE i \in 1..Len(queue) - 1
  <2>1. i \in Positions(queue) /\ i + 1 \in Positions(queue)
    BY DEF Positions
  <2> QED
    BY <1>1, <1>2, <1>3, <1>4, <2>1
<1> QED
  BY <1>1, <1>3, <1>4, <1>5, SeqEqual

(* A new entry at the end adds its value at the end.                       *)
LEMMA ContentsGrow ==
  ASSUME NEW queue \in Seq(Entries), NEW v \in Values, NEW p \in 0..SizeModulus - 1
  PROVE  ValuesOf(Append(queue, UniqueQueueStruct(v, p))) = Append(ValuesOf(queue), v)
<1> DEFINE entry == UniqueQueueStruct(v, p)
<1>1. entry \in Entries /\ entry.value = v
  BY DEF UniqueQueueStruct, Entries
<1> HIDE DEF entry
<1>2. /\ ValuesOf(queue) \in Seq(Values) /\ Len(ValuesOf(queue)) = Len(queue)
      /\ \A i \in 1..Len(queue) : ValuesOf(queue)[i] = queue[i].value
  BY ValuesOfEffect
<1>3. /\ Append(queue, entry) \in Seq(Entries) /\ Len(Append(queue, entry)) = Len(queue) + 1
      /\ \A i \in 1..Len(queue) : Append(queue, entry)[i] = queue[i]
      /\ Append(queue, entry)[Len(queue) + 1] = entry
  BY <1>1
<1>4. /\ ValuesOf(Append(queue, entry)) \in Seq(Values)
      /\ Len(ValuesOf(Append(queue, entry))) = Len(queue) + 1
      /\ \A i \in 1..Len(queue) + 1 :
           ValuesOf(Append(queue, entry))[i] = Append(queue, entry)[i].value
  BY <1>3, ValuesOfEffect
<1>5. /\ Append(ValuesOf(queue), v) \in Seq(Values)
      /\ Len(Append(ValuesOf(queue), v)) = Len(queue) + 1
      /\ \A i \in 1..Len(queue) : Append(ValuesOf(queue), v)[i] = ValuesOf(queue)[i]
      /\ Append(ValuesOf(queue), v)[Len(queue) + 1] = v
  BY <1>2
<1>6. \A i \in 1..Len(queue) + 1 :
        ValuesOf(Append(queue, entry))[i] = Append(ValuesOf(queue), v)[i]
  <2> TAKE i \in 1..Len(queue) + 1
  <2>1. CASE i \in 1..Len(queue)
    BY <1>2, <1>3, <1>4, <1>5, <2>1
  <2>2. CASE i = Len(queue) + 1
    BY <1>1, <1>3, <1>4, <1>5, <2>2
  <2>3. i \in 1..Len(queue) \/ i = Len(queue) + 1
    OBVIOUS
  <2> QED
    BY <2>1, <2>2, <2>3
<1> QED
  BY <1>4, <1>5, <1>6, SeqEqual DEF entry

(* Both modules take the operator from SequencesExt.                       *)
LEMMA SameRemoveFirst ==
  ASSUME NEW s, NEW v
  PROVE  Fifo!RemoveFirst(s, v) = RemoveFirst(s, v)
BY DEF RemoveFirst, RemoveAt, SelectInSeq, Min,
       Fifo!RemoveFirst, Fifo!RemoveAt, Fifo!SelectInSeq, Fifo!Min

(* Every operation of the container is one of the queue, or sorts it anew. *)
LEMMA StepImplements ==
  QueueIInv /\ [QueueNext]_queueVars =>
    [\/ overflow = "shared" \/ Fifo!Next
     \/ m_highestValue = SizeModulus - 1 /\ Rebuilt]_QueueContents
<1> SUFFICES ASSUME QueueIInv, QueueNext, overflow # "shared"
             PROVE  \/ Fifo!Next \/ UNCHANGED QueueContents
                    \/ m_highestValue = SizeModulus - 1 /\ Rebuilt
  BY DEF queueVars, QueueContents
<1>1. /\ m_Queue \in Seq(Entries) /\ m_highestValue \in Nat
      /\ m_highestValue \in 0..SizeModulus - 1
      /\ QueueContents = ValuesOf(m_Queue) /\ QueueContents' = ValuesOf(m_Queue')
  BY Bounds DEF QueueIInv, QueueTypeOK, Entries, ValuesOf, QueueContents
<1>2. /\ QueueContents \in Seq(Values) /\ Len(QueueContents) = Len(m_Queue)
      /\ \A i \in Positions(m_Queue) : QueueContents[i] = m_Queue[i].value
      /\ \A i, j \in Positions(m_Queue) : QueueContents[i] = QueueContents[j] => i = j
      /\ ToSet(QueueContents) = DOMAIN m_QueueTMap
  BY ContentsEffect
(* A queued value is removed from the abstract queue as its entry is.      *)
<1>3. ASSUME NEW v, Queued(v)
      PROVE  /\ ValuesOf(EraseByPriority(m_Queue, m_QueueTMap[v])) = RemoveFirst(QueueContents, v)
             /\ EraseByPriority(m_Queue, m_QueueTMap[v]) \in Seq(Entries)
  <2>1. PICK k \in Positions(m_Queue) :
          /\ m_Queue[k].value = v
          /\ EraseByPriority(m_Queue, m_QueueTMap[v]) = RemoveAt(m_Queue, k)
    BY <1>3, PlaceOf
  <2>2. ValuesOf(RemoveAt(m_Queue, k)) = RemoveAt(QueueContents, k)
    BY <1>1, ContentsShrink
  <2>3. RemoveFirst(QueueContents, QueueContents[k]) = RemoveAt(QueueContents, k)
    BY <1>2, RemoveFirstEffect DEF Positions
  <2> QED
    BY <1>1, <1>2, <2>1, <2>2, <2>3, RemoveAtEffect DEF Positions
<1>4. ASSUME NEW v \in Values, PushNew(v)
      PROVE  Fifo!Next \/ (m_highestValue = SizeModulus - 1 /\ Rebuilt)
  <2>1. v \notin ToSet(QueueContents)
    BY <1>2, <1>4 DEF PushNew, Queued
  <2>2. CASE Increment(m_highestValue) = 0
    <3> DEFINE S == DOMAIN m_QueueTMap \cup {v}
    <3>1. S \in SUBSET Values /\ m_Queue' = RebuiltQueue(S)
      BY <1>4, <2>2 DEF PushNew, QueueIInv, Represents
    <3> HIDE DEF S
    <3>2. ValuesOf(RebuiltQueue(S)) = InOrder(S)
      <4>1. /\ DOMAIN RebuiltQueue(S) = 1..Cardinality(S)
            /\ \A i \in 1..Cardinality(S) : RebuiltQueue(S)[i].value = InOrder(S)[i]
        BY <3>1, Rebuild
      <4>2. InOrder(S) \in [1..Cardinality(S) -> S]
        BY <3>1, ValuesRanked, FS_Subset, Enumerates
      <4> QED
        BY <4>1, <4>2 DEF ValuesOf
    <3>3. Rebuilt
      BY <1>1, <1>2, <3>1, <3>2 DEF Rebuilt, S
    <3>4. m_highestValue = SizeModulus - 1
      BY <1>1, <2>2, IncrementEffect, Bounds DEF QueueIInv
    <3> QED
      BY <3>3, <3>4
  <2>3. CASE Increment(m_highestValue) # 0
    <3>1. QueueContents' = Append(QueueContents, v)
      BY <1>1, <1>4, <2>3, ContentsGrow DEF PushNew
    <3>2. RemoveFirst(QueueContents, v) = QueueContents
      BY <1>2, <2>1 DEF RemoveFirst, ToSet
    <3>3. Fifo!Push(v)
      BY <3>1, <3>2, SameRemoveFirst DEF Fifo!Push
    <3> QED
      BY <3>3 DEF Fifo!Next
  <2> QED
    BY <2>2, <2>3
<1>5. ASSUME NEW v \in Values, PushAgain(v) PROVE Fifo!Next
  <2>1. QueueContents' = Append(RemoveFirst(QueueContents, v), v)
    BY <1>1, <1>3, <1>5, ContentsGrow DEF PushAgain
  <2>2. Fifo!Push(v)
    BY <2>1, SameRemoveFirst DEF Fifo!Push
  <2> QED
    BY <2>2 DEF Fifo!Next
<1>6. ASSUME NEW v \in Values, erase(v) PROVE Fifo!Next
  <2>1. QueueContents' = RemoveFirst(QueueContents, v)
    BY <1>1, <1>3, <1>6 DEF erase
  <2>2. Fifo!Erase(v)
    BY <2>1, SameRemoveFirst DEF Fifo!Erase
  <2> QED
    BY <2>2 DEF Fifo!Next
<1>7. CASE Pop
  <2>1. m_Queue # << >> /\ m_Queue' = Tail(m_Queue)
    BY <1>7 DEF Pop
  <2>2. /\ Tail(m_Queue) \in Seq(Entries) /\ Len(Tail(m_Queue)) = Len(m_Queue) - 1
        /\ \A i \in 1..Len(m_Queue) - 1 : Tail(m_Queue)[i] = m_Queue[i + 1]
    BY <1>1, <2>1
  <2>3. /\ QueueContents' \in Seq(Values) /\ Len(QueueContents') = Len(m_Queue) - 1
        /\ \A i \in 1..Len(m_Queue) - 1 : QueueContents'[i] = m_Queue[i + 1].value
    BY <1>1, <2>1, <2>2, EntryTyped DEF ValuesOf, Positions
  <2>4. /\ QueueContents # << >> /\ Tail(QueueContents) \in Seq(Values)
        /\ Len(Tail(QueueContents)) = Len(m_Queue) - 1
        /\ \A i \in 1..Len(m_Queue) - 1 : Tail(QueueContents)[i] = QueueContents[i + 1]
    BY <1>1, <1>2, <2>1
  <2>5. \A i \in 1..Len(m_Queue) - 1 : QueueContents'[i] = Tail(QueueContents)[i]
    <3> TAKE i \in 1..Len(m_Queue) - 1
    <3>1. i + 1 \in Positions(m_Queue)
      BY <1>1 DEF Positions
    <3> QED
      BY <1>2, <2>3, <2>4, <3>1
  <2>6. QueueContents' = Tail(QueueContents)
    BY <2>3, <2>4, <2>5, SeqEqual
  <2> QED
    BY <2>4, <2>6 DEF Fifo!Next, Fifo!Pop
<1>8. CASE PopEmpty
  BY <1>8 DEF PopEmpty, queueVars, QueueContents
<1> QED
  BY <1>4, <1>5, <1>6, <1>7, <1>8 DEF QueueNext

-----------------------------------------------------------------------------
(* An empty map represents an empty deque.                                 *)
LEMMA QueueInitially == QueueInit => QueueIInv
<1> SUFFICES ASSUME QueueInit PROVE QueueIInv
  OBVIOUS
<1>1. QueueTypeOK
  <2>1. 0 \in 0..SizeModulus - 1
    BY Bounds, ValuesRanked, FS_CardinalityType
  <2> QED
    BY <2>1 DEF QueueInit, QueueTypeOK
<1>2. Represents(m_QueueTMap, m_Queue) /\ Sorted(m_Queue, m_highestValue)
  BY DEF QueueInit, Represents, Sorted, Positions
<1> QED
  BY <1>1, <1>2 DEF QueueIInv

(* Whatever is pushed, popped and erased, map and deque hold the same      *)
(* values, each once, with a priority of its own: the search by priority   *)
(* finds the entry of the value.  This is until the push of a queued value *)
(* has taken the last priority and a later push takes one that is still    *)
(* there; before the first of these the queue is sorted, too.              *)
THEOREM Representation == QueueSpec => []RepInv
<1>1. QueueIInv => RepInv
  <2> SUFFICES ASSUME QueueIInv PROVE RepInv
    OBVIOUS
  <2>1. DOMAIN m_Queue = Positions(m_Queue)
    BY DEF QueueIInv, QueueTypeOK, Positions
  <2>2. overflow # "shared" => NoDuplicates /\ MapMatchesQueue
    <3> SUFFICES ASSUME overflow # "shared" PROVE NoDuplicates /\ MapMatchesQueue
      OBVIOUS
    <3>1. DOMAIN QueueContents = Positions(m_Queue)
      BY <2>1 DEF QueueContents
    <3> QED
      BY <2>1, <3>1, ContentsEffect
      DEF NoDuplicates, MapMatchesQueue, IsInjective, QueueIInv, Represents
  <2>3. overflow = "no" => PrioritiesIncrease
    BY <2>1 DEF PrioritiesIncrease, QueueIInv, Sorted
  <2> QED
    BY <2>2, <2>3 DEF RepInv, QueueIInv
<1> QED
  BY QueueInitially, QueueInductive, <1>1, PTL DEF QueueSpec

(* And it is the queue without duplicates that the crawler relies on, but  *)
(* for the order when it is rebuilt, until two entries share a priority.   *)
THEOREM Refinement == QueueSpec => ImplementsFifo
<1>1. QueueInit => Fifo!Init
  BY DEF QueueInit, Fifo!Init, QueueContents
<1> QED
  BY QueueInitially, QueueInductive, StepImplements, <1>1, PTL DEF QueueSpec, ImplementsFifo

-----------------------------------------------------------------------------
(* The queue of the shell updater *)

(* The first of each run of equal neighbours.                              *)
Firsts(queue) == {i \in DOMAIN queue : i = 1 \/ queue[i] # queue[i - 1]}

Merged(queue) == \A i \in 2..Len(queue) : queue[i] # queue[i - 1]

USE DEF shellVars, signals

(* Every place belongs to a run: the first of it is kept, none between is. *)
LEMMA RunOf ==
  ASSUME NEW E, NEW queue \in Seq(E), NEW i \in 1..Len(queue)
  PROVE  \E k \in Firsts(queue) :
           k <= i /\ queue[k] = queue[i] /\ \A j \in Firsts(queue) : j <= i => j <= k
<1> DEFINE run == {j \in 1..i : \A m \in j..i : queue[m] = queue[i]}
<1>1. Len(queue) \in Nat /\ DOMAIN queue = 1..Len(queue)
  OBVIOUS
<1>2. run \in SUBSET Int /\ IsFiniteSet(run) /\ i \in run
  <2>1. IsFiniteSet(1..i)
    BY FS_Interval
  <2>2. run \in SUBSET (1..i)
    OBVIOUS
  <2>3. i \in run
    OBVIOUS
  <2> QED
    BY <2>1, <2>2, <2>3, FS_Subset
<1>3. PICK k \in run : \A j \in run : k <= j
  <2> HIDE DEF run
  <2> QED
    BY <1>2, Least
<1>4. k \in 1..i /\ queue[k] = queue[i] /\ \A m \in k..i : queue[m] = queue[i]
  OBVIOUS
<1>5. k = 1 \/ queue[k] # queue[k - 1]
  <2> SUFFICES ASSUME k # 1, queue[k] = queue[k - 1] PROVE FALSE
    OBVIOUS
  <2>1. k - 1 \in 1..i
    BY <1>4
  <2>2. \A m \in k - 1..i : m = k - 1 \/ m \in k..i
    BY <1>4
  <2>3. \A m \in k - 1..i : queue[m] = queue[i]
    BY <1>4, <2>2
  <2>4. k - 1 \in run
    BY <2>1, <2>3
  <2> QED
    BY <1>3, <1>4, <2>4
<1>6. k \in Firsts(queue)
  BY <1>1, <1>4, <1>5 DEF Firsts
<1>7. ASSUME NEW j \in Firsts(queue), j <= i, j > k PROVE FALSE
  <2>1. j \in k..i /\ j - 1 \in k..i /\ j # 1
    BY <1>1, <1>4, <1>7 DEF Firsts
  <2>2. queue[j] # queue[j - 1]
    BY <2>1 DEF Firsts
  <2> QED
    BY <1>4, <2>1, <2>2
<1>8. \A j \in Firsts(queue) : j <= i => j <= k
  BY <1>1, <1>4, <1>7 DEF Firsts
<1> QED
  BY <1>4, <1>6, <1>8

(* What the merge of the queue keeps and leaves.                           *)
LEMMA UniqueEffect ==
  ASSUME NEW E, NEW queue \in Seq(E)
  PROVE  /\ Unique(queue) \in Seq(E)
         /\ Len(Unique(queue)) <= Len(queue)
         /\ Range(Unique(queue)) = Range(queue)
         /\ Merged(Unique(queue))
<1> DEFINE places == Firsts(queue)
           n == Cardinality(places)
           o == InOrder(places)
           merged == Unique(queue)
<1>1. Len(queue) \in Nat /\ DOMAIN queue = 1..Len(queue)
  OBVIOUS
<1>2. places \in SUBSET (1..Len(queue))
  BY <1>1 DEF Firsts
<1>3. IsFiniteSet(places) /\ n <= Len(queue) /\ places \in SUBSET Int
  <2>1. IsFiniteSet(1..Len(queue)) /\ Cardinality(1..Len(queue)) = Len(queue)
    BY <1>1, FS_Interval
  <2> QED
    BY <1>2, <2>1, FS_Subset
<1>4. /\ n \in Nat /\ o \in [1..n -> places] /\ Increasing(o)
      /\ \A i \in places : \E k \in 1..n : o[k] = i
  <2> HIDE DEF places
  <2> QED
    BY <1>3, Enumerates
<1>5. merged = [k \in 1..n |-> queue[o[k]]]
  BY DEF Unique, Firsts
<1> HIDE DEF places, n, o, merged
<1>6. merged \in Seq(E) /\ Len(merged) = n /\ DOMAIN merged = 1..n
      /\ \A k \in 1..n : merged[k] = queue[o[k]]
  <2>1. \A k \in 1..n : queue[o[k]] \in E
    <3> TAKE k \in 1..n
    <3>1. o[k] \in 1..Len(queue)
      BY <1>2, <1>4
    <3> QED
      BY <3>1
  <2> QED
    BY <1>4, <1>5, <2>1
<1>7. Range(merged) = Range(queue)
  <2>1. \A k \in 1..n : \E i \in 1..Len(queue) : merged[k] = queue[i]
    <3> TAKE k \in 1..n
    <3>1. o[k] \in 1..Len(queue)
      BY <1>2, <1>4
    <3> QED
      BY <1>6, <3>1
  <2>2. \A i \in 1..Len(queue) : \E k \in 1..n : merged[k] = queue[i]
    <3> TAKE i \in 1..Len(queue)
    <3>1. PICK j \in places : queue[j] = queue[i]
      BY RunOf DEF places
    <3>2. PICK k \in 1..n : o[k] = j
      BY <1>4
    <3> QED
      BY <1>6, <3>1, <3>2
  <2> QED
    <3>1. \A x : x \in Range(merged) <=> \E k \in 1..n : merged[k] = x
      BY <1>6 DEF Range
    <3>2. \A x : x \in Range(queue) <=> \E i \in 1..Len(queue) : queue[i] = x
      BY <1>1 DEF Range
    <3>3. \A x : x \in Range(merged) <=> x \in Range(queue)
      BY <2>1, <2>2, <3>1, <3>2
    <3> QED
      BY <3>3
<1>8. ASSUME NEW k \in 2..n PROVE merged[k] # merged[k - 1]
  <2>1. /\ k \in 1..n /\ k - 1 \in 1..n /\ o[k - 1] < o[k]
        /\ o[k] \in places /\ o[k - 1] \in places
    BY <1>4 DEF Increasing
  <2>2. o[k] \in 1..Len(queue) /\ o[k - 1] \in 1..Len(queue)
    BY <1>2, <2>1
  <2>3. o[k] - 1 \in 1..Len(queue) /\ o[k - 1] <= o[k] - 1
    BY <1>1, <2>1, <2>2
  <2>4. PICK j \in places : /\ j <= o[k] - 1 /\ queue[j] = queue[o[k] - 1]
                          /\ \A i \in places : i <= o[k] - 1 => i <= j
    BY <2>3, RunOf DEF places
  <2>5. PICK m \in 1..n : o[m] = j
    BY <1>4
  <2>6. o[m] \in Int /\ o[k] \in Int /\ o[k - 1] \in Int /\ o[m] < o[k]
    BY <1>2, <2>2, <2>4, <2>5
  <2>7. m <= k - 1
    <3>1. ~(k < m)
      BY <1>4, <2>1, <2>6 DEF Increasing
    <3> QED
      BY <1>4, <2>6, <3>1
  <2>8. m = k - 1 \/ o[m] < o[k - 1]
    BY <1>4, <2>1, <2>7 DEF Increasing
  <2>9. j = o[k - 1]
    BY <2>1, <2>3, <2>4, <2>5, <2>6, <2>8
  <2>10. queue[o[k]] # queue[o[k] - 1]
    BY <2>1, <2>2, <2>6 DEF places, Firsts
  <2> QED
    BY <1>6, <2>1, <2>4, <2>9, <2>10
<1>9. Merged(merged)
  BY <1>6, <1>8 DEF Merged
<1> QED
  BY <1>3, <1>6, <1>7, <1>9 DEF merged

-----------------------------------------------------------------------------
(* What TakePath leaves of a merged queue is merged.                            *)
LEMMA TailMerged ==
  ASSUME NEW E, NEW queue \in Seq(E), queue # << >>, Merged(queue)
  PROVE  Merged(Tail(queue))
<1>1. /\ Len(queue) \in Nat /\ Len(Tail(queue)) = Len(queue) - 1
      /\ \A i \in 1..Len(queue) - 1 : Tail(queue)[i] = queue[i + 1]
  OBVIOUS
<1>2. ASSUME NEW i \in 2..Len(Tail(queue)) PROVE Tail(queue)[i] # Tail(queue)[i - 1]
  <2>1. i \in 1..Len(queue) - 1 /\ i - 1 \in 1..Len(queue) - 1 /\ i + 1 \in 2..Len(queue)
    BY <1>1
  <2>2. queue[i + 1] # queue[(i + 1) - 1]
    BY <2>1 DEF Merged
  <2>3. Tail(queue)[i] = queue[i + 1] /\ Tail(queue)[i - 1] = queue[i]
    BY <1>1, <2>1
  <2> QED
    BY <2>1, <2>2, <2>3
<1> QED
  BY <1>2 DEF Merged

(* Before the first report nothing is queued and nothing is owed.          *)
LEMMA ShellInitially ==
  ASSUME ShellInit
  PROVE  QueueInv
<1>1. ShellTypeOK
  <2>1. m_pathsToUpdate \in Seq(Paths) /\ Len(m_pathsToUpdate) = 0
    BY DEF ShellInit
  <2>2. workingPath \in Paths
    BY DEF ShellInit, Paths
  <2>3. Len(m_pathsToUpdate) <= adds /\ adds \in 0..MaxAdds
    BY <2>1, PathsDiffer DEF ShellInit
  <2>4. /\ m_bItemsAddedSinceLastUpdate \in BOOLEAN
        /\ wakeEvent \in BOOLEAN /\ terminationEvent \in BOOLEAN
        /\ handlesOpen \in BOOLEAN /\ m_bRunning \in BOOLEAN
    BY DEF ShellInit
  <2>5. /\ pc \in {"wait", "loop", "pop", "notify", "done"}
        /\ adding \subseteq Reporters /\ owed \subseteq Paths \ {NoPath}
    BY DEF ShellInit
  <2> QED
    BY <2>1, <2>2, <2>3, <2>4, <2>5 DEF ShellTypeOK
<1> QED
  BY <1>1 DEF ShellInit, QueueInv, NoPathLost, MergedUnlessFlagged

(* Every step of the reporters, the worker and Stop keeps the invariant.   *)
LEMMA ShellInductive ==
  ASSUME QueueInv, [ShellNext]_shellVars
  PROVE  QueueInv'
<1> USE DEF QueueInv
<1>q. /\ m_pathsToUpdate \in Seq(Paths) /\ Len(m_pathsToUpdate) <= adds
      /\ adds \in 0..MaxAdds /\ MaxAdds \in Nat
      /\ owed \subseteq Paths \ {NoPath} /\ adding \subseteq Reporters
  BY PathsDiffer DEF ShellTypeOK
<1>m. MergedUnlessFlagged <=> (~m_bItemsAddedSinceLastUpdate => Merged(m_pathsToUpdate))
  BY DEF MergedUnlessFlagged, Merged
<1>1. ASSUME NEW t \in Reporters, NEW p \in Paths, AddPathForUpdate(t, p) PROVE QueueInv'
  <2>1. /\ m_pathsToUpdate' \in Seq(Paths)
        /\ Len(m_pathsToUpdate') = Len(m_pathsToUpdate) + 1
        /\ Range(m_pathsToUpdate) \cup {p} \subseteq Range(m_pathsToUpdate')
    BY <1>1, <1>q, AppendEffect DEF AddPathForUpdate
  <2>2. /\ Len(m_pathsToUpdate') <= adds' /\ adds' \in 0..MaxAdds
        /\ owed' \subseteq Paths \ {NoPath} /\ adding' \subseteq Reporters
    <3>1. Len(m_pathsToUpdate) \in Nat
      BY <1>q
    <3> QED
      BY <1>1, <1>q, <2>1, <3>1 DEF AddPathForUpdate
  <2>3. ShellTypeOK'
    BY <1>1, <2>1, <2>2 DEF ShellTypeOK, AddPathForUpdate
  <2>4. NoPathLost'
    BY <1>1, <2>1 DEF NoPathLost, AddPathForUpdate
  <2>5. MergedUnlessFlagged'
    BY <1>1 DEF MergedUnlessFlagged, AddPathForUpdate
  <2> QED
    BY <2>3, <2>4, <2>5
<1>2. CASE TakePath
  <2> DEFINE queue == IF m_bItemsAddedSinceLastUpdate THEN Unique(m_pathsToUpdate)
                                                      ELSE m_pathsToUpdate
  <2>1. /\ queue \in Seq(Paths) /\ Len(queue) <= Len(m_pathsToUpdate)
        /\ Range(queue) = Range(m_pathsToUpdate) /\ Merged(queue)
    <3>1. CASE m_bItemsAddedSinceLastUpdate
      BY <1>q, <3>1, UniqueEffect
    <3>2. CASE ~m_bItemsAddedSinceLastUpdate
      BY <1>q, <1>m, <3>2
    <3> QED
      BY <3>1, <3>2
  <2>2. CASE m_pathsToUpdate = << >>
    <3>1. pc = "pop" /\ pc' = "wait" /\ UNCHANGED <<m_pathsToUpdate, m_bItemsAddedSinceLastUpdate,
              workingPath, signals, adding, owed, adds>>
      BY <1>2, <2>2 DEF TakePath
    <3> QED
      BY <3>1 DEF ShellTypeOK, NoPathLost, MergedUnlessFlagged
  <2>3. CASE m_pathsToUpdate # << >>
    <3>1. queue # << >>
      <4>1. m_pathsToUpdate[1] \in Range(m_pathsToUpdate)
        BY <1>q, <2>3 DEF Range
      <4>2. m_pathsToUpdate[1] \in Range(queue)
        BY <2>1, <4>1
      <4> QED
        BY <4>2 DEF Range
    <3>2. /\ pc = "pop" /\ m_bItemsAddedSinceLastUpdate' = FALSE
          /\ workingPath' = Head(queue) /\ m_pathsToUpdate' = Tail(queue)
          /\ pc' = IF Head(queue) = NoPath THEN "loop" ELSE "notify"
          /\ UNCHANGED <<signals, adding, owed, adds>>
      BY <1>2, <2>3 DEF TakePath
    <3> HIDE DEF queue
    <3>3. /\ Head(queue) \in Paths /\ Tail(queue) \in Seq(Paths)
          /\ Len(Tail(queue)) = Len(queue) - 1
          /\ Range(queue) \subseteq {Head(queue)} \cup Range(Tail(queue))
          /\ Merged(Tail(queue))
      BY <2>1, <3>1, TailEffect, TailMerged
    <3>4. Len(m_pathsToUpdate') <= adds'
      <4>1. Len(queue) \in Nat /\ Len(m_pathsToUpdate) \in Nat
        BY <1>q, <2>1
      <4> QED
        BY <1>q, <2>1, <3>2, <3>3, <4>1
    <3>5. ShellTypeOK'
      BY <3>2, <3>3, <3>4 DEF ShellTypeOK
    <3>6. owed \subseteq Range(queue)
      BY <2>1, <3>2 DEF NoPathLost
    <3>7. NoPathLost'
      BY <1>q, <3>2, <3>3, <3>6 DEF NoPathLost
    <3>8. MergedUnlessFlagged'
      BY <3>2, <3>3 DEF MergedUnlessFlagged, Merged
    <3> QED
      BY <3>5, <3>7, <3>8
  <2> QED
    BY <2>2, <2>3
<1>3. CASE Notify
  BY <1>3 DEF Notify, ShellTypeOK, NoPathLost, MergedUnlessFlagged
<1>4. ASSUME NEW t \in Reporters, SetWakeEvent(t) PROVE QueueInv'
  BY <1>4 DEF SetWakeEvent, ShellTypeOK, NoPathLost, MergedUnlessFlagged
<1>5. CASE WorkerWakes \/ CheckRunning
  BY <1>5 DEF WorkerWakes, CheckRunning, ShellTypeOK, NoPathLost, MergedUnlessFlagged
<1>6. CASE StopRunning \/ StopSignal \/ StopClose
  BY <1>6 DEF StopRunning, StopSignal, StopClose, ShellTypeOK, NoPathLost, MergedUnlessFlagged
<1>7. CASE UNCHANGED shellVars
  BY <1>7 DEF ShellTypeOK, NoPathLost, MergedUnlessFlagged
<1> QED
  BY <1>1, <1>2, <1>3, <1>4, <1>5, <1>6, <1>7 DEF ShellNext, Worker

(* However many threads report how many paths: what the explorer has not   *)
(* heard of since it was queued is queued or being announced, and the      *)
(* merge is left out only when there is nothing to merge.                  *)
THEOREM Reports == ShellSpec => []QueueInv
<1>1. ShellInit => QueueInv
  BY ShellInitially
<1>2. QueueInv /\ [ShellNext]_shellVars => QueueInv'
  BY ShellInductive
<1> QED
  BY <1>1, <1>2, PTL DEF ShellSpec



-----------------------------------------------------------------------------
(* The blocked paths *)

USE DEF blocksVars

(* The directories above a directory, which WCRoot and IsPathGood go up,   *)
(* are in one line.                                                        *)
LEMMA ChainFacts ==
  \A d \in Dirs : /\ d \in Chain[d] /\ Chain[d] \in SUBSET Dirs
                  /\ \A e \in Chain[d] : e <= d
                  /\ \A e, f \in Chain[d] : e \in Chain[f] \/ f \in Chain[e]
<1>1. IsTree(Dirs, Parent, NoDir)
  BY DirsAreRanks, ParentIsTree DEF IsTree
<1>2. IsChain(Chain, Dirs, Parent, NoDir)
  <2>1. \E f : IsChain(f, Dirs, Parent, NoDir)
    BY <1>1, ChainExists
  <2>2. Chain = CHOOSE f : IsChain(f, Dirs, Parent, NoDir)
    BY Zenon DEF Chain, IsChain
  <2> QED
    BY <2>1, <2>2, Zenon
<1>3. GoesUp(Chain, Dirs, Parent, NoDir)
  BY <1>1, <1>2, ChainUp
<1>4. \A d \in Dirs : /\ \A e \in Chain[d] : e <= d
                      /\ \A e, f \in Chain[d] : e \in Chain[f] \/ f \in Chain[e]
  BY <1>1, <1>2, ChainLine
<1> QED
  BY <1>3, <1>4 DEF GoesUp

(* If a directory is in a working copy there is a closest root.            *)
LEMMA RootFacts ==
  ASSUME NEW d \in Dirs, WCRoot(d) # NoDir
  PROVE  WCRoot(d) \in Chain[d] \cap hasDb
<1> DEFINE above == Chain[d] \cap hasDb
<1>1. above # {}
  BY DEF WCRoot
<1>2. above \in SUBSET Dirs /\ above \in SUBSET Int /\ IsFiniteSet(above)
  <2>1. above \in SUBSET Dirs
    BY ChainFacts
  <2> HIDE DEF above
  <2> QED
    BY <2>1, DirsAreRanks, FS_Subset
<1>3. \E r \in above : above \subseteq Chain[r]
  <2>1. PICK r \in above : \A e \in above : e <= r
    <3> HIDE DEF above
    <3> QED
      BY <1>1, <1>2, Greatest
  <2>2. ASSUME NEW e \in above PROVE e \in Chain[r]
    <3>1. e \in Dirs /\ r \in Dirs /\ e \in Int /\ r \in Int /\ e <= r
      BY <1>2, <2>1
    <3>2. e \in Chain[r] \/ r \in Chain[e]
      BY ChainFacts
    <3>3. r \in Chain[e] => r <= e
      BY <3>1, ChainFacts
    <3>4. r = e => e \in Chain[r]
      BY <3>1, ChainFacts
    <3> QED
      BY <3>1, <3>2, <3>3, <3>4
  <2> QED
    BY <2>2
<1>4. WCRoot(d) = CHOOSE r \in above : above \subseteq Chain[r]
  BY <1>1 DEF WCRoot
<1> HIDE DEF above
<1>5. WCRoot(d) \in above
  BY <1>3, <1>4
<1> QED
  BY <1>5 DEF above

(* Times are Expired, or what is left of one of the timeouts.              *)
TimesLeft == {Expired} \cup 0..Max({DefaultTimeout, Forever} \cup ShortTimeouts)

(* No time that a block is given is longer than the longest of them.       *)
LEMMA LongestTime ==
  /\ Max({DefaultTimeout, Forever} \cup ShortTimeouts) \in Nat
  /\ \A time \in {DefaultTimeout, Forever} \cup ShortTimeouts :
       time <= Max({DefaultTimeout, Forever} \cup ShortTimeouts)
<1> DEFINE all == {DefaultTimeout, Forever} \cup ShortTimeouts
<1>1. all \in SUBSET Nat /\ all \in SUBSET Int /\ all # {}
  BY Times
<1>2. IsFiniteSet(all)
  <2>1. IsFiniteSet({DefaultTimeout, Forever})
    <3>1. IsFiniteSet({DefaultTimeout}) /\ IsFiniteSet({Forever})
      BY FS_Singleton
    <3>2. {DefaultTimeout, Forever} = {DefaultTimeout} \cup {Forever}
      OBVIOUS
    <3> QED
      BY <3>1, <3>2, FS_Union
  <2> QED
    BY <2>1, Times, FS_Union
<1> HIDE DEF all
<1>3. PICK m \in all : \A time \in all : time <= m
  BY <1>1, <1>2, Greatest
<1>4. \A time \in all : m >= time
  BY <1>1, <1>3
<1>5. Max(all) \in all /\ \A time \in all : Max(all) >= time
  BY <1>4 DEF Max
<1>6. Max(all) \in Nat /\ \A time \in all : time <= Max(all)
  BY <1>1, <1>5
<1> QED
  BY <1>6 DEF all

(* m_NoWatchPaths: blocks of directories, with the time they have left.    *)
BlocksOf(noWatch) ==
  DOMAIN noWatch \subseteq Dirs /\ \A d \in DOMAIN noWatch : noWatch[d] \in TimesLeft

(* UnBlockPath leaves blocks, and only takes those it is told to.          *)
LEMMA FewerBlocks ==
  ASSUME BlocksOf(m_NoWatchPaths), NEW S
  PROVE  /\ BlocksOf(Without(m_NoWatchPaths, S))
         /\ DOMAIN Without(m_NoWatchPaths, S) = DOMAIN m_NoWatchPaths \ S
  BY DEF BlocksOf, Without, Restrict

(* The entry RemoveTimedoutBlocks finds first.                             *)
LEMMA FirstTimedOut ==
  ASSUME BlocksOf(m_NoWatchPaths), TimedOut # {}
  PROVE  Min(TimedOut) \in TimedOut /\ \A d \in TimedOut : Min(TimedOut) <= d
<1>1. TimedOut \in SUBSET Dirs
  BY DEF TimedOut, BlocksOf
<1>2. TimedOut \in SUBSET Int /\ IsFiniteSet(TimedOut)
  BY <1>1, DirsAreRanks, FS_Subset
<1>3. PICK m \in TimedOut : \A d \in TimedOut : m <= d
  BY <1>2, Least
<1> QED
  BY <1>3 DEF Min

(* The constructor's blocks are on special directories.                    *)
LEMMA BlocksInitially == BlocksInit => BlocksTypeOK
<1> SUFFICES ASSUME BlocksInit PROVE BlocksTypeOK
  OBVIOUS
<1>1. BlocksOf(m_NoWatchPaths)
  <2>1. PICK left \in Expired..Forever : m_NoWatchPaths = [d \in SpecialDirs |-> left]
    BY DEF BlocksInit
  <2>2. left \in TimesLeft
    <3>1. left \in Int /\ -1 <= left /\ left <= Forever
      BY <2>1, Times DEF Expired
    <3>2. Forever <= Max({DefaultTimeout, Forever} \cup ShortTimeouts)
      BY LongestTime
    <3>3. left = -1 \/ left \in 0..Max({DefaultTimeout, Forever} \cup ShortTimeouts)
      BY <3>1, <3>2, LongestTime, Times
    <3> QED
      BY <3>3 DEF TimesLeft, Expired
  <2> QED
    BY <2>1, <2>2, DirsAreRanks DEF BlocksOf
<1>2. /\ hasDb \subseteq WCDirs /\ unblocking \in WCDirs \cup {NoDir}
      /\ crawlerRuns \in {"waiting", "looping", "popping"} /\ m_hWakeEvent \in BOOLEAN
      /\ crawl \subseteq Dirs
  BY DEF BlocksInit
<1>3. blocks \in 0..MaxBlocks
  BY Times DEF BlocksInit
<1> QED
  BY <1>1, <1>2, <1>3 DEF BlocksOf, TimesLeft, BlocksTypeOK

(* Every operation on the blocks keeps their type.                         *)
LEMMA BlocksInductive == BlocksTypeOK /\ [BlocksNext]_blocksVars => BlocksTypeOK'
<1> SUFFICES ASSUME BlocksTypeOK, [BlocksNext]_blocksVars PROVE BlocksTypeOK'
  OBVIOUS
<1>t. /\ BlocksOf(m_NoWatchPaths) /\ hasDb \subseteq WCDirs /\ unblocking \in WCDirs \cup {NoDir}
      /\ crawlerRuns \in {"waiting", "looping", "popping"} /\ m_hWakeEvent \in BOOLEAN
      /\ crawl \subseteq Dirs /\ blocks \in 0..MaxBlocks
  BY DEF BlocksTypeOK, BlocksOf, TimesLeft
<1>g. /\ BlocksOf(m_NoWatchPaths') /\ hasDb' \subseteq WCDirs
      /\ unblocking' \in WCDirs \cup {NoDir}
      /\ crawlerRuns' \in {"waiting", "looping", "popping"}
      /\ m_hWakeEvent' \in BOOLEAN
      /\ crawl' \subseteq Dirs /\ blocks' \in 0..MaxBlocks
      => BlocksTypeOK'
  BY DEF BlocksTypeOK, BlocksOf, TimesLeft
<1>a. ASSUME NEW noWatch, NEW d \in Dirs, AddFolderForCrawling(noWatch, d)
      PROVE  crawl' \subseteq Dirs /\ m_hWakeEvent' \in BOOLEAN
  BY <1>t, <1>a DEF AddFolderForCrawling, GoodIn
<1>b. ASSUME NEW d \in Dirs, NEW time \in TimesLeft, SetBlock(d, time)
      PROVE  BlocksOf(m_NoWatchPaths') /\ blocks' \in 0..MaxBlocks
  <2>1. BlocksOf(m_NoWatchPaths')
    BY <1>t, <1>b DEF SetBlock, BlocksOf
  <2>2. blocks' \in 0..MaxBlocks
    BY <1>t, <1>b, Times DEF SetBlock
  <2> QED
    BY <2>1, <2>2
<1>1. CASE CrawlerWakes
  BY <1>1, <1>t, <1>g DEF CrawlerWakes
<1>2. CASE CrawlerLoops
  <2>1. /\ crawlerRuns' = "popping" /\ UNCHANGED <<hasDb, unblocking, blocks>>
    BY <1>2 DEF CrawlerLoops
  <2>2. BlocksOf(m_NoWatchPaths') /\ crawl' \subseteq Dirs /\ m_hWakeEvent' \in BOOLEAN
    <3>1. CASE TimedOut = {}
      BY <1>2, <1>t, <3>1 DEF CrawlerLoops, RemoveTimedoutBlocks
    <3>2. CASE TimedOut # {}
      <4> DEFINE d == Min(TimedOut)
      <4>1. d \in Dirs
        BY <1>t, <3>2, FirstTimedOut DEF TimedOut, BlocksOf
      <4>2. /\ m_NoWatchPaths' = Without(m_NoWatchPaths, {WCRoot(d), d})
            /\ AddFolderForCrawling(m_NoWatchPaths', d)
        BY <1>2, <3>2 DEF CrawlerLoops, RemoveTimedoutBlocks
      <4> HIDE DEF d
      <4> QED
        BY <1>a, <1>t, <4>1, <4>2, FewerBlocks
    <3> QED
      BY <3>1, <3>2
  <2> QED
    BY <1>t, <2>1, <2>2, <1>g
<1>3. CASE CrawlerPops
  BY <1>3, <1>t, <1>g DEF CrawlerPops
<1>4. CASE Tick
  <2>1. BlocksOf(m_NoWatchPaths')
    <3>1. ASSUME NEW time \in TimesLeft, time # Expired PROVE time - 1 \in TimesLeft
      BY <3>1, LongestTime DEF TimesLeft, Expired
    <3>2. Expired \in TimesLeft
      BY DEF TimesLeft
    <3> QED
      BY <1>4, <1>t, <3>1, <3>2 DEF Tick, BlocksOf
  <2> QED
    BY <1>4, <1>t, <2>1, <1>g DEF Tick
<1>5. CASE UnblockCommandEnd
  <2>1. unblocking \in Dirs
    BY <1>5, <1>t, DirsAreRanks DEF UnblockCommandEnd
  <2>2. /\ m_NoWatchPaths' = Without(m_NoWatchPaths, {unblocking})
        /\ AddFolderForCrawling(m_NoWatchPaths', unblocking)
        /\ unblocking' = NoDir /\ UNCHANGED <<hasDb, crawlerRuns, blocks>>
    BY <1>5 DEF UnblockCommandEnd
  <2> QED
    BY <1>a, <1>t, <2>1, <2>2, <1>g, FewerBlocks
<1>6. ASSUME NEW d \in WCDirs, BlockCommand(d) PROVE BlocksTypeOK'
  <2>1. (IF WCRoot(d) = NoDir THEN d ELSE WCRoot(d)) \in Dirs
    BY DirsAreRanks, RootFacts, ChainFacts
  <2>2. DefaultTimeout \in TimesLeft
    BY LongestTime, Times DEF TimesLeft
  <2>3. SetBlock(IF WCRoot(d) = NoDir THEN d ELSE WCRoot(d), DefaultTimeout)
    BY <1>6 DEF BlockCommand
  <2>4. UNCHANGED <<hasDb, unblocking, crawlerRuns, m_hWakeEvent, crawl>>
    BY <2>3 DEF SetBlock
  <2> QED
    BY <1>b, <1>t, <2>1, <2>2, <2>3, <2>4, <1>g
<1>7. ASSUME NEW d \in WCDirs, UnblockCommand(d) PROVE BlocksTypeOK'
  BY <1>7, <1>t, <1>g, FewerBlocks DEF UnblockCommand
<1>8. ASSUME NEW d \in WCDirs, DiskChanges(d) PROVE BlocksTypeOK'
  BY <1>8, <1>t, <1>g DEF DiskChanges
<1>9. ASSUME NEW d \in WCDirs, NEW timeout \in ShortTimeouts, BlockSpecific(d, timeout)
      PROVE  BlocksTypeOK'
  <2>1. timeout \in TimesLeft /\ d \in Dirs
    BY LongestTime, Times, DirsAreRanks DEF TimesLeft
  <2>2. SetBlock(d, timeout) /\ UNCHANGED <<hasDb, unblocking, crawlerRuns, m_hWakeEvent, crawl>>
    BY <1>9 DEF BlockSpecific, SetBlock
  <2> QED
    BY <1>b, <1>t, <2>1, <2>2, <1>g
<1>10. ASSUME NEW d \in Dirs, RequestCrawl(d) PROVE BlocksTypeOK'
  BY <1>10, <1>a, <1>t, <1>g DEF RequestCrawl
<1>11. CASE UNCHANGED blocksVars
  BY <1>11, <1>t, <1>g
<1> QED
  BY <1>1, <1>2, <1>3, <1>4, <1>5, <1>6, <1>7, <1>8, <1>9, <1>10, <1>11 DEF BlocksNext, Crawler


(* Blocks are on directories, for one of the times the code gives them.    *)
THEOREM BlocksTyped == BlocksSpec => []BlocksTypeOK
<1> QED
  BY BlocksInitially, BlocksInductive, PTL DEF BlocksSpec

(* RemoveTimedoutBlocks removes the first entry that has timed out, and    *)
(* with it at most a root above that, which cannot have timed out: it      *)
(* would have come first.                                                  *)
LEMMA CrawlStep ==
  ASSUME BlocksTypeOK, [BlocksNext]_blocksVars,
         NEW d \in TimedOut, crawlerRuns = "looping", crawlerRuns' = "popping",
         d \notin DOMAIN m_NoWatchPaths'
  PROVE  d \in crawl' \/ ~GoodIn(m_NoWatchPaths', d)
<1>1. BlocksOf(m_NoWatchPaths)
  BY DEF BlocksTypeOK, BlocksOf, TimesLeft
<1>2. CrawlerLoops
  BY DEF BlocksNext, Crawler, CrawlerWakes, CrawlerPops, Tick, UnblockCommandEnd, BlockCommand,
         BlockSpecific, SetBlock, UnblockCommand, DiskChanges, RequestCrawl
<1> DEFINE first == Min(TimedOut)
<1>3. first \in TimedOut /\ first <= d
  BY <1>1, FirstTimedOut
<1>4. /\ m_NoWatchPaths' = Without(m_NoWatchPaths, {WCRoot(first), first})
      /\ AddFolderForCrawling(m_NoWatchPaths', first)
  BY <1>2 DEF CrawlerLoops, RemoveTimedoutBlocks
<1> HIDE DEF first
<1>5. d \in {WCRoot(first), first}
  BY <1>1, <1>4, FewerBlocks DEF TimedOut
<1>6. d = first
  <2> SUFFICES ASSUME d = WCRoot(first) PROVE d = first
    BY <1>5
  <2>1. first \in Dirs /\ d \in Dirs /\ first \in Int /\ d \in Int
    BY <1>1, <1>3, DirsAreRanks DEF TimedOut, BlocksOf
  <2>2. d \in Chain[first]
    BY <2>1, RootFacts, DirsAreRanks
  <2> QED
    BY <1>3, <2>1, <2>2, ChainFacts
<1> QED
  BY <1>4, <1>6 DEF AddFolderForCrawling

(* A block that times out with others, or below another root, is not lost: *)
(* whichever block is removed with it, the directory is queued or another  *)
(* block still covers it.                                                  *)
THEOREM CrawledAfterTimeout == BlocksSpec => CrawlAfterTimeout
<1>1. BlocksTypeOK /\ [BlocksNext]_blocksVars =>
        [\A d \in TimedOut :
           crawlerRuns = "looping" /\ crawlerRuns' = "popping"
             /\ d \notin DOMAIN m_NoWatchPaths' =>
           d \in crawl' \/ ~GoodIn(m_NoWatchPaths', d)]_blocksVars
  BY CrawlStep
<1> QED
  BY <1>1, BlocksTyped, PTL DEF BlocksSpec, CrawlAfterTimeout

=============================================================================
