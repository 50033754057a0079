----------------------------- MODULE CacheProcess -----------------------------
(***************************************************************************)
(* TSVNCache.exe from start to end, and started again: Create, Init, the   *)
(* window's messages, Stop, SaveCache and Destroy (TSVNCache.cpp,          *)
(* SVNStatusCache.cpp), with the threads that are stopped, the pipe        *)
(* threads that nobody stops, the guard they share and the cache file,     *)
(* which may be damaged and whose reading may crash the process.           *)
(*                                                                         *)
(* Of what the threads do with the cache only the sections under the guard *)
(* are left (see DirectoryCache); one in which the guard is upgraded       *)
(* counts as two.                                                          *)
(***************************************************************************)
EXTENDS Naturals, Sequences, FiniteSets

CONSTANTS
  Main,           \* the thread of WinMain and of the hidden window
  Askers,         \* InstanceThreads
  Commanders,     \* CommandThreads
  MaxStarts,      \* bound on the starts of the process
  MaxFaults       \* bound on the times something goes wrong with a file

Workers == {"watcher", "crawler", "updater"}
Clients == Askers \cup Commanders
Threads == {Main, "crawler"} \cup Clients

ASSUME ThreadsDiffer ==
  Main \notin Workers \cup Clients /\ Workers \cap Clients = {} /\ Askers \cap Commanders = {}
ASSUME BoundsAreNumbers == MaxStarts \in Nat /\ MaxFaults \in Nat

VARIABLES
  main,               \* where the main thread is
  after,              \* what it goes on with when Stop is through
  toStop,             \* the workers Stop still has to stop
  bRun,
  sessionEnding,      \* WM_ENDSESSION will follow
  m_pInstance,        \* there is an instance
  loaded,             \* its directories are the ones of the file
  running,            \* the workers whose m_bRun or m_bRunning is set
  open,               \* the workers whose handles are not closed
  thread,             \* where the workers and clients are
  readers, writers, queued,   \* m_guard
  path, path2,        \* the cache file and the copy that is read
  kept,               \* history: the last end saved the cache, nothing happened to it since
  gaveUp,             \* history: the workers Stop did not wait for to the end
  crashes,            \* history: crashes from reading the file
  faults, starts      \* for the bounds

fileVars == <<path, path2>>
guardVars == <<readers, writers, queued>>
stopVars == <<after, toStop, running, open, gaveUp>>
history == <<kept, crashes, faults, starts>>
vars == <<main, stopVars, bRun, sessionEnding, m_pInstance, loaded, thread, guardVars,
          fileVars, history>>

m_guard == INSTANCE AbstractRWLock

(* No process, and no cache file yet or one from before.                   *)
Init ==
  /\ main = "exited" /\ after = "none" /\ toStop = << >>
  /\ bRun = TRUE /\ sessionEnding = FALSE
  /\ m_pInstance = FALSE /\ loaded = FALSE
  /\ running = {} /\ open = {} /\ gaveUp = {}
  /\ thread = [t \in Workers \cup Clients |-> "none"]
  /\ m_guard!Init
  /\ path \in {"none", "whole"} /\ path2 = "none"
  /\ kept = (path = "whole")
  /\ crashes = 0 /\ faults = 0 /\ starts = 0

(* The process is gone, and all of it that is not a file.                  *)
ProcessEnds ==
  /\ main' = "exited" /\ after' = "none" /\ toStop' = << >>
  /\ bRun' = TRUE /\ sessionEnding' = FALSE
  /\ m_pInstance' = FALSE /\ loaded' = FALSE
  /\ running' = {} /\ open' = {} /\ gaveUp' = {}
  /\ thread' = [t \in Workers \cup Clients |-> "none"]
  /\ readers' = {} /\ writers' = {} /\ queued' = {}

Fault == faults < MaxFaults /\ faults' = faults + 1

-----------------------------------------------------------------------------
(* Create *)

StartUnchanged == <<after, toStop, bRun, sessionEnding, gaveUp, guardVars>>

(* The constructor starts the watcher; DeleteFile(path2).                  *)
Start ==
  /\ main = "exited" /\ starts < MaxStarts
  /\ starts' = starts + 1
  /\ main' = "copy"
  /\ m_pInstance' = TRUE
  /\ running' = {"watcher"} /\ open' = Workers
  /\ thread' = [thread EXCEPT !["watcher"] = "idle"]
  /\ \/ path2' = "none" /\ UNCHANGED faults
     \/ path2 # "none" /\ Fault /\ UNCHANGED path2
  /\ UNCHANGED <<StartUnchanged, loaded, path, kept, crashes>>

(* CopyFile: under way, done, or failed.                                   *)
CopyBegins ==
  /\ main = "copy" /\ path # "none"
  /\ path2' = "part" /\ main' = "copying"
  /\ UNCHANGED <<StartUnchanged, m_pInstance, loaded, running, open, thread, path, history>>

CopyEnds ==
  /\ main = "copying"
  /\ path2' = path /\ main' = "erase"
  /\ UNCHANGED <<StartUnchanged, m_pInstance, loaded, running, open, thread, path, history>>

CopyFails ==
  /\ main = "copy"
  /\ IF path = "none" THEN UNCHANGED <<faults, kept>> ELSE Fault /\ kept' = FALSE
  /\ main' = "erase"
  /\ UNCHANGED <<StartUnchanged, m_pInstance, loaded, running, open, thread, fileVars,
                 crashes, starts>>

(* Fault: the original stays until the cache is saved again.               *)
DeleteOriginal_Not ==
  /\ main = "erase"
  /\ main' = "read"
  /\ UNCHANGED <<StartUnchanged, m_pInstance, loaded, running, open, thread, fileVars, history>>

(* DeleteFile(path), which fails if another process has the file open.     *)
DeleteOriginal ==
  /\ main = "erase"
  /\ \/ path' = "none" /\ UNCHANGED faults
     \/ path # "none" /\ Fault /\ UNCHANGED path
  /\ main' = "read"
  /\ UNCHANGED <<StartUnchanged, m_pInstance, loaded, running, open, thread, path2, kept,
                 crashes, starts>>

(* The copy is read and removed: a file that is not there, or ends before  *)
(* the number of directories, makes an empty cache.                        *)
ReadNothing ==
  /\ main = "read" /\ path2 \in {"none", "part"}
  /\ path2' = "none" /\ main' = "init"
  /\ UNCHANGED <<StartUnchanged, m_pInstance, loaded, running, open, thread, path, history>>

ReadAll ==
  /\ main = "read" /\ path2 \in {"whole", "corrupt"}
  /\ loaded' = TRUE
  /\ path2' = "none" /\ main' = "init"
  /\ UNCHANGED <<StartUnchanged, m_pInstance, running, open, thread, path, history>>

(* Fault: the end of the file is taken for the end of the directories.     *)
ReadError_Kept ==
  /\ main = "read" /\ path2 \in {"part", "foreign", "corrupt"}
  /\ loaded' = (path2 = "part")
  /\ path2' = "none" /\ main' = "init"
  /\ UNCHANGED <<StartUnchanged, m_pInstance, running, open, thread, path, history>>

(* Another version, something impossible, or the end too early: Destroy,   *)
(* and another instance, whose watcher has no crawler to report to.        *)
ReadError ==
  /\ main = "read" /\ path2 \in {"part", "foreign", "corrupt"}
  /\ loaded' = FALSE
  /\ path2' = "none" /\ main' = "init"
  /\ UNCHANGED <<StartUnchanged, m_pInstance, running, open, thread, path, history>>

(* "in case the cache file is corrupt, we could crash while reading it"    *)
(* (SVNStatusCache.cpp:75)                                                 *)
ReadCrash ==
  /\ main = "read" /\ path2 = "corrupt"
  /\ crashes' = crashes + 1
  /\ kept' = FALSE
  /\ ProcessEnds
  /\ UNCHANGED <<fileVars, faults, starts>>

(* CSVNStatusCache::Init; the pipe threads are there for their clients.    *)
InitThreads ==
  /\ main = "init"
  /\ running' = Workers
  /\ thread' = [t \in Workers \cup Clients |-> IF t \in Workers THEN "idle" ELSE "reading"]
  /\ kept' = FALSE
  /\ main' = "loop"
  /\ UNCHANGED <<StartUnchanged, m_pInstance, loaded, open, fileVars, crashes, faults, starts>>

(* CommandWaitThread cannot be made (TSVNCache.cpp:165): no loop.          *)
NoCommands ==
  /\ main = "loop" /\ bRun
  /\ \A c \in Commanders : thread[c] = "reading"
  /\ bRun' = FALSE
  /\ main' = "destroy"
  /\ UNCHANGED <<after, toStop, sessionEnding, gaveUp, guardVars, m_pInstance, loaded, running,
                 open, thread, fileVars, history>>

Create ==
  \/ NoCommands
  \/ CopyBegins \/ CopyEnds \/ CopyFails \/ DeleteOriginal
  \/ ReadNothing \/ ReadAll \/ ReadError \/ ReadCrash \/ InitThreads

-----------------------------------------------------------------------------
(* Messages *)

MessageUnchanged ==
  <<running, open, gaveUp, m_pInstance, loaded, thread, fileVars, history>>

(* WM_CLOSE, WM_DESTROY and WM_ENDSESSION                                  *)
Close ==
  /\ main = "loop" /\ (bRun \/ sessionEnding)
  /\ bRun' = FALSE
  /\ after' = "save" /\ main' = "lock"
  /\ UNCHANGED <<MessageUnchanged, toStop, sessionEnding, guardVars>>

QueryEndSession ==
  /\ main = "loop" /\ bRun
  /\ bRun' = FALSE /\ sessionEnding' = TRUE
  /\ after' = "unlock" /\ main' = "lock"
  /\ UNCHANGED <<MessageUnchanged, toStop, guardVars>>

(* GetMessage returns with a message from the queue, and bRun is tested.   *)
OtherMessage ==
  /\ main = "loop" /\ ~bRun
  /\ main' = "destroy"
  /\ UNCHANGED <<MessageUnchanged, after, toStop, bRun, sessionEnding, guardVars>>

ToStop == <<"watcher", "crawler", "updater">>
BeginStop == main' = "stop" /\ toStop' = ToStop

(* CAutoWriteLock, and CAutoWriteWeakLock with 200 ms.                     *)
LockGuard ==
  /\ main = "lock" /\ Main \notin queued
  /\ IF readers = {} /\ writers = {} /\ queued = {}
     THEN m_guard!BecomeWriter(Main) /\ BeginStop
     ELSE m_guard!Enqueue(Main) /\ UNCHANGED <<main, toStop>>
  /\ UNCHANGED <<MessageUnchanged, after, bRun, sessionEnding>>

GuardGranted ==
  /\ main = "lock" /\ Main \in queued
  /\ m_guard!BecomeWriter(Main)
  /\ BeginStop
  /\ UNCHANGED <<MessageUnchanged, after, bRun, sessionEnding>>

GuardTimesOut ==
  /\ main = "lock" /\ after = "unlock"
  /\ m_guard!GiveUp(Main)
  /\ BeginStop
  /\ UNCHANGED <<MessageUnchanged, after, bRun, sessionEnding>>

(* The end of the message; after WM_CLOSE the loop ends, too.              *)
UnlockGuard ==
  /\ main = "unlock"
  /\ writers' = writers \ {Main}
  /\ main' = IF after = "unlock" THEN "loop" ELSE "destroy"
  /\ UNCHANGED <<MessageUnchanged, after, toStop, bRun, sessionEnding, readers, queued>>

-----------------------------------------------------------------------------
(* Stop: of each worker in turn                                            *)

StopUnchanged ==
  <<after, bRun, sessionEnding, m_pInstance, loaded, thread, guardVars, fileVars, history>>

(* A worker whose handles are closed is not waited for again.              *)
StopNext ==
  /\ main = "stop" /\ toStop # << >>
  /\ running' = running \ {Head(toStop)}
  /\ IF Head(toStop) \in open
     THEN main' = "wait" /\ UNCHANGED toStop
     ELSE main' = "stop" /\ toStop' = Tail(toStop)
  /\ UNCHANGED <<StopUnchanged, open, gaveUp>>

(* Fault: the wait has no time-out.                                        *)
StopWait_Infinite ==
  /\ main = "wait" /\ thread[Head(toStop)] = "done"
  /\ open' = open \ {Head(toStop)}
  /\ toStop' = Tail(toStop) /\ main' = "stop"
  /\ UNCHANGED <<StopUnchanged, running, gaveUp>>

(* The worker has ended, or the time is up; the handles are closed.        *)
StopWait ==
  /\ main = "wait"
  /\ \/ thread[Head(toStop)] = "done" /\ UNCHANGED gaveUp
     \/ thread[Head(toStop)] # "done" /\ gaveUp' = gaveUp \cup {Head(toStop)}
  /\ open' = open \ {Head(toStop)}
  /\ toStop' = Tail(toStop) /\ main' = "stop"
  /\ UNCHANGED <<StopUnchanged, running>>

StopEnds ==
  /\ main = "stop" /\ toStop = << >>
  /\ main' = after
  /\ UNCHANGED <<StopUnchanged, toStop, running, open, gaveUp>>

-----------------------------------------------------------------------------
(* SaveCache *)

SaveUnchanged == <<toStop, running, open, gaveUp, bRun, sessionEnding, loaded, thread,
                   guardVars, path2>>

SaveBegins ==
  /\ main = "save"
  /\ \/ path' = "part" /\ main' = "saving" /\ UNCHANGED faults
     \/ Fault /\ main' = "unlock" /\ UNCHANGED path      \* _tfopen_s fails
  /\ UNCHANGED <<SaveUnchanged, after, m_pInstance, kept, crashes, starts>>

SaveEnds ==
  /\ main = "saving"
  /\ path' = "whole" /\ kept' = TRUE
  /\ main' = "unlock"
  /\ UNCHANGED <<SaveUnchanged, after, m_pInstance, crashes, faults, starts>>

(* A write fails: the instance is destroyed from within, under its guard,  *)
(* which is released all the same at the end of the message.               *)
SaveFails ==
  /\ main = "saving" /\ Fault
  /\ after' = "discard" /\ main' = "stop"
  /\ UNCHANGED <<SaveUnchanged, m_pInstance, path, kept, crashes, starts>>

Discard ==
  /\ main = "discard"
  /\ m_pInstance' = FALSE
  /\ path' = "none"
  /\ main' = "unlock"
  /\ UNCHANGED <<SaveUnchanged, after, history>>

-----------------------------------------------------------------------------
(* Destroy, at the end of WinMain                                          *)

Destroy ==
  /\ main = "destroy"
  /\ after' = "delete"
  /\ IF m_pInstance THEN BeginStop ELSE main' = "leave" /\ UNCHANGED toStop
  /\ UNCHANGED <<MessageUnchanged, bRun, sessionEnding, guardVars>>

(* Some time after Sleep(100).                                             *)
Delete ==
  /\ main = "delete"
  /\ m_pInstance' = FALSE
  /\ main' = "leave"
  /\ UNCHANGED <<stopVars, bRun, sessionEnding, loaded, thread, guardVars, fileVars, history>>

Leave == main = "leave" /\ ProcessEnds /\ UNCHANGED <<fileVars, history>>

Ending ==
  \/ LockGuard \/ GuardTimesOut \/ UnlockGuard
  \/ StopNext \/ StopWait \/ StopEnds
  \/ SaveBegins \/ SaveEnds \/ SaveFails \/ Discard \/ Destroy \/ Delete \/ Leave

-----------------------------------------------------------------------------
(* The other threads.  What they do when the instance is gone is undefined *)
(* and left out.                                                           *)

OtherUnchanged ==
  <<main, stopVars, bRun, sessionEnding, m_pInstance, loaded, fileVars, history>>
Goes(t, step) == thread' = [thread EXCEPT ![t] = step]

(* A worker wakes up and tests whether it shall go on.  It needs the guard *)
(* for its work if it is the crawler.                                      *)
Work(w) ==
  /\ thread[w] = "idle" /\ m_pInstance
  /\ IF w \in running THEN w = "crawler" /\ Goes(w, "ask") ELSE Goes(w, "done")
  /\ UNCHANGED <<OtherUnchanged, guardVars>>

(* ReadFile returns with a request or a command.                           *)
Request(c) ==
  /\ thread[c] = "reading" /\ m_pInstance
  /\ Goes(c, "ask")
  /\ UNCHANGED <<OtherUnchanged, guardVars>>

ReadLock(t) ==
  /\ thread[t] = "ask" /\ m_pInstance /\ t \notin Commanders \cup queued
  /\ m_guard!JoinReaders(t)
  /\ Goes(t, "inside")
  /\ UNCHANGED OtherUnchanged

WriteLock(t) ==
  /\ thread[t] = "ask" /\ m_pInstance /\ t \notin Askers \cup queued
  /\ IF readers = {} /\ writers = {} /\ queued = {}
     THEN m_guard!BecomeWriter(t) /\ Goes(t, "inside")
     ELSE m_guard!Enqueue(t) /\ UNCHANGED thread
  /\ UNCHANGED OtherUnchanged

WriteLockGranted(t) ==
  /\ thread[t] = "ask" /\ m_pInstance /\ t \in queued
  /\ m_guard!BecomeWriter(t)
  /\ Goes(t, "inside")
  /\ UNCHANGED OtherUnchanged

AfterSection(t) == IF t = "crawler" THEN "idle" ELSE IF bRun THEN "reading" ELSE "done"

(* CAutoReadWeakLock with 2 s: an empty answer.                            *)
ReadLockTimesOut(t) ==
  /\ thread[t] = "ask" /\ m_pInstance /\ t \in Askers
  /\ Goes(t, AfterSection(t))
  /\ UNCHANGED <<OtherUnchanged, guardVars>>

Release(t) ==
  /\ thread[t] = "inside" /\ m_pInstance
  /\ IF t \in writers THEN m_guard!ReleaseWriter(t) ELSE m_guard!LeaveReaders(t)
  /\ Goes(t, AfterSection(t))
  /\ UNCHANGED OtherUnchanged

Section(t) ==
  ReadLock(t) \/ WriteLock(t) \/ WriteLockGranted(t) \/ ReadLockTimesOut(t) \/ Release(t)

-----------------------------------------------------------------------------
(* The process crashes, is killed or ends because a window or a thread     *)
(* cannot be made.  Once the file is deleted its contents are lost.        *)
Crash ==
  /\ main # "exited"
  /\ kept' = (kept /\ main \notin {"read", "init"})
  /\ ProcessEnds
  /\ UNCHANGED <<fileVars, crashes, faults, starts>>

(* Something else writes to the file, or another version takes over.       *)
Damage ==
  /\ path = "whole" /\ main = "exited" /\ Fault
  /\ path' \in {"corrupt", "foreign"}
  /\ kept' = FALSE
  /\ UNCHANGED <<main, stopVars, bRun, sessionEnding, m_pInstance, loaded, thread, guardVars,
                 path2, crashes, starts>>

Next ==
  \/ Start \/ Create \/ Close \/ QueryEndSession \/ OtherMessage
  \/ Ending \/ GuardGranted \/ Crash \/ Damage
  \/ \E w \in Workers : Work(w)
  \/ \E t \in Threads \ {Main} : Section(t)
  \/ \E c \in Clients : Request(c)

Spec == Init /\ [][Next]_vars

(* Every thread runs on, WM_ENDSESSION follows, and a queued writer gets   *)
(* in, as WriterProgress of ReaderWriterLock says.  The workers need not   *)
(* end: the time-outs do without.                                          *)
FairSpec ==
  /\ Spec
  /\ WF_vars(Ending) /\ WF_vars(sessionEnding /\ Close) /\ SF_vars(GuardGranted)
  /\ \A t \in Threads \ {Main} : WF_vars(Section(t))

-----------------------------------------------------------------------------
Contents == {"none", "part", "whole", "foreign", "corrupt"}

TypeOK ==
  /\ main \in {"exited", "copy", "copying", "erase", "read", "init", "loop", "lock", "stop",
               "wait", "save", "saving", "discard", "unlock", "destroy", "delete", "leave"}
  /\ after \in {"none", "save", "unlock", "discard", "delete"}
  /\ toStop \in {ToStop, <<"crawler", "updater">>, <<"updater">>, << >>}
  /\ bRun \in BOOLEAN /\ sessionEnding \in BOOLEAN
  /\ m_pInstance \in BOOLEAN /\ loaded \in BOOLEAN /\ kept \in BOOLEAN
  /\ running \cup open \cup gaveUp \subseteq Workers
  /\ thread \in [Workers \cup Clients ->
                   {"none", "idle", "reading", "ask", "inside", "done"}]
  /\ readers \cup writers \cup queued \subseteq Threads
  /\ path \in Contents /\ path2 \in Contents
  /\ crashes \in Nat /\ faults \in 0..MaxFaults /\ starts \in 0..MaxStarts

(* ATLASSERT(m_pInstance != NULL) (SVNStatusCache.cpp:47): when the        *)
(* instance is deleted every worker has ended but those Stop gave up       *)
(* waiting for, however often Stop was called and whatever ended the       *)
(* process; and the window's thread holds no lock of it, unless it finds   *)
(* in the middle of SaveCache that it cannot write.  (Nobody waits for the *)
(* pipe threads, of which nothing is claimed.)                             *)
UsedWhileThere ==
  ~m_pInstance =>
    /\ \A w \in Workers : thread[w] \in {"none", "done"} \/ w \in gaveUp
    /\ Main \in writers => after = "discard"

(* "if that copy is corrupt, the original file won't exist anymore and the *)
(* second time we start up [...] we start from scratch without a crash"    *)
(* (SVNStatusCache.cpp:79-81): there is at most one crash for each time    *)
(* that something happened to the file, wherever else the process ends.    *)
CrashesOnce == crashes <= faults

(* A cache that was saved is loaded at the next start, also if starts that *)
(* crashed before they deleted the file lie in between; what was not saved *)
(* to the end is not, unless something happened to the file.               *)
LoadsWhatWasSaved ==
  /\ kept /\ main = "exited" => path = "whole"
  /\ kept /\ main = "init" => loaded
  /\ main = "init" /\ loaded => kept \/ faults > 0

ProcessInv == TypeOK /\ UsedWhileThere /\ CrashesOnce /\ LoadsWhatWasSaved

(* Whatever the threads do, and although the crawler may need the guard    *)
(* that the window's thread holds while it waits for the crawler, the      *)
(* process ends once it is told to.                                        *)
ShutdownEnds == ~bRun ~> main = "exited"

=============================================================================
