--------------------------- MODULE DirectoryWatcher ---------------------------
(***************************************************************************)
(* CDirectoryWatcher (src/src/TSVNCache/DirectoryWatcher.cpp): one worker  *)
(* thread waits at a completion port for changes below the watched paths;  *)
(* the crawler thread adds paths, the window thread closes handles and     *)
(* stops the worker.  A path is watched by a CDirWatchInfo, which owns the *)
(* directory handle and the buffer of a pending ReadDirectoryChangesW.     *)
(*                                                                         *)
(* m_critSec is held from one step of the worker to the next only in its   *)
(* rebuilding loop (pc = "loop"); all else under it is one step.           *)
(***************************************************************************)
EXTENDS Ordered, SequencesExt, FiniteSetsExt

CONSTANTS
  Dirs,           \* directories of one drive, as ranks in CTSVNPath's order
  NoDir,          \* the empty path
  Parent,         \* Dirs -> Dirs \cup {NoDir}
  Continues,      \* pairs <<d, e>> of siblings: e's name starts with d's name
  Versioned,      \* the directories for which SVNHelper::IsVersioned holds
  MaxAdds, MaxCloses, MaxChanges, MaxFails \* bounds on what happens outside

ASSUME DirsAreRanks == Dirs \subseteq Int /\ IsFiniteSet(Dirs) /\ NoDir \in Int \ Dirs
ASSUME VersionedAssumption == Versioned \subseteq Dirs
ASSUME ParentIsTree ==
  /\ Parent \in [Dirs -> Dirs \cup {NoDir}]
  /\ \A d \in Dirs : Parent[d] # NoDir => Parent[d] < d
ASSUME ContinuesSiblings ==
  \A c \in Continues : c[1] \in Dirs /\ c[2] \in Dirs /\ Parent[c[1]] = Parent[c[2]] /\ c[1] < c[2]

Slots == 1..(Cardinality(Dirs) + 1)      \* memory for watch infos
None == 0

VARIABLES
  m_bRunning, m_bCleaned,
  m_FolderCrawler, \* the crawler is set
  port,            \* m_hCompPort is open
  packets,         \* the infos whose completion is queued at the port
  watchedPaths,
  watchInfoMap,    \* the infos that are in the map
  infoToDelete,
  info,            \* slot -> watch info
  blockedPath,     \* NoDir once blockTickCount has passed
  pc, pdi, notifyPaths, \* the worker
  rebuild,         \* the worker's rebuilding loop: index and what it remembers
  adding,          \* the path of the crawler's AddPath between check and lock
  window,          \* the window thread
  excused,         \* history: why not all paths are watched ("" if they must be)
  outside          \* how many events of each kind there may still be

workerVars == <<pc, pdi, notifyPaths, rebuild>>
ioVars == <<port, packets, info>>
flagVars == <<m_bRunning, m_bCleaned, m_FolderCrawler>>
listVars == <<watchInfoMap, infoToDelete>>
vars == <<flagVars, ioVars, watchedPaths, listVars, blockedPath, workerVars,
          adding, window, excused, outside>>

Free == [dir |-> NoDir, open |-> FALSE, read |-> "none", buf |-> {}, pend |-> {}]

(* CSVNStatusCache::Create: the watcher exists, the main thread loads the   *)
(* cache.  After an error, which counts as a failure, the second instance   *)
(* gets no SetFolderCrawler.                                                *)
Init ==
  /\ m_bRunning = TRUE /\ m_bCleaned = FALSE
  /\ \E failed \in BOOLEAN :
       /\ m_FolderCrawler = ~failed
       /\ window = IF failed THEN "idle" ELSE "creating"
       /\ failed => MaxFails > 0
       /\ outside = [adds |-> MaxAdds, closes |-> MaxCloses, changes |-> MaxChanges,
                     fails |-> MaxFails - IF failed THEN 1 ELSE 0]
  /\ port = FALSE /\ packets = {}
  /\ watchedPaths = << >>
  /\ watchInfoMap = {} /\ infoToDelete = << >>
  /\ info = [s \in Slots |-> Free]
  /\ blockedPath = NoDir
  /\ pc = "top" /\ pdi = None /\ notifyPaths = {}
  /\ rebuild = [i |-> 1, paths |-> << >>, numWatch |-> 0]
  /\ adding = NoDir
  /\ excused = ""

Happens(kind) ==
  /\ outside[kind] > 0
  /\ outside' = [outside EXCEPT ![kind] = @ - 1]

-----------------------------------------------------------------------------
(* Paths *)

Chain[d \in Dirs] == {d} \cup IF Parent[d] = NoDir THEN {} ELSE Chain[Parent[d]]

IsAncestorOf(d, e) == d \in Chain[e]

Covered(paths, d) == \E i \in DOMAIN paths : IsAncestorOf(paths[i], d)

Drive(d) == Min(Chain[d])

(* The new root that AddPath derives from two path strings: the shorter one *)
(* if it is an ancestor of the other, or, where the strings part, the one   *)
(* that ends a name while the other goes on with it.                        *)
Ends(d, e) == {r \in Chain[d] \ {d} : \E s \in Chain[e] : <<r, s>> \in Continues}

NewRoot ==
  [path, watched \in Dirs |->
     IF IsAncestorOf(path, watched) THEN path
     ELSE LET roots == Ends(path, watched) \cup Ends(watched, path) IN
          IF roots = {} THEN NoDir ELSE Min(roots)]

(* CTSVNPathList::RemoveChildren sorts the list.                            *)
RemoveChildren(paths) ==
  InOrder({d \in ToSet(paths) : \A e \in ToSet(paths) \ {d} : ~IsAncestorOf(e, d)})

RemovePathAndChildren(paths, d) ==
  Selected(paths, {i \in DOMAIN paths : ~IsAncestorOf(d, paths[i])})

RemovePath(paths, d) == RemoveFirst(paths, d)

-----------------------------------------------------------------------------
(* Watch infos *)

IsArmed(s) == info[s].open /\ info[s].read = "armed"

(* CDirWatchInfo::CloseDirectoryHandle                                      *)
CloseDirectoryHandles(S) ==
  [s \in Slots |-> IF s \in S THEN [Free EXCEPT !.dir = info[s].dir] ELSE info[s]]

(* The port is closed and its queue gone.  A worker that waits at it may    *)
(* still get a packet that is there, or one of those that closing the       *)
(* handles of S sends.                                                      *)
ClosePortOfWorker(S) ==
  /\ port' = FALSE /\ packets' = {}
  /\ \/ UNCHANGED <<pc, pdi>>
     \/ /\ pc = "wait" /\ port
        /\ pdi' \in packets \cup {s \in S : IsArmed(s)}
        /\ pc' = "got"
  /\ UNCHANGED <<notifyPaths, rebuild>>

(* CloseWatchHandles of another thread than the worker.                     *)
CloseWatchHandles ==
  /\ info' = CloseDirectoryHandles(watchInfoMap)
  /\ ClosePortOfWorker(watchInfoMap)

ScheduleForDeletion(S) == infoToDelete' = infoToDelete \o InOrder(S)

(* Fault: CloseInfoMap leaves the pointers in the map.                      *)
TakeAll_Kept ==
  /\ ScheduleForDeletion(watchInfoMap)
  /\ UNCHANGED watchInfoMap

(* All infos leave the map.                                                 *)
TakeAll ==
  /\ ScheduleForDeletion(watchInfoMap)
  /\ watchInfoMap' = {}

(* CleanupWatchInfo.  A destructor that closes a handle with a pending read *)
(* sends the packet of that read if the port is still open.                 *)
CleanupWatchInfo ==
  LET gone == ToSet(infoToDelete) IN
  /\ m_bCleaned' = TRUE
  /\ infoToDelete' = << >>
  /\ info' = [s \in Slots |-> IF s \in gone THEN Free ELSE info[s]]
  /\ packets' = IF port THEN packets \cup {s \in gone : IsArmed(s)} ELSE packets

(* ClearInfoMap and CleanupWatchInfo under one lock.                        *)
ClearAndCleanup ==
  /\ port' = FALSE /\ packets' = {}
  /\ m_bCleaned' = TRUE
  /\ watchInfoMap' = {} /\ infoToDelete' = << >>
  /\ info' = [s \in Slots |->
                IF s \in watchInfoMap \cup ToSet(infoToDelete) THEN Free ELSE info[s]]

Locked == pc = "loop"

-----------------------------------------------------------------------------
(* WorkerThread *)

(* The loop's condition, the clean-up and the test for watched paths.       *)
Top ==
  /\ pc = "top"
  /\ IF m_bRunning
     THEN /\ CleanupWatchInfo
          /\ pc' = IF watchedPaths = << >> THEN "top" ELSE "get"
     ELSE pc' = "done" /\ UNCHANGED <<m_bCleaned, infoToDelete, info, packets>>
  /\ UNCHANGED <<m_bRunning, m_FolderCrawler, port, watchedPaths, watchInfoMap, blockedPath,
                 pdi, notifyPaths, rebuild, adding, window, excused, outside>>

Get ==
  /\ pc = "get"
  /\ pdi' = None
  /\ m_bCleaned' = FALSE
  /\ pc' = "wait"
  /\ UNCHANGED <<m_bRunning, m_FolderCrawler, ioVars, watchedPaths, listVars, blockedPath,
                 notifyPaths, rebuild, adding, window, excused, outside>>

(* GetQueuedCompletionStatus returns a packet.                              *)
GetPacket ==
  /\ pc = "wait" /\ port
  /\ \E s \in packets : pdi' = s /\ packets' = packets \ {s}
  /\ pc' = "got"
  /\ UNCHANGED <<flagVars, port, info, watchedPaths, listVars, blockedPath,
                 notifyPaths, rebuild, adding, window, excused, outside>>

(* "restarting watcher": all infos are given up and the list is rebuilt.    *)
Restart ==
  /\ IF m_bRunning
     THEN /\ ClearAndCleanup
          /\ rebuild' = [rebuild EXCEPT !.i = 1]
          /\ excused' = ""
          /\ pc' = "loop"
     ELSE pc' = "done" /\ UNCHANGED <<m_bCleaned, ioVars, listVars, rebuild, excused>>
  /\ UNCHANGED <<m_bRunning, m_FolderCrawler, watchedPaths, blockedPath, pdi, notifyPaths,
                 adding, window, outside>>

PortClosed == pc = "wait" /\ ~port /\ Restart

(* Fault: a wait that timed out is repeated.                                *)
TenMinutes_WaitAgain ==
  /\ pc = "wait" /\ port /\ packets = {}
  /\ pc' = "top"
  /\ UNCHANGED <<flagVars, ioVars, watchedPaths, listVars, blockedPath, pdi, notifyPaths,
                 rebuild, adding, window, excused, outside>>

(* Nothing happened for ten minutes.                                        *)
TenMinutes == pc = "wait" /\ port /\ packets = {} /\ Restart

(* One turn of the rebuilding loop up to the call that needs the window     *)
(* thread, for which the lock is released.                                  *)
OpenDirectory ==
  /\ pc = "loop"
  /\ IF rebuild.i > Len(watchedPaths)
     THEN pc' = "top" /\ UNCHANGED rebuild
     ELSE /\ pc' = "register"
          /\ rebuild' = [rebuild EXCEPT !.paths = watchedPaths, !.numWatch = Cardinality(watchInfoMap)]
  /\ UNCHANGED <<flagVars, ioVars, watchedPaths, listVars, blockedPath, pdi, notifyPaths,
                 adding, window, excused, outside>>

(* CreateFile fails: the path goes and the rest has to wait.                *)
OpenDirectoryFails ==
  /\ pc = "loop"
  /\ rebuild.i <= Len(watchedPaths)
  /\ Happens("fails")
  /\ watchedPaths' = RemovePath(watchedPaths, watchedPaths[rebuild.i])
  /\ excused' = "not opened"
  /\ pc' = "top"
  /\ UNCHANGED <<flagVars, ioVars, listVars, blockedPath, pdi, notifyPaths, rebuild,
                 adding, window>>

(* Fault: only the number of paths is compared.                             *)
SameSizes_PathsOnly == Len(rebuild.paths) = Len(watchedPaths)

SameSizes ==
  /\ Len(rebuild.paths) = Len(watchedPaths)
  /\ rebuild.numWatch = Cardinality(watchInfoMap)

(* Back from RegisterDeviceNotification with the lock.                      *)
Registered ==
  /\ pc = "register"
  /\ window # "stopping"      \* it sends a message to the window thread
  /\ IF SameSizes
     THEN LET s == Min({t \in Slots : info[t].dir = NoDir}) IN
          /\ info' = [info EXCEPT ![s] = [Free EXCEPT !.dir = rebuild.paths[rebuild.i],
                                                      !.open = TRUE, !.read = "armed"]]
          /\ port' = TRUE
          /\ watchInfoMap' = watchInfoMap \cup {s}
          /\ rebuild' = [rebuild EXCEPT !.i = @ + 1]
          /\ excused' = IF rebuild.paths = watchedPaths THEN excused ELSE "same size"
          /\ pc' = "loop"
          /\ UNCHANGED <<packets, infoToDelete, m_bCleaned>>
     ELSE /\ ClearAndCleanup
          /\ pc' = "top"
          /\ UNCHANGED <<rebuild, excused>>
  /\ UNCHANGED <<m_bRunning, m_FolderCrawler, watchedPaths, blockedPath, pdi, notifyPaths,
                 adding, window, outside>>

(* CreateIoCompletionPort or ReadDirectoryChangesW fails.                   *)
RegisteredFails ==
  /\ pc = "register"
  /\ window # "stopping"
  /\ SameSizes
  /\ Happens("fails")
  /\ ClearAndCleanup
  /\ watchedPaths' = RemovePath(watchedPaths, rebuild.paths[rebuild.i])
  /\ pc' = "top"
  /\ UNCHANGED <<m_bRunning, m_FolderCrawler, blockedPath, pdi, notifyPaths, rebuild,
                 adding, window, excused>>

(* Fault: a packet is processed although the map is empty.                  *)
Got_NoEmptyTest ==
  /\ pc = "got"
  /\ pc' = IF ~m_bRunning THEN "done" ELSE "process"
  /\ UNCHANGED <<flagVars, ioVars, watchedPaths, listVars, blockedPath, pdi, notifyPaths,
                 rebuild, adding, window, excused, outside>>

(* The tests without the lock.                                              *)
Got ==
  /\ pc = "got"
  /\ pc' = IF ~m_bRunning THEN "done" ELSE IF watchInfoMap = {} THEN "top" ELSE "process"
  /\ UNCHANGED <<flagVars, ioVars, watchedPaths, listVars, blockedPath, pdi, notifyPaths,
                 rebuild, adding, window, excused, outside>>

(* The infos were cleaned, or this one is not in use any more.              *)
Skips == m_bCleaned \/ ~info[pdi].open \/ pdi \notin watchInfoMap

SkipPacket ==
  /\ pc = "process"
  /\ Skips
  /\ m_bCleaned' = FALSE
  /\ pc' = "top"
  /\ UNCHANGED <<m_bRunning, m_FolderCrawler, ioVars, watchedPaths, listVars, blockedPath,
                 pdi, notifyPaths, rebuild, adding, window, excused, outside>>

(* Fault: the next read is only started if there was something to report.   *)
TakeChanges_ReadsIfReported ==
  /\ pc = "process"
  /\ ~Skips
  /\ notifyPaths' = IF m_FolderCrawler THEN info[pdi].buf ELSE {}
  /\ IF info[pdi].pend = {} /\ notifyPaths' # {}
     THEN /\ info' = [info EXCEPT ![pdi].buf = {}, ![pdi].read = "armed"]
          /\ UNCHANGED packets
     ELSE /\ info' = [info EXCEPT ![pdi].buf = info[pdi].pend, ![pdi].pend = {}]
          /\ packets' = IF info[pdi].pend = {} THEN packets ELSE packets \cup {pdi}
  /\ pc' = "notify"
  /\ UNCHANGED <<flagVars, port, watchedPaths, listVars, blockedPath, pdi, rebuild,
                 adding, window, excused, outside>>

(* The changes are taken from the buffer and the next read is started,      *)
(* which ends at once if more changes came meanwhile.                       *)
TakeChanges ==
  /\ pc = "process"
  /\ ~Skips
  /\ notifyPaths' = IF m_FolderCrawler THEN info[pdi].buf ELSE {}
  /\ IF info[pdi].pend = {}
     THEN /\ info' = [info EXCEPT ![pdi].buf = {}, ![pdi].read = "armed"]
          /\ UNCHANGED packets
     ELSE /\ info' = [info EXCEPT ![pdi].buf = info[pdi].pend, ![pdi].pend = {}]
          /\ packets' = packets \cup {pdi}
  /\ pc' = "notify"
  /\ UNCHANGED <<flagVars, port, watchedPaths, listVars, blockedPath, pdi, rebuild,
                 adding, window, excused, outside>>

TakeChangesFails ==
  /\ pc = "process"
  /\ ~Skips
  /\ Happens("fails")
  /\ notifyPaths' = IF m_FolderCrawler THEN info[pdi].buf ELSE {}
  /\ info' = [info EXCEPT ![pdi].buf = {}, ![pdi].read = "failed"]
  /\ excused' = "no read"
  /\ pc' = "notify"
  /\ UNCHANGED <<flagVars, port, packets, watchedPaths, listVars, blockedPath, pdi, rebuild,
                 adding, window>>

(* AddPathForUpdate of the crawler for each path, then the clean-up.        *)
Notify ==
  /\ pc = "notify"
  /\ notifyPaths' = {}
  /\ CleanupWatchInfo
  /\ pc' = "top"
  /\ UNCHANGED <<m_bRunning, m_FolderCrawler, port, watchedPaths, watchInfoMap, blockedPath,
                 pdi, rebuild, adding, window, excused, outside>>

Worker ==
  \/ Top \/ Get \/ GetPacket \/ PortClosed
  \/ OpenDirectory \/ Registered
  \/ Got \/ SkipPacket \/ TakeChanges \/ Notify

WorkerFails == OpenDirectoryFails \/ RegisteredFails \/ TakeChangesFails

-----------------------------------------------------------------------------
(* AddPath *)

(* Fault: a path that is watched already is not recognised.                 *)
AddedPaths_NotTested(path) ==
  IF path \in Versioned THEN Append(watchedPaths, path) ELSE watchedPaths

(* The last new root that path has with one of the watched paths.           *)
NewRootOf(path) ==
  FoldLeft(LAMBDA r, w : IF NewRoot[path, w] = NoDir THEN r ELSE NewRoot[path, w],
           NoDir, watchedPaths)

(* The list after path was asked for.                                       *)
AddedPaths(path) ==
  LET newroot == NewRootOf(path) IN
  CASE Covered(watchedPaths, path) -> watchedPaths
    [] ~Covered(watchedPaths, path) /\ newroot \in Versioned ->
         RemoveChildren(Append(watchedPaths, newroot))
    [] ~Covered(watchedPaths, path) /\ newroot \notin Versioned ->
         IF path \in Versioned THEN Append(watchedPaths, path) ELSE watchedPaths

Blocked(path) == blockedPath # NoDir /\ IsAncestorOf(blockedPath, path)

(* The crawler asks for a path that is not watched; the test for the block  *)
(* comes before the lock.                                                   *)
AddPathChecks(path) ==
  /\ adding = NoDir
  /\ window # "creating"
  /\ path \in Versioned /\ ~Covered(watchedPaths, path)
  /\ ~Blocked(path)
  /\ Happens("adds")
  /\ adding' = path
  /\ UNCHANGED <<flagVars, ioVars, watchedPaths, listVars, blockedPath, workerVars, window, excused>>

(* Fault: a path that replaces its children leaves the old handles open.    *)
AddPathLocked_KeepsMap ==
  /\ adding # NoDir /\ ~Locked
  /\ watchedPaths' = AddedPaths(adding)
  /\ adding' = NoDir
  /\ IF Len(AddedPaths(adding)) <= Len(watchedPaths)
     THEN UNCHANGED <<ioVars, workerVars, listVars>>
     ELSE CloseWatchHandles /\ TakeAll
  /\ UNCHANGED <<flagVars, blockedPath, window, excused, outside>>

AddPathLocked ==
  /\ adding # NoDir /\ ~Locked
  /\ watchedPaths' = AddedPaths(adding)
  /\ adding' = NoDir
  /\ IF AddedPaths(adding) = watchedPaths
     THEN UNCHANGED <<ioVars, workerVars, listVars>>
     ELSE CloseWatchHandles /\ TakeAll
  /\ UNCHANGED <<flagVars, blockedPath, window, excused, outside>>

(* Create, for a directory read from disk: bCloseInfoMap is false.          *)
CreateAdds(path) ==
  /\ window = "creating" /\ ~Locked
  /\ Happens("adds")
  /\ watchedPaths' = AddedPaths(path)
  /\ UNCHANGED <<flagVars, ioVars, listVars, blockedPath, workerVars, adding, window, excused>>

-----------------------------------------------------------------------------
(* The window thread and the commands *)

(* ClearInfoMap without the lock takes it twice.  It ends Create, and       *)
(* CloseWatcherHandles(0) calls it.                                         *)
ClearInfoMap ==
  /\ ~Locked
  /\ \/ window = "creating" /\ UNCHANGED outside
     \/ window = "idle" /\ Happens("closes")
  /\ CloseWatchHandles
  /\ window' = "clearing"
  /\ UNCHANGED <<flagVars, watchedPaths, listVars, blockedPath, adding, excused>>

(* The second lock.  By now the map may hold infos of a new list.           *)
ClearInfoMapEnd ==
  /\ window = "clearing" /\ ~Locked
  /\ TakeAll
  /\ excused' = IF watchInfoMap # {} /\ port THEN "taken" ELSE excused
  /\ window' = "idle"
  /\ UNCHANGED <<flagVars, ioVars, watchedPaths, blockedPath, workerVars, adding, outside>>

(* CloseInfoMap for the handle of an info, or for a handle that is closed   *)
(* already: the device with the directory is about to go.                   *)
CloseInfoMap(s) ==
  /\ window = "idle" /\ ~Locked
  /\ Happens("closes")
  /\ IF s \in watchInfoMap
     THEN /\ watchedPaths' = RemovePathAndChildren(watchedPaths, Drive(info[s].dir))
          /\ blockedPath' = Drive(info[s].dir)
     ELSE UNCHANGED <<watchedPaths, blockedPath>>
  /\ CloseWatchHandles
  /\ TakeAll
  /\ UNCHANGED <<flagVars, adding, window, excused>>

(* CloseHandlesForPath, for the RELEASE command or a volume that goes.  Of  *)
(* several paths that are removed the last one is blocked.                  *)
CloseHandlesForPath(path) ==
  /\ window = "idle" /\ ~Locked
  /\ Happens("closes")
  /\ CloseWatchHandles
  /\ LET below == {d \in {info[s].dir : s \in watchInfoMap} : IsAncestorOf(path, d)} IN
     /\ watchedPaths' = Selected(watchedPaths,
          {i \in DOMAIN watchedPaths : \A d \in below : ~IsAncestorOf(d, watchedPaths[i])})
     /\ IF below = {} THEN UNCHANGED blockedPath ELSE blockedPath' \in below
  /\ TakeAll
  /\ UNCHANGED <<flagVars, adding, window, excused>>

FourSecondsPass ==
  /\ blockedPath # NoDir
  /\ blockedPath' = NoDir
  /\ UNCHANGED <<flagVars, ioVars, watchedPaths, listVars, workerVars, adding, window, excused, outside>>

(* Fault: Stop leaves the worker at the port.                               *)
Stop_NotWoken ==
  /\ window = "idle" /\ ~Locked
  /\ m_bRunning' = FALSE
  /\ window' = "stopping"
  /\ UNCHANGED <<m_bCleaned, m_FolderCrawler, ioVars, watchedPaths, listVars, blockedPath,
                 workerVars, adding, excused, outside>>

Stop ==
  /\ window = "idle" /\ ~Locked
  /\ m_bRunning' = FALSE
  /\ CloseWatchHandles
  /\ window' = "stopping"
  /\ UNCHANGED <<m_bCleaned, m_FolderCrawler, watchedPaths, listVars, blockedPath, adding,
                 excused, outside>>

(* The worker has ended, or four seconds have passed.                       *)
StopEnd ==
  /\ window = "stopping"
  /\ window' = "stopped"
  /\ UNCHANGED <<flagVars, ioVars, watchedPaths, listVars, blockedPath, workerVars, adding,
                 excused, outside>>

(* Fault: the worker is not told that the infos are gone.                   *)
Destructor_Silent ==
  /\ window = "stopped" /\ ~Locked
  /\ info' = [s \in Slots |-> IF s \in watchInfoMap \cup ToSet(infoToDelete) THEN Free ELSE info[s]]
  /\ watchInfoMap' = {} /\ infoToDelete' = << >>
  /\ ClosePortOfWorker(watchInfoMap)
  /\ window' = "gone"
  /\ UNCHANGED <<flagVars, watchedPaths, blockedPath, adding, excused, outside>>

(* The rest of the destructor, which runs even if the worker has not ended. *)
Destructor ==
  /\ window = "stopped" /\ ~Locked
  /\ m_bCleaned' = TRUE
  /\ info' = [s \in Slots |-> IF s \in watchInfoMap \cup ToSet(infoToDelete) THEN Free ELSE info[s]]
  /\ watchInfoMap' = {} /\ infoToDelete' = << >>
  /\ ClosePortOfWorker(watchInfoMap)
  /\ window' = "gone"
  /\ UNCHANGED <<m_bRunning, m_FolderCrawler, watchedPaths, blockedPath, adding, excused, outside>>

(* A file changes in directory d.  Windows notes it for every handle on an  *)
(* ancestor; the first change of interest or not completes a pending read.  *)
Change(d, interesting) ==
  LET seen == {s \in Slots : info[s].open /\ IsAncestorOf(info[s].dir, d)}
      news == IF interesting THEN {d} ELSE {} IN
  /\ interesting \/ \E s \in seen : IsArmed(s)
  /\ seen # {}
  /\ Happens("changes")
  /\ info' = [s \in Slots |->
       IF s \notin seen THEN info[s]
       ELSE IF IsArmed(s) THEN [info[s] EXCEPT !.buf = news, !.read = "done"]
       ELSE [info[s] EXCEPT !.pend = @ \cup news]]
  /\ packets' = packets \cup {s \in seen : IsArmed(s)}
  /\ UNCHANGED <<flagVars, port, watchedPaths, listVars, blockedPath, workerVars, adding,
                 window, excused>>

-----------------------------------------------------------------------------
WindowSteps == ClearInfoMapEnd \/ StopEnd

Next ==
  \/ Worker \/ WorkerFails \/ TenMinutes
  \/ \E d \in Dirs : AddPathChecks(d) \/ CreateAdds(d) \/ CloseHandlesForPath(d)
  \/ AddPathLocked
  \/ ClearInfoMap \/ WindowSteps
  \/ \E s \in Slots : CloseInfoMap(s)
  \/ FourSecondsPass \/ Stop \/ Destructor
  \/ \E d \in Dirs, interesting \in BOOLEAN : Change(d, interesting)

Spec == Init /\ [][Next]_vars

(* Threads that can go on do so; nothing is assumed of silence at the port. *)
FairSpec ==
  /\ Spec
  /\ WF_vars(Worker)
  /\ WF_vars(WindowSteps)
  /\ WF_vars(AddPathLocked)

-----------------------------------------------------------------------------
(* Properties *)

TypeOK ==
  /\ m_bRunning \in BOOLEAN /\ m_bCleaned \in BOOLEAN /\ m_FolderCrawler \in BOOLEAN
  /\ port \in BOOLEAN /\ packets \subseteq Slots
  /\ watchedPaths \in Seq(Dirs) /\ IsInjective(watchedPaths)
  /\ watchInfoMap \subseteq Slots
  /\ infoToDelete \in Seq(Slots)
  /\ info \in [Slots -> [dir : Dirs \cup {NoDir}, open : BOOLEAN, buf : SUBSET Dirs,
                         pend : SUBSET Dirs, read : {"none", "armed", "done", "failed"}]]
  /\ blockedPath \in Dirs \cup {NoDir}
  /\ pc \in {"top", "get", "wait", "got", "process", "notify", "loop", "register", "done"}
  /\ pdi \in Slots \cup {None} /\ notifyPaths \subseteq Dirs
  /\ rebuild.i \in Nat /\ rebuild.paths \in Seq(Dirs) /\ rebuild.numWatch \in Nat
  /\ adding \in Dirs \cup {NoDir}
  /\ window \in {"creating", "idle", "clearing", "stopping", "stopped", "gone"}
  /\ excused \in {"", "not opened", "same size", "no read", "taken"}

(* The pointer of a packet is used under the lock unless m_bCleaned is set: *)
(* the watch info it points to has not been deleted (DirectoryWatcher.cpp:  *)
(* 403-425), although packets outlive their infos.                          *)
NoDanglingUse == pc = "process" /\ ~m_bCleaned => info[pdi].dir # NoDir

(* Every info is deleted at most once: it is in the map or scheduled for    *)
(* deletion, not both and not twice (ScheduleForDeletion).                  *)
NoDoubleDelete ==
  /\ IsInjective(infoToDelete)
  /\ ToSet(infoToDelete) \cap watchInfoMap = {}
  /\ \A s \in Slots : info[s].dir = NoDir <=> s \notin watchInfoMap \cup ToSet(infoToDelete)

(* What worker, pipe threads and window rely on when they take the lock.    *)
WatcherInv == TypeOK /\ NoDanglingUse /\ NoDoubleDelete

Watched(d) == \E s \in watchInfoMap : info[s].dir = d /\ info[s].open /\ info[s].read \in {"armed", "done"}

(* When the worker sleeps at an open port, a read is under way for every    *)
(* watched path, but for the known ways to miss one: a directory before it  *)
(* could not be opened, a read could not be repeated, ClearInfoMap took the *)
(* new infos, or the list was changed to one of the same size while the     *)
(* worker registered a handle.                                              *)
AllWatched ==
  pc = "wait" /\ port /\ window = "idle" /\ excused = "" =>
    \A i \in DOMAIN watchedPaths : Watched(watchedPaths[i])

(* A change Windows noted for a handle is handed to the crawler unless the  *)
(* handle is closed, its read cannot be repeated or the worker is stopped,  *)
(* or the watcher is one of a cache that could not be loaded, which has no  *)
(* crawler to hand it to.                                                   *)
ChangesReported ==
  LET Sees(s, d) == info[s].open /\ info[s].read # "failed" /\ IsAncestorOf(info[s].dir, d)
      Noted(s, d) == Sees(s, d) /\ d \in info[s].buf \cup info[s].pend IN
  \A d \in Versioned :
    (\E s \in Slots : Noted(s, d)) ~>
      (d \in notifyPaths \/ (\A s \in Slots : ~Sees(s, d)) \/ ~m_bRunning \/ ~m_FolderCrawler)

(* Whatever went wrong, a path that stays in the list is watched in the     *)
(* end, if there are ten minutes without a packet now and then.             *)
WatchedInTheEnd ==
  WF_vars(TenMinutes) =>
    \A d \in Versioned :
      d \in ToSet(watchedPaths) ~> (d \notin ToSet(watchedPaths) \/ Watched(d) \/ ~m_bRunning)

(* After Stop the worker ends without waiting for a packet, even if it was  *)
(* about to rebuild its list or sends a message to the thread that stops it.*)
StopEnds == ~m_bRunning ~> pc = "done"
=============================================================================
