---------------------------- MODULE FolderCrawler ----------------------------
(***************************************************************************)
(* CFolderCrawler (src/src/TSVNCache/FolderCrawler.cpp): the thread of     *)
(* TSVNCache that keeps the cached statuses up to date.  The directory     *)
(* watcher queues changed paths, the other threads queue folders, and the  *)
(* worker takes them one by one and fetches the status again.              *)
(*                                                                         *)
(* Of the cache and the disk this module keeps: unseen, the files and      *)
(* folders that changed after their status was last fetched; the file time *)
(* of each wc.db that CWCRoots holds; and outdated, the folders that were  *)
(* fetched under another time (m_wcDbFileTime).  A wc.db stands for the    *)
(* own status of its folder.  All folders are watched.                     *)
(* m_critSec makes each block it guards one step; the cache's guard        *)
(* (module ReaderWriterLock) and the calls of UpdateShell (module          *)
(* ShellUpdater) are left out, as is the time of day: a hold-off or a      *)
(* block ends when its Ends action happens.                                *)
(***************************************************************************)
EXTENDS Ordered, SequencesExt

CONSTANTS
  Nodes,         \* files and folders, as ranks in CTSVNPath's order
  NoNode,        \* the empty path, and what is above the watched folders
  Parent,        \* Nodes -> Nodes \cup {NoNode}: GetContainingDirectory
  Kind,          \* Nodes -> {"dir", "file", "wcdb", "journal", "other"}
  Excluded,      \* the paths the settings exclude: ~IsPathAllowed
  bRecursive,    \* setting RecursiveOverlay
  Feedback,      \* asking for a status touches the file and wc.db
  MayFail,       \* asking for a status may fail
  MaxEvents      \* bound on what happens outside the crawler

ASSUME NodesAreRanks ==
  Nodes \subseteq Int /\ IsFiniteSet(Nodes) /\ NoNode \in Int \ Nodes
ASSUME ParentIsTree ==
  /\ Parent \in [Nodes -> Nodes \cup {NoNode}]
  /\ \A n \in Nodes : Parent[n] # NoNode => Parent[n] < n /\ Kind[Parent[n]] = "dir"
ASSUME Kinds ==
  /\ Kind \in [Nodes -> {"dir", "file", "wcdb", "journal", "other"}]
  /\ \A n \in Nodes : Kind[n] # "dir" => Parent[n] # NoNode
ASSUME Settings ==
  /\ Excluded \subseteq Nodes
  /\ {bRecursive, Feedback, MayFail} \subseteq BOOLEAN
  /\ MaxEvents \in Nat

VARIABLES
  m_foldersToUpdate, m_pathsToUpdate,   \* UniqueQueues
  m_bItemsAddedSinceLastCrawl,
  wakeEvent, terminationEvent,          \* TRUE: signalled
  handlesOpen,       \* until Stop closes the handles
  m_bRun,
  m_lCrawlInhibitSet,                   \* number of CCrawlInhibitors
  holdOff,           \* IsHoldOff()
  m_blockedPath, blockOver,             \* m_blockReleasesAt < GetTickCount64()
  pc, workingPath, bFirstRunAfterWakeup,   \* the worker
  producers,         \* "watcher" and "client": calls of Add...ForUpdate, and a
                     \* fetch of the client's own (m_FetchingStatus of a folder)
  noWatch,           \* the paths that are not IsPathGood
  unseen,            \* changed since their status was fetched
  missing,           \* the files that are not there (for folders this is left open)
  m_WCDBs,           \* wc.db -> is the time that CWCRoots holds "current"?
  outdated,          \* folders with another m_wcDbFileTime than it (or wc.db) has
  notifications,     \* changes the watcher has not handed on
  erased,            \* history: unseen when an erase removed their request
  overlooked,        \* history: unseen when the worker passed over them
  startedInhibited,  \* history: items started since an inhibitor exists
  events             \* what happened outside, for MaxEvents

queues == <<m_foldersToUpdate, m_pathsToUpdate, m_bItemsAddedSinceLastCrawl>>
stop == <<terminationEvent, handlesOpen, m_bRun>>
gates == <<m_lCrawlInhibitSet, holdOff>>
block == <<m_blockedPath, blockOver>>
worker == <<pc, workingPath, bFirstRunAfterWakeup>>
times == <<m_WCDBs, outdated>>
world == <<unseen, missing, times, notifications, erased, overlooked>>
history == <<startedInhibited, events>>
data == <<queues, wakeEvent, stop, gates, block, producers, noWatch, world, history>>

vars == <<data, worker>>

Folders == INSTANCE UniqueFifo WITH queue <- m_foldersToUpdate, Values <- Nodes
Paths == INSTANCE UniqueFifo WITH queue <- m_pathsToUpdate, Values <- Nodes

Idle == [step |-> "idle", path |-> NoNode]

(* The constructor and Initialise; the cache is what it was when it was    *)
(* saved, and nothing has changed since.                                   *)
Init ==
  /\ m_foldersToUpdate = << >> /\ m_pathsToUpdate = << >>
  /\ m_bItemsAddedSinceLastCrawl = FALSE
  /\ wakeEvent = FALSE /\ terminationEvent = FALSE /\ handlesOpen = TRUE
  /\ m_bRun = TRUE
  /\ m_lCrawlInhibitSet = 0 /\ holdOff = FALSE
  /\ m_blockedPath = NoNode /\ blockOver = TRUE
  /\ pc = "wait" /\ workingPath = NoNode /\ bFirstRunAfterWakeup = FALSE
  /\ producers = [t \in {"watcher", "client"} |-> Idle]
  /\ noWatch = {} /\ unseen = {} /\ missing = {} /\ notifications = {}
  /\ m_WCDBs = [n \in {m \in Nodes : Kind[m] = "wcdb"} |-> "absent"]
  /\ outdated = {} /\ erased = {} /\ overlooked = {}
  /\ startedInhibited = 0 /\ events = 0

-----------------------------------------------------------------------------
(* A path with everything above it.                                        *)
Chain[n \in Nodes] ==
  {n} \cup IF Parent[n] = NoNode THEN {} ELSE Chain[Parent[n]]

IsAncestorOf(d, n) == n # NoNode /\ d \in Chain[n]

Good(blocked, n) == n = NoNode \/ Chain[n] \cap blocked = {}

IsPathGood(n) == Good(noWatch, n)

ChildFolders(d) == {n \in Nodes : Parent[n] = d /\ Kind[n] = "dir"}

(* Fault: a folder that is queued already is queued twice.                 *)
PushedAll_Duplicates(queue, S) == queue \o InOrder(S)

(* Several pushes, in the order of m_childDirectories.                     *)
PushedAll(queue, S) ==
  Selected(queue, {i \in DOMAIN queue : queue[i] \notin S}) \o InOrder(S)

Below(d) == {n \in Nodes : IsAncestorOf(d, n)}

(* What fetching the status of n brings up to date, at once ...            *)
Covers(n) == {n} \cup {m \in Nodes : Parent[m] = n}

(* ... and with the folders that a crawl of d queues.                      *)
Reaches(d, n) == n \in Covers(d) \/ (bRecursive /\ IsAncestorOf(d, n))

OutOfScope(n) == Chain[n] \cap (noWatch \cup Excluded) # {}

(* A fetch that will see the change of n is on its way.                    *)
Pending(n) ==
  \/ n \in notifications \cup Range(m_pathsToUpdate)
  \/ producers["watcher"].step = "push" /\ producers["watcher"].path = n
  \/ producers["client"].step = "push" /\ Reaches(producers["client"].path, n)
  \/ \E d \in Range(m_foldersToUpdate) : Reaches(d, n)
  \/ pc = "checkPath" /\ workingPath = n
  \/ pc = "refreshPath" /\ n \in Covers(workingPath)
  \/ pc \in {"refreshDir", "checkFolder", "refreshFolder"} /\ Reaches(workingPath, n)

-----------------------------------------------------------------------------
(* AddDirectoryForUpdate and AddPathForUpdate of the other threads *)

(* The check, in front of the lock: a path that is not good is dropped.    *)
BeginAdd(t, n) ==
  producers' = [producers EXCEPT ![t] =
                  IF IsPathGood(n) THEN [step |-> "push", path |-> n] ELSE Idle]

(* Fault: the flag is not set.                                             *)
AddDirectoryForUpdate_NoFlag ==
  /\ producers["client"].step = "push"
  /\ Folders!Push(producers["client"].path)
  /\ producers' = [producers EXCEPT !["client"].step = "signal"]
  /\ UNCHANGED <<m_pathsToUpdate, m_bItemsAddedSinceLastCrawl, wakeEvent, stop,
                 gates, block, worker, noWatch, world, history>>

AddDirectoryForUpdate ==
  /\ producers["client"].step = "push"
  /\ Folders!Push(producers["client"].path)
  /\ m_bItemsAddedSinceLastCrawl' = TRUE
  /\ producers' = [producers EXCEPT !["client"].step = "signal"]
  /\ UNCHANGED <<m_pathsToUpdate, wakeEvent, stop, gates, block, worker, noWatch,
                 world, history>>

(* m_bPathsAddedSinceLastCrawl is written but never read.                  *)
AddPathForUpdate ==
  /\ producers["watcher"].step = "push"
  /\ Paths!Push(producers["watcher"].path)
  /\ producers' = [producers EXCEPT !["watcher"].step = "signal"]
  /\ UNCHANGED <<m_foldersToUpdate, m_bItemsAddedSinceLastCrawl, wakeEvent, stop,
                 gates, block, worker, noWatch, world, history>>

(* Fault: the event is not signalled.                                      *)
SetWakeEvent_Omitted(t) ==
  /\ producers[t].step = "signal"
  /\ producers' = [producers EXCEPT ![t] = Idle]
  /\ UNCHANGED <<queues, wakeEvent, stop, gates, block, worker, noWatch, world,
                 history>>

(* SetEvent, behind the lock; without effect on a closed handle.           *)
SetWakeEvent(t) ==
  /\ producers[t].step = "signal"
  /\ wakeEvent' = (wakeEvent \/ handlesOpen)
  /\ producers' = [producers EXCEPT ![t] = Idle]
  /\ UNCHANGED <<queues, stop, gates, block, worker, noWatch, world, history>>

(* The watcher thread hands a change on.                                   *)
Notify ==
  /\ producers["watcher"] = Idle
  /\ \E n \in notifications :
       /\ notifications' = notifications \ {n}
       /\ BeginAdd("watcher", n)
  /\ UNCHANGED <<queues, wakeEvent, stop, gates, block, worker, noWatch, unseen,
                 missing, times, erased, overlooked, history>>

Watcher == Notify \/ AddPathForUpdate \/ SetWakeEvent("watcher")

-----------------------------------------------------------------------------
(* The worker: waiting and the checks at the top of the loop *)

Step(from, to) == pc = from /\ pc' = to

(* Fault: only the event ends the thread.                                  *)
WorkerWakes_EventOnly ==
  /\ pc = "wait"
  /\ terminationEvent \/ wakeEvent \/ ~handlesOpen
  /\ IF terminationEvent
     THEN pc' = "done" /\ UNCHANGED bFirstRunAfterWakeup
     ELSE pc' = "loop" /\ bFirstRunAfterWakeup' = TRUE
  /\ wakeEvent' = (wakeEvent /\ terminationEvent)
  /\ UNCHANGED <<queues, stop, gates, block, workingPath, producers, noWatch,
                 world, history>>

(* WaitForMultipleObjects; it fails on closed handles, and then m_bRun is  *)
(* FALSE.                                                                  *)
WorkerWakes ==
  /\ pc = "wait"
  /\ terminationEvent \/ wakeEvent \/ ~handlesOpen
  /\ IF terminationEvent \/ ~m_bRun
     THEN pc' = "done" /\ UNCHANGED bFirstRunAfterWakeup
     ELSE pc' = "loop" /\ bFirstRunAfterWakeup' = TRUE
  /\ wakeEvent' = (wakeEvent /\ terminationEvent)
  /\ UNCHANGED <<queues, stop, gates, block, workingPath, producers, noWatch,
                 world, history>>

(* Fault: nothing keeps the crawler back.                                  *)
LoopTop_Hurry ==
  /\ pc = "loop"
  /\ pc' = IF m_bRun THEN "expire" ELSE "wait"
  /\ UNCHANGED <<data, workingPath, bFirstRunAfterWakeup>>

(* Stopped, holding off, inhibited, first run.                             *)
LoopTop ==
  /\ pc = "loop"
  /\ LET waits == holdOff \/ m_lCrawlInhibitSet > 0 \/ bFirstRunAfterWakeup
     IN  /\ pc' = IF ~m_bRun THEN "wait" ELSE IF waits THEN "loop" ELSE "expire"
         /\ bFirstRunAfterWakeup' =
              (bFirstRunAfterWakeup /\ (~m_bRun \/ holdOff \/ m_lCrawlInhibitSet > 0))
  /\ UNCHANGED <<data, workingPath>>

(* The end of m_blockedPath: the check takes no lock ...                   *)
CheckBlockOver ==
  /\ pc = "expire"
  /\ pc' = IF blockOver /\ m_blockedPath # NoNode THEN "reset" ELSE "timeouts"
  /\ UNCHANGED <<data, workingPath, bFirstRunAfterWakeup>>

(* ... and neither does the assignment after it.                           *)
ResetBlockedPath ==
  /\ Step("reset", "timeouts")
  /\ m_blockedPath' = NoNode
  /\ UNCHANGED <<queues, wakeEvent, stop, gates, blockOver, workingPath,
                 bFirstRunAfterWakeup, producers, noWatch, world, history>>

(* AddFolderForCrawling on the worker's own thread.                        *)
WorkerAdds(S) ==
  LET good == {d \in S : IsPathGood(d)'}
  IN  /\ m_foldersToUpdate' = PushedAll(m_foldersToUpdate, good)
      /\ m_bItemsAddedSinceLastCrawl' = (m_bItemsAddedSinceLastCrawl \/ good # {})
      /\ wakeEvent' = (wakeEvent \/ (good # {} /\ handlesOpen))

(* RemoveTimedoutBlocks: at most one path (module NoWatchPaths).           *)
RemoveTimedoutBlocks ==
  /\ Step("timeouts", "sizes")
  /\ \/ UNCHANGED <<queues, wakeEvent, stop, noWatch>>
     \/ \E d \in noWatch :
          /\ noWatch' = noWatch \ {d}
          /\ WorkerAdds({d})
          /\ UNCHANGED <<m_pathsToUpdate, stop>>
  /\ UNCHANGED <<gates, block, workingPath, bFirstRunAfterWakeup, producers,
                 world, history>>

(* Fault: only the folders count.                                          *)
AnythingLeft_FoldersOnly ==
  /\ pc = "sizes"
  /\ pc' = IF m_foldersToUpdate = << >> THEN "wait" ELSE "paths"
  /\ UNCHANGED <<data, workingPath, bFirstRunAfterWakeup>>

AnythingLeft ==
  /\ pc = "sizes"
  /\ pc' = IF m_foldersToUpdate = << >> /\ m_pathsToUpdate = << >>
           THEN "wait" ELSE "paths"
  /\ UNCHANGED <<data, workingPath, bFirstRunAfterWakeup>>

-----------------------------------------------------------------------------
(* The worker: a changed path *)

Starts ==
  startedInhibited' = IF m_lCrawlInhibitSet > 0 THEN startedInhibited + 1 ELSE 0

(* A path below m_blockedPath goes to the end of the queue.                *)
PopPath ==
  /\ pc = "paths"
  /\ IF m_pathsToUpdate = << >>
     THEN pc' = "folders" /\ UNCHANGED <<m_pathsToUpdate, workingPath, startedInhibited>>
     ELSE /\ workingPath' = Head(m_pathsToUpdate)
          /\ IF IsAncestorOf(m_blockedPath, Head(m_pathsToUpdate))
             THEN /\ m_pathsToUpdate' = Append(Tail(m_pathsToUpdate), Head(m_pathsToUpdate))
                  /\ pc' = "loop"
                  /\ UNCHANGED startedInhibited
             ELSE Paths!Pop /\ pc' = "checkPath" /\ Starts
  /\ UNCHANGED <<m_foldersToUpdate, m_bItemsAddedSinceLastCrawl, wakeEvent, stop,
                 gates, block, bFirstRunAfterWakeup, producers, noWatch, world,
                 events>>

(* Another thread is fetching the status of a folder, for which it holds   *)
(* the cache's guard as a reader.                                          *)
Fetching == producers["client"].step = "fetch"

(* RemoveCacheForPath, as a writer: what is not in the cache is not out of *)
(* date.                                                                   *)
RemoveCacheForPath(d) ==
  /\ ~Fetching
  /\ unseen' = unseen \ Below(d)
  /\ outdated' = outdated \cup {n \in Below(d) : Kind[n] = "dir"}

KeepCache == UNCHANGED <<unseen, outdated>>

(* overlooked: which of S nobody will look at any more.                    *)
Overlooks(S) ==
  overlooked' = overlooked \cup {n \in S \cap unseen' : ~Pending(n)' /\ ~OutOfScope(n)'}

(* CWCRoots: the working copy that a folder is in, ...                     *)
WCDB(d) ==
  {n \in DOMAIN m_WCDBs : Parent[n] \in Chain[d]
     /\ \A m \in DOMAIN m_WCDBs : Parent[m] \in Chain[d] => Parent[m] <= Parent[n]}

(* ... the folders whose time is another one with a new time, ...          *)
Members(S) == {d \in Nodes : Kind[d] = "dir" /\ WCDB(d) \cap S # {}}

(* Fault: every notification counts as a change.                           *)
NotifyChange_Always(n, changed) ==
  /\ changed
  /\ m_WCDBs' = [m_WCDBs EXCEPT ![n] = IF @ = "absent" THEN @ ELSE "current"]
  /\ outdated' = outdated \cup IF m_WCDBs[n] = "old" THEN Members({n}) ELSE {}

(* ... NotifyChange, which adds nothing to the map, ...                    *)
NotifyChange(n, changed) ==
  /\ changed = (m_WCDBs[n] # "current")
  /\ m_WCDBs' = [m_WCDBs EXCEPT ![n] = IF @ = "absent" THEN @ ELSE "current"]
  /\ outdated' = outdated \cup IF m_WCDBs[n] = "old" THEN Members({n}) ELSE {}

(* ... and GetDBFileTime, which reads some of them.  After DBTIMEOUT it    *)
(* reads the time again, but only for the root: lower_bound finds no root  *)
(* above its argument, and emplace keeps the entry AddPathInternal finds.  *)
MayRead(d) ==
  {{n \in WCDB(d) : m_WCDBs[n] = "absent"},
   {n \in WCDB(d) : m_WCDBs[n] = "absent" \/ Parent[n] = d}}

GetDBFileTime(read) ==
  m_WCDBs' = [n \in DOMAIN m_WCDBs |-> IF n \in read THEN "current" ELSE m_WCDBs[n]]

OutdatedBy(read) == outdated \cup Members({n \in read : m_WCDBs[n] = "old"})

(* Excluded and blocked paths are dropped, and so are changes of the       *)
(* journal and wc.db without a new time.  The rest depends on what is on   *)
(* disk by now: what is gone is not versioned for IsVersioned, and what    *)
(* svn cannot read is not either.                                          *)
CheckPath ==
  LET n == workingPath IN
  /\ pc = "checkPath"
  /\ UNCHANGED <<queues, wakeEvent, stop, gates, block, bFirstRunAfterWakeup,
                 producers, noWatch, missing, notifications, erased, history>>
  /\ \/ /\ n \in Excluded \/ ~IsPathGood(n) \/ Kind[n] = "journal"
        /\ pc' = "loop" /\ KeepCache /\ UNCHANGED <<m_WCDBs, workingPath, overlooked>>
     \/ /\ n \notin Excluded /\ IsPathGood(n)
        /\ \/ \* wc.db, not changed
              /\ Kind[n] = "wcdb" /\ NotifyChange(n, FALSE)
              /\ pc' = "loop" /\ UNCHANGED <<unseen, workingPath>> /\ Overlooks({n})
           \/ \* wc.db, changed
              /\ Kind[n] = "wcdb" /\ NotifyChange(n, TRUE)
              /\ pc' = "refreshDir" /\ workingPath' = Parent[n]
              /\ UNCHANGED <<unseen, overlooked>>
           \/ \* a versioned directory
              /\ Kind[n] = "dir"
              /\ pc' = "refreshDir" /\ workingPath' = Parent[n] /\ KeepCache
              /\ UNCHANGED <<m_WCDBs, overlooked>>
           \/ \* a versioned file
              /\ Kind[n] = "file" /\ n \notin missing
              /\ pc' = "refreshPath" /\ KeepCache
              /\ UNCHANGED <<m_WCDBs, workingPath, overlooked>>
           \/ \* a directory that is gone
              /\ Kind[n] = "dir"
              /\ pc' = "folders" /\ RemoveCacheForPath(n)
              /\ UNCHANGED <<m_WCDBs, workingPath, overlooked>>
           \/ \* a file that is gone (for which RemoveCacheForPath does nothing),
              \* not versioned, or in a damaged working copy
              /\ Kind[n] = "other" \/ n \in missing \/ (MayFail /\ Kind[n] \in {"dir", "file"})
              /\ pc' = "folders" /\ KeepCache /\ UNCHANGED <<m_WCDBs, workingPath>>
              /\ Overlooks({n})

-----------------------------------------------------------------------------
(* What is bounded: what happens outside the crawler, and failures.        *)
Event == events < MaxEvents /\ events' = events + 1

(* Fetching a status: CCachedDirectory::RefreshStatus, GetStatusForMember  *)
(* and SvnUpdateMembersStatus                                              *)

(* CFolderCrawler::BlockPath *)
BlockPath(d) == m_blockedPath' = d /\ blockOver' = FALSE

DirectoryOf(n) == IF Kind[n] = "dir" THEN n ELSE Parent[n]

(* Above the working copies there is nothing in the cache.                 *)
NothingCached(to) ==
  /\ workingPath = NoNode
  /\ pc' = to
  /\ UNCHANGED <<queues, wakeEvent, block, noWatch, unseen, times, notifications,
                 overlooked, events>>

(* The folder is gone (or neither watched nor in the cache).               *)
Gone(to) ==
  /\ workingPath # NoNode /\ pc # "refreshPath"
  /\ pc' = to
  /\ RemoveCacheForPath(workingPath)
  /\ UNCHANGED <<queues, wakeEvent, block, noWatch, m_WCDBs, notifications,
                 overlooked, events>>

(* svn is asked unless the cached status is valid: under the same time of  *)
(* wc.db, not invalidated, not expired, and with the times of the files    *)
(* that are there.                                                         *)
MustAsk(d, out) ==
  \/ d \in out
  \/ pc = "refreshDir"
  \/ pc = "refreshPath" /\ workingPath \in unseen
  \/ pc = "refreshFolder" /\ \E n \in unseen \ missing : Kind[n] = "file" /\ Parent[n] = d

(* The cached status is returned, which passes over what it does not show. *)
Cached(to, children, out) ==
  LET d == DirectoryOf(workingPath) IN
  /\ ~MustAsk(d, out)
  /\ pc' = to
  /\ outdated' = out
  /\ UNCHANGED <<m_pathsToUpdate, block, noWatch, unseen, notifications, events>>
  /\ WorkerAdds(children)
  /\ Overlooks(Covers(d))

FetchedByClient(d) == Fetching /\ producers["client"].path = d

(* m_FetchingStatus: the other thread is fetching this folder.  svn is not *)
(* asked and nothing queued but what that thread has found so far; the     *)
(* time is reset before the other thread sets it, or after.                *)
Busy(to, children, out) ==
  LET d == DirectoryOf(workingPath) IN
  /\ FetchedByClient(d)
  /\ pc' = to
  /\ outdated' \in {out, out \cup {d}}
  /\ UNCHANGED <<m_pathsToUpdate, block, noWatch, unseen, notifications, events>>
  /\ \E found \in SUBSET children : WorkerAdds(found)
  /\ Overlooks(Covers(d) \cup Below(d))

(* svn touches the file, and a virus scanner wc.db.                        *)
Touched(S) == IF Feedback THEN {n \in S : Kind[n] # "dir"} ELSE {}

(* svn answers.  A folder new to the cache is queued, and so are folders   *)
(* in it that svn reports (GetStatusCallback).                             *)
Succeeds(to, children, out) ==
  LET d == DirectoryOf(workingPath) IN
  /\ pc' = to
  /\ outdated' = out \ {d}
  /\ unseen' = unseen \ Covers(d)
  /\ notifications' = notifications \cup Touched(WCDB(d) \cup {workingPath})
  /\ UNCHANGED <<m_pathsToUpdate, block, noWatch, overlooked, events>>
  /\ \E extra \in SUBSET ({d} \cup ChildFolders(d)) : WorkerAdds(children \cup extra)

(* "Make sure that this status times out soon": the directory is blocked   *)
(* for 20 ms and queued.                                                   *)
FailsForNow(to, out) ==
  LET d == DirectoryOf(workingPath) IN
  /\ MayFail /\ Event
  /\ pc' = to
  /\ outdated' = out \cup {d}
  /\ BlockPath(d)
  /\ UNCHANGED <<m_pathsToUpdate, noWatch, unseen, notifications, overlooked>>
  /\ WorkerAdds({d})

(* SVN_ERR_WC_NOT_WORKING_COPY: not crawled for 20 s.                      *)
FailsNotWorkingCopy(to, out) ==
  LET d == DirectoryOf(workingPath) IN
  /\ MayFail /\ Event
  /\ pc' = to
  /\ outdated' = out \cup {d}
  /\ noWatch' = noWatch \cup {d}
  /\ UNCHANGED <<queues, wakeEvent, block, unseen, notifications, overlooked>>

(* A damaged working copy and the like: svn's answer is that there is no   *)
(* status.                                                                 *)
HasNoStatus(to, children, out) ==
  LET d == DirectoryOf(workingPath) IN
  /\ MayFail
  /\ pc' = to
  /\ outdated' = out \cup {d}
  /\ unseen' = unseen \ Covers(d)
  /\ UNCHANGED <<m_pathsToUpdate, block, noWatch, notifications, overlooked, events>>
  /\ WorkerAdds(children)

(* svn is asked.                                                           *)
Asks(to, children, out) ==
  /\ ~FetchedByClient(DirectoryOf(workingPath))
  /\ \/ Succeeds(to, children, out) \/ HasNoStatus(to, children, out)
     \/ FailsForNow(to, out) \/ FailsNotWorkingCopy(to, out)

Fetch(from, to, children) ==
  /\ pc = from
  /\ UNCHANGED <<stop, gates, workingPath, bFirstRunAfterWakeup, producers,
                 missing, erased, startedInhibited>>
  /\ \/ NothingCached(to) \/ Gone(to)
     \/ /\ workingPath # NoNode
        /\ \E read \in MayRead(DirectoryOf(workingPath)) :
             LET out == OutdatedBy(read) IN
             /\ GetDBFileTime(read)
             /\ \/ Cached(to, children, out) \/ Busy(to, children, out)
                \/ Asks(to, children, out)

Crawled == IF bRecursive THEN ChildFolders(workingPath) ELSE {}

RefreshDirectory == Fetch("refreshDir", "erasePath", Crawled)

RefreshPath == Fetch("refreshPath", "erasePath", {})

RefreshFolder == Fetch("refreshFolder", "eraseFolder", Crawled)

-----------------------------------------------------------------------------
(* The worker: requests that came during the refresh go, and the folders *)

(* Fault: what came during the refresh stays.                              *)
ErasePath_Keeps ==
  /\ Step("erasePath", "folders")
  /\ UNCHANGED <<data, workingPath, bFirstRunAfterWakeup>>

(* erased: which of S nobody will look at any more.                        *)
Loses(S) == erased' = erased \cup {n \in S \cap unseen : ~Pending(n)'}

ErasePath ==
  /\ Step("erasePath", "folders")
  /\ Paths!Erase(workingPath)
  /\ UNCHANGED <<m_foldersToUpdate, m_bItemsAddedSinceLastCrawl, wakeEvent, stop,
                 gates, block, workingPath, bFirstRunAfterWakeup, producers,
                 noWatch, unseen, missing, times, notifications, overlooked, history>>
  /\ Loses({workingPath} \cap Range(m_pathsToUpdate))

PopFolder ==
  /\ pc = "folders"
  /\ IF m_foldersToUpdate = << >>
     THEN /\ pc' = "loop"
          /\ UNCHANGED <<m_foldersToUpdate, m_bItemsAddedSinceLastCrawl,
                         workingPath, startedInhibited>>
     ELSE /\ m_bItemsAddedSinceLastCrawl' = FALSE
          /\ workingPath' = Head(m_foldersToUpdate)
          /\ IF IsAncestorOf(m_blockedPath, Head(m_foldersToUpdate))
             THEN /\ m_foldersToUpdate' =
                       Append(Tail(m_foldersToUpdate), Head(m_foldersToUpdate))
                  /\ pc' = "loop"
                  /\ UNCHANGED startedInhibited
             ELSE Folders!Pop /\ pc' = "checkFolder" /\ Starts
  /\ UNCHANGED <<m_pathsToUpdate, wakeEvent, stop, gates, block,
                 bFirstRunAfterWakeup, producers, noWatch, world, events>>

CheckFolder ==
  /\ pc = "checkFolder"
  /\ pc' = IF workingPath \in Excluded \/ ~IsPathGood(workingPath)
           THEN "loop" ELSE "refreshFolder"
  /\ UNCHANGED <<data, workingPath, bFirstRunAfterWakeup>>

EraseFolder ==
  /\ Step("eraseFolder", "loop")
  /\ IF m_bItemsAddedSinceLastCrawl
     THEN Folders!Erase(workingPath) ELSE UNCHANGED m_foldersToUpdate
  /\ UNCHANGED <<m_pathsToUpdate, m_bItemsAddedSinceLastCrawl, wakeEvent, stop,
                 gates, block, workingPath, bFirstRunAfterWakeup, producers,
                 noWatch, unseen, missing, times, notifications, overlooked, history>>
  /\ Loses(UNION {Below(d) : d \in {workingPath} \cap Range(m_foldersToUpdate)})

Worker ==
  \/ WorkerWakes \/ LoopTop \/ CheckBlockOver \/ ResetBlockedPath
  \/ RemoveTimedoutBlocks \/ AnythingLeft \/ PopPath \/ CheckPath
  \/ RefreshDirectory \/ RefreshPath \/ ErasePath
  \/ PopFolder \/ CheckFolder \/ RefreshFolder \/ EraseFolder

-----------------------------------------------------------------------------
(* What the other threads of the cache do to the crawler *)

(* CCrawlInhibitor *)
BeginInhibit ==
  /\ m_lCrawlInhibitSet' = m_lCrawlInhibitSet + 1
  /\ startedInhibited' = IF m_lCrawlInhibitSet = 0 THEN 0 ELSE startedInhibited

(* Something in a watched folder changes, with a status or without; the    *)
(* operating system tells the watcher.                                     *)
Change(n) ==
  /\ Event
  /\ Parent[n] # NoNode
  /\ unseen' = unseen \cup ({n} \cap {m \in Nodes : Kind[m] \in {"dir", "file", "wcdb"}})
  /\ missing' \in {missing \ {n}, missing \cup ({n} \cap {m \in Nodes : Kind[m] = "file"})}
  /\ erased' = erased \ {n} /\ overlooked' = overlooked \ {n}
  /\ notifications' = notifications \cup {n}
  /\ m_WCDBs' = [m \in DOMAIN m_WCDBs |->
                  IF m = n /\ m_WCDBs[m] = "current" THEN "old" ELSE m_WCDBs[m]]
  /\ outdated' = outdated \cup Members({m \in {n} \cap DOMAIN m_WCDBs : m_WCDBs[m] = "absent"})
  /\ UNCHANGED <<queues, wakeEvent, stop, gates, block, worker, producers,
                 noWatch, startedInhibited>>

(* A virus scanner opens wc.db and restores its time.                      *)
Touch(n) ==
  /\ Event
  /\ Kind[n] = "wcdb"
  /\ notifications' = notifications \cup {n}
  /\ UNCHANGED <<queues, wakeEvent, stop, gates, block, worker, producers,
                 noWatch, unseen, missing, times, erased, overlooked, startedInhibited>>

(* A thread that was asked for a status leaves the refreshing of a folder  *)
(* to the crawler.                                                         *)
RequestCrawl(d) ==
  /\ Event
  /\ producers["client"] = Idle
  /\ \E read \in MayRead(d) :
       /\ GetDBFileTime(read)
       /\ outdated' = OutdatedBy(read)
  /\ BeginAdd("client", d)
  /\ UNCHANGED <<queues, wakeEvent, stop, gates, block, worker, noWatch, unseen,
                 missing, notifications, erased, overlooked, startedInhibited>>

(* Or it asks svn itself, under an inhibitor ...                           *)
FetchBegins(d) ==
  /\ Event
  /\ producers["client"] = Idle
  /\ IsPathGood(d)
  /\ BeginInhibit
  /\ \E read \in MayRead(d) :
       /\ GetDBFileTime(read)
       /\ outdated' = OutdatedBy(read) \ {d}
  /\ producers' = [producers EXCEPT !["client"] = [step |-> "fetch", path |-> d]]
  /\ UNCHANGED <<queues, wakeEvent, stop, holdOff, block, worker, noWatch, unseen,
                 missing, notifications, erased, overlooked>>

(* ... and has the answer, which shows some of what has changed by now, or *)
(* none: as in Fetch, the folder may be queued or kept back.               *)
FetchEnds ==
  LET d == producers["client"].path IN
  /\ Fetching
  /\ \/ /\ \E shown \in SUBSET Covers(d) : unseen' = unseen \ shown
        /\ BeginAdd("client", d) \/ producers' = [producers EXCEPT !["client"] = Idle]
        /\ notifications' = notifications \cup Touched(WCDB(d))
        /\ UNCHANGED <<outdated, block, noWatch, events>>
     \/ /\ MayFail /\ Event
        /\ outdated' = outdated \cup {d}
        /\ \/ BlockPath(d) /\ BeginAdd("client", d) /\ UNCHANGED noWatch
           \/ /\ noWatch' \in {noWatch, noWatch \cup {d}}
              /\ producers' = [producers EXCEPT !["client"] = Idle]
              /\ UNCHANGED block
        /\ UNCHANGED <<unseen, notifications>>
  /\ m_lCrawlInhibitSet' = m_lCrawlInhibitSet - 1 /\ holdOff' = TRUE
  /\ UNCHANGED <<queues, wakeEvent, stop, worker, missing, m_WCDBs, erased,
                 overlooked, startedInhibited>>

Client == FetchEnds \/ AddDirectoryForUpdate \/ SetWakeEvent("client")

(* TSVNCACHECOMMAND_CRAWL: out of the cache, and into the queue.           *)
CrawlCommand(d) ==
  /\ Event
  /\ producers["client"] = Idle
  /\ RemoveCacheForPath(d)
  /\ BeginAdd("client", d)
  /\ UNCHANGED <<queues, wakeEvent, stop, gates, block, worker, noWatch,
                 missing, m_WCDBs, notifications, erased, overlooked, startedInhibited>>

(* TSVNCACHECOMMAND_BLOCK *)
BlockCommand(d) ==
  /\ Event
  /\ d \notin noWatch
  /\ noWatch' = noWatch \cup {d}
  /\ UNCHANGED <<queues, wakeEvent, stop, gates, block, worker, producers, world,
                 startedInhibited>>

(* Fault: the folder is not queued.                                        *)
UnblockCommand_NoCrawl(d) ==
  /\ producers["client"] = Idle
  /\ d \in noWatch
  /\ noWatch' = noWatch \ {d}
  /\ UNCHANGED <<queues, wakeEvent, stop, gates, block, worker, producers, world,
                 history>>

(* TSVNCACHECOMMAND_UNBLOCK *)
UnblockCommand(d) ==
  /\ producers["client"] = Idle
  /\ d \in noWatch
  /\ noWatch' = noWatch \ {d}
  /\ producers' = [producers EXCEPT !["client"] =
                     IF Good(noWatch', d) THEN [step |-> "push", path |-> d] ELSE Idle]
  /\ UNCHANGED <<queues, wakeEvent, stop, gates, block, worker, world, history>>

(* TSVNCACHECOMMAND_RELEASE: blocked for 10 s and out of the cache.        *)
ReleaseCommand(d) ==
  /\ Event
  /\ BlockPath(d)
  /\ RemoveCacheForPath(d)
  /\ UNCHANGED <<queues, wakeEvent, stop, gates, worker, producers, noWatch,
                 missing, m_WCDBs, notifications, erased, overlooked, startedInhibited>>

BlockEnds ==
  /\ ~blockOver
  /\ blockOver' = TRUE
  /\ UNCHANGED <<queues, wakeEvent, stop, gates, m_blockedPath, worker, producers,
                 noWatch, world, history>>

(* Explorer asks for a status that is in the cache.                        *)
Inhibit ==
  /\ Event
  /\ BeginInhibit
  /\ UNCHANGED <<queues, wakeEvent, stop, holdOff, block, worker, producers,
                 noWatch, world>>

(* ~CCrawlInhibitor with SetHoldoff, but not that of a fetch               *)
EndInhibit ==
  /\ m_lCrawlInhibitSet > IF Fetching THEN 1 ELSE 0
  /\ m_lCrawlInhibitSet' = m_lCrawlInhibitSet - 1
  /\ holdOff' = TRUE
  /\ UNCHANGED <<queues, wakeEvent, stop, block, worker, producers, noWatch, world,
                 history>>

HoldoffEnds ==
  /\ holdOff
  /\ holdOff' = FALSE
  /\ UNCHANGED <<queues, wakeEvent, stop, m_lCrawlInhibitSet, block, worker,
                 producers, noWatch, world, history>>

(* Stop, in its steps; the wait for the thread may time out.               *)
StopRun ==
  /\ Event
  /\ m_bRun
  /\ m_bRun' = FALSE
  /\ UNCHANGED <<queues, wakeEvent, terminationEvent, handlesOpen, gates, block,
                 worker, producers, noWatch, world, startedInhibited>>

StopSignal ==
  /\ ~m_bRun /\ ~terminationEvent /\ handlesOpen
  /\ terminationEvent' = TRUE
  /\ UNCHANGED <<queues, wakeEvent, handlesOpen, m_bRun, gates, block, worker,
                 producers, noWatch, world, history>>

StopClose ==
  /\ terminationEvent /\ handlesOpen
  /\ handlesOpen' = FALSE /\ terminationEvent' = FALSE /\ wakeEvent' = FALSE
  /\ UNCHANGED <<queues, m_bRun, gates, block, worker, producers, noWatch, world,
                 history>>

Stop == StopSignal \/ StopClose

Timers == BlockEnds \/ HoldoffEnds \/ EndInhibit

Environment ==
  \/ \E n \in Nodes : Change(n) \/ Touch(n)
  \/ \E d \in {n \in Nodes : Kind[n] = "dir"} :
       \/ RequestCrawl(d) \/ FetchBegins(d) \/ CrawlCommand(d) \/ ReleaseCommand(d)
       \/ BlockCommand(d) \/ UnblockCommand(d)
  \/ Inhibit \/ StopRun

Next == Worker \/ Watcher \/ Client \/ Stop \/ Timers \/ Environment

Spec == Init /\ [][Next]_vars

(* The threads run and time passes.                                        *)
Fairness ==
  /\ WF_vars(Worker) /\ WF_vars(Client) /\ WF_vars(Watcher) /\ WF_vars(Stop)
  /\ WF_vars(BlockEnds) /\ WF_vars(HoldoffEnds) /\ WF_vars(EndInhibit)

FairSpec == Spec /\ Fairness

-----------------------------------------------------------------------------
(* Queues of nodes without duplicates, and every thread at a step.         *)
TypeOK ==
  /\ m_foldersToUpdate \in Seq({n \in Nodes : Kind[n] = "dir"})
  /\ m_pathsToUpdate \in Seq(Nodes)
  /\ IsInjective(m_foldersToUpdate) /\ IsInjective(m_pathsToUpdate)
  /\ m_bItemsAddedSinceLastCrawl \in BOOLEAN
  /\ wakeEvent \in BOOLEAN /\ terminationEvent \in BOOLEAN /\ handlesOpen \in BOOLEAN
  /\ m_bRun \in BOOLEAN /\ holdOff \in BOOLEAN
  /\ m_lCrawlInhibitSet \in 0..MaxEvents
  /\ m_blockedPath \in Nodes \cup {NoNode} /\ blockOver \in BOOLEAN
  /\ pc \in {"wait", "loop", "expire", "reset", "timeouts", "sizes", "paths", "checkPath",
             "refreshDir", "refreshPath", "erasePath", "folders", "checkFolder",
             "refreshFolder", "eraseFolder", "done"}
  /\ workingPath \in Nodes \cup {NoNode} /\ bFirstRunAfterWakeup \in BOOLEAN
  /\ \A t \in DOMAIN producers :
       producers[t] \in [step : {"idle", "fetch", "push", "signal"}, path : Nodes \cup {NoNode}]
  /\ m_WCDBs \in [{n \in Nodes : Kind[n] = "wcdb"} -> {"absent", "old", "current"}]
  /\ outdated \subseteq {n \in Nodes : Kind[n] = "dir"}
  /\ noWatch \cup unseen \cup notifications \cup missing \cup erased \cup overlooked \subseteq Nodes
  /\ startedInhibited \in Nat /\ events \in 0..MaxEvents

(* The worker looks at the queues without the lock, and the event is set   *)
(* behind it: still the worker never sleeps over something queued, unless  *)
(* whoever queued it is about to wake it.                                  *)
NoLostWakeup ==
  pc = "wait" /\ m_bRun /\ (m_pathsToUpdate # << >> \/ m_foldersToUpdate # << >>) =>
    wakeEvent \/ \E t \in DOMAIN producers : producers[t].step = "signal"

(* A change that is not in the cache yet will be looked at, or is below a  *)
(* blocked folder (and the end of the block will have it looked at), or    *)
(* its request came while the same path was refreshed and was erased, or   *)
(* the worker passed over it: it found a valid status in the cache or that *)
(* another thread was fetching the folder, or took the path for            *)
(* unversioned.                                                            *)
ChangesSeen ==
  \A n \in unseen : Pending(n) \/ OutOfScope(n) \/ n \in erased \cup overlooked

(* The queues hold what they should, and no change is forgotten.           *)
CrawlerInv == TypeOK /\ ChangesSeen

(* "To avoid double crawlings, remove such a crawl request here"           *)
(* (FolderCrawler.cpp:394): the flag, which all threads set, is set        *)
(* whenever there is one.                                                  *)
NoDoubleCrawl ==
  [][pc = "eraseFolder" /\ pc' # pc => workingPath \notin Range(m_foldersToUpdate')]_vars

(* "Stop the crawler starting on a new folder" (SVNStatusCache.cpp:464):   *)
(* an inhibitor that comes late lets the round finish that has begun, one  *)
(* changed path and one folder, no more.                                   *)
InhibitBound == startedInhibited <= 2

(* After Stop the worker ends, also if Stop did not wait for it and closed *)
(* the handles.                                                            *)
Terminates == ~m_bRun ~> pc = "done"

(* A refresh ends before the watcher has handed on what it caused.         *)
Late ==
  /\ pc = "erasePath" /\ pc' # pc
  /\ notifications # {} \/ producers["watcher"] # Idle

(* When the world comes to rest every change gets into the cache, but for  *)
(* the ones erased, overlooked or blocked, or the crawler is stopped.  If  *)
(* the watcher is late again and again, the crawler may be busy with the   *)
(* notifications it caused for ever: each moves its path to the queue's    *)
(* end (UniqueQueue.h:80), and so a change before it is never reached.     *)
Settles ==
  \/ []<><<Late>>_vars
  \/ <>[](\A n \in unseen : OutOfScope(n) \/ n \in erased \cup overlooked)
  \/ <>~m_bRun

(* "this is to prevent an endless loop" (FolderCrawler.cpp:282): when the  *)
(* world comes to rest the crawler does too, unless the watcher is late    *)
(* again and again.                                                        *)
Quiesces ==
  \/ []<><<Late>>_vars
  \/ <>[](pc = "done" \/ (pc = "wait" /\ m_pathsToUpdate = << >> /\ m_foldersToUpdate = << >>))

=============================================================================
