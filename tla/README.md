# TLA+ models of TortoiseSVN's status cache and job framework

TortoiseSVN is a Subversion client inside the Windows explorer. Most of its
source is user interface over the Subversion library. Its concurrent core is
**TSVNCache.exe**, one process per user that answers the explorer's questions
for the status of files and folders, and keeps the answers up to date while
working copies change under it; and **AsyncFramework**, the thread pools and
jobs behind the log, the repository browser and the revision graph. These
modules model both: of the cache its lock, its queue, the directory map, the
watcher, the crawler with what it decides from, the blocked paths and the thread
that tells the explorer; of the framework the schedulers and the life of a job.

Source paths below are relative to `src/src/`.

## 1. The system

### Components

| component | state | operations | modelled in |
|---|---|---|---|
| `CReaderWriterLock` (`Utils/ReaderWriterLock.*`) | counters of writers, readers and waiting readers; two Windows events made and closed on demand; units per thread | acquire for reading or writing with or without time-out, upgrade, release, downgrade, release all | `ReaderWriterLock`, `AbstractRWLock` |
| `UniqueQueue` (`Utils/UniqueQueue.h`) | a deque of (value, priority), a map value to priority, the next priority | `Push`, `Pop`, `erase` | `UniqueQueue`, `UniqueFifo`, `Ordered` |
| blocked paths: `m_NoWatchPaths` (`TSVNCache/SVNStatusCache.cpp`) | directory to the tick its block ends | `IsPathGood`, `BlockPath`, `UnBlockPath`, `RemoveTimedoutBlocks` | `NoWatchPaths` |
| `CFolderCrawler` (`TSVNCache/FolderCrawler.*`) | two unique queues, wake and termination event, inhibit count, hold-off, one blocked path | `AddDirectoryForUpdate`, `AddPathForUpdate`, `BlockPath`, `SetHoldoff`, the worker, `Stop` | `FolderCrawler` |
| `CShellUpdater` (`TSVNCache/ShellUpdater.*`) | a deque of paths with the flag "items added", events | `AddPathForUpdate`, the worker, `Stop` | `ShellUpdater` |
| `CWCRoots` (`TSVNCache/WCRoots.*`) | working copy root to the last write time of its `wc.db` | `NotifyChange`, `GetDBFileTime`, `AddPath` | partly, in `FolderCrawler` |
| `CCachedDirectory` (`TSVNCache/CachedDirectory.*`) | statuses of the entries of a directory, statuses of child directories, own and full status, `m_wcDbFileTime`, `m_FetchingStatus` | `GetStatusForMember`, `SvnUpdateMembersStatus`, `RefreshStatus`, `UpdateChildDirectoryStatus`, save and load | partly, in `FolderCrawler` and `DirectoryCache` |
| `CSVNStatusCache` (`TSVNCache/SVNStatusCache.*`) | map of directories under the guard (the lock above), the last answer ("mini-cache"), the blocked paths | `GetStatusForPath`, `GetDirectoryCacheEntry`, `RemoveCacheForPath`, `Refresh`, `Create`/`SaveCache`, `Stop`/`Destroy` | partly, in `NoWatchPaths`, `FolderCrawler` and `DirectoryCache` |
| `CDirectoryWatcher` (`TSVNCache/DirectoryWatcher.*`) | watched paths, watch infos, completion port, infos to delete | `AddPath`, worker, `ClearInfoMap`, `CloseInfoMap`, `CloseHandlesForPath`, `Stop`, destructor | `DirectoryWatcher` |
| pipes and window (`TSVNCache/TSVNCache.cpp`, `CacheInterface.*`) | one thread per client connection; `bRun`; the cache file and its copy | status requests and the commands CRAWL, REFRESHALL, RELEASE, BLOCK, UNBLOCK; `WinMain`, the shutdown messages | the commands, as actions of the modules whose state they change; start, shutdown and the file in `CacheProcess` |
| `CJobScheduler`, `CThreadPool` (`AsyncFramework/JobScheduler.*`) | queue of jobs, private and borrowed threads, suspended ones, starving ones, stop count, an event; the shared pool | `Schedule`, `Stop`, `Resume`, `SetThreadCount`, `RemoveJobFromQueue`, `WaitForEmptyQueue`, destructor; `TryAlloc`, `Release` | `JobScheduler` |
| `CJobBase`, `COneShotEvent` (`AsyncFramework/JobBase.*`, `WaitableEvent.*`) | flags waiting, terminated, scheduled; two events | `Schedule`, `Execute`, `WaitUntilDone`, `Terminate`, `Delete` | `JobBase` |
| `LogCache` | log cache containers | | not yet |
| `TortoiseShell`, `TortoiseProc`, `TortoiseMerge`, `TortoiseBlame`, `SubWCRev`, ... | dialogs, viewers, tools | | no |

`PROJECT.json` lists every component with its status and the reason.

### How they interact

    explorer --pipe--> InstanceThread --> CSVNStatusCache --guard--> CCachedDirectory
    clients  --pipe--> CommandThread  --> BlockPath, UnBlockPath, RemoveCacheForPath, ...
    disk --> CDirectoryWatcher --AddPathForUpdate--------+
    everybody ----------------AddDirectoryForUpdate------+--> CFolderCrawler's worker
    worker --GetStatusForMember--> svn_client_status6; NotifyChange --> CWCRoots
    worker --UpdateShell--> CShellUpdater's worker --SHChangeNotify--> explorer
    dialogs --CFuture, CAsyncCall--> CJobBase --Schedule--> CJobScheduler --borrows--> CThreadPool

Calls between the components are plain calls on the caller's thread, under
four kinds of locks: the guard (`CReaderWriterLock`), one critical section in
each of the crawler, the updater, the watcher and `CWCRoots`, one for
`m_NoWatchPaths`, and the one of each cached directory. Threads are woken by
auto-reset events that are set *after* the lock is released.

### What is hard about it

* **Wakeups.** Producers push under a lock and set an event behind it; the
  worker reads the queue sizes without the lock before it waits. In the lock,
  a waiting thread leaves the critical section before it waits on an event
  that others may reset, signal or close.
* **Time-outs against late answers.** A writer whose wait ends just as it is
  granted the lock; `Stop`, which waits four seconds and then closes the
  handles its threads wait on.
* **Feedback.** Fetching a status modifies `wc.db` and so causes the
  notification that asks for fetching the status. The code erases requests
  after a refresh and compares file times to end the loop, and each of these
  can also hit a change that nobody has looked at yet.
* **Requests dropped on purpose.** Nothing is queued below a blocked path;
  the end of the block has to make up for that.
* **Recovery on the thread that caused the failure.** A failed fetch queues
  its folder again from within the refresh that erases such requests.
* **A lock that is given up inside a call.** Deep inside the methods of a
  cached directory a missing directory is inserted; the upgrade that this needs
  gives up the read access everything above it relies on.
* **Pointers in packets and lists.** Completion packets outlive the watch infos
  they point to; jobs are deleted by whoever comes last; schedulers register
  with a pool that notifies them later.
* **Lists rebuilt while they change.** The watcher tears its handles down and
  opens them again without a lock across the whole loop.
* **Shutting down.** The window thread holds the guard while it waits for a
  crawler that may need it; threads outlive the wait, or are not waited for.
* **A file that crashes its reader.** A damaged cache file must not bring the
  process down again at each start.
* **Boundaries.** Priorities that wrap, a 32-bit "forever" compared with
  64-bit ticks, a pool without free threads, the map's order of paths.

`PROJECT.json` ("hazards") lists them at their lines, with the properties that
cover them, or the reason why none does so far.

### What makes each component correct

* lock: exclusion; exact counters; nobody sleeps who could go on; no wait on a
  closed handle; writers are preferred and not starved by readers.
* queue: each value at most once, in the order of its last push.
* blocked paths: a block lasts its time and no longer; what was missed
  meanwhile is crawled.
* crawler: a change on disk is in the cache in the end, or there is a reason
  the model can name; it does not start work while inhibited; it comes to
  rest; it stops.
* directory map: objects stay as long as somebody with access may use them;
  what is removed is removed with all that is below it; one thread at a time
  fetches the status of a directory; nobody is stuck in an upgrade.
* watcher: what shall be watched is watched in the end; noted changes are
  reported; no info is used after it is deleted, or deleted twice.
* jobs: executed once; a queued job gets a thread; whoever waits comes back and
  finds the result; nobody uses a scheduler or a job that is gone.
* process: it ends when it is told to; a damaged file crashes it once at most;
  what was saved is loaded at the next start, and what was not is not.
* shell updater: every path reported is announced; no report is lost in
  merging.

## 2. The modules

### `AbstractRWLock`, `ReaderWriterLock`, `ReaderWriterLock_proofs`

`ReaderWriterLock` follows `CReaderWriterLock` and, below it,
`CReaderWriterLockNonReentrance`. One action is one stretch between `EnterCS`
and `LeaveCS`; a wait is entered by one action and left by another
(`ReaderWoken`, `ReaderTimeout`, `WriterWoken`, `WriterTimeout`), so that
anything may happen between. The two halves of `m_map`'s DWORD are
`readerUnits` and `writerUnits`. A handle is `"null"`, `"reset"` or `"set"`;
the write event is auto-reset, and the read event is manual-reset, as in the
code. A time-out may strike at any moment of a timed wait.

`AbstractRWLock` is what the header promises: sets of readers, writers and
queued writers; a reader gets in when no writer is inside or queued.
`ImplementsAbstract` is the refinement, with the sets computed from the
threads' units and program counters.

### `UniqueFifo`, `UniqueQueue`, `CacheParts_proofs`, `Ordered`, `Ordered_proofs`

`UniqueQueue` keeps map, deque and counter apart, with the counter modulo
`SizeModulus`, and wraps where the code does. The push of a new value looks for
the wrap and rebuilds the queue; the push of a queued value does not
(`UniqueQueue.h:92`). `overflow` is history: `"wrapped"` after a queued value was
pushed with the last priority, `"shared"` once an entry got a priority that
another one has. The deque is sorted while it is `"no"`, every value has its one
entry while it is not `"shared"`, and after that nothing holds (run
`queue_wraps`); an empty queue starts anew. `MaxLength` bounds the length, which
can exceed the number of values only when it is `"shared"`. `UniqueFifo` is the
queue as its users see it. `FolderCrawler` instantiates it for both of its
queues; `ImplementsFifo` is what entitles it to, as long as no two entries share
a priority. The rebuild itself is the one step that `ImplementsFifo` leaves
open: it gives the values new priorities in the order of the map, not of the
queue.
`Ordered` enumerates a finite set of numbers in their order, as `std::map` does
its keys (here and in `DirectoryCache`) and `std::unique` the entries it keeps
(`ShellUpdater`). `CacheParts_proofs` extends this module, `ShellUpdater`,
`NoWatchPaths` and `CacheProcess`, which share no state; the first three have a
prefix before the names of their initial states, steps and specifications
(`QueueSpec`, `ShellSpec`, `BlocksSpec`) so that they can be read together.

### `NoWatchPaths`, `CacheParts_proofs`

`m_NoWatchPaths` with the time each block has left, `Expired` being the first
moment that `currentTicks > it->second`. `BLOCK` finds the working copy the
path is in by looking for `wc.db` upwards (`WCRoot`), and the disk may change
between `BLOCK` and `UNBLOCK`. `UnBlockPath` takes the lock twice, so it is two
actions; under `RemoveTimedoutBlocks`, which holds the lock throughout, it is
one. The crawler thread is cut down to waiting, looping and popping.

### `FolderCrawler`, `FolderCrawler_proofs`

The worker's loop with one step per lock or per unlocked read that matters:

| `pc` | code in `FolderCrawler.cpp` |
|---|---|
| `wait` | `WaitForMultipleObjects` (124) |
| `loop` | stop, hold-off, inhibited, first run (144-171) |
| `expire`, `reset` | test and reset of `m_blockedPath` (172-175) |
| `timeouts`, `sizes` | `RemoveTimedoutBlocks` (176), the sizes without lock (178-182) |
| `paths`, `checkPath` | take a changed path (183-199), decide what to do with it (200-331) |
| `refreshDir`, `refreshPath` | fetch the status of the folder, or of the file's folder |
| `erasePath` | erase what came meanwhile (283, 321) |
| `folders`, `checkFolder`, `refreshFolder`, `eraseFolder` | the same for the queued folders (333-399) |

Producers are two threads, `"watcher"` and `"client"`, each with a step between
`IsPathGood`, the push under the lock, and `SetEvent`. The client may also fetch
the status of a folder itself (`FetchBegins`, `FetchEnds`): it holds
`m_FetchingStatus` of the folder in between, and an inhibitor, and keeps writers
out of the cache.

`CheckPath` tells apart what the code does (200-331): excluded or blocked paths;
the journal; `wc.db`, whose time tells whether it changed; versioned folders and
files that are there; and what is gone. `SVNHelper::IsVersioned` is false for a path
that does not exist (`SVNHelpers.cpp:104`), so a versioned path that is gone goes the
way of the unversioned ones (324-331): it leaves the cache and nothing is fetched,
and lines 231-236 and 288-296 are never reached. The branch for `m_bClearMemory`
(154-158) is not modelled, as the flag is never set: the one place that would do
so (`SVNStatusCache.cpp:528`) is behind a test of what `make_unique` returned.

Of the cache the module keeps which folders and files changed after their
status was last fetched (`unseen`), and of the time stamps what decides between
the cached and a new status: the time of each `wc.db` that `CWCRoots` holds
(`m_WCDBs`: absent, old, current) and the folders whose `m_wcDbFileTime` is
another one (`outdated`). `Fetch` has the outcomes of `GetStatusForMember`:
nothing to fetch, the cached status, another thread that is fetching this folder
(`Busy`: svn is not asked and nothing is queued for it, `CachedDirectory.cpp:391-395`
and 500-501), a new status, no status, and the two kinds of failure that block the
folder (`m_blockedPath`, 20 ms, and queue it again; or
`m_NoWatchPaths`). A fetch with `Feedback` modifies the file or `wc.db` and so
causes notifications. `erased`, `overlooked` and `startedInhibited` are history
variables.

### `ShellUpdater`, `CacheParts_proofs`

The crawler's simpler sibling: a plain deque, a flag that asks for merging
neighbours, the same event and `Stop` protocol. `owed` is what the explorer has
not been told.

### `DirectoryCache`, `DirectoryCache_proofs`

`m_directoryCache`, the lists of children and `m_FetchingStatus`, and the
crawler, an asking and a commanding thread. `todo[t]` is the rest of the call a
thread is in, as a sequence of steps: the call stack of `GetStatusForMember`,
`SvnUpdateMembersStatus`, `GetStatusCallback` and `UpdateCurrentStatus`, which
call each other recursively, with one step between two places where the guard
may be given up. A step that goes on inside a method carries the directory whose
object it uses and whether that object still exists (`ok`). The guard is
`AbstractRWLock`, instantiated: what `ReaderWriterLock` is proved to implement.
`GetDirectoryCacheEntry` on an empty place needs write access (`NeedsWrite`);
with read access that is an upgrade, which goes through the queue. Once a thread
is about to use an object that is gone (`Undefined`) the behaviour stops.

`WithoutDirectory` and `RefreshFrom` follow the loops of
`RemoveCacheForDirectory` and `Refresh` over the map's order, in which
`C:\w\a.b` comes between `C:\w\a` and `C:\w\a\x`. Their arguments are all that
changes from call to call or round to round: the map, the directory or the
iterator, and the children still to be erased. Which status a directory has,
and so which branch `GetStatusForMember` takes, is left open.

### `DirectoryWatcher`, `DirectoryWatcher_proofs`

The worker (`pc`), the crawler thread that adds paths (`adding`), and the window
thread that closes handles and stops (`window`). A watch info is a slot of
memory, so that a packet may point to one that is free or taken again; its `buf`
is what a completed read holds, `pend` what Windows noted since. `excused` says
why a path need not be watched at this moment; the code has four such reasons:
a directory before it could not be opened, its read could not be repeated, the
worker's fresh infos were taken by `ClearInfoMap`, or the list changed to one of
the same size while the lock was released around `RegisterDeviceNotification`.

### `CacheProcess`, `CacheParts_proofs`

TSVNCache.exe from start to end, and started again. `main` is the place of the
main thread in `Create` (`copy` to `read`), in the message loop, in a message
(`lock`, `stop`, `wait`, `save`, `saving`, `unlock`), and in `Destroy`; `after`
is where `Stop` returns to, since three callers use it. The cache file and its
copy are absent, partly written, whole, of another version or damaged; a
damaged one is read, refused, or crashes its reader. `Crash` may come at any
step and leaves only the files. Workers and pipe threads are reduced to whether
they wait for the guard (`AbstractRWLock` again), are inside, go on or have
ended. `StopWait` may end without its worker (4 s, 4 s, 200 ms), which `gaveUp`
remembers; handles are closed either way, so a second `Stop` does not wait
again. `kept` is history: the last end saved the cache, and nothing has happened
to the file since.

### `JobScheduler`, `JobScheduler_proofs`, `JobBase`, `JobBase_proofs`

`JobScheduler` has one action per critical section of the shared pool, with what
the scheduler's own mutex hides; that mutex is held from one action to another
(`mutex`). Threads are created, run (`wpc`), suspended, lent, given back, and
notify starving schedulers in turn. A scheduler is destroyed only when it is not
stopped any more, since the `CSchedulerSuspension` that stopped it resumes it in
its own destructor (`SchedulerSuspension.h:56`). `passedOver` and `overtaken` are
history: a scheduler that was notified and still has no thread, and a client whose
event was reset between its being set and the client's coming to run.
`JobBase` is one job: its interlocked
operations and reads one by one, with the client and two worker threads in any
of its methods, again as sequences of steps (`todo`). A job leaves the queue in
three ways: a worker takes it, the client takes it out and may put it back, as
`CRepositoryLister::Enqueue` does without asking whether it has been executed
(`ScheduleAgain`), or a stopped scheduler drains it (`Drain`) and deletes it
unexecuted if it owns it. `drained` and `requeued` (put back although somebody had
claimed it) are history. Once a job is deleted in use, the behaviour stops.

## 3. The runs

Passing runs (each property has a mutant in `PROJECT.json`: a plausible fault
under which its run finds it violated):

| run | what it shows | bounds | states |
|---|---|---|---|
| `rwlock` | exclusion, the code's `_ASSERT`s, no lost wakeup, the inductive invariant of the proofs with the types, exact counters and live handles; refinement of `AbstractRWLock`; queued writers get in, and readers do when no more writers come | 3 threads, 2 units each | 52,325 |
| `queue` | map and deque stay consistent through the rebuild, and until two entries share a priority (`RepInv`); refinement of `UniqueFifo` | 3 values, modulus 5, length 4 | 167,111 |
| `blocks` | a block that times out has its folder crawled; every timed block ends if the crawler is kept busy | 5 directories, 2 blocks | 137,796 |
| `crawler` | wakeups, changes accounted for, inhibitor bound, no double crawl; the cache catches up; the worker stops; the feedback loop ends unless the watcher is late again and again | 5 paths, 2 outside events, with feedback and failures | 562,386 |
| `shell` | unmerged neighbours are flagged, no path lost by merging, every report announced; the worker stops | 2 threads, 2 paths and the empty one, 4 reports | 33,881 |
| `directories` | one fetcher per directory; objects disappear only under threads that wait for an upgrade; removals are complete; every call ends | 4 directories, 3 threads, 2 calls, 1 change outside | 124,212 |
| `watcher` | infos are used and deleted properly; what shall be watched is watched; noted changes are reported; `Stop` comes back | 4 directories, 2 adds, 1 close, 2 changes, 1 failure | 184,212 |
| `lifecycle` | a damaged file crashes the process once at most; what was saved is loaded; no worker that `Stop` has waited for uses the deleted cache; shutting down ends | 2 starts, 2 faults of files, 1 asking thread | 259,640 |
| `jobs` | threads, debts and starvation are accounted for, jobs are not stranded, no use of a scheduler that is gone; jobs get done and waits end | 2 schedulers, pool of 1 or 2, up to 5 jobs, 1 stop, 1 other call | 210,855 |
| `jobbase` | executed once, nobody sleeps over an event, not deleted while queued, run or waited for unless put back after it was claimed; `Delete` and `WaitUntilDone` come back | 1 client, 2 workers | 5,192 |

Two runs end in a violation, a disagreement between the code and a sentence of
the repository (quoted under "findings" in `PROJECT.json`):

| run | what the code does |
|---|---|
| `job_requeued` | a query that somebody has executed inline is taken out of the queue, put back (`RepositoryLister.cpp:525`) and deleted while it is queued: it is deletable since it was taken out, and `IJob.h:92` wants it to be called back first |
| `queue_wraps` | a queued value is pushed with the last priority (`UniqueQueue.h:92`); the next pushes share priorities with what is queued, and a value comes to be in the queue twice |

Other departures the models show. They are stated inside passing properties, as
the exceptions these name, or kept out by a bound, and have no run of their own:

* The block of a nested folder that times out takes the block of the working
  copy around it with it (`SVNStatusCache.cpp:388`). A block outlives its time as
  long as nothing wakes the crawler (`FolderCrawler.cpp:176`), which is why
  `BlockTimesOut` is checked under `BusySpec`. The "permanent" blocks end
  after 49.7 days of uptime (`SVNStatusCache.cpp:242`).
* The erase after a refresh takes the request of a newer change with it
  (`FolderCrawler.cpp:398`, `erased`); the crawl at the end of a block is content
  with the cached status (`CachedDirectory.cpp:219`, `overlooked`). A crawl of a
  folder that another thread is fetching leaves it to that thread, which may
  have asked svn before the change (`CachedDirectory.cpp:391-395`), and a
  versioned file that is gone is taken for unversioned, so that its folder is not
  fetched for it (`FolderCrawler.cpp:324-331`); both are in `overlooked` too.
* A failed fetch queues its folder once more (`CachedDirectory.cpp:601`), from
  within the refresh whose end erases that very request (`FolderCrawler.cpp:398`):
  nothing repeats the fetch, although the comment above it says "make sure that
  this status times out soon". A change seen by nobody is then in `erased`.
* After `WM_QUERYENDSESSION` any posted message ends the loop, and the process
  ends without `SaveCache` (`TSVNCache.cpp:309`, 192). The cache file is gone
  then, since `Create` deletes it (`SVNStatusCache.cpp:86`): as after a crash,
  the next start begins with nothing.
* Threads that `Stop` gave up waiting for (`gaveUp`), and all pipe threads, go
  on while `Destroy` deletes the cache they use (`SVNStatusCache.cpp:221`). A
  write error in `SaveCache` deletes it under the lock of its own guard, which is
  released afterwards (`SVNStatusCache.cpp:210`, `TSVNCache.cpp:323`).
* A cache that could not be loaded is replaced by one without
  `SetFolderCrawler` (`SVNStatusCache.cpp:160`, line 59 makes the only call): its
  watcher reports nothing (`m_FolderCrawler` in `ChangesReported`).
* `GetDirectoryCacheEntry` deletes what is in the map when it gets write access
  (`SVNStatusCache.cpp:499`), also the object another thread has inserted while
  it waited, not only the remains its comment speaks of.
* A removed directory may leave directories below it in the map that are not in
  its list of children, when another name sorts between
  (`SVNStatusCache.cpp:437-453`); `Refresh` skips the first directory of the map
  after a removal (275). Both are the exceptions in `RemovalsComplete`.
* The watcher: changes during a rebuild are lost (`DirectoryWatcher.cpp:302`); a
  directory that cannot be opened ends the loop over the list (317); a list
  changed to one of the same size is not noticed (341); `AddPath` does not add a
  path whose name only continues that of a directory above a watched one;
  `CloseHandlesForPath` blocks only the last of several paths (589-594).
* A thread that waits for the upgrade of the guard has given up its read access
  (`SVNStatusCache.cpp:491`), and a command may delete the object whose method it
  is in. `PointersKept` excepts threads that wait for an upgrade.
* `OnUnSchedule` resets `scheduled` before it looks at the events of the job
  (`JobBase.cpp:40-44`): in between the other side may set `deletable` and the
  client may delete the job. `NotDeletedInQueue` allows for these last steps
  (`Endings`).
* `ThreadAvailable` borrows a thread only for a scheduler that is stopped
  (`JobScheduler.cpp:501` tests `stopCount` for not being 0): `passedOver`. A
  scheduler without private threads may so keep jobs until the next `Schedule`,
  and its destructor, which unregisters first, may wait for them for ever;
  `JobsGetDone` and `WaitsEnd` speak of schedulers with private threads.
* `StopStarvation` loops with the scheduler's mutex held until it finds the
  scheduler in the pool's list, while the thread that has taken it out waits for
  that mutex (`JobScheduler.cpp:369`): `Entangled`. Draining a stopped scheduler
  deletes owned jobs that were never executed (535), against the assertion in
  `~CJobBase` (`JobBase.cpp:58`): `CodeAssertions` says that this is the one way it
  fails, and that then it always does.
* `Schedule` resets the event of `WaitForEmptyQueue` whenever the queue was empty
  (`JobScheduler.cpp:480`); when the scheduler is stopped and idle, nothing sets it
  again before the next `Resume`. A client that was woken but has not run yet then
  sleeps on (`overtaken`), which takes a second client. The run has one client, so
  that `overtaken` stays empty and the properties are checked without this
  exception; the theorem is about any number of them. (The inductive invariant was
  checked with two clients as well, 1.8 million states, which takes too long to be
  repeated at every check.)

So `ChangesSeen` and `Settles` name these ways of losing a change (`erased`,
`overlooked`, below a blocked folder, excluded) and say there is *no other*.

Three more of the crawler:

* The inhibitor is tested once per round, at the top. One that is set later
  does not stop what the round has not started yet; `InhibitBound` says how
  much that is at most.
* `NotifyChange` takes a real change of `wc.db` for none when a status query has
  read the new time before it. Such changes are counted in `overlooked`.
* When the watcher hands on what a refresh caused only after the erase behind
  it, the refresh is started again, and if it is always late this has no end.
  Since a request that is pushed again moves to the end of the queue
  (`UniqueQueue.h:80`), such paths can also keep each other from ever being
  reached. This is the disjunct `[]<><<Late>>_vars` of `Settles` and `Quiesces`.

### Why the bounds are enough

* Three threads in the lock: one inside, one queued and one that times out or
  overtakes; the counters are told apart up to 3. The proofs drop the bound.
* The queue's counter wraps at 5 with 3 values: two values can be queued across
  the wrap that a re-push causes, and all three across a rebuild. Four entries are
  what it takes to see a duplicate pushed again.
* The blocked paths: a working copy, a nested one, a folder in it, a directory
  elsewhere and a special one; short, default and permanent times differ by
  one tick at least, in every order.
* The directory map: a folder with one below it, and a sibling whose name sorts
  between; the map starts without the root, so that upgrades insert it. Two calls
  are enough for one thread to pass another in the guard's queue at any step of
  either; the third thread makes either of them a command.
* The watcher: a drive, a working copy in it with a folder, and a working copy
  whose name continues that of the first: every case of `AddPath`. Failures
  include loading the cache file.
* The schedulers: one without and one with a private thread, as the revision graph uses
  them, so that private threads run out and shared ones are handed over.
* The process: a start that crashes or saves, and one after it; `path` may hold
  a saved cache at the beginning, so two starts are a third one's past. Two
  faults are a damaged file and a file operation that fails, in either order.
  With a command thread besides the asking one the run passes as well (1,146,455
  states), and takes too long to be repeated at every check.
* One job has two events and three threads that may run, wait or delete; how
  often it is taken out of the queue and put back is not bounded.
* The crawler: a working copy root with its `wc.db`, a folder with a file, and
  an unversioned path: one path of every kind its code tells apart except
  journals (checked in `CheckPath` like other admin files). Two outside
  events allow a change and a block, a change and a fetch of the client's or a
  failure, or two changes, at any steps of the worker; the ends of blocks,
  inhibitors and fetches and the unblocking are not counted, nor is what the cache
  does by itself.
* `MaxBlocks`, `MaxAdds`, `MaxRecursion`, `MaxEvents`, `MaxCalls`, `MaxDisk`,
  `MaxCloses`, `MaxChanges`, `MaxFails`, `MaxJobs`, `MaxStops`, `MaxStarts` and
  `MaxFaults` are the bounds
  of counters; no other action is bounded.

Deadlock is checked but for the models whose events outside are bounded and
whose threads then end or have nothing to do (crawler, updater, watcher, jobs,
directories, process): that nobody is stuck is a liveness property there.

### Fairness

Every thread runs (weak fairness of each worker, of the producers' remaining
steps, of the steps of `Stop` after its first, and of the lock's threads that can
proceed), and time passes (`Tick`,
`BlockEnds`, `HoldoffEnds`); inhibitors are released because they are scoped
objects. Nothing that comes from outside is fair, with one exception:
`BusySpec` assumes that requests for directories outside the blocked working
copies keep coming, which is the very question of that run. In `DirectoryCache` it
is enough that of the threads that can go on one does. `WatchedInTheEnd` assumes
that the port is silent for ten minutes now and then, `JobsGetDone` that every
`Stop` is followed by a `Resume`, and `ShutdownEnds` that a writer who waits for
the guard gets it in the end, which `WriterProgress` says of the lock, and that
`WM_ENDSESSION` follows `WM_QUERYENDSESSION`; no worker need end for it. No fairness makes
the watcher quick: `Settles` and `Quiesces` except the behaviours in which it is
late infinitely often. The lock's fairness says that whoever is inside leaves in
the end and that a signalled wait returns.

## 4. What is proved

TLAPS checks these for every value of the constants (the ASSUMEs of each module
only say that the constants have their types, that sets of threads are finite,
that the paths form a tree, and of the schedulers that each may have at least one
thread, private or borrowed, and that the threads named in the model suffice for
all). Eight modules hold the proofs.

`ReaderWriterLock_proofs`: `IInv` is inductive, and with it type correctness
(no counter ever becomes negative), exclusion, the assertions of the code, no
lost wakeup and no wait on a closed handle, and the refinement of
`AbstractRWLock`. The properties are not inductive by themselves: exclusion
rests on tests of counters, so `CountersExact` ties the counters to the sets of
threads by cardinality; wakeups rest on when an event may be signalled, so
`EventDiscipline` ties the two events to the same sets. The proof first says what each
action does to the sets (`InternalEffect`, `MoveEffect`, `BranchEffect`), then
that the counters follow (`FollowsCard`), then that every part of the invariant
holds of the new sets (`SetInvStep`, `ThreadInvStep`).

`FolderCrawler_proofs`: `NoLostWakeup` with `WakeInv`, which adds that
producers are at a step of their code and that the handles are closed only
after `m_bRun` is cleared; and `InhibitBound` with an invariant that says, for
each step of the worker, how much may have been started since inhibitors exist.
`CrawledOnce` (`NoDoubleCrawl`) rests on `FlagTells`: from the moment the worker
clears the flag behind a pop, a folder that is queued again sets it. `CrawlerTypes`
and `NothingForgotten` (`CrawlerInv`) share an invariant:
`TypeInv` (the queues hold paths, each once, whatever was pushed, moved or erased;
the worker's variables fit its step) and, for each change not seen yet, one of
three: `Queued` (Windows has noted it, a thread is about to push it, or a crawl of
something queued will reach it), `AtWork` (the worker is between taking a path that
reaches it and the fetch), or `Accounted` (out of scope, or lost in a known way).
`NothingForgotten` assumes `bRecursive`, the setting `RecursiveOverlay`, which is
on by default and in the run: without it TLC finds that a change deep below a
folder that is blocked and unblocked is forgotten,
because `UnBlockPath` only has the folder itself crawled.

`DirectoryWatcher_proofs`: `WatcherInv` and `AllWatched`, for every tree of
directories and any number of events. Neither is inductive. The invariant `IInv`
says where the infos are (`Owned`: an info that is in use is in the map or about to
be deleted, and there are never some of both at once, because only `AddPath`, the
window thread and the commands move them, and the worker deletes what they moved before
it makes new ones); whose packets may come (`PacketsKnown`); that the rebuilding loop
has made exactly one info for each path it has passed, or finds the map empty and
its count not (`Rebuilding`: this is why comparing two sizes is enough to notice a
teardown); and that the infos in the map are those of the paths passed so far
(`Watching`). That there is memory for the next info is a pigeonhole argument: the
list has no path twice. The constants: `Dirs` is finite, the parents form a tree,
what is versioned is in `Dirs`.

`CacheParts_proofs`: `ProcessInv`, for any number of pipe threads, starts and
faults. None of its parts is inductive. That a damaged file crashes its reader
once only needs `CrashInv`: each damaged file that may still be read, the original
or the copy, is paid for by a fault that has not led to a crash yet (two of them
by two). That the saved cache is loaded needs `LoadInv` and `KeptInv`, which
follow it through the copy and the deletion of the original. That nobody uses the
deleted instance needs `StopInv` and `AfterInv`: a worker whose handles are closed
has ended or was given up, and every path to the deletion leads through a `Stop`
that leaves no handle open.

`RepInv` of `UniqueQueue` and the refinement of `UniqueFifo`, for any values
and any width of the counter, wherever it wraps. `QueueIInv` says it entry by
entry: map and deque have the same values and priorities, and no two entries the
same one (`Represents`), until entries share a priority; and they are sorted, all
below the counter (`Sorted`), until a re-push takes the last one. Only distinct
priorities are needed for what the operations do: the
search by priority removes the very entry of the value, and what it removes is
what `RemoveFirst` removes from the values. When the counter wraps there is room
for the rebuilt queue because there are fewer values than priorities (`Bounds`).
As long as the queue is sorted a new priority is free, being greater than all; after
the wrap of a re-push it may be taken, and `overflow` says at once whether it is.

And `QueueInv` of the shell updater, which is inductive. The work is in the merge:
`RunOf` finds for each entry the first one of its run of equal neighbours, which
`std::unique` keeps, so that no path disappears; `UniqueEffect` adds that no equal
neighbours are left. What is owed to the explorer is thus always queued or in the
worker's hands.

And of the blocked paths `BlocksTypeOK`, which is inductive (`Max` and `Min` of a
finite set have to be shown to be what their names say), and `CrawlAfterTimeout`.
The latter needs no invariant but an argument about trees: what `RemoveTimedoutBlocks`
removes are the first directory that has timed out and the root of the working copy
it is in. `ChainLine` (in `Ordered_proofs`) says that the directories above another
are in one line, so the closest one with a `wc.db` exists (`RootFacts`) and comes
before it. Had the root timed out too, it would have been the first. So the root's
block was not over, and what is removed with its time up is queued, or below
another block. The theorem holds for any tree, any set of roots, and any
time-outs, short ones and "forever" in any order.

`DirectoryCache_proofs`: `CacheInv` and `PointersKept`, for any number of threads,
directories and calls. The hard part is that a call is a stack of steps of any
depth, and that a step of one thread marks steps deep in the stacks of others.
`EndsLast` keeps a stack in order: what needs write access alone comes last, and a
directory that the crawler is about to remove is not used afterwards. `Live` says
that every object a thread still means to use, and has not lost, is in the map;
`Admitted` that only readers, writers and waiting threads have such steps at all,
so that `GuardOK` (one writer and then no reader) leaves, at a deletion, only
threads that wait; `Asking` that whoever waits has no pointer to the object it is
about to replace. `Fetching` ties each flag to the one place in the one stack where
its fetch ends, provided the object is still the one the flag belongs to: when the
object is deleted, flag and place lose each other in the same step
(`DeletedFetching`), so that a second fetch of the directory, on a new object, is
not ended by the first. That `PointersKept` follows is counting: a step with read
access adds no lost pointer (`DanglingThen`), and neither does a deletion for a
thread that is not queued (`DeletedDangling`). A thread that waits for an upgrade may
lose what it points to: nothing is claimed of it.

`BelowIsRemoved` (`RemovalsComplete`), for any tree and any contents of the lists of
children. `RemoveCacheForDirectory` calls itself for children and for whatever
follows in the map, and its second loop looks at the map its inner calls leave, so
that first has to be shown what `WithoutDirectory` is at all. `ChildrenOK`, a part of
the invariant, says that children come behind their directory in the map's order.
So every call has a `rank` above the ranks of its inner calls: how far its
directory is from the end of the order, then how many children and how much of
the map are left (`Descends`; the inner call of the second loop shrinks the map,
`Shrinks`). By `Recursion` the equation then has a solution, and the function
satisfies it (`RemovalDefined`). `RemovalClears` takes a wrong call of the lowest
rank and finds that it ended its second loop, where what follows the directory is
not below it. `Refresh` is treated alike: each round shrinks the map or moves the iterator on
(`Rounds`), and what it has passed is allowed or the first of the map (`Passed`).

`Ordered_proofs`: what the queues are built from (pushing, erasing, selecting
places of a sequence), that the function `Chain` of a tree exists, stays in the
tree and is a line (`ChainLine`, of which `Greatest` finds the lowest member with
a property), and that `InOrder` enumerates every finite set of integers. There is no
induction in it: the place of an element is the number of elements that are not
greater, which makes an increasing sequence, and one of that length leaves no
element out. Nor is there in `Recursion`: a recursive definition whose inner calls
have a lower rank has a solution, as the smallest rank up to which no function
solves it cannot exist; `LeastRank` finds the smallest counterexample to what is
claimed of all arguments.

`JobBase_proofs`: `JobInv`, for any number of threads of the scheduler. A thread
works off a sequence of steps, so `Control` says which step may follow which
(`Follows`) and how many are left at most (`Height`); with it the other parts only
speak of the step a thread comes to next (`First`). `Places` is what keeps the job
from being run and deleted at once: it is with the client, in the queue or with one
thread of the scheduler, and `scheduled` says so but for the moments around its
two exchanges. `Execution` lets one thread through the exchange of `waiting`;
`Deletion` says that whoever sets `deletable` has seen the end of both the
execution and the scheduling, in either order, and that a deletable job is not
scheduled unless it was put back when somebody had claimed it; `Ownership` that a job
that was given away is with nobody else; `Handles` that the state of an event is set
before its handle is signalled, and looked at after the handle is made. With them
`ResultThere` (`ResultIsThere`) needs `ExecutedOnce`: the event for the end of the
execution is set only after the job has run or was terminated, and is never reset.

`JobScheduler_proofs`: `SchedulerInv`, for any number of schedulers, threads,
clients and jobs. Hardly a part of it is inductive by itself, because most speak of a
scheduler whose mutex is free, or of threads that are at rest, while `AssignJob`,
`Release` and `ThreadAvailable` hold one scheduler's mutex across several critical
sections of the pool and take that of another in between. The invariant `IInv`
therefore follows them inside:

* `PlaceInv` puts every thread into exactly one place and says to whom it belongs;
  `HoldInv` which thread or client holds which mutex and how far it has come, so
  that two of them never are inside one scheduler.
* `CountInv` and `PoolInv` count threads on both sides: what a scheduler runs, keeps,
  may still create and is about to pay back is what it owns and owes, and what the
  pool has handed out is what all schedulers owe. `Release` takes a thread off the
  pool's books before the scheduler's, hence the terms `Pays` and `Paying`. The sums
  are cardinalities of sets of pairs (`Each`), as there is no induction. It follows
  that `Release` never finds the pool full: the branch that deletes the thread it is
  running on (`JobScheduler.cpp:151`, `"endsItself"`) is never taken.
* `DebtInv`: who owes has no private thread left over, because private threads are
  taken first and debts are paid before a thread is suspended.
* `StarvingInv`: a starved scheduler is in the pool's list, or in the hands of the
  one thread that has taken it out, or of the one client that is about to put it
  in, and never two of these. So a scheduler that is gone is in nobody's hands.
* `CallInv`, `ClientInv` and `WaitInv`: what a client in the middle of a call has
  already brought about, that what it uses is not gone, and that somebody runs who
  will set the event it waits for.

The proof goes action by action and, for each, part by part; what an action does
not touch is settled by one lemma per part (`CountFrame` and its like).

Every safety property of a passing run, invariant, action property or refinement, is
thereby a theorem. Only model-checked is liveness (`ReaderProgress`, `Settles`,
`CallsEnd` and the like), for the fairness of section 3.

## 5. What is left out

* The status values and how they are combined along the tree; in `DirectoryCache`
  every branch that depends on one is open. The statuses the shell is told about.
* In `FolderCrawler` the guard around the crawler's accesses to the cache (that
  is `DirectoryCache`), and the watcher: there every change is reported, once or
  more, and may be late by any time.
* Requests of the explorer for blocked paths, which only read an object under
  read access; the one-entry cache of `GetStatusForPath`.
* The overflow of a watch buffer, which reports the root only.
* `WaitForSomeJobs`, which nobody calls; the clock of the time-outs in
  `AsyncFramework` (a time-out may strike at any time); the order of jobs in a
  queue; `CFuture` and `CAsyncCall`, which pass on to `CJobBase`.
* What a thread does with a cache that is deleted; the waiting for connections
  (`PipeThread`, `CommandWaitThread`); the client in the explorer; the entries of
  the cache file (`SaveToDisk`, `LoadFromDisk`).
* What `UniqueQueue` does once the bound `MaxLength` is reached, which only a
  queue whose entries share priorities does.
* Of a crawl that finds another thread fetching: that it empties the folder's
  entries under that thread (`CachedDirectory.cpp:383-388`), so that its answer may
  be incomplete. Of a client's query that finds the crawler fetching: that it
  resets `m_wcDbFileTime` (394), after which the folder is fetched once more.
* Jobs that a scheduler's own thread schedules there (`Clients` and `Workers` of
  `JobScheduler` are disjoint).
* `ClearCache` and the crawler's call of it for `m_bClearMemory`
  (`FolderCrawler.cpp:154-158`), a flag nothing sets (`SVNStatusCache.cpp:528`).
* Time is not measured in `FolderCrawler`: hold-off and blocks end at some
  moment. `DBTIMEOUT` has passed or not at each query (`MayRead`).
* Names: paths are ranks in the order of `CTSVNPath`; case and 8.3 names are
  not told apart. `IsAncestorOf` of an empty path is left out; an empty special
  folder would block UNC paths.
* A wait that fails for another reason than closed handles.

## 6. Plan

Done: the lock, the queue, the blocked paths, the crawler, the shell updater, the
directory map, the watcher, the process with its shutdown and its file, the
schedulers and jobs, and the proofs above. What
would come next, in this order:

1. Status values in `DirectoryCache`: `UpdateChildDirectoryStatus` and
   `UpdateCurrentStatus` against the abstract specification that the full status
   of a folder is the most important one below it.
2. `WCRoots` as a module with roots that come and go, refined by the three
   times `FolderCrawler` tells apart.
3. `CachePipe`: `PipeThread` and `CommandWaitThread`, the client's retry in
   `RemoteCacheLink`, the one-entry cache of `GetStatusForPath`.
4. Pure operators of `LogCache` and the undo stack of TortoiseMerge.

To prove next: the invariants of those modules. What is not proved of the modules
there are is liveness, which is out of the prover's reach.

### Not modelled

The dialogs, viewers and command line tools, the wrappers of the Subversion
library, resources, installer and everything under `ext` are user interface,
formatting of data or third-party code: they keep no protocol state of their own
that two actors change, which is what these models are about. Most of the lines
of the repository are of that kind.

## 7. Running it

    tlc -workers 2 -config MCFolderCrawler.cfg MCFolderCrawler
    tlapm FolderCrawler_proofs.tla

Each run of `PROJECT.json` names its module and configuration.
