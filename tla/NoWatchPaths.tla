----------------------------- MODULE NoWatchPaths -----------------------------
(***************************************************************************)
(* The folders TSVNCache must not crawl: CSVNStatusCache::m_NoWatchPaths   *)
(* (src/src/TSVNCache/SVNStatusCache.cpp), filled by the BLOCK command of  *)
(* a client, by a failed status fetch and by the constructor, emptied by   *)
(* the UNBLOCK command and, when the time is up, by the crawler thread.    *)
(*                                                                         *)
(* m_NoWatchPaths holds absolute times; here the time that is left, where  *)
(* Expired is the first moment with GetTickCount64() > time.  Of the       *)
(* crawler this module has what the blocks need: whether its thread is in  *)
(* its loop, its wake event and the set of queued folders.                 *)
(*                                                                         *)
(* A directory is its rank in CTSVNPath's order.                           *)
(***************************************************************************)
EXTENDS Integers, FiniteSets, FiniteSetsExt, Functions

CONSTANTS
  Dirs,              \* directories, as ranks
  Parent,            \* Dirs -> Dirs \cup {NoDir}: GetContainingDirectory
  NoDir,             \* the empty path
  WCDirs,            \* the directories clients work on
  SpecialDirs,       \* blocked by the constructor (Windows, Fonts, ...)
  DefaultTimeout,    \* BLOCK_PATH_DEFAULT_TIMEOUT
  ShortTimeouts,     \* the 5 s and 20 s of SvnUpdateMembersStatus
  Forever,           \* uptime DWORD(-1), the constructor's "forever"
  MaxBlocks          \* bound on the number of BlockPath calls

ASSUME DirsAreRanks ==
  /\ Dirs \subseteq Int /\ IsFiniteSet(Dirs) /\ NoDir \in Int \ Dirs
  /\ WCDirs \subseteq Dirs /\ SpecialDirs \subseteq Dirs
ASSUME ParentIsTree ==
  /\ Parent \in [Dirs -> Dirs \cup {NoDir}]
  /\ \A d \in Dirs : Parent[d] # NoDir => Parent[d] < d
ASSUME Times ==
  /\ DefaultTimeout \in Nat /\ Forever \in Nat /\ MaxBlocks \in Nat
  /\ ShortTimeouts \subseteq Nat /\ IsFiniteSet(ShortTimeouts)

Expired == -1

VARIABLES
  m_NoWatchPaths,   \* directory |-> time left
  hasDb,            \* the directories with .svn/wc.db
  unblocking,       \* UnBlockPath of the command thread, between its locks
  crawlerRuns,      \* "waiting", "looping" or "popping"
  m_hWakeEvent,        \* m_hWakeEvent is signalled
  crawl,            \* m_foldersToUpdate
  blocks            \* BlockPath calls so far

blocksVars == <<m_NoWatchPaths, hasDb, unblocking, crawlerRuns, m_hWakeEvent, crawl,
          blocks>>

(* The constructor.  The machine may have been up for any time.            *)
BlocksInit ==
  /\ \E left \in Expired..Forever : m_NoWatchPaths = [d \in SpecialDirs |-> left]
  /\ hasDb \in SUBSET WCDirs
  /\ unblocking = NoDir
  /\ crawlerRuns = "waiting"
  /\ m_hWakeEvent = FALSE
  /\ crawl = {}
  /\ blocks = 0

(* The directory and all above it, up to the drive.                        *)
Chain[d \in Dirs] == {d} \cup IF Parent[d] = NoDir THEN {} ELSE Chain[Parent[d]]

GoodIn(noWatch, d) == Chain[d] \cap DOMAIN noWatch = {}

(* No blocked directory is an ancestor of the path.                        *)
IsPathGood(d) == GoodIn(m_NoWatchPaths, d)

(* The closest directory with a wc.db, NoDir if there is none.             *)
WCRoot(d) ==
  IF Chain[d] \cap hasDb = {} THEN NoDir
  ELSE CHOOSE r \in Chain[d] \cap hasDb : Chain[d] \cap hasDb \subseteq Chain[r]

Without(noWatch, S) == Restrict(noWatch, DOMAIN noWatch \ S)

(* CFolderCrawler::AddDirectoryForUpdate                                   *)
AddFolderForCrawling(noWatch, d) ==
  /\ crawl' = IF GoodIn(noWatch, d) THEN crawl \cup {d} ELSE crawl
  /\ m_hWakeEvent' = (m_hWakeEvent \/ GoodIn(noWatch, d))

-----------------------------------------------------------------------------
(* CSVNStatusCache::BlockPath *)

SetBlock(d, time) ==
  /\ blocks < MaxBlocks
  /\ blocks' = blocks + 1
  /\ m_NoWatchPaths' = [e \in DOMAIN m_NoWatchPaths \cup {d} |->
                          IF e = d THEN time ELSE m_NoWatchPaths[e]]
  /\ UNCHANGED <<hasDb, unblocking, crawlerRuns, m_hWakeEvent, crawl>>

(* TSVNCACHECOMMAND_BLOCK: the working copy the path is in, or the path.   *)
BlockCommand(d) ==
  SetBlock(IF WCRoot(d) = NoDir THEN d ELSE WCRoot(d), DefaultTimeout)

(* A status fetch failed: the directory only, for a short time.            *)
BlockSpecific(d, timeout) == SetBlock(d, timeout)

-----------------------------------------------------------------------------
(* CSVNStatusCache::UnBlockPath *)

(* TSVNCACHECOMMAND_UNBLOCK, first lock: the block of the working copy.    *)
UnblockCommand(d) ==
  /\ unblocking = NoDir
  /\ m_NoWatchPaths' = Without(m_NoWatchPaths, {WCRoot(d)})
  /\ unblocking' = d
  /\ UNCHANGED <<hasDb, crawlerRuns, m_hWakeEvent, crawl, blocks>>

(* Second lock: the block of the path itself, then a crawl request.        *)
UnblockCommandEnd ==
  /\ unblocking # NoDir
  /\ m_NoWatchPaths' = Without(m_NoWatchPaths, {unblocking})
  /\ AddFolderForCrawling(m_NoWatchPaths', unblocking)
  /\ unblocking' = NoDir
  /\ UNCHANGED <<hasDb, crawlerRuns, blocks>>

TimedOut == {d \in DOMAIN m_NoWatchPaths : m_NoWatchPaths[d] = Expired}

(* Fault: the entry that timed out goes without a crawl request.           *)
RemoveTimedoutBlocks_NoCrawl ==
  IF TimedOut = {}
  THEN UNCHANGED <<m_NoWatchPaths, m_hWakeEvent, crawl>>
  ELSE LET d == Min(TimedOut) IN
       /\ m_NoWatchPaths' = Without(m_NoWatchPaths, {WCRoot(d), d})
       /\ UNCHANGED <<m_hWakeEvent, crawl>>

(* Fault: only the block of the working copy is removed.                   *)
RemoveTimedoutBlocks_RootOnly ==
  IF TimedOut = {}
  THEN UNCHANGED <<m_NoWatchPaths, m_hWakeEvent, crawl>>
  ELSE LET d == Min(TimedOut) IN
       /\ m_NoWatchPaths' = Without(m_NoWatchPaths, {WCRoot(d)})
       /\ AddFolderForCrawling(m_NoWatchPaths', d)

(* RemoveTimedoutBlocks holds the lock throughout.  It stops at the first  *)
(* entry that UnBlockPath removes; that takes the block of the working     *)
(* copy around the entry with it.                                          *)
RemoveTimedoutBlocks ==
  IF TimedOut = {}
  THEN UNCHANGED <<m_NoWatchPaths, m_hWakeEvent, crawl>>
  ELSE LET d == Min(TimedOut) IN
       /\ m_NoWatchPaths' = Without(m_NoWatchPaths, {WCRoot(d), d})
       /\ AddFolderForCrawling(m_NoWatchPaths', d)

-----------------------------------------------------------------------------
(* CFolderCrawler::WorkerThread, as far as it concerns the blocks *)

CrawlerWakes ==
  /\ crawlerRuns = "waiting"
  /\ m_hWakeEvent
  /\ m_hWakeEvent' = FALSE
  /\ crawlerRuns' = "looping"
  /\ UNCHANGED <<m_NoWatchPaths, hasDb, unblocking, crawl, blocks>>

CrawlerLoops ==
  /\ crawlerRuns = "looping"
  /\ RemoveTimedoutBlocks
  /\ crawlerRuns' = "popping"
  /\ UNCHANGED <<hasDb, unblocking, blocks>>

(* A queued folder is crawled, or dropped when it is not good.             *)
CrawlerPops ==
  /\ crawlerRuns = "popping"
  /\ IF crawl = {}
     THEN crawlerRuns' = "waiting" /\ UNCHANGED crawl
     ELSE /\ \E d \in crawl : crawl' = crawl \ {d}
          /\ crawlerRuns' = "looping"
  /\ UNCHANGED <<m_NoWatchPaths, hasDb, unblocking, m_hWakeEvent, blocks>>

Crawler == CrawlerWakes \/ CrawlerLoops \/ CrawlerPops

-----------------------------------------------------------------------------
(* The rest of the world *)

(* Some other part of the cache asks for a crawl.                          *)
RequestCrawl(d) ==
  /\ AddFolderForCrawling(m_NoWatchPaths, d)
  /\ UNCHANGED <<m_NoWatchPaths, hasDb, unblocking, crawlerRuns, blocks>>

(* A working copy is checked out or deleted.                               *)
DiskChanges(d) ==
  /\ blocks < MaxBlocks
  /\ hasDb' = IF d \in hasDb THEN hasDb \ {d} ELSE hasDb \cup {d}
  /\ UNCHANGED <<m_NoWatchPaths, unblocking, crawlerRuns, m_hWakeEvent, crawl,
                 blocks>>

(* Fault: the time left runs on below the end.                             *)
Tick_RunsOn ==
  /\ m_NoWatchPaths' = [d \in DOMAIN m_NoWatchPaths |-> m_NoWatchPaths[d] - 1]
  /\ UNCHANGED <<hasDb, unblocking, crawlerRuns, m_hWakeEvent, crawl, blocks>>

Tick ==
  /\ \E d \in DOMAIN m_NoWatchPaths : m_NoWatchPaths[d] # Expired
  /\ m_NoWatchPaths' = [d \in DOMAIN m_NoWatchPaths |->
                          IF m_NoWatchPaths[d] = Expired THEN Expired
                                                         ELSE m_NoWatchPaths[d] - 1]
  /\ UNCHANGED <<hasDb, unblocking, crawlerRuns, m_hWakeEvent, crawl, blocks>>

BlocksNext ==
  \/ Crawler \/ Tick \/ UnblockCommandEnd
  \/ \E d \in WCDirs :
       \/ BlockCommand(d) \/ UnblockCommand(d) \/ DiskChanges(d)
       \/ \E timeout \in ShortTimeouts : BlockSpecific(d, timeout)
  \/ \E d \in Dirs : RequestCrawl(d)

BlocksSpec == BlocksInit /\ [][BlocksNext]_blocksVars

(* Time passes and the threads of the cache run.                           *)
BlocksFairSpec == BlocksSpec /\ WF_blocksVars(Tick) /\ WF_blocksVars(Crawler) /\ WF_blocksVars(UnblockCommandEnd)

(* Besides, directories outside the working copies keep the crawler busy.  *)
BusySpec ==
  /\ BlocksFairSpec
  /\ SF_blocksVars(\E d \in Dirs \ (WCDirs \cup SpecialDirs) : RequestCrawl(d))

-----------------------------------------------------------------------------
(* Blocks are on directories and their time is bounded.                    *)
BlocksTypeOK ==
  /\ DOMAIN m_NoWatchPaths \subseteq Dirs
  /\ \A d \in DOMAIN m_NoWatchPaths :
       m_NoWatchPaths[d] \in {Expired} \cup 0..Max({DefaultTimeout, Forever} \cup ShortTimeouts)
  /\ hasDb \subseteq WCDirs
  /\ unblocking \in WCDirs \cup {NoDir}
  /\ crawlerRuns \in {"waiting", "looping", "popping"}
  /\ m_hWakeEvent \in BOOLEAN
  /\ crawl \subseteq Dirs
  /\ blocks \in 0..MaxBlocks

(* Changes below a blocked directory are not even queued.  When its block  *)
(* times out the directory itself is queued, unless another block still    *)
(* covers it, so that the crawl makes up for them.                         *)
CrawlAfterTimeout ==
  [][\A d \in TimedOut :
       crawlerRuns = "looping" /\ crawlerRuns' = "popping"
         /\ d \notin DOMAIN m_NoWatchPaths' =>
       d \in crawl' \/ ~GoodIn(m_NoWatchPaths', d)]_blocksVars

(* The same sentence: a block whose time is up goes away (or is renewed),  *)
(* also when several are up together and only one is removed per round.    *)
BlockTimesOut ==
  \A d \in Dirs : d \in TimedOut ~> d \notin TimedOut

=============================================================================
