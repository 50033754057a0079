---------------------------- MODULE DirectoryCache ----------------------------
(***************************************************************************)
(* The directories TSVNCache knows: m_directoryCache of CSVNStatusCache    *)
(* (SVNStatusCache.cpp), its CCachedDirectory objects with the list of     *)
(* their children (CachedDirectory.cpp), and the threads that hold         *)
(* pointers to them under m_guard: the crawler, the threads that answer    *)
(* the explorer and those that take commands (TSVNCache.cpp).              *)
(*                                                                         *)
(* Whoever has read access may find that a directory is missing and        *)
(* upgrades to insert it; the upgrade gives the read access up.  The guard *)
(* is the lock as AbstractRWLock promises it, which ReaderWriterLock is    *)
(* shown to implement.                                                     *)
(*                                                                         *)
(* todo[t] is what thread t still has to do in the call it is in.  A step  *)
(* of Uses works on the object of step.dir through a pointer the thread    *)
(* has obtained earlier; ok tells that the object still exists.  Steps     *)
(* without one look their directory up in the map.  Which status an object *)
(* holds is left out: what depends on it is a choice.                      *)
(***************************************************************************)
EXTENDS Ordered, SequencesExt, FiniteSetsExt

CONSTANTS
  Dirs,           \* directories, as ranks in CTSVNPath's order
  NoDir,          \* the empty path, and a file of the directory asked
  Parent,         \* Dirs -> Dirs \cup {NoDir}: GetContainingDirectory
  Crawler,        \* the crawler's thread
  Askers,         \* threads that answer the explorer
  Commanders,     \* threads that execute commands
  Saved,          \* the directories that may be in the map at first
  Vanishing,      \* directories that may be deleted and made again
  Exclusions,     \* what the lists of excluded paths may exclude
  MaxCalls,       \* bound on the calls of all threads
  MaxDisk         \* bound on changes of disk and settings

Threads == {Crawler} \cup Askers \cup Commanders

ASSUME DirsAreRanks == Dirs \subseteq Int /\ IsFiniteSet(Dirs) /\ NoDir \in Int \ Dirs
ASSUME ParentIsTree ==
  /\ Parent \in [Dirs -> Dirs \cup {NoDir}]
  /\ \A d \in Dirs : Parent[d] # NoDir => Parent[d] < d
ASSUME ThreadsDiffer == Crawler \notin Askers \cup Commanders /\ Askers \cap Commanders = {}
ASSUME Settings ==
  /\ Saved \subseteq SUBSET Dirs /\ Vanishing \subseteq Dirs
  /\ MaxCalls \in Nat /\ MaxDisk \in Nat

VARIABLES
  m_directoryCache,     \* the directories that have an object
  m_childDirectories,   \* of the object of each directory
  m_FetchingStatus,     \* the directories whose object is being fetched
  exists,               \* the directories on disk
  allowed,              \* those CShellCache lets the cache look at
  readers, writers, queued,  \* m_guard
  todo,
  calls, changes        \* calls and outside changes so far

mapVars == <<m_directoryCache, m_childDirectories, m_FetchingStatus>>
diskVars == <<exists, allowed>>
guardVars == <<readers, writers, queued>>
bounds == <<calls, changes>>
vars == <<mapVars, diskVars, guardVars, todo, bounds>>

m_guard == INSTANCE AbstractRWLock

(* Create: an empty cache, or what SaveCache has written, where a directory*)
(* need not know all that is below it.                                     *)
Init ==
  /\ exists = Dirs /\ allowed = Dirs
  /\ m_directoryCache \in Saved
  /\ m_childDirectories \in
       {[d \in Dirs |-> {}],
        [d \in Dirs |-> IF d \in m_directoryCache THEN {c \in Dirs : Parent[c] = d} ELSE {}]}
  /\ m_FetchingStatus = {}
  /\ m_guard!Init
  /\ todo = [t \in Threads |-> << >>]
  /\ calls = 0 /\ changes = 0

(* The directory and all above it.                                         *)
Chain[d \in Dirs] == {d} \cup IF Parent[d] = NoDir THEN {} ELSE Chain[Parent[d]]
IsAncestorOf(d, e) == d \in Chain[e]

-----------------------------------------------------------------------------
(* Steps                                                                   *)

Uses == {"member", "exchange", "report", "setChild", "fetched", "tell", "store",
         "members", "status"}
Step(op, dir, arg) == [op |-> op, dir |-> dir, arg |-> arg, ok |-> TRUE]

At(t, op) == todo[t] # << >> /\ Head(todo[t]).op = op
this(t) == Head(todo[t]).dir
arg(t) == Head(todo[t]).arg

(* A pointer to an object that is gone is about to be used: the behaviour  *)
(* of the program is undefined from here on.                               *)
Undefined ==
  \E t \in Threads : todo[t] # << >> /\ Head(todo[t]).op \in Uses /\ ~Head(todo[t]).ok

(* t goes on with "steps" and then with what it had to do after this step. *)
Then(t, steps) == [todo EXCEPT ![t] = steps \o Tail(@)]
Continue(t, steps) == todo' = Then(t, steps)

(* t goes on with "steps" and the objects of the directories D are deleted.*)
ContinueWithout(t, steps, D) ==
  todo' = [u \in Threads |->
    [i \in DOMAIN Then(t, steps)[u] |->
      LET step == Then(t, steps)[u][i] IN
      [step EXCEPT !.ok = @ /\ ~(step.op \in Uses /\ step.dir \in D)]]]

(* The objects of D are deleted, with their members.                       *)
Delete(D) ==
  /\ m_childDirectories' = [d \in Dirs |-> IF d \in D THEN {} ELSE m_childDirectories[d]]
  /\ m_FetchingStatus' = m_FetchingStatus \ D

(* The sub directories that a status of d reports.                         *)
SubDirs(d) == InOrder({c \in exists : Parent[c] = d})

(* GetDirectoryCacheEntry as the next step.                                *)
Get(d) == IF d \in m_directoryCache THEN << >> ELSE <<Step("get", d, NoDir)>>

(* UpdateCurrentStatus: the parent's object is looked up, then it is told. *)
UpdateCurrentStatus(d) ==
  IF Parent[d] = NoDir THEN << >> ELSE <<Step("get", Parent[d], NoDir), Step("tell", d, Parent[d])>>

(* GetOwnStatus, recursive                                                 *)
OwnStatus(d) == UpdateCurrentStatus(d) \o <<Step("status", d, NoDir)>>

-----------------------------------------------------------------------------
(* m_guard                                                                 *)

Upgrades == {"get", "remove"}       \* by a thread with read access
Writes == {"erase", "refresh"}      \* by one without

(* Step "get" is GetDirectoryCacheEntry: what is in the map needs no lock. *)
NeedsWrite(t) ==
  \/ \E op \in Writes \cup {"remove"} : At(t, op)
  \/ At(t, "get") /\ this(t) \notin m_directoryCache

(* Fault: a reader waits for the upgrade without giving up its access.     *)
AcquireWriterLock_KeepsAccess(t) ==
  /\ NeedsWrite(t) /\ t \notin writers
  /\ IF writers = {} /\ queued = {} /\ readers \subseteq {t}
     THEN m_guard!BecomeWriter(t)
     ELSE t \notin queued /\ queued' = queued \cup {t} /\ UNCHANGED <<readers, writers>>
  /\ UNCHANGED <<mapVars, diskVars, todo, bounds>>

(* AcquireWriterLock: at once if nobody else is inside.                    *)
AcquireWriterLock(t) ==
  /\ NeedsWrite(t) /\ t \notin writers
  /\ IF writers = {} /\ queued = {} /\ readers \subseteq {t}
     THEN m_guard!BecomeWriter(t)
     ELSE m_guard!Enqueue(t)
  /\ UNCHANGED <<mapVars, diskVars, todo, bounds>>

WriterGranted(t) ==
  /\ t \in queued
  /\ m_guard!BecomeWriter(t)
  /\ UNCHANGED <<mapVars, diskVars, todo, bounds>>

ReleaseReaderLock(t) ==
  /\ At(t, "leave")
  /\ m_guard!LeaveReaders(t)
  /\ Continue(t, << >>)
  /\ UNCHANGED <<mapVars, diskVars, bounds>>

-----------------------------------------------------------------------------
(* GetDirectoryCacheEntry                                                  *)

Find(t) ==
  /\ At(t, "get") /\ t \in readers /\ this(t) \in m_directoryCache
  /\ Continue(t, << >>)
  /\ UNCHANGED <<mapVars, diskVars, guardVars, bounds>>

(* With write access.  An object that is there now is deleted: what waited *)
(* for the same directory does so to the one the first inserted.           *)
Insert(t) ==
  LET d == this(t)  creates == d \in exists \cap allowed IN
  /\ At(t, "get") /\ t \in writers
  /\ m_directoryCache' = (m_directoryCache \ {d}) \cup (IF creates THEN {d} ELSE {})
  /\ Delete({d})
  /\ ContinueWithout(t, << >>, {d})
  /\ m_guard!Downgrade(t)
  /\ UNCHANGED <<diskVars, bounds>>

-----------------------------------------------------------------------------
(* RemoveCacheForPath, Refresh                                             *)

(* The first of the directories, in the map's order.                       *)
First(S) == IF S = {} THEN NoDir ELSE Min(S)
After(S, d) == First({e \in S : e > d})

(* RemoveCacheForDirectory of d, on the map S: first the known children C, *)
(* then what follows d in the map, as long as it is below d.               *)
WithoutDirectory[call \in (SUBSET Dirs) \X Dirs \X (SUBSET Dirs)] ==
  LET S == call[1]  d == call[2]  C == call[3]
      Cleared(R, e) == WithoutDirectory[<<R, e, m_childDirectories[e]>>]
      c == First(C)  e == After(S \ {d}, d)
  IN  IF C # {}
      THEN WithoutDirectory[<<IF c \in S THEN Cleared(S, c) ELSE S, d, C \ {c}>>]
      ELSE IF e # NoDir /\ IsAncestorOf(d, e)
      THEN WithoutDirectory[<<Cleared(S \ {d}, e), d, {}>>]
      ELSE S \ {d}

Without(S, d) == WithoutDirectory[<<S, d, m_childDirectories[d]>>]

(* Fault: only the children the directory knows of are removed with it.    *)
RemoveCacheForPath_ChildrenOnly(d) == m_directoryCache \ (m_childDirectories[d] \cup {d})

RemoveCacheForPath(d) ==
  IF d \in m_directoryCache THEN Without(m_directoryCache, d) ELSE m_directoryCache

(* The loop of Refresh on the map S, from the iterator at d on.  After a   *)
(* removal it starts over behind the first directory.                      *)
RefreshFrom[place \in (SUBSET Dirs) \X (Dirs \cup {NoDir})] ==
  LET S == place[1]  d == place[2]
      left == Without(S, d)  begin == First(left)
  IN  IF d = NoDir THEN S
      ELSE IF d \in allowed THEN RefreshFrom[<<S, After(S, d)>>]
      ELSE IF begin = NoDir THEN left
      ELSE RefreshFrom[<<left, After(left, begin)>>]

(* Fault: the loop ends with the first removal.                            *)
Refresh_Stops ==
  LET excluded == First(m_directoryCache \ allowed) IN
  IF excluded = NoDir THEN m_directoryCache ELSE Without(m_directoryCache, excluded)

Refresh == RefreshFrom[<<m_directoryCache, First(m_directoryCache)>>]

(* Of the map only these directories stay.                                 *)
Keep(t, S) ==
  /\ m_directoryCache' = m_directoryCache \cap S
  /\ Delete(m_directoryCache \ S)
  /\ ContinueWithout(t, << >>, m_directoryCache \ S)

(* Fault: the crawler removes a directory under its read lock.             *)
RemoveAsCrawler_AsReader(t) ==
  /\ At(t, "remove") /\ t \in readers
  /\ Keep(t, RemoveCacheForPath(this(t)))
  /\ UNCHANGED <<guardVars, diskVars, bounds>>

(* The crawler, which has read access, removes a directory that is gone.   *)
RemoveAsCrawler(t) ==
  /\ At(t, "remove") /\ t \in writers
  /\ Keep(t, RemoveCacheForPath(this(t)))
  /\ m_guard!Downgrade(t)
  /\ UNCHANGED <<diskVars, bounds>>

Write(t) ==
  /\ t \in writers
  /\ \/ At(t, "erase") /\ Keep(t, RemoveCacheForPath(this(t)))
     \/ At(t, "refresh") /\ Keep(t, Refresh)
  /\ m_guard!ReleaseWriter(t)
  /\ UNCHANGED <<diskVars, bounds>>

-----------------------------------------------------------------------------
(* CCachedDirectory, with read access                                      *)

Local(t, steps) == Continue(t, steps) /\ UNCHANGED <<m_directoryCache, diskVars, guardVars, bounds>>

(* GetStatusForMember of directory d, asked for arg: d itself, a directory *)
(* in it or a file (NoDir).                                                *)

(* From the object, or from the object of the directory that is asked for, *)
(* which computes its recursive status anew.                               *)
Answer(t) ==
  LET p == arg(t) IN
  /\ At(t, "member")
  /\ \/ Local(t, << >>)
     \/ p \in m_directoryCache /\ Local(t, OwnStatus(p))
  /\ UNCHANGED <<m_childDirectories, m_FetchingStatus>>

(* What is known is dropped.  The status of the directory then comes from  *)
(* Subversion, unless it is unversioned and a directory in it was asked    *)
(* for.  Askers leave a directory alone that is being fetched.             *)
StartFetch(t) ==
  LET d == this(t) IN
  /\ At(t, "member")
  /\ t \in Askers => d \notin m_FetchingStatus
  /\ m_childDirectories' = [m_childDirectories EXCEPT ![d] = {}]
  /\ \/ Local(t, <<Step("exchange", d, arg(t))>>)
     \/ arg(t) \notin {d, NoDir} /\ Local(t, UpdateCurrentStatus(d) \o <<Step("store", d, arg(t))>>)
  /\ UNCHANGED m_FetchingStatus

(* SvnUpdateMembersStatus: the flag, then svn_client_status6, which fails  *)
(* (arg of "fetched" is NoDir then) or reports each sub directory.         *)
Exchange(t) ==
  LET d == this(t) IN
  /\ At(t, "exchange")
  /\ IF d \in m_FetchingStatus
     THEN Local(t, << >>) /\ UNCHANGED m_FetchingStatus
     ELSE /\ m_FetchingStatus' = m_FetchingStatus \cup {d}
          /\ \/ Local(t, <<Step("fetched", d, NoDir)>>)
             \/ Local(t, [i \in DOMAIN SubDirs(d) |-> Step("report", d, SubDirs(d)[i])]
                         \o <<Step("fetched", d, d), Step("store", d, arg(t))>>)
  /\ UNCHANGED m_childDirectories

(* GetStatusCallback, which ends with AddEntry.  A versioned sub directory *)
(* that is not in the map is inserted before it becomes a child, a nested  *)
(* working copy or an unversioned one after that.                          *)
Report(t) ==
  LET c == arg(t) IN
  /\ At(t, "report")
  /\ \/ /\ m_childDirectories' = [m_childDirectories EXCEPT ![this(t)] = @ \cup {c}]
        /\ Local(t, Get(c))
     \/ /\ c \notin m_directoryCache
        /\ Local(t, <<Step("get", c, NoDir), Step("setChild", this(t), c)>>)
        /\ UNCHANGED m_childDirectories
  /\ UNCHANGED m_FetchingStatus

SetChildStatus(t) ==
  /\ At(t, "setChild")
  /\ m_childDirectories' = [m_childDirectories EXCEPT ![this(t)] = @ \cup {arg(t)}]
  /\ Local(t, Get(arg(t)))
  /\ UNCHANGED m_FetchingStatus

(* Fault: the flag stays set when the fetch failed.                        *)
Fetched_KeepsFlag(t) ==
  /\ At(t, "fetched")
  /\ m_FetchingStatus' = IF arg(t) = NoDir THEN m_FetchingStatus ELSE m_FetchingStatus \ {this(t)}
  /\ Local(t, IF arg(t) = NoDir THEN << >> ELSE UpdateCurrentStatus(this(t)))
  /\ UNCHANGED m_childDirectories

Fetched(t) ==
  /\ At(t, "fetched")
  /\ m_FetchingStatus' = m_FetchingStatus \ {this(t)}
  /\ Local(t, IF arg(t) = NoDir THEN << >> ELSE UpdateCurrentStatus(this(t)))
  /\ UNCHANGED m_childDirectories

(* UpdateChildDirectoryStatus of the parent, arg: only of a known child,   *)
(* and only if its status has changed.                                     *)
TellParent(t) ==
  LET parent == arg(t) IN
  /\ At(t, "tell")
  /\ \/ Local(t, << >>)
     \/ /\ parent \in m_directoryCache /\ this(t) \in m_childDirectories[parent]
        /\ Local(t, UpdateCurrentStatus(parent))
  /\ UNCHANGED <<m_childDirectories, m_FetchingStatus>>

(* m_wcDbFileTime, then the status of what was asked for.                  *)
Store(t) ==
  LET p == arg(t) IN
  /\ At(t, "store")
  /\ Local(t, IF p = NoDir THEN << >> ELSE Get(p) \o <<Step("reply", this(t), p)>>)
  /\ UNCHANGED <<m_childDirectories, m_FetchingStatus>>

(* The directory's own object answers, or fetches its status itself.       *)
Reply(t) ==
  LET p == arg(t) IN
  /\ At(t, "reply")
  /\ \/ Local(t, << >>)
     \/ /\ p \in m_directoryCache
        /\ \/ Local(t, OwnStatus(p))
           \/ p # this(t) /\ Local(t, <<Step("member", p, p)>>)
  /\ UNCHANGED <<m_childDirectories, m_FetchingStatus>>

(* RefreshStatus looks at the times of the files; one that has changed is  *)
(* asked for.                                                              *)
Members(t) ==
  /\ At(t, "members")
  /\ \/ Local(t, << >>)
     \/ Local(t, <<Step("member", this(t), NoDir), Step("status", this(t), NoDir)>>)
  /\ UNCHANGED <<m_childDirectories, m_FetchingStatus>>

(* A member of the object is read.                                         *)
Status(t) ==
  /\ At(t, "status")
  /\ Local(t, << >>)
  /\ UNCHANGED <<m_childDirectories, m_FetchingStatus>>

(* Behind GetDirectoryCacheEntry in the calls below: arg is the directory  *)
(* that is asked for.                                                      *)
Entry(t) ==
  LET d == this(t)  p == arg(t)  found == d \in m_directoryCache IN
  /\ \/ /\ At(t, "first")
        /\ Local(t, IF found THEN <<Step("member", d, p)>>
                    ELSE Get(p) \o <<Step("second", p, p)>>)
     \/ /\ At(t, "second")
        /\ Local(t, IF found THEN <<Step("member", d, p)>> ELSE << >>)
     \/ /\ At(t, "crawl") /\ found
        /\ Local(t, <<Step("member", d, d), Step("members", d, NoDir)>>)
     \/ /\ At(t, "crawl") /\ (~found \/ d \notin exists)
        /\ Local(t, <<Step("remove", d, NoDir)>>)
     \/ /\ At(t, "crawl") /\ ~found       \* and the watcher watches it
        /\ Local(t, << >>)
  /\ UNCHANGED <<m_childDirectories, m_FetchingStatus>>

-----------------------------------------------------------------------------
(* Calls                                                                   *)

Calls(t, steps) ==
  /\ todo[t] = << >>
  /\ calls < MaxCalls
  /\ calls' = calls + 1
  /\ todo' = [todo EXCEPT ![t] = steps]
  /\ UNCHANGED <<mapVars, diskVars, changes>>

ReadCall(t, steps) == m_guard!JoinReaders(t) /\ Calls(t, steps \o <<Step("leave", NoDir, NoDir)>>)
WriteCall(t, step) == Calls(t, <<step>>) /\ UNCHANGED guardVars

(* GetAnswerToRequest, for a path that is allowed and not blocked, if it   *)
(* gets read access within two seconds.                                    *)
GetStatusForPath(t, p) ==
  LET dirpath == IF Parent[p] = NoDir THEN p ELSE Parent[p] IN
  /\ t \in Askers /\ p \in allowed
  /\ ReadCall(t, Get(dirpath) \o <<Step("first", dirpath, p)>>)

(* The crawler refreshes a folder.  What it does for a path in a folder is *)
(* a part of that.                                                         *)
Crawl(d) == d \in allowed /\ ReadCall(Crawler, Get(d) \o <<Step("crawl", d, NoDir)>>)

(* What the crawler was told of is gone.                                   *)
CrawlerErases(d) == d \notin exists /\ WriteCall(Crawler, Step("erase", d, NoDir))

(* TSVNCACHECOMMAND_CRAWL and RELEASE, and REFRESHALL.                     *)
EraseCommand(t, d) == t \in Commanders /\ WriteCall(t, Step("erase", d, NoDir))
RefreshAll(t) == t \in Commanders /\ WriteCall(t, Step("refresh", NoDir, NoDir))

-----------------------------------------------------------------------------
(* Directories come and go, and so do entries of the list of excluded ones.*)
Outside ==
  /\ changes < MaxDisk
  /\ changes' = changes + 1
  /\ \/ /\ \E d \in Vanishing : exists' = IF d \in exists THEN {e \in exists : ~IsAncestorOf(d, e)}
                                                         ELSE exists \cup Chain[d]
        /\ UNCHANGED allowed
     \/ \E S \in Exclusions : allowed' = Dirs \ S /\ UNCHANGED exists
  /\ UNCHANGED <<mapVars, guardVars, todo, calls>>

Run(t) ==
  \/ AcquireWriterLock(t) \/ WriterGranted(t) \/ ReleaseReaderLock(t)
  \/ Find(t) \/ Insert(t) \/ RemoveAsCrawler(t) \/ Write(t)
  \/ Answer(t) \/ StartFetch(t) \/ Exchange(t) \/ Report(t) \/ SetChildStatus(t) \/ Fetched(t)
  \/ TellParent(t) \/ Store(t) \/ Reply(t) \/ Members(t) \/ Status(t)
  \/ Entry(t)

Call ==
  \/ \E t \in Askers, d \in Dirs : GetStatusForPath(t, d)
  \/ \E d \in Dirs : Crawl(d) \/ CrawlerErases(d)
  \/ \E t \in Commanders : RefreshAll(t) \/ \E d \in Dirs : EraseCommand(t, d)

Next == ~Undefined /\ (Outside \/ Call \/ \E t \in Threads : Run(t))

Spec == Init /\ [][Next]_vars

(* Of the threads that can go on one does: no more is needed, as a call has *)
(* finitely many steps.                                                    *)
FairSpec == Spec /\ WF_vars(~Undefined /\ \E t \in Threads : Run(t))

-----------------------------------------------------------------------------
(* Properties                                                              *)

TypeOK ==
  /\ m_directoryCache \subseteq Dirs /\ m_FetchingStatus \subseteq m_directoryCache
  /\ m_childDirectories \in [Dirs -> SUBSET Dirs]
  /\ exists \subseteq Dirs /\ allowed \subseteq Dirs
  /\ readers \cup writers \cup queued \subseteq Threads
  /\ calls \in 0..MaxCalls /\ changes \in 0..MaxDisk

Pending(t, op, d) ==
  {i \in DOMAIN todo[t] : todo[t][i].op = op /\ todo[t][i].dir = d /\ todo[t][i].ok}

(* The flag that keeps others from fetching is set as long as one thread   *)
(* fetches this very object, and not longer.                               *)
OneFetcher ==
  \A d \in Dirs : Cardinality(UNION {Pending(t, "fetched", d) \X {t} : t \in Threads})
                    = IF d \in m_FetchingStatus THEN 1 ELSE 0

CacheInv == TypeOK /\ OneFetcher

Dangling(t) == {i \in DOMAIN todo[t] : ~todo[t][i].ok}

(* Pointers to objects become invalid only for a thread that waits for an  *)
(* upgrade; who has read or write access keeps what it points to.          *)
PointersKept ==
  [][\A t \in Threads : t \notin queued => Cardinality(Dangling(t)') <= Cardinality(Dangling(t))]_vars

(* A directory is removed together with everything below it, known as a    *)
(* child or not, unless a directory with a longer name hides it; and after *)
(* REFRESHALL only the first directory of the map may be an excluded one.  *)
RemovalsComplete ==
  [][\A t \in Threads : t \in writers /\ t \notin writers' =>
       /\ (At(t, "erase") \/ At(t, "remove")) /\ this(t) \in m_directoryCache =>
            \A e \in m_directoryCache' : IsAncestorOf(this(t), e) =>
              \E f \in m_directoryCache' : this(t) < f /\ f < e /\ ~IsAncestorOf(this(t), f)
       /\ At(t, "refresh") =>
            \A e \in m_directoryCache' : e \in allowed \/ e = First(m_directoryCache')]_vars

(* Every call ends, with threads that upgrade while others read, write and *)
(* upgrade.                                                                *)
CallsEnd == \A t \in Threads : todo[t] # << >> ~> todo[t] = << >> \/ Undefined

=============================================================================
