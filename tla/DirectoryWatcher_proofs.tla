----------------------- MODULE DirectoryWatcher_proofs -----------------------
(***************************************************************************)
(* Proofs about DirectoryWatcher, for every tree of directories and every  *)
(* number of events: no watch info is used after it was deleted or deleted *)
(* twice, and a worker that sleeps has a read under way for every path.    *)
(***************************************************************************)
EXTENDS DirectoryWatcher, Ordered_proofs

-----------------------------------------------------------------------------
(* The inductive invariant                                                 *)

(* What is about to be deleted.                                            *)
Doomed == Range(infoToDelete)

PathsOK ==
  /\ watchedPaths \in Seq(Dirs) /\ IsInjective(watchedPaths)
  /\ blockedPath \in Dirs \cup {NoDir} /\ adding \in Dirs \cup {NoDir}
  /\ notifyPaths \in SUBSET Dirs
  /\ rebuild \in [i : Nat \ {0}, paths : Seq(Dirs), numWatch : Nat]

FlagsOK ==
  /\ m_bRunning \in BOOLEAN /\ m_bCleaned \in BOOLEAN /\ m_FolderCrawler \in BOOLEAN
  /\ port \in BOOLEAN
  /\ pc \in {"top", "get", "wait", "got", "process", "notify", "loop", "register", "done"}
  /\ window \in {"creating", "idle", "clearing", "stopping", "stopped", "gone"}
  /\ excused \in {"", "not opened", "same size", "no read", "taken"}

WatchInfos ==
  [dir : Dirs \cup {NoDir}, open : BOOLEAN, read : {"none", "armed", "done", "failed"},
   buf : SUBSET Dirs, pend : SUBSET Dirs]

InfosOK ==
  /\ packets \in SUBSET Slots /\ watchInfoMap \in SUBSET Slots /\ pdi \in Slots \cup {None}
  /\ infoToDelete \in Seq(Slots) /\ IsInjective(infoToDelete)
  /\ info \in [Slots -> WatchInfos]

(* A watch info is in the map or about to be deleted; while there is one   *)
(* in the map, none is about to be deleted.                                *)
Owned ==
  /\ \A s \in Slots : info[s].dir = NoDir <=> s \notin watchInfoMap \cup Doomed
  /\ \A s \in Slots : info[s].open => info[s].dir # NoDir
  /\ watchInfoMap = {} \/ Doomed = {}

(* A packet that comes while there are infos in the map belongs to one of  *)
(* them, and the one in use is not deleted before m_bCleaned is set.       *)
PacketsKnown ==
  /\ watchInfoMap # {} => packets \subseteq watchInfoMap
  /\ pc \in {"loop", "register"} /\ Doomed = {} => packets \subseteq watchInfoMap
  /\ pc = "got" /\ ~m_bCleaned /\ watchInfoMap # {} => pdi \in watchInfoMap
  /\ pc = "process" /\ ~m_bCleaned => pdi \in watchInfoMap \cup Doomed

(* The rebuilding loop makes one info for each path it has passed; the map *)
(* it finds after a call of RegisterDeviceNotification is that of before   *)
(* or empty.                                                               *)
Rebuilding ==
  /\ pc = "loop" =>
       /\ Doomed = {} /\ Cardinality(watchInfoMap) = rebuild.i - 1
       /\ rebuild.i - 1 <= Len(watchedPaths)
  /\ pc = "register" =>
       /\ rebuild.i <= Len(rebuild.paths) /\ rebuild.numWatch = rebuild.i - 1
       /\ \/ Doomed = {} /\ Cardinality(watchInfoMap) = rebuild.numWatch
          \/ watchInfoMap = {} /\ rebuild.numWatch > 0

(* What is in the map when nothing excuses a gap is what was passed so far.*)
Watching ==
  /\ excused = "" /\ port => watchInfoMap # {}
  /\ excused = "" /\ window = "idle" /\ watchInfoMap # {} =>
       \A i \in DOMAIN watchedPaths :
         (pc \in {"loop", "register"} => i < rebuild.i) => Watched(watchedPaths[i])

IInv == PathsOK /\ FlagsOK /\ InfosOK /\ Owned /\ PacketsKnown /\ Rebuilding /\ Watching

-----------------------------------------------------------------------------
(* Directories, paths and slots                                            *)

LEMMA ChainFacts ==
  \A d \in Dirs : d \in Chain[d] /\ Chain[d] \in SUBSET Dirs
<1>1. IsTree(Dirs, Parent, NoDir)
  BY DirsAreRanks, ParentIsTree DEF IsTree
<1>2. IsChain(Chain, Dirs, Parent, NoDir)
  <2>1. \E f : IsChain(f, Dirs, Parent, NoDir)
    BY <1>1, ChainExists
  <2>2. Chain = CHOOSE f : IsChain(f, Dirs, Parent, NoDir)
    BY Zenon DEF Chain, IsChain
  <2> QED
    BY <2>1, <2>2, Zenon
<1>3. GoesUp(Chain, Dirs, Parent, NoDir)
  BY <1>1, <1>2, ChainUp
<1> QED
  BY <1>3 DEF GoesUp

LEMMA DriveFacts ==
  ASSUME NEW d \in Dirs
  PROVE  Drive(d) \in Dirs
<1>1. d \in Chain[d] /\ Chain[d] \in SUBSET Dirs
  BY ChainFacts
<1>2. Chain[d] \in SUBSET Int /\ IsFiniteSet(Chain[d]) /\ Chain[d] # {}
  BY <1>1, DirsAreRanks, FS_Subset
<1>3. PICK m \in Chain[d] : \A v \in Chain[d] : m <= v
  BY <1>2, Least
<1> QED
  BY <1>1, <1>3 DEF Drive, Min

LEMMA SlotFacts ==
  /\ Cardinality(Dirs) \in Nat /\ Slots \in SUBSET Int /\ IsFiniteSet(Slots)
  /\ Cardinality(Slots) = Cardinality(Dirs) + 1 /\ None \notin Slots
<1>1. Cardinality(Dirs) \in Nat
  BY DirsAreRanks, FS_CardinalityType
<1> DEFINE n == Cardinality(Dirs) + 1
<1>2. n \in Nat /\ Slots = 1..n
  BY <1>1 DEF Slots
<1> HIDE DEF n
<1>3. IsFiniteSet(1..n) /\ Cardinality(1..n) = n
  BY <1>2, FS_Interval
<1> QED
  BY <1>1, <1>2, <1>3 DEF None, n

(* A list of paths is as long as it has different paths.                   *)
LEMMA Pigeons ==
  ASSUME NEW q \in Seq(Dirs), IsInjective(q)
  PROVE  Len(q) \in Nat /\ Len(q) <= Cardinality(Dirs)
<1>1. Len(q) \in Nat /\ DOMAIN q = 1..Len(q) /\ q \in [1..Len(q) -> Dirs]
  OBVIOUS
<1>2. q \in Injection(1..Len(q), Dirs)
  BY <1>1 DEF IsInjective, Injection
<1>3. IsFiniteSet(1..Len(q)) /\ Cardinality(1..Len(q)) = Len(q)
  BY <1>1, FS_Interval
<1>4. Cardinality(1..Len(q)) <= Cardinality(Dirs)
  BY <1>2, <1>3, DirsAreRanks, FS_Injection
<1> QED
  BY <1>1, <1>3, <1>4

LEMMA ListFacts ==
  ASSUME PathsOK
  PROVE  /\ \A path \in Dirs : AddedPaths(path) \in Seq(Dirs) /\ IsInjective(AddedPaths(path))
         /\ \A d : /\ RemovePath(watchedPaths, d) \in Seq(Dirs)
                   /\ IsInjective(RemovePath(watchedPaths, d))
         /\ \A places \in SUBSET DOMAIN watchedPaths :
              /\ Selected(watchedPaths, places) \in Seq(Dirs)
              /\ IsInjective(Selected(watchedPaths, places))
<1>1. watchedPaths \in Seq(Dirs) /\ IsInjective(watchedPaths)
  BY DEF PathsOK
<1>2. ASSUME NEW path \in Dirs
      PROVE  AddedPaths(path) \in Seq(Dirs) /\ IsInjective(AddedPaths(path))
  <2>1. CASE Covered(watchedPaths, path)
    BY <1>1, <2>1 DEF AddedPaths
  <2>2. CASE ~Covered(watchedPaths, path) /\ NewRootOf(path) \in Versioned
    <3> DEFINE longer == Append(watchedPaths, NewRootOf(path))
               S == {d \in ToSet(longer) : \A e \in ToSet(longer) \ {d} : ~IsAncestorOf(e, d)}
    <3>1. AddedPaths(path) = RemoveChildren(longer)
      BY <2>2 DEF AddedPaths
    <3>2. RemoveChildren(longer) = InOrder(S)
      BY DEF RemoveChildren
    <3>3. longer \in Seq(Dirs)
      BY <1>1, <2>2, VersionedAssumption
    <3> HIDE DEF longer
    <3>4. S \in SUBSET Dirs
      BY <3>3 DEF ToSet
    <3>5. IsFiniteSet(S)
      BY <3>4, DirsAreRanks, FS_Subset
    <3> HIDE DEF S
    <3> QED
      BY <3>1, <3>2, <3>4, <3>5, DirsAreRanks, InOrderEffect
  <2>3. CASE ~Covered(watchedPaths, path) /\ NewRootOf(path) \notin Versioned
    <3>1. AddedPaths(path) = IF path \in Versioned THEN Append(watchedPaths, path) ELSE watchedPaths
      BY <2>3 DEF AddedPaths
    <3>2. path \notin Range(watchedPaths)
      BY <2>3, ChainFacts DEF Covered, IsAncestorOf, Range
    <3> QED
      BY <1>1, <3>1, <3>2, AppendEffect
  <2> QED
    BY <2>1, <2>2, <2>3
<1>3. ASSUME NEW d
      PROVE  /\ RemovePath(watchedPaths, d) \in Seq(Dirs)
             /\ IsInjective(RemovePath(watchedPaths, d))
  BY <1>1, EraseFromQueue DEF RemovePath
<1> QED
  BY <1>1, <1>2, <1>3, SelectedEffect

-----------------------------------------------------------------------------
(* What becomes of the watch infos                                         *)

(* All that are in the map will be deleted.                                *)
LEMMA TakeAllEffect ==
  ASSUME InfosOK, Owned, TakeAll
  PROVE  /\ watchInfoMap' = {}
         /\ infoToDelete' \in Seq(Slots) /\ IsInjective(infoToDelete')
         /\ Doomed' = Doomed \cup watchInfoMap
<1>1. watchInfoMap \in SUBSET Slots /\ IsFiniteSet(watchInfoMap)
  BY SlotFacts, FS_Subset DEF InfosOK
<1> DEFINE o == InOrder(watchInfoMap)
<1>2. o \in Seq(Slots) /\ IsInjective(o) /\ Range(o) = watchInfoMap
  BY <1>1, SlotFacts, InOrderEffect
<1>3. infoToDelete' = infoToDelete \o o /\ watchInfoMap' = {}
  BY DEF TakeAll, ScheduleForDeletion
<1> HIDE DEF o
<1>4. infoToDelete \in Seq(Slots) /\ IsInjective(infoToDelete) /\ Range(infoToDelete) \cap Range(o) = {}
  BY <1>2 DEF InfosOK, Owned, Doomed
<1> QED
  BY <1>2, <1>3, <1>4, ConcatEffect DEF Doomed

(* A list that is emptied.                                                 *)
LEMMA EmptyList ==
  << >> \in Seq(Slots) /\ IsInjective(<< >>) /\ Range(<< >>) = {} /\ ToSet(<< >>) = {}
BY DEF IsInjective, Range, ToSet

LEMMA SameSet == ToSet(infoToDelete) = Doomed
BY DEF ToSet, Doomed, Range

(* Handles that are closed.                                                *)
LEMMA ClosedEffect ==
  ASSUME InfosOK, NEW S
  PROVE  /\ CloseDirectoryHandles(S) \in [Slots -> WatchInfos]
         /\ \A s \in Slots : /\ CloseDirectoryHandles(S)[s].dir = info[s].dir
                             /\ CloseDirectoryHandles(S)[s].open => info[s].open
<1> QED
  BY DEF InfosOK, CloseDirectoryHandles, Free, WatchInfos

LEMMA FreedEffect ==
  ASSUME InfosOK, NEW S
  PROVE  LET f == [s \in Slots |-> IF s \in S THEN Free ELSE info[s]]
         IN  /\ f \in [Slots -> WatchInfos]
             /\ \A s \in Slots : f[s] = IF s \in S THEN Free ELSE info[s]
BY DEF InfosOK, Free, WatchInfos

-----------------------------------------------------------------------------
(* The worker                                                              *)

(* Steps that leave the watch infos and the list of paths as they are.     *)
LEMMA InfosKept ==
  ASSUME IInv, UNCHANGED <<info, watchInfoMap, infoToDelete, watchedPaths, excused>>,
         port' => port, window' = "idle" => window = "idle" \/ watchInfoMap = {},
         FlagsOK', PathsOK', packets' \in SUBSET Slots, pdi' \in Slots \cup {None},
         PacketsKnown', Rebuilding',
         pc' \in {"loop", "register"} => pc \in {"loop", "register"} /\ rebuild'.i = rebuild.i,
         pc \in {"loop", "register"} => pc' \in {"loop", "register"} \/ watchInfoMap = {}
                                          \/ rebuild.i > Len(watchedPaths)
  PROVE  IInv'
<1>1. InfosOK' /\ Owned'
  BY DEF IInv, InfosOK, Owned, Doomed
<1>2. Watching'
  <2>1. excused' = "" /\ port' => watchInfoMap' # {}
    BY DEF IInv, Watching
  <2>2. ASSUME excused = "", window' = "idle", watchInfoMap # {}, NEW k \in DOMAIN watchedPaths,
               pc' \in {"loop", "register"} => k < rebuild'.i
        PROVE  Watched(watchedPaths[k])
    <3>1. Len(watchedPaths) \in Nat /\ DOMAIN watchedPaths = 1..Len(watchedPaths)
      BY DEF IInv, PathsOK
    <3>2. rebuild.i \in Nat
      BY DEF IInv, PathsOK
    <3>3. pc \in {"loop", "register"} => k < rebuild.i
      <4>1. CASE pc' \in {"loop", "register"}
        BY <2>2, <4>1
      <4>2. CASE rebuild.i > Len(watchedPaths)
        <5> DEFINE n == Len(watchedPaths)
                   i == rebuild.i
        <5>1. k \in 1..n /\ n \in Nat /\ i \in Nat /\ i > n
          BY <2>2, <3>1, <3>2, <4>2
        <5> HIDE DEF n, i
        <5>2. k < i
          BY <5>1
        <5> QED
          BY <5>2 DEF i
      <4> QED
        BY <2>2, <4>1, <4>2
    <3> QED
      BY <2>2, <3>3 DEF IInv, Watching
  <2>3. \A k \in DOMAIN watchedPaths : Watched(watchedPaths[k]) => Watched(watchedPaths[k])'
    BY DEF Watched
  <2> QED
    BY <2>1, <2>2, <2>3 DEF Watching
<1> QED
  BY <1>1, <1>2 DEF IInv

LEMMA WorkerKeepsInfos ==
  ASSUME IInv, Get \/ GetPacket \/ OpenDirectory \/ Got \/ SkipPacket
  PROVE  IInv'
<1> USE DEF flagVars, ioVars, listVars, workerVars
<1>1. CASE Get
  <2>1. /\ UNCHANGED <<info, watchInfoMap, infoToDelete, watchedPaths, excused, port, window, packets>>
        /\ pc = "get" /\ pc' = "wait" /\ FlagsOK' /\ PathsOK' /\ pdi' \in Slots \cup {None}
    BY <1>1 DEF Get, IInv, FlagsOK, PathsOK
  <2>2. packets' \in SUBSET Slots /\ PacketsKnown' /\ Rebuilding'
    BY <2>1 DEF IInv, InfosOK, PacketsKnown, Rebuilding
  <2> QED
    BY <2>1, <2>2, InfosKept
<1>2. CASE GetPacket
  <2>1. /\ UNCHANGED <<info, watchInfoMap, infoToDelete, watchedPaths, excused, port, window, m_bCleaned>>
        /\ pc = "wait" /\ pc' = "got" /\ FlagsOK' /\ PathsOK'
        /\ pdi' \in packets /\ packets' \in SUBSET packets
    BY <1>2 DEF GetPacket, IInv, FlagsOK, PathsOK
  <2>2. packets' \in SUBSET Slots /\ pdi' \in Slots \cup {None} /\ PacketsKnown' /\ Rebuilding'
    BY <2>1 DEF IInv, InfosOK, PacketsKnown, Rebuilding
  <2> QED
    BY <2>1, <2>2, InfosKept
<1>3. CASE OpenDirectory
  <2>1. /\ UNCHANGED <<info, watchInfoMap, infoToDelete, watchedPaths, excused, port, window,
                       packets, pdi>>
        /\ pc = "loop"
    BY <1>3 DEF OpenDirectory
  <2>2. /\ watchedPaths \in Seq(Dirs) /\ Len(watchedPaths) \in Nat /\ rebuild.i \in Nat /\ rebuild.i > 0
        /\ Cardinality(watchInfoMap) = rebuild.i - 1 /\ Doomed = {}
    BY <2>1 DEF IInv, PathsOK, Rebuilding
  <2>3. CASE rebuild.i > Len(watchedPaths)
    <3>1. pc' = "top" /\ UNCHANGED rebuild /\ FlagsOK' /\ PathsOK'
      BY <1>3, <2>3 DEF OpenDirectory, IInv, FlagsOK, PathsOK
    <3>2. packets' \in SUBSET Slots /\ pdi' \in Slots \cup {None} /\ PacketsKnown' /\ Rebuilding'
      BY <2>1, <3>1 DEF IInv, InfosOK, PacketsKnown, Rebuilding
    <3> QED
      BY <2>1, <2>3, <3>1, <3>2, InfosKept
  <2>4. CASE ~(rebuild.i > Len(watchedPaths))
    <3>1. /\ pc' = "register" /\ UNCHANGED <<m_bCleaned, notifyPaths, blockedPath, adding>>
          /\ rebuild' = [rebuild EXCEPT !.paths = watchedPaths, !.numWatch = Cardinality(watchInfoMap)]
      BY <1>3, <2>4 DEF OpenDirectory
    <3>2. rebuild' = [i |-> rebuild.i, paths |-> watchedPaths, numWatch |-> rebuild.i - 1]
      BY <2>2, <3>1 DEF IInv, PathsOK
    <3>3. FlagsOK'
      BY <1>3, <3>1 DEF OpenDirectory, IInv, FlagsOK
    <3>4. PathsOK'
      BY <2>1, <2>2, <3>1, <3>2 DEF IInv, PathsOK
    <3>5. packets' \in SUBSET Slots /\ pdi' \in Slots \cup {None} /\ PacketsKnown' /\ Rebuilding'
      BY <2>1, <2>2, <2>4, <3>1, <3>2 DEF IInv, InfosOK, PacketsKnown, Rebuilding, Doomed
    <3> QED
      BY <2>1, <3>1, <3>2, <3>3, <3>4, <3>5, InfosKept
  <2> QED
    BY <2>3, <2>4
<1>4. CASE Got
  <2>1. /\ UNCHANGED <<info, watchInfoMap, infoToDelete, watchedPaths, excused, port, window,
                       packets, pdi, m_bCleaned>>
        /\ pc = "got" /\ pc' \in {"done", "top", "process"}
        /\ pc' = "process" => watchInfoMap # {}
        /\ FlagsOK' /\ PathsOK'
    BY <1>4 DEF Got, IInv, FlagsOK, PathsOK
  <2>2. packets' \in SUBSET Slots /\ pdi' \in Slots \cup {None} /\ PacketsKnown' /\ Rebuilding'
    BY <2>1 DEF IInv, InfosOK, PacketsKnown, Rebuilding
  <2> QED
    BY <2>1, <2>2, InfosKept
<1>5. CASE SkipPacket
  <2>1. /\ UNCHANGED <<info, watchInfoMap, infoToDelete, watchedPaths, excused, port, window,
                       packets, pdi>>
        /\ pc = "process" /\ pc' = "top" /\ FlagsOK' /\ PathsOK'
    BY <1>5 DEF SkipPacket, IInv, FlagsOK, PathsOK
  <2>2. packets' \in SUBSET Slots /\ pdi' \in Slots \cup {None} /\ PacketsKnown' /\ Rebuilding'
    BY <2>1 DEF IInv, InfosOK, PacketsKnown, Rebuilding
  <2> QED
    BY <2>1, <2>2, InfosKept
<1> QED
  BY <1>1, <1>2, <1>3, <1>4, <1>5

(* The infos that are about to be deleted are gone.                        *)
LEMMA CleanedUp ==
  ASSUME IInv, CleanupWatchInfo
  PROVE  /\ m_bCleaned' = TRUE /\ Doomed' = {}
         /\ packets' \in SUBSET Slots /\ (watchInfoMap # {} => packets' = packets)
         /\ infoToDelete' \in Seq(Slots) /\ IsInjective(infoToDelete')
         /\ info' \in [Slots -> WatchInfos]
         /\ \A s \in Slots : info'[s] = IF s \in Doomed THEN Free ELSE info[s]
<1>1. InfosOK /\ Owned
  BY DEF IInv
<1>2. /\ m_bCleaned' = TRUE /\ infoToDelete' = << >>
      /\ info' = [s \in Slots |-> IF s \in Doomed THEN Free ELSE info[s]]
      /\ packets' = IF port THEN packets \cup {s \in Doomed : IsArmed(s)} ELSE packets
  BY SameSet DEF CleanupWatchInfo
<1>3. Doomed \in SUBSET Slots
  BY <1>1 DEF InfosOK, Doomed, Range
<1>4. watchInfoMap # {} => Doomed = {}
  BY <1>1 DEF Owned
<1>5. packets' \in SUBSET Slots /\ (watchInfoMap # {} => packets' = packets)
  BY <1>1, <1>2, <1>3, <1>4 DEF InfosOK
<1>6. Doomed' = {}
  BY <1>2, EmptyList DEF Doomed
<1> QED
  BY <1>1, <1>2, <1>5, <1>6, EmptyList, FreedEffect

LEMMA CleanupKeeps ==
  ASSUME IInv, CleanupWatchInfo, pc \in {"top", "notify"}, pc' \in {"top", "get"},
         UNCHANGED <<m_bRunning, m_FolderCrawler, port, watchedPaths, watchInfoMap, blockedPath,
                     pdi, rebuild, adding, window, excused>>,
         notifyPaths' \in SUBSET Dirs
  PROVE  IInv'
<1>1. /\ m_bCleaned' = TRUE /\ Doomed' = {}
      /\ packets' \in SUBSET Slots /\ (watchInfoMap # {} => packets' = packets)
      /\ infoToDelete' \in Seq(Slots) /\ IsInjective(infoToDelete')
      /\ info' \in [Slots -> WatchInfos]
      /\ \A s \in Slots : info'[s] = IF s \in Doomed THEN Free ELSE info[s]
  BY CleanedUp
<1>2. PathsOK' /\ FlagsOK' /\ InfosOK'
  <2>1. PathsOK'
    BY DEF IInv, PathsOK
  <2>2. FlagsOK'
    BY <1>1 DEF IInv, FlagsOK
  <2>3. InfosOK'
    BY <1>1 DEF IInv, InfosOK
  <2> QED
    BY <2>1, <2>2, <2>3
<1>3. Owned'
  BY <1>1 DEF IInv, Owned, Free
<1>4. PacketsKnown' /\ Rebuilding'
  BY <1>1 DEF IInv, PacketsKnown, Rebuilding
<1>5. Watching'
  <2>1. \A d : watchInfoMap # {} /\ Watched(d) => Watched(d)'
    BY <1>1 DEF IInv, Owned, InfosOK, Watched
  <2> QED
    BY <2>1 DEF IInv, Watching
<1> QED
  BY <1>2, <1>3, <1>4, <1>5 DEF IInv

LEMMA TopKeeps ==
  ASSUME IInv, Top PROVE IInv'
<1> USE DEF listVars, ioVars
<1>1. CASE m_bRunning
  BY <1>1, CleanupKeeps DEF Top, IInv, PathsOK
<1>2. CASE ~m_bRunning
  <2>1. /\ UNCHANGED <<info, watchInfoMap, infoToDelete, watchedPaths, excused, port, window,
                       packets, pdi>>
        /\ pc = "top" /\ pc' = "done" /\ FlagsOK' /\ PathsOK'
    BY <1>2 DEF Top, IInv, FlagsOK, PathsOK
  <2>2. packets' \in SUBSET Slots /\ pdi' \in Slots \cup {None} /\ PacketsKnown' /\ Rebuilding'
    BY <2>1 DEF IInv, InfosOK, PacketsKnown, Rebuilding
  <2> QED
    BY <2>1, <2>2, InfosKept
<1> QED
  BY <1>1, <1>2

LEMMA NotifyKeeps ==
  ASSUME IInv, Notify PROVE IInv'
BY CleanupKeeps DEF Notify

(* All watch infos are gone.                                               *)
LEMMA Cleared ==
  ASSUME IInv, ClearAndCleanup
  PROVE  /\ port' = FALSE /\ packets' = {} /\ m_bCleaned' = TRUE
         /\ watchInfoMap' = {} /\ Doomed' = {} /\ info' \in [Slots -> WatchInfos]
         /\ infoToDelete' \in Seq(Slots) /\ IsInjective(infoToDelete')
         /\ \A s \in Slots : info'[s] = IF s \in watchInfoMap \cup Doomed THEN Free ELSE info[s]
<1>1. /\ port' = FALSE /\ packets' = {} /\ m_bCleaned' = TRUE
      /\ watchInfoMap' = {} /\ infoToDelete' = << >>
      /\ info' = [s \in Slots |-> IF s \in watchInfoMap \cup Doomed THEN Free ELSE info[s]]
  BY SameSet DEF ClearAndCleanup
<1>2. Doomed' = {}
  BY <1>1, EmptyList DEF Doomed
<1> QED
  BY <1>1, <1>2, EmptyList, FreedEffect DEF IInv

LEMMA ClearKeeps ==
  ASSUME IInv, ClearAndCleanup, PathsOK', FlagsOK', UNCHANGED pdi,
         pc' \in {"loop", "top"}, pc' = "loop" => rebuild'.i = 1
  PROVE  IInv'
<1>1. /\ port' = FALSE /\ packets' = {} /\ m_bCleaned' = TRUE
      /\ watchInfoMap' = {} /\ Doomed' = {} /\ info' \in [Slots -> WatchInfos]
      /\ infoToDelete' \in Seq(Slots) /\ IsInjective(infoToDelete')
      /\ \A s \in Slots : info'[s] = IF s \in watchInfoMap \cup Doomed THEN Free ELSE info[s]
  BY Cleared
<1>2. InfosOK' /\ Owned'
  BY <1>1 DEF IInv, InfosOK, Owned, Free
<1>3. PacketsKnown' /\ Watching'
  BY <1>1 DEF PacketsKnown, Watching
<1>4. Rebuilding'
  <2>1. Cardinality({}) = 0 /\ Len(watchedPaths') \in Nat
    BY FS_EmptySet DEF PathsOK
  <2> QED
    BY <1>1, <2>1 DEF Rebuilding
<1> QED
  BY <1>2, <1>3, <1>4 DEF IInv

LEMMA RestartKeeps ==
  ASSUME IInv, Restart, pc = "wait" PROVE IInv'
<1> USE DEF listVars, ioVars
<1>1. CASE m_bRunning
  <2>1. /\ ClearAndCleanup /\ UNCHANGED pdi /\ pc' = "loop" /\ excused' = ""
        /\ UNCHANGED <<m_bRunning, m_FolderCrawler, watchedPaths, blockedPath, notifyPaths, adding, window>>
        /\ rebuild' = [rebuild EXCEPT !.i = 1]
    BY <1>1 DEF Restart
  <2>2. rebuild' = [i |-> 1, paths |-> rebuild.paths, numWatch |-> rebuild.numWatch]
    BY <2>1 DEF IInv, PathsOK
  <2>4. PathsOK' /\ rebuild'.i = 1
    <3>1. rebuild.paths \in Seq(Dirs) /\ rebuild.numWatch \in Nat
      BY DEF IInv, PathsOK
    <3>2. rebuild' \in [i : Nat \ {0}, paths : Seq(Dirs), numWatch : Nat] /\ rebuild'.i = 1
      BY <2>2, <3>1
    <3> QED
      BY <2>1, <3>2 DEF IInv, PathsOK
  <2>3. FlagsOK'
    BY <2>1, Cleared DEF IInv, FlagsOK
  <2> QED
    BY <2>1, <2>3, <2>4, ClearKeeps
<1>2. CASE ~m_bRunning
  <2>1. /\ UNCHANGED <<info, watchInfoMap, infoToDelete, watchedPaths, excused, port, window,
                       packets, pdi>>
        /\ pc' = "done" /\ FlagsOK' /\ PathsOK'
    BY <1>2 DEF Restart, IInv, FlagsOK, PathsOK
  <2>2. packets' \in SUBSET Slots /\ pdi' \in Slots \cup {None} /\ PacketsKnown' /\ Rebuilding'
    BY <2>1 DEF IInv, InfosOK, PacketsKnown, Rebuilding
  <2> QED
    BY <2>1, <2>2, InfosKept
<1> QED
  BY <1>1, <1>2

LEMMA OpenFailsKeeps ==
  ASSUME IInv, OpenDirectoryFails PROVE IInv'
<1> USE DEF flagVars, ioVars, listVars
<1>1. /\ UNCHANGED <<info, watchInfoMap, infoToDelete, port, window, packets, pdi, m_bCleaned,
                     m_bRunning, m_FolderCrawler, blockedPath, notifyPaths, rebuild, adding>>
      /\ pc' = "top" /\ excused' = "not opened"
      /\ watchedPaths' = RemovePath(watchedPaths, watchedPaths[rebuild.i])
  BY DEF OpenDirectoryFails
<1>2. PathsOK'
  BY <1>1, ListFacts DEF IInv, PathsOK
<1>3. FlagsOK' /\ InfosOK' /\ Owned'
  BY <1>1 DEF IInv, FlagsOK, InfosOK, Owned, Doomed
<1>4. PacketsKnown' /\ Rebuilding' /\ Watching'
  BY <1>1 DEF IInv, PacketsKnown, Rebuilding, Watching
<1> QED
  BY <1>2, <1>3, <1>4 DEF IInv

(* When sizes are the same the map is the one of before the call, and      *)
(* there is room for another info.                                         *)
LEMMA Room ==
  ASSUME IInv, pc = "register", SameSizes
  PROVE  LET s == Min({t \in Slots : info[t].dir = NoDir}) IN
         /\ s \in Slots /\ s \notin watchInfoMap /\ Doomed = {}
         /\ Cardinality(watchInfoMap) = rebuild.i - 1
         /\ Cardinality(watchInfoMap \cup {s}) = rebuild.i
         /\ rebuild.i <= Len(watchedPaths) /\ rebuild.i \in DOMAIN rebuild.paths
         /\ rebuild.i \in Nat /\ rebuild.i > 0
<1> DEFINE i == rebuild.i
           n == Len(watchedPaths)
           F == {t \in Slots : info[t].dir = NoDir}
           c == Cardinality(watchInfoMap)
<1>1. /\ i \in Nat /\ i > 0 /\ n \in Nat /\ Len(rebuild.paths) = n
      /\ DOMAIN rebuild.paths = 1..n
  BY DEF IInv, PathsOK, SameSizes
<1>2. IsFiniteSet(watchInfoMap) /\ watchInfoMap \in SUBSET Slots
  BY SlotFacts, FS_Subset DEF IInv, InfosOK
<1>3. i <= n /\ c = i - 1 /\ Doomed = {}
  <2>1. i <= Len(rebuild.paths) /\ rebuild.numWatch = i - 1 /\ rebuild.numWatch = c
        /\ (Doomed = {} \/ (watchInfoMap = {} /\ rebuild.numWatch > 0))
    BY DEF IInv, Rebuilding, SameSizes
  <2>2. watchInfoMap = {} => c = 0
    BY FS_EmptySet
  <2> HIDE DEF i, n, c
  <2> QED
    BY <1>1, <2>1, <2>2
<1>4. F # {}
  <2> SUFFICES ASSUME F = {} PROVE FALSE
    OBVIOUS
  <2>1. watchInfoMap = Slots
    BY <1>2, <1>3 DEF IInv, Owned
  <2>2. n <= Cardinality(Dirs)
    BY Pigeons DEF IInv, PathsOK
  <2>3. c = Cardinality(Dirs) + 1 /\ Cardinality(Dirs) \in Nat
    BY <2>1, SlotFacts
  <2> HIDE DEF i, n, c
  <2> QED
    BY <1>1, <1>3, <2>2, <2>3
<1>5. F \in SUBSET Slots /\ F \in SUBSET Int /\ IsFiniteSet(F)
  <2>1. F \in SUBSET Slots
    OBVIOUS
  <2> HIDE DEF F
  <2> QED
    BY <2>1, SlotFacts, FS_Subset
<1>6. Min(F) \in F
  <2> HIDE DEF F
  <2>1. PICK m \in F : \A v \in F : m <= v
    BY <1>4, <1>5, Least
  <2> QED
    BY <2>1 DEF Min
<1>7. Min(F) \in Slots /\ Min(F) \notin watchInfoMap
  <2>1. info[Min(F)].dir = NoDir /\ Min(F) \in Slots
    BY <1>6
  <2> HIDE DEF F
  <2> QED
    BY <2>1 DEF IInv, Owned
<1> HIDE DEF F
<1>8. Cardinality(watchInfoMap \cup {Min(F)}) = c + 1
  BY <1>2, <1>7, FS_AddElement
<1>9. c + 1 = i /\ i \in 1..n
  <2> HIDE DEF i, n, c
  <2> QED
    BY <1>1, <1>3
<1> QED
  BY <1>1, <1>3, <1>7, <1>8, <1>9 DEF F, i, n, c

LEMMA NewInfo ==
  ASSUME NEW path \in Dirs
  PROVE  LET new == [Free EXCEPT !.dir = path, !.open = TRUE, !.read = "armed"]
         IN  new \in WatchInfos /\ new.dir = path /\ new.open = TRUE /\ new.read = "armed"
<1>1. Free \in WatchInfos
  BY DEF Free, WatchInfos
<1> QED
  BY <1>1 DEF WatchInfos

LEMMA RegisteredKeeps ==
  ASSUME IInv, Registered PROVE IInv'
<1>1. CASE SameSizes
  <2> DEFINE s == Min({t \in Slots : info[t].dir = NoDir})
             path == rebuild.paths[rebuild.i]
             new == [Free EXCEPT !.dir = path, !.open = TRUE, !.read = "armed"]
  <2>1. /\ s \in Slots /\ s \notin watchInfoMap /\ Doomed = {}
        /\ Cardinality(watchInfoMap) = rebuild.i - 1
        /\ Cardinality(watchInfoMap \cup {s}) = rebuild.i
        /\ rebuild.i <= Len(watchedPaths) /\ rebuild.i \in DOMAIN rebuild.paths
        /\ rebuild.i \in Nat /\ rebuild.i > 0
    BY <1>1, Room DEF Registered
  <2>2. path \in Dirs
    BY <2>1 DEF IInv, PathsOK
  <2>3. /\ info' = [info EXCEPT ![s] = new]
        /\ port' = TRUE /\ watchInfoMap' = watchInfoMap \cup {s}
        /\ rebuild' = [rebuild EXCEPT !.i = @ + 1]
        /\ excused' = (IF rebuild.paths = watchedPaths THEN excused ELSE "same size")
        /\ pc' = "loop" /\ pc = "register"
        /\ UNCHANGED <<packets, infoToDelete, m_bCleaned, m_bRunning, m_FolderCrawler, watchedPaths,
                       blockedPath, pdi, notifyPaths, adding, window>>
    BY <1>1 DEF Registered
  <2>4. new \in WatchInfos /\ new.dir = path /\ new.open = TRUE /\ new.read = "armed"
    BY <2>2, NewInfo
  <2> HIDE DEF s, new
  <2>7. /\ info' \in [Slots -> WatchInfos] /\ info'[s] = new
        /\ \A t \in Slots : t # s => info'[t] = info[t]
    BY <2>1, <2>3, <2>4 DEF IInv, InfosOK
  <2>8. rebuild'.i = rebuild.i + 1 /\ PathsOK'
    <3>1. rebuild.paths \in Seq(Dirs) /\ rebuild.numWatch \in Nat
      BY DEF IInv, PathsOK
    <3>2. rebuild' = [i |-> rebuild.i + 1, paths |-> rebuild.paths, numWatch |-> rebuild.numWatch]
      BY <2>3 DEF IInv, PathsOK
    <3>3. rebuild' \in [i : Nat \ {0}, paths : Seq(Dirs), numWatch : Nat]
          /\ rebuild'.i = rebuild.i + 1
      BY <2>1, <3>1, <3>2
    <3> QED
      BY <2>3, <3>3 DEF IInv, PathsOK
  <2>9. FlagsOK' /\ InfosOK'
    <3>1. FlagsOK'
      BY <2>3 DEF IInv, FlagsOK
    <3>2. InfosOK'
      BY <2>1, <2>3, <2>7 DEF IInv, InfosOK
    <3> QED
      BY <3>1, <3>2
  <2>10. Owned'
    <3>1. Doomed' = {}
      BY <2>1, <2>3 DEF Doomed
    <3>2. path # NoDir
      BY <2>2, DirsAreRanks
    <3> HIDE DEF path
    <3> QED
      BY <2>1, <2>3, <2>4, <2>7, <3>1, <3>2 DEF IInv, Owned
  <2>11. PacketsKnown'
    BY <2>1, <2>3 DEF IInv, PacketsKnown
  <2>12. Rebuilding'
    <3>1. Doomed' = {}
      BY <2>1, <2>3 DEF Doomed
    <3>2. Cardinality(watchInfoMap') = rebuild.i
      BY <2>1, <2>3
    <3> DEFINE i == rebuild.i
               j == rebuild'.i
               n == Len(watchedPaths)
    <3>3. i \in Nat /\ i <= n /\ j = i + 1 /\ n \in Nat
      BY <2>1, <2>8 DEF IInv, PathsOK
    <3> HIDE DEF i, j, n
    <3>4. i = j - 1 /\ j - 1 <= n
      BY <3>3
    <3>5. Cardinality(watchInfoMap') = rebuild'.i - 1 /\ rebuild'.i - 1 <= Len(watchedPaths')
      BY <2>3, <3>2, <3>4 DEF i, j, n
    <3> QED
      BY <2>3, <3>1, <3>5 DEF Rebuilding
  <2>13. Watching'
    <3>1. ASSUME excused' = "", window = "idle", NEW k \in DOMAIN watchedPaths, k < rebuild.i + 1
          PROVE  Watched(watchedPaths[k])'
      <4>1. rebuild.paths = watchedPaths /\ excused = ""
        BY <2>3, <3>1
      <4>2. CASE k = rebuild.i
        <5>1. watchedPaths[k] = path
          BY <4>1, <4>2
        <5> HIDE DEF path
        <5> QED
          BY <2>3, <2>4, <2>7, <5>1 DEF Watched
      <4>3. CASE k # rebuild.i
        <5>1. Len(watchedPaths) \in Nat /\ DOMAIN watchedPaths = 1..Len(watchedPaths)
          BY DEF IInv, PathsOK
        <5> DEFINE i == rebuild.i
                   n == Len(watchedPaths)
        <5>i. i \in Nat /\ k \in 1..n /\ n \in Nat /\ k < i + 1 /\ k # i
          BY <2>1, <3>1, <4>3, <5>1
        <5> HIDE DEF i, n
        <5>j. k < i
          BY <5>i
        <5>2. k < rebuild.i
          BY <5>j DEF i
        <5>3. watchInfoMap # {}
          <6>1. i - 1 # 0
            BY <5>i, <5>j
          <6>2. rebuild.i - 1 # 0
            BY <6>1 DEF i
          <6> QED
            BY <2>1, <6>2, FS_EmptySet
        <5>4. Watched(watchedPaths[k])
          BY <3>1, <4>1, <5>2, <5>3 DEF IInv, Watching
        <5>5. \A t \in watchInfoMap : info'[t] = info[t] /\ t \in watchInfoMap'
          BY <2>1, <2>3, <2>7 DEF IInv, InfosOK
        <5> QED
          BY <2>3, <5>4, <5>5 DEF Watched
      <4> QED
        BY <4>2, <4>3
    <3>2. watchInfoMap' # {}
      BY <2>3
    <3> QED
      BY <2>3, <2>8, <3>1, <3>2 DEF Watching
  <2> QED
    BY <2>8, <2>9, <2>10, <2>11, <2>12, <2>13 DEF IInv
<1>2. CASE ~SameSizes
  <2>1. /\ ClearAndCleanup /\ pc' = "top"
        /\ UNCHANGED <<m_bRunning, m_FolderCrawler, watchedPaths, blockedPath, pdi, notifyPaths,
                       rebuild, excused, adding, window>>
    BY <1>2 DEF Registered
  <2>2. PathsOK' /\ FlagsOK'
    <3>1. PathsOK'
      BY <2>1 DEF IInv, PathsOK
    <3>2. FlagsOK'
      BY <2>1, Cleared DEF IInv, FlagsOK
    <3> QED
      BY <3>1, <3>2
  <2> QED
    BY <2>1, <2>2, ClearKeeps
<1> QED
  BY <1>1, <1>2

LEMMA RegisteredFailsKeeps ==
  ASSUME IInv, RegisteredFails PROVE IInv'
<1>1. /\ ClearAndCleanup /\ pc' = "top"
      /\ watchedPaths' = RemovePath(watchedPaths, rebuild.paths[rebuild.i])
      /\ UNCHANGED <<m_bRunning, m_FolderCrawler, blockedPath, pdi, notifyPaths,
                     rebuild, excused, adding, window>>
  BY DEF RegisteredFails
<1>2. PathsOK'
  BY <1>1, ListFacts DEF IInv, PathsOK
<1>3. FlagsOK'
  BY <1>1, Cleared DEF IInv, FlagsOK
<1> QED
  BY <1>1, <1>2, <1>3, ClearKeeps

(* The next read of an info is started, or has failed, or has ended with   *)
(* what came meanwhile.                                                    *)
LEMMA ReadAgain ==
  ASSUME info \in [Slots -> WatchInfos], pdi \in Slots,
         \/ info' = [info EXCEPT ![pdi].buf = {}, ![pdi].read = "armed"]
         \/ info' = [info EXCEPT ![pdi].buf = {}, ![pdi].read = "failed"]
  PROVE  /\ info' \in [Slots -> WatchInfos]
         /\ \A t \in Slots : info'[t].dir = info[t].dir /\ info'[t].open = info[t].open
         /\ \A t \in Slots : t # pdi => info'[t].read = info[t].read
         /\ info' = [info EXCEPT ![pdi].buf = {}, ![pdi].read = "armed"] => info'[pdi].read = "armed"
<1> DEFINE w == info[pdi]
           new(r) == [[w EXCEPT !.buf = {}] EXCEPT !.read = r]
<1>1. w \in WatchInfos
  OBVIOUS
<1>2. /\ info' = [info EXCEPT ![pdi] = new("armed")] \/ info' = [info EXCEPT ![pdi] = new("failed")]
      /\ info' = [info EXCEPT ![pdi].buf = {}, ![pdi].read = "armed"]
           => info' = [info EXCEPT ![pdi] = new("armed")]
  OBVIOUS
<1> HIDE DEF w
<1>3. \A r \in {"armed", "failed"} :
        new(r) \in WatchInfos /\ new(r).dir = w.dir /\ new(r).open = w.open /\ new(r).read = r
  BY <1>1 DEF WatchInfos
<1> HIDE DEF new
<1>4. ASSUME NEW r \in {"armed", "failed"}, info' = [info EXCEPT ![pdi] = new(r)]
      PROVE  /\ info' \in [Slots -> WatchInfos] /\ info'[pdi] = new(r)
             /\ \A t \in Slots : t # pdi => info'[t] = info[t]
  BY <1>3, <1>4
<1>5. \E r \in {"armed", "failed"} : info' = [info EXCEPT ![pdi] = new(r)]
  BY <1>2
<1>6. PICK r \in {"armed", "failed"} : info' = [info EXCEPT ![pdi] = new(r)]
  BY <1>5
<1>7. /\ info' \in [Slots -> WatchInfos]
      /\ \A t \in Slots : info'[t].dir = info[t].dir /\ info'[t].open = info[t].open
      /\ \A t \in Slots : t # pdi => info'[t].read = info[t].read
  BY <1>3, <1>4, <1>6 DEF w
<1>8. info' = [info EXCEPT ![pdi] = new("armed")] => info'[pdi].read = "armed"
  BY <1>3, <1>4
<1> QED
  BY <1>2, <1>7, <1>8

LEMMA ReadEnded ==
  ASSUME info \in [Slots -> WatchInfos], pdi \in Slots,
         info' = [info EXCEPT ![pdi].buf = info[pdi].pend, ![pdi].pend = {}]
  PROVE  /\ info' \in [Slots -> WatchInfos]
         /\ \A t \in Slots : /\ info'[t].dir = info[t].dir /\ info'[t].open = info[t].open
                             /\ info'[t].read = info[t].read
<1> DEFINE w == info[pdi]
           new == [[w EXCEPT !.buf = w.pend] EXCEPT !.pend = {}]
<1>1. w \in WatchInfos
  OBVIOUS
<1>2. info' = [info EXCEPT ![pdi] = new]
  OBVIOUS
<1> HIDE DEF w
<1>3. new \in WatchInfos /\ new.dir = w.dir /\ new.open = w.open /\ new.read = w.read
  BY <1>1 DEF WatchInfos
<1> HIDE DEF new
<1>4. info' \in [Slots -> WatchInfos] /\ info'[pdi] = new /\ \A t \in Slots : t # pdi => info'[t] = info[t]
  BY <1>2, <1>3
<1> QED
  BY <1>3, <1>4 DEF w

(* The info whose packet is processed goes on watching its directory       *)
(* unless the next read fails.                                             *)
LEMMA TakesKeep ==
  ASSUME IInv, TakeChanges \/ TakeChangesFails PROVE IInv'
<1> USE DEF flagVars, ioVars, listVars
<1>1. /\ pc = "process" /\ pc' = "notify" /\ pdi \in watchInfoMap
      /\ UNCHANGED <<m_bRunning, m_bCleaned, m_FolderCrawler, port, watchedPaths, watchInfoMap,
                     infoToDelete, blockedPath, pdi, rebuild, adding, window>>
      /\ notifyPaths' = IF m_FolderCrawler THEN info[pdi].buf ELSE {}
      /\ packets' \in {packets, packets \cup {pdi}}
  BY DEF TakeChanges, TakeChangesFails, Skips
<1>2. pdi \in Slots /\ info[pdi] \in WatchInfos
  BY <1>1 DEF IInv, InfosOK
<1>3. /\ info' \in [Slots -> WatchInfos]
      /\ \A t \in Slots : info'[t].dir = info[t].dir /\ info'[t].open = info[t].open
      /\ \A t \in Slots : excused' = "" => info'[t].read \in {info[t].read, "armed"}
      /\ excused' \in {excused, "no read"}
  <2>i. info \in [Slots -> WatchInfos]
    BY DEF IInv, InfosOK
  <2>1. CASE TakeChanges
    <3>1. excused' = excused
      BY <2>1 DEF TakeChanges
    <3>2. CASE info[pdi].pend = {}
      <4>1. info' = [info EXCEPT ![pdi].buf = {}, ![pdi].read = "armed"]
        BY <2>1, <3>2 DEF TakeChanges
      <4> QED
        <5>1. /\ info' \in [Slots -> WatchInfos]
              /\ \A t \in Slots : /\ info'[t].dir = info[t].dir /\ info'[t].open = info[t].open
                                          /\ info'[t].read \in {info[t].read, "armed"}
          BY <1>2, <2>i, <4>1, ReadAgain
        <5> QED
          BY <3>1, <5>1
    <3>3. CASE info[pdi].pend # {}
      <4>1. info' = [info EXCEPT ![pdi].buf = info[pdi].pend, ![pdi].pend = {}]
        BY <2>1, <3>3 DEF TakeChanges
      <4> QED
        <5>1. /\ info' \in [Slots -> WatchInfos]
              /\ \A t \in Slots : /\ info'[t].dir = info[t].dir /\ info'[t].open = info[t].open
                                          /\ info'[t].read \in {info[t].read, "armed"}
          BY <1>2, <2>i, <4>1, ReadEnded
        <5> QED
          BY <3>1, <5>1
    <3> QED
      BY <3>2, <3>3
  <2>2. CASE TakeChangesFails
    <3>1. excused' = "no read" /\ info' = [info EXCEPT ![pdi].buf = {}, ![pdi].read = "failed"]
      BY <2>2 DEF TakeChangesFails
    <3> QED
      <4>1. /\ info' \in [Slots -> WatchInfos]
            /\ \A t \in Slots : info'[t].dir = info[t].dir /\ info'[t].open = info[t].open
        BY <1>2, <2>i, <3>1, ReadAgain
      <4> QED
        BY <3>1, <4>1
  <2> QED
    BY <2>1, <2>2
<1>4. PathsOK' /\ FlagsOK' /\ InfosOK'
  <2>1. PathsOK'
    BY <1>1, <1>2 DEF IInv, PathsOK, WatchInfos
  <2>2. FlagsOK'
    BY <1>1, <1>3 DEF IInv, FlagsOK
  <2>3. InfosOK'
    BY <1>1, <1>2, <1>3 DEF IInv, InfosOK
  <2> QED
    BY <2>1, <2>2, <2>3
<1>5. Owned'
  BY <1>1, <1>3 DEF IInv, Owned, Doomed
<1>6. PacketsKnown' /\ Rebuilding'
  BY <1>1 DEF IInv, PacketsKnown, Rebuilding
<1>7. Watching'
  <2>1. ASSUME excused' = "" PROVE excused = "" /\ \A d : Watched(d) => Watched(d)'
    <3>1. \A t \in watchInfoMap : t \in Slots
      BY DEF IInv, InfosOK
    <3> QED
      BY <1>1, <1>3, <2>1, <3>1 DEF Watched
  <2> QED
    BY <1>1, <2>1 DEF IInv, Watching
<1> QED
  BY <1>4, <1>5, <1>6, <1>7 DEF IInv

LEMMA WorkerKeeps ==
  ASSUME IInv, Worker \/ WorkerFails \/ TenMinutes PROVE IInv'
<1>1. PortClosed \/ TenMinutes => IInv'
  BY RestartKeeps DEF PortClosed, TenMinutes
<1> QED
  BY <1>1, WorkerKeepsInfos, TopKeeps, NotifyKeeps, OpenFailsKeeps, RegisteredKeeps,
     RegisteredFailsKeeps, TakesKeep DEF Worker, WorkerFails

-----------------------------------------------------------------------------
(* The crawler, the pipe threads, the window thread and Windows            *)

(* A map that is emptied has no infos in it, one way or the other.         *)
LEMMA NoInfos ==
  ASSUME IInv, Cardinality(watchInfoMap) = 0
  PROVE  watchInfoMap = {}
<1>1. IsFiniteSet(watchInfoMap)
  BY SlotFacts, FS_Subset DEF IInv, InfosOK
<1> QED
  BY <1>1, FS_EmptySet

(* The rebuilding loop finds out that the map was emptied, or had not put  *)
(* anything there.                                                         *)
LEMMA RebuildingEmptied ==
  ASSUME IInv, ~Locked, pc' = pc \/ pc' = "got", rebuild' = rebuild, watchInfoMap' = {},
         watchInfoMap = {} /\ Doomed = {} => Doomed' = {}
  PROVE  Rebuilding'
<1>1. pc' # "loop"
  BY DEF Locked
<1>2. ASSUME pc' = "register"
      PROVE  /\ rebuild.i <= Len(rebuild.paths) /\ rebuild.numWatch = rebuild.i - 1
             /\ \/ Doomed' = {} /\ Cardinality({}) = rebuild.numWatch
                \/ rebuild.numWatch > 0
  <2>1. pc = "register"
    BY <1>2
  <2>2. /\ rebuild.i <= Len(rebuild.paths) /\ rebuild.numWatch = rebuild.i - 1
        /\ \/ Doomed = {} /\ Cardinality(watchInfoMap) = rebuild.numWatch
           \/ rebuild.numWatch > 0
    BY <2>1 DEF IInv, Rebuilding
  <2>3. rebuild.numWatch \in Nat
    BY DEF IInv, PathsOK
  <2>4. CASE rebuild.numWatch > 0
    BY <2>2, <2>4
  <2>5. CASE ~(rebuild.numWatch > 0)
    <3>1. rebuild.numWatch = 0
      BY <2>3, <2>5
    <3>2. Doomed = {} /\ watchInfoMap = {}
      BY <2>2, <2>5, <3>1, NoInfos
    <3> QED
      BY <2>2, <3>1, <3>2, FS_EmptySet
  <2> QED
    BY <2>4, <2>5
<1> QED
  BY <1>1, <1>2 DEF Rebuilding

(* The port is closed, and a worker that waits at it may get a last packet.*)
LEMMA PortLost ==
  ASSUME IInv, ~Locked, ClosePortOfWorker(watchInfoMap)
  PROVE  /\ port' = FALSE /\ packets' = {} /\ UNCHANGED <<notifyPaths, rebuild>>
         /\ pdi' \in Slots \cup {None}
         /\ \/ pc' = pc /\ pdi' = pdi
            \/ pc' = "got" /\ (watchInfoMap # {} => pdi' \in watchInfoMap)
         /\ pc' \in {"top", "get", "wait", "got", "process", "notify", "register", "done"}
<1>1. /\ port' = FALSE /\ packets' = {} /\ UNCHANGED <<notifyPaths, rebuild>>
      /\ \/ UNCHANGED <<pc, pdi>>
         \/ pdi' \in packets \cup watchInfoMap /\ pc' = "got"
  BY DEF ClosePortOfWorker
<1>2. packets \in SUBSET Slots /\ watchInfoMap \in SUBSET Slots /\ pdi \in Slots \cup {None}
  BY DEF IInv, InfosOK
<1>3. watchInfoMap # {} => packets \in SUBSET watchInfoMap
  BY DEF IInv, PacketsKnown
<1> QED
  BY <1>1, <1>2, <1>3 DEF IInv, FlagsOK, Locked

(* The handles are closed and the infos stay where they are: the first     *)
(* half of ClearInfoMap, or Stop.                                          *)
LEMMA ClosingKeeps ==
  ASSUME IInv, ~Locked, CloseWatchHandles,
         UNCHANGED <<m_bCleaned, m_FolderCrawler, watchedPaths, watchInfoMap, infoToDelete,
                     blockedPath, adding, excused>>,
         m_bRunning' \in BOOLEAN, window' \in {"clearing", "stopping"}
  PROVE  IInv'
<1>1. /\ port' = FALSE /\ packets' = {} /\ UNCHANGED <<notifyPaths, rebuild>>
      /\ pdi' \in Slots \cup {None}
      /\ \/ pc' = pc /\ pdi' = pdi
         \/ pc' = "got" /\ (watchInfoMap # {} => pdi' \in watchInfoMap)
      /\ pc' \in {"top", "get", "wait", "got", "process", "notify", "register", "done"}
  BY PortLost DEF CloseWatchHandles
<1>2. /\ info' \in [Slots -> WatchInfos]
      /\ \A s \in Slots : info'[s].dir = info[s].dir /\ (info'[s].open => info[s].open)
  BY ClosedEffect DEF CloseWatchHandles, IInv
<1>3. PathsOK' /\ FlagsOK' /\ InfosOK'
  <2>1. PathsOK'
    BY <1>1 DEF IInv, PathsOK
  <2>2. FlagsOK'
    BY <1>1 DEF IInv, FlagsOK
  <2>3. InfosOK'
    BY <1>1, <1>2 DEF IInv, InfosOK
  <2> QED
    BY <2>1, <2>2, <2>3
<1>4. Owned'
  BY <1>2 DEF IInv, Owned, Doomed
<1>5. PacketsKnown'
  BY <1>1 DEF IInv, PacketsKnown, Doomed
<1>6. Rebuilding'
  BY <1>1 DEF IInv, Rebuilding, Doomed
<1>7. Watching'
  BY <1>1 DEF Watching
<1> QED
  BY <1>3, <1>4, <1>5, <1>6, <1>7 DEF IInv

(* The handles are closed and the infos leave the map.                     *)
LEMMA TakingKeeps ==
  ASSUME IInv, ~Locked, CloseWatchHandles, TakeAll,
         watchedPaths' \in Seq(Dirs), IsInjective(watchedPaths'),
         blockedPath' \in Dirs \cup {NoDir}, adding' \in Dirs \cup {NoDir},
         UNCHANGED <<m_bRunning, m_bCleaned, m_FolderCrawler, window, excused>>
  PROVE  IInv'
<1>1. /\ port' = FALSE /\ packets' = {} /\ UNCHANGED <<notifyPaths, rebuild>>
      /\ pdi' \in Slots \cup {None}
      /\ \/ pc' = pc /\ pdi' = pdi
         \/ pc' = "got" /\ (watchInfoMap # {} => pdi' \in watchInfoMap)
      /\ pc' \in {"top", "get", "wait", "got", "process", "notify", "register", "done"}
  BY PortLost DEF CloseWatchHandles
<1>2. /\ info' \in [Slots -> WatchInfos]
      /\ \A s \in Slots : info'[s].dir = info[s].dir /\ (info'[s].open => info[s].open)
  BY ClosedEffect DEF CloseWatchHandles, IInv
<1>3. /\ watchInfoMap' = {} /\ infoToDelete' \in Seq(Slots) /\ IsInjective(infoToDelete')
      /\ Doomed' = Doomed \cup watchInfoMap
  BY TakeAllEffect DEF IInv
<1>4. PathsOK' /\ FlagsOK' /\ InfosOK'
  <2>1. PathsOK'
    BY <1>1 DEF IInv, PathsOK
  <2>2. FlagsOK'
    BY <1>1 DEF IInv, FlagsOK
  <2>3. InfosOK'
    BY <1>1, <1>2, <1>3 DEF InfosOK
  <2> QED
    BY <2>1, <2>2, <2>3
<1>5. Owned'
  BY <1>2, <1>3 DEF IInv, Owned
<1>6. PacketsKnown'
  BY <1>1, <1>3 DEF IInv, PacketsKnown
<1>7. Rebuilding'
  BY <1>1, <1>3, RebuildingEmptied
<1>8. Watching'
  BY <1>1, <1>3 DEF Watching
<1> QED
  BY <1>4, <1>5, <1>6, <1>7, <1>8 DEF IInv

LEMMA AddPathKeeps ==
  ASSUME IInv, (\E d \in Dirs : AddPathChecks(d) \/ CreateAdds(d)) \/ AddPathLocked
  PROVE  IInv'
<1> USE DEF flagVars, ioVars, listVars, workerVars
<1>1. ASSUME NEW d \in Dirs, AddPathChecks(d) PROVE IInv'
  <2>1. /\ UNCHANGED <<info, watchInfoMap, infoToDelete, watchedPaths, excused, port, window,
                       packets, pdi, pc, rebuild>>
        /\ UNCHANGED <<m_bRunning, m_bCleaned, m_FolderCrawler, blockedPath, notifyPaths>>
        /\ adding' = d
    BY <1>1 DEF AddPathChecks
  <2>2. FlagsOK' /\ PathsOK'
    <3>1. FlagsOK'
      BY <2>1 DEF IInv, FlagsOK
    <3>2. PathsOK'
      BY <2>1 DEF IInv, PathsOK
    <3> QED
      BY <3>1, <3>2
  <2>3. packets' \in SUBSET Slots /\ pdi' \in Slots \cup {None} /\ PacketsKnown' /\ Rebuilding'
    BY <2>1 DEF IInv, InfosOK, PacketsKnown, Rebuilding, Doomed
  <2> QED
    BY <2>1, <2>2, <2>3, InfosKept
<1>2. ASSUME NEW d \in Dirs, CreateAdds(d) PROVE IInv'
  <2>1. /\ UNCHANGED <<flagVars, ioVars, listVars, blockedPath, workerVars, adding, window, excused>>
        /\ window = "creating" /\ pc # "loop" /\ watchedPaths' = AddedPaths(d)
    BY <1>2 DEF CreateAdds, Locked
  <2>2. PathsOK' /\ FlagsOK' /\ InfosOK' /\ Owned'
    <3>1. PathsOK'
      BY <2>1, ListFacts DEF IInv, PathsOK
    <3> QED
      BY <2>1, <3>1 DEF IInv, FlagsOK, InfosOK, Owned, Doomed
  <2>3. PacketsKnown' /\ Rebuilding' /\ Watching'
    BY <2>1 DEF IInv, PacketsKnown, Rebuilding, Watching, Doomed
  <2> QED
    BY <2>2, <2>3 DEF IInv
<1>3. CASE AddPathLocked
  <2>1. adding \in Dirs /\ ~Locked
    BY <1>3 DEF AddPathLocked, IInv, PathsOK
  <2>2. CASE AddedPaths(adding) = watchedPaths
    <3>1. /\ UNCHANGED <<info, watchInfoMap, infoToDelete, watchedPaths, excused, port, window,
                         packets, pdi, pc, rebuild>>
          /\ UNCHANGED <<m_bRunning, m_bCleaned, m_FolderCrawler, blockedPath, notifyPaths>>
          /\ adding' = NoDir
      BY <1>3, <2>2 DEF AddPathLocked
    <3>2. FlagsOK' /\ PathsOK'
      <4>1. FlagsOK'
        BY <3>1 DEF IInv, FlagsOK
      <4>2. PathsOK'
        BY <3>1 DEF IInv, PathsOK
      <4> QED
        BY <4>1, <4>2
    <3>3. packets' \in SUBSET Slots /\ pdi' \in Slots \cup {None} /\ PacketsKnown' /\ Rebuilding'
      BY <3>1 DEF IInv, InfosOK, PacketsKnown, Rebuilding, Doomed
    <3> QED
      BY <3>1, <3>2, <3>3, InfosKept
  <2>3. CASE AddedPaths(adding) # watchedPaths
    <3>1. /\ CloseWatchHandles /\ TakeAll /\ watchedPaths' = AddedPaths(adding) /\ adding' = NoDir
          /\ UNCHANGED <<m_bRunning, m_bCleaned, m_FolderCrawler, blockedPath, window, excused>>
      BY <1>3, <2>3 DEF AddPathLocked
    <3>2. watchedPaths' \in Seq(Dirs) /\ IsInjective(watchedPaths')
      BY <2>1, <3>1, ListFacts DEF IInv
    <3>3. blockedPath' \in Dirs \cup {NoDir} /\ adding' \in Dirs \cup {NoDir}
      BY <3>1 DEF IInv, PathsOK
    <3> QED
      BY <2>1, <3>1, <3>2, <3>3, TakingKeeps
  <2> QED
    BY <2>2, <2>3
<1> QED
  BY <1>1, <1>2, <1>3

LEMMA HandlesKeep ==
  ASSUME IInv, (\E s \in Slots : CloseInfoMap(s)) \/ (\E d \in Dirs : CloseHandlesForPath(d))
  PROVE  IInv'
<1> USE DEF flagVars
<1>0. /\ InfosOK /\ info \in [Slots -> WatchInfos] /\ watchedPaths \in Seq(Dirs)
      /\ IsInjective(watchedPaths) /\ blockedPath \in Dirs \cup {NoDir} /\ adding \in Dirs \cup {NoDir}
      /\ \A s \in watchInfoMap : s \in Slots /\ info[s].dir \in Dirs
  BY DEF IInv, PathsOK, InfosOK, Owned, WatchInfos
<1>1. ASSUME NEW s \in Slots, CloseInfoMap(s) PROVE IInv'
  <2>1. /\ ~Locked /\ CloseWatchHandles /\ TakeAll
        /\ UNCHANGED <<m_bRunning, m_bCleaned, m_FolderCrawler, adding, window, excused>>
    BY <1>1 DEF CloseInfoMap
  <2>2. /\ watchedPaths' \in Seq(Dirs) /\ IsInjective(watchedPaths')
        /\ blockedPath' \in Dirs \cup {NoDir}
    <3>1. CASE s \in watchInfoMap
      <4>1. /\ watchedPaths' = RemovePathAndChildren(watchedPaths, Drive(info[s].dir))
            /\ blockedPath' = Drive(info[s].dir)
        BY <1>1, <3>1 DEF CloseInfoMap
      <4>2. Drive(info[s].dir) \in Dirs
        BY <1>0, <3>1, DriveFacts
      <4>3. \E places \in SUBSET DOMAIN watchedPaths : watchedPaths' = Selected(watchedPaths, places)
        BY <4>1 DEF RemovePathAndChildren
      <4> QED
        BY <4>1, <4>2, <4>3, ListFacts DEF IInv
    <3>2. CASE s \notin watchInfoMap
      BY <1>0, <1>1, <3>2 DEF CloseInfoMap
    <3> QED
      BY <3>1, <3>2
  <2>3. adding' \in Dirs \cup {NoDir}
    BY <1>0, <2>1
  <2> QED
    BY <2>1, <2>2, <2>3, TakingKeeps
<1>2. ASSUME NEW d \in Dirs, CloseHandlesForPath(d) PROVE IInv'
  <2> DEFINE below == {e \in {info[s].dir : s \in watchInfoMap} : IsAncestorOf(d, e)}
             places == {i \in DOMAIN watchedPaths : \A e \in below : ~IsAncestorOf(e, watchedPaths[i])}
  <2>1. /\ ~Locked /\ CloseWatchHandles /\ TakeAll
        /\ UNCHANGED <<m_bRunning, m_bCleaned, m_FolderCrawler, adding, window, excused>>
        /\ watchedPaths' = Selected(watchedPaths, places)
        /\ IF below = {} THEN UNCHANGED blockedPath ELSE blockedPath' \in below
    BY <1>2 DEF CloseHandlesForPath
  <2>2. below \in SUBSET Dirs /\ places \in SUBSET DOMAIN watchedPaths
    BY <1>0
  <2> HIDE DEF below, places
  <2>3. watchedPaths' \in Seq(Dirs) /\ IsInjective(watchedPaths')
    BY <2>1, <2>2, ListFacts DEF IInv
  <2>4. blockedPath' \in Dirs \cup {NoDir} /\ adding' \in Dirs \cup {NoDir}
    BY <1>0, <2>1, <2>2
  <2> QED
    BY <2>1, <2>3, <2>4, TakingKeeps
<1> QED
  BY <1>1, <1>2

LEMMA WindowKeeps ==
  ASSUME IInv, ClearInfoMap \/ WindowSteps \/ FourSecondsPass \/ Stop
  PROVE  IInv'
<1> USE DEF flagVars, ioVars, listVars, workerVars
<1>1. CASE ClearInfoMap
  <2>1. m_bRunning' \in BOOLEAN
    BY <1>1 DEF ClearInfoMap, IInv, FlagsOK
  <2> QED
    BY <1>1, <2>1, ClosingKeeps DEF ClearInfoMap
<1>2. CASE Stop
  BY <1>2, ClosingKeeps DEF Stop
<1>3. CASE ClearInfoMapEnd
  <2>1. /\ ~Locked /\ TakeAll /\ window' = "idle"
        /\ UNCHANGED <<flagVars, ioVars, watchedPaths, blockedPath, workerVars, adding>>
        /\ excused' = IF watchInfoMap # {} /\ port THEN "taken" ELSE excused
    BY <1>3 DEF ClearInfoMapEnd
  <2>2. /\ watchInfoMap' = {} /\ infoToDelete' \in Seq(Slots) /\ IsInjective(infoToDelete')
        /\ Doomed' = Doomed \cup watchInfoMap
    BY <2>1, TakeAllEffect DEF IInv
  <2>3. PathsOK' /\ FlagsOK' /\ InfosOK'
    BY <2>1, <2>2 DEF IInv, PathsOK, FlagsOK, InfosOK
  <2>4. Owned'
    BY <2>1, <2>2 DEF IInv, Owned
  <2>5. PacketsKnown'
    BY <2>1, <2>2 DEF IInv, PacketsKnown, Locked
  <2>6. Rebuilding'
    BY <2>1, <2>2, RebuildingEmptied
  <2>7. Watching'
    BY <2>1, <2>2 DEF IInv, Watching
  <2> QED
    BY <2>3, <2>4, <2>5, <2>6, <2>7 DEF IInv
<1>4. CASE FourSecondsPass \/ StopEnd
  <2>1. /\ UNCHANGED <<info, watchInfoMap, infoToDelete, watchedPaths, excused, port,
                       packets, pdi, pc, rebuild, m_bCleaned>>
        /\ window' = window \/ window' = "stopped"
        /\ UNCHANGED <<m_bRunning, m_FolderCrawler, notifyPaths, adding>>
        /\ blockedPath' = blockedPath \/ blockedPath' = NoDir
    BY <1>4 DEF FourSecondsPass, StopEnd
  <2>2. FlagsOK' /\ PathsOK'
    <3>1. FlagsOK'
      BY <2>1 DEF IInv, FlagsOK
    <3>2. PathsOK'
      BY <2>1 DEF IInv, PathsOK
    <3> QED
      BY <3>1, <3>2
  <2>3. packets' \in SUBSET Slots /\ pdi' \in Slots \cup {None} /\ PacketsKnown' /\ Rebuilding'
    BY <2>1 DEF IInv, InfosOK, PacketsKnown, Rebuilding, Doomed
  <2> QED
    BY <2>1, <2>2, <2>3, InfosKept
<1> QED
  BY <1>1, <1>2, <1>3, <1>4 DEF WindowSteps

(* The destructor deletes all infos, whatever the worker is doing.         *)
LEMMA DestructorKeeps ==
  ASSUME IInv, Destructor PROVE IInv'
<1> DEFINE gone == watchInfoMap \cup Doomed
<1>1. /\ ~Locked /\ m_bCleaned' = TRUE /\ window' = "gone"
      /\ info' = [s \in Slots |-> IF s \in gone THEN Free ELSE info[s]]
      /\ watchInfoMap' = {} /\ infoToDelete' = << >> /\ ClosePortOfWorker(watchInfoMap)
      /\ UNCHANGED <<m_bRunning, m_FolderCrawler, watchedPaths, blockedPath, adding, excused>>
  BY SameSet DEF Destructor
<1>2. /\ port' = FALSE /\ packets' = {} /\ UNCHANGED <<notifyPaths, rebuild>>
      /\ pdi' \in Slots \cup {None} /\ (pc' = pc \/ pc' = "got")
      /\ pc' \in {"top", "get", "wait", "got", "process", "notify", "register", "done"}
  BY <1>1, PortLost
<1>3. /\ info' \in [Slots -> WatchInfos]
      /\ \A s \in Slots : info'[s] = IF s \in gone THEN Free ELSE info[s]
  BY <1>1, FreedEffect DEF IInv
<1>4. Doomed' = {}
  BY <1>1, EmptyList DEF Doomed
<1>5. PathsOK' /\ FlagsOK' /\ InfosOK'
  <2>1. PathsOK'
    BY <1>1, <1>2 DEF IInv, PathsOK
  <2>2. FlagsOK'
    BY <1>1, <1>2 DEF IInv, FlagsOK
  <2>3. InfosOK'
    BY <1>1, <1>2, <1>3, EmptyList DEF IInv, InfosOK
  <2> QED
    BY <2>1, <2>2, <2>3
<1>6. Owned'
  BY <1>1, <1>3, <1>4 DEF IInv, Owned, Free
<1>7. PacketsKnown' /\ Watching'
  BY <1>1, <1>2 DEF PacketsKnown, Watching
<1>8. Rebuilding'
  BY <1>1, <1>2, <1>4, RebuildingEmptied
<1> QED
  BY <1>5, <1>6, <1>7, <1>8 DEF IInv

(* A change ends pending reads of open handles; only live infos have one.  *)
LEMMA ChangeKeeps ==
  ASSUME IInv, NEW d \in Dirs, NEW interesting \in BOOLEAN, Change(d, interesting)
  PROVE  IInv'
<1> USE DEF flagVars, listVars, workerVars
<1> DEFINE seen == {s \in Slots : info[s].open /\ IsAncestorOf(info[s].dir, d)}
           news == IF interesting THEN {d} ELSE {}
<1>1. /\ info' = [s \in Slots |->
                    IF s \notin seen THEN info[s]
                    ELSE IF IsArmed(s) THEN [info[s] EXCEPT !.buf = news, !.read = "done"]
                    ELSE [info[s] EXCEPT !.pend = @ \cup news]]
      /\ packets' = packets \cup {s \in seen : IsArmed(s)}
      /\ UNCHANGED <<m_bRunning, m_bCleaned, m_FolderCrawler, port, watchedPaths, watchInfoMap,
                     infoToDelete, blockedPath, pc, pdi, notifyPaths, rebuild, adding, window, excused>>
  BY DEF Change
<1>2. info \in [Slots -> WatchInfos] /\ packets \in SUBSET Slots
  BY DEF IInv, InfosOK
<1>3. news \in SUBSET Dirs
  OBVIOUS
<1>4. seen \in SUBSET (watchInfoMap \cup Doomed) /\ seen \in SUBSET Slots
  BY DEF IInv, Owned
<1> HIDE DEF seen, news
<1>5. ASSUME NEW w \in WatchInfos
      PROVE  LET ended == [w EXCEPT !.buf = news, !.read = "done"]
                 noted == [w EXCEPT !.pend = @ \cup news]
             IN  /\ ended \in WatchInfos /\ ended.dir = w.dir /\ ended.open = w.open
                 /\ ended.read = "done"
                 /\ noted \in WatchInfos /\ noted.dir = w.dir /\ noted.open = w.open
                 /\ noted.read = w.read
  <2>1. w.pend \in SUBSET Dirs
    BY DEF WatchInfos
  <2>2. w.pend \cup news \in SUBSET Dirs
    BY <1>3, <2>1
  <2> QED
    BY <1>3, <2>2 DEF WatchInfos
<1>6. /\ info' \in [Slots -> WatchInfos]
      /\ \A s \in Slots : /\ info'[s].dir = info[s].dir /\ info'[s].open = info[s].open
                          /\ \/ info'[s].read = info[s].read
                             \/ info[s].read = "armed" /\ info'[s].read = "done"
  <2>1. \A s \in Slots :
          LET w == info'[s]
          IN  /\ w \in WatchInfos /\ w.dir = info[s].dir /\ w.open = info[s].open
              /\ w.read = info[s].read \/ (info[s].read = "armed" /\ w.read = "done")
    <3> TAKE s \in Slots
    <3>1. info[s] \in WatchInfos
      BY <1>2
    <3>2. CASE s \notin seen
      <4>1. info'[s] = info[s]
        BY <1>1, <3>2
      <4> QED
        BY <3>1, <4>1
    <3>3. CASE s \in seen /\ IsArmed(s)
      <4>1. info'[s] = [info[s] EXCEPT !.buf = news, !.read = "done"]
        BY <1>1, <3>3
      <4> QED
        BY <1>5, <3>1, <3>3, <4>1 DEF IsArmed
    <3>4. CASE s \in seen /\ ~IsArmed(s)
      <4>1. info'[s] = [info[s] EXCEPT !.pend = @ \cup news]
        BY <1>1, <3>4
      <4> QED
        BY <1>5, <3>1, <4>1
    <3> QED
      BY <3>2, <3>3, <3>4
  <2>2. info' = [s \in Slots |-> info'[s]]
    BY <1>1
  <2> QED
    BY <2>1, <2>2
<1>7. packets' \in SUBSET Slots /\ packets' \in SUBSET (packets \cup watchInfoMap \cup Doomed)
  BY <1>1, <1>2, <1>4
<1>8. PathsOK' /\ FlagsOK' /\ InfosOK'
  <2>1. PathsOK'
    BY <1>1 DEF IInv, PathsOK
  <2>2. FlagsOK'
    BY <1>1 DEF IInv, FlagsOK
  <2>3. InfosOK'
    BY <1>1, <1>6, <1>7 DEF IInv, InfosOK
  <2> QED
    BY <2>1, <2>2, <2>3
<1>9. Owned'
  BY <1>1, <1>6 DEF IInv, Owned, Doomed
<1>10. PacketsKnown' /\ Rebuilding'
  <2>1. Doomed' = Doomed
    BY <1>1 DEF Doomed
  <2> QED
    BY <1>1, <1>7, <2>1 DEF IInv, PacketsKnown, Rebuilding, Owned
<1>11. Watching'
  <2>1. ASSUME NEW e, Watched(e) PROVE Watched(e)'
    <3>1. PICK s \in watchInfoMap : info[s].dir = e /\ info[s].open /\ info[s].read \in {"armed", "done"}
      BY <2>1 DEF Watched
    <3>2. s \in Slots /\ s \in watchInfoMap'
      BY <1>1, <3>1 DEF IInv, InfosOK
    <3>3. info'[s].dir = e /\ info'[s].open /\ info'[s].read \in {"armed", "done"}
      BY <1>6, <3>1, <3>2
    <3> QED
      BY <3>2, <3>3 DEF Watched
  <2> QED
    BY <1>1, <2>1 DEF IInv, Watching
<1> QED
  BY <1>8, <1>9, <1>10, <1>11 DEF IInv

-----------------------------------------------------------------------------
(* The theorems                                                            *)

LEMMA InitIInv == Init => IInv
<1> SUFFICES ASSUME Init PROVE IInv
  OBVIOUS
<1>1. /\ m_bRunning = TRUE /\ m_bCleaned = FALSE /\ m_FolderCrawler \in BOOLEAN
      /\ window \in {"idle", "creating"}
      /\ port = FALSE /\ packets = {} /\ watchedPaths = << >> /\ watchInfoMap = {}
      /\ infoToDelete = << >> /\ info = [s \in Slots |-> Free] /\ blockedPath = NoDir
      /\ pc = "top" /\ pdi = None /\ notifyPaths = {} /\ adding = NoDir /\ excused = ""
      /\ rebuild = [i |-> 1, paths |-> << >>, numWatch |-> 0]
  BY DEF Init
<1>2. Doomed = {}
  BY <1>1, EmptyList DEF Doomed
<1>3. PathsOK
  <2>1. << >> \in Seq(Dirs) /\ IsInjective(<< >>)
    BY DEF IsInjective
  <2>2. rebuild \in [i : Nat \ {0}, paths : Seq(Dirs), numWatch : Nat]
    <3>1. \A q \in Seq(Dirs) : [i |-> 1, paths |-> q, numWatch |-> 0]
                                  \in [i : Nat \ {0}, paths : Seq(Dirs), numWatch : Nat]
      OBVIOUS
    <3> QED
      BY <1>1, <2>1, <3>1
  <2>3. notifyPaths \in SUBSET Dirs
    BY <1>1
  <2> QED
    BY <1>1, <2>1, <2>2, <2>3 DEF PathsOK
<1>4. FlagsOK
  BY <1>1 DEF FlagsOK
<1>5. InfosOK
  <2>1. Free \in WatchInfos
    BY DEF Free, WatchInfos
  <2> QED
    BY <1>1, <2>1, EmptyList DEF InfosOK
<1>6. Owned
  BY <1>1, <1>2 DEF Owned, Free
<1>7. PacketsKnown /\ Rebuilding /\ Watching
  BY <1>1 DEF PacketsKnown, Rebuilding, Watching
<1> QED
  BY <1>3, <1>4, <1>5, <1>6, <1>7 DEF IInv

LEMMA NextIInv == IInv /\ [Next]_vars => IInv'
<1> SUFFICES ASSUME IInv, [Next]_vars PROVE IInv'
  OBVIOUS
<1>1. CASE Worker \/ WorkerFails \/ TenMinutes
  BY <1>1, WorkerKeeps
<1>2. CASE (\E d \in Dirs : AddPathChecks(d) \/ CreateAdds(d)) \/ AddPathLocked
  BY <1>2, AddPathKeeps
<1>3. CASE (\E s \in Slots : CloseInfoMap(s)) \/ (\E d \in Dirs : CloseHandlesForPath(d))
  BY <1>3, HandlesKeep
<1>4. CASE ClearInfoMap \/ WindowSteps \/ FourSecondsPass \/ Stop
  BY <1>4, WindowKeeps
<1>5. CASE Destructor
  BY <1>5, DestructorKeeps
<1>6. CASE \E d \in Dirs, interesting \in BOOLEAN : Change(d, interesting)
  BY <1>6, ChangeKeeps
<1>7. CASE UNCHANGED vars
  <2> USE DEF vars, flagVars, ioVars, listVars, workerVars
  <2>1. /\ UNCHANGED <<info, watchInfoMap, infoToDelete, watchedPaths, excused, port, window,
                       packets, pdi, pc, rebuild>>
        /\ UNCHANGED <<m_bRunning, m_bCleaned, m_FolderCrawler, blockedPath, notifyPaths, adding>>
    BY <1>7
  <2>2. FlagsOK' /\ PathsOK'
    <3>1. FlagsOK'
      BY <2>1 DEF IInv, FlagsOK
    <3>2. PathsOK'
      BY <2>1 DEF IInv, PathsOK
    <3> QED
      BY <3>1, <3>2
  <2>3. packets' \in SUBSET Slots /\ pdi' \in Slots \cup {None} /\ PacketsKnown' /\ Rebuilding'
    BY <2>1 DEF IInv, InfosOK, PacketsKnown, Rebuilding, Doomed
  <2> QED
    BY <2>1, <2>2, <2>3, InfosKept
<1> QED
  BY <1>1, <1>2, <1>3, <1>4, <1>5, <1>6, <1>7 DEF Next

(* No watch info is used after it was deleted and none is deleted twice,   *)
(* although its packets outlive it, the lock is released in the rebuilding *)
(* loop, and the window thread closes handles and deletes infos at any     *)
(* time (CDirectoryWatcher::WorkerThread, ClearInfoMap, ~CDirectoryWatcher)*)
THEOREM InfosInUse == Spec => []WatcherInv
<1>1. IInv => WatcherInv
  <2> SUFFICES ASSUME IInv PROVE WatcherInv
    OBVIOUS
  <2>1. TypeOK
    <3>1. watchedPaths \in Seq(Dirs) /\ IsInjective(watchedPaths)
      BY DEF IInv, PathsOK
    <3>2. rebuild.i \in Nat /\ rebuild.paths \in Seq(Dirs) /\ rebuild.numWatch \in Nat
      BY DEF IInv, PathsOK
    <3>3. info \in [Slots -> [dir : Dirs \cup {NoDir}, open : BOOLEAN, buf : SUBSET Dirs,
                              pend : SUBSET Dirs, read : {"none", "armed", "done", "failed"}]]
      BY DEF IInv, InfosOK, WatchInfos
    <3> QED
      BY <3>1, <3>2, <3>3 DEF IInv, PathsOK, FlagsOK, InfosOK, TypeOK
  <2>2. NoDanglingUse
    BY DEF IInv, PacketsKnown, Owned, InfosOK, Doomed, Range, NoDanglingUse
  <2>3. NoDoubleDelete
    BY SameSet DEF IInv, Owned, InfosOK, NoDoubleDelete
  <2> QED
    BY <2>1, <2>2, <2>3 DEF WatcherInv
<1> QED
  BY <1>1, InitIInv, NextIInv, PTL DEF Spec

(* When the worker sleeps at an open port and none of the known ways to    *)
(* miss a path was taken, a read is under way for every watched path:      *)
(* however often the rebuilding loop was cut short, no path was passed     *)
(* over and no info of an old list was left (DirectoryWatcher.cpp:292-369).*)
THEOREM NothingUnwatched == Spec => []AllWatched
<1>1. IInv => AllWatched
  BY DEF IInv, Watching, AllWatched
<1> QED
  BY <1>1, InitIInv, NextIInv, PTL DEF Spec
=============================================================================
