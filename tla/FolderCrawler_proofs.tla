------------------------- MODULE FolderCrawler_proofs -------------------------
(***************************************************************************)
(* Proofs about FolderCrawler, for every tree of files and folders, every  *)
(* setting and every number of events: the worker loses no wake-up, the    *)
(* types, an inhibitor lets at most one path and one folder through, no    *)
(* change is forgotten, and no folder is crawled twice in a row.           *)
(***************************************************************************)
EXTENDS FolderCrawler, Ordered_proofs

(* Both producers, each with a step and a path.                            *)
ProducersShape ==
  producers = [t \in {"watcher", "client"} |->
                 [step |-> producers[t].step, path |-> producers[t].path]]

(* Stop clears m_bRun before it signals the event and closes the handles.  *)
StopOrder == terminationEvent \/ ~handlesOpen => ~m_bRun

WakeInv == ProducersShape /\ StopOrder /\ NoLostWakeup

(* The steps of a round before its first and before its second start.      *)
BeforePath == {"expire", "reset", "timeouts", "sizes", "paths"}
BeforeFolder == {"checkPath", "refreshDir", "refreshPath", "erasePath", "folders"}

InhibitInv ==
  /\ m_lCrawlInhibitSet \in Nat
  /\ startedInhibited \in 0..2
  /\ m_lCrawlInhibitSet > 0 /\ pc \in BeforePath => startedInhibited = 0
  /\ m_lCrawlInhibitSet > 0 /\ pc \in BeforeFolder => startedInhibited <= 1

(* The folders, and what has a status of its own and is watched.           *)
Dirs == {n \in Nodes : Kind[n] = "dir"}
Seen == {n \in Nodes : Kind[n] \in {"dir", "file", "wcdb"} /\ Parent[n] # NoNode}

(* TypeOK in parts, each as strong as its threads need it.                 *)
QueuesOK ==
  /\ m_foldersToUpdate \in Seq(Dirs) /\ IsInjective(m_foldersToUpdate)
  /\ m_pathsToUpdate \in Seq(Nodes) /\ IsInjective(m_pathsToUpdate)
  /\ m_bItemsAddedSinceLastCrawl \in BOOLEAN

FlagsOK ==
  /\ wakeEvent \in BOOLEAN /\ terminationEvent \in BOOLEAN /\ handlesOpen \in BOOLEAN
  /\ m_bRun \in BOOLEAN /\ holdOff \in BOOLEAN
  /\ m_blockedPath \in Dirs \cup {NoNode} /\ blockOver \in BOOLEAN
  /\ bFirstRunAfterWakeup \in BOOLEAN

CountersOK ==
  /\ m_lCrawlInhibitSet \in 0..events
  /\ startedInhibited \in Nat
  /\ events \in 0..MaxEvents

WorkerOK ==
  /\ pc \in {"wait", "loop", "expire", "reset", "timeouts", "sizes", "paths", "checkPath",
             "refreshDir", "refreshPath", "erasePath", "folders", "checkFolder",
             "refreshFolder", "eraseFolder", "done"}
  /\ workingPath \in Nodes \cup {NoNode}
  /\ pc = "checkPath" => workingPath \in Nodes
  /\ pc = "refreshDir" => workingPath \in Dirs \cup {NoNode}
  /\ pc = "refreshPath" => workingPath \in Nodes /\ Kind[workingPath] \in {"dir", "file"}
  /\ pc \in {"checkFolder", "refreshFolder", "eraseFolder"} => workingPath \in Dirs

ProducersOK ==
  /\ producers \in [{"watcher", "client"} ->
                     [step : {"idle", "fetch", "push", "signal"}, path : Nodes \cup {NoNode}]]
  /\ producers["watcher"].step = "push" => producers["watcher"].path \in Nodes
  /\ producers["client"].step \in {"fetch", "push"} => producers["client"].path \in Dirs

WorldOK ==
  /\ noWatch \subseteq Dirs
  /\ unseen \subseteq Seen
  /\ missing \subseteq Nodes /\ notifications \subseteq Nodes
  /\ erased \subseteq Nodes /\ overlooked \subseteq Nodes
  /\ m_WCDBs \in [{n \in Nodes : Kind[n] = "wcdb"} -> {"absent", "old", "current"}]
  /\ outdated \subseteq Dirs

TypeParts == QueuesOK /\ FlagsOK /\ CountersOK /\ WorkerOK /\ ProducersOK /\ WorldOK

(* A thread that fetches is one of the inhibitors.                         *)
FetchInhibits == Fetching => m_lCrawlInhibitSet > 0

TypeInv == TypeParts /\ FetchInhibits

USE DEF vars, data, queues, stop, gates, block, worker, world, times,
        history

-----------------------------------------------------------------------------
(* BeginAdd keeps the producers' shape, whatever it finds.                 *)
LEMMA BeginAddShape ==
  ASSUME ProducersShape, NEW t \in {"watcher", "client"}, NEW n, BeginAdd(t, n)
  PROVE  /\ ProducersShape'
         /\ \A u \in {"watcher", "client"} \ {t} : producers'[u] = producers[u]
BY DEF ProducersShape, BeginAdd, Idle

(* So does the step from the push to the signal.                           *)
LEMMA ToSignalShape ==
  ASSUME ProducersShape, NEW t \in {"watcher", "client"},
         producers' = [producers EXCEPT ![t].step = "signal"]
  PROVE  ProducersShape' /\ producers'[t].step = "signal"
<1>1. producers[t] = [step |-> producers[t].step, path |-> producers[t].path]
  BY DEF ProducersShape
<1>2. DOMAIN producers = {"watcher", "client"}
  BY DEF ProducersShape
<1>3. producers'[t] = [producers[t] EXCEPT !.step = "signal"]
  BY <1>2
<1>4. producers'[t] = [step |-> "signal", path |-> producers[t].path]
  BY <1>1, <1>3
<1>5. \A u \in {"watcher", "client"} :
        producers'[u] = [step |-> producers'[u].step, path |-> producers'[u].path]
  BY <1>2, <1>4 DEF ProducersShape
<1>6. producers' = [u \in {"watcher", "client"} |-> producers'[u]]
  BY <1>2 DEF ProducersShape
<1> QED
  BY <1>4, <1>5, <1>6 DEF ProducersShape

(* An action of a producer keeps WakeInv.                                  *)
LEMMA ProducersKeepWakeInv ==
  ASSUME WakeInv, Watcher \/ Client
  PROVE  WakeInv'
<1>1. CASE AddDirectoryForUpdate
  <2>1. ProducersShape' /\ producers'["client"].step = "signal"
    BY <1>1, ToSignalShape DEF WakeInv, AddDirectoryForUpdate
  <2>2. "client" \in DOMAIN producers'
    BY <2>1 DEF ProducersShape
  <2>3. StopOrder'
    BY <1>1 DEF WakeInv, StopOrder, AddDirectoryForUpdate
  <2>4. NoLostWakeup'
    BY <2>1, <2>2 DEF NoLostWakeup
  <2> QED
    BY <2>1, <2>3, <2>4 DEF WakeInv
<1>2. CASE AddPathForUpdate
  <2>1. ProducersShape' /\ producers'["watcher"].step = "signal"
    BY <1>2, ToSignalShape DEF WakeInv, AddPathForUpdate
  <2>2. "watcher" \in DOMAIN producers'
    BY <2>1 DEF ProducersShape
  <2>3. StopOrder'
    BY <1>2 DEF WakeInv, StopOrder, AddPathForUpdate
  <2>4. NoLostWakeup'
    BY <2>1, <2>2 DEF NoLostWakeup
  <2> QED
    BY <2>1, <2>3, <2>4 DEF WakeInv
<1>3. CASE Notify
  <2>1. PICK n : BeginAdd("watcher", n)
    BY <1>3 DEF Notify
  <2>2. ProducersShape' /\ producers'["client"] = producers["client"]
    BY <2>1, BeginAddShape DEF WakeInv
  <2>3. StopOrder'
    BY <1>3 DEF WakeInv, StopOrder, Notify
  <2>4. producers["watcher"].step # "signal"
    BY <1>3 DEF Notify, Idle
  <2>5. NoLostWakeup'
    BY <1>3, <2>2, <2>4 DEF WakeInv, NoLostWakeup, ProducersShape, Notify
  <2> QED
    BY <2>2, <2>3, <2>5 DEF WakeInv
<1>4. ASSUME NEW t \in {"watcher", "client"}, SetWakeEvent(t) PROVE WakeInv'
  <2>2. ProducersShape'
    BY <1>4 DEF WakeInv, ProducersShape, SetWakeEvent, Idle
  <2>3. StopOrder'
    BY <1>4 DEF WakeInv, StopOrder, SetWakeEvent
  <2>4. m_bRun => wakeEvent'
    BY <1>4 DEF WakeInv, StopOrder, SetWakeEvent
  <2>5. NoLostWakeup'
    BY <1>4, <2>4 DEF NoLostWakeup, SetWakeEvent
  <2> QED
    BY <2>2, <2>3, <2>5 DEF WakeInv
<1>5. CASE FetchEnds
  <2>1. ProducersShape' /\ producers'["watcher"] = producers["watcher"]
    <3>1. BeginAdd("client", producers["client"].path) \/ producers' = [producers EXCEPT !["client"] = Idle]
      BY <1>5 DEF FetchEnds
    <3>2. CASE BeginAdd("client", producers["client"].path)
      BY <3>2, BeginAddShape DEF WakeInv
    <3>3. CASE producers' = [producers EXCEPT !["client"] = Idle]
      BY <3>3 DEF WakeInv, ProducersShape, Idle
    <3> QED
      BY <3>1, <3>2, <3>3
  <2>2. producers["client"].step # "signal"
    BY <1>5 DEF FetchEnds, Fetching
  <2>3. UNCHANGED <<pc, queues, wakeEvent, stop>>
    BY <1>5 DEF FetchEnds
  <2> QED
    BY <2>1, <2>2, <2>3 DEF WakeInv, ProducersShape, StopOrder, NoLostWakeup
<1> QED
  BY <1>1, <1>2, <1>3, <1>4, <1>5 DEF Watcher, Client

(* A step of the worker keeps WakeInv: it takes the event only when it     *)
(* stops waiting, and goes to wait only with both queues empty or stopped. *)
LEMMA WorkerKeepsWakeInv ==
  ASSUME WakeInv, Worker
  PROVE  WakeInv'
<1> USE DEF Step, Fetch, WakeInv
<1>1. producers' = producers /\ UNCHANGED stop
  BY DEF Worker, WorkerWakes, LoopTop, CheckBlockOver, ResetBlockedPath,
         RemoveTimedoutBlocks, AnythingLeft, PopPath, CheckPath, RefreshDirectory,
         RefreshPath, ErasePath, PopFolder, CheckFolder, RefreshFolder, EraseFolder
<1>2. ProducersShape' /\ StopOrder'
  BY <1>1 DEF ProducersShape, StopOrder
<1>3. CASE LoopTop \/ AnythingLeft
  BY <1>1, <1>2, <1>3 DEF NoLostWakeup, LoopTop, AnythingLeft
<1>4. CASE ~(LoopTop \/ AnythingLeft)
  <2>1. pc' # "wait"
    BY <1>4 DEF Worker, WorkerWakes, CheckBlockOver, ResetBlockedPath,
         RemoveTimedoutBlocks, PopPath, CheckPath, RefreshDirectory, RefreshPath,
         ErasePath, PopFolder, CheckFolder, RefreshFolder, EraseFolder,
         NothingCached, Gone, Cached, Busy, Asks, Succeeds, HasNoStatus, FailsForNow,
         FailsNotWorkingCopy
  <2> QED
    BY <1>2, <2>1 DEF NoLostWakeup
<1> QED
  BY <1>3, <1>4

(* A timer or a step of Stop keeps WakeInv.                                *)
LEMMA TimersKeepWakeInv ==
  ASSUME WakeInv, Timers \/ Stop
  PROVE  WakeInv'
<1> USE DEF WakeInv, ProducersShape, StopOrder, NoLostWakeup
<1>1. CASE BlockEnds
  BY <1>1 DEF BlockEnds
<1>2. CASE HoldoffEnds
  BY <1>2 DEF HoldoffEnds
<1>3. CASE EndInhibit
  BY <1>3 DEF EndInhibit
<1>4. CASE StopSignal
  BY <1>4 DEF StopSignal
<1>5. CASE StopClose
  BY <1>5 DEF StopClose
<1> QED
  BY <1>1, <1>2, <1>3, <1>4, <1>5 DEF Timers, Stop

(* What the other threads do otherwise keeps WakeInv.                      *)
LEMMA EnvironmentKeepsWakeInv ==
  ASSUME WakeInv, Environment
  PROVE  WakeInv'
<1>1. ASSUME NEW n \in Nodes, Change(n) PROVE WakeInv'
  BY <1>1 DEF Change, WakeInv, ProducersShape, StopOrder, NoLostWakeup
<1>0. ASSUME NEW n \in Nodes, Touch(n) PROVE WakeInv'
  BY <1>0 DEF Touch, WakeInv, ProducersShape, StopOrder, NoLostWakeup
<1>2. ASSUME NEW d, RequestCrawl(d) PROVE WakeInv'
  <2>1. ProducersShape' /\ producers'["watcher"] = producers["watcher"]
    BY <1>2, BeginAddShape DEF RequestCrawl, WakeInv
  <2>2. producers["client"].step # "signal"
    BY <1>2 DEF RequestCrawl, Idle
  <2> QED
    BY <1>2, <2>1, <2>2 DEF RequestCrawl, WakeInv, ProducersShape, StopOrder, NoLostWakeup
<1>3. ASSUME NEW d, BlockCommand(d) PROVE WakeInv'
  BY <1>3 DEF BlockCommand, WakeInv, ProducersShape, StopOrder, NoLostWakeup
<1>4. ASSUME NEW d, UnblockCommand(d) PROVE WakeInv'
  <2>1. ProducersShape' /\ producers'["watcher"] = producers["watcher"]
    BY <1>4 DEF UnblockCommand, WakeInv, ProducersShape, Idle
  <2>2. producers["client"].step # "signal"
    BY <1>4 DEF UnblockCommand, Idle
  <2> QED
    BY <1>4, <2>1, <2>2 DEF UnblockCommand, WakeInv, ProducersShape, StopOrder, NoLostWakeup
<1>5. ASSUME NEW d, ReleaseCommand(d) PROVE WakeInv'
  BY <1>5 DEF ReleaseCommand, WakeInv, ProducersShape, StopOrder, NoLostWakeup
<1>9. ASSUME NEW d, CrawlCommand(d) PROVE WakeInv'
  <2>1. ProducersShape' /\ producers'["watcher"] = producers["watcher"]
    BY <1>9, BeginAddShape DEF CrawlCommand, WakeInv
  <2>2. producers["client"].step # "signal"
    BY <1>9 DEF CrawlCommand, Idle
  <2> QED
    BY <1>9, <2>1, <2>2 DEF CrawlCommand, WakeInv, ProducersShape, StopOrder, NoLostWakeup
<1>6. CASE Inhibit
  BY <1>6 DEF Inhibit, BeginInhibit, WakeInv, ProducersShape, StopOrder, NoLostWakeup
<1>7. ASSUME NEW d, FetchBegins(d) PROVE WakeInv'
  <2>1. ProducersShape' /\ producers'["watcher"] = producers["watcher"]
    BY <1>7 DEF FetchBegins, WakeInv, ProducersShape, Idle
  <2>2. producers["client"].step # "signal"
    BY <1>7 DEF FetchBegins, Idle
  <2> QED
    BY <1>7, <2>1, <2>2 DEF FetchBegins, WakeInv, ProducersShape, StopOrder, NoLostWakeup
<1>8. CASE StopRun
  BY <1>8 DEF StopRun, WakeInv, ProducersShape, StopOrder, NoLostWakeup
<1> QED
  BY <1>0, <1>1, <1>2, <1>3, <1>4, <1>5, <1>6, <1>7, <1>8, <1>9
  DEF Environment

(* The worker never sleeps over a queued path or folder unless it is about *)
(* to be woken, whatever the threads do (AddDirectoryForUpdate sets the    *)
(* event after it has left the lock, the worker reads the sizes without).  *)
THEOREM Wakeups == Spec => []NoLostWakeup
<1>1. Init => WakeInv
  BY DEF Init, WakeInv, ProducersShape, StopOrder, NoLostWakeup, Idle
<1>2. WakeInv /\ [Next]_vars => WakeInv'
  <2> SUFFICES ASSUME WakeInv, [Next]_vars PROVE WakeInv'
    OBVIOUS
  <2>1. CASE UNCHANGED vars
    BY <2>1 DEF WakeInv, ProducersShape, StopOrder, NoLostWakeup
  <2> QED
    BY <2>1, ProducersKeepWakeInv, WorkerKeepsWakeInv, TimersKeepWakeInv,
       EnvironmentKeepsWakeInv DEF Next
<1>3. WakeInv => NoLostWakeup
  BY DEF WakeInv
<1> QED
  BY <1>1, <1>2, <1>3, PTL DEF Spec

-----------------------------------------------------------------------------
(* The queues *)

(* Folders that are pushed one after the other are at the end of the       *)
(* queue, each once, and nothing else leaves it.                           *)
LEMMA PushedAllEffect ==
  ASSUME NEW E \in SUBSET Int, NEW queue \in Seq(E), IsInjective(queue),
         NEW S \in SUBSET E, IsFiniteSet(S)
  PROVE  /\ PushedAll(queue, S) \in Seq(E) /\ IsInjective(PushedAll(queue, S))
         /\ Range(PushedAll(queue, S)) = Range(queue) \cup S
<1> DEFINE kept == {i \in DOMAIN queue : queue[i] \notin S}
           sub == Selected(queue, kept)
<1>1. sub \in Seq(E) /\ IsInjective(sub) /\ Range(sub) = {queue[i] : i \in kept}
  <2>1. kept \in SUBSET DOMAIN queue
    OBVIOUS
  <2> HIDE DEF kept
  <2> QED
    BY <2>1, SelectedEffect
<1>2. Range(sub) = Range(queue) \ S
  BY <1>1 DEF Range
<1>3. PushedAll(queue, S) = sub \o InOrder(S)
  BY DEF PushedAll
<1>4. InOrder(S) \in Seq(E) /\ IsInjective(InOrder(S)) /\ Range(InOrder(S)) = S
  BY InOrderEffect
<1> HIDE DEF kept, sub
<1> QED
  BY <1>1, <1>2, <1>3, <1>4, ConcatEffect

(* The modules of the queues take RemoveFirst from SequencesExt, too.      *)
LEMMA SameRemoveFirst ==
  ASSUME NEW s, NEW v
  PROVE  /\ Folders!RemoveFirst(s, v) = RemoveFirst(s, v)
         /\ Paths!RemoveFirst(s, v) = RemoveFirst(s, v)
BY DEF RemoveFirst, RemoveAt, SelectInSeq, Min,
       Folders!RemoveFirst, Folders!RemoveAt, Folders!SelectInSeq, Folders!Min,
       Paths!RemoveFirst, Paths!RemoveAt, Paths!SelectInSeq, Paths!Min

(* What the calls of the queues leave in m_foldersToUpdate ...             *)
LEMMA FolderCalls ==
  ASSUME m_foldersToUpdate \in Seq(Dirs), IsInjective(m_foldersToUpdate)
  PROVE  /\ \A v \in Dirs : Folders!Push(v) =>
              /\ m_foldersToUpdate' \in Seq(Dirs) /\ IsInjective(m_foldersToUpdate')
              /\ Range(m_foldersToUpdate') = Range(m_foldersToUpdate) \cup {v}
         /\ \A v : Folders!Erase(v) =>
              /\ m_foldersToUpdate' \in Seq(Dirs) /\ IsInjective(m_foldersToUpdate')
              /\ Range(m_foldersToUpdate') = Range(m_foldersToUpdate) \ {v}
         /\ m_foldersToUpdate # << >> => Head(m_foldersToUpdate) \in Dirs
         /\ m_foldersToUpdate # << >> /\ m_foldersToUpdate' = Tail(m_foldersToUpdate) =>
              /\ m_foldersToUpdate' \in Seq(Dirs) /\ IsInjective(m_foldersToUpdate')
              /\ Range(m_foldersToUpdate) = Range(m_foldersToUpdate') \cup {Head(m_foldersToUpdate)}
              /\ Head(m_foldersToUpdate) \notin Range(m_foldersToUpdate')
         /\ m_foldersToUpdate # << >>
            /\ m_foldersToUpdate' = Append(Tail(m_foldersToUpdate), Head(m_foldersToUpdate)) =>
              /\ m_foldersToUpdate' \in Seq(Dirs) /\ IsInjective(m_foldersToUpdate')
              /\ Range(m_foldersToUpdate') = Range(m_foldersToUpdate)
<1>1. ASSUME NEW v \in Dirs, Folders!Push(v)
      PROVE  /\ m_foldersToUpdate' \in Seq(Dirs) /\ IsInjective(m_foldersToUpdate')
             /\ Range(m_foldersToUpdate') = Range(m_foldersToUpdate) \cup {v}
  BY <1>1, PushOnQueue, SameRemoveFirst DEF Folders!Push
<1>2. ASSUME NEW v, Folders!Erase(v)
      PROVE  /\ m_foldersToUpdate' \in Seq(Dirs) /\ IsInjective(m_foldersToUpdate')
             /\ Range(m_foldersToUpdate') = Range(m_foldersToUpdate) \ {v}
  BY <1>2, EraseFromQueue, SameRemoveFirst DEF Folders!Erase
<1>3. CASE m_foldersToUpdate = << >>
  BY <1>1, <1>2, <1>3
<1>4. CASE m_foldersToUpdate # << >>
  <2> DEFINE h == Head(m_foldersToUpdate)
             t == Tail(m_foldersToUpdate)
  <2>1. /\ h \in Dirs /\ t \in Seq(Dirs) /\ IsInjective(t)
        /\ Range(m_foldersToUpdate) = {h} \cup Range(t) /\ h \notin Range(t)
    BY <1>4, TailEffect
  <2>2. /\ Append(t, h) \in Seq(Dirs) /\ IsInjective(Append(t, h))
        /\ Range(Append(t, h)) = Range(t) \cup {h}
    <3> HIDE DEF h, t
    <3> QED
      BY <2>1, AppendEffect
  <2> QED
    BY <1>1, <1>2, <2>1, <2>2
<1> QED
  BY <1>3, <1>4

(* ... and in m_pathsToUpdate.                                             *)
LEMMA PathCalls ==
  ASSUME m_pathsToUpdate \in Seq(Nodes), IsInjective(m_pathsToUpdate)
  PROVE  /\ \A v \in Nodes : Paths!Push(v) =>
              /\ m_pathsToUpdate' \in Seq(Nodes) /\ IsInjective(m_pathsToUpdate')
              /\ Range(m_pathsToUpdate') = Range(m_pathsToUpdate) \cup {v}
         /\ \A v : Paths!Erase(v) =>
              /\ m_pathsToUpdate' \in Seq(Nodes) /\ IsInjective(m_pathsToUpdate')
              /\ Range(m_pathsToUpdate') = Range(m_pathsToUpdate) \ {v}
         /\ m_pathsToUpdate # << >> => Head(m_pathsToUpdate) \in Nodes
         /\ m_pathsToUpdate # << >> /\ m_pathsToUpdate' = Tail(m_pathsToUpdate) =>
              /\ m_pathsToUpdate' \in Seq(Nodes) /\ IsInjective(m_pathsToUpdate')
              /\ Range(m_pathsToUpdate) = Range(m_pathsToUpdate') \cup {Head(m_pathsToUpdate)}
         /\ m_pathsToUpdate # << >>
            /\ m_pathsToUpdate' = Append(Tail(m_pathsToUpdate), Head(m_pathsToUpdate)) =>
              /\ m_pathsToUpdate' \in Seq(Nodes) /\ IsInjective(m_pathsToUpdate')
              /\ Range(m_pathsToUpdate') = Range(m_pathsToUpdate)
<1>1. ASSUME NEW v \in Nodes, Paths!Push(v)
      PROVE  /\ m_pathsToUpdate' \in Seq(Nodes) /\ IsInjective(m_pathsToUpdate')
             /\ Range(m_pathsToUpdate') = Range(m_pathsToUpdate) \cup {v}
  BY <1>1, PushOnQueue, SameRemoveFirst DEF Paths!Push
<1>2. ASSUME NEW v, Paths!Erase(v)
      PROVE  /\ m_pathsToUpdate' \in Seq(Nodes) /\ IsInjective(m_pathsToUpdate')
             /\ Range(m_pathsToUpdate') = Range(m_pathsToUpdate) \ {v}
  BY <1>2, EraseFromQueue, SameRemoveFirst DEF Paths!Erase
<1>3. CASE m_pathsToUpdate = << >>
  BY <1>1, <1>2, <1>3
<1>4. CASE m_pathsToUpdate # << >>
  <2> DEFINE h == Head(m_pathsToUpdate)
             t == Tail(m_pathsToUpdate)
  <2>1. /\ h \in Nodes /\ t \in Seq(Nodes) /\ IsInjective(t)
        /\ Range(m_pathsToUpdate) = {h} \cup Range(t) /\ h \notin Range(t)
    BY <1>4, TailEffect
  <2>2. /\ Append(t, h) \in Seq(Nodes) /\ IsInjective(Append(t, h))
        /\ Range(Append(t, h)) = Range(t) \cup {h}
    <3> HIDE DEF h, t
    <3> QED
      BY <2>1, AppendEffect
  <2> QED
    BY <1>1, <1>2, <2>1, <2>2
<1> QED
  BY <1>3, <1>4

(* AddFolderForCrawling of the worker: good folders, and only those.       *)
LEMMA WorkerAddsEffect ==
  ASSUME QueuesOK, wakeEvent \in BOOLEAN, handlesOpen \in BOOLEAN,
         NEW S \in SUBSET Dirs, WorkerAdds(S)
  PROVE  /\ m_foldersToUpdate' \in Seq(Dirs) /\ IsInjective(m_foldersToUpdate')
         /\ Range(m_foldersToUpdate') =
              Range(m_foldersToUpdate) \cup {d \in S : IsPathGood(d)'}
         /\ m_bItemsAddedSinceLastCrawl' \in BOOLEAN /\ wakeEvent' \in BOOLEAN
         /\ ~m_bItemsAddedSinceLastCrawl' =>
              ~m_bItemsAddedSinceLastCrawl /\ Range(m_foldersToUpdate') = Range(m_foldersToUpdate)
<1> DEFINE good == {d \in S : IsPathGood(d)'}
<1>1. good \in SUBSET Dirs
  OBVIOUS
<1>2. Dirs \in SUBSET Nodes /\ Dirs \in SUBSET Int
  BY NodesAreRanks DEF Dirs
<1>3. /\ m_foldersToUpdate' = PushedAll(m_foldersToUpdate, good)
      /\ m_bItemsAddedSinceLastCrawl' = (m_bItemsAddedSinceLastCrawl \/ good # {})
      /\ wakeEvent' = (wakeEvent \/ (good # {} /\ handlesOpen))
  BY DEF WorkerAdds
<1> HIDE DEF good
<1>4. IsFiniteSet(good)
  BY <1>1, <1>2, FS_Subset, NodesAreRanks
<1>5. /\ PushedAll(m_foldersToUpdate, good) \in Seq(Dirs)
      /\ IsInjective(PushedAll(m_foldersToUpdate, good))
      /\ Range(PushedAll(m_foldersToUpdate, good)) = Range(m_foldersToUpdate) \cup good
  BY <1>1, <1>2, <1>4, PushedAllEffect DEF QueuesOK
<1>6. /\ m_foldersToUpdate' \in Seq(Dirs) /\ IsInjective(m_foldersToUpdate')
      /\ Range(m_foldersToUpdate') = Range(m_foldersToUpdate) \cup good
  BY <1>3, <1>5
<1>7. m_bItemsAddedSinceLastCrawl' \in BOOLEAN /\ wakeEvent' \in BOOLEAN
  BY <1>3 DEF QueuesOK
<1>8. ~m_bItemsAddedSinceLastCrawl' =>
        ~m_bItemsAddedSinceLastCrawl /\ Range(m_foldersToUpdate') = Range(m_foldersToUpdate)
  BY <1>3, <1>6 DEF QueuesOK
<1> QED
  BY <1>6, <1>7, <1>8 DEF good

-----------------------------------------------------------------------------
(* Files and folders *)

(* A path, what is above it, and how the worker reaches it.                *)
LEMMA ChainFacts ==
  /\ \A n \in Nodes : Chain[n] \in SUBSET Nodes /\ n \in Chain[n]
  /\ \A n \in Nodes : Parent[n] # NoNode => Parent[n] \in Chain[n]
  /\ \A n \in Nodes : \A d \in Chain[n] : Chain[d] \in SUBSET Chain[n]
  /\ \A n \in Nodes : \A d \in Chain[n] \ {n} : \E c \in Chain[n] : Parent[c] = d
<1>1. IsTree(Nodes, Parent, NoNode)
  BY NodesAreRanks, ParentIsTree DEF IsTree
<1>2. IsChain(Chain, Nodes, Parent, NoNode)
  <2>1. \E f : IsChain(f, Nodes, Parent, NoNode)
    BY <1>1, ChainExists
  <2>2. Chain = CHOOSE f : IsChain(f, Nodes, Parent, NoNode)
    BY Zenon DEF Chain, IsChain
  <2> QED
    BY <2>1, <2>2, Zenon
<1>3. GoesUp(Chain, Nodes, Parent, NoNode)
  BY <1>1, <1>2, ChainUp
<1> QED
  BY <1>3 DEF GoesUp

LEMMA TreeFacts ==
  ASSUME NEW n \in Nodes
  PROVE  /\ n \in Int /\ n # NoNode
         /\ Kind[n] \in {"dir", "file", "wcdb", "journal", "other"}
         /\ Parent[n] # NoNode => Parent[n] \in Dirs
         /\ Kind[n] # "dir" => Parent[n] \in Dirs
BY NodesAreRanks, ParentIsTree, Kinds DEF Dirs

-----------------------------------------------------------------------------
(* Types *)

LEMMA WCDBFacts ==
  ASSUME WorldOK
  PROVE  /\ \A d : WCDB(d) \in SUBSET Nodes
         /\ \A S : Members(S) \in SUBSET Dirs
         /\ \A S : OutdatedBy(S) \in SUBSET Dirs
         /\ \A S : GetDBFileTime(S) =>
              m_WCDBs' \in [{n \in Nodes : Kind[n] = "wcdb"} -> {"absent", "old", "current"}]
<1>1. DOMAIN m_WCDBs = {n \in Nodes : Kind[n] = "wcdb"}
  BY DEF WorldOK
<1>2. \A d : WCDB(d) \in SUBSET Nodes
  BY <1>1 DEF WCDB
<1>3. \A S : Members(S) \in SUBSET Dirs
  BY DEF Members, Dirs
<1>4. \A S : OutdatedBy(S) \in SUBSET Dirs
  BY <1>3 DEF OutdatedBy, WorldOK
<1>5. ASSUME NEW S, GetDBFileTime(S)
      PROVE  m_WCDBs' \in [{n \in Nodes : Kind[n] = "wcdb"} -> {"absent", "old", "current"}]
  BY <1>1, <1>5 DEF GetDBFileTime, WorldOK
<1> QED
  BY <1>2, <1>3, <1>4, <1>5

LEMMA HistoryTyped ==
  ASSUME WorldOK, unseen' \subseteq Seen
  PROVE  /\ \A S : Overlooks(S) => overlooked' \subseteq Nodes
         /\ \A S : Loses(S) => erased' \subseteq Nodes
<1>1. unseen \subseteq Nodes /\ unseen' \subseteq Nodes /\ overlooked \subseteq Nodes /\ erased \subseteq Nodes
  BY DEF WorldOK, Seen
<1>2. ASSUME NEW S, Overlooks(S) PROVE overlooked' \subseteq Nodes
  <2>1. overlooked' \subseteq overlooked \cup unseen'
    BY <1>2 DEF Overlooks
  <2> QED
    BY <1>1, <2>1
<1>3. ASSUME NEW S, Loses(S) PROVE erased' \subseteq Nodes
  <2>1. erased' \subseteq erased \cup unseen
    BY <1>3 DEF Loses
  <2> QED
    BY <1>1, <2>1
<1> QED
  BY <1>2, <1>3

(* The inhibitor of a fetch ends with the fetch, and no other ends it.     *)
LEMMA NextKeepsFetchInhibits ==
  ASSUME TypeInv, [Next]_vars
  PROVE  FetchInhibits'
<1>1. /\ m_lCrawlInhibitSet \in Nat
      /\ Fetching => m_lCrawlInhibitSet > 0
      /\ DOMAIN producers = {"watcher", "client"}
  BY DEF TypeInv, TypeParts, FetchInhibits, CountersOK, ProducersOK
<1>2. CASE UNCHANGED <<m_lCrawlInhibitSet, producers>>
  BY <1>1, <1>2 DEF FetchInhibits, Fetching
<1>3. CASE Worker
  BY <1>2, <1>3 DEF Worker, WorkerWakes, LoopTop, CheckBlockOver, ResetBlockedPath,
     RemoveTimedoutBlocks, AnythingLeft, PopPath, CheckPath, RefreshDirectory, RefreshPath,
     ErasePath, PopFolder, CheckFolder, RefreshFolder, EraseFolder, Fetch
<1>4. CASE Watcher
  BY <1>1, <1>4 DEF Watcher, Notify, BeginAdd, AddPathForUpdate, SetWakeEvent, FetchInhibits,
     Fetching
<1>5. CASE Client
  <2>1. producers'["client"].step \in {"idle", "push", "signal"}
    <3>1. CASE FetchEnds
      BY <1>1, <3>1 DEF FetchEnds, BeginAdd, Idle
    <3>2. CASE AddDirectoryForUpdate
      BY <3>2 DEF AddDirectoryForUpdate, TypeInv, TypeParts, ProducersOK
    <3>3. CASE SetWakeEvent("client")
      BY <1>1, <3>3 DEF SetWakeEvent, Idle
    <3> QED
      BY <1>5, <3>1, <3>2, <3>3 DEF Client
  <2> QED
    BY <2>1 DEF FetchInhibits, Fetching
<1>6. CASE Timers \/ Stop
  BY <1>1, <1>2, <1>6 DEF Timers, Stop, BlockEnds, HoldoffEnds, EndInhibit, StopSignal, StopClose,
     FetchInhibits, Fetching
<1>7. ASSUME Inhibit \/ \E d \in Nodes : FetchBegins(d) PROVE FetchInhibits'
  <2>1. m_lCrawlInhibitSet' = m_lCrawlInhibitSet + 1
    BY <1>7 DEF Inhibit, FetchBegins, BeginInhibit
  <2> QED
    BY <1>1, <2>1 DEF FetchInhibits
<1>8. ASSUME NEW d \in Nodes, RequestCrawl(d) \/ CrawlCommand(d) \/ UnblockCommand(d)
      PROVE  FetchInhibits'
  <2>1. producers'["client"].step \in {"idle", "push"}
    BY <1>1, <1>8 DEF RequestCrawl, CrawlCommand, UnblockCommand, BeginAdd, Idle
  <2> QED
    BY <2>1 DEF FetchInhibits, Fetching
<1>9. CASE Environment
  BY <1>2, <1>7, <1>8, <1>9 DEF Environment, Change, Touch, ReleaseCommand, BlockCommand, StopRun
<1> QED
  BY <1>2, <1>3, <1>4, <1>5, <1>6, <1>9 DEF Next

(* A fetch, however it ends, keeps all but the worker's place.             *)
LEMMA FetchTyped ==
  ASSUME TypeInv, NEW from \in {"refreshDir", "refreshPath", "refreshFolder"}, NEW to,
         NEW children \in SUBSET Dirs, Fetch(from, to, children)
  PROVE  /\ QueuesOK' /\ FlagsOK' /\ CountersOK' /\ ProducersOK' /\ WorldOK'
         /\ pc' = to /\ UNCHANGED workingPath
<1> DEFINE d == DirectoryOf(workingPath)
<1>1. /\ UNCHANGED <<stop, gates, workingPath, bFirstRunAfterWakeup, producers, missing,
                     erased, startedInhibited>>
      /\ UNCHANGED overlooked \/ \E S : Overlooks(S)
      /\ pc = from
  BY DEF Fetch, NothingCached, Gone, Cached, Busy, Asks, Succeeds, HasNoStatus, FailsForNow,
         FailsNotWorkingCopy
<1>2. workingPath # NoNode => workingPath \in Nodes /\ d \in Dirs
  <2> SUFFICES ASSUME workingPath # NoNode PROVE workingPath \in Nodes /\ d \in Dirs
    OBVIOUS
  <2>1. workingPath \in Nodes /\ Kind[workingPath] \in {"dir", "file"}
    BY <1>1 DEF TypeInv, TypeParts, WorkerOK, Dirs
  <2> QED
    BY <2>1, TreeFacts DEF DirectoryOf, Dirs
<1>3. ProducersOK'
  BY <1>1 DEF TypeInv, TypeParts, ProducersOK
<1>4. SUFFICES ASSUME unseen' \subseteq Seen
               PROVE  /\ QueuesOK' /\ FlagsOK' /\ CountersOK'
                      /\ noWatch' \subseteq Dirs /\ notifications' \subseteq Nodes
                      /\ outdated' \subseteq Dirs
                      /\ m_WCDBs' \in [{n \in Nodes : Kind[n] = "wcdb"} ->
                                          {"absent", "old", "current"}]
                      /\ pc' = to
  <2>1. unseen' \subseteq unseen
    BY DEF Fetch, NothingCached, Gone, Cached, Busy, Asks, Succeeds, HasNoStatus, FailsForNow,
           FailsNotWorkingCopy, RemoveCacheForPath
  <2>2. unseen' \subseteq Seen
    BY <2>1 DEF TypeInv, TypeParts, WorldOK
  <2>3. overlooked' \subseteq Nodes
    BY <1>1, <2>2, HistoryTyped DEF TypeInv, TypeParts, WorldOK
  <2>4. missing' \subseteq Nodes /\ erased' \subseteq Nodes
    BY <1>1 DEF TypeInv, TypeParts, WorldOK
  <2> QED
    BY <1>1, <1>3, <1>4, <2>2, <2>3, <2>4 DEF WorldOK
<1> USE DEF TypeInv, TypeParts
<1>5. CASE NothingCached(to)
  BY <1>1, <1>5 DEF NothingCached, QueuesOK, FlagsOK, CountersOK, WorldOK
<1>6. CASE Gone(to)
  <2>1. outdated' \subseteq Dirs
    BY <1>6 DEF Gone, RemoveCacheForPath, WorldOK, Dirs, Below
  <2> QED
    BY <1>1, <1>6, <2>1 DEF Gone, QueuesOK, FlagsOK, CountersOK, WorldOK
<1>7. ASSUME workingPath # NoNode,
             NEW read \in MayRead(d), GetDBFileTime(read),
             \/ Cached(to, children, OutdatedBy(read))
             \/ Busy(to, children, OutdatedBy(read))
             \/ Succeeds(to, children, OutdatedBy(read))
             \/ HasNoStatus(to, children, OutdatedBy(read))
             \/ FailsForNow(to, OutdatedBy(read))
             \/ FailsNotWorkingCopy(to, OutdatedBy(read))
      PROVE  /\ QueuesOK' /\ FlagsOK' /\ CountersOK'
             /\ noWatch' \subseteq Dirs /\ notifications' \subseteq Nodes
             /\ outdated' \subseteq Dirs
             /\ m_WCDBs' \in [{n \in Nodes : Kind[n] = "wcdb"} -> {"absent", "old", "current"}]
             /\ pc' = to
  <2> DEFINE out == OutdatedBy(read)
             WDBs == [{n \in Nodes : Kind[n] = "wcdb"} -> {"absent", "old", "current"}]
  <2>1. out \subseteq Dirs /\ m_WCDBs' \in WDBs
    BY <1>7, WCDBFacts
  <2>2. d \in Dirs /\ workingPath \in Nodes
    BY <1>2, <1>7
  <2>3. ASSUME NEW S \in SUBSET Dirs, WorkerAdds(S), UNCHANGED m_pathsToUpdate
        PROVE  QueuesOK' /\ wakeEvent' \in BOOLEAN
    <3>1. QueuesOK /\ wakeEvent \in BOOLEAN /\ handlesOpen \in BOOLEAN
      BY DEF FlagsOK
    <3>2. /\ m_foldersToUpdate' \in Seq(Dirs) /\ IsInjective(m_foldersToUpdate')
          /\ m_bItemsAddedSinceLastCrawl' \in BOOLEAN /\ wakeEvent' \in BOOLEAN
      BY <2>3, <3>1, WorkerAddsEffect
    <3> QED
      BY <2>3, <3>1, <3>2 DEF QueuesOK
  <2> HIDE DEF out, WDBs, d
  <2>4. CASE Cached(to, children, out)
    <3>1. /\ WorkerAdds(children) /\ pc' = to /\ outdated' = out
          /\ UNCHANGED <<m_pathsToUpdate, block, noWatch, unseen, notifications, events>>
      BY <2>4 DEF Cached
    <3>2. QueuesOK' /\ wakeEvent' \in BOOLEAN
      BY <2>3, <3>1
    <3> QED
      BY <1>1, <2>1, <3>1, <3>2 DEF FlagsOK, CountersOK, WorldOK, WDBs
  <2>9. CASE Busy(to, children, out)
    <3>1. PICK found \in SUBSET children : WorkerAdds(found)
      BY <2>9 DEF Busy
    <3>2. /\ pc' = to /\ outdated' \in {out, out \cup {d}}
          /\ UNCHANGED <<m_pathsToUpdate, block, noWatch, unseen, notifications, events>>
      BY <2>9 DEF Busy, d
    <3>3. QueuesOK' /\ wakeEvent' \in BOOLEAN
      BY <2>3, <3>1, <3>2
    <3> QED
      BY <1>1, <2>1, <2>2, <3>2, <3>3 DEF FlagsOK, CountersOK, WorldOK, WDBs
  <2>5. CASE HasNoStatus(to, children, out)
    <3>1. /\ WorkerAdds(children) /\ pc' = to /\ outdated' = out \cup {d}
          /\ UNCHANGED <<m_pathsToUpdate, block, noWatch, notifications, events>>
      BY <2>5 DEF HasNoStatus, d
    <3>2. QueuesOK' /\ wakeEvent' \in BOOLEAN
      BY <2>3, <3>1
    <3> QED
      BY <1>1, <2>1, <2>2, <3>1, <3>2 DEF FlagsOK, CountersOK, WorldOK, WDBs
  <2>6. CASE Succeeds(to, children, out)
    <3>1. PICK extra \in SUBSET ({d} \cup ChildFolders(d)) : WorkerAdds(children \cup extra)
      BY <2>6 DEF Succeeds, d
    <3>2. children \cup extra \in SUBSET Dirs
      BY <2>2 DEF ChildFolders, Dirs
    <3>3. /\ pc' = to /\ outdated' = out \ {d}
          /\ notifications' = notifications \cup Touched(WCDB(d) \cup {workingPath})
          /\ UNCHANGED <<m_pathsToUpdate, block, noWatch, events>>
      BY <2>6 DEF Succeeds, d
    <3>4. QueuesOK' /\ wakeEvent' \in BOOLEAN
      BY <2>3, <3>1, <3>2, <3>3
    <3>5. Touched(WCDB(d) \cup {workingPath}) \subseteq Nodes
      <4>1. WCDB(d) \subseteq Nodes
        BY WCDBFacts
      <4> QED
        BY <2>2, <4>1 DEF Touched
    <3> QED
      BY <1>1, <2>1, <3>3, <3>4, <3>5 DEF FlagsOK, CountersOK, WorldOK, WDBs
  <2>7. CASE FailsForNow(to, out)
    <3>1. /\ WorkerAdds({d}) /\ pc' = to /\ outdated' = out \cup {d} /\ BlockPath(d)
          /\ events < MaxEvents /\ events' = events + 1
          /\ UNCHANGED <<m_pathsToUpdate, noWatch, notifications>>
      BY <2>7 DEF FailsForNow, Event, d
    <3>2. QueuesOK' /\ wakeEvent' \in BOOLEAN
      BY <2>2, <2>3, <3>1
    <3>3. FlagsOK'
      BY <1>1, <2>2, <3>1, <3>2 DEF FlagsOK, BlockPath
    <3>4. CountersOK'
      BY <1>1, <3>1, Settings DEF CountersOK
    <3> QED
      BY <2>1, <2>2, <3>1, <3>2, <3>3, <3>4 DEF WorldOK, WDBs
  <2>8. CASE FailsNotWorkingCopy(to, out)
    <3>1. /\ pc' = to /\ outdated' = out \cup {d} /\ noWatch' = noWatch \cup {d}
          /\ events < MaxEvents /\ events' = events + 1
          /\ UNCHANGED <<queues, wakeEvent, block, notifications>>
      BY <2>8 DEF FailsNotWorkingCopy, Event, d
    <3>2. QueuesOK' /\ FlagsOK'
      BY <1>1, <3>1 DEF QueuesOK, FlagsOK
    <3>3. CountersOK'
      BY <1>1, <3>1, Settings DEF CountersOK
    <3> QED
      BY <2>1, <2>2, <3>1, <3>2, <3>3 DEF WorldOK, WDBs
  <2> QED
    BY <1>7, <2>4, <2>5, <2>6, <2>7, <2>8, <2>9 DEF out
<1> QED
  BY <1>5, <1>6, <1>7 DEF Fetch, Asks

(* A step of the worker keeps the types: only folders are queued as        *)
(* folders, and each step has the kind of path that it needs.              *)
LEMMA WorkerKeepsTypes ==
  ASSUME TypeInv, Worker
  PROVE  TypeParts'
<1> USE DEF TypeInv, TypeParts, Step
<1>1. CASE WorkerWakes
  <2>1. QueuesOK' /\ CountersOK' /\ ProducersOK' /\ WorldOK'
    BY <1>1 DEF WorkerWakes, QueuesOK, CountersOK, ProducersOK, WorldOK
  <2>2. FlagsOK'
    BY <1>1 DEF WorkerWakes, FlagsOK
  <2>3. WorkerOK'
    BY <1>1 DEF WorkerWakes, WorkerOK
  <2> QED
    BY <2>1, <2>2, <2>3
<1>2. CASE LoopTop
  <2>1. QueuesOK' /\ CountersOK' /\ ProducersOK'
    BY <1>2 DEF LoopTop, QueuesOK, CountersOK, ProducersOK
  <2>2. FlagsOK'
    BY <1>2 DEF LoopTop, FlagsOK
  <2>3. WorkerOK'
    BY <1>2 DEF LoopTop, WorkerOK
  <2>4. WorldOK'
    BY <1>2 DEF LoopTop, WorldOK, Dirs
  <2> QED
    BY <2>1, <2>2, <2>3, <2>4
<1>3. CASE CheckBlockOver \/ ResetBlockedPath \/ AnythingLeft
  BY <1>3 DEF CheckBlockOver, ResetBlockedPath, AnythingLeft, QueuesOK, FlagsOK, CountersOK,
     WorkerOK, ProducersOK, WorldOK
<1>4. CASE RemoveTimedoutBlocks
  <2>1. CASE UNCHANGED <<queues, wakeEvent, stop, noWatch>>
    BY <1>4, <2>1 DEF RemoveTimedoutBlocks, QueuesOK, FlagsOK, CountersOK, WorkerOK,
       ProducersOK, WorldOK
  <2>2. ASSUME NEW d \in noWatch, noWatch' = noWatch \ {d}, WorkerAdds({d}),
               UNCHANGED <<m_pathsToUpdate, stop>>
        PROVE  TypeParts'
    <3>1. {d} \in SUBSET Dirs
      BY DEF WorldOK
    <3>2. wakeEvent \in BOOLEAN /\ handlesOpen \in BOOLEAN
      BY DEF FlagsOK
    <3>3. /\ m_foldersToUpdate' \in Seq(Dirs) /\ IsInjective(m_foldersToUpdate')
          /\ m_bItemsAddedSinceLastCrawl' \in BOOLEAN /\ wakeEvent' \in BOOLEAN
      BY <2>2, <3>1, <3>2, WorkerAddsEffect
    <3> QED
      BY <1>4, <2>2, <3>3 DEF RemoveTimedoutBlocks, QueuesOK, FlagsOK, CountersOK, WorkerOK,
         ProducersOK, WorldOK
  <2> QED
    BY <1>4, <2>1, <2>2 DEF RemoveTimedoutBlocks
<1>5. CASE PopPath
  <2>1. FlagsOK' /\ ProducersOK' /\ WorldOK'
    BY <1>5 DEF PopPath, FlagsOK, ProducersOK, WorldOK
  <2>2. CASE m_pathsToUpdate = << >>
    BY <1>5, <2>1, <2>2 DEF PopPath, QueuesOK, CountersOK, WorkerOK
  <2>3. CASE m_pathsToUpdate # << >>
    <3> DEFINE h == Head(m_pathsToUpdate)
    <3>1. /\ workingPath' = h /\ pc' \in {"loop", "checkPath"}
          /\ UNCHANGED <<m_foldersToUpdate, m_bItemsAddedSinceLastCrawl, m_lCrawlInhibitSet, events>>
          /\ startedInhibited' \in {startedInhibited, startedInhibited + 1, 0}
          /\ \/ m_pathsToUpdate' = Append(Tail(m_pathsToUpdate), h)
             \/ m_pathsToUpdate' = Tail(m_pathsToUpdate)
      BY <1>5, <2>3 DEF PopPath, Paths!Pop, Starts
    <3>2. h \in Nodes /\ m_pathsToUpdate' \in Seq(Nodes) /\ IsInjective(m_pathsToUpdate')
      BY <2>3, <3>1, PathCalls DEF QueuesOK
    <3> HIDE DEF h
    <3>3. CountersOK'
      BY <3>1 DEF CountersOK
    <3> QED
      BY <2>1, <3>1, <3>2, <3>3 DEF QueuesOK, WorkerOK
  <2> QED
    BY <2>2, <2>3
<1>6. CASE CheckPath
  <2>1. /\ workingPath \in Nodes /\ pc = "checkPath"
        /\ UNCHANGED <<queues, wakeEvent, stop, gates, block, bFirstRunAfterWakeup,
                       producers, noWatch, missing, notifications, erased, history>>
    BY <1>6 DEF CheckPath, WorkerOK
  <2>2. QueuesOK' /\ FlagsOK' /\ CountersOK' /\ ProducersOK'
    BY <2>1 DEF QueuesOK, FlagsOK, CountersOK, ProducersOK
  <2>3. \/ /\ pc' \in {"loop", "folders"} /\ UNCHANGED workingPath
        \/ /\ pc' = "refreshDir" /\ workingPath' = Parent[workingPath]
        \/ /\ pc' = "refreshPath" /\ Kind[workingPath] = "file" /\ UNCHANGED workingPath
    BY <1>6 DEF CheckPath
  <2>4. WorkerOK'
    <3>1. Parent[workingPath] # NoNode => Parent[workingPath] \in Dirs
      BY <2>1, TreeFacts
    <3> QED
      BY <2>1, <2>3, <3>1 DEF WorkerOK, Dirs
  <2>5. unseen' \subseteq unseen /\ outdated' \subseteq Dirs
    <3>1. outdated' \subseteq outdated \cup {n \in Nodes : Kind[n] = "dir"}
      BY <1>6 DEF CheckPath, KeepCache, NotifyChange, RemoveCacheForPath, Members, Below
    <3>2. unseen' \subseteq unseen
      BY <1>6 DEF CheckPath, KeepCache, RemoveCacheForPath
    <3> QED
      BY <3>1, <3>2 DEF WorldOK, Dirs
  <2>6. m_WCDBs' \in [{n \in Nodes : Kind[n] = "wcdb"} -> {"absent", "old", "current"}]
    <3>1. \/ UNCHANGED m_WCDBs
          \/ m_WCDBs' = [m_WCDBs EXCEPT ![workingPath] = IF @ = "absent" THEN @ ELSE "current"]
      BY <1>6 DEF CheckPath, NotifyChange
    <3> QED
      BY <3>1 DEF WorldOK
  <2>7. unseen' \subseteq Seen
    BY <2>5 DEF WorldOK
  <2>8. overlooked' \subseteq Nodes
    <3>1. UNCHANGED overlooked \/ Overlooks({workingPath})
      BY <1>6 DEF CheckPath
    <3> QED
      BY <2>7, <3>1, HistoryTyped DEF WorldOK
  <2> QED
    BY <2>1, <2>2, <2>4, <2>5, <2>6, <2>7, <2>8 DEF WorldOK
<1>7. CASE RefreshDirectory
  <2>1. Crawled \in SUBSET Dirs
    BY DEF Crawled, ChildFolders, Dirs
  <2>2. /\ QueuesOK' /\ FlagsOK' /\ CountersOK' /\ ProducersOK' /\ WorldOK'
        /\ pc' = "erasePath" /\ UNCHANGED workingPath
    BY <1>7, <2>1, FetchTyped DEF RefreshDirectory
  <2> QED
    BY <2>2 DEF WorkerOK
<1>8. CASE RefreshPath
  <2>1. /\ QueuesOK' /\ FlagsOK' /\ CountersOK' /\ ProducersOK' /\ WorldOK'
        /\ pc' = "erasePath" /\ UNCHANGED workingPath
    BY <1>8, FetchTyped DEF RefreshPath
  <2> QED
    BY <2>1 DEF WorkerOK
<1>9. CASE RefreshFolder
  <2>1. Crawled \in SUBSET Dirs
    BY DEF Crawled, ChildFolders, Dirs
  <2>2. /\ QueuesOK' /\ FlagsOK' /\ CountersOK' /\ ProducersOK' /\ WorldOK'
        /\ pc' = "eraseFolder" /\ UNCHANGED workingPath
    BY <1>9, <2>1, FetchTyped DEF RefreshFolder
  <2>3. pc = "refreshFolder"
    BY <1>9 DEF RefreshFolder, Fetch
  <2> QED
    BY <2>2, <2>3 DEF WorkerOK
<1>10. CASE ErasePath
  <2>1. m_pathsToUpdate' \in Seq(Nodes) /\ IsInjective(m_pathsToUpdate')
    BY <1>10, PathCalls DEF ErasePath, QueuesOK
  <2>2. erased' \subseteq Nodes
    BY <1>10, HistoryTyped DEF ErasePath, WorldOK
  <2> QED
    BY <1>10, <2>1, <2>2 DEF ErasePath, QueuesOK, FlagsOK, CountersOK, WorkerOK, ProducersOK,
       WorldOK
<1>11. CASE PopFolder
  <2>1. FlagsOK' /\ ProducersOK' /\ WorldOK'
    BY <1>11 DEF PopFolder, FlagsOK, ProducersOK, WorldOK
  <2>2. CASE m_foldersToUpdate = << >>
    BY <1>11, <2>1, <2>2 DEF PopFolder, QueuesOK, CountersOK, WorkerOK
  <2>3. CASE m_foldersToUpdate # << >>
    <3> DEFINE h == Head(m_foldersToUpdate)
    <3>1. /\ workingPath' = h /\ pc' \in {"loop", "checkFolder"}
          /\ m_bItemsAddedSinceLastCrawl' = FALSE
          /\ UNCHANGED <<m_pathsToUpdate, m_lCrawlInhibitSet, events>>
          /\ startedInhibited' \in {startedInhibited, startedInhibited + 1, 0}
          /\ \/ m_foldersToUpdate' = Append(Tail(m_foldersToUpdate), h)
             \/ m_foldersToUpdate' = Tail(m_foldersToUpdate)
      BY <1>11, <2>3 DEF PopFolder, Folders!Pop, Starts
    <3>2. h \in Dirs /\ m_foldersToUpdate' \in Seq(Dirs) /\ IsInjective(m_foldersToUpdate')
      BY <2>3, <3>1, FolderCalls DEF QueuesOK
    <3>3. h \in Nodes
      BY <3>2 DEF Dirs
    <3> HIDE DEF h
    <3>4. CountersOK'
      BY <3>1 DEF CountersOK
    <3> QED
      BY <2>1, <3>1, <3>2, <3>3, <3>4 DEF QueuesOK, WorkerOK
  <2> QED
    BY <2>2, <2>3
<1>12. CASE CheckFolder
  BY <1>12 DEF CheckFolder, QueuesOK, FlagsOK, CountersOK, WorkerOK, ProducersOK, WorldOK
<1>13. CASE EraseFolder
  <2>1. m_foldersToUpdate' \in Seq(Dirs) /\ IsInjective(m_foldersToUpdate')
    BY <1>13, FolderCalls DEF EraseFolder, QueuesOK
  <2>2. erased' \subseteq Nodes
    BY <1>13, HistoryTyped DEF EraseFolder, WorldOK
  <2> QED
    BY <1>13, <2>1, <2>2 DEF EraseFolder, QueuesOK, FlagsOK, CountersOK, WorkerOK, ProducersOK,
       WorldOK
<1> QED
  BY <1>1, <1>2, <1>3, <1>4, <1>5, <1>6, <1>7, <1>8, <1>9, <1>10, <1>11, <1>12, <1>13 DEF Worker

(* What starts a request: a good path, to be pushed.                       *)
LEMMA BeginAddTyped ==
  ASSUME ProducersOK, NEW t \in {"watcher", "client"}, NEW n \in Nodes,
         t = "client" => n \in Dirs, BeginAdd(t, n)
  PROVE  ProducersOK'
BY DEF ProducersOK, BeginAdd, Idle

(* A step of any other thread keeps the types.                             *)
LEMMA OthersKeepTypes ==
  ASSUME TypeInv, Watcher \/ Client \/ Timers \/ Stop \/ Environment
  PROVE  TypeParts'
<1> USE DEF TypeInv, TypeParts
<1>1. CASE AddDirectoryForUpdate
  <2> DEFINE v == producers["client"].path
  <2>1. v \in Dirs /\ producers' = [producers EXCEPT !["client"].step = "signal"]
    BY <1>1 DEF AddDirectoryForUpdate, ProducersOK
  <2>2. m_foldersToUpdate' \in Seq(Dirs) /\ IsInjective(m_foldersToUpdate')
    BY <1>1, <2>1, FolderCalls DEF AddDirectoryForUpdate, QueuesOK
  <2>3. ProducersOK'
    BY <2>1 DEF ProducersOK
  <2> QED
    BY <1>1, <2>2, <2>3 DEF AddDirectoryForUpdate, QueuesOK, FlagsOK, CountersOK, WorkerOK, WorldOK
<1>2. CASE AddPathForUpdate
  <2> DEFINE v == producers["watcher"].path
  <2>1. v \in Nodes /\ producers' = [producers EXCEPT !["watcher"].step = "signal"]
    BY <1>2 DEF AddPathForUpdate, ProducersOK
  <2>2. m_pathsToUpdate' \in Seq(Nodes) /\ IsInjective(m_pathsToUpdate')
    BY <1>2, <2>1, PathCalls DEF AddPathForUpdate, QueuesOK
  <2>3. ProducersOK'
    BY <2>1 DEF ProducersOK
  <2> QED
    BY <1>2, <2>2, <2>3 DEF AddPathForUpdate, QueuesOK, FlagsOK, CountersOK, WorkerOK, WorldOK
<1>3. CASE Notify
  <2>1. PICK n \in notifications :
          notifications' = notifications \ {n} /\ BeginAdd("watcher", n)
    BY <1>3 DEF Notify
  <2>2. ProducersOK'
    BY <2>1, BeginAddTyped DEF WorldOK
  <2> QED
    BY <1>3, <2>1, <2>2 DEF Notify, QueuesOK, FlagsOK, CountersOK, WorkerOK, WorldOK
<1>4. ASSUME NEW t \in {"watcher", "client"}, SetWakeEvent(t) PROVE TypeParts'
  <2>1. ProducersOK'
    BY <1>4 DEF SetWakeEvent, ProducersOK, Idle
  <2> QED
    BY <1>4, <2>1 DEF SetWakeEvent, QueuesOK, FlagsOK, CountersOK, WorkerOK, WorldOK
<1>5. CASE Timers \/ Stop
  <2>1. QueuesOK' /\ WorkerOK' /\ ProducersOK' /\ WorldOK'
    BY <1>5 DEF Timers, Stop, BlockEnds, HoldoffEnds, EndInhibit, StopSignal, StopClose,
       QueuesOK, WorkerOK, ProducersOK, WorldOK
  <2>2. FlagsOK'
    BY <1>5 DEF Timers, Stop, BlockEnds, HoldoffEnds, EndInhibit, StopSignal, StopClose, FlagsOK
  <2>3. CountersOK'
    <3>1. UNCHANGED <<startedInhibited, events>>
      BY <1>5 DEF Timers, Stop, BlockEnds, HoldoffEnds, EndInhibit, StopSignal, StopClose
    <3>2. \/ UNCHANGED m_lCrawlInhibitSet
          \/ m_lCrawlInhibitSet > 0 /\ m_lCrawlInhibitSet' = m_lCrawlInhibitSet - 1
      BY <1>5 DEF Timers, Stop, BlockEnds, HoldoffEnds, EndInhibit, StopSignal, StopClose,
         CountersOK
    <3> QED
      BY <3>1, <3>2 DEF CountersOK
  <2> QED
    BY <2>1, <2>2, <2>3
<1>6. ASSUME NEW n \in Nodes, Change(n) PROVE TypeParts'
  <2>1. QueuesOK' /\ WorkerOK' /\ ProducersOK' /\ FlagsOK'
    BY <1>6 DEF Change, QueuesOK, WorkerOK, ProducersOK, FlagsOK
  <2>2. CountersOK'
    BY <1>6, Settings DEF Change, Event, CountersOK
  <2>3. unseen' \subseteq Seen
    BY <1>6 DEF Change, WorldOK, Seen
  <2>4. outdated' \subseteq Dirs
    BY <1>6, WCDBFacts DEF Change, WorldOK
  <2>5. m_WCDBs' \in [{m \in Nodes : Kind[m] = "wcdb"} -> {"absent", "old", "current"}]
    BY <1>6 DEF Change, WorldOK
  <2>6. missing' \subseteq Nodes /\ erased' \subseteq Nodes /\ overlooked' \subseteq Nodes
        /\ notifications' \subseteq Nodes /\ UNCHANGED noWatch
    BY <1>6 DEF Change, WorldOK
  <2>7. WorldOK'
    BY <2>3, <2>4, <2>5, <2>6 DEF WorldOK
  <2> QED
    BY <2>1, <2>2, <2>7
<1>7. ASSUME NEW n \in Nodes, Touch(n) PROVE TypeParts'
  BY <1>7, Settings DEF Touch, Event, QueuesOK, WorkerOK, ProducersOK, FlagsOK, CountersOK, WorldOK
<1>8. ASSUME NEW d \in Dirs, RequestCrawl(d) PROVE TypeParts'
  <2>1. PICK read \in MayRead(d) : GetDBFileTime(read) /\ outdated' = OutdatedBy(read)
    BY <1>8 DEF RequestCrawl
  <2>2. /\ outdated' \subseteq Dirs
        /\ m_WCDBs' \in [{m \in Nodes : Kind[m] = "wcdb"} -> {"absent", "old", "current"}]
    BY <2>1, WCDBFacts
  <2>3. ProducersOK'
    BY <1>8, BeginAddTyped DEF RequestCrawl, Dirs
  <2>4. CountersOK'
    BY <1>8, Settings DEF RequestCrawl, Event, CountersOK
  <2> QED
    BY <1>8, <2>2, <2>3, <2>4 DEF RequestCrawl, QueuesOK, WorkerOK, FlagsOK, WorldOK
<1>9. ASSUME NEW d \in Dirs, CrawlCommand(d) PROVE TypeParts'
  <2>1. ProducersOK'
    BY <1>9, BeginAddTyped DEF CrawlCommand, Dirs
  <2>2. CountersOK'
    BY <1>9, Settings DEF CrawlCommand, Event, CountersOK
  <2>3. WorldOK'
    BY <1>9 DEF CrawlCommand, RemoveCacheForPath, Below, WorldOK, Dirs
  <2> QED
    BY <1>9, <2>1, <2>2, <2>3 DEF CrawlCommand, QueuesOK, WorkerOK, FlagsOK
<1>10. ASSUME NEW d \in Dirs, ReleaseCommand(d) PROVE TypeParts'
  <2>1. CountersOK'
    BY <1>10, Settings DEF ReleaseCommand, Event, CountersOK
  <2>2. WorldOK'
    BY <1>10 DEF ReleaseCommand, RemoveCacheForPath, Below, WorldOK, Dirs
  <2>3. FlagsOK'
    BY <1>10 DEF ReleaseCommand, BlockPath, FlagsOK
  <2> QED
    BY <1>10, <2>1, <2>2, <2>3 DEF ReleaseCommand, QueuesOK, WorkerOK, ProducersOK
<1>11. ASSUME NEW d \in Dirs, BlockCommand(d) PROVE TypeParts'
  <2>1. CountersOK'
    BY <1>11, Settings DEF BlockCommand, Event, CountersOK
  <2> QED
    BY <1>11, <2>1 DEF BlockCommand, QueuesOK, WorkerOK, ProducersOK, FlagsOK, WorldOK
<1>12. ASSUME NEW d \in Dirs, UnblockCommand(d) PROVE TypeParts'
  <2>1. ProducersOK'
    BY <1>12 DEF UnblockCommand, ProducersOK, Idle, Dirs
  <2> QED
    BY <1>12, <2>1 DEF UnblockCommand, QueuesOK, WorkerOK, FlagsOK, CountersOK, WorldOK
<1>13. CASE Inhibit \/ StopRun
  <2>1. QueuesOK' /\ WorkerOK' /\ ProducersOK' /\ WorldOK'
    BY <1>13 DEF Inhibit, StopRun, QueuesOK, WorkerOK, ProducersOK, WorldOK
  <2>2. FlagsOK'
    BY <1>13 DEF Inhibit, StopRun, FlagsOK
  <2>3. CountersOK'
    BY <1>13, Settings DEF Inhibit, BeginInhibit, StopRun, Event, CountersOK
  <2> QED
    BY <2>1, <2>2, <2>3
<1>14. ASSUME NEW d \in Dirs, FetchBegins(d) PROVE TypeParts'
  <2>1. PICK read \in MayRead(d) : GetDBFileTime(read) /\ outdated' = OutdatedBy(read) \ {d}
    BY <1>14 DEF FetchBegins
  <2>2. /\ outdated' \subseteq Dirs
        /\ m_WCDBs' \in [{m \in Nodes : Kind[m] = "wcdb"} -> {"absent", "old", "current"}]
    <3>1. OutdatedBy(read) \subseteq Dirs
      BY WCDBFacts
    <3> QED
      BY <2>1, <3>1, WCDBFacts
  <2>3. ProducersOK'
    BY <1>14 DEF FetchBegins, ProducersOK, Dirs
  <2>4. CountersOK'
    BY <1>14, Settings DEF FetchBegins, BeginInhibit, Event, CountersOK
  <2> QED
    BY <1>14, <2>2, <2>3, <2>4 DEF FetchBegins, QueuesOK, WorkerOK, FlagsOK, WorldOK
<1>15. CASE FetchEnds
  <2> DEFINE d == producers["client"].path
  <2>1. d \in Dirs /\ d \in Nodes
    BY <1>15 DEF FetchEnds, Fetching, ProducersOK, Dirs
  <2>2. WCDB(d) \subseteq Nodes
    BY WCDBFacts
  <2>3. ProducersOK'
    <3>1. BeginAdd("client", d) \/ producers' = [producers EXCEPT !["client"] = Idle]
      BY <1>15 DEF FetchEnds
    <3>2. CASE BeginAdd("client", d)
      BY <2>1, <3>2, BeginAddTyped
    <3>3. CASE producers' = [producers EXCEPT !["client"] = Idle]
      BY <3>3 DEF ProducersOK, Idle
    <3> QED
      BY <3>1, <3>2, <3>3
  <2>4. CountersOK'
    <3>1. m_lCrawlInhibitSet > 0 /\ m_lCrawlInhibitSet' = m_lCrawlInhibitSet - 1
      BY <1>15 DEF FetchEnds, FetchInhibits
    <3>2. UNCHANGED startedInhibited /\ (UNCHANGED events \/ Event)
      BY <1>15 DEF FetchEnds
    <3> QED
      BY <3>1, <3>2, Settings DEF CountersOK, Event
  <2>5. FlagsOK'
    BY <1>15, <2>1 DEF FetchEnds, BlockPath, FlagsOK
  <2>6. WorldOK'
    <3>1. /\ unseen' \subseteq unseen
          /\ notifications' \subseteq notifications \cup WCDB(d)
          /\ noWatch' \subseteq noWatch \cup {d} /\ outdated' \subseteq outdated \cup {d}
          /\ UNCHANGED <<missing, m_WCDBs, erased, overlooked>>
      BY <1>15 DEF FetchEnds, Touched
    <3> QED
      BY <2>1, <2>2, <3>1 DEF WorldOK
  <2> QED
    BY <1>15, <2>3, <2>4, <2>5, <2>6 DEF FetchEnds, QueuesOK, WorkerOK
<1> QED
  BY <1>1, <1>2, <1>3, <1>4, <1>5, <1>6, <1>7, <1>8, <1>9, <1>10, <1>11, <1>12, <1>13, <1>14, <1>15
  DEF Watcher, Client, Environment, Dirs

LEMMA InitTyped == Init => TypeInv
<1> SUFFICES ASSUME Init PROVE TypeInv
  OBVIOUS
<1>1. QueuesOK
  <2>1. IsInjective(<< >>) /\ << >> \in Seq(Dirs) /\ << >> \in Seq(Nodes)
    BY DEF IsInjective
  <2> QED
    BY <2>1 DEF Init, QueuesOK
<1>2. FlagsOK
  BY DEF Init, FlagsOK
<1>3. CountersOK
  BY Settings DEF Init, CountersOK
<1>4. WorkerOK
  BY NodesAreRanks DEF Init, WorkerOK, Dirs
<1>5. ProducersOK
  BY DEF Init, ProducersOK, Idle
<1>6. WorldOK
  BY DEF Init, WorldOK
<1>7. FetchInhibits
  BY DEF Init, FetchInhibits, Fetching, Idle
<1> QED
  BY <1>1, <1>2, <1>3, <1>4, <1>5, <1>6, <1>7 DEF TypeInv, TypeParts

LEMMA NextKeepsTypes == TypeInv /\ [Next]_vars => TypeInv'
<1> SUFFICES ASSUME TypeInv, [Next]_vars PROVE TypeInv'
  OBVIOUS
<1>1. FetchInhibits'
  BY NextKeepsFetchInhibits
<1>2. CASE UNCHANGED vars
  BY <1>1, <1>2 DEF TypeInv, TypeParts, QueuesOK, FlagsOK, CountersOK, WorkerOK, ProducersOK, WorldOK
<1> QED
  BY <1>1, <1>2, WorkerKeepsTypes, OthersKeepTypes DEF Next, TypeInv

-----------------------------------------------------------------------------
(* What is on its way *)

(* Who reaches a path is above it; below a folder that is crawled with its *)
(* children, one of these reaches it.                                      *)
LEMMA ReachFacts ==
  ASSUME NEW d \in Dirs, NEW n \in Nodes
  PROVE  /\ Reaches(d, n) => d \in Chain[n]
         /\ bRecursive /\ d \in Chain[n] => Reaches(d, n)
         /\ Reaches(d, n) /\ n \notin Covers(d) =>
              bRecursive /\ \E c \in ChildFolders(d) : c \in Chain[n] /\ Reaches(c, n)
<1>1. d \in Nodes /\ n # NoNode /\ d # NoNode
  BY NodesAreRanks DEF Dirs
<1>2. Reaches(d, n) => d \in Chain[n]
  BY <1>1, ChainFacts DEF Reaches, Covers, IsAncestorOf
<1>3. \A c : bRecursive /\ c \in Chain[n] => Reaches(c, n)
  BY <1>1 DEF Reaches, IsAncestorOf
<1>4. ASSUME Reaches(d, n), n \notin Covers(d)
      PROVE  bRecursive /\ \E c \in ChildFolders(d) : c \in Chain[n] /\ Reaches(c, n)
  <2>1. bRecursive /\ d \in Chain[n] /\ d # n /\ Parent[n] # d
    BY <1>4 DEF Reaches, IsAncestorOf, Covers
  <2>2. PICK c \in Chain[n] : Parent[c] = d
    BY <2>1, ChainFacts
  <2>3. c \in Nodes /\ c # n
    BY <2>1, <2>2, ChainFacts
  <2>4. PICK e \in Chain[n] : Parent[e] = c
    BY <2>3, ChainFacts
  <2>5. e \in Nodes
    BY ChainFacts
  <2>6. Kind[c] = "dir"
    BY <2>3, <2>4, <2>5, ParentIsTree, NodesAreRanks
  <2>7. c \in ChildFolders(d)
    BY <2>2, <2>3, <2>6 DEF ChildFolders
  <2> QED
    BY <1>3, <2>1, <2>7
<1> QED
  BY <1>2, <1>3, <1>4

(* Below a folder that is not good, or excluded, all is out of scope.      *)
LEMMA ScopeFacts ==
  ASSUME NEW n \in Nodes, NEW d \in Chain[n]
  PROVE  /\ ~IsPathGood(d) \/ d \in Excluded => OutOfScope(n)
         /\ ~IsPathGood(d)' => OutOfScope(n)'
<1>1. Chain[d] \in SUBSET Chain[n]
  BY ChainFacts
<1> QED
  BY <1>1 DEF IsPathGood, Good, OutOfScope

(* The paths that the refresh under way is about.                          *)
Aim(n) == IF pc = "refreshPath" THEN n \in Covers(workingPath) ELSE Reaches(workingPath, n)

(* What a fetch was about is in the cache afterwards or accounted for, and *)
(* no request is lost.                                                     *)
LEMMA FetchSeen ==
  ASSUME TypeInv, NEW from \in {"refreshDir", "refreshPath", "refreshFolder"},
         NEW to \in {"erasePath", "eraseFolder"},
         NEW children \in SUBSET Dirs, Fetch(from, to, children),
         from # "refreshPath" => children = Crawled
  PROVE  /\ Range(m_foldersToUpdate) \subseteq Range(m_foldersToUpdate')
         /\ ~m_bItemsAddedSinceLastCrawl' =>
              ~m_bItemsAddedSinceLastCrawl /\ Range(m_foldersToUpdate') = Range(m_foldersToUpdate)
         /\ UNCHANGED <<m_pathsToUpdate, producers, erased>>
         /\ notifications \subseteq notifications' /\ noWatch \subseteq noWatch'
         /\ unseen' \subseteq unseen /\ overlooked \subseteq overlooked'
         /\ \A n \in unseen' : Aim(n) => Pending(n)' \/ OutOfScope(n)' \/ n \in overlooked'
<1> DEFINE d == DirectoryOf(workingPath)
           Goal == /\ Range(m_foldersToUpdate) \subseteq Range(m_foldersToUpdate')
                   /\ ~m_bItemsAddedSinceLastCrawl' =>
                        ~m_bItemsAddedSinceLastCrawl /\ Range(m_foldersToUpdate') = Range(m_foldersToUpdate)
                   /\ UNCHANGED m_pathsToUpdate
                   /\ notifications \subseteq notifications' /\ noWatch \subseteq noWatch'
                   /\ unseen' \subseteq unseen
                   /\ \A n \in unseen' : Aim(n) =>
                        Pending(n)' \/ OutOfScope(n)' \/ n \in overlooked'
<1>1. /\ UNCHANGED <<producers, erased, workingPath>> /\ pc = from
      /\ overlooked \subseteq overlooked'
  BY DEF Fetch, Overlooks, NothingCached, Gone, Cached, Busy, Asks, Succeeds, HasNoStatus,
         FailsForNow, FailsNotWorkingCopy
<1>2. SUFFICES Goal
  BY <1>1
<1>3. unseen \subseteq Seen /\ QueuesOK /\ wakeEvent \in BOOLEAN /\ handlesOpen \in BOOLEAN
  BY DEF TypeInv, TypeParts, WorldOK, FlagsOK
<1>4. CASE NothingCached(to)
  <2>1. /\ workingPath = NoNode
        /\ UNCHANGED <<queues, noWatch, unseen, notifications>>
    BY <1>4 DEF NothingCached
  <2>2. pc = "refreshDir"
    BY <1>1, <2>1, NodesAreRanks DEF TypeInv, TypeParts, WorkerOK, Dirs
  <2>3. ASSUME NEW n \in unseen', Aim(n) PROVE FALSE
    <3>1. n \in Nodes /\ Parent[n] # NoNode /\ Chain[n] \in SUBSET Nodes
      BY <1>3, <2>1, ChainFacts DEF Seen
    <3>2. Reaches(NoNode, n)
      BY <2>1, <2>2, <2>3 DEF Aim
    <3> QED
      BY <3>1, <3>2, NodesAreRanks DEF Reaches, Covers, IsAncestorOf
  <2> QED
    BY <2>1, <2>3
<1>5. CASE workingPath # NoNode
  <2>1. workingPath \in Nodes /\ d \in Dirs /\ Kind[workingPath] \in {"dir", "file"}
        /\ (pc # "refreshPath" => Kind[workingPath] = "dir")
    <3>1. workingPath \in Nodes /\ Kind[workingPath] \in {"dir", "file"}
          /\ (pc # "refreshPath" => Kind[workingPath] = "dir")
      BY <1>1, <1>5 DEF TypeInv, TypeParts, WorkerOK, Dirs
    <3> QED
      BY <3>1, TreeFacts DEF DirectoryOf, Dirs
  <2>3. \A n \in Nodes : Aim(n) => Reaches(d, n)
    <3> SUFFICES ASSUME NEW n \in Nodes, Aim(n) PROVE Reaches(d, n)
      OBVIOUS
    <3>1. CASE Kind[workingPath] = "dir"
      BY <3>1 DEF Aim, DirectoryOf, Reaches
    <3>2. CASE Kind[workingPath] # "dir"
      <4>1. n \in Covers(workingPath) /\ d = Parent[workingPath]
        BY <2>1, <3>2 DEF Aim, DirectoryOf
      <4>2. Parent[n] # workingPath
        BY <2>1, <3>2, ParentIsTree, NodesAreRanks
      <4>3. n = workingPath
        BY <4>1, <4>2 DEF Covers
      <4> QED
        BY <4>1, <4>3 DEF Reaches, Covers
    <3> QED
      BY <3>1, <3>2
  <2>4. ASSUME NEW n \in Nodes, Aim(n), n \notin Covers(d)
        PROVE  \E c \in children : c \in Chain[n] /\ Reaches(c, n)
    <3>1. bRecursive /\ \E c \in ChildFolders(d) : c \in Chain[n] /\ Reaches(c, n)
      BY <2>1, <2>3, <2>4, ReachFacts
    <3>2. pc # "refreshPath"
      <4> SUFFICES ASSUME pc = "refreshPath" PROVE FALSE
        OBVIOUS
      <4>1. n \in Covers(workingPath) /\ n \notin Covers(d)
        BY <2>4 DEF Aim
      <4>2. Kind[workingPath] # "dir" /\ d = Parent[workingPath]
        BY <4>1 DEF DirectoryOf
      <4>3. Parent[n] # workingPath
        BY <2>1, <4>2, ParentIsTree, NodesAreRanks
      <4> QED
        BY <4>1, <4>2, <4>3 DEF Covers
    <3>3. children = ChildFolders(d)
      BY <1>1, <2>1, <3>1, <3>2 DEF Crawled, DirectoryOf
    <3> QED
      BY <3>1, <3>3
  <2>5. CASE Gone(to)
    <3>1. /\ pc # "refreshPath" /\ unseen' = unseen \ Below(workingPath)
          /\ UNCHANGED <<queues, noWatch, notifications>>
      BY <2>5 DEF Gone, RemoveCacheForPath
    <3>2. d = workingPath
      BY <1>1, <2>1, <3>1 DEF DirectoryOf
    <3>3. ASSUME NEW n \in unseen', Aim(n) PROVE FALSE
      <4>1. n \in Nodes /\ n # NoNode
        BY <1>3, <3>1, NodesAreRanks DEF Seen
      <4>2. d \in Chain[n]
        BY <2>1, <2>3, <3>3, <4>1, ReachFacts
      <4> QED
        BY <3>1, <3>2, <3>3, <4>1, <4>2 DEF Below, IsAncestorOf
    <3> QED
      BY <3>1, <3>3
  <2>6. ASSUME NEW S \in SUBSET Dirs, children \in SUBSET S, WorkerAdds(S),
               UNCHANGED <<m_pathsToUpdate, noWatch>>, notifications \subseteq notifications',
               unseen' \subseteq unseen,
               unseen' \cap Covers(d) = {} \/ Overlooks(Covers(d))
        PROVE  Goal
    <3>1. /\ Range(m_foldersToUpdate') = Range(m_foldersToUpdate) \cup {c \in S : IsPathGood(c)'}
          /\ ~m_bItemsAddedSinceLastCrawl' =>
               ~m_bItemsAddedSinceLastCrawl /\ Range(m_foldersToUpdate') = Range(m_foldersToUpdate)
      BY <1>3, <2>6, WorkerAddsEffect
    <3>2. ASSUME NEW n \in unseen', Aim(n)
          PROVE  Pending(n)' \/ OutOfScope(n)' \/ n \in overlooked'
      <4>1. n \in Nodes
        BY <1>3, <2>6 DEF Seen
      <4>2. CASE n \in Covers(d)
        BY <2>6, <3>2, <4>2 DEF Overlooks
      <4>3. CASE n \notin Covers(d)
        <5>1. PICK c \in children : c \in Chain[n] /\ Reaches(c, n)
          BY <2>4, <3>2, <4>1, <4>3
        <5>2. CASE IsPathGood(c)'
          <6>1. c \in Range(m_foldersToUpdate')
            BY <2>6, <3>1, <5>2
          <6> QED
            BY <5>1, <6>1 DEF Pending
        <5>3. CASE ~IsPathGood(c)'
          BY <4>1, <5>1, <5>3, ScopeFacts
        <5> QED
          BY <5>2, <5>3
      <4> QED
        BY <4>2, <4>3
    <3> QED
      BY <2>6, <3>1, <3>2
  <2>7. ASSUME NEW e, e = d, WorkerAdds({e}),
               UNCHANGED <<m_pathsToUpdate, noWatch, unseen, notifications>>
        PROVE  Goal
    <3>1. /\ Range(m_foldersToUpdate') = Range(m_foldersToUpdate) \cup {c \in {e} : IsPathGood(c)'}
          /\ ~m_bItemsAddedSinceLastCrawl' =>
               ~m_bItemsAddedSinceLastCrawl /\ Range(m_foldersToUpdate') = Range(m_foldersToUpdate)
      BY <1>3, <2>1, <2>7, WorkerAddsEffect
    <3>2. ASSUME NEW n \in unseen', Aim(n)
          PROVE  Pending(n)' \/ OutOfScope(n)'
      <4>1. n \in Nodes
        BY <1>3, <2>7 DEF Seen
      <4>2. Reaches(e, n) /\ e \in Chain[n]
        BY <2>1, <2>3, <2>7, <3>2, <4>1, ReachFacts
      <4>3. CASE IsPathGood(e)'
        <5>1. e \in Range(m_foldersToUpdate')
          BY <3>1, <4>3
        <5> QED
          BY <4>2, <5>1 DEF Pending
      <4>4. CASE ~IsPathGood(e)'
        BY <4>1, <4>2, <4>4, ScopeFacts
      <4> QED
        BY <4>3, <4>4
    <3> QED
      BY <2>7, <3>1, <3>2
  <2>8. ASSUME UNCHANGED <<queues, unseen, notifications>>, noWatch' = noWatch \cup {d}
        PROVE  Goal
    <3>1. ASSUME NEW n \in unseen', Aim(n) PROVE OutOfScope(n)'
      <4>1. n \in Nodes
        BY <1>3, <2>8 DEF Seen
      <4>2. d \in Chain[n]
        BY <2>1, <2>3, <3>1, <4>1, ReachFacts
      <4> QED
        BY <2>8, <4>2 DEF OutOfScope
    <3> QED
      BY <2>8, <3>1
  <2>11. ASSUME NEW S \in SUBSET Dirs, WorkerAdds(S), Overlooks(Covers(d) \cup Below(d)),
                UNCHANGED <<m_pathsToUpdate, noWatch, unseen, notifications>>
         PROVE  Goal
    <3>1. /\ Range(m_foldersToUpdate) \subseteq Range(m_foldersToUpdate')
          /\ ~m_bItemsAddedSinceLastCrawl' =>
               ~m_bItemsAddedSinceLastCrawl /\ Range(m_foldersToUpdate') = Range(m_foldersToUpdate)
      BY <1>3, <2>11, WorkerAddsEffect
    <3>2. ASSUME NEW n \in unseen', Aim(n)
          PROVE  Pending(n)' \/ OutOfScope(n)' \/ n \in overlooked'
      <4>1. n \in Nodes
        BY <1>3, <2>11 DEF Seen
      <4>2. n \in Covers(d) \cup Below(d)
        BY <2>3, <3>2, <4>1 DEF Reaches, Below
      <4> QED
        BY <2>11, <3>2, <4>2 DEF Overlooks
    <3> QED
      BY <2>11, <3>1, <3>2
  <2> HIDE DEF Goal
  <2>9. ASSUME NEW out,
               \/ Cached(to, children, out) \/ Busy(to, children, out)
               \/ Succeeds(to, children, out)
               \/ HasNoStatus(to, children, out)
               \/ FailsForNow(to, out) \/ FailsNotWorkingCopy(to, out)
        PROVE  Goal
    <3>1. CASE Cached(to, children, out)
      BY <2>6, <3>1 DEF Cached
    <3>2. CASE HasNoStatus(to, children, out)
      BY <2>6, <3>2 DEF HasNoStatus
    <3>3. CASE Succeeds(to, children, out)
      <4>1. PICK extra \in SUBSET ({d} \cup ChildFolders(d)) : WorkerAdds(children \cup extra)
        BY <3>3 DEF Succeeds
      <4>2. children \cup extra \in SUBSET Dirs /\ children \in SUBSET (children \cup extra)
        BY <2>1 DEF ChildFolders, Dirs
      <4>3. /\ UNCHANGED <<m_pathsToUpdate, noWatch>> /\ notifications \subseteq notifications'
            /\ unseen' \subseteq unseen /\ unseen' \cap Covers(d) = {}
        BY <3>3 DEF Succeeds
      <4> QED
        BY <2>6, <4>1, <4>2, <4>3
    <3>4. CASE FailsForNow(to, out)
      BY <2>7, <3>4 DEF FailsForNow
    <3>5. CASE FailsNotWorkingCopy(to, out)
      BY <2>8, <3>5 DEF FailsNotWorkingCopy
    <3>6. CASE Busy(to, children, out)
      <4>1. PICK found \in SUBSET children : WorkerAdds(found)
        BY <3>6 DEF Busy
      <4>2. found \in SUBSET Dirs
        OBVIOUS
      <4> QED
        BY <2>11, <3>6, <4>1, <4>2 DEF Busy
    <3> QED
      BY <2>9, <3>1, <3>2, <3>3, <3>4, <3>5, <3>6
  <2>10. CASE ~Gone(to)
    <3>1. ~NothingCached(to)
      BY <1>5 DEF NothingCached
    <3>2. PICK read \in MayRead(d) :
            \/ Cached(to, children, OutdatedBy(read)) \/ Busy(to, children, OutdatedBy(read))
            \/ Succeeds(to, children, OutdatedBy(read))
            \/ HasNoStatus(to, children, OutdatedBy(read))
            \/ FailsForNow(to, OutdatedBy(read)) \/ FailsNotWorkingCopy(to, OutdatedBy(read))
      BY <2>10, <3>1 DEF Fetch, Asks
    <3> QED
      BY <2>9, <3>2
  <2> QED
    BY <2>5, <2>10
<1> HIDE DEF Goal
<1>6. NothingCached(to) \/ workingPath # NoNode
  BY DEF Fetch, Gone
<1> QED
  BY <1>4, <1>5, <1>6

-----------------------------------------------------------------------------
(* No change is forgotten *)

(* The two ways for a path to be on its way: someone holds a request for   *)
(* it, or the worker is at it.                                             *)
Queued(n) ==
  \/ n \in notifications \cup Range(m_pathsToUpdate)
  \/ producers["watcher"].step = "push" /\ producers["watcher"].path = n
  \/ producers["client"].step = "push" /\ Reaches(producers["client"].path, n)
  \/ \E d \in Range(m_foldersToUpdate) : Reaches(d, n)

AtWork(n) ==
  \/ pc = "checkPath" /\ workingPath = n
  \/ pc = "refreshPath" /\ n \in Covers(workingPath)
  \/ pc \in {"refreshDir", "checkFolder", "refreshFolder"} /\ Reaches(workingPath, n)

Accounted(n) == OutOfScope(n) \/ n \in erased \cup overlooked

LEMMA PendingParts ==
  /\ \A n : Pending(n) <=> Queued(n) \/ AtWork(n)
  /\ \A n : Pending(n)' <=> Queued(n)' \/ AtWork(n)'
  /\ ChangesSeen <=> \A n \in unseen : Queued(n) \/ AtWork(n) \/ Accounted(n)
  /\ ChangesSeen' <=> \A n \in unseen' : Queued(n)' \/ AtWork(n)' \/ Accounted(n)'
BY DEF Pending, Queued, AtWork, Accounted, ChangesSeen

(* A step that takes nothing away.                                         *)
LEMMA Undisturbed ==
  /\ (/\ Range(m_foldersToUpdate) \subseteq Range(m_foldersToUpdate')
      /\ Range(m_pathsToUpdate) \subseteq Range(m_pathsToUpdate')
      /\ UNCHANGED producers /\ notifications \subseteq notifications')
     => \A n : Queued(n) => Queued(n)'
  /\ (/\ erased \subseteq erased' /\ overlooked \subseteq overlooked'
      /\ noWatch \subseteq noWatch')
     => \A n : Accounted(n) => Accounted(n)'
BY DEF Queued, Accounted, OutOfScope

(* A folder that is good again is crawled, and so is all below it.         *)
LEMMA Unblocked ==
  ASSUME bRecursive, NEW d \in Dirs, noWatch' = noWatch \ {d}, UNCHANGED <<erased, overlooked>>,
         NEW n \in Nodes, Accounted(n)
  PROVE  Accounted(n)' \/ (IsPathGood(d)' /\ Reaches(d, n))
<1>1. CASE OutOfScope(n) /\ ~OutOfScope(n)'
  <2>1. d \in Chain[n] /\ Chain[n] \cap noWatch' = {}
    BY <1>1 DEF OutOfScope
  <2>2. IsPathGood(d)'
    <3>1. Chain[d] \in SUBSET Chain[n]
      BY <2>1, ChainFacts
    <3> QED
      BY <2>1, <3>1 DEF IsPathGood, Good
  <2> QED
    BY <2>1, <2>2, ReachFacts
<1> QED
  BY <1>1 DEF Accounted

(* A step of the worker forgets no change.                                 *)
LEMMA WorkerForgetsNothing ==
  ASSUME TypeInv, ChangesSeen, Worker, bRecursive
  PROVE  ChangesSeen'
<1> USE DEF Step
<1>1. /\ unseen \subseteq Seen /\ Seen \subseteq Nodes
      /\ \A n \in unseen : Queued(n) \/ AtWork(n) \/ Accounted(n)
  BY PendingParts DEF TypeInv, TypeParts, WorldOK, Seen
<1>2. SUFFICES ASSUME NEW n \in unseen'
               PROVE  Queued(n)' \/ AtWork(n)' \/ Accounted(n)'
  BY PendingParts
<1>3. unseen' \subseteq unseen
  BY DEF Worker, WorkerWakes, LoopTop, CheckBlockOver, ResetBlockedPath,
         RemoveTimedoutBlocks, AnythingLeft, PopPath, CheckPath, RefreshDirectory,
         RefreshPath, ErasePath, PopFolder, CheckFolder, RefreshFolder, EraseFolder, Fetch,
         NothingCached, Gone, Cached, Busy, Asks, Succeeds, HasNoStatus, FailsForNow,
         FailsNotWorkingCopy, RemoveCacheForPath, KeepCache
<1>4. n \in unseen /\ n \in Seen /\ n \in Nodes /\ (Queued(n) \/ AtWork(n) \/ Accounted(n))
  BY <1>1, <1>3
<1>5. CASE \/ WorkerWakes \/ LoopTop \/ CheckBlockOver \/ ResetBlockedPath \/ AnythingLeft
  <2>1. /\ ~AtWork(n)
        /\ UNCHANGED <<m_foldersToUpdate, m_pathsToUpdate, producers, notifications, erased,
                       overlooked, noWatch>>
    BY <1>5 DEF WorkerWakes, LoopTop, CheckBlockOver, ResetBlockedPath, AnythingLeft, AtWork
  <2> QED
    BY <1>4, <2>1, Undisturbed
<1>6. CASE RemoveTimedoutBlocks
  <2>1. ~AtWork(n) /\ UNCHANGED <<producers, notifications, erased, overlooked>>
    BY <1>6 DEF RemoveTimedoutBlocks, AtWork
  <2>2. CASE UNCHANGED <<queues, noWatch>>
    BY <1>4, <2>1, <2>2, Undisturbed
  <2>3. ASSUME NEW d \in noWatch, noWatch' = noWatch \ {d}, WorkerAdds({d}),
               UNCHANGED m_pathsToUpdate
        PROVE  Queued(n)' \/ Accounted(n)'
    <3>1. d \in Dirs /\ QueuesOK /\ wakeEvent \in BOOLEAN /\ handlesOpen \in BOOLEAN
      BY DEF TypeInv, TypeParts, WorldOK, FlagsOK
    <3>2. Range(m_foldersToUpdate') = Range(m_foldersToUpdate) \cup {c \in {d} : IsPathGood(c)'}
      BY <2>3, <3>1, WorkerAddsEffect
    <3>3. CASE Queued(n)
      BY <2>1, <2>3, <3>2, <3>3, Undisturbed
    <3>4. CASE Accounted(n)
      <4>1. Accounted(n)' \/ (IsPathGood(d)' /\ Reaches(d, n))
        BY <1>4, <2>1, <2>3, <3>1, <3>4, Unblocked
      <4> QED
        BY <3>2, <4>1 DEF Queued
    <3> QED
      BY <1>4, <2>1, <3>3, <3>4
  <2> QED
    BY <1>6, <2>2, <2>3 DEF RemoveTimedoutBlocks
<1>7. CASE PopPath
  <2>1. /\ ~AtWork(n)
        /\ UNCHANGED <<m_foldersToUpdate, producers, notifications, erased, overlooked, noWatch>>
    BY <1>7 DEF PopPath, AtWork
  <2>2. CASE UNCHANGED m_pathsToUpdate
    BY <1>4, <2>1, <2>2, Undisturbed
  <2>3. CASE ~UNCHANGED m_pathsToUpdate
    <3>1. /\ m_pathsToUpdate # << >> /\ workingPath' = Head(m_pathsToUpdate)
          /\ \/ m_pathsToUpdate' = Append(Tail(m_pathsToUpdate), Head(m_pathsToUpdate))
             \/ m_pathsToUpdate' = Tail(m_pathsToUpdate) /\ pc' = "checkPath"
      BY <1>7, <2>3 DEF PopPath, Paths!Pop
    <3>2. \/ Range(m_pathsToUpdate) \subseteq Range(m_pathsToUpdate')
          \/ /\ Range(m_pathsToUpdate) = Range(m_pathsToUpdate') \cup {workingPath'}
             /\ pc' = "checkPath"
      BY <3>1, PathCalls DEF TypeInv, TypeParts, QueuesOK
    <3> QED
      BY <1>4, <2>1, <3>2, Undisturbed DEF Queued, AtWork
  <2> QED
    BY <2>2, <2>3
<1>8. CASE CheckPath
  <2>1. /\ pc = "checkPath"
        /\ UNCHANGED overlooked \/ Overlooks({workingPath})
        /\ UNCHANGED <<m_foldersToUpdate, m_pathsToUpdate, producers, notifications, erased, noWatch>>
    BY <1>8 DEF CheckPath
  <2>2. overlooked \subseteq overlooked'
    BY <2>1 DEF Overlooks
  <2>3. CASE Queued(n) \/ Accounted(n)
    BY <2>1, <2>2, <2>3, Undisturbed
  <2>4. CASE AtWork(n)
    <3>1. workingPath = n /\ Kind[n] \in {"dir", "file", "wcdb"} /\ Parent[n] # NoNode
      BY <1>4, <2>1, <2>4 DEF AtWork, Seen
    <3>2. CASE n \in Excluded \/ ~IsPathGood(n)
      <4>1. OutOfScope(n)
        BY <1>4, <3>2, ChainFacts, ScopeFacts
      <4> QED
        BY <2>1, <2>2, <4>1 DEF Accounted, OutOfScope
    <3>3. CASE Overlooks({n})
      <4>1. Pending(n)' \/ OutOfScope(n)' \/ n \in overlooked'
        BY <3>3 DEF Overlooks
      <4> QED
        BY <4>1, PendingParts DEF Accounted
    <3>4. CASE pc' = "refreshDir" /\ workingPath' = Parent[n]
      BY <1>4, <3>4 DEF AtWork, Reaches, Covers
    <3>5. CASE unseen' = unseen \ Below(n)
      BY <1>4, <3>5, ChainFacts, NodesAreRanks DEF Below, IsAncestorOf
    <3>6. CASE pc' = "refreshPath" /\ workingPath' = n
      BY <1>4, <3>6 DEF AtWork, Covers
    <3> QED
      BY <1>8, <3>1, <3>2, <3>3, <3>4, <3>5, <3>6 DEF CheckPath, RemoveCacheForPath
  <2> QED
    BY <1>4, <2>3, <2>4
<1>9. ASSUME NEW from \in {"refreshDir", "refreshPath", "refreshFolder"},
             NEW to \in {"erasePath", "eraseFolder"}, NEW children \in SUBSET Dirs,
             Fetch(from, to, children), from # "refreshPath" => children = Crawled
      PROVE  Queued(n)' \/ AtWork(n)' \/ Accounted(n)'
  <2>1. /\ Range(m_foldersToUpdate) \subseteq Range(m_foldersToUpdate')
        /\ UNCHANGED <<m_pathsToUpdate, producers, erased>>
        /\ notifications \subseteq notifications' /\ noWatch \subseteq noWatch'
        /\ overlooked \subseteq overlooked'
        /\ \A m \in unseen' : Aim(m) => Pending(m)' \/ OutOfScope(m)' \/ m \in overlooked'
    BY <1>9, FetchSeen
  <2>2. AtWork(n) => Aim(n)
    BY <1>9 DEF Fetch, AtWork, Aim
  <2> QED
    BY <1>4, <2>1, <2>2, Undisturbed, PendingParts DEF Accounted
<1>10. CASE RefreshDirectory \/ RefreshPath \/ RefreshFolder
  <2>1. Crawled \in SUBSET Dirs
    BY DEF Crawled, ChildFolders, Dirs
  <2> QED
    BY <1>9, <1>10, <2>1 DEF RefreshDirectory, RefreshPath, RefreshFolder
<1>11. CASE ErasePath
  <2>1. /\ ~AtWork(n) /\ Paths!Erase(workingPath)
        /\ Loses({workingPath} \cap Range(m_pathsToUpdate))
        /\ UNCHANGED <<m_foldersToUpdate, producers, notifications, overlooked, noWatch>>
    BY <1>11 DEF ErasePath, AtWork
  <2>2. Range(m_pathsToUpdate') = Range(m_pathsToUpdate) \ {workingPath}
    BY <2>1, PathCalls DEF TypeInv, TypeParts, QueuesOK
  <2>3. erased \subseteq erased'
    BY <2>1 DEF Loses
  <2>4. CASE n = workingPath /\ n \in Range(m_pathsToUpdate)
    BY <1>4, <2>1, <2>4, PendingParts DEF Loses, Accounted
  <2>5. CASE ~(n = workingPath /\ n \in Range(m_pathsToUpdate))
    BY <1>4, <2>1, <2>2, <2>3, <2>5, Undisturbed DEF Queued
  <2> QED
    BY <2>4, <2>5
<1>12. CASE PopFolder
  <2>1. /\ ~AtWork(n)
        /\ UNCHANGED <<m_pathsToUpdate, producers, notifications, erased, overlooked, noWatch>>
    BY <1>12 DEF PopFolder, AtWork
  <2>2. CASE UNCHANGED m_foldersToUpdate
    BY <1>4, <2>1, <2>2, Undisturbed
  <2>3. CASE ~UNCHANGED m_foldersToUpdate
    <3>1. /\ m_foldersToUpdate # << >> /\ workingPath' = Head(m_foldersToUpdate)
          /\ \/ m_foldersToUpdate' = Append(Tail(m_foldersToUpdate), Head(m_foldersToUpdate))
             \/ m_foldersToUpdate' = Tail(m_foldersToUpdate) /\ pc' = "checkFolder"
      BY <1>12, <2>3 DEF PopFolder, Folders!Pop
    <3>2. \/ Range(m_foldersToUpdate) \subseteq Range(m_foldersToUpdate')
          \/ /\ Range(m_foldersToUpdate) = Range(m_foldersToUpdate') \cup {workingPath'}
             /\ pc' = "checkFolder"
      BY <3>1, FolderCalls DEF TypeInv, TypeParts, QueuesOK
    <3> QED
      BY <1>4, <2>1, <3>2, Undisturbed DEF Queued, AtWork
  <2> QED
    BY <2>2, <2>3
<1>13. CASE CheckFolder
  <2>1. /\ pc = "checkFolder" /\ workingPath \in Dirs /\ UNCHANGED workingPath
        /\ UNCHANGED <<m_foldersToUpdate, m_pathsToUpdate, producers, notifications, erased,
                       overlooked, noWatch>>
    BY <1>13 DEF CheckFolder, TypeInv, TypeParts, WorkerOK
  <2>2. CASE AtWork(n)
    <3>1. Reaches(workingPath, n) /\ workingPath \in Chain[n]
      BY <1>4, <2>1, <2>2, ReachFacts DEF AtWork
    <3>2. CASE workingPath \in Excluded \/ ~IsPathGood(workingPath)
      <4>1. OutOfScope(n)
        BY <1>4, <3>1, <3>2, ScopeFacts
      <4> QED
        BY <2>1, <4>1 DEF Accounted, OutOfScope
    <3>3. CASE pc' = "refreshFolder"
      BY <2>1, <3>1, <3>3 DEF AtWork
    <3> QED
      BY <1>13, <3>2, <3>3 DEF CheckFolder
  <2> QED
    BY <1>4, <2>1, <2>2, Undisturbed
<1>14. CASE EraseFolder
  <2>1. /\ ~AtWork(n) /\ workingPath \in Dirs
        /\ Loses(UNION {Below(d) : d \in {workingPath} \cap Range(m_foldersToUpdate)})
        /\ Folders!Erase(workingPath) \/ UNCHANGED m_foldersToUpdate
        /\ UNCHANGED <<m_pathsToUpdate, producers, notifications, overlooked, noWatch>>
    BY <1>14 DEF EraseFolder, AtWork, TypeInv, TypeParts, WorkerOK
  <2>2. Range(m_foldersToUpdate) \ {workingPath} \subseteq Range(m_foldersToUpdate')
    BY <2>1, FolderCalls DEF TypeInv, TypeParts, QueuesOK
  <2>3. erased \subseteq erased'
    BY <2>1 DEF Loses
  <2>4. CASE workingPath \in Range(m_foldersToUpdate) /\ Reaches(workingPath, n)
    <3>1. n \in Below(workingPath)
      BY <1>4, <2>1, <2>4, ReachFacts, NodesAreRanks DEF Below, IsAncestorOf
    <3> QED
      BY <1>4, <2>1, <2>4, <3>1, PendingParts DEF Loses, Accounted
  <2>5. CASE ~(workingPath \in Range(m_foldersToUpdate) /\ Reaches(workingPath, n))
    BY <1>4, <2>1, <2>2, <2>3, <2>5, Undisturbed DEF Queued
  <2> QED
    BY <2>4, <2>5
<1> QED
  BY <1>5, <1>6, <1>7, <1>8, <1>10, <1>11, <1>12, <1>13, <1>14 DEF Worker

(* Nor does a step of any other thread.                                    *)
LEMMA OthersForgetNothing ==
  ASSUME TypeInv, ChangesSeen, bRecursive,
         Watcher \/ Client \/ Timers \/ Stop \/ Environment
  PROVE  ChangesSeen'
<1>1. /\ unseen \subseteq Nodes
      /\ \A n \in unseen : Queued(n) \/ AtWork(n) \/ Accounted(n)
  BY PendingParts DEF TypeInv, TypeParts, WorldOK, Seen
<1>2. UNCHANGED <<pc, workingPath>>
  BY DEF Watcher, Client, AddDirectoryForUpdate, AddPathForUpdate, Notify, SetWakeEvent,
     FetchEnds, Timers, Stop, BlockEnds, HoldoffEnds, EndInhibit, StopSignal, StopClose,
     Environment, Change, Touch, RequestCrawl, FetchBegins, CrawlCommand, ReleaseCommand,
     BlockCommand, UnblockCommand, Inhibit, StopRun
<1>3. \A n : AtWork(n) => AtWork(n)'
  BY <1>2 DEF AtWork
<1>4. SUFFICES ASSUME NEW n \in unseen'
               PROVE  Queued(n)' \/ AtWork(n)' \/ Accounted(n)'
  BY PendingParts
<1>5. CASE AddDirectoryForUpdate
  <2>1. /\ producers["client"].step = "push" /\ Folders!Push(producers["client"].path)
        /\ UNCHANGED <<m_pathsToUpdate, notifications, unseen, erased, overlooked, noWatch>>
        /\ producers'["watcher"] = producers["watcher"]
    BY <1>5 DEF AddDirectoryForUpdate
  <2>2. Range(m_foldersToUpdate') = Range(m_foldersToUpdate) \cup {producers["client"].path}
    BY <2>1, FolderCalls DEF TypeInv, TypeParts, QueuesOK, ProducersOK
  <2>3. Queued(n) => Queued(n)'
    BY <2>1, <2>2 DEF Queued
  <2> QED
    BY <1>1, <1>3, <1>4, <2>1, <2>3, Undisturbed
<1>6. CASE AddPathForUpdate
  <2>1. /\ producers["watcher"].step = "push" /\ Paths!Push(producers["watcher"].path)
        /\ UNCHANGED <<m_foldersToUpdate, notifications, unseen, erased, overlooked, noWatch>>
        /\ producers'["client"] = producers["client"]
    BY <1>6 DEF AddPathForUpdate
  <2>2. Range(m_pathsToUpdate') = Range(m_pathsToUpdate) \cup {producers["watcher"].path}
    BY <2>1, PathCalls DEF TypeInv, TypeParts, QueuesOK, ProducersOK
  <2>3. Queued(n) => Queued(n)'
    BY <2>1, <2>2 DEF Queued
  <2> QED
    BY <1>1, <1>3, <1>4, <2>1, <2>3, Undisturbed
<1>7. CASE Notify
  <2>1. PICK m \in notifications :
          notifications' = notifications \ {m} /\ BeginAdd("watcher", m)
    BY <1>7 DEF Notify
  <2>2. /\ UNCHANGED <<m_foldersToUpdate, m_pathsToUpdate, unseen, erased, overlooked, noWatch>>
        /\ producers["watcher"].step # "push" /\ producers'["client"] = producers["client"]
        /\ producers'["watcher"] = IF IsPathGood(m) THEN [step |-> "push", path |-> m] ELSE Idle
    BY <1>7, <2>1 DEF Notify, BeginAdd, Idle, TypeInv, TypeParts, ProducersOK
  <2>3. CASE n = m /\ IsPathGood(m)
    BY <2>2, <2>3 DEF Queued
  <2>4. CASE n = m /\ ~IsPathGood(m)
    <3>1. n \in Nodes /\ n \in Chain[n]
      BY <1>1, <1>4, <2>2, ChainFacts
    <3>2. OutOfScope(n)
      BY <2>4, <3>1, ScopeFacts
    <3> QED
      BY <2>2, <3>2 DEF Accounted, OutOfScope
  <2>5. CASE n # m
    <3>1. Queued(n) => Queued(n)'
      BY <2>1, <2>2, <2>5 DEF Queued
    <3> QED
      BY <1>1, <1>3, <1>4, <2>2, <3>1, Undisturbed
  <2> QED
    BY <2>3, <2>4, <2>5
<1>8. ASSUME NEW t \in {"watcher", "client"}, SetWakeEvent(t)
      PROVE  Queued(n)' \/ AtWork(n)' \/ Accounted(n)'
  <2>1. /\ UNCHANGED <<m_foldersToUpdate, m_pathsToUpdate, notifications, unseen, erased,
                       overlooked, noWatch>>
        /\ \A u \in {"watcher", "client"} :
             producers[u].step = "push" => producers'[u] = producers[u]
    BY <1>8 DEF SetWakeEvent, TypeInv, TypeParts, ProducersOK
  <2>2. Queued(n) => Queued(n)'
    BY <2>1 DEF Queued
  <2> QED
    BY <1>1, <1>3, <1>4, <2>1, <2>2, Undisturbed
<1>9. CASE Timers \/ Stop \/ Inhibit \/ StopRun
  <2>1. UNCHANGED <<m_foldersToUpdate, m_pathsToUpdate, producers, notifications, unseen,
                    erased, overlooked, noWatch>>
    BY <1>9 DEF Timers, Stop, BlockEnds, HoldoffEnds, EndInhibit, StopSignal, StopClose, Inhibit,
       StopRun
  <2> QED
    BY <1>1, <1>3, <1>4, <2>1, Undisturbed
<1>10. ASSUME NEW m \in Nodes, Change(m)
       PROVE  Queued(n)' \/ AtWork(n)' \/ Accounted(n)'
  <2>1. /\ UNCHANGED <<m_foldersToUpdate, m_pathsToUpdate, producers, noWatch>>
        /\ notifications' = notifications \cup {m} /\ unseen' \subseteq unseen \cup {m}
        /\ erased' = erased \ {m} /\ overlooked' = overlooked \ {m}
    BY <1>10 DEF Change
  <2>2. CASE n = m
    BY <2>1, <2>2 DEF Queued
  <2>3. CASE n # m
    BY <1>1, <1>3, <1>4, <2>1, <2>3, Undisturbed DEF Accounted, OutOfScope
  <2> QED
    BY <2>2, <2>3
<1>11. ASSUME NEW m \in Nodes, Touch(m)
       PROVE  Queued(n)' \/ AtWork(n)' \/ Accounted(n)'
  BY <1>1, <1>3, <1>4, <1>11, Undisturbed DEF Touch
<1>12. ASSUME NEW d \in Dirs, RequestCrawl(d) \/ CrawlCommand(d) \/ FetchBegins(d)
       PROVE  Queued(n)' \/ AtWork(n)' \/ Accounted(n)'
  <2>1. /\ UNCHANGED <<m_foldersToUpdate, m_pathsToUpdate, notifications, erased, overlooked,
                       noWatch>>
        /\ unseen' \subseteq unseen
        /\ producers["client"].step # "push" /\ producers'["watcher"] = producers["watcher"]
    BY <1>12 DEF RequestCrawl, CrawlCommand, FetchBegins, RemoveCacheForPath, BeginAdd, Idle,
       TypeInv, TypeParts, ProducersOK
  <2>2. Queued(n) => Queued(n)'
    BY <2>1 DEF Queued
  <2> QED
    BY <1>1, <1>3, <1>4, <2>1, <2>2, Undisturbed
<1>13. ASSUME NEW d \in Dirs, ReleaseCommand(d) \/ BlockCommand(d)
       PROVE  Queued(n)' \/ AtWork(n)' \/ Accounted(n)'
  <2>1. /\ UNCHANGED <<m_foldersToUpdate, m_pathsToUpdate, producers, notifications, erased,
                       overlooked>>
        /\ unseen' \subseteq unseen /\ noWatch \subseteq noWatch'
    BY <1>13 DEF ReleaseCommand, BlockCommand, RemoveCacheForPath
  <2> QED
    BY <1>1, <1>3, <1>4, <2>1, Undisturbed
<1>14. ASSUME NEW d \in Dirs, UnblockCommand(d)
       PROVE  Queued(n)' \/ AtWork(n)' \/ Accounted(n)'
  <2>1. /\ UNCHANGED <<m_foldersToUpdate, m_pathsToUpdate, notifications, unseen, erased,
                       overlooked>>
        /\ noWatch' = noWatch \ {d}
        /\ producers["client"].step # "push" /\ producers'["watcher"] = producers["watcher"]
        /\ Good(noWatch', d) => producers'["client"] = [step |-> "push", path |-> d]
    BY <1>14 DEF UnblockCommand, Idle, TypeInv, TypeParts, ProducersOK
  <2>2. Queued(n) => Queued(n)'
    BY <2>1 DEF Queued
  <2>3. n \in unseen /\ n \in Nodes
    BY <1>1, <1>4, <2>1
  <2>4. ASSUME Accounted(n) PROVE Queued(n)' \/ Accounted(n)'
    <3>1. Accounted(n)' \/ (IsPathGood(d)' /\ Reaches(d, n))
      BY <1>14, <2>1, <2>3, <2>4, Unblocked
    <3>2. IsPathGood(d)' => Good(noWatch', d)
      BY DEF IsPathGood
    <3> QED
      BY <2>1, <3>1, <3>2 DEF Queued
  <2> QED
    BY <1>1, <1>3, <2>2, <2>3, <2>4
<1>15. CASE FetchEnds
  <2>1. /\ UNCHANGED <<m_foldersToUpdate, m_pathsToUpdate, erased, overlooked>>
        /\ notifications \subseteq notifications' /\ noWatch \subseteq noWatch'
        /\ unseen' \subseteq unseen
    BY <1>15 DEF FetchEnds
  <2>2. producers["client"].step # "push" /\ producers'["watcher"] = producers["watcher"]
    BY <1>15 DEF FetchEnds, Fetching, BeginAdd, TypeInv, TypeParts, ProducersOK
  <2>3. Queued(n) => Queued(n)'
    BY <2>1, <2>2 DEF Queued
  <2> QED
    BY <1>1, <1>3, <1>4, <2>1, <2>3, Undisturbed
<1> QED
  BY <1>5, <1>6, <1>7, <1>8, <1>9, <1>10, <1>11, <1>12, <1>13, <1>14, <1>15
  DEF Watcher, Client, Environment, Dirs

(* Queues of nodes without duplicates, folders where folders are expected, *)
(* and every thread at a step: TypeOK, in the parts that the threads need. *)
THEOREM CrawlerTypes == Spec => []TypeOK
<1>1. TypeInv => TypeOK
  <2> SUFFICES ASSUME TypeInv PROVE TypeOK
    OBVIOUS
  <2>1. /\ QueuesOK /\ FlagsOK /\ CountersOK /\ WorkerOK /\ ProducersOK /\ WorldOK
    BY DEF TypeInv, TypeParts
  <2>2. m_lCrawlInhibitSet \in 0..MaxEvents
    BY <2>1, Settings DEF CountersOK
  <2>3. \A t \in DOMAIN producers :
          producers[t] \in [step : {"idle", "fetch", "push", "signal"}, path : Nodes \cup {NoNode}]
    BY <2>1 DEF ProducersOK
  <2> QED
    BY <2>1, <2>2, <2>3 DEF TypeOK, QueuesOK, FlagsOK, CountersOK, WorkerOK, WorldOK, Dirs, Seen
<1> QED
  BY <1>1, InitTyped, NextKeepsTypes, PTL DEF Spec

-----------------------------------------------------------------------------
(* A step of the worker keeps InhibitInv: a round begins only without an   *)
(* inhibitor and starts at most twice.                                     *)
LEMMA WorkerKeepsInhibitInv ==
  ASSUME InhibitInv, Worker
  PROVE  InhibitInv'
<1> USE DEF InhibitInv, BeforePath, BeforeFolder, Step, Starts
<1>1. UNCHANGED m_lCrawlInhibitSet
  BY DEF Worker, WorkerWakes, LoopTop, CheckBlockOver, ResetBlockedPath,
         RemoveTimedoutBlocks, AnythingLeft, PopPath, CheckPath, RefreshDirectory,
         RefreshPath, ErasePath, PopFolder, CheckFolder, RefreshFolder, EraseFolder,
         Fetch
<1>2. CASE WorkerWakes
  BY <1>1, <1>2 DEF WorkerWakes
<1>3. CASE LoopTop
  BY <1>1, <1>3 DEF LoopTop
<1>4. CASE CheckBlockOver \/ ResetBlockedPath \/ RemoveTimedoutBlocks \/ AnythingLeft
  BY <1>1, <1>4 DEF CheckBlockOver, ResetBlockedPath, RemoveTimedoutBlocks, AnythingLeft
<1>5. CASE PopPath
  BY <1>1, <1>5 DEF PopPath
<1>6. CASE CheckPath
  BY <1>1, <1>6 DEF CheckPath
<1>7. CASE ErasePath \/ CheckFolder \/ EraseFolder
  BY <1>1, <1>7 DEF ErasePath, CheckFolder, EraseFolder
<1>8. CASE PopFolder
  BY <1>1, <1>8 DEF PopFolder
<1>9. CASE RefreshDirectory \/ RefreshPath \/ RefreshFolder
  BY <1>1, <1>9 DEF RefreshDirectory, RefreshPath, RefreshFolder, Fetch, NothingCached,
     Gone, Cached, Busy, Asks, Succeeds, HasNoStatus, FailsForNow, FailsNotWorkingCopy
<1> QED
  BY <1>2, <1>3, <1>4, <1>5, <1>6, <1>7, <1>8, <1>9 DEF Worker

(* Whatever the other threads do, an inhibitor lets the worker start at    *)
(* most one changed path and one folder: m_lCrawlInhibitSet is only looked *)
(* at between two rounds, but every round does look.                       *)
THEOREM Inhibited == Spec => []InhibitBound
<1>1. Init => TypeInv /\ InhibitInv
  BY InitTyped DEF Init, InhibitInv, BeforePath, BeforeFolder
<1>2. TypeInv /\ InhibitInv /\ [Next]_vars => TypeInv' /\ InhibitInv'
  <2> SUFFICES ASSUME TypeInv, InhibitInv, [Next]_vars PROVE InhibitInv'
    BY NextKeepsTypes
  <2>0. m_lCrawlInhibitSet \in Nat /\ (Fetching => m_lCrawlInhibitSet > 0)
    BY DEF TypeInv, TypeParts, CountersOK, FetchInhibits
  <2>1. CASE UNCHANGED <<m_lCrawlInhibitSet, startedInhibited, pc>>
    BY <2>1 DEF InhibitInv
  <2>2. CASE EndInhibit \/ FetchEnds
    BY <2>0, <2>2 DEF EndInhibit, FetchEnds, InhibitInv
  <2>3. CASE Watcher \/ Client
    BY <2>1, <2>2, <2>3 DEF Watcher, Client, AddDirectoryForUpdate, AddPathForUpdate, Notify,
       SetWakeEvent
  <2>4. CASE Timers \/ Stop
    BY <2>1, <2>2, <2>4 DEF Timers, Stop, BlockEnds, HoldoffEnds, StopSignal, StopClose
  <2>5. ASSUME Inhibit \/ \E d \in Nodes : FetchBegins(d) PROVE InhibitInv'
    <3>1. BeginInhibit /\ UNCHANGED pc
      BY <2>5 DEF Inhibit, FetchBegins
    <3> QED
      BY <2>0, <3>1 DEF BeginInhibit, InhibitInv
  <2>6. CASE Environment
    BY <2>1, <2>5, <2>6 DEF Environment, Change, Touch, RequestCrawl, CrawlCommand,
       ReleaseCommand, BlockCommand, UnblockCommand, StopRun
  <2> QED
    BY <2>1, <2>3, <2>4, <2>6, WorkerKeepsInhibitInv DEF Next
<1>3. InhibitInv => InhibitBound
  BY DEF InhibitInv, InhibitBound
<1> QED
  BY <1>1, <1>2, <1>3, PTL DEF Spec

-----------------------------------------------------------------------------
(* With RecursiveOverlay on (the default), whatever the threads, the       *)
(* commands and svn do, a change that is not in the cache yet is on its    *)
(* way, or below a blocked or an excluded folder, or its request was       *)
(* erased, or the worker has passed over it: it took the cached status for *)
(* valid or the path for unversioned, or left it to another thread that    *)
(* was fetching the folder.                                                *)
THEOREM NothingForgotten == bRecursive => (Spec => []CrawlerInv)
<1> SUFFICES ASSUME bRecursive PROVE Spec => []CrawlerInv
  OBVIOUS
<1>1. Init => TypeInv /\ ChangesSeen
  BY InitTyped DEF Init, ChangesSeen
<1>2. TypeInv /\ ChangesSeen /\ [Next]_vars => TypeInv' /\ ChangesSeen'
  <2> SUFFICES ASSUME TypeInv, ChangesSeen, [Next]_vars PROVE TypeInv' /\ ChangesSeen'
    OBVIOUS
  <2>1. CASE UNCHANGED vars
    BY <2>1, NextKeepsTypes DEF ChangesSeen, Pending, OutOfScope
  <2> QED
    BY <2>1, NextKeepsTypes, WorkerForgetsNothing, OthersForgetNothing DEF Next
<1>3. TypeOK /\ ChangesSeen => CrawlerInv
  BY DEF CrawlerInv
<1> QED
  BY <1>1, <1>2, <1>3, CrawlerTypes, PTL DEF Spec

-----------------------------------------------------------------------------
(* No folder is crawled twice in a row *)

(* While a folder is crawled the flag tells of every request for it.       *)
FlagTells ==
  pc \in {"checkFolder", "refreshFolder", "eraseFolder"} /\ ~m_bItemsAddedSinceLastCrawl =>
    workingPath \notin Range(m_foldersToUpdate)

LEMMA NextKeepsFlagTells ==
  ASSUME TypeInv, FlagTells, [Next]_vars
  PROVE  FlagTells'
<1> USE DEF Step
<1>1. CASE UNCHANGED <<pc, workingPath, m_bItemsAddedSinceLastCrawl, m_foldersToUpdate>>
  BY <1>1 DEF FlagTells
<1>2. CASE AddDirectoryForUpdate
  BY <1>2 DEF AddDirectoryForUpdate, FlagTells
<1>3. CASE \/ UNCHANGED vars \/ Watcher \/ (Client /\ ~AddDirectoryForUpdate)
           \/ Timers \/ Stop \/ Environment
  BY <1>1, <1>3 DEF Watcher, Client, AddPathForUpdate, Notify, SetWakeEvent, FetchEnds,
     Timers, Stop, BlockEnds, HoldoffEnds, EndInhibit, StopSignal, StopClose, Environment, Change,
     Touch, RequestCrawl, FetchBegins, CrawlCommand, ReleaseCommand, BlockCommand, UnblockCommand,
     Inhibit, StopRun
<1>4. CASE \/ WorkerWakes \/ LoopTop \/ CheckBlockOver \/ ResetBlockedPath
           \/ RemoveTimedoutBlocks \/ AnythingLeft \/ PopPath \/ CheckPath \/ ErasePath
           \/ EraseFolder
  BY <1>4 DEF WorkerWakes, LoopTop, CheckBlockOver, ResetBlockedPath, RemoveTimedoutBlocks,
     AnythingLeft, PopPath, CheckPath, ErasePath, EraseFolder, FlagTells
<1>5. CASE PopFolder
  <2>1. CASE pc' = "loop"
    BY <2>1 DEF FlagTells
  <2>2. CASE pc' # "loop"
    <3>1. /\ m_foldersToUpdate # << >> /\ workingPath' = Head(m_foldersToUpdate)
          /\ m_foldersToUpdate' = Tail(m_foldersToUpdate)
      BY <1>5, <2>2 DEF PopFolder, Folders!Pop
    <3> QED
      BY <3>1, FolderCalls DEF TypeInv, TypeParts, QueuesOK, FlagTells
  <2> QED
    BY <2>1, <2>2
<1>6. CASE CheckFolder
  BY <1>6 DEF CheckFolder, FlagTells
<1>7. CASE RefreshDirectory \/ RefreshPath
  <2>1. Crawled \in SUBSET Dirs /\ {} \in SUBSET Dirs
    BY DEF Crawled, ChildFolders, Dirs
  <2>2. pc' = "erasePath"
    BY <1>7, <2>1, FetchTyped DEF RefreshDirectory, RefreshPath
  <2> QED
    BY <2>2 DEF FlagTells
<1>8. CASE RefreshFolder
  <2>1. Crawled \in SUBSET Dirs
    BY DEF Crawled, ChildFolders, Dirs
  <2>2. ~m_bItemsAddedSinceLastCrawl' =>
          ~m_bItemsAddedSinceLastCrawl /\ Range(m_foldersToUpdate') = Range(m_foldersToUpdate)
    BY <1>8, <2>1, FetchSeen DEF RefreshFolder
  <2>3. pc = "refreshFolder" /\ UNCHANGED workingPath
    BY <1>8 DEF RefreshFolder, Fetch
  <2> QED
    BY <2>2, <2>3 DEF FlagTells
<1> QED
  BY <1>2, <1>3, <1>4, <1>5, <1>6, <1>7, <1>8 DEF Next, Worker

(* When the worker is done with a folder no request for it is left,        *)
(* whoever made it and whenever: either the flag is set, and it is erased, *)
(* or there is none.                                                       *)
THEOREM CrawledOnce == Spec => NoDoubleCrawl
<1>1. Init => TypeInv /\ FlagTells
  BY InitTyped DEF Init, FlagTells
<1>2. TypeInv /\ FlagTells /\ [Next]_vars => TypeInv' /\ FlagTells'
  BY NextKeepsTypes, NextKeepsFlagTells
<1>3. TypeInv /\ FlagTells /\ [Next]_vars =>
        [pc = "eraseFolder" /\ pc' # pc => workingPath \notin Range(m_foldersToUpdate')]_vars
  <2> SUFFICES ASSUME TypeInv, FlagTells, Next, pc = "eraseFolder", pc' # pc
               PROVE  workingPath \notin Range(m_foldersToUpdate')
    OBVIOUS
  <2>1. EraseFolder
    BY DEF Next, Worker, WorkerWakes, LoopTop, CheckBlockOver, ResetBlockedPath,
       RemoveTimedoutBlocks, AnythingLeft, PopPath, CheckPath, RefreshDirectory, RefreshPath,
       ErasePath, PopFolder, CheckFolder, RefreshFolder, Fetch, Step, Watcher, Client,
       AddDirectoryForUpdate, AddPathForUpdate, Notify, SetWakeEvent, FetchEnds, Timers, Stop,
       BlockEnds, HoldoffEnds, EndInhibit, StopSignal, StopClose, Environment, Change, Touch,
       RequestCrawl, FetchBegins, CrawlCommand, ReleaseCommand, BlockCommand, UnblockCommand,
       Inhibit, StopRun
  <2>2. CASE m_bItemsAddedSinceLastCrawl
    <3>1. Folders!Erase(workingPath)
      BY <2>1, <2>2 DEF EraseFolder
    <3>2. Range(m_foldersToUpdate') = Range(m_foldersToUpdate) \ {workingPath}
      BY <3>1, FolderCalls DEF TypeInv, TypeParts, QueuesOK
    <3> QED
      BY <3>2
  <2>3. CASE ~m_bItemsAddedSinceLastCrawl
    BY <2>1, <2>3 DEF EraseFolder, FlagTells
  <2> QED
    BY <2>2, <2>3
<1> QED
  BY <1>1, <1>2, <1>3, PTL DEF Spec, NoDoubleCrawl

=============================================================================
