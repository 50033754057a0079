----------------------------- MODULE ShellUpdater -----------------------------
(***************************************************************************)
(* CShellUpdater (src/src/TSVNCache/ShellUpdater.cpp): the thread that     *)
(* tells the explorer about changed statuses.  The threads of the cache    *)
(* queue paths; the worker merges neighbours that are equal and sends a    *)
(* notification for each of the rest.                                      *)
(***************************************************************************)
EXTENDS Integers, SequencesExt, Ordered

CONSTANTS
  Reporters,    \* the threads of the cache that call UpdateShell
  Files,      \* paths of files
  Folders,    \* paths of folders
  NoPath,     \* the empty path
  MaxAdds     \* bound on the calls of AddPathForUpdate

ASSUME PathsDiffer ==
  Files \cap Folders = {} /\ NoPath \notin Files \cup Folders /\ MaxAdds \in Nat

Paths == Files \cup Folders \cup {NoPath}

VARIABLES
  m_pathsToUpdate,
  m_bItemsAddedSinceLastUpdate,
  wakeEvent, terminationEvent, handlesOpen,
  m_bRunning,
  pc, workingPath,   \* the worker
  adding,            \* the threads between the unlock and SetEvent
  owed,              \* paths queued since the explorer last heard of them
  adds               \* calls of AddPathForUpdate, for MaxAdds

signals == <<wakeEvent, terminationEvent, handlesOpen, m_bRunning>>
shellVars == <<m_pathsToUpdate, m_bItemsAddedSinceLastUpdate, signals, pc, workingPath,
          adding, owed, adds>>

(* The constructor and Initialise.                                         *)
ShellInit ==
  /\ m_pathsToUpdate = << >> /\ m_bItemsAddedSinceLastUpdate = FALSE
  /\ wakeEvent = FALSE /\ terminationEvent = FALSE /\ handlesOpen = TRUE
  /\ m_bRunning = TRUE
  /\ pc = "wait" /\ workingPath = NoPath
  /\ adding = {} /\ owed = {} /\ adds = 0

-----------------------------------------------------------------------------
(* Fault: the path is queued twice.                                        *)
AddPathForUpdate_Twice(t, p) ==
  /\ t \notin adding /\ adds < MaxAdds
  /\ m_pathsToUpdate' = m_pathsToUpdate \o <<p, p>>
  /\ m_bItemsAddedSinceLastUpdate' = TRUE
  /\ adding' = adding \cup {t}
  /\ owed' = owed \cup ({p} \ {NoPath})
  /\ adds' = adds + 1
  /\ UNCHANGED <<signals, pc, workingPath>>

(* AddPathForUpdate: the part under the lock ...                           *)
AddPathForUpdate(t, p) ==
  /\ t \notin adding /\ adds < MaxAdds
  /\ m_pathsToUpdate' = Append(m_pathsToUpdate, p)
  /\ m_bItemsAddedSinceLastUpdate' = TRUE
  /\ adding' = adding \cup {t}
  /\ owed' = owed \cup ({p} \ {NoPath})
  /\ adds' = adds + 1
  /\ UNCHANGED <<signals, pc, workingPath>>

(* Fault: no signal when something was queued before.                      *)
SetWakeEvent_OnlyFirst(t) ==
  /\ t \in adding
  /\ adding' = adding \ {t}
  /\ wakeEvent' = (wakeEvent \/ (handlesOpen /\ Len(m_pathsToUpdate) = 1))
  /\ UNCHANGED <<m_pathsToUpdate, m_bItemsAddedSinceLastUpdate, terminationEvent,
                 handlesOpen, m_bRunning, pc, workingPath, owed, adds>>

(* ... and SetEvent behind it.                                             *)
SetWakeEvent(t) ==
  /\ t \in adding
  /\ adding' = adding \ {t}
  /\ wakeEvent' = (wakeEvent \/ handlesOpen)
  /\ UNCHANGED <<m_pathsToUpdate, m_bItemsAddedSinceLastUpdate, terminationEvent,
                 handlesOpen, m_bRunning, pc, workingPath, owed, adds>>

-----------------------------------------------------------------------------
(* The worker.  On closed handles the wait fails, which is not one of the  *)
(* results that end the thread.                                            *)
WorkerWakes ==
  /\ pc = "wait"
  /\ terminationEvent \/ wakeEvent \/ ~handlesOpen
  /\ pc' = IF terminationEvent THEN "done" ELSE "loop"
  /\ wakeEvent' = (wakeEvent /\ terminationEvent)
  /\ UNCHANGED <<m_pathsToUpdate, m_bItemsAddedSinceLastUpdate, terminationEvent,
                 handlesOpen, m_bRunning, workingPath, adding, owed, adds>>

(* Fault: the thread goes back to wait instead of ending.                  *)
CheckRunning_Waits ==
  /\ pc = "loop"
  /\ pc' = IF m_bRunning THEN "pop" ELSE "wait"
  /\ UNCHANGED <<m_pathsToUpdate, m_bItemsAddedSinceLastUpdate, signals, workingPath,
                 adding, owed, adds>>

CheckRunning ==
  /\ pc = "loop"
  /\ pc' = IF m_bRunning THEN "pop" ELSE "done"
  /\ UNCHANGED <<m_pathsToUpdate, m_bItemsAddedSinceLastUpdate, signals, workingPath,
                 adding, owed, adds>>

(* Fault: the last element is taken for the end.                           *)
Unique_OffByOne(queue) ==
  LET kept == {i \in DOMAIN queue : i = 1 \/ (queue[i] # queue[i - 1] /\ i < Len(queue))}
  IN  [k \in 1..Cardinality(kept) |-> queue[InOrder(kept)[k]]]

(* std::unique: the first of each run of equal neighbours.                 *)
Unique(queue) ==
  LET kept == {i \in DOMAIN queue : i = 1 \/ queue[i] # queue[i - 1]}
  IN  [k \in 1..Cardinality(kept) |-> queue[InOrder(kept)[k]]]

(* Fault: the flag is cleared, the queue left as it is.                    *)
TakePath_NotMerged ==
  /\ pc = "pop"
  /\ IF m_pathsToUpdate = << >>
     THEN pc' = "wait" /\ UNCHANGED <<m_pathsToUpdate, m_bItemsAddedSinceLastUpdate,
                                      workingPath>>
     ELSE /\ m_bItemsAddedSinceLastUpdate' = FALSE
          /\ workingPath' = Head(m_pathsToUpdate)
          /\ m_pathsToUpdate' = Tail(m_pathsToUpdate)
          /\ pc' = IF Head(m_pathsToUpdate) = NoPath THEN "loop" ELSE "notify"
  /\ UNCHANGED <<signals, adding, owed, adds>>

(* Under the lock: merge if something was added, then take the first.      *)
TakePath ==
  LET queue == IF m_bItemsAddedSinceLastUpdate THEN Unique(m_pathsToUpdate)
                                               ELSE m_pathsToUpdate
  IN
  /\ pc = "pop"
  /\ IF m_pathsToUpdate = << >>
     THEN pc' = "wait" /\ UNCHANGED <<m_pathsToUpdate, m_bItemsAddedSinceLastUpdate,
                                      workingPath>>
     ELSE /\ m_bItemsAddedSinceLastUpdate' = FALSE
          /\ workingPath' = Head(queue)
          /\ m_pathsToUpdate' = Tail(queue)
          /\ pc' = IF Head(queue) = NoPath THEN "loop" ELSE "notify"
  /\ UNCHANGED <<signals, adding, owed, adds>>

(* SHChangeNotify, for a folder after one for its admin directory.  Who    *)
(* queued the path again in the meantime is owed another one.              *)
Notify ==
  /\ pc = "notify"
  /\ pc' = "loop"
  /\ owed' = owed \ ({workingPath} \ Range(m_pathsToUpdate))
  /\ UNCHANGED <<m_pathsToUpdate, m_bItemsAddedSinceLastUpdate, signals, workingPath,
                 adding, adds>>

Worker == WorkerWakes \/ CheckRunning \/ TakePath \/ Notify

-----------------------------------------------------------------------------
(* Stop, in its steps; the wait for the thread times out after 200 ms.     *)
StopRunning ==
  /\ m_bRunning
  /\ m_bRunning' = FALSE
  /\ UNCHANGED <<m_pathsToUpdate, m_bItemsAddedSinceLastUpdate, wakeEvent,
                 terminationEvent, handlesOpen, pc, workingPath, adding, owed, adds>>

StopSignal ==
  /\ ~m_bRunning /\ handlesOpen /\ ~terminationEvent
  /\ terminationEvent' = TRUE
  /\ UNCHANGED <<m_pathsToUpdate, m_bItemsAddedSinceLastUpdate, wakeEvent, handlesOpen,
                 m_bRunning, pc, workingPath, adding, owed, adds>>

StopClose ==
  /\ terminationEvent /\ handlesOpen
  /\ terminationEvent' = FALSE /\ wakeEvent' = FALSE /\ handlesOpen' = FALSE
  /\ UNCHANGED <<m_pathsToUpdate, m_bItemsAddedSinceLastUpdate, m_bRunning, pc,
                 workingPath, adding, owed, adds>>

ShellNext ==
  \/ Worker \/ StopRunning \/ StopSignal \/ StopClose
  \/ \E t \in Reporters : SetWakeEvent(t) \/ \E p \in Paths : AddPathForUpdate(t, p)

ShellSpec == ShellInit /\ [][ShellNext]_shellVars

(* The threads run on.                                                     *)
ShellFairSpec ==
  /\ ShellSpec
  /\ WF_shellVars(Worker) /\ WF_shellVars(StopSignal) /\ WF_shellVars(StopClose)
  /\ \A t \in Reporters : WF_shellVars(SetWakeEvent(t))

-----------------------------------------------------------------------------
(* Queued are paths, no more than were added.                              *)
ShellTypeOK ==
  /\ m_pathsToUpdate \in Seq(Paths) /\ Len(m_pathsToUpdate) <= adds
  /\ m_bItemsAddedSinceLastUpdate \in BOOLEAN
  /\ wakeEvent \in BOOLEAN /\ terminationEvent \in BOOLEAN
  /\ handlesOpen \in BOOLEAN /\ m_bRunning \in BOOLEAN
  /\ pc \in {"wait", "loop", "pop", "notify", "done"}
  /\ workingPath \in Paths
  /\ adding \subseteq Reporters /\ owed \subseteq Paths \ {NoPath}
  /\ adds \in 0..MaxAdds

(* Merging loses no path: what the explorer has not heard of since it was  *)
(* queued is still queued or is the one being announced.                   *)
NoPathLost ==
  owed \subseteq Range(m_pathsToUpdate) \cup (IF pc = "notify" THEN {workingPath} ELSE {})

(* The merge is skipped while the flag is clear: then there is nothing to  *)
(* merge, although every thread sets the flag and the worker clears it.    *)
MergedUnlessFlagged ==
  ~m_bItemsAddedSinceLastUpdate =>
    \A i \in 2..Len(m_pathsToUpdate) : m_pathsToUpdate[i] # m_pathsToUpdate[i - 1]

(* What the worker relies on when it takes a path, and the explorer when   *)
(* it is taken.                                                            *)
QueueInv == ShellTypeOK /\ MergedUnlessFlagged /\ NoPathLost

(* Every queued path is announced, unless the updater is stopped.          *)
Announced == \A p \in Files \cup Folders : p \in owed ~> (p \notin owed \/ ~m_bRunning)

(* After Stop the thread ends, also if it is late and the handles closed.  *)
Terminates == ~m_bRunning ~> pc = "done"

=============================================================================
