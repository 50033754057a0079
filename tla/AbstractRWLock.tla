---------------------------- MODULE AbstractRWLock ----------------------------
(***************************************************************************)
(* What CReaderWriterLock promises its clients, as its header says it      *)
(* (src/src/Utils/ReaderWriterLock.h:27-41, 87-90): many readers or one    *)
(* writer; no new reader while a writer is inside or queued; an upgrade    *)
(* gives the read access up and goes through the writers' queue; a writer  *)
(* with read units is downgraded to a reader in one step.                  *)
(***************************************************************************)
CONSTANT Threads

VARIABLES
  readers,   \* the threads with read access
  writers,   \* the thread with write access
  queued     \* the threads that wait for write access

vars == <<readers, writers, queued>>

Init == readers = {} /\ writers = {} /\ queued = {}

(* Read access: only when no writer is inside or waits.                    *)
JoinReaders(t) ==
  /\ writers = {} /\ queued = {}
  /\ readers' = readers \cup {t}
  /\ UNCHANGED <<writers, queued>>

LeaveReaders(t) ==
  /\ t \in readers
  /\ readers' = readers \ {t}
  /\ UNCHANGED <<writers, queued>>

(* Write access: only for a thread that is alone.                          *)
BecomeWriter(t) ==
  /\ writers = {} /\ readers \subseteq {t}
  /\ readers' = {}
  /\ writers' = {t}
  /\ queued' = queued \ {t}

(* Wait for write access; a reader gives its access up.                    *)
Enqueue(t) ==
  /\ t \notin queued \cup writers
  /\ queued' = queued \cup {t}
  /\ readers' = readers \ {t}
  /\ UNCHANGED writers

(* The wait for write access ends without it.                              *)
GiveUp(t) ==
  /\ t \in queued
  /\ queued' = queued \ {t}
  /\ UNCHANGED <<readers, writers>>

(* The failed upgrade of the last queued writer becomes a reader again.    *)
FallBackToReader(t) ==
  /\ queued = {t} /\ writers = {}
  /\ queued' = {}
  /\ readers' = readers \cup {t}
  /\ UNCHANGED writers

Downgrade(t) ==
  /\ t \in writers
  /\ writers' = writers \ {t}
  /\ readers' = readers \cup {t}
  /\ UNCHANGED queued

ReleaseWriter(t) ==
  /\ t \in writers
  /\ writers' = writers \ {t}
  /\ UNCHANGED <<readers, queued>>

Next ==
  \E t \in Threads :
    \/ JoinReaders(t) \/ LeaveReaders(t) \/ BecomeWriter(t) \/ Enqueue(t)
    \/ GiveUp(t) \/ FallBackToReader(t) \/ Downgrade(t) \/ ReleaseWriter(t)

Spec == Init /\ [][Next]_vars

=============================================================================
