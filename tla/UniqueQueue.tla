----------------------------- MODULE UniqueQueue -----------------------------
(***************************************************************************)
(* UniqueQueue<T> (src/src/Utils/UniqueQueue.h): the queue of the folder   *)
(* crawler.  m_Queue holds values with a priority, m_QueueTMap maps a      *)
(* value to its priority, and an entry of m_Queue is found again by        *)
(* priority, not by value.  The priority is a size_t that wraps around,    *)
(* and only the push of a new value looks whether it did.                  *)
(*                                                                         *)
(* Values are integers that stand for their rank in T's operator<, the     *)
(* order in which std::map enumerates its keys.                            *)
(***************************************************************************)
EXTENDS Integers, SequencesExt, Ordered

CONSTANTS
  Values,        \* what is queued
  SizeModulus,   \* number of values of a size_t (code: 2^32 or 2^64)
  MaxLength      \* bound on the length, which only a broken queue reaches

ASSUME ValuesRanked == Values \subseteq Int /\ IsFiniteSet(Values)
ASSUME Bounds ==
  /\ SizeModulus \in Nat /\ Cardinality(Values) < SizeModulus
  /\ MaxLength \in Nat /\ Cardinality(Values) < MaxLength

VARIABLES
  m_QueueTMap,     \* value |-> priority
  m_Queue,         \* sequence of [value, priority]
  m_highestValue,  \* the next priority
  overflow         \* history: "no"; "wrapped", a queued value was pushed with
                   \* the last priority; or "shared", two entries got the same

queueVars == <<m_QueueTMap, m_Queue, m_highestValue, overflow>>

QueueInit ==
  /\ m_QueueTMap = << >>
  /\ m_Queue = << >>
  /\ m_highestValue = 0
  /\ overflow = "no"

Queued(v) == v \in DOMAIN m_QueueTMap

UniqueQueueStruct(v, p) == [value |-> v, priority |-> p]

(* Fault: the counter is taken for unbounded.                              *)
Increment_Unbounded(n) == n + 1

(* ++ on a size_t *)
Increment(n) == (n + 1) % SizeModulus

(* Fault: an entry is looked for behind its place.                         *)
EraseByPriority_OffByOne(queue, p) ==
  RemoveFirstMatch(queue, LAMBDA s : s.priority = p + 1)

(* The loop that erases the first entry with the priority.                 *)
EraseByPriority(queue, p) ==
  RemoveFirstMatch(queue, LAMBDA s : s.priority = p)

(* Overflow: everything anew, in the order of the map.                     *)
RebuiltQueue(values) ==
  [i \in 1..Cardinality(values) |-> UniqueQueueStruct(InOrder(values)[i], i - 1)]

(* The map with a value more.                                              *)
Inserted(v, p) ==
  [w \in DOMAIN m_QueueTMap \cup {v} |-> IF w = v THEN p ELSE m_QueueTMap[w]]

MapOf(queue) ==
  [v \in {queue[i].value : i \in DOMAIN queue} |->
     queue[CHOOSE i \in DOMAIN queue : queue[i].value = v].priority]

(* The next priority is one that an entry of this queue has.               *)
Taken(queue) == \E i \in DOMAIN queue : queue[i].priority = m_highestValue

(* Without values nothing is left of an overflow.                          *)
Removes ==
  overflow' = IF m_Queue' = << >> /\ DOMAIN m_QueueTMap' = {} THEN "no" ELSE overflow

(* A push behind the entries of "queue" that does not look for a wrap.     *)
PushesAgain(queue) ==
  overflow' = IF overflow = "shared" \/ Taken(queue) THEN "shared"
              ELSE IF Increment(m_highestValue) = 0 THEN "wrapped" ELSE overflow

-----------------------------------------------------------------------------
(* Fault: the map keeps the old priority of a value that moved.            *)
PushAgain_StaleMap(v) ==
  /\ Queued(v)
  /\ Len(m_Queue) < MaxLength
  /\ m_Queue' = Append(EraseByPriority(m_Queue, m_QueueTMap[v]),
                       UniqueQueueStruct(v, m_highestValue))
  /\ m_highestValue' = Increment(m_highestValue)
  /\ UNCHANGED m_QueueTMap
  /\ PushesAgain(EraseByPriority(m_Queue, m_QueueTMap[v]))

(* Fault: a value that is queued already moves to the front.               *)
PushAgain_ToFront(v) ==
  /\ Queued(v)
  /\ Len(m_Queue) < MaxLength
  /\ m_Queue' = <<UniqueQueueStruct(v, m_highestValue)>>
                  \o EraseByPriority(m_Queue, m_QueueTMap[v])
  /\ m_QueueTMap' = [m_QueueTMap EXCEPT ![v] = m_highestValue]
  /\ m_highestValue' = Increment(m_highestValue)
  /\ PushesAgain(EraseByPriority(m_Queue, m_QueueTMap[v]))

(* Push of a value that is in the queue: it moves to the end.              *)
PushAgain(v) ==
  /\ Queued(v)
  /\ Len(m_Queue) < MaxLength
  /\ m_Queue' = Append(EraseByPriority(m_Queue, m_QueueTMap[v]),
                       UniqueQueueStruct(v, m_highestValue))
  /\ m_QueueTMap' = [m_QueueTMap EXCEPT ![v] = m_highestValue]
  /\ m_highestValue' = Increment(m_highestValue)
  /\ PushesAgain(EraseByPriority(m_Queue, m_QueueTMap[v]))

(* Fault: the overflow is not handled.                                     *)
PushNew_NoRebuild(v) ==
  /\ ~Queued(v)
  /\ Len(m_Queue) < MaxLength
  /\ m_Queue' = Append(m_Queue, UniqueQueueStruct(v, m_highestValue))
  /\ m_QueueTMap' = Inserted(v, m_highestValue)
  /\ m_highestValue' = Increment(m_highestValue)
  /\ overflow' = IF Taken(m_Queue) THEN "shared" ELSE overflow

(* Push of a new value.                                                    *)
PushNew(v) ==
  /\ ~Queued(v)
  /\ Len(m_Queue) < MaxLength
  /\ IF Increment(m_highestValue) = 0
     THEN LET values == DOMAIN m_QueueTMap \cup {v} IN
          /\ m_Queue' = RebuiltQueue(values)
          /\ m_QueueTMap' = MapOf(RebuiltQueue(values))
          /\ m_highestValue' = Cardinality(values) % SizeModulus
          /\ overflow' = "no"
     ELSE /\ m_Queue' = Append(m_Queue, UniqueQueueStruct(v, m_highestValue))
          /\ m_QueueTMap' = Inserted(v, m_highestValue)
          /\ m_highestValue' = Increment(m_highestValue)
          /\ overflow' = IF Taken(m_Queue) THEN "shared" ELSE overflow

(* An empty queue returns T(): nothing changes.                            *)
PopEmpty == m_Queue = << >> /\ UNCHANGED queueVars

Pop ==
  /\ m_Queue # << >>
  /\ LET front == Head(m_Queue).value IN
     /\ m_Queue' = Tail(m_Queue)
     /\ m_QueueTMap' = Restrict(m_QueueTMap, DOMAIN m_QueueTMap \ {front})
     /\ m_highestValue' = IF Len(m_Queue) = 1 THEN 0 ELSE m_highestValue
     /\ Removes

erase(v) ==
  /\ Queued(v)
  /\ m_Queue' = EraseByPriority(m_Queue, m_QueueTMap[v])
  /\ m_QueueTMap' = Restrict(m_QueueTMap, DOMAIN m_QueueTMap \ {v})
  /\ Removes
  /\ UNCHANGED m_highestValue

QueueNext == PopEmpty \/ Pop \/ \E v \in Values : PushNew(v) \/ PushAgain(v) \/ erase(v)

QueueSpec == QueueInit /\ [][QueueNext]_queueVars

-----------------------------------------------------------------------------
QueueContents == [i \in DOMAIN m_Queue |-> m_Queue[i].value]

(* Priorities are size_t's, map and deque hold values.                     *)
QueueTypeOK ==
  /\ DOMAIN m_QueueTMap \subseteq Values
  /\ \A v \in DOMAIN m_QueueTMap : m_QueueTMap[v] \in 0..SizeModulus - 1
  /\ m_Queue \in Seq([value : Values, priority : 0..SizeModulus - 1])
  /\ m_highestValue \in 0..SizeModulus - 1
  /\ overflow \in {"no", "wrapped", "shared"}

(* "a queue like container which avoids storing duplicates"                *)
(* (UniqueQueue.h:23).                                                     *)
NoDuplicates == IsInjective(QueueContents)

(* Map and deque hold the same values with the same priorities, each of    *)
(* which is that of one entry: the search by priority finds the entry of   *)
(* the value.                                                              *)
MapMatchesQueue ==
  /\ DOMAIN m_QueueTMap = ToSet(QueueContents)
  /\ \A i \in DOMAIN m_Queue : m_QueueTMap[m_Queue[i].value] = m_Queue[i].priority
  /\ \A i, j \in DOMAIN m_Queue : i # j => m_Queue[i].priority # m_Queue[j].priority

(* The deque is sorted by priority and a new entry comes last, also after  *)
(* the queue was rebuilt.                                                  *)
PrioritiesIncrease ==
  /\ \A i, j \in DOMAIN m_Queue : i < j => m_Queue[i].priority < m_Queue[j].priority
  /\ \A i \in DOMAIN m_Queue : m_Queue[i].priority < m_highestValue

(* The representation of the queue, which every operation relies on and    *)
(* which only the three operations together keep: the entries are sorted   *)
(* until the push of a queued value takes the last priority (which         *)
(* UniqueQueue.h:92 does not look for), and each value has its one entry   *)
(* until a later push takes a priority that is still there.                *)
RepInv ==
  /\ QueueTypeOK
  /\ overflow = "no" => PrioritiesIncrease
  /\ overflow # "shared" => NoDuplicates /\ MapMatchesQueue

Fifo == INSTANCE UniqueFifo WITH queue <- QueueContents

(* Rebuilding sorts the values.                                            *)
Rebuilt == \E v \in Values : QueueContents' = InOrder(ToSet(QueueContents) \cup {v})

(* The container is the queue its comment describes (UniqueQueue.h:21-39), *)
(* but for the order after the step in which the priorities start anew,    *)
(* and until two entries share a priority.                                 *)
ImplementsFifo ==
  /\ Fifo!Init
  /\ [][\/ overflow = "shared" \/ Fifo!Next
        \/ m_highestValue = SizeModulus - 1 /\ Rebuilt]_QueueContents

=============================================================================
