----------------------------- MODULE Ordered_proofs -----------------------------
(***************************************************************************)
(* What several proofs need.  Every finite set of numbers can be           *)
(* enumerated in order: the place of an element is the number of elements  *)
(* that are not greater.  Hence nodes that are greater than their parents  *)
(* have chains of parents.  A queue without duplicates stays one when a    *)
(* value is added, taken or removed.                                       *)
(***************************************************************************)
EXTENDS Ordered, SequencesExt, SequenceTheorems, FiniteSetTheorems, TLAPS

(* An increasing sequence of as many elements as S has leaves none out.    *)
LEMMA IncreasingIsOnto ==
  ASSUME NEW S \in SUBSET Int, IsFiniteSet(S),
         NEW q \in [1..Cardinality(S) -> S], Increasing(q)
  PROVE  \A v \in S : \E i \in 1..Cardinality(S) : q[i] = v
<1>n. Cardinality(S) \in Nat
  BY FS_CardinalityType
<1>1. q \in Injection(1..Cardinality(S), S)
  <2>1. \A i, j \in 1..Cardinality(S) : q[i] = q[j] => i = j
    <3> SUFFICES ASSUME NEW i \in 1..Cardinality(S), NEW j \in 1..Cardinality(S), i < j
                 PROVE  q[i] # q[j]
      BY <1>n
    <3>1. DOMAIN q = 1..Cardinality(S) /\ q[i] \in Int /\ q[j] \in Int
      OBVIOUS
    <3>2. q[i] < q[j]
      BY <3>1 DEF Increasing
    <3> QED
      BY <3>1, <3>2
  <2> QED
    BY <2>1 DEF Injection, IsInjective
<1>2. Cardinality(1..Cardinality(S)) = Cardinality(S)
  BY <1>n, FS_Interval
<1>3. q \in Surjection(1..Cardinality(S), S)
  BY <1>1, <1>2, FS_Injection
<1> QED
  BY <1>3 DEF Surjection

LEMMA IncreasingExists ==
  ASSUME NEW S \in SUBSET Int, IsFiniteSet(S)
  PROVE  \E q \in [1..Cardinality(S) -> S] : Increasing(q)
<1> DEFINE n == Cardinality(S)
           UpTo(v) == {w \in S : w <= v}
           place == [v \in S |-> Cardinality(UpTo(v))]
<1>n. n \in Nat
  BY FS_CardinalityType
<1>1. \A v \in S : place[v] \in 1..n
  <2> TAKE v \in S
  <2>1. UpTo(v) \in SUBSET S /\ v \in UpTo(v)
    OBVIOUS
  <2>2. IsFiniteSet(UpTo(v)) /\ Cardinality(UpTo(v)) <= n
    BY <2>1, FS_Subset
  <2>3. Cardinality(UpTo(v)) \in Nat /\ Cardinality(UpTo(v)) # 0
    BY <2>1, <2>2, FS_CardinalityType, FS_EmptySet
  <2> QED
    BY <1>n, <2>2, <2>3
<1>2. \A u, v \in S : u < v => place[u] < place[v]
  <2> SUFFICES ASSUME NEW u \in S, NEW v \in S, u < v PROVE place[u] < place[v]
    OBVIOUS
  <2>1. UpTo(u) \in SUBSET UpTo(v) /\ UpTo(u) # UpTo(v)
    <3>1. u \in Int /\ v \in Int /\ \A w \in S : w \in Int
      OBVIOUS
    <3>2. v \in UpTo(v) /\ v \notin UpTo(u)
      BY <3>1
    <3>3. \A w \in S : w <= u => w <= v
      BY <3>1
    <3> QED
      BY <3>2, <3>3
  <2>2. IsFiniteSet(UpTo(v))
    BY FS_Subset, UpTo(v) \in SUBSET S
  <2>3. Cardinality(UpTo(u)) <= Cardinality(UpTo(v)) /\ Cardinality(UpTo(v)) # Cardinality(UpTo(u))
    BY <2>1, <2>2, FS_Subset
  <2>4. place[u] <= place[v] /\ place[u] # place[v]
    BY <2>3
  <2> HIDE DEF place
  <2> QED
    BY <1>n, <1>1, <2>4
<1> HIDE DEF place
<1>3. place \in Surjection(S, 1..n)
  <2>1. place \in Injection(S, 1..n)
    <3>1. place \in [S -> 1..n]
      BY <1>1 DEF place
    <3>2. \A u, v \in S : place[u] = place[v] => u = v
      BY <1>n, <1>1, <1>2
    <3> QED
      BY <3>1, <3>2 DEF Injection, IsInjective
  <2>2. IsFiniteSet(1..n) /\ Cardinality(1..n) = Cardinality(S)
    BY <1>n, FS_Interval
  <2> QED
    BY <2>1, <2>2, FS_Injection
<1> DEFINE q == [i \in 1..n |-> CHOOSE v \in S : place[v] = i]
<1>4. \A i \in 1..n : q[i] \in S /\ place[q[i]] = i
  BY <1>3 DEF Surjection
<1> HIDE DEF q
<1>5. q \in [1..n -> S]
  BY <1>4 DEF q
<1>6. Increasing(q)
  <2> SUFFICES ASSUME NEW i \in 1..n, NEW j \in 1..n, i < j PROVE q[i] < q[j]
    BY <1>5 DEF Increasing
  <2>0. i \in Int /\ j \in Int /\ q[i] \in S /\ q[j] \in S
    BY <1>4, <1>n
  <2>1. i \in Int /\ j \in Int /\ q[i] \in Int /\ q[j] \in Int
    BY <2>0
  <2>2. q[i] # q[j]
    BY <1>4, <2>1
  <2>3. ~(q[j] < q[i])
    <3>1. q[j] < q[i] => place[q[j]] < place[q[i]]
      BY <1>2, <1>4
    <3> QED
      BY <1>4, <2>1, <3>1
  <2> QED
    BY <2>1, <2>2, <2>3
<1> QED
  BY <1>5, <1>6

(* InOrder enumerates S: all of it, in order, and so each element once.    *)
THEOREM Enumerates ==
  ASSUME NEW S \in SUBSET Int, IsFiniteSet(S)
  PROVE  /\ Cardinality(S) \in Nat
         /\ InOrder(S) \in [1..Cardinality(S) -> S]
         /\ Increasing(InOrder(S))
         /\ \A v \in S : \E i \in 1..Cardinality(S) : InOrder(S)[i] = v
<1>1. InOrder(S) \in [1..Cardinality(S) -> S] /\ Increasing(InOrder(S))
  BY IncreasingExists DEF InOrder
<1> QED
  BY <1>1, IncreasingIsOnto, FS_CardinalityType

(* So a finite set that is not empty has a least element.                  *)
THEOREM Least ==
  ASSUME NEW S \in SUBSET Int, IsFiniteSet(S), S # {}
  PROVE  \E m \in S : \A v \in S : m <= v
<1> DEFINE n == Cardinality(S)
           o == InOrder(S)
<1>1. /\ n \in Nat /\ n # 0 /\ o \in [1..n -> S] /\ Increasing(o)
      /\ \A v \in S : \E i \in 1..n : o[i] = v
  BY Enumerates, FS_EmptySet
<1> HIDE DEF n, o
<1>2. o[1] \in S
  BY <1>1
<1>3. ASSUME NEW v \in S PROVE o[1] <= v
  <2>1. PICK i \in 1..n : o[i] = v
    BY <1>1
  <2>2. o[1] \in Int /\ v \in Int
    BY <1>2
  <2>3. i = 1 \/ o[1] < o[i]
    BY <1>1 DEF Increasing
  <2> QED
    BY <2>1, <2>2, <2>3
<1> QED
  BY <1>2, <1>3

(* And a greatest.                                                         *)
THEOREM Greatest ==
  ASSUME NEW S \in SUBSET Int, IsFiniteSet(S), S # {}
  PROVE  \E m \in S : \A v \in S : v <= m
<1> DEFINE n == Cardinality(S)
           o == InOrder(S)
<1>1. /\ n \in Nat /\ o \in [1..n -> S] /\ Increasing(o)
      /\ \A v \in S : \E i \in 1..n : o[i] = v
  BY Enumerates
<1> HIDE DEF n, o
<1>2. n \in 1..n
  <2>1. PICK v \in S : TRUE
    OBVIOUS
  <2>2. PICK i \in 1..n : o[i] = v
    BY <1>1
  <2> QED
    BY <1>1, <2>2
<1>3. ASSUME NEW v \in S PROVE v <= o[n]
  <2>1. PICK i \in 1..n : o[i] = v
    BY <1>1
  <2>2. i = n \/ o[i] < o[n]
    BY <1>1, <1>2 DEF Increasing
  <2>3. o[n] \in Int /\ v \in Int
    BY <1>1, <1>2
  <2> QED
    BY <2>1, <2>2, <2>3
<1> QED
  BY <1>1, <1>2, <1>3

-----------------------------------------------------------------------------
(* Queues without duplicates *)

(* A sequence without what stands at place k.                              *)
LEMMA RemoveAtEffect ==
  ASSUME NEW E, NEW s \in Seq(E), NEW k \in 1..Len(s)
  PROVE  /\ RemoveAt(s, k) \in Seq(E)
         /\ Len(RemoveAt(s, k)) = Len(s) - 1
         /\ \A i \in 1..Len(s) - 1 :
              RemoveAt(s, k)[i] = IF i < k THEN s[i] ELSE s[i + 1]
<1> DEFINE front == SubSeq(s, 1, k - 1)
           rest == SubSeq(s, k + 1, Len(s))
<1>1. front \in Seq(E) /\ Len(front) = k - 1 /\ \A i \in 1..k - 1 : front[i] = s[i]
  OBVIOUS
<1>2. rest \in Seq(E) /\ Len(rest) = Len(s) - k /\ \A i \in 1..Len(s) - k : rest[i] = s[k + i]
  OBVIOUS
<1>3. RemoveAt(s, k) = front \o rest
  BY DEF RemoveAt
<1> HIDE DEF front, rest
<1>4. front \o rest \in Seq(E) /\ Len(front \o rest) = Len(s) - 1
  BY <1>1, <1>2
<1>5. \A i \in 1..Len(s) - 1 :
        (front \o rest)[i] = IF i < k THEN front[i] ELSE rest[i - (k - 1)]
  BY <1>1, <1>2
<1>6. \A i \in 1..Len(s) - 1 : i < k => front[i] = s[i]
  BY <1>1
<1>7. \A i \in 1..Len(s) - 1 : ~(i < k) => rest[i - (k - 1)] = s[i + 1]
  <2> TAKE i \in 1..Len(s) - 1
  <2> HAVE ~(i < k)
  <2>1. i - (k - 1) \in 1..Len(s) - k /\ k + (i - (k - 1)) = i + 1
    OBVIOUS
  <2> QED
    BY <1>2, <2>1
<1> QED
  BY <1>3, <1>4, <1>5, <1>6, <1>7

(* What stands at one place only is removed from there.                    *)
LEMMA RemoveFirstEffect ==
  ASSUME NEW E, NEW s \in Seq(E), NEW k \in 1..Len(s),
         \A i \in 1..Len(s) : s[i] = s[k] => i = k
  PROVE  RemoveFirst(s, s[k]) = RemoveAt(s, k)
<1>1. {i \in 1..Len(s) : s[i] = s[k]} = {k}
  OBVIOUS
<1>2. SelectInSeq(s, LAMBDA v : v = s[k]) = k
  BY <1>1 DEF SelectInSeq, Min
<1> QED
  BY <1>2 DEF RemoveFirst

LEMMA AppendEffect ==
  ASSUME NEW E, NEW queue \in Seq(E), NEW p \in E
  PROVE  /\ Append(queue, p) \in Seq(E) /\ Len(Append(queue, p)) = Len(queue) + 1
         /\ Range(Append(queue, p)) = Range(queue) \cup {p}
         /\ IsInjective(queue) /\ p \notin Range(queue) => IsInjective(Append(queue, p))
<1> DEFINE longer == Append(queue, p)
           n == Len(queue)
<1>1. /\ n \in Nat /\ DOMAIN longer = 1..n + 1 /\ DOMAIN queue = 1..n
      /\ longer \in Seq(E) /\ Len(longer) = n + 1
      /\ \A i \in 1..n : longer[i] = queue[i]
      /\ longer[n + 1] = p
  OBVIOUS
<1> HIDE DEF longer, n
<1>2. \A i \in 1..n + 1 : i \in 1..n \/ i = n + 1
  BY <1>1
<1>3. \A x : x \in Range(longer) <=> \E i \in 1..n + 1 : longer[i] = x
  BY <1>1 DEF Range
<1>4. \A x : x \in Range(queue) <=> \E i \in 1..n : queue[i] = x
  BY <1>1 DEF Range
<1>5. Range(longer) = Range(queue) \cup {p}
  <2>1. ASSUME NEW x \in Range(longer) PROVE x \in Range(queue) \cup {p}
    BY <1>1, <1>2, <1>3, <1>4
  <2>2. ASSUME NEW x \in Range(queue) \cup {p} PROVE x \in Range(longer)
    <3>1. CASE x = p
      BY <1>1, <1>3, <3>1
    <3>2. CASE x \in Range(queue)
      <4>1. PICK i \in 1..n : queue[i] = x
        BY <1>4, <3>2
      <4>2. i \in 1..n + 1 /\ longer[i] = x
        BY <1>1, <4>1
      <4> QED
        BY <1>3, <4>2
    <3> QED
      BY <3>1, <3>2
  <2> QED
    BY <2>1, <2>2
<1>6. ASSUME IsInjective(queue), p \notin Range(queue) PROVE IsInjective(longer)
  <2> SUFFICES ASSUME NEW i \in 1..n + 1, NEW j \in 1..n + 1, longer[i] = longer[j]
               PROVE  i = j
    BY <1>1 DEF IsInjective
  <2>1. \A k \in 1..n : queue[k] # p
    BY <1>4, <1>6
  <2>2. \A k, m \in 1..n : queue[k] = queue[m] => k = m
    BY <1>1, <1>6 DEF IsInjective
  <2> QED
    BY <1>1, <1>2, <2>1, <2>2
<1> QED
  BY <1>1, <1>5, <1>6 DEF longer, n

LEMMA TailEffect ==
  ASSUME NEW E, NEW queue \in Seq(E), queue # << >>
  PROVE  /\ Head(queue) \in E /\ Tail(queue) \in Seq(E)
         /\ Len(Tail(queue)) = Len(queue) - 1
         /\ Range(queue) = {Head(queue)} \cup Range(Tail(queue))
         /\ IsInjective(queue) => IsInjective(Tail(queue)) /\ Head(queue) \notin Range(Tail(queue))
<1> DEFINE tail == Tail(queue)
           n == Len(queue) - 1
<1>1. /\ n \in Nat /\ Len(queue) = n + 1 /\ DOMAIN queue = 1..n + 1
      /\ Head(queue) = queue[1] /\ Head(queue) \in E /\ tail \in Seq(E)
      /\ Len(tail) = n /\ DOMAIN tail = 1..n
      /\ \A i \in 1..n : tail[i] = queue[i + 1]
  OBVIOUS
<1> HIDE DEF tail, n
<1>2. \A x : x \in Range(tail) <=> \E i \in 1..n : queue[i + 1] = x
  BY <1>1 DEF Range
<1>3. \A x : x \in Range(queue) <=> \E i \in 1..n + 1 : queue[i] = x
  BY <1>1 DEF Range
<1>4. Range(queue) = {Head(queue)} \cup Range(tail)
  <2>1. ASSUME NEW x \in Range(queue) PROVE x \in {Head(queue)} \cup Range(tail)
    <3>1. PICK i \in 1..n + 1 : queue[i] = x
      BY <1>3
    <3>2. i = 1 \/ (i - 1 \in 1..n /\ (i - 1) + 1 = i)
      BY <1>1
    <3> QED
      BY <1>1, <1>2, <3>1, <3>2
  <2>2. ASSUME NEW x \in {Head(queue)} \cup Range(tail) PROVE x \in Range(queue)
    <3>1. CASE x = Head(queue)
      BY <1>1, <1>3, <3>1
    <3>2. CASE x \in Range(tail)
      <4>1. PICK i \in 1..n : queue[i + 1] = x
        BY <1>2, <3>2
      <4>2. i + 1 \in 1..n + 1
        BY <1>1
      <4> QED
        BY <1>3, <4>1, <4>2
    <3> QED
      BY <3>1, <3>2
  <2> QED
    BY <2>1, <2>2
<1>5. ASSUME IsInjective(queue) PROVE IsInjective(tail) /\ Head(queue) \notin Range(tail)
  <2>1. \A i, j \in 1..n + 1 : queue[i] = queue[j] => i = j
    BY <1>1, <1>5 DEF IsInjective
  <2>2. \A i \in 1..n : i + 1 \in 1..n + 1 /\ i + 1 # 1
    BY <1>1
  <2>3. ASSUME NEW i \in 1..n, NEW j \in 1..n, tail[i] = tail[j] PROVE i = j
    <3>1. i + 1 = j + 1
      BY <1>1, <2>1, <2>2, <2>3
    <3> QED
      BY <3>1
  <2>4. Head(queue) \notin Range(tail)
    BY <1>1, <1>2, <2>1, <2>2
  <2> QED
    BY <1>1, <2>3, <2>4 DEF IsInjective
<1> QED
  BY <1>1, <1>4, <1>5 DEF tail, n

(* erase(T) on a queue without duplicates.                                 *)
THEOREM EraseFromQueue ==
  ASSUME NEW E, NEW queue \in Seq(E), IsInjective(queue), NEW v
  PROVE  /\ RemoveFirst(queue, v) \in Seq(E) /\ IsInjective(RemoveFirst(queue, v))
         /\ Range(RemoveFirst(queue, v)) = Range(queue) \ {v}
<1> DEFINE n == Len(queue)
<1>1. n \in Nat /\ DOMAIN queue = 1..n
  OBVIOUS
<1>2. \A x : x \in Range(queue) <=> \E i \in 1..n : queue[i] = x
  BY <1>1 DEF Range
<1>3. CASE v \notin Range(queue)
  <2>1. RemoveFirst(queue, v) = queue
    BY <1>2, <1>3 DEF RemoveFirst
  <2> QED
    BY <1>3, <2>1
<1>4. CASE v \in Range(queue)
  <2>1. PICK k \in 1..n : queue[k] = v
    BY <1>2, <1>4
  <2>2. \A i, j \in 1..n : queue[i] = queue[j] => i = j
    BY <1>1 DEF IsInjective
  <2> DEFINE short == RemoveAt(queue, k)
             At(i) == IF i < k THEN i ELSE i + 1
  <2>3. RemoveFirst(queue, v) = short
    BY <2>1, <2>2, RemoveFirstEffect
  <2>4. short \in Seq(E) /\ Len(short) = n - 1 /\ \A i \in 1..n - 1 : short[i] = queue[At(i)]
    BY <2>1, RemoveAtEffect
  <2>5. DOMAIN short = 1..n - 1
    BY <2>4
  <2> HIDE DEF short, n
  <2>6. \A i \in 1..n - 1 : At(i) \in 1..n /\ At(i) # k
    BY <1>1, <2>1
  <2>7. \A i, j \in 1..n - 1 : At(i) = At(j) => i = j
    BY <1>1, <2>1
  <2>8. \A j \in 1..n : j # k => \E i \in 1..n - 1 : At(i) = j
    <3> TAKE j \in 1..n
    <3> HAVE j # k
    <3>1. CASE j < k
      <4>1. j \in 1..n - 1 /\ At(j) = j
        BY <1>1, <2>1, <3>1
      <4> QED
        BY <4>1
    <3>2. CASE ~(j < k)
      <4>1. j - 1 \in 1..n - 1 /\ At(j - 1) = j
        BY <1>1, <2>1, <3>2
      <4> QED
        BY <4>1
    <3> QED
      BY <3>1, <3>2
  <2> HIDE DEF At
  <2>9. IsInjective(short)
    BY <2>2, <2>4, <2>5, <2>6, <2>7 DEF IsInjective
  <2>10. Range(short) = Range(queue) \ {v}
    <3>1. \A x : x \in Range(short) <=> \E i \in 1..n - 1 : queue[At(i)] = x
      BY <2>4, <2>5 DEF Range
    <3>2. ASSUME NEW x \in Range(short) PROVE x \in Range(queue) \ {v}
      BY <1>2, <2>1, <2>2, <2>6, <3>1
    <3>3. ASSUME NEW x \in Range(queue) \ {v} PROVE x \in Range(short)
      <4>1. PICK j \in 1..n : queue[j] = x
        BY <1>2
      <4>2. j # k
        BY <2>1, <3>3, <4>1
      <4> QED
        BY <2>8, <3>1, <4>1, <4>2
    <3> QED
      BY <3>2, <3>3
  <2> QED
    BY <2>3, <2>4, <2>9, <2>10
<1> QED
  BY <1>3, <1>4

(* Push(T): a value that is in the queue moves to its end.                 *)
THEOREM PushOnQueue ==
  ASSUME NEW E, NEW queue \in Seq(E), IsInjective(queue), NEW v \in E
  PROVE  /\ Append(RemoveFirst(queue, v), v) \in Seq(E)
         /\ IsInjective(Append(RemoveFirst(queue, v), v))
         /\ Range(Append(RemoveFirst(queue, v), v)) = Range(queue) \cup {v}
<1>1. /\ RemoveFirst(queue, v) \in Seq(E) /\ IsInjective(RemoveFirst(queue, v))
      /\ Range(RemoveFirst(queue, v)) = Range(queue) \ {v}
  BY EraseFromQueue
<1> QED
  BY <1>1, AppendEffect

(* An enumeration has no duplicates.                                       *)
LEMMA NoneTwice ==
  ASSUME NEW S \in SUBSET Int, IsFiniteSet(S)
  PROVE  /\ Cardinality(S) \in Nat /\ InOrder(S) \in [1..Cardinality(S) -> S]
         /\ IsInjective(InOrder(S)) /\ Range(InOrder(S)) = S
<1> DEFINE n == Cardinality(S)
           o == InOrder(S)
<1>1. /\ n \in Nat /\ o \in [1..n -> S] /\ Increasing(o)
      /\ \A v \in S : \E i \in 1..n : o[i] = v
  BY Enumerates
<1> HIDE DEF n, o
<1>2. ASSUME NEW i \in 1..n, NEW j \in 1..n, i < j PROVE o[i] # o[j]
  <2>1. o[i] \in Int /\ o[j] \in Int /\ o[i] < o[j]
    BY <1>1, <1>2 DEF Increasing
  <2> QED
    BY <2>1
<1>3. IsInjective(o)
  <2>1. \A i, j \in 1..n : i # j => i < j \/ j < i
    BY <1>1
  <2> QED
    BY <1>1, <1>2, <2>1 DEF IsInjective
<1> QED
  BY <1>1, <1>3 DEF Range, n, o

LEMMA ConcatEffect ==
  ASSUME NEW E, NEW a \in Seq(E), NEW b \in Seq(E), IsInjective(a), IsInjective(b),
         Range(a) \cap Range(b) = {}
  PROVE  a \o b \in Seq(E) /\ IsInjective(a \o b) /\ Range(a \o b) = Range(a) \cup Range(b)
<1> DEFINE m == Len(a)
           n == Len(b)
           c == a \o b
<1>1. /\ m \in Nat /\ n \in Nat /\ c \in Seq(E)
      /\ DOMAIN a = 1..m /\ DOMAIN b = 1..n /\ DOMAIN c = 1..m + n
      /\ \A i \in 1..m : c[i] = a[i]
      /\ \A i \in 1..m + n : i > m => c[i] = b[i - m]
  OBVIOUS
<1> HIDE DEF m, n, c
<1>2. /\ \A x : x \in Range(a) <=> \E i \in 1..m : a[i] = x
      /\ \A x : x \in Range(b) <=> \E i \in 1..n : b[i] = x
      /\ \A x : x \in Range(c) <=> \E i \in 1..m + n : c[i] = x
  BY <1>1 DEF Range
<1>3. \A i \in 1..m + n : i \in 1..m \/ (i > m /\ i - m \in 1..n)
  BY <1>1
<1>4. Range(c) = Range(a) \cup Range(b)
  <2>1. ASSUME NEW x \in Range(c) PROVE x \in Range(a) \cup Range(b)
    BY <1>1, <1>2, <1>3
  <2>2. ASSUME NEW x \in Range(a) PROVE x \in Range(c)
    <3>1. PICK i \in 1..m : a[i] = x
      BY <1>2
    <3>2. i \in 1..m + n /\ c[i] = x
      BY <1>1, <3>1
    <3> QED
      BY <1>2, <3>2
  <2>3. ASSUME NEW x \in Range(b) PROVE x \in Range(c)
    <3>1. PICK i \in 1..n : b[i] = x
      BY <1>2
    <3>2. i + m \in 1..m + n /\ i + m > m /\ (i + m) - m = i
      BY <1>1
    <3>3. c[i + m] = x
      BY <1>1, <3>1, <3>2
    <3> QED
      BY <1>2, <3>2, <3>3
  <2> QED
    BY <2>1, <2>2, <2>3
<1>5. ASSUME NEW i \in 1..m + n, NEW j \in 1..m + n, c[i] = c[j] PROVE i = j
  <2>1. i \in Int /\ j \in Int /\ m \in Int
    BY <1>1
  <2>2. CASE i \in 1..m /\ j \in 1..m
    BY <1>1, <1>5, <2>2 DEF IsInjective
  <2>3. CASE i > m /\ j > m
    <3>1. i - m \in 1..n /\ j - m \in 1..n
      BY <1>1, <2>3
    <3>2. c[i] = b[i - m] /\ c[j] = b[j - m]
      BY <1>1, <2>3
    <3>3. i - m = j - m
      BY <1>1, <1>5, <3>1, <3>2 DEF IsInjective
    <3> QED
      BY <2>1, <3>3
  <2>4. CASE (i \in 1..m /\ j > m) \/ (i > m /\ j \in 1..m)
    <3>1. c[i] \in Range(a) /\ c[i] \in Range(b)
      BY <1>1, <1>2, <1>3, <1>5, <2>1, <2>4
    <3> QED
      BY <3>1
  <2> QED
    BY <1>3, <2>2, <2>3, <2>4
<1> QED
  BY <1>1, <1>4, <1>5 DEF IsInjective, c

(* So is what a sequence without duplicates holds at some of its places.   *)
LEMMA SelectedEffect ==
  ASSUME NEW E, NEW s \in Seq(E), IsInjective(s), NEW places \in SUBSET DOMAIN s
  PROVE  /\ Selected(s, places) \in Seq(E) /\ IsInjective(Selected(s, places))
         /\ Range(Selected(s, places)) = {s[i] : i \in places}
<1> DEFINE n == Cardinality(places)
           o == InOrder(places)
           sub == Selected(s, places)
<1>1. Len(s) \in Nat /\ DOMAIN s = 1..Len(s)
  OBVIOUS
<1>2. places \in SUBSET Int /\ IsFiniteSet(places) /\ places \in SUBSET (1..Len(s))
  <2>1. places \in SUBSET (1..Len(s)) /\ IsFiniteSet(1..Len(s))
    BY <1>1, FS_Interval
  <2> QED
    BY <2>1, FS_Subset
<1>3. n \in Nat /\ o \in [1..n -> places] /\ IsInjective(o) /\ Range(o) = places
  BY <1>2, NoneTwice
<1>4. sub = [k \in 1..n |-> s[o[k]]]
  BY DEF Selected
<1>5. \A i \in places : i \in 1..Len(s) /\ s[i] \in E
  BY <1>1
<1> HIDE DEF n, o, sub
<1>6. sub \in Seq(E) /\ DOMAIN sub = 1..n
  BY <1>3, <1>4, <1>5
<1>7. IsInjective(sub)
  <2> SUFFICES ASSUME NEW i \in 1..n, NEW j \in 1..n, sub[i] = sub[j] PROVE i = j
    BY <1>6 DEF IsInjective
  <2>1. o[i] \in 1..Len(s) /\ o[j] \in 1..Len(s) /\ s[o[i]] = s[o[j]]
    BY <1>3, <1>4, <1>5
  <2>2. o[i] = o[j]
    BY <1>1, <2>1 DEF IsInjective
  <2> QED
    BY <1>3, <2>2 DEF IsInjective
<1>8. Range(sub) = {s[i] : i \in places}
  <2>1. ASSUME NEW x \in Range(sub) PROVE x \in {s[i] : i \in places}
    <3>1. PICK k \in 1..n : x = s[o[k]]
      BY <1>4, <1>6 DEF Range
    <3>2. o[k] \in places
      BY <1>3
    <3> QED
      BY <3>1, <3>2
  <2>2. ASSUME NEW i \in places PROVE s[i] \in Range(sub)
    <3>1. PICK k \in 1..n : o[k] = i
      BY <1>3 DEF Range
    <3> QED
      BY <1>4, <1>6, <3>1 DEF Range
  <2> QED
    BY <2>1, <2>2
<1> QED
  BY <1>6, <1>7, <1>8 DEF sub

LEMMA InOrderEffect ==
  ASSUME NEW E \in SUBSET Int, NEW S \in SUBSET E, IsFiniteSet(S)
  PROVE  InOrder(S) \in Seq(E) /\ IsInjective(InOrder(S)) /\ Range(InOrder(S)) = S
<1>1. /\ Cardinality(S) \in Nat /\ InOrder(S) \in [1..Cardinality(S) -> S]
      /\ IsInjective(InOrder(S)) /\ Range(InOrder(S)) = S
  BY NoneTwice
<1>2. InOrder(S) \in [1..Cardinality(S) -> E]
  BY <1>1
<1> QED
  BY <1>1, <1>2

-----------------------------------------------------------------------------
(* Chains of parents *)

(* Nodes that are greater than their parents; the topmost have none.       *)
IsTree(S, parent, none) ==
  /\ S \in SUBSET Int /\ IsFiniteSet(S) /\ none \notin S
  /\ parent \in [S -> S \cup {none}]
  /\ \A n \in S : parent[n] # none => parent[n] < n

(* The equation of a function that gives each node with what is above it.  *)
IsChain(f, S, parent, none) ==
  f = [n \in S |-> {n} \cup IF parent[n] = none THEN {} ELSE f[parent[n]]]

(* A chain stays in the set, holds the chains of its members, and goes on  *)
(* to the top through a parent each time.                                  *)
GoesUp(chain, S, parent, none) ==
  /\ \A n \in S : n \in chain[n] /\ chain[n] \in SUBSET S
  /\ \A n \in S : parent[n] # none => parent[n] \in chain[n]
  /\ \A n \in S : \A d \in chain[n] : chain[d] \in SUBSET chain[n]
  /\ \A n \in S : \A d \in chain[n] \ {n} : \E c \in chain[n] : parent[c] = d

(* The equation has a solution: what is in every set that holds n and the  *)
(* parents of its members.                                                 *)
THEOREM ChainExists ==
  ASSUME NEW S, NEW parent, NEW none, IsTree(S, parent, none)
  PROVE  \E f : IsChain(f, S, parent, none)
<1> USE DEF IsTree
<1> DEFINE Closed(T) == \A k \in T : parent[k] # none => parent[k] \in T
           f == [n \in S |-> {m \in S : \A T \in SUBSET S : n \in T /\ Closed(T) => m \in T}]
<1>1. ASSUME NEW n \in S, parent[n] = none PROVE f[n] = {n}
  <2>1. {n} \in SUBSET S /\ Closed({n})
    BY <1>1
  <2> QED
    BY <2>1
<1>2. ASSUME NEW n \in S, parent[n] # none PROVE f[n] = {n} \cup f[parent[n]]
  <2> DEFINE p == parent[n]
             T0 == {n} \cup f[p]
  <2>1. p \in S
    BY <1>2
  <2>2. f[p] \in SUBSET S /\ p \in f[p]
    BY <2>1
  <2>3. Closed(f[p])
    BY <2>1
  <2>4. T0 \in SUBSET S /\ n \in T0 /\ Closed(T0)
    <3> HIDE DEF f
    <3> QED
      BY <2>2, <2>3
  <2>5. f[n] \subseteq T0
    <3> HIDE DEF T0
    <3> QED
      BY <2>4
  <2>6. n \in f[n]
    OBVIOUS
  <2>7. \A m \in f[p] : m \in f[n]
    BY <1>2, <2>1
  <2> HIDE DEF f
  <2> QED
    BY <2>5, <2>6, <2>7
<1>3. \A n \in S : f[n] = {n} \cup IF parent[n] = none THEN {} ELSE f[parent[n]]
  <2> HIDE DEF f
  <2> QED
    BY <1>1, <1>2
<1>4. f = [n \in S |-> f[n]]
  OBVIOUS
<1> HIDE DEF f
<1>5. IsChain(f, S, parent, none)
  BY <1>3, <1>4 DEF IsChain
<1> QED
  BY <1>5

THEOREM ChainUp ==
  ASSUME NEW S, NEW parent, NEW none, IsTree(S, parent, none),
         NEW chain, IsChain(chain, S, parent, none)
  PROVE  GoesUp(chain, S, parent, none)
<1> USE DEF IsTree
<1>2. \A n \in S : chain[n] = {n} \cup IF parent[n] = none THEN {} ELSE chain[parent[n]]
  BY DEF IsChain
<1> DEFINE Good(n) == /\ chain[n] \in SUBSET S
                      /\ \A d \in chain[n] : chain[d] \in SUBSET chain[n]
                      /\ \A d \in chain[n] \ {n} : \E c \in chain[n] : parent[c] = d
           bad == {n \in S : ~Good(n)}
<1>3. bad = {}
  <2> SUFFICES ASSUME bad # {} PROVE FALSE
    OBVIOUS
  <2>1. bad \in SUBSET Int /\ IsFiniteSet(bad)
    <3>1. bad \in SUBSET S
      OBVIOUS
    <3> HIDE DEF bad
    <3> QED
      BY <3>1, FS_Subset
  <2>2. PICK n \in bad : \A m \in bad : n <= m
    <3> HIDE DEF bad
    <3> QED
      BY <2>1, Least
  <2>3. n \in S /\ n \in Int /\ ~Good(n)
    OBVIOUS
  <2>4. CASE parent[n] = none
    <3>1. chain[n] = {n}
      BY <1>2, <2>3, <2>4
    <3> QED
      BY <2>3, <3>1
  <2>5. CASE parent[n] # none
    <3> DEFINE p == parent[n]
    <3>1. p \in S /\ p \in Int /\ p < n
      BY <2>3, <2>5
    <3>2. p \notin bad
      <4> HIDE DEF bad
      <4> QED
        BY <2>2, <2>3, <3>1
    <3>3. Good(p)
      BY <3>1, <3>2
    <3>4. chain[n] = {n} \cup chain[p]
      BY <1>2, <2>3, <2>5
    <3>5. p \in chain[p]
      BY <1>2, <3>1
    <3> HIDE DEF p
    <3>6. chain[n] \in SUBSET S
      BY <2>3, <3>3, <3>4
    <3>7. \A d \in chain[n] : chain[d] \in SUBSET chain[n]
      BY <3>3, <3>4
    <3>8. ASSUME NEW d \in chain[n] \ {n} PROVE \E c \in chain[n] : parent[c] = d
      <4>1. CASE d = p
        BY <3>4, <4>1 DEF p
      <4>2. CASE d # p
        BY <3>3, <3>4, <3>8, <4>2
      <4> QED
        BY <4>1, <4>2
    <3> QED
      BY <2>3, <3>6, <3>7, <3>8
  <2> QED
    BY <2>4, <2>5
<1>4. \A n \in S : n \in chain[n] /\ (parent[n] # none => parent[n] \in chain[n])
  BY <1>2
<1> QED
  BY <1>3, <1>4 DEF GoesUp


(* A chain is ordered: of two of its members one is above the other, and   *)
(* the greater is never above the smaller.                                 *)
THEOREM ChainLine ==
  ASSUME NEW S, NEW parent, NEW none, IsTree(S, parent, none),
         NEW chain, IsChain(chain, S, parent, none)
  PROVE  \A n \in S : /\ \A d \in chain[n] : d <= n
                      /\ \A d, e \in chain[n] : d \in chain[e] \/ e \in chain[d]
<1> USE DEF IsTree
<1>1. \A n \in S : chain[n] = {n} \cup IF parent[n] = none THEN {} ELSE chain[parent[n]]
  BY DEF IsChain
<1>2. \A n \in S : chain[n] \in SUBSET S
  BY ChainUp DEF GoesUp
<1> DEFINE Good(n) == /\ \A d \in chain[n] : d <= n
                      /\ \A d, e \in chain[n] : d \in chain[e] \/ e \in chain[d]
           bad == {n \in S : ~Good(n)}
<1>3. bad = {}
  <2> SUFFICES ASSUME bad # {} PROVE FALSE
    OBVIOUS
  <2>1. bad \in SUBSET Int /\ IsFiniteSet(bad)
    <3>1. bad \in SUBSET S
      OBVIOUS
    <3> HIDE DEF bad
    <3> QED
      BY <3>1, FS_Subset
  <2>2. PICK n \in bad : \A m \in bad : n <= m
    <3> HIDE DEF bad
    <3> QED
      BY <2>1, Least
  <2>3. n \in S /\ n \in Int /\ ~Good(n)
    OBVIOUS
  <2>4. CASE parent[n] = none
    <3>1. chain[n] = {n}
      BY <1>1, <2>3, <2>4
    <3> QED
      BY <2>3, <3>1
  <2>5. CASE parent[n] # none
    <3> DEFINE p == parent[n]
    <3>1. p \in S /\ p \in Int /\ p < n
      BY <2>3, <2>5
    <3>2. p \notin bad
      <4> HIDE DEF bad
      <4> QED
        BY <2>2, <2>3, <3>1
    <3>3. Good(p)
      BY <3>1, <3>2
    <3>4. chain[n] = {n} \cup chain[p]
      BY <1>1, <2>3, <2>5
    <3> HIDE DEF p
    <3>5. ASSUME NEW d \in chain[n] PROVE d <= n
      <4>1. d \in Int
        BY <1>2, <2>3
      <4> QED
        BY <2>3, <3>1, <3>3, <3>4, <4>1
    <3>6. ASSUME NEW d \in chain[n], NEW e \in chain[n] PROVE d \in chain[e] \/ e \in chain[d]
      <4>1. CASE d = n \/ e = n
        BY <4>1
      <4>2. CASE d # n /\ e # n
        BY <3>3, <3>4, <4>2
      <4> QED
        BY <4>1, <4>2
    <3> QED
      BY <2>3, <3>5, <3>6
  <2> QED
    BY <2>4, <2>5
<1> QED
  BY <1>3

-----------------------------------------------------------------------------
(* Recursion without induction                                             *)

(* Of the arguments in A one has the least rank.                           *)
THEOREM LeastRank ==
  ASSUME NEW X, NEW N \in Nat, NEW r \in [X -> 0..N], NEW A \in SUBSET X, A # {}
  PROVE  \E x \in A : \A y \in A : r[x] <= r[y]
<1> DEFINE ranks == {r[x] : x \in A}
<1>1. ranks \in SUBSET (0..N) /\ ranks # {}
  OBVIOUS
<1>2. IsFiniteSet(0..N)
  BY FS_Interval
<1>3. IsFiniteSet(ranks)
  BY <1>1, <1>2, FS_Subset
<1>4. PICK m \in ranks : \A v \in ranks : m <= v
  <2> HIDE DEF ranks
  <2>1. ranks \in SUBSET Int
    BY <1>1
  <2> QED
    BY <1>1, <1>3, <2>1, Least
<1> QED
  BY <1>4

(* G[f] is what a recursive definition makes of f: its value at x depends  *)
(* on the values of f at arguments of lower rank only.                     *)
IsRecursion(X, Y, N, r, F, G) ==
  /\ N \in Nat /\ r \in [X -> 0..N]
  /\ F \in SUBSET [X -> Y] /\ F # {} /\ G \in [F -> F]
  /\ \A f, g \in F : \A x \in X :
       (\A y \in X : r[y] < r[x] => f[y] = g[y]) => G[f][x] = G[g][x]

(* Such a definition has a solution.                                       *)
THEOREM Recursion ==
  ASSUME NEW X, NEW Y, NEW N, NEW r, NEW F, NEW G, IsRecursion(X, Y, N, r, F, G)
  PROVE  \E f \in F : G[f] = f
<1> USE DEF IsRecursion
<1> DEFINE Upto(n) == \E f \in F : \A x \in X : r[x] < n => f[x] = G[f][x]
           missing == {n \in 0..N + 1 : ~Upto(n)}
<1>1. missing = {}
  <2> SUFFICES ASSUME missing # {} PROVE FALSE
    OBVIOUS
  <2>1. missing \in SUBSET Int
    OBVIOUS
  <2>2. IsFiniteSet(missing)
    <3>1. missing \in SUBSET (0..N + 1) /\ IsFiniteSet(0..N + 1)
      BY FS_Interval
    <3> QED
      BY <3>1, FS_Subset
  <2>3. PICK m \in missing : \A n \in missing : m <= n
    <3> HIDE DEF missing
    <3> QED
      BY <2>1, <2>2, Least
  <2>4. m # 0
    <3>1. Upto(0)
      OBVIOUS
    <3> QED
      BY <3>1
  <2>5. m - 1 \in 0..N + 1 /\ m - 1 \notin missing
    BY <2>3, <2>4
  <2>6. PICK f \in F : \A x \in X : r[x] < m - 1 => f[x] = G[f][x]
    BY <2>5
  <2>7. G[f] \in F
    OBVIOUS
  <2>8. ASSUME NEW x \in X, r[x] < m PROVE G[f][x] = G[G[f]][x]
    <3>1. ASSUME NEW y \in X, r[y] < r[x] PROVE f[y] = G[f][y]
      <4>1. r[x] \in 0..N /\ r[y] \in 0..N /\ m \in Int
        OBVIOUS
      <4>2. r[y] < m - 1
        BY <2>8, <3>1, <4>1
      <4> QED
        BY <2>6, <4>2
    <3> QED
      BY <2>7, <3>1
  <2>9. Upto(m)
    BY <2>7, <2>8
  <2> QED
    BY <2>9
<1>2. PICK f \in F : \A x \in X : r[x] < N + 1 => f[x] = G[f][x]
  BY <1>1, N + 1 \in 0..N + 1
<1>3. \A x \in X : r[x] < N + 1
  OBVIOUS
<1>4. f \in [X -> Y] /\ G[f] \in [X -> Y] /\ \A x \in X : f[x] = G[f][x]
  BY <1>2, <1>3
<1>5. f = G[f]
  BY <1>4
<1> QED
  BY <1>5

=============================================================================
