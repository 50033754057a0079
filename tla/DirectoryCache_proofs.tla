------------------------ MODULE DirectoryCache_proofs ------------------------
(***************************************************************************)
(* Proofs about DirectoryCache, for any number of threads, directories and *)
(* calls: a directory is fetched by one thread at a time, the objects a    *)
(* thread has pointers to are deleted only while it waits for an upgrade,  *)
(* and a removal takes along what is below the directory.                  *)
(***************************************************************************)
EXTENDS DirectoryCache, Ordered_proofs

-----------------------------------------------------------------------------
(* The inductive invariant                                                 *)

Reads == {"get", "first", "second", "crawl", "remove", "reply", "leave"}

(* What a thread may have to do.                                           *)
Steps ==
  {s \in [op : Uses \cup Reads \cup Writes, dir : Dirs \cup {NoDir}, arg : Dirs \cup {NoDir},
          ok : BOOLEAN] :
     /\ s.op \notin {"leave", "refresh"} => s.dir \in Dirs
     /\ s.op \in {"report", "setChild", "first", "second", "reply", "tell"} => s.arg \in Dirs
     /\ s.op \in {"report", "setChild"} => s.dir < s.arg
     /\ s.op \notin Uses => s.ok}

(* A directory comes before its children in the map.                       *)
ChildrenOK ==
  /\ m_childDirectories \in [Dirs -> SUBSET Dirs]
  /\ \A d \in Dirs : \A c \in m_childDirectories[d] : d < c

MapOK ==
  /\ m_directoryCache \in SUBSET Dirs /\ m_FetchingStatus \in SUBSET Dirs
  /\ ChildrenOK
  /\ exists \in SUBSET Dirs /\ allowed \in SUBSET Dirs
  /\ calls \in 0..MaxCalls /\ changes \in 0..MaxDisk

(* Many readers or one writer, and who waits is neither.                   *)
GuardOK ==
  /\ readers \in SUBSET Threads /\ writers \in SUBSET Threads /\ queued \in SUBSET Threads
  /\ queued \cap (readers \cup writers) = {}
  /\ writers # {} => readers = {}
  /\ \A t, u \in writers : t = u

TodoOK == todo \in [Threads -> Seq(Steps)]

(* In what a thread has to do, a step that needs write access alone and    *)
(* the end of a call come last, and a directory the crawler removes is not *)
(* used afterwards.                                                        *)
EndsLast(q) ==
  \A i \in DOMAIN q :
    /\ q[i].op \in Writes \cup {"leave"} => i = Len(q)
    /\ q[i].op \in {"crawl", "remove"} => \A j \in DOMAIN q : j > i => q[j].op \notin Uses

(* What is not known to be deleted is there.                               *)
Live(q) ==
  \A i \in DOMAIN q : q[i].op \in Uses /\ q[i].ok => q[i].dir \in m_directoryCache

CallsOK == \A t \in Threads : EndsLast(todo[t]) /\ Live(todo[t])

(* Who is neither inside nor waiting has at most a call to begin that      *)
(* needs write access.                                                     *)
Admitted ==
  \A t \in Threads : t \notin readers \cup writers \cup queued =>
    \A i \in DOMAIN todo[t] : todo[t][i].op \in Writes

(* Who waits for write access or has it is at a step that needs it, and    *)
(* has no pointer to an object of the directory it is about to insert.     *)
Asks(q) ==
  /\ q # << >> /\ q[1].op \in Upgrades \cup Writes
  /\ q[1].op = "get" =>
       \A i \in DOMAIN q : q[i].op \in Uses /\ q[i].dir = q[1].dir => ~q[i].ok

Asking == \A t \in queued \cup writers : Asks(todo[t])

Fetches(t, i, d) ==
  /\ i \in DOMAIN todo[t]
  /\ todo[t][i].op = "fetched" /\ todo[t][i].dir = d /\ todo[t][i].ok

(* The flag is set for what is being fetched, by one thread.               *)
Fetching ==
  /\ \A d \in m_FetchingStatus : \E t \in Threads, i \in Nat : Fetches(t, i, d)
  /\ \A d \in Dirs, t \in Threads, i \in Nat : Fetches(t, i, d) => d \in m_FetchingStatus
  /\ \A d \in Dirs, t, u \in Threads, i, j \in Nat :
       Fetches(t, i, d) /\ Fetches(u, j, d) => t = u /\ i = j

IInv == MapOK /\ GuardOK /\ TodoOK /\ CallsOK /\ Admitted /\ Asking /\ Fetching

-----------------------------------------------------------------------------
(* Steps and sequences of steps                                            *)

(* The kinds of steps.                                                     *)
LEMMA Names ==
  /\ Uses \cap (Reads \cup Writes) = {} /\ Reads \cap Writes = {} /\ Upgrades \in SUBSET Reads
  /\ "fetched" \in Uses
BY DEF Uses, Reads, Writes, Upgrades

(* What Step makes of its arguments.                                       *)
LEMMA StepFacts ==
  \A op \in Uses \cup Reads \cup Writes, d \in Dirs \cup {NoDir}, p \in Dirs \cup {NoDir} :
    /\ Step(op, d, p).op = op /\ Step(op, d, p).dir = d /\ Step(op, d, p).arg = p /\ Step(op, d, p).ok
    /\ /\ op \notin {"leave", "refresh"} => d \in Dirs
       /\ op \in {"report", "setChild", "first", "second", "reply", "tell"} => p \in Dirs
       /\ op \in {"report", "setChild"} => d < p
       => Step(op, d, p) \in Steps
BY DEF Step, Steps

(* Concatenation, place by place.                                          *)
LEMMA Joined ==
  ASSUME NEW E, NEW s \in Seq(E), NEW e \in Seq(E)
  PROVE  /\ s \o e \in Seq(E) /\ Len(s \o e) = Len(s) + Len(e)
         /\ \A k \in 1..Len(s) + Len(e) : (s \o e)[k] = IF k <= Len(s) THEN s[k] ELSE e[k - Len(s)]
OBVIOUS

(* t goes on with s and then with the rest of q.                           *)
LEMMA ThenEffect ==
  ASSUME NEW q \in Seq(Steps), q # << >>, NEW s \in Seq(Steps)
  PROVE  LET r == s \o Tail(q)
             m == Len(s)
             n == Len(q)
         IN  /\ r \in Seq(Steps) /\ m \in Nat /\ n \in Nat /\ n > 0 /\ Len(r) = m + n - 1
             /\ DOMAIN r = 1..(m + n - 1) /\ DOMAIN q = 1..n /\ DOMAIN s = 1..m
             /\ \A k \in 1..m : r[k] = s[k]
             /\ \A k \in 2..n : r[k + m - 1] = q[k]
             /\ \A k \in 1..(m + n - 1) : k > m => r[k] = q[k - m + 1]
<1> DEFINE r == s \o Tail(q)
           m == Len(s)
           n == Len(q)
           e == Tail(q)
<1>1. /\ m \in Nat /\ n \in Nat /\ n > 0 /\ DOMAIN q = 1..n /\ DOMAIN s = 1..m
      /\ e \in Seq(Steps) /\ Len(e) = n - 1 /\ \A k \in 1..n - 1 : e[k] = q[k + 1]
  OBVIOUS
<1> HIDE DEF e
<1>2. /\ s \o e \in Seq(Steps) /\ Len(s \o e) = Len(s) + Len(e)
      /\ \A k \in 1..Len(s) + Len(e) : (s \o e)[k] = IF k <= Len(s) THEN s[k] ELSE e[k - Len(s)]
  BY <1>1, Joined
<1>3. DOMAIN (s \o e) = 1..Len(s \o e)
  BY <1>2
<1> DEFINE c == s \o e
<1>4. /\ c \in Seq(Steps) /\ Len(c) = m + (n - 1) /\ DOMAIN c = 1..(m + (n - 1))
      /\ \A k \in 1..m + (n - 1) : c[k] = IF k <= m THEN s[k] ELSE e[k - m]
  BY <1>1, <1>2, <1>3
<1> HIDE DEF c, m, n
<1>5. /\ c \in Seq(Steps) /\ Len(c) = m + n - 1 /\ DOMAIN c = 1..(m + n - 1)
      /\ \A k \in 1..m : c[k] = s[k]
      /\ \A k \in 2..n : c[k + m - 1] = q[k]
      /\ \A k \in 1..(m + n - 1) : k > m => c[k] = q[k - m + 1]
  <2>1. m + (n - 1) = m + n - 1
    BY <1>1
  <2>2. \A k \in 1..m : k \in 1..m + (n - 1) /\ k <= m
    BY <1>1
  <2>3. \A k \in 2..n : /\ k + m - 1 \in 1..m + (n - 1) /\ ~(k + m - 1 <= m)
                        /\ (k + m - 1) - m \in 1..n - 1 /\ ((k + m - 1) - m) + 1 = k
    BY <1>1
  <2>4. \A k \in 1..(m + n - 1) : k > m =>
          /\ k \in 1..m + (n - 1) /\ ~(k <= m)
          /\ k - m \in 1..n - 1 /\ (k - m) + 1 = k - m + 1
    BY <1>1
  <2>5. \A k \in 1..m : c[k] = s[k]
    BY <1>4, <2>2
  <2>6. \A k \in 2..n : c[k + m - 1] = q[k]
    <3> TAKE k \in 2..n
    <3>1. c[k + m - 1] = e[(k + m - 1) - m]
      BY <1>4, <2>3
    <3>2. e[(k + m - 1) - m] = q[((k + m - 1) - m) + 1]
      BY <1>1, <2>3
    <3> QED
      BY <2>3, <3>1, <3>2
  <2>7. \A k \in 1..(m + n - 1) : k > m => c[k] = q[k - m + 1]
    <3> TAKE k \in 1..(m + n - 1)
    <3> HAVE k > m
    <3>1. c[k] = e[k - m]
      BY <1>4, <2>4
    <3>2. e[k - m] = q[(k - m) + 1]
      BY <1>1, <2>4
    <3> QED
      BY <2>4, <3>1, <3>2
  <2> QED
    BY <1>4, <2>1, <2>5, <2>6, <2>7
<1>6. r = c
  BY DEF e, c
<1> QED
  BY <1>1, <1>5, <1>6 DEF m, n

(* The places of the steps that are not new are those of before, moved.    *)
LEMMA Moved ==
  ASSUME NEW q \in Seq(Steps), q # << >>, NEW s \in Seq(Steps)
  PROVE  LET r == s \o Tail(q)
             m == Len(s)
         IN  /\ \A k \in DOMAIN r :
                  \/ k \in DOMAIN s /\ r[k] = s[k] /\ k <= m
                  \/ k > m /\ k - m + 1 \in DOMAIN q /\ k - m + 1 # 1 /\ r[k] = q[k - m + 1]
             /\ \A k \in DOMAIN q : k # 1 =>
                  k + m - 1 \in DOMAIN r /\ k + m - 1 \in Nat /\ r[k + m - 1] = q[k]
             /\ m \in Nat /\ DOMAIN r \in SUBSET Nat /\ DOMAIN q \in SUBSET (Nat \ {0}) /\ 1 \in DOMAIN q
             /\ DOMAIN s = 1..m
<1> DEFINE r == s \o Tail(q)
           m == Len(s)
           n == Len(q)
<1>1. /\ r \in Seq(Steps) /\ m \in Nat /\ n \in Nat /\ n > 0 /\ Len(r) = m + n - 1
      /\ DOMAIN r = 1..(m + n - 1) /\ DOMAIN q = 1..n /\ DOMAIN s = 1..m
      /\ \A k \in 1..m : r[k] = s[k]
      /\ \A k \in 2..n : r[k + m - 1] = q[k]
      /\ \A k \in 1..(m + n - 1) : k > m => r[k] = q[k - m + 1]
  BY ThenEffect
<1> HIDE DEF r, m, n
<1>2. ASSUME NEW k \in 1..(m + n - 1)
      PROVE  (k \in 1..m /\ k <= m) \/ (k > m /\ k - m + 1 \in 1..n /\ k - m + 1 # 1)
  BY <1>1
<1>3. ASSUME NEW k \in 1..n, k # 1
      PROVE  k \in 2..n /\ k + m - 1 \in 1..(m + n - 1) /\ k + m - 1 \in Nat
  <2>1. k \in 2..n
    BY <1>1, <1>3
  <2>2. k + m - 1 \in 1..(m + n - 1) /\ k + m - 1 \in Nat
    BY <1>1, <2>1
  <2> QED
    BY <2>1, <2>2
<1>4. /\ \A k \in DOMAIN r :
           \/ k \in DOMAIN s /\ r[k] = s[k] /\ k <= m
           \/ k > m /\ k - m + 1 \in DOMAIN q /\ k - m + 1 # 1 /\ r[k] = q[k - m + 1]
      /\ \A k \in DOMAIN q : k # 1 =>
           k + m - 1 \in DOMAIN r /\ k + m - 1 \in Nat /\ r[k + m - 1] = q[k]
  BY <1>1, <1>2, <1>3
<1>5. DOMAIN r \in SUBSET Nat /\ DOMAIN q \in SUBSET (Nat \ {0}) /\ 1 \in DOMAIN q
  BY <1>1
<1> QED
  BY <1>1, <1>4, <1>5 DEF r, m

-----------------------------------------------------------------------------
(* What a thread may have to do, after a step *)

(* Steps of Uses are added only with pointers to objects that are there.   *)
Fresh ==
  {s \in Steps : /\ s.ok /\ s.op \notin Writes \cup {"leave", "crawl", "remove", "fetched"}
                 /\ s.op \in Uses => s.dir \in m_directoryCache}

(* New steps that may be followed by others keep the order.                *)
LEMMA EndsThen ==
  ASSUME NEW q \in Seq(Steps), q # << >>, NEW s \in Seq(Steps), EndsLast(q),
         \A i \in DOMAIN s :
           /\ s[i].op \notin Writes \cup {"leave", "crawl"}
           /\ s[i].op = "remove" => q[1].op \in {"crawl", "remove"} /\ Len(s) = 1
  PROVE  EndsLast(s \o Tail(q))
<1> DEFINE r == s \o Tail(q)
           m == Len(s)
           n == Len(q)
<1>1. /\ m \in Nat /\ n \in Nat /\ n > 0 /\ Len(r) = m + n - 1
      /\ DOMAIN r = 1..(m + n - 1) /\ DOMAIN q = 1..n /\ DOMAIN s = 1..m
      /\ \A k \in 1..m : r[k] = s[k]
      /\ \A k \in 1..(m + n - 1) : k > m => r[k] = q[k - m + 1]
  BY ThenEffect
<1>2. \A i \in 1..n :
        /\ q[i].op \in Writes \cup {"leave"} => i = n
        /\ q[i].op \in {"crawl", "remove"} => \A j \in 1..n : j > i => q[j].op \notin Uses
  BY <1>1 DEF EndsLast
<1>3. /\ \A i \in 1..m : s[i].op \notin Writes \cup {"leave", "crawl"}
      /\ \A i \in 1..m : s[i].op = "remove" => q[1].op \in {"crawl", "remove"} /\ m = 1
  BY <1>1
<1> HIDE DEF r, m, n
<1>4. ASSUME NEW k \in 1..(m + n - 1), r[k].op \in Writes \cup {"leave"} PROVE k = m + n - 1
  <2>1. k > m
    <3>1. CASE k \in 1..m
      BY <1>1, <1>3, <1>4, <3>1
    <3> QED
      BY <1>1, <3>1
  <2>2. k - m + 1 \in 1..n
    BY <1>1, <2>1
  <2>3. k - m + 1 = n
    BY <1>1, <1>2, <1>4, <2>1, <2>2
  <2> QED
    BY <1>1, <2>3
<1>5. ASSUME NEW k \in 1..(m + n - 1), r[k].op \in {"crawl", "remove"},
             NEW j \in 1..(m + n - 1), j > k
      PROVE  r[j].op \notin Uses
  <2>1. CASE k \in 1..m
    <3>1. s[k].op = "remove"
      BY <1>1, <1>3, <1>5, <2>1
    <3>2. q[1].op \in {"crawl", "remove"} /\ m = 1
      BY <1>3, <2>1, <3>1
    <3>3. j > m /\ j - m + 1 \in 1..n /\ 1 \in 1..n /\ j - m + 1 > 1
      BY <1>1, <1>5, <2>1, <3>2
    <3>4. r[j] = q[j - m + 1]
      BY <1>1, <3>3
    <3> QED
      BY <1>2, <3>2, <3>3, <3>4
  <2>2. CASE k > m
    <3>1. j > m /\ j - m + 1 \in 1..n /\ k - m + 1 \in 1..n /\ j - m + 1 > k - m + 1
      BY <1>1, <1>5, <2>2
    <3>2. r[j] = q[j - m + 1] /\ r[k] = q[k - m + 1]
      BY <1>1, <2>2, <3>1
    <3> QED
      BY <1>2, <1>5, <3>1, <3>2
  <2> QED
    BY <1>1, <2>1, <2>2
<1>6. EndsLast(r)
  BY <1>1, <1>4, <1>5 DEF EndsLast
<1> QED
  BY <1>6 DEF r

(* New steps that use only what is there.                                  *)
LEMMA LiveThen ==
  ASSUME NEW q \in Seq(Steps), q # << >>, NEW s \in Seq(Steps), Live(q),
         \A i \in DOMAIN s : s[i].op \in Uses => s[i].dir \in m_directoryCache
  PROVE  Live(s \o Tail(q))
<1> DEFINE r == s \o Tail(q)
           m == Len(s)
<1>1. \A k \in DOMAIN r :
        \/ k \in DOMAIN s /\ r[k] = s[k] /\ k <= m
        \/ k > m /\ k - m + 1 \in DOMAIN q /\ k - m + 1 # 1 /\ r[k] = q[k - m + 1]
  BY Moved
<1> HIDE DEF r, m
<1>2. \A k \in DOMAIN r :
        \/ k \in DOMAIN s /\ r[k] = s[k]
        \/ \E i \in DOMAIN q : r[k] = q[i]
  BY <1>1
<1>3. Live(r)
  BY <1>2 DEF Live
<1> QED
  BY <1>3 DEF r

(* The effect of Then.                                                     *)
LEMMA ThenTodo ==
  ASSUME TodoOK, NEW t \in Threads, NEW s \in Seq(Steps)
  PROVE  /\ Then(t, s)[t] = s \o Tail(todo[t])
         /\ \A u \in Threads \ {t} : Then(t, s)[u] = todo[u]
         /\ DOMAIN Then(t, s) = Threads
         /\ todo[t] # << >> => Then(t, s) \in [Threads -> Seq(Steps)]
<1>1. todo \in [Threads -> Seq(Steps)]
  BY DEF TodoOK
<1>2. Then(t, s) = [todo EXCEPT ![t] = s \o Tail(todo[t])]
  BY DEF Then
<1>3. todo[t] # << >> => s \o Tail(todo[t]) \in Seq(Steps)
  BY <1>1, ThenEffect
<1> QED
  BY <1>1, <1>2, <1>3

-----------------------------------------------------------------------------
(* A step with read access *)

(* Whoever is at a step that needs no write access is a reader.            *)
LEMMA Inside ==
  ASSUME IInv, NEW t \in Threads, todo[t] # << >>, todo[t][1].op \notin Upgrades \cup Writes
  PROVE  t \in readers
<1>1. 1 \in DOMAIN todo[t]
  BY DEF IInv, TodoOK
<1>2. t \in readers \cup writers \cup queued
  BY <1>1 DEF IInv, Admitted
<1>3. t \notin queued \cup writers
  BY DEF IInv, Asking, Asks
<1> QED
  BY <1>2, <1>3

(* A reader goes on with steps s: all but Fetching holds again.            *)
LEMMA LocalKeeps ==
  ASSUME IInv, NEW t \in Threads, todo[t] # << >>, t \in readers, NEW s \in Seq(Steps),
         \A i \in DOMAIN s :
           /\ s[i].op \notin Writes \cup {"leave", "crawl"}
           /\ s[i].op = "remove" => todo[t][1].op \in {"crawl", "remove"} /\ Len(s) = 1
           /\ s[i].op \in Uses => s[i].dir \in m_directoryCache,
         todo' = Then(t, s), m_directoryCache' = m_directoryCache, UNCHANGED guardVars
  PROVE  GuardOK' /\ TodoOK' /\ CallsOK' /\ Admitted' /\ Asking'
<1>1. GuardOK /\ TodoOK /\ CallsOK /\ Admitted /\ Asking
  BY DEF IInv
<1>2. todo[t] \in Seq(Steps) /\ EndsLast(todo[t]) /\ Live(todo[t])
  BY <1>1 DEF TodoOK, CallsOK
<1>3. readers' = readers /\ writers' = writers /\ queued' = queued
  BY DEF guardVars
<1>4. GuardOK'
  BY <1>1, <1>3 DEF GuardOK
<1>5. /\ todo'[t] = s \o Tail(todo[t])
      /\ \A u \in Threads \ {t} : todo'[u] = todo[u]
      /\ todo' \in [Threads -> Seq(Steps)]
  BY <1>1, ThenTodo
<1>6. TodoOK'
  BY <1>5 DEF TodoOK
<1>7. EndsLast(todo'[t])
  BY <1>2, <1>5, EndsThen
<1>8. Live(todo'[t])
  BY <1>2, <1>5, LiveThen
<1>9. ASSUME NEW u \in Threads PROVE EndsLast(todo'[u]) /\ Live(todo'[u])
  BY <1>1, <1>5, <1>7, <1>8 DEF CallsOK
<1>10. CallsOK'
  <2>1. ASSUME NEW u \in Threads PROVE EndsLast(todo[u])' /\ Live(todo[u])'
    BY <1>9 DEF EndsLast, Live
  <2> QED
    BY <2>1 DEF CallsOK
<1>11. Admitted'
  BY <1>1, <1>3, <1>5 DEF Admitted
<1>12. t \notin queued \cup writers
  BY <1>1 DEF GuardOK
<1>13. queued \in SUBSET Threads /\ writers \in SUBSET Threads
  BY <1>1 DEF GuardOK
<1>14. Asking'
  <2>1. ASSUME NEW u \in queued \cup writers PROVE Asks(todo[u])'
    <3>1. u \in Threads \ {t}
      BY <1>12, <1>13
    <3>2. todo'[u] = todo[u]
      BY <1>5, <3>1
    <3>3. Asks(todo[u])
      BY <1>1 DEF Asking
    <3> QED
      BY <3>2, <3>3 DEF Asks
  <2> QED
    BY <1>3, <2>1 DEF Asking
<1> QED
  BY <1>4, <1>6, <1>10, <1>11, <1>14

-----------------------------------------------------------------------------
(* Who fetches *)

(* A call that goes on with s fetches what is fetched in s and what it     *)
(* fetched further on.                                                     *)
LEMMA FetchesThen ==
  ASSUME TodoOK, NEW t \in Threads, todo[t] # << >>, NEW s \in Seq(Steps), todo' = Then(t, s)
  PROVE  /\ \A u \in Threads, i \in Nat, d \in Dirs : Fetches(u, i, d)' =>
              \/ u # t /\ Fetches(u, i, d)
              \/ u = t /\ i \in DOMAIN s /\ i <= Len(s) /\ s[i].op = "fetched" /\ s[i].dir = d
              \/ /\ u = t /\ i > Len(s) /\ i - Len(s) + 1 \in Nat /\ i - Len(s) + 1 # 1
                 /\ Fetches(t, i - Len(s) + 1, d)
         /\ \A u \in Threads, i \in Nat, d \in Dirs : Fetches(u, i, d) =>
              \/ u # t /\ Fetches(u, i, d)'
              \/ u = t /\ i = 1
              \/ u = t /\ i + Len(s) - 1 \in Nat /\ Fetches(t, i + Len(s) - 1, d)'
         /\ \A i \in DOMAIN s, d \in Dirs : s[i].op = "fetched" /\ s[i].dir = d /\ s[i].ok => Fetches(t, i, d)'
<1> DEFINE q == todo[t]
           r == s \o Tail(q)
           m == Len(s)
<1>1. q \in Seq(Steps) /\ q # << >>
  BY DEF TodoOK
<1>2. todo'[t] = r /\ \A u \in Threads \ {t} : todo'[u] = todo[u]
  BY ThenTodo
<1>3. /\ \A k \in DOMAIN r :
           \/ k \in DOMAIN s /\ r[k] = s[k] /\ k <= m
           \/ k > m /\ k - m + 1 \in DOMAIN q /\ k - m + 1 # 1 /\ r[k] = q[k - m + 1]
      /\ \A k \in DOMAIN q : k # 1 =>
           k + m - 1 \in DOMAIN r /\ k + m - 1 \in Nat /\ r[k + m - 1] = q[k]
      /\ m \in Nat /\ DOMAIN r \in SUBSET Nat /\ DOMAIN q \in SUBSET (Nat \ {0}) /\ 1 \in DOMAIN q
      /\ DOMAIN s = 1..m
  BY <1>1, Moved
<1>4. \A k \in DOMAIN s : k \in DOMAIN r /\ r[k] = s[k]
  BY <1>1, ThenEffect
<1> HIDE DEF q, r, m
<1>5. ASSUME NEW u \in Threads, NEW i \in Nat, NEW d \in Dirs, Fetches(u, i, d)'
      PROVE  \/ u # t /\ Fetches(u, i, d)
             \/ u = t /\ i \in DOMAIN s /\ i <= m /\ s[i].op = "fetched" /\ s[i].dir = d
             \/ /\ u = t /\ i > m /\ i - m + 1 \in Nat /\ i - m + 1 # 1
                /\ Fetches(t, i - m + 1, d)
  <2>1. CASE u # t
    BY <1>2, <1>5, <2>1 DEF Fetches
  <2>2. CASE u = t
    <3>1. i \in DOMAIN r /\ r[i].op = "fetched" /\ r[i].dir = d /\ r[i].ok
      BY <1>2, <1>5, <2>2 DEF Fetches
    <3>2. CASE i \in DOMAIN s /\ r[i] = s[i] /\ i <= m
      BY <2>2, <3>1, <3>2
    <3>3. CASE i > m /\ i - m + 1 \in DOMAIN q /\ i - m + 1 # 1 /\ r[i] = q[i - m + 1]
      <4>1. Fetches(t, i - m + 1, d)
        BY <3>1, <3>3 DEF Fetches, q
      <4> QED
        BY <1>3, <2>2, <3>3, <4>1
    <3> QED
      BY <1>3, <3>1, <3>2, <3>3
  <2> QED
    BY <2>1, <2>2
<1>6. ASSUME NEW u \in Threads, NEW i \in Nat, NEW d \in Dirs, Fetches(u, i, d)
      PROVE  \/ u # t /\ Fetches(u, i, d)'
             \/ u = t /\ i = 1
             \/ u = t /\ i + m - 1 \in Nat /\ Fetches(t, i + m - 1, d)'
  <2>1. CASE u # t
    BY <1>2, <1>6, <2>1 DEF Fetches
  <2>2. CASE u = t /\ i # 1
    <3>1. i \in DOMAIN q /\ q[i].op = "fetched" /\ q[i].dir = d /\ q[i].ok
      BY <1>6, <2>2 DEF Fetches, q
    <3>2. i + m - 1 \in DOMAIN r /\ i + m - 1 \in Nat /\ r[i + m - 1] = q[i]
      BY <1>3, <2>2, <3>1
    <3>3. Fetches(t, i + m - 1, d)'
      BY <1>2, <3>1, <3>2 DEF Fetches
    <3> QED
      BY <2>2, <3>2, <3>3
  <2> QED
    BY <2>1, <2>2
<1>7. \A i \in DOMAIN s, d \in Dirs : s[i].op = "fetched" /\ s[i].dir = d /\ s[i].ok => Fetches(t, i, d)'
  BY <1>2, <1>4 DEF Fetches
<1> QED
  BY <1>5, <1>6, <1>7 DEF m

(* A call goes on, but begins and ends no fetch.                           *)
LEMMA FetchKept ==
  ASSUME IInv, NEW t \in Threads, todo[t] # << >>, todo[t][1].op # "fetched",
         NEW s \in Seq(Steps), \A i \in DOMAIN s : s[i].op # "fetched",
         todo' = Then(t, s), m_FetchingStatus' = m_FetchingStatus
  PROVE  Fetching'
<1>1. Fetching /\ MapOK /\ TodoOK
  BY DEF IInv
<1>2. /\ \A u \in Threads, i \in Nat, d \in Dirs : Fetches(u, i, d)' =>
           \/ u # t /\ Fetches(u, i, d)
           \/ /\ u = t /\ i > Len(s) /\ i - Len(s) + 1 \in Nat
              /\ Fetches(t, i - Len(s) + 1, d)
      /\ \A u \in Threads, i \in Nat, d \in Dirs : Fetches(u, i, d) =>
           \/ u # t /\ Fetches(u, i, d)'
           \/ u = t /\ i = 1
           \/ u = t /\ i + Len(s) - 1 \in Nat /\ Fetches(t, i + Len(s) - 1, d)'
  BY <1>1, FetchesThen
<1>3. \A d \in Dirs : ~Fetches(t, 1, d)
  BY DEF Fetches
<1>4. ASSUME NEW d \in m_FetchingStatus'
      PROVE  \E u \in Threads, i \in Nat : Fetches(u, i, d)'
  <2>1. d \in m_FetchingStatus /\ d \in Dirs
    BY <1>1, <1>4 DEF MapOK
  <2>2. PICK u \in Threads, i \in Nat : Fetches(u, i, d)
    BY <1>1, <2>1 DEF Fetching
  <2> QED
    BY <1>2, <1>3, <2>1, <2>2
<1>5. ASSUME NEW d \in Dirs, NEW u \in Threads, NEW i \in Nat, Fetches(u, i, d)'
      PROVE  d \in m_FetchingStatus'
  BY <1>1, <1>2, <1>5 DEF Fetching
<1>6. ASSUME NEW d \in Dirs, NEW u \in Threads, NEW v \in Threads, NEW i \in Nat, NEW j \in Nat,
             Fetches(u, i, d)', Fetches(v, j, d)'
      PROVE  u = v /\ i = j
  <2> DEFINE m == Len(s)
  <2>1. m \in Nat
    OBVIOUS
  <2>2. \/ u # t /\ Fetches(u, i, d)
        \/ u = t /\ i > m /\ i - m + 1 \in Nat /\ Fetches(t, i - m + 1, d)
    BY <1>2, <1>6
  <2>3. \/ v # t /\ Fetches(v, j, d)
        \/ v = t /\ j > m /\ j - m + 1 \in Nat /\ Fetches(t, j - m + 1, d)
    BY <1>2, <1>6
  <2>4. \A x, y \in Threads, k, l \in Nat : Fetches(x, k, d) /\ Fetches(y, l, d) => x = y /\ k = l
    BY <1>1 DEF Fetching
  <2> HIDE DEF m
  <2>5. u = v
    BY <2>2, <2>3, <2>4
  <2>6. CASE u # t
    BY <2>2, <2>3, <2>4, <2>5, <2>6
  <2>7. CASE u = t
    <3>1. i - m + 1 = j - m + 1
      BY <2>2, <2>3, <2>4, <2>5, <2>7
    <3> QED
      BY <2>1, <2>5, <3>1
  <2> QED
    BY <2>6, <2>7
<1>7. (\A d \in m_FetchingStatus : \E u \in Threads, i \in Nat : Fetches(u, i, d))'
  BY <1>4
<1>8. (\A d \in Dirs, u \in Threads, i \in Nat : Fetches(u, i, d) => d \in m_FetchingStatus)'
  BY <1>5
<1>9. (\A d \in Dirs, u, v \in Threads, i, j \in Nat :
         Fetches(u, i, d) /\ Fetches(v, j, d) => u = v /\ i = j)'
  BY <1>6
<1> QED
  BY <1>7, <1>8, <1>9 DEF Fetching

(* The flag of d was not set, and d is fetched from now on.                *)
LEMMA FetchBegins ==
  ASSUME IInv, NEW t \in Threads, todo[t] # << >>, todo[t][1].op # "fetched",
         NEW d \in Dirs, d \notin m_FetchingStatus, m_FetchingStatus' = m_FetchingStatus \cup {d},
         NEW s \in Seq(Steps), NEW k \in DOMAIN s, k \in Nat,
         s[k].op = "fetched" /\ s[k].dir = d /\ s[k].ok,
         \A i \in DOMAIN s : s[i].op = "fetched" => i = k,
         todo' = Then(t, s)
  PROVE  Fetching'
<1>1. Fetching /\ MapOK /\ TodoOK
  BY DEF IInv
<1>2. /\ \A u \in Threads, i \in Nat, e \in Dirs : Fetches(u, i, e)' =>
           \/ u # t /\ Fetches(u, i, e)
           \/ u = t /\ i = k /\ e = d
           \/ /\ u = t /\ i > Len(s) /\ i - Len(s) + 1 \in Nat
              /\ Fetches(t, i - Len(s) + 1, e)
      /\ \A u \in Threads, i \in Nat, e \in Dirs : Fetches(u, i, e) =>
           \/ u # t /\ Fetches(u, i, e)'
           \/ u = t /\ i = 1
           \/ u = t /\ i + Len(s) - 1 \in Nat /\ Fetches(t, i + Len(s) - 1, e)'
      /\ Fetches(t, k, d)'
  BY <1>1, FetchesThen
<1>3. /\ \A e \in Dirs : ~Fetches(t, 1, e)
      /\ \A u \in Threads, i \in Nat : ~Fetches(u, i, d)
  BY <1>1 DEF Fetches, Fetching
<1>4. ASSUME NEW e \in m_FetchingStatus'
      PROVE  \E u \in Threads, i \in Nat : Fetches(u, i, e)'
  <2>1. CASE e = d
    BY <1>2, <2>1
  <2>2. CASE e # d
    <3>1. e \in m_FetchingStatus /\ e \in Dirs
      BY <1>1, <1>4, <2>2 DEF MapOK
    <3>2. PICK u \in Threads, i \in Nat : Fetches(u, i, e)
      BY <1>1, <3>1 DEF Fetching
    <3> QED
      BY <1>2, <1>3, <3>1, <3>2
  <2> QED
    BY <2>1, <2>2
<1>5. ASSUME NEW e \in Dirs, NEW u \in Threads, NEW i \in Nat, Fetches(u, i, e)'
      PROVE  e \in m_FetchingStatus'
  BY <1>1, <1>2, <1>5 DEF Fetching
<1>6. ASSUME NEW e \in Dirs, NEW u \in Threads, NEW v \in Threads, NEW i \in Nat, NEW j \in Nat,
             Fetches(u, i, e)', Fetches(v, j, e)'
      PROVE  u = v /\ i = j
  <2> DEFINE m == Len(s)
  <2>1. m \in Nat
    OBVIOUS
  <2>2. /\ \/ u # t /\ Fetches(u, i, e)
           \/ u = t /\ i = k /\ e = d
           \/ u = t /\ i > m /\ i - m + 1 \in Nat /\ Fetches(t, i - m + 1, e)
        /\ \/ v # t /\ Fetches(v, j, e)
           \/ v = t /\ j = k /\ e = d
           \/ v = t /\ j > m /\ j - m + 1 \in Nat /\ Fetches(t, j - m + 1, e)
    BY <1>2, <1>6
  <2>3. \A x, y \in Threads, a, b \in Nat : Fetches(x, a, e) /\ Fetches(y, b, e) => x = y /\ a = b
    BY <1>1 DEF Fetching
  <2> HIDE DEF m
  <2>4. CASE e = d
    BY <1>3, <2>2, <2>4
  <2>5. CASE e # d /\ u # t
    BY <2>2, <2>3, <2>5
  <2>6. CASE e # d /\ u = t
    <3>1. v = t
      BY <2>2, <2>3, <2>6
    <3>2. i - m + 1 = j - m + 1
      BY <2>2, <2>3, <2>6, <3>1
    <3> QED
      BY <2>1, <2>6, <3>1, <3>2
  <2> QED
    BY <2>4, <2>5, <2>6
<1>7. (\A e \in m_FetchingStatus : \E u \in Threads, i \in Nat : Fetches(u, i, e))'
  BY <1>4
<1>8. (\A e \in Dirs, u \in Threads, i \in Nat : Fetches(u, i, e) => e \in m_FetchingStatus)'
  BY <1>5
<1>9. (\A e \in Dirs, u, v \in Threads, i, j \in Nat :
         Fetches(u, i, e) /\ Fetches(v, j, e) => u = v /\ i = j)'
  BY <1>6
<1> QED
  BY <1>7, <1>8, <1>9 DEF Fetching

(* The fetch of d, of whose object the flag is, ends.                      *)
LEMMA FetchEnds ==
  ASSUME IInv, NEW t \in Threads, NEW d \in Dirs, Fetches(t, 1, d),
         m_FetchingStatus' = m_FetchingStatus \ {d},
         NEW s \in Seq(Steps), \A i \in DOMAIN s : s[i].op # "fetched",
         todo' = Then(t, s)
  PROVE  Fetching'
<1>1. Fetching /\ MapOK /\ TodoOK /\ todo[t] # << >>
  BY DEF IInv, TodoOK, Fetches
<1>2. /\ \A u \in Threads, i \in Nat, e \in Dirs : Fetches(u, i, e)' =>
           \/ u # t /\ Fetches(u, i, e)
           \/ /\ u = t /\ i > Len(s) /\ i - Len(s) + 1 \in Nat /\ i - Len(s) + 1 # 1
              /\ Fetches(t, i - Len(s) + 1, e)
      /\ \A u \in Threads, i \in Nat, e \in Dirs : Fetches(u, i, e) =>
           \/ u # t /\ Fetches(u, i, e)'
           \/ u = t /\ i = 1
           \/ u = t /\ i + Len(s) - 1 \in Nat /\ Fetches(t, i + Len(s) - 1, e)'
  BY <1>1, FetchesThen
<1>3. /\ \A u \in Threads, i \in Nat : Fetches(u, i, d) => u = t /\ i = 1
      /\ \A e \in Dirs : Fetches(t, 1, e) => e = d
  BY <1>1 DEF Fetches, Fetching
<1>4. ASSUME NEW e \in m_FetchingStatus'
      PROVE  \E u \in Threads, i \in Nat : Fetches(u, i, e)'
  <2>1. e \in m_FetchingStatus /\ e \in Dirs /\ e # d
    BY <1>1, <1>4 DEF MapOK
  <2>2. PICK u \in Threads, i \in Nat : Fetches(u, i, e)
    BY <1>1, <2>1 DEF Fetching
  <2> QED
    BY <1>2, <1>3, <2>1, <2>2
<1>5. ASSUME NEW e \in Dirs, NEW u \in Threads, NEW i \in Nat, Fetches(u, i, e)'
      PROVE  e \in m_FetchingStatus'
  <2> DEFINE k == i - Len(s) + 1
  <2>1. \/ u # t /\ Fetches(u, i, e)
        \/ u = t /\ k \in Nat /\ k # 1 /\ Fetches(t, k, e)
    BY <1>2, <1>5
  <2> HIDE DEF k
  <2>2. e # d
    BY <1>3, <2>1
  <2>3. e \in m_FetchingStatus
    BY <1>1, <2>1 DEF Fetching
  <2> QED
    BY <2>2, <2>3
<1>6. ASSUME NEW e \in Dirs, NEW u \in Threads, NEW v \in Threads, NEW i \in Nat, NEW j \in Nat,
             Fetches(u, i, e)', Fetches(v, j, e)'
      PROVE  u = v /\ i = j
  <2> DEFINE m == Len(s)
  <2>1. m \in Nat
    OBVIOUS
  <2>2. \/ u # t /\ Fetches(u, i, e)
        \/ u = t /\ i > m /\ i - m + 1 \in Nat /\ Fetches(t, i - m + 1, e)
    BY <1>2, <1>6
  <2>3. \/ v # t /\ Fetches(v, j, e)
        \/ v = t /\ j > m /\ j - m + 1 \in Nat /\ Fetches(t, j - m + 1, e)
    BY <1>2, <1>6
  <2>4. \A x, y \in Threads, k, l \in Nat : Fetches(x, k, e) /\ Fetches(y, l, e) => x = y /\ k = l
    BY <1>1 DEF Fetching
  <2> HIDE DEF m
  <2>5. u = v
    BY <2>2, <2>3, <2>4
  <2>6. CASE u # t
    BY <2>2, <2>3, <2>4, <2>5, <2>6
  <2>7. CASE u = t
    <3>1. i - m + 1 = j - m + 1
      BY <2>2, <2>3, <2>4, <2>5, <2>7
    <3> QED
      BY <2>1, <2>5, <3>1
  <2> QED
    BY <2>6, <2>7
<1>7. (\A e \in m_FetchingStatus : \E u \in Threads, i \in Nat : Fetches(u, i, e))'
  BY <1>4
<1>8. (\A e \in Dirs, u \in Threads, i \in Nat : Fetches(u, i, e) => e \in m_FetchingStatus)'
  BY <1>5
<1>9. (\A e \in Dirs, u, v \in Threads, i, j \in Nat :
         Fetches(u, i, e) /\ Fetches(v, j, e) => u = v /\ i = j)'
  BY <1>6
<1> QED
  BY <1>7, <1>8, <1>9 DEF Fetching

-----------------------------------------------------------------------------
(* Pointers to objects that are gone *)

(* Places that are moved by m are not more than before.                    *)
LEMMA FewerMoved ==
  ASSUME NEW A \in SUBSET Nat, NEW B \in SUBSET Nat, IsFiniteSet(A), NEW m \in Nat,
         \A k \in B : k - m + 1 \in A
  PROVE  Cardinality(B) <= Cardinality(A)
<1> DEFINE f == [k \in B |-> k - m + 1]
<1>1. f \in [B -> A]
  OBVIOUS
<1>2. \A j, k \in B : f[j] = f[k] => j = k
  OBVIOUS
<1>3. f \in Injection(B, A)
  BY <1>1, <1>2 DEF Injection, IsInjective
<1> QED
  BY <1>3, FS_Injection

(* The pointers of a thread to deleted objects can be counted.             *)
LEMMA DanglingFinite ==
  ASSUME TodoOK, NEW t \in Threads
  PROVE  /\ IsFiniteSet(Dangling(t)) /\ Dangling(t) \in SUBSET Nat
         /\ Cardinality(Dangling(t)) <= Cardinality(Dangling(t))
<1>1. todo[t] \in Seq(Steps)
  BY DEF TodoOK
<1>2. DOMAIN todo[t] = 1..Len(todo[t]) /\ Len(todo[t]) \in Nat
  BY <1>1
<1>3. Dangling(t) \in SUBSET (1..Len(todo[t]))
  BY <1>2 DEF Dangling
<1>4. IsFiniteSet(1..Len(todo[t]))
  BY <1>2, FS_Interval
<1>5. IsFiniteSet(Dangling(t))
  BY <1>3, <1>4, FS_Subset
<1>6. Cardinality(Dangling(t)) \in Nat
  BY <1>5, FS_CardinalityType
<1> QED
  BY <1>3, <1>5, <1>6

(* None are added by a step that adds only good ones.                      *)
LEMMA DanglingThen ==
  ASSUME TodoOK, NEW t \in Threads, todo[t] # << >>,
         NEW s \in Seq(Steps), \A i \in DOMAIN s : s[i].ok, todo' = Then(t, s)
  PROVE  \A u \in Threads : Cardinality(Dangling(u)') <= Cardinality(Dangling(u))
<1> DEFINE q == todo[t]
           r == s \o Tail(q)
           m == Len(s)
<1>1. q \in Seq(Steps) /\ q # << >>
  BY DEF TodoOK
<1>2. todo'[t] = r /\ \A u \in Threads \ {t} : todo'[u] = todo[u]
  BY ThenTodo
<1>3. /\ \A k \in DOMAIN r :
           \/ k \in DOMAIN s /\ r[k] = s[k] /\ k <= m
           \/ k > m /\ k - m + 1 \in DOMAIN q /\ k - m + 1 # 1 /\ r[k] = q[k - m + 1]
      /\ m \in Nat /\ DOMAIN r \in SUBSET Nat
  BY <1>1, Moved
<1> HIDE DEF q, r, m
<1>4. Dangling(t)' \in SUBSET Nat /\ \A k \in Dangling(t)' : k - m + 1 \in Dangling(t)
  <2>1. Dangling(t)' = {k \in DOMAIN r : ~r[k].ok}
    BY <1>2 DEF Dangling
  <2>2. ASSUME NEW k \in DOMAIN r, ~r[k].ok PROVE k - m + 1 \in Dangling(t)
    <3>1. k - m + 1 \in DOMAIN q /\ r[k] = q[k - m + 1]
      BY <1>3, <2>2
    <3> QED
      BY <2>2, <3>1 DEF Dangling, q
  <2> QED
    BY <1>3, <2>1, <2>2
<1>5. Cardinality(Dangling(t)') <= Cardinality(Dangling(t))
  BY <1>3, <1>4, DanglingFinite, FewerMoved
<1>6. ASSUME NEW u \in Threads, u # t PROVE Cardinality(Dangling(u)') <= Cardinality(Dangling(u))
  <2>1. Dangling(u)' = Dangling(u)
    BY <1>2, <1>6 DEF Dangling
  <2> QED
    BY <2>1, DanglingFinite
<1> QED
  BY <1>5, <1>6

-----------------------------------------------------------------------------
(* The steps of CCachedDirectory *)

(* The step the thread is at.                                              *)
LEMMA AtStep ==
  ASSUME IInv, ~Undefined, NEW t \in Threads, NEW op, At(t, op)
  PROVE  /\ todo[t] # << >> /\ todo[t] \in Seq(Steps) /\ todo[t][1].op = op
         /\ todo[t][1].dir = this(t) /\ todo[t][1].arg = arg(t)
         /\ this(t) \in Dirs \cup {NoDir} /\ arg(t) \in Dirs \cup {NoDir}
         /\ op \notin {"leave", "refresh"} => this(t) \in Dirs
         /\ op \in {"report", "setChild", "first", "second", "reply", "tell"} => arg(t) \in Dirs
         /\ op \in {"report", "setChild"} => this(t) < arg(t)
         /\ op \in Uses => todo[t][1].ok /\ this(t) \in m_directoryCache
         /\ op \notin Upgrades \cup Writes => t \in readers
<1>1. todo[t] # << >> /\ todo[t] \in Seq(Steps)
  BY DEF IInv, TodoOK, At
<1>2. Head(todo[t]) = todo[t][1] /\ 1 \in DOMAIN todo[t] /\ todo[t][1] \in Steps
  BY <1>1
<1>3. todo[t][1].op = op /\ todo[t][1].dir = this(t) /\ todo[t][1].arg = arg(t)
  BY <1>2 DEF At, this, arg
<1>4. /\ this(t) \in Dirs \cup {NoDir} /\ arg(t) \in Dirs \cup {NoDir}
      /\ op \notin {"leave", "refresh"} => this(t) \in Dirs
      /\ op \in {"report", "setChild", "first", "second", "reply", "tell"} => arg(t) \in Dirs
      /\ op \in {"report", "setChild"} => this(t) < arg(t)
  BY <1>2, <1>3 DEF Steps
<1>5. op \in Uses => todo[t][1].ok
  BY <1>1, <1>2, <1>3 DEF Undefined
<1>6. op \in Uses => this(t) \in m_directoryCache
  BY <1>2, <1>3, <1>5 DEF IInv, CallsOK, Live
<1>7. op \notin Upgrades \cup Writes => t \in readers
  BY <1>1, <1>3, Inside
<1> QED
  BY <1>1, <1>3, <1>4, <1>5, <1>6, <1>7

Fewer == \A u \in Threads : Cardinality(Dangling(u)') <= Cardinality(Dangling(u))

(* A reader goes on with fresh steps and touches no flag.                  *)
LEMMA GoesOn ==
  ASSUME IInv, NEW t \in Threads, todo[t] # << >>, t \in readers, todo[t][1].op # "fetched",
         NEW s \in Seq(Fresh), Local(t, s), m_FetchingStatus' = m_FetchingStatus,
         ChildrenOK'
  PROVE  IInv' /\ Fewer
<1>1. s \in Seq(Steps)
  BY DEF Fresh
<1>2. \A i \in DOMAIN s :
        /\ s[i].op \notin Writes \cup {"leave", "crawl", "remove", "fetched"} /\ s[i].ok
        /\ s[i].op \in Uses => s[i].dir \in m_directoryCache
  <2>1. \A i \in DOMAIN s : s[i] \in Fresh
    OBVIOUS
  <2> QED
    BY <2>1 DEF Fresh
<1>3. /\ todo' = Then(t, s) /\ m_directoryCache' = m_directoryCache
      /\ UNCHANGED diskVars /\ UNCHANGED guardVars /\ UNCHANGED bounds
  BY DEF Local, Continue
<1>4. GuardOK' /\ TodoOK' /\ CallsOK' /\ Admitted' /\ Asking'
  BY <1>1, <1>2, <1>3, LocalKeeps
<1>5. Fetching'
  BY <1>1, <1>2, <1>3, FetchKept
<1>6. MapOK'
  BY <1>3 DEF IInv, MapOK, diskVars, bounds
<1>7. Fewer
  BY <1>1, <1>2, <1>3, DanglingThen DEF Fewer, IInv
<1> QED
  BY <1>4, <1>5, <1>6, <1>7 DEF IInv

(* The steps that a method adds.                                           *)
LEMMA FreshStep ==
  ASSUME NEW op \in Uses \cup {"get", "first", "second", "reply"}, op # "fetched",
         NEW d \in Dirs, op \in Uses => d \in m_directoryCache,
         NEW p \in Dirs \cup {NoDir},
         op \in {"report", "setChild", "first", "second", "reply", "tell"} => p \in Dirs,
         op \in {"report", "setChild"} => d < p
  PROVE  Step(op, d, p) \in Fresh
<1>1. op \in Uses \cup Reads \cup Writes /\ op \notin Writes \cup {"leave", "crawl", "remove", "fetched"}
  BY DEF Uses, Reads, Writes
<1>2. Step(op, d, p) \in Steps /\ Step(op, d, p).op = op /\ Step(op, d, p).dir = d /\ Step(op, d, p).ok
  BY <1>1, StepFacts
<1> QED
  BY <1>1, <1>2 DEF Fresh

(* A lookup uses no object yet.                                            *)
LEMMA FreshGet ==
  ASSUME NEW d \in Dirs
  PROVE  Step("get", d, NoDir) \in Fresh /\ Get(d) \in Seq(Fresh)
<1>1. Step("get", d, NoDir) \in Fresh
  BY FreshStep DEF Uses
<1> QED
  BY <1>1 DEF Get

(* The steps of UpdateCurrentStatus, on an object that is there.           *)
LEMMA FreshTell ==
  ASSUME MapOK, NEW d \in m_directoryCache
  PROVE  UpdateCurrentStatus(d) \in Seq(Fresh) /\ OwnStatus(d) \in Seq(Fresh)
<1>1. d \in Dirs
  BY DEF MapOK
<1>2. UpdateCurrentStatus(d) \in Seq(Fresh)
  <2>1. CASE Parent[d] = NoDir
    BY <2>1 DEF UpdateCurrentStatus
  <2>2. CASE Parent[d] # NoDir
    <3>1. Parent[d] \in Dirs
      BY <1>1, <2>2, ParentIsTree
    <3>2. Step("get", Parent[d], NoDir) \in Fresh
      BY <3>1, FreshGet
    <3>3. Step("tell", d, Parent[d]) \in Fresh
      BY <1>1, <3>1, FreshStep DEF Uses
    <3> QED
      BY <2>2, <3>2, <3>3 DEF UpdateCurrentStatus
  <2> QED
    BY <2>1, <2>2
<1>3. Step("status", d, NoDir) \in Fresh
  BY <1>1, FreshStep DEF Uses
<1> DEFINE one == <<Step("status", d, NoDir)>>
<1>4. one \in Seq(Fresh)
  BY <1>3
<1> HIDE DEF one
<1>5. UpdateCurrentStatus(d) \o one \in Seq(Fresh)
  BY <1>2, <1>4, Joined
<1> QED
  BY <1>2, <1>5 DEF OwnStatus, one

Stays == UNCHANGED <<m_childDirectories, m_FetchingStatus>>

(* What Stays says of the map.                                             *)
LEMMA StaysOK ==
  ASSUME IInv, Stays
  PROVE  ChildrenOK' /\ m_FetchingStatus' = m_FetchingStatus
BY DEF IInv, MapOK, ChildrenOK, Stays

(* A method may just return.                                               *)
LEMMA EmptyFresh == << >> \in Seq(Fresh)
OBVIOUS

(* Each method of CCachedDirectory, in the order of the model.             *)
LEMMA FindKeeps ==
  ASSUME IInv, ~Undefined, NEW t \in Threads, Find(t)
  PROVE  IInv' /\ Fewer
<1>1. Local(t, << >>) /\ Stays /\ At(t, "get") /\ t \in readers
  BY DEF Find, Local, Stays, mapVars
<1>2. todo[t] # << >> /\ todo[t][1].op # "fetched"
  BY <1>1, AtStep
<1> QED
  BY <1>1, <1>2, StaysOK, EmptyFresh, GoesOn

LEMMA AnswerKeeps ==
  ASSUME IInv, ~Undefined, NEW t \in Threads, Answer(t)
  PROVE  IInv' /\ Fewer
<1>1. Stays /\ At(t, "member")
  BY DEF Answer, Stays
<1>2. todo[t] # << >> /\ todo[t][1].op # "fetched" /\ t \in readers
  BY <1>1, AtStep DEF Upgrades, Writes
<1>3. CASE Local(t, << >>)
  BY <1>1, <1>2, <1>3, StaysOK, EmptyFresh, GoesOn
<1>4. CASE arg(t) \in m_directoryCache /\ Local(t, OwnStatus(arg(t)))
  <2>1. OwnStatus(arg(t)) \in Seq(Fresh)
    BY <1>4, FreshTell DEF IInv
  <2> QED
    BY <1>1, <1>2, <1>4, <2>1, StaysOK, GoesOn
<1> QED
  BY <1>3, <1>4 DEF Answer

LEMMA StartFetchKeeps ==
  ASSUME IInv, ~Undefined, NEW t \in Threads, StartFetch(t)
  PROVE  IInv' /\ Fewer
<1> DEFINE d == this(t)
<1>1. At(t, "member")
  BY DEF StartFetch
<1>2. /\ todo[t] # << >> /\ todo[t][1].op # "fetched" /\ t \in readers
      /\ d \in m_directoryCache /\ d \in Dirs /\ arg(t) \in Dirs \cup {NoDir}
  BY <1>1, AtStep DEF Upgrades, Writes, Uses
<1>3. ChildrenOK' /\ m_FetchingStatus' = m_FetchingStatus
  BY DEF StartFetch, IInv, MapOK, ChildrenOK
<1>4. CASE Local(t, <<Step("exchange", d, arg(t))>>)
  <2>1. Step("exchange", d, arg(t)) \in Fresh
    BY <1>2, FreshStep DEF Uses
  <2>2. <<Step("exchange", d, arg(t))>> \in Seq(Fresh)
    BY <2>1
  <2> QED
    BY <1>2, <1>3, <1>4, <2>2, GoesOn
<1>5. CASE Local(t, UpdateCurrentStatus(d) \o <<Step("store", d, arg(t))>>)
  <2>1. Step("store", d, arg(t)) \in Fresh
    BY <1>2, FreshStep DEF Uses
  <2>2. <<Step("store", d, arg(t))>> \in Seq(Fresh)
    BY <2>1
  <2>3. UpdateCurrentStatus(d) \in Seq(Fresh)
    BY <1>2, FreshTell DEF IInv
  <2>4. UpdateCurrentStatus(d) \o <<Step("store", d, arg(t))>> \in Seq(Fresh)
    BY <2>2, <2>3, Joined
  <2> QED
    BY <1>2, <1>3, <1>5, <2>4, GoesOn
<1> QED
  BY <1>4, <1>5 DEF StartFetch

LEMMA ReportKeeps ==
  ASSUME IInv, ~Undefined, NEW t \in Threads, Report(t)
  PROVE  IInv' /\ Fewer
<1> DEFINE c == arg(t)
<1>1. At(t, "report")
  BY DEF Report
<1>2. /\ todo[t] # << >> /\ todo[t][1].op # "fetched" /\ t \in readers
      /\ this(t) \in m_directoryCache /\ this(t) \in Dirs /\ c \in Dirs /\ this(t) < c
  BY <1>1, AtStep DEF Upgrades, Writes, Uses
<1>3. ChildrenOK' /\ m_FetchingStatus' = m_FetchingStatus
  BY <1>2 DEF Report, IInv, MapOK, ChildrenOK
<1>4. CASE Local(t, Get(c))
  BY <1>2, <1>3, <1>4, FreshGet, GoesOn
<1>5. CASE Local(t, <<Step("get", c, NoDir), Step("setChild", this(t), c)>>)
  <2>1. Step("get", c, NoDir) \in Fresh /\ Step("setChild", this(t), c) \in Fresh
    BY <1>2, FreshGet, FreshStep DEF Uses
  <2>2. <<Step("get", c, NoDir), Step("setChild", this(t), c)>> \in Seq(Fresh)
    BY <2>1
  <2> QED
    BY <1>2, <1>3, <1>5, <2>2, GoesOn
<1> QED
  BY <1>4, <1>5 DEF Report

LEMMA SetChildStatusKeeps ==
  ASSUME IInv, ~Undefined, NEW t \in Threads, SetChildStatus(t)
  PROVE  IInv' /\ Fewer
<1>1. At(t, "setChild") /\ Local(t, Get(arg(t)))
  BY DEF SetChildStatus
<1>2. /\ todo[t] # << >> /\ todo[t][1].op # "fetched" /\ t \in readers
      /\ this(t) \in Dirs /\ arg(t) \in Dirs /\ this(t) < arg(t)
  BY <1>1, AtStep DEF Upgrades, Writes, Uses
<1>3. ChildrenOK' /\ m_FetchingStatus' = m_FetchingStatus
  BY <1>2 DEF SetChildStatus, IInv, MapOK, ChildrenOK
<1> QED
  BY <1>1, <1>2, <1>3, FreshGet, GoesOn

LEMMA TellParentKeeps ==
  ASSUME IInv, ~Undefined, NEW t \in Threads, TellParent(t)
  PROVE  IInv' /\ Fewer
<1>1. Stays /\ At(t, "tell")
  BY DEF TellParent, Stays
<1>2. todo[t] # << >> /\ todo[t][1].op # "fetched" /\ t \in readers
  BY <1>1, AtStep DEF Upgrades, Writes
<1>3. CASE Local(t, << >>)
  BY <1>1, <1>2, <1>3, StaysOK, EmptyFresh, GoesOn
<1>4. CASE arg(t) \in m_directoryCache /\ Local(t, UpdateCurrentStatus(arg(t)))
  <2>1. UpdateCurrentStatus(arg(t)) \in Seq(Fresh)
    BY <1>4, FreshTell DEF IInv
  <2> QED
    BY <1>1, <1>2, <1>4, <2>1, StaysOK, GoesOn
<1> QED
  BY <1>3, <1>4 DEF TellParent

LEMMA StoreKeeps ==
  ASSUME IInv, ~Undefined, NEW t \in Threads, Store(t)
  PROVE  IInv' /\ Fewer
<1> DEFINE p == arg(t)
<1>1. Stays /\ At(t, "store")
  BY DEF Store, Stays
<1>2. /\ todo[t] # << >> /\ todo[t][1].op # "fetched" /\ t \in readers
      /\ this(t) \in Dirs /\ p \in Dirs \cup {NoDir}
  BY <1>1, AtStep DEF Upgrades, Writes, Uses
<1>3. CASE p = NoDir
  <2>1. Local(t, << >>)
    BY <1>3 DEF Store
  <2> QED
    BY <1>1, <1>2, <2>1, StaysOK, EmptyFresh, GoesOn
<1>4. CASE p # NoDir
  <2>1. Local(t, Get(p) \o <<Step("reply", this(t), p)>>) /\ p \in Dirs
    BY <1>2, <1>4 DEF Store
  <2>2. Step("reply", this(t), p) \in Fresh
    BY <1>2, <2>1, FreshStep DEF Uses
  <2>3. <<Step("reply", this(t), p)>> \in Seq(Fresh)
    BY <2>2
  <2>4. Get(p) \o <<Step("reply", this(t), p)>> \in Seq(Fresh)
    BY <2>1, <2>3, FreshGet, Joined
  <2> QED
    BY <1>1, <1>2, <2>1, <2>4, StaysOK, GoesOn
<1> QED
  BY <1>3, <1>4

LEMMA ReplyKeeps ==
  ASSUME IInv, ~Undefined, NEW t \in Threads, Reply(t)
  PROVE  IInv' /\ Fewer
<1> DEFINE p == arg(t)
<1>1. Stays /\ At(t, "reply")
  BY DEF Reply, Stays
<1>2. todo[t] # << >> /\ todo[t][1].op # "fetched" /\ t \in readers /\ p \in Dirs
  BY <1>1, AtStep DEF Upgrades, Writes
<1>3. CASE Local(t, << >>)
  BY <1>1, <1>2, <1>3, StaysOK, EmptyFresh, GoesOn
<1>4. CASE p \in m_directoryCache /\ Local(t, OwnStatus(p))
  <2>1. OwnStatus(p) \in Seq(Fresh)
    BY <1>4, FreshTell DEF IInv
  <2> QED
    BY <1>1, <1>2, <1>4, <2>1, StaysOK, GoesOn
<1>5. CASE p \in m_directoryCache /\ Local(t, <<Step("member", p, p)>>)
  <2>1. Step("member", p, p) \in Fresh
    BY <1>2, <1>5, FreshStep DEF Uses
  <2>2. <<Step("member", p, p)>> \in Seq(Fresh)
    BY <2>1
  <2> QED
    BY <1>1, <1>2, <1>5, <2>2, StaysOK, GoesOn
<1> QED
  BY <1>3, <1>4, <1>5 DEF Reply

LEMMA MembersKeeps ==
  ASSUME IInv, ~Undefined, NEW t \in Threads, Members(t)
  PROVE  IInv' /\ Fewer
<1> DEFINE d == this(t)
<1>1. Stays /\ At(t, "members")
  BY DEF Members, Stays
<1>2. /\ todo[t] # << >> /\ todo[t][1].op # "fetched" /\ t \in readers
      /\ d \in Dirs /\ d \in m_directoryCache
  BY <1>1, AtStep DEF Upgrades, Writes, Uses
<1>3. CASE Local(t, << >>)
  BY <1>1, <1>2, <1>3, StaysOK, EmptyFresh, GoesOn
<1>4. CASE Local(t, <<Step("member", d, NoDir), Step("status", d, NoDir)>>)
  <2>1. Step("member", d, NoDir) \in Fresh /\ Step("status", d, NoDir) \in Fresh
    BY <1>2, FreshStep DEF Uses
  <2>2. <<Step("member", d, NoDir), Step("status", d, NoDir)>> \in Seq(Fresh)
    BY <2>1
  <2> QED
    BY <1>1, <1>2, <1>4, <2>2, StaysOK, GoesOn
<1> QED
  BY <1>3, <1>4 DEF Members

LEMMA StatusKeeps ==
  ASSUME IInv, ~Undefined, NEW t \in Threads, Status(t)
  PROVE  IInv' /\ Fewer
<1>1. Stays /\ At(t, "status") /\ Local(t, << >>)
  BY DEF Status, Stays
<1>2. todo[t] # << >> /\ todo[t][1].op # "fetched" /\ t \in readers
  BY <1>1, AtStep DEF Upgrades, Writes
<1> QED
  BY <1>1, <1>2, StaysOK, EmptyFresh, GoesOn

(* The crawler goes on to remove the directory that it does not find.      *)
LEMMA RemoveFollows ==
  ASSUME IInv, ~Undefined, NEW t \in Threads, At(t, "crawl"), Stays,
         Local(t, <<Step("remove", this(t), NoDir)>>)
  PROVE  IInv' /\ Fewer
<1> DEFINE d == this(t)
           s == <<Step("remove", d, NoDir)>>
<1>1. todo[t] # << >> /\ todo[t][1].op = "crawl" /\ t \in readers /\ d \in Dirs
  BY AtStep DEF Upgrades, Writes
<1>2. "remove" \in Reads /\ "remove" \notin Uses \cup Writes
  BY DEF Reads, Uses, Writes
<1>3. /\ Step("remove", d, NoDir) \in Steps /\ Step("remove", d, NoDir).op = "remove"
      /\ Step("remove", d, NoDir).ok
  BY <1>1, <1>2, StepFacts
<1>4. s \in Seq(Steps) /\ Len(s) = 1 /\ \A i \in DOMAIN s : s[i].op = "remove" /\ s[i].ok
  BY <1>3
<1>5. /\ todo' = Then(t, s) /\ m_directoryCache' = m_directoryCache
      /\ UNCHANGED diskVars /\ UNCHANGED guardVars /\ UNCHANGED bounds
  BY DEF Local, Continue
<1> HIDE DEF s, d
<1>6. GuardOK' /\ TodoOK' /\ CallsOK' /\ Admitted' /\ Asking'
  BY <1>1, <1>2, <1>4, <1>5, LocalKeeps
<1>7. Fetching'
  BY <1>1, <1>4, <1>5, StaysOK, FetchKept
<1>8. MapOK'
  BY <1>5, StaysOK DEF IInv, MapOK, diskVars, bounds
<1>9. Fewer
  BY <1>1, <1>4, <1>5, DanglingThen DEF Fewer, IInv
<1> QED
  BY <1>6, <1>7, <1>8, <1>9 DEF IInv

(* GetDirectoryCacheEntry, with what each caller makes of its result.      *)
LEMMA EntryKeeps ==
  ASSUME IInv, ~Undefined, NEW t \in Threads, Entry(t)
  PROVE  IInv' /\ Fewer
<1> DEFINE d == this(t)
           p == arg(t)
<1>1. Stays /\ \E op \in {"first", "second", "crawl"} : At(t, op)
  BY DEF Entry, Stays
<1>2. todo[t] # << >> /\ todo[t][1].op # "fetched" /\ t \in readers /\ d \in Dirs
  BY <1>1, AtStep DEF Upgrades, Writes
<1>3. ASSUME NEW s \in Seq(Fresh), Local(t, s) PROVE IInv' /\ Fewer
  BY <1>1, <1>2, <1>3, StaysOK, GoesOn
<1>4. ASSUME d \in m_directoryCache, NEW a \in Dirs, Local(t, <<Step("member", d, a)>>)
      PROVE  IInv' /\ Fewer
  <2>1. Step("member", d, a) \in Fresh
    BY <1>2, <1>4, FreshStep DEF Uses
  <2>2. <<Step("member", d, a)>> \in Seq(Fresh)
    BY <2>1
  <2> QED
    BY <1>3, <1>4, <2>2
<1>5. CASE At(t, "first") /\ d \notin m_directoryCache
           /\ Local(t, Get(p) \o <<Step("second", p, p)>>)
  <2>1. p \in Dirs
    BY <1>5, AtStep
  <2>2. Step("second", p, p) \in Fresh
    BY <2>1, FreshStep DEF Uses
  <2>3. <<Step("second", p, p)>> \in Seq(Fresh)
    BY <2>2
  <2>4. Get(p) \o <<Step("second", p, p)>> \in Seq(Fresh)
    BY <2>1, <2>3, FreshGet, Joined
  <2> QED
    BY <1>3, <1>5, <2>4
<1>6. CASE (At(t, "first") \/ At(t, "second")) /\ d \in m_directoryCache
           /\ Local(t, <<Step("member", d, p)>>)
  <2>1. p \in Dirs
    BY <1>6, AtStep
  <2> QED
    BY <1>4, <1>6, <2>1
<1>7. CASE Local(t, << >>)
  BY <1>3, <1>7, EmptyFresh
<1>8. CASE d \in m_directoryCache /\ Local(t, <<Step("member", d, d), Step("members", d, NoDir)>>)
  <2>1. Step("member", d, d) \in Fresh /\ Step("members", d, NoDir) \in Fresh
    BY <1>2, <1>8, FreshStep DEF Uses
  <2>2. <<Step("member", d, d), Step("members", d, NoDir)>> \in Seq(Fresh)
    BY <2>1
  <2> QED
    BY <1>3, <1>8, <2>2
<1>9. CASE At(t, "crawl") /\ Local(t, <<Step("remove", d, NoDir)>>)
  BY <1>1, <1>9, RemoveFollows
<1> QED
  BY <1>5, <1>6, <1>7, <1>8, <1>9 DEF Entry

(* The steps of a fetch of d that begins.                                  *)
LEMMA FetchStarts ==
  ASSUME IInv, NEW t \in Threads, todo[t] # << >>, t \in readers, todo[t][1].op # "fetched",
         NEW d \in Dirs, d \in m_directoryCache, d \notin m_FetchingStatus,
         NEW s \in Seq(Steps), NEW k \in DOMAIN s, k \in Nat,
         s[k].op = "fetched",
         \A i \in DOMAIN s :
           /\ s[i].op \in {"report", "fetched", "store"} /\ s[i].dir = d /\ s[i].ok
           /\ s[i].op = "fetched" => i = k,
         Local(t, s), m_childDirectories' = m_childDirectories,
         m_FetchingStatus' = m_FetchingStatus \cup {d}
  PROVE  IInv' /\ Fewer
<1>1. /\ todo' = Then(t, s) /\ m_directoryCache' = m_directoryCache
      /\ UNCHANGED diskVars /\ UNCHANGED guardVars /\ UNCHANGED bounds
  BY DEF Local, Continue
<1>2. \A i \in DOMAIN s :
        /\ s[i].op \notin Writes \cup {"leave", "crawl"} /\ s[i].op # "remove"
        /\ s[i].op \in Uses => s[i].dir \in m_directoryCache
  BY DEF Writes
<1>3. GuardOK' /\ TodoOK' /\ CallsOK' /\ Admitted' /\ Asking'
  BY <1>1, <1>2, LocalKeeps
<1>4. Fetching'
  <2>1. s[k].op = "fetched" /\ s[k].dir = d /\ s[k].ok /\ \A i \in DOMAIN s : s[i].op = "fetched" => i = k
    OBVIOUS
  <2> QED
    BY <1>1, <2>1, FetchBegins
<1>5. MapOK'
  BY <1>1 DEF IInv, MapOK, ChildrenOK, diskVars, bounds
<1>6. Fewer
  BY <1>1, DanglingThen DEF Fewer, IInv
<1> QED
  BY <1>3, <1>4, <1>5, <1>6 DEF IInv

(* The flag is read and set at once, so two fetches of d are never begun.  *)
LEMMA ExchangeKeeps ==
  ASSUME IInv, ~Undefined, NEW t \in Threads, Exchange(t)
  PROVE  IInv' /\ Fewer
<1> DEFINE d == this(t)
           p == arg(t)
<1>1. At(t, "exchange")
  BY DEF Exchange
<1>2. /\ todo[t] # << >> /\ todo[t][1].op # "fetched" /\ t \in readers
      /\ d \in Dirs /\ d \in m_directoryCache /\ p \in Dirs \cup {NoDir}
  BY <1>1, AtStep DEF Upgrades, Writes, Uses
<1>3. CASE d \in m_FetchingStatus
  <2>1. Local(t, << >>) /\ Stays
    BY <1>3 DEF Exchange, Stays
  <2> QED
    BY <1>2, <2>1, StaysOK, EmptyFresh, GoesOn
<1>4. CASE d \notin m_FetchingStatus
  <2>1. m_childDirectories' = m_childDirectories /\ m_FetchingStatus' = m_FetchingStatus \cup {d}
    BY <1>4 DEF Exchange
  <2>2. {"report", "fetched", "store"} \in SUBSET Uses
    BY DEF Uses
  <2>3. ASSUME NEW a \in Dirs \cup {NoDir}
        PROVE  /\ Step("fetched", d, a) \in Steps
               /\ Step("fetched", d, a).op = "fetched" /\ Step("fetched", d, a).dir = d
               /\ Step("fetched", d, a).ok
    BY <1>2, <2>2, StepFacts
  <2>4. CASE Local(t, <<Step("fetched", d, NoDir)>>)
    <3> DEFINE s == <<Step("fetched", d, NoDir)>>
    <3>1. /\ s \in Seq(Steps) /\ 1 \in DOMAIN s /\ s[1].op = "fetched"
          /\ \A i \in DOMAIN s :
               s[i].op \in {"report", "fetched", "store"} /\ s[i].dir = d /\ s[i].ok /\ i = 1
      BY <2>3
    <3> HIDE DEF s
    <3>2. Local(t, s)
      BY <2>4 DEF s
    <3> QED
      BY <1>2, <1>4, <2>1, <3>1, <3>2, FetchStarts
  <2>5. CASE Local(t, [i \in DOMAIN SubDirs(d) |-> Step("report", d, SubDirs(d)[i])]
                      \o <<Step("fetched", d, d), Step("store", d, p)>>)
    <3> DEFINE o == SubDirs(d)
               a == [i \in DOMAIN o |-> Step("report", d, o[i])]
               b == <<Step("fetched", d, d), Step("store", d, p)>>
               s == a \o b
               n == Len(o)
    <3>1. o \in Seq(Dirs) /\ \A i \in DOMAIN o : d < o[i]
      <4> DEFINE S == {c \in exists : Parent[c] = d}
      <4>1. S \in SUBSET Dirs
        BY DEF IInv, MapOK
      <4>0. \A c \in S : d < c
        BY <1>2, <4>1, DirsAreRanks, ParentIsTree
      <4>2. Dirs \in SUBSET Int /\ IsFiniteSet(S)
        BY <4>1, DirsAreRanks, FS_Subset
      <4>3. InOrder(S) \in Seq(Dirs) /\ \A i \in DOMAIN InOrder(S) : d < InOrder(S)[i]
        <5> HIDE DEF S, d
        <5>1. InOrder(S) \in Seq(Dirs) /\ Range(InOrder(S)) = S
          BY <4>1, <4>2, InOrderEffect
        <5>2. \A i \in DOMAIN InOrder(S) : InOrder(S)[i] \in S
          BY <5>1 DEF Range
        <5> QED
          BY <4>0, <5>1, <5>2
      <4> QED
        BY <4>3 DEF SubDirs
    <3> HIDE DEF o
    <3>2. n \in Nat /\ DOMAIN o = 1..n /\ \A i \in 1..n : o[i] \in Dirs /\ d < o[i]
      BY <3>1
    <3>3. \A e \in Dirs : d < e => /\ Step("report", d, e) \in Steps
                          /\ Step("report", d, e).op = "report" /\ Step("report", d, e).dir = d
                          /\ Step("report", d, e).ok
      BY <1>2, <2>2, StepFacts
    <3>4. /\ Step("store", d, p) \in Steps
          /\ Step("store", d, p).op = "store" /\ Step("store", d, p).dir = d /\ Step("store", d, p).ok
      BY <1>2, <2>2, StepFacts
    <3>5. a \in Seq(Steps) /\ Len(a) = n
          /\ \A i \in 1..n : a[i].op = "report" /\ a[i].dir = d /\ a[i].ok
      <4> HIDE DEF n
      <4>1. a \in [1..n -> Steps] /\ \A i \in 1..n : a[i] = Step("report", d, o[i])
        BY <3>2, <3>3
      <4>2. a \in Seq(Steps) /\ Len(a) = n
        <5> HIDE DEF a
        <5> QED
          BY <3>2, <4>1
      <4> QED
        BY <3>2, <3>3, <4>1, <4>2
    <3>6. /\ b \in Seq(Steps) /\ Len(b) = 2
          /\ b[1].op = "fetched" /\ b[1].dir = d /\ b[1].ok
          /\ b[2].op = "store" /\ b[2].dir = d /\ b[2].ok
      BY <1>2, <2>3, <3>4
    <3> HIDE DEF a, b, n, d
    <3>7. /\ s \in Seq(Steps) /\ Len(s) = n + 2
          /\ \A k \in 1..n + 2 : s[k] = IF k <= n THEN a[k] ELSE b[k - n]
      <4>1. a \in Seq(Steps) /\ b \in Seq(Steps)
        BY <3>5, <3>6
      <4>2. /\ a \o b \in Seq(Steps) /\ Len(a \o b) = Len(a) + Len(b)
            /\ \A k \in 1..Len(a) + Len(b) :
                 (a \o b)[k] = IF k <= Len(a) THEN a[k] ELSE b[k - Len(a)]
        BY <4>1, Joined
      <4> HIDE DEF s
      <4>3. s = a \o b
        BY DEF s
      <4> QED
        BY <3>5, <3>6, <4>2, <4>3
    <3>8. DOMAIN s = 1..n + 2
      BY <3>7
    <3> HIDE DEF s
    <3>9. n + 1 \in 1..n + 2 /\ s[n + 1] = b[1] /\ n + 2 \in 1..n + 2 /\ s[n + 2] = b[2]
      <4>1. n + 1 \in 1..n + 2 /\ ~(n + 1 <= n) /\ (n + 1) - n = 1
            /\ n + 2 \in 1..n + 2 /\ ~(n + 2 <= n) /\ (n + 2) - n = 2
        BY <3>2
      <4> QED
        BY <3>7, <4>1
    <3>10. ASSUME NEW i \in 1..n + 2
           PROVE  /\ s[i].op \in {"report", "fetched", "store"} /\ s[i].dir = d /\ s[i].ok
                  /\ s[i].op = "fetched" => i = n + 1
      <4>1. i \in 1..n \/ i = n + 1 \/ i = n + 2
        BY <3>2
      <4>2. CASE i \in 1..n
        <5>1. s[i] = a[i]
          BY <3>2, <3>7, <4>2
        <5> QED
          BY <3>5, <4>2, <5>1
      <4>3. CASE i = n + 1
        BY <3>6, <3>9, <4>3
      <4>4. CASE i = n + 2
        BY <3>6, <3>9, <4>4
      <4> QED
        BY <4>1, <4>2, <4>3, <4>4
    <3>11. s[n + 1].op = "fetched" /\ n + 1 \in DOMAIN s /\ n + 1 \in Nat
      BY <3>2, <3>6, <3>8, <3>9
    <3>12. Local(t, s)
      BY <2>5 DEF s, a, b, o, d
    <3> QED
      BY <1>2, <1>4, <2>1, <3>7, <3>8, <3>10, <3>11, <3>12, FetchStarts
  <2> QED
    BY <1>4, <2>4, <2>5 DEF Exchange
<1> QED
  BY <1>3, <1>4

(* The fetch ends: the flag was that of its own object.                    *)
LEMMA FetchedKeeps ==
  ASSUME IInv, ~Undefined, NEW t \in Threads, Fetched(t)
  PROVE  IInv' /\ Fewer
<1> DEFINE d == this(t)
           s == IF arg(t) = NoDir THEN << >> ELSE UpdateCurrentStatus(d)
<1>1. /\ At(t, "fetched") /\ Local(t, s) /\ m_childDirectories' = m_childDirectories
      /\ m_FetchingStatus' = m_FetchingStatus \ {d}
  BY DEF Fetched
<1>2. /\ todo[t] # << >> /\ todo[t] \in Seq(Steps) /\ todo[t][1].op = "fetched"
      /\ todo[t][1].dir = d /\ todo[t][1].ok /\ t \in readers
      /\ d \in Dirs /\ d \in m_directoryCache
  BY <1>1, AtStep DEF Upgrades, Writes, Uses
<1>3. s \in Seq(Fresh)
  BY <1>2, FreshTell, EmptyFresh DEF IInv
<1> HIDE DEF s
<1>4. s \in Seq(Steps)
  BY <1>3 DEF Fresh
<1>5. \A i \in DOMAIN s :
        /\ s[i].op \notin Writes \cup {"leave", "crawl", "remove", "fetched"} /\ s[i].ok
        /\ s[i].op \in Uses => s[i].dir \in m_directoryCache
  <2>1. \A i \in DOMAIN s : s[i] \in Fresh
    BY <1>3
  <2> QED
    BY <2>1 DEF Fresh
<1>6. /\ todo' = Then(t, s) /\ m_directoryCache' = m_directoryCache
      /\ UNCHANGED diskVars /\ UNCHANGED guardVars /\ UNCHANGED bounds
  BY <1>1 DEF Local, Continue
<1>7. GuardOK' /\ TodoOK' /\ CallsOK' /\ Admitted' /\ Asking'
  BY <1>2, <1>4, <1>5, <1>6, LocalKeeps
<1>8. Fetches(t, 1, d)
  BY <1>2 DEF Fetches
<1>9. Fetching'
  BY <1>1, <1>2, <1>4, <1>5, <1>6, <1>8, FetchEnds
<1>10. MapOK'
  BY <1>1, <1>6 DEF IInv, MapOK, ChildrenOK, diskVars, bounds
<1>11. Fewer
  BY <1>2, <1>4, <1>5, <1>6, DanglingThen DEF Fewer, IInv
<1> QED
  BY <1>7, <1>9, <1>10, <1>11 DEF IInv

-----------------------------------------------------------------------------
(* Objects are deleted *)

(* After the objects of D are gone.                                        *)
Aged(new, old, D) ==
  /\ new.op = old.op /\ new.dir = old.dir /\ new.arg = old.arg
  /\ new.ok <=> old.ok /\ ~(old.op \in Uses /\ old.dir \in D)

(* A step after the objects of D are deleted.                              *)
LEMMA AgedStep ==
  ASSUME NEW step \in Steps, NEW D
  PROVE  LET new == [step EXCEPT !.ok = @ /\ ~(step.op \in Uses /\ step.dir \in D)]
         IN  new \in Steps /\ Aged(new, step, D)
<1> DEFINE b == step.ok /\ ~(step.op \in Uses /\ step.dir \in D)
           new == [step EXCEPT !.ok = b]
<1>1. b \in BOOLEAN
  OBVIOUS
<1>2. step \in [op : Uses \cup Reads \cup Writes, dir : Dirs \cup {NoDir}, arg : Dirs \cup {NoDir},
                ok : BOOLEAN]
  BY DEF Steps
<1> HIDE DEF b
<1>3. /\ new \in [op : Uses \cup Reads \cup Writes, dir : Dirs \cup {NoDir}, arg : Dirs \cup {NoDir},
                  ok : BOOLEAN]
      /\ new.op = step.op /\ new.dir = step.dir /\ new.arg = step.arg
  BY <1>1, <1>2
<1>4. new.ok = b
  BY <1>2
<1>5. Aged(new, step, D)
  <2>1. new.ok <=> b
    BY <1>4
  <2> QED
    BY <1>3, <2>1 DEF Aged, b
<1>6. new \in Steps
  <2>1. /\ step.op \notin {"leave", "refresh"} => step.dir \in Dirs
        /\ step.op \in {"report", "setChild", "first", "second", "reply", "tell"} => step.arg \in Dirs
        /\ step.op \notin Uses => step.ok
    BY DEF Steps
  <2>2. new.op \notin Uses => new.ok
    BY <1>3, <1>5, <2>1 DEF Aged
  <2> QED
    BY <1>3, <2>1, <2>2 DEF Steps
<1> QED
  BY <1>5, <1>6 DEF b

(* The same steps remain in the same order; those with pointers into D     *)
(* know of it.                                                             *)
LEMMA WithoutEffect ==
  ASSUME TodoOK, NEW t \in Threads, todo[t] # << >>, NEW D, ContinueWithout(t, << >>, D)
  PROVE  /\ \A u \in Threads \ {t} :
              /\ todo'[u] \in Seq(Steps) /\ Len(todo'[u]) = Len(todo[u])
              /\ DOMAIN todo'[u] = DOMAIN todo[u]
              /\ \A i \in DOMAIN todo[u] : Aged(todo'[u][i], todo[u][i], D)
         /\ todo'[t] \in Seq(Steps) /\ Len(todo[t]) \in Nat /\ Len(todo[t]) > 0
         /\ Len(todo'[t]) = Len(todo[t]) - 1
         /\ DOMAIN todo'[t] = 1..Len(todo[t]) - 1 /\ DOMAIN todo[t] = 1..Len(todo[t])
         /\ \A i \in 1..Len(todo[t]) - 1 : Aged(todo'[t][i], todo[t][i + 1], D)
         /\ TodoOK'
<1> DEFINE e == Then(t, << >>)
           new(step) == [step EXCEPT !.ok = @ /\ ~(step.op \in Uses /\ step.dir \in D)]
           q == todo[t]
           r == << >> \o Tail(q)
           n == Len(q)
<1>1. todo \in [Threads -> Seq(Steps)] /\ q \in Seq(Steps) /\ << >> \in Seq(Steps)
  BY DEF TodoOK
<1>2. /\ e[t] = r /\ \A u \in Threads \ {t} : e[u] = todo[u]
      /\ e \in [Threads -> Seq(Steps)]
  BY <1>1, ThenTodo
<1>3. /\ r \in Seq(Steps) /\ n \in Nat /\ n > 0 /\ Len(r) = n - 1
      /\ DOMAIN r = 1..n - 1 /\ DOMAIN q = 1..n
      /\ \A k \in 1..n - 1 : r[k] = q[k + 1]
  <2> DEFINE m == Len(<< >>)
  <2>1. m = 0
    OBVIOUS
  <2>2. /\ r \in Seq(Steps) /\ n \in Nat /\ n > 0 /\ Len(r) = m + n - 1
        /\ DOMAIN r = 1..(m + n - 1) /\ DOMAIN q = 1..n
        /\ \A k \in 1..(m + n - 1) : k > m => r[k] = q[k - m + 1]
    BY <1>1, ThenEffect
  <2> HIDE DEF r, n, q, m
  <2>3. m + n - 1 = n - 1 /\ \A k \in 1..n - 1 : k > m /\ k - m + 1 = k + 1
    BY <2>1, <2>2
  <2> QED
    BY <2>2, <2>3
<1>4. todo' = [u \in Threads |-> [i \in DOMAIN e[u] |-> new(e[u][i])]]
  BY DEF ContinueWithout
<1>5. ASSUME NEW step \in Steps PROVE new(step) \in Steps /\ Aged(new(step), step, D)
  BY AgedStep
<1> HIDE DEF new, e, r, q, n
<1>6. ASSUME NEW u \in Threads
      PROVE  /\ todo'[u] \in Seq(Steps) /\ Len(todo'[u]) = Len(e[u])
             /\ DOMAIN todo'[u] = DOMAIN e[u]
             /\ \A i \in DOMAIN e[u] : Aged(todo'[u][i], e[u][i], D)
  <2> DEFINE a == e[u]
             b == [i \in DOMAIN a |-> new(a[i])]
  <2>1. a \in Seq(Steps)
    BY <1>2
  <2>2. Len(a) \in Nat /\ DOMAIN a = 1..Len(a) /\ \A i \in 1..Len(a) : a[i] \in Steps
    BY <2>1
  <2>3. todo'[u] = b
    BY <1>4
  <2> HIDE DEF a
  <2>4. b \in [1..Len(a) -> Steps] /\ \A i \in DOMAIN a : Aged(b[i], a[i], D)
    BY <1>5, <2>2
  <2> HIDE DEF b
  <2>5. b \in Seq(Steps) /\ Len(b) = Len(a) /\ DOMAIN b = DOMAIN a
    BY <2>2, <2>4
  <2> QED
    BY <2>3, <2>4, <2>5 DEF a
<1>7. \A u \in Threads \ {t} :
        /\ todo'[u] \in Seq(Steps) /\ Len(todo'[u]) = Len(todo[u])
        /\ DOMAIN todo'[u] = DOMAIN todo[u]
        /\ \A i \in DOMAIN todo[u] : Aged(todo'[u][i], todo[u][i], D)
  BY <1>2, <1>6
<1>8. /\ todo'[t] \in Seq(Steps) /\ Len(todo'[t]) = n - 1 /\ DOMAIN todo'[t] = 1..n - 1
      /\ \A i \in 1..n - 1 : Aged(todo'[t][i], q[i + 1], D)
  <2>1. /\ todo'[t] \in Seq(Steps) /\ Len(todo'[t]) = Len(r) /\ DOMAIN todo'[t] = DOMAIN r
        /\ \A i \in DOMAIN r : Aged(todo'[t][i], r[i], D)
    BY <1>2, <1>6
  <2> QED
    BY <1>3, <2>1
<1>9. TodoOK'
  <2>1. todo' \in [Threads -> Seq(Steps)]
    <3>1. DOMAIN todo' = Threads /\ todo' = [u \in Threads |-> todo'[u]]
      BY <1>4
    <3> QED
      BY <1>6, <3>1
  <2> QED
    BY <2>1 DEF TodoOK
<1> QED
  BY <1>3, <1>7, <1>8, <1>9 DEF q, n

(* What the writer t, whose step ends with it, leaves.                     *)
WriterLeaves(t) ==
  \/ m_guard!Downgrade(t)
  \/ m_guard!ReleaseWriter(t) /\ Len(todo[t]) = 1

(* The writer gives the lock up or is a reader again.                      *)
LEMMA WriterLeft ==
  ASSUME GuardOK, NEW t \in Threads, t \in writers, WriterLeaves(t)
  PROVE  /\ GuardOK' /\ queued' = queued /\ writers = {t} /\ writers' = {} /\ readers = {}
         /\ readers' \in SUBSET {t} /\ t \notin queued
         /\ t \in readers' \/ Len(todo[t]) = 1
<1>1. writers = {t} /\ readers = {} /\ t \notin queued /\ queued \in SUBSET Threads
  BY DEF GuardOK
<1>2. /\ writers' = writers \ {t} /\ queued' = queued
      /\ readers' = readers \cup {t} \/ (readers' = readers /\ Len(todo[t]) = 1)
  BY DEF WriterLeaves, m_guard!Downgrade, m_guard!ReleaseWriter
<1>4. writers' = {} /\ readers' \in SUBSET {t} /\ (t \in readers' \/ Len(todo[t]) = 1)
  BY <1>1, <1>2
<1>5. GuardOK'
  BY <1>1, <1>2, <1>4 DEF GuardOK
<1> QED
  BY <1>1, <1>2, <1>4, <1>5

(* Objects are deleted with write access: nobody else is inside.           *)
LEMMA DeletedTodo ==
  ASSUME IInv, NEW t \in Threads, todo[t] # << >>, t \in writers, WriterLeaves(t),
         NEW D \in SUBSET Dirs, ContinueWithout(t, << >>, D),
         \A d \in m_directoryCache \ D : d \in m_directoryCache'
  PROVE  CallsOK' /\ Admitted' /\ Asking'
<1> DEFINE q == todo[t]
           p == todo'[t]
           n == Len(q)
<1>1. GuardOK /\ TodoOK /\ CallsOK /\ Admitted /\ Asking
  BY DEF IInv
<1>2. /\ \A u \in Threads \ {t} :
           /\ todo'[u] \in Seq(Steps) /\ Len(todo'[u]) = Len(todo[u])
           /\ DOMAIN todo'[u] = DOMAIN todo[u]
           /\ \A i \in DOMAIN todo[u] : Aged(todo'[u][i], todo[u][i], D)
      /\ n \in Nat /\ n > 0 /\ Len(p) = n - 1 /\ DOMAIN p = 1..n - 1 /\ DOMAIN q = 1..n
      /\ \A i \in 1..n - 1 : Aged(p[i], q[i + 1], D)
  BY <1>1, WithoutEffect
<1>3. /\ queued' = queued /\ writers = {t} /\ writers' = {} /\ readers = {}
      /\ readers' \in SUBSET {t} /\ t \notin queued /\ queued \in SUBSET Threads
      /\ t \in readers' \/ n = 1
  BY <1>1, WriterLeft DEF GuardOK
<1>4. \A u \in Threads : EndsLast(todo[u]) /\ Live(todo[u])
  BY <1>1 DEF CallsOK
<1>5. ASSUME NEW u \in Threads, u # t PROVE EndsLast(todo[u])' /\ Live(todo[u])'
  <2>1. EndsLast(todo[u])'
    <3>1. \A i \in DOMAIN todo[u] :
            /\ todo[u][i].op \in Writes \cup {"leave"} => i = Len(todo[u])
            /\ todo[u][i].op \in {"crawl", "remove"} =>
                 \A j \in DOMAIN todo[u] : j > i => todo[u][j].op \notin Uses
      BY <1>4 DEF EndsLast
    <3>2. \A i \in DOMAIN todo[u] : todo'[u][i].op = todo[u][i].op
      BY <1>2, <1>5 DEF Aged
    <3>3. DOMAIN todo'[u] = DOMAIN todo[u] /\ Len(todo'[u]) = Len(todo[u])
      BY <1>2, <1>5
    <3> QED
      BY <3>1, <3>2, <3>3 DEF EndsLast
  <2>2. Live(todo[u])'
    BY <1>2, <1>4, <1>5 DEF Live, Aged
  <2> QED
    BY <2>1, <2>2
<1>6. EndsLast(p) /\ Live(todo[t])'
  <2>1. EndsLast(q) /\ Live(q)
    BY <1>4
  <2> HIDE DEF p, q, n
  <2>2. \A i \in 1..n : /\ q[i].op \in Writes \cup {"leave"} => i = n
                        /\ q[i].op \in {"crawl", "remove"} =>
                             \A j \in 1..n : j > i => q[j].op \notin Uses
                        /\ q[i].op \in Uses /\ q[i].ok => q[i].dir \in m_directoryCache
    BY <1>2, <2>1 DEF EndsLast, Live, n
  <2>3. ASSUME NEW i \in 1..n - 1 PROVE i + 1 \in 1..n /\ (i + 1 = n => i = n - 1)
    BY <1>2
  <2>4. ASSUME NEW i \in 1..n - 1, p[i].op \in Writes \cup {"leave"} PROVE i = n - 1
    BY <1>2, <2>2, <2>3, <2>4 DEF Aged
  <2>5. ASSUME NEW i \in 1..n - 1, p[i].op \in {"crawl", "remove"}, NEW j \in 1..n - 1, j > i
        PROVE  p[j].op \notin Uses
    <3>1. i + 1 \in 1..n /\ j + 1 \in 1..n /\ j + 1 > i + 1
      BY <1>2, <2>5
    <3>2. q[i + 1].op \in {"crawl", "remove"}
      BY <1>2, <2>5 DEF Aged
    <3>3. q[j + 1].op \notin Uses
      BY <2>2, <3>1, <3>2
    <3> QED
      BY <1>2, <3>3 DEF Aged
  <2>6. EndsLast(p)
    BY <1>2, <2>4, <2>5 DEF EndsLast
  <2>7. ASSUME NEW i \in 1..n - 1, p[i].op \in Uses, p[i].ok PROVE p[i].dir \in m_directoryCache'
    <3>1. /\ q[i + 1].op \in Uses /\ q[i + 1].ok /\ q[i + 1].dir \notin D
          /\ q[i + 1].dir = p[i].dir
      BY <1>2, <2>7 DEF Aged
    <3> QED
      BY <2>2, <2>3, <3>1
  <2>8. Live(todo[t])'
    BY <1>2, <2>7 DEF Live, p
  <2> QED
    BY <2>6, <2>8
<1>7. CallsOK'
  <2>1. ASSUME NEW u \in Threads PROVE EndsLast(todo[u])' /\ Live(todo[u])'
    <3>1. CASE u = t
      <4>1. EndsLast(todo[t])' /\ Live(todo[t])'
        BY <1>6 DEF EndsLast
      <4> QED
        BY <3>1, <4>1
    <3>2. CASE u # t
      BY <1>5, <3>2
    <3> QED
      BY <3>1, <3>2
  <2> QED
    BY <2>1 DEF CallsOK
<1>8. Admitted'
  <2>1. ASSUME NEW u \in Threads, u \notin readers' \cup writers' \cup queued',
               NEW i \in DOMAIN todo'[u]
        PROVE  todo'[u][i].op \in Writes
    <3>1. CASE u = t
      <4>1. n = 1
        BY <1>3, <2>1, <3>1
      <4>2. 1..n - 1 = {}
        BY <4>1
      <4> QED
        BY <1>2, <2>1, <3>1, <4>2
    <3>2. CASE u # t
      <4>1. u \notin readers \cup writers \cup queued /\ i \in DOMAIN todo[u]
        BY <1>2, <1>3, <2>1, <3>2
      <4>2. todo[u][i].op \in Writes
        BY <1>1, <4>1 DEF Admitted
      <4> QED
        BY <1>2, <3>2, <4>1, <4>2 DEF Aged
    <3> QED
      BY <3>1, <3>2
  <2> QED
    BY <2>1 DEF Admitted
<1>9. Asking'
  <2>1. ASSUME NEW u \in queued PROVE Asks(todo'[u])
    <3>1. u \in Threads /\ u # t /\ Asks(todo[u])
      BY <1>1, <1>3 DEF Asking
    <3>2. 1 \in DOMAIN todo[u]
      BY <1>1, <3>1 DEF TodoOK, Asks
    <3>3. /\ DOMAIN todo'[u] = DOMAIN todo[u] /\ Len(todo'[u]) = Len(todo[u]) /\ todo'[u] \in Seq(Steps)
          /\ \A i \in DOMAIN todo[u] : Aged(todo'[u][i], todo[u][i], D)
      BY <1>2, <3>1
    <3>4. todo'[u] # << >>
      BY <3>2, <3>3
    <3> QED
      BY <3>1, <3>2, <3>3, <3>4 DEF Asks, Aged
  <2>2. \A u \in (queued \cup writers)' : Asks(todo[u])'
    BY <1>3, <2>1 DEF Asks
  <2> QED
    BY <2>2 DEF Asking
<1> QED
  BY <1>7, <1>8, <1>9

(* The flags of deleted objects go with them.                              *)
LEMMA DeletedFetching ==
  ASSUME IInv, NEW t \in Threads, todo[t] # << >>, todo[t][1].op # "fetched",
         NEW D \in SUBSET Dirs, ContinueWithout(t, << >>, D),
         m_FetchingStatus' = m_FetchingStatus \ D
  PROVE  Fetching'
<1> DEFINE n == Len(todo[t])
<1>1. TodoOK /\ Fetching /\ MapOK
  BY DEF IInv
<1>2. /\ \A u \in Threads \ {t} :
           /\ DOMAIN todo'[u] = DOMAIN todo[u]
           /\ \A i \in DOMAIN todo[u] : Aged(todo'[u][i], todo[u][i], D)
      /\ n \in Nat /\ n > 0 /\ DOMAIN todo'[t] = 1..n - 1 /\ DOMAIN todo[t] = 1..n
      /\ \A i \in 1..n - 1 : Aged(todo'[t][i], todo[t][i + 1], D)
  BY <1>1, WithoutEffect
<1>3. "fetched" \in Uses
  BY DEF Uses
<1> HIDE DEF n
<1>4. \A u \in Threads \ {t}, i \in Nat, d \in Dirs :
        Fetches(u, i, d)' <=> (Fetches(u, i, d) /\ d \notin D)
  BY <1>2, <1>3 DEF Fetches, Aged
<1>5. ASSUME NEW i \in Nat, NEW d \in Dirs, Fetches(t, i, d)'
      PROVE  i + 1 \in Nat /\ Fetches(t, i + 1, d) /\ d \notin D
  <2>1. i \in 1..n - 1 /\ i + 1 \in 1..n
    BY <1>2, <1>5 DEF Fetches
  <2>2. Aged(todo'[t][i], todo[t][i + 1], D)
    BY <1>2, <2>1
  <2> QED
    BY <1>2, <1>3, <1>5, <2>1, <2>2 DEF Fetches, Aged
<1>6. ASSUME NEW i \in Nat, NEW d \in Dirs, Fetches(t, i, d), d \notin D
      PROVE  \E k \in Nat : Fetches(t, k, d)'
  <2>1. i \in 1..n /\ i # 1
    BY <1>2, <1>6 DEF Fetches
  <2>2. i - 1 \in 1..n - 1 /\ i - 1 \in Nat /\ (i - 1) + 1 = i
    BY <1>2, <2>1
  <2>3. Aged(todo'[t][i - 1], todo[t][i], D)
    BY <1>2, <2>2
  <2>4. Fetches(t, i - 1, d)'
    BY <1>2, <1>6, <2>2, <2>3 DEF Fetches, Aged
  <2> QED
    BY <2>2, <2>4
<1>7. ASSUME NEW d \in m_FetchingStatus'
      PROVE  \E u \in Threads, i \in Nat : Fetches(u, i, d)'
  <2>1. d \in m_FetchingStatus /\ d \in Dirs /\ d \notin D
    BY <1>1, <1>7 DEF MapOK
  <2>2. PICK u \in Threads, i \in Nat : Fetches(u, i, d)
    BY <1>1, <2>1 DEF Fetching
  <2> QED
    BY <1>4, <1>6, <2>1, <2>2
<1>8. ASSUME NEW d \in Dirs, NEW u \in Threads, NEW i \in Nat, Fetches(u, i, d)'
      PROVE  d \in m_FetchingStatus'
  <2>1. d \notin D /\ \E k \in Nat : Fetches(u, k, d)
    BY <1>4, <1>5, <1>8
  <2> QED
    BY <1>1, <2>1 DEF Fetching
<1>9. ASSUME NEW d \in Dirs, NEW u \in Threads, NEW v \in Threads, NEW i \in Nat, NEW j \in Nat,
             Fetches(u, i, d)', Fetches(v, j, d)'
      PROVE  u = v /\ i = j
  <2>1. \A x, y \in Threads, k, l \in Nat : Fetches(x, k, d) /\ Fetches(y, l, d) => x = y /\ k = l
    BY <1>1 DEF Fetching
  <2>2. (u # t /\ Fetches(u, i, d)) \/ (u = t /\ i + 1 \in Nat /\ Fetches(t, i + 1, d))
    BY <1>4, <1>5, <1>9
  <2>3. (v # t /\ Fetches(v, j, d)) \/ (v = t /\ j + 1 \in Nat /\ Fetches(t, j + 1, d))
    BY <1>4, <1>5, <1>9
  <2>4. u = v
    BY <2>1, <2>2, <2>3
  <2>5. CASE u # t
    BY <2>1, <2>2, <2>3, <2>4, <2>5
  <2>6. CASE u = t
    <3>1. i + 1 = j + 1
      BY <2>1, <2>2, <2>3, <2>4, <2>6
    <3> QED
      BY <2>4, <3>1
  <2> QED
    BY <2>5, <2>6
<1>10. (\A d \in m_FetchingStatus : \E u \in Threads, i \in Nat : Fetches(u, i, d))'
  BY <1>7
<1>11. (\A d \in Dirs, u \in Threads, i \in Nat : Fetches(u, i, d) => d \in m_FetchingStatus)'
  BY <1>8
<1>12. (\A d \in Dirs, u, v \in Threads, i, j \in Nat :
          Fetches(u, i, d) /\ Fetches(v, j, d) => u = v /\ i = j)'
  BY <1>9
<1> QED
  BY <1>10, <1>11, <1>12 DEF Fetching

(* The pointers of threads that do not wait are not to objects of D.       *)
KeptPointers ==
  \A u \in Threads : u \notin queued => Cardinality(Dangling(u)') <= Cardinality(Dangling(u))

(* Only who waits for an upgrade can lose an object.                       *)
LEMMA DeletedDangling ==
  ASSUME IInv, NEW t \in Threads, todo[t] # << >>, t \in writers,
         NEW D \in SUBSET Dirs, ContinueWithout(t, << >>, D),
         \A i \in DOMAIN todo[t] : i # 1 /\ todo[t][i].op \in Uses /\ todo[t][i].dir \in D => ~todo[t][i].ok
  PROVE  KeptPointers
<1> DEFINE n == Len(todo[t])
<1>1. TodoOK /\ GuardOK /\ Admitted
  BY DEF IInv
<1>2. /\ \A u \in Threads \ {t} :
           /\ DOMAIN todo'[u] = DOMAIN todo[u]
           /\ \A i \in DOMAIN todo[u] : Aged(todo'[u][i], todo[u][i], D)
      /\ n \in Nat /\ n > 0 /\ DOMAIN todo'[t] = 1..n - 1 /\ DOMAIN todo[t] = 1..n
      /\ \A i \in 1..n - 1 : Aged(todo'[t][i], todo[t][i + 1], D)
  BY <1>1, WithoutEffect
<1> HIDE DEF n
<1>3. Cardinality(Dangling(t)') <= Cardinality(Dangling(t))
  <2>1. \A i \in 1..n - 1 : i + 1 \in 1..n /\ i + 1 # 1 /\ i - 0 + 1 = i + 1 /\ i \in Nat
    BY <1>2
  <2>2. ASSUME NEW i \in 1..n - 1, ~todo'[t][i].ok PROVE i - 0 + 1 \in Dangling(t)
    <3>1. Aged(todo'[t][i], todo[t][i + 1], D)
      BY <1>2
    <3>2. ~todo[t][i + 1].ok
      BY <1>2, <2>1, <2>2, <3>1 DEF Aged
    <3> QED
      BY <1>2, <2>1, <3>2 DEF Dangling
  <2>3. Dangling(t)' = {i \in 1..n - 1 : ~todo'[t][i].ok}
    BY <1>2 DEF Dangling
  <2>4. Dangling(t)' \in SUBSET Nat /\ \A i \in Dangling(t)' : i - 0 + 1 \in Dangling(t)
    BY <2>1, <2>2, <2>3
  <2> QED
    BY <1>1, <2>4, DanglingFinite, FewerMoved
<1>4. ASSUME NEW u \in Threads, u \notin queued, u # t
      PROVE  Cardinality(Dangling(u)') <= Cardinality(Dangling(u))
  <2>1. u \notin readers \cup writers \cup queued
    BY <1>1, <1>4 DEF GuardOK
  <2>2. \A i \in DOMAIN todo[u] : todo[u][i].op \notin Uses
    BY <1>1, <2>1, Names DEF Admitted
  <2>3. \A i \in DOMAIN todo[u] : todo'[u][i].ok <=> todo[u][i].ok
    BY <1>2, <1>4, <2>2 DEF Aged
  <2>4. Dangling(u)' = Dangling(u)
    BY <1>2, <1>4, <2>3 DEF Dangling
  <2> QED
    BY <1>1, <2>4, DanglingFinite
<1> QED
  BY <1>3, <1>4 DEF KeptPointers

(* A step that adds no such pointer is one that PointersKept allows.       *)
LEMMA FewerIsKept == Fewer => KeptPointers
BY DEF Fewer, KeptPointers

(* The three lemmas together.                                              *)
LEMMA DeleteKeeps ==
  ASSUME IInv, NEW t \in Threads, todo[t] # << >>, t \in writers, WriterLeaves(t),
         NEW D \in SUBSET Dirs, ContinueWithout(t, << >>, D), Delete(D),
         m_directoryCache' \in SUBSET Dirs,
         \A d \in m_directoryCache \ D : d \in m_directoryCache',
         \A i \in DOMAIN todo[t] : i # 1 /\ todo[t][i].op \in Uses /\ todo[t][i].dir \in D => ~todo[t][i].ok,
         UNCHANGED diskVars, UNCHANGED bounds
  PROVE  IInv' /\ KeptPointers
<1>1. MapOK /\ GuardOK /\ TodoOK /\ Asking
  BY DEF IInv
<1>2. todo[t][1].op # "fetched"
  BY <1>1 DEF Asking, Asks, Upgrades, Writes
<1>3. /\ m_childDirectories' = [d \in Dirs |-> IF d \in D THEN {} ELSE m_childDirectories[d]]
      /\ m_FetchingStatus' = m_FetchingStatus \ D
  BY DEF Delete
<1>4. MapOK'
  BY <1>1, <1>3 DEF MapOK, ChildrenOK, diskVars, bounds
<1>5. GuardOK'
  BY <1>1, WriterLeft
<1>6. TodoOK'
  BY <1>1, WithoutEffect
<1>7. CallsOK' /\ Admitted' /\ Asking'
  BY DeletedTodo
<1>8. Fetching'
  BY <1>2, <1>3, DeletedFetching
<1>9. KeptPointers
  BY DeletedDangling
<1> QED
  BY <1>4, <1>5, <1>6, <1>7, <1>8, <1>9 DEF IInv

(* A new object replaces the one of its directory.                         *)
LEMMA InsertKeeps ==
  ASSUME IInv, ~Undefined, NEW t \in Threads, Insert(t)
  PROVE  IInv' /\ KeptPointers
<1> DEFINE d == this(t)
           creates == d \in exists \cap allowed
<1>1. /\ At(t, "get") /\ t \in writers
      /\ m_directoryCache' = (m_directoryCache \ {d}) \cup (IF creates THEN {d} ELSE {})
      /\ Delete({d}) /\ ContinueWithout(t, << >>, {d}) /\ m_guard!Downgrade(t)
      /\ UNCHANGED diskVars /\ UNCHANGED bounds
  BY DEF Insert
<1>2. todo[t] # << >> /\ todo[t][1].op = "get" /\ todo[t][1].dir = d /\ d \in Dirs
  BY <1>1, AtStep
<1> HIDE DEF d
<1>3. {d} \in SUBSET Dirs /\ m_directoryCache' \in SUBSET Dirs
      /\ \A e \in m_directoryCache \ {d} : e \in m_directoryCache'
  BY <1>1, <1>2 DEF IInv, MapOK
<1>4. WriterLeaves(t)
  BY <1>1 DEF WriterLeaves
<1>5. Asks(todo[t])
  BY <1>1 DEF IInv, Asking
<1>6. \A i \in DOMAIN todo[t] :
        i # 1 /\ todo[t][i].op \in Uses /\ todo[t][i].dir \in {d} => ~todo[t][i].ok
  BY <1>2, <1>5 DEF Asks
<1> QED
  BY <1>1, <1>2, <1>3, <1>4, <1>6, DeleteKeeps

(* The map shrinks to S.                                                   *)
LEMMA KeepKeeps ==
  ASSUME IInv, NEW t \in Threads, todo[t] # << >>, t \in writers, WriterLeaves(t),
         NEW S, Keep(t, S),
         \A i \in DOMAIN todo[t] : i # 1 => todo[t][i].op \notin Uses,
         UNCHANGED diskVars, UNCHANGED bounds
  PROVE  IInv' /\ KeptPointers
<1> DEFINE D == m_directoryCache \ S
<1>1. /\ m_directoryCache' = m_directoryCache \cap S
      /\ Delete(D) /\ ContinueWithout(t, << >>, D)
  BY DEF Keep
<1>2. D \in SUBSET Dirs /\ m_directoryCache' \in SUBSET Dirs
      /\ \A e \in m_directoryCache \ D : e \in m_directoryCache'
  BY <1>1 DEF IInv, MapOK
<1> HIDE DEF D
<1> QED
  BY <1>1, <1>2, DeleteKeeps

(* The crawler has no pointers left when it removes a directory.           *)
LEMMA RemoveAsCrawlerKeeps ==
  ASSUME IInv, ~Undefined, NEW t \in Threads, RemoveAsCrawler(t)
  PROVE  IInv' /\ KeptPointers
<1>1. /\ At(t, "remove") /\ t \in writers /\ Keep(t, RemoveCacheForPath(this(t)))
      /\ m_guard!Downgrade(t) /\ UNCHANGED diskVars /\ UNCHANGED bounds
  BY DEF RemoveAsCrawler
<1>2. todo[t] # << >> /\ todo[t] \in Seq(Steps) /\ todo[t][1].op = "remove"
  BY <1>1, AtStep
<1>3. WriterLeaves(t)
  BY <1>1 DEF WriterLeaves
<1>4. \A i \in DOMAIN todo[t] : i # 1 => todo[t][i].op \notin Uses
  <2>1. EndsLast(todo[t])
    BY DEF IInv, CallsOK
  <2>2. 1 \in DOMAIN todo[t] /\ \A i \in DOMAIN todo[t] : i # 1 => i > 1
    BY <1>2
  <2> QED
    BY <1>2, <2>1, <2>2 DEF EndsLast
<1> QED
  BY <1>1, <1>2, <1>3, <1>4, KeepKeeps

(* The steps with write access.                                            *)
LEMMA WriteKeeps ==
  ASSUME IInv, ~Undefined, NEW t \in Threads, Write(t)
  PROVE  IInv' /\ KeptPointers
<1>1. /\ t \in writers /\ m_guard!ReleaseWriter(t) /\ UNCHANGED diskVars /\ UNCHANGED bounds
      /\ \E S : Keep(t, S)
      /\ \E op \in Writes : At(t, op)
  BY DEF Write, Writes
<1>2. todo[t] # << >> /\ todo[t] \in Seq(Steps) /\ todo[t][1].op \in Writes
  BY <1>1, AtStep
<1>3. Len(todo[t]) = 1 /\ DOMAIN todo[t] = {1}
  <2>1. EndsLast(todo[t])
    BY DEF IInv, CallsOK
  <2>2. 1 \in DOMAIN todo[t]
    BY <1>2
  <2>3. Len(todo[t]) = 1
    BY <1>2, <2>1, <2>2 DEF EndsLast
  <2> QED
    BY <1>2, <2>3
<1>4. WriterLeaves(t)
  BY <1>1, <1>3 DEF WriterLeaves
<1>5. PICK S : Keep(t, S)
  BY <1>1
<1> QED
  BY <1>1, <1>2, <1>3, <1>4, <1>5, KeepKeeps

-----------------------------------------------------------------------------
(* Waiting for m_guard and leaving it *)

(* Steps that only move threads between the sets of m_guard.               *)
LEMMA SameTodo ==
  ASSUME IInv, UNCHANGED todo, UNCHANGED mapVars
  PROVE  TodoOK' /\ CallsOK' /\ Fetching' /\ KeptPointers
<1>1. todo' = todo /\ m_directoryCache' = m_directoryCache /\ m_FetchingStatus' = m_FetchingStatus
  BY DEF mapVars
<1>2. TodoOK /\ CallsOK /\ Fetching
  BY DEF IInv
<1>3. TodoOK'
  BY <1>1, <1>2 DEF TodoOK
<1>4. CallsOK'
  BY <1>1, <1>2 DEF CallsOK, EndsLast, Live
<1>5. Fetching'
  BY <1>1, <1>2 DEF Fetching, Fetches
<1>6. KeptPointers
  <2>1. ASSUME NEW u \in Threads PROVE Cardinality(Dangling(u)') <= Cardinality(Dangling(u))
    <3>1. Dangling(u)' = Dangling(u)
      BY <1>1 DEF Dangling
    <3> QED
      BY <1>2, <3>1, DanglingFinite
  <2> QED
    BY <2>1 DEF KeptPointers
<1> QED
  BY <1>3, <1>4, <1>5, <1>6

(* t, which is at a step that needs write access, waits for it or has it.  *)
LEMMA LockKeeps ==
  ASSUME IInv, NEW t \in Threads, Asks(todo[t]), m_guard!BecomeWriter(t) \/ m_guard!Enqueue(t),
         UNCHANGED <<mapVars, diskVars, todo, bounds>>
  PROVE  IInv' /\ KeptPointers
<1>1. MapOK /\ GuardOK /\ TodoOK /\ Admitted /\ Asking
  BY DEF IInv
<1>2. \/ /\ writers = {} /\ readers \subseteq {t} /\ readers' = {} /\ writers' = {t}
         /\ queued' = queued \ {t}
      \/ /\ t \notin queued \cup writers /\ queued' = queued \cup {t}
         /\ readers' = readers \ {t} /\ writers' = writers
  BY DEF m_guard!BecomeWriter, m_guard!Enqueue
<1>3. todo' = todo
  OBVIOUS
<1>4. GuardOK'
  <2>1. CASE /\ writers = {} /\ readers \subseteq {t} /\ readers' = {} /\ writers' = {t}
             /\ queued' = queued \ {t}
    BY <1>1, <2>1 DEF GuardOK
  <2>2. CASE /\ t \notin queued \cup writers /\ queued' = queued \cup {t}
             /\ readers' = readers \ {t} /\ writers' = writers
    BY <1>1, <2>2 DEF GuardOK
  <2> QED
    BY <1>2, <2>1, <2>2
<1>5. MapOK'
  BY <1>1 DEF MapOK, ChildrenOK, mapVars, diskVars, bounds
<1>6. Admitted'
  <2>1. readers \cup writers \cup queued \subseteq readers' \cup writers' \cup queued'
    BY <1>2
  <2> QED
    BY <1>1, <1>3, <2>1 DEF Admitted
<1>7. Asking'
  <2>1. queued' \cup writers' \subseteq queued \cup writers \cup {t}
    BY <1>2
  <2>2. \A u \in queued' \cup writers' : Asks(todo[u])
    BY <1>1, <2>1 DEF Asking
  <2> QED
    BY <1>3, <2>2 DEF Asking, Asks
<1>8. TodoOK' /\ CallsOK' /\ Fetching' /\ KeptPointers
  BY SameTodo
<1> QED
  BY <1>4, <1>5, <1>6, <1>7, <1>8 DEF IInv

(* A thread begins to wait for write access, or has it at once ...         *)
LEMMA AcquireWriterLockKeeps ==
  ASSUME IInv, ~Undefined, NEW t \in Threads, AcquireWriterLock(t)
  PROVE  IInv' /\ KeptPointers
<1>1. /\ NeedsWrite(t)
      /\ m_guard!BecomeWriter(t) \/ m_guard!Enqueue(t)
      /\ UNCHANGED <<mapVars, diskVars, todo, bounds>>
  BY DEF AcquireWriterLock
<1>2. Asks(todo[t])
  <2>1. CASE \E op \in Writes \cup {"remove"} : At(t, op)
    <3>1. todo[t] # << >> /\ todo[t][1].op \in Writes \cup {"remove"}
      BY <2>1, AtStep
    <3> QED
      BY <3>1 DEF Asks, Writes, Upgrades
  <2>2. CASE At(t, "get") /\ this(t) \notin m_directoryCache
    <3>1. todo[t] # << >> /\ todo[t][1].op = "get" /\ todo[t][1].dir = this(t)
      BY <2>2, AtStep
    <3>2. Live(todo[t])
      BY DEF IInv, CallsOK
    <3> QED
      BY <2>2, <3>1, <3>2 DEF Asks, Live, Upgrades
  <2> QED
    BY <1>1, <2>1, <2>2 DEF NeedsWrite
<1> QED
  BY <1>1, <1>2, LockKeeps

(* ... or is let in later.                                                 *)
LEMMA WriterGrantedKeeps ==
  ASSUME IInv, NEW t \in Threads, WriterGranted(t)
  PROVE  IInv' /\ KeptPointers
<1>1. /\ t \in queued /\ m_guard!BecomeWriter(t)
      /\ UNCHANGED <<mapVars, diskVars, todo, bounds>>
  BY DEF WriterGranted
<1>2. Asks(todo[t])
  BY <1>1 DEF IInv, Asking
<1> QED
  BY <1>1, <1>2, LockKeeps

(* The end of a call: nothing is left to do.                               *)
LEMMA ReleaseReaderLockKeeps ==
  ASSUME IInv, ~Undefined, NEW t \in Threads, ReleaseReaderLock(t)
  PROVE  IInv' /\ KeptPointers
<1> DEFINE none == << >>
<1>1. /\ At(t, "leave") /\ t \in readers /\ readers' = readers \ {t}
      /\ writers' = writers /\ queued' = queued /\ todo' = Then(t, none)
      /\ UNCHANGED mapVars /\ UNCHANGED diskVars /\ UNCHANGED bounds
  BY DEF ReleaseReaderLock, m_guard!LeaveReaders, Continue
<1>2. MapOK /\ GuardOK /\ TodoOK /\ CallsOK /\ Admitted /\ Asking
  BY DEF IInv
<1>3. todo[t] # << >> /\ todo[t] \in Seq(Steps) /\ todo[t][1].op = "leave"
  BY <1>1, AtStep
<1>4. Len(todo[t]) = 1
  <2>1. EndsLast(todo[t])
    BY <1>2 DEF CallsOK
  <2>2. 1 \in DOMAIN todo[t]
    BY <1>3
  <2> QED
    BY <1>3, <2>1, <2>2 DEF EndsLast
<1>5. none \in Seq(Steps) /\ Len(none) = 0 /\ \A i \in DOMAIN none : FALSE
  OBVIOUS
<1> HIDE DEF none
<1>6. /\ todo'[t] = none \o Tail(todo[t])
      /\ \A u \in Threads \ {t} : todo'[u] = todo[u]
      /\ todo' \in [Threads -> Seq(Steps)]
  BY <1>1, <1>2, <1>3, <1>5, ThenTodo
<1>7. DOMAIN todo'[t] = {}
  <2>1. DOMAIN (none \o Tail(todo[t])) = 1..(Len(none) + Len(todo[t]) - 1)
    BY <1>3, <1>5, ThenEffect
  <2>2. Len(none) + Len(todo[t]) - 1 = 0
    BY <1>4, <1>5
  <2>3. 1..0 = {}
    OBVIOUS
  <2> QED
    BY <1>6, <2>1, <2>2, <2>3
<1>8. GuardOK'
  BY <1>1, <1>2 DEF GuardOK
<1>9. TodoOK'
  BY <1>6 DEF TodoOK
<1>10. MapOK'
  BY <1>1, <1>2 DEF MapOK, ChildrenOK, mapVars, diskVars, bounds
<1>11. CallsOK'
  <2>1. m_directoryCache' = m_directoryCache
    BY <1>1 DEF mapVars
  <2>2. ASSUME NEW u \in Threads, u # t PROVE EndsLast(todo[u])' /\ Live(todo[u])'
    BY <1>2, <1>6, <2>1, <2>2 DEF CallsOK, EndsLast, Live
  <2>3. EndsLast(todo[t])' /\ Live(todo[t])'
    BY <1>7 DEF EndsLast, Live
  <2> QED
    BY <2>2, <2>3 DEF CallsOK
<1>12. Admitted'
  <2>1. ASSUME NEW u \in Threads, u \notin readers' \cup writers' \cup queued', NEW i \in DOMAIN todo'[u]
        PROVE  todo'[u][i].op \in Writes
    <3>1. u # t
      BY <1>7, <2>1
    <3>2. u \notin readers \cup writers \cup queued /\ todo'[u] = todo[u]
      BY <1>1, <1>6, <2>1, <3>1
    <3> QED
      BY <1>2, <2>1, <3>2 DEF Admitted
  <2> QED
    BY <2>1 DEF Admitted
<1>13. Asking'
  <2>1. \A u \in queued \cup writers : u \in Threads \ {t} /\ Asks(todo[u])
    BY <1>1, <1>2 DEF GuardOK, Asking
  <2>2. \A u \in queued' \cup writers' : todo'[u] = todo[u] /\ Asks(todo[u])
    BY <1>1, <1>6, <2>1
  <2> QED
    BY <2>2 DEF Asking, Asks
<1>14. Fetching'
  <2>1. m_FetchingStatus' = m_FetchingStatus /\ todo[t][1].op # "fetched"
    BY <1>1, <1>3 DEF mapVars
  <2> QED
    BY <1>1, <1>3, <1>5, <2>1, FetchKept
<1>15. KeptPointers
  <2>1. Fewer
    BY <1>1, <1>2, <1>3, <1>5, DanglingThen DEF Fewer
  <2> QED
    BY <2>1, FewerIsKept
<1> QED
  BY <1>8, <1>9, <1>10, <1>11, <1>12, <1>13, <1>14, <1>15 DEF IInv

-----------------------------------------------------------------------------
(* Calls, and what happens outside *)

(* A call begins with no pointers.                                         *)
LEMMA CallKeeps ==
  ASSUME IInv, NEW t \in Threads, NEW steps \in Seq(Steps), Calls(t, steps), EndsLast(steps),
         \A i \in DOMAIN steps : steps[i].ok /\ steps[i].op \notin Uses,
         GuardOK', queued' = queued, writers' = writers, readers \subseteq readers',
         t \in readers' \/ \A i \in DOMAIN steps : steps[i].op \in Writes
  PROVE  IInv' /\ KeptPointers
<1>1. MapOK /\ TodoOK /\ CallsOK /\ Admitted /\ Asking /\ Fetching /\ GuardOK
  BY DEF IInv
<1>2. /\ todo[t] = << >> /\ calls < MaxCalls /\ calls' = calls + 1
      /\ todo' = [todo EXCEPT ![t] = steps]
      /\ m_directoryCache' = m_directoryCache /\ m_FetchingStatus' = m_FetchingStatus
      /\ m_childDirectories' = m_childDirectories
      /\ UNCHANGED diskVars /\ changes' = changes
  BY DEF Calls, mapVars
<1>3. /\ todo'[t] = steps /\ \A u \in Threads \ {t} : todo'[u] = todo[u]
      /\ todo' \in [Threads -> Seq(Steps)]
  BY <1>1, <1>2 DEF TodoOK
<1>4. TodoOK'
  BY <1>3 DEF TodoOK
<1>5. MapOK'
  BY <1>1, <1>2, Settings DEF MapOK, ChildrenOK, diskVars
<1>6. CallsOK'
  <2>1. ASSUME NEW u \in Threads, u # t PROVE EndsLast(todo[u])' /\ Live(todo[u])'
    BY <1>1, <1>2, <1>3, <2>1 DEF CallsOK, EndsLast, Live
  <2>2. EndsLast(todo[t])' /\ Live(todo[t])'
    BY <1>3 DEF EndsLast, Live
  <2> QED
    BY <2>1, <2>2 DEF CallsOK
<1>7. Admitted'
  <2>1. ASSUME NEW u \in Threads, u \notin readers' \cup writers' \cup queued', NEW i \in DOMAIN todo'[u]
        PROVE  todo'[u][i].op \in Writes
    <3>1. CASE u = t
      BY <1>3, <2>1, <3>1
    <3>2. CASE u # t
      BY <1>1, <1>3, <2>1, <3>2 DEF Admitted
    <3> QED
      BY <3>1, <3>2
  <2> QED
    BY <2>1 DEF Admitted
<1>8. Asking'
  <2>1. t \notin queued \cup writers
    BY <1>1, <1>2 DEF Asking, Asks
  <2>2. \A u \in queued \cup writers : u \in Threads \ {t} /\ Asks(todo[u])
    BY <1>1, <2>1 DEF GuardOK, Asking
  <2>3. \A u \in queued' \cup writers' : todo'[u] = todo[u] /\ Asks(todo[u])
    BY <1>3, <2>2
  <2> QED
    BY <2>3 DEF Asking, Asks
<1>9. Fetching'
  <2>1. "fetched" \in Uses
    BY DEF Uses
  <2>2. \A u \in Threads, i \in Nat, d \in Dirs : Fetches(u, i, d)' <=> Fetches(u, i, d)
    <3>1. ASSUME NEW i \in Nat, NEW d \in Dirs PROVE ~Fetches(t, i, d) /\ ~Fetches(t, i, d)'
      BY <1>2, <1>3, <2>1 DEF Fetches
    <3>2. ASSUME NEW u \in Threads, u # t, NEW i \in Nat, NEW d \in Dirs
          PROVE  Fetches(u, i, d)' <=> Fetches(u, i, d)
      BY <1>3, <3>2 DEF Fetches
    <3> QED
      BY <3>1, <3>2
  <2>3. m_FetchingStatus \subseteq Dirs
    BY <1>1 DEF MapOK
  <2>4. (\A d \in m_FetchingStatus : \E u \in Threads, i \in Nat : Fetches(u, i, d))'
    BY <1>1, <1>2, <2>2, <2>3 DEF Fetching
  <2>5. (\A d \in Dirs, u \in Threads, i \in Nat : Fetches(u, i, d) => d \in m_FetchingStatus)'
    BY <1>1, <1>2, <2>2 DEF Fetching
  <2>6. (\A d \in Dirs, u, v \in Threads, i, j \in Nat :
           Fetches(u, i, d) /\ Fetches(v, j, d) => u = v /\ i = j)'
    BY <1>1, <2>2 DEF Fetching
  <2> QED
    BY <2>4, <2>5, <2>6 DEF Fetching
<1>10. KeptPointers
  <2>1. ASSUME NEW u \in Threads PROVE Cardinality(Dangling(u)') <= Cardinality(Dangling(u))
    <3>1. CASE u = t
      <4>1. Dangling(u) = {} /\ Dangling(u)' = {}
        BY <1>2, <1>3, <3>1 DEF Dangling
      <4> QED
        BY <4>1, FS_EmptySet
    <3>2. CASE u # t
      <4>1. Dangling(u)' = Dangling(u)
        BY <1>3, <3>2 DEF Dangling
      <4> QED
        BY <1>1, <4>1, DanglingFinite
    <3> QED
      BY <3>1, <3>2
  <2> QED
    BY <2>1 DEF KeptPointers
<1> QED
  BY <1>4, <1>5, <1>6, <1>7, <1>8, <1>9, <1>10 DEF IInv

(* A call of one step.                                                     *)
LEMMA WriteCallKeeps ==
  ASSUME IInv, NEW t \in Threads, NEW op \in Writes, NEW d \in Dirs \cup {NoDir},
         op = "erase" => d \in Dirs, WriteCall(t, Step(op, d, NoDir))
  PROVE  IInv' /\ KeptPointers
<1> DEFINE steps == <<Step(op, d, NoDir)>>
<1>1. Calls(t, steps) /\ readers' = readers /\ writers' = writers /\ queued' = queued
  BY DEF WriteCall, guardVars
<1>2. op \notin Uses /\ op \in {"erase", "refresh"}
  BY DEF Writes, Uses
<1>3. Step(op, d, NoDir) \in Steps /\ Step(op, d, NoDir).op = op /\ Step(op, d, NoDir).ok
  BY <1>2, StepFacts DEF Writes
<1>4. steps \in Seq(Steps) /\ Len(steps) = 1
      /\ \A i \in DOMAIN steps : i = 1 /\ steps[i].op = op /\ steps[i].ok
  BY <1>3
<1> HIDE DEF steps
<1>5. EndsLast(steps)
  BY <1>2, <1>4 DEF EndsLast
<1>6. GuardOK'
  BY <1>1 DEF IInv, GuardOK
<1> QED
  BY <1>1, <1>2, <1>4, <1>5, <1>6, CallKeeps

(* A call that joins the readers, looks a directory up and goes on from it.*)
LEMMA ReadCallKeeps ==
  ASSUME IInv, NEW t \in Threads, NEW d \in Dirs, NEW x \in Steps, x.op \in {"first", "crawl"},
         ReadCall(t, Get(d) \o <<x>>)
  PROVE  IInv' /\ KeptPointers
<1> DEFINE g == Step("get", d, NoDir)
           l == Step("leave", NoDir, NoDir)
           steps == (Get(d) \o <<x>>) \o <<l>>
<1>1. /\ Calls(t, steps)
      /\ writers = {} /\ queued = {} /\ readers' = readers \cup {t}
      /\ writers' = writers /\ queued' = queued
  BY DEF ReadCall, m_guard!JoinReaders
<1>2. /\ g \in Steps /\ g.op = "get" /\ g.ok
      /\ l \in Steps /\ l.op = "leave" /\ l.ok
      /\ x.ok
  <2>1. {"get", "leave"} \in SUBSET Reads
    BY DEF Reads
  <2>2. x.ok
    BY DEF Steps, Uses
  <2> QED
    BY <2>1, <2>2, StepFacts
<1> DEFINE G == {y \in Steps : y.ok /\ y.op \in {"get", "first", "crawl"}}
           a == Get(d) \o <<x>>
           b == <<l>>
           n == Len(a)
<1>3. a \in Seq(G) /\ n \in Nat /\ \A i \in 1..n : a[i] \in G
  <2>1. g \in G /\ x \in G
    BY <1>2
  <2> HIDE DEF G
  <2>2. Get(d) \in Seq(G) /\ <<x>> \in Seq(G)
    BY <2>1 DEF Get, g
  <2>3. a \in Seq(G)
    BY <2>2, Joined
  <2> HIDE DEF a
  <2> QED
    BY <2>3
<1>4. steps \in Seq(Steps) /\ Len(steps) = n + 1
      /\ \A i \in 1..n + 1 : (i <= n /\ steps[i] \in G) \/ (i = n + 1 /\ steps[i] = l)
  <2>1. b \in Seq(Steps) /\ Len(b) = 1 /\ b[1] = l
    BY <1>2
  <2>2. a \in Seq(Steps)
    BY <1>3
  <2> HIDE DEF a, b, G
  <2>3. /\ a \o b \in Seq(Steps) /\ Len(a \o b) = n + 1
        /\ \A i \in 1..n + 1 : (a \o b)[i] = IF i <= n THEN a[i] ELSE b[i - n]
    <3>1. /\ a \o b \in Seq(Steps) /\ Len(a \o b) = Len(a) + Len(b)
          /\ \A i \in 1..Len(a) + Len(b) : (a \o b)[i] = IF i <= Len(a) THEN a[i] ELSE b[i - Len(a)]
      BY <2>1, <2>2, Joined
    <3> QED
      BY <2>1, <3>1
  <2>4. \A i \in 1..n + 1 : (i <= n /\ i \in 1..n) \/ (i = n + 1 /\ ~(i <= n) /\ i - n = 1)
    BY <1>3
  <2>5. steps = a \o b
    BY DEF a, b
  <2> HIDE DEF steps, n
  <2> QED
    BY <1>3, <2>1, <2>3, <2>4, <2>5
<1> HIDE DEF a, b, steps
<1>5. /\ Len(steps) \in Nat /\ DOMAIN steps = 1..Len(steps)
      /\ \A i \in DOMAIN steps :
           /\ steps[i].ok /\ steps[i].op \in {"get", "first", "crawl", "leave"}
           /\ steps[i].op = "leave" => i = Len(steps)
  <2>1. Len(steps) \in Nat /\ DOMAIN steps = 1..Len(steps)
    BY <1>4
  <2> HIDE DEF n
  <2> QED
    BY <1>2, <1>4, <2>1
<1>6. Calls(t, steps)
  BY <1>1
<1>7. \A i \in DOMAIN steps : steps[i].op \notin Uses \cup Writes /\ steps[i].op # "remove"
  BY <1>5 DEF Uses, Writes
<1>8. EndsLast(steps)
  BY <1>5, <1>7 DEF EndsLast
<1>9. GuardOK'
  BY <1>1 DEF IInv, GuardOK
<1> QED
  BY <1>1, <1>4, <1>5, <1>6, <1>7, <1>8, <1>9, CallKeeps

(* All calls of the crawler, the explorer and the commands.                *)
LEMMA CallsKeep ==
  ASSUME IInv, Call
  PROVE  IInv' /\ KeptPointers
<1>1. ASSUME NEW t \in Askers, NEW p \in Dirs, GetStatusForPath(t, p) PROVE IInv' /\ KeptPointers
  <2> DEFINE dirpath == IF Parent[p] = NoDir THEN p ELSE Parent[p]
  <2>1. dirpath \in Dirs
    BY ParentIsTree
  <2>2. ReadCall(t, Get(dirpath) \o <<Step("first", dirpath, p)>>) /\ t \in Threads
    BY <1>1 DEF GetStatusForPath, Threads
  <2> HIDE DEF dirpath
  <2>3. Step("first", dirpath, p) \in Steps /\ Step("first", dirpath, p).op = "first"
    <3>1. "first" \in Reads
      BY DEF Reads
    <3> QED
      BY <2>1, <3>1, StepFacts
  <2> QED
    BY <2>1, <2>2, <2>3, ReadCallKeeps
<1>2. Crawler \in Threads /\ Commanders \subseteq Threads
  BY DEF Threads
<1>3. ASSUME NEW d \in Dirs, Crawl(d) PROVE IInv' /\ KeptPointers
  <2>1. ReadCall(Crawler, Get(d) \o <<Step("crawl", d, NoDir)>>)
    BY <1>3 DEF Crawl
  <2>2. Step("crawl", d, NoDir) \in Steps /\ Step("crawl", d, NoDir).op = "crawl"
    <3>1. "crawl" \in Reads
      BY DEF Reads
    <3> QED
      BY <3>1, StepFacts
  <2> QED
    BY <1>2, <2>1, <2>2, ReadCallKeeps
<1>4. ASSUME NEW d \in Dirs, CrawlerErases(d) PROVE IInv' /\ KeptPointers
  BY <1>2, <1>4, WriteCallKeeps DEF CrawlerErases, Writes
<1>5. ASSUME NEW t \in Commanders, RefreshAll(t) PROVE IInv' /\ KeptPointers
  BY <1>2, <1>5, WriteCallKeeps DEF RefreshAll, Writes
<1>6. ASSUME NEW t \in Commanders, NEW d \in Dirs, EraseCommand(t, d) PROVE IInv' /\ KeptPointers
  BY <1>2, <1>6, WriteCallKeeps DEF EraseCommand, Writes
<1> QED
  BY <1>1, <1>3, <1>4, <1>5, <1>6 DEF Call

(* The folders above a directory are directories, and before it.          *)
LEMMA ChainFacts ==
  \A d \in Dirs : Chain[d] \in SUBSET Dirs /\ \A e \in Chain[d] : e <= d
<1>1. IsTree(Dirs, Parent, NoDir)
  BY DirsAreRanks, ParentIsTree DEF IsTree
<1>2. IsChain(Chain, Dirs, Parent, NoDir)
  <2>1. \E f : IsChain(f, Dirs, Parent, NoDir)
    BY <1>1, ChainExists
  <2>2. Chain = CHOOSE f : IsChain(f, Dirs, Parent, NoDir)
    BY Zenon DEF Chain, IsChain
  <2> QED
    BY <2>1, <2>2, Zenon
<1>3. GoesUp(Chain, Dirs, Parent, NoDir)
  BY <1>1, <1>2, ChainUp
<1>4. \A d \in Dirs : \A e \in Chain[d] : e <= d
  BY <1>1, <1>2, ChainLine
<1> QED
  BY <1>3, <1>4 DEF GoesUp

(* Changes on the disk.                                                    *)
LEMMA OutsideKeeps ==
  ASSUME IInv, Outside
  PROVE  IInv' /\ KeptPointers
<1>1. MapOK /\ GuardOK /\ Admitted /\ Asking
  BY DEF IInv
<1>2. /\ changes < MaxDisk /\ changes' = changes + 1 /\ calls' = calls
      /\ UNCHANGED mapVars /\ UNCHANGED todo
      /\ readers' = readers /\ writers' = writers /\ queued' = queued
  BY DEF Outside, guardVars
<1>3. exists' \in SUBSET Dirs /\ allowed' \in SUBSET Dirs
  <2>1. CASE \E S \in Exclusions : allowed' = Dirs \ S /\ UNCHANGED exists
    BY <1>1, <2>1 DEF MapOK
  <2>2. CASE /\ \E d \in Vanishing : exists' = IF d \in exists THEN {e \in exists : ~IsAncestorOf(d, e)}
                                                               ELSE exists \cup Chain[d]
             /\ UNCHANGED allowed
    <3>1. \A d \in Vanishing : Chain[d] \in SUBSET Dirs
      BY ChainFacts, Settings
    <3> QED
      BY <1>1, <2>2, <3>1 DEF MapOK
  <2> QED
    BY <2>1, <2>2 DEF Outside
<1>4. MapOK'
  BY <1>1, <1>2, <1>3, Settings DEF MapOK, ChildrenOK, mapVars
<1>5. GuardOK' /\ Admitted' /\ Asking'
  BY <1>1, <1>2 DEF GuardOK, Admitted, Asking, Asks
<1>6. TodoOK' /\ CallsOK' /\ Fetching' /\ KeptPointers
  BY <1>2, SameTodo
<1> QED
  BY <1>4, <1>5, <1>6 DEF IInv

-----------------------------------------------------------------------------
(* The invariant *)

(* The invariant holds at the start ...                                    *)
LEMMA InitOK == Init => IInv
<1> SUFFICES ASSUME Init PROVE IInv
  OBVIOUS
<1>1. /\ exists = Dirs /\ allowed = Dirs /\ m_directoryCache \in Saved /\ m_FetchingStatus = {}
      /\ readers = {} /\ writers = {} /\ queued = {}
      /\ todo = [t \in Threads |-> << >>] /\ calls = 0 /\ changes = 0
  BY DEF Init, m_guard!Init
<1>2. ChildrenOK
  <2>1. CASE m_childDirectories = [d \in Dirs |-> {}]
    BY <2>1 DEF ChildrenOK
  <2>2. CASE m_childDirectories
               = [d \in Dirs |-> IF d \in m_directoryCache THEN {c \in Dirs : Parent[c] = d} ELSE {}]
    <3>1. \A d \in Dirs : \A c \in m_childDirectories[d] : c \in Dirs /\ Parent[c] = d
      BY <2>2
    <3>2. \A d \in Dirs : d # NoDir
      BY DirsAreRanks
    <3>3. \A d \in Dirs : \A c \in m_childDirectories[d] : d < c
      BY <3>1, <3>2, ParentIsTree
    <3> QED
      BY <2>2, <3>3 DEF ChildrenOK
  <2> QED
    BY <2>1, <2>2 DEF Init
<1>3. \A t \in Threads : todo[t] = << >> /\ DOMAIN todo[t] = {}
  BY <1>1
<1>4. MapOK
  BY <1>1, <1>2, Settings DEF MapOK
<1>5. GuardOK
  BY <1>1 DEF GuardOK
<1>6. TodoOK
  BY <1>1 DEF TodoOK
<1>7. CallsOK
  BY <1>3 DEF CallsOK, EndsLast, Live
<1>8. Admitted /\ Asking
  BY <1>1, <1>3 DEF Admitted, Asking
<1>9. Fetching
  BY <1>1, <1>3 DEF Fetching, Fetches
<1> QED
  BY <1>4, <1>5, <1>6, <1>7, <1>8, <1>9 DEF IInv

(* A thread takes its next step.                                           *)
LEMMA RunKeeps ==
  ASSUME IInv, ~Undefined, NEW t \in Threads, Run(t)
  PROVE  IInv' /\ KeptPointers
<1>1. CASE AcquireWriterLock(t)
  BY <1>1, AcquireWriterLockKeeps
<1>2. CASE WriterGranted(t)
  BY <1>2, WriterGrantedKeeps
<1>3. CASE ReleaseReaderLock(t)
  BY <1>3, ReleaseReaderLockKeeps
<1>4. CASE Find(t)
  BY <1>4, FindKeeps, FewerIsKept
<1>5. CASE Insert(t)
  BY <1>5, InsertKeeps
<1>6. CASE RemoveAsCrawler(t)
  BY <1>6, RemoveAsCrawlerKeeps
<1>7. CASE Write(t)
  BY <1>7, WriteKeeps
<1>8. CASE Answer(t)
  BY <1>8, AnswerKeeps, FewerIsKept
<1>9. CASE StartFetch(t)
  BY <1>9, StartFetchKeeps, FewerIsKept
<1>10. CASE Exchange(t)
  BY <1>10, ExchangeKeeps, FewerIsKept
<1>11. CASE Report(t)
  BY <1>11, ReportKeeps, FewerIsKept
<1>12. CASE SetChildStatus(t)
  BY <1>12, SetChildStatusKeeps, FewerIsKept
<1>13. CASE Fetched(t)
  BY <1>13, FetchedKeeps, FewerIsKept
<1>14. CASE TellParent(t)
  BY <1>14, TellParentKeeps, FewerIsKept
<1>15. CASE Store(t)
  BY <1>15, StoreKeeps, FewerIsKept
<1>16. CASE Reply(t)
  BY <1>16, ReplyKeeps, FewerIsKept
<1>17. CASE Members(t)
  BY <1>17, MembersKeeps, FewerIsKept
<1>18. CASE Status(t)
  BY <1>18, StatusKeeps, FewerIsKept
<1>19. CASE Entry(t)
  BY <1>19, EntryKeeps, FewerIsKept
<1> QED
  BY <1>1, <1>2, <1>3, <1>4, <1>5, <1>6, <1>7, <1>8, <1>9, <1>10, <1>11, <1>12, <1>13, <1>14,
     <1>15, <1>16, <1>17, <1>18, <1>19 DEF Run

(* ... every step keeps it, and deletes only what PointersKept allows ...  *)
LEMMA NextOK == IInv /\ [Next]_vars => IInv' /\ KeptPointers
<1> SUFFICES ASSUME IInv, [Next]_vars PROVE IInv' /\ KeptPointers
  OBVIOUS
<1>1. CASE UNCHANGED vars
  <2>1. UNCHANGED mapVars /\ UNCHANGED diskVars /\ UNCHANGED guardVars /\ todo' = todo /\ UNCHANGED bounds
    BY <1>1 DEF vars
  <2>2. MapOK'
    BY <2>1 DEF IInv, MapOK, ChildrenOK, mapVars, diskVars, bounds
  <2>3. GuardOK' /\ Admitted' /\ Asking'
    BY <2>1 DEF IInv, GuardOK, Admitted, Asking, Asks, guardVars
  <2>4. TodoOK' /\ CallsOK' /\ Fetching' /\ KeptPointers
    BY <2>1, SameTodo
  <2> QED
    BY <2>2, <2>3, <2>4 DEF IInv
<1>2. CASE Outside
  BY <1>2, OutsideKeeps
<1>3. CASE Call
  BY <1>3, CallsKeep
<1>4. CASE ~Undefined /\ \E t \in Threads : Run(t)
  BY <1>4, RunKeeps
<1> QED
  BY <1>1, <1>2, <1>3, <1>4 DEF Next

(* The threads that fetch d are as many as the flag of d tells.            *)
LEMMA IInvImpliesCacheInv == IInv => CacheInv
<1> SUFFICES ASSUME IInv PROVE CacheInv
  OBVIOUS
<1>1. MapOK /\ GuardOK /\ TodoOK /\ CallsOK /\ Fetching
  BY DEF IInv
<1>2. m_FetchingStatus \subseteq m_directoryCache
  <2>1. ASSUME NEW d \in m_FetchingStatus PROVE d \in m_directoryCache
    <3>1. PICK t \in Threads, i \in Nat : Fetches(t, i, d)
      BY <1>1 DEF Fetching
    <3>2. Live(todo[t])
      BY <1>1 DEF CallsOK
    <3> QED
      BY <3>1, <3>2, Names DEF Live, Fetches
  <2> QED
    BY <2>1
<1>3. TypeOK
  BY <1>1, <1>2 DEF TypeOK, MapOK, ChildrenOK, GuardOK
<1>4. ASSUME NEW d \in Dirs
      PROVE  Cardinality(UNION {Pending(t, "fetched", d) \X {t} : t \in Threads})
               = IF d \in m_FetchingStatus THEN 1 ELSE 0
  <2> DEFINE F == UNION {Pending(t, "fetched", d) \X {t} : t \in Threads}
  <2>1. \A t \in Threads : DOMAIN todo[t] \in SUBSET Nat
    BY <1>1 DEF TodoOK
  <2>2. \A t \in Threads : \A i : i \in Pending(t, "fetched", d) <=> (i \in Nat /\ Fetches(t, i, d))
    BY <2>1 DEF Pending, Fetches
  <2>3. \A x : x \in F <=> \E t \in Threads, i \in Nat : Fetches(t, i, d) /\ x = <<i, t>>
    BY <2>2
  <2> HIDE DEF F
  <2>4. CASE d \in m_FetchingStatus
    <3>1. PICK t \in Threads, i \in Nat : Fetches(t, i, d)
      BY <1>1, <2>4 DEF Fetching
    <3>2. \A u \in Threads, j \in Nat : Fetches(u, j, d) => u = t /\ j = i
      BY <1>1, <3>1 DEF Fetching
    <3>3. F = {<<i, t>>}
      BY <2>3, <3>1, <3>2
    <3> QED
      BY <2>4, <3>3, FS_Singleton DEF F
  <2>5. CASE d \notin m_FetchingStatus
    <3>1. F = {}
      BY <1>1, <2>3, <2>5 DEF Fetching
    <3> QED
      BY <2>5, <3>1, FS_EmptySet DEF F
  <2> QED
    BY <2>4, <2>5
<1>5. OneFetcher
  BY <1>4 DEF OneFetcher
<1> QED
  BY <1>3, <1>5 DEF CacheInv

(* ... so it always holds.                                                 *)
LEMMA IInvHolds == Spec => []IInv
<1>1. Init => IInv
  BY InitOK
<1>2. IInv /\ [Next]_vars => IInv'
  BY NextOK
<1> QED
  BY <1>1, <1>2, PTL DEF Spec

(* The flag that keeps others from fetching a directory is set as long as  *)
(* exactly one thread fetches it (m_FetchingStatus and SvnUpdateMembers-   *)
(* Status), through all deletions of its object.                           *)
THEOREM FetchedByOne == Spec => []CacheInv
<1>1. IInv => CacheInv
  BY IInvImpliesCacheInv
<1> QED
  BY <1>1, IInvHolds, PTL

(* No step of any thread deletes an object a thread with access to the map *)
(* points to (m_guard): pointers become invalid only while their thread    *)
(* waits for an upgrade.                                                   *)
THEOREM PointersStay == Spec => PointersKept
<1>1. IInv /\ [Next]_vars =>
        [\A t \in Threads : t \notin queued => Cardinality(Dangling(t)') <= Cardinality(Dangling(t))]_vars
  BY NextOK DEF KeptPointers
<1> QED
  BY <1>1, IInvHolds, PTL DEF Spec, PointersKept

-----------------------------------------------------------------------------
(* What a removal leaves in the map *)

(* First and After find the next directory in the map's order.             *)
LEMMA FirstFacts ==
  ASSUME NEW S \in SUBSET Dirs
  PROVE  /\ S = {} => First(S) = NoDir
         /\ S # {} => First(S) \in S /\ First(S) # NoDir /\ \A e \in S : First(S) <= e
<1>1. IsFiniteSet(S) /\ S \in SUBSET Int
  BY DirsAreRanks, FS_Subset
<1>2. S # {} => Min(S) \in S /\ \A e \in S : Min(S) <= e
  BY <1>1, Least DEF Min
<1> QED
  BY <1>2, DirsAreRanks DEF First

LEMMA AfterFacts ==
  ASSUME NEW S \in SUBSET Dirs, NEW d \in Int
  PROVE  /\ After(S, d) = NoDir => \A e \in S : e <= d
         /\ After(S, d) # NoDir =>
              /\ After(S, d) \in S /\ d < After(S, d)
              /\ \A e \in S : d < e => After(S, d) <= e
<1> DEFINE rest == {e \in S : e > d}
<1>1. rest \in SUBSET Dirs /\ S \in SUBSET Int
  BY DirsAreRanks
<1>2. After(S, d) = First(rest)
  BY DEF After
<1>3. CASE rest = {}
  <2>1. After(S, d) = NoDir
    BY <1>1, <1>2, <1>3, FirstFacts
  <2>2. \A e \in S : e <= d
    BY <1>1, <1>3
  <2> QED
    BY <2>1, <2>2
<1>4. CASE rest # {}
  <2>1. First(rest) \in rest /\ First(rest) # NoDir /\ \A e \in rest : First(rest) <= e
    <3> HIDE DEF rest
    <3> QED
      BY <1>1, <1>4, FirstFacts
  <2> QED
    BY <1>1, <1>2, <2>1
<1> QED
  BY <1>3, <1>4

(* The calls of RemoveCacheForDirectory: the map, the directory, children. *)
Removals == (SUBSET Dirs) \X Dirs \X (SUBSET Dirs)

(* The equation of WithoutDirectory.                                       *)
Removal(f, call) ==
  LET S == call[1]  d == call[2]  C == call[3]
      Cleared(R, e) == f[<<R, e, m_childDirectories[e]>>]
      c == First(C)  e == After(S \ {d}, d)
  IN  IF C # {}
      THEN f[<<IF c \in S THEN Cleared(S, c) ELSE S, d, C \ {c}>>]
      ELSE IF e # NoDir /\ IsAncestorOf(d, e)
      THEN f[<<Cleared(S \ {d}, e), d, {}>>]
      ELSE S \ {d}

(* A call is over before its caller: it is for a directory farther behind  *)
(* (or at last for one whose children are), or has less left to do.        *)
Behind(d) == Cardinality({e \in Dirs : e > d})
Level(d, C) == IF \A c \in C : d < c THEN Behind(d) ELSE Cardinality(Dirs) + 1
Width == 2 * Cardinality(Dirs) + 1
Rank(S, d, C) == Level(d, C) * Width + (Cardinality(C) + Cardinality(S))
rank == [call \in Removals |-> Rank(call[1], call[2], call[3])]
MaxRank == (Cardinality(Dirs) + 2) * Width

LEMMA Sizes ==
  /\ Cardinality(Dirs) \in Nat /\ Width \in Nat
  /\ \A S \in SUBSET Dirs : Cardinality(S) \in 0..Cardinality(Dirs)
  /\ \A S \in SUBSET Dirs : \A R \in SUBSET S :
       /\ Cardinality(R) <= Cardinality(S)
       /\ R # S => Cardinality(R) < Cardinality(S)
<1>1. Cardinality(Dirs) \in Nat
  BY DirsAreRanks, FS_CardinalityType
<1>2. \A S \in SUBSET Dirs : IsFiniteSet(S) /\ Cardinality(S) \in Nat /\ Cardinality(S) <= Cardinality(Dirs)
  BY DirsAreRanks, FS_Subset, FS_CardinalityType
<1>3. \A S \in SUBSET Dirs : \A R \in SUBSET S :
        /\ Cardinality(R) <= Cardinality(S)
        /\ R # S => Cardinality(R) # Cardinality(S)
  BY <1>2, FS_Subset
<1>4. \A S \in SUBSET Dirs : \A R \in SUBSET S : R \in SUBSET Dirs
  OBVIOUS
<1> QED
  BY <1>1, <1>2, <1>3, <1>4 DEF Width

LEMMA Levels ==
  ASSUME NEW d \in Dirs, NEW C \in SUBSET Dirs
  PROVE  /\ Level(d, C) \in 0..Cardinality(Dirs) + 1
         /\ \A c \in Dirs : d < c => Behind(c) < Behind(d)
         /\ Behind(d) <= Cardinality(Dirs)
<1>1. {e \in Dirs : e > d} \in SUBSET Dirs
  OBVIOUS
<1>2. Behind(d) \in 0..Cardinality(Dirs)
  BY <1>1, Sizes DEF Behind
<1>3. ASSUME NEW c \in Dirs, d < c PROVE Behind(c) < Behind(d)
  <2>1. Dirs \in SUBSET Int
    BY DirsAreRanks
  <2>2. {e \in Dirs : e > c} \in SUBSET {e \in Dirs : e > d}
    <3>1. c \in Int /\ d \in Int
      BY <2>1
    <3>2. ASSUME NEW e \in Dirs, e > c PROVE e > d
      <4>1. e \in Int
        BY <2>1
      <4> QED
        BY <1>3, <3>1, <3>2, <4>1
    <3> QED
      BY <3>2
  <2>3. c \in {e \in Dirs : e > d} /\ c \notin {e \in Dirs : e > c}
    BY <1>3, <2>1
  <2> QED
    BY <1>1, <2>2, <2>3, Sizes DEF Behind
<1> QED
  BY <1>2, <1>3, Sizes DEF Level

(* Products of ranks.                                                      *)
LEMMA Lexicographic ==
  ASSUME NEW a \in Nat, NEW b \in Nat, NEW w \in Nat, a < b
  PROVE  a * w + w <= b * w
<1>1. PICK k \in Nat : b = a + 1 + k
  <2>1. b - a - 1 \in Nat /\ b = a + 1 + (b - a - 1)
    OBVIOUS
  <2> QED
    BY <2>1
<1>2. b * w = a * w + w + k * w
  BY <1>1
<1>3. k * w \in Nat /\ a * w \in Nat
  OBVIOUS
<1> QED
  BY <1>2, <1>3

LEMMA LexicographicLess ==
  ASSUME NEW a \in Nat, NEW b \in Nat, NEW u \in Nat, NEW v \in Nat, NEW w \in Nat, u < w,
         a < b \/ (a = b /\ u < v)
  PROVE  a * w + u < b * w + v /\ a * w \in Nat
<1> DEFINE aw == a * w
           bw == b * w
<1>1. aw \in Nat /\ bw \in Nat
  OBVIOUS
<1>2. a < b => aw + w <= bw
  BY Lexicographic
<1>3. a = b => aw = bw
  OBVIOUS
<1> HIDE DEF aw, bw
<1>4. aw + u < bw + v
  BY <1>1, <1>2, <1>3
<1> QED
  BY <1>1, <1>4 DEF aw, bw

LEMMA RankFacts ==
  /\ MaxRank \in Nat /\ rank \in [Removals -> 0..MaxRank]
  /\ \A S, T, C, D \in SUBSET Dirs, d, e \in Dirs :
       /\ Level(e, D) < Level(d, C) => rank[<<T, e, D>>] < rank[<<S, d, C>>]
       /\ /\ Level(e, D) <= Level(d, C)
          /\ Cardinality(D) + Cardinality(T) < Cardinality(C) + Cardinality(S)
          => rank[<<T, e, D>>] < rank[<<S, d, C>>]
<1> DEFINE n == Cardinality(Dirs)
           w == Width
<1>1. n \in Nat /\ w \in Nat /\ w = 2 * n + 1
  BY Sizes DEF Width
<1>2. \A S, C \in SUBSET Dirs, d \in Dirs :
        /\ rank[<<S, d, C>>] = Level(d, C) * w + (Cardinality(C) + Cardinality(S))
        /\ Cardinality(C) + Cardinality(S) \in Nat /\ Cardinality(C) + Cardinality(S) < w
        /\ Level(d, C) \in Nat /\ Level(d, C) < n + 2
  <2> SUFFICES ASSUME NEW S \in SUBSET Dirs, NEW C \in SUBSET Dirs, NEW d \in Dirs
               PROVE  /\ rank[<<S, d, C>>] = Level(d, C) * w + (Cardinality(C) + Cardinality(S))
                      /\ Cardinality(C) + Cardinality(S) \in Nat /\ Cardinality(C) + Cardinality(S) < w
                      /\ Level(d, C) \in Nat /\ Level(d, C) < n + 2
    OBVIOUS
  <2>1. <<S, d, C>> \in Removals
    BY DEF Removals
  <2>2. rank[<<S, d, C>>] = Rank(S, d, C)
    BY <2>1 DEF rank
  <2>3. Cardinality(C) \in 0..n /\ Cardinality(S) \in 0..n
    BY Sizes
  <2>4. Level(d, C) \in 0..n + 1
    BY Levels
  <2> HIDE DEF n, w
  <2> QED
    BY <1>1, <2>2, <2>3, <2>4 DEF Rank, w
<1> HIDE DEF n, w
<1>3. \A a, b \in Nat : a < b => a * w + w <= b * w
  BY <1>1, Lexicographic
<1>4. \A a \in Nat : a * w \in Nat
  BY <1>1
<1>5. MaxRank \in Nat /\ MaxRank = (n + 2) * w
  BY <1>1 DEF MaxRank, n, w
<1>6. \A S, C \in SUBSET Dirs, d \in Dirs : rank[<<S, d, C>>] \in 0..MaxRank
  <2> TAKE S, C \in SUBSET Dirs, d \in Dirs
  <2> DEFINE a == Level(d, C)
             u == Cardinality(C) + Cardinality(S)
  <2>1. rank[<<S, d, C>>] = a * w + u /\ u \in Nat /\ u < w /\ a \in Nat /\ a < n + 2
    BY <1>2
  <2> HIDE DEF a, u
  <2>2. a * w + w <= (n + 2) * w /\ a * w \in Nat
    BY <1>1, <1>3, <1>4, <2>1
  <2> DEFINE aw == a * w
             m == (n + 2) * w
  <2>3. aw \in Nat /\ aw + w <= m /\ rank[<<S, d, C>>] = aw + u /\ MaxRank = m
    BY <1>5, <2>1, <2>2
  <2> HIDE DEF aw, m
  <2> QED
    BY <1>1, <1>5, <2>1, <2>3
<1>7. rank \in [Removals -> 0..MaxRank]
  <2>1. \A call \in Removals : Rank(call[1], call[2], call[3]) \in 0..MaxRank
    <3> TAKE call \in Removals
    <3>1. /\ call = <<call[1], call[2], call[3]>>
          /\ call[1] \in SUBSET Dirs /\ call[2] \in Dirs /\ call[3] \in SUBSET Dirs
      BY DEF Removals
    <3>2. rank[call] \in 0..MaxRank
      BY <1>6, <3>1
    <3> QED
      BY <3>2 DEF rank
  <2> QED
    BY <2>1 DEF rank
<1>8. ASSUME NEW S \in SUBSET Dirs, NEW T \in SUBSET Dirs, NEW C \in SUBSET Dirs, NEW D \in SUBSET Dirs,
             NEW d \in Dirs, NEW e \in Dirs
      PROVE  /\ Level(e, D) < Level(d, C) => rank[<<T, e, D>>] < rank[<<S, d, C>>]
             /\ /\ Level(e, D) <= Level(d, C)
                /\ Cardinality(D) + Cardinality(T) < Cardinality(C) + Cardinality(S)
                => rank[<<T, e, D>>] < rank[<<S, d, C>>]
  <2> DEFINE a == Level(e, D)
             b == Level(d, C)
             u == Cardinality(D) + Cardinality(T)
             v == Cardinality(C) + Cardinality(S)
             aw == a * w
             bw == b * w
  <2>1. /\ rank[<<T, e, D>>] = aw + u /\ rank[<<S, d, C>>] = bw + v
        /\ u \in Nat /\ v \in Nat /\ u < w /\ a \in Nat /\ b \in Nat
    BY <1>2
  <2> HIDE DEF a, b, u, v
  <2>2. aw \in Nat /\ bw \in Nat
    BY <1>4, <2>1
  <2>3. a < b => aw + w <= bw
    BY <1>3, <2>1
  <2>4. a = b => aw = bw
    OBVIOUS
  <2> HIDE DEF aw, bw
  <2>5. a < b => aw + u < bw + v
    BY <1>1, <2>1, <2>2, <2>3
  <2>6. a <= b /\ u < v => aw + u < bw + v
    BY <1>1, <2>1, <2>2, <2>4, <2>5
  <2> QED
    BY <2>1, <2>5, <2>6 DEF a, b, u, v
<1> QED
  BY <1>5, <1>7, <1>8

(* Each call inside a call is of lower rank.                               *)
LEMMA Descends ==
  ASSUME ChildrenOK, NEW S \in SUBSET Dirs, NEW d \in Dirs, NEW C \in SUBSET Dirs
  PROVE  /\ C # {} =>
              /\ First(C) \in C
              /\ \A R \in SUBSET Dirs : LET call == <<R, First(C), m_childDirectories[First(C)]>> IN
                   call \in Removals /\ rank[call] < rank[<<S, d, C>>]
              /\ \A R \in SUBSET S : LET call == <<R, d, C \ {First(C)}>> IN
                   call \in Removals /\ rank[call] < rank[<<S, d, C>>]
         /\ C = {} => \A e \in S : d < e =>
              /\ LET call == <<S \ {d}, e, m_childDirectories[e]>> IN
                   call \in Removals /\ rank[call] < rank[<<S, d, C>>]
              /\ \A R \in SUBSET (S \ {e}) : LET call == <<R, d, {}>> IN
                   call \in Removals /\ rank[call] < rank[<<S, d, C>>]
<1>0. Dirs \in SUBSET Int
  BY DirsAreRanks
<1>1. ASSUME NEW e \in Dirs
      PROVE  m_childDirectories[e] \in SUBSET Dirs /\ Level(e, m_childDirectories[e]) = Behind(e)
  BY DEF ChildrenOK, Level
<1>2. ASSUME NEW e \in Dirs, Level(d, C) # Cardinality(Dirs) + 1 => d < e
      PROVE  Level(e, m_childDirectories[e]) < Level(d, C)
  <2>1. Behind(e) <= Cardinality(Dirs) /\ Behind(e) \in Int /\ Cardinality(Dirs) \in Int
    <3>1. Level(e, {}) = Behind(e)
      BY DEF Level
    <3> QED
      BY <3>1, Levels, Sizes
  <2>2. CASE Level(d, C) = Cardinality(Dirs) + 1
    BY <1>1, <2>1, <2>2
  <2>3. CASE Level(d, C) # Cardinality(Dirs) + 1
    <3>1. Level(d, C) = Behind(d) /\ d < e
      BY <1>2, <2>3 DEF Level
    <3> QED
      BY <1>1, <3>1, Levels
  <2> QED
    BY <2>2, <2>3
<1>3. CASE C # {}
  <2> DEFINE c == First(C)
  <2>1. c \in C /\ c \in Dirs
    BY <1>3, FirstFacts
  <2>2. Level(d, C) # Cardinality(Dirs) + 1 => d < c
    BY <2>1 DEF Level
  <2>3. Level(c, m_childDirectories[c]) < Level(d, C) /\ m_childDirectories[c] \in SUBSET Dirs
    BY <1>1, <1>2, <2>1, <2>2
  <2>4. \A R \in SUBSET Dirs : /\ <<R, c, m_childDirectories[c]>> \in Removals
                               /\ rank[<<R, c, m_childDirectories[c]>>] < rank[<<S, d, C>>]
    BY <2>1, <2>3, RankFacts DEF Removals
  <2>5. C \ {c} \in SUBSET C /\ C \ {c} \in SUBSET Dirs /\ C \ {c} # C
    BY <2>1
  <2>6. Level(d, C \ {c}) <= Level(d, C)
    <3>1. Behind(d) <= Cardinality(Dirs) /\ Behind(d) \in Int /\ Cardinality(Dirs) \in Int
      <4>1. Level(d, {}) = Behind(d)
        BY DEF Level
      <4> QED
        BY <4>1, Levels, Sizes
    <3> QED
      BY <2>5, <3>1 DEF Level
  <2>7. ASSUME NEW R \in SUBSET S
        PROVE  /\ <<R, d, C \ {c}>> \in Removals
               /\ rank[<<R, d, C \ {c}>>] < rank[<<S, d, C>>]
    <3>1. R \in SUBSET Dirs
      OBVIOUS
    <3>2. /\ Cardinality(C \ {c}) < Cardinality(C) /\ Cardinality(R) <= Cardinality(S)
          /\ Cardinality(C \ {c}) \in Int /\ Cardinality(C) \in Int
          /\ Cardinality(R) \in Int /\ Cardinality(S) \in Int
      BY <2>5, <3>1, Sizes
    <3>3. Cardinality(C \ {c}) + Cardinality(R) < Cardinality(C) + Cardinality(S)
      BY <3>2
    <3> QED
      BY <2>5, <2>6, <3>1, <3>3, RankFacts DEF Removals
  <2> QED
    BY <1>3, <2>1, <2>4, <2>7
<1>4. CASE C = {}
  <2>1. ASSUME NEW e \in S, d < e
        PROVE  /\ <<S \ {d}, e, m_childDirectories[e]>> \in Removals
               /\ rank[<<S \ {d}, e, m_childDirectories[e]>>] < rank[<<S, d, C>>]
    <3>1. Level(e, m_childDirectories[e]) < Level(d, C) /\ m_childDirectories[e] \in SUBSET Dirs
      BY <1>1, <1>2, <2>1
    <3>2. S \ {d} \in SUBSET Dirs /\ e \in Dirs
      OBVIOUS
    <3> QED
      BY <3>1, <3>2, RankFacts DEF Removals
  <2>2. ASSUME NEW e \in S, NEW R \in SUBSET (S \ {e})
        PROVE  <<R, d, {}>> \in Removals /\ rank[<<R, d, {}>>] < rank[<<S, d, C>>]
    <3>1. R \in SUBSET S /\ R # S /\ R \in SUBSET Dirs
      OBVIOUS
    <3>2. Cardinality(R) < Cardinality(S) /\ Cardinality(R) \in Int /\ Cardinality(S) \in Int
      BY <3>1, Sizes
    <3>3. Cardinality({}) = 0 /\ Cardinality({}) + Cardinality(R) < Cardinality(C) + Cardinality(S)
      BY <1>4, <3>2, FS_EmptySet
    <3>4. Level(d, {}) <= Level(d, C)
      BY <1>4, Levels
    <3> QED
      BY <3>1, <3>3, <3>4, RankFacts DEF Removals
  <2> QED
    BY <1>4, <2>1, <2>2
<1> QED
  BY <1>3, <1>4

(* A call takes its directory out of the map, and puts none in.            *)
Shrinks(f, call) == f[call] \in SUBSET (call[1] \ {call[2]})

(* How a call goes on depends on calls of lower rank, and shrinks the map  *)
(* when they do.                                                           *)
LEMMA RemovalFacts ==
  ASSUME ChildrenOK, NEW f, NEW call \in Removals,
         \A inner \in Removals : rank[inner] < rank[call] => Shrinks(f, inner)
  PROVE  /\ Removal(f, call) \in SUBSET (call[1] \ {call[2]})
         /\ \A g : (\A inner \in Removals : rank[inner] < rank[call] => f[inner] = g[inner])
                     => Removal(f, call) = Removal(g, call)
         /\ \/ Removal(f, call) = call[1] \ {call[2]} /\ call[3] = {}
               /\ LET e == After(call[1] \ {call[2]}, call[2]) IN
                    e = NoDir \/ ~IsAncestorOf(call[2], e)
            \/ \E inner \in Removals :
                 rank[inner] < rank[call] /\ inner[2] = call[2] /\ Removal(f, call) = f[inner]
<1> DEFINE S == call[1]
           d == call[2]
           C == call[3]
<1>1. call = <<S, d, C>> /\ S \in SUBSET Dirs /\ d \in Dirs /\ C \in SUBSET Dirs /\ d \in Int
  <2>1. call = <<S, d, C>> /\ S \in SUBSET Dirs /\ d \in Dirs /\ C \in SUBSET Dirs
    BY DEF Removals
  <2> QED
    BY <2>1, DirsAreRanks
<1> HIDE DEF S, d, C
<1>2. CASE C # {}
  <2> DEFINE c == First(C)
             first == <<S, c, m_childDirectories[c]>>
             R == IF c \in S THEN f[first] ELSE S
             next == <<R, d, C \ {c}>>
  <2>1. /\ c \in C /\ first \in Removals /\ rank[first] < rank[call]
        /\ \A T \in SUBSET S : <<T, d, C \ {c}>> \in Removals /\ rank[<<T, d, C \ {c}>>] < rank[call]
    BY <1>1, <1>2, Descends
  <2>2. R \in SUBSET S
    BY <2>1 DEF Shrinks
  <2>3. next \in Removals /\ rank[next] < rank[call]
    BY <2>1, <2>2
  <2>4. Removal(f, call) = f[next]
    BY <1>1, <1>2 DEF Removal, S, d, C
  <2>5. f[next] \in SUBSET (R \ {d})
    BY <2>3 DEF Shrinks
  <2>6. ASSUME NEW g, \A inner \in Removals : rank[inner] < rank[call] => f[inner] = g[inner]
        PROVE  Removal(f, call) = Removal(g, call)
    <3>1. f[first] = g[first] /\ f[next] = g[next]
      BY <2>1, <2>3, <2>6
    <3>2. Removal(g, call) = g[<<IF c \in S THEN g[first] ELSE S, d, C \ {c}>>]
      BY <1>1, <1>2 DEF Removal, S, d, C
    <3> QED
      BY <2>4, <3>1, <3>2
  <2>7. next[2] = d
    OBVIOUS
  <2> HIDE DEF next, R, first, c
  <2>8. Removal(f, call) \in SUBSET (S \ {d})
    BY <2>2, <2>4, <2>5
  <2> QED
    BY <2>3, <2>4, <2>6, <2>7, <2>8 DEF S, d
<1>3. CASE C = {}
  <2> DEFINE e == After(S \ {d}, d)
  <2>0. S \ {d} \in SUBSET Dirs
    BY <1>1
  <2>1. e # NoDir => e \in S \ {d} /\ d < e
    BY <1>1, <2>0, AfterFacts
  <2>2. CASE e # NoDir /\ IsAncestorOf(d, e)
    <3> DEFINE first == <<S \ {d}, e, m_childDirectories[e]>>
               next == <<f[first], d, {}>>
    <3>0. e \in S /\ e \in S \ {d} /\ d < e
      BY <2>1, <2>2
    <3>1. /\ first \in Removals /\ rank[first] < rank[call]
          /\ \A T \in SUBSET (S \ {e}) : <<T, d, {}>> \in Removals /\ rank[<<T, d, {}>>] < rank[call]
      <4> HIDE DEF e
      <4> QED
        BY <1>1, <1>3, <3>0, Descends
    <3>2. f[first] \in SUBSET ((S \ {d}) \ {e})
      BY <3>1 DEF Shrinks
    <3>3. next \in Removals /\ rank[next] < rank[call]
      BY <3>1, <3>2
    <3>4. Removal(f, call) = f[next]
      BY <1>1, <1>3, <2>2 DEF Removal, S, d, C
    <3>5. f[next] \in SUBSET (f[first] \ {d})
      BY <3>3 DEF Shrinks
    <3>6. ASSUME NEW g, \A inner \in Removals : rank[inner] < rank[call] => f[inner] = g[inner]
          PROVE  Removal(f, call) = Removal(g, call)
      <4>1. f[first] = g[first] /\ f[next] = g[next]
        BY <3>1, <3>3, <3>6
      <4>2. Removal(g, call) = g[<<g[first], d, {}>>]
        BY <1>1, <1>3, <2>2 DEF Removal, S, d, C
      <4> QED
        BY <3>4, <4>1, <4>2
    <3>7. next[2] = d
      OBVIOUS
    <3> HIDE DEF next, first, e
    <3>8. Removal(f, call) \in SUBSET (S \ {d})
      BY <3>2, <3>4, <3>5
    <3> QED
      BY <3>3, <3>4, <3>6, <3>7, <3>8 DEF S, d
  <2>3. CASE e = NoDir \/ ~IsAncestorOf(d, e)
    <3>1. Removal(f, call) = S \ {d} /\ \A g : Removal(g, call) = S \ {d}
      BY <1>1, <1>3, <2>3 DEF Removal, S, d, C
    <3> HIDE DEF e
    <3> QED
      BY <1>3, <2>3, <3>1 DEF S, d, C, e
  <2> QED
    BY <2>2, <2>3
<1> QED
  BY <1>2, <1>3

(* So the equation has a solution, and WithoutDirectory is one.            *)
LEMMA RemovalDefined ==
  ASSUME ChildrenOK
  PROVE  /\ WithoutDirectory = [call \in Removals |-> Removal(WithoutDirectory, call)]
         /\ \A call \in Removals : Shrinks(WithoutDirectory, call)
<1> DEFINE F == {f \in [Removals -> SUBSET Dirs] : \A call \in Removals : Shrinks(f, call)}
           G == [f \in F |-> [call \in Removals |-> Removal(f, call)]]
<1>1. MaxRank \in Nat /\ rank \in [Removals -> 0..MaxRank]
  BY RankFacts
<1>2. F # {}
  <2>1. [call \in Removals |-> {}] \in F
    BY DEF Shrinks
  <2> QED
    BY <2>1
<1>3. G \in [F -> F]
  <2> SUFFICES ASSUME NEW f \in F PROVE [call \in Removals |-> Removal(f, call)] \in F
    OBVIOUS
  <2>1. ASSUME NEW call \in Removals PROVE Removal(f, call) \in SUBSET (call[1] \ {call[2]})
    BY RemovalFacts
  <2>2. \A call \in Removals : call[1] \in SUBSET Dirs
    BY DEF Removals
  <2> DEFINE g == [call \in Removals |-> Removal(f, call)]
  <2>3. g \in [Removals -> SUBSET Dirs]
    BY <2>1, <2>2
  <2>4. \A call \in Removals : Shrinks(g, call)
    BY <2>1 DEF Shrinks
  <2> QED
    BY <2>3, <2>4
<1>4. \A f, g \in F : \A call \in Removals :
        (\A inner \in Removals : rank[inner] < rank[call] => f[inner] = g[inner])
          => G[f][call] = G[g][call]
  <2> SUFFICES ASSUME NEW f \in F, NEW g \in F, NEW call \in Removals,
                      \A inner \in Removals : rank[inner] < rank[call] => f[inner] = g[inner]
               PROVE  Removal(f, call) = Removal(g, call)
    OBVIOUS
  <2> QED
    BY RemovalFacts
<1>5. \E f \in F : G[f] = f
  <2>1. F \in SUBSET [Removals -> SUBSET Dirs]
    OBVIOUS
  <2> HIDE DEF F, G
  <2>2. IsRecursion(Removals, SUBSET Dirs, MaxRank, rank, F, G)
    BY <1>1, <1>2, <1>3, <1>4, <2>1 DEF IsRecursion
  <2> QED
    BY <2>2, Recursion
<1>6. \E f : f = [call \in Removals |-> Removal(f, call)]
  BY <1>5
<1>7. WithoutDirectory = [call \in Removals |-> Removal(WithoutDirectory, call)]
  <2>1. WithoutDirectory = CHOOSE f : f = [call \in Removals |-> Removal(f, call)]
    BY DEF WithoutDirectory, Removal, Removals
  <2> QED
    BY <1>6, <2>1
<1>8. \A call \in Removals : Shrinks(WithoutDirectory, call)
  <2> DEFINE wrong == {call \in Removals : ~Shrinks(WithoutDirectory, call)}
  <2> SUFFICES ASSUME wrong # {} PROVE FALSE
    OBVIOUS
  <2>1. PICK call \in wrong : \A inner \in wrong : rank[call] <= rank[inner]
    <3>1. wrong \in SUBSET Removals
      OBVIOUS
    <3> HIDE DEF wrong
    <3> QED
      BY <1>1, <3>1, LeastRank
  <2>2. \A inner \in Removals : rank[inner] < rank[call] => Shrinks(WithoutDirectory, inner)
    <3> SUFFICES ASSUME NEW inner \in Removals, rank[inner] < rank[call], inner \in wrong PROVE FALSE
      OBVIOUS
    <3>1. rank[call] <= rank[inner] /\ rank[call] \in Int /\ rank[inner] \in Int
      BY <1>1, <2>1
    <3> QED
      BY <3>1
  <2>3. Removal(WithoutDirectory, call) \in SUBSET (call[1] \ {call[2]})
    BY <2>2, RemovalFacts
  <2>4. WithoutDirectory[call] = Removal(WithoutDirectory, call)
    BY <1>7
  <2> QED
    BY <2>3, <2>4 DEF Shrinks
<1> QED
  BY <1>7, <1>8

(* Nothing below d is left, unless it is hidden by a longer name.          *)
BelowGone(left, d) ==
  \A e \in left : IsAncestorOf(d, e) => \E f \in left : d < f /\ f < e /\ ~IsAncestorOf(d, f)

(* What is behind d in the map when the loops end is not below d.          *)
LEMMA RemovalClears ==
  ASSUME ChildrenOK, NEW S \in SUBSET Dirs, NEW d \in Dirs
  PROVE  Without(S, d) \in SUBSET (S \ {d}) /\ BelowGone(Without(S, d), d)
<1>1. \A call \in Removals : BelowGone(WithoutDirectory[call], call[2])
  <2> DEFINE wrong == {call \in Removals : ~BelowGone(WithoutDirectory[call], call[2])}
  <2> SUFFICES ASSUME wrong # {} PROVE FALSE
    OBVIOUS
  <2>0. MaxRank \in Nat /\ rank \in [Removals -> 0..MaxRank]
    BY RankFacts
  <2>1. PICK call \in wrong : \A inner \in wrong : rank[call] <= rank[inner]
    <3>1. wrong \in SUBSET Removals
      OBVIOUS
    <3> HIDE DEF wrong
    <3> QED
      BY <2>0, <3>1, LeastRank
  <2>2. call \in Removals /\ ~BelowGone(WithoutDirectory[call], call[2])
    OBVIOUS
  <2>3. ASSUME NEW inner \in Removals, rank[inner] < rank[call]
        PROVE  BelowGone(WithoutDirectory[inner], inner[2])
    <3> SUFFICES ASSUME inner \in wrong PROVE FALSE
      OBVIOUS
    <3>1. rank[call] <= rank[inner] /\ rank[call] \in Int /\ rank[inner] \in Int
      BY <2>0, <2>1
    <3> QED
      BY <2>3, <3>1
  <2>4. WithoutDirectory[call] = Removal(WithoutDirectory, call)
    BY <2>2, RemovalDefined
  <2>5. \/ /\ WithoutDirectory[call] = call[1] \ {call[2]}
           /\ LET e == After(call[1] \ {call[2]}, call[2]) IN
                e = NoDir \/ ~IsAncestorOf(call[2], e)
        \/ \E inner \in Removals :
             /\ rank[inner] < rank[call] /\ inner[2] = call[2]
             /\ WithoutDirectory[call] = WithoutDirectory[inner]
    <3>1. \A inner \in Removals : rank[inner] < rank[call] => Shrinks(WithoutDirectory, inner)
      BY RemovalDefined
    <3>2. \/ /\ Removal(WithoutDirectory, call) = call[1] \ {call[2]}
             /\ LET e == After(call[1] \ {call[2]}, call[2]) IN
                  e = NoDir \/ ~IsAncestorOf(call[2], e)
          \/ \E inner \in Removals :
               /\ rank[inner] < rank[call] /\ inner[2] = call[2]
               /\ Removal(WithoutDirectory, call) = WithoutDirectory[inner]
      BY <2>2, <3>1, RemovalFacts
    <3> QED
      BY <2>4, <3>2
  <2>6. CASE \E inner \in Removals :
               /\ rank[inner] < rank[call] /\ inner[2] = call[2]
               /\ WithoutDirectory[call] = WithoutDirectory[inner]
    BY <2>2, <2>3, <2>6
  <2>7. CASE /\ WithoutDirectory[call] = call[1] \ {call[2]}
             /\ LET e == After(call[1] \ {call[2]}, call[2]) IN
                  e = NoDir \/ ~IsAncestorOf(call[2], e)
    <3> DEFINE left == call[1] \ {call[2]}
               x == call[2]
               f == After(left, x)
    <3>1. left \in SUBSET Dirs /\ x \in Dirs /\ x \notin left /\ WithoutDirectory[call] = left
      BY <2>2, <2>7 DEF Removals
    <3>2. f = NoDir \/ ~IsAncestorOf(x, f)
      BY <2>7
    <3> HIDE DEF left, x
    <3>3. ASSUME NEW e \in left, IsAncestorOf(x, e)
          PROVE  \E g \in left : x < g /\ g < e /\ ~IsAncestorOf(x, g)
      <4>0. x \in Int /\ e \in Int /\ Dirs \in SUBSET Int /\ e # x
        BY <3>1, DirsAreRanks
      <4>1. x < e
        <5>1. e \in Dirs /\ x \in Chain[e]
          BY <3>1, <3>3 DEF IsAncestorOf
        <5>2. x <= e
          BY <5>1, ChainFacts
        <5> QED
          BY <4>0, <5>2
      <4>2. f # NoDir => f \in left /\ x < f /\ f <= e
        BY <3>1, <4>0, <4>1, AfterFacts
      <4>3. f # NoDir
        <5>1. f = NoDir => e <= x
          BY <3>1, <4>0, AfterFacts
        <5> QED
          BY <4>0, <4>1, <5>1
      <4>4. f # e
        BY <3>2, <3>3, <4>3
      <4> HIDE DEF f
      <4>5. f \in Int
        BY <3>1, <4>0, <4>2, <4>3
      <4>6. f < e
        BY <4>0, <4>2, <4>3, <4>4, <4>5
      <4> QED
        BY <3>2, <4>2, <4>3, <4>6
    <3> QED
      BY <2>2, <3>1, <3>3 DEF BelowGone, x
  <2> QED
    BY <2>5, <2>6, <2>7
<1>2. <<S, d, m_childDirectories[d]>> \in Removals
  BY DEF ChildrenOK, Removals
<1>3. Shrinks(WithoutDirectory, <<S, d, m_childDirectories[d]>>)
  BY <1>2, RemovalDefined
<1>4. BelowGone(WithoutDirectory[<<S, d, m_childDirectories[d]>>], d)
  BY <1>1, <1>2
<1> QED
  BY <1>3, <1>4 DEF Without, Shrinks

(* The loop of Refresh: the map and the place of the iterator.             *)
Places == (SUBSET Dirs) \X (Dirs \cup {NoDir})

(* The equation of RefreshFrom.                                            *)
Refreshing(f, place) ==
  LET S == place[1]  d == place[2]
      left == Without(S, d)  begin == First(left)
  IN  IF d = NoDir THEN S
      ELSE IF d \in allowed THEN f[<<S, After(S, d)>>]
      ELSE IF begin = NoDir THEN left
      ELSE f[<<left, After(left, begin)>>]

(* Each round shrinks the map or is nearer to its end.  An iterator that   *)
(* is nowhere in the map is set back to a place in it.                     *)
ToGo(S, d) ==
  IF d = NoDir THEN 0 ELSE IF d \in S THEN Behind(d) + 1 ELSE Cardinality(Dirs) + 2
Rounds == [place \in Places |->
            Cardinality(place[1]) * (Cardinality(Dirs) + 3) + ToGo(place[1], place[2])]
MaxRounds == (Cardinality(Dirs) + 1) * (Cardinality(Dirs) + 3)

LEMMA ToGoFacts ==
  ASSUME NEW S \in SUBSET Dirs, NEW d \in Dirs
  PROVE  /\ ToGo(S, d) \in 0..Cardinality(Dirs) + 2 /\ ToGo(S, NoDir) = 0
         /\ \A c \in S \cup {NoDir} : (d \in S => c = NoDir \/ d < c) => ToGo(S, c) < ToGo(S, d)
<1>1. d # NoDir /\ \A c \in S : c \in Dirs /\ c # NoDir
  BY DirsAreRanks
<1>2. Cardinality(Dirs) \in Nat
  BY Sizes
<1>3. \A c \in Dirs : Behind(c) \in 0..Cardinality(Dirs)
  <2> TAKE c \in Dirs
  <2>1. {e \in Dirs : e > c} \in SUBSET Dirs
    OBVIOUS
  <2> QED
    BY <2>1, Sizes DEF Behind
<1>4. \A c \in Dirs : d < c => Behind(c) < Behind(d)
  <2>1. {} \in SUBSET Dirs
    OBVIOUS
  <2> QED
    BY <2>1, Levels
<1> QED
  BY <1>1, <1>2, <1>3, <1>4 DEF ToGo

LEMMA RoundsFacts ==
  /\ MaxRounds \in Nat /\ Rounds \in [Places -> 0..MaxRounds]
  /\ \A S \in SUBSET Dirs : \A d \in Dirs, R \in SUBSET S, c \in Dirs \cup {NoDir} :
       R # S \/ ToGo(R, c) < ToGo(S, d) => Rounds[<<R, c>>] < Rounds[<<S, d>>]
<1> DEFINE n == Cardinality(Dirs)
           w == Cardinality(Dirs) + 3
<1>1. n \in Nat /\ w \in Nat /\ w = n + 3
  BY Sizes
<1>2. \A S \in SUBSET Dirs, d \in Dirs \cup {NoDir} :
        /\ <<S, d>> \in Places /\ Rounds[<<S, d>>] = Cardinality(S) * w + ToGo(S, d)
        /\ Cardinality(S) \in Nat /\ Cardinality(S) <= n
        /\ ToGo(S, d) \in Nat /\ ToGo(S, d) < w
  <2> TAKE S \in SUBSET Dirs, d \in Dirs \cup {NoDir}
  <2>1. <<S, d>> \in Places
    BY DEF Places
  <2>2. Rounds[<<S, d>>] = Cardinality(S) * w + ToGo(S, d)
    BY <2>1 DEF Rounds
  <2>3. Cardinality(S) \in Nat /\ Cardinality(S) <= n
    BY Sizes
  <2>4. ToGo(S, d) \in Nat /\ ToGo(S, d) < w
    <3>1. CASE d = NoDir
      BY <1>1, <3>1 DEF ToGo
    <3>2. CASE d \in Dirs
      <4>1. ToGo(S, d) \in 0..n + 2
        BY <3>2, ToGoFacts
      <4> HIDE DEF n, w
      <4> QED
        BY <1>1, <4>1
    <3> QED
      BY <3>1, <3>2
  <2> QED
    BY <2>1, <2>2, <2>3, <2>4
<1>3. MaxRounds = (n + 1) * w /\ MaxRounds \in Nat
  BY <1>1 DEF MaxRounds
<1> HIDE DEF n, w
<1>4. \A S \in SUBSET Dirs, d \in Dirs \cup {NoDir} : Rounds[<<S, d>>] \in 0..MaxRounds
  <2> TAKE S \in SUBSET Dirs, d \in Dirs \cup {NoDir}
  <2> DEFINE a == Cardinality(S)
             u == ToGo(S, d)
  <2>1. Rounds[<<S, d>>] = a * w + u /\ a \in Nat /\ a < n + 1 /\ u \in Nat /\ u < w
    BY <1>1, <1>2
  <2> HIDE DEF a, u
  <2>2. a * w + u < (n + 1) * w + 0 /\ a * w \in Nat
    BY <1>1, <2>1, LexicographicLess
  <2>3. (n + 1) * w + 0 = MaxRounds
    BY <1>3
  <2> DEFINE aw == a * w
  <2>4. aw \in Nat /\ Rounds[<<S, d>>] = aw + u /\ aw + u < MaxRounds
    BY <2>1, <2>2, <2>3
  <2> HIDE DEF aw
  <2> QED
    BY <1>3, <2>1, <2>4
<1>5. Rounds \in [Places -> 0..MaxRounds]
  <2>1. \A place \in Places : Rounds[place] \in 0..MaxRounds
    <3> TAKE place \in Places
    <3>1. place = <<place[1], place[2]>> /\ place[1] \in SUBSET Dirs /\ place[2] \in Dirs \cup {NoDir}
      BY DEF Places
    <3> QED
      BY <1>4, <3>1
  <2>2. Rounds = [place \in Places |-> Rounds[place]]
    BY DEF Rounds
  <2> QED
    BY <2>1, <2>2
<1>6. ASSUME NEW S \in SUBSET Dirs, NEW d \in Dirs, NEW R \in SUBSET S, NEW c \in Dirs \cup {NoDir},
             R # S \/ ToGo(R, c) < ToGo(S, d)
      PROVE  Rounds[<<R, c>>] < Rounds[<<S, d>>]
  <2> DEFINE a == Cardinality(R)
             b == Cardinality(S)
             u == ToGo(R, c)
             v == ToGo(S, d)
  <2>1. R \in SUBSET Dirs
    OBVIOUS
  <2>2. /\ Rounds[<<R, c>>] = a * w + u /\ Rounds[<<S, d>>] = b * w + v
        /\ a \in Nat /\ b \in Nat /\ u \in Nat /\ v \in Nat /\ u < w
    BY <1>2, <2>1
  <2>3. a < b \/ (a = b /\ u < v)
    BY <1>6, Sizes
  <2> HIDE DEF a, b, u, v
  <2> QED
    BY <1>1, <2>2, <2>3, LexicographicLess
<1> QED
  BY <1>3, <1>5, <1>6

(* Each round calls for a later one at most.                               *)
LEMMA RefreshingFacts ==
  ASSUME ChildrenOK, NEW place \in Places
  PROVE  LET S == place[1]  d == place[2]  left == Without(S, d)  begin == First(left) IN
         /\ S \in SUBSET Dirs /\ d \in Dirs \cup {NoDir}
         /\ d # NoDir /\ d \in allowed =>
              /\ <<S, After(S, d)>> \in Places /\ Rounds[<<S, After(S, d)>>] < Rounds[place]
         /\ d # NoDir => left \in SUBSET S /\ left \in SUBSET Dirs
         /\ d # NoDir /\ begin # NoDir =>
              /\ <<left, After(left, begin)>> \in Places
              /\ Rounds[<<left, After(left, begin)>>] < Rounds[place]
<1> DEFINE S == place[1]
           d == place[2]
           left == Without(S, d)
           begin == First(left)
<1>1. place = <<S, d>> /\ S \in SUBSET Dirs /\ d \in Dirs \cup {NoDir}
  BY DEF Places
<1>2. Dirs \in SUBSET Int /\ NoDir \notin Dirs
  BY DirsAreRanks
<1> HIDE DEF S, d
<1>3. ASSUME d # NoDir
      PROVE  /\ <<S, After(S, d)>> \in Places /\ Rounds[<<S, After(S, d)>>] < Rounds[place]
             /\ left \in SUBSET (S \ {d}) /\ left \in SUBSET S /\ left \in SUBSET Dirs
             /\ begin # NoDir =>
                  /\ <<left, After(left, begin)>> \in Places
                  /\ Rounds[<<left, After(left, begin)>>] < Rounds[place]
  <2>1. d \in Dirs /\ d \in Int
    BY <1>1, <1>2, <1>3
  <2>2. After(S, d) = NoDir \/ (After(S, d) \in S /\ d < After(S, d))
    BY <1>1, <2>1, AfterFacts
  <2>3. ToGo(S, After(S, d)) < ToGo(S, d)
    BY <1>1, <2>1, <2>2, ToGoFacts
  <2>4. <<S, After(S, d)>> \in Places /\ Rounds[<<S, After(S, d)>>] < Rounds[place]
    BY <1>1, <2>1, <2>2, <2>3, RoundsFacts DEF Places
  <2>5. left \in SUBSET (S \ {d})
    BY <1>1, <2>1, RemovalClears
  <2>6. left \in SUBSET S /\ left \in SUBSET Dirs
    BY <1>1, <2>5
  <2> HIDE DEF left
  <2>7. ASSUME begin # NoDir
        PROVE  /\ <<left, After(left, begin)>> \in Places
               /\ Rounds[<<left, After(left, begin)>>] < Rounds[place]
    <3> DEFINE c == After(left, begin)
    <3>1. begin \in left /\ begin \in Int
      BY <1>2, <2>6, <2>7, FirstFacts
    <3>2. c \in left \cup {NoDir}
      BY <2>6, <3>1, AfterFacts
    <3> HIDE DEF c
    <3>3. left # S \/ ToGo(left, c) < ToGo(S, d)
      <4>1. CASE left = S
        <5>1. d \notin S
          BY <2>5, <4>1
        <5> QED
          BY <1>1, <2>1, <3>2, <4>1, <5>1, ToGoFacts
      <4> QED
        BY <4>1
    <3>4. c \in Dirs \cup {NoDir}
      BY <2>6, <3>2
    <3>5. Rounds[<<left, c>>] < Rounds[<<S, d>>]
      BY <1>1, <2>1, <2>6, <3>3, <3>4, RoundsFacts
    <3>6. <<left, c>> \in Places
      BY <2>6, <3>4 DEF Places
    <3> QED
      BY <1>1, <3>5, <3>6 DEF c
  <2> QED
    BY <2>4, <2>5, <2>6, <2>7
<1> QED
  BY <1>1, <1>3 DEF S, d

LEMMA RefreshDefined ==
  ASSUME ChildrenOK
  PROVE  RefreshFrom = [place \in Places |-> Refreshing(RefreshFrom, place)]
<1> DEFINE F == [Places -> SUBSET Dirs]
           G == [f \in F |-> [place \in Places |-> Refreshing(f, place)]]
<1>1. MaxRounds \in Nat /\ Rounds \in [Places -> 0..MaxRounds]
  BY RoundsFacts
<1>2. F # {}
  <2>1. [place \in Places |-> {}] \in F
    OBVIOUS
  <2> QED
    BY <2>1
<1>3. G \in [F -> F]
  <2> SUFFICES ASSUME NEW f \in F, NEW place \in Places PROVE Refreshing(f, place) \in SUBSET Dirs
    OBVIOUS
  <2> QED
    BY RefreshingFacts DEF Refreshing
<1>4. \A f, g \in F : \A place \in Places :
        (\A later \in Places : Rounds[later] < Rounds[place] => f[later] = g[later])
          => G[f][place] = G[g][place]
  <2> SUFFICES ASSUME NEW f \in F, NEW g \in F, NEW place \in Places,
                      \A later \in Places : Rounds[later] < Rounds[place] => f[later] = g[later]
               PROVE  Refreshing(f, place) = Refreshing(g, place)
    OBVIOUS
  <2> QED
    BY RefreshingFacts DEF Refreshing
<1>5. \E f \in F : G[f] = f
  <2>1. F \in SUBSET [Places -> SUBSET Dirs]
    OBVIOUS
  <2> HIDE DEF F, G
  <2>2. IsRecursion(Places, SUBSET Dirs, MaxRounds, Rounds, F, G)
    BY <1>1, <1>2, <1>3, <1>4, <2>1 DEF IsRecursion
  <2> QED
    BY <2>2, Recursion
<1>6. \E f : f = [place \in Places |-> Refreshing(f, place)]
  BY <1>5
<1>7. RefreshFrom = CHOOSE f : f = [place \in Places |-> Refreshing(f, place)]
  BY DEF RefreshFrom, Refreshing, Places
<1> QED
  BY <1>6, <1>7

(* What the iterator has passed is allowed, or is the first.               *)
Passed(S, d) == \A e \in S : d = NoDir \/ e < d => e \in allowed \/ e = First(S)

LEMMA RefreshClears ==
  ASSUME ChildrenOK, NEW S \in SUBSET Dirs, NEW d \in S \cup {NoDir}, Passed(S, d)
  PROVE  RefreshFrom[<<S, d>>] \in SUBSET S /\ Passed(RefreshFrom[<<S, d>>], NoDir)
<1> DEFINE InMap(place) == place[2] \in place[1] \cup {NoDir} /\ Passed(place[1], place[2])
           Right(place) == /\ RefreshFrom[place] \in SUBSET place[1]
                           /\ Passed(RefreshFrom[place], NoDir)
           wrong == {place \in Places : InMap(place) /\ ~Right(place)}
<1>1. wrong = {}
  <2> SUFFICES ASSUME wrong # {} PROVE FALSE
    OBVIOUS
  <2>1. MaxRounds \in Nat /\ Rounds \in [Places -> 0..MaxRounds]
    BY RoundsFacts
  <2>2. PICK place \in wrong : \A later \in wrong : Rounds[place] <= Rounds[later]
    <3>1. wrong \in SUBSET Places
      OBVIOUS
    <3> HIDE DEF wrong
    <3> QED
      BY <2>1, <3>1, LeastRank
  <2>3. place \in Places /\ InMap(place) /\ ~Right(place)
    OBVIOUS
  <2>4. ASSUME NEW later \in Places, Rounds[later] < Rounds[place], InMap(later)
        PROVE  Right(later)
    <3> HIDE DEF InMap, Right
    <3> SUFFICES ASSUME later \in wrong PROVE FALSE
      BY <2>4
    <3>1. Rounds[place] <= Rounds[later] /\ Rounds[place] \in Int /\ Rounds[later] \in Int
      BY <2>1, <2>2
    <3> QED
      BY <2>4, <3>1
  <2> DEFINE T == place[1]
             c == place[2]
             left == Without(T, c)
             begin == First(left)
  <2>5. /\ T \in SUBSET Dirs /\ c \in T \cup {NoDir} /\ Passed(T, c)
        /\ c # NoDir => left \in SUBSET T /\ left \in SUBSET Dirs
    BY <2>3, RefreshingFacts
  <2>6. RefreshFrom[place] = Refreshing(RefreshFrom, place)
    BY <2>3, RefreshDefined
  <2>7. CASE c = NoDir
    <3>1. RefreshFrom[place] = T
      BY <2>6, <2>7 DEF Refreshing
    <3> QED
      BY <2>3, <2>5, <2>7, <3>1
  <2>8. CASE c # NoDir /\ c \in allowed
    <3> DEFINE next == <<T, After(T, c)>>
    <3>1. next \in Places /\ Rounds[next] < Rounds[place]
      BY <2>3, <2>8, RefreshingFacts
    <3>2. RefreshFrom[place] = RefreshFrom[next]
      BY <2>6, <2>8 DEF Refreshing
    <3>3. After(T, c) \in T \cup {NoDir} /\ Passed(T, After(T, c))
      <4>1. c \in Int /\ T \in SUBSET Int
        BY <2>5, <2>8, DirsAreRanks
      <4> HIDE DEF T, c
      <4> DEFINE x == After(T, c)
      <4>2. /\ x = NoDir => \A e \in T : e <= c
            /\ x # NoDir => x \in T /\ \A e \in T : c < e => x <= e
        BY <2>5, <4>1, AfterFacts
      <4> HIDE DEF x
      <4>3. ASSUME NEW e \in T, x = NoDir \/ e < x PROVE e \in allowed \/ e = First(T)
        <5>1. e \in Int /\ (x # NoDir => x \in Int)
          BY <4>1, <4>2
        <5>2. e <= c
          BY <4>1, <4>2, <4>3, <5>1
        <5>3. e = c \/ e < c
          BY <4>1, <5>1, <5>2
        <5> QED
          BY <2>5, <2>8, <5>3 DEF Passed
      <4> QED
        BY <4>2, <4>3 DEF Passed, x
    <3>4. InMap(next)
      BY <3>3
    <3>5. Right(next)
      BY <2>4, <3>1, <3>4
    <3> QED
      BY <2>3, <3>2, <3>5
  <2>9. CASE c # NoDir /\ c \notin allowed /\ begin = NoDir
    <3>1. RefreshFrom[place] = left
      BY <2>6, <2>9 DEF Refreshing
    <3>2. left = {}
      <4> HIDE DEF left
      <4> QED
        BY <2>5, <2>9, FirstFacts
    <3> QED
      BY <2>3, <3>1, <3>2 DEF Passed
  <2>10. CASE c # NoDir /\ c \notin allowed /\ begin # NoDir
    <3> DEFINE x == After(left, begin)
               next == <<left, x>>
    <3>1. next \in Places /\ Rounds[next] < Rounds[place]
      BY <2>3, <2>10, RefreshingFacts
    <3>2. RefreshFrom[place] = RefreshFrom[next]
      BY <2>6, <2>10 DEF Refreshing
    <3>0. left \in SUBSET T /\ left \in SUBSET Dirs
      BY <2>5, <2>10
    <3>3. x \in left \cup {NoDir} /\ Passed(left, x)
      <4> HIDE DEF left, T, c
      <4>0. left # {}
        BY <2>10, <3>0, FirstFacts
      <4>1. begin \in left /\ \A e \in left : begin <= e
        BY <3>0, <4>0, FirstFacts
      <4>2. begin \in Int /\ left \in SUBSET Int
        BY <3>0, <4>1, DirsAreRanks
      <4>3. /\ x = NoDir => \A e \in left : e <= begin
            /\ x # NoDir => x \in left /\ \A e \in left : begin < e => x <= e
        BY <3>0, <4>2, AfterFacts
      <4>4. ASSUME NEW e \in left, x = NoDir \/ e < x PROVE e = begin
        <5> HIDE DEF begin, x
        <5>1. e \in Int /\ (x # NoDir => x \in Int) /\ begin <= e
          BY <4>1, <4>2, <4>3
        <5>2. e <= begin
          BY <4>2, <4>3, <4>4, <5>1
        <5> QED
          BY <4>2, <5>1, <5>2
      <4> QED
        BY <4>3, <4>4 DEF Passed
    <3>4. InMap(next)
      BY <3>3
    <3>5. Right(next)
      BY <2>4, <3>1, <3>4
    <3> QED
      BY <2>3, <3>0, <3>2, <3>5
  <2> QED
    BY <2>7, <2>8, <2>9, <2>10
<1>2. <<S, d>> \in Places /\ InMap(<<S, d>>)
  BY DEF Places
<1>3. Right(<<S, d>>)
  <2> HIDE DEF InMap, Right
  <2> QED
    BY <1>1, <1>2
<1> QED
  BY <1>3

(* The map after Keep.                                                     *)
LEMMA KeptMap ==
  ASSUME NEW t \in Threads, NEW S \in SUBSET m_directoryCache, Keep(t, S)
  PROVE  m_directoryCache' = S
BY DEF Keep

LEMMA RemovedWithBelow ==
  ASSUME IInv, NEW t \in Threads, this(t) \in m_directoryCache,
         Keep(t, RemoveCacheForPath(this(t)))
  PROVE  BelowGone(m_directoryCache', this(t))
<1> DEFINE left == Without(m_directoryCache, this(t))
<1>1. ChildrenOK /\ m_directoryCache \in SUBSET Dirs /\ this(t) \in Dirs
  BY DEF IInv, MapOK
<1>2. left \in SUBSET (m_directoryCache \ {this(t)}) /\ BelowGone(left, this(t))
  BY <1>1, RemovalClears
<1>3. Keep(t, left)
  BY DEF RemoveCacheForPath
<1> HIDE DEF left
<1>4. left \in SUBSET m_directoryCache
  BY <1>2
<1>5. m_directoryCache' = left
  BY <1>3, <1>4, KeptMap
<1> QED
  BY <1>2, <1>5

LEMMA RefreshedMap ==
  ASSUME IInv, NEW t \in Threads, Keep(t, Refresh)
  PROVE  \A e \in m_directoryCache' : e \in allowed \/ e = First(m_directoryCache')
<1> DEFINE d == First(m_directoryCache)
           left == RefreshFrom[<<m_directoryCache, d>>]
<1>1. ChildrenOK /\ m_directoryCache \in SUBSET Dirs
  BY DEF IInv, MapOK
<1>2. d \in m_directoryCache \cup {NoDir} /\ Passed(m_directoryCache, d)
  <2>1. m_directoryCache = {} => d = NoDir
    BY <1>1, FirstFacts
  <2>2. m_directoryCache # {} => d \in m_directoryCache /\ d # NoDir /\ \A e \in m_directoryCache : d <= e
    BY <1>1, FirstFacts
  <2> HIDE DEF d
  <2>3. ASSUME NEW e \in m_directoryCache PROVE ~(d = NoDir \/ e < d)
    <3>1. e \in Int /\ d \in Int /\ d # NoDir /\ d <= e
      BY <1>1, <2>2, <2>3, DirsAreRanks
    <3> QED
      BY <3>1
  <2> QED
    BY <2>1, <2>2, <2>3 DEF Passed
<1>3. left \in SUBSET m_directoryCache /\ Passed(left, NoDir)
  <2> HIDE DEF d
  <2> QED
    BY <1>1, <1>2, RefreshClears
<1>4. Keep(t, left)
  BY DEF Refresh
<1> HIDE DEF left
<1>5. m_directoryCache' = left
  BY <1>3, <1>4, KeptMap
<1> QED
  BY <1>3, <1>5 DEF Passed

(* Write access ends with these steps.                                     *)
LEMMA WriterEnds ==
  ASSUME IInv, [Next]_vars, NEW t \in Threads, t \in writers, t \notin writers'
  PROVE  ~Undefined /\ (Insert(t) \/ RemoveAsCrawler(t) \/ Write(t))
<1>1. \A u \in writers : u = t
  BY DEF IInv, GuardOK
<1>2. writers' # writers /\ writers # {}
  OBVIOUS
<1>3. CASE UNCHANGED vars
  BY <1>2, <1>3 DEF vars, guardVars
<1>4. CASE Outside
  BY <1>2, <1>4 DEF Outside, guardVars
<1>5. CASE Call
  <2>1. ASSUME NEW u \in Threads, NEW s, ReadCall(u, s) PROVE FALSE
    BY <1>2, <2>1 DEF ReadCall, m_guard!JoinReaders
  <2>2. ASSUME NEW u \in Threads, NEW s, WriteCall(u, s) PROVE FALSE
    BY <1>2, <2>2 DEF WriteCall, guardVars
  <2>3. Askers \subseteq Threads /\ Crawler \in Threads /\ Commanders \subseteq Threads
    BY DEF Threads
  <2>4. ASSUME NEW u \in Askers, NEW d \in Dirs, GetStatusForPath(u, d) PROVE FALSE
    BY <2>1, <2>3, <2>4 DEF GetStatusForPath
  <2>5. ASSUME NEW d \in Dirs, Crawl(d) \/ CrawlerErases(d) PROVE FALSE
    BY <2>1, <2>2, <2>3, <2>5 DEF Crawl, CrawlerErases
  <2>6. ASSUME NEW u \in Commanders, RefreshAll(u) \/ \E d \in Dirs : EraseCommand(u, d) PROVE FALSE
    BY <2>2, <2>3, <2>6 DEF RefreshAll, EraseCommand
  <2> QED
    BY <1>5, <2>4, <2>5, <2>6 DEF Call
<1>6. CASE ~Undefined /\ \E u \in Threads : Run(u)
  <2>1. PICK u \in Threads : Run(u)
    BY <1>6
  <2>2. ~(AcquireWriterLock(u) \/ WriterGranted(u) \/ ReleaseReaderLock(u))
    BY <1>2 DEF AcquireWriterLock, WriterGranted, ReleaseReaderLock,
                m_guard!BecomeWriter, m_guard!Enqueue, m_guard!LeaveReaders
  <2>3. ~(Find(u) \/ \E s : Local(u, s))
    BY <1>2 DEF Find, Local, guardVars
  <2>4. ~(Answer(u) \/ StartFetch(u) \/ Exchange(u) \/ Report(u) \/ SetChildStatus(u) \/ Fetched(u))
    BY <2>3, Zenon DEF Answer, StartFetch, Exchange, Report, SetChildStatus, Fetched
  <2>5. ~(TellParent(u) \/ Store(u) \/ Reply(u) \/ Members(u) \/ Status(u) \/ Entry(u))
    BY <2>3, Zenon DEF TellParent, Store, Reply, Members, Status, Entry
  <2>6. Insert(u) \/ RemoveAsCrawler(u) \/ Write(u)
    BY <2>1, <2>2, <2>3, <2>4, <2>5 DEF Run
  <2>7. u = t
    BY <1>1, <2>6 DEF Insert, RemoveAsCrawler, Write
  <2> QED
    BY <1>6, <2>6, <2>7
<1> QED
  BY <1>3, <1>4, <1>5, <1>6 DEF Next

(* What RemovalsComplete says of a thread that gives up its write access.  *)
RemovedAll(t) ==
  /\ (At(t, "erase") \/ At(t, "remove")) /\ this(t) \in m_directoryCache =>
       \A e \in m_directoryCache' : IsAncestorOf(this(t), e) =>
         \E f \in m_directoryCache' : this(t) < f /\ f < e /\ ~IsAncestorOf(this(t), f)
  /\ At(t, "refresh") =>
       \A e \in m_directoryCache' : e \in allowed \/ e = First(m_directoryCache')

LEMMA WriterRemoves ==
  ASSUME IInv, [Next]_vars, NEW t \in Threads, t \in writers, t \notin writers'
  PROVE  RemovedAll(t)
<1>1. Insert(t) \/ RemoveAsCrawler(t) \/ Write(t)
  BY WriterEnds
<1>2. \A op1, op2 : At(t, op1) /\ At(t, op2) => op1 = op2
  BY DEF At
<1>3. ASSUME At(t, "erase") \/ At(t, "remove"), this(t) \in m_directoryCache
      PROVE  BelowGone(m_directoryCache', this(t))
  <2>1. ~Insert(t) /\ ~At(t, "refresh")
    BY <1>2, <1>3 DEF Insert
  <2>2. Keep(t, RemoveCacheForPath(this(t)))
    BY <1>1, <2>1 DEF RemoveAsCrawler, Write
  <2> QED
    BY <1>3, <2>2, RemovedWithBelow
<1>4. ASSUME At(t, "refresh")
      PROVE  \A e \in m_directoryCache' : e \in allowed \/ e = First(m_directoryCache')
  <2>1. ~Insert(t) /\ ~RemoveAsCrawler(t) /\ ~At(t, "erase")
    BY <1>2, <1>4 DEF Insert, RemoveAsCrawler
  <2>2. Keep(t, Refresh)
    BY <1>1, <2>1 DEF Write
  <2> QED
    BY <2>2, RefreshedMap
<1> QED
  BY <1>3, <1>4 DEF RemovedAll, BelowGone

(* RemoveCacheForPath leaves nothing below the directory in the map that   *)
(* no other directory hides, and Refresh nothing excluded but the first of *)
(* the map, whatever the objects know of their children.                   *)
THEOREM BelowIsRemoved == Spec => RemovalsComplete
<1>1. IInv /\ [Next]_vars =>
        [\A t \in Threads : t \in writers /\ t \notin writers' =>
           /\ (At(t, "erase") \/ At(t, "remove")) /\ this(t) \in m_directoryCache =>
                \A e \in m_directoryCache' : IsAncestorOf(this(t), e) =>
                  \E f \in m_directoryCache' : this(t) < f /\ f < e /\ ~IsAncestorOf(this(t), f)
           /\ At(t, "refresh") =>
                \A e \in m_directoryCache' : e \in allowed \/ e = First(m_directoryCache')]_vars
  BY WriterRemoves DEF RemovedAll
<1> QED
  BY <1>1, IInvHolds, PTL DEF Spec, RemovalsComplete

=============================================================================
