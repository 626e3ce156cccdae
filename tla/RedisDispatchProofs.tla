------------------------ MODULE RedisDispatchProofs ------------------------
(***************************************************************************)
(* Proofs about RedisDispatch, for every set of jobs, daemons and tokens,  *)
(* every promotion limit and every number of faults, crashes and stops.    *)
(***************************************************************************)
EXTENDS RedisDispatch, FiniteSetTheorems, SequenceTheorems, TLAPS

-----------------------------------------------------------------------------
(* The inductive invariant.                                                *)

\* The job each thread is at work on: what the loop has in its hand, what the
\* goroutine was started for, as long as the queue was not told the outcome.
work == [c \in Callers |->
            IF c \in Daemons THEN hand[c] ELSE IF Active(c) THEN slot[c].job ELSE NoJob]

Busy(c) == work[c] # NoJob
Held(j) == \E c \in Callers : work[c] = j

Listed(list, j) == \E c \in ToSet(list) : c.job = j
Parked(j)       == \E c \in delayed : c.job = j

Distinct(list) ==
    \A m, n \in 1 .. Len(list) : list[m].job = list[n].job => m = n

\* Newer copies of a job come first and were enqueued with a higher count.
Descending(list) ==
    \A m, n \in 1 .. Len(list) :
        m < n /\ list[m].job = list[n].job => list[n].tries < list[m].tries

\* Program counters, hands and what is taken out of processing go together.
ThreadsMatch ==
    /\ \A d \in Daemons :
          /\ hand[d] # NoJob <=> loop[d] \in {"lookup", "acquire"}
          /\ d \in promoted => loop[d] = "dequeue"
          /\ removed[d] # NoCopy => loop[d] = "lookup" /\ hand[d] \notin Known
    /\ \A s \in Slots :
          /\ Active(s) => slot[s].job # NoJob
          /\ removed[s] # NoCopy => slot[s].pc \in {"retry", "markFailed"}
          /\ slot[s].pc = "retry" => CanRetry(slot[s].job, attempts[s])

OneThread == \A b, c \in Callers : Busy(b) /\ work[b] = work[c] => b = c

\* A job that waits does so in one of the three places, once.
OneWaiting ==
    /\ Distinct(pending)
    /\ Distinct(due)
    /\ \A b, c \in delayed : b.job = c.job => b = c
    /\ \A j \in Jobs : Listed(pending, j) => ~Listed(due, j) /\ ~Parked(j)
    /\ \A j \in Jobs : Listed(due, j) => ~Parked(j)

DeadOnce ==
    /\ Distinct(dead)
    /\ \A j \in acknowledged : ~Listed(dead, j)

IsWaiting(j) == Listed(pending, j) \/ Listed(due, j) \/ Parked(j)
IsSettled(j) == j \in acknowledged \/ Listed(dead, j)

OneStanding ==
    \A j \in Jobs :
        /\ IsWaiting(j) => j \in submitted /\ ~Held(j) /\ ~IsSettled(j)
        /\ Held(j) => j \in submitted /\ ~IsSettled(j) /\ j \notin Poison
        /\ IsSettled(j) => j \in submitted

\* The counts of the waiting copies and of the objects in memory.
Counted ==
    /\ \A c \in ToSet(pending) \cup ToSet(due) \cup delayed :
          c.tries = taken[c.job] /\ (c.tries = 0 \/ c.tries < MaxAttempts[c.job])
    /\ \A j \in Jobs : taken[j] <= MaxAttempts[j] \/ taken[j] <= 1
    /\ \A j \in Jobs : j \notin submitted => taken[j] = 0
    /\ \A c \in Callers : Busy(c) => attempts[c] = taken[work[c]] /\ attempts[c] > 0

\* Where a thread's own copy is: in processing, ahead of older copies of the
\* same job, or in its memory.
CopiesKept ==
    /\ Descending(processing)
    /\ \A c \in ToSet(processing) : c.tries < taken[c.job]
    /\ \A c \in Callers : Busy(c) =>
          LET own == [job |-> work[c], tries |-> attempts[c] - 1] IN
          IF removed[c] = NoCopy THEN own \in ToSet(processing) ELSE removed[c] = own
    /\ \A c \in Callers : removed[c] # NoCopy => Busy(c)

\* Where each job stands; lost is the job that a fault took out of sight.
stand == [j \in Jobs |->
             CASE j \notin submitted -> "new"
               [] j \in submitted /\ j \in acknowledged -> "done"
               [] j \in submitted /\ j \notin acknowledged /\ Listed(dead, j) -> "failed"
               [] j \in submitted /\ ~IsSettled(j) /\ IsWaiting(j) -> "queued"
               [] j \in submitted /\ ~IsSettled(j) /\ ~IsWaiting(j) /\ Held(j) -> "running"
               [] OTHER -> "lost"]

Lost == {j \in Jobs \ Poison : stand[j] = "lost"}

LossesCovered ==
    /\ IsFiniteSet(submitted)
    /\ Cardinality(Lost) <= faults + crashes * (Cardinality(Slots) + 1)

Books ==
    /\ OneThread
    /\ OneWaiting /\ DeadOnce /\ OneStanding
    /\ Counted
    /\ CopiesKept

IInv == TypeOK /\ ThreadsMatch /\ Books /\ LossesCovered

-----------------------------------------------------------------------------
(* Lists.                                                                  *)

\* Appending puts the new element behind the others and moves none of them.
LEMMA AppendPlaces ==
    ASSUME NEW S, NEW q \in Seq(S), NEW x \in S
    PROVE  /\ Append(q, x) \in Seq(S)
           /\ Len(q) \in Nat
           /\ Len(Append(q, x)) = Len(q) + 1
           /\ \A i \in 1 .. Len(q) : Append(q, x)[i] = q[i]
           /\ Append(q, x)[Len(q) + 1] = x
BY SMT

\* Dropping the head moves every other element one place forward.
LEMMA TailPlaces ==
    ASSUME NEW S, NEW q \in Seq(S), q # <<>>
    PROVE  /\ Tail(q) \in Seq(S)
           /\ Len(q) \in Nat \ {0}
           /\ Len(Tail(q)) = Len(q) - 1
           /\ Head(q) = q[1]
           /\ \A i \in 1 .. Len(q) - 1 : Tail(q)[i] = q[i + 1]
BY SMT

\* Cons puts the new element first and moves every other one place back.
LEMMA ConsPlaces ==
    ASSUME NEW list \in Seq(Copy), NEW c \in Copy
    PROVE  /\ Cons(c, list) \in Seq(Copy)
           /\ Len(list) \in Nat
           /\ Len(Cons(c, list)) = Len(list) + 1
           /\ Cons(c, list)[1] = c
           /\ \A i \in 2 .. Len(list) + 1 : Cons(c, list)[i] = list[i - 1]
BY SMT DEF Cons

\* RemoveAt closes the gap it makes.
LEMMA RemoveAtPlaces ==
    ASSUME NEW S, NEW q \in Seq(S), NEW i \in 1 .. Len(q)
    PROVE  /\ RemoveAt(q, i) \in Seq(S)
           /\ Len(q) \in Nat
           /\ Len(RemoveAt(q, i)) = Len(q) - 1
           /\ \A k \in 1 .. i - 1 : RemoveAt(q, i)[k] = q[k]
           /\ \A k \in i .. Len(q) - 1 : RemoveAt(q, i)[k] = q[k + 1]
<1> DEFINE a == SubSeq(q, 1, i - 1)
           b == SubSeq(q, i + 1, Len(q))
<1>1. /\ a \in Seq(S) /\ Len(a) = i - 1
      /\ \A k \in 1 .. i - 1 : a[k] = q[k]
  OBVIOUS
<1>2. /\ b \in Seq(S) /\ Len(b) = Len(q) - i /\ Len(q) \in Nat
      /\ \A k \in 1 .. Len(q) - i : b[k] = q[k + i]
  OBVIOUS
<1>3. RemoveAt(q, i) = a \o b
  BY DEF RemoveAt
<1> HIDE DEF a, b
<1>4. /\ a \o b \in Seq(S) /\ Len(a \o b) = Len(a) + Len(b)
      /\ \A k \in 1 .. Len(a) : (a \o b)[k] = a[k]
      /\ \A k \in Len(a) + 1 .. Len(a) + Len(b) : (a \o b)[k] = b[k - Len(a)]
  <2>1. a \in Seq(S) /\ b \in Seq(S) /\ Len(a) \in Nat /\ Len(b) \in Nat
    BY <1>1, <1>2
  <2>2. /\ a \o b \in Seq(S) /\ Len(a \o b) = Len(a) + Len(b)
        /\ \A k \in 1 .. Len(a) + Len(b) :
              (a \o b)[k] = IF k <= Len(a) THEN a[k] ELSE b[k - Len(a)]
    BY <2>1, ConcatProperties
  <2> QED BY <2>1, <2>2
<1>5. ASSUME NEW k \in i .. Len(q) - 1
      PROVE  (a \o b)[k] = q[k + 1]
  BY <1>1, <1>2, <1>4
<1> QED BY <1>1, <1>2, <1>3, <1>4, <1>5

\* RemoveFirst removes the element at the first place that holds it.
LEMMA RemoveFirstIsRemoveAt ==
    ASSUME NEW S, NEW q \in Seq(S), NEW i \in 1 .. Len(q),
           \A k \in 1 .. Len(q) : q[k] = q[i] => i <= k
    PROVE  RemoveFirst(q, q[i]) = RemoveAt(q, i)
<1> DEFINE I == {k \in 1 .. Len(q) : q[k] = q[i]}
<1>1. Min(I) = i
  BY DEF Min
<1>2. SelectInSeq(q, LAMBDA v : v = q[i]) = Min(I)
  BY DEF SelectInSeq
<1> QED BY <1>1, <1>2 DEF RemoveFirst

\* A prefix of one list moves to the end of another.
LEMMA PrefixMoves ==
    ASSUME NEW S, NEW p \in Seq(S), NEW q \in Seq(S), NEW n \in 0 .. Len(q)
    PROVE  /\ p \o SubSeq(q, 1, n) \in Seq(S)
           /\ SubSeq(q, n + 1, Len(q)) \in Seq(S)
           /\ Len(p) \in Nat /\ Len(q) \in Nat
           /\ Len(p \o SubSeq(q, 1, n)) = Len(p) + n
           /\ Len(SubSeq(q, n + 1, Len(q))) = Len(q) - n
           /\ \A k \in 1 .. Len(p) : (p \o SubSeq(q, 1, n))[k] = p[k]
           /\ \A k \in 1 .. n : (p \o SubSeq(q, 1, n))[Len(p) + k] = q[k]
           /\ \A k \in 1 .. Len(q) - n : SubSeq(q, n + 1, Len(q))[k] = q[n + k]
BY SMT

-----------------------------------------------------------------------------
(* Lists of copies.                                                        *)

\* The elements of a list.
LEMMA Elements ==
    ASSUME NEW list \in Seq(Copy)
    PROVE  /\ Len(list) \in Nat
           /\ DOMAIN list = 1 .. Len(list)
           /\ \A k \in 1 .. Len(list) : list[k] \in ToSet(list) /\ list[k].job \in Jobs
           /\ \A c \in ToSet(list) : c \in Copy /\ c.job \in Jobs /\ c.tries \in Nat
           /\ \A c \in ToSet(list) : \E k \in 1 .. Len(list) : list[k] = c
<1>1. Len(list) \in Nat /\ DOMAIN list = 1 .. Len(list)
  OBVIOUS
<1>2. \A k \in 1 .. Len(list) : list[k] \in Copy
  OBVIOUS
<1>3. \A k \in 1 .. Len(list) : list[k] \in ToSet(list)
  BY <1>1 DEF ToSet
<1>4. \A c \in ToSet(list) : \E k \in 1 .. Len(list) : list[k] = c
  BY <1>1 DEF ToSet
<1> QED BY <1>1, <1>2, <1>3, <1>4 DEF Copy

LEMMA AppendCopy ==
    ASSUME NEW list \in Seq(Copy), NEW c \in Copy
    PROVE  /\ Append(list, c) \in Seq(Copy)
           /\ ToSet(Append(list, c)) = ToSet(list) \cup {c}
           /\ Distinct(list) /\ ~Listed(list, c.job) => Distinct(Append(list, c))
<1>1. /\ Append(list, c) \in Seq(Copy)
      /\ Len(list) \in Nat
      /\ Len(Append(list, c)) = Len(list) + 1
      /\ \A i \in 1 .. Len(list) : Append(list, c)[i] = list[i]
      /\ Append(list, c)[Len(list) + 1] = c
  BY AppendPlaces
<1> QED BY <1>1 DEF ToSet, Distinct, Listed

LEMMA TailCopy ==
    ASSUME NEW list \in Seq(Copy), list # <<>>
    PROVE  /\ Head(list) \in Copy
           /\ Tail(list) \in Seq(Copy)
           /\ ToSet(list) = {Head(list)} \cup ToSet(Tail(list))
           /\ Distinct(list) => Distinct(Tail(list)) /\ ~Listed(Tail(list), Head(list).job)
<1>1. /\ Tail(list) \in Seq(Copy)
      /\ Len(list) \in Nat \ {0}
      /\ Len(Tail(list)) = Len(list) - 1
      /\ Head(list) = list[1]
      /\ \A i \in 1 .. Len(list) - 1 : Tail(list)[i] = list[i + 1]
  BY TailPlaces
<1>2. \A i \in 2 .. Len(list) : i - 1 \in 1 .. Len(list) - 1 /\ list[i] = Tail(list)[i - 1]
  BY <1>1
<1>3. ToSet(list) = {Head(list)} \cup ToSet(Tail(list))
  <2>1. ASSUME NEW k \in 1 .. Len(list)
        PROVE  list[k] \in {Head(list)} \cup ToSet(Tail(list))
    <3>1. CASE k = 1
      BY <1>1, <3>1
    <3>2. CASE k # 1
      <4>1. k - 1 \in 1 .. Len(Tail(list)) /\ list[k] = Tail(list)[k - 1]
        BY <1>1, <1>2, <3>2
      <4>2. Tail(list)[k - 1] \in ToSet(Tail(list))
        BY <1>1, <4>1, Elements
      <4> QED BY <4>1, <4>2
    <3> QED BY <3>1, <3>2
  <2>2. ASSUME NEW k \in 1 .. Len(Tail(list))
        PROVE  Tail(list)[k] \in ToSet(list)
    <3>1. k + 1 \in 1 .. Len(list) /\ Tail(list)[k] = list[k + 1]
      BY <1>1
    <3> QED BY <3>1, Elements
  <2>3. Head(list) \in ToSet(list)
    BY <1>1, Elements
  <2>4. \A c \in ToSet(list) : c \in {Head(list)} \cup ToSet(Tail(list))
    BY <2>1, Elements
  <2>5. \A c \in ToSet(Tail(list)) : c \in ToSet(list)
    BY <1>1, <2>2, Elements
  <2> QED BY <2>3, <2>4, <2>5
<1>4. Distinct(list) => Distinct(Tail(list))
  BY <1>1 DEF Distinct
<1>5. Distinct(list) => ~Listed(Tail(list), Head(list).job)
  BY <1>1 DEF Distinct, Listed, ToSet
<1> QED BY <1>1, <1>3, <1>4, <1>5

LEMMA ConsCopy ==
    ASSUME NEW list \in Seq(Copy), NEW c \in Copy
    PROVE  /\ Cons(c, list) \in Seq(Copy)
           /\ ToSet(Cons(c, list)) = ToSet(list) \cup {c}
           /\ Distinct(list) /\ ~Listed(list, c.job) => Distinct(Cons(c, list))
           /\ Descending(list) /\ (\A b \in ToSet(list) : b.job = c.job => b.tries < c.tries)
                => Descending(Cons(c, list))
<1>1. /\ Cons(c, list) \in Seq(Copy)
      /\ Len(list) \in Nat
      /\ Len(Cons(c, list)) = Len(list) + 1
      /\ Cons(c, list)[1] = c
      /\ \A i \in 2 .. Len(list) + 1 : Cons(c, list)[i] = list[i - 1]
  BY ConsPlaces
<1>2. \A i \in 1 .. Len(list) : i + 1 \in 2 .. Len(list) + 1 /\ Cons(c, list)[i + 1] = list[i]
  BY <1>1
<1>3. \A i \in 2 .. Len(list) + 1 : i - 1 \in 1 .. Len(list) /\ Cons(c, list)[i] = list[i - 1]
  BY <1>1
<1>4. ToSet(Cons(c, list)) = ToSet(list) \cup {c}
  <2>1. \A k \in 1 .. Len(list) : list[k] \in ToSet(Cons(c, list))
    BY <1>1, <1>2, Elements
  <2>2. \A k \in 2 .. Len(list) + 1 : Cons(c, list)[k] \in ToSet(list)
    BY <1>3, Elements
  <2>3. c \in ToSet(Cons(c, list))
    BY <1>1, Elements
  <2>4. \A k \in 1 .. Len(list) + 1 : k = 1 \/ k \in 2 .. Len(list) + 1
    BY <1>1
  <2>5. \A b \in ToSet(Cons(c, list)) : b \in ToSet(list) \cup {c}
    BY <1>1, <2>2, <2>4, Elements
  <2>6. \A b \in ToSet(list) : b \in ToSet(Cons(c, list))
    BY <2>1, Elements
  <2> QED BY <2>3, <2>5, <2>6
<1>5. \A k \in 2 .. Len(list) + 1 : Cons(c, list)[k] \in ToSet(list)
  BY <1>3, Elements
<1>6. ASSUME Distinct(list), ~Listed(list, c.job)
      PROVE  Distinct(Cons(c, list))
  <2> SUFFICES ASSUME NEW m \in 1 .. Len(list) + 1, NEW n \in 1 .. Len(list) + 1,
                      Cons(c, list)[m].job = Cons(c, list)[n].job
               PROVE  m = n
    BY <1>1 DEF Distinct
  <2>1. CASE m = 1 \/ n = 1
    <3>1. \A k \in 2 .. Len(list) + 1 : Cons(c, list)[k].job # c.job
      BY <1>5, <1>6 DEF Listed
    <3> QED BY <1>1, <2>1, <3>1
  <2>2. CASE m # 1 /\ n # 1
    <3>1. /\ m - 1 \in 1 .. Len(list) /\ Cons(c, list)[m] = list[m - 1]
          /\ n - 1 \in 1 .. Len(list) /\ Cons(c, list)[n] = list[n - 1]
      BY <1>1, <1>3, <2>2
    <3>2. m - 1 = n - 1
      BY <1>6, <3>1 DEF Distinct
    <3> QED BY <1>1, <3>2
  <2> QED BY <2>1, <2>2
<1>7. ASSUME Descending(list), \A b \in ToSet(list) : b.job = c.job => b.tries < c.tries
      PROVE  Descending(Cons(c, list))
  <2> SUFFICES ASSUME NEW m \in 1 .. Len(list) + 1, NEW n \in 1 .. Len(list) + 1,
                      m < n, Cons(c, list)[m].job = Cons(c, list)[n].job
               PROVE  Cons(c, list)[n].tries < Cons(c, list)[m].tries
    BY <1>1 DEF Descending
  <2>1. n \in 2 .. Len(list) + 1 /\ n - 1 \in 1 .. Len(list) /\ Cons(c, list)[n] = list[n - 1]
    BY <1>1, <1>3
  <2>2. CASE m = 1
    BY <1>1, <1>5, <1>7, <2>1, <2>2
  <2>3. CASE m # 1
    <3>1. m - 1 \in 1 .. Len(list) /\ Cons(c, list)[m] = list[m - 1]
      BY <1>1, <1>3, <2>3
    <3>2. m - 1 < n - 1
      BY <1>1
    <3> QED BY <1>7, <2>1, <3>1, <3>2 DEF Descending
  <2> QED BY <2>2, <2>3
<1> QED BY <1>1, <1>4, <1>6, <1>7

\* LREM takes away at most the copy it is given, and no other changes its place
\* among the copies of its job.
LEMMA RemoveCopy ==
    ASSUME NEW list \in Seq(Copy), NEW i \in 1 .. Len(list),
           \A k \in 1 .. Len(list) : list[k].job = list[i].job => i <= k
    PROVE  LET rest == RemoveFirst(list, list[i]) IN
           /\ rest \in Seq(Copy)
           /\ ToSet(rest) \subseteq ToSet(list)
           /\ ToSet(list) \subseteq ToSet(rest) \cup {list[i]}
           /\ Descending(list) => Descending(rest)
<1> DEFINE rest == RemoveAt(list, i)
<1>1. RemoveFirst(list, list[i]) = rest
  BY RemoveFirstIsRemoveAt
<1>2. /\ rest \in Seq(Copy)
      /\ Len(list) \in Nat
      /\ Len(rest) = Len(list) - 1
      /\ \A k \in 1 .. i - 1 : rest[k] = list[k]
      /\ \A k \in i .. Len(list) - 1 : rest[k] = list[k + 1]
  BY RemoveAtPlaces
<1> HIDE DEF rest
<1>3. \A k \in 1 .. Len(rest) :
         rest[k] = IF k < i THEN list[k] ELSE list[k + 1]
  BY <1>2
<1>4. ToSet(rest) \subseteq ToSet(list)
  BY <1>2, <1>3 DEF ToSet
<1>5. ToSet(list) \subseteq ToSet(rest) \cup {list[i]}
  <2> SUFFICES ASSUME NEW k \in 1 .. Len(list), k # i
               PROVE  list[k] \in ToSet(rest)
    BY DEF ToSet
  <2>1. CASE k < i
    BY <1>2, <2>1 DEF ToSet
  <2>2. CASE k > i
    <3>1. k - 1 \in 1 .. Len(rest) /\ rest[k - 1] = list[k]
      BY <1>2, <2>2
    <3> QED BY <1>2, <3>1, Elements
  <2> QED BY <1>2, <2>1, <2>2
<1>6. Descending(list) => Descending(rest)
  BY <1>2, <1>3 DEF Descending
<1> QED BY <1>1, <1>2, <1>4, <1>5, <1>6

\* q is cut after n elements: the first part is appended to p, which makes more.
Cut(p, q, n, more, rest) ==
    /\ Len(more) = Len(p) + n
    /\ Len(rest) = Len(q) - n
    /\ \A k \in 1 .. Len(p) : more[k] = p[k]
    /\ \A k \in 1 .. n : more[Len(p) + k] = q[k]
    /\ \A k \in 1 .. Len(q) - n : rest[k] = q[n + k]

LEMMA CutList ==
    ASSUME NEW p \in Seq(Copy), NEW q \in Seq(Copy), NEW n \in 0 .. Len(q),
           NEW more \in Seq(Copy), NEW rest \in Seq(Copy), Cut(p, q, n, more, rest),
           Distinct(p), Distinct(q), \A j \in Jobs : Listed(p, j) => ~Listed(q, j)
    PROVE  /\ ToSet(more) \cup ToSet(rest) = ToSet(p) \cup ToSet(q)
           /\ Distinct(more) /\ Distinct(rest)
           /\ \A j \in Jobs : Listed(more, j) => ~Listed(rest, j)
<1> USE DEF Cut
<1>1. Len(p) \in Nat /\ Len(q) \in Nat /\ n \in Nat /\ n <= Len(q)
  OBVIOUS
<1>2. \A k \in 1 .. Len(more) :
         \/ k \in 1 .. Len(p) /\ more[k] = p[k]
         \/ k - Len(p) \in 1 .. n /\ k - Len(p) \in 1 .. Len(q) /\ more[k] = q[k - Len(p)]
  <2> TAKE k \in 1 .. Len(more)
  <2>1. CASE k > Len(p)
    <3>1. k - Len(p) \in 1 .. n
      BY <1>1, <2>1
    <3>2. Len(p) + (k - Len(p)) = k
      BY <1>1
    <3> QED BY <1>1, <3>1, <3>2
  <2> QED BY <1>1, <2>1
<1>3. \A k \in 1 .. Len(rest) : n + k \in 1 .. Len(q) /\ rest[k] = q[n + k]
  BY <1>1
<1>4. \A i \in 1 .. Len(p), k \in 1 .. Len(q) : p[i].job # q[k].job
  <2> TAKE i \in 1 .. Len(p), k \in 1 .. Len(q)
  <2>1. p[i] \in ToSet(p) /\ p[i].job \in Jobs /\ q[k] \in ToSet(q)
    BY Elements
  <2> QED BY <2>1 DEF Listed
<1>5. Distinct(more)
  <2> SUFFICES ASSUME NEW i \in 1 .. Len(more), NEW k \in 1 .. Len(more),
                      more[i].job = more[k].job
               PROVE  i = k
    BY DEF Distinct
  <2>1. CASE i \in 1 .. Len(p) /\ more[i] = p[i] /\ k \in 1 .. Len(p) /\ more[k] = p[k]
    BY <2>1 DEF Distinct
  <2>2. CASE i - Len(p) \in 1 .. Len(q) /\ more[i] = q[i - Len(p)]
             /\ k - Len(p) \in 1 .. Len(q) /\ more[k] = q[k - Len(p)]
    <3>1. i - Len(p) = k - Len(p)
      BY <2>2 DEF Distinct
    <3> QED BY <1>1, <3>1
  <2>3. CASE i \in 1 .. Len(p) /\ more[i] = p[i]
             /\ k - Len(p) \in 1 .. Len(q) /\ more[k] = q[k - Len(p)]
    BY <1>4, <2>3
  <2>4. CASE i - Len(p) \in 1 .. Len(q) /\ more[i] = q[i - Len(p)]
             /\ k \in 1 .. Len(p) /\ more[k] = p[k]
    BY <1>4, <2>4
  <2> QED BY <1>2, <2>1, <2>2, <2>3, <2>4
<1>6. Distinct(rest)
  <2> SUFFICES ASSUME NEW i \in 1 .. Len(rest), NEW k \in 1 .. Len(rest),
                      rest[i].job = rest[k].job
               PROVE  i = k
    BY DEF Distinct
  <2>1. n + i \in 1 .. Len(q) /\ n + k \in 1 .. Len(q) /\ q[n + i].job = q[n + k].job
    BY <1>3
  <2>2. n + i = n + k
    BY <2>1 DEF Distinct
  <2> QED BY <1>1, <2>2
<1>7. \A i \in 1 .. Len(more), k \in 1 .. Len(rest) : more[i].job # rest[k].job
  <2> TAKE i \in 1 .. Len(more), k \in 1 .. Len(rest)
  <2>1. n + k \in 1 .. Len(q) /\ rest[k] = q[n + k]
    BY <1>3
  <2>2. CASE i \in 1 .. Len(p) /\ more[i] = p[i]
    BY <1>4, <2>1, <2>2
  <2>3. CASE i - Len(p) \in 1 .. n /\ i - Len(p) \in 1 .. Len(q) /\ more[i] = q[i - Len(p)]
    <3>1. i - Len(p) # n + k
      BY <1>1, <2>3
    <3> QED BY <2>1, <2>3, <3>1 DEF Distinct
  <2> QED BY <1>2, <2>2, <2>3
<1>8. \A j \in Jobs : Listed(more, j) => ~Listed(rest, j)
  <2> SUFFICES ASSUME NEW b \in ToSet(more), NEW c \in ToSet(rest), b.job = c.job
               PROVE  FALSE
    BY DEF Listed
  <2>1. PICK i \in 1 .. Len(more) : more[i] = b
    BY Elements
  <2>2. PICK k \in 1 .. Len(rest) : rest[k] = c
    BY Elements
  <2> QED BY <1>7, <2>1, <2>2
<1>9. ToSet(more) \subseteq ToSet(p) \cup ToSet(q)
  <2>1. \A k \in 1 .. Len(p) : p[k] \in ToSet(p)
    BY Elements
  <2>2. \A k \in 1 .. Len(q) : q[k] \in ToSet(q)
    BY Elements
  <2>3. \A i \in 1 .. Len(more) : more[i] \in ToSet(p) \cup ToSet(q)
    BY <1>2, <2>1, <2>2
  <2>4. \A c \in ToSet(more) : \E i \in 1 .. Len(more) : more[i] = c
    BY Elements
  <2> QED BY <2>3, <2>4
<1>10. ToSet(rest) \subseteq ToSet(q)
  <2> SUFFICES ASSUME NEW i \in 1 .. Len(rest)
               PROVE  rest[i] \in ToSet(q)
    BY Elements
  <2>1. \A k \in 1 .. Len(q) : q[k] \in ToSet(q)
    BY Elements
  <2> QED BY <1>3, <2>1
<1>11. ToSet(p) \subseteq ToSet(more)
  <2> SUFFICES ASSUME NEW i \in 1 .. Len(p)
               PROVE  p[i] \in ToSet(more)
    BY Elements
  <2>1. i \in 1 .. Len(more) /\ more[i] = p[i]
    BY <1>1
  <2> QED BY <2>1, Elements
<1>12. ToSet(q) \subseteq ToSet(more) \cup ToSet(rest)
  <2> SUFFICES ASSUME NEW k \in 1 .. Len(q)
               PROVE  q[k] \in ToSet(more) \cup ToSet(rest)
    BY Elements
  <2>1. CASE k <= n
    <3>1. Len(p) + k \in 1 .. Len(more) /\ more[Len(p) + k] = q[k]
      BY <1>1, <2>1
    <3> QED BY <3>1, Elements
  <2>2. CASE k > n
    <3>1. k - n \in 1 .. Len(rest) /\ rest[k - n] = q[n + (k - n)] /\ n + (k - n) = k
      BY <1>1, <2>2
    <3> QED BY <3>1, Elements
  <2> QED BY <1>1, <2>1, <2>2
<1> QED BY <1>5, <1>6, <1>8, <1>9, <1>10, <1>11, <1>12

\* The script moves some copies from one list to the other and loses none.
LEMMA PromoteCopies ==
    ASSUME NEW p \in Seq(Copy), NEW q \in Seq(Copy), NEW n \in 0 .. Len(q),
           Distinct(p), Distinct(q), \A j \in Jobs : Listed(p, j) => ~Listed(q, j)
    PROVE  /\ p \o SubSeq(q, 1, n) \in Seq(Copy)
           /\ SubSeq(q, n + 1, Len(q)) \in Seq(Copy)
           /\ ToSet(p \o SubSeq(q, 1, n)) \cup ToSet(SubSeq(q, n + 1, Len(q))) = ToSet(p) \cup ToSet(q)
           /\ Distinct(p \o SubSeq(q, 1, n))
           /\ Distinct(SubSeq(q, n + 1, Len(q)))
           /\ \A j \in Jobs : Listed(p \o SubSeq(q, 1, n), j) => ~Listed(SubSeq(q, n + 1, Len(q)), j)
<1> DEFINE more == p \o SubSeq(q, 1, n)
           rest == SubSeq(q, n + 1, Len(q))
<1>1. more \in Seq(Copy) /\ rest \in Seq(Copy) /\ Cut(p, q, n, more, rest)
  BY PrefixMoves DEF Cut
<1> HIDE DEF more, rest
<1>2. /\ ToSet(more) \cup ToSet(rest) = ToSet(p) \cup ToSet(q)
      /\ Distinct(more) /\ Distinct(rest)
      /\ \A j \in Jobs : Listed(more, j) => ~Listed(rest, j)
  BY <1>1, CutList
<1> QED BY <1>1, <1>2 DEF more, rest

-----------------------------------------------------------------------------
(* What the dispatcher's steps do to the threads' work.                    *)

USE MaxAttemptsAssumption, OwnerAssumption, NoJobAssumption, KnownAssumption,
    RedisAssumption, CallersAssumption, BoundsAssumption

LEMMA WorkType ==
    ASSUME TypeOK
    PROVE  work \in [Callers -> Jobs \cup {NoJob}]
BY DEF TypeOK, DispatcherTypeOK, work

LEMMA TakeJobWork ==
    ASSUME TypeOK, ThreadsMatch, NEW d \in Daemons, NEW j \in Jobs, TakeJob(d, j)
    PROVE  work[d] = NoJob /\ work' = [work EXCEPT ![d] = j]
<1>1. hand[d] = NoJob /\ hand' = [hand EXCEPT ![d] = j] /\ UNCHANGED slot
  BY DEF TypeOK, DispatcherTypeOK, ThreadsMatch, TakeJob, Goto
<1>2. \A c \in Callers : work'[c] = IF c = d THEN j ELSE work[c]
  BY <1>1 DEF TypeOK, DispatcherTypeOK, work, Active
<1>3. work[d] = NoJob
  BY <1>1 DEF work
<1>4. work' = [work EXCEPT ![d] = j]
  BY <1>2 DEF work
<1> QED BY <1>3, <1>4

LEMMA DropUnknownWork ==
    ASSUME TypeOK, ThreadsMatch, NEW d \in Daemons, DropUnknown(d)
    PROVE  work[d] = hand[d] /\ Busy(d) /\ work' = [work EXCEPT ![d] = NoJob]
<1>1. hand[d] # NoJob /\ hand' = [hand EXCEPT ![d] = NoJob] /\ UNCHANGED slot
  BY DEF TypeOK, DispatcherTypeOK, ThreadsMatch, DropUnknown, Goto
<1>2. \A c \in Callers : work'[c] = IF c = d THEN NoJob ELSE work[c]
  BY <1>1 DEF TypeOK, DispatcherTypeOK, work, Active
<1>3. work[d] = hand[d] /\ Busy(d)
  BY <1>1 DEF work, Busy
<1>4. work' = [work EXCEPT ![d] = NoJob]
  BY <1>2 DEF work
<1> QED BY <1>3, <1>4

LEMMA SpawnWork ==
    ASSUME TypeOK, ThreadsMatch, NEW d \in Daemons, NEW s \in Slots, Spawn(d, s)
    PROVE  Busy(d) /\ ~Busy(s) /\ work' = [work EXCEPT ![s] = work[d], ![d] = NoJob]
<1>1. /\ hand[d] # NoJob /\ hand' = [hand EXCEPT ![d] = NoJob]
      /\ ~Active(s) /\ Active(s)' /\ slot'[s].job = hand[d]
      /\ \A t \in Slots : t # s => slot'[t] = slot[t]
  BY DEF TypeOK, DispatcherTypeOK, ThreadsMatch, Spawn, Goto, Active, Idle, OpPCs
<1>2. s \notin Daemons /\ d \notin Slots /\ work[d] = hand[d] /\ work[s] = NoJob
  BY <1>1 DEF work
<1>3. \A c \in Callers : work'[c] = IF c = s THEN work[d] ELSE IF c = d THEN NoJob ELSE work[c]
  BY <1>1, <1>2 DEF TypeOK, DispatcherTypeOK, work, Active
<1>4. work' = [work EXCEPT ![s] = work[d], ![d] = NoJob]
  BY <1>2, <1>3 DEF work
<1> QED BY <1>1, <1>2, <1>4 DEF Busy

LEMMA HandlerReturnsWork ==
    ASSUME TypeOK, NEW s \in Slots, NEW outcome \in Outcomes,
           HandlerReturns(s, outcome, attempts[s])
    PROVE  work' = work
<1>1. OpAfter(slot[s].job, outcome, attempts[s]) \in OpPCs
  BY DEF OpAfter, OpPCs
<1>2. /\ UNCHANGED hand
      /\ \A t \in Slots : Active(t)' = Active(t) /\ slot'[t].job = slot[t].job
  BY <1>1 DEF TypeOK, DispatcherTypeOK, HandlerReturns, Active, OpPCs
<1> QED BY <1>2 DEF work

LEMMA CallReturnsWork ==
    ASSUME TypeOK, ThreadsMatch, NEW s \in Slots, NEW op \in OpPCs, CallReturns(s, op)
    PROVE  work[s] = slot[s].job /\ Busy(s) /\ work' = [work EXCEPT ![s] = NoJob]
<1>1. /\ Active(s) /\ slot[s].job # NoJob /\ ~Active(s)'
      /\ UNCHANGED hand
      /\ \A t \in Slots : t # s => slot'[t] = slot[t]
  BY DEF TypeOK, DispatcherTypeOK, ThreadsMatch, CallReturns, Active, OpPCs
<1>2. \A c \in Callers : work'[c] = IF c = s THEN NoJob ELSE work[c]
  BY <1>1 DEF work, Active
<1> QED BY <1>1, <1>2 DEF work, Busy

LEMMA ReleaseWork ==
    ASSUME TypeOK, NEW s \in Slots, Release(s)
    PROVE  ~Busy(s) /\ work' = work
<1>1. ~Active(s) /\ ~Active(s)'
  BY DEF TypeOK, DispatcherTypeOK, Release, Active, Idle, OpPCs
<1>2. UNCHANGED hand /\ \A t \in Slots : t # s => slot'[t] = slot[t]
  BY DEF TypeOK, DispatcherTypeOK, Release
<1> QED BY <1>1, <1>2 DEF work, Active, Busy

LEMMA CrashWork ==
    ASSUME TypeOK, NEW d \in Daemons, Crash(d)
    PROVE  work' = [c \in Callers |-> IF c \in SlotsOf(d) \cup {d} THEN NoJob ELSE work[c]]
<1>1. \A e \in Daemons : hand'[e] = IF e = d THEN NoJob ELSE hand[e]
  BY DEF TypeOK, DispatcherTypeOK, Crash
<1>2. \A s \in Slots : slot'[s] = IF s \in SlotsOf(d) THEN Idle ELSE slot[s]
  BY DEF Crash, SlotsOf
<1>3. \A s \in SlotsOf(d) : ~Active(s)'
  BY <1>2 DEF Active, Idle, OpPCs, SlotsOf
<1>4. \A s \in Slots \ SlotsOf(d) : Active(s)' = Active(s)
  BY <1>2 DEF Active
<1> QED BY <1>1, <1>2, <1>3, <1>4 DEF work, SlotsOf

\* A step that leaves hands and goroutines alone leaves their work alone.
LEMMA SameWork ==
    ASSUME UNCHANGED <<hand, slot>>
    PROVE  work' = work
BY DEF work, Active

-----------------------------------------------------------------------------
(* What a step does to the books, one lemma per kind of step: the queue's  *)
(* part is given as the queue's action states it, the dispatcher's part as *)
(* its effect on the threads' work.                                        *)

LEMMA CopiesTyped ==
    ASSUME TypeOK
    PROVE  /\ \A c \in ToSet(pending) \cup ToSet(due) \cup delayed \cup ToSet(processing)
                      \cup ToSet(dead) : c \in Copy /\ c.job \in Jobs /\ c.tries \in Nat
           /\ taken \in [Jobs -> Nat] /\ attempts \in [Callers -> Nat]
           /\ removed \in [Callers -> Copy \cup {NoCopy}]
           /\ NoCopy \notin Copy
<1>1. /\ pending \in Seq(Copy) /\ due \in Seq(Copy) /\ dead \in Seq(Copy)
      /\ processing \in Seq(Copy) /\ delayed \subseteq Copy
  BY DEF TypeOK, QueueTypeOK
<1>2. \A c \in ToSet(pending) : c \in Copy
  BY <1>1, Elements
<1>3. \A c \in ToSet(due) : c \in Copy
  BY <1>1, Elements
<1>4. \A c \in ToSet(dead) : c \in Copy
  BY <1>1, Elements
<1>5. \A c \in ToSet(processing) : c \in Copy
  BY <1>1, Elements
<1>6. \A c \in Copy : c.job \in Jobs /\ c.tries \in Nat
  BY DEF Copy
<1>7. /\ taken \in [Jobs -> Nat] /\ attempts \in [Callers -> Nat]
      /\ removed \in [Callers -> Copy \cup {NoCopy}]
      /\ NoCopy \notin Copy
  BY DEF TypeOK, QueueTypeOK, Copy
<1> QED BY <1>1, <1>2, <1>3, <1>4, <1>5, <1>6, <1>7

\* Nothing that the books are about changes.
LEMMA QuietBooks ==
    ASSUME Books, work' = work,
           UNCHANGED <<pending, processing, delayed, due, dead, removed>>,
           UNCHANGED <<submitted, acknowledged, taken>>,
           \A c \in Callers : Busy(c) => attempts'[c] = attempts[c]
    PROVE  Books'
<1>1. OneThread' /\ OneWaiting' /\ DeadOnce' /\ OneStanding'
  BY DEF Books, OneThread, OneWaiting, DeadOnce, OneStanding, Busy, Held, IsWaiting,
         IsSettled, Parked
<1>2. Counted' /\ CopiesKept'
  BY DEF Books, Counted, CopiesKept, Busy
<1> QED BY <1>1, <1>2 DEF Books

\* A new job goes to the end of pending.
LEMMA SubmitBooks ==
    ASSUME TypeOK, Books, NEW j \in Jobs, j \notin submitted, Enqueue(j), work' = work,
           submitted' = submitted \cup {j},
           UNCHANGED <<acknowledged, taken, attempts>>
    PROVE  pending' \in Seq(Copy) /\ Books'
<1> DEFINE c == [job |-> j, tries |-> 0]
<1>1. c \in Copy /\ c.job = j /\ c.tries = 0
  BY DEF Copy
<1> HIDE DEF c
<1>2. ~IsWaiting(j) /\ ~Held(j) /\ ~IsSettled(j) /\ taken[j] = 0
  BY DEF Books, OneStanding, Counted
<1>3. /\ pending' = Append(pending, c)
      /\ UNCHANGED <<processing, delayed, due, dead, removed>>
  BY DEF Enqueue, c
<1>4. /\ pending' \in Seq(Copy)
      /\ ToSet(pending') = ToSet(pending) \cup {c}
      /\ Distinct(pending')
  BY <1>1, <1>2, <1>3, AppendCopy DEF TypeOK, QueueTypeOK, Books, OneWaiting, IsWaiting
<1>5. OneThread' /\ DeadOnce' /\ CopiesKept'
  BY <1>3 DEF Books, OneThread, DeadOnce, CopiesKept, Busy
<1>6. OneWaiting'
  BY <1>1, <1>2, <1>3, <1>4 DEF Books, OneWaiting, Listed, Parked, IsWaiting
<1>7. OneStanding'
  BY <1>1, <1>2, <1>3, <1>4 DEF Books, OneStanding, Listed, Parked, IsWaiting, IsSettled, Held
<1>8. Counted'
  BY <1>1, <1>2, <1>3, <1>4 DEF Books, Counted, Busy
<1> QED BY <1>4, <1>5, <1>6, <1>7, <1>8 DEF Books

\* A waiting job goes from delayed to the end of due.
LEMMA RipenBooks ==
    ASSUME TypeOK, Books, Ripen, work' = work,
           UNCHANGED <<submitted, acknowledged, taken, attempts>>
    PROVE  /\ due' \in Seq(Copy) /\ Books'
           /\ \A j \in Jobs : IsWaiting(j)' <=> IsWaiting(j)
<1>1. PICK c \in delayed : /\ delayed' = delayed \ {c}
                           /\ due' = Append(due, c)
                           /\ UNCHANGED <<pending, processing, dead, removed>>
  BY DEF Ripen
<1>2. c \in Copy /\ c.job \in Jobs
  BY CopiesTyped
<1>3. ~Listed(pending, c.job) /\ ~Listed(due, c.job)
  BY <1>2 DEF Books, OneWaiting, Parked
<1>4. /\ due' \in Seq(Copy)
      /\ ToSet(due') = ToSet(due) \cup {c}
      /\ Distinct(due')
  BY <1>1, <1>2, <1>3, AppendCopy DEF TypeOK, QueueTypeOK, Books, OneWaiting
<1>5. OneThread' /\ DeadOnce' /\ CopiesKept'
  BY <1>1 DEF Books, OneThread, DeadOnce, CopiesKept, Busy
<1>6. OneWaiting'
  BY <1>1, <1>2, <1>3, <1>4 DEF Books, OneWaiting, Listed, Parked
<1>7. \A j \in Jobs : IsWaiting(j)' <=> IsWaiting(j)
  BY <1>1, <1>4 DEF Listed, Parked, IsWaiting
<1>8. OneStanding'
  BY <1>1, <1>7 DEF Books, OneStanding, IsSettled, Held
<1>9. Counted'
  BY <1>1, <1>4 DEF Books, Counted, Busy
<1> QED BY <1>4, <1>5, <1>6, <1>7, <1>8, <1>9 DEF Books

\* Waiting jobs go from due to the end of pending.
LEMMA PromoteBooks ==
    ASSUME TypeOK, Books, PromoteDelayed, work' = work,
           UNCHANGED <<submitted, acknowledged, taken, attempts>>
    PROVE  /\ pending' \in Seq(Copy) /\ due' \in Seq(Copy) /\ Books'
           /\ \A j \in Jobs : IsWaiting(j)' <=> IsWaiting(j)
<1> DEFINE n == IF Len(due) < PromoteLimit THEN Len(due) ELSE PromoteLimit
<1>1. /\ pending' = pending \o SubSeq(due, 1, n)
      /\ due' = SubSeq(due, n + 1, Len(due))
      /\ UNCHANGED <<processing, delayed, dead, removed>>
  BY DEF PromoteDelayed
<1>2. pending \in Seq(Copy) /\ due \in Seq(Copy)
  BY DEF TypeOK, QueueTypeOK
<1>3. n \in 0 .. Len(due)
  BY <1>2
<1> HIDE DEF n
<1>4. Distinct(pending) /\ Distinct(due) /\ \A j \in Jobs : Listed(pending, j) => ~Listed(due, j)
  BY DEF Books, OneWaiting
<1>5. /\ pending' \in Seq(Copy) /\ due' \in Seq(Copy)
      /\ ToSet(pending') \cup ToSet(due') = ToSet(pending) \cup ToSet(due)
      /\ Distinct(pending') /\ Distinct(due')
      /\ \A j \in Jobs : Listed(pending', j) => ~Listed(due', j)
  BY <1>1, <1>2, <1>3, <1>4, PromoteCopies
<1>6. \A j \in Jobs : Listed(pending', j) \/ Listed(due', j) <=> Listed(pending, j) \/ Listed(due, j)
  BY <1>5 DEF Listed
<1>7. OneThread' /\ DeadOnce' /\ CopiesKept'
  BY <1>1 DEF Books, OneThread, DeadOnce, CopiesKept, Busy
<1>8. OneWaiting'
  BY <1>1, <1>5, <1>6 DEF Books, OneWaiting, Parked
<1>9. \A j \in Jobs : IsWaiting(j)' <=> IsWaiting(j)
  BY <1>1, <1>6 DEF Parked, IsWaiting
<1>10. OneStanding'
  BY <1>1, <1>9 DEF Books, OneStanding, IsSettled, Held
<1>11. Counted'
  BY <1>1, <1>5 DEF Books, Counted, Busy
<1> QED BY <1>5, <1>7, <1>8, <1>9, <1>10, <1>11 DEF Books

\* BLMOVE in the server: the first copy of pending becomes the newest of processing.
LEMMA BLMoveLists ==
    ASSUME TypeOK, Books, NEW c, BLMove(c)
    PROVE  /\ c \in Copy /\ c \in ToSet(pending) /\ c.tries = taken[c.job]
           /\ pending' \in Seq(Copy) /\ processing' \in Seq(Copy)
           /\ ToSet(pending) = {c} \cup ToSet(pending')
           /\ Distinct(pending') /\ ~Listed(pending', c.job)
           /\ ToSet(processing') = ToSet(processing) \cup {c}
           /\ Descending(processing')
<1>1. /\ pending \in Seq(Copy) /\ processing \in Seq(Copy)
      /\ pending # <<>> /\ c = Head(pending)
      /\ pending' = Tail(pending)
      /\ processing' = Cons(c, processing)
      /\ Distinct(pending)
  BY DEF TypeOK, QueueTypeOK, BLMove, Books, OneWaiting
<1>2. /\ c \in Copy
      /\ pending' \in Seq(Copy)
      /\ ToSet(pending) = {c} \cup ToSet(pending')
      /\ Distinct(pending') /\ ~Listed(pending', c.job)
  BY <1>1, TailCopy
<1>3. c.tries = taken[c.job]
  BY <1>2 DEF Books, Counted
<1>4. Descending(processing) /\ \A b \in ToSet(processing) : b.job = c.job => b.tries < c.tries
  BY <1>3 DEF Books, CopiesKept
<1>5. /\ processing' \in Seq(Copy)
      /\ ToSet(processing') = ToSet(processing) \cup {c}
      /\ Descending(processing')
  BY <1>1, <1>2, <1>4, ConsCopy
<1> QED BY <1>2, <1>3, <1>5

\* What BLMOVE does to the places, whether or not the daemon learns of it.
LEMMA BLMovePlaces ==
    ASSUME TypeOK, Books, NEW c, BLMove(c)
    PROVE  /\ OneWaiting'
           /\ IsWaiting(c.job) /\ ~IsWaiting(c.job)'
           /\ \A j \in Jobs : j # c.job => (IsWaiting(j)' <=> IsWaiting(j))
<1>1. /\ c \in Copy /\ c.job \in Jobs /\ c \in ToSet(pending)
      /\ ToSet(pending) = {c} \cup ToSet(pending')
      /\ Distinct(pending') /\ ~Listed(pending', c.job)
  BY BLMoveLists DEF Copy
<1>2. UNCHANGED <<delayed, due, dead, removed>>
  BY DEF BLMove
<1>3. \A j \in Jobs : j # c.job => (Listed(pending', j) <=> Listed(pending, j))
  BY <1>1 DEF Listed
<1>4. Listed(pending, c.job)
  BY <1>1 DEF Listed
<1>5. ~Listed(due, c.job) /\ ~Parked(c.job)
  BY <1>1, <1>4 DEF Books, OneWaiting
<1>6. OneWaiting'
  BY <1>1, <1>2, <1>3, <1>5 DEF Books, OneWaiting, Parked
<1> QED BY <1>1, <1>2, <1>3, <1>4, <1>5, <1>6 DEF IsWaiting, Parked

\* The reply of BLMOVE brings the job to an idle loop.
LEMMA TakenBooks ==
    ASSUME TypeOK, Books, NEW c, BLMove(c), NEW d \in Callers,
           c.job \notin Poison, work[d] = NoJob, removed[d] = NoCopy,
           work' = [work EXCEPT ![d] = c.job],
           attempts' = [attempts EXCEPT ![d] = c.tries + 1],
           taken' = [taken EXCEPT ![c.job] = @ + 1],
           UNCHANGED <<submitted, acknowledged>>
    PROVE  Books'
<1> DEFINE j == c.job
<1>1. /\ c \in Copy /\ j \in Jobs /\ c.tries \in Nat /\ c \in ToSet(pending)
      /\ c.tries = taken[j]
      /\ ToSet(pending) = {c} \cup ToSet(pending')
      /\ ~Listed(pending', j)
      /\ ToSet(processing') = ToSet(processing) \cup {c}
      /\ Descending(processing')
  BY BLMoveLists DEF Copy
<1>2. UNCHANGED <<delayed, due, dead, removed>>
  BY DEF BLMove
<1>3. /\ IsWaiting(j) /\ ~IsWaiting(j)'
      /\ \A k \in Jobs : k # j => (IsWaiting(k)' <=> IsWaiting(k))
      /\ OneWaiting'
  BY BLMovePlaces
<1>4. ~Held(j) /\ ~IsSettled(j) /\ j \in submitted
  BY <1>1, <1>3 DEF Books, OneStanding
<1>5. /\ work \in [Callers -> Jobs \cup {NoJob}] /\ j # NoJob
      /\ \A b \in Callers : work'[b] = IF b = d THEN j ELSE work[b]
  BY <1>1, WorkType
<1>6. /\ taken \in [Jobs -> Nat] /\ attempts \in [Callers -> Nat]
      /\ \A k \in Jobs : taken'[k] = IF k = j THEN taken[j] + 1 ELSE taken[k]
      /\ \A b \in Callers : attempts'[b] = IF b = d THEN taken[j] + 1 ELSE attempts[b]
  BY <1>1, CopiesTyped
<1> HIDE DEF j
<1>7. OneThread'
  BY <1>4, <1>5 DEF Books, OneThread, Busy, Held
<1>8. DeadOnce'
  BY <1>2 DEF Books, DeadOnce
<1>9. OneStanding'
  <2>1. \A k \in Jobs : IsSettled(k)' <=> IsSettled(k)
    BY <1>2 DEF IsSettled
  <2>2. \A k \in Jobs : k # j => (Held(k)' <=> Held(k))
    BY <1>5 DEF Held
  <2> QED BY <1>3, <1>4, <2>1, <2>2 DEF Books, OneStanding, j
<1>10. Counted'
  <2>1. \A b \in ToSet(pending') \cup ToSet(due') \cup delayed' :
           b \in ToSet(pending) \cup ToSet(due) \cup delayed /\ b.job # j /\ b.job \in Jobs
    BY <1>1, <1>2, <1>3, CopiesTyped DEF IsWaiting, Listed, Parked
  <2>2. taken'[j] <= MaxAttempts[j] \/ taken'[j] <= 1
    BY <1>1, <1>6 DEF Books, Counted, j
  <2>3. \A b \in Callers : b # d /\ Busy(b) => work[b] # j /\ work[b] \in Jobs
    BY <1>4, <1>5 DEF Busy, Held
  <2> QED BY <1>1, <1>4, <1>5, <1>6, <2>1, <2>2, <2>3 DEF Books, Counted, Busy
<1>11. CopiesKept'
  <2>1. \A b \in ToSet(processing') : b.tries < taken'[b.job]
    BY <1>1, <1>6, CopiesTyped DEF Books, CopiesKept, j
  <2>2. [job |-> j, tries |-> taken[j]] = c
    BY <1>1 DEF Copy, j
  <2>3. taken[j] + 1 - 1 = taken[j]
    BY <1>1, <1>6
  <2>4. \A b \in Callers : Busy(b)' =>
          LET own == [job |-> work'[b], tries |-> attempts'[b] - 1] IN
          IF removed'[b] = NoCopy THEN own \in ToSet(processing') ELSE removed'[b] = own
    BY <1>1, <1>2, <1>5, <1>6, <2>2, <2>3 DEF Books, CopiesKept, Busy
  <2>5. \A b \in Callers : removed'[b] # NoCopy => Busy(b)'
    BY <1>2, <1>5 DEF Books, CopiesKept, Busy
  <2> QED BY <1>1, <2>1, <2>4, <2>5 DEF CopiesKept
<1> QED BY <1>3, <1>7, <1>8, <1>9, <1>10, <1>11 DEF Books

\* The reply of BLMOVE is lost, or is not a job.
LEMMA LostInTransitBooks ==
    ASSUME TypeOK, Books, NEW c, BLMove(c), work' = work,
           taken' = [taken EXCEPT ![c.job] = @ + 1],
           UNCHANGED <<attempts, submitted, acknowledged>>
    PROVE  Books'
<1> DEFINE j == c.job
<1>1. /\ c \in Copy /\ j \in Jobs /\ c.tries \in Nat /\ c \in ToSet(pending)
      /\ c.tries = taken[j]
      /\ ToSet(pending) = {c} \cup ToSet(pending')
      /\ ToSet(processing') = ToSet(processing) \cup {c}
      /\ Descending(processing')
  BY BLMoveLists DEF Copy
<1>2. UNCHANGED <<delayed, due, dead, removed>>
  BY DEF BLMove
<1>3. /\ IsWaiting(j) /\ ~IsWaiting(j)'
      /\ \A k \in Jobs : k # j => (IsWaiting(k)' <=> IsWaiting(k))
      /\ OneWaiting'
  BY BLMovePlaces
<1>4. ~Held(j) /\ ~IsSettled(j) /\ j \in submitted
  BY <1>1, <1>3 DEF Books, OneStanding
<1>5. work \in [Callers -> Jobs \cup {NoJob}]
  BY WorkType
<1>6. /\ taken \in [Jobs -> Nat]
      /\ \A k \in Jobs : taken'[k] = IF k = j THEN taken[j] + 1 ELSE taken[k]
  BY <1>1, CopiesTyped
<1> HIDE DEF j
<1>7. OneThread' /\ DeadOnce'
  BY <1>2 DEF Books, OneThread, DeadOnce, Busy
<1>8. OneStanding'
  BY <1>2, <1>3, <1>4 DEF Books, OneStanding, IsSettled, Held
<1>9. Counted'
  <2>1. \A b \in ToSet(pending') \cup ToSet(due') \cup delayed' :
           b \in ToSet(pending) \cup ToSet(due) \cup delayed /\ b.job # j /\ b.job \in Jobs
    BY <1>1, <1>2, <1>3, CopiesTyped DEF IsWaiting, Listed, Parked
  <2>2. taken'[j] <= MaxAttempts[j] \/ taken'[j] <= 1
    BY <1>1, <1>6 DEF Books, Counted, j
  <2>3. \A b \in Callers : Busy(b) => work[b] # j /\ work[b] \in Jobs
    BY <1>4, <1>5 DEF Busy, Held
  <2> QED BY <1>1, <1>4, <1>6, <2>1, <2>2, <2>3 DEF Books, Counted, Busy
<1>10. CopiesKept'
  <2>1. \A b \in ToSet(processing') : b.tries < taken'[b.job]
    BY <1>1, <1>6, CopiesTyped DEF Books, CopiesKept, j
  <2> QED BY <1>1, <1>2, <2>1 DEF Books, CopiesKept, Busy
<1> QED BY <1>3, <1>7, <1>8, <1>9, <1>10 DEF Books

\* The processing list may have lost copies of j and nothing else.
Thinned(j) ==
    /\ processing' \in Seq(Copy)
    /\ Descending(processing')
    /\ ToSet(processing') \subseteq ToSet(processing)
    /\ \A c \in ToSet(processing) : c.job # j => c \in ToSet(processing')

\* What removeByJobID finds is a copy of the job, and LREM removes no other job's.
LEMMA LRemThins ==
    ASSUME TypeOK, Books, NEW j, NEW raw, Found(j, raw), LRem(raw)
    PROVE  Thinned(j) /\ raw \in ToSet(processing) /\ raw.job = j
<1>1. processing \in Seq(Copy) /\ Descending(processing)
  BY DEF TypeOK, QueueTypeOK, Books, CopiesKept
<1>2. PICK i \in Positions(j) : raw = processing[i] /\ \A k \in Positions(j) : i <= k
  BY DEF Found
<1>3. /\ i \in 1 .. Len(processing) /\ processing[i].job = j
      /\ \A k \in 1 .. Len(processing) : processing[k].job = processing[i].job => i <= k
  BY <1>2 DEF Positions
<1>4. raw \in ToSet(processing) /\ raw.job = j
  BY <1>1, <1>2, <1>3, Elements
<1>5. CASE processing' = processing
  BY <1>1, <1>4, <1>5 DEF Thinned
<1>6. CASE processing' = RemoveFirst(processing, raw)
  <2>1. /\ processing' \in Seq(Copy)
        /\ ToSet(processing') \subseteq ToSet(processing)
        /\ ToSet(processing) \subseteq ToSet(processing') \cup {raw}
        /\ Descending(processing')
    BY <1>1, <1>2, <1>3, <1>6, RemoveCopy
  <2> QED BY <1>4, <2>1 DEF Thinned
<1>7. processing' = processing \/ processing' = RemoveFirst(processing, raw)
  BY DEF LRem
<1> QED BY <1>4, <1>5, <1>6, <1>7

\* A thread that has not taken its copy out finds that copy, not an older one.
LEMMA FindsItsOwn ==
    ASSUME TypeOK, Books, NEW c \in Callers, Busy(c), removed[c] = NoCopy,
           NEW raw, Found(work[c], raw)
    PROVE  raw = [job |-> work[c], tries |-> attempts[c] - 1]
<1> DEFINE own == [job |-> work[c], tries |-> attempts[c] - 1]
<1>1. processing \in Seq(Copy) /\ Descending(processing)
  BY DEF TypeOK, QueueTypeOK, Books, CopiesKept
<1>2. own \in ToSet(processing)
  BY DEF Books, CopiesKept
<1>3. /\ attempts[c] = taken[work[c]] /\ attempts[c] \in Nat /\ taken[work[c]] \in Nat
      /\ \A b \in ToSet(processing) : b.tries < taken[b.job]
  BY CopiesTyped DEF Books, CopiesKept, Counted
<1>4. PICK i \in Positions(work[c]) :
         raw = processing[i] /\ \A k \in Positions(work[c]) : i <= k
  BY DEF Found
<1>5. PICK k \in 1 .. Len(processing) : processing[k] = own
  BY <1>1, <1>2, Elements
<1>6. /\ i \in 1 .. Len(processing) /\ processing[i].job = work[c]
      /\ i <= k
  BY <1>4, <1>5 DEF Positions
<1>7. ~(i < k)
  <2>1. processing[i] \in ToSet(processing) /\ processing[i].tries \in Nat
    BY <1>1, <1>6, Elements, CopiesTyped
  <2>2. processing[i].tries < taken[work[c]]
    BY <1>3, <1>6, <2>1
  <2>3. i < k => processing[k].tries < processing[i].tries
    BY <1>1, <1>5, <1>6 DEF Descending
  <2>4. processing[k].tries = taken[work[c]] - 1
    BY <1>3, <1>5
  <2> QED BY <1>3, <2>1, <2>2, <2>3, <2>4
<1>8. i = k
  BY <1>6, <1>7
<1> QED BY <1>4, <1>5, <1>8

\* A job that a busy thread may still report is in its own copy on the list.
LEMMA OwnIsFound ==
    ASSUME TypeOK, Books, NEW c \in Callers, Busy(c), removed[c] = NoCopy
    PROVE  Positions(work[c]) # {}
<1>1. processing \in Seq(Copy)
  BY DEF TypeOK, QueueTypeOK
<1>2. PICK k \in 1 .. Len(processing) : processing[k] = [job |-> work[c], tries |-> attempts[c] - 1]
  BY <1>1, Elements DEF Books, CopiesKept
<1>3. work[c] \in Jobs /\ work[c] \notin Poison
  BY WorkType DEF Books, OneStanding, Held, Busy
<1> QED BY <1>2, <1>3 DEF Positions

\* The places of jobs depend on the lists only where waiting and dead jobs are.
LEMMA SamePlaces ==
    ASSUME Books, UNCHANGED <<pending, due, delayed>>
    PROVE  OneWaiting' /\ \A j \in Jobs : IsWaiting(j)' <=> IsWaiting(j)
BY DEF Books, OneWaiting, IsWaiting, Parked

\* Thread c takes its copy out of processing, or LREM fails and it goes on as if
\* it had.
LEMMA TakeBooks ==
    ASSUME TypeOK, Books, NEW c \in Callers, Busy(c), Take(c, work[c]), work' = work,
           UNCHANGED <<attempts, submitted, acknowledged, taken>>
    PROVE  processing' \in Seq(Copy) /\ removed'[c] \in Copy /\ Books'
<1>1. /\ removed[c] = NoCopy
      /\ UNCHANGED <<pending, delayed, due, dead>>
  BY DEF Take
<1>2. PICK raw \in ToSet(processing) : /\ Found(work[c], raw)
                                       /\ LRem(raw)
                                       /\ removed' = [removed EXCEPT ![c] = raw]
  BY DEF Take
<1>3. Thinned(work[c])
  BY <1>2, LRemThins
<1>4. raw = [job |-> work[c], tries |-> attempts[c] - 1] /\ raw \in Copy /\ raw # NoCopy
  BY <1>1, <1>2, FindsItsOwn, CopiesTyped
<1>5. \A b \in Callers : removed'[b] = IF b = c THEN raw ELSE removed[b]
  BY <1>2, CopiesTyped
<1>6. OneThread' /\ DeadOnce'
  BY <1>1 DEF Books, OneThread, DeadOnce, Busy
<1>7. OneWaiting' /\ \A j \in Jobs : IsWaiting(j)' <=> IsWaiting(j)
  BY <1>1, SamePlaces
<1>8. OneStanding'
  BY <1>1, <1>7 DEF Books, OneStanding, IsSettled, Held
<1>9. Counted'
  BY <1>1 DEF Books, Counted, Busy
<1>10. CopiesKept'
  <2>1. \A b \in Callers : b # c /\ Busy(b) => work[b] # work[c]
    BY DEF Books, OneThread
  <2>2. \A b \in Callers : Busy(b)' =>
          LET own == [job |-> work'[b], tries |-> attempts'[b] - 1] IN
          IF removed'[b] = NoCopy THEN own \in ToSet(processing') ELSE removed'[b] = own
    <3> SUFFICES ASSUME NEW b \in Callers, Busy(b)
                 PROVE  LET own == [job |-> work[b], tries |-> attempts[b] - 1] IN
                        IF removed'[b] = NoCopy THEN own \in ToSet(processing') ELSE removed'[b] = own
      BY DEF Busy
    <3>1. CASE b = c
      BY <1>4, <1>5, <3>1
    <3>2. CASE b # c
      BY <1>3, <1>5, <2>1, <3>2 DEF Books, CopiesKept, Thinned
    <3> QED BY <3>1, <3>2
  <2>3. \A b \in Callers : removed'[b] # NoCopy => Busy(b)'
    BY <1>5 DEF Books, CopiesKept, Busy
  <2> QED BY <1>3, <2>2, <2>3 DEF Books, CopiesKept, Thinned
<1> QED BY <1>3, <1>4, <1>5, <1>6, <1>7, <1>8, <1>9, <1>10 DEF Books, Thinned

\* Thread c is done with its job j.
Done(c, j) ==
    /\ Busy(c) /\ work[c] = j
    /\ work' = [work EXCEPT ![c] = NoJob]
    /\ removed' = [removed EXCEPT ![c] = NoCopy]
    /\ Thinned(j)
    /\ UNCHANGED <<attempts, taken, submitted>>

\* The other threads and their copies are where they were.
LEMMA DoneThread ==
    ASSUME TypeOK, Books, NEW c \in Callers, NEW j, Done(c, j)
    PROVE  /\ j \in Jobs /\ Held(j) /\ ~Held(j)'
           /\ \A k \in Jobs : k # j => (Held(k)' <=> Held(k))
           /\ OneThread' /\ CopiesKept'
           /\ \A b \in Callers : Busy(b)' => attempts'[b] = taken'[work'[b]] /\ attempts'[b] > 0
<1>1. /\ work \in [Callers -> Jobs \cup {NoJob}] /\ j # NoJob /\ work[c] = j /\ j \in Jobs
      /\ \A b \in Callers : work'[b] = IF b = c THEN NoJob ELSE work[b]
      /\ \A b \in Callers : removed'[b] = IF b = c THEN NoCopy ELSE removed[b]
  BY WorkType, CopiesTyped DEF Done, Busy
<1>2. \A b \in Callers : b # c => work[b] # j
  BY <1>1 DEF Books, OneThread, Busy
<1>3. Held(j) /\ ~Held(j)' /\ \A k \in Jobs : k # j => (Held(k)' <=> Held(k))
  BY <1>1, <1>2 DEF Held
<1>4. OneThread'
  BY <1>1 DEF Books, OneThread, Busy
<1>5. \A b \in Callers : Busy(b)' => b # c /\ Busy(b) /\ work'[b] = work[b] /\ removed'[b] = removed[b]
  BY <1>1 DEF Busy
<1>6. CopiesKept'
  <2>1. \A b \in Callers : Busy(b)' =>
          LET own == [job |-> work'[b], tries |-> attempts'[b] - 1] IN
          IF removed'[b] = NoCopy THEN own \in ToSet(processing') ELSE removed'[b] = own
    <3> SUFFICES ASSUME NEW b \in Callers, Busy(b)'
                 PROVE  LET own == [job |-> work[b], tries |-> attempts[b] - 1] IN
                        IF removed[b] = NoCopy THEN own \in ToSet(processing') ELSE removed[b] = own
      BY <1>5 DEF Done
    <3>1. b # c /\ Busy(b) /\ work[b] # j
      BY <1>2, <1>5
    <3> QED BY <3>1 DEF Books, CopiesKept, Thinned, Done
  <2>2. \A b \in Callers : removed'[b] # NoCopy => Busy(b)'
    BY <1>1 DEF Books, CopiesKept, Busy
  <2> QED BY <2>1, <2>2 DEF Books, CopiesKept, Thinned, Done
<1>7. \A b \in Callers : Busy(b)' => attempts'[b] = taken'[work'[b]] /\ attempts'[b] > 0
  BY <1>5 DEF Books, Counted, Done
<1> QED BY <1>1, <1>3, <1>4, <1>6, <1>7

\* The thread is done and the job is in no place: what the queue was to be told was lost.
LEMMA GivenUpBooks ==
    ASSUME TypeOK, Books, NEW c \in Callers, NEW j, Done(c, j),
           UNCHANGED <<pending, due, delayed, dead, acknowledged>>
    PROVE  Books'
<1>1. /\ j \in Jobs /\ Held(j) /\ ~Held(j)'
      /\ \A k \in Jobs : k # j => (Held(k)' <=> Held(k))
      /\ OneThread' /\ CopiesKept'
      /\ \A b \in Callers : Busy(b)' => attempts'[b] = taken'[work'[b]] /\ attempts'[b] > 0
  BY DoneThread
<1>2. OneWaiting' /\ \A k \in Jobs : IsWaiting(k)' <=> IsWaiting(k)
  BY SamePlaces
<1>3. DeadOnce' /\ OneStanding'
  BY <1>1, <1>2 DEF Books, DeadOnce, OneStanding, IsSettled, Done
<1>4. Counted'
  BY <1>1 DEF Books, Counted, Done
<1> QED BY <1>1, <1>2, <1>3, <1>4 DEF Books

\* The thread is done and the job is settled: acknowledged, or dead.
LEMMA SettledBooks ==
    ASSUME TypeOK, Books, NEW c \in Callers, NEW j, Done(c, j),
           UNCHANGED <<pending, due, delayed>>,
           \/ acknowledged' = acknowledged \cup {j} /\ UNCHANGED dead
           \/ /\ UNCHANGED acknowledged
              /\ \E copy \in Copy : copy.job = j /\ dead' = Cons(copy, dead)
    PROVE  /\ dead' \in Seq(Copy) /\ Books'
           /\ IsSettled(j)' /\ ~IsSettled(j)
           /\ \A k \in Jobs : k # j => (IsSettled(k)' <=> IsSettled(k))
           /\ j \in acknowledged' \/ (Listed(dead', j) /\ UNCHANGED acknowledged)
<1>1. /\ j \in Jobs /\ Held(j) /\ ~Held(j)'
      /\ \A k \in Jobs : k # j => (Held(k)' <=> Held(k))
      /\ OneThread' /\ CopiesKept'
      /\ \A b \in Callers : Busy(b)' => attempts'[b] = taken'[work'[b]] /\ attempts'[b] > 0
  BY DoneThread
<1>2. OneWaiting' /\ \A k \in Jobs : IsWaiting(k)' <=> IsWaiting(k)
  BY SamePlaces
<1>3. dead \in Seq(Copy) /\ ~IsSettled(j) /\ ~IsWaiting(j) /\ j \in submitted
  BY <1>1 DEF TypeOK, QueueTypeOK, Books, OneStanding
<1>4. /\ dead' \in Seq(Copy) /\ DeadOnce'
      /\ IsSettled(j)'
      /\ \A k \in Jobs : k # j => (IsSettled(k)' <=> IsSettled(k))
      /\ j \in acknowledged' \/ (Listed(dead', j) /\ UNCHANGED acknowledged)
  <2>1. CASE acknowledged' = acknowledged \cup {j} /\ UNCHANGED dead
    BY <1>3, <2>1 DEF Books, DeadOnce, IsSettled
  <2>2. CASE /\ UNCHANGED acknowledged
             /\ \E copy \in Copy : copy.job = j /\ dead' = Cons(copy, dead)
    <3>1. PICK copy \in Copy : copy.job = j /\ dead' = Cons(copy, dead)
      BY <2>2
    <3>2. ~Listed(dead, copy.job) /\ Distinct(dead)
      BY <1>3, <3>1 DEF IsSettled, Books, DeadOnce
    <3>3. /\ dead' \in Seq(Copy) /\ Distinct(dead')
          /\ ToSet(dead') = ToSet(dead) \cup {copy}
      BY <1>3, <3>1, <3>2, ConsCopy
    <3>4. Listed(dead', j) /\ \A k \in Jobs : k # j => (Listed(dead', k) <=> Listed(dead, k))
      BY <3>1, <3>3 DEF Listed
    <3>5. acknowledged \subseteq Jobs /\ j \notin acknowledged
      BY <1>3 DEF TypeOK, IsSettled
    <3> QED BY <2>2, <3>3, <3>4, <3>5 DEF Books, DeadOnce, IsSettled
  <2> QED BY <2>1, <2>2
<1>5. OneStanding'
  BY <1>1, <1>2, <1>3, <1>4 DEF Books, OneStanding, Done
<1>6. Counted'
  BY <1>1 DEF Books, Counted, Done
<1> QED BY <1>1, <1>2, <1>3, <1>4, <1>5, <1>6 DEF Books

\* The thread is done and the job waits again, with the new count.
LEMMA RetriedBooks ==
    ASSUME TypeOK, Books, NEW c \in Callers, NEW j, Done(c, j),
           CanRetry(j, attempts[c]),
           delayed' = delayed \cup {[job |-> j, tries |-> attempts[c]]},
           UNCHANGED <<pending, due, dead, acknowledged>>
    PROVE  /\ delayed' \subseteq Copy /\ Books'
           /\ IsWaiting(j)' /\ ~IsWaiting(j)
           /\ \A k \in Jobs : k # j => (IsWaiting(k)' <=> IsWaiting(k))
           /\ taken[j] < MaxAttempts[j]
<1> DEFINE again == [job |-> j, tries |-> attempts[c]]
<1>1. /\ j \in Jobs /\ Held(j) /\ ~Held(j)'
      /\ \A k \in Jobs : k # j => (Held(k)' <=> Held(k))
      /\ OneThread' /\ CopiesKept'
      /\ \A b \in Callers : Busy(b)' => attempts'[b] = taken'[work'[b]] /\ attempts'[b] > 0
  BY DoneThread
<1>2. /\ again \in Copy /\ again.job = j /\ again.tries = taken[j] /\ taken[j] < MaxAttempts[j]
      /\ delayed' = delayed \cup {again} /\ delayed \subseteq Copy
  BY <1>1, CopiesTyped DEF Copy, CanRetry, Done, Books, Counted
<1> HIDE DEF again
<1>3. ~IsSettled(j) /\ ~IsWaiting(j) /\ j \in submitted
  BY <1>1 DEF Books, OneStanding
<1>4. /\ IsWaiting(j)'
      /\ \A k \in Jobs : k # j => (IsWaiting(k)' <=> IsWaiting(k))
  BY <1>2 DEF IsWaiting, Parked
<1>5. OneWaiting'
  BY <1>2, <1>3 DEF Books, OneWaiting, IsWaiting, Parked
<1>6. DeadOnce' /\ OneStanding'
  BY <1>1, <1>3, <1>4 DEF Books, DeadOnce, OneStanding, IsSettled, Done
<1>7. Counted'
  BY <1>1, <1>2 DEF Books, Counted, Done
<1> QED BY <1>1, <1>2, <1>3, <1>4, <1>5, <1>6, <1>7 DEF Books

\* The loop's job becomes a goroutine's job, with its object.
LEMMA SpawnBooks ==
    ASSUME TypeOK, Books, NEW d \in Callers, NEW s \in Callers, Busy(d), ~Busy(s),
           removed[d] = NoCopy,
           work' = [work EXCEPT ![s] = work[d], ![d] = NoJob],
           attempts' = [attempts EXCEPT ![s] = attempts[d], ![d] = 0],
           UNCHANGED <<pending, processing, delayed, due, dead, removed>>,
           UNCHANGED <<submitted, acknowledged, taken>>
    PROVE  Books' /\ \A j \in Jobs : Held(j)' <=> Held(j)
<1>1. /\ work \in [Callers -> Jobs \cup {NoJob}] /\ s # d /\ work[s] = NoJob
      /\ \A b \in Callers :
            work'[b] = IF b = d THEN NoJob ELSE IF b = s THEN work[d] ELSE work[b]
  BY WorkType DEF Busy
<1>2. /\ attempts \in [Callers -> Nat]
      /\ \A b \in Callers :
            attempts'[b] = IF b = d THEN 0 ELSE IF b = s THEN attempts[d] ELSE attempts[b]
  BY <1>1, CopiesTyped
<1>3. removed[s] = NoCopy
  BY DEF Books, CopiesKept
<1>4. \A j \in Jobs : Held(j)' <=> Held(j)
  BY <1>1 DEF Held
<1>5. OneThread'
  BY <1>1 DEF Books, OneThread, Busy
<1>6. OneWaiting' /\ \A j \in Jobs : IsWaiting(j)' <=> IsWaiting(j)
  BY SamePlaces
<1>7. DeadOnce' /\ OneStanding'
  BY <1>4, <1>6 DEF Books, DeadOnce, OneStanding, IsSettled
<1>8. Counted'
  BY <1>1, <1>2 DEF Books, Counted, Busy
<1>9. CopiesKept'
  BY <1>1, <1>2, <1>3 DEF Books, CopiesKept, Busy
<1> QED BY <1>4, <1>5, <1>6, <1>7, <1>8, <1>9 DEF Books

\* The threads of a daemon are gone, with what they had in memory.
LEMMA CrashBooks ==
    ASSUME TypeOK, Books, NEW gone \in SUBSET Callers,
           work' = [c \in Callers |-> IF c \in gone THEN NoJob ELSE work[c]],
           removed' = [c \in Callers |-> IF c \in gone THEN NoCopy ELSE removed[c]],
           attempts' = [c \in Callers |-> IF c \in gone THEN 0 ELSE attempts[c]],
           UNCHANGED <<pending, processing, delayed, due, dead>>,
           UNCHANGED <<submitted, acknowledged, taken>>
    PROVE  /\ Books'
           /\ \A j \in Jobs : Held(j)' => Held(j)
           /\ \A j \in Jobs : Held(j) /\ ~Held(j)' => \E c \in gone : work[c] = j
<1>1. work \in [Callers -> Jobs \cup {NoJob}]
  BY WorkType
<1>2. /\ \A j \in Jobs : Held(j)' => Held(j)
      /\ \A j \in Jobs : Held(j) /\ ~Held(j)' => \E c \in gone : work[c] = j
  BY <1>1 DEF Held
<1>3. OneThread'
  BY <1>1 DEF Books, OneThread, Busy
<1>4. OneWaiting' /\ \A j \in Jobs : IsWaiting(j)' <=> IsWaiting(j)
  BY SamePlaces
<1>5. DeadOnce' /\ OneStanding'
  BY <1>2, <1>4 DEF Books, DeadOnce, OneStanding, IsSettled
<1>6. \A b \in Callers : Busy(b)' =>
         /\ Busy(b) /\ work'[b] = work[b] /\ attempts'[b] = attempts[b] /\ removed'[b] = removed[b]
  BY <1>1 DEF Busy
<1>7. Counted'
  <2>1. Counted
    BY DEF Books
  <2>2. \A b \in Callers : Busy(b)' => attempts'[b] = taken'[work'[b]] /\ attempts'[b] > 0
    <3> SUFFICES ASSUME NEW b \in Callers, Busy(b)'
                 PROVE  attempts'[b] = taken'[work'[b]] /\ attempts'[b] > 0
      OBVIOUS
    <3>1. Busy(b) /\ work'[b] = work[b] /\ attempts'[b] = attempts[b]
      BY <1>6
    <3>2. attempts[b] = taken[work[b]] /\ attempts[b] > 0
      BY <2>1, <3>1 DEF Counted
    <3> QED BY <3>1, <3>2
  <2> QED BY <2>1, <2>2 DEF Counted
<1>8. CopiesKept'
  <2>1. \A b \in Callers : removed'[b] # NoCopy => Busy(b)'
    BY <1>1 DEF Books, CopiesKept, Busy
  <2> QED BY <1>6, <2>1 DEF Books, CopiesKept
<1> QED BY <1>2, <1>3, <1>4, <1>5, <1>7, <1>8 DEF Books

-----------------------------------------------------------------------------
(* Each step moves at most one job from one standing to another, a crash   *)
(* those of one daemon's threads from running to lost.                     *)

Moves(j, from, to) == stand[j] = from /\ stand' = [stand EXCEPT ![j] = to]
Counts(j) == taken' = [taken EXCEPT ![j] = @ + 1]
OneFault  == faults' = faults + 1

JobStep ==
    /\ UNCHANGED crashes
    /\ faults' = faults \/ OneFault
    /\ \/ UNCHANGED <<stand, taken, submitted>>
       \/ \E j \in Jobs :
             \/ Moves(j, "new", "queued") /\ UNCHANGED taken /\ submitted' = submitted \cup {j}
             \/ /\ UNCHANGED submitted
                /\ \/ Moves(j, "queued", "running") /\ Counts(j)
                   \/ Moves(j, "queued", "lost") /\ Counts(j) /\ (j \in Poison \/ OneFault)
                   \/ Moves(j, "running", "done") /\ UNCHANGED taken
                   \/ Moves(j, "running", "failed") /\ UNCHANGED taken
                   \/ Moves(j, "running", "queued") /\ UNCHANGED taken /\ taken[j] < MaxAttempts[j]
                   \/ Moves(j, "running", "lost") /\ UNCHANGED taken /\ OneFault

CrashStep ==
    /\ crashes' = crashes + 1
    /\ UNCHANGED <<taken, submitted, faults>>
    /\ \E gone \in SUBSET Jobs :
          /\ IsFiniteSet(gone) /\ Cardinality(gone) <= Cardinality(Slots) + 1
          /\ \A j \in gone : stand[j] = "running"
          /\ stand' = [j \in Jobs |-> IF j \in gone THEN "lost" ELSE stand[j]]

\* What every step keeps and what it does to the jobs.
Kept == TypeOK' /\ ThreadsMatch' /\ Books' /\ (JobStep \/ CrashStep)

SameStanding(k) ==
    /\ IsWaiting(k)' <=> IsWaiting(k)
    /\ Held(k)' <=> Held(k)
    /\ Listed(dead, k)' <=> Listed(dead, k)
    /\ k \in acknowledged' <=> k \in acknowledged
    /\ k \in submitted' <=> k \in submitted

LEMMA StandIs ==
    ASSUME Books, NEW j \in Jobs
    PROVE  /\ j \notin submitted <=> stand[j] = "new"
           /\ j \in acknowledged <=> stand[j] = "done"
           /\ Listed(dead, j) <=> stand[j] = "failed"
           /\ IsWaiting(j) <=> stand[j] = "queued"
           /\ Held(j) <=> stand[j] = "running"
BY DEF Books, OneStanding, DeadOnce, IsSettled, stand

LEMMA StandIsNext ==
    ASSUME Books', NEW j \in Jobs
    PROVE  /\ j \notin submitted' <=> stand'[j] = "new"
           /\ j \in acknowledged' <=> stand'[j] = "done"
           /\ Listed(dead', j) <=> stand'[j] = "failed"
           /\ IsWaiting(j)' <=> stand'[j] = "queued"
           /\ Held(j)' <=> stand'[j] = "running"
BY DEF Books, OneStanding, DeadOnce, IsSettled, stand

LEMMA StandRange ==
    ASSUME NEW j \in Jobs
    PROVE  /\ stand[j] \in {"new", "done", "failed", "queued", "running", "lost"}
           /\ stand'[j] \in {"new", "done", "failed", "queued", "running", "lost"}
BY DEF stand

LEMMA OneMoves ==
    ASSUME NEW j \in Jobs, \A k \in Jobs : k # j => SameStanding(k)
    PROVE  stand' = [stand EXCEPT ![j] = stand'[j]]
<1>1. \A k \in Jobs : k # j => stand'[k] = stand[k]
  BY DEF SameStanding, stand, IsSettled
<1>2. stand = [k \in Jobs |-> stand[k]] /\ stand' = [k \in Jobs |-> stand'[k]]
  BY DEF stand
<1> QED BY <1>1, <1>2

LEMMA NoneMoves ==
    ASSUME \A k \in Jobs : SameStanding(k)
    PROVE  stand' = stand
BY DEF SameStanding, stand, IsSettled

-----------------------------------------------------------------------------
(* One lemma per action.                                                   *)

LEMMA SubmitKept ==
    ASSUME IInv, NEW j \in Jobs, Submit(j)
    PROVE  Kept
<1>1. /\ Enqueue(j) /\ j \notin submitted /\ submitted' = submitted \cup {j}
      /\ UNCHANGED <<dispatcherVars, localVars, stopVars, acknowledged, taken>>
      /\ UNCHANGED <<processing, delayed, due, dead, removed, faults>>
  BY DEF Submit, Enqueue
<1>2. work' = work
  BY <1>1, SameWork DEF dispatcherVars
<1>3. pending' \in Seq(Copy) /\ Books'
  BY <1>1, <1>2, SubmitBooks DEF IInv, localVars
<1>4. TypeOK' /\ ThreadsMatch'
  BY <1>1, <1>3 DEF IInv, TypeOK, QueueTypeOK, DispatcherTypeOK, ThreadsMatch, Active,
     dispatcherVars, localVars, stopVars
<1>5. JobStep
  <2> DEFINE c == [job |-> j, tries |-> 0]
  <2>1. c \in Copy /\ c.job = j /\ pending \in Seq(Copy) /\ pending' = Append(pending, c)
    BY <1>1 DEF Enqueue, Copy, IInv, TypeOK, QueueTypeOK
  <2>2. ToSet(pending') = ToSet(pending) \cup {c}
    BY <2>1, AppendCopy
  <2>3. \A k \in Jobs : k # j => SameStanding(k)
    BY <1>1, <1>2, <2>1, <2>2 DEF SameStanding, IsWaiting, Listed, Parked, Held
  <2>4. IsWaiting(j)'
    BY <2>1, <2>2 DEF IsWaiting, Listed
  <2>5. stand[j] = "new" /\ stand'[j] = "queued"
    BY <1>1, <1>3, <2>4, StandIs, StandIsNext DEF IInv
  <2> QED BY <1>1, <2>3, <2>5, OneMoves DEF JobStep, Moves, stopVars
<1> QED BY <1>3, <1>4, <1>5 DEF Kept

\* Nothing the books are about changes, and the threads go on with their work.
LEMMA QuietKept ==
    ASSUME IInv, TypeOK', ThreadsMatch', work' = work,
           UNCHANGED <<pending, processing, delayed, due, dead, removed>>,
           UNCHANGED <<submitted, acknowledged, taken, crashes>>,
           \A c \in Callers : Busy(c) => attempts'[c] = attempts[c],
           faults' = faults \/ OneFault
    PROVE  Kept
<1>1. Books'
  BY QuietBooks DEF IInv
<1>2. \A k \in Jobs : SameStanding(k)
  BY DEF SameStanding, IsWaiting, Parked, Held
<1>3. JobStep
  BY <1>2, NoneMoves DEF JobStep
<1> QED BY <1>1, <1>3 DEF Kept

LEMMA ClockTickKept ==
    ASSUME IInv, ClockTick
    PROVE  Kept
<1>1. /\ Ripen
      /\ UNCHANGED <<dispatcherVars, localVars, stopVars, historyVars>>
      /\ UNCHANGED <<pending, processing, dead, removed, faults>>
      /\ delayed' \subseteq delayed
  BY DEF ClockTick, Ripen
<1>2. work' = work
  BY <1>1, SameWork DEF dispatcherVars
<1>3. /\ due' \in Seq(Copy) /\ Books'
      /\ \A j \in Jobs : IsWaiting(j)' <=> IsWaiting(j)
  BY <1>1, <1>2, RipenBooks DEF IInv, localVars, historyVars
<1>4. TypeOK' /\ ThreadsMatch'
  BY <1>1, <1>3 DEF IInv, TypeOK, QueueTypeOK, DispatcherTypeOK, ThreadsMatch, Active,
     dispatcherVars, localVars, stopVars, historyVars
<1>5. \A k \in Jobs : SameStanding(k)
  BY <1>1, <1>2, <1>3 DEF SameStanding, Held, historyVars
<1>6. JobStep
  BY <1>1, <1>5, NoneMoves DEF JobStep, stopVars, historyVars
<1> QED BY <1>3, <1>4, <1>6 DEF Kept

\* The steps of a loop that do not concern the queue, the start and the end of a process.
LEMMA QuietLoopKept ==
    ASSUME IInv, NEW d \in Daemons,
           LoopTop(d) \/ LoopFindHandler(d) \/ Shutdown(d) \/ Restart(d)
    PROVE  Kept
<1>1. /\ UNCHANGED <<hand, slot, queueVars, localVars, historyVars, crashes>>
      /\ cancelled' \subseteq Daemons
      /\ shutdowns' \in 0 .. MaxShutdowns
      /\ \/ UNCHANGED loop
         \/ /\ loop[d] \in {"select", "waiting", "returned", "down"}
            /\ \E to \in {"select", "dequeue", "waiting", "returned"} :
                  loop' = [loop EXCEPT ![d] = to]
         \/ /\ loop[d] = "lookup" /\ hand[d] \in Known
            /\ loop' = [loop EXCEPT ![d] = "acquire"]
  BY DEF LoopTop, LoopFindHandler, Shutdown, Restart, CheckContext, WaitForGoroutines,
         FindHandler, Cancel, Goto, IInv, TypeOK, DispatcherTypeOK, stopVars
<1>2. TypeOK'
  BY <1>1 DEF IInv, TypeOK, QueueTypeOK, DispatcherTypeOK, LoopPCs, queueVars, localVars,
     historyVars
<1>3. ThreadsMatch'
  BY <1>1 DEF IInv, TypeOK, DispatcherTypeOK, ThreadsMatch, Active, queueVars, localVars
<1>4. work' = work
  BY <1>1, SameWork
<1> QED BY <1>1, <1>2, <1>3, <1>4, QuietKept DEF queueVars, localVars, historyVars

LEMMA LoopPromoteKept ==
    ASSUME IInv, NEW d \in Daemons, LoopPromote(d)
    PROVE  Kept
<1>1. /\ d \notin promoted /\ loop[d] = "dequeue"
      /\ UNCHANGED <<attempts, stopVars, historyVars>>
  BY DEF LoopPromote
<1>2. CASE /\ PromoteDelayed /\ NoFault
           /\ promoted' = promoted \cup {d}
           /\ UNCHANGED dispatcherVars
  <2>1. work' = work
    BY <1>2, SameWork DEF dispatcherVars
  <2>2. /\ pending' \in Seq(Copy) /\ due' \in Seq(Copy) /\ Books'
        /\ \A j \in Jobs : IsWaiting(j)' <=> IsWaiting(j)
    BY <1>1, <1>2, <2>1, PromoteBooks DEF IInv, historyVars
  <2>3. UNCHANGED <<processing, delayed, dead, removed, faults>>
    BY <1>2 DEF PromoteDelayed, NoFault
  <2>4. TypeOK' /\ ThreadsMatch'
    BY <1>1, <1>2, <2>2, <2>3 DEF IInv, TypeOK, QueueTypeOK, DispatcherTypeOK, ThreadsMatch,
       Active, dispatcherVars, stopVars, historyVars
  <2>5. \A k \in Jobs : SameStanding(k)
    BY <1>1, <2>1, <2>2, <2>3 DEF SameStanding, Held, historyVars
  <2>6. JobStep
    BY <1>1, <2>3, <2>5, NoneMoves DEF JobStep, stopVars, historyVars
  <2> QED BY <2>2, <2>4, <2>6 DEF Kept
<1>3. CASE /\ Fault /\ TakeNothing(d)
           /\ UNCHANGED <<pending, processing, delayed, due, dead, removed, promoted>>
  <2>1. /\ OneFault /\ faults' \in 0 .. MaxFaults
        /\ UNCHANGED <<hand, slot, cancelled>> /\ loop' = [loop EXCEPT ![d] = "select"]
    BY <1>3 DEF Fault, OneFault, TakeNothing, Goto, IInv, TypeOK, QueueTypeOK
  <2>2. TypeOK' /\ ThreadsMatch'
    BY <1>1, <1>3, <2>1 DEF IInv, TypeOK, QueueTypeOK, DispatcherTypeOK, LoopPCs, ThreadsMatch,
       Active, stopVars, historyVars
  <2>3. work' = work
    BY <2>1, SameWork
  <2> QED BY <1>1, <1>3, <2>1, <2>2, <2>3, QuietKept DEF stopVars, historyVars
<1> QED BY <1>2, <1>3 DEF LoopPromote

\* The copy that BLMOVE moved is brought to the daemon or is lost on the way.
LEMMA LoopMoveKept ==
    ASSUME IInv, NEW d \in Daemons, LoopMove(d)
    PROVE  Kept
<1>1. /\ d \in promoted /\ promoted' = promoted \ {d}
      /\ UNCHANGED <<stopVars, submitted, acknowledged>>
      /\ loop[d] = "dequeue" /\ hand[d] = NoJob /\ removed[d] = NoCopy
  BY DEF LoopMove, IInv, ThreadsMatch
<1>2. ASSUME NEW c, BLMove(c), taken' = [taken EXCEPT ![c.job] = @ + 1]
      PROVE  /\ c \in Copy /\ c.job \in Jobs /\ c.tries \in Nat
             /\ pending' \in Seq(Copy) /\ processing' \in Seq(Copy)
             /\ taken' \in [Jobs -> Nat]
             /\ UNCHANGED <<delayed, due, dead, removed>>
             /\ stand[c.job] = "queued"
             /\ ~IsWaiting(c.job)'
             /\ \A j \in Jobs : j # c.job => (IsWaiting(j)' <=> IsWaiting(j))
  <2>1. TypeOK /\ Books
    BY DEF IInv
  <2>2. /\ c \in Copy /\ c.job \in Jobs /\ c.tries \in Nat
        /\ pending' \in Seq(Copy) /\ processing' \in Seq(Copy)
    BY <1>2, <2>1, BLMoveLists DEF Copy
  <2>3. /\ IsWaiting(c.job) /\ ~IsWaiting(c.job)'
        /\ \A j \in Jobs : j # c.job => (IsWaiting(j)' <=> IsWaiting(j))
    BY <1>2, <2>1, BLMovePlaces
  <2>4. taken' \in [Jobs -> Nat]
    BY <1>2, <2>1, <2>2, CopiesTyped
  <2>5. stand[c.job] = "queued"
    BY <2>1, <2>2, <2>3, StandIs
  <2> QED BY <1>2, <2>2, <2>3, <2>4, <2>5 DEF BLMove
<1>3. ASSUME NEW c, BLMove(c), taken' = [taken EXCEPT ![c.job] = @ + 1],
             c.job \notin Poison, NoFault, TakeJob(d, c.job),
             attempts' = [attempts EXCEPT ![d] = c.tries + 1]
      PROVE  Kept
  <2> DEFINE j == c.job
  <2>1. /\ j \in Jobs /\ c.tries \in Nat
        /\ pending' \in Seq(Copy) /\ processing' \in Seq(Copy)
        /\ taken' \in [Jobs -> Nat]
        /\ UNCHANGED <<delayed, due, dead, removed>>
        /\ stand[j] = "queued" /\ ~IsWaiting(j)'
        /\ \A k \in Jobs : k # j => (IsWaiting(k)' <=> IsWaiting(k))
    BY <1>2, <1>3
  <2>2. work[d] = NoJob /\ work' = [work EXCEPT ![d] = j]
    BY <1>3, <2>1, TakeJobWork DEF IInv
  <2>3. /\ loop' = [loop EXCEPT ![d] = "lookup"] /\ hand' = [hand EXCEPT ![d] = j]
        /\ UNCHANGED <<slot, cancelled, faults>>
    BY <1>3 DEF TakeJob, Goto, NoFault
  <2>4. Books'
    BY <1>1, <1>3, <2>2, TakenBooks DEF IInv
  <2> HIDE DEF j
  <2>5. TypeOK'
    <3>1. attempts' \in [Callers -> Nat]
      BY <1>3, <2>1 DEF IInv, TypeOK
    <3> QED BY <1>1, <2>1, <2>3, <3>1 DEF IInv, TypeOK, QueueTypeOK, DispatcherTypeOK, LoopPCs,
            stopVars
  <2>6. ThreadsMatch'
    <3>1. j # NoJob /\ d \notin Slots
      BY <2>1
    <3>2. \A s \in Slots : attempts'[s] = attempts[s]
      BY <1>3, <3>1 DEF IInv, TypeOK
    <3> QED BY <1>1, <2>1, <2>3, <3>1, <3>2 DEF IInv, TypeOK, DispatcherTypeOK, ThreadsMatch, Active
  <2>7. JobStep
    <3>1. work \in [Callers -> Jobs \cup {NoJob}]
      BY WorkType DEF IInv
    <3>2. \A k \in Jobs : k # j => (Held(k)' <=> Held(k))
      BY <2>2, <3>1 DEF Held
    <3>3. Held(j)'
      BY <2>2, <3>1 DEF Held
    <3>4. \A k \in Jobs : k # j => SameStanding(k)
      BY <1>1, <2>1, <3>2 DEF SameStanding
    <3>5. stand'[j] = "running"
      BY <2>1, <2>4, <3>3, StandIsNext
    <3> QED BY <1>1, <1>3, <2>1, <2>3, <3>4, <3>5, OneMoves DEF JobStep, Moves, Counts, stopVars, j
  <2> QED BY <2>4, <2>5, <2>6, <2>7 DEF Kept
<1>4. ASSUME NEW c, BLMove(c), taken' = [taken EXCEPT ![c.job] = @ + 1],
             (c.job \in Poison /\ NoFault) \/ Fault, TakeNothing(d), UNCHANGED attempts
      PROVE  Kept
  <2> DEFINE j == c.job
  <2>1. /\ j \in Jobs
        /\ pending' \in Seq(Copy) /\ processing' \in Seq(Copy)
        /\ taken' \in [Jobs -> Nat]
        /\ UNCHANGED <<delayed, due, dead, removed>>
        /\ stand[j] = "queued" /\ ~IsWaiting(j)'
        /\ \A k \in Jobs : k # j => (IsWaiting(k)' <=> IsWaiting(k))
    BY <1>2, <1>4
  <2>2. /\ loop' = [loop EXCEPT ![d] = "select"]
        /\ UNCHANGED <<hand, slot, cancelled>>
        /\ faults' \in 0 .. MaxFaults
        /\ (j \in Poison /\ faults' = faults) \/ OneFault
    BY <1>4 DEF TakeNothing, Goto, Fault, NoFault, OneFault, IInv, TypeOK, QueueTypeOK
  <2>3. work' = work
    BY <2>2, SameWork
  <2>4. Books'
    BY <1>1, <1>4, <2>3, LostInTransitBooks DEF IInv
  <2> HIDE DEF j
  <2>5. TypeOK'
    BY <1>1, <1>4, <2>1, <2>2 DEF IInv, TypeOK, QueueTypeOK, DispatcherTypeOK, LoopPCs, stopVars
  <2>6. ThreadsMatch'
    BY <1>1, <1>4, <2>1, <2>2 DEF IInv, TypeOK, DispatcherTypeOK, ThreadsMatch, Active
  <2>7. JobStep
    <3>1. \A k \in Jobs : k # j => SameStanding(k)
      BY <1>1, <2>1, <2>3 DEF SameStanding, Held
    <3>2. stand'[j] = "lost"
      <4>1. ~Held(j) /\ ~Listed(dead, j) /\ j \notin acknowledged /\ j \in submitted
        BY <2>1, StandIs DEF IInv
      <4>2. ~Held(j)' /\ ~Listed(dead', j) /\ j \notin acknowledged' /\ j \in submitted'
        BY <1>1, <2>1, <2>3, <4>1 DEF Held
      <4> QED BY <2>1, <2>4, <4>2, StandIsNext, StandRange
    <3> QED BY <1>1, <1>4, <2>1, <2>2, <3>1, <3>2, OneMoves
            DEF JobStep, Moves, Counts, stopVars, j
  <2> QED BY <2>4, <2>5, <2>6, <2>7 DEF Kept
<1>5. CASE BLMoveEmpty /\ TakeNothing(d) /\ UNCHANGED <<attempts, taken>>
  <2>1. /\ UNCHANGED <<hand, slot, cancelled>> /\ loop' = [loop EXCEPT ![d] = "select"]
        /\ UNCHANGED queueVars
    BY <1>5 DEF TakeNothing, Goto, BLMoveEmpty
  <2>2. TypeOK' /\ ThreadsMatch'
    BY <1>1, <1>5, <2>1 DEF IInv, TypeOK, QueueTypeOK, DispatcherTypeOK, LoopPCs, ThreadsMatch,
       Active, stopVars, queueVars
  <2>3. work' = work
    BY <2>1, SameWork
  <2> QED BY <1>1, <1>5, <2>1, <2>2, <2>3, QuietKept DEF stopVars, queueVars
<1> QED BY <1>3, <1>4, <1>5 DEF LoopMove

LEMMA LoopSpawnKept ==
    ASSUME IInv, NEW d \in Daemons, LoopSpawn(d)
    PROVE  Kept
<1>1. PICK s \in Slots : /\ Spawn(d, s)
                         /\ attempts' = [attempts EXCEPT ![s] = attempts[d], ![d] = 0]
                         /\ UNCHANGED <<queueVars, promoted, stopVars, historyVars>>
  BY DEF LoopSpawn
<1>2. Busy(d) /\ ~Busy(s) /\ work' = [work EXCEPT ![s] = work[d], ![d] = NoJob]
  BY <1>1, SpawnWork DEF IInv
<1>3. /\ loop[d] = "acquire" /\ loop' = [loop EXCEPT ![d] = "select"]
      /\ hand' = [hand EXCEPT ![d] = NoJob]
      /\ slot' = [slot EXCEPT ![s] = [pc |-> "handling", job |-> hand[d]]]
      /\ UNCHANGED cancelled
      /\ hand[d] # NoJob /\ hand[d] \in Jobs /\ slot[s] = Idle
      /\ removed[d] = NoCopy /\ removed[s] = NoCopy
  BY <1>1 DEF Spawn, Goto, IInv, ThreadsMatch, TypeOK, DispatcherTypeOK, Idle
<1>4. Books' /\ \A j \in Jobs : Held(j)' <=> Held(j)
  BY <1>1, <1>2, <1>3, SpawnBooks DEF IInv, queueVars, historyVars
<1>5. TypeOK'
  <2>1. attempts' \in [Callers -> Nat]
    BY <1>1 DEF IInv, TypeOK
  <2> QED BY <1>1, <1>3, <2>1 DEF IInv, TypeOK, QueueTypeOK, DispatcherTypeOK, LoopPCs, SlotPCs,
          queueVars, stopVars, historyVars
<1>6. ThreadsMatch'
  <2>1. \A t \in Slots : t # s => slot'[t] = slot[t] /\ attempts'[t] = attempts[t]
    BY <1>1, <1>3 DEF IInv, TypeOK, DispatcherTypeOK
  <2>2. slot'[s].pc = "handling" /\ slot'[s].job # NoJob
    BY <1>3 DEF IInv, TypeOK, DispatcherTypeOK
  <2>3. \A t \in Slots :
          /\ Active(t)' => slot'[t].job # NoJob
          /\ removed'[t] # NoCopy => slot'[t].pc \in {"retry", "markFailed"}
          /\ slot'[t].pc = "retry" => CanRetry(slot'[t].job, attempts'[t])
    BY <1>1, <1>3, <2>1, <2>2 DEF IInv, ThreadsMatch, Active, queueVars
  <2>4. \A e \in Daemons :
          /\ hand'[e] # NoJob <=> loop'[e] \in {"lookup", "acquire"}
          /\ e \in promoted' => loop'[e] = "dequeue"
          /\ removed'[e] # NoCopy => loop'[e] = "lookup" /\ hand'[e] \notin Known
    BY <1>1, <1>3 DEF IInv, TypeOK, DispatcherTypeOK, ThreadsMatch, queueVars
  <2> QED BY <2>3, <2>4 DEF ThreadsMatch
<1>7. \A k \in Jobs : SameStanding(k)
  BY <1>1, <1>4 DEF SameStanding, IsWaiting, Parked, queueVars, historyVars
<1>8. JobStep
  BY <1>1, <1>7, NoneMoves DEF JobStep, queueVars, stopVars, historyVars
<1> QED BY <1>4, <1>5, <1>6, <1>8 DEF Kept

LEMMA HandleKept ==
    ASSUME IInv, NEW s \in Slots, Handle(s)
    PROVE  Kept
<1>1. PICK outcome \in Outcomes : /\ HandlerReturns(s, outcome, attempts[s])
                                  /\ UNCHANGED <<queueVars, localVars, stopVars, historyVars>>
  BY DEF Handle
<1>2. work' = work
  BY <1>1, HandlerReturnsWork DEF IInv
<1> DEFINE op == OpAfter(slot[s].job, outcome, attempts[s])
<1>3. op \in OpPCs /\ (op = "retry" => CanRetry(slot[s].job, attempts[s]))
  BY DEF OpAfter, OpPCs
<1>4. /\ slot[s].pc = "handling" /\ slot' = [slot EXCEPT ![s].pc = op]
      /\ UNCHANGED <<loop, hand, cancelled>>
  BY <1>1 DEF HandlerReturns
<1> HIDE DEF op
<1>5. /\ \A t \in Slots : t # s => slot'[t] = slot[t]
      /\ slot'[s].pc = op /\ slot'[s].job = slot[s].job
      /\ slot' \in [Slots -> [pc : SlotPCs, job : Jobs \cup {NoJob}]]
  BY <1>3, <1>4 DEF IInv, TypeOK, DispatcherTypeOK, SlotPCs
<1>6. TypeOK'
  BY <1>1, <1>4, <1>5 DEF IInv, TypeOK, QueueTypeOK, DispatcherTypeOK, queueVars, localVars,
     stopVars, historyVars
<1>7. ThreadsMatch'
  <2>1. removed[s] = NoCopy /\ slot[s].job # NoJob
    BY <1>4 DEF IInv, ThreadsMatch, Active
  <2> QED BY <1>1, <1>3, <1>4, <1>5, <2>1 DEF IInv, ThreadsMatch, Active, queueVars, localVars
<1> QED BY <1>1, <1>2, <1>6, <1>7, QuietKept DEF queueVars, localVars, stopVars, historyVars

LEMMA LeaveKept ==
    ASSUME IInv, NEW s \in Slots, Leave(s)
    PROVE  Kept
<1>1. /\ Release(s)
      /\ attempts' = [attempts EXCEPT ![s] = 0]
      /\ UNCHANGED <<queueVars, promoted, stopVars, historyVars>>
      /\ slot[s].pc = "releasing" /\ slot' = [slot EXCEPT ![s] = Idle]
      /\ UNCHANGED <<loop, hand, cancelled>>
  BY DEF Leave, Release
<1>2. ~Busy(s) /\ work' = work
  BY <1>1, ReleaseWork DEF IInv
<1>3. TypeOK'
  BY <1>1 DEF IInv, TypeOK, QueueTypeOK, DispatcherTypeOK, Idle, SlotPCs, queueVars, stopVars,
     historyVars
<1>4. \A c \in Callers : c # s => attempts'[c] = attempts[c]
  BY <1>1 DEF IInv, TypeOK
<1>5. ThreadsMatch'
  <2>1. \A t \in Slots : t # s => slot'[t] = slot[t] /\ attempts'[t] = attempts[t]
    BY <1>1, <1>4 DEF IInv, TypeOK, DispatcherTypeOK
  <2>2. slot'[s].pc = "idle" /\ removed[s] = NoCopy
    BY <1>1 DEF IInv, TypeOK, DispatcherTypeOK, ThreadsMatch, Idle
  <2> QED BY <1>1, <2>1, <2>2 DEF IInv, ThreadsMatch, Active, OpPCs, queueVars
<1> QED BY <1>1, <1>2, <1>3, <1>4, <1>5, QuietKept DEF queueVars, stopVars, historyVars

\* The first half of MarkFailed and Retry, in the loop or in a goroutine.
LEMMA TakeKept ==
    ASSUME IInv, NEW c \in Callers, Busy(c), Take(c, work[c]),
           UNCHANGED <<dispatcherVars, localVars, stopVars, historyVars>>,
           c \in Daemons => loop[c] = "lookup" /\ hand[c] \notin Known,
           c \in Slots => slot[c].pc \in {"retry", "markFailed"}
    PROVE  Kept
<1>1. work' = work
  BY SameWork DEF dispatcherVars
<1>2. processing' \in Seq(Copy) /\ removed'[c] \in Copy /\ Books'
  BY <1>1, TakeBooks DEF IInv, localVars, historyVars
<1>3. /\ UNCHANGED <<pending, delayed, due, dead>>
      /\ \E raw \in ToSet(processing) : LRem(raw) /\ removed' = [removed EXCEPT ![c] = raw]
  BY DEF Take
<1>4. /\ faults' \in 0 .. MaxFaults
      /\ faults' = faults \/ OneFault
  BY <1>3 DEF LRem, Fault, NoFault, OneFault, IInv, TypeOK, QueueTypeOK
<1>5. \A b \in Callers : b # c => removed'[b] = removed[b]
  BY <1>3 DEF IInv, TypeOK, QueueTypeOK
<1>6. removed' \in [Callers -> Copy \cup {NoCopy}]
  BY <1>2, <1>3, <1>5 DEF IInv, TypeOK, QueueTypeOK
<1>7. TypeOK'
  BY <1>2, <1>3, <1>4, <1>6 DEF IInv, TypeOK, QueueTypeOK, DispatcherTypeOK, dispatcherVars,
     localVars, stopVars, historyVars
<1>8. ThreadsMatch'
  BY <1>5 DEF IInv, ThreadsMatch, Active, dispatcherVars, localVars
<1>9. \A k \in Jobs : SameStanding(k)
  BY <1>1, <1>3 DEF SameStanding, IsWaiting, Parked, Held, historyVars
<1>10. JobStep
  BY <1>4, <1>9, NoneMoves DEF JobStep, stopVars, historyVars
<1> QED BY <1>2, <1>7, <1>8, <1>10 DEF Kept

\* The other components of a step that ends a thread's work on a job.
Rest ==
    /\ ThreadsMatch' /\ DispatcherTypeOK'
    /\ UNCHANGED <<pending, due, localVars, stopVars, taken, submitted>>
    /\ faults' \in 0 .. MaxFaults

LEMMA DoneTypes ==
    ASSUME IInv, NEW c \in Callers, NEW j, Done(c, j), Rest,
           dead' \in Seq(Copy), delayed' \subseteq Copy, acknowledged' \subseteq Jobs
    PROVE  TypeOK'
<1>1. removed' \in [Callers -> Copy \cup {NoCopy}]
  BY DEF IInv, TypeOK, QueueTypeOK, Done
<1> QED BY <1>1 DEF IInv, TypeOK, QueueTypeOK, Done, Thinned, Rest, localVars, stopVars

\* A command failed and the job is in no place.
LEMMA GivenUpKept ==
    ASSUME IInv, NEW c \in Callers, NEW j, Done(c, j), Rest,
           UNCHANGED <<delayed, dead, acknowledged>>, OneFault
    PROVE  Kept
<1>1. Books'
  BY GivenUpBooks DEF IInv, Rest
<1>2. TypeOK'
  BY DoneTypes DEF IInv, TypeOK, QueueTypeOK
<1>3. /\ j \in Jobs /\ Held(j) /\ ~Held(j)'
      /\ \A k \in Jobs : k # j => (Held(k)' <=> Held(k))
  BY DoneThread DEF IInv
<1>4. \A k \in Jobs : k # j => SameStanding(k)
  BY <1>3 DEF SameStanding, IsWaiting, Parked, Rest
<1>5. stand[j] = "running" /\ stand'[j] = "lost"
  <2>1. stand[j] = "running"
    BY <1>3, StandIs DEF IInv
  <2>2. ~IsWaiting(j) /\ ~Listed(dead, j) /\ j \notin acknowledged /\ j \in submitted
    BY <1>3, <2>1, StandIs DEF IInv
  <2>3. ~IsWaiting(j)' /\ ~Listed(dead', j) /\ j \notin acknowledged' /\ j \in submitted'
    BY <2>2 DEF IsWaiting, Parked, Rest
  <2> QED BY <1>1, <1>3, <2>1, <2>3, StandIsNext, StandRange
<1>6. JobStep
  BY <1>3, <1>4, <1>5, OneMoves DEF JobStep, Moves, Rest, stopVars
<1> QED BY <1>1, <1>2, <1>6 DEF Kept, Rest

\* The job is acknowledged or put on the dead list.
LEMMA SettledKept ==
    ASSUME IInv, NEW c \in Callers, NEW j, Done(c, j), Rest, UNCHANGED delayed,
           faults' = faults \/ OneFault,
           \/ acknowledged' = acknowledged \cup {j} /\ UNCHANGED dead
           \/ /\ UNCHANGED acknowledged
              /\ \E copy \in Copy : copy.job = j /\ dead' = Cons(copy, dead)
    PROVE  Kept
<1>1. /\ dead' \in Seq(Copy) /\ Books'
      /\ IsSettled(j)' /\ ~IsSettled(j)
      /\ \A k \in Jobs : k # j => (IsSettled(k)' <=> IsSettled(k))
      /\ j \in acknowledged' \/ (Listed(dead', j) /\ UNCHANGED acknowledged)
  BY SettledBooks DEF IInv, Rest
<1>2. /\ j \in Jobs /\ Held(j) /\ ~Held(j)'
      /\ \A k \in Jobs : k # j => (Held(k)' <=> Held(k))
  BY DoneThread DEF IInv
<1>3. acknowledged' \subseteq Jobs
  BY <1>2 DEF IInv, TypeOK
<1>4. TypeOK'
  BY <1>1, <1>3, DoneTypes DEF IInv, TypeOK, QueueTypeOK
<1>5. \A k \in Jobs : k # j => (k \in acknowledged' <=> k \in acknowledged)
  OBVIOUS
<1>6. \A k \in Jobs : k # j => (Listed(dead', k) <=> Listed(dead, k))
  <2>1. CASE UNCHANGED dead
    BY <2>1
  <2>2. CASE \E copy \in Copy : copy.job = j /\ dead' = Cons(copy, dead)
    <3>1. PICK copy \in Copy : copy.job = j /\ dead' = Cons(copy, dead)
      BY <2>2
    <3>2. dead \in Seq(Copy)
      BY DEF IInv, TypeOK, QueueTypeOK
    <3>3. ToSet(dead') = ToSet(dead) \cup {copy}
      BY <3>1, <3>2, ConsCopy
    <3> QED BY <3>1, <3>3 DEF Listed
  <2> QED BY <2>1, <2>2
<1>7. \A k \in Jobs : k # j => SameStanding(k)
  BY <1>2, <1>5, <1>6 DEF SameStanding, IsWaiting, Parked, Rest
<1>8. stand[j] = "running" /\ stand'[j] \in {"done", "failed"}
  BY <1>1, <1>2, StandIs, StandIsNext DEF IInv
<1>9. JobStep
  BY <1>2, <1>7, <1>8, OneMoves DEF JobStep, Moves, Rest, stopVars
<1> QED BY <1>1, <1>4, <1>9 DEF Kept, Rest

\* The job waits again.
LEMMA RetriedKept ==
    ASSUME IInv, NEW c \in Callers, NEW j, Done(c, j), Rest,
           UNCHANGED <<dead, acknowledged, faults>>,
           CanRetry(j, attempts[c]),
           delayed' = delayed \cup {[job |-> j, tries |-> attempts[c]]}
    PROVE  Kept
<1>1. /\ delayed' \subseteq Copy /\ Books'
      /\ IsWaiting(j)' /\ ~IsWaiting(j)
      /\ \A k \in Jobs : k # j => (IsWaiting(k)' <=> IsWaiting(k))
      /\ taken[j] < MaxAttempts[j]
  BY RetriedBooks DEF IInv, Rest
<1>2. /\ j \in Jobs /\ Held(j) /\ ~Held(j)'
      /\ \A k \in Jobs : k # j => (Held(k)' <=> Held(k))
  BY DoneThread DEF IInv
<1>3. TypeOK'
  BY <1>1, DoneTypes DEF IInv, TypeOK, QueueTypeOK
<1>4. \A k \in Jobs : k # j => SameStanding(k)
  BY <1>1, <1>2 DEF SameStanding, Rest
<1>5. stand[j] = "running" /\ stand'[j] = "queued"
  BY <1>1, <1>2, StandIs, StandIsNext DEF IInv
<1>6. JobStep
  BY <1>1, <1>2, <1>4, <1>5, OneMoves DEF JobStep, Moves, Rest, stopVars
<1> QED BY <1>1, <1>3, <1>6 DEF Kept, Rest

\* A list that does not change is thinned, as far as the invariant goes.
LEMMA UnchangedIsThinned ==
    ASSUME IInv, NEW j, UNCHANGED processing
    PROVE  Thinned(j)
BY DEF IInv, TypeOK, QueueTypeOK, Books, CopiesKept, Thinned

\* removeByJobID fails only when a command fails: a busy thread's copy is there.
LEMMA RemoveFailsByFault ==
    ASSUME IInv, NEW c \in Callers, Busy(c), removed[c] = NoCopy, RemoveFails(work[c])
    PROVE  /\ OneFault /\ faults' \in 0 .. MaxFaults
           /\ UNCHANGED <<pending, processing, delayed, due, dead>>
           /\ removed' = [removed EXCEPT ![c] = NoCopy]
<1>1. Positions(work[c]) # {}
  BY OwnIsFound DEF IInv
<1>2. /\ Fault
      /\ UNCHANGED <<pending, processing, delayed, due, dead, removed>>
  BY <1>1 DEF RemoveFails
<1> QED BY <1>2 DEF Fault, OneFault, IInv, TypeOK, QueueTypeOK

\* What a thread has taken out is the copy it was given.
LEMMA RemovedIsOwn ==
    ASSUME IInv, NEW c \in Callers, removed[c] # NoCopy
    PROVE  /\ Busy(c) /\ work[c] \in Jobs
           /\ removed[c] = [job |-> work[c], tries |-> attempts[c] - 1]
           /\ removed[c] \in Copy
           /\ attempts[c] \in Nat
BY WorkType, CopiesTyped DEF IInv, Books, CopiesKept, Busy

LEMMA LoopDropUnknownKept ==
    ASSUME IInv, NEW d \in Daemons, LoopDropUnknown(d)
    PROVE  Kept
<1> DEFINE j == hand[d]
<1>1. /\ loop[d] = "lookup" /\ j \notin Known
      /\ UNCHANGED <<localVars, stopVars, historyVars>>
  BY DEF LoopDropUnknown
<1>2. j # NoJob /\ work[d] = j /\ Busy(d)
  BY <1>1 DEF IInv, ThreadsMatch, work, Busy
<1>3. CASE Take(d, j) /\ UNCHANGED dispatcherVars
  BY <1>1, <1>2, <1>3, TakeKept
<1>4. ASSUME DropUnknown(d), removed' = [removed EXCEPT ![d] = NoCopy],
             UNCHANGED <<pending, processing, due>>, faults' \in 0 .. MaxFaults
      PROVE  Done(d, j) /\ Rest
  <2>1. work' = [work EXCEPT ![d] = NoJob]
    BY <1>4, DropUnknownWork DEF IInv
  <2>2. Done(d, j)
    BY <1>1, <1>2, <1>4, <2>1, UnchangedIsThinned DEF Done, localVars, historyVars
  <2>3. /\ loop' = [loop EXCEPT ![d] = "select"] /\ hand' = [hand EXCEPT ![d] = NoJob]
        /\ UNCHANGED <<slot, cancelled>>
    BY <1>4 DEF DropUnknown, Goto
  <2>4. DispatcherTypeOK'
    BY <2>3 DEF IInv, TypeOK, DispatcherTypeOK, LoopPCs
  <2>5. ThreadsMatch'
    <3>1. \A b \in Callers : removed'[b] = IF b = d THEN NoCopy ELSE removed[b]
      BY <1>4 DEF IInv, TypeOK, QueueTypeOK
    <3>2. d \notin promoted
      BY <1>1 DEF IInv, ThreadsMatch
    <3> QED BY <1>1, <2>3, <3>1, <3>2 DEF IInv, TypeOK, DispatcherTypeOK, ThreadsMatch, Active,
            localVars
  <2> QED BY <1>1, <1>4, <2>2, <2>4, <2>5 DEF Rest, historyVars
<1>5. CASE removed[d] = NoCopy /\ RemoveFails(j) /\ DropUnknown(d)
  <2>1. /\ OneFault /\ faults' \in 0 .. MaxFaults
        /\ UNCHANGED <<pending, processing, delayed, due, dead>>
        /\ removed' = [removed EXCEPT ![d] = NoCopy]
    BY <1>2, <1>5, RemoveFailsByFault
  <2>2. Done(d, j) /\ Rest
    BY <1>4, <1>5, <2>1
  <2> QED BY <1>1, <2>1, <2>2, GivenUpKept DEF historyVars
<1>6. CASE PutNowhere(d) /\ DropUnknown(d)
  <2>1. /\ OneFault /\ faults' \in 0 .. MaxFaults
        /\ UNCHANGED <<pending, processing, delayed, due, dead>>
        /\ removed' = [removed EXCEPT ![d] = NoCopy]
    BY <1>6 DEF PutNowhere, PutDown, Fault, OneFault, IInv, TypeOK, QueueTypeOK
  <2>2. Done(d, j) /\ Rest
    BY <1>4, <1>6, <2>1
  <2> QED BY <1>1, <2>1, <2>2, GivenUpKept DEF historyVars
<1>7. CASE PutFailed(d) /\ DropUnknown(d)
  <2>1. /\ removed[d] # NoCopy
        /\ removed' = [removed EXCEPT ![d] = NoCopy]
        /\ UNCHANGED <<pending, processing, delayed, due, faults>>
        /\ dead' = Cons(removed[d], dead)
    BY <1>7 DEF PutFailed, PutDead, PutDown, NoFault
  <2>2. removed[d] \in Copy /\ removed[d].job = j
    <3>1. removed[d] \in Copy /\ removed[d] = [job |-> work[d], tries |-> attempts[d] - 1]
      BY <2>1, RemovedIsOwn
    <3> QED BY <1>2, <3>1
  <2>3. faults' \in 0 .. MaxFaults
    BY <2>1 DEF IInv, TypeOK, QueueTypeOK
  <2>4. Done(d, j) /\ Rest
    BY <1>4, <1>7, <2>1, <2>3
  <2> QED BY <1>1, <2>1, <2>2, <2>4, SettledKept DEF historyVars
<1> QED BY <1>3, <1>5, <1>6, <1>7 DEF LoopDropUnknown

\* A goroutine's call on the queue ends and with it the goroutine's work.
LEMMA CallEnds ==
    ASSUME IInv, NEW s \in Slots, NEW op \in OpPCs, CallReturns(s, op),
           Thinned(slot[s].job), removed' = [removed EXCEPT ![s] = NoCopy],
           faults' \in 0 .. MaxFaults,
           UNCHANGED <<pending, due, localVars, stopVars, taken, submitted>>
    PROVE  Done(s, slot[s].job) /\ Rest
<1>1. work[s] = slot[s].job /\ Busy(s) /\ work' = [work EXCEPT ![s] = NoJob]
  BY CallReturnsWork DEF IInv
<1>2. Done(s, slot[s].job)
  BY <1>1 DEF Done, localVars
<1>3. /\ slot' = [slot EXCEPT ![s].pc = "releasing"] /\ UNCHANGED <<loop, hand, cancelled>>
  BY DEF CallReturns
<1>4. DispatcherTypeOK'
  BY <1>3 DEF IInv, TypeOK, DispatcherTypeOK, SlotPCs
<1>5. ThreadsMatch'
  <2>1. \A b \in Callers : removed'[b] = IF b = s THEN NoCopy ELSE removed[b]
    BY DEF IInv, TypeOK, QueueTypeOK
  <2>2. \A t \in Slots : t # s => slot'[t] = slot[t]
    BY <1>3 DEF IInv, TypeOK, DispatcherTypeOK
  <2>3. slot'[s].pc = "releasing"
    BY <1>3 DEF IInv, TypeOK, DispatcherTypeOK
  <2>4. s \notin Daemons
    OBVIOUS
  <2> QED BY <1>3, <2>1, <2>2, <2>3, <2>4 DEF IInv, ThreadsMatch, Active, OpPCs, localVars
<1> QED BY <1>2, <1>4, <1>5 DEF Rest

LEMMA ReportSuccessKept ==
    ASSUME IInv, NEW s \in Slots, ReportSuccess(s)
    PROVE  Kept
<1> DEFINE j == slot[s].job
<1>1. /\ CallReturns(s, "acknowledge") /\ "acknowledge" \in OpPCs
      /\ Acknowledge(j)
      /\ acknowledged' = acknowledged \cup {j}
      /\ UNCHANGED <<localVars, stopVars, submitted, taken>>
  BY DEF ReportSuccess, OpPCs
<1>2. slot[s].pc = "acknowledge" /\ removed[s] = NoCopy
  BY <1>1 DEF CallReturns, IInv, ThreadsMatch
<1>3. removed' = removed /\ removed' = [removed EXCEPT ![s] = NoCopy]
  BY <1>1, <1>2 DEF Acknowledge, RemoveFails, IInv, TypeOK, QueueTypeOK
<1>4. /\ Thinned(j)
      /\ UNCHANGED <<pending, delayed, due, dead>>
      /\ faults' \in 0 .. MaxFaults
      /\ faults' = faults \/ OneFault
  <2>1. CASE RemoveFails(j)
    <3>1. UNCHANGED <<pending, processing, delayed, due, dead>> /\ (NoFault \/ Fault)
      BY <2>1 DEF RemoveFails
    <3> QED BY <3>1, UnchangedIsThinned DEF Fault, NoFault, OneFault, IInv, TypeOK, QueueTypeOK
  <2>2. CASE /\ \E raw \in ToSet(processing) : Found(j, raw) /\ LRem(raw)
             /\ UNCHANGED <<pending, delayed, due, dead, removed>>
    <3>1. PICK raw \in ToSet(processing) : Found(j, raw) /\ LRem(raw)
      BY <2>2
    <3>2. Thinned(j)
      BY <3>1, LRemThins DEF IInv
    <3>3. NoFault \/ Fault
      BY <3>1 DEF LRem
    <3> QED BY <2>2, <3>2, <3>3 DEF Fault, NoFault, OneFault, IInv, TypeOK, QueueTypeOK
  <2> QED BY <1>1, <2>1, <2>2 DEF Acknowledge
<1>5. Done(s, j) /\ Rest
  BY <1>1, <1>3, <1>4, CallEnds
<1> QED BY <1>1, <1>4, <1>5, SettledKept

LEMMA ReportFailureKept ==
    ASSUME IInv, NEW s \in Slots, ReportFailure(s)
    PROVE  Kept
<1> DEFINE j == slot[s].job
<1>1. /\ slot[s].pc \in {"retry", "markFailed"} /\ slot[s].pc \in OpPCs
      /\ UNCHANGED <<localVars, stopVars, historyVars>>
  BY DEF ReportFailure, OpPCs
<1>2. work[s] = j /\ Busy(s) /\ s \notin Daemons
  BY <1>1 DEF IInv, ThreadsMatch, work, Busy, Active
<1>3. CASE Take(s, j) /\ UNCHANGED dispatcherVars
  BY <1>1, <1>2, <1>3, TakeKept
<1>4. ASSUME NEW op \in OpPCs, CallReturns(s, op), removed' = [removed EXCEPT ![s] = NoCopy],
             UNCHANGED <<pending, processing, due>>, faults' \in 0 .. MaxFaults
      PROVE  Done(s, j) /\ Rest
  <2>1. Thinned(j)
    BY <1>4, UnchangedIsThinned
  <2> QED BY <1>1, <1>4, <2>1, CallEnds DEF historyVars
<1>5. CASE removed[s] = NoCopy /\ RemoveFails(j) /\ CallReturns(s, slot[s].pc)
  <2>1. /\ OneFault /\ faults' \in 0 .. MaxFaults
        /\ UNCHANGED <<pending, processing, delayed, due, dead>>
        /\ removed' = [removed EXCEPT ![s] = NoCopy]
    BY <1>2, <1>5, RemoveFailsByFault
  <2>2. Done(s, j) /\ Rest
    BY <1>1, <1>4, <1>5, <2>1
  <2> QED BY <1>1, <2>1, <2>2, GivenUpKept DEF historyVars
<1>6. ASSUME NEW op \in OpPCs, CallReturns(s, op), PutNowhere(s)
      PROVE  Kept
  <2>1. /\ OneFault /\ faults' \in 0 .. MaxFaults
        /\ UNCHANGED <<pending, processing, delayed, due, dead>>
        /\ removed' = [removed EXCEPT ![s] = NoCopy]
    BY <1>6 DEF PutNowhere, PutDown, Fault, OneFault, IInv, TypeOK, QueueTypeOK
  <2>2. Done(s, j) /\ Rest
    BY <1>4, <1>6, <2>1
  <2> QED BY <1>1, <2>1, <2>2, GivenUpKept DEF historyVars
<1>7. CASE CallReturns(s, "markFailed") /\ PutFailed(s)
  <2>1. /\ removed[s] # NoCopy
        /\ removed' = [removed EXCEPT ![s] = NoCopy]
        /\ UNCHANGED <<pending, processing, delayed, due, faults>>
        /\ dead' = Cons(removed[s], dead)
    BY <1>7 DEF PutFailed, PutDead, PutDown, NoFault
  <2>2. removed[s] \in Copy /\ removed[s].job = j
    <3>1. removed[s] \in Copy /\ removed[s] = [job |-> work[s], tries |-> attempts[s] - 1]
      BY <2>1, RemovedIsOwn
    <3> QED BY <1>2, <3>1
  <2>3. faults' \in 0 .. MaxFaults /\ "markFailed" \in OpPCs
    BY <2>1 DEF IInv, TypeOK, QueueTypeOK, OpPCs
  <2>4. Done(s, j) /\ Rest
    BY <1>4, <1>7, <2>1, <2>3
  <2> QED BY <1>1, <2>1, <2>2, <2>4, SettledKept DEF historyVars
<1>8. CASE CallReturns(s, "retry") /\ PutRetried(s)
  <2>1. removed[s] # NoCopy /\ slot[s].pc = "retry"
    BY <1>8 DEF PutRetried, CallReturns
  <2>2. /\ removed[s] = [job |-> j, tries |-> attempts[s] - 1] /\ attempts[s] \in Nat
        /\ CanRetry(j, attempts[s])
    BY <1>2, <2>1, RemovedIsOwn DEF IInv, ThreadsMatch
  <2> DEFINE again == [removed[s] EXCEPT !.tries = @ + 1]
  <2>3. again = [job |-> j, tries |-> attempts[s]]
    BY <2>2
  <2>4. /\ PutDown(s)
        /\ delayed' = delayed \cup {again}
        /\ NoFault /\ UNCHANGED dead
    BY <1>8, <2>2, <2>3 DEF PutRetried
  <2>5. /\ removed' = [removed EXCEPT ![s] = NoCopy]
        /\ UNCHANGED <<pending, processing, due, dead, faults>>
    BY <2>4 DEF PutDown, NoFault
  <2>6. faults' \in 0 .. MaxFaults /\ "retry" \in OpPCs
    BY <2>5 DEF IInv, TypeOK, QueueTypeOK, OpPCs
  <2>7. Done(s, j) /\ Rest
    BY <1>4, <1>8, <2>5, <2>6
  <2> QED BY <1>1, <2>2, <2>3, <2>4, <2>5, <2>7, RetriedKept DEF historyVars
<1>9. "retry" \in OpPCs /\ "markFailed" \in OpPCs
  BY DEF OpPCs
<1> QED BY <1>3, <1>5, <1>6, <1>7, <1>8, <1>9 DEF ReportFailure

\* At most one job per token and one in the loop is lost with a daemon.
LEMMA CrashKept ==
    ASSUME IInv, NEW d \in Daemons, Crash(d)
    PROVE  Kept
<1> DEFINE gone == SlotsOf(d) \cup {d}
           jobs == {j \in Jobs : Held(j) /\ ~Held(j)'}
<1>1. work' = [c \in Callers |-> IF c \in gone THEN NoJob ELSE work[c]]
  BY CrashWork DEF IInv
<1>2. /\ gone \in SUBSET Callers
      /\ removed' = [c \in Callers |-> IF c \in gone THEN NoCopy ELSE removed[c]]
      /\ attempts' = [c \in Callers |-> IF c \in gone THEN 0 ELSE attempts[c]]
      /\ UNCHANGED <<pending, processing, delayed, due, dead, faults, shutdowns, historyVars>>
      /\ crashes' = crashes + 1 /\ crashes < MaxCrashes
      /\ promoted' = promoted \ {d}
  BY DEF Crash, SlotsOf
<1>3. /\ loop' = [loop EXCEPT ![d] = "down"]
      /\ hand' = [hand EXCEPT ![d] = NoJob]
      /\ slot' = [s \in Slots |-> IF Owner[s] = d THEN Idle ELSE slot[s]]
      /\ cancelled' = cancelled \ {d}
  BY DEF Crash
<1> HIDE DEF gone
<1>4. /\ Books'
      /\ \A j \in Jobs : Held(j)' => Held(j)
      /\ \A j \in Jobs : Held(j) /\ ~Held(j)' => \E c \in gone : work[c] = j
  BY <1>1, <1>2, CrashBooks DEF IInv, historyVars
<1>5. TypeOK'
  <2>1. DispatcherTypeOK'
    BY <1>3 DEF IInv, TypeOK, DispatcherTypeOK, LoopPCs, SlotPCs, Idle
  <2>2. QueueTypeOK'
    BY <1>2 DEF IInv, TypeOK, QueueTypeOK
  <2>3. attempts' \in [Callers -> Nat]
    BY <1>2 DEF IInv, TypeOK
  <2> QED BY <1>2, <2>1, <2>2, <2>3 DEF IInv, TypeOK, historyVars
<1>6. ThreadsMatch'
  <2>1. \A e \in Daemons : e \in gone <=> e = d
    BY DEF gone, SlotsOf
  <2>2. \A s \in Slots : s \in gone <=> Owner[s] = d
    BY DEF gone, SlotsOf
  <2>3. \A e \in Daemons : IF e = d THEN hand'[e] = NoJob /\ loop'[e] = "down" /\ removed'[e] = NoCopy
                            ELSE hand'[e] = hand[e] /\ loop'[e] = loop[e] /\ removed'[e] = removed[e]
    BY <1>2, <1>3, <2>1 DEF IInv, TypeOK, DispatcherTypeOK
  <2>4. \A s \in Slots : IF s \in gone THEN slot'[s].pc = "idle" /\ removed'[s] = NoCopy
                          ELSE /\ slot'[s] = slot[s] /\ removed'[s] = removed[s]
                               /\ attempts'[s] = attempts[s]
    BY <1>2, <1>3, <2>2 DEF Idle
  <2>5. \A e \in Daemons :
          /\ hand'[e] # NoJob <=> loop'[e] \in {"lookup", "acquire"}
          /\ e \in promoted' => loop'[e] = "dequeue"
          /\ removed'[e] # NoCopy => loop'[e] = "lookup" /\ hand'[e] \notin Known
    BY <1>2, <2>3 DEF IInv, ThreadsMatch
  <2>6. \A s \in Slots :
          /\ Active(s)' => slot'[s].job # NoJob
          /\ removed'[s] # NoCopy => slot'[s].pc \in {"retry", "markFailed"}
          /\ slot'[s].pc = "retry" => CanRetry(slot'[s].job, attempts'[s])
    BY <2>4 DEF IInv, ThreadsMatch, Active, OpPCs
  <2> QED BY <2>5, <2>6 DEF ThreadsMatch
<1>7. CrashStep
  <2>1. /\ IsFiniteSet(jobs) /\ Cardinality(jobs) <= Cardinality(Slots) + 1
    <3>1. IsFiniteSet(SlotsOf(d)) /\ Cardinality(SlotsOf(d)) <= Cardinality(Slots)
      BY FS_Subset DEF SlotsOf
    <3>2. /\ IsFiniteSet(gone) /\ Cardinality(gone) <= Cardinality(Slots) + 1
      <4>1. /\ IsFiniteSet(gone)
            /\ Cardinality(gone) \in {Cardinality(SlotsOf(d)), Cardinality(SlotsOf(d)) + 1}
        BY <3>1, FS_AddElement DEF gone
      <4>2. Cardinality(SlotsOf(d)) \in Nat /\ Cardinality(Slots) \in Nat
        BY <3>1, FS_CardinalityType
      <4> QED BY <3>1, <4>1, <4>2
    <3> DEFINE all == {work[c] : c \in gone}
               f == [c \in gone |-> work[c]]
    <3>3. f \in Surjection(gone, all)
      BY DEF Surjection
    <3>4. IsFiniteSet(all) /\ Cardinality(all) <= Cardinality(gone)
      BY <3>2, <3>3, FS_Surjection
    <3>5. jobs \in SUBSET all
      BY <1>4
    <3>6. IsFiniteSet(jobs) /\ Cardinality(jobs) <= Cardinality(all)
      BY <3>4, <3>5, FS_Subset
    <3> QED BY <3>2, <3>4, <3>6, FS_CardinalityType
  <2>2. \A j \in jobs : stand[j] = "running"
    BY StandIs DEF IInv
  <2>3. \A j \in jobs : stand'[j] = "lost"
    <3> SUFFICES ASSUME NEW j \in jobs PROVE stand'[j] = "lost"
      OBVIOUS
    <3>1. ~IsWaiting(j) /\ ~Listed(dead, j) /\ j \notin acknowledged /\ j \in submitted
      BY <2>2, StandIs DEF IInv
    <3>2. ~IsWaiting(j)' /\ ~Listed(dead', j) /\ j \notin acknowledged' /\ j \in submitted'
      BY <1>2, <3>1 DEF IsWaiting, Parked, historyVars
    <3> QED BY <1>4, <3>2, StandIsNext, StandRange
  <2>4. \A j \in Jobs : j \notin jobs => stand'[j] = stand[j]
    <3> SUFFICES ASSUME NEW j \in Jobs, j \notin jobs PROVE stand'[j] = stand[j]
      OBVIOUS
    <3>1. SameStanding(j)
      BY <1>2, <1>4 DEF SameStanding, IsWaiting, Parked, historyVars
    <3> QED BY <3>1 DEF SameStanding, stand, IsSettled
  <2>5. stand' = [j \in Jobs |-> IF j \in jobs THEN "lost" ELSE stand[j]]
    <3>1. stand' = [j \in Jobs |-> stand'[j]]
      BY DEF stand
    <3> QED BY <2>3, <2>4, <3>1
  <2>6. jobs \in SUBSET Jobs
    OBVIOUS
  <2> HIDE DEF jobs
  <2> QED BY <1>2, <2>1, <2>2, <2>5, <2>6 DEF CrashStep, historyVars
<1> QED BY <1>4, <1>5, <1>6, <1>7 DEF Kept

-----------------------------------------------------------------------------
(* The losses, and the invariant.                                          *)

\* Only submitted jobs are anywhere but new, so finitely many are lost.
LEMMA LostIsFinite ==
    ASSUME IsFiniteSet(submitted)
    PROVE  IsFiniteSet(Lost) /\ Cardinality(Lost) \in Nat
<1>1. Lost \in SUBSET submitted
  BY DEF Lost, stand
<1> QED BY <1>1, FS_Subset, FS_CardinalityType

LEMMA JobStepLosses ==
    ASSUME IInv, JobStep
    PROVE  LossesCovered'
<1> DEFINE K == crashes * (Cardinality(Slots) + 1)
<1>1. /\ faults \in Nat /\ crashes \in Nat /\ Cardinality(Slots) \in Nat
      /\ IsFiniteSet(submitted) /\ Cardinality(Lost) <= faults + K
  BY FS_CardinalityType DEF IInv, TypeOK, QueueTypeOK, LossesCovered
<1>2. K \in Nat /\ K' = K
  BY <1>1 DEF JobStep
<1>3. IsFiniteSet(Lost) /\ Cardinality(Lost) \in Nat
  BY <1>1, LostIsFinite
<1> HIDE DEF K
<1>4. IsFiniteSet(submitted')
  <2>1. submitted' = submitted \/ \E j \in Jobs : submitted' = submitted \cup {j}
    BY DEF JobStep
  <2> QED BY <1>1, <2>1, FS_AddElement
<1>5. /\ faults' \in Nat
      /\ \/ Lost' \subseteq Lost /\ faults' >= faults
         \/ OneFault /\ \E j \in Jobs : Lost' = Lost \cup {j}
  <2>1. faults' = faults \/ OneFault
    BY DEF JobStep
  <2>2. CASE stand' = stand
    BY <1>1, <2>1, <2>2 DEF Lost, OneFault
  <2>3. ASSUME NEW j \in Jobs, NEW from, NEW to, to # "lost", Moves(j, from, to)
        PROVE  Lost' \subseteq Lost
    BY <2>3 DEF Lost, Moves, stand
  <2>4. ASSUME NEW j \in Jobs, NEW from, Moves(j, from, "lost"), j \in Poison
        PROVE  Lost' \subseteq Lost
    BY <2>4 DEF Lost, Moves, stand
  <2>5. ASSUME NEW j \in Jobs, NEW from, Moves(j, from, "lost"), j \notin Poison
        PROVE  Lost' = Lost \cup {j}
    <3>1. stand' = [stand EXCEPT ![j] = "lost"]
      BY <2>5 DEF Moves
    <3>2. \A k \in Jobs : stand'[k] = IF k = j THEN "lost" ELSE stand[k]
      BY <3>1 DEF stand
    <3> QED BY <2>5, <3>2 DEF Lost
  <2>6. faults' \in Nat /\ (OneFault => faults' >= faults)
    BY <1>1, <2>1 DEF OneFault
  <2>7. \/ stand' = stand
        \/ \E j \in Jobs :
              \/ \E from, to \in {"new", "queued", "running", "done", "failed"} : Moves(j, from, to)
              \/ \E from \in {"queued", "running"} : Moves(j, from, "lost") /\ (j \in Poison \/ OneFault)
    BY DEF JobStep
  <2> QED BY <1>1, <2>1, <2>2, <2>3, <2>4, <2>5, <2>6, <2>7
<1>6. CASE Lost' \subseteq Lost /\ faults' >= faults
  <2>1. Cardinality(Lost') <= Cardinality(Lost)
    BY <1>3, <1>6, FS_Subset
  <2>2. IsFiniteSet(Lost')
    BY <1>3, <1>6, FS_Subset
  <2>3. Cardinality(Lost') \in Nat
    BY <2>2, FS_CardinalityType
  <2> QED BY <1>1, <1>2, <1>3, <1>4, <1>5, <1>6, <2>1, <2>3 DEF LossesCovered, K
<1>7. CASE OneFault /\ \E j \in Jobs : Lost' = Lost \cup {j}
  <2>1. /\ IsFiniteSet(Lost')
        /\ Cardinality(Lost') \in {Cardinality(Lost), Cardinality(Lost) + 1}
    BY <1>3, <1>7, FS_AddElement
  <2>2. faults' = faults + 1
    BY <1>7 DEF OneFault
  <2> QED BY <1>1, <1>2, <1>3, <1>4, <2>1, <2>2 DEF LossesCovered, K
<1> QED BY <1>5, <1>6, <1>7

LEMMA CrashStepLosses ==
    ASSUME IInv, CrashStep
    PROVE  LossesCovered'
<1> DEFINE N == Cardinality(Slots) + 1
<1>1. /\ faults \in Nat /\ crashes \in Nat /\ N \in Nat
      /\ IsFiniteSet(submitted) /\ Cardinality(Lost) <= faults + crashes * N
  BY FS_CardinalityType DEF IInv, TypeOK, QueueTypeOK, LossesCovered
<1>2. IsFiniteSet(Lost) /\ Cardinality(Lost) \in Nat
  BY <1>1, LostIsFinite
<1>3. PICK gone \in SUBSET Jobs :
         /\ IsFiniteSet(gone) /\ Cardinality(gone) <= N
         /\ stand' = [j \in Jobs |-> IF j \in gone THEN "lost" ELSE stand[j]]
  BY DEF CrashStep
<1>4. crashes' = crashes + 1 /\ UNCHANGED <<submitted, faults>>
  BY DEF CrashStep
<1> HIDE DEF N
<1>5. Lost' \subseteq Lost \cup gone
  BY <1>3 DEF Lost
<1>6. /\ IsFiniteSet(Lost \cup gone)
      /\ Cardinality(Lost \cup gone) <= Cardinality(Lost) + Cardinality(gone)
  <2>1. /\ IsFiniteSet(Lost \cup gone)
        /\ Cardinality(Lost \cup gone)
             = Cardinality(Lost) + Cardinality(gone) - Cardinality(Lost \cap gone)
    BY <1>2, <1>3, FS_Union
  <2>2. IsFiniteSet(Lost \cap gone)
    BY <1>2, FS_Intersection
  <2>3. Cardinality(Lost \cap gone) \in Nat /\ Cardinality(gone) \in Nat
    BY <1>3, <2>2, FS_CardinalityType
  <2> QED BY <1>2, <2>1, <2>3
<1>7. Cardinality(Lost') <= Cardinality(Lost) + N
  <2>1. Cardinality(Lost') <= Cardinality(Lost \cup gone)
    BY <1>5, <1>6, FS_Subset
  <2>2. IsFiniteSet(Lost')
    BY <1>5, <1>6, FS_Subset
  <2>3. /\ Cardinality(Lost') \in Nat /\ Cardinality(Lost \cup gone) \in Nat
        /\ Cardinality(gone) \in Nat
    BY <1>3, <1>6, <2>2, FS_CardinalityType
  <2> QED BY <1>1, <1>2, <1>3, <1>6, <2>1, <2>3
<1>8. (crashes + 1) * N = crashes * N + N
  BY <1>1
<1>9. crashes * N \in Nat
  BY <1>1
<1>10. Cardinality(Lost') <= faults + (crashes * N + N)
  <2>1. Cardinality(Lost') \in Nat
    <3>1. IsFiniteSet(Lost')
      BY <1>5, <1>6, FS_Subset
    <3> QED BY <3>1, FS_CardinalityType
  <2> QED BY <1>1, <1>2, <1>7, <1>9, <2>1
<1> QED BY <1>1, <1>4, <1>8, <1>10 DEF LossesCovered, N

\* The state at start-up.
LEMMA InitHolds == Init => IInv
<1> SUFFICES ASSUME Init PROVE IInv
  OBVIOUS
<1> USE DEF Init, QueueInit, DispatcherInit
<1>1. TypeOK /\ ThreadsMatch
  BY DEF TypeOK, QueueTypeOK, DispatcherTypeOK, ThreadsMatch, Active, Idle, LoopPCs, SlotPCs, OpPCs
<1>2. ToSet(<<>>) = {} /\ Len(<<>>) = 0
  BY DEF ToSet
<1>3. \A c \in Callers : work[c] = NoJob
  BY DEF work, Active, Idle, OpPCs
<1>4. \A j \in Jobs : ~Held(j) /\ ~IsWaiting(j) /\ ~IsSettled(j)
  BY <1>2, <1>3 DEF Held, IsWaiting, IsSettled, Listed, Parked
<1>5. OneThread /\ OneWaiting /\ DeadOnce /\ OneStanding
  <2>1. Distinct(<<>>)
    BY <1>2 DEF Distinct
  <2>2. OneThread
    BY <1>3 DEF OneThread, Busy
  <2>3. OneWaiting
    BY <1>4, <2>1 DEF OneWaiting, IsWaiting
  <2>4. DeadOnce
    BY <2>1 DEF DeadOnce
  <2>5. OneStanding
    BY <1>4 DEF OneStanding
  <2> QED BY <2>2, <2>3, <2>4, <2>5
<1>6. Counted /\ CopiesKept
  BY <1>2, <1>3 DEF Counted, CopiesKept, Busy, Descending
<1>7. LossesCovered
  <2>1. Lost = {}
    BY DEF Lost, stand
  <2>2. Cardinality(Slots) \in Nat
    BY FS_CardinalityType
  <2> QED BY <2>1, <2>2, FS_EmptySet DEF LossesCovered
<1> QED BY <1>1, <1>5, <1>6, <1>7 DEF IInv, Books

\* Every step keeps the books and is one of the two kinds.
LEMMA StepIsKept == IInv /\ [Next]_vars => Kept
<1> SUFFICES ASSUME IInv, [Next]_vars PROVE Kept
  OBVIOUS
<1>1. ASSUME NEW d \in Daemons, Loop(d)
      PROVE  Kept
  BY <1>1, QuietLoopKept, LoopPromoteKept, LoopMoveKept, LoopDropUnknownKept, LoopSpawnKept
     DEF Loop
<1>2. ASSUME NEW s \in Slots, Goroutine(s)
      PROVE  Kept
  BY <1>2, HandleKept, ReportSuccessKept, ReportFailureKept, LeaveKept DEF Goroutine
<1>3. CASE UNCHANGED vars
  <2>1. TypeOK' /\ ThreadsMatch'
    BY <1>3 DEF IInv, TypeOK, QueueTypeOK, DispatcherTypeOK, ThreadsMatch, Active, vars, queueVars,
       dispatcherVars, localVars, stopVars, historyVars
  <2>2. work' = work
    BY <1>3, SameWork DEF vars, dispatcherVars
  <2> QED BY <1>3, <2>1, <2>2, QuietKept DEF vars, queueVars, localVars, stopVars, historyVars
<1> QED BY <1>1, <1>2, <1>3, SubmitKept, ClockTickKept, QuietLoopKept, CrashKept DEF Next

LEMMA StepKeeps == IInv /\ [Next]_vars => IInv'
<1> SUFFICES ASSUME IInv, [Next]_vars PROVE IInv'
  OBVIOUS
<1>1. Kept
  BY StepIsKept
<1>2. LossesCovered'
  BY <1>1, JobStepLosses, CrashStepLosses DEF Kept
<1> QED BY <1>1, <1>2 DEF Kept, IInv

\* IInv is an inductive invariant of the specification.
THEOREM InvariantHolds == Spec => []IInv
BY InitHolds, StepKeeps, PTL DEF Spec

-----------------------------------------------------------------------------
(* The properties, in the words of RedisDispatch.                          *)

LEMMA CountIn ==
    ASSUME NEW list \in Seq(Copy), Distinct(list), NEW j
    PROVE  /\ In(list, j) # {} <=> Listed(list, j)
           /\ Cardinality(In(list, j)) = IF Listed(list, j) THEN 1 ELSE 0
<1>1. DOMAIN list = 1 .. Len(list)
  BY Elements
<1>2. CASE Listed(list, j)
  <2>1. PICK i \in 1 .. Len(list) : list[i].job = j
    BY <1>2, Elements DEF Listed
  <2>2. In(list, j) = {i}
    BY <1>1, <2>1 DEF In, Distinct
  <2> QED BY <1>2, <2>2, FS_Singleton
<1>3. CASE ~Listed(list, j)
  <2>1. \A i \in 1 .. Len(list) : list[i].job # j
    BY <1>3, Elements DEF Listed
  <2>2. In(list, j) = {}
    BY <1>1, <2>1 DEF In
  <2> QED BY <1>3, <2>2, FS_EmptySet
<1> QED BY <1>2, <1>3

LEMMA CountParked ==
    ASSUME IInv, NEW j \in Jobs
    PROVE  Cardinality({c \in delayed : c.job = j}) = IF Parked(j) THEN 1 ELSE 0
<1>1. CASE Parked(j)
  <2>1. PICK c \in delayed : c.job = j
    BY <1>1 DEF Parked
  <2>2. {b \in delayed : b.job = j} = {c}
    BY <2>1 DEF IInv, Books, OneWaiting
  <2> QED BY <1>1, <2>2, FS_Singleton
<1>2. CASE ~Parked(j)
  <2>1. {c \in delayed : c.job = j} = {}
    BY <1>2 DEF Parked
  <2> QED BY <1>2, <2>1, FS_EmptySet
<1> QED BY <1>1, <1>2

LEMMA CountWorkers ==
    ASSUME IInv, NEW j \in Jobs
    PROVE  Cardinality(Workers(j)) = IF Held(j) THEN 1 ELSE 0
<1>1. Workers(j) = {c \in Callers : work[c] = j}
  BY DEF Workers, work
<1>2. CASE Held(j)
  <2>1. PICK c \in Callers : work[c] = j
    BY <1>2 DEF Held
  <2>2. Workers(j) = {c}
    BY <1>1, <2>1 DEF IInv, Books, OneThread, Busy
  <2> QED BY <1>2, <2>2, FS_Singleton
<1>3. CASE ~Held(j)
  <2>1. Workers(j) = {}
    BY <1>1, <1>3 DEF Held
  <2> QED BY <1>3, <2>1, FS_EmptySet
<1> QED BY <1>2, <1>3

\* What the properties count, in terms of where the job stands.
LEMMA CountsByStanding ==
    ASSUME IInv, NEW j \in Jobs
    PROVE  /\ LiveCopies(j) = IF stand[j] \in {"queued", "running"} THEN 1 ELSE 0
           /\ Waiting(j) <=> stand[j] = "queued"
           /\ Dead(j) <=> stand[j] = "failed"
           /\ Cardinality(In(dead, j)) = IF stand[j] = "failed" THEN 1 ELSE 0
           /\ Settled(j) <=> stand[j] \in {"done", "failed"}
           /\ Stranded(j) <=> stand[j] = "lost"
<1>1. /\ pending \in Seq(Copy) /\ due \in Seq(Copy) /\ dead \in Seq(Copy)
      /\ Distinct(pending) /\ Distinct(due) /\ Distinct(dead)
  BY DEF IInv, TypeOK, QueueTypeOK, Books, OneWaiting, DeadOnce
<1>2. /\ j \notin submitted <=> stand[j] = "new"
      /\ j \in acknowledged <=> stand[j] = "done"
      /\ Listed(dead, j) <=> stand[j] = "failed"
      /\ IsWaiting(j) <=> stand[j] = "queued"
      /\ Held(j) <=> stand[j] = "running"
      /\ stand[j] \in {"new", "done", "failed", "queued", "running", "lost"}
  BY StandIs, StandRange DEF IInv
<1>3. /\ In(pending, j) # {} <=> Listed(pending, j)
      /\ Cardinality(In(pending, j)) = IF Listed(pending, j) THEN 1 ELSE 0
  BY <1>1, CountIn
<1>4. /\ In(due, j) # {} <=> Listed(due, j)
      /\ Cardinality(In(due, j)) = IF Listed(due, j) THEN 1 ELSE 0
  BY <1>1, CountIn
<1>5. /\ In(dead, j) # {} <=> Listed(dead, j)
      /\ Cardinality(In(dead, j)) = IF Listed(dead, j) THEN 1 ELSE 0
  BY <1>1, CountIn
<1>6. /\ Listed(pending, j) => ~Listed(due, j) /\ ~Parked(j)
      /\ Listed(due, j) => ~Parked(j)
  BY DEF IInv, Books, OneWaiting
<1>7. Waiting(j) <=> stand[j] = "queued"
  BY <1>2, <1>3, <1>4 DEF Waiting, IsWaiting, Parked
<1>8. Cardinality(In(pending, j)) + Cardinality(In(due, j))
        + Cardinality({c \in delayed : c.job = j}) = IF IsWaiting(j) THEN 1 ELSE 0
  BY <1>3, <1>4, <1>6, CountParked DEF IsWaiting
<1>9. LiveCopies(j) = IF stand[j] \in {"queued", "running"} THEN 1 ELSE 0
  BY <1>2, <1>8, CountWorkers DEF LiveCopies
<1>10. Dead(j) <=> stand[j] = "failed"
  BY <1>2, <1>5 DEF Dead
<1>11. Settled(j) <=> stand[j] \in {"done", "failed"}
  BY <1>2, <1>10 DEF Settled
<1> QED BY <1>2, <1>5, <1>7, <1>9, <1>10, <1>11 DEF Stranded

\* The types of the queue's lists, of the loops and goroutines, and the bounds.
THEOREM RedisTypeCorrect == Spec => []TypeOK
BY InvariantHolds, PTL DEF IInv

\* A job waits in one place or one thread of one daemon is at work on it, and a
\* settled job is nowhere, whatever fails and whoever dies.
THEOREM JobsHaveOneLiveCopy == Spec => []OneLiveCopy
<1>1. IInv => OneLiveCopy
  <2> SUFFICES ASSUME IInv, NEW j \in Jobs
               PROVE  LiveCopies(j) <= IF Settled(j) THEN 0 ELSE 1
    BY DEF OneLiveCopy
  <2> QED BY CountsByStanding
<1> QED BY <1>1, InvariantHolds, PTL

\* No job is both acknowledged and dead, and none is dead twice.
THEOREM JobsSettleOnce == Spec => []SettledOnce
<1>1. IInv => SettledOnce
  <2> SUFFICES ASSUME IInv, NEW j \in Jobs
               PROVE  Cardinality(In(dead, j)) <= IF j \in acknowledged THEN 0 ELSE 1
    BY DEF SettledOnce
  <2>1. j \in acknowledged => stand[j] = "done"
    BY StandIs DEF IInv
  <2> QED BY <2>1, CountsByStanding
<1> QED BY <1>1, InvariantHolds, PTL

\* The count stored with a waiting job is the number of times it was taken.
THEOREM AttemptsAreCountedRight == Spec => []AttemptsAreCounted
<1>1. IInv => AttemptsAreCounted
  BY DEF IInv, Books, Counted, AttemptsAreCounted
<1> QED BY <1>1, InvariantHolds, PTL

\* What a thread takes out of processing is the copy it was given.
THEOREM ThreadsRemoveTheirOwnCopy == Spec => []RemovesItsOwnCopy
<1>1. IInv => RemovesItsOwnCopy
  <2> SUFFICES ASSUME IInv PROVE RemovesItsOwnCopy
    OBVIOUS
  <2>1. ASSUME NEW c \in Callers, removed[c] # NoCopy
        PROVE  removed[c].tries + 1 = attempts[c]
    <3>1. removed[c] = [job |-> work[c], tries |-> attempts[c] - 1] /\ attempts[c] \in Nat
      BY <2>1, RemovedIsOwn
    <3> QED BY <3>1
  <2>2. ASSUME NEW s \in Slots, slot[s].pc = "retry", removed[s] # NoCopy
        PROVE  CanRetry(slot[s].job, removed[s].tries + 1)
    <3>1. removed[s].tries + 1 = attempts[s]
      BY <2>1, <2>2
    <3> QED BY <2>2, <3>1 DEF IInv, ThreadsMatch
  <2> QED BY <2>1, <2>2 DEF RemovesItsOwnCopy
<1> QED BY <1>1, InvariantHolds, PTL

\* Each job out of sight is charged to a failed command or to a crash.
THEOREM LossesAreAccountedFor == Spec => []StrandedAreAccountedFor
<1>1. IInv => StrandedAreAccountedFor
  <2> SUFFICES ASSUME IInv PROVE StrandedAreAccountedFor
    OBVIOUS
  <2>1. {j \in Jobs \ Poison : Stranded(j)} = Lost
    BY CountsByStanding DEF Lost
  <2> QED BY <2>1 DEF IInv, LossesCovered, StrandedAreAccountedFor
<1> QED BY <1>1, InvariantHolds, PTL

-----------------------------------------------------------------------------
(* The refinement.                                                         *)

\* Phase is the standing, with the lost jobs among those that run for ever.
PhaseIsStand ==
    \A j \in Jobs : Phase(j) = IF stand[j] = "lost" THEN "running" ELSE stand[j]

LEMMA PhaseMatches == Spec => []PhaseIsStand
<1>1. IInv => PhaseIsStand
  <2> SUFFICES ASSUME IInv, NEW j \in Jobs
               PROVE  Phase(j) = IF stand[j] = "lost" THEN "running" ELSE stand[j]
    BY DEF PhaseIsStand
  <2>1. /\ j \notin submitted <=> stand[j] = "new"
        /\ j \in acknowledged <=> stand[j] = "done"
        /\ stand[j] \in {"new", "done", "failed", "queued", "running", "lost"}
    BY StandIs, StandRange DEF IInv
  <2> QED BY <2>1, CountsByStanding DEF Phase
<1> QED BY <1>1, InvariantHolds, PTL

\* RedisDispatch implements JobLifecycle under the map Phase.
THEOREM RedisImplementsLifecycle == Spec => ImplementsLifecycle
<1> DEFINE phase == [j \in Jobs |-> Phase(j)]
<1>1. Init /\ IInv /\ PhaseIsStand => Lifecycle!Init
  <2> SUFFICES ASSUME Init, IInv, PhaseIsStand PROVE Lifecycle!Init
    OBVIOUS
  <2>1. submitted = {} /\ taken = [j \in Jobs |-> 0]
    BY DEF Init
  <2>2. \A j \in Jobs : Phase(j) = "new"
    <3> TAKE j \in Jobs
    <3>1. stand[j] = "new"
      BY <2>1, StandIs DEF IInv
    <3>2. Phase(j) = IF stand[j] = "lost" THEN "running" ELSE stand[j]
      BY DEF PhaseIsStand
    <3> QED BY <3>1, <3>2
  <2> QED BY <2>1, <2>2 DEF Lifecycle!Init
<1>2. IInv /\ PhaseIsStand /\ PhaseIsStand' /\ [Next]_vars => [Lifecycle!Next]_Lifecycle!vars
  <2> SUFFICES ASSUME IInv, PhaseIsStand, PhaseIsStand', [Next]_vars
               PROVE  [Lifecycle!Next]_Lifecycle!vars
    OBVIOUS
  <2>1. /\ \A j \in Jobs : phase[j] = IF stand[j] = "lost" THEN "running" ELSE stand[j]
        /\ \A j \in Jobs : phase'[j] = IF stand'[j] = "lost" THEN "running" ELSE stand'[j]
    BY DEF PhaseIsStand
  <2>2. phase = [j \in Jobs |-> phase[j]] /\ phase' = [j \in Jobs |-> phase'[j]]
    OBVIOUS
  <2>3. stand = [j \in Jobs |-> stand[j]]
    BY DEF stand
  <2>4. \A j \in Jobs : taken[j] \in Nat
    BY DEF IInv, TypeOK
  <2>5. SUFFICES Lifecycle!Next \/ UNCHANGED <<phase, taken>>
    BY DEF Lifecycle!vars
  <2> HIDE DEF phase
  <2>6. ASSUME \A j \in Jobs : phase'[j] = phase[j], UNCHANGED taken
        PROVE  UNCHANGED <<phase, taken>>
    BY <2>2, <2>6
  <2>7. ASSUME NEW j \in Jobs, NEW from, NEW to, Moves(j, from, to)
        PROVE  /\ \A k \in Jobs : k # j => phase'[k] = phase[k]
               /\ phase[j] = IF from = "lost" THEN "running" ELSE from
               /\ phase'[j] = IF to = "lost" THEN "running" ELSE to
               /\ phase' = [phase EXCEPT ![j] = IF to = "lost" THEN "running" ELSE to]
    <3>1. stand[j] = from /\ \A k \in Jobs : stand'[k] = IF k = j THEN to ELSE stand[k]
      BY <2>3, <2>7 DEF Moves
    <3>2. /\ \A k \in Jobs : k # j => phase'[k] = phase[k]
          /\ phase[j] = IF from = "lost" THEN "running" ELSE from
          /\ phase'[j] = IF to = "lost" THEN "running" ELSE to
      BY <2>1, <3>1
    <3> QED BY <2>2, <3>2
  <2>8. CASE UNCHANGED <<stand, taken>>
    BY <2>1, <2>6, <2>8
  <2>9. CASE CrashStep
    <3>1. UNCHANGED taken /\ \A j \in Jobs : phase'[j] = phase[j]
      BY <2>1, <2>9 DEF CrashStep
    <3> QED BY <2>6, <3>1
  <2>10. ASSUME NEW j \in Jobs, Moves(j, "running", "lost"), UNCHANGED taken
         PROVE  UNCHANGED <<phase, taken>>
    BY <2>6, <2>7, <2>10
  <2>11. ASSUME NEW j \in Jobs,
                \/ Moves(j, "new", "queued") /\ UNCHANGED taken
                \/ Moves(j, "queued", "running") /\ Counts(j)
                \/ Moves(j, "queued", "lost") /\ Counts(j)
                \/ Moves(j, "running", "done") /\ UNCHANGED taken
                \/ Moves(j, "running", "failed") /\ UNCHANGED taken
                \/ Moves(j, "running", "queued") /\ UNCHANGED taken /\ taken[j] < MaxAttempts[j]
         PROVE  \/ Lifecycle!Submit(j) \/ Lifecycle!Begin(j) \/ Lifecycle!Succeed(j)
                \/ Lifecycle!Fail(j) \/ Lifecycle!Requeue(j)
    <3> USE <2>7 DEF Lifecycle!Move, phase
    <3>1. CASE Moves(j, "new", "queued") /\ UNCHANGED taken
      BY <3>1 DEF Lifecycle!Submit
    <3>2. CASE Moves(j, "queued", "running") /\ Counts(j)
      BY <3>2 DEF Lifecycle!Begin, Counts
    <3>3. CASE Moves(j, "queued", "lost") /\ Counts(j)
      BY <3>3 DEF Lifecycle!Begin, Counts
    <3>4. CASE Moves(j, "running", "done") /\ UNCHANGED taken
      BY <3>4 DEF Lifecycle!Succeed
    <3>5. CASE Moves(j, "running", "failed") /\ UNCHANGED taken
      BY <3>5 DEF Lifecycle!Fail
    <3>6. CASE Moves(j, "running", "queued") /\ UNCHANGED taken /\ taken[j] < MaxAttempts[j]
      BY <3>6 DEF Lifecycle!Requeue
    <3> QED BY <2>11, <3>1, <3>2, <3>3, <3>4, <3>5, <3>6
  <2>12. CASE JobStep
    <3>1. \/ UNCHANGED <<stand, taken>>
          \/ \E j \in Jobs : Moves(j, "running", "lost") /\ UNCHANGED taken
          \/ \E j \in Jobs :
                \/ Moves(j, "new", "queued") /\ UNCHANGED taken
                \/ Moves(j, "queued", "running") /\ Counts(j)
                \/ Moves(j, "queued", "lost") /\ Counts(j)
                \/ Moves(j, "running", "done") /\ UNCHANGED taken
                \/ Moves(j, "running", "failed") /\ UNCHANGED taken
                \/ Moves(j, "running", "queued") /\ UNCHANGED taken /\ taken[j] < MaxAttempts[j]
      BY <2>12 DEF JobStep
    <3> QED BY <2>8, <2>10, <2>11, <3>1 DEF Lifecycle!Next
  <2> QED BY <2>9, <2>12, StepIsKept DEF Kept
<1> QED BY <1>1, <1>2, InvariantHolds, PhaseMatches, PTL DEF Spec, ImplementsLifecycle, Lifecycle!Spec

=============================================================================
