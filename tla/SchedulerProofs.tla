-------------------------- MODULE SchedulerProofs --------------------------
(***************************************************************************)
(* What is proved of Scheduler, for every set of threads, queues,          *)
(* priorities and event sources, in four parts: the type invariant and the *)
(* scheduling invariants; that no wakeup is lost; that requeued events are *)
(* kept; that the rings are bounded queues.                                *)
(***************************************************************************)
EXTENDS Scheduler, SequenceTheorems, FiniteSetTheorems,
        WellFoundedInduction, TLAPS

\* Inserting is well defined: the loop of thread_queue_insert stops at the
\* first thread whose priority is not higher, or at the end of the list.
LEMMA InsertPositionExists ==
  ASSUME NEW s \in Seq(Threads), NEW t \in Threads, NEW pri \in [Threads -> Nat]
  PROVE  LET k == InsertPosition(s, t, pri) IN
           /\ k \in 0..Len(s)
           /\ \A i \in 1..k : pri[s[i]] > pri[t]
           /\ k < Len(s) => ~(pri[s[k + 1]] > pri[t])
PROOF
<1> DEFINE Stop == {k \in 0..Len(s) : k < Len(s) => ~(pri[s[k + 1]] > pri[t])}
<1>1. Len(s) \in Stop
  OBVIOUS
<1>2. Stop \subseteq Nat
  OBVIOUS
<1>3. PICK k \in Stop : \A j \in Stop : ~(<< j, k >> \in OpToRel(<, Nat))
  <2> HIDE DEF Stop
  <2> QED  BY <1>1, <1>2, NatLessThanWellFounded, WFMin
<1>4. \A j \in Stop : ~(j < k)
  BY <1>2, <1>3 DEF OpToRel
<1>5. \A i \in 1..k : pri[s[i]] > pri[t]
  <2> SUFFICES ASSUME NEW i \in 1..k  PROVE pri[s[i]] > pri[t]
    OBVIOUS
  <2>1. k \in 0..Len(s) /\ i - 1 \in 0..Len(s) /\ i - 1 < k
    OBVIOUS
  <2>2. i - 1 \notin Stop
    <3> HIDE DEF Stop
    <3> QED  BY <1>4, <2>1
  <2> QED  BY <2>1, <2>2
<1> QED
  BY <1>5 DEF InsertPosition

\* The list after an insertion: the old list with t in one more place.
LEMMA InsertShape ==
  ASSUME NEW s \in Seq(Threads), NEW t \in Threads, NEW pri \in [Threads -> Nat]
  PROVE  /\ InsertByPriority(s, t, pri) \in Seq(Threads)
         /\ Len(InsertByPriority(s, t, pri)) = Len(s) + 1
         /\ \E k \in 0..Len(s) :
              /\ \A i \in 1..k : /\ InsertByPriority(s, t, pri)[i] = s[i]
                                 /\ pri[s[i]] > pri[t]
              /\ InsertByPriority(s, t, pri)[k + 1] = t
              /\ \A i \in (k + 2)..(Len(s) + 1) :
                   InsertByPriority(s, t, pri)[i] = s[i - 1]
              /\ k < Len(s) => pri[s[k + 1]] <= pri[t]
PROOF
<1> DEFINE k == InsertPosition(s, t, pri)
           r == InsertByPriority(s, t, pri)
<1>1. /\ k \in 0..Len(s)
      /\ \A i \in 1..k : pri[s[i]] > pri[t]
      /\ k < Len(s) => ~(pri[s[k + 1]] > pri[t])
  BY InsertPositionExists
<1>2. r = [i \in 1..(Len(s) + 1) |->
             IF i <= k THEN s[i] ELSE IF i = k + 1 THEN t ELSE s[i - 1]]
  BY DEF InsertByPriority
<1> HIDE DEF k, r
<1>3. \A i \in 1..(Len(s) + 1) : r[i] \in Threads
  BY <1>1, <1>2
<1>4. r \in [1..(Len(s) + 1) -> Threads]
  BY <1>2, <1>3
<1>5. r \in Seq(Threads)
  BY <1>4, SeqDef
<1>6. Len(r) = Len(s) + 1
  BY <1>4, <1>5, LenProperties
<1>7. k < Len(s) => pri[s[k + 1]] <= pri[t]
  BY <1>1
<1>8. \A i \in 1..k : r[i] = s[i] /\ pri[s[i]] > pri[t]
  BY <1>1, <1>2
<1>9. r[k + 1] = t /\ \A i \in (k + 2)..(Len(s) + 1) : r[i] = s[i - 1]
  BY <1>1, <1>2
<1> QED
  BY <1>1, <1>5, <1>6, <1>7, <1>8, <1>9 DEF r

\* Inserting keeps the threads of the list and adds t.
LEMMA InsertMembers ==
  ASSUME NEW s \in Seq(Threads), NEW t \in Threads, NEW pri \in [Threads -> Nat]
  PROVE  LET r == InsertByPriority(s, t, pri) IN
         /\ \A i \in 1..Len(r) : r[i] = t \/ \E j \in 1..Len(s) : r[i] = s[j]
         /\ \A j \in 1..Len(s) : \E i \in 1..Len(r) : r[i] = s[j]
         /\ \E i \in 1..Len(r) : r[i] = t
PROOF
<1> DEFINE r == InsertByPriority(s, t, pri)
<1>1. PICK k \in 0..Len(s) :
        /\ \A i \in 1..k : r[i] = s[i] /\ pri[s[i]] > pri[t]
        /\ r[k + 1] = t
        /\ \A i \in (k + 2)..(Len(s) + 1) : r[i] = s[i - 1]
        /\ k < Len(s) => pri[s[k + 1]] <= pri[t]
  BY InsertShape
<1>2. Len(r) = Len(s) + 1 /\ Len(s) \in Nat
  BY InsertShape
<1> HIDE DEF r
<1>3. \A i \in 1..Len(r) : r[i] = t \/ \E j \in 1..Len(s) : r[i] = s[j]
  <2> TAKE i \in 1..Len(r)
  <2>1. CASE i <= k       BY SMTT(40), <1>1, <1>2, <2>1
  <2>2. CASE i = k + 1    BY <1>1, <1>2, <2>2
  <2>3. CASE i > k + 1
    <3>1. i - 1 \in 1..Len(s) /\ r[i] = s[i - 1]
      BY <1>1, <1>2, <2>3
    <3> QED  BY <3>1
  <2> QED  BY SMTT(40), <1>2, <2>1, <2>2, <2>3
<1>4. \A j \in 1..Len(s) : \E i \in 1..Len(r) : r[i] = s[j]
  <2> TAKE j \in 1..Len(s)
  <2>1. CASE j <= k       BY <1>1, <1>2, <2>1
  <2>2. CASE j > k
    <3>1. j + 1 \in 1..Len(r) /\ j + 1 \in (k + 2)..(Len(s) + 1)
      BY <1>2, <2>2
    <3>2. r[j + 1] = s[(j + 1) - 1] /\ (j + 1) - 1 = j
      BY <1>1, <3>1
    <3> QED  BY <3>1, <3>2
  <2> QED  BY <1>2, <2>1, <2>2
<1>5. \E i \in 1..Len(r) : r[i] = t
  <2>1. k + 1 \in 1..Len(r)
    BY <1>2
  <2> QED  BY <1>1, <2>1
<1> QED  BY <1>3, <1>4, <1>5 DEF r

\* Inserting a thread that is not in the list keeps its threads distinct.
LEMMA InsertDistinct ==
  ASSUME NEW s \in Seq(Threads), NEW t \in Threads, NEW pri \in [Threads -> Nat],
         \A i \in 1..Len(s) : s[i] # t,
         \A i, j \in 1..Len(s) : s[i] = s[j] => i = j
  PROVE  LET r == InsertByPriority(s, t, pri) IN
           \A i, j \in 1..Len(r) : r[i] = r[j] => i = j
PROOF
<1> DEFINE r == InsertByPriority(s, t, pri)
<1>1. PICK k \in 0..Len(s) :
        /\ \A i \in 1..k : r[i] = s[i] /\ pri[s[i]] > pri[t]
        /\ r[k + 1] = t
        /\ \A i \in (k + 2)..(Len(s) + 1) : r[i] = s[i - 1]
        /\ k < Len(s) => pri[s[k + 1]] <= pri[t]
  BY InsertShape
<1>2. Len(r) = Len(s) + 1 /\ Len(s) \in Nat
  BY InsertShape
<1> HIDE DEF r
<1>6. ASSUME NEW i \in 1..Len(r), NEW j \in 1..Len(r), i < j
      PROVE  r[i] # r[j]
  <2>3. CASE j <= k
    <3>1. i \in 1..k /\ j \in 1..k /\ i \in 1..Len(s) /\ j \in 1..Len(s)
      BY <1>2, <1>6, <2>3
    <3>2. r[i] = s[i] /\ r[j] = s[j] /\ i # j
      BY <1>1, <1>6, <3>1
    <3> QED  BY <3>1, <3>2
  <2>4. CASE j = k + 1
    <3>1. i \in 1..k /\ i \in 1..Len(s)
      BY <1>2, <1>6, <2>4
    <3> QED  BY <1>1, <2>4, <3>1
  <2>5. CASE j > k + 1
    <3>1. j - 1 \in 1..Len(s) /\ r[j] = s[j - 1]
      BY <1>1, <1>2, <2>5
    <3>2. CASE i <= k
      <4>1. i \in 1..k /\ i \in 1..Len(s) /\ i # j - 1
        BY <1>2, <2>5, <3>2
      <4>2. r[i] = s[i]
        BY <1>1, <4>1
      <4> QED  BY <3>1, <4>1, <4>2
    <3>3. CASE i = k + 1
      BY <1>1, <1>2, <3>1, <3>3
    <3>4. CASE i > k + 1
      <4>1. i - 1 \in 1..Len(s) /\ r[i] = s[i - 1] /\ i - 1 # j - 1
        BY SMTT(40), <1>1, <1>2, <1>6, <3>4
      <4> QED  BY <3>1, <4>1
    <3> QED  BY <1>2, <3>2, <3>3, <3>4
  <2> QED  BY <1>2, <2>3, <2>4, <2>5
<1> QED
  <2> SUFFICES ASSUME NEW i \in 1..Len(r), NEW j \in 1..Len(r), i # j
               PROVE  r[i] # r[j]
    BY DEF r
  <2>1. i < j \/ j < i
    BY <1>2
  <2> QED  BY <1>6, <2>1

\* Inserting keeps a list sorted.
LEMMA InsertSorted ==
  ASSUME NEW s \in Seq(Threads), NEW t \in Threads, NEW pri \in [Threads -> Nat],
         SortedByPriority(s, pri)
  PROVE  SortedByPriority(InsertByPriority(s, t, pri), pri)
PROOF
<1> DEFINE r == InsertByPriority(s, t, pri)
<1>1. PICK k \in 0..Len(s) :
        /\ \A i \in 1..k : r[i] = s[i] /\ pri[s[i]] > pri[t]
        /\ r[k + 1] = t
        /\ \A i \in (k + 2)..(Len(s) + 1) : r[i] = s[i - 1]
        /\ k < Len(s) => pri[s[k + 1]] <= pri[t]
  BY InsertShape
<1>2. Len(r) = Len(s) + 1 /\ Len(s) \in Nat
  BY InsertShape
<1>3. \A i, j \in 1..Len(s) : i < j => pri[s[i]] >= pri[s[j]]
  BY DEF SortedByPriority
<1>4. \A i \in 1..Len(s) : s[i] \in Threads /\ pri[s[i]] \in Nat
  OBVIOUS
<1> HIDE DEF r
<1>5. SUFFICES ASSUME NEW i \in 1..Len(r), NEW j \in 1..Len(r), i < j
               PROVE  pri[r[i]] >= pri[r[j]]
  BY DEF SortedByPriority, r
<1>6. CASE j <= k
  <2>1. i \in 1..k /\ j \in 1..k /\ i \in 1..Len(s) /\ j \in 1..Len(s)
    BY <1>2, <1>5, <1>6
  <2>2. r[i] = s[i] /\ r[j] = s[j]
    BY <1>1, <2>1
  <2> QED  BY <1>3, <1>5, <2>1, <2>2
<1>7. CASE j = k + 1
  BY <1>1, <1>2, <1>4, <1>5, <1>7
<1>8. CASE j > k + 1
  <2>1. j - 1 \in 1..Len(s) /\ r[j] = s[j - 1] /\ k + 1 \in 1..Len(s)
    BY <1>1, <1>2, <1>8
  <2>2. CASE i <= k
    <3>1. i \in 1..k /\ i \in 1..Len(s) /\ i < j - 1
      BY <1>2, <1>8, <2>2
    <3>2. r[i] = s[i]
      BY <1>1, <3>1
    <3> QED  BY <1>3, <2>1, <3>1, <3>2
  <2>3. CASE i = k + 1
    <3>1. pri[s[k + 1]] >= pri[s[j - 1]]
      BY SMTT(40), <1>3, <1>4, <2>1, <1>8
    <3>2. pri[s[k + 1]] <= pri[t]
      BY <1>1, <2>1
    <3> QED  BY SMTT(40), <1>1, <1>4, <2>1, <2>3, <3>1, <3>2
  <2>4. CASE i > k + 1
    <3>1. i - 1 \in 1..Len(s) /\ r[i] = s[i - 1] /\ i - 1 < j - 1
      BY <1>1, <1>2, <1>5, <2>4
    <3> QED  BY <1>3, <2>1, <3>1
  <2> QED  BY <1>2, <2>2, <2>3, <2>4
<1> QED  BY <1>2, <1>6, <1>7, <1>8
-----------------------------------------------------------------------------
\* The fields of a scheduler record have their types.
LEMMA Fields ==
  ASSUME NEW S \in SchedType
  PROVE  /\ S.priority \in [Threads -> Nat]
         /\ S.priority \in [Threads -> Priorities]
         /\ S.state \in [Threads -> {"STOPPED", "QUEUED"}]
         /\ S.queue \in [Threads -> QueueIds \cup {Null}]
         /\ S.context \in [Threads -> BOOLEAN]
         /\ S.list \in [QueueIds -> Seq(Threads)]
         /\ S.running \in Threads \cup {Null}
         /\ S.halt \in Halts
         /\ \A q \in QueueIds : S.list[q] \in Seq(Threads) /\ Len(S.list[q]) \in Nat
PROOF
<1>1. /\ S.priority \in [Threads -> Priorities]
      /\ S.state \in [Threads -> {"STOPPED", "QUEUED"}]
      /\ S.queue \in [Threads -> QueueIds \cup {Null}]
      /\ S.context \in [Threads -> BOOLEAN]
      /\ S.list \in [QueueIds -> Seq(Threads)]
      /\ S.running \in Threads \cup {Null}
      /\ S.halt \in Halts
  BY DEF SchedType
<1>2. S.priority \in [Threads -> Nat]
  BY <1>1, PrioritiesAssumption
<1>3. \A q \in QueueIds : S.list[q] \in Seq(Threads) /\ Len(S.list[q]) \in Nat
  BY <1>1
<1> QED  BY <1>1, <1>2, <1>3

\* The identifiers of the lists, and that none of them is the null pointer.
LEMMA QueueIdFacts ==
  ASSUME NEW q \in MQs
  PROVE  /\ RunningQueue \in QueueIds
         /\ BlockedOnRecv(q) \in QueueIds /\ BlockedOnRecv(q) # RunningQueue
         /\ BlockedOnSend(q) \in QueueIds /\ BlockedOnSend(q) # RunningQueue
  BY DEF QueueIds, RunningQueue, BlockedOnRecv, BlockedOnSend

LEMMA RunningQueueId == RunningQueue \in QueueIds
  BY DEF QueueIds

\* The tail of a sorted list is sorted.
LEMMA TailSorted ==
  ASSUME NEW s \in Seq(Threads), s # << >>, NEW pri, SortedByPriority(s, pri)
  PROVE  SortedByPriority(Tail(s), pri)
PROOF
<1>1. /\ Len(Tail(s)) = Len(s) - 1 /\ Len(s) \in Nat
      /\ \A i \in 1..Len(Tail(s)) : Tail(s)[i] = s[i + 1]
  OBVIOUS
<1> SUFFICES ASSUME NEW i \in 1..Len(Tail(s)), NEW j \in 1..Len(Tail(s)), i < j
             PROVE  pri[Tail(s)[i]] >= pri[Tail(s)[j]]
  BY DEF SortedByPriority
<1>2. i + 1 \in 1..Len(s) /\ j + 1 \in 1..Len(s) /\ i + 1 < j + 1
  BY <1>1
<1>3. pri[s[i + 1]] >= pri[s[j + 1]]
  BY <1>2 DEF SortedByPriority
<1> QED  BY <1>1, <1>3

\* The fields thread_queue_insert changes.
LEMMA InsertFields ==
  ASSUME NEW S \in SchedType, NEW q \in QueueIds, NEW t \in Threads
  PROVE  LET R == ThreadQueueInsert(S, q, t) IN
         /\ R \in SchedType
         /\ R.list = [S.list EXCEPT ![q] = InsertByPriority(S.list[q], t, S.priority)]
         /\ R.queue = [S.queue EXCEPT ![t] = q]
         /\ R.priority = S.priority /\ R.state = S.state /\ R.context = S.context
         /\ R.running = S.running /\ R.halt = S.halt
PROOF
<1>1. InsertByPriority(S.list[q], t, S.priority) \in Seq(Threads)
  BY Fields, InsertShape
<1> QED  BY <1>1 DEF ThreadQueueInsert, SchedType

\* The fields schedule_running_thread changes.
LEMMA ScheduleFields ==
  ASSUME NEW S \in SchedType, NEW t \in Threads
  PROVE  LET R == ScheduleRunningThread(S, t) IN
         /\ R \in SchedType
         /\ R.list = [S.list EXCEPT ![RunningQueue] =
                        InsertByPriority(S.list[RunningQueue], t, S.priority)]
         /\ R.queue = [S.queue EXCEPT ![t] = RunningQueue]
         /\ R.state = [S.state EXCEPT ![t] = "QUEUED"]
         /\ R.priority = S.priority /\ R.context = S.context
         /\ R.running = S.running /\ R.halt = S.halt
PROOF
<1> DEFINE I == ThreadQueueInsert(S, RunningQueue, t)
<1>1. I \in SchedType
  BY RunningQueueId, InsertFields
<1>2. ScheduleRunningThread(S, t) = [I EXCEPT !.state[t] = "QUEUED"]
  BY DEF ScheduleRunningThread
<1>3. /\ I.list = [S.list EXCEPT ![RunningQueue] =
                     InsertByPriority(S.list[RunningQueue], t, S.priority)]
      /\ I.queue = [S.queue EXCEPT ![t] = RunningQueue]
      /\ I.priority = S.priority /\ I.state = S.state /\ I.context = S.context
      /\ I.running = S.running /\ I.halt = S.halt
  BY RunningQueueId, InsertFields
<1> HIDE DEF I
<1> DEFINE R == [I EXCEPT !.state[t] = "QUEUED"]
<1>4. R \in SchedType
  BY <1>1 DEF SchedType
<1>5. /\ R.list = I.list /\ R.queue = I.queue /\ R.priority = I.priority
      /\ R.context = I.context /\ R.running = I.running /\ R.halt = I.halt
      /\ R.state = [I.state EXCEPT ![t] = "QUEUED"]
  BY <1>1 DEF SchedType
<1> HIDE DEF R
<1>6. R = ScheduleRunningThread(S, t)
  BY <1>2 DEF R
<1> QED  BY <1>3, <1>4, <1>5, <1>6

\* The fields thread_queue_pop changes.
LEMMA PopFields ==
  ASSUME NEW S \in SchedType, NEW q \in QueueIds, S.list[q] # << >>
  PROVE  LET R == ThreadQueuePop(S, q) IN
         /\ R \in SchedType
         /\ S.list[q][1] \in Threads
         /\ R.list = [S.list EXCEPT ![q] = Tail(S.list[q])]
         /\ R.queue = [S.queue EXCEPT ![S.list[q][1]] = Null]
         /\ R.priority = S.priority /\ R.state = S.state /\ R.context = S.context
         /\ R.running = S.running /\ R.halt = S.halt
PROOF
<1>1. /\ S.list[q] \in Seq(Threads) /\ Tail(S.list[q]) \in Seq(Threads)
      /\ S.list[q][1] \in Threads
  BY Fields
<1> QED  BY <1>1 DEF ThreadQueuePop, SchedType
-----------------------------------------------------------------------------
(***************************************************************************)
(* The invariants of a scheduler record under the operations on lists.     *)
(***************************************************************************)
Listed(S, q, t) == \E i \in 1..Len(S.list[q]) : S.list[q][i] = t
NotListed(S, t) == \A q \in QueueIds : ~Listed(S, q, t)
Distinct(s)     == \A i, j \in 1..Len(s) : s[i] = s[j] => i = j

\* ListsOK by members: what holds of a listed thread, and no repetition.
ListedOK(S, q, t) == S.queue[t] = q /\ S.context[t] /\ S.state[t] = "QUEUED"

LEMMA ListsByMembers ==
  ASSUME NEW S \in SchedType
  PROVE  ListsOK(S) <=> \A q \in QueueIds :
                           /\ \A t \in Threads : Listed(S, q, t) => ListedOK(S, q, t)
                           /\ Distinct(S.list[q])
PROOF
<1>1. \A q \in QueueIds : \A i \in 1..Len(S.list[q]) : S.list[q][i] \in Threads
  BY Fields
<1> QED  BY <1>1 DEF ListsOK, Listed, ListedOK, Distinct

\* A list gains a thread that was in no list.
LEMMA AddToList ==
  ASSUME NEW S \in SchedType, NEW R \in SchedType, NEW q \in QueueIds,
         NEW t \in Threads,
         R.list = [S.list EXCEPT ![q] = InsertByPriority(S.list[q], t, S.priority)],
         R.queue = [S.queue EXCEPT ![t] = q],
         R.priority = S.priority, R.context = S.context,
         R.state = [S.state EXCEPT ![t] = "QUEUED"],
         S.context[t], ListsOK(S), SortedOK(S), NotListed(S, t)
  PROVE  /\ ListsOK(R) /\ SortedOK(R)
         /\ \A p \in QueueIds, u \in Threads :
              Listed(R, p, u) <=> Listed(S, p, u) \/ (p = q /\ u = t)
         /\ \A u \in Threads \ {t} : NotListed(S, u) => NotListed(R, u)
PROOF
<1> DEFINE s == S.list[q]
           r == InsertByPriority(s, t, S.priority)
<1>1. s \in Seq(Threads) /\ S.priority \in [Threads -> Nat]
  BY Fields
<1>2. /\ R.list[q] = r
      /\ \A p \in QueueIds \ {q} : R.list[p] = S.list[p]
  BY Fields
<1>3. /\ \A i \in 1..Len(r) : r[i] = t \/ \E j \in 1..Len(s) : r[i] = s[j]
      /\ \A j \in 1..Len(s) : \E i \in 1..Len(r) : r[i] = s[j]
      /\ \E i \in 1..Len(r) : r[i] = t
  <2> DEFINE pri == S.priority
  <2> HIDE DEF s, pri
  <2>1. s \in Seq(Threads) /\ pri \in [Threads -> Nat]
    BY <1>1 DEF pri
  <2>2. LET x == InsertByPriority(s, t, pri) IN
          /\ \A i \in 1..Len(x) : x[i] = t \/ \E j \in 1..Len(s) : x[i] = s[j]
          /\ \A j \in 1..Len(s) : \E i \in 1..Len(x) : x[i] = s[j]
          /\ \E i \in 1..Len(x) : x[i] = t
    BY ONLY <2>1, InsertMembers, t \in Threads
  <2> QED  BY <2>2 DEF pri
<1>4. \A p \in QueueIds, u \in Threads :
        Listed(R, p, u) <=> Listed(S, p, u) \/ (p = q /\ u = t)
  <2> HIDE DEF r
  <2> TAKE p \in QueueIds, u \in Threads
  <2>1. CASE p = q
    <3> HIDE DEF s
    <3>1. Listed(R, p, u) <=> \E i \in 1..Len(r) : r[i] = u
      BY <1>2, <2>1 DEF Listed
    <3>2. Listed(S, p, u) <=> \E i \in 1..Len(s) : s[i] = u
      BY <2>1 DEF Listed, s
    <3>3. (\E i \in 1..Len(r) : r[i] = u) => u = t \/ \E j \in 1..Len(s) : s[j] = u
      BY <1>3
    <3>4. ASSUME NEW j \in 1..Len(s), s[j] = u
          PROVE  \E i \in 1..Len(r) : r[i] = u
      <4>1. \E i \in 1..Len(r) : r[i] = s[j]
        BY <1>3
      <4> QED  BY <3>4, <4>1
    <3>5. u = t => \E i \in 1..Len(r) : r[i] = u
      BY <1>3
    <3> QED  BY <2>1, <3>1, <3>2, <3>3, <3>4, <3>5
  <2>2. CASE p # q
    BY <1>2, <2>2 DEF Listed
  <2> QED  BY <2>1, <2>2
<1>5. \A p \in QueueIds : Distinct(R.list[p])
  <2>1. \A p \in QueueIds : Distinct(S.list[p])
    BY ListsByMembers
  <2>2. \A i \in 1..Len(s) : s[i] # t
    BY DEF NotListed, Listed
  <2>3. Distinct(r)
    BY <1>1, <2>1, <2>2, InsertDistinct DEF Distinct
  <2> QED  BY <1>2, <2>1, <2>3
<1>6. \A p \in QueueIds, u \in Threads : Listed(R, p, u) => ListedOK(R, p, u)
  <2> SUFFICES ASSUME NEW p \in QueueIds, NEW u \in Threads, Listed(R, p, u)
               PROVE  ListedOK(R, p, u)
    OBVIOUS
  <2>1. CASE u = t
    <3>1. p = q
      BY <1>4, <2>1 DEF NotListed
    <3> QED  BY <2>1, <3>1, Fields DEF ListedOK
  <2>2. CASE u # t
    <3>1. ListedOK(S, p, u)
      BY <1>4, <2>2, ListsByMembers
    <3> QED  BY <2>2, <3>1, Fields DEF ListedOK
  <2> QED  BY <2>1, <2>2
<1>7. ListsOK(R)
  BY <1>5, <1>6, ListsByMembers
<1>8. SortedOK(R)
  <2>1. SortedByPriority(r, S.priority)
    BY <1>1, InsertSorted DEF SortedOK
  <2> QED  BY <1>2, <2>1 DEF SortedOK
<1>9. \A u \in Threads \ {t} : NotListed(S, u) => NotListed(R, u)
  BY <1>4 DEF NotListed
<1> QED  BY <1>4, <1>7, <1>8, <1>9

\* A list loses its head.
LEMMA RemoveHead ==
  ASSUME NEW S \in SchedType, NEW R \in SchedType, NEW q \in QueueIds,
         S.list[q] # << >>,
         R.list = [S.list EXCEPT ![q] = Tail(S.list[q])],
         \/ R.queue = S.queue
         \/ R.queue = [S.queue EXCEPT ![S.list[q][1]] = Null],
         R.priority = S.priority, R.context = S.context, R.state = S.state,
         ListsOK(S), \A p \in QueueIds \ {q} : SortedByPriority(S.list[p], S.priority),
         SortedByPriority(Tail(S.list[q]), S.priority)
  PROVE  /\ ListsOK(R) /\ SortedOK(R)
         /\ NotListed(R, S.list[q][1])
         /\ \A p \in QueueIds, u \in Threads :
              u # S.list[q][1] => (Listed(R, p, u) <=> Listed(S, p, u))
PROOF
<1> DEFINE s == S.list[q]
           h == s[1]
<1>1. /\ s \in Seq(Threads) /\ h \in Threads /\ Tail(s) \in Seq(Threads)
      /\ Len(Tail(s)) = Len(s) - 1 /\ Len(s) \in Nat /\ Len(s) >= 1
      /\ \A i \in 1..Len(Tail(s)) : Tail(s)[i] = s[i + 1]
  BY Fields
<1>2. /\ R.list[q] = Tail(s)
      /\ \A p \in QueueIds \ {q} : R.list[p] = S.list[p]
  BY Fields
<1>3. \A p \in QueueIds : Distinct(S.list[p])
  BY ListsByMembers
<1>4. ~Listed(R, q, h)
  <2> SUFFICES ASSUME NEW i \in 1..Len(Tail(s))  PROVE Tail(s)[i] # h
    BY <1>2 DEF Listed
  <2>1. i + 1 \in 1..Len(s) /\ 1 \in 1..Len(s) /\ Tail(s)[i] = s[i + 1] /\ i + 1 # 1
    BY <1>1
  <2>2. Distinct(s)
    BY <1>3
  <2> QED  BY <2>1, <2>2 DEF Distinct
<1>5. \A u \in Threads : u # h => (Listed(R, q, u) <=> Listed(S, q, u))
  <2> SUFFICES ASSUME NEW u \in Threads, u # h
               PROVE  Listed(R, q, u) <=> Listed(S, q, u)
    OBVIOUS
  <2>1. ASSUME Listed(R, q, u)  PROVE Listed(S, q, u)
    <3>1. PICK i \in 1..Len(Tail(s)) : Tail(s)[i] = u
      BY <1>2, <2>1 DEF Listed
    <3>2. i + 1 \in 1..Len(s) /\ s[i + 1] = u
      BY <1>1, <3>1
    <3> QED  BY <3>2 DEF Listed
  <2>2. ASSUME Listed(S, q, u)  PROVE Listed(R, q, u)
    <3>1. PICK i \in 1..Len(s) : s[i] = u
      BY <2>2 DEF Listed
    <3>2. i # 1
      BY <3>1
    <3>3. i - 1 \in 1..Len(Tail(s))
      BY <1>1, <3>2
    <3>4. Tail(s)[i - 1] = s[(i - 1) + 1] /\ (i - 1) + 1 = i
      BY <1>1, <3>3
    <3> QED  BY <1>2, <3>1, <3>3, <3>4 DEF Listed
  <2> QED  BY <2>1, <2>2
<1>6. \A p \in QueueIds \ {q}, u \in Threads : Listed(R, p, u) <=> Listed(S, p, u)
  BY <1>2 DEF Listed
<1>7. NotListed(R, h)
  <2> SUFFICES ASSUME NEW p \in QueueIds \ {q}, Listed(R, p, h)  PROVE FALSE
    BY <1>4 DEF NotListed
  <2>1. Listed(S, p, h) /\ Listed(S, q, h)
    BY <1>1, <1>6 DEF Listed
  <2> QED  BY <1>1, <2>1, ListsByMembers DEF ListedOK
<1>8. \A p \in QueueIds : Distinct(R.list[p])
  <2>1. Distinct(Tail(s))
    <3> SUFFICES ASSUME NEW i \in 1..Len(Tail(s)), NEW j \in 1..Len(Tail(s)),
                        Tail(s)[i] = Tail(s)[j]
                 PROVE  i = j
      BY DEF Distinct
    <3>1. i + 1 \in 1..Len(s) /\ j + 1 \in 1..Len(s) /\ s[i + 1] = s[j + 1]
      BY <1>1
    <3>2. i + 1 = j + 1
      BY <1>3, <3>1 DEF Distinct
    <3> QED  BY <3>2
  <2> QED  BY <1>2, <1>3, <2>1
<1>9. \A p \in QueueIds, u \in Threads : Listed(R, p, u) => ListedOK(R, p, u)
  <2> SUFFICES ASSUME NEW p \in QueueIds, NEW u \in Threads, Listed(R, p, u)
               PROVE  ListedOK(R, p, u)
    OBVIOUS
  <2>1. u # h /\ Listed(S, p, u)
    BY <1>5, <1>6, <1>7 DEF NotListed
  <2>2. ListedOK(S, p, u)
    BY <2>1, ListsByMembers
  <2> QED  BY <1>1, <2>1, <2>2, Fields DEF ListedOK
<1>10. ListsOK(R)
  BY <1>8, <1>9, ListsByMembers
<1>11. SortedOK(R)
  BY <1>2 DEF SortedOK
<1> QED  BY <1>5, <1>6, <1>7, <1>10, <1>11
-----------------------------------------------------------------------------
(***************************************************************************)
(* The operations of scheduling.cpp and threads.cpp on a good scheduler.   *)
(***************************************************************************)
Good(S) ==
  /\ S \in SchedType
  /\ S.halt = "none"
  /\ S.running \in Threads
  /\ ListsOK(S) /\ SortedOK(S) /\ TokenOK(S) /\ IdleOK(S)

\* IdleOK in terms of list membership, for a scheduler that was booted.
LEMMA IdleListed ==
  ASSUME NEW S, S.running \in Threads
  PROVE  IdleOK(S) <=> S.running = Idle \/ Listed(S, RunningQueue, Idle)
  BY ThreadsAssumption DEF IdleOK, Listed

\* The holder of the token is in no list, and a listed thread is not the
\* holder: their queue fields differ.
LEMMA HolderNotListed ==
  ASSUME NEW S \in SchedType, ListsOK(S), TokenOK(S), S.running \in Threads
  PROVE  NotListed(S, S.running)
PROOF
<1>1. S.queue[S.running] = Null
  BY ThreadsAssumption DEF TokenOK
<1>2. Null \notin QueueIds
  BY NullAssumption
<1> QED  BY <1>1, <1>2, ListsByMembers DEF NotListed, ListedOK

\* A thread whose queue field is null is in no list.
LEMMA NullNotListed ==
  ASSUME NEW S \in SchedType, ListsOK(S), NEW t \in Threads, S.queue[t] = Null
  PROVE  NotListed(S, t)
  BY NullAssumption, ListsByMembers DEF NotListed, ListedOK

\* The head of a list and what it dominates.
LEMMA HeadListed ==
  ASSUME NEW S \in SchedType, NEW q \in QueueIds, S.list[q] # << >>
  PROVE  Listed(S, q, S.list[q][1]) /\ S.list[q][1] \in Threads
  BY Fields DEF Listed

\* Popping the head of a list.
LEMMA PopGood ==
  ASSUME NEW S \in SchedType, NEW q \in QueueIds, S.list[q] # << >>,
         ListsOK(S), SortedOK(S),
         NEW R, R = ThreadQueuePop(S, q), NEW h, h = S.list[q][1]
  PROVE  /\ R \in SchedType /\ h \in Threads
         /\ ListsOK(R) /\ SortedOK(R) /\ NotListed(R, h)
         /\ R.queue = [S.queue EXCEPT ![h] = Null]
         /\ R.priority = S.priority /\ R.state = S.state /\ R.context = S.context
         /\ R.running = S.running /\ R.halt = S.halt
         /\ \A p \in QueueIds, u \in Threads :
              u # h => (Listed(R, p, u) <=> Listed(S, p, u))
PROOF
<1>1. /\ R \in SchedType /\ h \in Threads
      /\ R.list = [S.list EXCEPT ![q] = Tail(S.list[q])]
      /\ R.queue = [S.queue EXCEPT ![h] = Null]
      /\ R.priority = S.priority /\ R.state = S.state /\ R.context = S.context
      /\ R.running = S.running /\ R.halt = S.halt
  BY PopFields
<1>2. \A p \in QueueIds : SortedByPriority(S.list[p], S.priority)
  BY DEF SortedOK
<1>3. SortedByPriority(Tail(S.list[q]), S.priority)
  BY <1>2, Fields, TailSorted
<1>4. /\ ListsOK(R) /\ SortedOK(R) /\ NotListed(R, h)
      /\ \A p \in QueueIds, u \in Threads :
           u # h => (Listed(R, p, u) <=> Listed(S, p, u))
  BY <1>1, <1>2, <1>3, RemoveHead
<1> QED  BY <1>1, <1>4

\* Scheduling a thread that is alive and in no list.
LEMMA ScheduleGood ==
  ASSUME NEW S \in SchedType, NEW t \in Threads, S.context[t],
         ListsOK(S), SortedOK(S), NotListed(S, t),
         NEW R, R = ScheduleRunningThread(S, t)
  PROVE  /\ R \in SchedType /\ ListsOK(R) /\ SortedOK(R)
         /\ R.queue = [S.queue EXCEPT ![t] = RunningQueue]
         /\ R.state = [S.state EXCEPT ![t] = "QUEUED"]
         /\ R.priority = S.priority /\ R.context = S.context
         /\ R.running = S.running /\ R.halt = S.halt
         /\ \A p \in QueueIds, u \in Threads :
              Listed(R, p, u) <=> Listed(S, p, u) \/ (p = RunningQueue /\ u = t)
         /\ \A u \in Threads \ {t} : NotListed(S, u) => NotListed(R, u)
PROOF
<1>1. /\ R \in SchedType
      /\ R.list = [S.list EXCEPT ![RunningQueue] =
                     InsertByPriority(S.list[RunningQueue], t, S.priority)]
      /\ R.queue = [S.queue EXCEPT ![t] = RunningQueue]
      /\ R.state = [S.state EXCEPT ![t] = "QUEUED"]
      /\ R.priority = S.priority /\ R.context = S.context
      /\ R.running = S.running /\ R.halt = S.halt
  BY ScheduleFields
<1> QED  BY <1>1, RunningQueueId, AddToList

\* The head of the running queue has the highest priority of the queue.
LEMMA HeadIsTop ==
  ASSUME NEW S \in SchedType, SortedOK(S), S.list[RunningQueue] # << >>
  PROVE  \A u \in Threads : Listed(S, RunningQueue, u) =>
           S.priority[S.list[RunningQueue][1]] >= S.priority[u]
PROOF
<1> DEFINE s == S.list[RunningQueue]
<1>1. s \in Seq(Threads) /\ S.priority \in [Threads -> Nat] /\ s # << >>
  BY Fields, RunningQueueId
<1>2. \A i, j \in 1..Len(s) : i < j => S.priority[s[i]] >= S.priority[s[j]]
  BY RunningQueueId DEF SortedOK, SortedByPriority
<1> SUFFICES ASSUME NEW i \in 1..Len(s)
             PROVE  S.priority[s[1]] >= S.priority[s[i]]
  BY DEF Listed
<1>3. CASE i = 1   BY <1>1, <1>3
<1>4. CASE i > 1
  <2>1. 1 \in 1..Len(s) /\ 1 < i
    BY <1>1, <1>4
  <2> QED  BY <1>2, <2>1
<1> QED  BY <1>3, <1>4

\* check_running_queue restores the dominance of the token holder.
LEMMA CheckGood ==
  ASSUME NEW S, Good(S), NEW R, R = CheckRunningQueue(S)
  PROVE  /\ Good(R) /\ TopOK(R)
         /\ R.priority = S.priority /\ R.context = S.context
PROOF
<1> DEFINE head == S.list[RunningQueue][1]
           self == S.running
           Swap == /\ S.list[RunningQueue] # << >>
                   /\ S.priority[head] > S.priority[self]
<1>1. /\ S \in SchedType /\ S.halt = "none" /\ self \in Threads
      /\ ListsOK(S) /\ SortedOK(S) /\ TokenOK(S) /\ IdleOK(S)
      /\ self # Null
  BY ThreadsAssumption DEF Good
<1>2. CASE ~Swap
  <2>1. R = S
    BY <1>2 DEF CheckRunningQueue
  <2>2. TopOK(S)
    <3> SUFFICES ASSUME NEW i \in 1..Len(S.list[RunningQueue])
                 PROVE  S.priority[self] >= S.priority[S.list[RunningQueue][i]]
      BY DEF TopOK
    <3>1. /\ S.list[RunningQueue] \in Seq(Threads) /\ S.list[RunningQueue] # << >>
          /\ S.priority \in [Threads -> Nat] /\ head \in Threads
          /\ S.list[RunningQueue][i] \in Threads
      BY <1>1, Fields, RunningQueueId
    <3>2. S.priority[head] >= S.priority[S.list[RunningQueue][i]]
      BY <1>1, <3>1, HeadIsTop DEF Listed
    <3>3. ~(S.priority[head] > S.priority[self])
      BY <1>2, <3>1
    <3> QED  BY SMTT(40), <1>1, <3>1, <3>2, <3>3
  <2> QED  BY <2>1, <2>2
<1>3. CASE Swap
  <2> DEFINE P == ThreadQueuePop(S, RunningQueue)
             Q == ScheduleRunningThread(P, self)
  <2>1. R = [Q EXCEPT !.running = head]
    BY <1>3 DEF CheckRunningQueue
  <2>2. /\ P \in SchedType /\ head \in Threads
        /\ ListsOK(P) /\ SortedOK(P) /\ NotListed(P, head)
        /\ P.queue = [S.queue EXCEPT ![head] = Null]
        /\ P.priority = S.priority /\ P.state = S.state /\ P.context = S.context
        /\ P.running = S.running /\ P.halt = S.halt
        /\ \A p \in QueueIds, u \in Threads :
             u # head => (Listed(P, p, u) <=> Listed(S, p, u))
    BY <1>1, <1>3, RunningQueueId, PopGood
  <2>3. ListedOK(S, RunningQueue, head)
    BY <1>1, <1>3, RunningQueueId, HeadListed, ListsByMembers
  <2>4. self # head
    BY <1>1, <2>3, NullAssumption, RunningQueueId DEF TokenOK, ListedOK
  <2>5. NotListed(P, self) /\ P.context[self]
    <3>1. NotListed(S, self)
      BY <1>1, HolderNotListed
    <3> QED  BY <1>1, <2>2, <2>4, <3>1 DEF NotListed, TokenOK
  <2> HIDE DEF P
  <2>6. /\ Q \in SchedType /\ ListsOK(Q) /\ SortedOK(Q)
        /\ Q.queue = [P.queue EXCEPT ![self] = RunningQueue]
        /\ Q.state = [P.state EXCEPT ![self] = "QUEUED"]
        /\ Q.priority = P.priority /\ Q.context = P.context
        /\ Q.running = P.running /\ Q.halt = P.halt
        /\ \A p \in QueueIds, u \in Threads :
             Listed(Q, p, u) <=> Listed(P, p, u) \/ (p = RunningQueue /\ u = self)
        /\ NotListed(Q, head)
    <3> HIDE DEF head, self
    <3>1. /\ Q \in SchedType /\ ListsOK(Q) /\ SortedOK(Q)
          /\ Q.queue = [P.queue EXCEPT ![self] = RunningQueue]
          /\ Q.state = [P.state EXCEPT ![self] = "QUEUED"]
          /\ Q.priority = P.priority /\ Q.context = P.context
          /\ Q.running = P.running /\ Q.halt = P.halt
          /\ \A p \in QueueIds, u \in Threads :
               Listed(Q, p, u) <=> Listed(P, p, u) \/ (p = RunningQueue /\ u = self)
          /\ \A u \in Threads \ {self} : NotListed(P, u) => NotListed(Q, u)
      BY <1>1, <2>2, <2>5, ScheduleGood
    <3> QED  BY <2>2, <2>4, <3>1
  <2> HIDE DEF Q
  <2>7. /\ R \in SchedType /\ R.running = head /\ R.halt = "none"
        /\ R.list = Q.list /\ R.queue = Q.queue /\ R.state = Q.state
        /\ R.priority = S.priority /\ R.context = S.context
    <3>1. /\ R.running = head /\ R.halt = Q.halt
          /\ R.list = Q.list /\ R.queue = Q.queue /\ R.state = Q.state
          /\ R.priority = Q.priority /\ R.context = Q.context
      BY <2>1, <2>6 DEF SchedType
    <3>2. R \in SchedType
      <4> HIDE DEF head
      <4> QED  BY <2>1, <2>2, <2>6 DEF SchedType
    <3> QED  BY <1>1, <2>2, <2>6, <3>1, <3>2
  <2>8. ListsOK(R) /\ SortedOK(R)
    BY SMTT(40), <2>2, <2>6, <2>7 DEF ListsOK, SortedOK
  <2>9. TokenOK(R)
    <3>1. R.queue[head] = Null
      BY <1>1, <2>2, <2>4, <2>6, <2>7, Fields
    <3>2. R.context[head] /\ R.state[head] = "QUEUED"
      BY <1>1, <2>2, <2>3, <2>6, <2>7, Fields DEF ListedOK
    <3> QED  BY <2>7, <3>1, <3>2 DEF TokenOK
  <2>10. IdleOK(R)
    <3>1. \A u \in Threads : Listed(R, RunningQueue, u) <=> Listed(Q, RunningQueue, u)
      BY <2>7 DEF Listed
    <3>2. CASE self = Idle
      BY <1>1, <2>2, <2>6, <2>7, <3>1, <3>2, IdleListed, RunningQueueId
    <3>3. CASE self # Idle /\ head = Idle
      BY <2>2, <2>7, <3>3, IdleListed
    <3>4. CASE self # Idle /\ head # Idle
      <4>1. Listed(S, RunningQueue, Idle)
        BY <1>1, <3>4, IdleListed
      <4> QED  BY <2>2, <2>6, <2>7, <3>1, <3>4, <4>1, IdleListed,
                  ThreadsAssumption, RunningQueueId
    <3> QED  BY <3>2, <3>3, <3>4
  <2>11. TopOK(R)
    <3> SUFFICES ASSUME NEW i \in 1..Len(R.list[RunningQueue])
                 PROVE  R.priority[head] >= R.priority[R.list[RunningQueue][i]]
      BY <2>7 DEF TopOK
    <3> DEFINE u == R.list[RunningQueue][i]
    <3>1. u \in Threads /\ Listed(Q, RunningQueue, u)
      BY <2>7, Fields, RunningQueueId DEF Listed
    <3>2. /\ S.priority[head] \in Nat /\ S.priority[u] \in Nat
          /\ S.priority[self] \in Nat
      BY <1>1, <2>2, <3>1, Fields
    <3>3. CASE u = self
      BY <1>3, <2>7, <3>2, <3>3
    <3>4. CASE u # self
      <4>1. Listed(P, RunningQueue, u)
        BY <2>6, <3>1, <3>4, RunningQueueId
      <4>2. u # head
        BY <2>2, <4>1, RunningQueueId DEF NotListed
      <4>3. Listed(S, RunningQueue, u)
        BY <2>2, <3>1, <4>1, <4>2, RunningQueueId
      <4> QED  BY <1>1, <1>3, <2>7, <3>1, <4>3, HeadIsTop
    <3> QED  BY <3>3, <3>4
  <2> QED  BY <2>2, <2>7, <2>8, <2>9, <2>10, <2>11 DEF Good
<1> QED  BY <1>2, <1>3

\* run_next_thread finds the idle thread at the latest, and hands the token
\* to a thread of the highest priority that is ready.
LEMMA RunNextGood ==
  ASSUME NEW S \in SchedType, S.halt = "none", S.running \in Threads,
         ListsOK(S), SortedOK(S), Listed(S, RunningQueue, Idle),
         NEW R, R = RunNextThread(S)
  PROVE  Good(R) /\ TopOK(R)
PROOF
<1> DEFINE head == S.list[RunningQueue][1]
           P == ThreadQueuePop(S, RunningQueue)
<1>1. S.list[RunningQueue] # << >>
  BY DEF Listed
<1>2. R = [P EXCEPT !.running = head]
  BY <1>1 DEF RunNextThread
<1>3. /\ P \in SchedType /\ head \in Threads
      /\ ListsOK(P) /\ SortedOK(P) /\ NotListed(P, head)
      /\ P.queue = [S.queue EXCEPT ![head] = Null]
      /\ P.priority = S.priority /\ P.state = S.state /\ P.context = S.context
      /\ P.running = S.running /\ P.halt = S.halt
      /\ \A p \in QueueIds, u \in Threads :
           u # head => (Listed(P, p, u) <=> Listed(S, p, u))
  BY <1>1, RunningQueueId, PopGood
<1>4. ListedOK(S, RunningQueue, head)
  BY <1>1, RunningQueueId, HeadListed, ListsByMembers
<1> HIDE DEF P
<1>5. /\ R \in SchedType /\ R.running = head /\ R.halt = "none"
      /\ R.list = P.list /\ R.queue = P.queue /\ R.state = P.state
      /\ R.priority = S.priority /\ R.context = P.context
  <2> HIDE DEF head
  <2>1. R \in SchedType
    BY <1>2, <1>3 DEF SchedType
  <2>2. /\ R.running = head /\ R.halt = P.halt
        /\ R.list = P.list /\ R.queue = P.queue /\ R.state = P.state
        /\ R.priority = P.priority /\ R.context = P.context
    BY <1>2, <1>3 DEF SchedType
  <2> QED  BY <1>3, <2>1, <2>2
<1>6. ListsOK(R) /\ SortedOK(R)
  BY <1>3, <1>5 DEF ListsOK, SortedOK
<1>7. TokenOK(R)
  <2>1. R.queue[head] = Null /\ R.context[head] /\ R.state[head] = "QUEUED"
    BY <1>3, <1>4, <1>5, Fields DEF ListedOK
  <2> QED  BY <1>5, <2>1 DEF TokenOK
<1>8. \A u \in Threads : Listed(R, RunningQueue, u) <=> Listed(P, RunningQueue, u)
  BY <1>5 DEF Listed
<1>9. IdleOK(R)
  <2> HIDE DEF head
  <2>1. head = Idle \/ Listed(R, RunningQueue, Idle)
    BY <1>3, <1>8, ThreadsAssumption, RunningQueueId
  <2> QED  BY <1>3, <1>5, <2>1, IdleListed
<1>10. TopOK(R)
  <2> SUFFICES ASSUME NEW i \in 1..Len(R.list[RunningQueue])
               PROVE  R.priority[head] >= R.priority[R.list[RunningQueue][i]]
    BY <1>5 DEF TopOK
  <2> DEFINE u == R.list[RunningQueue][i]
  <2>1. u \in Threads /\ Listed(P, RunningQueue, u)
    BY <1>5, Fields, RunningQueueId DEF Listed
  <2>2. u # head
    BY <1>3, <2>1, RunningQueueId DEF NotListed
  <2>3. Listed(S, RunningQueue, u)
    BY <1>3, <2>1, <2>2, RunningQueueId
  <2> QED  BY <1>1, <1>5, <2>1, <2>3, HeadIsTop
<1> QED  BY <1>3, <1>5, <1>6, <1>7, <1>9, <1>10 DEF Good

\* thread_queue_insert of a live thread that is in no list.
LEMMA InsertGood ==
  ASSUME NEW S \in SchedType, NEW q \in QueueIds, NEW t \in Threads,
         S.context[t], S.state[t] = "QUEUED",
         ListsOK(S), SortedOK(S), NotListed(S, t),
         NEW R, R = ThreadQueueInsert(S, q, t)
  PROVE  /\ R \in SchedType /\ ListsOK(R) /\ SortedOK(R)
         /\ R.queue = [S.queue EXCEPT ![t] = q]
         /\ R.priority = S.priority /\ R.context = S.context /\ R.state = S.state
         /\ R.running = S.running /\ R.halt = S.halt
         /\ \A p \in QueueIds, u \in Threads :
              Listed(R, p, u) <=> Listed(S, p, u) \/ (p = q /\ u = t)
PROOF
<1>1. /\ R \in SchedType
      /\ R.list = [S.list EXCEPT ![q] = InsertByPriority(S.list[q], t, S.priority)]
      /\ R.queue = [S.queue EXCEPT ![t] = q]
      /\ R.priority = S.priority /\ R.context = S.context /\ R.state = S.state
      /\ R.running = S.running /\ R.halt = S.halt
  BY InsertFields
<1>2. R.state = [S.state EXCEPT ![t] = "QUEUED"]
  BY <1>1, Fields
<1> QED  BY <1>1, <1>2, AddToList

\* A thread other than the idle one blocks on a message queue.
LEMMA BlockGood ==
  ASSUME NEW S, Good(S), S.running # Idle, NEW q \in QueueIds,
         NEW R, R = BlockOn(S, q)
  PROVE  Good(R) /\ TopOK(R)
PROOF
<1>1. /\ S \in SchedType /\ S.halt = "none" /\ S.running \in Threads
      /\ ListsOK(S) /\ SortedOK(S) /\ TokenOK(S) /\ IdleOK(S)
      /\ S.context[S.running] /\ S.state[S.running] = "QUEUED"
  BY ThreadsAssumption DEF Good, TokenOK
<1>2. NotListed(S, S.running)
  BY <1>1, HolderNotListed
<1>3. PICK I : I = ThreadQueueInsert(S, q, S.running)
  OBVIOUS
<1>4. PICK self \in Threads : self = S.running
  BY <1>1
<1>5. I = ThreadQueueInsert(S, q, self) /\ S.context[self]
      /\ S.state[self] = "QUEUED" /\ NotListed(S, self)
  BY <1>1, <1>2, <1>3, <1>4
<1>6. /\ I \in SchedType /\ ListsOK(I) /\ SortedOK(I)
      /\ I.queue = [S.queue EXCEPT ![self] = q]
      /\ I.priority = S.priority /\ I.context = S.context /\ I.state = S.state
      /\ I.running = S.running /\ I.halt = S.halt
      /\ \A p \in QueueIds, u \in Threads :
           Listed(I, p, u) <=> Listed(S, p, u) \/ (p = q /\ u = self)
  BY <1>1, <1>5, InsertGood
<1>7. R = RunNextThread(I)
  BY <1>3 DEF BlockOn
<1>8. Listed(S, RunningQueue, Idle)
  BY <1>1, IdleListed
<1>9. Listed(I, RunningQueue, Idle)
  BY <1>6, <1>8, RunningQueueId, ThreadsAssumption
<1> QED  BY <1>1, <1>6, <1>7, <1>9, RunNextGood

\* A wakeup moves one thread to the running queue and keeps the token.
LEMMA WakeGood ==
  ASSUME NEW S, Good(S), NEW q \in QueueIds, q # RunningQueue,
         NEW R, R = WakeOne(S, q)
  PROVE  Good(R) /\ R.running = S.running
PROOF
<1> DEFINE head == S.list[q][1]
           P == ThreadQueuePop(S, q)
<1>1. /\ S \in SchedType /\ S.halt = "none" /\ S.running \in Threads
      /\ ListsOK(S) /\ SortedOK(S) /\ TokenOK(S) /\ IdleOK(S)
      /\ S.running # Null
  BY ThreadsAssumption DEF Good
<1>2. CASE S.list[q] = << >>
  BY <1>2 DEF WakeOne
<1>3. CASE S.list[q] # << >>
  <2>1. R = ScheduleRunningThread(P, head)
    BY <1>3 DEF WakeOne
  <2>2. /\ P \in SchedType /\ head \in Threads
        /\ ListsOK(P) /\ SortedOK(P) /\ NotListed(P, head)
        /\ P.queue = [S.queue EXCEPT ![head] = Null]
        /\ P.priority = S.priority /\ P.state = S.state /\ P.context = S.context
        /\ P.running = S.running /\ P.halt = S.halt
        /\ \A p \in QueueIds, u \in Threads :
             u # head => (Listed(P, p, u) <=> Listed(S, p, u))
    BY <1>1, <1>3, PopGood
  <2>3. ListedOK(S, q, head) /\ Listed(S, q, head)
    BY <1>1, <1>3, HeadListed, ListsByMembers
  <2> HIDE DEF P, head
  <2>4. P.context[head]
    BY <2>2, <2>3 DEF ListedOK
  <2>5. /\ R \in SchedType /\ ListsOK(R) /\ SortedOK(R)
        /\ R.queue = [P.queue EXCEPT ![head] = RunningQueue]
        /\ R.state = [P.state EXCEPT ![head] = "QUEUED"]
        /\ R.priority = P.priority /\ R.context = P.context
        /\ R.running = P.running /\ R.halt = P.halt
        /\ \A p \in QueueIds, u \in Threads :
             Listed(R, p, u) <=> Listed(P, p, u) \/ (p = RunningQueue /\ u = head)
    BY <2>1, <2>2, <2>4, ScheduleGood
  <2>6. S.running # head
    BY <1>1, <2>3, NullAssumption DEF TokenOK, ListedOK
  <2>7. TokenOK(R)
    <3>1. /\ R.running = S.running
          /\ R.queue[S.running] = Null
          /\ R.context[S.running] /\ R.state[S.running] = "QUEUED"
      BY <1>1, <2>2, <2>5, <2>6, Fields DEF TokenOK
    <3> QED  BY <3>1 DEF TokenOK
  <2>8. IdleOK(R)
    <3>1. S.running = Idle \/ Listed(S, RunningQueue, Idle)
      BY <1>1, IdleListed
    <3>2. CASE Listed(S, RunningQueue, Idle)
      <4>1. Idle # head
        BY <1>1, <2>3, <3>2, RunningQueueId, ThreadsAssumption, ListsByMembers
           DEF ListedOK
      <4> QED  BY <1>1, <2>2, <2>5, <3>2, <4>1, RunningQueueId,
                  ThreadsAssumption, IdleListed
    <3> QED  BY <1>1, <2>2, <2>5, <3>1, <3>2, IdleListed
  <2> QED  BY <1>1, <2>2, <2>5, <2>7, <2>8 DEF Good
<1> QED  BY <1>1, <1>2, <1>3
-----------------------------------------------------------------------------
(***************************************************************************)
(* The ring buffers.                                                       *)
(***************************************************************************)

\* The fields of a ring that was created.
LEMMA RingFields ==
  ASSUME NEW r \in RingType
  PROVE  /\ r.msgCount \in Nat \ {0}
         /\ r.first \in 0..(r.msgCount - 1)
         /\ r.validCount \in 0..r.msgCount
         /\ r.msg \in [0..(r.msgCount - 1) -> Msgs \cup {Null}]
  BY QueuesAssumption DEF RingType

LEMMA FullOrEmpty ==
  ASSUME NEW r \in RingType \cup {NoRing}
  PROVE  /\ ~MQ_IS_FULL(r) => r \in RingType
         /\ ~MQ_IS_EMPTY(r) => r \in RingType
  BY DEF NoRing, MQ_IS_FULL, MQ_IS_EMPTY

\* A send or a jam that found room stays within the array.
LEMMA PutType ==
  ASSUME NEW r \in RingType, ~MQ_IS_FULL(r), NEW m \in Msgs \cup {Null},
         NEW jam \in BOOLEAN
  PROVE  Put(r, m, jam) \in RingType
PROOF
<1>1. PICK n \in Capacities :
        r \in [msgCount : {n}, first : 0..(n - 1), validCount : 0..n,
               msg : [0..(n - 1) -> Msgs \cup {Null}]]
  BY DEF RingType
<1>2. n \in Nat \ {0} /\ r.msgCount = n /\ r.first \in 0..(n - 1)
      /\ r.validCount \in 0..n /\ r.validCount < n
  BY <1>1, QueuesAssumption DEF MQ_IS_FULL
<1>3. PutTail(r, m) \in RingType
  <2> DEFINE l == (r.first + r.validCount) % n
  <2>1. l \in 0..(n - 1)
    BY <1>2
  <2>2. PutTail(r, m) = [r EXCEPT !.msg[l] = m, !.validCount = @ + 1]
    BY <1>2 DEF PutTail
  <2> HIDE DEF l
  <2>4. PutTail(r, m) = [msgCount |-> n, first |-> r.first,
                         validCount |-> r.validCount + 1,
                         msg |-> [r.msg EXCEPT ![l] = m]]
    BY <1>1, <2>2
  <2>5. /\ r.validCount + 1 \in 0..n
        /\ [r.msg EXCEPT ![l] = m] \in [0..(n - 1) -> Msgs \cup {Null}]
    BY <1>1, <1>2, <2>1
  <2>3. PutTail(r, m) \in
          [msgCount : {n}, first : 0..(n - 1), validCount : 0..n,
           msg : [0..(n - 1) -> Msgs \cup {Null}]]
    BY <1>2, <2>4, <2>5
  <2> QED  BY <2>3 DEF RingType
<1>4. PutHead(r, m) \in RingType
  <2> DEFINE f == (r.first + n - 1) % n
  <2>1. f \in 0..(n - 1)
    BY <1>2
  <2>2. PutHead(r, m) = [r EXCEPT !.first = f, !.msg[f] = m, !.validCount = @ + 1]
    BY <1>2 DEF PutHead
  <2> HIDE DEF f
  <2>4. PutHead(r, m) = [msgCount |-> n, first |-> f,
                         validCount |-> r.validCount + 1,
                         msg |-> [r.msg EXCEPT ![f] = m]]
    BY <1>1, <2>2
  <2>5. /\ r.validCount + 1 \in 0..n
        /\ [r.msg EXCEPT ![f] = m] \in [0..(n - 1) -> Msgs \cup {Null}]
    BY <1>1, <1>2, <2>1
  <2>3. PutHead(r, m) \in
          [msgCount : {n}, first : 0..(n - 1), validCount : 0..n,
           msg : [0..(n - 1) -> Msgs \cup {Null}]]
    BY <2>1, <2>4, <2>5
  <2> QED  BY <2>3 DEF RingType
<1> QED  BY <1>3, <1>4 DEF Put

\* A receive that found a message stays within the array.
LEMMA TakeType ==
  ASSUME NEW r \in RingType, ~MQ_IS_EMPTY(r)
  PROVE  TakeHead(r) \in RingType /\ Front(r) \in Msgs \cup {Null}
PROOF
<1>1. PICK n \in Capacities :
        r \in [msgCount : {n}, first : 0..(n - 1), validCount : 0..n,
               msg : [0..(n - 1) -> Msgs \cup {Null}]]
  BY DEF RingType
<1>2. n \in Nat \ {0} /\ r.msgCount = n /\ r.first \in 0..(n - 1)
      /\ r.validCount \in 0..n /\ r.validCount # 0
  BY <1>1, QueuesAssumption DEF MQ_IS_EMPTY
<1> DEFINE f == (r.first + 1) % n
<1>3. f \in 0..(n - 1)
  BY <1>2
<1>4. TakeHead(r) = [r EXCEPT !.first = f, !.validCount = @ - 1]
  BY <1>2 DEF TakeHead
<1> HIDE DEF f
<1>5. TakeHead(r) \in RingType
  <2>1. TakeHead(r) = [msgCount |-> n, first |-> f,
                       validCount |-> r.validCount - 1, msg |-> r.msg]
    BY <1>1, <1>4
  <2>2. r.validCount - 1 \in 0..n /\ r.msg \in [0..(n - 1) -> Msgs \cup {Null}]
    BY <1>1, <1>2
  <2>3. TakeHead(r) \in
          [msgCount : {n}, first : 0..(n - 1), validCount : 0..n,
           msg : [0..(n - 1) -> Msgs \cup {Null}]]
    BY <1>3, <2>1, <2>2
  <2> QED  BY <2>3 DEF RingType
<1> QED  BY <1>1, <1>2, <1>5 DEF Front

LEMMA CreateType ==
  ASSUME NEW n \in Capacities
  PROVE  CreateRing(n, Null) \in RingType
PROOF
<1>1. CreateRing(n, Null) \in
        [msgCount : {n}, first : 0..(n - 1), validCount : 0..n,
         msg : [0..(n - 1) -> Msgs \cup {Null}]]
  BY QueuesAssumption DEF CreateRing
<1> QED  BY <1>1 DEF RingType
-----------------------------------------------------------------------------
(***************************************************************************)
(* The inductive invariant.                                                *)
(***************************************************************************)

\* The types of all the variables except the scheduler record.
RestOK ==
  /\ ring \in [MQs -> RingType \cup {NoRing}]
  /\ pc \in [Threads -> Places]
  /\ call \in [Threads -> Calls \cup {NoCall}]
  /\ external \in Seq(ExternalMessage)
  /\ requeued \in Seq(ExternalMessage)
  /\ mesg \in Msgs \cup {Null}
  /\ pc[Idle] \in {"none", "game", "pause"}

\* Where HighestPriorityRuns obliges the token holder.
AtRest == pc[sched.running] \in {"game", "pause", "yield", "yield_1ms"}

\* What the invariant says in a state where some thread can take a step.
LEMMA InvGood ==
  ASSUME SchedInv, sched.halt = "none", sched.running # Null
  PROVE  Good(sched) /\ RestOK /\ (AtRest => TopOK(sched))
PROOF
<1>1. sched.running \in Threads
  BY DEF SchedInv, TypeOK, SchedType
<1> QED  BY <1>1 DEF SchedInv, TypeOK, Good, RestOK, AtRest, OneQueue,
              ListsSorted, HighestPriorityRuns, NeverOutOfThreads

\* A good scheduler record after a step is enough for the invariant.
LEMMA GoodInv ==
  ASSUME Good(sched'), RestOK', AtRest' => TopOK(sched')
  PROVE  SchedInv'
PROOF
<1>1. sched'.running # Null
  BY ThreadsAssumption DEF Good
<1> QED  BY <1>1 DEF SchedInv, TypeOK, Good, RestOK, AtRest, OneQueue,
              ListsSorted, HighestPriorityRuns, NeverOutOfThreads

\* A thread that hangs or faults on a list leaves the types intact.
LEMMA HaltInv ==
  ASSUME sched' \in SchedType, sched'.halt \in {"hang", "fault"},
         sched'.running # Null, RestOK'
  PROVE  SchedInv'
  BY DEF SchedInv, TypeOK, RestOK, OneQueue,
     ListsSorted, HighestPriorityRuns, NeverOutOfThreads

\* A step of the token holder starts from a good scheduler.
LEMMA HolderGood ==
  ASSUME SchedInv, NEW t \in Threads, NEW place, At(t, place)
  PROVE  /\ Good(sched) /\ RestOK /\ sched.running = t /\ pc[t] = place
         /\ place \in {"game", "pause", "yield", "yield_1ms"} => TopOK(sched)
PROOF
<1>1. sched.halt = "none" /\ sched.running = t /\ pc[t] = place /\ t # Null
  BY ThreadsAssumption DEF At
<1> QED  BY <1>1, InvGood DEF AtRest

\* A thread in a call or a timed wait is not the idle thread.
LEMMA NotIdle ==
  ASSUME RestOK, NEW t \in Threads, pc[t] \in {"drain", "op", "yield", "yield_1ms"}
  PROVE  t # Idle
  BY DEF RestOK

\* Taking a message out of external_messages.
LEMMA WithoutType ==
  ASSUME external \in Seq(ExternalMessage), NEW i \in 1..Len(external)
  PROVE  /\ external[i] \in ExternalMessage
         /\ Without(i) \in Seq(ExternalMessage)
PROOF
<1>1. /\ i \in Nat /\ i - 1 \in 0..Len(external) /\ i + 1 \in 1..(Len(external) + 1)
      /\ Len(external) \in Nat
  OBVIOUS
<1>2. SubSeq(external, 1, i - 1) \in Seq(ExternalMessage)
  <2>1. \A j \in 1..(i - 1) : external[j] \in ExternalMessage
    OBVIOUS
  <2> QED  BY <1>1, <2>1, SubSeqProperties
<1>3. SubSeq(external, i + 1, Len(external)) \in Seq(ExternalMessage)
  <2>1. \A j \in (i + 1)..Len(external) : external[j] \in ExternalMessage
    OBVIOUS
  <2> QED  BY <1>1, <2>1, SubSeqProperties
<1> QED  BY <1>2, <1>3 DEF Without

\* Messages put into a queue and taken out of one keep the rings well typed.
LEMMA DeliverType ==
  ASSUME RestOK, NEW q \in MQs, NEW m \in Msgs, NEW jam \in BOOLEAN,
         ~MQ_IS_FULL(ring[q])
  PROVE  [ring EXCEPT ![q] = Put(@, m, jam)] \in [MQs -> RingType \cup {NoRing}]
PROOF
<1>1. ring[q] \in RingType
  BY FullOrEmpty DEF RestOK
<1>2. Put(ring[q], m, jam) \in RingType
  BY <1>1, PutType
<1> QED  BY <1>2 DEF RestOK
-----------------------------------------------------------------------------
(***************************************************************************)
(* One lemma per action.                                                   *)
(***************************************************************************)
LEMMA BootIdleStep ==
  ASSUME SchedInv, NEW pri \in Priorities, BootIdle(pri)
  PROVE  SchedInv'
PROOF
<1>1. /\ sched \in SchedType /\ sched.running = Null /\ RestOK
      /\ \A q \in QueueIds : sched.list[q] = << >>
      /\ sched.queue[Idle] = Null
      /\ Idle \in Threads /\ Idle # Null
  BY ThreadsAssumption DEF BootIdle, SchedInv, TypeOK, RestOK
<1>2. /\ sched'.running = Idle /\ sched'.halt = sched.halt
      /\ sched'.list = sched.list /\ sched'.queue = sched.queue
      /\ sched'.context[Idle] /\ sched'.state[Idle] = "QUEUED"
      /\ sched' \in SchedType
  <2>1. /\ sched'.running = Idle /\ sched'.halt = sched.halt
        /\ sched'.list = sched.list /\ sched'.queue = sched.queue
        /\ sched'.context[Idle] /\ sched'.state[Idle] = "QUEUED"
    BY <1>1 DEF BootIdle, SchedType
  <2>2. sched' = [priority |-> [sched.priority EXCEPT ![Idle] = pri],
                  state    |-> [sched.state EXCEPT ![Idle] = "QUEUED"],
                  queue    |-> sched.queue,
                  context  |-> [sched.context EXCEPT ![Idle] = TRUE],
                  list     |-> sched.list,
                  running  |-> Idle,
                  halt     |-> sched.halt]
    BY <1>1 DEF BootIdle, SchedType
  <2>3. /\ [sched.priority EXCEPT ![Idle] = pri] \in [Threads -> Priorities]
        /\ [sched.state EXCEPT ![Idle] = "QUEUED"] \in [Threads -> {"STOPPED", "QUEUED"}]
        /\ [sched.context EXCEPT ![Idle] = TRUE] \in [Threads -> BOOLEAN]
    BY <1>1, Fields
  <2> QED  BY <1>1, <2>1, <2>2, <2>3 DEF SchedType
<1>3. \A q \in QueueIds : sched'.list[q] = << >>
  BY <1>1, <1>2
<1>4. ListsOK(sched') /\ SortedOK(sched') /\ TopOK(sched')
  BY <1>3, RunningQueueId DEF ListsOK, SortedOK, SortedByPriority, TopOK
<1>5. TokenOK(sched') /\ IdleOK(sched')
  BY <1>1, <1>2 DEF TokenOK, IdleOK
<1>6. RestOK'
  BY <1>1 DEF BootIdle, RestOK, Places
<1> QED  BY <1>1, <1>2, <1>4, <1>5, <1>6 DEF SchedInv, TypeOK, RestOK,
            OneQueue, ListsSorted, HighestPriorityRuns, NeverOutOfThreads

\* A step that leaves the scheduler and the places alone.
LEMMA EnqueueStep ==
  ASSUME SchedInv, NEW m \in ExternalMessage, EnqueueExternal(m),
         UNCHANGED << sched, ring, pc, call, requeued, mesg >>
  PROVE  SchedInv'
PROOF
<1>1. external' \in Seq(ExternalMessage)
  BY DEF SchedInv, TypeOK, EnqueueExternal
<1> QED  BY <1>1 DEF SchedInv, TypeOK, OneQueue, ListsSorted,
            HighestPriorityRuns, NeverOutOfThreads

LEMMA EventMessageStep ==
  ASSUME SchedInv, NEW s \in EventSources, NEW q \in MQs, EventMessage(s, q)
  PROVE  SchedInv'
PROOF
<1>1. [src |-> s, mq |-> q, msg |-> s, jam |-> FALSE,
       requeue |-> s \in RequeueSources] \in ExternalMessage
  BY DEF ExternalMessage, Producers, Msgs
<1> QED  BY <1>1, EnqueueStep DEF EventMessage

LEMMA HostMessageStep ==
  ASSUME SchedInv, NEW h \in HostThreads, NEW q \in MQs, NEW jam \in BOOLEAN,
         HostMessage(h, q, jam)
  PROVE  SchedInv'
PROOF
<1>1. [src |-> h, mq |-> q, msg |-> h, jam |-> jam, requeue |-> FALSE]
        \in ExternalMessage
  BY DEF ExternalMessage, Producers, Msgs
<1> QED  BY <1>1, EnqueueStep DEF HostMessage

LEMMA PiMessageStep ==
  ASSUME SchedInv, NEW t \in Threads, NEW q \in MQs, PiMessage(t, q)
  PROVE  SchedInv'
PROOF
<1>1. PICK m \in GameMsgs :
        EnqueueExternal([src |-> t, mq |-> q, msg |-> m, jam |-> FALSE,
                         requeue |-> FALSE])
  BY DEF PiMessage
<1>2. [src |-> t, mq |-> q, msg |-> m, jam |-> FALSE, requeue |-> FALSE]
        \in ExternalMessage
  BY DEF ExternalMessage, Producers, Msgs
<1> QED  BY <1>1, <1>2, EnqueueStep DEF PiMessage

LEMMA BeginCallStep ==
  ASSUME SchedInv, NEW t \in Threads, NEW c \in Calls, BeginCall(t, c)
  PROVE  SchedInv'
PROOF
<1>1. Good(sched) /\ RestOK /\ sched.running = t
  BY HolderGood DEF BeginCall
<1>2. RestOK'
  BY <1>1 DEF BeginCall, RestOK, Places
<1>3. pc'[t] = "drain" /\ sched' = sched
  BY <1>1 DEF BeginCall, RestOK
<1> QED  BY <1>1, <1>2, <1>3, GoodInv DEF AtRest

LEMMA DrainOneStep ==
  ASSUME SchedInv, NEW t \in Threads, DrainOne(t)
  PROVE  SchedInv'
PROOF
<1>1. Good(sched) /\ RestOK /\ sched.running = t /\ pc[t] = "drain"
  BY HolderGood DEF DrainOne
<1>2. PICK i \in 1..Len(external) :
        /\ external' = Without(i)
        /\ \/ /\ DeliverExternal(external[i])
              /\ sched' = WakeOne(sched, BlockedOnRecv(external[i].mq))
              /\ UNCHANGED requeued
           \/ /\ requeued' = IF external[i].requeue
                             THEN Append(requeued, external[i]) ELSE requeued
              /\ UNCHANGED << sched, ring >>
  BY DEF DrainOne
<1> DEFINE m == external[i]
<1>3. m \in ExternalMessage /\ external' \in Seq(ExternalMessage)
  BY <1>1, <1>2, WithoutType DEF RestOK
<1>4. m.mq \in MQs /\ m.msg \in Msgs /\ m.jam \in BOOLEAN
  BY <1>3 DEF ExternalMessage
<1>5. UNCHANGED << pc, call, mesg >>
  BY DEF DrainOne
<1> HIDE DEF m
<1>6. CASE /\ DeliverExternal(m)
           /\ sched' = WakeOne(sched, BlockedOnRecv(m.mq))
           /\ UNCHANGED requeued
  <2>1. Good(sched') /\ sched'.running = t
    BY <1>1, <1>4, <1>6, QueueIdFacts, WakeGood
  <2>2. ring' \in [MQs -> RingType \cup {NoRing}]
    BY <1>1, <1>4, <1>6, DeliverType DEF DeliverExternal
  <2>3. RestOK'
    BY <1>1, <1>3, <1>5, <1>6, <2>2 DEF RestOK
  <2> QED  BY <1>1, <1>5, <2>1, <2>3, GoodInv DEF AtRest
<1>7. CASE /\ requeued' = IF m.requeue THEN Append(requeued, m) ELSE requeued
           /\ UNCHANGED << sched, ring >>
  <2>1. requeued' \in Seq(ExternalMessage)
    BY <1>1, <1>3, <1>7 DEF RestOK
  <2>2. RestOK'
    BY <1>1, <1>3, <1>5, <1>7, <2>1 DEF RestOK
  <2> QED  BY <1>1, <1>5, <1>7, <2>2, GoodInv DEF AtRest
<1> QED  BY <1>2, <1>6, <1>7 DEF m

LEMMA DrainDoneStep ==
  ASSUME SchedInv, NEW t \in Threads, DrainDone(t)
  PROVE  SchedInv'
PROOF
<1>1. Good(sched) /\ RestOK /\ sched.running = t /\ pc[t] = "drain" /\ t # Idle
  BY HolderGood, NotIdle DEF DrainDone
<1>2. external' \in Seq(ExternalMessage)
  <2>1. \A i \in 1..Len(requeued) :
          [requeued[i] EXCEPT !.src = t] \in ExternalMessage
    <3> SUFFICES ASSUME NEW i \in 1..Len(requeued)
                 PROVE  [requeued[i] EXCEPT !.src = t] \in ExternalMessage
      OBVIOUS
    <3>1. PICK m \in ExternalMessage : m = requeued[i]
      BY <1>1 DEF RestOK
    <3>2. [m EXCEPT !.src = t] \in ExternalMessage
      BY DEF ExternalMessage, Producers
    <3> QED  BY <3>1, <3>2
  <2> QED  BY <1>1, <2>1 DEF DrainDone, RestOK
<1>3. RestOK'
  BY <1>1, <1>2 DEF DrainDone, RestOK, Places
<1>4. pc'[t] = "op" /\ sched' = sched
  BY <1>1 DEF DrainDone, RestOK
<1> QED  BY <1>1, <1>3, <1>4, GoodInv DEF AtRest

\* The end of a call: check_running_queue and back to game code.
LEMMA ReturnStep ==
  ASSUME RestOK, NEW t \in Threads, NEW S, Good(S), Return(t, S),
         ring' \in [MQs -> RingType \cup {NoRing}], mesg' \in Msgs \cup {Null}
  PROVE  SchedInv'
PROOF
<1>1. Good(sched') /\ TopOK(sched')
  BY CheckGood DEF Return
<1>2. RestOK'
  BY DEF Return, RestOK, Places
<1> QED  BY <1>1, <1>2, GoodInv

LEMMA DoSendStep ==
  ASSUME SchedInv, NEW t \in Threads, DoSend(t)
  PROVE  SchedInv'
PROOF
<1> DEFINE c == call[t]
<1>1. Good(sched) /\ RestOK /\ c.op = "send"
  BY HolderGood DEF DoSend, AtOp
<1>2. c \in Calls
  BY <1>1 DEF RestOK, NoCall
<1>3. c.mq \in MQs /\ c.msg \in Msgs \cup {Null} /\ c.jam \in BOOLEAN
  BY <1>2 DEF Calls
<1>4. ring' \in [MQs -> RingType \cup {NoRing}]
  <2>1. ring[c.mq] \in RingType
    BY <1>1, <1>3, FullOrEmpty DEF DoSend, RestOK
  <2>2. Put(ring[c.mq], c.msg, c.jam) \in RingType
    BY <1>3, <2>1, PutType DEF DoSend
  <2> QED  BY <1>1, <2>2 DEF DoSend, RestOK
<1>5. PICK S : S = WakeOne(sched, BlockedOnRecv(c.mq))
  OBVIOUS
<1>6. Good(S)
  BY <1>1, <1>3, <1>5, QueueIdFacts, WakeGood
<1>7. Return(t, S)
  BY <1>5 DEF DoSend
<1>8. mesg' \in Msgs \cup {Null}
  BY <1>1 DEF DoSend, RestOK
<1> QED  BY <1>1, <1>4, <1>6, <1>7, <1>8, ReturnStep

LEMMA DoRecvStep ==
  ASSUME SchedInv, NEW t \in Threads, DoRecv(t)
  PROVE  SchedInv'
PROOF
<1> DEFINE c == call[t]
<1>1. Good(sched) /\ RestOK /\ c.op = "recv"
  BY HolderGood DEF DoRecv, AtOp
<1>2. c \in Calls
  BY <1>1 DEF RestOK, NoCall
<1>3. c.mq \in MQs
  BY <1>2 DEF Calls
<1>4. TakeHead(ring[c.mq]) \in RingType /\ Front(ring[c.mq]) \in Msgs \cup {Null}
  <2>1. ring[c.mq] \in RingType
    BY <1>1, <1>3, FullOrEmpty DEF DoRecv, RestOK
  <2> QED  BY <2>1, TakeType DEF DoRecv
<1>5. ring' \in [MQs -> RingType \cup {NoRing}]
  BY <1>1, <1>4 DEF DoRecv, RestOK
<1>6. mesg' \in Msgs \cup {Null}
  BY <1>1, <1>4 DEF DoRecv, RestOK
<1>7. PICK S : S = WakeOne(sched, BlockedOnSend(c.mq))
  OBVIOUS
<1>8. Good(S)
  BY <1>1, <1>3, <1>7, QueueIdFacts, WakeGood
<1>9. Return(t, S)
  BY <1>7 DEF DoRecv
<1> QED  BY <1>1, <1>5, <1>6, <1>8, <1>9, ReturnStep

LEMMA CallFailsStep ==
  ASSUME SchedInv, NEW t \in Threads, CallFails(t)
  PROVE  SchedInv'
PROOF
<1>1. Good(sched) /\ RestOK
  BY HolderGood DEF CallFails
<1>2. /\ ring' \in [MQs -> RingType \cup {NoRing}] /\ mesg' \in Msgs \cup {Null}
      /\ Return(t, sched)
  BY <1>1 DEF CallFails, RestOK
<1> QED  BY <1>1, <1>2, ReturnStep

\* The waiting loop of do_send and do_recv.
LEMMA BlockStep ==
  ASSUME SchedInv, NEW t \in Threads, At(t, "op"), NEW q \in QueueIds,
         sched' = BlockOn(sched, q),
         UNCHANGED << ring, pc, call, external, requeued, mesg >>
  PROVE  SchedInv'
PROOF
<1>1. Good(sched) /\ RestOK /\ sched.running = t /\ t # Idle
  BY HolderGood, NotIdle
<1>2. Good(sched') /\ TopOK(sched')
  BY <1>1, BlockGood
<1>3. RestOK'
  BY <1>1 DEF RestOK
<1> QED  BY <1>2, <1>3, GoodInv

LEMMA BlockOnSendStep ==
  ASSUME SchedInv, NEW t \in Threads, BlockOnSend(t)
  PROVE  SchedInv'
PROOF
<1>1. call[t] \in Calls
  BY DEF BlockOnSend, AtOp, SchedInv, TypeOK, NoCall
<1>2. BlockedOnSend(call[t].mq) \in QueueIds
  BY <1>1, QueueIdFacts DEF Calls
<1> QED  BY <1>2, BlockStep DEF BlockOnSend, AtOp

LEMMA BlockOnRecvStep ==
  ASSUME SchedInv, NEW t \in Threads, BlockOnRecv(t)
  PROVE  SchedInv'
PROOF
<1>1. call[t] \in Calls
  BY DEF BlockOnRecv, AtOp, SchedInv, TypeOK, NoCall
<1>2. BlockedOnRecv(call[t].mq) \in QueueIds
  BY <1>1, QueueIdFacts DEF Calls
<1> QED  BY <1>2, BlockStep DEF BlockOnRecv, AtOp

LEMMA BeginWaitStep ==
  ASSUME SchedInv, NEW t \in Threads, NEW place \in {"pause", "yield", "yield_1ms"},
         BeginWait(t, place)
  PROVE  SchedInv'
PROOF
<1>1. Good(sched) /\ RestOK /\ sched.running = t /\ TopOK(sched)
  BY HolderGood DEF BeginWait
<1>2. RestOK'
  BY <1>1 DEF BeginWait, RestOK, Places
<1> QED  BY <1>1, <1>2, GoodInv DEF BeginWait

LEMMA AfterWaitType ==
  ASSUME RestOK, NEW t \in Threads, AfterWait(t)
  PROVE  /\ pc' \in [Threads -> Places]
         /\ pc'[Idle] \in {"none", "game", "pause"}
  BY DEF AfterWait, RestOK, Places

LEMMA WaitForExternalMessageStep ==
  ASSUME SchedInv, NEW t \in Threads, WaitForExternalMessage(t)
  PROVE  SchedInv'
PROOF
<1>1. Good(sched) /\ RestOK
  BY HolderGood DEF WaitForExternalMessage, Waiting
<1>2. PICK i \in 1..Len(external) :
        \/ /\ DeliverExternal(external[i])
           /\ external' = Without(i)
           /\ sched' = CheckRunningQueue(WakeOne(sched, BlockedOnRecv(external[i].mq)))
        \/ /\ external' = IF external[i].requeue
                          THEN Append(Without(i), [external[i] EXCEPT !.src = t])
                          ELSE Without(i)
           /\ sched' = CheckRunningQueue(sched)
           /\ UNCHANGED ring
  BY DEF WaitForExternalMessage
<1> DEFINE m == external[i]
<1>3. m \in ExternalMessage /\ Without(i) \in Seq(ExternalMessage)
  BY <1>1, WithoutType DEF RestOK
<1>4. m.mq \in MQs /\ m.msg \in Msgs /\ m.jam \in BOOLEAN
  BY <1>3 DEF ExternalMessage
<1>5. /\ pc' \in [Threads -> Places] /\ pc'[Idle] \in {"none", "game", "pause"}
      /\ UNCHANGED << call, requeued, mesg >>
  BY <1>1, AfterWaitType DEF WaitForExternalMessage
<1> HIDE DEF m
<1>6. CASE /\ DeliverExternal(m)
           /\ external' = Without(i)
           /\ sched' = CheckRunningQueue(WakeOne(sched, BlockedOnRecv(m.mq)))
  <2>1. PICK S : S = WakeOne(sched, BlockedOnRecv(m.mq))
    OBVIOUS
  <2>2. Good(S)
    BY <1>1, <1>4, <2>1, QueueIdFacts, WakeGood
  <2>3. Good(sched') /\ TopOK(sched')
    BY <1>6, <2>1, <2>2, CheckGood
  <2>4. ring' \in [MQs -> RingType \cup {NoRing}]
    BY <1>1, <1>4, <1>6, DeliverType DEF DeliverExternal
  <2>5. RestOK'
    BY <1>1, <1>3, <1>5, <1>6, <2>4 DEF RestOK
  <2> QED  BY <2>3, <2>5, GoodInv
<1>7. CASE /\ external' = IF m.requeue
                          THEN Append(Without(i), [m EXCEPT !.src = t])
                          ELSE Without(i)
           /\ sched' = CheckRunningQueue(sched)
           /\ UNCHANGED ring
  <2>1. Good(sched') /\ TopOK(sched')
    BY <1>1, <1>7, CheckGood
  <2>2. [m EXCEPT !.src = t] \in ExternalMessage
    BY <1>3 DEF ExternalMessage, Producers
  <2>3. external' \in Seq(ExternalMessage)
    BY <1>3, <1>7, <2>2
  <2>4. RestOK'
    BY <1>1, <1>5, <1>7, <2>3 DEF RestOK
  <2> QED  BY <2>1, <2>4, GoodInv
<1> QED  BY <1>2, <1>6, <1>7 DEF m

LEMMA WaitTimesOutStep ==
  ASSUME SchedInv, NEW t \in Threads, WaitTimesOut(t)
  PROVE  SchedInv'
PROOF
<1>1. Good(sched) /\ RestOK
  BY HolderGood DEF WaitTimesOut
<1>2. Good(sched') /\ TopOK(sched')
  BY <1>1, CheckGood DEF WaitTimesOut
<1>3. RestOK'
  BY <1>1, AfterWaitType DEF WaitTimesOut, RestOK
<1> QED  BY <1>2, <1>3, GoodInv

\* osCreateMesgQueue empties two wait lists and touches nothing else.
LEMMA OsCreateMesgQueueStep ==
  ASSUME SchedInv, NEW t \in Threads, NEW q \in MQs, NEW count \in Capacities,
         OsCreateMesgQueue(t, q, count)
  PROVE  SchedInv'
PROOF
<1>1. Good(sched) /\ RestOK /\ TopOK(sched) /\ sched \in SchedType
  BY HolderGood DEF OsCreateMesgQueue, Good
<1>2. /\ sched' \in SchedType
      /\ \A p \in QueueIds : sched'.list[p] \in {sched.list[p], << >>}
      /\ sched'.list[RunningQueue] = sched.list[RunningQueue]
      /\ sched'.priority = sched.priority /\ sched'.state = sched.state
      /\ sched'.queue = sched.queue /\ sched'.context = sched.context
      /\ sched'.running = sched.running /\ sched'.halt = sched.halt
  <2> DEFINE l == [sched.list EXCEPT ![BlockedOnRecv(q)] = << >>,
                                     ![BlockedOnSend(q)] = << >>]
  <2>1. /\ l \in [QueueIds -> Seq(Threads)]
        /\ l[RunningQueue] = sched.list[RunningQueue]
        /\ \A p \in QueueIds : l[p] \in {sched.list[p], << >>}
    <3> DEFINE r == BlockedOnRecv(q)
               b == BlockedOnSend(q)
    <3>1. /\ r \in QueueIds /\ r # RunningQueue /\ b \in QueueIds /\ b # RunningQueue
          /\ RunningQueue \in QueueIds /\ sched.list \in [QueueIds -> Seq(Threads)]
      BY <1>1, QueueIdFacts, Fields
    <3> HIDE DEF r, b
    <3>2. l = [sched.list EXCEPT ![r] = << >>, ![b] = << >>]
      BY DEF r, b
    <3>3. << >> \in Seq(Threads)
      OBVIOUS
    <3> HIDE DEF l
    <3> QED  BY <3>1, <3>2, <3>3
  <2>2. sched' = [sched EXCEPT !.list = l]
    BY <1>1 DEF OsCreateMesgQueue, SchedType
  <2> HIDE DEF l
  <2> QED  BY <1>1, <2>1, <2>2 DEF SchedType
<1>3. ListsOK(sched')
  BY <1>1, <1>2 DEF Good, ListsOK
<1>4. SortedOK(sched')
  <2> SUFFICES ASSUME NEW p \in QueueIds
               PROVE  SortedByPriority(sched'.list[p], sched.priority)
    BY <1>2 DEF SortedOK
  <2>1. SortedByPriority(sched.list[p], sched.priority)
    BY <1>1 DEF Good, SortedOK
  <2>2. SortedByPriority(<< >>, sched.priority)
    BY DEF SortedByPriority
  <2> QED  BY <1>2, <2>1, <2>2
<1>5. Good(sched') /\ TopOK(sched')
  BY <1>1, <1>2, <1>3, <1>4 DEF Good, TokenOK, IdleOK, TopOK
<1>6. RestOK'
  BY <1>1, CreateType DEF OsCreateMesgQueue, RestOK
<1> QED  BY <1>5, <1>6, GoodInv

\* A thread that is in no list changes, and the holder stays as it should be.
LEMMA FrameGood ==
  ASSUME NEW S, Good(S), NEW R \in SchedType, NEW t \in Threads, NotListed(S, t),
         R.list = S.list, R.running = S.running, R.halt = S.halt, TokenOK(R),
         \A u \in Threads \ {t} :
           /\ R.priority[u] = S.priority[u] /\ R.state[u] = S.state[u]
           /\ R.queue[u] = S.queue[u] /\ R.context[u] = S.context[u]
  PROVE  /\ Good(R)
         /\ t # S.running /\ TopOK(S) => TopOK(R)
PROOF
<1>1. \A q \in QueueIds : \A i \in 1..Len(S.list[q]) :
        S.list[q][i] \in Threads \ {t}
  BY Fields DEF Good, NotListed, Listed
<1>2. ListsOK(R)
  BY <1>1 DEF Good, ListsOK
<1>3. SortedOK(R)
  BY <1>1 DEF Good, SortedOK, SortedByPriority
<1>4. IdleOK(R)
  BY DEF Good, IdleOK
<1>5. t # S.running /\ TopOK(S) => TopOK(R)
  BY <1>1, RunningQueueId DEF Good, TopOK
<1> QED  BY <1>2, <1>3, <1>4, <1>5 DEF Good

LEMMA OsCreateThreadStep ==
  ASSUME SchedInv, NEW self \in Threads, NEW t \in Threads, NEW pri \in Priorities,
         OsCreateThread(self, t, pri)
  PROVE  SchedInv'
PROOF
<1>1. Good(sched) /\ RestOK /\ TopOK(sched) /\ sched.running = self
  BY HolderGood DEF OsCreateThread
<1>2. /\ sched \in SchedType /\ ListsOK(sched) /\ TokenOK(sched)
      /\ self # Null /\ ~sched.context[t]
  BY <1>1, ThreadsAssumption DEF Good, OsCreateThread
<1>3. NotListed(sched, t)
  BY <1>2, ListsByMembers DEF NotListed, ListedOK
<1>4. t # self
  BY <1>1, <1>2 DEF TokenOK
<1> DEFINE p == [sched.priority EXCEPT ![t] = pri]
           s == [sched.state EXCEPT ![t] = "STOPPED"]
           q == [sched.queue EXCEPT ![t] = Null]
           x == [sched.context EXCEPT ![t] = TRUE]
<1>5. sched' = [sched EXCEPT !.priority = p, !.state = s, !.queue = q, !.context = x]
  BY <1>2 DEF OsCreateThread, SchedType
<1>6. /\ p \in [Threads -> Priorities] /\ s \in [Threads -> {"STOPPED", "QUEUED"}]
      /\ q \in [Threads -> QueueIds \cup {Null}] /\ x \in [Threads -> BOOLEAN]
      /\ \A u \in Threads \ {t} :
           /\ p[u] = sched.priority[u] /\ s[u] = sched.state[u]
           /\ q[u] = sched.queue[u] /\ x[u] = sched.context[u]
  BY <1>2, Fields
<1> HIDE DEF p, s, q, x
<1>7. /\ sched' \in SchedType
      /\ sched'.priority = p /\ sched'.state = s
      /\ sched'.queue = q /\ sched'.context = x
      /\ sched'.list = sched.list
      /\ sched'.running = sched.running /\ sched'.halt = sched.halt
  BY <1>2, <1>5, <1>6 DEF SchedType
<1>8. TokenOK(sched')
  BY <1>1, <1>2, <1>4, <1>6, <1>7 DEF TokenOK
<1>9. Good(sched') /\ TopOK(sched')
  BY <1>1, <1>3, <1>4, <1>6, <1>7, <1>8, FrameGood
<1>10. RestOK'
  BY <1>1 DEF OsCreateThread, RestOK, Places
<1> QED  BY <1>9, <1>10, GoodInv

LEMMA OsStartThreadStep ==
  ASSUME SchedInv, NEW self \in Threads, NEW t \in Threads, OsStartThread(self, t)
  PROVE  SchedInv'
PROOF
<1>1. Good(sched) /\ RestOK /\ sched.running = self
  BY HolderGood DEF OsStartThread
<1>2. /\ sched \in SchedType /\ ListsOK(sched) /\ SortedOK(sched)
      /\ TokenOK(sched) /\ IdleOK(sched)
      /\ sched.context[t] /\ sched.queue[t] = Null /\ t # self /\ self # Null
  BY <1>1, ThreadsAssumption DEF Good, OsStartThread
<1>3. NotListed(sched, t)
  BY <1>2, NullNotListed
<1>4. PICK S : S = ScheduleRunningThread(sched, t)
  OBVIOUS
<1>5. /\ S \in SchedType /\ ListsOK(S) /\ SortedOK(S)
      /\ S.queue = [sched.queue EXCEPT ![t] = RunningQueue]
      /\ S.state = [sched.state EXCEPT ![t] = "QUEUED"]
      /\ S.priority = sched.priority /\ S.context = sched.context
      /\ S.running = sched.running /\ S.halt = sched.halt
      /\ \A p \in QueueIds, u \in Threads :
           Listed(S, p, u) <=> Listed(sched, p, u) \/ (p = RunningQueue /\ u = t)
      /\ \A u \in Threads \ {t} : NotListed(sched, u) => NotListed(S, u)
  BY <1>2, <1>3, <1>4, ScheduleGood
<1>6. TokenOK(S)
  <2>1. /\ S.queue[self] = sched.queue[self] /\ S.state[self] = sched.state[self]
        /\ S.context[self] = sched.context[self]
    BY <1>2, <1>5, Fields
  <2> QED  BY <1>1, <1>2, <1>5, <2>1 DEF TokenOK
<1>7. IdleOK(S)
  BY <1>1, <1>2, <1>5, IdleListed, RunningQueueId, ThreadsAssumption
<1>8. Good(S)
  BY <1>1, <1>5, <1>6, <1>7 DEF Good
<1>9. Good(sched') /\ TopOK(sched')
  BY <1>4, <1>8, CheckGood DEF OsStartThread
<1>10. RestOK'
  BY <1>1 DEF OsStartThread, RestOK
<1> QED  BY <1>9, <1>10, GoodInv

\* The holder gives up the token for good, or until it is started again.
LEMMA OsStopThreadStep ==
  ASSUME SchedInv, NEW self \in Threads, OsStopThread(self)
  PROVE  SchedInv'
PROOF
<1>1. Good(sched) /\ RestOK /\ sched.running = self /\ self # Idle
  BY HolderGood DEF OsStopThread
<1>2. Listed(sched, RunningQueue, Idle)
  BY <1>1, IdleListed DEF Good
<1>3. Good(sched') /\ TopOK(sched')
  BY <1>1, <1>2, RunNextGood DEF OsStopThread, Good
<1>4. RestOK'
  BY <1>1 DEF OsStopThread, RestOK
<1> QED  BY <1>3, <1>4, GoodInv

LEMMA ThreadExitStep ==
  ASSUME SchedInv, NEW self \in Threads, ThreadExit(self)
  PROVE  SchedInv'
PROOF
<1>1. Good(sched) /\ RestOK /\ sched.running = self /\ self # Idle
  BY HolderGood DEF ThreadExit
<1>2. /\ sched \in SchedType /\ sched.halt = "none" /\ ListsOK(sched)
      /\ SortedOK(sched) /\ TokenOK(sched) /\ IdleOK(sched)
  BY <1>1 DEF Good
<1>3. NotListed(sched, self) /\ Listed(sched, RunningQueue, Idle)
  BY <1>1, <1>2, HolderNotListed, IdleListed
<1> DEFINE x == [sched.context EXCEPT ![self] = FALSE]
<1>4. PICK S : S = [sched EXCEPT !.context = x]
  OBVIOUS
<1>5. x \in [Threads -> BOOLEAN] /\ \A u \in Threads \ {self} : x[u] = sched.context[u]
  BY <1>2, Fields
<1>6. sched' = RunNextThread(S)
  BY <1>4 DEF ThreadExit
<1> HIDE DEF x
<1>7. /\ S \in SchedType /\ S.context = x /\ S.list = sched.list
      /\ S.priority = sched.priority /\ S.state = sched.state
      /\ S.queue = sched.queue /\ S.running = sched.running /\ S.halt = sched.halt
  BY <1>2, <1>4, <1>5 DEF SchedType
<1>8. \A q \in QueueIds : \A i \in 1..Len(sched.list[q]) :
        sched.list[q][i] \in Threads \ {self}
  BY <1>2, <1>3, Fields DEF NotListed, Listed
<1>9. ListsOK(S) /\ SortedOK(S)
  BY <1>2, <1>5, <1>7, <1>8 DEF ListsOK, SortedOK
<1>10. Listed(S, RunningQueue, Idle)
  BY <1>3, <1>7 DEF Listed
<1>11. Good(sched') /\ TopOK(sched')
  BY <1>1, <1>2, <1>6, <1>7, <1>9, <1>10, RunNextGood
<1>12. RestOK'
  BY <1>1 DEF ThreadExit, RestOK, Places
<1> QED  BY <1>11, <1>12, GoodInv

\* thread_queue_remove of a thread from the list its queue field names, with
\* the lists ordered by the priorities from before the thread's own changed.
LEMMA RemoveGood ==
  ASSUME NEW S \in SchedType, S.halt = "none", ListsOK(S), NEW t \in Threads,
         NEW old, \A u \in Threads \ {t} : S.priority[u] = old[u],
         \A p \in QueueIds : SortedByPriority(S.list[p], old),
         NEW R \in ThreadQueueRemove(S, S.queue[t], t)
  PROVE  /\ R \in SchedType /\ R.running = S.running
         /\ R.priority = S.priority /\ R.state = S.state
         /\ R.queue = S.queue /\ R.context = S.context
         /\ R.halt \in {"none", "hang", "fault"}
         /\ R.halt = "none" =>
              /\ ListsOK(R) /\ SortedOK(R) /\ NotListed(R, t)
              /\ \A p \in QueueIds, u \in Threads :
                   u # t => (Listed(R, p, u) <=> Listed(S, p, u))
PROOF
<1> DEFINE q == S.queue[t]
           s == S.list[q]
<1>1. q \in QueueIds \cup {Null}
  BY Fields
<1>2. \A p \in QueueIds : \A i \in 1..Len(S.list[p]) : S.list[p][i] \in Threads
  BY Fields
<1>3. ASSUME NEW p \in QueueIds, ~Listed(S, p, t)
      PROVE  SortedByPriority(S.list[p], S.priority)
  <2>1. \A i \in 1..Len(S.list[p]) : S.priority[S.list[p][i]] = old[S.list[p][i]]
    BY <1>2, <1>3 DEF Listed
  <2>2. \A i, j \in 1..Len(S.list[p]) :
          i < j => old[S.list[p][i]] >= old[S.list[p][j]]
    BY DEF SortedByPriority
  <2> QED  BY <2>1, <2>2 DEF SortedByPriority
<1>4. \A p \in QueueIds : Listed(S, p, t) => p = q
  BY ListsByMembers DEF ListedOK
<1>5. CASE R = S /\ NotListed(S, t)
  BY <1>3, <1>5 DEF NotListed, SortedOK
<1>6. CASE R = [S EXCEPT !.halt = "hang"] \/ R = [S EXCEPT !.halt = "fault"]
  BY <1>6 DEF SchedType, Halts
<1>7. CASE /\ q \in QueueIds /\ s # << >> /\ s[1] = t
           /\ R = [S EXCEPT !.list[q] = Tail(@)]
  <2>1. s \in Seq(Threads) /\ Tail(s) \in Seq(Threads)
    BY <1>7, Fields
  <2> DEFINE l == [S.list EXCEPT ![q] = Tail(s)]
  <2>2. l \in [QueueIds -> Seq(Threads)] /\ R = [S EXCEPT !.list = l]
    BY <1>7, <2>1, Fields DEF SchedType
  <2>3. /\ R \in SchedType /\ R.list = l /\ R.running = S.running
        /\ R.priority = S.priority /\ R.state = S.state
        /\ R.queue = S.queue /\ R.context = S.context /\ R.halt = "none"
    <3> HIDE DEF l
    <3> QED  BY <2>2 DEF SchedType
  <2>4. \A p \in QueueIds \ {q} : SortedByPriority(S.list[p], S.priority)
    BY <1>3, <1>4
  <2>5. SortedByPriority(Tail(s), S.priority)
    <3>1. SortedByPriority(Tail(s), old)
      BY <1>7, <2>1, TailSorted
    <3>2. \A i \in 1..Len(Tail(s)) : Tail(s)[i] \in Threads \ {t}
      <4>1. Distinct(s)
        BY <1>7, ListsByMembers
      <4> SUFFICES ASSUME NEW i \in 1..Len(Tail(s))  PROVE Tail(s)[i] \in Threads \ {t}
        OBVIOUS
      <4>2. /\ i + 1 \in 1..Len(s) /\ 1 \in 1..Len(s) /\ i + 1 # 1
            /\ Tail(s)[i] = s[i + 1] /\ s[i + 1] \in Threads
        BY <1>7, <2>1
      <4> QED  BY <1>7, <4>1, <4>2 DEF Distinct
    <3>3. \A i \in 1..Len(Tail(s)) : S.priority[Tail(s)[i]] = old[Tail(s)[i]]
      BY <3>2
    <3>4. \A i, j \in 1..Len(Tail(s)) :
            i < j => old[Tail(s)[i]] >= old[Tail(s)[j]]
      BY <3>1 DEF SortedByPriority
    <3> QED  BY <3>3, <3>4 DEF SortedByPriority
  <2>6. /\ ListsOK(R) /\ SortedOK(R) /\ NotListed(R, S.list[q][1])
        /\ \A p \in QueueIds, u \in Threads :
             u # S.list[q][1] => (Listed(R, p, u) <=> Listed(S, p, u))
    <3>1. PICK w \in QueueIds : w = q
      BY <1>7
    <3>2. /\ S.list[w] # << >>
          /\ R.list = [S.list EXCEPT ![w] = Tail(S.list[w])]
          /\ \A p \in QueueIds \ {w} : SortedByPriority(S.list[p], S.priority)
          /\ SortedByPriority(Tail(S.list[w]), S.priority)
      BY <1>7, <2>3, <2>4, <2>5, <3>1
    <3> HIDE DEF q, s, l
    <3>3. /\ ListsOK(R) /\ SortedOK(R) /\ NotListed(R, S.list[w][1])
          /\ \A p \in QueueIds, u \in Threads :
               u # S.list[w][1] => (Listed(R, p, u) <=> Listed(S, p, u))
      BY <2>3, <3>2, RemoveHead
    <3> QED  BY <3>1, <3>3
  <2> QED  BY <1>7, <2>3, <2>6
<1>8. CASE q = Null
  <2>1. R = S
    BY <1>8 DEF ThreadQueueRemove
  <2> QED  BY <1>5, <1>8, <2>1, NullNotListed
<1>9. CASE q \in QueueIds
  <2>1. s \in Seq(Threads) /\ q # Null
    BY <1>9, Fields, NullAssumption
  <2>2. \/ s # << >> /\ s[1] = t /\ R = [S EXCEPT !.list[q] = Tail(@)]
        \/ R = S /\ Len(s) = 1 /\ s[1] # t
        \/ R = S /\ s = << >>
        \/ R = [S EXCEPT !.halt = "hang"] \/ R = [S EXCEPT !.halt = "fault"]
    BY <2>1 DEF ThreadQueueRemove, RemoveOutcome
  <2>3. ASSUME s = << >> \/ (Len(s) = 1 /\ s[1] # t)
        PROVE  NotListed(S, t)
    <3>1. ~Listed(S, q, t)
      BY <2>1, <2>3 DEF Listed
    <3> QED  BY <1>4, <3>1 DEF NotListed
  <2> QED  BY <1>5, <1>6, <1>7, <1>9, <2>2, <2>3
<1> QED  BY <1>1, <1>8, <1>9

\* Unlinking a thread other than the holder and the idle one.
LEMMA UnlinkGood ==
  ASSUME NEW S, Good(S), NEW t \in Threads, t # S.running, t # Idle,
         NEW R \in SchedType, R.running = S.running, R.halt = "none",
         R.queue = S.queue, R.context = S.context, R.state = S.state,
         ListsOK(R), SortedOK(R),
         \A u \in Threads \ {t} : R.priority[u] = S.priority[u],
         \A p \in QueueIds, u \in Threads :
           u # t => (Listed(R, p, u) <=> Listed(S, p, u))
  PROVE  Good(R)
PROOF
<1>1. S \in SchedType /\ S.running \in Threads
  BY DEF Good
<1>2. TokenOK(R)
  BY DEF Good, TokenOK
<1>3. IdleOK(R)
  BY <1>1, IdleListed, RunningQueueId, ThreadsAssumption DEF Good
<1> QED  BY <1>1, <1>2, <1>3 DEF Good

LEMMA OsDestroyThreadStep ==
  ASSUME SchedInv, NEW self \in Threads, NEW t \in Threads, OsDestroyThread(self, t)
  PROVE  SchedInv'
PROOF
<1>1. Good(sched) /\ RestOK /\ TopOK(sched) /\ sched.running = self
  BY HolderGood DEF OsDestroyThread
<1>2. /\ sched \in SchedType /\ sched.halt = "none" /\ ListsOK(sched)
      /\ SortedOK(sched) /\ TokenOK(sched)
      /\ t # self /\ t # Idle /\ self # Null
  BY <1>1, ThreadsAssumption DEF Good, OsDestroyThread
<1>3. PICK S \in IF sched.state[t] # "STOPPED"
                 THEN ThreadQueueRemove(sched, sched.queue[t], t)
                 ELSE {sched} :
        IF S.halt = "none"
        THEN /\ sched' = [S EXCEPT !.context[t] = FALSE]
             /\ pc' = [pc EXCEPT ![t] = "none"]
        ELSE sched' = S /\ UNCHANGED pc
  BY DEF OsDestroyThread
<1>4. /\ S \in SchedType /\ S.running = sched.running
      /\ S.priority = sched.priority /\ S.state = sched.state
      /\ S.queue = sched.queue /\ S.context = sched.context
      /\ S.halt \in {"none", "hang", "fault"}
      /\ S.halt = "none" =>
           /\ ListsOK(S) /\ SortedOK(S) /\ NotListed(S, t)
           /\ \A p \in QueueIds, u \in Threads :
                u # t => (Listed(S, p, u) <=> Listed(sched, p, u))
  <2>1. CASE sched.state[t] # "STOPPED"
    <3>1. S \in ThreadQueueRemove(sched, sched.queue[t], t)
      BY <1>3, <2>1
    <3>2. /\ \A p \in QueueIds : SortedByPriority(sched.list[p], sched.priority)
          /\ \A u \in Threads \ {t} : sched.priority[u] = sched.priority[u]
      BY <1>2 DEF SortedOK
    <3> QED  BY <1>2, <3>1, <3>2, RemoveGood
  <2>2. CASE sched.state[t] = "STOPPED"
    <3>1. S = sched
      BY <1>3, <2>2
    <3>2. NotListed(sched, t)
      BY <1>2, <2>2, ListsByMembers DEF NotListed, ListedOK
    <3> QED  BY <1>2, <3>1, <3>2
  <2> QED  BY <2>1, <2>2
<1>5. UNCHANGED << ring, call, external, requeued, mesg >>
  BY DEF OsDestroyThread
<1>6. CASE S.halt # "none"
  <2>1. sched' = S /\ UNCHANGED pc
    BY <1>3, <1>6
  <2>2. RestOK'
    BY <1>1, <1>5, <2>1 DEF RestOK
  <2> QED  BY <1>1, <1>2, <1>4, <1>6, <2>1, <2>2, HaltInv
<1>7. CASE S.halt = "none"
  <2>1. Good(S) /\ NotListed(S, t)
    BY <1>1, <1>2, <1>4, <1>7, UnlinkGood
  <2>2. TopOK(S)
    <3> SUFFICES ASSUME NEW i \in 1..Len(S.list[RunningQueue])
                 PROVE  S.priority[self] >= S.priority[S.list[RunningQueue][i]]
      BY <1>1, <1>4 DEF TopOK
    <3> DEFINE u == S.list[RunningQueue][i]
    <3>1. u \in Threads /\ u # t /\ Listed(S, RunningQueue, u)
      <4>1. u \in Threads
        BY <1>4, Fields, RunningQueueId
      <4>2. Listed(S, RunningQueue, u)
        BY DEF Listed
      <4> QED  BY <2>1, <4>1, <4>2, RunningQueueId DEF NotListed
    <3>2. Listed(sched, RunningQueue, u)
      BY <1>4, <1>7, <3>1, RunningQueueId
    <3> QED  BY <1>1, <1>2, <1>4, <3>2 DEF Listed, TopOK
  <2> DEFINE x == [S.context EXCEPT ![t] = FALSE]
  <2>3. x \in [Threads -> BOOLEAN] /\ \A u \in Threads \ {t} : x[u] = S.context[u]
    BY <1>4, Fields
  <2>4. sched' = [S EXCEPT !.context = x]
    BY <1>3, <1>4, <1>7 DEF SchedType
  <2> HIDE DEF x
  <2>5. /\ sched' \in SchedType /\ sched'.context = x /\ sched'.list = S.list
        /\ sched'.priority = S.priority /\ sched'.state = S.state
        /\ sched'.queue = S.queue /\ sched'.running = S.running
        /\ sched'.halt = S.halt
    BY <1>4, <2>3, <2>4 DEF SchedType
  <2>6. TokenOK(sched')
    BY <1>1, <1>2, <1>4, <2>3, <2>5 DEF TokenOK
  <2>7. Good(sched') /\ TopOK(sched')
    <3>1. t # S.running
      BY <1>1, <1>2, <1>4
    <3> QED  BY <2>1, <2>2, <2>3, <2>5, <2>6, <3>1, FrameGood
  <2>8. RestOK'
    <3>1. pc' = [pc EXCEPT ![t] = "none"]
      BY <1>3, <1>7
    <3> QED  BY <1>1, <1>2, <1>5, <3>1 DEF RestOK, Places
  <2> QED  BY <2>7, <2>8, GoodInv
<1> QED  BY <1>6, <1>7

LEMMA OsSetThreadPriStep ==
  ASSUME SchedInv, NEW self \in Threads, NEW t \in Threads, NEW pri \in Priorities,
         OsSetThreadPri(self, t, pri)
  PROVE  SchedInv'
PROOF
<1>1. Good(sched) /\ RestOK /\ sched.running = self
  BY HolderGood DEF OsSetThreadPri
<1>2. /\ sched \in SchedType /\ sched.halt = "none" /\ ListsOK(sched)
      /\ SortedOK(sched) /\ TokenOK(sched) /\ IdleOK(sched) /\ self # Null
  BY <1>1, ThreadsAssumption DEF Good
<1>3. /\ sched.context[t] /\ t \in Victims \cup {self}
      /\ t # self => t # Idle
      /\ UNCHANGED << ring, pc, call, external, requeued, mesg >>
  BY ThreadsAssumption DEF OsSetThreadPri
<1>4. RestOK'
  BY <1>1, <1>3 DEF RestOK
<1> DEFINE p == [sched.priority EXCEPT ![t] = pri]
<1>5. PICK S : S = [sched EXCEPT !.priority[t] = pri]
  OBVIOUS
<1>6. p \in [Threads -> Priorities] /\ \A u \in Threads \ {t} : p[u] = sched.priority[u]
  BY <1>2, Fields
<1>7. S = [sched EXCEPT !.priority = p]
  BY <1>2, <1>5 DEF SchedType
<1> HIDE DEF p
<1>8. /\ S \in SchedType /\ S.priority = p /\ S.list = sched.list
      /\ S.state = sched.state /\ S.queue = sched.queue
      /\ S.context = sched.context /\ S.running = sched.running
      /\ S.halt = "none"
  BY <1>2, <1>6, <1>7 DEF SchedType
<1>9. sched' \in IF t # self /\ S.state[t] # "STOPPED"
                 THEN Reposition(S, t)
                 ELSE {CheckRunningQueue(S)}
  BY <1>5 DEF OsSetThreadPri
<1>10. CASE t = self \/ S.state[t] = "STOPPED"
  <2>1. NotListed(sched, t)
    <3>1. CASE t = self
      BY <1>1, <1>2, <3>1, HolderNotListed
    <3>2. CASE S.state[t] = "STOPPED"
      BY <1>2, <1>8, <3>2, ListsByMembers DEF NotListed, ListedOK
    <3> QED  BY <1>10, <3>1, <3>2
  <2>2. TokenOK(S)
    BY <1>2, <1>8 DEF TokenOK
  <2>3. Good(S)
    BY <1>1, <1>2, <1>6, <1>8, <2>1, <2>2, FrameGood
  <2>4. sched' = CheckRunningQueue(S)
    BY <1>9, <1>10
  <2>5. Good(sched') /\ TopOK(sched')
    BY <2>3, <2>4, CheckGood
  <2> QED  BY <1>4, <2>5, GoodInv
<1>11. CASE t # self /\ S.state[t] # "STOPPED"
  <2>1. PICK R \in ThreadQueueRemove(S, S.queue[t], t) :
          sched' = IF R.halt # "none" THEN R
                   ELSE IF R.queue[t] = Null THEN [R EXCEPT !.halt = "fault"]
                   ELSE CheckRunningQueue(ThreadQueueInsert(R, R.queue[t], t))
    BY <1>9, <1>11 DEF Reposition
  <2>2. ListsOK(S)
    BY <1>2, <1>8 DEF ListsOK
  <2>3. /\ \A u \in Threads \ {t} : S.priority[u] = sched.priority[u]
        /\ \A q \in QueueIds : SortedByPriority(S.list[q], sched.priority)
    BY <1>2, <1>6, <1>8 DEF SortedOK
  <2>4. /\ R \in SchedType /\ R.running = S.running
        /\ R.priority = S.priority /\ R.state = S.state
        /\ R.queue = S.queue /\ R.context = S.context
        /\ R.halt \in {"none", "hang", "fault"}
        /\ R.halt = "none" =>
             /\ ListsOK(R) /\ SortedOK(R) /\ NotListed(R, t)
             /\ \A q \in QueueIds, u \in Threads :
                  u # t => (Listed(R, q, u) <=> Listed(S, q, u))
    BY <1>8, <2>1, <2>2, <2>3, RemoveGood
  <2>5. CASE R.halt # "none"
    BY <1>1, <1>2, <1>4, <1>8, <2>1, <2>4, <2>5, HaltInv
  <2>6. CASE R.halt = "none" /\ R.queue[t] = Null
    <3>1. sched' = [R EXCEPT !.halt = "fault"]
      BY <2>1, <2>6
    <3>2. sched' \in SchedType /\ sched'.halt = "fault" /\ sched'.running = R.running
      BY <2>4, <3>1 DEF SchedType, Halts
    <3> QED  BY <1>1, <1>2, <1>4, <1>8, <2>4, <3>2, HaltInv
  <2>7. CASE R.halt = "none" /\ R.queue[t] # Null
    <3>1. PICK q \in QueueIds : q = R.queue[t]
      BY <2>4, <2>7, Fields
    <3>2. R.context[t] /\ R.state[t] = "QUEUED"
      BY <1>3, <1>8, <1>11, <2>4, Fields
    <3>3. \A r \in QueueIds, u \in Threads :
            u # t => (Listed(R, r, u) <=> Listed(sched, r, u))
      BY <1>8, <2>4, <2>7 DEF Listed
    <3>4. Good(R)
      BY <1>1, <1>3, <1>6, <1>8, <1>11, <2>4, <2>7, <3>3, UnlinkGood
    <3>5. PICK I : I = ThreadQueueInsert(R, q, t)
      OBVIOUS
    <3>6. /\ I \in SchedType /\ ListsOK(I) /\ SortedOK(I)
          /\ I.queue = [R.queue EXCEPT ![t] = q]
          /\ I.priority = R.priority /\ I.context = R.context /\ I.state = R.state
          /\ I.running = R.running /\ I.halt = R.halt
          /\ \A r \in QueueIds, u \in Threads :
               Listed(I, r, u) <=> Listed(R, r, u) \/ (r = q /\ u = t)
      BY <2>4, <2>7, <3>2, <3>5, InsertGood
    <3>7. TokenOK(I)
      <4>1. I.queue[self] = R.queue[self]
        BY <1>11, <2>4, <3>6, Fields
      <4> QED  BY <1>1, <1>2, <1>8, <2>4, <3>6, <4>1 DEF TokenOK
    <3>8. IdleOK(I)
      <4>1. /\ R.running \in Threads /\ I.running \in Threads
            /\ I.running = R.running
        BY <1>1, <1>8, <2>4, <3>6
      <4>2. R.running = Idle \/ Listed(R, RunningQueue, Idle)
        BY <3>4, <4>1, IdleListed DEF Good
      <4> QED  BY <3>6, <4>1, <4>2, IdleListed, RunningQueueId, ThreadsAssumption
    <3>9. Good(I)
      BY <1>1, <1>8, <2>4, <2>7, <3>6, <3>7, <3>8 DEF Good
    <3>10. sched' = CheckRunningQueue(I)
      BY <2>1, <2>7, <3>1, <3>5
    <3>11. Good(sched') /\ TopOK(sched')
      BY <3>9, <3>10, CheckGood
    <3> QED  BY <1>4, <3>11, GoodInv
  <2> QED  BY <2>5, <2>6, <2>7
<1> QED  BY <1>10, <1>11
-----------------------------------------------------------------------------
(***************************************************************************)
(* The theorems.                                                           *)
(***************************************************************************)
LEMMA InitInv == Init => SchedInv
PROOF
<1> SUFFICES ASSUME Init  PROVE SchedInv
  OBVIOUS
<1>1. sched \in SchedType
  BY PrioritiesAssumption DEF Init, SchedType, Halts
<1>2. TypeOK
  BY <1>1 DEF Init, TypeOK, Places
<1>3. \A q \in QueueIds : sched.list[q] = << >>
  BY DEF Init
<1>4. OneQueue /\ ListsSorted
  BY <1>3 DEF Init, OneQueue, ListsOK, TokenOK, ListsSorted, SortedOK,
     SortedByPriority
<1>5. HighestPriorityRuns /\ NeverOutOfThreads
  BY DEF Init, HighestPriorityRuns, NeverOutOfThreads, IdleOK
<1> QED  BY <1>2, <1>3, <1>4, <1>5, ThreadsAssumption DEF Init, SchedInv

LEMMA ThreadStepInv ==
  ASSUME SchedInv, NEW t \in Threads, ThreadStep(t)
  PROVE  SchedInv'
PROOF
<1>1. ASSUME NEW q \in MQs, NEW m \in GameMsgs, NEW block \in BOOLEAN,
             OsSendMesg(t, q, m, block) \/ OsJamMesg(t, q, m, block)
      PROVE  SchedInv'
  <2>1. \A jam \in BOOLEAN :
          [op |-> "send", mq |-> q, msg |-> m, jam |-> jam, block |-> block] \in Calls
    BY DEF Calls, Msgs
  <2> QED  BY <1>1, <2>1, BeginCallStep DEF OsSendMesg, OsJamMesg
<1>2. ASSUME NEW q \in MQs, NEW block \in BOOLEAN, OsRecvMesg(t, q, block)
      PROVE  SchedInv'
  <2>1. [op |-> "recv", mq |-> q, msg |-> Null, jam |-> FALSE, block |-> block]
          \in Calls
    BY DEF Calls
  <2> QED  BY <1>2, <2>1, BeginCallStep DEF OsRecvMesg
<1>3. CASE \/ DrainOne(t) \/ DrainDone(t) \/ DoSend(t) \/ DoRecv(t) \/ CallFails(t)
           \/ BlockOnSend(t) \/ BlockOnRecv(t)
  BY <1>3, DrainOneStep, DrainDoneStep, DoSendStep, DoRecvStep, CallFailsStep,
     BlockOnSendStep, BlockOnRecvStep
<1>4. CASE \E q \in MQs : PiMessage(t, q)
  BY <1>4, PiMessageStep
<1>5. CASE \E q \in MQs, count \in Capacities : OsCreateMesgQueue(t, q, count)
  BY <1>5, OsCreateMesgQueueStep
<1>6. CASE \/ \E place \in {"pause", "yield", "yield_1ms"} : BeginWait(t, place)
           \/ WaitForExternalMessage(t) \/ WaitTimesOut(t)
  BY <1>6, BeginWaitStep, WaitForExternalMessageStep, WaitTimesOutStep
<1>7. CASE \E u \in Threads, pri \in Priorities :
             OsCreateThread(t, u, pri) \/ OsSetThreadPri(t, u, pri)
  BY <1>7, OsCreateThreadStep, OsSetThreadPriStep
<1>8. CASE \/ \E u \in Threads : OsStartThread(t, u) \/ OsDestroyThread(t, u)
           \/ OsStopThread(t) \/ ThreadExit(t)
  BY <1>8, OsStartThreadStep, OsDestroyThreadStep, OsStopThreadStep, ThreadExitStep
<1> QED  BY <1>1, <1>2, <1>3, <1>4, <1>5, <1>6, <1>7, <1>8 DEF ThreadStep

LEMMA StutterInv ==
  ASSUME SchedInv, UNCHANGED vars
  PROVE  SchedInv'
  BY DEF vars, SchedInv, TypeOK, OneQueue, ListsSorted, HighestPriorityRuns,
     NeverOutOfThreads

\* The inductive invariant: from the boot, every step of the host threads and
\* of the token holder keeps the lists of threadqueue.cpp, the token and the
\* priorities consistent, for every number of threads and queues.
THEOREM SchedulerInvariant == Spec => []SchedInv
PROOF
<1>1. Init => SchedInv
  BY InitInv
<1>2. SchedInv /\ [Next]_vars => SchedInv'
  <2> SUFFICES ASSUME SchedInv, [Next]_vars  PROVE SchedInv'
    OBVIOUS
  <2> QED  BY BootIdleStep, EventMessageStep, HostMessageStep, ThreadStepInv,
              StutterInv DEF Next
<1> QED  BY <1>1, <1>2, PTL DEF Spec

\* Every variable keeps its type; the indices of a ring stay in its array.
THEOREM TypeCorrect == Spec => []TypeOK
PROOF
<1>1. SchedInv => TypeOK
  BY DEF SchedInv
<1> QED  BY <1>1, SchedulerInvariant, PTL

\* A thread is in at most one list of threadqueue.cpp, at one place, and the
\* thread that runs is in none.
THEOREM ThreadInOneQueue == Spec => []OneQueue
PROOF
<1>1. SchedInv => OneQueue
  BY DEF SchedInv
<1> QED  BY <1>1, SchedulerInvariant, PTL

\* Every list stays ordered by the current priorities (thread_queue_insert,
\* osSetThreadPri).
THEOREM QueuesStaySorted == Spec => []ListsSorted
PROOF
<1>1. SchedInv => ListsSorted
  BY DEF SchedInv
<1> QED  BY <1>1, SchedulerInvariant, PTL

\* Game code never runs while a thread of a higher priority is ready
\* (check_running_queue).
THEOREM PriorityRespected == Spec => []HighestPriorityRuns
PROOF
<1>1. SchedInv => HighestPriorityRuns
  BY DEF SchedInv
<1> QED  BY <1>1, SchedulerInvariant, PTL

\* run_next_thread never finds the running queue empty.
THEOREM AlwaysAThread == Spec => []NeverOutOfThreads
PROOF
<1>1. SchedInv => NeverOutOfThreads
  BY DEF SchedInv
<1> QED  BY <1>1, SchedulerInvariant, PTL
-----------------------------------------------------------------------------
(***************************************************************************)
(* No wakeup is lost.                                                      *)
(***************************************************************************)
Sides    == {"recv", "send"}
Other(op) == IF op = "recv" THEN "send" ELSE "recv"

\* A thread with the token or a turn.
ReadyIn(S, u) == S.running = u \/ Listed(S, RunningQueue, u)

\* A thread on its way to do_send or do_recv on q.
Wants(P, C, u, op, q) == P[u] = "op" /\ C[u].op = op /\ C[u].mq = q

Woken(S, P, C, op, q) ==
  {u \in Threads : ReadyIn(S, u) /\ Wants(P, C, u, op, q)}

\* What a call can have at once: messages to receive, slots to send to.
Pending(r, op) ==
  IF op = "recv" THEN r.validCount ELSE r.msgCount - r.validCount

\* Who waits in a list waits for what the list is for, and all that is there
\* has somebody on its way.
Sound(S, rg, P, C) ==
  \A q \in MQs, op \in Sides :
    /\ \A u \in Threads : Listed(S, << op, q >>, u) => Wants(P, C, u, op, q)
    /\ (\E u \in Threads : Listed(S, << op, q >>, u)) =>
         Pending(rg[q], op) <= Cardinality(Woken(S, P, C, op, q))

Rings == [MQs -> RingType \cup {NoRing}]

LEMMA WaitLists ==
  ASSUME NEW op \in Sides, NEW q \in MQs
  PROVE  /\ << op, q >> \in QueueIds /\ << op, q >> # RunningQueue
         /\ RunningQueue \in QueueIds
  BY DEF Sides, QueueIds, RunningQueue

LEMMA PendingType ==
  ASSUME NEW rg \in Rings, NEW q \in MQs, NEW op \in Sides
  PROVE  Pending(rg[q], op) \in Int
<1>1. CASE rg[q] \in RingType
  BY <1>1, RingFields DEF Pending
<1>2. CASE rg[q] = NoRing
  BY <1>2 DEF Pending, NoRing
<1> QED BY <1>1, <1>2 DEF Rings

\* At most one thread runs and a list is finite.
LEMMA WokenFinite ==
  ASSUME NEW S \in SchedType, NEW P, NEW C, NEW op, NEW q
  PROVE  /\ IsFiniteSet(Woken(S, P, C, op, q))
         /\ Cardinality(Woken(S, P, C, op, q)) \in Nat
<1> DEFINE s == S.list[RunningQueue]
           f == [i \in 1..Len(s) |-> s[i]]
           members == {s[i] : i \in 1..Len(s)}
<1>1. s \in Seq(Threads) /\ Len(s) \in Nat
  BY Fields, RunningQueueId
<1>2. IsFiniteSet(1..Len(s))
  BY <1>1, FS_Interval
<1>3. f \in Surjection(1..Len(s), members)
  BY DEF Surjection
<1>4. IsFiniteSet(members)
  <2> HIDE DEF f, members, s
  <2> QED BY <1>2, <1>3, FS_Surjection
<1>5. IsFiniteSet(members \cup {S.running})
  BY <1>4, FS_AddElement
<1>6. Woken(S, P, C, op, q) \subseteq members \cup {S.running}
  BY DEF Woken, ReadyIn, Listed
<1>7. IsFiniteSet(Woken(S, P, C, op, q))
  BY <1>5, <1>6, FS_Subset
<1> QED BY <1>7, FS_CardinalityType

-----------------------------------------------------------------------------
(* How many are on their way *)

LEMMA MoreWoken ==
  ASSUME NEW A, NEW B, IsFiniteSet(B), A \subseteq B,
         NEW n \in Int, n <= Cardinality(A)
  PROVE  n <= Cardinality(B)
<1>1. IsFiniteSet(A) /\ Cardinality(A) <= Cardinality(B)
  BY FS_Subset
<1> QED BY <1>1, FS_CardinalityType

LEMMA OneWoken ==
  ASSUME NEW A, NEW B, IsFiniteSet(A), IsFiniteSet(B), NEW h, h \notin A,
         A \cup {h} \subseteq B, NEW n \in Int, n <= Cardinality(A)
  PROVE  n + 1 <= Cardinality(B)
<1>1. Cardinality(A \cup {h}) = Cardinality(A) + 1
  BY FS_AddElement
<1>2. Cardinality(A \cup {h}) <= Cardinality(B)
  BY FS_Subset
<1> QED BY <1>1, <1>2, FS_CardinalityType

LEMMA OneServed ==
  ASSUME NEW A, NEW B, IsFiniteSet(A), IsFiniteSet(B), NEW t, A \ {t} \subseteq B,
         NEW n \in Int, n <= Cardinality(A)
  PROVE  n - 1 <= Cardinality(B)
<1>1. IsFiniteSet(A \ {t}) /\ Cardinality(A \ {t}) >= Cardinality(A) - 1
  BY FS_RemoveElement, FS_CardinalityType
<1>2. Cardinality(A \ {t}) <= Cardinality(B)
  BY FS_Subset
<1>3. Cardinality(A \ {t}) \in Nat /\ Cardinality(A) \in Nat /\ Cardinality(B) \in Nat
  BY <1>1, FS_CardinalityType
<1> QED BY <1>1, <1>2, <1>3

-----------------------------------------------------------------------------
(* Who is ready and who waits after the operations on the lists *)

\* Nobody becomes ready or stops being so, and nobody leaves or joins a wait
\* list: the token may change hands.
SameTurn(S, R) ==
  /\ \A u \in Threads : ReadyIn(R, u) <=> ReadyIn(S, u)
  /\ \A op \in Sides, q \in MQs, u \in Threads :
       Listed(R, << op, q >>, u) <=> Listed(S, << op, q >>, u)

\* check_running_queue: who loses the token is scheduled.
LEMMA CheckTurn ==
  ASSUME NEW S, Good(S), NEW R, R = CheckRunningQueue(S)
  PROVE  SameTurn(S, R)
<1> DEFINE head == S.list[RunningQueue][1]
           self == S.running
           Swap == /\ S.list[RunningQueue] # << >>
                   /\ S.priority[head] > S.priority[self]
<1>1. /\ S \in SchedType /\ self \in Threads /\ ListsOK(S) /\ SortedOK(S) /\ TokenOK(S)
      /\ NotListed(S, self) /\ S.context[self]
  BY HolderNotListed, ThreadsAssumption DEF Good, TokenOK
<1>2. CASE ~Swap
  BY <1>2 DEF CheckRunningQueue, SameTurn
<1>3. CASE Swap
  <2> DEFINE P == ThreadQueuePop(S, RunningQueue)
             Q == ScheduleRunningThread(P, self)
  <2>1. R = [Q EXCEPT !.running = head]
    BY <1>3 DEF CheckRunningQueue
  <2>2. /\ P \in SchedType /\ head \in Threads
        /\ ListsOK(P) /\ SortedOK(P) /\ NotListed(P, head)
        /\ P.queue = [S.queue EXCEPT ![head] = Null]
        /\ P.priority = S.priority /\ P.state = S.state /\ P.context = S.context
        /\ P.running = S.running /\ P.halt = S.halt
        /\ \A p \in QueueIds, u \in Threads :
             u # head => (Listed(P, p, u) <=> Listed(S, p, u))
    BY <1>1, <1>3, RunningQueueId, PopGood
  <2>3. Listed(S, RunningQueue, head) /\ self # head
    BY <1>1, <1>3, RunningQueueId, HeadListed DEF NotListed
  <2>4. NotListed(P, self) /\ P.context[self]
    BY <1>1, <2>2, <2>3 DEF NotListed
  <2> HIDE DEF P
  <2>5. /\ Q \in SchedType /\ ListsOK(Q) /\ SortedOK(Q)
        /\ Q.queue = [P.queue EXCEPT ![self] = RunningQueue]
        /\ Q.state = [P.state EXCEPT ![self] = "QUEUED"]
        /\ Q.priority = P.priority /\ Q.context = P.context
        /\ Q.running = P.running /\ Q.halt = P.halt
        /\ \A p \in QueueIds, u \in Threads :
             Listed(Q, p, u) <=> Listed(P, p, u) \/ (p = RunningQueue /\ u = self)
        /\ \A u \in Threads \ {self} : NotListed(P, u) => NotListed(Q, u)
    BY <1>1, <2>2, <2>4, ScheduleGood
  <2> HIDE DEF Q, head
  <2>6. R.running = head /\ R.list = Q.list
    BY <2>1, <2>5 DEF SchedType
  <2>7. \A p, u : Listed(R, p, u) <=> Listed(Q, p, u)
    BY <2>6 DEF Listed
  <2>8. ASSUME NEW op \in Sides, NEW q \in MQs, NEW u \in Threads
        PROVE  Listed(R, << op, q >>, u) <=> Listed(S, << op, q >>, u)
    <3>1. /\ << op, q >> \in QueueIds /\ << op, q >> # RunningQueue
          /\ RunningQueue \in QueueIds
      BY WaitLists
    <3>2. ListedOK(S, RunningQueue, head)
      BY <1>1, <2>2, <2>3, <3>1, ListsByMembers
    <3>3. ~Listed(S, << op, q >>, head)
      BY <1>1, <2>2, <3>1, <3>2, ListsByMembers DEF ListedOK
    <3> QED BY <2>2, <2>5, <2>7, <3>1, <3>3 DEF NotListed
  <2>9. ASSUME NEW u \in Threads PROVE ReadyIn(R, u) <=> ReadyIn(S, u)
    BY <1>1, <2>2, <2>3, <2>5, <2>6, <2>7, RunningQueueId DEF ReadyIn, NotListed
  <2> QED BY <2>8, <2>9 DEF SameTurn
<1> QED BY <1>2, <1>3

\* run_next_thread: the holder leaves, one of the others gets the token.
LEMMA RunNextTurn ==
  ASSUME NEW S \in SchedType, ListsOK(S), SortedOK(S),
         S.list[RunningQueue] # << >>,
         NEW R, R = RunNextThread(S)
  PROVE  /\ R \in SchedType
         /\ \A u \in Threads : ReadyIn(R, u) <=> Listed(S, RunningQueue, u)
         /\ \A op \in Sides, q \in MQs, u \in Threads :
              Listed(R, << op, q >>, u) <=> Listed(S, << op, q >>, u)
<1> DEFINE head == S.list[RunningQueue][1]
           P == ThreadQueuePop(S, RunningQueue)
<1>1. R = [P EXCEPT !.running = head]
  BY DEF RunNextThread
<1>2. /\ P \in SchedType /\ head \in Threads
      /\ ListsOK(P) /\ SortedOK(P) /\ NotListed(P, head)
      /\ P.queue = [S.queue EXCEPT ![head] = Null]
      /\ P.priority = S.priority /\ P.state = S.state /\ P.context = S.context
      /\ P.running = S.running /\ P.halt = S.halt
      /\ \A p \in QueueIds, u \in Threads :
           u # head => (Listed(P, p, u) <=> Listed(S, p, u))
  BY RunningQueueId, PopGood
<1>3. Listed(S, RunningQueue, head)
  BY RunningQueueId, HeadListed
<1> HIDE DEF P, head
<1>4. R.running = head /\ R.list = P.list /\ R \in SchedType
  BY <1>1, <1>2 DEF SchedType
<1>5. \A p, u : Listed(R, p, u) <=> Listed(P, p, u)
  BY <1>4 DEF Listed
<1>6. ASSUME NEW op \in Sides, NEW q \in MQs, NEW u \in Threads
      PROVE  Listed(R, << op, q >>, u) <=> Listed(S, << op, q >>, u)
  <2>1. /\ << op, q >> \in QueueIds /\ << op, q >> # RunningQueue
        /\ RunningQueue \in QueueIds
    BY WaitLists
  <2>2. ~Listed(S, << op, q >>, head)
    BY <1>2, <1>3, <2>1, ListsByMembers DEF ListedOK
  <2> QED BY <1>2, <1>5, <2>1, <2>2 DEF NotListed
<1>7. ASSUME NEW u \in Threads PROVE ReadyIn(R, u) <=> Listed(S, RunningQueue, u)
  BY <1>2, <1>3, <1>4, <1>5, RunningQueueId DEF ReadyIn, NotListed
<1> QED BY <1>4, <1>6, <1>7

\* What the wakeup at the end of do_send or do_recv does: the first thread of
\* the wait list, if there is one, becomes ready.
Wakes(S, R, op, q) ==
  \/ SameTurn(S, R) /\ \A u \in Threads : ~Listed(S, << op, q >>, u)
  \/ \E h \in Threads :
       /\ Listed(S, << op, q >>, h)
       /\ ~ReadyIn(S, h)
       /\ \A u \in Threads : ReadyIn(R, u) <=> ReadyIn(S, u) \/ u = h
       /\ \A op2 \in Sides, q2 \in MQs, u \in Threads :
            Listed(R, << op2, q2 >>, u) => Listed(S, << op2, q2 >>, u)

LEMMA WakeTurn ==
  ASSUME NEW S, Good(S), NEW op \in Sides, NEW q \in MQs,
         NEW R, R = WakeOne(S, << op, q >>)
  PROVE  Wakes(S, R, op, q)
<1> DEFINE p == << op, q >>
           head == S.list[p][1]
           P == ThreadQueuePop(S, p)
<1>0. p \in QueueIds /\ p # RunningQueue /\ RunningQueue \in QueueIds
  BY WaitLists
<1>1. /\ S \in SchedType /\ S.running \in Threads
      /\ ListsOK(S) /\ SortedOK(S) /\ TokenOK(S)
      /\ NotListed(S, S.running)
  BY HolderNotListed DEF Good
<1> HIDE DEF p
<1>2. CASE S.list[p] = << >>
  <2>1. R = S /\ \A u \in Threads : ~Listed(S, << op, q >>, u)
    BY <1>2 DEF p, WakeOne, Listed
  <2> QED BY <2>1 DEF Wakes, SameTurn
<1>3. CASE S.list[p] # << >>
  <2>1. R = ScheduleRunningThread(P, head)
    BY <1>3 DEF p, WakeOne
  <2>2. /\ P \in SchedType /\ head \in Threads
        /\ ListsOK(P) /\ SortedOK(P) /\ NotListed(P, head)
        /\ P.queue = [S.queue EXCEPT ![head] = Null]
        /\ P.priority = S.priority /\ P.state = S.state /\ P.context = S.context
        /\ P.running = S.running /\ P.halt = S.halt
        /\ \A p2 \in QueueIds, u \in Threads :
             u # head => (Listed(P, p2, u) <=> Listed(S, p2, u))
    BY <1>0, <1>1, <1>3, PopGood
  <2>3. Listed(S, p, head) /\ ListedOK(S, p, head)
    BY <1>0, <1>1, <1>3, <2>2, HeadListed, ListsByMembers
  <2> HIDE DEF P, head
  <2>4. P.context[head]
    BY <2>2, <2>3 DEF ListedOK
  <2>5. /\ R.running = P.running
        /\ \A p2 \in QueueIds, u \in Threads :
             Listed(R, p2, u) <=> Listed(P, p2, u) \/ (p2 = RunningQueue /\ u = head)
    BY <2>1, <2>2, <2>4, ScheduleGood
  <2>6. S.running # head /\ ~Listed(S, RunningQueue, head)
    BY <1>0, <1>1, <2>2, <2>3, ListsByMembers DEF NotListed, ListedOK
  <2>7. \A u \in Threads : ReadyIn(R, u) <=> ReadyIn(S, u) \/ u = head
    BY <1>0, <2>2, <2>5, <2>6 DEF ReadyIn, NotListed
  <2>8. ASSUME NEW op2 \in Sides, NEW q2 \in MQs, NEW u \in Threads,
               Listed(R, << op2, q2 >>, u)
        PROVE  Listed(S, << op2, q2 >>, u)
    <3>1. << op2, q2 >> \in QueueIds /\ << op2, q2 >> # RunningQueue
      BY WaitLists
    <3> QED BY <2>2, <2>5, <2>8, <3>1 DEF NotListed
  <2> QED BY <2>2, <2>3, <2>6, <2>7, <2>8 DEF p, Wakes, ReadyIn
<1> QED BY <1>2, <1>3

LEMMA WakesThenTurns ==
  ASSUME NEW S, NEW R, NEW Q, NEW op \in Sides, NEW q \in MQs,
         Wakes(S, R, op, q), SameTurn(R, Q)
  PROVE  Wakes(S, Q, op, q)
  BY DEF Wakes, SameTurn

-----------------------------------------------------------------------------
(* The kinds of steps *)

\* Only thread t goes from place to place or begins a call.
OnlyThread(t, P, C, P2, C2) ==
  \A u \in Threads \ {t} : P2[u] = P[u] /\ C2[u] = C[u]

LEMMA OthersWant ==
  ASSUME NEW t \in Threads, NEW P, NEW C, NEW P2, NEW C2,
         OnlyThread(t, P, C, P2, C2), NEW u \in Threads \ {t}, NEW op, NEW q
  PROVE  Wants(P2, C2, u, op, q) <=> Wants(P, C, u, op, q)
  BY DEF OnlyThread, Wants

\* A step of a thread that is in no do_send and no do_recv, after which
\* nobody else has lost its turn and nobody has begun to wait.
LEMMA TurnStep ==
  ASSUME NEW S \in SchedType, NEW R \in SchedType, NEW rg \in Rings,
         NEW P, NEW C, NEW P2, NEW C2, NEW t \in Threads,
         Sound(S, rg, P, C), OnlyThread(t, P, C, P2, C2),
         P[t] # "op" \/ (~ReadyIn(S, t) /\ \A op \in Sides, q \in MQs : ~Listed(S, << op, q >>, t)),
         \A u \in Threads \ {t} : ReadyIn(S, u) => ReadyIn(R, u),
         \A op \in Sides, q \in MQs, u \in Threads :
           Listed(R, << op, q >>, u) => Listed(S, << op, q >>, u)
  PROVE  Sound(R, rg, P2, C2)
<1> SUFFICES ASSUME NEW q \in MQs, NEW op \in Sides
             PROVE  /\ \A u \in Threads : Listed(R, << op, q >>, u) => Wants(P2, C2, u, op, q)
                    /\ (\E u \in Threads : Listed(R, << op, q >>, u)) =>
                         Pending(rg[q], op) <= Cardinality(Woken(R, P2, C2, op, q))
  BY DEF Sound
<1>1. /\ \A u \in Threads : Listed(S, << op, q >>, u) => Wants(P, C, u, op, q)
      /\ (\E u \in Threads : Listed(S, << op, q >>, u)) =>
           Pending(rg[q], op) <= Cardinality(Woken(S, P, C, op, q))
  BY DEF Sound
<1>2. /\ ~Listed(S, << op, q >>, t)
      /\ t \notin Woken(S, P, C, op, q)
  BY <1>1 DEF Wants, Woken
<1>3. \A u \in Threads : Listed(R, << op, q >>, u) => Wants(P2, C2, u, op, q)
  BY <1>1, <1>2, OthersWant
<1>4. Woken(S, P, C, op, q) \subseteq Woken(R, P2, C2, op, q)
  BY <1>2, OthersWant DEF Woken
<1>5. ASSUME \E u \in Threads : Listed(R, << op, q >>, u)
      PROVE  Pending(rg[q], op) <= Cardinality(Woken(R, P2, C2, op, q))
  <2>1. Pending(rg[q], op) <= Cardinality(Woken(S, P, C, op, q))
    BY <1>1, <1>5
  <2> QED BY <1>4, <2>1, WokenFinite, MoreWoken, PendingType
<1> QED BY <1>3, <1>5

\* A message is put into q0, or taken out: the thread that did it, if it was
\* in a call of its own, has its message or its slot, and there is one more
\* for the other side, which wakes one.
LEMMA ServeStep ==
  ASSUME NEW S \in SchedType, NEW R \in SchedType, NEW rg \in Rings, NEW rg2 \in Rings,
         NEW P, NEW C, NEW P2, NEW C2, NEW t \in Threads,
         Sound(S, rg, P, C), OnlyThread(t, P, C, P2, C2),
         NEW q0 \in MQs, NEW op0 \in Sides,
         \A op \in Sides, q \in MQs : ~Listed(S, << op, q >>, t),
         \A op \in Sides, q \in MQs : Wants(P, C, t, op, q) => op = op0 /\ q = q0,
         \A q \in MQs \ {q0} : rg2[q] = rg[q],
         Pending(rg2[q0], op0) = Pending(rg[q0], op0) - 1,
         Pending(rg2[q0], Other(op0)) = Pending(rg[q0], Other(op0)) + 1,
         Wakes(S, R, Other(op0), q0)
  PROVE  Sound(R, rg2, P2, C2)
<1> SUFFICES ASSUME NEW q \in MQs, NEW op \in Sides
             PROVE  /\ \A u \in Threads : Listed(R, << op, q >>, u) => Wants(P2, C2, u, op, q)
                    /\ (\E u \in Threads : Listed(R, << op, q >>, u)) =>
                         Pending(rg2[q], op) <= Cardinality(Woken(R, P2, C2, op, q))
  BY DEF Sound
<1>1. /\ \A u \in Threads : Listed(S, << op, q >>, u) => Wants(P, C, u, op, q)
      /\ (\E u \in Threads : Listed(S, << op, q >>, u)) =>
           Pending(rg[q], op) <= Cardinality(Woken(S, P, C, op, q))
  BY DEF Sound
<1>2. /\ \A u \in Threads : ReadyIn(S, u) => ReadyIn(R, u)
      /\ \A u \in Threads : Listed(R, << op, q >>, u) => Listed(S, << op, q >>, u)
  BY DEF Wakes, SameTurn
<1>3. \A u \in Threads : Listed(R, << op, q >>, u) => Wants(P2, C2, u, op, q)
  BY <1>1, <1>2, OthersWant
<1>4. Woken(S, P, C, op, q) \ {t} \subseteq Woken(R, P2, C2, op, q)
  BY <1>2, OthersWant DEF Woken
<1>5. ASSUME NEW u \in Threads, Listed(R, << op, q >>, u)
      PROVE  Pending(rg2[q], op) <= Cardinality(Woken(R, P2, C2, op, q))
  <2> DEFINE A == Woken(S, P, C, op, q)
             B == Woken(R, P2, C2, op, q)
             n == Pending(rg[q], op)
  <2>1. /\ n <= Cardinality(A) /\ n \in Int
        /\ IsFiniteSet(A) /\ IsFiniteSet(B)
        /\ A \ {t} \subseteq B
    BY <1>1, <1>2, <1>4, <1>5, WokenFinite, PendingType
  <2>2. CASE q = q0 /\ op = op0
    <3>1. Pending(rg2[q], op) = n - 1
      BY <2>2
    <3> HIDE DEF A, B, n
    <3>2. n - 1 <= Cardinality(B)
      BY <2>1, OneServed
    <3> QED BY <3>1, <3>2 DEF B
  <2>3. CASE ~(q = q0 /\ op = op0)
    <3>1. t \notin A
      BY <2>3 DEF Woken
    <3>2. A \subseteq B
      BY <2>1, <3>1
    <3>3. CASE q # q0
      <4>1. Pending(rg2[q], op) = n
        BY <3>3
      <4> HIDE DEF A, B, n
      <4>2. n <= Cardinality(B)
        BY <2>1, <3>2, MoreWoken
      <4> QED BY <4>1, <4>2 DEF B
    <3>4. CASE q = q0 /\ op = Other(op0)
      <4>1. Pending(rg2[q], op) = n + 1
        BY <3>4
      <4>2. Listed(S, << op, q >>, u)
        BY <1>2, <1>5
      <4>3. PICK h \in Threads :
              /\ Listed(S, << op, q >>, h)
              /\ ~ReadyIn(S, h)
              /\ \A v \in Threads : ReadyIn(R, v) <=> ReadyIn(S, v) \/ v = h
        BY <3>4, <4>2 DEF Wakes
      <4>4. h # t /\ h \notin A
        BY <4>3 DEF Woken
      <4>5. h \in B
        BY <1>1, <4>3, <4>4, OthersWant DEF Woken
      <4> HIDE DEF A, B, n
      <4>6. n + 1 <= Cardinality(B)
        BY <2>1, <3>2, <4>4, <4>5, OneWoken
      <4> QED BY <4>1, <4>6 DEF B
    <3> QED BY <2>3, <3>3, <3>4 DEF Other, Sides
  <2> QED BY <2>2, <2>3
<1> QED BY <1>3, <1>5

\* A call that finds nothing of what it needs returns, or begins to wait.
LEMMA FailStep ==
  ASSUME NEW S \in SchedType, NEW R \in SchedType, NEW rg \in Rings,
         NEW P, NEW C, NEW P2, NEW C2, NEW t \in Threads,
         Sound(S, rg, P, C), OnlyThread(t, P, C, P2, C2),
         NEW q0 \in MQs, NEW op0 \in Sides,
         Wants(P, C, t, op0, q0),
         \A op \in Sides, q \in MQs : ~Listed(S, << op, q >>, t),
         Pending(rg[q0], op0) <= 0,
         \A u \in Threads \ {t} : ReadyIn(S, u) => ReadyIn(R, u),
         \A op \in Sides, q \in MQs, u \in Threads :
           Listed(R, << op, q >>, u) =>
             \/ Listed(S, << op, q >>, u)
             \/ u = t /\ op = op0 /\ q = q0 /\ Wants(P2, C2, t, op0, q0)
  PROVE  Sound(R, rg, P2, C2)
<1> SUFFICES ASSUME NEW q \in MQs, NEW op \in Sides
             PROVE  /\ \A u \in Threads : Listed(R, << op, q >>, u) => Wants(P2, C2, u, op, q)
                    /\ (\E u \in Threads : Listed(R, << op, q >>, u)) =>
                         Pending(rg[q], op) <= Cardinality(Woken(R, P2, C2, op, q))
  BY DEF Sound
<1>1. /\ \A u \in Threads : Listed(S, << op, q >>, u) => Wants(P, C, u, op, q)
      /\ (\E u \in Threads : Listed(S, << op, q >>, u)) =>
           Pending(rg[q], op) <= Cardinality(Woken(S, P, C, op, q))
  BY DEF Sound
<1>2. \A u \in Threads : Listed(R, << op, q >>, u) => Wants(P2, C2, u, op, q)
  BY <1>1, OthersWant
<1>3. ASSUME NEW u \in Threads, Listed(R, << op, q >>, u)
      PROVE  Pending(rg[q], op) <= Cardinality(Woken(R, P2, C2, op, q))
  <2>1. CASE q = q0 /\ op = op0
    <3>1. Pending(rg[q], op) <= 0 /\ Pending(rg[q], op) \in Int
      BY <2>1, PendingType
    <3>2. Cardinality(Woken(R, P2, C2, op, q)) \in Nat
      BY WokenFinite
    <3> QED BY <3>1, <3>2
  <2>2. CASE ~(q = q0 /\ op = op0)
    <3>1. Pending(rg[q], op) <= Cardinality(Woken(S, P, C, op, q))
      BY <1>1, <1>3, <2>2
    <3>2. t \notin Woken(S, P, C, op, q)
      BY <2>2 DEF Woken, Wants
    <3>3. Woken(S, P, C, op, q) \subseteq Woken(R, P2, C2, op, q)
      BY <3>2, OthersWant DEF Woken
    <3> QED BY <3>1, <3>3, WokenFinite, MoreWoken, PendingType
  <2> QED BY <2>1, <2>2
<1> QED BY <1>2, <1>3

-----------------------------------------------------------------------------
(* The actions *)

\* All that waits is sound now, and the lists are well typed before and after.
Now == /\ SchedInv /\ SchedInv'
       /\ Sound(sched, ring, pc, call)
Then == Sound(sched', ring', pc', call')

\* The token holder before its step.
LEMMA Holder ==
  ASSUME Now, NEW t \in Threads, NEW place, At(t, place)
  PROVE  /\ Good(sched) /\ sched \in SchedType /\ sched' \in SchedType
         /\ sched.running = t /\ pc[t] = place
         /\ ReadyIn(sched, t) /\ NotListed(sched, t)
         /\ \A op \in Sides, q \in MQs : ~Listed(sched, << op, q >>, t)
         /\ ring \in Rings /\ ring' \in Rings
         /\ pc \in [Threads -> Places]
         /\ call \in [Threads -> Calls \cup {NoCall}]
<1>1. /\ Good(sched) /\ sched.running = t /\ pc[t] = place
      /\ ring \in Rings /\ pc \in [Threads -> Places]
      /\ call \in [Threads -> Calls \cup {NoCall}]
  BY HolderGood DEF Now, RestOK, Rings
<1>2. sched \in SchedType /\ NotListed(sched, t)
  BY <1>1, HolderNotListed DEF Good
<1>3. sched' \in SchedType /\ ring' \in Rings
  BY DEF Now, SchedInv, TypeOK, Rings
<1>4. \A op \in Sides, q \in MQs : ~Listed(sched, << op, q >>, t)
  BY <1>2, WaitLists DEF NotListed
<1> QED BY <1>1, <1>2, <1>3, <1>4 DEF ReadyIn

\* The holder goes on, outside of do_send and do_recv, and the token may
\* change hands.
LEMMA HolderTurn ==
  ASSUME Now, NEW t \in Threads, NEW place, At(t, place), place # "op",
         SameTurn(sched, sched'), ring' = ring,
         OnlyThread(t, pc, call, pc', call')
  PROVE  Then
<1>1. /\ sched \in SchedType /\ sched' \in SchedType /\ ring \in Rings
      /\ pc[t] # "op"
  BY Holder
<1>2. /\ \A u \in Threads \ {t} : ReadyIn(sched, u) => ReadyIn(sched', u)
      /\ \A op \in Sides, q \in MQs, u \in Threads :
           Listed(sched', << op, q >>, u) => Listed(sched, << op, q >>, u)
  BY DEF SameTurn
<1>3. Sound(sched', ring, pc', call')
  BY <1>1, <1>2, TurnStep DEF Now
<1> QED BY <1>3 DEF Then

LEMMA SameIsSame == \A S : SameTurn(S, S)
  BY DEF SameTurn

LEMMA BeginCallSound ==
  ASSUME Now, NEW t \in Threads, NEW c, BeginCall(t, c)
  PROVE  Then
<1>1. OnlyThread(t, pc, call, pc', call')
  BY Holder DEF BeginCall, OnlyThread
<1> QED BY <1>1, HolderTurn, SameIsSame DEF BeginCall

LEMMA DrainDoneSound ==
  ASSUME Now, NEW t \in Threads, DrainDone(t)
  PROVE  Then
<1>1. OnlyThread(t, pc, call, pc', call')
  BY Holder DEF DrainDone, OnlyThread
<1> QED BY <1>1, HolderTurn, SameIsSame DEF DrainDone

LEMMA BeginWaitSound ==
  ASSUME Now, NEW t \in Threads, NEW place, BeginWait(t, place)
  PROVE  Then
<1>1. OnlyThread(t, pc, call, pc', call')
  BY Holder DEF BeginWait, OnlyThread
<1> QED BY <1>1, HolderTurn, SameIsSame DEF BeginWait

LEMMA AfterWaitOnly ==
  ASSUME Now, NEW t \in Threads, NEW place, At(t, place), AfterWait(t), UNCHANGED call
  PROVE  OnlyThread(t, pc, call, pc', call')
  BY Holder DEF AfterWait, OnlyThread

LEMMA WaitTimesOutSound ==
  ASSUME Now, NEW t \in Threads, WaitTimesOut(t)
  PROVE  Then
<1>1. OnlyThread(t, pc, call, pc', call')
  BY AfterWaitOnly DEF WaitTimesOut
<1>2. SameTurn(sched, sched')
  BY Holder, CheckTurn DEF WaitTimesOut
<1> QED BY <1>1, <1>2, HolderTurn DEF WaitTimesOut

\* What a message more or a message less is to both sides.
LEMMA PutPending ==
  ASSUME NEW q \in MQs, ring \in Rings, ring' \in Rings, NEW m, NEW jam,
         ~MQ_IS_FULL(ring[q]), ring' = [ring EXCEPT ![q] = Put(@, m, jam)]
  PROVE  /\ Pending(ring'[q], "send") = Pending(ring[q], "send") - 1
         /\ Pending(ring'[q], "recv") = Pending(ring[q], "recv") + 1
         /\ \A p \in MQs \ {q} : ring'[p] = ring[p]
<1>1. ring[q] \in RingType
  BY FullOrEmpty DEF Rings
<1>2. /\ ring[q].validCount \in Nat /\ ring[q].msgCount \in Nat
      /\ DOMAIN ring[q] = {"msgCount", "first", "validCount", "msg"}
  BY <1>1, RingFields DEF RingType
<1>3. /\ ring'[q] = Put(ring[q], m, jam)
      /\ \A p \in MQs \ {q} : ring'[p] = ring[p]
  BY DEF Rings
<1>4. /\ PutTail(ring[q], m).validCount = ring[q].validCount + 1
      /\ PutTail(ring[q], m).msgCount = ring[q].msgCount
  BY <1>2 DEF PutTail
<1>5. /\ PutHead(ring[q], m).validCount = ring[q].validCount + 1
      /\ PutHead(ring[q], m).msgCount = ring[q].msgCount
  BY <1>2 DEF PutHead
<1>6. /\ ring'[q].validCount = ring[q].validCount + 1
      /\ ring'[q].msgCount = ring[q].msgCount
  BY <1>3, <1>4, <1>5 DEF Put
<1> QED BY <1>2, <1>3, <1>6 DEF Pending

LEMMA TakePending ==
  ASSUME NEW q \in MQs, ring \in Rings, ring' \in Rings,
         ~MQ_IS_EMPTY(ring[q]), ring' = [ring EXCEPT ![q] = TakeHead(@)]
  PROVE  /\ Pending(ring'[q], "recv") = Pending(ring[q], "recv") - 1
         /\ Pending(ring'[q], "send") = Pending(ring[q], "send") + 1
         /\ \A p \in MQs \ {q} : ring'[p] = ring[p]
<1>1. ring[q] \in RingType
  BY FullOrEmpty DEF Rings
<1>2. /\ ring[q].validCount \in Nat /\ ring[q].msgCount \in Nat
      /\ DOMAIN ring[q] = {"msgCount", "first", "validCount", "msg"}
  BY <1>1, RingFields DEF RingType
<1>3. /\ ring'[q] = TakeHead(ring[q])
      /\ \A p \in MQs \ {q} : ring'[p] = ring[p]
  BY DEF Rings
<1>4. /\ ring'[q].validCount = ring[q].validCount - 1
      /\ ring'[q].msgCount = ring[q].msgCount
  BY ZenonT(40), <1>2, <1>3 DEF TakeHead
<1> QED BY <1>2, <1>3, <1>4 DEF Pending

\* An external message goes into its queue, in the loop of do_send and
\* do_recv or while a thread waits.
LEMMA DeliverSound ==
  ASSUME Now, NEW t \in Threads, NEW place, At(t, place), place # "op",
         NEW m \in ExternalMessage, DeliverExternal(m),
         NEW S, S = WakeOne(sched, BlockedOnRecv(m.mq)), SameTurn(S, sched'),
         OnlyThread(t, pc, call, pc', call')
  PROVE  Then
<1> DEFINE q == m.mq
<1>1. /\ Good(sched) /\ sched \in SchedType /\ sched' \in SchedType
      /\ ring \in Rings /\ ring' \in Rings /\ pc[t] # "op"
      /\ \A op \in Sides, p \in MQs : ~Listed(sched, << op, p >>, t)
  BY Holder
<1>2. q \in MQs /\ "send" \in Sides /\ "recv" \in Sides /\ Other("send") = "recv"
  BY DEF ExternalMessage, Sides, Other
<1>3. Wakes(sched, sched', "recv", q)
  BY <1>1, <1>2, WakeTurn, WakesThenTurns DEF BlockedOnRecv
<1>4. /\ Pending(ring'[q], "send") = Pending(ring[q], "send") - 1
      /\ Pending(ring'[q], "recv") = Pending(ring[q], "recv") + 1
      /\ \A p \in MQs \ {q} : ring'[p] = ring[p]
  BY <1>1, <1>2, PutPending DEF DeliverExternal
<1>5. \A op \in Sides, p \in MQs : ~Wants(pc, call, t, op, p)
  BY <1>1 DEF Wants
<1>6. Sound(sched, ring, pc, call)
  BY DEF Now
<1> HIDE DEF q
<1>7. Sound(sched', ring', pc', call')
  BY <1>1, <1>2, <1>3, <1>4, <1>5, <1>6, ServeStep
<1> QED BY <1>7 DEF Then

LEMMA DrainOneSound ==
  ASSUME Now, NEW t \in Threads, DrainOne(t)
  PROVE  Then
<1>1. PICK i \in 1..Len(external) :
        \/ /\ DeliverExternal(external[i])
           /\ sched' = WakeOne(sched, BlockedOnRecv(external[i].mq))
        \/ UNCHANGED << sched, ring >>
  BY DEF DrainOne
<1>2. external[i] \in ExternalMessage
  BY WithoutType DEF Now, SchedInv, TypeOK
<1>3. OnlyThread(t, pc, call, pc', call')
  BY DEF DrainOne, OnlyThread
<1>4. At(t, "drain")
  BY DEF DrainOne
<1>5. CASE UNCHANGED << sched, ring >>
  BY <1>3, <1>4, <1>5, HolderTurn, SameIsSame
<1>6. CASE /\ DeliverExternal(external[i])
           /\ sched' = WakeOne(sched, BlockedOnRecv(external[i].mq))
  BY <1>2, <1>3, <1>4, <1>6, DeliverSound, SameIsSame
<1> QED BY <1>1, <1>5, <1>6

LEMMA WaitForExternalMessageSound ==
  ASSUME Now, NEW t \in Threads, WaitForExternalMessage(t)
  PROVE  Then
<1>1. PICK i \in 1..Len(external) :
        \/ /\ DeliverExternal(external[i])
           /\ sched' = CheckRunningQueue(WakeOne(sched, BlockedOnRecv(external[i].mq)))
        \/ /\ sched' = CheckRunningQueue(sched)
           /\ UNCHANGED ring
  BY DEF WaitForExternalMessage
<1>2. external[i] \in ExternalMessage
  BY WithoutType DEF Now, SchedInv, TypeOK
<1>3. PICK place \in {"pause", "yield", "yield_1ms"} : At(t, place)
  BY DEF WaitForExternalMessage, Waiting
<1>4. OnlyThread(t, pc, call, pc', call')
  BY <1>3, AfterWaitOnly DEF WaitForExternalMessage
<1>5. Good(sched) /\ place # "op"
  BY <1>3, Holder
<1>6. CASE /\ sched' = CheckRunningQueue(sched)
           /\ UNCHANGED ring
  <2>1. SameTurn(sched, sched')
    BY <1>5, <1>6, CheckTurn
  <2> QED BY <1>3, <1>4, <1>5, <1>6, <2>1, HolderTurn
<1>7. CASE /\ DeliverExternal(external[i])
           /\ sched' = CheckRunningQueue(WakeOne(sched, BlockedOnRecv(external[i].mq)))
  <2>1. PICK S : S = WakeOne(sched, BlockedOnRecv(external[i].mq))
    OBVIOUS
  <2>2. Good(S)
    BY <1>2, <1>5, <2>1, QueueIdFacts, WakeGood DEF ExternalMessage
  <2>3. SameTurn(S, sched')
    BY <1>7, <2>1, <2>2, CheckTurn
  <2> QED BY <1>2, <1>3, <1>4, <1>5, <1>7, <2>1, <2>3, DeliverSound
<1> QED BY <1>1, <1>6, <1>7

\* What the thread in do_send or do_recv wants is what its call says.
LEMMA Caller ==
  ASSUME Now, NEW t \in Threads, At(t, "op"), call[t].op \in Sides
  PROVE  /\ call[t].mq \in MQs
         /\ Wants(pc, call, t, call[t].op, call[t].mq)
         /\ \A op \in Sides, q \in MQs :
              Wants(pc, call, t, op, q) => op = call[t].op /\ q = call[t].mq
<1>1. call[t] \in Calls
  BY Holder DEF NoCall, Sides
<1> QED BY <1>1, Holder DEF Wants, Calls

LEMMA ReturnOnly ==
  ASSUME Now, NEW t \in Threads, NEW place, At(t, place), NEW S, Return(t, S)
  PROVE  OnlyThread(t, pc, call, pc', call')
  BY Holder DEF Return, OnlyThread

LEMMA DoSendSound ==
  ASSUME Now, NEW t \in Threads, DoSend(t)
  PROVE  Then
<1>1. At(t, "op") /\ call[t].op = "send" /\ call[t].op \in Sides
  BY DEF DoSend, AtOp, Sides
<1>2. /\ Good(sched) /\ sched \in SchedType /\ sched' \in SchedType
      /\ ring \in Rings /\ ring' \in Rings
      /\ \A op \in Sides, p \in MQs : ~Listed(sched, << op, p >>, t)
  BY <1>1, Holder
<1>3. PICK q \in MQs : q = call[t].mq
  BY <1>1, Caller
<1>4. "send" \in Sides /\ "recv" \in Sides /\ Other("send") = "recv"
  BY DEF Sides, Other
<1>5. \A op \in Sides, p \in MQs : Wants(pc, call, t, op, p) => op = "send" /\ p = q
  BY <1>1, <1>3, Caller
<1>6. PICK S : S = WakeOne(sched, << "recv", q >>)
  OBVIOUS
<1>7. Return(t, S)
  BY <1>3, <1>6 DEF DoSend, BlockedOnRecv
<1>8. Good(S)
  BY <1>2, <1>6, QueueIdFacts, WakeGood DEF BlockedOnRecv
<1>9. OnlyThread(t, pc, call, pc', call')
  BY <1>1, <1>7, ReturnOnly
<1>10. SameTurn(S, sched')
  BY <1>7, <1>8, CheckTurn DEF Return
<1>11. Wakes(sched, sched', "recv", q)
  BY <1>2, <1>4, <1>6, <1>10, WakeTurn, WakesThenTurns
<1>12. /\ Pending(ring'[q], "send") = Pending(ring[q], "send") - 1
       /\ Pending(ring'[q], "recv") = Pending(ring[q], "recv") + 1
       /\ \A p \in MQs \ {q} : ring'[p] = ring[p]
  BY <1>2, <1>3, PutPending DEF DoSend
<1>13. Sound(sched, ring, pc, call)
  BY DEF Now
<1>14. Sound(sched', ring', pc', call')
  BY <1>2, <1>4, <1>5, <1>9, <1>11, <1>12, <1>13, ServeStep
<1> QED BY <1>14 DEF Then

LEMMA DoRecvSound ==
  ASSUME Now, NEW t \in Threads, DoRecv(t)
  PROVE  Then
<1>1. At(t, "op") /\ call[t].op = "recv" /\ call[t].op \in Sides
  BY DEF DoRecv, AtOp, Sides
<1>2. /\ Good(sched) /\ sched \in SchedType /\ sched' \in SchedType
      /\ ring \in Rings /\ ring' \in Rings
      /\ \A op \in Sides, p \in MQs : ~Listed(sched, << op, p >>, t)
  BY <1>1, Holder
<1>3. PICK q \in MQs : q = call[t].mq
  BY <1>1, Caller
<1>4. "send" \in Sides /\ "recv" \in Sides /\ Other("recv") = "send"
  BY DEF Sides, Other
<1>5. \A op \in Sides, p \in MQs : Wants(pc, call, t, op, p) => op = "recv" /\ p = q
  BY <1>1, <1>3, Caller
<1>6. PICK S : S = WakeOne(sched, << "send", q >>)
  OBVIOUS
<1>7. Return(t, S)
  BY <1>3, <1>6 DEF DoRecv, BlockedOnSend
<1>8. Good(S)
  BY <1>2, <1>6, QueueIdFacts, WakeGood DEF BlockedOnSend
<1>9. OnlyThread(t, pc, call, pc', call')
  BY <1>1, <1>7, ReturnOnly
<1>10. SameTurn(S, sched')
  BY <1>7, <1>8, CheckTurn DEF Return
<1>11. Wakes(sched, sched', "send", q)
  BY <1>2, <1>4, <1>6, <1>10, WakeTurn, WakesThenTurns
<1>12. /\ Pending(ring'[q], "recv") = Pending(ring[q], "recv") - 1
       /\ Pending(ring'[q], "send") = Pending(ring[q], "send") + 1
       /\ \A p \in MQs \ {q} : ring'[p] = ring[p]
  BY <1>2, <1>3, TakePending DEF DoRecv
<1>13. Sound(sched, ring, pc, call)
  BY DEF Now
<1>14. Sound(sched', ring', pc', call')
  BY <1>2, <1>4, <1>5, <1>9, <1>11, <1>12, <1>13, ServeStep
<1> QED BY <1>14 DEF Then

\* On a queue that is full there is nothing to send to, and on one that is
\* empty nothing to receive.
LEMMA NothingPending ==
  ASSUME NEW rg \in Rings, NEW q \in MQs
  PROVE  /\ MQ_IS_FULL(rg[q]) => Pending(rg[q], "send") <= 0
         /\ MQ_IS_EMPTY(rg[q]) => Pending(rg[q], "recv") <= 0
<1>1. CASE rg[q] \in RingType
  BY <1>1, RingFields DEF Pending, MQ_IS_FULL, MQ_IS_EMPTY
<1>2. CASE rg[q] = NoRing
  BY <1>2 DEF Pending, NoRing, MQ_IS_FULL, MQ_IS_EMPTY
<1> QED BY <1>1, <1>2 DEF Rings

LEMMA CallFailsSound ==
  ASSUME Now, NEW t \in Threads, CallFails(t)
  PROVE  Then
<1>1. At(t, "op") /\ call[t].op \in Sides
  BY DEF CallFails, Sides
<1>2. PICK q0 \in MQs : q0 = call[t].mq
  BY <1>1, Caller
<1>3. PICK op0 \in Sides : op0 = call[t].op
  BY <1>1
<1>4. /\ Good(sched) /\ sched \in SchedType /\ sched' \in SchedType /\ ring \in Rings
      /\ \A op \in Sides, q \in MQs : ~Listed(sched, << op, q >>, t)
      /\ Wants(pc, call, t, op0, q0)
      /\ Sound(sched, ring, pc, call)
  BY <1>1, <1>2, <1>3, Holder, Caller DEF Now
<1>5. Pending(ring[q0], op0) <= 0
  BY <1>2, <1>3, <1>4, NothingPending DEF CallFails
<1>6. Return(t, sched) /\ ring' = ring
  BY DEF CallFails
<1>7. OnlyThread(t, pc, call, pc', call')
  BY <1>1, <1>6, ReturnOnly
<1>8. SameTurn(sched, sched')
  BY <1>4, <1>6, CheckTurn DEF Return
<1>9. /\ \A u \in Threads \ {t} : ReadyIn(sched, u) => ReadyIn(sched', u)
      /\ \A op \in Sides, q \in MQs, u \in Threads :
           Listed(sched', << op, q >>, u) => Listed(sched, << op, q >>, u)
  BY <1>8 DEF SameTurn
<1>10. Sound(sched', ring, pc', call')
  BY <1>4, <1>5, <1>7, <1>9, FailStep
<1> QED BY <1>6, <1>10 DEF Then

\* do_send and do_recv: the caller waits and somebody else runs.
LEMMA BlockSound ==
  ASSUME Now, NEW t \in Threads, At(t, "op"), NEW op0 \in Sides, op0 = call[t].op,
         Pending(ring[call[t].mq], op0) <= 0,
         sched' = BlockOn(sched, << op0, call[t].mq >>),
         UNCHANGED << ring, pc, call >>
  PROVE  Then
<1>2. PICK q0 \in MQs : q0 = call[t].mq
  BY Caller
<1>4. /\ Good(sched) /\ sched \in SchedType /\ sched' \in SchedType /\ ring \in Rings
      /\ \A op \in Sides, q \in MQs : ~Listed(sched, << op, q >>, t)
      /\ Wants(pc, call, t, op0, q0)
      /\ Sound(sched, ring, pc, call)
      /\ sched.running = t /\ NotListed(sched, t) /\ t # Idle
  BY <1>2, Holder, Caller DEF Now, SchedInv
<1>5. OnlyThread(t, pc, call, pc', call')
  BY DEF OnlyThread
<1>3. PICK p0 \in QueueIds : p0 = << op0, q0 >>
  BY WaitLists
<1>6. PICK I : I = ThreadQueueInsert(sched, p0, t)
  OBVIOUS
<1>7. << op0, q0 >> \in QueueIds /\ << op0, q0 >> # RunningQueue /\ RunningQueue \in QueueIds
  BY WaitLists
<1>8. /\ sched.context[t] /\ sched.state[t] = "QUEUED"
      /\ ListsOK(sched) /\ SortedOK(sched) /\ Listed(sched, RunningQueue, Idle)
  BY <1>4, ThreadsAssumption, IdleListed DEF Good, TokenOK
<1>9. /\ I \in SchedType /\ ListsOK(I) /\ SortedOK(I)
      /\ I.queue = [sched.queue EXCEPT ![t] = p0]
      /\ I.priority = sched.priority /\ I.context = sched.context /\ I.state = sched.state
      /\ I.running = sched.running /\ I.halt = sched.halt
      /\ \A p \in QueueIds, u \in Threads :
           Listed(I, p, u) <=> Listed(sched, p, u) \/ (p = p0 /\ u = t)
  BY <1>4, <1>6, <1>8, InsertGood
<1>10. I.list[RunningQueue] # << >>
  BY <1>7, <1>8, <1>9, ThreadsAssumption DEF Listed
<1>11. sched' = RunNextThread(I)
  BY <1>2, <1>3, <1>4, <1>6 DEF BlockOn
<1>12. /\ \A u \in Threads : ReadyIn(sched', u) <=> Listed(I, RunningQueue, u)
       /\ \A op \in Sides, q \in MQs, u \in Threads :
            Listed(sched', << op, q >>, u) <=> Listed(I, << op, q >>, u)
  BY <1>9, <1>10, <1>11, RunNextTurn
<1>13. \A u \in Threads \ {t} : ReadyIn(sched, u) => ReadyIn(sched', u)
  BY <1>3, <1>4, <1>7, <1>9, <1>12 DEF ReadyIn
<1>14. ASSUME NEW op \in Sides, NEW q \in MQs, NEW u \in Threads,
              Listed(sched', << op, q >>, u)
       PROVE  \/ Listed(sched, << op, q >>, u)
              \/ u = t /\ op = op0 /\ q = q0 /\ Wants(pc', call', t, op0, q0)
  <2>1. << op, q >> \in QueueIds
    BY WaitLists
  <2> QED BY <1>3, <1>4, <1>9, <1>12, <1>14, <2>1
<1>15. Pending(ring[q0], op0) <= 0
  BY <1>2
<1>16. Sound(sched', ring, pc', call')
  BY <1>4, <1>5, <1>13, <1>14, <1>15, FailStep
<1> QED BY <1>16 DEF Then

LEMMA BlockOnSendSound ==
  ASSUME Now, NEW t \in Threads, BlockOnSend(t)
  PROVE  Then
<1>1. At(t, "op") /\ call[t].op = "send" /\ "send" \in Sides
  BY DEF BlockOnSend, AtOp, Sides
<1>2. Pending(ring[call[t].mq], "send") <= 0
  BY <1>1, Holder, Caller, NothingPending DEF BlockOnSend
<1> QED BY <1>1, <1>2, BlockSound DEF BlockOnSend, BlockedOnSend

LEMMA BlockOnRecvSound ==
  ASSUME Now, NEW t \in Threads, BlockOnRecv(t)
  PROVE  Then
<1>1. At(t, "op") /\ call[t].op = "recv" /\ "recv" \in Sides
  BY DEF BlockOnRecv, AtOp, Sides
<1>2. Pending(ring[call[t].mq], "recv") <= 0
  BY <1>1, Holder, Caller, NothingPending DEF BlockOnRecv
<1> QED BY <1>1, <1>2, BlockSound DEF BlockOnRecv, BlockedOnRecv

LEMMA QuietSound ==
  ASSUME Now, UNCHANGED << sched, ring, pc, call >>
  PROVE  Then
  BY DEF Now, Then

LEMMA BootIdleSound ==
  ASSUME Now, NEW pri \in Priorities, BootIdle(pri)
  PROVE  Then
<1>1. \A p \in QueueIds : sched.list[p] = << >>
  BY DEF Now, SchedInv, BootIdle
<1>2. sched'.list = sched.list
  BY DEF Now, SchedInv, TypeOK, SchedType, BootIdle
<1>3. \A op \in Sides, q \in MQs, u \in Threads : ~Listed(sched', << op, q >>, u)
  BY <1>1, <1>2, WaitLists DEF Listed
<1> QED BY <1>3 DEF Then, Sound

\* osCreateMesgQueue empties the wait lists of a queue nobody has used.
LEMMA OsCreateMesgQueueSound ==
  ASSUME Now, NEW t \in Threads, NEW q0 \in MQs, NEW count \in Capacities,
         OsCreateMesgQueue(t, q0, count)
  PROVE  Then
<1>1. /\ sched \in SchedType /\ ring \in Rings
      /\ Sound(sched, ring, pc, call)
  BY Holder DEF OsCreateMesgQueue, Now
<1> DEFINE r == BlockedOnRecv(q0)
           b == BlockedOnSend(q0)
           l == [sched.list EXCEPT ![r] = << >>, ![b] = << >>]
<1>2. /\ r \in QueueIds /\ r # RunningQueue /\ b \in QueueIds /\ b # RunningQueue
      /\ RunningQueue \in QueueIds /\ sched.list \in [QueueIds -> Seq(Threads)]
      /\ r = << "recv", q0 >> /\ b = << "send", q0 >>
  BY <1>1, QueueIdFacts, Fields DEF BlockedOnRecv, BlockedOnSend
<1>3. sched' = [sched EXCEPT !.list = l]
  BY <1>1 DEF OsCreateMesgQueue, SchedType
<1> HIDE DEF r, b
<1>4. /\ l[RunningQueue] = sched.list[RunningQueue] /\ l[r] = << >> /\ l[b] = << >>
      /\ \A p \in QueueIds : l[p] = sched.list[p] \/ l[p] = << >>
  BY <1>2
<1> HIDE DEF l
<1>5. sched'.list = l /\ sched'.running = sched.running
  BY <1>1, <1>3 DEF SchedType
<1>6. \A u \in Threads : ReadyIn(sched', u) <=> ReadyIn(sched, u)
  BY <1>4, <1>5 DEF ReadyIn, Listed
<1>7. ASSUME NEW op \in Sides, NEW q \in MQs, NEW u \in Threads,
             Listed(sched', << op, q >>, u)
      PROVE  q # q0 /\ Listed(sched, << op, q >>, u)
  <2>1. l[<< op, q >>] # << >> /\ << op, q >> \in QueueIds
    BY <1>5, <1>7, WaitLists DEF Listed
  <2>2. q # q0
    BY <1>2, <1>4, <2>1 DEF Sides
  <2>3. l[<< op, q >>] = sched.list[<< op, q >>]
    BY <1>4, <2>1
  <2> QED BY <1>5, <1>7, <2>2, <2>3 DEF Listed
<1>8. \A q \in MQs \ {q0} : ring'[q] = ring[q]
  BY <1>1 DEF OsCreateMesgQueue, Rings
<1>9. UNCHANGED << pc, call >>
  BY DEF OsCreateMesgQueue
<1>10. \A op, q : Woken(sched', pc', call', op, q) = Woken(sched, pc, call, op, q)
  BY <1>6, <1>9 DEF Woken, Wants
<1>11. Sound(sched', ring', pc', call')
  <2> SUFFICES ASSUME NEW q \in MQs, NEW op \in Sides, NEW u \in Threads,
                      Listed(sched', << op, q >>, u)
               PROVE  /\ Wants(pc', call', u, op, q)
                      /\ Pending(ring'[q], op) <= Cardinality(Woken(sched', pc', call', op, q))
    BY DEF Sound
  <2>1. q # q0 /\ Listed(sched, << op, q >>, u) /\ ring'[q] = ring[q]
    BY <1>7, <1>8
  <2>2. Wants(pc, call, u, op, q) /\ Pending(ring[q], op) <= Cardinality(Woken(sched, pc, call, op, q))
    BY <1>1, <2>1 DEF Sound
  <2> QED BY <1>9, <1>10, <2>1, <2>2 DEF Wants
<1> QED BY <1>11 DEF Then

\* A structure that no live thread uses is in no list.
LEMMA OsCreateThreadSound ==
  ASSUME Now, NEW self \in Threads, NEW t \in Threads, NEW pri \in Priorities,
         OsCreateThread(self, t, pri)
  PROVE  Then
<1>1. /\ Good(sched) /\ sched \in SchedType /\ sched' \in SchedType
      /\ sched.running = self /\ ring \in Rings
      /\ pc \in [Threads -> Places] /\ call \in [Threads -> Calls \cup {NoCall}]
      /\ Sound(sched, ring, pc, call)
  BY Holder DEF OsCreateThread, Now
<1>2. NotListed(sched, t) /\ t # self
  BY <1>1, ThreadsAssumption, ListsByMembers
     DEF OsCreateThread, Good, TokenOK, NotListed, ListedOK
<1>3. sched'.list = sched.list /\ sched'.running = sched.running
  BY <1>1 DEF OsCreateThread, SchedType
<1>4. /\ ~ReadyIn(sched, t)
      /\ \A op \in Sides, q \in MQs : ~Listed(sched, << op, q >>, t)
  BY <1>1, <1>2, WaitLists, RunningQueueId DEF ReadyIn, NotListed
<1>5. /\ \A u \in Threads \ {t} : ReadyIn(sched, u) => ReadyIn(sched', u)
      /\ \A op \in Sides, q \in MQs, u \in Threads :
           Listed(sched', << op, q >>, u) => Listed(sched, << op, q >>, u)
  BY <1>3 DEF ReadyIn, Listed
<1>6. OnlyThread(t, pc, call, pc', call') /\ ring' = ring
  BY <1>1 DEF OsCreateThread, OnlyThread
<1>7. Sound(sched', ring, pc', call')
  BY <1>1, <1>4, <1>5, <1>6, TurnStep
<1> QED BY <1>6, <1>7 DEF Then

LEMMA OsStartThreadSound ==
  ASSUME Now, NEW self \in Threads, NEW t \in Threads, OsStartThread(self, t)
  PROVE  Then
<1>1. /\ Good(sched) /\ sched \in SchedType /\ sched' \in SchedType
      /\ sched.running = self /\ ring \in Rings /\ pc[self] = "game"
      /\ ListsOK(sched) /\ SortedOK(sched) /\ TokenOK(sched) /\ IdleOK(sched)
      /\ sched.halt = "none" /\ NotListed(sched, self)
      /\ Sound(sched, ring, pc, call)
  BY Holder DEF OsStartThread, Now, Good
<1>2. sched.context[t] /\ sched.queue[t] = Null /\ t # self /\ self # Null
  BY ThreadsAssumption DEF OsStartThread
<1>3. NotListed(sched, t)
  BY <1>1, <1>2, NullNotListed
<1>4. PICK S : S = ScheduleRunningThread(sched, t)
  OBVIOUS
<1>5. /\ S \in SchedType /\ ListsOK(S) /\ SortedOK(S)
      /\ S.queue = [sched.queue EXCEPT ![t] = RunningQueue]
      /\ S.state = [sched.state EXCEPT ![t] = "QUEUED"]
      /\ S.priority = sched.priority /\ S.context = sched.context
      /\ S.running = sched.running /\ S.halt = sched.halt
      /\ \A p \in QueueIds, u \in Threads :
           Listed(S, p, u) <=> Listed(sched, p, u) \/ (p = RunningQueue /\ u = t)
      /\ \A u \in Threads \ {t} : NotListed(sched, u) => NotListed(S, u)
  BY SMTT(40), <1>1, <1>2, <1>3, <1>4, ScheduleGood
<1>6. TokenOK(S)
  <2>1. /\ S.queue[self] = sched.queue[self] /\ S.state[self] = sched.state[self]
        /\ S.context[self] = sched.context[self]
    BY <1>1, <1>2, <1>5, Fields
  <2> QED  BY <1>1, <1>2, <1>5, <2>1 DEF TokenOK
<1>7. IdleOK(S)
  BY <1>1, <1>5, IdleListed, RunningQueueId, ThreadsAssumption
<1>8. Good(S)
  BY <1>1, <1>5, <1>6, <1>7 DEF Good
<1>9. SameTurn(S, sched')
  BY <1>4, <1>8, CheckTurn DEF OsStartThread
<1>10. \A u \in Threads \ {self} : ReadyIn(sched, u) => ReadyIn(sched', u)
  BY <1>5, <1>9, RunningQueueId DEF ReadyIn, SameTurn
<1>11. \A op \in Sides, q \in MQs, u \in Threads :
         Listed(sched', << op, q >>, u) => Listed(sched, << op, q >>, u)
  BY <1>5, <1>9, WaitLists DEF SameTurn
<1>12. OnlyThread(self, pc, call, pc', call') /\ ring' = ring
  BY DEF OsStartThread, OnlyThread
<1>13. Sound(sched', ring, pc', call')
  BY <1>1, <1>10, <1>11, <1>12, TurnStep
<1> QED BY <1>12, <1>13 DEF Then

\* The holder gives up the token from game code.
LEMMA LeaveSound ==
  ASSUME Now, NEW self \in Threads, At(self, "game"), self # Idle,
         NEW S \in SchedType, S.list = sched.list, ListsOK(S), SortedOK(S),
         sched' = RunNextThread(S), ring' = ring,
         OnlyThread(self, pc, call, pc', call')
  PROVE  Then
<1>1. /\ Good(sched) /\ sched \in SchedType /\ sched' \in SchedType
      /\ sched.running = self /\ ring \in Rings /\ pc[self] # "op"
      /\ Sound(sched, ring, pc, call)
  BY Holder DEF Now
<1>2. Listed(sched, RunningQueue, Idle)
  BY <1>1, IdleListed DEF Good
<1>3. S.list[RunningQueue] # << >>
  BY <1>2 DEF Listed
<1>4. /\ \A u \in Threads : ReadyIn(sched', u) <=> Listed(S, RunningQueue, u)
      /\ \A op \in Sides, q \in MQs, u \in Threads :
           Listed(sched', << op, q >>, u) <=> Listed(S, << op, q >>, u)
  BY <1>3, RunNextTurn
<1>5. \A p, u : Listed(S, p, u) <=> Listed(sched, p, u)
  BY DEF Listed
<1>6. /\ \A u \in Threads \ {self} : ReadyIn(sched, u) => ReadyIn(sched', u)
      /\ \A op \in Sides, q \in MQs, u \in Threads :
           Listed(sched', << op, q >>, u) => Listed(sched, << op, q >>, u)
  BY <1>1, <1>4, <1>5 DEF ReadyIn
<1>7. Sound(sched', ring, pc', call')
  BY <1>1, <1>6, TurnStep
<1> QED BY <1>7 DEF Then

LEMMA OsStopThreadSound ==
  ASSUME Now, NEW self \in Threads, OsStopThread(self)
  PROVE  Then
<1>1. sched \in SchedType /\ ListsOK(sched) /\ SortedOK(sched)
  BY Holder DEF OsStopThread, Good
<1>2. OnlyThread(self, pc, call, pc', call')
  BY DEF OsStopThread, OnlyThread
<1> QED BY <1>1, <1>2, LeaveSound DEF OsStopThread

LEMMA ThreadExitSound ==
  ASSUME Now, NEW self \in Threads, ThreadExit(self)
  PROVE  Then
<1>1. /\ sched \in SchedType /\ ListsOK(sched) /\ SortedOK(sched)
      /\ NotListed(sched, self) /\ pc \in [Threads -> Places]
  BY Holder DEF ThreadExit, Good
<1> DEFINE x == [sched.context EXCEPT ![self] = FALSE]
<1>2. PICK S : S = [sched EXCEPT !.context = x]
  OBVIOUS
<1>3. x \in [Threads -> BOOLEAN] /\ \A u \in Threads \ {self} : x[u] = sched.context[u]
  BY <1>1, Fields
<1>4. sched' = RunNextThread(S)
  BY <1>2 DEF ThreadExit
<1> HIDE DEF x
<1>5. /\ S \in SchedType /\ S.context = x /\ S.list = sched.list
      /\ S.priority = sched.priority /\ S.state = sched.state
      /\ S.queue = sched.queue
  BY <1>1, <1>2, <1>3 DEF SchedType
<1>6. \A q \in QueueIds : \A i \in 1..Len(sched.list[q]) :
        sched.list[q][i] \in Threads \ {self}
  BY <1>1, Fields DEF NotListed, Listed
<1>7. ListsOK(S) /\ SortedOK(S)
  BY <1>1, <1>3, <1>5, <1>6 DEF ListsOK, SortedOK
<1>8. OnlyThread(self, pc, call, pc', call')
  BY <1>1 DEF ThreadExit, OnlyThread
<1> QED BY <1>4, <1>5, <1>7, <1>8, LeaveSound DEF ThreadExit

\* A thread that changes its own priority.
LEMMA OwnPrioritySound ==
  ASSUME Now, NEW self \in Threads, NEW pri \in Priorities,
         OsSetThreadPri(self, self, pri)
  PROVE  Then
<1>1. /\ Good(sched) /\ sched \in SchedType /\ sched' \in SchedType
      /\ sched.running = self /\ NotListed(sched, self)
  BY Holder DEF OsSetThreadPri
<1> DEFINE p == [sched.priority EXCEPT ![self] = pri]
<1>2. PICK S : S = [sched EXCEPT !.priority[self] = pri]
  OBVIOUS
<1>3. p \in [Threads -> Priorities] /\ \A u \in Threads \ {self} : p[u] = sched.priority[u]
  BY <1>1, Fields
<1>4. S = [sched EXCEPT !.priority = p]
  BY <1>1, <1>2 DEF SchedType
<1> HIDE DEF p
<1>5. /\ S \in SchedType /\ S.priority = p /\ S.list = sched.list
      /\ S.state = sched.state /\ S.queue = sched.queue
      /\ S.context = sched.context /\ S.running = sched.running
      /\ S.halt = sched.halt
  BY <1>1, <1>3, <1>4 DEF SchedType
<1>6. TokenOK(S)
  BY <1>1, <1>5 DEF TokenOK, Good
<1>7. Good(S)
  BY <1>1, <1>3, <1>5, <1>6, FrameGood
<1>8. sched' = CheckRunningQueue(S)
  BY <1>2 DEF OsSetThreadPri
<1>9. SameTurn(S, sched')
  BY <1>7, <1>8, CheckTurn
<1>10. SameTurn(sched, sched')
  BY <1>5, <1>9 DEF SameTurn, ReadyIn, Listed
<1>11. OnlyThread(self, pc, call, pc', call') /\ ring' = ring /\ At(self, "game")
  BY DEF OsSetThreadPri, OnlyThread
<1> QED BY <1>10, <1>11, HolderTurn

LEMMA ThreadStepSound ==
  ASSUME Now, Victims = {}, NEW t \in Threads, ThreadStep(t)
  PROVE  Then
<1>1. ASSUME NEW q \in MQs, NEW m \in GameMsgs, NEW block \in BOOLEAN,
             OsSendMesg(t, q, m, block) \/ OsJamMesg(t, q, m, block)
      PROVE  Then
  BY <1>1, BeginCallSound DEF OsSendMesg, OsJamMesg
<1>2. ASSUME NEW q \in MQs, NEW block \in BOOLEAN, OsRecvMesg(t, q, block)
      PROVE  Then
  BY <1>2, BeginCallSound DEF OsRecvMesg
<1>3. CASE \/ DrainOne(t) \/ DrainDone(t) \/ DoSend(t) \/ DoRecv(t) \/ CallFails(t)
           \/ BlockOnSend(t) \/ BlockOnRecv(t)
  BY <1>3, DrainOneSound, DrainDoneSound, DoSendSound, DoRecvSound, CallFailsSound,
     BlockOnSendSound, BlockOnRecvSound
<1>4. CASE \E q \in MQs : PiMessage(t, q)
  BY <1>4, QuietSound DEF PiMessage
<1>5. CASE \E q \in MQs, count \in Capacities : OsCreateMesgQueue(t, q, count)
  BY <1>5, OsCreateMesgQueueSound
<1>6. CASE \/ \E place \in {"pause", "yield", "yield_1ms"} : BeginWait(t, place)
           \/ WaitForExternalMessage(t) \/ WaitTimesOut(t)
  BY <1>6, BeginWaitSound, WaitForExternalMessageSound, WaitTimesOutSound
<1>7. ASSUME NEW u \in Threads, NEW pri \in Priorities,
             OsCreateThread(t, u, pri) \/ OsSetThreadPri(t, u, pri)
      PROVE  Then
  <2>1. CASE OsCreateThread(t, u, pri)
    BY <2>1, OsCreateThreadSound
  <2>2. CASE OsSetThreadPri(t, u, pri)
    <3>1. u = t
      BY <2>2 DEF OsSetThreadPri
    <3> QED BY <2>2, <3>1, OwnPrioritySound
  <2> QED BY <1>7, <2>1, <2>2
<1>8. ASSUME NEW u \in Threads, OsStartThread(t, u) \/ OsDestroyThread(t, u)
      PROVE  Then
  BY <1>8, OsStartThreadSound DEF OsDestroyThread
<1>9. CASE OsStopThread(t) \/ ThreadExit(t)
  BY <1>9, OsStopThreadSound, ThreadExitSound
<1> QED  BY <1>1, <1>2, <1>3, <1>4, <1>5, <1>6, <1>7, <1>8, <1>9 DEF ThreadStep

LEMMA NextSound ==
  ASSUME Now, Victims = {}, [Next]_vars
  PROVE  Then
<1>1. ASSUME NEW s \in EventSources, NEW q \in MQs, EventMessage(s, q)
      PROVE  Then
  BY <1>1, QuietSound DEF EventMessage
<1>2. ASSUME NEW h \in HostThreads, NEW q \in MQs, NEW jam \in BOOLEAN,
             HostMessage(h, q, jam)
      PROVE  Then
  BY <1>2, QuietSound DEF HostMessage
<1>3. CASE UNCHANGED vars
  BY <1>3, QuietSound DEF vars
<1> QED BY <1>1, <1>2, <1>3, BootIdleSound, ThreadStepSound DEF Next

\* While a thread waits to receive from a queue (or to send to it), every
\* message there (every free slot) has a thread of its own that do_send
\* (do_recv) has woken for it, if threads end only themselves, as the
\* game's do: osDestroyThread of a woken thread takes its wakeup along.
THEOREM NoWakeupLost ==
  ASSUME Victims = {}
  PROVE  Spec => []NoLostWakeup
<1> DEFINE Inv == SchedInv /\ Sound(sched, ring, pc, call)
<1>1. Init => Inv
  <2> SUFFICES ASSUME Init PROVE Inv
    OBVIOUS
  <2>1. \A op \in Sides, q \in MQs, u \in Threads : ~Listed(sched, << op, q >>, u)
    BY WaitLists DEF Init, Listed
  <2> QED BY <2>1, InitInv DEF Sound
<1>2. SchedInv /\ [Next]_vars => SchedInv'
  BY BootIdleStep, EventMessageStep, HostMessageStep, ThreadStepInv, StutterInv DEF Next
<1>3. Inv /\ [Next]_vars => Inv'
  BY <1>2, NextSound DEF Now, Then
<1>4. Inv => NoLostWakeup
  <2> SUFFICES ASSUME Inv, NEW q \in MQs, NEW op \in Sides, sched.list[<< op, q >>] # << >>
               PROVE  Pending(ring[q], op) <= Cardinality(OnTheirWay(q, op))
    BY DEF NoLostWakeup, Pending, Sides, BlockedOnRecv, BlockedOnSend
  <2>1. sched \in SchedType /\ << op, q >> \in QueueIds
    BY WaitLists DEF SchedInv, TypeOK
  <2>2. Listed(sched, << op, q >>, sched.list[<< op, q >>][1])
        /\ sched.list[<< op, q >>][1] \in Threads
    BY <2>1, HeadListed
  <2>3. Pending(ring[q], op) <= Cardinality(Woken(sched, pc, call, op, q))
    BY <2>2 DEF Sound
  <2>4. OnTheirWay(q, op) = Woken(sched, pc, call, op, q)
    BY DEF OnTheirWay, Ready, Woken, ReadyIn, Wants, Listed
  <2> QED BY <2>3, <2>4
<1> QED BY <1>1, <1>3, <1>4, PTL DEF Spec
-----------------------------------------------------------------------------
(***************************************************************************)
(* The ring buffers implement bounded FIFO queues with jamming at the head.*)
(***************************************************************************)

Words == Msgs \cup {Null}

\* An index that ran at most once around the array.
LEMMA WrapsOnce ==
  ASSUME NEW n \in Nat \ {0}, NEW x \in 0..(2 * n - 1)
  PROVE  x % n = IF x < n THEN x ELSE x - n
<1>1. CASE x < n
  BY <1>1
<1>2. CASE ~(x < n)
  <2>1. x \in n..(2 * n - 1)
    BY <1>2
  <2>2. x % n = x - n
    BY <2>1
  <2> QED BY <1>2, <2>2
<1> QED BY <1>1, <1>2

\* Place i of a ring buffer in its array.
Slot(r, i) == (r.first + i - 1) % r.msgCount

LEMMA SlotWraps ==
  ASSUME NEW r \in RingType, NEW i \in 1..r.msgCount
  PROVE  /\ Slot(r, i) \in 0..(r.msgCount - 1)
         /\ Slot(r, i) = IF r.first + i - 1 < r.msgCount THEN r.first + i - 1
                         ELSE r.first + i - 1 - r.msgCount
<1>1. PICK n \in Nat \ {0} : n = r.msgCount
  BY RingFields
<1>2. r.first \in 0..(n - 1)
  BY <1>1, RingFields
<1>3. PICK x \in Int : x = r.first + i - 1
  BY <1>2
<1>4. x \in 0..(2 * n - 1) /\ Slot(r, i) = x % n
  BY <1>1, <1>2, <1>3 DEF Slot
<1>5. x % n = IF x < n THEN x ELSE x - n
  BY <1>4, WrapsOnce
<1>6. Slot(r, i) = IF x < n THEN x ELSE x - n
  BY <1>4, <1>5
<1>7. Slot(r, i) \in 0..(n - 1)
  BY <1>4, <1>6
<1> QED BY <1>1, <1>2, <1>3, <1>6, <1>7

\* Contents is a sequence, entry by entry.
LEMMA ContentsAre ==
  ASSUME NEW r \in RingType
  PROVE  /\ Contents(r) \in Seq(Words)
         /\ Len(Contents(r)) = r.validCount
         /\ \A i \in 1..r.validCount : Contents(r)[i] = r.msg[Slot(r, i)]
<1> DEFINE v == r.validCount
           e(i) == r.msg[Slot(r, i)]
<1>1. /\ v \in Nat /\ v <= r.msgCount /\ r.msgCount \in Nat
      /\ r.msg \in [0..(r.msgCount - 1) -> Words]
  BY RingFields DEF Words
<1>2. \A i \in 1..v : e(i) \in Words
  <2> TAKE i \in 1..v
  <2>1. i \in 1..r.msgCount
    BY <1>1
  <2> QED BY <1>1, <2>1, SlotWraps
<1>3. Contents(r) = [i \in 1..v |-> e(i)]
  BY DEF Contents, Slot
<1> HIDE DEF v, e
<1>4. [i \in 1..v |-> e(i)] \in Seq(Words)
  BY <1>1, <1>2, IsASeq
<1>5. Len([i \in 1..v |-> e(i)]) = v
  BY <1>1
<1>6. \A i \in 1..v : [j \in 1..v |-> e(j)][i] = e(i)
  OBVIOUS
<1> QED BY <1>3, <1>4, <1>5, <1>6 DEF v, e

LEMMA NoContents ==
  /\ Contents(NoRing) = << >>
  /\ \A r \in RingType : r.validCount = 0 => Contents(r) = << >>
<1>1. ASSUME NEW r \in RingType, r.validCount = 0 PROVE Contents(r) = << >>
  BY <1>1, ContentsAre
<1>2. NoRing.validCount = 0
  BY DEF NoRing
<1>3. Contents(NoRing) = [i \in 1..0 |-> NoRing.msg[(NoRing.first + i - 1) % NoRing.msgCount]]
  BY <1>2 DEF Contents
<1>4. Contents(NoRing) = << >>
  BY <1>3
<1> QED BY <1>1, <1>4

LEMMA PutTailFields ==
  ASSUME NEW r \in RingType, ~MQ_IS_FULL(r), NEW m \in Words
  PROVE  LET s == PutTail(r, m)
             l == Slot(r, r.validCount + 1)
         IN  /\ s \in RingType
             /\ s.msgCount = r.msgCount /\ s.first = r.first
             /\ s.validCount = r.validCount + 1
             /\ s.msg = [r.msg EXCEPT ![l] = m]
<1>1. PutTail(r, m) \in RingType
  BY PutType DEF Put, Words
<1>2. r.first + r.validCount = r.first + (r.validCount + 1) - 1
  BY RingFields
<1>3. DOMAIN r = {"msgCount", "first", "validCount", "msg"}
  BY DEF RingType
<1> QED BY <1>1, <1>2, <1>3 DEF PutTail, Slot

\* osSendMesg appends.
LEMMA PutTailAppends ==
  ASSUME NEW r \in RingType, ~MQ_IS_FULL(r), NEW m \in Words
  PROVE  Contents(PutTail(r, m)) = Append(Contents(r), m)
<1> DEFINE s == PutTail(r, m)
           n == r.msgCount
           v == r.validCount
           l == Slot(r, v + 1)
           a == Append(Contents(r), m)
<1>1. /\ n \in Nat \ {0} /\ r.first \in 0..(n - 1) /\ v \in 0..n /\ v < n
      /\ r.msg \in [0..(n - 1) -> Words]
  BY RingFields DEF MQ_IS_FULL, Words
<1>2. /\ s \in RingType /\ s.msgCount = n /\ s.first = r.first
      /\ s.validCount = v + 1 /\ s.msg = [r.msg EXCEPT ![l] = m]
  BY PutTailFields
<1>3. /\ Contents(r) \in Seq(Words) /\ Len(Contents(r)) = v
      /\ \A i \in 1..v : Contents(r)[i] = r.msg[Slot(r, i)]
  BY ContentsAre
<1>4. /\ a \in Seq(Words) /\ Len(a) = v + 1 /\ a[v + 1] = m
      /\ \A i \in 1..v : a[i] = Contents(r)[i]
  BY <1>3, AppendProperties
<1>5. /\ Contents(s) \in Seq(Words) /\ Len(Contents(s)) = v + 1
      /\ \A i \in 1..(v + 1) : Contents(s)[i] = s.msg[Slot(s, i)]
  BY <1>2, ContentsAre
<1> HIDE DEF s, a
<1>6. \A i \in 1..(v + 1) : Slot(s, i) = Slot(r, i)
  BY <1>2 DEF Slot
<1>7. ASSUME NEW i \in 1..(v + 1) PROVE Contents(s)[i] = a[i]
  <2>1. v + 1 \in 1..n /\ i \in 1..n
    BY <1>1
  <2>2. l \in 0..(n - 1) /\ Slot(r, i) \in 0..(n - 1)
    BY <2>1, SlotWraps
  <2>3. CASE i = v + 1
    <3>1. s.msg[l] = m
      BY <1>1, <1>2, <2>2
    <3> QED BY <1>4, <1>5, <1>6, <2>3, <3>1
  <2>4. CASE i # v + 1
    <3>1. i \in 1..v
      BY <1>1, <2>4
    <3>2. Slot(r, i) # l
      <4>1. /\ l = IF r.first + (v + 1) - 1 < n THEN r.first + (v + 1) - 1
                   ELSE r.first + (v + 1) - 1 - n
            /\ Slot(r, i) = IF r.first + i - 1 < n THEN r.first + i - 1
                            ELSE r.first + i - 1 - n
        BY <2>1, SlotWraps
      <4> HIDE DEF l
      <4> QED BY SMTT(40), <1>1, <3>1, <4>1
    <3>3. s.msg[Slot(r, i)] = r.msg[Slot(r, i)]
      BY <1>1, <1>2, <2>2, <3>2
    <3> QED BY <1>3, <1>4, <1>5, <1>6, <3>1, <3>3
  <2> QED BY <2>3, <2>4
<1> HIDE DEF n, v, l
<1>8. Contents(s) = a
  BY <1>4, <1>5, <1>7, SeqEqual
<1> QED BY <1>8 DEF s, a

LEMMA PutHeadFields ==
  ASSUME NEW r \in RingType, ~MQ_IS_FULL(r), NEW m \in Words
  PROVE  LET s == PutHead(r, m)
             f == (r.first + r.msgCount - 1) % r.msgCount
         IN  /\ s \in RingType
             /\ s.msgCount = r.msgCount /\ s.first = f
             /\ s.validCount = r.validCount + 1
             /\ s.msg = [r.msg EXCEPT ![f] = m]
<1>1. PutHead(r, m) \in RingType
  BY PutType DEF Put, Words
<1>2. DOMAIN r = {"msgCount", "first", "validCount", "msg"}
  BY DEF RingType
<1> QED BY <1>1, <1>2 DEF PutHead

\* osJamMesg puts its message before the others.
LEMMA PutHeadPrepends ==
  ASSUME NEW r \in RingType, ~MQ_IS_FULL(r), NEW m \in Words
  PROVE  Contents(PutHead(r, m)) = << m >> \o Contents(r)
<1> DEFINE s == PutHead(r, m)
           n == r.msgCount
           v == r.validCount
           f == (r.first + n - 1) % n
           a == << m >> \o Contents(r)
<1>1. /\ n \in Nat \ {0} /\ r.first \in 0..(n - 1) /\ v \in 0..n /\ v < n
      /\ r.msg \in [0..(n - 1) -> Words]
  BY RingFields DEF MQ_IS_FULL, Words
<1>2. /\ s \in RingType /\ s.msgCount = n /\ s.first = f
      /\ s.validCount = v + 1 /\ s.msg = [r.msg EXCEPT ![f] = m]
  BY PutHeadFields
<1>3. /\ Contents(r) \in Seq(Words) /\ Len(Contents(r)) = v
      /\ \A i \in 1..v : Contents(r)[i] = r.msg[Slot(r, i)]
  BY ContentsAre
<1>4. /\ a \in Seq(Words) /\ Len(a) = v + 1 /\ a[1] = m
      /\ \A i \in 2..(v + 1) : a[i] = Contents(r)[i - 1]
  <2>1. /\ << m >> \in Seq(Words) /\ Len(<< m >>) = 1 /\ << m >>[1] = m
    OBVIOUS
  <2> QED BY <1>1, <1>3, <2>1, ConcatProperties
<1>5. /\ Contents(s) \in Seq(Words) /\ Len(Contents(s)) = v + 1
      /\ \A i \in 1..(v + 1) : Contents(s)[i] = s.msg[Slot(s, i)]
  BY <1>2, ContentsAre
<1>6. f = IF r.first = 0 THEN n - 1 ELSE r.first - 1
  <2>1. PICK k \in Nat \ {0} : k = n
    BY <1>1
  <2>2. PICK x \in 0..(2 * k - 1) : x = r.first + n - 1
    BY <1>1, <2>1
  <2>3. x % k = IF x < k THEN x ELSE x - k
    BY WrapsOnce
  <2>4. f = x % k
    BY <2>1, <2>2
  <2> HIDE DEF f, n
  <2> QED BY <1>1, <2>1, <2>2, <2>3, <2>4
<1> HIDE DEF s, a, f, n, v
<1>7. ASSUME NEW i \in 1..(v + 1) PROVE Contents(s)[i] = a[i]
  <2>1. i \in 1..n /\ f \in 0..(n - 1)
    BY <1>1, <1>6
  <2>2. Slot(s, i) = IF f + i - 1 < n THEN f + i - 1 ELSE f + i - 1 - n
    BY <1>2, <2>1, SlotWraps
  <2>3. CASE i = 1
    <3>1. Slot(s, i) = f
      BY <1>1, <2>1, <2>2, <2>3
    <3>2. s.msg[f] = m
      BY <1>1, <1>2, <2>1
    <3> QED BY <1>4, <1>5, <2>3, <3>1, <3>2
  <2>4. CASE i # 1
    <3>1. i - 1 \in 1..v /\ i - 1 \in 1..n /\ i \in 2..(v + 1)
      BY <1>1, <2>4
    <3>2. /\ Slot(r, i - 1) = IF r.first + (i - 1) - 1 < n THEN r.first + (i - 1) - 1
                              ELSE r.first + (i - 1) - 1 - n
          /\ Slot(r, i - 1) \in 0..(n - 1)
      BY <3>1, SlotWraps DEF n
    <3>3. Slot(s, i) = Slot(r, i - 1) /\ Slot(r, i - 1) # f
      <4>1. CASE r.first = 0
        BY <1>1, <1>6, <2>1, <2>2, <3>1, <3>2, <4>1
      <4>2. CASE r.first # 0
        <5>1. f = r.first - 1
          BY <1>6, <4>2
        <5>2. f + i - 1 = r.first + (i - 1) - 1
          BY <1>1, <2>1, <5>1
        <5>3. Slot(s, i) = Slot(r, i - 1)
          BY <1>1, <2>1, <2>2, <3>2, <5>2
        <5>4. Slot(r, i - 1) # f
          BY <1>1, <2>1, <3>1, <3>2, <5>1
        <5> QED BY <5>3, <5>4
      <4> QED BY <4>1, <4>2
    <3>4. s.msg[Slot(r, i - 1)] = r.msg[Slot(r, i - 1)]
      BY <1>1, <1>2, <2>1, <3>2, <3>3
    <3> QED BY <1>3, <1>4, <1>5, <3>1, <3>3, <3>4
  <2> QED BY <2>3, <2>4
<1>8. Contents(s) = a
  BY <1>4, <1>5, <1>7, SeqEqual
<1> QED BY <1>8 DEF s, a

\* osRecvMesg takes the first message.
LEMMA TakeHeadTakes ==
  ASSUME NEW r \in RingType, ~MQ_IS_EMPTY(r)
  PROVE  /\ Contents(r) # << >>
         /\ Front(r) = Contents(r)[1]
         /\ Contents(TakeHead(r)) = Tail(Contents(r))
<1> DEFINE s == TakeHead(r)
           n == r.msgCount
           v == r.validCount
           c == Contents(r)
           a == Tail(c)
<1>1. /\ n \in Nat \ {0} /\ r.first \in 0..(n - 1) /\ v \in 1..n
  BY RingFields DEF MQ_IS_EMPTY
<1>2. /\ s \in RingType /\ s.msgCount = n /\ s.validCount = v - 1 /\ s.msg = r.msg
      /\ s.first = (r.first + 1) % n
  <2>1. DOMAIN r = {"msgCount", "first", "validCount", "msg"}
    BY DEF RingType
  <2> QED BY <2>1, TakeType DEF TakeHead
<1>3. /\ c \in Seq(Words) /\ Len(c) = v
      /\ \A i \in 1..v : c[i] = r.msg[Slot(r, i)]
  BY ContentsAre
<1> HIDE DEF c
<1>4. c # << >>
  BY <1>1, <1>3
<1>5. a \in Seq(Words) /\ Len(a) = v - 1 /\ \A i \in 1..(v - 1) : a[i] = c[i + 1]
  BY <1>1, <1>3, <1>4, HeadTailProperties
<1>6. /\ Contents(s) \in Seq(Words) /\ Len(Contents(s)) = v - 1
      /\ \A i \in 1..(v - 1) : Contents(s)[i] = s.msg[Slot(s, i)]
  BY <1>2, ContentsAre
<1>7. s.first = IF r.first + 1 < n THEN r.first + 1 ELSE 0
  <2>1. PICK k \in Nat \ {0} : k = n
    BY <1>1
  <2>2. PICK x \in 0..(2 * k - 1) : x = r.first + 1
    BY <1>1, <2>1
  <2>3. x % k = IF x < k THEN x ELSE x - k
    BY WrapsOnce
  <2>4. s.first = x % k
    BY <1>2, <2>1, <2>2
  <2> HIDE DEF n
  <2> QED BY <1>1, <2>1, <2>2, <2>3, <2>4
<1> HIDE DEF s, a
<1>8. ASSUME NEW i \in 1..(v - 1) PROVE Contents(s)[i] = a[i]
  <2>1. i \in 1..n /\ i + 1 \in 1..n /\ i + 1 \in 1..v
    BY <1>1
  <2>2. /\ Slot(s, i) = IF s.first + i - 1 < n THEN s.first + i - 1
                        ELSE s.first + i - 1 - n
        /\ Slot(r, i + 1) = IF r.first + (i + 1) - 1 < n THEN r.first + (i + 1) - 1
                            ELSE r.first + (i + 1) - 1 - n
    BY <1>2, <2>1, SlotWraps
  <2>3. Slot(s, i) = Slot(r, i + 1)
    BY <1>1, <1>7, <2>1, <2>2
  <2> QED BY <1>2, <1>3, <1>5, <1>6, <2>1, <2>3
<1>9. Front(r) = c[1]
  <2>1. 1 \in 1..v /\ 1 \in 1..n
    BY <1>1
  <2>2. Slot(r, 1) = r.first
    BY <1>1, <2>1, SlotWraps
  <2> QED BY <1>3, <2>1, <2>2 DEF Front
<1> HIDE DEF n, v
<1>10. Contents(s) = a
  BY <1>5, <1>6, <1>8, SeqEqual
<1> QED BY <1>4, <1>9, <1>10 DEF s, a, c

-----------------------------------------------------------------------------
(* What is sent, and what a step does to the rings *)

\* Only messages are sent, and not null.
SendsOK == \A t \in Threads : call[t].op = "send" => call[t].msg \in Msgs

LEMMA SendsStep ==
  ASSUME SchedInv, SendsOK, [Next]_vars
  PROVE  SendsOK'
<1>1. call \in [Threads -> Calls \cup {NoCall}]
  BY DEF SchedInv, TypeOK
<1>2. ASSUME NEW t \in Threads, ThreadStep(t)
      PROVE  \/ UNCHANGED call
             \/ \E u \in Threads : call' = [call EXCEPT ![u] = NoCall]
             \/ \E c \in Calls : c.msg \in Msgs \cup {Null} /\ (c.op = "send" => c.msg \in Msgs)
                                 /\ call' = [call EXCEPT ![t] = c]
  <2>1. ASSUME NEW q \in MQs, NEW m \in GameMsgs, NEW block \in BOOLEAN,
               OsSendMesg(t, q, m, block) \/ OsJamMesg(t, q, m, block)
        PROVE  \E c \in Calls : c.msg \in Msgs \cup {Null} /\ (c.op = "send" => c.msg \in Msgs)
                                /\ call' = [call EXCEPT ![t] = c]
    <3>1. ASSUME NEW jam \in BOOLEAN
          PROVE  LET c == [op |-> "send", mq |-> q, msg |-> m, jam |-> jam, block |-> block]
                 IN  c \in Calls /\ c.msg \in Msgs
      BY DEF Calls, Msgs
    <3> QED BY <2>1, <3>1 DEF OsSendMesg, OsJamMesg, BeginCall
  <2>2. ASSUME NEW q \in MQs, NEW block \in BOOLEAN, OsRecvMesg(t, q, block)
        PROVE  \E c \in Calls : c.msg \in Msgs \cup {Null} /\ (c.op = "send" => c.msg \in Msgs)
                                /\ call' = [call EXCEPT ![t] = c]
    <3> DEFINE c == [op |-> "recv", mq |-> q, msg |-> Null, jam |-> FALSE, block |-> block]
    <3>1. c \in Calls /\ c.msg = Null /\ c.op = "recv"
      BY DEF Calls
    <3>2. call' = [call EXCEPT ![t] = c]
      BY <2>2 DEF OsRecvMesg, BeginCall
    <3> HIDE DEF c
    <3> QED BY <3>1, <3>2
  <2>3. CASE \/ DrainOne(t) \/ DrainDone(t) \/ BlockOnSend(t) \/ BlockOnRecv(t)
             \/ WaitForExternalMessage(t) \/ WaitTimesOut(t)
    BY <2>3 DEF DrainOne, DrainDone, BlockOnSend, BlockOnRecv,
       WaitForExternalMessage, WaitTimesOut
  <2>4. CASE DoSend(t) \/ DoRecv(t) \/ CallFails(t)
    BY <2>4 DEF DoSend, DoRecv, CallFails, Return
  <2>5. CASE \/ \E q \in MQs : PiMessage(t, q)
             \/ \E q \in MQs, count \in Capacities : OsCreateMesgQueue(t, q, count)
             \/ \E place \in {"pause", "yield", "yield_1ms"} : BeginWait(t, place)
    BY <2>5 DEF PiMessage, OsCreateMesgQueue, BeginWait
  <2>6. CASE \/ \E u \in Threads, pri \in Priorities :
                  OsCreateThread(t, u, pri) \/ OsSetThreadPri(t, u, pri)
             \/ \E u \in Threads : OsStartThread(t, u) \/ OsDestroyThread(t, u)
             \/ OsStopThread(t) \/ ThreadExit(t)
    BY <2>6 DEF OsCreateThread, OsSetThreadPri, OsStartThread, OsDestroyThread,
       OsStopThread, ThreadExit
  <2> QED BY <1>2, <2>1, <2>2, <2>3, <2>4, <2>5, <2>6 DEF ThreadStep
<1>3. ASSUME NEW t \in Threads, ThreadStep(t)
      PROVE  SendsOK'
  <2>1. CASE UNCHANGED call
    BY <2>1 DEF SendsOK
  <2>2. ASSUME NEW u \in Threads, call' = [call EXCEPT ![u] = NoCall]
        PROVE  SendsOK'
    BY <1>1, <2>2 DEF SendsOK, NoCall
  <2>3. ASSUME NEW c \in Calls, c.op = "send" => c.msg \in Msgs,
               call' = [call EXCEPT ![t] = c]
        PROVE  SendsOK'
    BY <1>1, <2>3 DEF SendsOK
  <2> QED BY <1>2, <1>3, <2>1, <2>2, <2>3
<1>4. ASSUME UNCHANGED call PROVE SendsOK'
  BY <1>4 DEF SendsOK
<1> QED BY <1>3, <1>4 DEF Next, vars, BootIdle, EventMessage, HostMessage

\* What a step does to the rings and to the caller's word.
Puts == \E q \in MQs, m \in Msgs, jam \in BOOLEAN :
          /\ ~MQ_IS_FULL(ring[q])
          /\ ring' = [ring EXCEPT ![q] = Put(@, m, jam)]
          /\ mesg' = mesg
Takes == \E q \in MQs :
           /\ ~MQ_IS_EMPTY(ring[q])
           /\ ring' = [ring EXCEPT ![q] = TakeHead(@)]
           /\ mesg' \in {mesg, Front(ring[q])}
Creates == \E q \in MQs, n \in Capacities :
             /\ ~Created(q)
             /\ ring' = [ring EXCEPT ![q] = CreateRing(n, Null)]
             /\ mesg' = mesg

LEMMA RingStep ==
  ASSUME SchedInv, SendsOK, [Next]_vars
  PROVE  Puts \/ Takes \/ Creates \/ UNCHANGED << ring, mesg >>
<1>0. call \in [Threads -> Calls \cup {NoCall}] /\ external \in Seq(ExternalMessage)
  BY DEF SchedInv, TypeOK
<1>1. ASSUME NEW t \in Threads, DoSend(t) PROVE Puts
  <2>1. call[t] \in Calls /\ call[t].msg \in Msgs
    BY <1>0, <1>1 DEF DoSend, AtOp, NoCall, SendsOK
  <2>2. call[t].mq \in MQs /\ call[t].jam \in BOOLEAN
    BY <2>1 DEF Calls
  <2> QED BY <1>1, <2>1, <2>2 DEF DoSend, Puts
<1>2. ASSUME NEW t \in Threads, DoRecv(t) PROVE Takes
  <2>1. call[t] \in Calls
    BY <1>0, <1>2 DEF DoRecv, AtOp, NoCall
  <2>2. call[t].mq \in MQs
    BY <2>1 DEF Calls
  <2> QED BY <1>2, <2>2 DEF DoRecv, Takes
<1>3. ASSUME NEW m \in ExternalMessage, DeliverExternal(m), UNCHANGED mesg PROVE Puts
  BY <1>3 DEF DeliverExternal, ExternalMessage, Puts
<1>4. ASSUME NEW t \in Threads, DrainOne(t) \/ WaitForExternalMessage(t)
      PROVE  Puts \/ UNCHANGED << ring, mesg >>
  <2>1. PICK i \in 1..Len(external) : DeliverExternal(external[i]) \/ UNCHANGED ring
    BY <1>4 DEF DrainOne, WaitForExternalMessage
  <2>2. external[i] \in ExternalMessage /\ UNCHANGED mesg
    BY <1>0, <1>4 DEF DrainOne, WaitForExternalMessage
  <2> QED BY <1>3, <2>1, <2>2
<1>5. ASSUME NEW t \in Threads, NEW q \in MQs, NEW count \in Capacities,
             OsCreateMesgQueue(t, q, count)
      PROVE  Creates
  BY <1>5 DEF OsCreateMesgQueue, Creates
<1>6. ASSUME NEW t \in Threads,
             \/ \E q \in MQs, m \in GameMsgs, block \in BOOLEAN :
                  OsSendMesg(t, q, m, block) \/ OsJamMesg(t, q, m, block)
             \/ \E q \in MQs, block \in BOOLEAN : OsRecvMesg(t, q, block)
             \/ DrainDone(t) \/ CallFails(t) \/ BlockOnSend(t) \/ BlockOnRecv(t)
             \/ \E q \in MQs : PiMessage(t, q)
             \/ \E place \in {"pause", "yield", "yield_1ms"} : BeginWait(t, place)
             \/ WaitTimesOut(t)
      PROVE  UNCHANGED << ring, mesg >>
  BY <1>6 DEF OsSendMesg, OsJamMesg, OsRecvMesg, BeginCall, DrainDone, CallFails,
     BlockOnSend, BlockOnRecv, PiMessage, BeginWait, WaitTimesOut
<1>7. ASSUME NEW t \in Threads,
             \/ \E u \in Threads, pri \in Priorities :
                  OsCreateThread(t, u, pri) \/ OsSetThreadPri(t, u, pri)
             \/ \E u \in Threads : OsStartThread(t, u) \/ OsDestroyThread(t, u)
             \/ OsStopThread(t) \/ ThreadExit(t)
      PROVE  UNCHANGED << ring, mesg >>
  BY <1>7 DEF OsCreateThread, OsSetThreadPri, OsStartThread, OsDestroyThread,
     OsStopThread, ThreadExit
<1>8. ASSUME NEW t \in Threads, ThreadStep(t)
      PROVE  Puts \/ Takes \/ Creates \/ UNCHANGED << ring, mesg >>
  BY <1>1, <1>2, <1>4, <1>5, <1>6, <1>7, <1>8 DEF ThreadStep
<1> QED BY <1>8 DEF Next, vars, BootIdle, EventMessage, HostMessage

-----------------------------------------------------------------------------
(***************************************************************************)
(* Requeued events are kept.                                               *)
(***************************************************************************)

\* Where a message is: in external_messages and requeued_messages by index,
\* in the rings by queue and place.
Held(seq, s)  == {i \in 1..Len(seq) : seq[i].msg = s}
Stored(rg, s) ==
  UNION {{<< q, i >> : i \in {k \in 1..rg[q].validCount : Contents(rg[q])[k] = s}}
           : q \in MQs}

One(m, s) == IF m = s THEN 1 ELSE 0

\* An injection shows that there are as many.
LEMMA AsMany ==
  ASSUME NEW A, NEW B, IsFiniteSet(B), NEW f \in [A -> B],
         \A a, b \in A : f[a] = f[b] => a = b
  PROVE  IsFiniteSet(A) /\ Cardinality(A) <= Cardinality(B)
<1>1. f \in Injection(A, B)
  BY DEF Injection, IsInjective
<1> QED BY <1>1, FS_Injection

LEMMA HeldFinite ==
  ASSUME NEW seq \in Seq(ExternalMessage), NEW s
  PROVE  IsFiniteSet(Held(seq, s)) /\ Cardinality(Held(seq, s)) \in Nat
<1>1. IsFiniteSet(1..Len(seq)) /\ Held(seq, s) \subseteq 1..Len(seq)
  BY FS_Interval DEF Held
<1>2. IsFiniteSet(Held(seq, s))
  BY <1>1, FS_Subset
<1> QED BY <1>2, FS_CardinalityType

LEMMA HeldAppend ==
  ASSUME NEW seq \in Seq(ExternalMessage), NEW m \in ExternalMessage, NEW s
  PROVE  Cardinality(Held(Append(seq, m), s))
           = Cardinality(Held(seq, s)) + One(m.msg, s)
<1> DEFINE a == Append(seq, m)
           k == Len(seq) + 1
<1>1. /\ Len(a) = k /\ a[k] = m /\ k \in Nat /\ Len(seq) \in Nat
      /\ \A i \in 1..Len(seq) : a[i] = seq[i]
  BY AppendProperties
<1> HIDE DEF a
<1>2. CASE m.msg = s
  <2>1. Held(a, s) = Held(seq, s) \cup {k}
    BY <1>1, <1>2 DEF Held
  <2>2. k \notin Held(seq, s)
    BY <1>1 DEF Held
  <2> QED BY ZenonT(40), <1>2, <2>1, <2>2, HeldFinite, FS_AddElement DEF One, a
<1>3. CASE m.msg # s
  <2>1. Held(a, s) = Held(seq, s)
    BY <1>1, <1>3 DEF Held
  <2> QED BY <1>3, <2>1, HeldFinite DEF One, a
<1> QED BY <1>2, <1>3

\* external_messages without the message at i.
LEMMA WithoutEntries ==
  ASSUME external \in Seq(ExternalMessage), NEW i \in 1..Len(external)
  PROVE  /\ Without(i) \in Seq(ExternalMessage)
         /\ Len(Without(i)) = Len(external) - 1
         /\ \A j \in 1..(i - 1) : Without(i)[j] = external[j]
         /\ \A j \in (i + 1)..Len(external) : Without(i)[j - 1] = external[j]
<1> DEFINE n == Len(external)
           x == SubSeq(external, 1, i - 1)
           y == SubSeq(external, i + 1, n)
<1>1. n \in Nat /\ i \in Nat /\ i >= 1 /\ i <= n
  OBVIOUS
<1>2. /\ x \in Seq(ExternalMessage) /\ Len(x) = i - 1
      /\ \A j \in 1..(i - 1) : x[j] = external[j]
  <2>1. \A j \in 1..(i - 1) : external[j] \in ExternalMessage
    BY <1>1
  <2>2. /\ SubSeq(external, 1, i - 1) \in Seq(ExternalMessage)
        /\ Len(SubSeq(external, 1, i - 1)) = IF 1 <= i - 1 THEN i - 1 - 1 + 1 ELSE 0
        /\ \A j \in 1..(i - 1 - 1 + 1) : SubSeq(external, 1, i - 1)[j] = external[1 + j - 1]
    BY <1>1, <2>1, SubSeqProperties
  <2> HIDE DEF x
  <2>3. x = SubSeq(external, 1, i - 1)
    BY DEF x
  <2>4. Len(x) = i - 1
    BY <1>1, <2>2, <2>3
  <2>5. ASSUME NEW j \in 1..(i - 1) PROVE x[j] = external[j]
    <3>1. j \in 1..(i - 1 - 1 + 1) /\ 1 + j - 1 = j
      BY <1>1
    <3> QED BY <2>2, <2>3, <3>1
  <2> QED BY <2>2, <2>3, <2>4, <2>5
<1>3. /\ y \in Seq(ExternalMessage) /\ Len(y) = n - i
      /\ \A j \in 1..(n - i) : y[j] = external[i + j]
  <2>1. \A j \in (i + 1)..n : external[j] \in ExternalMessage
    BY <1>1
  <2>2. /\ SubSeq(external, i + 1, n) \in Seq(ExternalMessage)
        /\ Len(SubSeq(external, i + 1, n)) = IF i + 1 <= n THEN n - (i + 1) + 1 ELSE 0
        /\ \A j \in 1..(n - (i + 1) + 1) : SubSeq(external, i + 1, n)[j] = external[i + 1 + j - 1]
    BY <1>1, <2>1, SubSeqProperties
  <2> HIDE DEF y
  <2>3. y = SubSeq(external, i + 1, n)
    BY DEF y
  <2>4. Len(y) = n - i
    BY <1>1, <2>2, <2>3
  <2>5. ASSUME NEW j \in 1..(n - i) PROVE y[j] = external[i + j]
    <3>1. j \in 1..(n - (i + 1) + 1) /\ i + 1 + j - 1 = i + j
      BY <1>1
    <3> QED BY <2>2, <2>3, <3>1
  <2> QED BY <2>2, <2>3, <2>4, <2>5
<1>4. Without(i) = x \o y
  BY DEF Without
<1> HIDE DEF x, y
<1>5. /\ x \o y \in Seq(ExternalMessage)
      /\ Len(x \o y) = Len(x) + Len(y)
      /\ \A j \in 1..(Len(x) + Len(y)) :
           (x \o y)[j] = IF j <= Len(x) THEN x[j] ELSE y[j - Len(x)]
  BY <1>2, <1>3, ConcatProperties
<1>6. Len(x \o y) = n - 1
  BY <1>1, <1>2, <1>3, <1>5
<1>7. ASSUME NEW j \in 1..(i - 1) PROVE (x \o y)[j] = external[j]
  <2>1. j \in 1..(Len(x) + Len(y)) /\ j <= Len(x)
    BY <1>1, <1>2, <1>3
  <2> QED BY <1>2, <1>5, <2>1
<1>8. ASSUME NEW j \in (i + 1)..n PROVE (x \o y)[j - 1] = external[j]
  <2>1. /\ j - 1 \in 1..(Len(x) + Len(y)) /\ ~(j - 1 <= Len(x))
        /\ j - 1 - Len(x) = j - i /\ j - i \in 1..(n - i) /\ i + (j - i) = j
    BY <1>1, <1>2, <1>3
  <2>2. (x \o y)[j - 1] = y[j - i]
    BY <1>5, <2>1
  <2>3. y[j - i] = external[i + (j - i)]
    BY <1>3, <2>1
  <2> QED BY <2>1, <2>2, <2>3
<1> QED BY <1>4, <1>5, <1>6, <1>7, <1>8

\* Taking out one message takes out no other.
LEMMA HeldWithout ==
  ASSUME external \in Seq(ExternalMessage), NEW i \in 1..Len(external), NEW s
  PROVE  Cardinality(Held(Without(i), s)) + One(external[i].msg, s)
           >= Cardinality(Held(external, s))
<1> DEFINE A == Held(external, s) \ {i}
           B == Held(Without(i), s)
           f == [j \in A |-> IF j < i THEN j ELSE j - 1]
<1>1. /\ Without(i) \in Seq(ExternalMessage)
      /\ Len(Without(i)) = Len(external) - 1
      /\ \A j \in 1..(i - 1) : Without(i)[j] = external[j]
      /\ \A j \in (i + 1)..Len(external) : Without(i)[j - 1] = external[j]
  BY WithoutEntries
<1>2. IsFiniteSet(B) /\ Cardinality(B) \in Nat
  BY <1>1, HeldFinite
<1>3. ASSUME NEW j \in A PROVE f[j] \in B
  <2>1. j \in 1..Len(external) /\ external[j].msg = s /\ j # i
    BY DEF Held
  <2>2. CASE j < i
    <3>1. j \in 1..(i - 1) /\ j \in 1..Len(Without(i))
      BY <1>1, <2>1, <2>2
    <3> QED BY <1>1, <2>1, <2>2, <3>1 DEF Held
  <2>3. CASE j > i
    <3>1. j \in (i + 1)..Len(external) /\ j - 1 \in 1..Len(Without(i))
      BY <1>1, <2>1, <2>3
    <3>2. Without(i)[j - 1].msg = s
      BY <1>1, <2>1, <3>1
    <3>3. f[j] = j - 1
      BY <2>1, <2>3
    <3> QED BY <3>1, <3>2, <3>3 DEF Held
  <2> QED BY <2>1, <2>2, <2>3
<1>4. \A a, b \in A : f[a] = f[b] => a = b
  BY DEF Held
<1>5. f \in [A -> B]
  BY <1>3
<1> HIDE DEF A, B, f
<1>6. Cardinality(A) <= Cardinality(B) /\ IsFiniteSet(A)
  BY <1>2, <1>4, <1>5, AsMany
<1>7. Cardinality(A) \in Nat
  BY <1>6, FS_CardinalityType
<1>8. IsFiniteSet(Held(external, s)) /\ Cardinality(Held(external, s)) \in Nat
  BY HeldFinite
<1>9. Cardinality(A) = IF i \in Held(external, s) THEN Cardinality(Held(external, s)) - 1
                       ELSE Cardinality(Held(external, s))
  BY <1>8, FS_RemoveElement DEF A
<1>10. i \in Held(external, s) <=> external[i].msg = s
  BY DEF Held
<1> QED BY <1>2, <1>6, <1>7, <1>8, <1>9, <1>10 DEF B, One

\* enqueue_external_message of a dequeued message, from another thread.
LEMMA Relabelled ==
  ASSUME NEW m \in ExternalMessage, NEW t \in Threads
  PROVE  LET e == [m EXCEPT !.src = t]
         IN  e \in ExternalMessage /\ e.msg = m.msg /\ e.requeue = m.requeue
<1>1. t \in Producers
  BY DEF Producers
<1> QED BY <1>1 DEF ExternalMessage

\* requeued_messages come back with another producer and the same events.
LEMMA HeldRelabelled ==
  ASSUME NEW seq \in Seq(ExternalMessage), NEW t \in Threads, NEW s
  PROVE  Held([i \in 1..Len(seq) |-> [seq[i] EXCEPT !.src = t]], s) = Held(seq, s)
<1> DEFINE r == [i \in 1..Len(seq) |-> [seq[i] EXCEPT !.src = t]]
<1>1. Len(r) = Len(seq)
  OBVIOUS
<1>2. ASSUME NEW i \in 1..Len(seq) PROVE r[i].msg = seq[i].msg
  <2>1. seq[i] \in ExternalMessage
    OBVIOUS
  <2>2. [seq[i] EXCEPT !.src = t].msg = seq[i].msg
    BY <2>1 DEF ExternalMessage
  <2> QED BY <2>2
<1> HIDE DEF r
<1>3. Held(r, s) = Held(seq, s)
  BY <1>1, <1>2 DEF Held
<1> QED BY <1>3 DEF r

LEMMA NothingHeld ==
  ASSUME NEW s
  PROVE  Cardinality(Held(<< >>, s)) = 0
<1>1. Held(<< >>, s) = {}
  BY DEF Held
<1> QED BY <1>1, FS_EmptySet

LEMMA Filled ==
  ASSUME NEW rg \in Rings, NEW q \in MQs
  PROVE  /\ Contents(rg[q]) \in Seq(Words)
         /\ Len(Contents(rg[q])) = rg[q].validCount
         /\ rg[q].validCount \in Nat
<1>1. CASE rg[q] \in RingType
  BY <1>1, ContentsAre, RingFields
<1>2. CASE rg[q] = NoRing
  BY <1>2, NoContents DEF NoRing
<1> QED BY <1>1, <1>2 DEF Rings

LEMMA StoredMember ==
  ASSUME NEW rg, NEW s, NEW p
  PROVE  p \in Stored(rg, s) <=>
           \E q \in MQs : \E i \in 1..rg[q].validCount :
             p = << q, i >> /\ Contents(rg[q])[i] = s
<1>1. ASSUME NEW q \in MQs, NEW i \in 1..rg[q].validCount,
             p = << q, i >>, Contents(rg[q])[i] = s
      PROVE  p \in Stored(rg, s)
  BY <1>1 DEF Stored
<1>2. ASSUME p \in Stored(rg, s)
      PROVE  \E q \in MQs : \E i \in 1..rg[q].validCount :
               p = << q, i >> /\ Contents(rg[q])[i] = s
  BY <1>2 DEF Stored
<1> QED BY <1>1, <1>2

LEMMA StoredPair ==
  ASSUME NEW rg, NEW s, NEW q \in MQs, NEW i
  PROVE  << q, i >> \in Stored(rg, s) <=>
           i \in 1..rg[q].validCount /\ Contents(rg[q])[i] = s
BY StoredMember

LEMMA StoredFinite ==
  ASSUME IsFiniteSet(MQs), NEW rg \in Rings, NEW s
  PROVE  IsFiniteSet(Stored(rg, s)) /\ Cardinality(Stored(rg, s)) \in Nat
<1> DEFINE In(q) == {k \in 1..rg[q].validCount : Contents(rg[q])[k] = s}
           Pairs(q) == {<< q, i >> : i \in In(q)}
<1>1. ASSUME NEW q \in MQs PROVE IsFiniteSet(Pairs(q))
  <2>1. IsFiniteSet(1..rg[q].validCount)
    BY Filled, FS_Interval
  <2> DEFINE f == [p \in Pairs(q) |-> p[2]]
  <2>2. f \in [Pairs(q) -> 1..rg[q].validCount]
    OBVIOUS
  <2>3. \A a, b \in Pairs(q) : f[a] = f[b] => a = b
    OBVIOUS
  <2> HIDE DEF f, Pairs
  <2> QED BY <2>1, <2>2, <2>3, AsMany
<1> HIDE DEF Pairs
<1>2. IsFiniteSet({Pairs(q) : q \in MQs})
  <2> DEFINE g == [q \in MQs |-> Pairs(q)]
  <2>1. g \in Surjection(MQs, {Pairs(q) : q \in MQs})
    BY DEF Surjection
  <2> HIDE DEF g
  <2> QED BY <2>1, FS_Surjection
<1>3. \A T \in {Pairs(q) : q \in MQs} : IsFiniteSet(T)
  BY <1>1
<1>4. IsFiniteSet(UNION {Pairs(q) : q \in MQs})
  BY <1>2, <1>3, FS_UNION
<1>5. IsFiniteSet(Stored(rg, s))
  BY <1>4 DEF Stored, Pairs
<1> QED BY <1>5, FS_CardinalityType

\* The messages of one queue move by a number of places, none to the place at,
\* which m takes.
MakesRoom(r, r2, by, at, m) ==
  /\ \A i \in 1..r.validCount :
       /\ i + by \in 1..r2.validCount /\ i + by # at
       /\ Contents(r2)[i + by] = Contents(r)[i]
  /\ at \in 1..r2.validCount /\ Contents(r2)[at] = m

LEMMA StoredGrows ==
  ASSUME IsFiniteSet(MQs), NEW rg \in Rings, NEW r2 \in Rings, NEW q \in MQs, NEW s,
         \A p \in MQs \ {q} : r2[p] = rg[p],
         NEW by \in {0, 1}, NEW at, NEW m, MakesRoom(rg[q], r2[q], by, at, m)
  PROVE  Cardinality(Stored(r2, s)) >= Cardinality(Stored(rg, s)) + One(m, s)
<1>0. /\ \A i \in 1..rg[q].validCount :
           /\ i + by \in 1..r2[q].validCount /\ i + by # at
           /\ Contents(r2[q])[i + by] = Contents(rg[q])[i]
      /\ at \in 1..r2[q].validCount /\ Contents(r2[q])[at] = m
  BY DEF MakesRoom
<1> DEFINE A == Stored(rg, s)
           B == Stored(r2, s) \ {<< q, at >>}
           f == [p \in A |-> IF p[1] = q THEN << q, p[2] + by >> ELSE p]
<1>1. /\ IsFiniteSet(A) /\ Cardinality(A) \in Nat
      /\ IsFiniteSet(Stored(r2, s)) /\ Cardinality(Stored(r2, s)) \in Nat
  BY StoredFinite
<1>2. /\ IsFiniteSet(B)
      /\ Cardinality(B) = IF << q, at >> \in Stored(r2, s)
                          THEN Cardinality(Stored(r2, s)) - 1
                          ELSE Cardinality(Stored(r2, s))
  BY <1>1, FS_RemoveElement
<1>3. << q, at >> \in Stored(r2, s) <=> m = s
  <2> HIDE DEF A, B, f
  <2>1. << q, at >> \in Stored(r2, s) <=>
          at \in 1..r2[q].validCount /\ Contents(r2[q])[at] = s
    BY StoredPair
  <2> QED BY <1>0, <2>1
<1>4. ASSUME NEW p \in A PROVE f[p] \in B /\ p = << p[1], p[2] >> /\ p[2] \in Int
  <2>0. PICK x \in MQs : \E i \in 1..rg[x].validCount :
          p = << x, i >> /\ Contents(rg[x])[i] = s
    BY StoredMember
  <2>1. PICK i \in 1..rg[x].validCount : p = << x, i >> /\ Contents(rg[x])[i] = s
    BY <2>0
  <2>2. p[1] = x /\ p[2] = i
    BY <2>1
  <2>3. CASE x = q
    <3>1. f[p] = << q, i + by >>
      BY <2>1, <2>2, <2>3
    <3>2. << q, i + by >> \in Stored(r2, s) /\ << q, i + by >> # << q, at >>
      BY <1>0, <2>1, <2>3, StoredPair
    <3> QED BY <2>1, <2>2, <3>1, <3>2
  <2>4. CASE x # q
    <3>1. f[p] = p /\ p # << q, at >>
      BY <2>1, <2>2, <2>4
    <3>2. p \in Stored(r2, s)
      BY <2>1, <2>4, StoredPair
    <3> QED BY <2>1, <2>2, <3>1, <3>2
  <2> QED BY <2>3, <2>4
<1>5. ASSUME NEW a \in A, NEW b \in A, f[a] = f[b] PROVE a = b
  <2>1. /\ a = << a[1], a[2] >> /\ a[2] \in Int
        /\ b = << b[1], b[2] >> /\ b[2] \in Int
    BY <1>4
  <2>2. /\ f[a] = IF a[1] = q THEN << q, a[2] + by >> ELSE a
        /\ f[b] = IF b[1] = q THEN << q, b[2] + by >> ELSE b
    OBVIOUS
  <2> HIDE DEF f, A
  <2>3. f[a][1] = a[1] /\ f[b][1] = b[1]
    BY <2>1, <2>2
  <2>4. a[1] = b[1]
    BY <1>5, <2>3
  <2>5. CASE a[1] = q
    <3>1. << q, a[2] + by >> = << q, b[2] + by >>
      BY <1>5, <2>2, <2>4, <2>5
    <3>2. a[2] + by = b[2] + by
      BY <3>1
    <3>3. a[2] = b[2]
      BY <2>1, <3>2
    <3> QED BY <2>1, <2>4, <3>3
  <2>6. CASE a[1] # q
    BY <1>5, <2>2, <2>4, <2>6
  <2> QED BY <2>5, <2>6
<1>6. f \in [A -> B]
  BY <1>4
<1> HIDE DEF A, B, f
<1>7. Cardinality(A) <= Cardinality(B)
  BY <1>2, <1>5, <1>6, AsMany
<1> QED BY <1>1, <1>2, <1>3, <1>7 DEF One, A

\* do_send adds its message to those of the queue.
LEMMA StoredPut ==
  ASSUME IsFiniteSet(MQs), NEW rg \in Rings, NEW r2 \in Rings, NEW q \in MQs, NEW s,
         NEW m \in Msgs, NEW jam \in BOOLEAN, ~MQ_IS_FULL(rg[q]),
         r2[q] = Put(rg[q], m, jam), \A p \in MQs \ {q} : r2[p] = rg[p]
  PROVE  Cardinality(Stored(r2, s)) >= Cardinality(Stored(rg, s)) + One(m, s)
<1> DEFINE c == Contents(rg[q])
           d == Contents(r2[q])
           v == rg[q].validCount
<1>1. rg[q] \in RingType /\ m \in Words
  BY FullOrEmpty DEF Rings, Words
<1>2. r2[q] = Put(rg[q], m, jam)
  OBVIOUS
<1>3. /\ c \in Seq(Words) /\ Len(c) = v /\ v \in Nat
      /\ d \in Seq(Words) /\ Len(d) = r2[q].validCount /\ r2[q].validCount \in Nat
  BY Filled
<1>4. CASE jam
  <2>1. d = << m >> \o c
    BY <1>1, <1>2, <1>4, PutHeadPrepends DEF Put
  <2> HIDE DEF c, d
  <2>2. /\ << m >> \in Seq(Words) /\ Len(<< m >>) = 1 /\ << m >>[1] = m
    BY <1>1
  <2>3. /\ Len(d) = v + 1 /\ d[1] = m
        /\ \A i \in 2..(v + 1) : d[i] = c[i - 1]
    BY <1>3, <2>1, <2>2, ConcatProperties
  <2>4. \A i \in 1..v : i + 1 \in 1..r2[q].validCount /\ i + 1 # 1 /\ d[i + 1] = c[i]
    BY SMTT(40), <1>3, <2>3
  <2>5. 1 \in 1..r2[q].validCount /\ d[1] = m
    BY <1>3, <2>3
  <2>6. \A i \in 1..v : /\ i + 1 \in 1..r2[q].validCount /\ i + 1 # 1
                        /\ Contents(r2[q])[i + 1] = Contents(rg[q])[i]
    BY <2>4 DEF c, d
  <2>7. 1 \in 1..r2[q].validCount /\ Contents(r2[q])[1] = m
    BY <2>5 DEF d
  <2>8. MakesRoom(rg[q], r2[q], 1, 1, m)
    BY <2>6, <2>7 DEF MakesRoom
  <2> QED BY <1>2, <2>8, StoredGrows
<1>5. CASE ~jam
  <2>1. d = Append(c, m)
    BY <1>1, <1>2, <1>5, PutTailAppends DEF Put
  <2> HIDE DEF c, d
  <2>2. /\ Len(d) = v + 1 /\ d[v + 1] = m
        /\ \A i \in 1..v : d[i] = c[i]
    BY <1>1, <1>3, <2>1, AppendProperties
  <2>3. \A i \in 1..v : i + 0 \in 1..r2[q].validCount /\ i + 0 # v + 1 /\ d[i + 0] = c[i]
    BY <1>3, <2>2
  <2>4. v + 1 \in 1..r2[q].validCount /\ d[v + 1] = m
    BY <1>3, <2>2
  <2>5. \A i \in 1..v : /\ i + 0 \in 1..r2[q].validCount /\ i + 0 # v + 1
                        /\ Contents(r2[q])[i + 0] = Contents(rg[q])[i]
    BY <2>3 DEF c, d
  <2>6. v + 1 \in 1..r2[q].validCount /\ Contents(r2[q])[v + 1] = m
    BY <2>4 DEF d
  <2>7. MakesRoom(rg[q], r2[q], 0, v + 1, m)
    BY <2>5, <2>6 DEF MakesRoom
  <2> HIDE DEF v
  <2> QED BY <1>2, <2>7, StoredGrows
<1> QED BY <1>4, <1>5

\* do_recv takes the first message of one queue and no other.
LEMMA StoredTake ==
  ASSUME IsFiniteSet(MQs), NEW rg \in Rings, NEW r2 \in Rings, NEW q \in MQs, NEW s,
         ~MQ_IS_EMPTY(rg[q]), r2[q] = TakeHead(rg[q]),
         \A p \in MQs \ {q} : r2[p] = rg[p],
         Front(rg[q]) # s
  PROVE  Cardinality(Stored(r2, s)) >= Cardinality(Stored(rg, s))
<1> DEFINE c == Contents(rg[q])
           d == Contents(r2[q])
           v == rg[q].validCount
           A == Stored(rg, s)
           B == Stored(r2, s)
           f == [p \in A |-> IF p[1] = q THEN << q, p[2] - 1 >> ELSE p]
<1>1. rg[q] \in RingType
  BY FullOrEmpty DEF Rings
<1>2. /\ r2[q] = TakeHead(rg[q])
      /\ \A p \in MQs \ {q} : r2[p] = rg[p]
  OBVIOUS
<1>3. /\ c \in Seq(Words) /\ Len(c) = v /\ v \in Nat
      /\ d \in Seq(Words) /\ Len(d) = r2[q].validCount /\ r2[q].validCount \in Nat
  BY Filled
<1>4. c # << >> /\ c[1] # s /\ d = Tail(c)
  BY <1>1, <1>2, TakeHeadTakes
<1> HIDE DEF c, d
<1>5. Len(d) = v - 1 /\ \A i \in 1..(v - 1) : d[i] = c[i + 1]
  BY <1>3, <1>4, HeadTailProperties
<1>6. ASSUME NEW i \in 1..v, c[i] = s
      PROVE  i - 1 \in 1..r2[q].validCount /\ d[i - 1] = s
  <2>1. i # 1
    BY <1>4, <1>6
  <2>2. i - 1 \in 1..(v - 1) /\ (i - 1) + 1 = i
    BY <1>3, <2>1
  <2> QED BY <1>3, <1>5, <1>6, <2>2
<1>7. ASSUME NEW p \in A PROVE f[p] \in B /\ p = << p[1], p[2] >> /\ p[2] \in Int
  <2>0. PICK x \in MQs : \E i \in 1..rg[x].validCount :
          p = << x, i >> /\ Contents(rg[x])[i] = s
    BY StoredMember
  <2>1. PICK i \in 1..rg[x].validCount : p = << x, i >> /\ Contents(rg[x])[i] = s
    BY <2>0
  <2>2. p[1] = x /\ p[2] = i
    BY <2>1
  <2>3. CASE x = q
    <3>1. f[p] = << q, i - 1 >>
      BY <2>1, <2>2, <2>3
    <3>2. << q, i - 1 >> \in Stored(r2, s)
      BY <1>6, <2>1, <2>3, StoredPair DEF c, d
    <3> QED BY <2>1, <2>2, <3>1, <3>2
  <2>4. CASE x # q
    <3>1. f[p] = p
      BY <2>1, <2>2, <2>4
    <3>2. p \in Stored(r2, s)
      BY <1>2, <2>1, <2>4, StoredPair
    <3> QED BY <2>1, <2>2, <3>1, <3>2
  <2> QED BY <2>3, <2>4
<1>8. ASSUME NEW a \in A, NEW b \in A, f[a] = f[b] PROVE a = b
  <2>1. /\ a = << a[1], a[2] >> /\ a[2] \in Int
        /\ b = << b[1], b[2] >> /\ b[2] \in Int
    BY <1>7
  <2>2. /\ f[a] = IF a[1] = q THEN << q, a[2] - 1 >> ELSE a
        /\ f[b] = IF b[1] = q THEN << q, b[2] - 1 >> ELSE b
    OBVIOUS
  <2> HIDE DEF f, A
  <2>3. f[a][1] = a[1] /\ f[b][1] = b[1]
    BY <2>1, <2>2
  <2>4. a[1] = b[1]
    BY <1>8, <2>3
  <2>5. CASE a[1] = q
    <3>1. << q, a[2] - 1 >> = << q, b[2] - 1 >>
      BY <1>8, <2>2, <2>4, <2>5
    <3>2. a[2] - 1 = b[2] - 1
      BY <3>1
    <3>3. a[2] = b[2]
      BY <2>1, <3>2
    <3> QED BY <2>1, <2>4, <3>3
  <2>6. CASE a[1] # q
    BY <1>8, <2>2, <2>4, <2>6
  <2> QED BY <2>5, <2>6
<1>9. f \in [A -> B]
  BY <1>7
<1>10. /\ IsFiniteSet(A) /\ Cardinality(A) \in Nat
       /\ IsFiniteSet(B) /\ Cardinality(B) \in Nat
  BY StoredFinite
<1> HIDE DEF A, B, f
<1>11. Cardinality(A) <= Cardinality(B)
  BY <1>8, <1>9, <1>10, AsMany
<1> QED BY <1>10, <1>11 DEF A, B

\* A new queue is empty, as its memory was.
LEMMA StoredCreate ==
  ASSUME NEW rg \in Rings, NEW r2 \in Rings, NEW q \in MQs, NEW n \in Capacities, NEW s,
         rg[q].msgCount = 0, r2[q] = CreateRing(n, Null),
         \A p \in MQs \ {q} : r2[p] = rg[p]
  PROVE  Stored(r2, s) = Stored(rg, s)
<1>1. rg[q] = NoRing
  BY RingFields DEF Rings
<1>2. rg[q].validCount = 0 /\ r2[q].validCount = 0
  BY <1>1 DEF NoRing, CreateRing
<1>3. ASSUME NEW p, p \in Stored(rg, s) PROVE p \in Stored(r2, s)
  <2>1. PICK x \in MQs : \E i \in 1..rg[x].validCount :
          p = << x, i >> /\ Contents(rg[x])[i] = s
    BY <1>3, StoredMember
  <2>2. r2[x] = rg[x]
    BY <1>2, <2>1
  <2> QED BY <2>1, <2>2, StoredMember
<1>4. ASSUME NEW p, p \in Stored(r2, s) PROVE p \in Stored(rg, s)
  <2>1. PICK x \in MQs : \E i \in 1..r2[x].validCount :
          p = << x, i >> /\ Contents(r2[x])[i] = s
    BY <1>4, StoredMember
  <2>2. r2[x] = rg[x]
    BY <1>2, <2>1
  <2> QED BY <2>1, <2>2, StoredMember
<1> QED BY <1>3, <1>4

\* Events of the sources with requeue_if_blocked carry the mark.
Marked(seq) == \A i \in 1..Len(seq) : seq[i].msg \in RequeueSources => seq[i].requeue
EventsMarked == Marked(external) /\ Marked(requeued)

LEMMA MarkedAppend ==
  ASSUME NEW seq \in Seq(ExternalMessage), NEW m \in ExternalMessage,
         Marked(seq), m.msg \in RequeueSources => m.requeue
  PROVE  Marked(Append(seq, m)) /\ Append(seq, m) \in Seq(ExternalMessage)
<1> DEFINE a == Append(seq, m)
<1>1. /\ Len(a) = Len(seq) + 1 /\ a[Len(seq) + 1] = m
      /\ \A i \in 1..Len(seq) : a[i] = seq[i]
      /\ a \in Seq(ExternalMessage)
  BY AppendProperties
<1> HIDE DEF a
<1>2. ASSUME NEW i \in 1..Len(a), a[i].msg \in RequeueSources PROVE a[i].requeue
  <2>1. i \in 1..Len(seq) \/ i = Len(seq) + 1
    BY <1>1
  <2> QED BY <1>1, <1>2, <2>1 DEF Marked
<1>3. Marked(a) /\ a \in Seq(ExternalMessage)
  BY <1>1, <1>2 DEF Marked
<1> QED BY <1>3 DEF a

LEMMA MarkedWithout ==
  ASSUME external \in Seq(ExternalMessage), Marked(external), NEW i \in 1..Len(external)
  PROVE  Marked(Without(i)) /\ Without(i) \in Seq(ExternalMessage)
<1> DEFINE w == Without(i)
<1>1. /\ w \in Seq(ExternalMessage) /\ Len(w) = Len(external) - 1
      /\ \A j \in 1..(i - 1) : w[j] = external[j]
      /\ \A j \in (i + 1)..Len(external) : w[j - 1] = external[j]
  BY WithoutEntries
<1> HIDE DEF w
<1>2. ASSUME NEW j \in 1..Len(w), w[j].msg \in RequeueSources PROVE w[j].requeue
  <2>1. CASE j < i
    <3>1. j \in 1..(i - 1) /\ j \in 1..Len(external)
      BY <1>1, <2>1
    <3> QED BY <1>1, <1>2, <3>1 DEF Marked
  <2>2. CASE ~(j < i)
    <3>1. j + 1 \in (i + 1)..Len(external) /\ j + 1 \in 1..Len(external) /\ (j + 1) - 1 = j
      BY <1>1, <2>2
    <3>2. w[j] = external[j + 1]
      BY <1>1, <3>1
    <3> QED BY <1>2, <3>1, <3>2 DEF Marked
  <2> QED BY <2>1, <2>2
<1>3. Marked(w) /\ w \in Seq(ExternalMessage)
  BY <1>1, <1>2 DEF Marked
<1> QED BY <1>3 DEF w

LEMMA MarkedRelabelled ==
  ASSUME NEW seq \in Seq(ExternalMessage), Marked(seq), NEW t \in Threads
  PROVE  Marked([i \in 1..Len(seq) |-> [seq[i] EXCEPT !.src = t]])
<1> DEFINE r == [i \in 1..Len(seq) |-> [seq[i] EXCEPT !.src = t]]
<1>1. Len(r) = Len(seq)
  OBVIOUS
<1>2. ASSUME NEW i \in 1..Len(seq)
      PROVE  r[i].msg = seq[i].msg /\ r[i].requeue = seq[i].requeue
  <2>1. seq[i] \in ExternalMessage
    OBVIOUS
  <2>2. /\ [seq[i] EXCEPT !.src = t].msg = seq[i].msg
        /\ [seq[i] EXCEPT !.src = t].requeue = seq[i].requeue
    BY <2>1 DEF ExternalMessage
  <2> QED BY <2>2
<1> HIDE DEF r
<1>3. Marked(r)
  BY <1>1, <1>2 DEF Marked
<1> QED BY <1>3 DEF r

\* What a step does with the messages: a host thread or do_dma posts one, the
\* token holder delivers one, sets one aside that finds its queue full, or posts
\* it again, and puts those it set aside back when it has read all the others.
Same(x) == x' = x
Posts == \E m \in ExternalMessage :
           /\ m.msg \in RequeueSources => m.requeue
           /\ external' = Append(external, m)
           /\ Same(requeued) /\ Same(ring)
Delivers == \E i \in 1..Len(external) :
              LET m == external[i] IN
                /\ external' = Without(i) /\ Same(requeued)
                /\ ~MQ_IS_FULL(ring[m.mq])
                /\ ring' = [ring EXCEPT ![m.mq] = Put(@, m.msg, m.jam)]
SetsAside == \E i \in 1..Len(external) :
               LET m == external[i] IN
                 /\ external' = Without(i) /\ Same(ring)
                 /\ requeued' = IF m.requeue THEN Append(requeued, m) ELSE requeued
PostsAgain == \E i \in 1..Len(external), t \in Threads :
                LET m == external[i] IN
                  /\ external' = IF m.requeue
                                 THEN Append(Without(i), [m EXCEPT !.src = t])
                                 ELSE Without(i)
                  /\ Same(requeued) /\ Same(ring)
PutsBack == /\ external = << >> /\ requeued' = << >> /\ Same(ring)
            /\ \E t \in Threads :
                 external' = [i \in 1..Len(requeued) |-> [requeued[i] EXCEPT !.src = t]]
Only(A) == A /\ Same(external) /\ Same(requeued)

Moves == \/ Posts \/ Delivers \/ SetsAside \/ PostsAgain \/ PutsBack
         \/ Only(Puts) \/ Only(Takes) \/ Only(Creates) \/ Only(Same(ring))

SourcesApart == RequeueSources \cap (HostThreads \cup GameMsgs) = {}

LEMMA MessageStep ==
  ASSUME SchedInv, SendsOK, SourcesApart, [Next]_vars
  PROVE  Moves
<1>0. call \in [Threads -> Calls \cup {NoCall}] /\ external \in Seq(ExternalMessage)
  BY DEF SchedInv, TypeOK
<1>1. ASSUME NEW t \in Threads, DrainOne(t) PROVE Delivers \/ SetsAside
  BY <1>1 DEF DrainOne, DeliverExternal, Delivers, SetsAside, Same
<1>2. ASSUME NEW t \in Threads, WaitForExternalMessage(t) PROVE Delivers \/ PostsAgain
  BY <1>2 DEF WaitForExternalMessage, DeliverExternal, Delivers, PostsAgain, Same
<1>3. ASSUME NEW t \in Threads, DrainDone(t) PROVE PutsBack
  BY <1>3 DEF DrainDone, PutsBack, Same
<1>4. ASSUME NEW t \in Threads, NEW q \in MQs, PiMessage(t, q) PROVE Posts
  <2>1. PICK m \in GameMsgs :
          external' = Append(external, [src |-> t, mq |-> q, msg |-> m, jam |-> FALSE,
                                        requeue |-> FALSE])
    BY <1>4 DEF PiMessage, EnqueueExternal
  <2> DEFINE e == [src |-> t, mq |-> q, msg |-> m, jam |-> FALSE, requeue |-> FALSE]
  <2>2. e \in ExternalMessage /\ e.msg \notin RequeueSources
    BY DEF ExternalMessage, Producers, Msgs, SourcesApart
  <2>3. external' = Append(external, e) /\ Same(requeued) /\ Same(ring)
    BY <1>4, <2>1 DEF PiMessage, Same
  <2> HIDE DEF e
  <2> QED BY <2>2, <2>3 DEF Posts
<1>5. ASSUME NEW s \in EventSources, NEW q \in MQs, EventMessage(s, q) PROVE Posts
  <2> DEFINE e == [src |-> s, mq |-> q, msg |-> s, jam |-> FALSE,
                   requeue |-> s \in RequeueSources]
  <2>1. e \in ExternalMessage /\ (e.msg \in RequeueSources => e.requeue)
    <3>1. (s \in RequeueSources) \in BOOLEAN
      OBVIOUS
    <3>2. s \in Producers /\ s \in Msgs
      BY DEF Producers, Msgs
    <3>3. e \in ExternalMessage
      BY <3>1, <3>2, Zenon DEF ExternalMessage
    <3> QED BY <3>3
  <2>2. external' = Append(external, e) /\ Same(requeued) /\ Same(ring)
    BY <1>5 DEF EventMessage, EnqueueExternal, Same
  <2> HIDE DEF e
  <2> QED BY <2>1, <2>2 DEF Posts
<1>6. ASSUME NEW h \in HostThreads, NEW q \in MQs, NEW jam \in BOOLEAN, HostMessage(h, q, jam)
      PROVE  Posts
  <2> DEFINE e == [src |-> h, mq |-> q, msg |-> h, jam |-> jam, requeue |-> FALSE]
  <2>1. e \in ExternalMessage /\ e.msg \notin RequeueSources
    BY DEF ExternalMessage, Producers, Msgs, SourcesApart
  <2>2. external' = Append(external, e) /\ Same(requeued) /\ Same(ring)
    BY <1>6 DEF HostMessage, EnqueueExternal, Same
  <2> HIDE DEF e
  <2> QED BY <2>1, <2>2 DEF Posts
<1>7. ASSUME NEW t \in Threads, ThreadStep(t),
             ~DrainOne(t), ~WaitForExternalMessage(t), ~DrainDone(t),
             ~\E q \in MQs : PiMessage(t, q)
      PROVE  Same(external) /\ Same(requeued)
  <2>1. CASE \/ \E q \in MQs, m \in GameMsgs, block \in BOOLEAN :
                  OsSendMesg(t, q, m, block) \/ OsJamMesg(t, q, m, block)
             \/ \E q \in MQs, block \in BOOLEAN : OsRecvMesg(t, q, block)
             \/ DoSend(t) \/ DoRecv(t) \/ CallFails(t) \/ BlockOnSend(t) \/ BlockOnRecv(t)
             \/ \E q \in MQs, count \in Capacities : OsCreateMesgQueue(t, q, count)
             \/ \E place \in {"pause", "yield", "yield_1ms"} : BeginWait(t, place)
             \/ WaitTimesOut(t)
    BY <2>1 DEF OsSendMesg, OsJamMesg, OsRecvMesg, BeginCall, DoSend, DoRecv, CallFails,
       Return, BlockOnSend, BlockOnRecv, OsCreateMesgQueue, BeginWait, WaitTimesOut, Same
  <2>2. CASE \/ \E u \in Threads, pri \in Priorities :
                  OsCreateThread(t, u, pri) \/ OsSetThreadPri(t, u, pri)
             \/ \E u \in Threads : OsStartThread(t, u) \/ OsDestroyThread(t, u)
             \/ OsStopThread(t) \/ ThreadExit(t)
    BY <2>2 DEF OsCreateThread, OsSetThreadPri, OsStartThread, OsDestroyThread,
       OsStopThread, ThreadExit, Same
  <2> QED BY <1>7, <2>1, <2>2 DEF ThreadStep
<1>8. ASSUME Same(external) /\ Same(requeued) PROVE Moves
  <2>1. Puts \/ Takes \/ Creates \/ Same(ring)
    BY RingStep DEF Same
  <2> QED BY <1>8, <2>1 DEF Moves, Only
<1>9. ASSUME NEW t \in Threads, ThreadStep(t) PROVE Moves
  BY <1>1, <1>2, <1>3, <1>4, <1>7, <1>8, <1>9 DEF Moves
<1>10. ASSUME UNCHANGED vars \/ \E pri \in Priorities : BootIdle(pri) PROVE Moves
  BY <1>8, <1>10 DEF vars, BootIdle, Same
<1> QED BY <1>5, <1>6, <1>9, <1>10 DEF Next, Moves

\* Before osRecvMesg takes it, an event stays in the system.
LEMMA MoveKeeps ==
  ASSUME IsFiniteSet(MQs), SchedInv, SchedInv', EventsMarked, Moves,
         NEW s \in RequeueSources,
         ~ \E q \in MQs : /\ ring[q].validCount > 0
                          /\ Front(ring[q]) = s
                          /\ ring'[q] = TakeHead(ring[q])
  PROVE  InFlight(s)' >= InFlight(s)
<1> DEFINE E  == Cardinality(Held(external, s))
           R  == Cardinality(Held(requeued, s))
           W  == Cardinality(Stored(ring, s))
           E2 == Cardinality(Held(external', s))
           R2 == Cardinality(Held(requeued', s))
           W2 == Cardinality(Stored(ring', s))
<1>1. /\ external \in Seq(ExternalMessage) /\ external' \in Seq(ExternalMessage)
      /\ requeued \in Seq(ExternalMessage) /\ requeued' \in Seq(ExternalMessage)
      /\ ring \in Rings /\ ring' \in Rings
  BY DEF SchedInv, TypeOK, Rings
<1>2. E \in Nat /\ R \in Nat /\ E2 \in Nat /\ R2 \in Nat /\ W \in Nat /\ W2 \in Nat
  BY <1>1, HeldFinite, StoredFinite
<1>3. InFlight(s) = E + R + W /\ InFlight(s)' = E2 + R2 + W2
  BY DEF InFlight, Held, Stored
<1>4. ASSUME NEW m \in ExternalMessage
      PROVE  One(m.msg, s) \in {0, 1} /\ (One(m.msg, s) = 1 => m.msg = s)
  BY DEF One
<1>5. /\ Same(external) => E2 = E
      /\ Same(requeued) => R2 = R
      /\ Same(ring) => W2 = W
  BY DEF Same
<1>6. ASSUME Posts PROVE E2 + R2 + W2 >= E + R + W
  <2>1. PICK m \in ExternalMessage : external' = Append(external, m)
    BY <1>6 DEF Posts
  <2>2. E2 = E + One(m.msg, s)
    BY <1>1, <2>1, HeldAppend
  <2>3. R2 = R /\ W2 = W
    BY <1>5, <1>6 DEF Posts
  <2> HIDE DEF E, R, W, E2, R2, W2
  <2> QED BY <1>2, <1>4, <2>2, <2>3
<1>7. ASSUME Delivers PROVE E2 + R2 + W2 >= E + R + W
  <2>1. PICK i \in 1..Len(external) :
          LET m == external[i] IN
            /\ external' = Without(i) /\ Same(requeued)
            /\ ~MQ_IS_FULL(ring[m.mq])
            /\ ring' = [ring EXCEPT ![m.mq] = Put(@, m.msg, m.jam)]
    BY <1>7 DEF Delivers
  <2>2. PICK m \in ExternalMessage : m = external[i]
    BY <1>1
  <2>3. m.mq \in MQs /\ m.msg \in Msgs /\ m.jam \in BOOLEAN
    BY DEF ExternalMessage
  <2>4. E2 + One(m.msg, s) >= E
    BY <1>1, <2>1, <2>2, HeldWithout
  <2>5. /\ ring'[m.mq] = Put(ring[m.mq], m.msg, m.jam)
        /\ \A p \in MQs \ {m.mq} : ring'[p] = ring[p]
        /\ ~MQ_IS_FULL(ring[m.mq])
    BY <1>1, <2>1, <2>2, <2>3 DEF Rings
  <2>6. W2 >= W + One(m.msg, s)
    BY <1>1, <2>3, <2>5, StoredPut
  <2>7. R2 = R
    BY <1>5, <2>1
  <2> HIDE DEF E, R, W, E2, R2, W2
  <2> QED BY SMTT(40), <1>2, <1>4, <2>4, <2>6, <2>7
<1>8. ASSUME NEW i \in 1..Len(external), ~external[i].requeue, external' = Without(i)
      PROVE  E2 >= E
  <2>1. One(external[i].msg, s) = 0
    BY <1>8 DEF EventsMarked, Marked, One
  <2>2. E2 + One(external[i].msg, s) >= E
    BY <1>1, <1>8, HeldWithout
  <2> HIDE DEF E, E2
  <2> QED BY <1>2, <2>1, <2>2
<1>9. ASSUME SetsAside PROVE E2 + R2 + W2 >= E + R + W
  <2>1. PICK i \in 1..Len(external) :
          LET m == external[i] IN
            /\ external' = Without(i) /\ Same(ring)
            /\ requeued' = IF m.requeue THEN Append(requeued, m) ELSE requeued
    BY <1>9 DEF SetsAside
  <2>2. PICK m \in ExternalMessage : m = external[i]
    BY <1>1
  <2>3. W2 = W
    BY <1>5, <2>1
  <2>4. CASE m.requeue
    <3>1. R2 = R + One(m.msg, s)
      BY <1>1, <2>1, <2>2, <2>4, HeldAppend
    <3>2. E2 + One(m.msg, s) >= E
      BY <1>1, <2>1, <2>2, HeldWithout
    <3> HIDE DEF E, R, W, E2, R2, W2
    <3> QED BY SMTT(40), <1>2, <1>4, <2>3, <3>1, <3>2
  <2>5. CASE ~m.requeue
    <3>1. R2 = R
      BY <2>1, <2>2, <2>5
    <3>2. E2 >= E
      BY <1>8, <2>1, <2>2, <2>5
    <3> HIDE DEF E, R, W, E2, R2, W2
    <3> QED BY <1>2, <2>3, <3>1, <3>2
  <2> QED BY <2>4, <2>5
<1>10. ASSUME PostsAgain PROVE E2 + R2 + W2 >= E + R + W
  <2>1. PICK i \in 1..Len(external), t \in Threads :
          LET m == external[i] IN
            /\ external' = IF m.requeue
                           THEN Append(Without(i), [m EXCEPT !.src = t])
                           ELSE Without(i)
            /\ Same(requeued) /\ Same(ring)
    BY <1>10 DEF PostsAgain
  <2>2. PICK m \in ExternalMessage : m = external[i]
    BY <1>1
  <2>3. R2 = R /\ W2 = W
    BY <1>5, <2>1
  <2>4. CASE m.requeue
    <3> DEFINE e == [m EXCEPT !.src = t]
    <3>1. e \in ExternalMessage /\ e.msg = m.msg
      BY Relabelled
    <3> HIDE DEF e
    <3>2. external' = Append(Without(i), e)
      BY <2>1, <2>2, <2>4 DEF e
    <3>3. Without(i) \in Seq(ExternalMessage)
      BY <1>1, WithoutEntries
    <3>4. E2 = Cardinality(Held(Without(i), s)) + One(m.msg, s)
      BY <3>1, <3>2, <3>3, HeldAppend
    <3>5. Cardinality(Held(Without(i), s)) + One(m.msg, s) >= E
      BY <1>1, <2>2, HeldWithout
    <3>6. E2 >= E
      BY <3>4, <3>5
    <3> HIDE DEF E, R, W, E2, R2, W2
    <3> QED BY <1>2, <2>3, <3>6
  <2>5. CASE ~m.requeue
    <3>1. E2 >= E
      BY <1>8, <2>1, <2>2, <2>5
    <3> HIDE DEF E, R, W, E2, R2, W2
    <3> QED BY <1>2, <2>3, <3>1
  <2> QED BY <2>4, <2>5
<1>11. ASSUME PutsBack PROVE E2 + R2 + W2 >= E + R + W
  <2>1. PICK t \in Threads :
          external' = [i \in 1..Len(requeued) |-> [requeued[i] EXCEPT !.src = t]]
    BY <1>11 DEF PutsBack
  <2>2. E2 = R
    BY <1>1, <2>1, HeldRelabelled
  <2>3. E = 0 /\ R2 = 0 /\ W2 = W
    BY <1>5, <1>11, NothingHeld DEF PutsBack
  <2> HIDE DEF E, R, W, E2, R2, W2
  <2> QED BY <1>2, <2>2, <2>3
<1>12. ASSUME Only(Puts) PROVE E2 + R2 + W2 >= E + R + W
  <2>1. PICK q \in MQs, m \in Msgs, jam \in BOOLEAN :
          /\ ~MQ_IS_FULL(ring[q])
          /\ ring' = [ring EXCEPT ![q] = Put(@, m, jam)]
    BY <1>12 DEF Only, Puts
  <2>2. /\ ring'[q] = Put(ring[q], m, jam)
        /\ \A p \in MQs \ {q} : ring'[p] = ring[p]
    BY <1>1, <2>1 DEF Rings
  <2>3. W2 >= W + One(m, s)
    BY <1>1, <2>1, <2>2, StoredPut
  <2>4. One(m, s) \in {0, 1}
    BY DEF One
  <2>5. E2 = E /\ R2 = R
    BY <1>5, <1>12 DEF Only
  <2> HIDE DEF E, R, W, E2, R2, W2
  <2> QED BY <1>2, <2>3, <2>4, <2>5
<1>13. ASSUME Only(Takes) PROVE E2 + R2 + W2 >= E + R + W
  <2>1. PICK q \in MQs :
          /\ ~MQ_IS_EMPTY(ring[q])
          /\ ring' = [ring EXCEPT ![q] = TakeHead(@)]
    BY <1>13 DEF Only, Takes
  <2>2. /\ ring'[q] = TakeHead(ring[q])
        /\ \A p \in MQs \ {q} : ring'[p] = ring[p]
    BY <1>1, <2>1 DEF Rings
  <2>3. ring[q].validCount > 0
    BY <1>1, <2>1, Filled DEF MQ_IS_EMPTY
  <2>4. Front(ring[q]) # s
    BY <2>2, <2>3
  <2>5. W2 >= W
    BY <1>1, <2>1, <2>2, <2>4, StoredTake
  <2>6. E2 = E /\ R2 = R
    BY <1>5, <1>13 DEF Only
  <2> HIDE DEF E, R, W, E2, R2, W2
  <2> QED BY <1>2, <2>5, <2>6
<1>14. ASSUME Only(Creates) PROVE E2 + R2 + W2 >= E + R + W
  <2>1. PICK q \in MQs, n \in Capacities :
          ~Created(q) /\ ring' = [ring EXCEPT ![q] = CreateRing(n, Null)]
    BY <1>14 DEF Only, Creates
  <2>2. /\ ring'[q] = CreateRing(n, Null) /\ ring[q].msgCount = 0
        /\ \A p \in MQs \ {q} : ring'[p] = ring[p]
    BY <1>1, <2>1 DEF Rings, Created
  <2>3. W2 = W
    BY <1>1, <2>2, StoredCreate
  <2>4. E2 = E /\ R2 = R
    BY <1>5, <1>14 DEF Only
  <2> HIDE DEF E, R, W, E2, R2, W2
  <2> QED BY <1>2, <2>3, <2>4
<1>15. ASSUME Only(Same(ring)) PROVE E2 + R2 + W2 >= E + R + W
  <2>1. E2 = E /\ R2 = R /\ W2 = W
    BY <1>5, <1>15 DEF Only
  <2> HIDE DEF E, R, W, E2, R2, W2
  <2> QED BY <1>2, <2>1
<1>16. E2 + R2 + W2 >= E + R + W
  BY <1>6, <1>7, <1>9, <1>10, <1>11, <1>12, <1>13, <1>14, <1>15 DEF Moves
<1> QED BY <1>3, <1>16

LEMMA MarkedStep ==
  ASSUME SchedInv, EventsMarked, Moves
  PROVE  EventsMarked'
<1>1. external \in Seq(ExternalMessage) /\ requeued \in Seq(ExternalMessage)
  BY DEF SchedInv, TypeOK
<1>2. CASE Same(external) /\ Same(requeued)
  BY <1>2 DEF EventsMarked, Same
<1>3. ASSUME Posts PROVE EventsMarked'
  <2>1. PICK m \in ExternalMessage : /\ m.msg \in RequeueSources => m.requeue
                                     /\ external' = Append(external, m) /\ Same(requeued)
    BY <1>3 DEF Posts
  <2> QED BY <1>1, <2>1, MarkedAppend DEF EventsMarked, Same
<1>4. ASSUME NEW i \in 1..Len(external)
      PROVE  /\ Marked(Without(i)) /\ Without(i) \in Seq(ExternalMessage)
             /\ external[i] \in ExternalMessage
             /\ external[i].msg \in RequeueSources => external[i].requeue
  BY <1>1, MarkedWithout DEF EventsMarked, Marked
<1>5. ASSUME Delivers PROVE EventsMarked'
  BY <1>4, <1>5 DEF Delivers, EventsMarked, Same
<1>6. ASSUME SetsAside PROVE EventsMarked'
  <2>1. PICK i \in 1..Len(external) :
          /\ external' = Without(i)
          /\ requeued' = IF external[i].requeue THEN Append(requeued, external[i]) ELSE requeued
    BY <1>6 DEF SetsAside
  <2>2. Marked(Append(requeued, external[i]))
    BY <1>1, <1>4, MarkedAppend DEF EventsMarked
  <2> QED BY <1>4, <2>1, <2>2 DEF EventsMarked
<1>7. ASSUME PostsAgain PROVE EventsMarked'
  <2>1. PICK i \in 1..Len(external), t \in Threads :
          /\ external' = IF external[i].requeue
                         THEN Append(Without(i), [external[i] EXCEPT !.src = t])
                         ELSE Without(i)
          /\ Same(requeued)
    BY <1>7 DEF PostsAgain
  <2>2. PICK m \in ExternalMessage : m = external[i]
    BY <1>4
  <2> DEFINE e == [m EXCEPT !.src = t]
  <2>3. e \in ExternalMessage /\ e.msg = m.msg /\ e.requeue = m.requeue
    BY Relabelled
  <2> HIDE DEF e
  <2>4. Marked(Append(Without(i), e))
    BY <1>4, <2>2, <2>3, MarkedAppend
  <2> QED BY <1>4, <2>1, <2>2, <2>4 DEF EventsMarked, Same, e
<1>8. ASSUME PutsBack PROVE EventsMarked'
  <2>1. PICK t \in Threads :
          external' = [i \in 1..Len(requeued) |-> [requeued[i] EXCEPT !.src = t]]
    BY <1>8 DEF PutsBack
  <2>2. Marked(external')
    BY <1>1, <2>1, MarkedRelabelled DEF EventsMarked
  <2>3. Marked(<< >>)
    BY DEF Marked
  <2> QED BY <1>8, <2>2, <2>3 DEF PutsBack, EventsMarked
<1> QED BY <1>2, <1>3, <1>5, <1>6, <1>7, <1>8 DEF Moves, Only

\* An event posted with requeue_if_blocked is never dropped: the only step that
\* lowers the number of its occurrences in external_messages,
\* requeued_messages and the rings is an osRecvMesg that takes it, whatever
\* the number of queues, sources and messages.  The events of these
\* sources are told apart from those of the other senders.
THEOREM EventsKept ==
  ASSUME IsFiniteSet(MQs), SourcesApart
  PROVE  Spec => RequeuedEventsKept
<1> DEFINE Inv == SchedInv /\ SendsOK /\ EventsMarked
<1>1. Init => Inv
  <2>1. Init => SendsOK /\ EventsMarked
    BY DEF Init, SendsOK, NoCall, EventsMarked, Marked
  <2> QED BY <2>1, InitInv
<1>2. SchedInv /\ [Next]_vars => SchedInv'
  BY BootIdleStep, EventMessageStep, HostMessageStep, ThreadStepInv, StutterInv DEF Next
<1>3. Inv /\ [Next]_vars => Inv'
  BY <1>2, SendsStep, MessageStep, MarkedStep
<1> DEFINE Kept == \A s \in RequeueSources :
                     InFlight(s)' < InFlight(s) =>
                       \E q \in MQs : /\ ring[q].validCount > 0
                                      /\ Front(ring[q]) = s
                                      /\ ring'[q] = TakeHead(ring[q])
<1>4. Inv /\ Inv' /\ [Next]_vars => Kept
  <2> SUFFICES ASSUME Inv, Inv', [Next]_vars, NEW s \in RequeueSources,
                      InFlight(s)' < InFlight(s),
                      ~ \E q \in MQs : /\ ring[q].validCount > 0
                                       /\ Front(ring[q]) = s
                                       /\ ring'[q] = TakeHead(ring[q])
               PROVE  FALSE
    OBVIOUS
  <2>1. Moves
    BY MessageStep
  <2>2. InFlight(s)' >= InFlight(s)
    BY <2>1, MoveKeeps
  <2>3. InFlight(s) \in Int /\ InFlight(s)' \in Int
    <3>1. /\ external \in Seq(ExternalMessage) /\ external' \in Seq(ExternalMessage)
          /\ requeued \in Seq(ExternalMessage) /\ requeued' \in Seq(ExternalMessage)
          /\ ring \in Rings /\ ring' \in Rings
      BY DEF SchedInv, TypeOK, Rings
    <3>2. /\ InFlight(s) = Cardinality(Held(external, s)) + Cardinality(Held(requeued, s))
                             + Cardinality(Stored(ring, s))
          /\ InFlight(s)' = Cardinality(Held(external', s)) + Cardinality(Held(requeued', s))
                             + Cardinality(Stored(ring', s))
      BY DEF InFlight, Held, Stored
    <3> QED BY <3>1, <3>2, HeldFinite, StoredFinite
  <2> QED BY <2>2, <2>3
<1>5. Spec => [][Kept]_vars
  BY <1>1, <1>3, <1>4, PTL DEF Spec
<1> QED BY <1>5 DEF RequeuedEventsKept

-----------------------------------------------------------------------------
(***************************************************************************)
(* The rings are bounded queues.                                           *)
(***************************************************************************)

\* Only a thread inside of a call has a request, or one that was destroyed
\* there; a thread inside of a call is alive.
InCall(p, ctx, t) == \/ p[t] \in {"drain", "op"} /\ ctx[t]
                     \/ t \in Victims /\ p[t] = "none"
CallsOK == /\ \A t \in Threads : call[t] # NoCall => InCall(pc, sched.context, t)
           /\ \A t \in Threads : pc[t] \in {"drain", "op"} => sched.context[t]

\* The list operations change nobody's context.
SameContext(S, R) == DOMAIN R = DOMAIN S /\ R.context = S.context
HasContext(S) == {"context", "list", "queue", "state", "running", "halt"} \subseteq DOMAIN S

LEMMA ListContexts ==
  ASSUME NEW S, HasContext(S), NEW q, NEW t
  PROVE  /\ SameContext(S, ThreadQueueInsert(S, q, t))
         /\ SameContext(S, ThreadQueuePop(S, q))
         /\ SameContext(S, ScheduleRunningThread(S, t))
         /\ SameContext(S, RunNextThread(S))
         /\ SameContext(S, WakeOne(S, q))
         /\ SameContext(S, CheckRunningQueue(S))
<1>1. ASSUME NEW R, HasContext(R), NEW p, NEW u
      PROVE  SameContext(R, ThreadQueueInsert(R, p, u)) /\ HasContext(ThreadQueueInsert(R, p, u))
  BY <1>1 DEF ThreadQueueInsert, SameContext, HasContext
<1>2. ASSUME NEW R, HasContext(R), NEW p
      PROVE  SameContext(R, ThreadQueuePop(R, p)) /\ HasContext(ThreadQueuePop(R, p))
  BY <1>2 DEF ThreadQueuePop, SameContext, HasContext
<1>3. ASSUME NEW R, HasContext(R), NEW u
      PROVE  SameContext(R, ScheduleRunningThread(R, u)) /\ HasContext(ScheduleRunningThread(R, u))
  <2> DEFINE I == ThreadQueueInsert(R, RunningQueue, u)
  <2>1. SameContext(R, I) /\ HasContext(I)
    BY <1>1, <1>3
  <2> HIDE DEF I
  <2>2. SameContext(I, [I EXCEPT !.state[u] = "QUEUED"]) /\ HasContext([I EXCEPT !.state[u] = "QUEUED"])
    BY <2>1 DEF SameContext, HasContext
  <2>3. ScheduleRunningThread(R, u) = [I EXCEPT !.state[u] = "QUEUED"]
    BY DEF ScheduleRunningThread, I
  <2> QED BY <2>1, <2>2, <2>3 DEF SameContext
<1>4. ASSUME NEW R, HasContext(R), NEW u
      PROVE  SameContext(R, [R EXCEPT !.running = u])
  BY <1>4 DEF SameContext, HasContext
<1>5. SameContext(S, S)
  BY DEF SameContext
<1>6. SameContext(S, RunNextThread(S))
  <2>1. SameContext(S, [S EXCEPT !.halt = "no_threads"])
    BY DEF SameContext, HasContext
  <2>2. SameContext(S, [ThreadQueuePop(S, RunningQueue) EXCEPT !.running = S.list[RunningQueue][1]])
    BY <1>2, <1>4 DEF SameContext
  <2> QED BY <2>1, <2>2 DEF RunNextThread
<1>7. SameContext(S, WakeOne(S, q))
  <2>1. SameContext(S, ScheduleRunningThread(ThreadQueuePop(S, q), S.list[q][1]))
    BY <1>2, <1>3 DEF SameContext
  <2> QED BY <1>5, <2>1 DEF WakeOne
<1>8. SameContext(S, CheckRunningQueue(S))
  <2> DEFINE R == ScheduleRunningThread(ThreadQueuePop(S, RunningQueue), S.running)
  <2>1. SameContext(S, R) /\ HasContext(R)
    BY <1>2, <1>3 DEF SameContext
  <2> HIDE DEF R
  <2>2. SameContext(S, [R EXCEPT !.running = S.list[RunningQueue][1]])
    BY <1>4, <2>1 DEF SameContext
  <2> QED BY <1>5, <2>2 DEF CheckRunningQueue, R
<1> QED BY <1>1, <1>2, <1>3, <1>6, <1>7, <1>8

LEMMA RemoveContext ==
  ASSUME NEW S, HasContext(S), NEW q, NEW t, NEW R \in ThreadQueueRemove(S, q, t)
  PROVE  SameContext(S, R) /\ HasContext(R)
<1>1. \/ R = S \/ R = [S EXCEPT !.list[q] = Tail(@)]
      \/ R = [S EXCEPT !.halt = "hang"] \/ R = [S EXCEPT !.halt = "fault"]
  BY DEF ThreadQueueRemove, RemoveOutcome
<1> QED BY <1>1 DEF SameContext, HasContext

LEMMA SchedContext == SchedInv => HasContext(sched) /\ sched.context \in [Threads -> BOOLEAN]
  BY DEF SchedInv, TypeOK, SchedType, HasContext

\* Outside of the creation and the end of a thread.
LEMMA CallsKept ==
  ASSUME SchedInv, CallsOK, SameContext(sched, sched'), NEW t \in Threads,
         \A u \in Threads \ {t} : pc'[u] = pc[u] /\ call'[u] = call[u],
         \/ pc'[t] = pc[t] /\ call'[t] = call[t]
         \/ pc'[t] \in {"drain", "op"} /\ sched.context[t]
         \/ pc'[t] \notin {"drain", "op"} /\ call'[t] = NoCall
  PROVE  CallsOK'
BY DEF CallsOK, InCall, SameContext

\* The holder of the token is alive, and in game code it has no request.
LEMMA HolderCalls ==
  ASSUME SchedInv, CallsOK, NEW t \in Threads, NEW place, At(t, place)
  PROVE  /\ sched.context[t] /\ pc[t] = place
         /\ place \in {"game", "pause", "yield", "yield_1ms"} => call[t] = NoCall
         /\ HasContext(sched)
         /\ pc \in [Threads -> Places] /\ call \in [Threads -> Calls \cup {NoCall}]
<1>1. sched.halt = "none" /\ sched.running = t /\ t # Null /\ pc[t] = place
  BY ThreadsAssumption DEF At
<1>2. sched.context[t]
  BY <1>1 DEF SchedInv, OneQueue, TokenOK
<1>3. place \in {"game", "pause", "yield", "yield_1ms"} => call[t] = NoCall
  BY <1>1 DEF CallsOK, InCall
<1> QED BY <1>1, <1>2, <1>3, SchedContext DEF SchedInv, TypeOK

LEMMA CallsStep ==
  ASSUME SchedInv, CallsOK, [Next]_vars
  PROVE  CallsOK'
<1>0. /\ HasContext(sched) /\ sched.context \in [Threads -> BOOLEAN] /\ Idle \in Threads
      /\ pc \in [Threads -> Places] /\ call \in [Threads -> Calls \cup {NoCall}]
      /\ SameContext(sched, sched)
  BY SchedContext, ThreadsAssumption DEF SchedInv, TypeOK, SameContext
\* The holder of the token makes a step of its own.
<1>1. ASSUME NEW t \in Threads, SameContext(sched, sched'), UNCHANGED << pc, call >> PROVE CallsOK'
  BY <1>1, CallsKept
<1>2. ASSUME NEW t \in Threads, NEW c, BeginCall(t, c) PROVE CallsOK'
  <2>1. sched.context[t] /\ sched' = sched
    BY <1>2, HolderCalls DEF BeginCall
  <2>2. pc'[t] = "drain" /\ \A u \in Threads \ {t} : pc'[u] = pc[u] /\ call'[u] = call[u]
    BY <1>0, <1>2 DEF BeginCall
  <2> QED BY <1>0, <2>1, <2>2, CallsKept
<1>3. ASSUME NEW t \in Threads, DrainDone(t) PROVE CallsOK'
  <2>1. sched.context[t] /\ sched' = sched
    BY <1>3, HolderCalls DEF DrainDone
  <2>2. pc'[t] = "op" /\ \A u \in Threads \ {t} : pc'[u] = pc[u] /\ call'[u] = call[u]
    BY <1>0, <1>3 DEF DrainDone
  <2> QED BY <1>0, <2>1, <2>2, CallsKept
<1>4. ASSUME NEW t \in Threads, NEW S, SameContext(sched, S), HasContext(S), Return(t, S)
      PROVE  CallsOK'
  <2>1. SameContext(S, sched')
    BY <1>4, ListContexts DEF Return
  <2>2. SameContext(sched, sched')
    BY <1>4, <2>1 DEF SameContext
  <2>3. /\ pc'[t] = "game" /\ call'[t] = NoCall
        /\ \A u \in Threads \ {t} : pc'[u] = pc[u] /\ call'[u] = call[u]
    BY <1>0, <1>4 DEF Return
  <2> QED BY <2>2, <2>3, CallsKept
<1>5. ASSUME NEW q PROVE SameContext(sched, WakeOne(sched, q)) /\ HasContext(WakeOne(sched, q))
  BY <1>0, ListContexts DEF SameContext, HasContext
<1>6. ASSUME NEW t \in Threads, DoSend(t) \/ DoRecv(t) \/ CallFails(t) PROVE CallsOK'
  BY <1>0, <1>4, <1>5, <1>6 DEF DoSend, DoRecv, CallFails
<1>7. ASSUME NEW t \in Threads, DrainOne(t) PROVE CallsOK'
  <2>1. (\E q : sched' = WakeOne(sched, q)) \/ sched' = sched
    BY <1>7 DEF DrainOne
  <2> QED BY <1>0, <1>1, <1>5, <1>7, <2>1 DEF DrainOne
<1>8. ASSUME NEW S, SameContext(sched, S), HasContext(S), sched' = CheckRunningQueue(S)
      PROVE  SameContext(sched, sched')
  <2>1. SameContext(S, sched')
    BY <1>8, ListContexts
  <2> QED BY <1>8, <2>1 DEF SameContext
<1>9. ASSUME NEW t \in Threads, AfterWait(t), UNCHANGED call, SameContext(sched, sched'),
             Waiting(t)
      PROVE  CallsOK'
  <2>1. PICK place \in {"pause", "yield", "yield_1ms"} : At(t, place)
    BY <1>9 DEF Waiting
  <2>2. call[t] = NoCall
    BY <2>1, HolderCalls
  <2>3. pc'[t] \in {"pause", "game"} /\ \A u \in Threads \ {t} : pc'[u] = pc[u]
    BY <1>0, <1>9 DEF AfterWait
  <2> QED BY <1>9, <2>2, <2>3, CallsKept
<1>10. ASSUME NEW t \in Threads, WaitForExternalMessage(t) PROVE CallsOK'
  <2>1. (\E q : sched' = CheckRunningQueue(WakeOne(sched, q))) \/ sched' = CheckRunningQueue(sched)
    BY <1>10 DEF WaitForExternalMessage
  <2>2. SameContext(sched, sched')
    BY <1>0, <1>5, <1>8, <2>1
  <2> QED BY <1>9, <1>10, <2>2 DEF WaitForExternalMessage
<1>11. ASSUME NEW t \in Threads, WaitTimesOut(t) PROVE CallsOK'
  <2>1. SameContext(sched, sched')
    BY <1>0, <1>8, <1>11 DEF WaitTimesOut
  <2> QED BY <1>9, <1>11, <2>1 DEF WaitTimesOut, Waiting
<1>12. ASSUME NEW t \in Threads, BlockOnSend(t) \/ BlockOnRecv(t) PROVE CallsOK'
  <2>1. PICK q : sched' = BlockOn(sched, q)
    BY <1>12 DEF BlockOnSend, BlockOnRecv
  <2> DEFINE I == ThreadQueueInsert(sched, q, sched.running)
  <2>2. SameContext(sched, I) /\ HasContext(I)
    BY <1>0, ListContexts DEF SameContext, HasContext
  <2>3. sched' = RunNextThread(I)
    BY <2>1 DEF BlockOn
  <2> HIDE DEF I
  <2>4. SameContext(I, sched')
    BY <2>2, <2>3, ListContexts
  <2> QED BY <1>1, <1>12, <2>2, <2>4 DEF SameContext, BlockOnSend, BlockOnRecv
<1>13. ASSUME NEW t \in Threads,
              \/ \E q \in MQs : PiMessage(t, q)
              \/ \E q \in MQs, count \in Capacities : OsCreateMesgQueue(t, q, count)
       PROVE  CallsOK'
  <2>1. ASSUME NEW q, NEW count, OsCreateMesgQueue(t, q, count) PROVE SameContext(sched, sched')
    BY <1>0, <2>1 DEF OsCreateMesgQueue, SameContext, HasContext
  <2> QED BY <1>0, <1>1, <1>13, <2>1 DEF PiMessage, OsCreateMesgQueue
<1>14. ASSUME NEW t \in Threads, NEW place \in {"pause", "yield", "yield_1ms"}, BeginWait(t, place)
       PROVE  CallsOK'
  <2>1. call[t] = NoCall
    BY <1>14, HolderCalls DEF BeginWait
  <2>2. pc'[t] = place /\ \A u \in Threads \ {t} : pc'[u] = pc[u]
    BY <1>0, <1>14 DEF BeginWait
  <2> QED BY <1>0, <1>14, <2>1, <2>2, CallsKept DEF BeginWait
\* Threads begin and end.
<1>15. ASSUME NEW u \in Threads, NEW ctx \in [Threads -> BOOLEAN],
              sched'.context = ctx, \A w \in Threads \ {u} : ctx[w] = sched.context[w],
              \A w \in Threads \ {u} : pc'[w] = pc[w] /\ call'[w] = call[w],
              pc'[u] \notin {"drain", "op"}, call'[u] = NoCall \/ (u \in Victims /\ pc'[u] = "none")
       PROVE  CallsOK'
  BY <1>15 DEF CallsOK, InCall
<1>16. ASSUME NEW self \in Threads, NEW t \in Threads, NEW pri, OsCreateThread(self, t, pri)
       PROVE  CallsOK'
  <2>1. sched'.context = [sched.context EXCEPT ![t] = TRUE]
    BY <1>0, <1>16 DEF OsCreateThread, HasContext
  <2> QED BY <1>0, <1>15, <1>16, <2>1 DEF OsCreateThread
<1>17. ASSUME NEW self \in Threads, NEW t \in Threads, OsStartThread(self, t) PROVE CallsOK'
  <2> DEFINE S == ScheduleRunningThread(sched, t)
  <2>1. SameContext(sched, S) /\ HasContext(S)
    BY <1>0, ListContexts DEF SameContext, HasContext
  <2>2. sched' = CheckRunningQueue(S)
    BY <1>17 DEF OsStartThread
  <2> HIDE DEF S
  <2> QED BY <1>1, <1>8, <1>17, <2>1, <2>2 DEF OsStartThread
<1>18. ASSUME NEW self \in Threads, OsStopThread(self) PROVE CallsOK'
  BY <1>0, <1>1, <1>18, ListContexts DEF OsStopThread
<1>19. ASSUME NEW self \in Threads, ThreadExit(self) PROVE CallsOK'
  <2>1. call[self] = NoCall
    BY <1>19, HolderCalls DEF ThreadExit
  <2> DEFINE S == [sched EXCEPT !.context[self] = FALSE]
  <2>2. S.context = [sched.context EXCEPT ![self] = FALSE] /\ HasContext(S)
    BY <1>0 DEF HasContext
  <2>3. sched' = RunNextThread(S)
    BY <1>19 DEF ThreadExit
  <2> HIDE DEF S
  <2>4. sched'.context = [sched.context EXCEPT ![self] = FALSE]
    BY <2>2, <2>3, ListContexts DEF SameContext
  <2> QED BY <1>0, <1>15, <1>19, <2>1, <2>4 DEF ThreadExit
<1>20. ASSUME NEW self \in Threads, NEW t \in Threads, OsDestroyThread(self, t) PROVE CallsOK'
  <2>1. PICK S \in IF sched.state[t] # "STOPPED"
                   THEN ThreadQueueRemove(sched, sched.queue[t], t) ELSE {sched} :
          IF S.halt = "none"
          THEN sched' = [S EXCEPT !.context[t] = FALSE] /\ pc' = [pc EXCEPT ![t] = "none"]
          ELSE sched' = S /\ UNCHANGED pc
    BY <1>20 DEF OsDestroyThread
  <2>2. SameContext(sched, S) /\ HasContext(S) /\ t \in Victims /\ UNCHANGED call
    BY <1>0, <1>20, RemoveContext DEF OsDestroyThread
  <2>3. CASE S.halt # "none"
    BY <1>1, <2>1, <2>2, <2>3
  <2>4. CASE S.halt = "none"
    <3>1. sched'.context = [sched.context EXCEPT ![t] = FALSE]
      BY <2>1, <2>2, <2>4 DEF SameContext, HasContext
    <3> QED BY <1>0, <1>15, <2>1, <2>2, <2>4, <3>1
  <2> QED BY <2>3, <2>4
<1>21. ASSUME NEW self \in Threads, NEW t \in Threads, NEW pri, OsSetThreadPri(self, t, pri)
       PROVE  CallsOK'
  <2>1. PICK S : /\ S = [sched EXCEPT !.priority[t] = pri]
                 /\ sched' \in Reposition(S, t) \cup {CheckRunningQueue(S)}
    BY <1>21 DEF OsSetThreadPri
  <2>2. SameContext(sched, S) /\ HasContext(S)
    BY <1>0, <2>1 DEF SameContext, HasContext
  <2>3. ASSUME NEW R \in ThreadQueueRemove(S, S.queue[t], t),
               sched' = IF R.halt # "none" THEN R
                        ELSE IF R.queue[t] = Null THEN [R EXCEPT !.halt = "fault"]
                        ELSE CheckRunningQueue(ThreadQueueInsert(R, R.queue[t], t))
        PROVE  SameContext(sched, sched')
    <3>1. SameContext(sched, R) /\ HasContext(R)
      BY <2>2, RemoveContext DEF SameContext
    <3>2. SameContext(sched, [R EXCEPT !.halt = "fault"])
      BY <3>1 DEF SameContext, HasContext
    <3> DEFINE I == ThreadQueueInsert(R, R.queue[t], t)
    <3>3. SameContext(sched, I) /\ HasContext(I)
      BY <3>1, ListContexts DEF SameContext, HasContext
    <3> HIDE DEF I
    <3>4. sched' = CheckRunningQueue(I) => SameContext(sched, sched')
      BY <1>8, <3>3
    <3> QED BY <2>3, <3>1, <3>2, <3>4 DEF I
  <2>4. SameContext(sched, sched')
    BY <1>8, <2>1, <2>2, <2>3 DEF Reposition
  <2> QED BY <1>1, <1>21, <2>4 DEF OsSetThreadPri
<1>22. ASSUME NEW pri, BootIdle(pri) PROVE CallsOK'
  <2>1. pc[Idle] \in {"none", "game", "pause"} /\ Idle \notin Victims
    BY ThreadsAssumption DEF SchedInv
  <2>2. call[Idle] = NoCall
    BY <1>0, <2>1 DEF CallsOK, InCall
  <2>3. sched'.context = [sched.context EXCEPT ![Idle] = TRUE]
    BY <1>0, <1>22 DEF BootIdle, HasContext
  <2> QED BY <1>0, <1>15, <1>22, <2>2, <2>3 DEF BootIdle
<1>23. ASSUME NEW t \in Threads, ThreadStep(t) PROVE CallsOK'
  BY <1>2, <1>3, <1>6, <1>7, <1>10, <1>11, <1>12, <1>13, <1>14, <1>16, <1>17, <1>18, <1>19,
     <1>20, <1>21, <1>23 DEF ThreadStep, OsSendMesg, OsJamMesg, OsRecvMesg
<1>24. ASSUME UNCHANGED << sched, pc, call >> PROVE CallsOK'
  BY <1>24 DEF CallsOK, InCall
<1> QED BY <1>22, <1>23, <1>24 DEF Next, vars, EventMessage, HostMessage

\* What a step does to the messages under way.
Post(m) == [mq |-> m.mq, msg |-> m.msg, jam |-> m.jam]

LEMMA PostType ==
  ASSUME NEW m \in ExternalMessage
  PROVE  Post(m) \in Fifo!Posts
BY DEF Post, ExternalMessage, Fifo!Posts

LEMMA PostsAppend ==
  ASSUME NEW s \in Seq(ExternalMessage), NEW m \in ExternalMessage
  PROVE  PostsIn(Append(s, m)) = PostsIn(s) \cup {Post(m)}
<1> DEFINE a == Append(s, m)
<1>1. /\ Len(a) = Len(s) + 1 /\ a[Len(s) + 1] = m /\ Len(s) \in Nat
      /\ \A i \in 1..Len(s) : a[i] = s[i]
  BY AppendProperties
<1> HIDE DEF a
<1>2. PostsIn(s) \cup {Post(m)} \subseteq PostsIn(a)
  <2>1. Post(m) = [mq |-> a[Len(s) + 1].mq, msg |-> a[Len(s) + 1].msg, jam |-> a[Len(s) + 1].jam]
    BY <1>1 DEF Post
  <2>2. Len(s) + 1 \in 1..Len(a)
    BY <1>1
  <2>3. Post(m) \in PostsIn(a)
    BY <2>1, <2>2 DEF PostsIn
  <2>4. \A i \in 1..Len(s) : i \in 1..Len(a)
    BY <1>1
  <2>5. PostsIn(s) \subseteq PostsIn(a)
    BY <1>1, <2>4 DEF PostsIn
  <2> QED BY <2>3, <2>5
<1>3. ASSUME NEW i \in 1..Len(a)
      PROVE  [mq |-> a[i].mq, msg |-> a[i].msg, jam |-> a[i].jam] \in PostsIn(s) \cup {Post(m)}
  <2>1. i \in 1..Len(s) \/ i = Len(s) + 1
    BY <1>1
  <2> QED BY <1>1, <2>1 DEF PostsIn, Post
<1>4. PostsIn(a) \subseteq PostsIn(s) \cup {Post(m)}
  BY <1>3 DEF PostsIn
<1>5. PostsIn(a) = PostsIn(s) \cup {Post(m)}
  BY <1>2, <1>4
<1> QED BY <1>5 DEF a

LEMMA PostsWithout ==
  ASSUME external \in Seq(ExternalMessage), NEW i \in 1..Len(external)
  PROVE  /\ PostsIn(external) = PostsIn(Without(i)) \cup {Post(external[i])}
         /\ Without(i) \in Seq(ExternalMessage)
<1> DEFINE w == Without(i)
<1>1. /\ w \in Seq(ExternalMessage) /\ Len(w) = Len(external) - 1
      /\ \A j \in 1..(i - 1) : w[j] = external[j]
      /\ \A j \in (i + 1)..Len(external) : w[j - 1] = external[j]
  BY WithoutEntries
<1> HIDE DEF w
<1> DEFINE At2(s, j) == [mq |-> s[j].mq, msg |-> s[j].msg, jam |-> s[j].jam]
<1>2. ASSUME NEW j \in 1..Len(external) PROVE At2(external, j) \in PostsIn(w) \cup {Post(external[i])}
  <2>1. CASE j < i
    <3>1. j \in 1..(i - 1) /\ j \in 1..Len(w)
      BY <1>1, <2>1
    <3> QED BY <1>1, <3>1 DEF PostsIn
  <2>2. CASE j = i
    BY <2>2 DEF Post
  <2>3. CASE j > i
    <3>1. j \in (i + 1)..Len(external) /\ j - 1 \in 1..Len(w)
      BY <1>1, <2>3
    <3>2. At2(external, j) = At2(w, j - 1)
      BY <1>1, <3>1
    <3> QED BY <3>1, <3>2 DEF PostsIn
  <2> QED BY <2>1, <2>2, <2>3
<1>3. ASSUME NEW j \in 1..Len(w) PROVE At2(w, j) \in PostsIn(external)
  <2>1. CASE j < i
    <3>1. j \in 1..(i - 1) /\ j \in 1..Len(external)
      BY <1>1, <2>1
    <3> QED BY <1>1, <3>1 DEF PostsIn
  <2>2. CASE ~(j < i)
    <3>1. j + 1 \in (i + 1)..Len(external) /\ j + 1 \in 1..Len(external) /\ (j + 1) - 1 = j
      BY <1>1, <2>2
    <3>2. w[j] = external[j + 1]
      BY <1>1, <3>1
    <3> QED BY <3>1, <3>2 DEF PostsIn
  <2> QED BY <2>1, <2>2
<1>4. At2(external, i) = Post(external[i])
  BY DEF Post
<1>5. /\ PostsIn(external) = {At2(external, j) : j \in 1..Len(external)}
      /\ PostsIn(w) = {At2(w, j) : j \in 1..Len(w)}
  BY DEF PostsIn
<1> HIDE DEF At2
<1>6. PostsIn(external) = PostsIn(w) \cup {Post(external[i])}
  BY <1>2, <1>3, <1>4, <1>5
<1> QED BY <1>1, <1>6 DEF w

LEMMA PostsRelabelled ==
  ASSUME NEW s \in Seq(ExternalMessage), NEW t \in Threads
  PROVE  PostsIn([i \in 1..Len(s) |-> [s[i] EXCEPT !.src = t]]) = PostsIn(s)
<1> DEFINE r == [i \in 1..Len(s) |-> [s[i] EXCEPT !.src = t]]
<1>1. Len(r) = Len(s)
  OBVIOUS
<1>2. ASSUME NEW i \in 1..Len(s)
      PROVE  r[i].mq = s[i].mq /\ r[i].msg = s[i].msg /\ r[i].jam = s[i].jam
  <2>1. s[i] \in ExternalMessage
    OBVIOUS
  <2>2. [s[i] EXCEPT !.src = t].mq = s[i].mq /\ [s[i] EXCEPT !.src = t].msg = s[i].msg
        /\ [s[i] EXCEPT !.src = t].jam = s[i].jam
    BY <2>1 DEF ExternalMessage
  <2> QED BY <2>2
<1> HIDE DEF r
<1>3. PostsIn(r) = PostsIn(s)
  BY <1>1, <1>2 DEF PostsIn
<1> QED BY <1>3 DEF r

\* The rings as the abstract queues see them.
LEMMA RingMaps ==
  ASSUME ring \in Rings, NEW q \in MQs
  PROVE  /\ Fifo!HasRoom(q) <=> ~MQ_IS_FULL(ring[q])
         /\ ring[q] \in RingType => (Contents(ring[q]) = << >> <=> MQ_IS_EMPTY(ring[q]))
<1>1. ring[q] \in RingType \/ ring[q] = NoRing
  BY DEF Rings
<1>2. CASE ring[q] \in RingType
  <2>1. /\ Contents(ring[q]) \in Seq(Words) /\ Len(Contents(ring[q])) = ring[q].validCount
        /\ ring[q].validCount \in Nat /\ ring[q].msgCount \in Nat
    BY <1>2, ContentsAre, RingFields
  <2>2. Fifo!HasRoom(q) <=> ring[q].validCount < ring[q].msgCount
    BY <2>1 DEF Fifo!HasRoom
  <2>3. Contents(ring[q]) = << >> <=> Len(Contents(ring[q])) = 0
    BY <2>1
  <2> QED BY <2>1, <2>2, <2>3 DEF MQ_IS_FULL, MQ_IS_EMPTY
<1>3. CASE ring[q] = NoRing
  <2>1. Contents(ring[q]) = << >> /\ ring[q].msgCount = 0 /\ ring[q].validCount = 0
    BY <1>3, NoContents DEF NoRing
  <2>2. ~Fifo!HasRoom(q)
    BY <2>1 DEF Fifo!HasRoom
  <2>3. MQ_IS_FULL(ring[q])
    BY <2>1 DEF MQ_IS_FULL
  <2>4. ring[q] \notin RingType
    BY <2>1, RingFields
  <2> QED BY <2>2, <2>3, <2>4
<1> QED BY <1>1, <1>2, <1>3

LEMMA RingStays ==
  ASSUME UNCHANGED ring
  PROVE  UNCHANGED << [q \in MQs |-> ring[q].msgCount], [q \in MQs |-> Contents(ring[q])] >>
  OBVIOUS

PutIn(q, m, jam) == /\ ~MQ_IS_FULL(ring[q])
                    /\ ring' = [ring EXCEPT ![q] = Put(@, m, jam)]
                    /\ mesg' = mesg
TakenFrom(q) == /\ ~MQ_IS_EMPTY(ring[q])
                /\ ring' = [ring EXCEPT ![q] = TakeHead(@)]
                /\ mesg' \in {mesg, Front(ring[q])}
MadeOf(q, n) == ~Created(q) /\ ring' = [ring EXCEPT ![q] = CreateRing(n, Null)]

LEMMA EnterMaps ==
  ASSUME ring \in Rings, NEW q \in MQs, NEW m \in Msgs, NEW jam \in BOOLEAN, PutIn(q, m, jam)
  PROVE  Fifo!Enter(q, m, jam)
<1>1. ~MQ_IS_FULL(ring[q]) /\ mesg' = mesg
  BY DEF PutIn
<1>2. ring[q] \in RingType /\ m \in Words
  BY <1>1, FullOrEmpty DEF Rings, Words
<1>3. /\ ring'[q] = Put(ring[q], m, jam)
      /\ \A p \in MQs \ {q} : ring'[p] = ring[p]
  BY DEF Rings, PutIn
<1>4. Fifo!HasRoom(q)
  BY <1>1, RingMaps
<1>5. ring'[q].msgCount = ring[q].msgCount
  <2>1. PutTail(ring[q], m).msgCount = ring[q].msgCount
    BY <1>1, <1>2, PutTailFields
  <2>2. PutHead(ring[q], m).msgCount = ring[q].msgCount
    BY <1>1, <1>2, PutHeadFields
  <2> QED BY <1>3, <2>1, <2>2 DEF Put
<1> DEFINE cap == [p \in MQs |-> ring[p].msgCount]
           con == [p \in MQs |-> Contents(ring[p])]
<1>6. cap' = cap
  BY <1>3, <1>5
<1>7. Contents(ring'[q]) = IF jam THEN << m >> \o Contents(ring[q]) ELSE Append(Contents(ring[q]), m)
  BY <1>1, <1>2, <1>3, PutHeadPrepends, PutTailAppends DEF Put
<1>8. con' = [con EXCEPT ![q] = IF jam THEN << m >> \o @ ELSE Append(@, m)]
  <2>1. CASE jam
    <3>1. con' = [con EXCEPT ![q] = << m >> \o @]
      BY <1>3, <1>7, <2>1
    <3> QED BY <2>1, <3>1
  <2>2. CASE ~jam
    <3>1. con' = [con EXCEPT ![q] = Append(@, m)]
      BY <1>3, <1>7, <2>2
    <3> QED BY <2>2, <3>1
  <2> QED BY <2>1, <2>2
<1> QED BY <1>1, <1>4, <1>6, <1>8 DEF Fifo!Enter

LEMMA TakeMaps ==
  ASSUME ring \in Rings, NEW q \in MQs, TakenFrom(q)
  PROVE  /\ Contents(ring[q]) # << >>
         /\ mesg' \in {mesg, Contents(ring[q])[1]}
         /\ [p \in MQs |-> Contents(ring[p])]' = [[p \in MQs |-> Contents(ring[p])] EXCEPT ![q] = Tail(@)]
         /\ UNCHANGED [p \in MQs |-> ring[p].msgCount]
<1>1. ~MQ_IS_EMPTY(ring[q]) /\ mesg' \in {mesg, Front(ring[q])}
  BY DEF TakenFrom
<1>2. ring[q] \in RingType
  BY <1>1, FullOrEmpty DEF Rings
<1>3. /\ ring'[q] = TakeHead(ring[q])
      /\ \A p \in MQs \ {q} : ring'[p] = ring[p]
  BY DEF Rings, TakenFrom
<1>4. /\ Contents(ring[q]) # << >>
      /\ Front(ring[q]) = Contents(ring[q])[1]
      /\ Contents(ring'[q]) = Tail(Contents(ring[q]))
  BY <1>1, <1>2, <1>3, TakeHeadTakes
<1>5. ring'[q].msgCount = ring[q].msgCount
  <2>1. DOMAIN ring[q] = {"msgCount", "first", "validCount", "msg"}
    BY <1>2 DEF RingType
  <2> QED BY <1>3, <2>1 DEF TakeHead
<1>6. [p \in MQs |-> Contents(ring[p])]' = [[p \in MQs |-> Contents(ring[p])] EXCEPT ![q] = Tail(@)]
  BY <1>3, <1>4
<1>7. UNCHANGED [p \in MQs |-> ring[p].msgCount]
  BY <1>3, <1>5
<1> QED BY <1>1, <1>4, <1>6, <1>7

LEMMA CreateMaps ==
  ASSUME ring \in Rings, NEW q \in MQs, NEW n \in Capacities, MadeOf(q, n),
         UNCHANGED << mesg, call, Posted >>
  PROVE  Fifo!Create(q)
<1>2. ring[q] = NoRing
  BY RingFields DEF Rings, Created, MadeOf
<1>3. /\ ring'[q] = CreateRing(n, Null)
      /\ \A p \in MQs \ {q} : ring'[p] = ring[p]
  BY DEF Rings, MadeOf
<1>4. Contents(ring[q]) = << >> /\ Contents(ring'[q]) = << >>
  BY <1>2, <1>3, NoContents, CreateType DEF CreateRing
<1>5. ring[q].msgCount = 0 /\ ring'[q].msgCount = n
  BY <1>2, <1>3 DEF NoRing, CreateRing
<1> DEFINE cap == [p \in MQs |-> ring[p].msgCount]
           con == [p \in MQs |-> Contents(ring[p])]
<1>6. cap' = [cap EXCEPT ![q] = n] /\ cap[q] = 0
  BY <1>3, <1>5
<1>7. con' = con
  BY <1>3, <1>4
<1> QED BY <1>6, <1>7 DEF Fifo!Create

\* The calls.
LEMMA AskMaps ==
  ASSUME SchedInv, CallsOK, NEW t \in Threads, NEW c \in Calls, BeginCall(t, c)
  PROVE  Fifo!Ask(t)
<1>1. call[t] = NoCall
  BY HolderCalls DEF BeginCall
<1>2. c \in Fifo!Requests
  BY DEF Calls, Fifo!Requests
<1>3. UNCHANGED << ring, mesg, Posted >> /\ call' = [call EXCEPT ![t] = c]
  BY DEF BeginCall, Posted
<1> QED BY <1>1, <1>2, <1>3, RingStays DEF Fifo!Ask, NoCall, Fifo!NoRequest

\* A thread in do_send or do_recv.
LEMMA CallerAt ==
  ASSUME SchedInv, SendsOK, NEW t \in Threads, NEW op \in {"send", "recv"}, AtOp(t, op)
  PROVE  /\ call[t] \in Calls /\ call[t].op = op /\ call[t].mq \in MQs /\ call[t].jam \in BOOLEAN
         /\ op = "send" => call[t].msg \in Msgs
         /\ ring \in Rings
<1>1. call \in [Threads -> Calls \cup {NoCall}] /\ ring \in Rings
  BY DEF SchedInv, TypeOK, Rings
<1>2. call[t] \in Calls /\ call[t].op = op
  BY <1>1 DEF AtOp, NoCall
<1> QED BY <1>1, <1>2 DEF Calls, SendsOK

LEMMA SendMaps ==
  ASSUME SchedInv, SendsOK, NEW t \in Threads, DoSend(t)
  PROVE  Fifo!Send(t)
<1>1. /\ call[t].op = "send" /\ call[t].mq \in MQs /\ call[t].jam \in BOOLEAN
      /\ call[t].msg \in Msgs /\ ring \in Rings
  BY CallerAt DEF DoSend
<1>2. Fifo!Enter(call[t].mq, call[t].msg, call[t].jam)
  BY <1>1, EnterMaps DEF DoSend, PutIn
<1>3. call' = [call EXCEPT ![t] = NoCall] /\ UNCHANGED Posted
  BY DEF DoSend, Return, Posted
<1> QED BY <1>1, <1>2, <1>3 DEF Fifo!Send, Fifo!Answered, NoCall, Fifo!NoRequest

LEMMA ReceiveMaps ==
  ASSUME SchedInv, SendsOK, NEW t \in Threads, DoRecv(t)
  PROVE  Fifo!Receive(t)
<1>1. call[t].op = "recv" /\ call[t].mq \in MQs /\ ring \in Rings
  BY CallerAt DEF DoRecv
<1> DEFINE q == call[t].mq
<1>2. /\ Contents(ring[q]) # << >>
      /\ mesg' \in {mesg, Contents(ring[q])[1]}
      /\ [p \in MQs |-> Contents(ring[p])]' = [[p \in MQs |-> Contents(ring[p])] EXCEPT ![q] = Tail(@)]
      /\ UNCHANGED [p \in MQs |-> ring[p].msgCount]
  BY <1>1, TakeMaps DEF DoRecv, TakenFrom
<1>3. call' = [call EXCEPT ![t] = NoCall] /\ UNCHANGED Posted
  BY DEF DoRecv, Return, Posted
<1> QED BY <1>1, <1>2, <1>3 DEF Fifo!Receive, Fifo!Answered, NoCall, Fifo!NoRequest

LEMMA RefuseMaps ==
  ASSUME SchedInv, SendsOK, NEW t \in Threads, CallFails(t)
  PROVE  Fifo!Refuse(t)
<1>1. call' = [call EXCEPT ![t] = NoCall] /\ UNCHANGED << ring, mesg, Posted >> /\ ~call[t].block
  BY DEF CallFails, Return, Posted
<1>2. CASE call[t].op = "send"
  <2>1. call[t].mq \in MQs /\ ring \in Rings
    BY <1>2, CallerAt DEF CallFails, AtOp
  <2>2. ~Fifo!HasRoom(call[t].mq)
    BY <1>2, <2>1, RingMaps DEF CallFails
  <2> QED BY <1>1, <1>2, <2>2, RingStays DEF Fifo!Refuse, Fifo!Answered, NoCall, Fifo!NoRequest
<1>3. CASE call[t].op = "recv"
  <2>1. call[t].mq \in MQs /\ ring \in Rings /\ MQ_IS_EMPTY(ring[call[t].mq])
    BY <1>3, CallerAt DEF CallFails, AtOp
  <2>2. Contents(ring[call[t].mq]) = << >>
    BY <2>1, RingMaps, NoContents DEF Rings
  <2> QED BY <1>1, <1>3, <2>1, <2>2, RingStays DEF Fifo!Refuse, Fifo!Answered, NoCall, Fifo!NoRequest
<1> QED BY <1>2, <1>3 DEF CallFails

LEMMA AbandonMaps ==
  ASSUME SchedInv, CallsOK, NEW self \in Threads, NEW t \in Threads, NEW pri, OsCreateThread(self, t, pri)
  PROVE  Fifo!Abandon(t) \/ UNCHANGED Fifo!fifoVars
<1>1. call' = [call EXCEPT ![t] = NoCall] /\ UNCHANGED << ring, mesg, Posted >> /\ ~sched.context[t]
  BY DEF OsCreateThread, Posted
<1>2. CASE call[t] = NoCall
  <2>1. call' = call
    BY <1>1, <1>2 DEF SchedInv, TypeOK
  <2> QED BY <1>1, <2>1, RingStays DEF Fifo!fifoVars
<1>3. CASE call[t] # NoCall
  <2>1. t \in Victims
    BY <1>1, <1>3 DEF CallsOK, InCall
  <2> QED BY <1>1, <2>1, RingStays DEF Fifo!Abandon, Fifo!Answered, NoCall, Fifo!NoRequest
<1> QED BY <1>2, <1>3

\* The host's messages.
LEMMA PostMaps ==
  ASSUME SchedInv, NEW m \in ExternalMessage, external' = Append(external, m),
         UNCHANGED << ring, call, requeued, mesg >>
  PROVE  Fifo!Post(Post(m)) /\ Post(m) \in Fifo!Posts
<1>1. Posted' = Posted \cup {Post(m)}
  BY PostsAppend DEF SchedInv, TypeOK, Posted
<1> QED BY <1>1, PostType, RingStays DEF Fifo!Post

\* What is taken out of external_messages may have been posted twice.
LEMMA GoneMaps ==
  ASSUME SchedInv, NEW i \in 1..Len(external), external' = Without(i),
         UNCHANGED << call, requeued >>
  PROVE  Fifo!Gone(Post(external[i]))
<1> DEFINE p == Post(external[i])
<1>1. PostsIn(external) = PostsIn(Without(i)) \cup {p}
  BY PostsWithout DEF SchedInv, TypeOK
<1>2. Posted = PostsIn(external) \cup PostsIn(requeued)
      /\ Posted' = PostsIn(Without(i)) \cup PostsIn(requeued)
  BY DEF Posted
<1> HIDE DEF p
<1>3. p \in Posted /\ Posted' \in {Posted, Posted \ {p}}
  BY <1>1, <1>2
<1> QED BY <1>3 DEF Fifo!Gone, p

LEMMA DeliverMaps ==
  ASSUME SchedInv, NEW i \in 1..Len(external), external' = Without(i),
         DeliverExternal(external[i]), UNCHANGED << call, requeued, mesg >>
  PROVE  Fifo!Deliver(Post(external[i]))
<1> DEFINE m == external[i]
           p == Post(m)
<1>1. m \in ExternalMessage /\ ring \in Rings
  BY DEF SchedInv, TypeOK, Rings
<1>2. /\ p.mq = m.mq /\ p.msg = m.msg /\ p.jam = m.jam
      /\ m.mq \in MQs /\ m.msg \in Msgs /\ m.jam \in BOOLEAN
  BY <1>1 DEF Post, ExternalMessage
<1>3. Fifo!Enter(m.mq, m.msg, m.jam)
  BY <1>1, <1>2, EnterMaps DEF DeliverExternal, PutIn
<1>4. Fifo!Gone(p)
  BY GoneMaps
<1> HIDE DEF m, p
<1>5. Fifo!Deliver(p)
  BY <1>2, <1>3, <1>4 DEF Fifo!Deliver
<1> QED BY <1>5 DEF p, m

LEMMA DropMaps ==
  ASSUME SchedInv, NEW i \in 1..Len(external), external' = Without(i),
         MQ_IS_FULL(ring[external[i].mq]), UNCHANGED << ring, call, requeued, mesg >>
  PROVE  Fifo!Drop(Post(external[i]))
<1>1. external[i] \in ExternalMessage /\ ring \in Rings
  BY DEF SchedInv, TypeOK, Rings
<1>2. Post(external[i]).mq = external[i].mq /\ external[i].mq \in MQs
  BY <1>1 DEF Post, ExternalMessage
<1>3. ~Fifo!HasRoom(external[i].mq)
  BY <1>1, <1>2, RingMaps
<1>4. Fifo!Gone(Post(external[i]))
  BY GoneMaps
<1> QED BY <1>2, <1>3, <1>4, RingStays DEF Fifo!Drop

\* A message that finds its queue full and is kept is still under way.
LEMMA AsideMaps ==
  ASSUME SchedInv, NEW i \in 1..Len(external), NEW t \in Threads,
         UNCHANGED << ring, call, mesg >>,
         \/ external' = Without(i) /\ requeued' = Append(requeued, external[i])
         \/ external' = Append(Without(i), [external[i] EXCEPT !.src = t]) /\ requeued' = requeued
  PROVE  UNCHANGED Fifo!fifoVars
<1> DEFINE m == external[i]
           e == [m EXCEPT !.src = t]
<1>1. m \in ExternalMessage /\ external \in Seq(ExternalMessage) /\ requeued \in Seq(ExternalMessage)
  BY DEF SchedInv, TypeOK
<1>2. PostsIn(external) = PostsIn(Without(i)) \cup {Post(m)} /\ Without(i) \in Seq(ExternalMessage)
  BY <1>1, PostsWithout
<1>3. e \in ExternalMessage
  BY <1>1, Relabelled
<1>4. Post(e) = Post(m)
  BY <1>1 DEF Post, ExternalMessage
<1>5. PostsIn(Append(requeued, m)) = PostsIn(requeued) \cup {Post(m)}
  BY <1>1, PostsAppend
<1> HIDE DEF e, m
<1>6. PostsIn(Append(Without(i), e)) = PostsIn(Without(i)) \cup {Post(m)}
  BY <1>2, <1>3, <1>4, PostsAppend
<1>7. \/ external' = Without(i) /\ requeued' = Append(requeued, m)
      \/ external' = Append(Without(i), e) /\ requeued' = requeued
  BY DEF e, m
<1>8. Posted' = Posted
  BY <1>2, <1>5, <1>6, <1>7 DEF Posted
<1> QED BY <1>8, RingStays DEF Fifo!fifoVars

LEMMA DrainDoneMaps ==
  ASSUME SchedInv, NEW t \in Threads, DrainDone(t)
  PROVE  UNCHANGED Fifo!fifoVars
<1>1. requeued \in Seq(ExternalMessage) /\ external = << >> /\ requeued' = << >>
  BY DEF SchedInv, TypeOK, DrainDone
<1>2. PostsIn(external') = PostsIn(requeued)
  BY <1>1, PostsRelabelled DEF DrainDone
<1>3. PostsIn(external) = {} /\ PostsIn(requeued') = {}
  BY <1>1 DEF PostsIn
<1>4. Posted' = Posted
  BY <1>2, <1>3 DEF Posted
<1> QED BY <1>4, RingStays DEF DrainDone, Fifo!fifoVars

LEMMA ExternalMaps ==
  ASSUME SchedInv, NEW t \in Threads, DrainOne(t) \/ WaitForExternalMessage(t)
  PROVE  Fifo!Next \/ UNCHANGED Fifo!fifoVars
<1>1. PICK i \in 1..Len(external) :
        LET m == external[i] IN
          \/ external' = Without(i) /\ DeliverExternal(m) /\ UNCHANGED requeued
          \/ /\ MQ_IS_FULL(ring[m.mq]) /\ UNCHANGED ring
             /\ \/ external' = Without(i) /\ UNCHANGED requeued
                \/ external' = Without(i) /\ requeued' = Append(requeued, m)
                \/ external' = Append(Without(i), [m EXCEPT !.src = t]) /\ UNCHANGED requeued
  BY DEF DrainOne, WaitForExternalMessage
<1>2. UNCHANGED << call, mesg >>
  BY DEF DrainOne, WaitForExternalMessage
<1>3. Post(external[i]) \in Fifo!Posts
  BY PostType DEF SchedInv, TypeOK
<1>4. CASE external' = Without(i) /\ DeliverExternal(external[i]) /\ UNCHANGED requeued
  BY <1>2, <1>3, <1>4, DeliverMaps DEF Fifo!Next
<1>5. CASE /\ MQ_IS_FULL(ring[external[i].mq]) /\ UNCHANGED ring
           /\ external' = Without(i) /\ UNCHANGED requeued
  BY <1>2, <1>3, <1>5, DropMaps DEF Fifo!Next
<1>6. CASE /\ UNCHANGED ring
           /\ \/ external' = Without(i) /\ requeued' = Append(requeued, external[i])
              \/ external' = Append(Without(i), [external[i] EXCEPT !.src = t]) /\ UNCHANGED requeued
  BY <1>2, <1>6, AsideMaps
<1> QED BY <1>1, <1>4, <1>5, <1>6

\* A posted message has a type.
LEMMA PosterMaps ==
  ASSUME SchedInv,
         \/ \E s \in EventSources, q \in MQs : EventMessage(s, q)
         \/ \E h \in HostThreads, q \in MQs, jam \in BOOLEAN : HostMessage(h, q, jam)
         \/ \E t \in Threads, q \in MQs : PiMessage(t, q)
  PROVE  Fifo!Next
<1>1. ASSUME NEW m \in ExternalMessage, EnqueueExternal(m), UNCHANGED << ring, call, requeued, mesg >>
      PROVE  Fifo!Next
  <2>1. external' = Append(external, m)
    BY <1>1 DEF EnqueueExternal
  <2> QED BY <1>1, <2>1, PostMaps DEF Fifo!Next
<1>2. ASSUME NEW s \in EventSources, NEW q \in MQs, EventMessage(s, q) PROVE Fifo!Next
  <2> DEFINE m == [src |-> s, mq |-> q, msg |-> s, jam |-> FALSE, requeue |-> s \in RequeueSources]
  <2>1. (s \in RequeueSources) \in BOOLEAN /\ s \in Producers /\ s \in Msgs
    BY DEF Producers, Msgs
  <2>2. m \in ExternalMessage
    BY <2>1, Zenon DEF ExternalMessage
  <2>3. EnqueueExternal(m) /\ UNCHANGED << ring, call, requeued, mesg >>
    BY <1>2 DEF EventMessage
  <2> HIDE DEF m
  <2> QED BY <1>1, <2>2, <2>3
<1>3. ASSUME NEW h \in HostThreads, NEW q \in MQs, NEW jam \in BOOLEAN, HostMessage(h, q, jam)
      PROVE  Fifo!Next
  <2> DEFINE m == [src |-> h, mq |-> q, msg |-> h, jam |-> jam, requeue |-> FALSE]
  <2>1. m \in ExternalMessage
    BY DEF ExternalMessage, Producers, Msgs
  <2>2. EnqueueExternal(m) /\ UNCHANGED << ring, call, requeued, mesg >>
    BY <1>3 DEF HostMessage
  <2> HIDE DEF m
  <2> QED BY <1>1, <2>1, <2>2
<1>4. ASSUME NEW t \in Threads, NEW q \in MQs, PiMessage(t, q) PROVE Fifo!Next
  <2>1. PICK g \in GameMsgs :
          EnqueueExternal([src |-> t, mq |-> q, msg |-> g, jam |-> FALSE, requeue |-> FALSE])
    BY <1>4 DEF PiMessage
  <2> DEFINE m == [src |-> t, mq |-> q, msg |-> g, jam |-> FALSE, requeue |-> FALSE]
  <2>2. m \in ExternalMessage
    BY DEF ExternalMessage, Producers, Msgs
  <2>3. EnqueueExternal(m) /\ UNCHANGED << ring, call, requeued, mesg >>
    BY <1>4, <2>1 DEF PiMessage
  <2> HIDE DEF m
  <2> QED BY <1>1, <2>2, <2>3
<1> QED BY <1>2, <1>3, <1>4

LEMMA ThreadStepMaps ==
  ASSUME SchedInv, SendsOK, CallsOK, NEW t \in Threads, ThreadStep(t)
  PROVE  Fifo!Next \/ UNCHANGED Fifo!fifoVars
<1>1. ASSUME NEW q \in MQs, NEW m \in GameMsgs, NEW jam \in BOOLEAN, NEW block \in BOOLEAN
      PROVE  [op |-> "send", mq |-> q, msg |-> m, jam |-> jam, block |-> block] \in Calls
  BY DEF Calls, Msgs
<1>2. ASSUME NEW q \in MQs, NEW block \in BOOLEAN
      PROVE  [op |-> "recv", mq |-> q, msg |-> Null, jam |-> FALSE, block |-> block] \in Calls
  BY DEF Calls
<1>3. CASE \/ \E q \in MQs, m \in GameMsgs, block \in BOOLEAN :
                OsSendMesg(t, q, m, block) \/ OsJamMesg(t, q, m, block)
           \/ \E q \in MQs, block \in BOOLEAN : OsRecvMesg(t, q, block)
  <2>1. PICK c \in Calls : BeginCall(t, c)
    BY <1>1, <1>2, <1>3 DEF OsSendMesg, OsJamMesg, OsRecvMesg
  <2> QED BY <2>1, AskMaps DEF Fifo!Next
<1>4. CASE DrainOne(t) \/ WaitForExternalMessage(t)
  BY <1>4, ExternalMaps
<1>5. CASE DrainDone(t)
  BY <1>5, DrainDoneMaps
<1>6. CASE DoSend(t) \/ DoRecv(t) \/ CallFails(t)
  BY <1>6, SendMaps, ReceiveMaps, RefuseMaps DEF Fifo!Next
<1>7. CASE \E q \in MQs : PiMessage(t, q)
  BY <1>7, PosterMaps
<1>8. ASSUME NEW q \in MQs, NEW n \in Capacities, OsCreateMesgQueue(t, q, n) PROVE Fifo!Next
  <2>1. ring \in Rings /\ MadeOf(q, n) /\ UNCHANGED << mesg, call, Posted >>
    BY <1>8 DEF OsCreateMesgQueue, MadeOf, SchedInv, TypeOK, Rings, Posted
  <2> QED BY <2>1, CreateMaps DEF Fifo!Next
<1>9. ASSUME NEW u \in Threads, NEW pri \in Priorities, OsCreateThread(t, u, pri)
      PROVE  Fifo!Next \/ UNCHANGED Fifo!fifoVars
  BY <1>9, AbandonMaps DEF Fifo!Next
<1>10. CASE \/ BlockOnSend(t) \/ BlockOnRecv(t) \/ WaitTimesOut(t)
            \/ \E place \in {"pause", "yield", "yield_1ms"} : BeginWait(t, place)
            \/ \E u \in Threads, pri \in Priorities : OsSetThreadPri(t, u, pri)
            \/ \E u \in Threads : OsStartThread(t, u) \/ OsDestroyThread(t, u)
            \/ OsStopThread(t) \/ ThreadExit(t)
  <2>1. UNCHANGED << ring, mesg, call, external, requeued >>
    BY <1>10 DEF BlockOnSend, BlockOnRecv, WaitTimesOut, BeginWait, OsSetThreadPri,
       OsStartThread, OsDestroyThread, OsStopThread, ThreadExit
  <2> QED BY <2>1, RingStays DEF Fifo!fifoVars, Posted
<1> QED BY <1>3, <1>4, <1>5, <1>6, <1>7, <1>8, <1>9, <1>10 DEF ThreadStep

\* The rings, driven by all the threads and host threads, implement bounded
\* queues (do_send, do_recv): each call is carried out once, a send appends,
\* a jam prepends, a receive takes the first message and hands it to its
\* caller, and a call that does not block fails only if it must; for every
\* number of queues and every capacity.
THEOREM RingsAreQueues == Spec => ImplementsFifo
<1> DEFINE Inv == SchedInv /\ SendsOK /\ CallsOK
<1>1. Init => Inv
  <2>1. Init => SendsOK /\ CallsOK
    BY DEF Init, SendsOK, CallsOK, NoCall
  <2> QED BY <2>1, InitInv
<1>2. Inv /\ [Next]_vars => Inv'
  <2>1. SchedInv /\ [Next]_vars => SchedInv'
    BY BootIdleStep, EventMessageStep, HostMessageStep, ThreadStepInv, StutterInv DEF Next
  <2> QED BY <2>1, SendsStep, CallsStep
<1>3. Init => Fifo!Init
  <2> SUFFICES ASSUME Init PROVE Fifo!Init
    OBVIOUS
  <2>1. \A q \in MQs : ring[q] = NoRing
    BY DEF Init
  <2>2. \A q \in MQs : ring[q].msgCount = 0 /\ Contents(ring[q]) = << >>
    BY <2>1, NoContents DEF NoRing
  <2>3. Posted = {}
    BY DEF Init, Posted, PostsIn
  <2> QED BY <2>2, <2>3 DEF Init, Fifo!Init, NoCall, Fifo!NoRequest
<1>4. Inv /\ [Next]_vars => [Fifo!Next]_(Fifo!fifoVars)
  <2> SUFFICES ASSUME Inv, [Next]_vars PROVE Fifo!Next \/ UNCHANGED Fifo!fifoVars
    OBVIOUS
  <2>1. CASE UNCHANGED vars \/ \E pri \in Priorities : BootIdle(pri)
    <3>1. UNCHANGED << ring, mesg, call, external, requeued >>
      BY <2>1 DEF vars, BootIdle
    <3> QED BY <3>1, RingStays DEF Fifo!fifoVars, Posted
  <2> QED BY <2>1, ThreadStepMaps, PosterMaps DEF Next
<1> QED BY <1>1, <1>2, <1>3, <1>4, PTL DEF Spec, ImplementsFifo, Fifo!Spec
=============================================================================
