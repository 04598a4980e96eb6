-------------------------- MODULE BadgeCacheProofs --------------------------
(***************************************************************************)
(* The badge cache with any badges and limits: the limits are kept, a file *)
(* takes its way to the frontend once, and a stopped cache is empty.       *)
(***************************************************************************)
EXTENDS BadgeCache, SequenceTheorems, FiniteSetTheorems, TLAPS

-----------------------------------------------------------------------------
(* Sequences without repetition *)

\* Two that share nothing make one.
LEMMA ConcatOnce ==
  ASSUME NEW S, NEW s \in Seq(S), NEW t \in Seq(S)
  PROVE  /\ s \o t \in Seq(S)
         /\ ToSet(s \o t) = ToSet(s) \cup ToSet(t)
         /\ IsInjective(s) /\ IsInjective(t) /\ ToSet(s) \cap ToSet(t) = {} => IsInjective(s \o t)
<1> DEFINE m == Len(s)
           n == Len(t)
           c == s \o t
<1>1. /\ c \in Seq(S) /\ Len(c) = m + n /\ m \in Nat /\ n \in Nat
      /\ \A i \in 1..(m + n) : c[i] = IF i <= m THEN s[i] ELSE t[i - m]
      /\ DOMAIN c = 1..(m + n) /\ DOMAIN s = 1..m /\ DOMAIN t = 1..n
  BY ConcatProperties, LenProperties
<1> HIDE DEF c, m, n
<1>2. ToSet(c) = ToSet(s) \cup ToSet(t)
  <2>1. ASSUME NEW i \in 1..(m + n) PROVE c[i] \in ToSet(s) \cup ToSet(t)
    <3>1. CASE i <= m
      <4>1. i \in 1..m /\ c[i] = s[i]
        BY <1>1, <3>1
      <4> QED BY <1>1, <4>1 DEF ToSet
    <3>2. CASE ~(i <= m)
      <4>1. i - m \in 1..n
        BY <1>1, <3>2
      <4>2. c[i] = t[i - m]
        BY <1>1, <3>2
      <4> QED BY <1>1, <4>1, <4>2 DEF ToSet
    <3> QED BY <3>1, <3>2
  <2>2. ASSUME NEW i \in 1..m PROVE s[i] \in ToSet(c)
    <3>1. i \in 1..(m + n) /\ c[i] = s[i]
      BY <1>1
    <3> QED BY <1>1, <3>1 DEF ToSet
  <2>3. ASSUME NEW i \in 1..n PROVE t[i] \in ToSet(c)
    <3>1. m + i \in 1..(m + n) /\ ~(m + i <= m) /\ (m + i) - m = i
      BY <1>1
    <3>2. c[m + i] = t[i]
      BY <1>1, <3>1
    <3> QED BY <1>1, <3>1, <3>2 DEF ToSet
  <2>4. \A x \in ToSet(c) : \E i \in 1..(m + n) : x = c[i]
    BY <1>1 DEF ToSet
  <2>5. \A x \in ToSet(s) : \E i \in 1..m : x = s[i]
    BY <1>1 DEF ToSet
  <2>6. \A x \in ToSet(t) : \E i \in 1..n : x = t[i]
    BY <1>1 DEF ToSet
  <2> QED BY <2>1, <2>2, <2>3, <2>4, <2>5, <2>6
<1>3. ASSUME IsInjective(s), IsInjective(t), ToSet(s) \cap ToSet(t) = {}
      PROVE  IsInjective(c)
  <2> SUFFICES ASSUME NEW i \in 1..(m + n), NEW j \in 1..(m + n), c[i] = c[j]
               PROVE  i = j
    BY <1>1 DEF IsInjective
  <2>1. ASSUME NEW k \in 1..m, NEW l \in 1..n PROVE s[k] # t[l]
    BY <1>1, <1>3 DEF ToSet
  <2>2. CASE i <= m /\ j <= m
    BY <1>1, <1>3, <2>2 DEF IsInjective
  <2>3. CASE i > m /\ j > m
    <3>1. i - m \in 1..n /\ j - m \in 1..n /\ t[i - m] = t[j - m]
      BY <1>1, <2>3
    <3>2. i - m = j - m
      BY <1>1, <1>3, <3>1 DEF IsInjective
    <3> QED BY <1>1, <3>2
  <2>4. CASE i <= m /\ j > m
    <3>1. i \in 1..m /\ j - m \in 1..n /\ s[i] = t[j - m]
      BY <1>1, <2>4
    <3> QED BY <2>1, <3>1
  <2>5. CASE i > m /\ j <= m
    <3>1. j \in 1..m /\ i - m \in 1..n /\ s[j] = t[i - m]
      BY <1>1, <2>5
    <3> QED BY <2>1, <3>1
  <2> QED BY <1>1, <2>2, <2>3, <2>4, <2>5
<1> QED BY <1>1, <1>2, <1>3 DEF c

\* One element.
LEMMA SingleOnce ==
  ASSUME NEW S, NEW e \in S
  PROVE  <<e>> \in Seq(S) /\ ToSet(<<e>>) = {e} /\ IsInjective(<<e>>)
  BY DEF ToSet, IsInjective

\* A new element in front.
LEMMA PushFrontOnce ==
  ASSUME NEW S, NEW s \in Seq(S), NEW e \in S, IsInjective(s), e \notin ToSet(s)
  PROVE  /\ <<e>> \o s \in Seq(S) /\ IsInjective(<<e>> \o s)
         /\ ToSet(<<e>> \o s) = ToSet(s) \cup {e}
<1> DEFINE one == <<e>>
<1>1. one \in Seq(S) /\ ToSet(one) = {e} /\ IsInjective(one)
  BY SingleOnce
<1> HIDE DEF one
<1>2. ToSet(one) \cap ToSet(s) = {}
  BY <1>1
<1>3. /\ one \o s \in Seq(S) /\ IsInjective(one \o s)
      /\ ToSet(one \o s) = ToSet(one) \cup ToSet(s)
  BY <1>1, <1>2, ConcatOnce
<1>4. ToSet(one \o s) = ToSet(s) \cup {e}
  BY <1>1, <1>3
<1> QED BY <1>3, <1>4 DEF one

\* A new element behind.
LEMMA AppendOnce ==
  ASSUME NEW S, NEW s \in Seq(S), NEW e \in S, IsInjective(s), e \notin ToSet(s)
  PROVE  /\ Append(s, e) \in Seq(S) /\ IsInjective(Append(s, e))
         /\ ToSet(Append(s, e)) = ToSet(s) \cup {e}
<1> DEFINE one == <<e>>
<1>1. one \in Seq(S) /\ ToSet(one) = {e} /\ IsInjective(one)
  BY SingleOnce
<1>2. Append(s, e) = s \o one
  BY AppendIsConcat
<1> HIDE DEF one
<1>3. ToSet(s) \cap ToSet(one) = {}
  BY <1>1
<1>4. /\ s \o one \in Seq(S) /\ IsInjective(s \o one)
      /\ ToSet(s \o one) = ToSet(s) \cup ToSet(one)
  BY <1>1, <1>3, ConcatOnce
<1> QED BY <1>1, <1>2, <1>4

LEMMA EmptyOnce ==
  ASSUME NEW S
  PROVE  <<>> \in Seq(S) /\ ToSet(<<>>) = {} /\ IsInjective(<<>>)
  BY DEF ToSet, IsInjective

\* Without one of its elements.
LEMMA RemoveOnce ==
  ASSUME NEW S, NEW s \in Seq(S), NEW i \in 1..Len(s), IsInjective(s)
  PROVE  /\ RemoveAt(s, i) \in Seq(S) /\ IsInjective(RemoveAt(s, i))
         /\ ToSet(RemoveAt(s, i)) \subseteq ToSet(s) \ {s[i]}
<1> DEFINE l == SubSeq(s, 1, i - 1)
           r == SubSeq(s, i + 1, Len(s))
           n == Len(s)
<1>1. n \in Nat /\ DOMAIN s = 1..n /\ \A k \in 1..n : s[k] \in S
  BY LenProperties, ElementOfSeq
<1>2. /\ l \in Seq(S) /\ Len(l) = i - 1 /\ DOMAIN l = 1..(i - 1)
      /\ \A k \in 1..(i - 1) : l[k] = s[k]
  <2>1. 1 \in Int /\ i - 1 \in Int /\ \A k \in 1..(i - 1) : s[k] \in S
    BY <1>1
  <2>2. /\ l \in Seq(S) /\ Len(l) = IF 1 <= i - 1 THEN (i - 1) - 1 + 1 ELSE 0
        /\ \A k \in 1..((i - 1) - 1 + 1) : l[k] = s[1 + k - 1]
    BY <2>1, SubSeqProperties
  <2>3. DOMAIN l = 1..Len(l)
    BY <2>2, LenProperties
  <2> HIDE DEF l
  <2> QED BY <1>1, <2>2, <2>3
<1>3. /\ r \in Seq(S) /\ Len(r) = n - i /\ DOMAIN r = 1..(n - i)
      /\ \A k \in 1..(n - i) : r[k] = s[i + k]
  <2>1. i + 1 \in Int /\ n \in Int /\ \A k \in (i + 1)..n : s[k] \in S
    BY <1>1
  <2>2. /\ r \in Seq(S) /\ Len(r) = IF i + 1 <= n THEN n - (i + 1) + 1 ELSE 0
        /\ \A k \in 1..(n - (i + 1) + 1) : r[k] = s[(i + 1) + k - 1]
    BY <2>1, SubSeqProperties
  <2>3. DOMAIN r = 1..Len(r)
    BY <2>2, LenProperties
  <2> HIDE DEF r, n
  <2>4. i \in 1..n
    BY DEF n
  <2>5. Len(r) = n - i
    BY <1>1, <2>2, <2>4
  <2>6. n - (i + 1) + 1 = n - i /\ \A k \in 1..(n - i) : (i + 1) + k - 1 = i + k
    BY <1>1, <2>4
  <2> QED BY <2>2, <2>3, <2>5, <2>6
<1> HIDE DEF l, r
<1>4. IsInjective(l) /\ IsInjective(r)
  <2>1. IsInjective(l)
    BY <1>1, <1>2 DEF IsInjective
  <2>2. ASSUME NEW j \in 1..(n - i), NEW k \in 1..(n - i), r[j] = r[k] PROVE j = k
    <3>1. i + j \in 1..n /\ i + k \in 1..n /\ s[i + j] = s[i + k]
      BY <1>1, <1>3, <2>2
    <3>2. i + j = i + k
      BY <1>1, <3>1 DEF IsInjective
    <3> QED BY <1>1, <3>2
  <2> QED BY <1>3, <2>1, <2>2 DEF IsInjective
<1>5. ASSUME NEW x \in ToSet(l) PROVE \E k \in 1..(i - 1) : x = s[k]
  BY <1>2 DEF ToSet
<1>6. ASSUME NEW x \in ToSet(r) PROVE \E k \in (i + 1)..n : x = s[k]
  <2>1. PICK k \in 1..(n - i) : x = s[i + k]
    BY <1>3 DEF ToSet
  <2>2. i + k \in (i + 1)..n
    BY <1>1
  <2> QED BY <2>1, <2>2
<1>7. ToSet(l) \cap ToSet(r) = {}
  <2>1. ASSUME NEW j \in 1..(i - 1), NEW k \in (i + 1)..n PROVE s[j] # s[k]
    BY <1>1 DEF IsInjective
  <2> QED BY <1>5, <1>6, <2>1
<1>8. ToSet(l) \cup ToSet(r) \subseteq ToSet(s) \ {s[i]}
  <2>1. ASSUME NEW k \in 1..n, k # i PROVE s[k] \in ToSet(s) \ {s[i]}
    BY <1>1, <2>1 DEF ToSet, IsInjective
  <2>2. \A k \in 1..(i - 1) : k \in 1..n /\ k # i
    BY <1>1
  <2>3. \A k \in (i + 1)..n : k \in 1..n /\ k # i
    BY <1>1
  <2> QED BY <1>5, <1>6, <2>1, <2>2, <2>3
<1>9. RemoveAt(s, i) = l \o r
  BY DEF RemoveAt, l, r
<1> QED BY <1>2, <1>3, <1>4, <1>7, <1>8, <1>9, ConcatOnce

-----------------------------------------------------------------------------
(* Requests *)

\* What is said of the waiting and the requested files.
QueueOK(q) ==
  /\ q \in [pending : Seq(Tasks), requested : SUBSET Tasks]
  /\ IsInjective(q.pending) /\ ToSet(q.pending) \subseteq q.requested
  /\ IsFiniteSet(q.requested) /\ Cardinality(q.requested) <= image_count_limit

\* A file goes to the front of the queue from its place there.
LEMMA PromotedOnce ==
  ASSUME NEW s \in Seq(Tasks), NEW t \in ToSet(s), IsInjective(s)
  PROVE  /\ Promoted(s, t) \in Seq(Tasks) /\ IsInjective(Promoted(s, t))
         /\ ToSet(Promoted(s, t)) \subseteq ToSet(s)
<1> DEFINE First(i) == s[i] = t /\ \A j \in 1..(i - 1) : s[j] # t
           it == CHOOSE i \in DOMAIN s : First(i)
<1>1. DOMAIN s = 1..Len(s) /\ Len(s) \in Nat /\ \A i \in 1..Len(s) : s[i] \in Tasks
  BY LenProperties, ElementOfSeq
<1>2. PICK i \in DOMAIN s : s[i] = t
  BY DEF ToSet
<1>3. First(i)
  BY <1>1, <1>2 DEF IsInjective
<1>4. it \in DOMAIN s /\ s[it] = t
  BY <1>3
<1> HIDE DEF it
<1>5. /\ RemoveAt(s, it) \in Seq(Tasks) /\ IsInjective(RemoveAt(s, it))
      /\ ToSet(RemoveAt(s, it)) \subseteq ToSet(s) \ {t}
  BY <1>1, <1>4, RemoveOnce
<1>6. t \in Tasks
  BY <1>1, <1>4
<1>7. Promoted(s, t) = <<t>> \o RemoveAt(s, it)
  BY DEF Promoted, it
<1>8. t \notin ToSet(RemoveAt(s, it))
  BY <1>5
<1>9. /\ Promoted(s, t) \in Seq(Tasks) /\ IsInjective(Promoted(s, t))
      /\ ToSet(Promoted(s, t)) = ToSet(RemoveAt(s, it)) \cup {t}
  BY <1>5, <1>6, <1>7, <1>8, PushFrontOnce
<1> QED BY <1>5, <1>9

\* A request keeps the limit, repeats no file, and queues none that was
\* requested before.
LEMMA RequestFileKeeps ==
  ASSUME NEW q, QueueOK(q), NEW t \in Tasks, NEW priority \in BOOLEAN
  PROVE  LET r == RequestFile(q, t, priority)
         IN /\ QueueOK(r) /\ q.requested \subseteq r.requested
            /\ ToSet(r.pending) \cap q.requested \subseteq ToSet(q.pending)
<1> DEFINE r == RequestFile(q, t, priority)
           Goal == /\ QueueOK(r) /\ q.requested \subseteq r.requested
                   /\ ToSet(r.pending) \cap q.requested \subseteq ToSet(q.pending)
<1> SUFFICES Goal
  OBVIOUS
<1>1. CASE r = q
  BY <1>1
<1>2. CASE t \in ToSet(q.pending) /\ r = [q EXCEPT !.pending = Promoted(@, t)]
  <2>1. q.pending \in Seq(Tasks) /\ IsInjective(q.pending)
    BY DEF QueueOK
  <2>2. /\ Promoted(q.pending, t) \in Seq(Tasks) /\ IsInjective(Promoted(q.pending, t))
        /\ ToSet(Promoted(q.pending, t)) \subseteq ToSet(q.pending)
    BY <1>2, <2>1, PromotedOnce
  <2>3. /\ r \in [pending : {Promoted(q.pending, t)}, requested : {q.requested}]
    BY <1>2 DEF QueueOK
  <2>4. r.pending = Promoted(q.pending, t) /\ r.requested = q.requested
    BY <2>3
  <2> HIDE DEF r
  <2> QED BY <2>2, <2>3, <2>4 DEF QueueOK
<1>3. CASE /\ t \notin q.requested /\ Cardinality(q.requested) < image_count_limit
           /\ r = [requested |-> q.requested \cup {t},
                   pending |-> IF priority THEN <<t>> \o q.pending ELSE Append(q.pending, t)]
  <2>1. /\ q.pending \in Seq(Tasks) /\ IsInjective(q.pending) /\ t \notin ToSet(q.pending)
        /\ ToSet(q.pending) \subseteq q.requested
    BY <1>3 DEF QueueOK
  <2>4. r.requested = q.requested \cup {t} /\ r.pending \in {<<t>> \o q.pending, Append(q.pending, t)}
    BY <1>3
  <2>5. /\ r.pending \in Seq(Tasks) /\ IsInjective(r.pending)
        /\ ToSet(r.pending) = ToSet(q.pending) \cup {t}
    <3> HIDE DEF r
    <3>1. CASE r.pending = <<t>> \o q.pending
      BY <2>1, <3>1, PushFrontOnce
    <3>2. CASE r.pending = Append(q.pending, t)
      BY <2>1, <3>2, AppendOnce
    <3> QED BY <2>4, <3>1, <3>2
  <2>6. IsFiniteSet(r.requested) /\ Cardinality(r.requested) = Cardinality(q.requested) + 1
    BY <1>3, <2>4, FS_AddElement DEF QueueOK
  <2>7. Cardinality(r.requested) <= image_count_limit
    BY <1>3, <2>6, FS_CardinalityType, LimitsAssumption DEF QueueOK
  <2>8. r \in [pending : {r.pending}, requested : {r.requested}]
    BY <1>3
  <2> HIDE DEF r
  <2> QED BY <1>3, <2>1, <2>4, <2>5, <2>6, <2>7, <2>8 DEF QueueOK
<1> QED BY <1>1, <1>2, <1>3 DEF RequestFile

-----------------------------------------------------------------------------
(* The inductive invariant *)

\* Where the worker has a task.
Handed == {"load", "fetch", "save", FullWait.test, FullWait.doze, FullWait.sleep}

\* No file is at two of its stations: waiting, with the worker, ready,
\* delivered.  All of them were requested.
StationsApart ==
  /\ IsInjective(ready)
  /\ ToSet(ready) \subseteq requested
  /\ ToSet(pending) \cap ToSet(ready) = {}
  /\ task # None => task \in requested \ (ToSet(pending) \cup ToSet(ready))
  /\ worker # "none" =>
       /\ delivered \subseteq requested
       /\ delivered \cap (ToSet(pending) \cup ToSet(ready) \cup {task}) = {}

\* The worker has a task where it works on one; without a worker the cache is
\* stopped and empty, and after its end stopped.
WorkerOK ==
  /\ worker \in Handed <=> task # None
  /\ worker \in {"none", "exit"} => stopping
  /\ worker = "none" => pending = <<>> /\ requested = {} /\ ready = <<>>

IInv == TypeOK /\ QueueOK([pending |-> pending, requested |-> requested]) /\ StationsApart /\ WorkerOK

-----------------------------------------------------------------------------
(* The steps of the frontend and of main() *)

LEMMA InitHolds == Init => IInv
<1> SUFFICES ASSUME Init PROVE IInv
  OBVIOUS
<1> USE DEF Init
<1>1. <<>> \in Seq(Tasks) /\ ToSet(<<>>) = {} /\ IsInjective(<<>>) /\ Len(<<>>) = 0
  BY EmptyOnce
<1>2. IsFiniteSet({}) /\ Cardinality({}) = 0
  BY FS_EmptySet
<1>3. TypeOK
  BY <1>1, <1>2, LimitsAssumption DEF TypeOK, Places
<1>4. QueueOK([pending |-> pending, requested |-> requested])
  BY <1>1, <1>2, LimitsAssumption DEF QueueOK
<1>5. WorkerOK
  BY DEF WorkerOK, Handed, FullWait
<1>6. StationsApart
  BY <1>1 DEF StationsApart
<1> QED BY <1>3, <1>4, <1>5, <1>6 DEF IInv

\* The places of the worker, by name.
LEMMA WorkerPlaces ==
  /\ Places = {"none", "start", "load", "fetch", "save", "exit", "idle", "idle_dozing",
               "idle_asleep", "full", "full_dozing", "full_asleep"}
  /\ Handed = {"load", "fetch", "save", "full", "full_dozing", "full_asleep"}
  BY DEF Places, Waits, IdleWait, FullWait, Handed

\* A notification wakes the worker where it sleeps, and changes no more.
LEMMA NotifiedKeeps ==
  ASSUME NEW place \in Places
  PROVE  /\ Notified(place) \in Places
         /\ Notified(place) = "none" <=> place = "none"
         /\ Notified(place) = "exit" <=> place = "exit"
         /\ Notified(place) \in Handed <=> place \in Handed
<1>1. CASE \E w \in Waits : place = w.sleep
  <2>1. PICK w \in Waits : Notified(place) = w.test /\ place = w.sleep
    BY <1>1 DEF Notified
  <2> QED BY <2>1, WorkerPlaces DEF Waits, IdleWait, FullWait
<1>2. CASE ~\E w \in Waits : place = w.sleep
  BY <1>2 DEF Notified
<1> QED BY <1>1, <1>2

\* A notification, and nothing else that the invariant speaks of.
LEMMA NotifyKeeps ==
  ASSUME IInv, worker' = Notified(worker),
         client' \in {"running", "notify", "join"},
         UNCHANGED <<stopping, pending, requested, ready, cached, task, delivered>>
  PROVE  IInv'
<1>1. /\ worker' \in Places /\ (worker' = "none" <=> worker = "none")
      /\ worker' = "exit" <=> worker = "exit"
      /\ worker' \in Handed <=> worker \in Handed
  BY NotifiedKeeps DEF IInv, TypeOK
<1> QED BY <1>1 DEF IInv, TypeOK, QueueOK, StationsApart, WorkerOK

LEMMA InitializeStep == IInv /\ Initialize => IInv'
<1> SUFFICES ASSUME IInv, Initialize PROVE IInv'
  OBVIOUS
<1>1. worker = "none" /\ worker' = "start" /\ task = None
  BY WorkerPlaces DEF Initialize, IInv, WorkerOK
<1>2. TypeOK'
  BY WorkerPlaces DEF Initialize, IInv, TypeOK
<1>3. QueueOK([pending |-> pending, requested |-> requested])'
  BY DEF Initialize, IInv, QueueOK
<1>4. StationsApart'
  BY <1>1 DEF Initialize, IInv, StationsApart
<1>5. WorkerOK'
  BY <1>1, WorkerPlaces DEF Initialize, IInv, WorkerOK
<1> QED BY <1>2, <1>3, <1>4, <1>5 DEF IInv

LEMMA RequestStep ==
  ASSUME IInv, NEW name \in Names, NEW priority \in BOOLEAN, Request(name, priority)
  PROVE  IInv'
<1> DEFINE q == [pending |-> pending, requested |-> requested]
           first == [name |-> name, locked |-> priority]
           second == [name |-> name, locked |-> ~priority]
           q1 == RequestFile(q, first, priority)
           q2 == RequestFile(q1, second, priority)
<1>1. first \in Tasks /\ second \in Tasks
  BY DEF Tasks
<1>2. QueueOK(q)
  BY DEF IInv
<1>3. pending' = q2.pending /\ requested' = q2.requested /\ worker' = Notified(worker)
  BY DEF Request
<1>4. q.pending = pending /\ q.requested = requested
  OBVIOUS
<1> HIDE DEF q, first, second, q1, q2
<1>5. /\ QueueOK(q1) /\ q.requested \subseteq q1.requested
      /\ ToSet(q1.pending) \cap q.requested \subseteq ToSet(q.pending)
  BY <1>1, <1>2, RequestFileKeeps DEF q1
<1>6. /\ QueueOK(q2) /\ q1.requested \subseteq q2.requested
      /\ ToSet(q2.pending) \cap q1.requested \subseteq ToSet(q1.pending)
  BY <1>1, <1>5, RequestFileKeeps DEF q2
<1>7. /\ requested \subseteq requested'
      /\ ToSet(pending') \cap requested \subseteq ToSet(pending)
  BY <1>3, <1>4, <1>5, <1>6
<1>8. QueueOK([pending |-> pending', requested |-> requested'])
  BY <1>3, <1>6 DEF QueueOK
<1>9. /\ worker' \in Places /\ (worker' = "none" <=> worker = "none")
      /\ worker' = "exit" <=> worker = "exit"
      /\ worker' \in Handed <=> worker \in Handed
  BY <1>3, NotifiedKeeps DEF IInv, TypeOK
<1>10. UNCHANGED <<stopping, ready, cached, task, client, delivered>> /\ ~stopping
  BY DEF Request
<1>11. TypeOK'
  BY <1>8, <1>9, <1>10 DEF IInv, TypeOK, QueueOK
<1>12. StationsApart'
  BY <1>7, <1>9, <1>10 DEF IInv, StationsApart
<1>13. WorkerOK'
  BY <1>9, <1>10 DEF IInv, WorkerOK
<1> QED BY <1>8, <1>11, <1>12, <1>13 DEF IInv

LEMMA DrainStep == IInv /\ DrainImages => IInv'
<1> SUFFICES ASSUME IInv, DrainImages PROVE IInv'
  OBVIOUS
<1>1. /\ delivered' = delivered \cup ToSet(ready) /\ ready' = <<>> /\ worker' = Notified(worker)
      /\ UNCHANGED <<stopping, pending, requested, cached, task, client>>
  BY DEF DrainImages
<1>2. <<>> \in Seq(Tasks) /\ ToSet(<<>>) = {} /\ IsInjective(<<>>) /\ Len(<<>>) = 0
  BY EmptyOnce
<1>3. /\ worker' \in Places /\ (worker' = "none" <=> worker = "none")
      /\ worker' = "exit" <=> worker = "exit"
      /\ worker' \in Handed <=> worker \in Handed
  BY <1>1, NotifiedKeeps DEF IInv, TypeOK
<1>4. ToSet(ready) \subseteq Tasks
  BY DEF IInv, TypeOK, StationsApart
<1>5. TypeOK'
  BY <1>1, <1>2, <1>3, <1>4, LimitsAssumption DEF IInv, TypeOK
<1>6. QueueOK([pending |-> pending, requested |-> requested])'
  BY <1>1 DEF IInv, QueueOK
<1>7. StationsApart'
  <2>1. task = None => task \notin Tasks
    BY NoneAssumption
  <2> QED BY <1>1, <1>2, <1>3, <1>4, <2>1 DEF IInv, StationsApart
<1>8. WorkerOK'
  BY <1>1, <1>3 DEF IInv, WorkerOK
<1> QED BY <1>5, <1>6, <1>7, <1>8 DEF IInv

LEMMA StopStep == IInv /\ (StopStore \/ StopNotify \/ StopJoin) => IInv'
<1> SUFFICES ASSUME IInv PROVE StopStore \/ StopNotify \/ StopJoin => IInv'
  OBVIOUS
<1>1. CASE StopStore
  BY <1>1 DEF StopStore, IInv, TypeOK, QueueOK, StationsApart, WorkerOK
<1>2. CASE StopNotify
  BY <1>2, NotifyKeeps DEF StopNotify
<1>3. CASE StopJoin
  <2>1. <<>> \in Seq(Tasks) /\ ToSet(<<>>) = {} /\ IsInjective(<<>>) /\ Len(<<>>) = 0
    BY EmptyOnce
  <2>2. IsFiniteSet({}) /\ Cardinality({}) = 0
    BY FS_EmptySet
  <2>3. /\ worker \in {"none", "exit"} /\ worker' = "none" /\ pending' = <<>> /\ requested' = {}
        /\ ready' = <<>> /\ client' = "running" /\ UNCHANGED <<stopping, cached, task, delivered>>
    BY <1>3 DEF StopJoin
  <2>4. task = None
    BY <2>3, WorkerPlaces DEF IInv, WorkerOK
  <2>5. TypeOK'
    BY <2>1, <2>2, <2>3, LimitsAssumption, WorkerPlaces DEF IInv, TypeOK
  <2>6. QueueOK([pending |-> pending, requested |-> requested])'
    BY <2>1, <2>2, <2>3, LimitsAssumption DEF QueueOK
  <2>7. StationsApart'
    BY <2>1, <2>3, <2>4 DEF StationsApart
  <2>8. stopping
    BY <2>3 DEF IInv, WorkerOK
  <2> QED BY <2>3, <2>4, <2>5, <2>6, <2>7, <2>8, WorkerPlaces DEF IInv, WorkerOK
<1> QED BY <1>1, <1>2, <1>3

-----------------------------------------------------------------------------
(* The worker's steps *)

\* What stays on disk is some of what was there.
LEMMA TrimmedKeeps == ASSUME NEW files \in SUBSET Tasks, NEW kept \in Trimmed(files)
                      PROVE  kept \subseteq Tasks
  BY DEF Trimmed

\* The first task leaves the queue.
LEMMA TailOnce ==
  ASSUME NEW S, NEW s \in Seq(S), s # <<>>, IsInjective(s)
  PROVE  /\ Tail(s) \in Seq(S) /\ IsInjective(Tail(s))
         /\ ToSet(Tail(s)) \subseteq ToSet(s) \ {Head(s)}
         /\ Head(s) \in ToSet(s)
<1>1. /\ Len(s) \in Nat \ {0} /\ DOMAIN s = 1..Len(s) /\ Head(s) = s[1]
  BY LenProperties, EmptySeq
<1>2. /\ Tail(s) \in Seq(S) /\ Len(Tail(s)) = Len(s) - 1
      /\ \A i \in 1..(Len(s) - 1) : Tail(s)[i] = s[i + 1]
  BY HeadTailProperties
<1>3. DOMAIN Tail(s) = 1..(Len(s) - 1)
  BY <1>2, LenProperties
<1>4. ASSUME NEW i \in 1..(Len(s) - 1) PROVE i + 1 \in 1..Len(s) /\ 1 \in 1..Len(s) /\ i + 1 # 1
  BY <1>1
<1>5. IsInjective(Tail(s))
  <2> SUFFICES ASSUME NEW i \in 1..(Len(s) - 1), NEW j \in 1..(Len(s) - 1), Tail(s)[i] = Tail(s)[j]
               PROVE  i = j
    BY <1>3 DEF IsInjective
  <2>1. i + 1 = j + 1
    BY <1>1, <1>2, <1>4 DEF IsInjective
  <2> QED BY <2>1
<1>6. ASSUME NEW i \in 1..(Len(s) - 1) PROVE Tail(s)[i] \in ToSet(s) \ {s[1]}
  BY <1>1, <1>2, <1>4 DEF IsInjective, ToSet
<1>7. ToSet(Tail(s)) \subseteq ToSet(s) \ {s[1]}
  BY <1>3, <1>6 DEF ToSet
<1>8. s[1] \in ToSet(s)
  BY <1>1 DEF ToSet
<1> QED BY <1>1, <1>2, <1>5, <1>7, <1>8

LEMMA TakeStep == IInv /\ TakeTask => IInv'
<1> SUFFICES ASSUME IInv, TakeTask PROVE IInv'
  OBVIOUS
<1>1. /\ worker = "idle" /\ ~stopping /\ pending # <<>> /\ task' = Head(pending)
      /\ pending' = Tail(pending) /\ worker' = "load"
      /\ UNCHANGED <<stopping, requested, ready, cached, client, delivered>>
  BY DEF TakeTask
<1>2. /\ pending \in Seq(Tasks) /\ IsInjective(pending) /\ ToSet(pending) \subseteq requested
      /\ requested \subseteq Tasks /\ IsFiniteSet(requested)
      /\ Cardinality(requested) <= image_count_limit
  BY DEF IInv, QueueOK
<1>3. /\ Tail(pending) \in Seq(Tasks) /\ IsInjective(Tail(pending))
      /\ ToSet(Tail(pending)) \subseteq ToSet(pending) \ {Head(pending)}
      /\ Head(pending) \in ToSet(pending)
  BY <1>1, <1>2, TailOnce
<1>4. task' \in Tasks /\ task' # None
  BY <1>1, <1>2, <1>3, NoneAssumption
<1>5. TypeOK'
  BY <1>1, <1>3, <1>4, WorkerPlaces DEF IInv, TypeOK
<1>6. QueueOK([pending |-> pending, requested |-> requested])'
  BY <1>1, <1>2, <1>3 DEF QueueOK
<1>7. StationsApart'
  BY <1>1, <1>2, <1>3 DEF IInv, StationsApart
<1>8. WorkerOK'
  BY <1>1, <1>4, WorkerPlaces DEF WorkerOK
<1> QED BY <1>5, <1>6, <1>7, <1>8 DEF IInv

LEMMA DeliverStep == IInv /\ Deliver => IInv'
<1> SUFFICES ASSUME IInv, Deliver PROVE IInv'
  OBVIOUS
<1>1. /\ worker = "full" /\ ~stopping /\ Len(ready) + 1 <= ready_limit
      /\ ready' = Append(ready, task) /\ task' = None /\ worker' = "idle"
      /\ UNCHANGED <<stopping, pending, requested, cached, client, delivered>>
  BY DEF Deliver
<1>2. task # None /\ task \in Tasks /\ ready \in Seq(Tasks)
  BY <1>1, WorkerPlaces DEF IInv, WorkerOK, TypeOK
<1>3. task \in requested \ (ToSet(pending) \cup ToSet(ready)) /\ IsInjective(ready)
  BY <1>2 DEF IInv, StationsApart
<1>4. /\ ready' \in Seq(Tasks) /\ IsInjective(ready') /\ ToSet(ready') = ToSet(ready) \cup {task}
  BY <1>1, <1>2, <1>3, AppendOnce
<1>5. Len(ready') <= ready_limit
  BY <1>1, <1>2, AppendProperties
<1>6. TypeOK'
  BY <1>1, <1>4, <1>5, WorkerPlaces DEF IInv, TypeOK
<1>7. QueueOK([pending |-> pending, requested |-> requested])'
  BY <1>1 DEF IInv, QueueOK
<1>8. StationsApart'
  <2>1. delivered \cap {None} = {}
    BY NoneAssumption DEF IInv, TypeOK
  <2> QED BY <1>1, <1>3, <1>4, <2>1 DEF IInv, StationsApart
<1>9. WorkerOK'
  BY <1>1, WorkerPlaces DEF WorkerOK
<1> QED BY <1>6, <1>7, <1>8, <1>9 DEF IInv

\* The worker goes on and either keeps its task or gives it up; a start and
\* an end of its work are such steps.
LEMMA WorkerKeeps ==
  ASSUME IInv, worker # "none", worker' \in Places \ {"none"}, cached' \in SUBSET Tasks,
         \/ worker \in Handed /\ worker' \in Handed /\ task' = task
         \/ worker \notin Handed /\ worker' \notin Handed /\ task' = task
         \/ worker' \notin Handed /\ task' = None,
         stopping' \in BOOLEAN, worker' = "exit" => stopping',
         UNCHANGED <<pending, requested, ready, client, delivered>>
  PROVE  IInv'
<1>1. TypeOK'
  BY DEF IInv, TypeOK
<1>2. QueueOK([pending |-> pending, requested |-> requested])'
  BY DEF IInv, QueueOK
<1>3. StationsApart'
  <2>1. delivered \cap {None} = {}
    BY NoneAssumption DEF IInv, TypeOK
  <2> QED BY <2>1 DEF IInv, StationsApart
<1>4. WorkerOK'
  BY WorkerPlaces DEF IInv, WorkerOK
<1> QED BY <1>1, <1>2, <1>3, <1>4 DEF IInv

LEMMA OtherWorkStep ==
  ASSUME IInv,
         \/ Start \/ Exit \/ LoadCached \/ Fetch \/ SaveCached \/ Throw
         \/ \E w \in Waits : Doze(w) \/ Sleep(w) \/ WakeSpuriously(w)
  PROVE  IInv'
<1> USE WorkerPlaces
<1>0. cached \in SUBSET Tasks /\ stopping \in BOOLEAN /\ task \in Tasks \cup {None}
  BY DEF IInv, TypeOK
<1>1. CASE Start
  <2>1. cached' \in SUBSET Tasks
    BY <1>0, <1>1, TrimmedKeeps DEF Start
  <2> QED BY <1>0, <1>1, <2>1, WorkerKeeps DEF Start
<1>2. CASE Exit
  <2>1. worker \in {"idle", "full"}
    BY <1>2 DEF Exit, Waits, IdleWait, FullWait
  <2> QED BY <1>0, <1>2, <2>1, WorkerKeeps DEF Exit
<1>3. CASE LoadCached
  BY <1>0, <1>3, WorkerKeeps DEF LoadCached
<1>4. CASE Fetch
  <2>1. CASE task' = None /\ worker' = "idle"
    BY <1>0, <1>4, <2>1, WorkerKeeps DEF Fetch
  <2>2. CASE worker' = "save" /\ UNCHANGED task
    BY <1>0, <1>4, <2>2, WorkerKeeps DEF Fetch
  <2> QED BY <1>4, <2>1, <2>2 DEF Fetch
<1>5. CASE SaveCached
  <2>1. task \in Tasks
    BY <1>0, <1>5 DEF IInv, WorkerOK, SaveCached
  <2>2. PICK saved \in {cached, cached \cup {task}} : cached' \in Trimmed(saved)
    BY <1>5 DEF SaveCached
  <2>3. cached' \in SUBSET Tasks
    BY <1>0, <2>1, <2>2, TrimmedKeeps
  <2> QED BY <1>0, <1>5, <2>3, WorkerKeeps DEF SaveCached
<1>6. CASE Throw
  BY <1>0, <1>6, WorkerKeeps DEF Throw
<1>7. ASSUME NEW w \in Waits, Doze(w) \/ Sleep(w) \/ WakeSpuriously(w)
      PROVE  IInv'
  <2>1. UNCHANGED <<stopping, pending, requested, ready, cached, task, client, delivered>>
    BY <1>7 DEF Doze, Sleep, WakeSpuriously
  <2>2. worker \in {w.test, w.doze, w.sleep} /\ worker' \in {w.test, w.doze, w.sleep}
    BY <1>7 DEF Doze, Sleep, WakeSpuriously
  <2>3. CASE w = IdleWait
    <3>1. /\ worker \in {"idle", "idle_dozing", "idle_asleep"}
          /\ worker' \in {"idle", "idle_dozing", "idle_asleep"}
      BY <2>2, <2>3 DEF IdleWait
    <3> QED BY <1>0, <2>1, <3>1, WorkerKeeps
  <2>4. CASE w = FullWait
    <3>1. /\ worker \in {"full", "full_dozing", "full_asleep"}
          /\ worker' \in {"full", "full_dozing", "full_asleep"}
      BY <2>2, <2>4 DEF FullWait
    <3> QED BY <1>0, <2>1, <3>1, WorkerKeeps
  <2> QED BY <2>3, <2>4 DEF Waits
<1> QED BY <1>1, <1>2, <1>3, <1>4, <1>5, <1>6, <1>7

-----------------------------------------------------------------------------
(* The theorems *)

\* The invariant holds in every state, whatever the worker fails at and
\* wherever shutdown meets it.
THEOREM BadgeCacheInvariant == Spec => []IInv
<1>1. Init => IInv
  BY InitHolds
<1>2. IInv /\ [Next]_vars => IInv'
  <2> SUFFICES ASSUME IInv, [Next]_vars PROVE IInv'
    OBVIOUS
  <2>1. CASE UNCHANGED vars
    BY <2>1 DEF vars, IInv, TypeOK, QueueOK, StationsApart, WorkerOK
  <2>2. CASE Next
    BY <2>2, InitializeStep, DrainStep, StopStep, RequestStep, TakeStep, DeliverStep, OtherWorkStep
       DEF Next, Work
  <2> QED BY <2>1, <2>2
<1> QED BY <1>1, <1>2, PTL DEF Spec

\* The types, and with them the two limits: no more files are requested than
\* the disk keeps, and no more images wait than the frontend's list holds.
THEOREM BadgeTypes == Spec => []TypeOK
<1>1. IInv => TypeOK
  BY DEF IInv
<1> QED BY <1>1, BadgeCacheInvariant, PTL

\* Between two starts no file is queued, worked on, ready or delivered twice,
\* whatever is requested and with whatever priority.
THEOREM FilesOnce == Spec => []EachFileOnce
<1>1. IInv => EachFileOnce
  <2> SUFFICES ASSUME IInv PROVE EachFileOnce
    OBVIOUS
  <2> DEFINE held == IF task = None THEN <<>> ELSE <<task>>
             front == pending \o held
             path == front \o ready
  <2>1. /\ pending \in Seq(Tasks) /\ IsInjective(pending) /\ ToSet(pending) \subseteq requested
        /\ ready \in Seq(Tasks) /\ IsInjective(ready) /\ ToSet(ready) \subseteq requested
        /\ ToSet(pending) \cap ToSet(ready) = {}
    BY DEF IInv, QueueOK, StationsApart, TypeOK
  <2>2. /\ held \in Seq(Tasks) /\ IsInjective(held)
        /\ ToSet(held) = {task} \ {None}
    <3>1. CASE task = None
      <4>1. held = <<>>
        BY <3>1
      <4> QED BY <3>1, <4>1, EmptyOnce
    <3>2. CASE task # None
      <4>1. held = <<task>> /\ task \in Tasks
        BY <3>2 DEF IInv, TypeOK
      <4>2. <<task>> \in Seq(Tasks) /\ IsInjective(<<task>>) /\ ToSet(<<task>>) = {task}
        BY <4>1, SingleOnce
      <4> QED BY <3>2, <4>1, <4>2
    <3> QED BY <3>1, <3>2
  <2>3. ToSet(held) \subseteq requested \ (ToSet(pending) \cup ToSet(ready))
    BY <2>2 DEF IInv, StationsApart
  <2> HIDE DEF held
  <2>4. /\ front \in Seq(Tasks) /\ IsInjective(front)
        /\ ToSet(front) = ToSet(pending) \cup ToSet(held)
    <3>1. ToSet(pending) \cap ToSet(held) = {}
      BY <2>3
    <3> QED BY <2>1, <2>2, <3>1, ConcatOnce
  <2> HIDE DEF front
  <2>5. /\ IsInjective(path) /\ ToSet(path) = ToSet(front) \cup ToSet(ready)
    <3>1. ToSet(front) \cap ToSet(ready) = {}
      BY <2>1, <2>3, <2>4
    <3> QED BY <2>1, <2>4, <3>1, ConcatOnce
  <2> HIDE DEF path
  <2>6. ToSet(path) = ToSet(pending) \cup ToSet(held) \cup ToSet(ready)
    BY <2>4, <2>5
  <2>7. worker # "none" => ToSet(path) \cap delivered = {}
    BY <2>2, <2>6 DEF IInv, StationsApart
  <2>8. ToSet(path) \subseteq requested
    BY <2>1, <2>3, <2>6
  <2> QED BY <2>5, <2>7, <2>8 DEF EachFileOnce, path, front, held
<1> QED BY <1>1, BadgeCacheInvariant, PTL

\* A cache without a worker is stopped and has forgotten what was requested.
THEOREM StoppedCacheEmpty == Spec => []StoppedIsEmpty
<1>1. IInv => StoppedIsEmpty
  BY DEF IInv, WorkerOK, StoppedIsEmpty
<1> QED BY <1>1, BadgeCacheInvariant, PTL
=============================================================================
