---------------------- MODULE AchievementServiceProofs ----------------------
(***************************************************************************)
(* The achievement service for any accounts and any bound on its clients:  *)
(* clients outlive their requests, the credentials on disk are those the   *)
(* last command may leave, what is shown belongs to the current client,    *)
(* and no unlock is given up before its last chance.                      *)
(*                                                                         *)
(* The calls are functions on the service, and so are the lemmas: each     *)
(* says what a function does to Good, the invariant of a service between   *)
(* two of its parts.  Good(S, c, n, k, cr, X) holds of a service S when    *)
(* the first n of the answers c have been given to their callbacks, k was  *)
(* the last command, cr are the credentials on disk, and only clients in X *)
(* may be retired with a retry still scheduled.  Between two calls n is 0  *)
(* and X is empty.                                                         *)
(***************************************************************************)
EXTENDS AchievementService, SequenceTheorems, FiniteSetTheorems, WellFoundedInduction, TLAPS

-----------------------------------------------------------------------------
(* What the functions change *)

Answer == [item : Item, result : {"ok", "refused", "outage"}]

\* R differs from S in its clients and the view only.
Within(S, R) ==
  /\ R.generation = S.generation /\ R.sessions = S.sessions
  /\ R.commands = S.commands /\ R.completed = S.completed /\ R.active = S.active
  /\ R.stopping = S.stopping /\ R.stop_worker = S.stop_worker
  /\ R.live_game = S.live_game /\ R.hash = S.hash

\* R shows what S shows.
SameView(S, R) ==
  /\ R.load_attempted = S.load_attempted /\ R.remember = S.remember
  /\ R.token_login = S.token_login /\ R.busy = S.busy /\ R.game_loaded = S.game_loaded
  /\ R.catalog_serial = S.catalog_serial /\ R.catalog_busy = S.catalog_busy
  /\ R.catalog_data = S.catalog_data /\ R.catalog_unlocks = S.catalog_unlocks
  /\ R.catalog = S.catalog /\ R.notifications = S.notifications

OthersKept(S, R, g) == \A h \in Generations : h # g => R.session[h] = S.session[h]

\* The service with another record for client g.
WithSession(S, g, ses) == [S EXCEPT !.session[g] = ses]

\* A change of one client's fields.
LEMMA SessionUpdate ==
  ASSUME NEW S \in Service, NEW g \in Generations, NEW ses \in Session,
         NEW R, R = WithSession(S, g, ses)
  PROVE  /\ R \in Service
         /\ Within(S, R) /\ SameView(S, R) /\ OthersKept(S, R, g)
         /\ R.session[g] = ses /\ R.work = S.work
<1>1. R = [S EXCEPT !.session = [S.session EXCEPT ![g] = ses]]
  BY DEF WithSession
<1>2. [S.session EXCEPT ![g] = ses] \in [Generations -> Session]
  BY DEF Service
<1>3. R \in Service
  BY <1>1, <1>2, ZenonT(60) DEF Service
<1>4. Within(S, R) /\ SameView(S, R)
  BY <1>1 DEF Within, SameView, Service
<1>5. OthersKept(S, R, g) /\ R.session[g] = ses /\ R.work = S.work
  BY <1>1 DEF OthersKept, Service
<1> QED
  BY <1>3, <1>4, <1>5

\* What Enqueue, ServerCall and Submit change.
LEMMA EnqueueEffect ==
  ASSUME NEW S \in Service, NEW item \in Item,
         NEW R, R = Enqueue(S, item)
  PROVE  /\ R \in Service
         /\ Within(S, R) /\ SameView(S, R)
         /\ R.session = S.session /\ R.work = Append(S.work, item)
<1>1. Append(S.work, item) \in Seq(Item)
  BY DEF Service
<1>2. R = [S EXCEPT !.work = Append(S.work, item)]
  BY DEF Enqueue
<1>3. R \in Service
  BY <1>1, <1>2, ZenonT(60) DEF Service
<1> QED
  BY <1>2, <1>3 DEF Within, SameView, Service

LEMMA ServerCallEffect ==
  ASSUME NEW S \in Service, NEW item \in Item,
         NEW R, R = ServerCall(S, item)
  PROVE  /\ R \in Service
         /\ Within(S, R) /\ SameView(S, R) /\ OthersKept(S, R, item.owner)
         /\ R.session[item.owner] = [S.session[item.owner] EXCEPT !.pending = @ + 1]
         /\ R.work = Append(S.work, item)
<1> DEFINE g == item.owner
           ses == [S.session[g] EXCEPT !.pending = @ + 1]
           A == WithSession(S, g, ses)
<1>1. g \in Generations /\ S.session[g] \in Session
  BY DEF Item, Service
<1>2. ses \in Session
  BY <1>1 DEF Session
<1>3. A \in Service /\ Within(S, A) /\ SameView(S, A) /\ OthersKept(S, A, g)
      /\ A.session[g] = ses /\ A.work = S.work
  BY <1>1, <1>2, SessionUpdate
<1>4. R = Enqueue(A, item)
  BY DEF ServerCall, WithSession
<1> HIDE DEF A, g, ses
<1>5. /\ R \in Service /\ Within(A, R) /\ SameView(A, R)
      /\ R.session = A.session /\ R.work = Append(A.work, item)
  BY <1>3, <1>4, EnqueueEffect
<1>6. Within(S, R) /\ SameView(S, R) /\ OthersKept(S, R, g)
  BY <1>3, <1>5 DEF Within, SameView, OthersKept
<1> QED
  BY <1>3, <1>5, <1>6 DEF g, ses

LEMMA SubmitEffect ==
  ASSUME NEW S \in Service, NEW g \in Generations, NEW allow,
         NEW R, R = Submit(S, g, allow)
  PROVE  /\ R \in Service
         /\ Within(S, R) /\ SameView(S, R) /\ OthersKept(S, R, g)
         /\ R.session[g].retired = S.session[g].retired
         /\ R.session[g].login = S.session[g].login
         /\ R.session[g].user = S.session[g].user
         /\ R.session[g].load = S.session[g].load
         /\ R.session[g].last_chance = S.session[g].last_chance
         /\ \/ /\ R.session[g].award = "cancelled" /\ R.session[g].pending = S.session[g].pending
               /\ R.work = S.work /\ S.session[g].retired /\ ~allow
            \/ /\ R.session[g].award = "sent" /\ R.session[g].pending = S.session[g].pending + 1
               /\ R.work = Append(S.work, Http("Award", g, S.session[g].user, 0))
<1>1. S.session[g] \in Session
  BY DEF Service
<1>2. CASE S.session[g].retired /\ ~allow
  <2> DEFINE ses == [S.session[g] EXCEPT !.award = "cancelled"]
  <2>1. ses \in Session
    BY <1>1 DEF Session
  <2>2. R = WithSession(S, g, ses)
    BY <1>2 DEF Submit, WithSession
  <2> HIDE DEF ses
  <2>3. /\ R \in Service /\ Within(S, R) /\ SameView(S, R) /\ OthersKept(S, R, g)
        /\ R.session[g] = ses /\ R.work = S.work
    BY <2>1, <2>2, SessionUpdate
  <2> QED  BY <1>1, <1>2, <2>3 DEF ses, Session
<1>3. CASE ~(S.session[g].retired /\ ~allow)
  <2> DEFINE ses == [S.session[g] EXCEPT !.award = "sent"]
             A == WithSession(S, g, ses)
             item == Http("Award", g, S.session[g].user, 0)
  <2>1. ses \in Session
    BY <1>1 DEF Session
  <2>2. A \in Service /\ Within(S, A) /\ SameView(S, A) /\ OthersKept(S, A, g)
        /\ A.session[g] = ses /\ A.work = S.work
    BY <2>1, SessionUpdate
  <2>3. item \in Item /\ item.owner = g
    BY <1>1 DEF Item, Http, Serials, Session
  <2>4. R = ServerCall(A, item)
    BY <1>3 DEF Submit, WithSession
  <2> HIDE DEF A, item
  <2>9. /\ R \in Service /\ Within(A, R) /\ SameView(A, R) /\ OthersKept(A, R, item.owner)
        /\ R.session[item.owner] = [A.session[item.owner] EXCEPT !.pending = @ + 1]
        /\ R.work = Append(A.work, item)
    BY <2>2, <2>3, <2>4, ServerCallEffect
  <2>5. /\ R \in Service /\ Within(A, R) /\ SameView(A, R) /\ OthersKept(A, R, g)
        /\ R.session[g] = [A.session[g] EXCEPT !.pending = @ + 1]
        /\ R.work = Append(A.work, item)
    BY <2>3, <2>9
  <2>6. Within(S, R) /\ SameView(S, R) /\ OthersKept(S, R, g)
    BY <2>2, <2>5 DEF Within, SameView, OthersKept
  <2>7. /\ R.session[g].award = "sent" /\ R.session[g].pending = S.session[g].pending + 1
        /\ R.session[g].retired = S.session[g].retired
        /\ R.session[g].login = S.session[g].login
        /\ R.session[g].user = S.session[g].user
        /\ R.session[g].load = S.session[g].load
        /\ R.session[g].last_chance = S.session[g].last_chance
    BY <1>1, <2>2, <2>5 DEF Session
  <2> QED  BY <2>2, <2>5, <2>6, <2>7 DEF item
<1> QED
  BY <1>2, <1>3

-----------------------------------------------------------------------------
(* Counting *)

Outcomes == Seq(Answer)

Owing(w, g) == {i \in DOMAIN w : IsHttp(w[i]) /\ w[i].owner = g}
Answered(c, n, g) == {i \in (n + 1)..Len(c) : c[i].item.owner = g}
Holding(a, g) == IF a # None /\ IsHttp(a) /\ a.owner = g THEN 1 ELSE 0

LEMMA OwingFinite ==
  ASSUME NEW w \in Seq(Item), NEW g
  PROVE  IsFiniteSet(Owing(w, g)) /\ Cardinality(Owing(w, g)) \in Nat
<1>1. Owing(w, g) \subseteq 1..Len(w)
  BY DEF Owing
<1>2. IsFiniteSet(1..Len(w))
  BY FS_Interval
<1> QED
  BY <1>1, <1>2, FS_Subset, FS_CardinalityType

LEMMA AnsweredFinite ==
  ASSUME NEW c \in Outcomes, NEW n \in 0..Len(c), NEW g
  PROVE  IsFiniteSet(Answered(c, n, g)) /\ Cardinality(Answered(c, n, g)) \in Nat
<1>1. Answered(c, n, g) \subseteq 1..Len(c)
  BY DEF Answered, Outcomes
<1>2. IsFiniteSet(1..Len(c))
  BY FS_Interval DEF Outcomes
<1> QED
  BY <1>1, <1>2, FS_Subset, FS_CardinalityType

\* A request that is queued counts for its owner.
LEMMA OwingAppend ==
  ASSUME NEW w \in Seq(Item), NEW item \in Item, NEW g
  PROVE  Cardinality(Owing(Append(w, item), g)) =
           Cardinality(Owing(w, g)) + (IF IsHttp(item) /\ item.owner = g THEN 1 ELSE 0)
<1> DEFINE v == Append(w, item)
<1>1. DOMAIN v = 1..(Len(w) + 1) /\ DOMAIN w = 1..Len(w) /\ Len(w) \in Nat
      /\ v[Len(w) + 1] = item /\ \A i \in 1..Len(w) : v[i] = w[i]
  OBVIOUS
<1> HIDE DEF v
<1>2. CASE IsHttp(item) /\ item.owner = g
  <2>1. Owing(v, g) = Owing(w, g) \cup {Len(w) + 1} /\ Len(w) + 1 \notin Owing(w, g)
    BY <1>1, <1>2 DEF Owing
  <2>2. IsFiniteSet(Owing(w, g))
    BY OwingFinite
  <2>3. Cardinality(Owing(v, g)) = Cardinality(Owing(w, g)) + 1
    BY <2>1, <2>2, FS_AddElement
  <2> QED  BY <1>2, <2>3 DEF v
<1>3. CASE ~(IsHttp(item) /\ item.owner = g)
  <2>1. Owing(v, g) = Owing(w, g)
    BY <1>1, <1>3 DEF Owing
  <2> QED  BY <1>3, <2>1, OwingFinite DEF v
<1> QED
  BY <1>2, <1>3

\* An answer that is given no longer counts.
LEMMA AnsweredStep ==
  ASSUME NEW c \in Outcomes, NEW n \in 1..Len(c), NEW g
  PROVE  Cardinality(Answered(c, n - 1, g)) =
           Cardinality(Answered(c, n, g)) + (IF c[n].item.owner = g THEN 1 ELSE 0)
<1>0. Len(c) \in Nat
  BY DEF Outcomes
<1>1. CASE c[n].item.owner = g
  <2>1. Answered(c, n - 1, g) = Answered(c, n, g) \cup {n} /\ n \notin Answered(c, n, g)
    BY <1>0, <1>1 DEF Answered
  <2> QED  BY <1>0, <1>1, <2>1, AnsweredFinite, FS_AddElement
<1>2. CASE c[n].item.owner # g
  <2>1. Answered(c, n - 1, g) = Answered(c, n, g)
    BY <1>0, <1>2 DEF Answered
  <2> QED  BY <1>0, <1>2, <2>1, AnsweredFinite
<1> QED
  BY <1>1, <1>2

\* An answer that completes.
LEMMA AnsweredAppend ==
  ASSUME NEW c \in Outcomes, NEW done \in Answer, NEW g
  PROVE  /\ Append(c, done) \in Outcomes
         /\ Cardinality(Answered(Append(c, done), 0, g)) =
              Cardinality(Answered(c, 0, g)) + (IF done.item.owner = g THEN 1 ELSE 0)
<1> DEFINE v == Append(c, done)
<1>1. v \in Outcomes /\ Len(v) = Len(c) + 1 /\ Len(c) \in Nat
      /\ v[Len(c) + 1] = done /\ \A i \in 1..Len(c) : v[i] = c[i]
  BY DEF Outcomes
<1> HIDE DEF v
<1>2. CASE done.item.owner = g
  <2>1. Answered(v, 0, g) = Answered(c, 0, g) \cup {Len(c) + 1} /\ Len(c) + 1 \notin Answered(c, 0, g)
    BY <1>1, <1>2 DEF Answered
  <2> QED  BY <1>1, <1>2, <2>1, AnsweredFinite, FS_AddElement DEF v
<1>3. CASE done.item.owner # g
  <2>1. Answered(v, 0, g) = Answered(c, 0, g)
    BY <1>1, <1>3 DEF Answered
  <2> QED  BY <1>1, <1>3, <2>1, AnsweredFinite DEF v
<1> QED
  BY <1>2, <1>3

\* An item that the worker takes.
LEMMA OwingTail ==
  ASSUME NEW w \in Seq(Item), w # <<>>, NEW g
  PROVE  Cardinality(Owing(w, g)) =
           Cardinality(Owing(Tail(w), g)) + (IF IsHttp(Head(w)) /\ Head(w).owner = g THEN 1 ELSE 0)
<1> DEFINE v == Tail(w)
           S == Owing(v, g)
           T == Owing(w, g) \ {1}
           f == [i \in S |-> i + 1]
<1>1. /\ DOMAIN v = 1..(Len(w) - 1) /\ DOMAIN w = 1..Len(w) /\ Len(w) \in Nat \ {0}
      /\ v \in Seq(Item) /\ Head(w) = w[1] /\ \A i \in 1..(Len(w) - 1) : v[i] = w[i + 1]
  OBVIOUS
<1> HIDE DEF v
<1>2. S \subseteq 1..(Len(w) - 1) /\ T \subseteq 2..Len(w)
  BY <1>1 DEF Owing
<1>3. \A i \in S : i + 1 \in T
  BY <1>1, <1>2 DEF Owing
<1>4. \A i \in T : i - 1 \in S /\ (i - 1) + 1 = i
  BY <1>1, <1>2 DEF Owing
<1> HIDE DEF S, T
<1>5. f \in Bijection(S, T)
  <2>1. f \in [S -> T]
    BY <1>3
  <2>2. \A a, b \in S : f[a] = f[b] => a = b
    BY <1>2
  <2>3. \A t \in T : \E s \in S : f[s] = t
    BY <1>4
  <2> QED  BY <2>1, <2>2, <2>3 DEF Bijection, Injection, Surjection, IsInjective
<1>6. IsFiniteSet(S) /\ Cardinality(S) \in Nat
  BY <1>1, OwingFinite DEF S
<1>7. IsFiniteSet(T) /\ Cardinality(T) = Cardinality(S)
  BY <1>5, <1>6, FS_Bijection DEF ExistsBijection
<1>8. CASE IsHttp(Head(w)) /\ Head(w).owner = g
  <2>1. Owing(w, g) = T \cup {1} /\ 1 \notin T
    BY <1>1, <1>8 DEF T, Owing
  <2> QED  BY <1>6, <1>7, <1>8, <2>1, FS_AddElement DEF S, v
<1>9. CASE ~(IsHttp(Head(w)) /\ Head(w).owner = g)
  <2>1. Owing(w, g) = T
    BY <1>1, <1>9 DEF T, Owing
  <2> QED  BY <1>6, <1>7, <1>9, <2>1 DEF S, v
<1> QED
  BY <1>8, <1>9

-----------------------------------------------------------------------------
(* The invariant of a service whose first n of the answers c were given *)

\* The items that are not done: queued, with the worker, answered but not
\* given to their callback.
Out(S, c, n) ==
  {S.work[i] : i \in DOMAIN S.work} \cup ({S.active} \ {None})
    \cup {c[i].item : i \in (n + 1)..Len(c)}

Awaited(S, c, n, g) == \E x \in Out(S, c, n) : x.kind = "Award" /\ x.owner = g

Counted(S, c, n) ==
  \A g \in Generations :
    S.session[g].pending =
      Cardinality(Owing(S.work, g)) + Cardinality(Answered(c, n, g)) + Holding(S.active, g)

Clients(S) ==
  /\ \A g \in Generations : S.session[g].pending # 0 => g \in S.sessions
  /\ S.sessions \subseteq 0..S.generation
  /\ \A g \in Generations : g < S.generation => S.session[g].retired
  /\ \A g \in Generations : g > S.generation => S.session[g] = NewSession

Sent(S, c, n) ==
  \A g \in Generations : S.session[g].award = "sent" => Awaited(S, c, n, g)

Logins(S, c, n) ==
  /\ \A g \in Generations :
       /\ S.session[g].login # None => S.session[g].user = None
       /\ S.session[g].user = None => S.session[g].load = "none"
  /\ \A x \in Out(S, c, n) :
       x.kind = "Login" => S.session[x.owner].login \in {None, x.user}

Chances(S) ==
  \A g \in Generations : S.session[g].award = "cancelled" => S.session[g].last_chance

Sound(S, c, n) ==
  /\ Chances(S)
  /\ S \in Service /\ c \in Outcomes /\ n \in 0..Len(c)
  /\ Counted(S, c, n)
  /\ Clients(S)
  /\ Sent(S, c, n)
  /\ Logins(S, c, n)

\* What is not done is work.
LEMMA OutItems ==
  ASSUME NEW S \in Service, NEW c \in Outcomes, NEW n \in 0..Len(c),
         NEW x \in Out(S, c, n)
  PROVE  x \in Item
<1>1. S.work \in Seq(Item) /\ S.active \in Item \cup {None}
  BY DEF Service
<1>2. \A i \in (n + 1)..Len(c) : c[i] \in Answer
  BY DEF Outcomes
<1> QED
  BY <1>1, <1>2 DEF Answer, Out

LEMMA OutAppend ==
  ASSUME NEW S \in Service, NEW R \in Service, NEW c, NEW n, NEW item \in Item,
         R.work = Append(S.work, item), R.active = S.active
  PROVE  Out(R, c, n) = Out(S, c, n) \cup {item}
<1>1. S.work \in Seq(Item)
  BY DEF Service
<1>2. {R.work[i] : i \in DOMAIN R.work} = {S.work[i] : i \in DOMAIN S.work} \cup {item}
  BY <1>1
<1> QED
  BY <1>2 DEF Out

\* What is not counted does not matter.
LEMMA SoundView ==
  ASSUME NEW S, NEW c, NEW n, NEW R, Sound(S, c, n), R \in Service, Within(S, R),
         R.session = S.session, R.work = S.work
  PROVE  Sound(R, c, n)
BY DEF Sound, Counted, Clients, Sent, Logins, Awaited, Chances, Out, Within

\* Work that is no request.
LEMMA SoundEnqueue ==
  ASSUME NEW S, NEW c, NEW n, NEW R, Sound(S, c, n), R \in Service, Within(S, R),
         NEW item \in Item, ~IsHttp(item),
         R.session = S.session, R.work = Append(S.work, item)
  PROVE  Sound(R, c, n)
<1>1. S \in Service /\ S.work \in Seq(Item) /\ R.active = S.active
  BY DEF Sound, Service, Within
<1>2. Out(R, c, n) = Out(S, c, n) \cup {item}
  BY <1>1, OutAppend
<1>3. item.kind \in {"Save", "Remove"}
  BY DEF IsHttp
<1>4. \A g : Cardinality(Owing(R.work, g)) = Cardinality(Owing(S.work, g))
  BY <1>1, OwingAppend, OwingFinite
<1>5. Counted(R, c, n)
  BY <1>1, <1>4 DEF Sound, Counted
<1>6. Clients(R)
  BY DEF Sound, Clients, Within
<1>7. Sent(R, c, n)
  BY <1>2 DEF Sound, Sent, Awaited
<1>8. Logins(R, c, n)
  BY <1>2, <1>3 DEF Sound, Logins
<1>9. Chances(R)
  BY DEF Sound, Chances
<1> QED
  BY <1>5, <1>6, <1>7, <1>8, <1>9 DEF Sound

\* A client changes: its account, its game, its achievement.
LEMMA SoundSession ==
  ASSUME NEW S, NEW c, NEW n, NEW R, NEW g \in Generations,
         Sound(S, c, n), R \in Service, Within(S, R), OthersKept(S, R, g),
         R.work = S.work, g <= S.generation,
         R.session[g].pending = S.session[g].pending,
         S.session[g].retired => R.session[g].retired,
         R.session[g].award = "sent" => S.session[g].award = "sent",
         R.session[g].award = "cancelled" => R.session[g].last_chance,
         R.session[g].login \in {None, S.session[g].login},
         R.session[g].login # None => R.session[g].user = None,
         R.session[g].user = None => R.session[g].load = "none"
  PROVE  Sound(R, c, n)
<1>1. /\ S \in Service /\ S.work \in Seq(Item) /\ R.active = S.active /\ S.generation \in Nat
      /\ c \in Outcomes /\ n \in 0..Len(c)
  BY DEF Sound, Service, Within, Generations
<1>2. Out(R, c, n) = Out(S, c, n)
  BY <1>1 DEF Out
<1>5. Counted(R, c, n)
  BY <1>1 DEF Sound, Counted, OthersKept
<1>6. Clients(R)
  BY <1>1 DEF Sound, Clients, Within, OthersKept, Generations
<1>7. Sent(R, c, n)
  BY <1>2 DEF Sound, Sent, Awaited, OthersKept
<1>8. \A x \in Out(S, c, n) : x.owner \in Generations
  BY <1>1, OutItems DEF Item
<1>9. Logins(R, c, n)
  BY <1>2, <1>8 DEF Sound, Logins, OthersKept
<1>10. Chances(R)
  BY DEF Sound, Chances, OthersKept
<1> QED
  BY <1>5, <1>6, <1>7, <1>9, <1>10 DEF Sound

\* A client makes a request: one of its game, an unlock, or the login of a
\* client that has made none.
LEMMA SoundRequest ==
  ASSUME NEW S, NEW c, NEW n, NEW R, NEW g \in Generations,
         Sound(S, c, n), R \in Service, Within(S, R), OthersKept(S, R, g),
         NEW item \in Item, IsHttp(item), item.owner = g,
         R.work = Append(S.work, item), g \in S.sessions,
         R.session[g].pending = S.session[g].pending + 1,
         S.session[g].retired => R.session[g].retired,
         R.session[g].award = "sent" => S.session[g].award = "sent" \/ item.kind = "Award",
         R.session[g].award = "cancelled" => R.session[g].last_chance,
         \/ item.kind # "Login" /\ R.session[g].login = S.session[g].login
         \/ S.session[g].pending = 0 /\ R.session[g].login = item.user,
         R.session[g].login # None => R.session[g].user = None,
         R.session[g].user = None => R.session[g].load = "none"
  PROVE  Sound(R, c, n)
<1>1. /\ S \in Service /\ S.work \in Seq(Item) /\ R.active = S.active /\ S.generation \in Nat
      /\ R.sessions = S.sessions /\ R.generation = S.generation
      /\ g <= S.generation /\ c \in Outcomes /\ n \in 0..Len(c)
  BY DEF Sound, Service, Within, Generations, Clients
<1>2. Out(R, c, n) = Out(S, c, n) \cup {item}
  BY <1>1, OutAppend
<1>3. \A h \in Generations : Cardinality(Owing(R.work, h)) =
         Cardinality(Owing(S.work, h)) + (IF h = g THEN 1 ELSE 0)
  BY <1>1, OwingAppend, OwingFinite
<1>4. \A h \in Generations :
        /\ Cardinality(Owing(S.work, h)) \in Nat /\ Cardinality(Answered(c, n, h)) \in Nat
        /\ Holding(S.active, h) \in Nat
  BY <1>1, OwingFinite, AnsweredFinite DEF Holding
<1>5. Counted(R, c, n)
  <2> SUFFICES ASSUME NEW h \in Generations
               PROVE  R.session[h].pending =
                        Cardinality(Owing(R.work, h)) + Cardinality(Answered(c, n, h)) + Holding(R.active, h)
    BY DEF Counted
  <2>1. S.session[h].pending =
          Cardinality(Owing(S.work, h)) + Cardinality(Answered(c, n, h)) + Holding(S.active, h)
    BY DEF Sound, Counted
  <2>2. CASE h = g
    BY <1>1, <1>3, <1>4, <2>1, <2>2
  <2>3. CASE h # g
    BY <1>1, <1>3, <1>4, <2>1, <2>3, SMTT(60) DEF OthersKept
  <2> QED  BY <2>2, <2>3
<1>6. Clients(R)
  <2>1. Clients(S) /\ g \in 0..S.generation
    BY <1>1 DEF Sound, Generations
  <2>2. \A h \in Generations : R.session[h].pending # 0 => h \in R.sessions
    BY <1>1, <2>1 DEF Clients, OthersKept
  <2>3. \A h \in Generations : h < R.generation => R.session[h].retired
    BY <1>1, <2>1 DEF Clients, OthersKept
  <2>4. \A h \in Generations : h > R.generation => R.session[h] = NewSession
    BY <1>1, <2>1 DEF Clients, OthersKept, Generations
  <2> QED  BY <1>1, <2>1, <2>2, <2>3, <2>4 DEF Clients
<1>7. Sent(R, c, n)
  BY <1>2 DEF Sound, Sent, Awaited, OthersKept
<1>8. \A x \in Out(S, c, n) : x.owner \in Generations
  BY <1>1, OutItems DEF Item
<1>9. ASSUME NEW x \in Out(S, c, n), IsHttp(x), x.owner = g  PROVE S.session[g].pending # 0
  <2>1. CASE \E i \in DOMAIN S.work : x = S.work[i]
    <3>1. PICK i \in DOMAIN S.work : x = S.work[i]
      BY <2>1
    <3>2. Owing(S.work, g) # {}
      BY <1>9, <3>1 DEF Owing
    <3>3. Cardinality(Owing(S.work, g)) # 0
      BY <1>1, <3>2, OwingFinite, FS_EmptySet
    <3> QED  BY <1>4, <3>3 DEF Sound, Counted
  <2>2. CASE x = S.active /\ S.active # None
    <3>1. Holding(S.active, g) = 1
      BY <1>9, <2>2 DEF Holding
    <3> QED  BY <1>4, <3>1 DEF Sound, Counted
  <2>3. CASE \E i \in (n + 1)..Len(c) : x = c[i].item
    <3>1. PICK i \in (n + 1)..Len(c) : x = c[i].item
      BY <2>3
    <3>2. Answered(c, n, g) # {}
      BY <1>9, <3>1 DEF Answered
    <3>3. Cardinality(Answered(c, n, g)) # 0
      BY <1>1, <3>2, AnsweredFinite, FS_EmptySet
    <3> QED  BY <1>4, <3>3 DEF Sound, Counted
  <2> QED  BY <1>9, <2>1, <2>2, <2>3 DEF Out
<1>10. Logins(R, c, n)
  <2>1. \A h \in Generations :
          /\ R.session[h].login # None => R.session[h].user = None
          /\ R.session[h].user = None => R.session[h].load = "none"
    BY DEF Sound, Logins, OthersKept
  <2>2. ASSUME NEW x \in Out(R, c, n), x.kind = "Login"
        PROVE  R.session[x.owner].login \in {None, x.user}
    <3>1. CASE x = item
      BY <2>2, <3>1
    <3>2. CASE x \in Out(S, c, n) /\ x.owner = g
      <4>1. S.session[g].pending # 0
        BY <1>9, <2>2, <3>2 DEF IsHttp
      <4> QED  BY <2>2, <3>2, <4>1 DEF Sound, Logins
    <3>3. CASE x \in Out(S, c, n) /\ x.owner # g
      BY <1>8, <2>2, <3>3 DEF Sound, Logins, OthersKept
    <3> QED  BY <1>2, <3>1, <3>2, <3>3
  <2> QED  BY <2>1, <2>2 DEF Logins
<1>11. Chances(R)
  BY DEF Sound, Chances, OthersKept
<1> QED
  BY <1>5, <1>6, <1>7, <1>10, <1>11 DEF Sound

\* R differs from S in its clients only, of which some may have gone or come.
Besides(S, R) ==
  /\ R.commands = S.commands /\ R.completed = S.completed /\ R.active = S.active
  /\ R.stopping = S.stopping /\ R.stop_worker = S.stop_worker
  /\ R.live_game = S.live_game /\ R.hash = S.hash /\ R.work = S.work

\* What is left of a client that was destroyed.
Remains(s) == [NewSession EXCEPT !.retired = TRUE, !.pending = s.pending, !.award = s.award,
                                 !.last_chance = s.last_chance]

\* CollectSessions leaves a destroyed client's counter and unlock.
LEMMA CollectEffect ==
  ASSUME NEW S \in Service, NEW R, R = CollectSessions(S)
  PROVE  /\ R \in Service /\ Besides(S, R) /\ SameView(S, R) /\ R.generation = S.generation
         /\ R.sessions = {g \in S.sessions : ~Destroyed(S, g)}
         /\ \A g \in Generations :
              R.session[g] = IF g \in S.sessions /\ Destroyed(S, g)
                             THEN Remains(S.session[g])
                             ELSE S.session[g]
<1> DEFINE ses == [g \in Generations |->
              IF g \in S.sessions /\ Destroyed(S, g)
              THEN [NewSession EXCEPT !.retired = TRUE, !.pending = S.session[g].pending,
                                      !.award = S.session[g].award,
                                      !.last_chance = S.session[g].last_chance]
              ELSE S.session[g]]
           left == {g \in S.sessions : ~Destroyed(S, g)}
<1>1. ses \in [Generations -> Session]
  BY DEF Service, Session, NewSession
<1>2. left \in SUBSET Generations
  BY DEF Service
<1>3. R = [S EXCEPT !.sessions = left, !.session = ses]
  BY DEF CollectSessions
<1>6. \A g \in Generations : ses[g] = IF g \in S.sessions /\ Destroyed(S, g)
                                    THEN Remains(S.session[g]) ELSE S.session[g]
  BY DEF Remains
<1> HIDE DEF ses
<1>4. R \in Service
  BY <1>1, <1>2, <1>3, ZenonT(60) DEF Service
<1>5. Besides(S, R) /\ SameView(S, R) /\ R.generation = S.generation /\ R.sessions = left /\ R.session = ses
  BY <1>3 DEF Service, Besides, SameView
<1> QED
  BY <1>4, <1>5, <1>6

\* A client without requests can be destroyed.
LEMMA SoundCollect ==
  ASSUME NEW S, NEW c, NEW n, Sound(S, c, n),
         NEW R, R = CollectSessions(S)
  PROVE  /\ R \in Service /\ Besides(S, R) /\ SameView(S, R) /\ R.generation = S.generation
         /\ Sound(R, c, n) /\ Current(R) = Current(S)
         /\ S.generation \in S.sessions => R.generation \in R.sessions
         /\ \A g \in Generations : /\ R.session[g].award = S.session[g].award
                                   /\ R.session[g].retired = S.session[g].retired
                                   /\ R.session[g].pending = S.session[g].pending
<1>1. S \in Service /\ c \in Outcomes /\ n \in 0..Len(c)
  BY DEF Sound
<1>2. /\ R \in Service /\ Besides(S, R) /\ SameView(S, R) /\ R.generation = S.generation
      /\ R.sessions = {g \in S.sessions : ~Destroyed(S, g)}
      /\ \A g \in Generations :
           R.session[g] = IF g \in S.sessions /\ Destroyed(S, g)
                             THEN Remains(S.session[g])
                             ELSE S.session[g]
  BY <1>1, CollectEffect
<1>3. \A g \in Generations : S.session[g] \in Session
  BY <1>1 DEF Service
<1>4. \A g \in Generations : /\ R.session[g].award = S.session[g].award
                             /\ R.session[g].last_chance = S.session[g].last_chance
                             /\ R.session[g].retired = S.session[g].retired
                             /\ R.session[g].pending = S.session[g].pending
                             /\ R.session[g].login \in {None, S.session[g].login}
                             /\ \/ R.session[g] = S.session[g]
                                \/ R.session[g].login = None /\ R.session[g].load = "none"
  <2> SUFFICES ASSUME NEW g \in Generations
               PROVE  /\ R.session[g].award = S.session[g].award
                      /\ R.session[g].last_chance = S.session[g].last_chance
                      /\ R.session[g].retired = S.session[g].retired
                      /\ R.session[g].pending = S.session[g].pending
                      /\ R.session[g].login \in {None, S.session[g].login}
                      /\ \/ R.session[g] = S.session[g]
                         \/ R.session[g].login = None /\ R.session[g].load = "none"
    OBVIOUS
  <2>1. S.session[g] \in Session
    BY <1>3
  <2>2. CASE g \in S.sessions /\ Destroyed(S, g)
    <3>1. R.session[g] = Remains(S.session[g]) /\ S.session[g].retired
      BY <1>2, <2>2 DEF Destroyed
    <3>2. \A x \in Session :
            /\ Remains(x).last_chance = x.last_chance
            /\ Remains(x).award = x.award /\ Remains(x).retired /\ Remains(x).pending = x.pending
            /\ Remains(x).login = None /\ Remains(x).load = "none"
      BY DEF Remains, NewSession
    <3>3. /\ Remains(S.session[g]).last_chance = S.session[g].last_chance
          /\ Remains(S.session[g]).award = S.session[g].award /\ Remains(S.session[g]).retired
          /\ Remains(S.session[g]).pending = S.session[g].pending
          /\ Remains(S.session[g]).login = None /\ Remains(S.session[g]).load = "none"
      BY <2>1, <3>2
    <3>4. S.session[g].retired = TRUE /\ Remains(S.session[g]).retired = TRUE
      BY <2>1, <3>1 DEF Session, Remains, NewSession
    <3> QED  BY <3>1, <3>3, <3>4
  <2>3. CASE ~(g \in S.sessions /\ Destroyed(S, g))
    BY <1>2, <2>3
  <2> QED  BY <2>2, <2>3
<1>5. S.generation \in Generations
  BY <1>1 DEF Service
<1>6. R.session[S.generation] = S.session[S.generation]
  BY <1>2, <1>5 DEF Destroyed
<1>7. Out(R, c, n) = Out(S, c, n)
  <2>1. R.work = S.work /\ R.active = S.active
    BY <1>2 DEF Besides
  <2> QED  BY <2>1 DEF Out
<1>8. Counted(R, c, n)
  BY <1>2, <1>4 DEF Sound, Counted, Besides
<1>9. Clients(R)
  <2>1. \A g \in Generations : R.session[g].pending # 0 => g \in R.sessions
    BY <1>2, <1>4 DEF Sound, Clients, Destroyed
  <2>2. ASSUME NEW g \in Generations, g > S.generation  PROVE R.session[g] = NewSession
    <3>1. g \notin S.sessions
      BY <1>5, <2>2 DEF Sound, Clients, Generations
    <3>2. S.session[g] = NewSession
      BY <2>2 DEF Sound, Clients
    <3> QED  BY <1>2, <3>1, <3>2
  <2> QED  BY <1>2, <1>4, <2>1, <2>2 DEF Sound, Clients
<1>10. Sent(R, c, n)
  BY <1>4, <1>7 DEF Sound, Sent, Awaited
<1>11. \A x \in Out(S, c, n) : x.owner \in Generations
  BY <1>1, OutItems DEF Item
<1>12. Logins(R, c, n)
  <2>1. \A g \in Generations :
          /\ R.session[g].login # None => R.session[g].user = None
          /\ R.session[g].user = None => R.session[g].load = "none"
    BY <1>4 DEF Sound, Logins
  <2>2. \A x \in Out(R, c, n) : x.kind = "Login" => R.session[x.owner].login \in {None, x.user}
    BY <1>4, <1>7, <1>11 DEF Sound, Logins
  <2> QED  BY <2>1, <2>2 DEF Logins
<1>15. Chances(R)
  BY <1>4 DEF Sound, Chances
<1>13. Sound(R, c, n)
  BY <1>2, <1>8, <1>9, <1>10, <1>12, <1>15 DEF Sound
<1>14. S.generation \in S.sessions => R.generation \in R.sessions
  BY <1>2 DEF Destroyed
<1> QED
  BY <1>2, <1>4, <1>6, <1>13, <1>14 DEF Current

\* The client of the next generation.
NextClient(S) == [S EXCEPT !.generation = @ + 1, !.sessions = @ \cup {S.generation + 1}]

\* A new client, when the old one is retired.
LEMMA SoundNextClient ==
  ASSUME NEW S, NEW c, NEW n, Sound(S, c, n),
         Current(S).retired, S.generation < MaxGeneration,
         NEW R, R = NextClient(S)
  PROVE  /\ R \in Service /\ Besides(S, R) /\ SameView(S, R) /\ Sound(R, c, n)
         /\ R.generation = S.generation + 1 /\ R.generation \in R.sessions
         /\ R.session = S.session
         /\ Current(R) = NewSession
<1>0. MaxGeneration \in Nat
  BY BoundsAssumption
<1>1. S \in Service /\ S.generation \in Nat
  BY DEF Sound, Service, Generations
<1>2. S.generation + 1 \in Generations /\ S.sessions \cup {S.generation + 1} \in SUBSET Generations
  BY <1>0, <1>1 DEF Service, Generations
<1>3. R = [S EXCEPT !.generation = S.generation + 1, !.sessions = S.sessions \cup {S.generation + 1}]
  BY DEF NextClient
<1>4. R \in Service
  BY <1>1, <1>2, <1>3, ZenonT(60) DEF Service
<1>5. /\ Besides(S, R) /\ SameView(S, R) /\ R.generation = S.generation + 1
      /\ R.sessions = S.sessions \cup {S.generation + 1} /\ R.session = S.session
  BY <1>1, <1>3 DEF Service, Besides, SameView
<1>6. Out(R, c, n) = Out(S, c, n)
  BY <1>5 DEF Out, Besides
<1>7. Counted(R, c, n)
  BY <1>5 DEF Sound, Counted, Besides
<1>8. Clients(R)
  <2>1. \A g \in Generations : g < S.generation + 1 => S.session[g].retired
    BY <1>1 DEF Sound, Clients, Generations, Current
  <2>2. \A g \in Generations : g > S.generation + 1 => S.session[g] = NewSession
    BY <1>1 DEF Sound, Clients, Generations
  <2>3. S.sessions \cup {S.generation + 1} \subseteq 0..(S.generation + 1)
    BY <1>1 DEF Sound, Clients
  <2> QED  BY <1>5, <2>1, <2>2, <2>3 DEF Sound, Clients
<1>9. Sent(R, c, n)
  BY <1>5, <1>6 DEF Sound, Sent, Awaited
<1>10. Logins(R, c, n)
  BY <1>5, <1>6 DEF Sound, Logins
<1>11. Current(R) = NewSession
  BY <1>1, <1>2, <1>5 DEF Sound, Clients, Current
<1>12. Chances(R)
  BY <1>5 DEF Sound, Chances
<1> QED
  BY <1>4, <1>5, <1>7, <1>8, <1>9, <1>10, <1>11, <1>12 DEF Sound

-----------------------------------------------------------------------------
(* Retries, the account and the credentials *)

\* Only of the clients in X may a retired one have a retry scheduled.
Retries(S, X) ==
  \A g \in Generations \ X : S.session[g].retired => S.session[g].award # "scheduled"

\* The account of the current client is that of the last command, k.
Known(S, k) ==
  ~S.stopping =>
    /\ Current(S).login # None =>
         ~k.logout /\ k.username = Current(S).login /\ k.remember = S.remember
    /\ Current(S).user # None =>
         ~k.logout /\ k.username = Current(S).user /\ k.remember = S.remember

\* The credentials that command k may leave.
Fits(k, u) == ~k.logout /\ k.remember /\ u = k.username

\* Credentials that do not fit are removed by work that is queued, and after
\* the work that would save them.
Kept(S, k, cr) ==
  /\ (cr # None /\ ~Fits(k, cr)) =>
       \/ S.active # None /\ S.active.kind = "Remove"
       \/ \E j \in DOMAIN S.work : S.work[j].kind = "Remove"
  /\ (S.active # None /\ S.active.kind = "Save" /\ ~Fits(k, S.active.user)) =>
       \E j \in DOMAIN S.work : S.work[j].kind = "Remove"
  /\ \A i \in DOMAIN S.work : (S.work[i].kind = "Save" /\ ~Fits(k, S.work[i].user)) =>
       \E j \in DOMAIN S.work : j > i /\ S.work[j].kind = "Remove"

Good(S, c, n, k, cr, X) ==
  /\ Sound(S, c, n)
  /\ Retries(S, X)
  /\ Known(S, k)
  /\ Kept(S, k, cr)

\* R has more requests queued than S.
Prolongs(S, R) ==
  /\ Len(R.work) >= Len(S.work)
  /\ \A i \in 1..Len(S.work) : R.work[i] = S.work[i]
  /\ \A i \in (Len(S.work) + 1)..Len(R.work) : IsHttp(R.work[i])

LEMMA ProlongsSame ==
  ASSUME NEW S \in Service, NEW R, R.work = S.work
  PROVE  Prolongs(S, R)
BY DEF Prolongs, Service

LEMMA ProlongsAppend ==
  ASSUME NEW S \in Service, NEW R, NEW item \in Item, IsHttp(item), R.work = Append(S.work, item)
  PROVE  Prolongs(S, R)
<1>1. S.work \in Seq(Item)
  BY DEF Service
<1> QED
  BY <1>1 DEF Prolongs

LEMMA ProlongsTransitive ==
  ASSUME NEW S \in Service, NEW A \in Service, NEW R \in Service, Prolongs(S, A), Prolongs(A, R)
  PROVE  Prolongs(S, R)
<1>1. Len(S.work) \in Nat /\ Len(A.work) \in Nat /\ Len(R.work) \in Nat
  BY DEF Service
<1> QED
  BY <1>1 DEF Prolongs

\* Requests do not disturb the order of saves and removals.
LEMMA KeptProlongs ==
  ASSUME NEW S \in Service, NEW R \in Service, NEW k, NEW cr,
         Kept(S, k, cr), Prolongs(S, R), R.active = S.active
  PROVE  Kept(R, k, cr)
<1>1. /\ DOMAIN S.work = 1..Len(S.work) /\ DOMAIN R.work = 1..Len(R.work)
      /\ Len(S.work) \in Nat /\ Len(R.work) \in Nat
  BY DEF Service
<1>2. DOMAIN S.work \subseteq DOMAIN R.work /\ \A i \in DOMAIN S.work : R.work[i] = S.work[i]
  BY <1>1 DEF Prolongs
<1>3. \A i \in DOMAIN R.work : R.work[i].kind = "Save" => i \in DOMAIN S.work
  BY <1>1 DEF Prolongs, IsHttp
<1> QED
  BY <1>2, <1>3 DEF Kept

\* Requests of clients leave accounts alone.
LEMMA KnownClient ==
  ASSUME NEW S \in Service, NEW R \in Service, NEW k, NEW g \in Generations, Known(S, k),
         Within(S, R), OthersKept(S, R, g), R.remember = S.remember,
         R.session[g].login \in {None, S.session[g].login}, R.session[g].user = S.session[g].user
  PROVE  Known(R, k)
<1>1. S.generation \in Generations /\ R.generation = S.generation /\ R.stopping = S.stopping
  BY DEF Within, Service
<1>2. /\ Current(R).login \in {None, Current(S).login}
      /\ Current(R).user = Current(S).user
  BY <1>1 DEF Current, OthersKept
<1> QED
  BY <1>1, <1>2 DEF Known

LEMMA RetriesClient ==
  ASSUME NEW S \in Service, NEW R \in Service, NEW X, NEW g \in Generations, Retries(S, X),
         OthersKept(S, R, g),
         R.session[g].retired /\ R.session[g].award = "scheduled" =>
           S.session[g].retired /\ S.session[g].award = "scheduled"
  PROVE  Retries(R, X)
BY DEF Retries, OthersKept

-----------------------------------------------------------------------------
(* Requests *)

LEMMA GoodCall ==
  ASSUME NEW S, NEW c, NEW n, NEW k, NEW cr, NEW X,
         Good(S, c, n, k, cr, X),
         NEW item \in Item, item.kind \in {"Load", "Data", "Unlocks"}, item.owner \in S.sessions,
         NEW R, R = ServerCall(S, item)
  PROVE  /\ R \in Service /\ Good(R, c, n, k, cr, X)
         /\ Within(S, R) /\ SameView(S, R) /\ OthersKept(S, R, item.owner) /\ Prolongs(S, R)
         /\ R.session[item.owner] = [S.session[item.owner] EXCEPT !.pending = @ + 1]
<1> DEFINE g == item.owner
<1>1. S \in Service /\ Sound(S, c, n)
  BY DEF Good, Sound
<1>2. /\ R \in Service /\ Within(S, R) /\ SameView(S, R) /\ OthersKept(S, R, item.owner)
      /\ R.session[item.owner] = [S.session[item.owner] EXCEPT !.pending = @ + 1]
      /\ R.work = Append(S.work, item)
  BY <1>1, ServerCallEffect
<1>3. IsHttp(item) /\ g \in Generations /\ item.kind # "Login" /\ item.kind # "Award"
  BY DEF IsHttp, Item
<1>4. S.session[g] \in Session
  BY <1>1, <1>3 DEF Service
<1>5. /\ R.session[g].pending = S.session[g].pending + 1
      /\ R.session[g].retired = S.session[g].retired
      /\ R.session[g].award = S.session[g].award
      /\ R.session[g].last_chance = S.session[g].last_chance
      /\ R.session[g].login = S.session[g].login
      /\ R.session[g].user = S.session[g].user
      /\ R.session[g].load = S.session[g].load
  BY <1>2, <1>4 DEF Session
<1>13. S.session[g].award = "cancelled" => S.session[g].last_chance
  BY <1>1, <1>3 DEF Sound, Chances
<1>6. /\ S.session[g].login # None => S.session[g].user = None
      /\ S.session[g].user = None => S.session[g].load = "none"
  BY <1>1, <1>3 DEF Sound, Logins
<1> HIDE DEF g
<1>7. Sound(R, c, n)
  <2>1. OthersKept(S, R, g) /\ item.owner = g /\ g \in S.sessions
    BY <1>2 DEF g
  <2> QED  BY <1>1, <1>2, <1>3, <1>5, <1>6, <1>13, <2>1, SoundRequest
<1>8. Prolongs(S, R)
  BY <1>1, <1>2, <1>3, ProlongsAppend
<1>9. Kept(R, k, cr)
  BY <1>1, <1>2, <1>8, KeptProlongs DEF Good, Within
<1>10. OthersKept(S, R, g)
  BY <1>2 DEF g
<1>11. Known(R, k)
  BY <1>1, <1>2, <1>3, <1>5, <1>10, KnownClient DEF Good, SameView
<1>12. Retries(R, X)
  BY <1>1, <1>2, <1>3, <1>5, <1>10, RetriesClient DEF Good
<1> QED
  BY <1>2, <1>7, <1>8, <1>9, <1>11, <1>12 DEF Good

\* R is S after client g may have asked for something.
Asks(S, R, g) ==
  /\ Within(S, R) /\ SameView(S, R) /\ OthersKept(S, R, g) /\ Prolongs(S, R)
  /\ R.session[g].login = S.session[g].login /\ R.session[g].user = S.session[g].user
  /\ R.session[g].load = S.session[g].load /\ R.session[g].retired = S.session[g].retired
  /\ R.session[g].pending >= S.session[g].pending

\* The achievement of client g is settled or on its way in R.
Resent(S, R, g) ==
  /\ R.session[g].award # "scheduled"
  /\ R.session[g].award = "sent" =>
       Append(S.work, Http("Award", g, S.session[g].user, 0)) = R.work

\* A submission, by a client that may make it.
LEMMA GoodSubmit ==
  ASSUME NEW S, NEW c, NEW n, NEW k, NEW cr, NEW X,
         NEW g \in Generations, NEW allow,
         Good(S, c, n, k, cr, X), g \in S.sessions,
         S.session[g].retired /\ ~allow => S.session[g].last_chance,
         NEW R, R = Submit(S, g, allow)
  PROVE  /\ R \in Service /\ Good(R, c, n, k, cr, X \ {g})
         /\ Asks(S, R, g) /\ Resent(S, R, g)
<1> DEFINE item == Http("Award", g, S.session[g].user, 0)
<1>1. S \in Service /\ Sound(S, c, n)
  BY DEF Good, Sound
<1>2. /\ R \in Service /\ Within(S, R) /\ SameView(S, R) /\ OthersKept(S, R, g)
  BY <1>1, SubmitEffect
<1>4. S.session[g] \in Session /\ g <= S.generation
  BY <1>1 DEF Service, Sound, Clients
<1>5. item \in Item /\ item.owner = g /\ item.kind = "Award" /\ IsHttp(item)
  BY <1>4 DEF Item, Http, Serials, Session, IsHttp
<1> HIDE DEF item
<1>6. /\ R.session[g].retired = S.session[g].retired
      /\ R.session[g].login = S.session[g].login
      /\ R.session[g].user = S.session[g].user
      /\ R.session[g].load = S.session[g].load
      /\ R.session[g].last_chance = S.session[g].last_chance
      /\ \/ /\ R.session[g].award = "cancelled" /\ R.session[g].pending = S.session[g].pending
            /\ R.work = S.work /\ S.session[g].retired /\ ~allow
         \/ /\ R.session[g].award = "sent" /\ R.session[g].pending = S.session[g].pending + 1
            /\ R.work = Append(S.work, item)
  BY <1>1, SubmitEffect DEF item
<1>7. /\ S.session[g].login # None => S.session[g].user = None
      /\ S.session[g].user = None => S.session[g].load = "none"
  BY <1>1 DEF Sound, Logins
<1>8. Sound(R, c, n)
  <2>1. CASE R.work = S.work /\ R.session[g].award = "cancelled" /\ S.session[g].last_chance /\ R.session[g].pending = S.session[g].pending
    BY <1>1, <1>2, <1>4, <1>6, <1>7, <2>1, SoundSession
  <2>2. CASE R.session[g].award = "sent" /\ R.session[g].pending = S.session[g].pending + 1
            /\ R.work = Append(S.work, item)
    BY <1>1, <1>2, <1>5, <1>6, <1>7, <2>2, SoundRequest
  <2> QED  BY <1>6, <2>1, <2>2
<1>9. Prolongs(S, R)
  BY <1>1, <1>5, <1>6, ProlongsAppend, ProlongsSame
<1>10. Kept(R, k, cr)
  BY <1>1, <1>2, <1>9, KeptProlongs DEF Good, Within
<1>11. Known(R, k)
  BY <1>1, <1>2, <1>6, KnownClient DEF Good, SameView
<1>12. Retries(R, X \ {g})
  BY <1>2, <1>6 DEF Good, Retries, OthersKept
<1>13. S.session[g].pending \in Nat
  BY <1>4 DEF Session
<1> QED
  BY <1>2, <1>6, <1>8, <1>9, <1>10, <1>11, <1>12, <1>13 DEF Good, Asks, Resent, item

\* More clients may have retries to flush.
LEMMA GoodWider ==
  ASSUME NEW S, NEW c, NEW n, NEW k, NEW cr, NEW X, NEW Y,
         Good(S, c, n, k, cr, X), X \subseteq Y
  PROVE  Good(S, c, n, k, cr, Y)
BY DEF Good, Retries

\* Whether a retry is scheduled or not, none is afterwards.
Flushed(S, R, g) == Resent(S, R, g) \/ R = S

\* After flush_retired the client has no retry scheduled.
LEMMA GoodFlush ==
  ASSUME NEW S, NEW c, NEW n, NEW k, NEW cr, NEW X,
         NEW g \in Generations, NEW submit_scheduled,
         Good(S, c, n, k, cr, X), g \in S.sessions,
         S.session[g].award = "scheduled" /\ S.session[g].retired /\ ~submit_scheduled =>
           S.session[g].last_chance,
         NEW R, R = FlushRetired(S, g, submit_scheduled)
  PROVE  /\ R \in Service /\ Good(R, c, n, k, cr, X \ {g})
         /\ Asks(S, R, g) /\ Flushed(S, R, g)
<1>1. S \in Service
  BY DEF Good, Sound
<1>2. CASE S.session[g].award = "scheduled"
  <2>1. R = Submit(S, g, submit_scheduled)
    BY <1>2 DEF FlushRetired
  <2> QED  BY <1>2, <2>1, GoodSubmit DEF Flushed
<1>3. CASE S.session[g].award # "scheduled"
  <2>1. R = S
    BY <1>3 DEF FlushRetired
  <2>2. Retries(S, X \ {g})
    BY <1>3 DEF Good, Retries
  <2>3. Good(R, c, n, k, cr, X \ {g})
    BY <2>1, <2>2 DEF Good
  <2>4. S.session[g].pending \in Nat
    BY <1>1 DEF Service, Session
  <2>5. Asks(S, R, g)
    BY <1>1, <2>1, <2>4, ProlongsSame DEF Within, SameView, OthersKept, Asks
  <2> QED  BY <1>1, <2>1, <2>3, <2>5 DEF Flushed
<1> QED
  BY <1>2, <1>3

\* The current client is retired, with nothing of its own left to begin.
LEMMA GoodRetire ==
  ASSUME NEW S, NEW c, NEW n, NEW k, NEW cr, NEW X,
         Good(S, c, n, k, cr, X), S.generation \in S.sessions,
         NEW R, R = RetireCurrent(S)
  PROVE  /\ R \in Service /\ Good(R, c, n, k, cr, X)
         /\ Within(S, R) /\ SameView(S, R) /\ Prolongs(S, R)
         /\ Current(R).retired
         /\ Current(R).login \in {None, Current(S).login} /\ Current(R).user = Current(S).user
         /\ Current(R).load \in {"none", Current(S).load}
<1> DEFINE g == S.generation
           ses == [S.session[g] EXCEPT !.retired = TRUE, !.login = None,
                     !.load = IF @ = "loaded" THEN @ ELSE "none"]
           A == WithSession(S, g, ses)
           flushing == TRUE
<1>1. S \in Service /\ g \in Generations /\ S.session[g] \in Session
  BY DEF Good, Sound, Service
<1>2. CASE S.session[g].retired
  <2>1. R = S
    BY <1>2 DEF RetireCurrent, Current
  <2> QED  BY <1>1, <1>2, <2>1, ProlongsSame DEF Current, Within, SameView
<1>3. CASE ~S.session[g].retired
  <2>1. ses \in Session
    BY <1>1 DEF Session
  <2>2. R = FlushRetired(A, g, flushing) /\ flushing
    <3>1. A = [S EXCEPT !.session[S.generation].retired = TRUE,
                        !.session[S.generation].login = None,
                        !.session[S.generation].load = IF @ = "loaded" THEN @ ELSE "none"]
      BY <1>1, ZenonT(60) DEF WithSession, Service, Session
    <3> QED  BY <1>3, <3>1 DEF RetireCurrent, Current
  <2>3. /\ ses.retired /\ ses.login = None /\ ses.user = S.session[g].user
        /\ ses.load \in {"none", S.session[g].load} /\ ses.award = S.session[g].award
        /\ ses.last_chance = S.session[g].last_chance /\ ses.pending = S.session[g].pending
    BY <1>1 DEF Session
  <2> HIDE DEF ses, g, flushing
  <2>4. /\ A \in Service
        /\ Within(S, A) /\ SameView(S, A) /\ OthersKept(S, A, g)
        /\ A.session[g] = ses /\ A.work = S.work
    BY <1>1, <2>1, SessionUpdate
  <2>5. g \in S.sessions /\ g <= S.generation /\ S.generation \in Nat
    BY <1>1 DEF g, Generations
  <2> HIDE DEF A
  <2>6. /\ S.session[g].login # None => S.session[g].user = None
        /\ S.session[g].user = None => S.session[g].load = "none"
        /\ S.session[g].award = "cancelled" => S.session[g].last_chance
    BY <1>1 DEF Good, Sound, Logins, Chances
  <2>7. Sound(A, c, n)
    BY <1>1, <2>3, <2>4, <2>5, <2>6, SoundSession DEF Good
  <2>8. Prolongs(S, A)
    BY <1>1, <2>4, ProlongsSame
  <2>9. Kept(A, k, cr)
    BY <1>1, <2>4, <2>8, KeptProlongs DEF Good, Within
  <2>10. Known(A, k)
    BY <1>1, <2>3, <2>4, KnownClient DEF Good, SameView
  <2>11. Retries(A, X \cup {g})
    BY <2>4 DEF Good, Retries, OthersKept
  <2>12. Good(A, c, n, k, cr, X \cup {g}) /\ g \in A.sessions
    BY <2>4, <2>5, <2>7, <2>9, <2>10, <2>11 DEF Good, Within
  <2>13. /\ R \in Service /\ Good(R, c, n, k, cr, (X \cup {g}) \ {g})
         /\ Asks(A, R, g)
    BY <1>1, <2>2, <2>12, GoodFlush
  <2>14. Prolongs(S, R)
    BY <1>1, <2>4, <2>8, <2>13, ProlongsTransitive DEF Asks
  <2>15. Within(S, R) /\ SameView(S, R) /\ R.generation = g
    BY <2>4, <2>13 DEF Within, SameView, Asks, g
  <2>16. Good(R, c, n, k, cr, X)
    BY <2>13, GoodWider
  <2> QED  BY <2>3, <2>4, <2>13, <2>14, <2>15, <2>16 DEF Current, Asks, g
<1> QED
  BY <1>2, <1>3

-----------------------------------------------------------------------------
(* The view *)

Refreshing(S) == [owner |-> S.generation, serial |-> S.catalog_serial]

\* What is shown, and what will be, belongs to the current client.
Shown(S) ==
  /\ S.catalog # None => /\ S.catalog.data = S.catalog.unlocks
                         /\ S.catalog.data.owner = S.generation
  /\ S.catalog_busy => /\ S.catalog_data \in {None, Refreshing(S)}
                       /\ S.catalog_unlocks \in {None, Refreshing(S)}
  /\ S.notifications \subseteq {S.generation}
  /\ ~S.stopping => /\ S.game_loaded => Current(S).load = "loaded" /\ ~Current(S).retired
                    /\ Current(S).load # "none" => S.load_attempted

\* The clients of S in R, perhaps with more requests.
SameClients(S, R) ==
  \A g \in Generations :
    /\ R.session[g].award = S.session[g].award /\ R.session[g].retired = S.session[g].retired
    /\ R.session[g].login = S.session[g].login /\ R.session[g].user = S.session[g].user
    /\ R.session[g].load = S.session[g].load
    /\ R.session[g].pending >= S.session[g].pending

\* R differs from S in the view only.
Looks(S, R) ==
  Within(S, R) /\ R.session = S.session /\ R.work = S.work /\ R.remember = S.remember

Calls(S, R) == Within(S, R) /\ SameView(S, R) /\ Prolongs(S, R) /\ SameClients(S, R)

\* Changes to the view.
LEMMA GoodLooks ==
  ASSUME NEW S, NEW c, NEW n, NEW k, NEW cr, NEW X, Good(S, c, n, k, cr, X),
         NEW R \in Service, Looks(S, R)
  PROVE  Good(R, c, n, k, cr, X) /\ Prolongs(S, R) /\ SameClients(S, R)
<1>1. S \in Service /\ Sound(S, c, n)
  BY DEF Good, Sound
<1>2. Sound(R, c, n)
  BY <1>1, SoundView DEF Looks
<1>3. Prolongs(S, R)
  BY <1>1, ProlongsSame DEF Looks
<1>4. Kept(R, k, cr)
  BY <1>1, <1>3, KeptProlongs DEF Good, Looks, Within
<1>5. Known(R, k)
  BY DEF Good, Looks, Known, Current, Within
<1>6. Retries(R, X)
  BY DEF Good, Looks, Retries
<1>7. SameClients(S, R)
  BY <1>1 DEF SameClients, Looks, Service, Session
<1> QED
  BY <1>2, <1>3, <1>4, <1>5, <1>6, <1>7 DEF Good

LEMMA ShownCalls ==
  ASSUME NEW S \in Service, NEW R \in Service, Shown(S), Calls(S, R)
  PROVE  Shown(R)
BY DEF Shown, Calls, Within, SameView, SameClients, Current, Refreshing, Service

LEMMA CallsCall ==
  ASSUME NEW S, NEW c, NEW n, NEW k, NEW cr, NEW X,
         Good(S, c, n, k, cr, X),
         NEW item \in Item, item.kind \in {"Load", "Data", "Unlocks"}, item.owner \in S.sessions,
         NEW R, R = ServerCall(S, item)
  PROVE  R \in Service /\ Good(R, c, n, k, cr, X) /\ Calls(S, R)
<1>1. S \in Service
  BY DEF Good, Sound
<1>2. /\ R \in Service /\ Good(R, c, n, k, cr, X)
      /\ Within(S, R) /\ SameView(S, R) /\ OthersKept(S, R, item.owner) /\ Prolongs(S, R)
      /\ R.session[item.owner] = [S.session[item.owner] EXCEPT !.pending = @ + 1]
  BY GoodCall
<1>3. \A g \in Generations : S.session[g] \in Session
  BY <1>1 DEF Service
<1>4. SameClients(S, R)
  <2> SUFFICES ASSUME NEW g \in Generations
               PROVE /\ R.session[g].award = S.session[g].award /\ R.session[g].retired = S.session[g].retired
                     /\ R.session[g].login = S.session[g].login /\ R.session[g].user = S.session[g].user
                     /\ R.session[g].load = S.session[g].load
                     /\ R.session[g].pending >= S.session[g].pending
    BY DEF SameClients
  <2>1. CASE g = item.owner
    BY <1>2, <1>3, <2>1 DEF Session
  <2>2. CASE g # item.owner
    BY <1>2, <1>3, <2>2 DEF Session, OthersKept
  <2> QED  BY <2>1, <2>2
<1> QED
  BY <1>2, <1>4 DEF Calls

LEMMA CallsTransitive ==
  ASSUME NEW S \in Service, NEW A \in Service, NEW R \in Service, Calls(S, A), Calls(A, R)
  PROVE  Calls(S, R)
<1>1. Prolongs(S, R)
  BY ProlongsTransitive DEF Calls
<1>2. \A g \in Generations : /\ S.session[g].pending \in Nat /\ A.session[g].pending \in Nat
                             /\ R.session[g].pending \in Nat
  BY DEF Service, Session
<1>3. SameClients(S, R)
  BY <1>2 DEF Calls, SameClients
<1>4. Within(S, R) /\ SameView(S, R)
  BY DEF Calls, Within, SameView
<1> QED
  BY <1>1, <1>3, <1>4 DEF Calls

\* What begin_catalog leaves alone.
Browses(S, R) ==
  /\ Within(S, R) /\ Prolongs(S, R) /\ SameClients(S, R)
  /\ R.remember = S.remember /\ R.token_login = S.token_login /\ R.busy = S.busy
  /\ R.game_loaded = S.game_loaded /\ R.load_attempted = S.load_attempted

\* begin_catalog: two requests, or nothing.
LEMMA GoodBeginCatalog ==
  ASSUME NEW S, NEW c, NEW n, NEW k, NEW cr, NEW X,
         Good(S, c, n, k, cr, X), Shown(S), S.stopping \/ S.generation \in S.sessions,
         NEW R, R = BeginCatalog(S)
  PROVE  R \in Service /\ Good(R, c, n, k, cr, X) /\ Shown(R) /\ Browses(S, R)
<1> DEFINE serial == S.catalog_serial + 1
           A == [S EXCEPT !.catalog_serial = serial, !.catalog_busy = TRUE,
                          !.catalog_data = None, !.catalog_unlocks = None]
           data == Http("Data", A.generation, Current(A).user, A.catalog_serial)
           unlocks == Http("Unlocks", A.generation, Current(A).user, A.catalog_serial)
           B == ServerCall(A, data)
<1>1. S \in Service /\ S.generation \in Generations /\ S.catalog_serial \in Nat
  BY DEF Good, Sound, Service, Serials
<1>2. CASE S.stopping \/ Current(S).retired \/ S.catalog_busy \/ Current(S).user = None
  <2>1. R = S
    BY <1>2 DEF BeginCatalog
  <2>2. Looks(S, S)
    BY DEF Looks, Within
  <2> QED  BY <1>1, <2>1, <2>2, GoodLooks DEF Browses, Looks
<1>3. CASE ~(S.stopping \/ Current(S).retired \/ S.catalog_busy \/ Current(S).user = None)
  <2>1. R = ServerCall(B, unlocks)
    BY <1>3 DEF BeginCatalog
  <2>2. serial \in Serials
    BY <1>1 DEF Serials
  <2>3. A \in Service
    BY <1>1, <2>2, ZenonT(60) DEF Service
  <2>4. /\ Looks(S, A) /\ A.catalog_serial = serial /\ A.catalog_data = None /\ A.catalog_unlocks = None
        /\ A.catalog = S.catalog /\ A.notifications = S.notifications
        /\ A.token_login = S.token_login /\ A.busy = S.busy
        /\ A.game_loaded = S.game_loaded /\ A.load_attempted = S.load_attempted
    BY <1>1 DEF Service, Looks, Within
  <2> HIDE DEF A
  <2>5. Shown(A)
    BY <2>4 DEF Shown, Looks, Within, Current
  <2>6. Good(A, c, n, k, cr, X) /\ Prolongs(S, A) /\ SameClients(S, A)
    BY <2>3, <2>4, GoodLooks
  <2>7. A.generation = S.generation /\ A.sessions = S.sessions /\ S.generation \in S.sessions
    BY <1>3, <2>4 DEF Looks, Within
  <2>8. Current(A).user \in Accounts \cup {None}
    BY <1>1, <2>3, <2>7 DEF Service, Session, Current
  <2>9. /\ data \in Item /\ data.kind = "Data" /\ data.owner = S.generation
        /\ unlocks \in Item /\ unlocks.kind = "Unlocks" /\ unlocks.owner = S.generation
    BY <1>1, <2>2, <2>4, <2>7, <2>8 DEF Http, Item
  <2> HIDE DEF data, unlocks
  <2>10. data.owner \in A.sessions
    BY <2>7, <2>9
  <2>11. B \in Service /\ Good(B, c, n, k, cr, X) /\ Calls(A, B)
    BY <2>6, <2>9, <2>10, CallsCall
  <2> HIDE DEF B
  <2>12. unlocks.owner \in B.sessions
    BY <2>7, <2>9, <2>11 DEF Calls, Within
  <2>13. R \in Service /\ Good(R, c, n, k, cr, X) /\ Calls(B, R)
    BY <2>1, <2>9, <2>11, <2>12, CallsCall
  <2>14. Calls(A, R)
    BY <2>3, <2>11, <2>13, CallsTransitive
  <2>15. Shown(R)
    BY <2>3, <2>5, <2>13, <2>14, ShownCalls
  <2>16. Prolongs(S, R)
    BY <1>1, <2>3, <2>6, <2>13, <2>14, ProlongsTransitive DEF Calls
  <2>17. SameClients(S, R)
    <3>1. \A g \in Generations : /\ S.session[g].pending \in Nat /\ A.session[g].pending \in Nat
                                 /\ R.session[g].pending \in Nat
      BY <1>1, <2>3, <2>13 DEF Service, Session
    <3> QED  BY <2>6, <2>14, <3>1 DEF Calls, SameClients
  <2>18. Browses(S, R)
    BY <2>4, <2>14, <2>16, <2>17 DEF Browses, Looks, Calls, Within, SameView
  <2> QED  BY <2>13, <2>15, <2>18
<1> QED
  BY <1>2, <1>3

\* A client of its own for the next account: nothing of the old one is shown.
Renewed(S, R) ==
  /\ R.generation = S.generation + 1 /\ R.generation \in R.sessions
  /\ R.commands = S.commands /\ R.completed = S.completed /\ R.active = S.active
  /\ R.stopping = S.stopping /\ R.stop_worker = S.stop_worker
  /\ R.live_game = S.live_game /\ R.hash = S.hash
  /\ R.remember = S.remember /\ R.token_login = S.token_login
  /\ Prolongs(S, R)
  /\ Current(R) = NewSession

\* clear_account: the old client is retired, the next one is new.
LEMMA GoodClearAccount ==
  ASSUME NEW S, NEW c, NEW n, NEW k, NEW cr, NEW X,
         Good(S, c, n, k, cr, X), S.generation \in S.sessions, S.generation < MaxGeneration,
         NEW R, R = ClearAccount(S)
  PROVE  R \in Service /\ Good(R, c, n, k, cr, X) /\ Shown(R) /\ Renewed(S, R)
<1> DEFINE A == RetireCurrent(S)
           N == NextClient(A)
           C == CollectSessions(N)
<1>1. R = [C EXCEPT !.game_loaded = FALSE, !.busy = FALSE, !.catalog_serial = 0,
                    !.catalog = None, !.catalog_data = None, !.catalog_unlocks = None,
                    !.catalog_busy = FALSE, !.notifications = {}, !.load_attempted = FALSE]
  BY DEF ClearAccount, NextClient
<1>2. S \in Service /\ S.generation \in Nat
  BY DEF Good, Sound, Service, Generations
<1>3. /\ A \in Service /\ Good(A, c, n, k, cr, X) /\ Within(S, A) /\ SameView(S, A) /\ Prolongs(S, A)
      /\ Current(A).retired
  BY GoodRetire
<1> HIDE DEF A
<1>4. A.generation = S.generation /\ Sound(A, c, n)
  BY <1>3 DEF Within, Good
<1>5. /\ N \in Service /\ Besides(A, N) /\ SameView(A, N) /\ Sound(N, c, n)
      /\ N.generation = A.generation + 1 /\ N.generation \in N.sessions
      /\ N.session = A.session /\ Current(N) = NewSession
  BY <1>3, <1>4, SoundNextClient
<1> HIDE DEF N
<1>6. /\ C \in Service /\ Besides(N, C) /\ SameView(N, C) /\ C.generation = N.generation
      /\ Sound(C, c, n) /\ Current(C) = Current(N)
      /\ C.generation \in C.sessions
      /\ \A g \in Generations : /\ C.session[g].award = N.session[g].award
                                /\ C.session[g].retired = N.session[g].retired
  BY <1>5, SoundCollect
<1> HIDE DEF C
<1>7. Prolongs(S, C)
  <2>1. C.work = A.work
    BY <1>5, <1>6 DEF Besides
  <2>2. Prolongs(A, C)
    BY <1>3, <2>1, ProlongsSame
  <2> QED  BY <1>2, <1>3, <1>6, <2>2, ProlongsTransitive
<1>8. Kept(C, k, cr)
  <2>1. C.active = S.active /\ Kept(S, k, cr)
    BY <1>3, <1>5, <1>6 DEF Besides, Within, Good
  <2> QED  BY <1>2, <1>6, <1>7, <2>1, KeptProlongs
<1>9. Known(C, k)
  BY <1>5, <1>6 DEF Known, NewSession
<1>10. Retries(C, X)
  BY <1>3, <1>5, <1>6 DEF Good, Retries
<1>11. Good(C, c, n, k, cr, X)
  BY <1>6, <1>8, <1>9, <1>10 DEF Good
<1>12. R \in Service
  <2>1. 0 \in Serials /\ {} \in SUBSET Generations
    BY DEF Serials
  <2> QED  BY <1>1, <1>6, <2>1, ZenonT(60) DEF Service
<1>13. /\ Looks(C, R) /\ R.token_login = C.token_login /\ R.catalog = None /\ ~R.catalog_busy
       /\ R.notifications = {} /\ ~R.game_loaded
  BY <1>1, <1>6 DEF Service, Looks, Within
<1>14. Good(R, c, n, k, cr, X) /\ Prolongs(C, R)
  BY <1>11, <1>12, <1>13, GoodLooks
<1>15. Prolongs(S, R)
  BY <1>2, <1>6, <1>7, <1>12, <1>14, ProlongsTransitive
<1>16. Current(R) = NewSession
  BY <1>5, <1>6, <1>13 DEF Current, Looks, Within
<1>17. Shown(R)
  BY <1>13, <1>16 DEF Shown, NewSession
<1>18. /\ R.generation = S.generation + 1 /\ R.generation \in R.sessions
  BY <1>4, <1>5, <1>6, <1>13 DEF Looks, Within
<1>19. /\ R.commands = S.commands /\ R.completed = S.completed /\ R.active = S.active
       /\ R.stopping = S.stopping /\ R.stop_worker = S.stop_worker
       /\ R.live_game = S.live_game /\ R.hash = S.hash
  BY <1>3, <1>5, <1>6, <1>13 DEF Within, Besides, Looks
<1>20. R.remember = S.remember /\ R.token_login = S.token_login
  BY <1>3, <1>5, <1>6, <1>13 DEF SameView, Looks
<1> QED
  BY <1>12, <1>14, <1>15, <1>16, <1>17, <1>18, <1>19, <1>20 DEF Renewed

-----------------------------------------------------------------------------
(* Callbacks *)

\* An answer to half a catalogue.
LEMMA GoodCatalogResponse ==
  ASSUME NEW S, NEW c, NEW n, NEW k, NEW cr, NEW X,
         Good(S, c, n, k, cr, X), Shown(S),
         NEW item \in Item, NEW result,
         NEW R, R = CatalogResponse(S, item, result)
  PROVE  R \in Service /\ Good(R, c, n, k, cr, X) /\ Shown(R) /\ Looks(S, R)
<1> DEFINE part == [owner |-> item.owner, serial |-> item.serial]
           A == IF item.kind = "Data" THEN [S EXCEPT !.catalog_data = part]
                                      ELSE [S EXCEPT !.catalog_unlocks = part]
<1>1. S \in Service
  BY DEF Good, Sound
<1>2. part \in Part
  BY DEF Part, Item
<1>3. CASE ~Wanted(S, item)
  <2>1. R = S
    BY <1>3 DEF CatalogResponse
  <2> QED  BY <1>1, <2>1 DEF Looks, Within
<1>4. CASE Wanted(S, item) /\ result # "ok"
  <2>1. R = [S EXCEPT !.catalog_busy = FALSE, !.catalog_data = None, !.catalog_unlocks = None]
    BY <1>4 DEF CatalogResponse
  <2>2. R \in Service
    BY <1>1, <2>1, ZenonT(60) DEF Service
  <2>3. /\ Looks(S, R) /\ ~R.catalog_busy /\ R.catalog = S.catalog /\ R.notifications = S.notifications
        /\ R.game_loaded = S.game_loaded /\ R.load_attempted = S.load_attempted
    BY <1>1, <2>1 DEF Service, Looks, Within
  <2>4. Shown(R)
    BY <2>3 DEF Shown, Looks, Within, Current
  <2> QED  BY <2>2, <2>3, <2>4, GoodLooks
<1>5. CASE Wanted(S, item) /\ result = "ok"
  <2>1. part = Refreshing(S)
    BY <1>5 DEF Wanted, Refreshing
  <2>2. A \in Service
    <3>1. CASE item.kind = "Data"
      BY <1>1, <1>2, <3>1, ZenonT(60) DEF Service
    <3>2. CASE item.kind # "Data"
      BY <1>1, <1>2, <3>2, ZenonT(60) DEF Service
    <3> QED  BY <3>1, <3>2
  <2> HIDE DEF part
  <2>3. /\ Looks(S, A) /\ A.catalog = S.catalog /\ A.notifications = S.notifications
        /\ A.game_loaded = S.game_loaded /\ A.load_attempted = S.load_attempted
        /\ A.catalog_serial = S.catalog_serial
        /\ A.catalog_data \in {S.catalog_data, part} /\ A.catalog_unlocks \in {S.catalog_unlocks, part}
    <3>1. CASE item.kind = "Data"
      BY <1>1, <3>1 DEF Service, Looks, Within
    <3>2. CASE item.kind # "Data"
      BY <1>1, <3>2 DEF Service, Looks, Within
    <3> QED  BY <3>1, <3>2
  <2> HIDE DEF A
  <2>4. Shown(A) /\ A.catalog_data \in {None, part} /\ A.catalog_unlocks \in {None, part}
    BY <1>5, <2>1, <2>3 DEF Shown, Looks, Within, Current, Refreshing, Wanted
  <2>5. Good(A, c, n, k, cr, X)
    BY <2>2, <2>3, GoodLooks
  <2>6. CASE None \in {A.catalog_data, A.catalog_unlocks}
    <3>1. R = A
      BY <1>5, <2>6 DEF CatalogResponse, A, part
    <3> QED  BY <2>2, <2>3, <2>4, <2>5, <3>1
  <2>7. CASE None \notin {A.catalog_data, A.catalog_unlocks}
    <3> DEFINE cat == IF S.game_loaded THEN S.catalog
                      ELSE [data |-> A.catalog_data, unlocks |-> A.catalog_unlocks]
    <3>1. R = [A EXCEPT !.catalog_busy = FALSE, !.catalog_data = None, !.catalog_unlocks = None,
                        !.catalog = cat]
      <4>1. R = [A EXCEPT !.catalog_busy = FALSE, !.catalog_data = None, !.catalog_unlocks = None,
                           !.catalog = IF S.game_loaded THEN @
                                       ELSE [data |-> A.catalog_data, unlocks |-> A.catalog_unlocks]]
        BY <1>5, <2>7 DEF CatalogResponse, A, part
      <4>2. A.catalog = S.catalog
        BY <2>3
      <4> QED  BY <2>2, <4>1, <4>2 DEF Service
    <3>2. A.catalog_data = part /\ A.catalog_unlocks = part
      BY <2>4, <2>7
    <3>3. cat \in [data : Part, unlocks : Part] \cup {None}
      BY <1>1, <1>2, <3>2 DEF part, Service
    <3>4. cat # None => cat.data = cat.unlocks /\ cat.data.owner = S.generation
      BY <2>1, <3>2 DEF Good, Shown, Refreshing
    <3> HIDE DEF cat
    <3>5. R \in Service
      BY <2>2, <3>1, <3>3, ZenonT(60) DEF Service
    <3>6. /\ Looks(A, R) /\ ~R.catalog_busy /\ R.catalog = cat /\ R.notifications = A.notifications
          /\ R.game_loaded = A.game_loaded /\ R.load_attempted = A.load_attempted
      BY <2>2, <3>1 DEF Service, Looks, Within
    <3>7. Shown(R)
      BY <2>3, <2>4, <3>4, <3>6 DEF Shown, Looks, Within, Current
    <3>8. Looks(S, R)
      BY <2>3, <3>6 DEF Looks, Within
    <3> QED  BY <2>5, <3>5, <3>6, <3>7, <3>8, GoodLooks
  <2> QED  BY <2>6, <2>7
<1> QED
  BY <1>3, <1>4, <1>5

\* refresh: a loaded game is shown as the catalogue.
LEMMA GoodRefresh ==
  ASSUME NEW S, NEW c, NEW n, NEW k, NEW cr, NEW X,
         Good(S, c, n, k, cr, X), Shown(S),
         NEW R, R = Refresh(S)
  PROVE  R \in Service /\ Good(R, c, n, k, cr, X) /\ Shown(R) /\ Looks(S, R)
<1> DEFINE played == [owner |-> S.generation, serial |-> 0]
           cat == [data |-> played, unlocks |-> played]
<1>1. S \in Service
  BY DEF Good, Sound
<1>2. CASE ~S.game_loaded
  <2>1. R = S
    BY <1>2 DEF Refresh
  <2> QED  BY <1>1, <2>1 DEF Looks, Within
<1>3. CASE S.game_loaded
  <2>1. R = [S EXCEPT !.catalog = cat]
    BY <1>3 DEF Refresh
  <2>2. cat \in [data : Part, unlocks : Part]
    BY <1>1 DEF Service, Part, Serials
  <2>3. cat.data = cat.unlocks /\ cat.data.owner = S.generation
    OBVIOUS
  <2> HIDE DEF cat
  <2>4. R \in Service
    BY <1>1, <2>1, <2>2, ZenonT(60) DEF Service
  <2>5. /\ Looks(S, R) /\ R.catalog = cat /\ R.notifications = S.notifications
        /\ R.game_loaded = S.game_loaded /\ R.load_attempted = S.load_attempted
        /\ R.catalog_busy = S.catalog_busy /\ R.catalog_data = S.catalog_data
        /\ R.catalog_unlocks = S.catalog_unlocks /\ R.catalog_serial = S.catalog_serial
    BY <1>1, <2>1 DEF Service, Looks, Within
  <2>6. Shown(R)
    BY <2>3, <2>5 DEF Shown, Looks, Within, Current, Refreshing
  <2> QED  BY <2>4, <2>5, <2>6, GoodLooks
<1> QED
  BY <1>2, <1>3

\* A save that fits the last command may be queued.
LEMMA KeptAppend ==
  ASSUME NEW S \in Service, NEW R \in Service, NEW k, NEW cr, NEW item \in Item,
         Kept(S, k, cr), R.active = S.active, R.work = Append(S.work, item),
         item.kind = "Save" => Fits(k, item.user)
  PROVE  Kept(R, k, cr)
<1>1. /\ DOMAIN S.work = 1..Len(S.work) /\ DOMAIN R.work = 1..(Len(S.work) + 1) /\ Len(S.work) \in Nat
      /\ R.work[Len(S.work) + 1] = item /\ \A i \in 1..Len(S.work) : R.work[i] = S.work[i]
  BY DEF Service
<1> QED
  BY <1>1 DEF Kept

\* Work that is no request.
LEMMA GoodEnqueue ==
  ASSUME NEW S, NEW c, NEW n, NEW k, NEW cr, NEW X, Good(S, c, n, k, cr, X),
         NEW item \in Item, ~IsHttp(item), item.kind = "Save" => Fits(k, item.user),
         NEW R, R = Enqueue(S, item)
  PROVE  /\ R \in Service /\ Good(R, c, n, k, cr, X)
         /\ Within(S, R) /\ SameView(S, R) /\ R.session = S.session
<1>1. S \in Service /\ Sound(S, c, n)
  BY DEF Good, Sound
<1>2. /\ R \in Service /\ Within(S, R) /\ SameView(S, R)
      /\ R.session = S.session /\ R.work = Append(S.work, item)
  BY <1>1, EnqueueEffect
<1>3. Sound(R, c, n)
  BY <1>1, <1>2, SoundEnqueue
<1>4. Kept(R, k, cr)
  <2>1. R.active = S.active /\ Kept(S, k, cr)
    BY <1>2 DEF Within, Good
  <2> QED  BY <1>1, <1>2, <2>1, KeptAppend, Zenon
<1>5. Known(R, k) /\ Retries(R, X)
  BY <1>2 DEF Good, Known, Retries, Current, Within, SameView
<1> QED
  BY <1>2, <1>3, <1>4, <1>5 DEF Good

LEMMA ShownSame ==
  ASSUME NEW S, NEW R, Shown(S), Within(S, R), SameView(S, R), R.session = S.session
  PROVE  Shown(R)
BY DEF Shown, Within, SameView, Current, Refreshing

\* The clients that a callback leaves as they were, but for requests.
LEMMA SameClientsTransitive ==
  ASSUME NEW S \in Service, NEW A \in Service, NEW R \in Service, SameClients(S, A), SameClients(A, R)
  PROVE  SameClients(S, R)
<1>1. \A g \in Generations : /\ S.session[g].pending \in Nat /\ A.session[g].pending \in Nat
                             /\ R.session[g].pending \in Nat
  BY DEF Service, Session
<1> QED
  BY <1>1 DEF SameClients

LEMMA SameClientsSame ==
  ASSUME NEW S \in Service, NEW R, R.session = S.session
  PROVE  SameClients(S, R)
BY DEF SameClients, Service, Session

\* The account that answers is the one that was asked for.
LEMMA GoodLoggedIn ==
  ASSUME NEW S, NEW c, NEW n, NEW k, NEW cr, NEW X,
         Good(S, c, n, k, cr, X), Shown(S), S.stopping \/ S.generation \in S.sessions,
         NEW g \in Generations, NEW u \in Accounts \cup {None}, NEW result,
         Listening(S, g) /\ result = "ok" =>
           ~k.logout /\ k.username = u /\ k.remember = S.remember /\ Current(S).load = "none",
         NEW R, R = LoggedIn(S, g, u, result)
  PROVE  R \in Service /\ Good(R, c, n, k, cr, X) /\ Shown(R) /\ Within(S, R) /\ SameClients(S, R)
<1> DEFINE A == [S EXCEPT !.busy = FALSE]
           saved == Http("Save", g, u, 0)
           B == IF A.remember THEN Enqueue(A, saved) ELSE A
           C == [B EXCEPT !.load_attempted = FALSE]
<1>1. S \in Service
  BY DEF Good, Sound
<1>2. A \in Service
  BY <1>1, ZenonT(60) DEF Service
<1>3. /\ Looks(S, A) /\ A.catalog = S.catalog /\ A.notifications = S.notifications
      /\ A.game_loaded = S.game_loaded /\ A.load_attempted = S.load_attempted
      /\ A.catalog_busy = S.catalog_busy /\ A.catalog_data = S.catalog_data
      /\ A.catalog_unlocks = S.catalog_unlocks /\ A.catalog_serial = S.catalog_serial
  BY <1>1 DEF Service, Looks, Within
<1> HIDE DEF A
<1>4. Good(A, c, n, k, cr, X) /\ SameClients(S, A)
  BY <1>2, <1>3, GoodLooks
<1>5. Shown(A)
  BY <1>3 DEF Shown, Looks, Within, Current, Refreshing
<1>6. saved \in Item /\ ~IsHttp(saved) /\ saved.user = u /\ Removal \in Item /\ ~IsHttp(Removal)
      /\ Removal.kind = "Remove"
  BY BoundsAssumption DEF Http, Item, IsHttp, Removal, Serials, Generations
<1> HIDE DEF saved
<1>7. CASE ~Listening(S, g)
  <2>1. R = S
    BY <1>7 DEF LoggedIn
  <2> QED  BY <1>1, <2>1, SameClientsSame DEF Within
<1>8. CASE Listening(S, g) /\ result = "ok"
  <2>1. R = BeginCatalog(C)
    BY <1>8 DEF LoggedIn, A, saved
  <2>2. A.remember => Fits(k, u)
    BY <1>3, <1>8 DEF Fits, Looks
  <2>3. B \in Service /\ Good(B, c, n, k, cr, X) /\ Within(A, B) /\ SameView(A, B) /\ B.session = A.session
    <3>1. CASE A.remember
      <4>1. B = Enqueue(A, saved)
        BY <3>1
      <4> HIDE DEF B
      <4> QED  BY <1>4, <1>6, <2>2, <3>1, <4>1, GoodEnqueue
    <3>2. CASE ~A.remember
      BY <1>2, <1>4, <3>2 DEF Within, SameView
    <3> QED  BY <3>1, <3>2
  <2> HIDE DEF B
  <2>4. Shown(B)
    BY <1>5, <2>3, ShownSame
  <2>5. C \in Service
    BY <2>3, ZenonT(60) DEF Service
  <2>6. /\ Looks(B, C) /\ C.catalog = B.catalog /\ C.notifications = B.notifications
        /\ C.game_loaded = B.game_loaded
        /\ C.catalog_busy = B.catalog_busy /\ C.catalog_data = B.catalog_data
        /\ C.catalog_unlocks = B.catalog_unlocks /\ C.catalog_serial = B.catalog_serial
    BY <2>3 DEF Service, Looks, Within
  <2> HIDE DEF C
  <2>7. Good(C, c, n, k, cr, X)
    BY <2>3, <2>5, <2>6, GoodLooks
  <2>8. Current(C).load = "none" /\ ~C.stopping /\ Current(C) = Current(B)
    BY <1>3, <1>8, <2>3, <2>6 DEF Looks, Within, Current, Listening
  <2>9. Shown(C)
    BY <2>4, <2>6, <2>8 DEF Shown, Looks, Within, Refreshing
  <2>10. C.stopping \/ C.generation \in C.sessions
    BY <1>3, <2>3, <2>6 DEF Looks, Within
  <2>11. R \in Service /\ Good(R, c, n, k, cr, X) /\ Shown(R) /\ Browses(C, R)
    BY <2>1, <2>7, <2>9, <2>10, GoodBeginCatalog
  <2>12. Within(S, R)
    BY <1>3, <2>3, <2>6, <2>11 DEF Looks, Within, Browses
  <2>13. SameClients(S, C)
    <3>1. C.session = S.session
      BY <1>3, <2>3, <2>6 DEF Looks
    <3> QED  BY <1>1, <3>1, SameClientsSame
  <2>14. SameClients(S, R)
    BY <1>1, <2>5, <2>11, <2>13, SameClientsTransitive DEF Browses
  <2> QED  BY <2>11, <2>12, <2>14
<1>9. CASE Listening(S, g) /\ result # "ok"
  <2>1. CASE result = "refused" /\ A.token_login
    <3>1. R = Enqueue(A, Removal)
      BY <1>9, <2>1 DEF LoggedIn, A
    <3>2. R \in Service /\ Good(R, c, n, k, cr, X) /\ Within(A, R) /\ SameView(A, R) /\ R.session = A.session
      BY <1>4, <1>6, <3>1, GoodEnqueue
    <3>3. Shown(R)
      BY <1>5, <3>2, ShownSame
    <3>4. Within(S, R) /\ R.session = S.session
      BY <1>3, <3>2 DEF Looks, Within
    <3> QED  BY <1>1, <3>2, <3>3, <3>4, SameClientsSame
  <2>2. CASE ~(result = "refused" /\ A.token_login)
    <3>1. R = A
      BY <1>9, <2>2 DEF LoggedIn, A
    <3> QED  BY <1>2, <1>3, <1>4, <1>5, <3>1 DEF Looks
  <2> QED  BY <2>1, <2>2
<1> QED
  BY <1>7, <1>8, <1>9

\* What a callback does not do to the clients.
Heard(S, R) ==
  /\ Within(S, R)
  /\ \A g \in Generations : /\ R.session[g].retired = S.session[g].retired
                            /\ R.session[g].pending >= S.session[g].pending

SameAwards(S, R) == \A g \in Generations : R.session[g].award = S.session[g].award

\* A login ends; only the current client's account is saved.
LEMMA GoodLoginResponse ==
  ASSUME NEW S, NEW c, NEW n, NEW k, NEW cr, NEW X,
         Good(S, c, n, k, cr, X), Shown(S), S.stopping \/ S.generation \in S.sessions,
         NEW g \in Generations, NEW u \in Accounts \cup {None}, NEW result,
         g <= S.generation, S.session[g].login \in {None, u},
         NEW R, R = LoginResponse(S, g, u, result)
  PROVE  R \in Service /\ Good(R, c, n, k, cr, X) /\ Shown(R) /\ Heard(S, R) /\ SameAwards(S, R)
<1> DEFINE ses == [S.session[g] EXCEPT !.login = None, !.user = IF result = "ok" THEN u ELSE @]
           A == WithSession(S, g, ses)
<1>1. S \in Service /\ S.session[g] \in Session
  BY DEF Good, Sound, Service
<1>2. \A h \in Generations : S.session[h].pending \in Nat
  BY <1>1 DEF Service, Session
<1>3. CASE S.session[g].login = None
  <2>1. R = S
    BY <1>3 DEF LoginResponse
  <2> QED  BY <1>1, <1>2, <2>1 DEF Heard, SameAwards, Within
<1>4. CASE S.session[g].login # None
  <2>1. ses \in Session
    BY <1>1 DEF Session
  <2>2. R = LoggedIn(A, g, u, result)
    <3>1. A = [S EXCEPT !.session[g].login = None, !.session[g].user = IF result = "ok" THEN u ELSE @]
      BY <1>1 DEF WithSession, Service, Session
    <3> QED  BY <1>4, <3>1 DEF LoginResponse
  <2>3. /\ ses.login = None /\ ses.user = IF result = "ok" THEN u ELSE S.session[g].user
        /\ ses.load = S.session[g].load /\ ses.award = S.session[g].award
        /\ ses.last_chance = S.session[g].last_chance
        /\ ses.pending = S.session[g].pending /\ ses.retired = S.session[g].retired
    BY <1>1 DEF Session
  <2> HIDE DEF ses
  <2>4. /\ A \in Service
        /\ Within(S, A) /\ SameView(S, A) /\ OthersKept(S, A, g)
        /\ A.session[g] = ses /\ A.work = S.work
    BY <1>1, <2>1, SessionUpdate
  <2> HIDE DEF A
  <2>5. /\ u # None /\ S.session[g].login = u /\ S.session[g].user = None /\ S.session[g].load = "none"
        /\ S.session[g].award = "cancelled" => S.session[g].last_chance
    BY <1>4 DEF Good, Sound, Logins, Chances
  <2>6. Sound(A, c, n)
    BY <1>1, <2>3, <2>4, <2>5, SoundSession DEF Good
  <2>7. Kept(A, k, cr)
    <3>1. Prolongs(S, A) /\ A.active = S.active /\ Kept(S, k, cr)
      BY <1>1, <2>4, ProlongsSame DEF Within, Good
    <3> QED  BY <1>1, <2>4, <3>1, KeptProlongs
  <2>8. Retries(A, X)
    BY <1>1, <2>3, <2>4, RetriesClient DEF Good
  <2>9. Known(S, k) /\ S.generation \in Generations
    BY <1>1 DEF Good, Service
  <2>10. g = S.generation /\ ~S.stopping => ~k.logout /\ k.username = u /\ k.remember = S.remember
    BY <2>5, <2>9 DEF Known, Current
  <2>11. Known(A, k)
    <3>1. CASE g = S.generation
      BY <2>3, <2>4, <2>5, <2>10, <3>1 DEF Known, Current, Within, SameView
    <3>2. CASE g # S.generation
      BY <2>4, <2>9, <3>2 DEF Known, Current, Within, SameView, OthersKept
    <3> QED  BY <3>1, <3>2
  <2>12. Good(A, c, n, k, cr, X)
    BY <2>6, <2>7, <2>8, <2>11 DEF Good
  <2>13. Current(A).load = Current(S).load /\ Current(A).retired = Current(S).retired
    BY <2>3, <2>4, <2>9 DEF Current, Within, OthersKept
  <2>14. Shown(A)
    BY <2>4, <2>13 DEF Shown, Within, SameView, Refreshing
  <2>15. A.stopping \/ A.generation \in A.sessions
    BY <2>4 DEF Within
  <2>16. Listening(A, g) =>
           ~k.logout /\ k.username = u /\ k.remember = A.remember /\ Current(A).load = "none"
    BY <2>4, <2>5, <2>10, <2>13 DEF Listening, Within, SameView, Current
  <2>17. /\ R \in Service /\ Good(R, c, n, k, cr, X) /\ Shown(R) /\ Within(A, R) /\ SameClients(A, R)
    BY <2>2, <2>12, <2>14, <2>15, <2>16, GoodLoggedIn
  <2>18. \A h \in Generations : /\ A.session[h].retired = S.session[h].retired
                                /\ A.session[h].pending = S.session[h].pending
                                /\ A.session[h].award = S.session[h].award
    BY <2>3, <2>4 DEF OthersKept
  <2>19. Heard(S, R)
    BY <1>2, <2>4, <2>17, <2>18 DEF Heard, Within, SameClients
  <2>20. SameAwards(S, R)
    BY <2>17, <2>18 DEF SameAwards, SameClients
  <2> QED  BY <2>17, <2>19, <2>20
<1> QED
  BY <1>3, <1>4

\* A load ends.
LEMMA GoodLoaded ==
  ASSUME NEW S, NEW c, NEW n, NEW k, NEW cr, NEW X,
         Good(S, c, n, k, cr, X), Shown(S), S.generation \in Generations,
         NEW g \in Generations, NEW ok \in BOOLEAN,
         Listening(S, g) /\ ok => Current(S).load # "none",
         NEW R, R = Loaded(S, g, ok)
  PROVE  R \in Service /\ Good(R, c, n, k, cr, X) /\ Shown(R) /\ Heard(S, R) /\ SameAwards(S, R)
<1> DEFINE ses == [S.session[g] EXCEPT !.load = IF ok THEN "loaded" ELSE "none"]
           A == WithSession(S, g, ses)
<1>0. S \in Service
  BY DEF Good, Sound
<1>1. S \in Service /\ S.session[g] \in Session /\ S.generation \in Nat
  <2>1. S.session[g] \in Session
    BY <1>0 DEF Service
  <2> QED  BY <1>0, <2>1 DEF Generations
<1>2. \A h \in Generations : S.session[h].pending \in Nat
  BY <1>1 DEF Service, Session
<1>3. CASE ~Listening(S, g)
  <2>1. R = S
    BY <1>3 DEF Loaded
  <2> QED  BY <1>1, <1>2, <2>1 DEF Heard, SameAwards, Within
<1>4. CASE Listening(S, g)
  <2>1. ses \in Session
    BY <1>1 DEF Session
  <2>2. R = [A EXCEPT !.busy = FALSE, !.game_loaded = ok]
    <3>1. R = [S EXCEPT !.busy = FALSE, !.game_loaded = ok,
                 !.session[g].load = IF ok THEN "loaded" ELSE "none"]
      BY <1>4 DEF Loaded
    <3> QED  BY <1>1, <3>1, Zenon DEF WithSession, Service
  <2>3. /\ ses.load = (IF ok THEN "loaded" ELSE "none") /\ ses.user = S.session[g].user
        /\ ses.login = S.session[g].login /\ ses.award = S.session[g].award
        /\ ses.last_chance = S.session[g].last_chance
        /\ ses.pending = S.session[g].pending /\ ses.retired = S.session[g].retired
    BY <1>1 DEF Session
  <2> HIDE DEF ses
  <2>4. /\ A \in Service
        /\ Within(S, A) /\ SameView(S, A) /\ OthersKept(S, A, g)
        /\ A.session[g] = ses /\ A.work = S.work
    BY <1>1, <2>1, SessionUpdate
  <2> HIDE DEF A
  <2>5. g = S.generation /\ ~S.stopping /\ ~S.session[g].retired
    BY <1>4 DEF Listening, Current
  <2>6. /\ S.session[g].login # None => S.session[g].user = None
        /\ S.session[g].user = None => S.session[g].load = "none"
        /\ S.session[g].award = "cancelled" => S.session[g].last_chance
    BY DEF Good, Sound, Logins, Chances
  <2>7. Sound(A, c, n)
    <3>1. ses.user = None => ses.load = "none"
      BY <1>4, <2>3, <2>5, <2>6 DEF Current
    <3> QED  BY <1>1, <2>3, <2>4, <2>5, <2>6, <3>1, SoundSession DEF Good
  <2>8. Kept(A, k, cr)
    <3>1. Prolongs(S, A) /\ A.active = S.active /\ Kept(S, k, cr)
      BY <1>1, <2>4, ProlongsSame DEF Within, Good
    <3> QED  BY <1>1, <2>4, <3>1, KeptProlongs
  <2>9. Retries(A, X)
    BY <1>1, <2>3, <2>4, RetriesClient DEF Good
  <2>10. Known(A, k)
    BY <1>1, <2>3, <2>4, KnownClient DEF Good, SameView
  <2>11. Good(A, c, n, k, cr, X)
    BY <2>7, <2>8, <2>9, <2>10 DEF Good
  <2>12. R \in Service
    BY <2>2, <2>4, ZenonT(60) DEF Service
  <2>13. /\ Looks(A, R) /\ R.catalog = A.catalog /\ R.notifications = A.notifications
        /\ R.game_loaded = ok /\ R.load_attempted = A.load_attempted
        /\ R.catalog_busy = A.catalog_busy /\ R.catalog_data = A.catalog_data
        /\ R.catalog_unlocks = A.catalog_unlocks /\ R.catalog_serial = A.catalog_serial
    BY <2>2, <2>4 DEF Service, Looks, Within
  <2>14. Good(R, c, n, k, cr, X) /\ SameClients(A, R)
    BY <2>11, <2>12, <2>13, GoodLooks
  <2>15. Current(R) = ses /\ R.generation = S.generation /\ ~R.stopping /\ Current(S) = S.session[g]
    BY <2>4, <2>5, <2>13 DEF Current, Looks, Within
  <2>16. Shown(R)
    <3>1. ok => Current(R).load = "loaded" /\ ~Current(R).retired
      BY <2>3, <2>5, <2>15
    <3>2. Current(R).load # "none" => R.load_attempted
      BY <1>4, <2>3, <2>4, <2>5, <2>13, <2>15 DEF Shown, SameView
    <3>3. R.catalog = S.catalog /\ R.notifications = S.notifications /\ Refreshing(R) = Refreshing(S)
          /\ R.catalog_busy = S.catalog_busy /\ R.catalog_data = S.catalog_data
          /\ R.catalog_unlocks = S.catalog_unlocks
      BY <2>4, <2>13, <2>15 DEF SameView, Refreshing
    <3> QED  BY <2>13, <2>15, <3>1, <3>2, <3>3 DEF Shown
  <2>18. \A h \in Generations : /\ R.session[h].retired = S.session[h].retired
                                /\ R.session[h].pending = S.session[h].pending
                                /\ R.session[h].award = S.session[h].award
    BY <2>3, <2>4, <2>13 DEF OthersKept, Looks
  <2>19. Heard(S, R)
    BY <1>2, <2>4, <2>13, <2>18 DEF Heard, Within, Looks
  <2>20. SameAwards(S, R)
    BY <2>18 DEF SameAwards
  <2> QED  BY <2>12, <2>14, <2>16, <2>19, <2>20
<1> QED
  BY <1>3, <1>4

\* An answer to a load.
LEMMA GoodLoadResponse ==
  ASSUME NEW S, NEW c, NEW n, NEW k, NEW cr, NEW X,
         Good(S, c, n, k, cr, X), Shown(S),
         NEW g \in Generations, NEW result, g <= S.generation,
         NEW R, R = LoadResponse(S, g, result)
  PROVE  R \in Service /\ Good(R, c, n, k, cr, X) /\ Shown(R) /\ Heard(S, R) /\ SameAwards(S, R)
<1> DEFINE ses == [S.session[g] EXCEPT !.load = "ready"]
<1>1. S \in Service /\ S.session[g] \in Session /\ S.generation \in Generations
  BY DEF Good, Sound, Service
<1>2. \A h \in Generations : S.session[h].pending \in Nat
  BY <1>1 DEF Service, Session
<1>3. CASE S.session[g].load # "asked"
  <2>1. R = S
    BY <1>3 DEF LoadResponse
  <2> QED  BY <1>1, <1>2, <2>1 DEF Heard, SameAwards, Within
<1>4. CASE S.session[g].load = "asked" /\ result = "ok"
  <2>1. ses \in Session
    BY <1>1 DEF Session
  <2>2. R = WithSession(S, g, ses)
    <3>1. R = [S EXCEPT !.session[g].load = "ready"]
      BY <1>4 DEF LoadResponse
    <3> QED  BY <3>1 DEF WithSession
  <2>3. /\ ses.load = "ready" /\ ses.user = S.session[g].user
        /\ ses.login = S.session[g].login /\ ses.award = S.session[g].award
        /\ ses.last_chance = S.session[g].last_chance
        /\ ses.pending = S.session[g].pending /\ ses.retired = S.session[g].retired
    BY <1>1 DEF Session
  <2> HIDE DEF ses
  <2>4. /\ R \in Service
        /\ Within(S, R) /\ SameView(S, R) /\ OthersKept(S, R, g)
        /\ R.session[g] = ses /\ R.work = S.work
    BY <1>1, <2>1, <2>2, SessionUpdate
  <2>6. /\ S.session[g].login # None => S.session[g].user = None
        /\ S.session[g].user # None
        /\ S.session[g].award = "cancelled" => S.session[g].last_chance
    BY <1>4 DEF Good, Sound, Logins, Chances
  <2>7. Sound(R, c, n)
    BY <1>1, <2>3, <2>4, <2>6, SoundSession DEF Good
  <2>8. Kept(R, k, cr)
    <3>1. Prolongs(S, R) /\ R.active = S.active /\ Kept(S, k, cr)
      BY <1>1, <2>4, ProlongsSame DEF Within, Good
    <3> QED  BY <1>1, <2>4, <3>1, KeptProlongs
  <2>9. Retries(R, X)
    BY <1>1, <2>3, <2>4, RetriesClient DEF Good
  <2>10. Known(R, k)
    BY <1>1, <2>3, <2>4, KnownClient DEF Good, SameView
  <2>11. Shown(R)
    <3>1. CASE g = S.generation
      <4>1. Current(S).load = "asked" /\ R.generation = g /\ Current(R).load = "ready"
        BY <1>4, <2>3, <2>4, <3>1 DEF Current, Within
      <4> QED  BY <2>4, <4>1 DEF Shown, Within, SameView, Refreshing
    <3>2. CASE g # S.generation
      <4>1. Current(R) = Current(S)
        BY <1>1, <2>4, <3>2 DEF Current, Within, OthersKept
      <4> QED  BY <2>4, <4>1 DEF Shown, Within, SameView, Refreshing
    <3> QED  BY <3>1, <3>2
  <2>12. Heard(S, R) /\ SameAwards(S, R)
    BY <1>2, <2>3, <2>4 DEF Heard, SameAwards, OthersKept
  <2> QED  BY <2>4, <2>7, <2>8, <2>9, <2>10, <2>11, <2>12 DEF Good
<1>5. CASE S.session[g].load = "asked" /\ result # "ok"
  <2> DEFINE failed == FALSE
  <2>1. R = Loaded(S, g, failed) /\ failed \in BOOLEAN /\ ~failed
    BY <1>5 DEF LoadResponse
  <2> HIDE DEF failed
  <2> QED  BY <1>1, <2>1, GoodLoaded
<1> QED
  BY <1>3, <1>4, <1>5

\* The unlock of a client changes, its requests do not.
LEMMA GoodAwardState ==
  ASSUME NEW S, NEW c, NEW n, NEW k, NEW cr, NEW X,
         Good(S, c, n, k, cr, X), Shown(S),
         NEW g \in Generations, g <= S.generation, NEW ses \in Session,
         ses.login = S.session[g].login, ses.user = S.session[g].user,
         ses.load = S.session[g].load, ses.pending = S.session[g].pending,
         ses.retired = S.session[g].retired,
         ses.award \in {"settled", "scheduled", S.session[g].award},
         S.session[g].last_chance => ses.last_chance,
         NEW R, R = WithSession(S, g, ses)
  PROVE  /\ R \in Service /\ Good(R, c, n, k, cr, X \cup {g}) /\ Shown(R)
         /\ Within(S, R) /\ OthersKept(S, R, g) /\ R.session[g] = ses /\ R.work = S.work
<1>1. S \in Service /\ S.session[g] \in Session /\ S.generation \in Generations
  BY DEF Good, Sound, Service
<1>2. /\ R \in Service
      /\ Within(S, R) /\ SameView(S, R) /\ OthersKept(S, R, g)
      /\ R.session[g] = ses /\ R.work = S.work
  BY <1>1, SessionUpdate
<1>3. /\ S.session[g].login # None => S.session[g].user = None
      /\ S.session[g].user = None => S.session[g].load = "none"
  BY DEF Good, Sound, Logins
<1>4. /\ ses.award = "sent" => S.session[g].award = "sent"
      /\ ses.award = "cancelled" => ses.last_chance
  BY DEF Good, Sound, Chances
<1>5. Sound(R, c, n)
  BY <1>1, <1>2, <1>3, <1>4, SoundSession DEF Good
<1>6. Kept(R, k, cr)
  <2>1. Prolongs(S, R) /\ R.active = S.active /\ Kept(S, k, cr)
    BY <1>1, <1>2, ProlongsSame DEF Within, Good
  <2> QED  BY <1>1, <1>2, <2>1, KeptProlongs
<1>7. Retries(R, X \cup {g})
  BY <1>2 DEF Good, Retries, OthersKept
<1>8. Known(R, k)
  BY <1>1, <1>2, KnownClient DEF Good, SameView
<1>9. Current(R).load = Current(S).load /\ Current(R).retired = Current(S).retired
  BY <1>1, <1>2 DEF Current, Within, OthersKept
<1>10. Shown(R)
  BY <1>2, <1>9 DEF Shown, Within, SameView, Refreshing
<1> QED
  BY <1>2, <1>5, <1>6, <1>7, <1>8, <1>10 DEF Good

LEMMA ShownAsks ==
  ASSUME NEW S \in Service, NEW R \in Service, NEW g \in Generations, Shown(S), Asks(S, R, g)
  PROVE  Shown(R)
<1>1. Current(R).load = Current(S).load /\ Current(R).retired = Current(S).retired
  BY DEF Asks, Current, Within, OthersKept, Service
<1> QED
  BY <1>1 DEF Asks, Shown, Within, SameView, Refreshing

\* An answer to the submission of g settles it, or it is sent again or scheduled.
Judged(S, R, g) ==
  /\ R.session[g].award = "scheduled" /\ R.session[g].retired => R.session[g].last_chance
  /\ \A h \in Generations : h # g => R.session[h].award = S.session[h].award
  /\ R.session[g].award = "sent" =>
       Append(S.work, Http("Award", g, S.session[g].user, 0)) = R.work

\* An answer to a submission: settled, sent again or scheduled.
LEMMA GoodAwardResponse ==
  ASSUME NEW S, NEW c, NEW n, NEW k, NEW cr, NEW X,
         Good(S, c, n, k, cr, X), Shown(S),
         NEW g \in Generations, NEW result, g \in S.sessions,
         NEW R, R = AwardResponse(S, g, result)
  PROVE  R \in Service /\ Good(R, c, n, k, cr, X \cup {g}) /\ Shown(R) /\ Heard(S, R) /\ Judged(S, R, g)
<1>1. S \in Service /\ S.session[g] \in Session /\ g <= S.generation
  BY DEF Good, Sound, Service, Clients
<1>2. \A h \in Generations : S.session[h].pending \in Nat
  BY <1>1 DEF Service, Session
<1>3. CASE result # "outage"
  <2> DEFINE ses == [S.session[g] EXCEPT !.award = "settled"]
  <2>1. ses \in Session
    BY <1>1 DEF Session
  <2>2. R = WithSession(S, g, ses)
    BY <1>3 DEF AwardResponse, WithSession
  <2>3. /\ ses.login = S.session[g].login /\ ses.user = S.session[g].user
        /\ ses.load = S.session[g].load /\ ses.pending = S.session[g].pending
        /\ ses.retired = S.session[g].retired /\ ses.award = "settled"
        /\ ses.last_chance = S.session[g].last_chance
    BY <1>1 DEF Session
  <2> HIDE DEF ses
  <2>4. /\ R \in Service /\ Good(R, c, n, k, cr, X \cup {g}) /\ Shown(R)
        /\ Within(S, R) /\ OthersKept(S, R, g) /\ R.session[g] = ses /\ R.work = S.work
    BY <1>1, <2>1, <2>2, <2>3, GoodAwardState
  <2> QED  BY <1>2, <2>3, <2>4 DEF Heard, Judged, OthersKept
<1>4. CASE result = "outage" /\ S.session[g].retried
  <2> DEFINE ses == [S.session[g] EXCEPT !.award = "scheduled", !.last_chance = @ \/ S.session[g].retired]
  <2>1. ses \in Session
    BY <1>1 DEF Session
  <2>2. R = WithSession(S, g, ses)
    <3>1. R = [S EXCEPT !.session[g].award = "scheduled",
                        !.session[g].last_chance = @ \/ S.session[g].retired]
      BY <1>4 DEF AwardResponse
    <3> QED  BY <1>1, <3>1, ZenonT(60) DEF WithSession, Service, Session
  <2>3. /\ ses.login = S.session[g].login /\ ses.user = S.session[g].user
        /\ ses.load = S.session[g].load /\ ses.pending = S.session[g].pending
        /\ ses.retired = S.session[g].retired /\ ses.award = "scheduled"
        /\ S.session[g].last_chance => ses.last_chance
        /\ S.session[g].retired => ses.last_chance
    BY <1>1 DEF Session
  <2> HIDE DEF ses
  <2>4. /\ R \in Service /\ Good(R, c, n, k, cr, X \cup {g}) /\ Shown(R)
        /\ Within(S, R) /\ OthersKept(S, R, g) /\ R.session[g] = ses /\ R.work = S.work
    BY <1>1, <2>1, <2>2, <2>3, GoodAwardState
  <2> QED  BY <1>2, <2>3, <2>4 DEF Heard, Judged, OthersKept
<1>5. CASE result = "outage" /\ ~S.session[g].retried
  <2> DEFINE ses == [S.session[g] EXCEPT !.retried = TRUE, !.last_chance = @ \/ S.session[g].retired]
             A == WithSession(S, g, ses)
             allow == FALSE
  <2>1. ses \in Session
    BY <1>1 DEF Session
  <2>2. R = Submit(A, g, allow) /\ ~allow
    <3>1. R = Submit([S EXCEPT !.session[g].retried = TRUE,
                               !.session[g].last_chance = @ \/ S.session[g].retired], g, FALSE)
      BY <1>5 DEF AwardResponse
    <3>2. A = [S EXCEPT !.session[g].retried = TRUE,
                        !.session[g].last_chance = @ \/ S.session[g].retired]
      BY <1>1, ZenonT(60) DEF WithSession, Service, Session
    <3> QED  BY <3>1, <3>2
  <2>3. /\ ses.login = S.session[g].login /\ ses.user = S.session[g].user
        /\ ses.load = S.session[g].load /\ ses.pending = S.session[g].pending
        /\ ses.retired = S.session[g].retired /\ ses.award = S.session[g].award
        /\ S.session[g].last_chance => ses.last_chance
        /\ S.session[g].retired => ses.last_chance
    BY <1>1 DEF Session
  <2> HIDE DEF ses, allow
  <2>4. /\ A \in Service /\ Good(A, c, n, k, cr, X \cup {g}) /\ Shown(A)
        /\ Within(S, A) /\ OthersKept(S, A, g) /\ A.session[g] = ses /\ A.work = S.work
    BY <1>1, <2>1, <2>3, GoodAwardState
  <2> HIDE DEF A
  <2>5. /\ g \in A.sessions
        /\ A.session[g].retired /\ ~allow => A.session[g].last_chance
    BY <1>1, <2>3, <2>4 DEF Within, Session
  <2>6. R \in Service /\ Good(R, c, n, k, cr, (X \cup {g}) \ {g}) /\ Asks(A, R, g) /\ Resent(A, R, g)
    BY <2>2, <2>4, <2>5, GoodSubmit
  <2>7. Good(R, c, n, k, cr, X \cup {g})
    BY <2>6, GoodWider
  <2>8. Shown(R)
    BY <2>4, <2>6, ShownAsks
  <2>9. Heard(S, R)
    <3>1. Within(S, R)
      BY <2>4, <2>6 DEF Within, Asks
    <3>2. \A h \in Generations : h # g => R.session[h] = S.session[h]
      BY <2>4, <2>6 DEF Asks, OthersKept
    <3>3. R.session[g].retired = S.session[g].retired /\ R.session[g].pending >= S.session[g].pending
      BY <2>3, <2>4, <2>6 DEF Asks
    <3> QED  BY <1>2, <3>1, <3>2, <3>3 DEF Heard
  <2>10. Judged(S, R, g)
    BY <2>3, <2>4, <2>6 DEF Asks, OthersKept, Resent, Judged
  <2> QED  BY <2>6, <2>7, <2>8, <2>9, <2>10
<1> QED
  BY <1>3, <1>4, <1>5

\* A callback: the answer to an item that is still out.
LEMMA GoodCallback ==
  ASSUME NEW S, NEW c, NEW n, NEW k, NEW cr, NEW X,
         Good(S, c, n, k, cr, X), Shown(S), S.stopping \/ S.generation \in S.sessions,
         NEW item \in Out(S, c, n), NEW result, item.owner \in S.sessions,
         NEW R, R = Callback(S, item, result)
  PROVE  /\ R \in Service /\ Good(R, c, n, k, cr, X \cup {item.owner}) /\ Shown(R) /\ Heard(S, R)
         /\ \/ item.kind # "Award" /\ SameAwards(S, R)
            \/ item.kind = "Award" /\ Judged(S, R, item.owner)
<1> DEFINE g == item.owner
           Y == X \cup {g}
<1>1. S \in Service /\ c \in Outcomes /\ n \in 0..Len(c) /\ Sound(S, c, n)
  BY DEF Good, Sound
<1>2. item \in Item
  BY <1>1, OutItems
<1>3. g \in Generations /\ item.user \in Accounts \cup {None} /\ g <= S.generation
  BY <1>1, <1>2 DEF Item, Sound, Clients
<1>4. Good(S, c, n, k, cr, Y)
  BY GoodWider
<1> HIDE DEF Y
<1>5. CASE item.kind = "Login"
  <2>1. R = LoginResponse(S, g, item.user, result)
    BY <1>5 DEF Callback
  <2>2. S.session[g].login \in {None, item.user}
    BY <1>1, <1>5 DEF Sound, Logins
  <2> HIDE DEF g
  <2>3. R \in Service /\ Good(R, c, n, k, cr, Y) /\ Shown(R) /\ Heard(S, R) /\ SameAwards(S, R)
    BY <1>3, <1>4, <2>1, <2>2, GoodLoginResponse
  <2> QED  BY <1>5, <2>3 DEF Y, g
<1>6. CASE item.kind = "Load"
  <2>1. R = LoadResponse(S, g, result)
    BY <1>6 DEF Callback
  <2> HIDE DEF g
  <2>2. R \in Service /\ Good(R, c, n, k, cr, Y) /\ Shown(R) /\ Heard(S, R) /\ SameAwards(S, R)
    BY <1>3, <1>4, <2>1, GoodLoadResponse
  <2> QED  BY <1>6, <2>2 DEF Y, g
<1>7. CASE item.kind = "Award"
  <2>1. R = AwardResponse(S, g, result)
    BY <1>7 DEF Callback
  <2>2. g \in S.sessions
    OBVIOUS
  <2> HIDE DEF g
  <2>3. R \in Service /\ Good(R, c, n, k, cr, X \cup {g}) /\ Shown(R) /\ Heard(S, R) /\ Judged(S, R, g)
    BY <1>3, <2>1, <2>2, GoodAwardResponse
  <2> QED  BY <1>7, <2>3 DEF g
<1>8. CASE item.kind \notin {"Login", "Load", "Award"}
  <2>1. R = CatalogResponse(S, item, result)
    BY <1>8 DEF Callback
  <2>2. R \in Service /\ Good(R, c, n, k, cr, Y) /\ Shown(R) /\ Looks(S, R)
    BY <1>2, <1>4, <2>1, GoodCatalogResponse
  <2>3. Heard(S, R) /\ SameAwards(S, R)
    BY <1>1, <2>2 DEF Heard, SameAwards, Looks, Service, Session
  <2> QED  BY <1>8, <2>2, <2>3 DEF Y, g
<1> QED
  BY <1>5, <1>6, <1>7, <1>8

\* A request of g was answered, and no other is changed.
OneLess(S, R, g) ==
  /\ Within(S, R) /\ OthersKept(S, R, g) /\ R.work = S.work
  /\ R.session[g].pending = S.session[g].pending - 1
  /\ R.session[g].award = S.session[g].award /\ R.session[g].retired = S.session[g].retired
  /\ R.session[g].login = S.session[g].login /\ R.session[g].user = S.session[g].user
  /\ R.session[g].load = S.session[g].load
  /\ R.session[g].last_chance = S.session[g].last_chance

\* An unlock that still waits for an answer after this one was sent again.
SentAgain(S, item) ==
  item.kind = "Award" /\ S.session[item.owner].award = "sent" =>
    \E i \in DOMAIN S.work : S.work[i].kind = "Award" /\ S.work[i].owner = item.owner

\* The answer that was given is no longer awaited.
LEMMA SoundAnswered ==
  ASSUME NEW S, NEW c, NEW m, NEW n, n = m + 1, n \in 1..Len(c),
         Sound(S, c, m), NEW g, g = c[n].item.owner,
         SentAgain(S, c[n].item), NEW R \in Service, OneLess(S, R, g)
  PROVE  Sound(R, c, n)
<1>1. /\ S \in Service /\ c \in Outcomes /\ m \in 0..Len(c) /\ m \in Nat /\ Len(c) \in Nat
      /\ S.work \in Seq(Item) /\ S.generation \in Nat
  <2>1. S \in Service /\ c \in Outcomes /\ m \in 0..Len(c)
    BY DEF Sound
  <2>2. S.work \in Seq(Item) /\ S.generation \in Generations
    BY <2>1 DEF Service
  <2>3. S.generation \in Nat
    BY <2>2, BoundsAssumption DEF Generations
  <2>4. Len(c) \in Nat
    BY <2>1 DEF Outcomes
  <2> QED  BY <2>1, <2>2, <2>3, <2>4
<1>11. /\ R.active = S.active /\ R.sessions = S.sessions /\ R.generation = S.generation
       /\ R.work = S.work /\ R.session[g].pending = S.session[g].pending - 1
       /\ \A h \in Generations : h # g => R.session[h] = S.session[h]
  BY DEF OneLess, Within, OthersKept
<1>12. \A h \in Generations : /\ R.session[h].login = S.session[h].login
                             /\ R.session[h].user = S.session[h].user
                             /\ R.session[h].load = S.session[h].load
                             /\ R.session[h].award = S.session[h].award
                             /\ R.session[h].retired = S.session[h].retired
                             /\ R.session[h].last_chance = S.session[h].last_chance
  BY DEF OneLess, OthersKept
<1>2. c[n].item \in Item /\ g \in Generations
  <2>1. c[n] \in Answer
    BY <1>1 DEF Outcomes
  <2> QED  BY <2>1 DEF Answer, Item
<1>3. Out(S, c, m) = Out(R, c, n) \cup {c[n].item}
  <2>1. (m + 1)..Len(c) = {n} \cup ((n + 1)..Len(c))
    BY <1>1
  <2> QED  BY <1>11, <2>1 DEF Out
<1>4. \A h \in Generations :
        /\ Cardinality(Answered(c, m, h)) = Cardinality(Answered(c, n, h)) + (IF g = h THEN 1 ELSE 0)
        /\ Cardinality(Answered(c, n, h)) \in Nat /\ Cardinality(Owing(S.work, h)) \in Nat
        /\ Holding(S.active, h) \in Nat
  <2>1. m = n - 1 /\ n \in 0..Len(c)
    BY <1>1
  <2> QED  BY <1>1, <2>1, AnsweredStep, AnsweredFinite, OwingFinite DEF Holding
<1>5. Counted(R, c, n)
  <2> SUFFICES ASSUME NEW h \in Generations
               PROVE  R.session[h].pending =
                        Cardinality(Owing(R.work, h)) + Cardinality(Answered(c, n, h)) + Holding(R.active, h)
    BY DEF Counted
  <2>1. S.session[h].pending =
          Cardinality(Owing(S.work, h)) + Cardinality(Answered(c, m, h)) + Holding(S.active, h)
    BY DEF Sound, Counted
  <2>2. CASE h = g
    <3>1. /\ Cardinality(Answered(c, m, h)) = Cardinality(Answered(c, n, h)) + 1
          /\ Cardinality(Answered(c, n, h)) \in Nat /\ Cardinality(Owing(S.work, h)) \in Nat
          /\ Holding(S.active, h) \in Nat
      BY <1>4, <2>2
    <3>2. R.session[h].pending = S.session[h].pending - 1 /\ R.work = S.work /\ R.active = S.active
      BY <1>11, <2>2
    <3> QED  BY <2>1, <3>1, <3>2
  <2>3. CASE h # g
    <3>1. Cardinality(Answered(c, m, h)) = Cardinality(Answered(c, n, h)) /\ R.session[h] = S.session[h]
      BY <1>4, <1>11, <2>3
    <3> QED  BY <1>11, <2>1, <3>1
  <2> QED  BY <2>2, <2>3
<1>6. S.session[g].pending \in Nat \ {0} /\ g \in S.sessions /\ g <= S.generation
  <2>1. S.session[g].pending =
          Cardinality(Owing(S.work, g)) + Cardinality(Answered(c, m, g)) + Holding(S.active, g)
    BY <1>2 DEF Sound, Counted
  <2>2. S.session[g].pending \in Nat \ {0}
    <3>1. /\ Cardinality(Answered(c, m, g)) = Cardinality(Answered(c, n, g)) + 1
          /\ Cardinality(Answered(c, n, g)) \in Nat /\ Cardinality(Owing(S.work, g)) \in Nat
          /\ Holding(S.active, g) \in Nat
      BY <1>2, <1>4
    <3> QED  BY <2>1, <3>1
  <2>3. Clients(S)
    BY DEF Sound
  <2>4. g \in S.sessions /\ S.sessions \subseteq 0..S.generation
    BY <1>2, <2>2, <2>3 DEF Clients
  <2>5. g \in 0..S.generation
    BY <2>4
  <2> QED  BY <1>1, <2>2, <2>4, <2>5
<1>7. Clients(R)
  <2>1. Clients(S) /\ g <= S.generation
    BY <1>6 DEF Sound
  <2>2. \A h \in Generations : R.session[h].pending # 0 => h \in R.sessions
    <3> SUFFICES ASSUME NEW h \in Generations, R.session[h].pending # 0  PROVE h \in S.sessions
      BY <1>11
    <3>1. CASE h = g
      BY <1>6, <3>1
    <3>2. CASE h # g
      BY <1>11, <2>1, <3>2 DEF Clients
    <3> QED  BY <3>1, <3>2
  <2>3. \A h \in Generations : h < R.generation => R.session[h].retired
    BY <1>11, <1>12, <2>1 DEF Clients
  <2>4. \A h \in Generations : h > R.generation => R.session[h] = NewSession
    <3> SUFFICES ASSUME NEW h \in Generations, h > S.generation  PROVE R.session[h] = NewSession
      BY <1>11
    <3>1. h # g
      BY <1>1, <1>2, <1>6, BoundsAssumption DEF Generations
    <3> QED  BY <1>11, <2>1, <3>1 DEF Clients
  <2> QED  BY <1>11, <2>1, <2>2, <2>3, <2>4 DEF Clients
<1>8. Sent(R, c, n)
  <2> SUFFICES ASSUME NEW h \in Generations, R.session[h].award = "sent"
               PROVE  Awaited(R, c, n, h)
    BY DEF Sent
  <2>1. S.session[h].award = "sent"
    BY <1>12
  <2>2. PICK x \in Out(S, c, m) : x.kind = "Award" /\ x.owner = h
    BY <2>1 DEF Sound, Sent, Awaited
  <2>3. CASE x \in Out(R, c, n)
    BY <2>2, <2>3 DEF Awaited
  <2>4. CASE x = c[n].item
    <3>1. PICK i \in DOMAIN S.work : S.work[i].kind = "Award" /\ S.work[i].owner = g
      BY <2>1, <2>2, <2>4 DEF SentAgain
    <3>2. S.work[i] \in Out(R, c, n)
      BY <1>11 DEF Out
    <3> QED  BY <2>2, <2>4, <3>1, <3>2 DEF Awaited
  <2> QED  BY <1>3, <2>2, <2>3, <2>4
<1>9. Logins(R, c, n)
  <2>1. \A x \in Out(S, c, m) : x.owner \in Generations
    BY <1>1, OutItems DEF Item
  <2>2. \A h \in Generations : /\ R.session[h].login = S.session[h].login
                               /\ R.session[h].user = S.session[h].user
                               /\ R.session[h].load = S.session[h].load
    BY <1>12
  <2>3. Logins(S, c, m) /\ Out(R, c, n) \subseteq Out(S, c, m)
    BY <1>3 DEF Sound
  <2>4. \A x \in Out(R, c, n) : x.kind = "Login" => R.session[x.owner].login \in {None, x.user}
    BY <2>1, <2>2, <2>3 DEF Logins
  <2>5. \A h \in Generations :
          /\ R.session[h].login # None => R.session[h].user = None
          /\ R.session[h].user = None => R.session[h].load = "none"
    BY <2>2, <2>3 DEF Logins
  <2> QED  BY <2>4, <2>5 DEF Logins
<1>10. Chances(R)
  BY <1>12 DEF Sound, Chances
<1> QED
  BY <1>1, <1>5, <1>7, <1>8, <1>9, <1>10 DEF Sound

SameRetired(S, R) == \A g \in Generations : R.session[g].retired = S.session[g].retired

\* One answer, whatever it is.
LEMMA GoodRespond ==
  ASSUME NEW S, NEW c, NEW m, NEW n, n = m + 1, n \in 1..Len(c), NEW k, NEW cr,
         Good(S, c, m, k, cr, {}), Shown(S), S.stopping \/ S.generation \in S.sessions,
         NEW R, R = Respond(S, c[n])
  PROVE  /\ R \in Service /\ Good(R, c, n, k, cr, {}) /\ Shown(R)
         /\ Within(S, R) /\ SameRetired(S, R)
<1> DEFINE item == c[n].item
           result == c[n].result
           g == item.owner
           A == Callback(S, item, result)
           scheduled == FALSE
           B == IF A.session[g].retired THEN FlushRetired(A, g, scheduled) ELSE A
           ses == [B.session[g] EXCEPT !.pending = @ - 1]
<1>1. /\ S \in Service /\ c \in Outcomes /\ m \in 0..Len(c) /\ m \in Nat /\ Len(c) \in Nat
      /\ Sound(S, c, m)
  BY DEF Good, Sound, Outcomes
<1>2. item \in Out(S, c, m) /\ item \in Item /\ g \in Generations
  <2>1. item \in Out(S, c, m)
    BY <1>1 DEF Out
  <2> QED  BY <1>1, <2>1, OutItems DEF Item
<1>3. S.session[g].pending \in Nat \ {0} /\ g \in S.sessions
  <2>1. Cardinality(Answered(c, m, g)) = Cardinality(Answered(c, n, g)) + 1
        /\ Cardinality(Answered(c, n, g)) \in Nat /\ Cardinality(Owing(S.work, g)) \in Nat
        /\ Holding(S.active, g) \in Nat
    <3>1. m = n - 1 /\ n \in 0..Len(c)
      BY <1>1
    <3>2. S.work \in Seq(Item)
      BY <1>1 DEF Service
    <3> QED  BY <1>1, <3>1, <3>2, AnsweredStep, AnsweredFinite, OwingFinite DEF Holding
  <2>2. S.session[g].pending =
          Cardinality(Owing(S.work, g)) + Cardinality(Answered(c, m, g)) + Holding(S.active, g)
    BY <1>1, <1>2 DEF Sound, Counted
  <2>3. S.session[g].pending \in Nat \ {0}
    BY <2>1, <2>2
  <2>4. Clients(S)
    BY <1>1 DEF Sound
  <2> QED  BY <1>1, <1>2, <2>3, <2>4 DEF Clients
<1>4. R = WithSession(B, g, ses)
  BY DEF Respond, WithSession
<1> HIDE DEF item, result
<1>5. /\ A \in Service /\ Good(A, c, m, k, cr, {} \cup {g}) /\ Shown(A) /\ Heard(S, A)
      /\ \/ item.kind # "Award" /\ SameAwards(S, A)
         \/ item.kind = "Award" /\ Judged(S, A, g)
  BY <1>2, <1>3, GoodCallback
<1> HIDE DEF A
<1>20. A.session[g].award = "scheduled" /\ A.session[g].retired /\ ~scheduled =>
         A.session[g].last_chance
  <2>1. CASE item.kind # "Award" /\ SameAwards(S, A)
    <3>1. A.session[g].award = S.session[g].award /\ A.session[g].retired = S.session[g].retired
      BY <1>2, <1>5, <2>1 DEF SameAwards, Heard
    <3> QED  BY <1>2, <3>1 DEF Good, Retries
  <2>2. CASE Judged(S, A, g)
    BY <2>2 DEF Judged
  <2> QED  BY <1>5, <2>1, <2>2
<1> HIDE DEF g, scheduled
<1>6. Good(A, c, m, k, cr, {g}) /\ g \in A.sessions /\ A.session[g].pending >= S.session[g].pending
  BY <1>2, <1>3, <1>5 DEF Heard, Within
<1>7. /\ B \in Service /\ Good(B, c, m, k, cr, {}) /\ Shown(B) /\ Within(S, B) /\ SameRetired(S, B)
      /\ B.session[g].pending >= S.session[g].pending
      /\ item.kind = "Award" /\ B.session[g].award = "sent" =>
           \E i \in DOMAIN B.work : B.work[i].kind = "Award" /\ B.work[i].owner = g
  <2>0. \A x : Http("Award", g, x, 0).kind = "Award" /\ Http("Award", g, x, 0).owner = g
    BY DEF Http
  <2>9. ASSUME NEW T \in Service, NEW U \in Service, NEW x, Append(T.work, Http("Award", g, x, 0)) = U.work
        PROVE  \E i \in DOMAIN U.work : U.work[i].kind = "Award" /\ U.work[i].owner = g
    <3> DEFINE y == Http("Award", g, x, 0)
    <3>1. y.kind = "Award" /\ y.owner = g
      BY <2>0
    <3> HIDE DEF y
    <3>2. U.work = Append(T.work, y) /\ T.work \in Seq(Item)
      BY <2>9 DEF y, Service
    <3>3. Len(T.work) + 1 \in DOMAIN U.work /\ U.work[Len(T.work) + 1] = y
      BY <3>2
    <3> QED  BY <3>1, <3>3
  <2>1. CASE A.session[g].retired
    <3>1. B = FlushRetired(A, g, scheduled)
      BY <2>1
    <3> HIDE DEF B
    <3> DEFINE Y == {g}
    <3>9. Good(A, c, m, k, cr, Y) /\ g \in A.sessions
      BY <1>6
    <3> HIDE DEF Y
    <3>2. B \in Service /\ Good(B, c, m, k, cr, Y \ {g}) /\ Asks(A, B, g) /\ Flushed(A, B, g)
      BY <1>2, <1>6, <1>20, <3>1, <3>9, GoodFlush
    <3>3. Y \ {g} = {}
      BY DEF Y
    <3>4. Shown(B)
      BY <1>2, <1>5, <3>2, ShownAsks
    <3>5. Within(S, B)
      BY <1>5, <3>2 DEF Heard, Asks, Within
    <3>6. S.session[g].pending \in Nat /\ A.session[g].pending \in Nat /\ B.session[g].pending \in Nat
      BY <1>1, <1>2, <1>5, <3>2 DEF Service, Session
    <3>7. B.session[g].pending >= S.session[g].pending
      BY <1>6, <3>2, <3>6 DEF Asks
    <3>8. ASSUME item.kind = "Award", B.session[g].award = "sent"
          PROVE  \E i \in DOMAIN B.work : B.work[i].kind = "Award" /\ B.work[i].owner = g
      <4>1. CASE Resent(A, B, g)
        BY <1>5, <2>9, <3>2, <3>8, <4>1 DEF Resent
      <4>2. CASE B = A
        BY <1>1, <1>5, <2>9, <3>8, <4>2 DEF Judged
      <4> QED  BY <3>2, <4>1, <4>2 DEF Flushed
    <3>10. SameRetired(S, B)
      BY <1>5, <3>2 DEF Heard, Asks, OthersKept, SameRetired
    <3> QED  BY <3>2, <3>3, <3>4, <3>5, <3>7, <3>8, <3>10
  <2>2. CASE ~A.session[g].retired
    <3>1. B = A
      BY <2>2
    <3> HIDE DEF B
    <3>2. Retries(B, {})
      BY <1>6, <2>2, <3>1 DEF Good, Retries
    <3>3. Good(B, c, m, k, cr, {})
      BY <1>6, <3>1, <3>2 DEF Good
    <3>4. ASSUME item.kind = "Award", B.session[g].award = "sent"
          PROVE  \E i \in DOMAIN B.work : B.work[i].kind = "Award" /\ B.work[i].owner = g
      BY <1>1, <1>5, <2>9, <3>1, <3>4 DEF Judged
    <3>5. SameRetired(S, B)
      BY <1>5, <3>1 DEF Heard, SameRetired
    <3> QED  BY <1>5, <1>6, <3>1, <3>3, <3>4, <3>5 DEF Heard
  <2> QED  BY <2>1, <2>2
<1> HIDE DEF B
<1>8. B.session[g] \in Session /\ B.session[g].pending \in Nat \ {0}
  <2>1. B.session[g] \in Session
    BY <1>2, <1>7 DEF Service
  <2> QED  BY <1>3, <1>7, <2>1 DEF Session
<1>9. ses \in Session
  BY <1>8 DEF Session
<1>10. /\ ses.pending = B.session[g].pending - 1
       /\ ses.award = B.session[g].award /\ ses.retired = B.session[g].retired
       /\ ses.login = B.session[g].login /\ ses.user = B.session[g].user
       /\ ses.load = B.session[g].load /\ ses.last_chance = B.session[g].last_chance
  BY <1>8 DEF Session
<1> HIDE DEF ses
<1>11. /\ R \in Service
       /\ Within(B, R) /\ SameView(B, R) /\ OthersKept(B, R, g)
       /\ R.session[g] = ses /\ R.work = B.work
  BY <1>2, <1>4, <1>7, <1>9, SessionUpdate
<1>12. Sound(R, c, n)
  <2>1. g = c[n].item.owner /\ Sound(B, c, m)
    BY <1>7 DEF g, item, Good
  <2>2. SentAgain(B, c[n].item)
    BY <1>7 DEF item, g, SentAgain
  <2>3. OneLess(B, R, g)
    BY <1>10, <1>11 DEF OneLess
  <2> QED  BY <1>11, <2>1, <2>2, <2>3, SoundAnswered
<1>13. Kept(R, k, cr)
  <2>1. Prolongs(B, R) /\ R.active = B.active /\ Kept(B, k, cr)
    BY <1>7, <1>11, ProlongsSame DEF Within, Good
  <2> QED  BY <1>7, <1>11, <2>1, KeptProlongs
<1>14. Known(R, k)
  BY <1>2, <1>7, <1>10, <1>11, KnownClient DEF Good, SameView
<1>15. Retries(R, {})
  BY <1>2, <1>7, <1>10, <1>11, RetriesClient DEF Good
<1>16. Shown(R)
  <2>1. R.generation = B.generation /\ B.generation \in Generations
    BY <1>7, <1>11 DEF Within, Service
  <2>2. \A h \in Generations : /\ R.session[h].load = B.session[h].load
                               /\ R.session[h].retired = B.session[h].retired
    BY <1>10, <1>11 DEF OthersKept
  <2>3. Current(R).load = Current(B).load /\ Current(R).retired = Current(B).retired
    BY <2>1, <2>2 DEF Current
  <2> QED  BY <1>7, <1>11, <2>3 DEF Shown, Within, SameView, Refreshing
<1>17. Within(S, R)
  BY <1>7, <1>11 DEF Within
<1>18. SameRetired(S, R)
  BY <1>7, <1>10, <1>11 DEF SameRetired, OthersKept
<1> QED
  BY <1>11, <1>12, <1>13, <1>14, <1>15, <1>16, <1>17, <1>18 DEF Good

-----------------------------------------------------------------------------
(* The answers and the commands, one after the other *)

\* Induction up to N, from a least counterexample.
LEMMA Steps ==
  ASSUME NEW N \in Nat, NEW T, 0 \in T, \A n \in 1..N : n - 1 \in T => n \in T
  PROVE  \A n \in 0..N : n \in T
<1> DEFINE Missing == (0..N) \ T
<1>1. SUFFICES ASSUME Missing # {}  PROVE FALSE
  OBVIOUS
<1>2. Missing \subseteq Nat
  OBVIOUS
<1>3. PICK k \in Missing : \A j \in Missing : ~(<< j, k >> \in OpToRel(<, Nat))
  <2> HIDE DEF Missing
  <2> QED  BY <1>1, <1>2, NatLessThanWellFounded, WFMin
<1>4. \A j \in Missing : ~(j < k)
  BY <1>2, <1>3 DEF OpToRel
<1>5. k \in 1..N /\ k - 1 \in 0..N /\ k - 1 < k /\ k \notin T
  OBVIOUS
<1>6. k - 1 \in T
  BY <1>4, <1>5
<1> QED
  BY <1>5, <1>6

\* The answers are swapped out.
NoAnswers(S) == [S EXCEPT !.completed = <<>>]

\* g holds the service after each of the first k answers.
Responds(S, c, g, k) ==
  g = [n \in 0..k |-> IF n = 0 THEN NoAnswers(S) ELSE Respond(g[n - 1], c[n])]

\* The values of the recursive function that gives the answers.
LEMMA RespondsValues ==
  ASSUME NEW S, NEW c, NEW k \in Nat, NEW g, Responds(S, c, g, k)
  PROVE  /\ g[0] = NoAnswers(S)
         /\ \A n \in 1..k : g[n] = Respond(g[n - 1], c[n])
BY DEF Responds

\* It extends to one answer more.
LEMMA RespondsNext ==
  ASSUME NEW S, NEW c, NEW k \in Nat \ {0}, NEW g, Responds(S, c, g, k - 1)
  PROVE  \E h : Responds(S, c, h, k)
<1> DEFINE Base == NoAnswers(S)
           h == [n \in 0..k |-> IF n = 0 THEN Base ELSE Respond(g[n - 1], c[n])]
<1>1. \A n \in 0..k : h[n] = IF n = 0 THEN Base ELSE Respond(g[n - 1], c[n])
  OBVIOUS
<1>2. g[0] = Base /\ \A n \in 1..(k - 1) : g[n] = Respond(g[n - 1], c[n])
  BY RespondsValues
<1>3. h = [n \in 0..k |-> IF n = 0 THEN Base ELSE Respond(g[n - 1], c[n])]
  OBVIOUS
<1> HIDE DEF Base, h
<1>4. \A n \in 1..k : h[n - 1] = g[n - 1]
  <2> SUFFICES ASSUME NEW n \in 1..k  PROVE h[n - 1] = g[n - 1]
    OBVIOUS
  <2>1. CASE n = 1
    BY <1>1, <1>2, <2>1
  <2>2. CASE n # 1
    <3>1. n - 1 \in 1..(k - 1) /\ n - 1 \in 0..k /\ n - 1 # 0
      BY <2>2
    <3>2. g[n - 1] = Respond(g[(n - 1) - 1], c[n - 1])
      BY <1>2, <3>1
    <3>3. h[n - 1] = Respond(g[(n - 1) - 1], c[n - 1])
      BY <1>1, <3>1
    <3> QED  BY <3>2, <3>3
  <2> QED  BY <2>1, <2>2
<1>5. h = [n \in 0..k |-> IF n = 0 THEN Base ELSE Respond(h[n - 1], c[n])]
  <2>1. \A n \in 0..k : (IF n = 0 THEN Base ELSE Respond(g[n - 1], c[n]))
                      = (IF n = 0 THEN Base ELSE Respond(h[n - 1], c[n]))
    BY <1>4
  <2> QED  BY <1>3, <2>1
<1>6. Responds(S, c, h, k)
  BY <1>5 DEF Responds, Base
<1> QED
  BY <1>6

\* finish_responses gives the answers in their order.
LEMMA FinishResponsesSteps ==
  ASSUME NEW S, NEW c, c = S.completed, Len(c) \in Nat
  PROVE  \E f : /\ f[0] = NoAnswers(S)
                /\ \A n \in 1..Len(c) : f[n] = Respond(f[n - 1], c[n])
                /\ FinishResponses(S) = f[Len(c)]
<1> DEFINE L == Len(c)
           T == {k \in 0..L : \E g : Responds(S, c, g, k)}
           f == CHOOSE g : Responds(S, c, g, L)
<1>1. FinishResponses(S) = f[L]
  BY DEF FinishResponses, Responds, NoAnswers
<1>2. 0 \in T
  <2> DEFINE g == [n \in 0..0 |-> NoAnswers(S)]
  <2>1. g = [n \in 0..0 |-> IF n = 0 THEN NoAnswers(S) ELSE Respond(g[n - 1], c[n])]
    OBVIOUS
  <2> HIDE DEF g
  <2>2. Responds(S, c, g, 0)
    BY <2>1 DEF Responds
  <2> QED  BY <2>2
<1>3. \A k \in 1..L : k - 1 \in T => k \in T
  BY RespondsNext
<1>4. L \in T
  <2>1. L \in Nat
    OBVIOUS
  <2> HIDE DEF T, L
  <2>2. \A n \in 0..L : n \in T
    BY <1>2, <1>3, <2>1, Steps
  <2> QED  BY <2>1, <2>2
<1>5. Responds(S, c, f, L)
  BY <1>4
<1>6. L \in Nat
  OBVIOUS
<1> HIDE DEF f, L
<1> HIDE DEF T
<1>7. f[0] = NoAnswers(S) /\ \A n \in 1..L : f[n] = Respond(f[n - 1], c[n])
  BY ONLY <1>5, <1>6, RespondsValues
<1> QED
  BY <1>1, <1>7 DEF L

\* With all its answers given there is nothing left of c.
LEMMA GoodNoneLeft ==
  ASSUME NEW S, NEW c, NEW n, n = Len(c), NEW k, NEW cr, NEW X, Good(S, c, n, k, cr, X)
  PROVE  Good(S, <<>>, 0, k, cr, X)
<1>1. Sound(S, c, n) /\ Len(c) \in Nat
  BY DEF Good, Sound, Outcomes
<1>2. \A g : Answered(c, n, g) = {} /\ Answered(<<>>, 0, g) = {}
  BY <1>1 DEF Answered
<1>3. Out(S, <<>>, 0) = Out(S, c, n)
  BY <1>1 DEF Out
<1>4. Counted(S, <<>>, 0)
  BY <1>1, <1>2 DEF Sound, Counted
<1>5. Sent(S, <<>>, 0) /\ Logins(S, <<>>, 0)
  BY <1>1, <1>3 DEF Sound, Sent, Logins, Awaited
<1>6. <<>> \in Outcomes /\ 0 \in 0..Len(<<>>)
  BY DEF Outcomes
<1>7. Sound(S, <<>>, 0)
  BY <1>1, <1>4, <1>5, <1>6 DEF Sound
<1> QED
  BY <1>7 DEF Good

\* The swapped answers are all that finish_responses takes out of the service.
Emptied(S, R) ==
  /\ R.generation = S.generation /\ R.sessions = S.sessions
  /\ R.commands = S.commands /\ R.completed = <<>> /\ R.active = S.active
  /\ R.stopping = S.stopping /\ R.stop_worker = S.stop_worker
  /\ R.live_game = S.live_game /\ R.hash = S.hash

\* finish_responses: all the answers that were there.
LEMMA GoodFinishResponses ==
  ASSUME NEW S, NEW c, c = S.completed, NEW k, NEW cr,
         Good(S, c, 0, k, cr, {}), Shown(S), S.stopping \/ S.generation \in S.sessions,
         NEW R, R = FinishResponses(S)
  PROVE  /\ R \in Service /\ Good(R, <<>>, 0, k, cr, {}) /\ Shown(R)
         /\ Emptied(S, R) /\ SameRetired(S, R)
<1> DEFINE B == NoAnswers(S)
<1>1. S \in Service /\ c \in Outcomes /\ Len(c) \in Nat
  BY DEF Good, Sound, Outcomes
<1>2. PICK f : /\ f[0] = B
               /\ \A n \in 1..Len(c) : f[n] = Respond(f[n - 1], c[n])
               /\ R = f[Len(c)]
  BY <1>1, FinishResponsesSteps
<1>3. B \in Service
  <2>1. <<>> \in Seq([item : Item, result : {"ok", "refused", "outage"}])
    OBVIOUS
  <2> QED  BY <1>1, <2>1, ZenonT(60) DEF Service, NoAnswers
<1>4. /\ B.session = S.session /\ B.work = S.work /\ SameView(S, B) /\ Emptied(S, B)
      /\ B.active = S.active /\ B.generation = S.generation /\ B.sessions = S.sessions
      /\ B.stopping = S.stopping
  BY <1>1 DEF NoAnswers, Service, SameView, Emptied
<1> HIDE DEF B
<1>5. Good(B, c, 0, k, cr, {})
  <2>1. Out(B, c, 0) = Out(S, c, 0)
    BY <1>4 DEF Out
  <2>2. Counted(B, c, 0)
    BY <1>4 DEF Good, Sound, Counted
  <2>3. Clients(B) /\ Chances(B)
    BY <1>4 DEF Good, Sound, Clients, Chances
  <2>4. Sent(B, c, 0) /\ Logins(B, c, 0)
    BY <1>4, <2>1 DEF Good, Sound, Sent, Logins, Awaited
  <2>5. Sound(B, c, 0)
    BY <1>3, <2>2, <2>3, <2>4 DEF Good, Sound
  <2>6. Retries(B, {})
    BY <1>4 DEF Good, Retries
  <2>7. Known(B, k)
    BY <1>4 DEF Good, Known, Current, SameView
  <2>8. Kept(B, k, cr)
    BY <1>4 DEF Good, Kept
  <2> QED  BY <2>5, <2>6, <2>7, <2>8 DEF Good
<1>6. Shown(B)
  BY <1>4 DEF Shown, SameView, Current, Refreshing
<1>7. B.stopping \/ B.generation \in B.sessions
  BY <1>4
<1> DEFINE Fine(n) == /\ f[n] \in Service /\ Good(f[n], c, n, k, cr, {}) /\ Shown(f[n])
                      /\ Within(B, f[n]) /\ SameRetired(B, f[n])
           T == {n \in 0..Len(c) : Fine(n)}
<1>8. Fine(0)
  BY <1>2, <1>3, <1>5, <1>6 DEF Within, SameRetired
<1>9. ASSUME NEW n \in 1..Len(c), Fine(n - 1)  PROVE Fine(n)
  <2> DEFINE m == n - 1
             A == f[m]
  <2>1. n = m + 1
    OBVIOUS
  <2>2. f[n] = Respond(A, c[n])
    BY <1>2
  <2>3. A.stopping \/ A.generation \in A.sessions
    BY <1>7, <1>9 DEF Within
  <2>4. A \in Service /\ Good(A, c, m, k, cr, {}) /\ Shown(A) /\ Within(B, A) /\ SameRetired(B, A)
    BY <1>9
  <2> HIDE DEF A, m
  <2>5. /\ f[n] \in Service /\ Good(f[n], c, n, k, cr, {}) /\ Shown(f[n])
        /\ Within(A, f[n]) /\ SameRetired(A, f[n])
    BY <2>1, <2>2, <2>3, <2>4, GoodRespond
  <2> QED  BY <2>4, <2>5 DEF Within, SameRetired
<1>10. Fine(Len(c))
  <2> HIDE DEF Fine
  <2>1. 0 \in T
    BY <1>1, <1>8
  <2>2. \A n \in 1..Len(c) : n - 1 \in T => n \in T
    BY <1>1, <1>9
  <2> HIDE DEF T
  <2>3. \A n \in 0..Len(c) : n \in T
    BY <1>1, <2>1, <2>2, Steps
  <2> QED  BY <1>1, <2>3 DEF T
<1>11. /\ R \in Service /\ Good(R, c, Len(c), k, cr, {}) /\ Shown(R)
       /\ Within(B, R) /\ SameRetired(B, R)
  BY <1>2, <1>10, Zenon
<1>12. Good(R, <<>>, 0, k, cr, {})
  BY <1>11, GoodNoneLeft
<1>13. Emptied(S, R)
  BY <1>4, <1>11 DEF Within, Emptied
<1>14. SameRetired(S, R)
  BY <1>4, <1>11 DEF SameRetired
<1> QED
  BY <1>11, <1>12, <1>13, <1>14

-----------------------------------------------------------------------------
(* The commands *)

\* A removal at the end of the queue leaves no credentials.
LEMMA KeptRemoval ==
  ASSUME NEW S \in Service, NEW R \in Service, NEW item, item.kind = "Remove",
         R.work = Append(S.work, item), NEW k, NEW cr
  PROVE  Kept(R, k, cr)
<1>1. /\ DOMAIN R.work = 1..(Len(S.work) + 1) /\ Len(S.work) \in Nat
      /\ R.work[Len(S.work) + 1] = item
  BY DEF Service
<1> QED
  BY <1>1 DEF Kept

\* What a command leaves of credentials that fitted others.
Outlives(S, R, cr) == \A y : Kept(S, y, cr) => Kept(R, y, cr)

Carried(S, R) ==
  /\ R.generation = S.generation + 1 /\ R.generation \in R.sessions
  /\ R.commands = S.commands /\ R.completed = S.completed /\ R.active = S.active
  /\ R.stopping = S.stopping /\ R.stop_worker = S.stop_worker
  /\ R.live_game = S.live_game /\ R.hash = S.hash

\* One command: the old account goes, and a sign-in begins.
LEMMA GoodCarry ==
  ASSUME NEW S, NEW c, NEW k, NEW cr, Good(S, c, 0, k, cr, {}),
         S.generation \in S.sessions, S.generation < MaxGeneration,
         NEW x \in Command, x.token => Kept(S, x, cr),
         NEW R, R = Carry(S, x)
  PROVE  /\ R \in Service /\ Good(R, c, 0, x, cr, {}) /\ Shown(R) /\ Carried(S, R)
         /\ Outlives(S, R, cr) /\ (~x.token => \A y : Kept(R, y, cr))
<1> DEFINE A == ClearAccount(S)
           B == IF x.token THEN A ELSE Enqueue(A, Removal)
           D == [B EXCEPT !.remember = x.remember, !.token_login = x.token, !.busy = TRUE]
           g == B.generation
           ses == [D.session[g] EXCEPT !.login = x.username]
           C == WithSession(D, g, ses)
           item == Http("Login", g, x.username, 0)
<1>1. S \in Service /\ c \in Outcomes /\ 0 \in 0..Len(c)
  BY DEF Good, Sound
<1>2. A \in Service /\ Good(A, c, 0, k, cr, {}) /\ Shown(A) /\ Renewed(S, A)
  BY GoodClearAccount
<1> HIDE DEF A
<1>3. Removal \in Item /\ ~IsHttp(Removal) /\ Removal.kind = "Remove"
  BY BoundsAssumption DEF Http, Item, IsHttp, Removal, Serials, Generations
<1>4. /\ B \in Service /\ Good(B, c, 0, k, cr, {}) /\ Within(A, B) /\ SameView(A, B) /\ B.session = A.session
      /\ \A y : Kept(A, y, cr) => Kept(B, y, cr)
      /\ ~x.token => \A y : Kept(B, y, cr)
  <2>1. CASE x.token
    <3>1. B = A
      BY <2>1
    <3> QED  BY <1>2, <2>1, <3>1 DEF Within, SameView
  <2>2. CASE ~x.token
    <3>1. B = Enqueue(A, Removal)
      BY <2>2
    <3> HIDE DEF B
    <3>2. /\ B \in Service /\ Good(B, c, 0, k, cr, {}) /\ Within(A, B) /\ SameView(A, B)
          /\ B.session = A.session
      BY <1>2, <1>3, <3>1, GoodEnqueue
    <3>3. B.work = Append(A.work, Removal)
      BY <1>2, <1>3, <3>1, EnqueueEffect
    <3>4. \A y : Kept(B, y, cr)
      BY <1>2, <1>3, <3>2, <3>3, KeptRemoval
    <3> QED  BY <3>2, <3>4
  <2> QED  BY <2>1, <2>2
<1> HIDE DEF B
<1>5. \A y : Kept(S, y, cr) => Kept(B, y, cr)
  <2>1. \A y : Kept(S, y, cr) => Kept(A, y, cr)
    BY <1>1, <1>2, KeptProlongs DEF Renewed
  <2> QED  BY <1>4, <2>1
<1>6. Kept(B, x, cr)
  BY <1>4, <1>5
<1>7. Shown(B)
  BY <1>2, <1>4, ShownSame
<1>8. Current(B) = NewSession /\ B.session[g] = NewSession
  BY <1>2, <1>4 DEF Renewed, Within, Current
<1>9. Known(B, x)
  BY <1>8 DEF Known, NewSession
<1>10. Good(B, c, 0, x, cr, {})
  BY <1>4, <1>6, <1>9 DEF Good
<1>11. Carried(S, B)
  BY <1>2, <1>4 DEF Renewed, Within, Carried
<1>12. CASE x.logout
  <2>1. R = B
    BY <1>12 DEF Carry, A, B
  <2> QED  BY <1>4, <1>5, <1>7, <1>10, <1>11, <2>1 DEF Outlives
<1>13. CASE ~x.logout
  <2>1. R = ServerCall(C, item)
    <3>1. R = ServerCall([B EXCEPT !.remember = x.remember, !.token_login = x.token, !.busy = TRUE,
                               !.session[B.generation].login = x.username], item)
      BY <1>13 DEF Carry, A, B
    <3>2. C = [B EXCEPT !.remember = x.remember, !.token_login = x.token, !.busy = TRUE,
                        !.session[B.generation].login = x.username]
      BY <1>4, Zenon DEF WithSession, Service
    <3> QED  BY <3>1, <3>2
  <2>2. x.remember \in BOOLEAN /\ x.token \in BOOLEAN /\ x.username \in Accounts \cup {None}
    BY DEF Command
  <2>3. D \in Service
    BY <1>4, <2>2, ZenonT(60) DEF Service
  <2>4. /\ Within(B, D) /\ D.session = B.session /\ D.work = B.work /\ D.remember = x.remember
        /\ D.catalog = B.catalog /\ D.catalog_busy = B.catalog_busy /\ D.catalog_data = B.catalog_data
        /\ D.catalog_unlocks = B.catalog_unlocks /\ D.catalog_serial = B.catalog_serial
        /\ D.notifications = B.notifications /\ D.game_loaded = B.game_loaded
        /\ D.load_attempted = B.load_attempted
    BY <1>4 DEF Service, Within
  <2> HIDE DEF D
  <2>5. g \in Generations /\ g = D.generation /\ D.session[g] = NewSession
    BY <1>4, <1>8, <2>4 DEF Service, Within
  <2> HIDE DEF g
  <2>6. /\ ses.login = x.username /\ ses.user = None /\ ses.load = "none" /\ ses.award = "locked"
        /\ ses.pending = 0 /\ ~ses.retired
    BY <2>5 DEF NewSession
  <2>7. ses \in Session
    <3>1. D.session[g] \in Session
      BY <2>3, <2>5 DEF Service
    <3> QED  BY <2>2, <3>1 DEF Session
  <2> HIDE DEF ses
  <2>8. /\ C \in Service
        /\ Within(D, C) /\ SameView(D, C) /\ OthersKept(D, C, g)
        /\ C.session[g] = ses /\ C.work = D.work
    BY <2>3, <2>5, <2>7, SessionUpdate
  <2> HIDE DEF C
  <2>9. item \in Item /\ item.owner = g /\ item.kind = "Login" /\ item.user = x.username /\ IsHttp(item)
    BY <2>2, <2>5 DEF Item, Http, Serials, IsHttp
  <2> HIDE DEF item
  <2>10. /\ R \in Service /\ Within(C, R) /\ SameView(C, R) /\ OthersKept(C, R, item.owner)
         /\ R.session[item.owner] = [C.session[item.owner] EXCEPT !.pending = @ + 1]
         /\ R.work = Append(C.work, item)
    BY <2>1, <2>8, <2>9, ServerCallEffect
  <2>11. R.session[g] = [ses EXCEPT !.pending = @ + 1]
    BY <2>8, <2>9, <2>10
  <2>12. /\ R.session[g].login = x.username /\ R.session[g].user = None /\ R.session[g].load = "none"
         /\ R.session[g].award = "locked" /\ R.session[g].pending = 1 /\ ~R.session[g].retired
    BY <2>6, <2>7, <2>11 DEF Session
  <2>13. Within(D, R) /\ SameView(D, R) /\ OthersKept(D, R, g) /\ R.work = Append(D.work, item)
    BY <2>8, <2>9, <2>10 DEF Within, SameView, OthersKept
  <2>14. Sound(D, c, 0)
    <3>1. Sound(B, c, 0)
      BY <1>10 DEF Good
    <3> QED  BY <2>3, <2>4, <3>1, SoundView
  <2>15. /\ D.session[g].pending = 0 /\ ~D.session[g].retired /\ D.session[g].award = "locked"
         /\ g \in D.sessions
    BY <1>11, <2>4, <2>5 DEF NewSession, Carried, Within, g
  <2>16. Sound(R, c, 0)
    <3>1. /\ R.session[g].pending = D.session[g].pending + 1
          /\ D.session[g].retired => R.session[g].retired
          /\ R.session[g].award = "sent" => D.session[g].award = "sent" \/ item.kind = "Award"
          /\ R.session[g].award = "cancelled" => R.session[g].last_chance
          /\ D.session[g].pending = 0 /\ R.session[g].login = item.user
          /\ R.session[g].login # None => R.session[g].user = None
          /\ R.session[g].user = None => R.session[g].load = "none"
      BY <2>9, <2>12, <2>15
    <3> QED  BY <2>5, <2>9, <2>10, <2>13, <2>14, <2>15, <3>1, SoundRequest
  <2>17. \A y : Kept(B, y, cr) => Kept(R, y, cr)
    <3>1. Prolongs(B, R)
      <4>1. R.work = Append(B.work, item)
        BY <2>4, <2>13
      <4> QED  BY <1>4, <2>9, <4>1, ProlongsAppend
    <3>2. R.active = B.active
      BY <2>4, <2>13 DEF Within
    <3> QED  BY <1>4, <2>10, <3>1, <3>2, KeptProlongs
  <2>18. Current(R) = R.session[g] /\ R.generation = g
    BY <2>5, <2>13 DEF Current, Within
  <2>19. Known(R, x)
    BY <1>13, <2>4, <2>12, <2>13, <2>18 DEF Known, SameView
  <2>20. Retries(R, {})
    <3>1. Retries(B, {})
      BY <1>10 DEF Good
    <3> QED  BY <2>4, <2>12, <2>13, <3>1 DEF Retries, OthersKept
  <2>21. Good(R, c, 0, x, cr, {})
    BY <1>6, <2>16, <2>17, <2>19, <2>20 DEF Good
  <2>22. Shown(R)
    <3>1. R.catalog = B.catalog /\ R.notifications = B.notifications /\ R.game_loaded = B.game_loaded
          /\ R.catalog_busy = B.catalog_busy /\ R.catalog_data = B.catalog_data
          /\ R.catalog_unlocks = B.catalog_unlocks
      BY <2>4, <2>13 DEF SameView
    <3>2. R.generation = B.generation /\ R.stopping = B.stopping /\ Refreshing(R) = Refreshing(B)
      BY <2>4, <2>13 DEF Within, SameView, Refreshing
    <3>3. ~B.stopping => ~B.game_loaded
      BY <1>7, <1>8 DEF Shown, NewSession
    <3> QED  BY <1>7, <2>12, <2>18, <3>1, <3>2, <3>3 DEF Shown
  <2>23. Carried(S, R)
    BY <1>11, <2>4, <2>13 DEF Carried, Within
  <2> QED  BY <1>4, <1>5, <2>10, <2>17, <2>21, <2>22, <2>23 DEF Outlives
<1> QED
  BY <1>12, <1>13

\* A command with a token was queued for the account that was signed in: its
\* client has none yet, and the credentials are that account's at most.
Tokens(S, cr) ==
  \A i \in 1..Len(S.commands) : S.commands[i].token =>
    /\ Current(S).login = None /\ Current(S).user = None
    /\ (\A j \in 1..(i - 1) : S.commands[j].token) => Kept(S, S.commands[i], cr)

\* The commands are swapped out.
NoCommands(S) == [S EXCEPT !.commands = <<>>]

\* g holds the service after each of the first k commands.
Carries(S, x, g, k) ==
  g = [n \in 0..k |-> IF n = 0 THEN NoCommands(S) ELSE Carry(g[n - 1], x[n])]

\* The function that carries out commands extends to one more.
LEMMA CarriesNext ==
  ASSUME NEW S, NEW x, NEW k \in Nat \ {0}, NEW g, Carries(S, x, g, k - 1)
  PROVE  \E h : Carries(S, x, h, k)
<1> DEFINE Base == NoCommands(S)
           h == [n \in 0..k |-> IF n = 0 THEN Base ELSE Carry(g[n - 1], x[n])]
<1>1. \A n \in 0..k : h[n] = IF n = 0 THEN Base ELSE Carry(g[n - 1], x[n])
  OBVIOUS
<1>2. g[0] = Base /\ \A n \in 1..(k - 1) : g[n] = Carry(g[n - 1], x[n])
  BY DEF Carries
<1>3. h = [n \in 0..k |-> IF n = 0 THEN Base ELSE Carry(g[n - 1], x[n])]
  OBVIOUS
<1> HIDE DEF Base, h
<1>4. \A n \in 1..k : h[n - 1] = g[n - 1]
  <2> SUFFICES ASSUME NEW n \in 1..k  PROVE h[n - 1] = g[n - 1]
    OBVIOUS
  <2>1. CASE n = 1
    BY <1>1, <1>2, <2>1
  <2>2. CASE n # 1
    <3>1. n - 1 \in 1..(k - 1) /\ n - 1 \in 0..k /\ n - 1 # 0
      BY <2>2
    <3>2. g[n - 1] = Carry(g[(n - 1) - 1], x[n - 1])
      BY <1>2, <3>1
    <3>3. h[n - 1] = Carry(g[(n - 1) - 1], x[n - 1])
      BY <1>1, <3>1
    <3> QED  BY <3>2, <3>3
  <2> QED  BY <2>1, <2>2
<1>5. h = [n \in 0..k |-> IF n = 0 THEN Base ELSE Carry(h[n - 1], x[n])]
  <2>1. \A n \in 0..k : (IF n = 0 THEN Base ELSE Carry(g[n - 1], x[n]))
                      = (IF n = 0 THEN Base ELSE Carry(h[n - 1], x[n]))
    BY <1>4
  <2> QED  BY <1>3, <2>1
<1>6. Carries(S, x, h, k)
  BY <1>5 DEF Carries, Base
<1> QED
  BY <1>6

\* The commands are carried out in their order.
LEMMA ProcessCommandsSteps ==
  ASSUME NEW S, NEW x, x = S.commands, Len(x) \in Nat
  PROVE  \E f : /\ f[0] = NoCommands(S)
                /\ \A n \in 1..Len(x) : f[n] = Carry(f[n - 1], x[n])
                /\ ProcessCommands(S) = f[Len(x)]
<1> DEFINE L == Len(x)
           T == {k \in 0..L : \E g : Carries(S, x, g, k)}
           f == CHOOSE g : Carries(S, x, g, L)
<1>1. ProcessCommands(S) = f[L]
  BY DEF ProcessCommands, Carries, NoCommands
<1>2. 0 \in T
  <2> DEFINE g == [n \in 0..0 |-> NoCommands(S)]
  <2>1. g = [n \in 0..0 |-> IF n = 0 THEN NoCommands(S) ELSE Carry(g[n - 1], x[n])]
    OBVIOUS
  <2> HIDE DEF g
  <2>2. Carries(S, x, g, 0)
    BY <2>1 DEF Carries
  <2> QED  BY <2>2
<1>3. \A k \in 1..L : k - 1 \in T => k \in T
  BY CarriesNext
<1>4. L \in T
  <2>1. L \in Nat
    OBVIOUS
  <2> HIDE DEF T, L
  <2>2. \A n \in 0..L : n \in T
    BY <1>2, <1>3, <2>1, Steps
  <2> QED  BY <2>1, <2>2
<1>5. Carries(S, x, f, L)
  BY <1>4
<1>6. L \in Nat
  OBVIOUS
<1> HIDE DEF f, L
<1>7. f[0] = NoCommands(S)
  BY <1>5, <1>6 DEF Carries
<1>8. \A n \in 1..L : f[n] = Carry(f[n - 1], x[n])
  BY <1>5, <1>6 DEF Carries
<1> QED
  BY <1>1, <1>7, <1>8 DEF L

\* The last command that is carried out.
LastCommand(S, k) == IF S.commands = <<>> THEN k ELSE Last(S.commands)

\* All commands were carried out.
Processed(S, R) ==
  /\ R.commands = <<>> /\ R.generation \in R.sessions
  /\ R.completed = S.completed /\ R.active = S.active
  /\ R.stopping = S.stopping /\ R.stop_worker = S.stop_worker
  /\ R.live_game = S.live_game /\ R.hash = S.hash

\* All commands, after which the last one determines the credentials.
LEMMA GoodProcessCommands ==
  ASSUME NEW S, NEW c, NEW k, NEW cr,
         Good(S, c, 0, k, cr, {}), Shown(S), Tokens(S, cr),
         S.generation \in S.sessions, S.generation + Len(S.commands) <= MaxGeneration,
         NEW R, R = ProcessCommands(S)
  PROVE  R \in Service /\ Good(R, c, 0, LastCommand(S, k), cr, {}) /\ Shown(R) /\ Processed(S, R)
<1> DEFINE x == S.commands
           B == NoCommands(S)
           Latest(n) == IF n = 0 THEN k ELSE x[n]
<1>1. S \in Service /\ x \in Seq(Command) /\ Len(x) \in Nat /\ S.generation \in Nat /\ MaxGeneration \in Nat
  <2>1. S \in Service
    BY DEF Good, Sound
  <2>2. x \in Seq(Command) /\ S.generation \in Generations
    BY <2>1 DEF Service
  <2>3. Len(x) \in Nat
    BY <2>2
  <2>4. S.generation \in Nat /\ MaxGeneration \in Nat
    BY <2>2, BoundsAssumption DEF Generations
  <2> QED  BY <2>1, <2>2, <2>3, <2>4
<1>2. PICK f : /\ f[0] = B
               /\ \A n \in 1..Len(x) : f[n] = Carry(f[n - 1], x[n])
               /\ R = f[Len(x)]
  BY <1>1, ProcessCommandsSteps, SMTT(60)
<1>3. B \in Service
  <2>1. <<>> \in Seq(Command)
    OBVIOUS
  <2> QED  BY <1>1, <2>1, ZenonT(60) DEF Service, NoCommands
<1>4. /\ B.session = S.session /\ B.work = S.work /\ SameView(S, B)
      /\ B.active = S.active /\ B.generation = S.generation /\ B.sessions = S.sessions
      /\ B.commands = <<>> /\ B.completed = S.completed
      /\ B.stopping = S.stopping /\ B.stop_worker = S.stop_worker
      /\ B.live_game = S.live_game /\ B.hash = S.hash
  BY <1>1 DEF NoCommands, Service, SameView
<1> HIDE DEF B
<1>5. Good(B, c, 0, k, cr, {})
  <2>1. Out(B, c, 0) = Out(S, c, 0)
    BY <1>4 DEF Out
  <2>2. Counted(B, c, 0)
    BY <1>4 DEF Good, Sound, Counted
  <2>3. Clients(B) /\ Chances(B)
    BY <1>4 DEF Good, Sound, Clients, Chances
  <2>4. Sent(B, c, 0) /\ Logins(B, c, 0)
    BY <1>4, <2>1 DEF Good, Sound, Sent, Logins, Awaited
  <2>5. Sound(B, c, 0)
    BY <1>3, <2>2, <2>3, <2>4 DEF Good, Sound
  <2>6. Retries(B, {})
    BY <1>4 DEF Good, Retries
  <2>7. Known(B, k)
    BY <1>4 DEF Good, Known, Current, SameView
  <2>8. Kept(B, k, cr)
    BY <1>4 DEF Good, Kept
  <2> QED  BY <2>5, <2>6, <2>7, <2>8 DEF Good
<1>6. Shown(B)
  BY <1>4 DEF Shown, SameView, Current, Refreshing
<1>7. \A y : Kept(S, y, cr) => Kept(B, y, cr)
  BY <1>4 DEF Kept
<1> DEFINE Wiped(n) == \E j \in 1..n : ~x[j].token
           Due(n) == \A i \in (n + 1)..Len(x) :
                       (x[i].token /\ (Wiped(n) \/ \A j \in 1..(i - 1) : x[j].token))
                         => Kept(f[n], x[i], cr)
           Frame(n) == /\ f[n].generation = S.generation + n /\ f[n].generation \in f[n].sessions
                       /\ f[n].commands = <<>>
                       /\ f[n].completed = S.completed /\ f[n].active = S.active
                       /\ f[n].stopping = S.stopping /\ f[n].stop_worker = S.stop_worker
                       /\ f[n].live_game = S.live_game /\ f[n].hash = S.hash
           Fine(n) == /\ f[n] \in Service /\ Good(f[n], c, 0, Latest(n), cr, {}) /\ Shown(f[n])
                      /\ Frame(n) /\ Due(n)
           T == {n \in 0..Len(x) : Fine(n)}
<1>8. Fine(0)
  <2>1. Due(0)
    BY <1>2, <1>7 DEF Tokens
  <2>2. Frame(0)
    BY <1>1, <1>2, <1>4
  <2>3. Latest(0) = k
    OBVIOUS
  <2> HIDE DEF Due, Frame, Latest
  <2> QED  BY <1>2, <1>3, <1>5, <1>6, <2>1, <2>2, <2>3
<1>9. ASSUME NEW n \in 1..Len(x), Fine(n - 1)  PROVE Fine(n)
  <2> DEFINE m == n - 1
             A == f[m]
             U == f[n]
             kk == Latest(m)
  <2>1. n = m + 1 /\ m \in 0..Len(x) /\ x[n] \in Command
    BY <1>1
  <2>2. U = Carry(A, x[n])
    BY <1>2
  <2>3. A \in Service /\ Good(A, c, 0, kk, cr, {}) /\ Shown(A) /\ Frame(m) /\ Due(m)
    BY <1>9
  <2>4. A.generation < MaxGeneration /\ A.generation \in A.sessions
    BY <1>1, <2>1, <2>3
  <2>5. x[n].token => Kept(A, x[n], cr)
    <3>1. CASE Wiped(m)
      BY <2>1, <2>3, <3>1
    <3>2. CASE ~Wiped(m)
      <4>1. \A j \in 1..(n - 1) : x[j].token
        BY <3>2
      <4> QED  BY <2>1, <2>3, <4>1
    <3> QED  BY <3>1, <3>2
  <2> HIDE DEF A, U, kk
  <2>6. /\ U \in Service /\ Good(U, c, 0, x[n], cr, {}) /\ Shown(U) /\ Carried(A, U)
        /\ Outlives(A, U, cr) /\ (~x[n].token => \A y : Kept(U, y, cr))
    BY <2>1, <2>2, <2>3, <2>4, <2>5, GoodCarry
  <2>7. Frame(n)
    BY <1>1, <2>1, <2>3, <2>6 DEF Carried, A, U
  <2>8. Due(n)
    <3> SUFFICES ASSUME NEW i \in (n + 1)..Len(x), x[i].token,
                        Wiped(n) \/ \A j \in 1..(i - 1) : x[j].token
                 PROVE  Kept(U, x[i], cr)
      BY DEF U
    <3>1. CASE ~x[n].token
      BY <2>6, <3>1
    <3>2. CASE x[n].token
      <4>1. Wiped(m) \/ \A j \in 1..(i - 1) : x[j].token
        BY <2>1, <3>2
      <4>2. i \in (m + 1)..Len(x)
        BY <2>1
      <4>3. Kept(A, x[i], cr)
        BY <2>3, <4>1, <4>2 DEF A
      <4> QED  BY <2>6, <4>3 DEF Outlives
    <3> QED  BY <3>1, <3>2
  <2>9. Latest(n) = x[n]
    BY <2>1
  <2> HIDE DEF Due, Frame, Latest
  <2> QED  BY <2>6, <2>7, <2>8, <2>9 DEF U
<1>10. Fine(Len(x))
  <2> HIDE DEF Fine, x
  <2>1. 0 \in T
    BY <1>1, <1>8
  <2>2. \A n \in 1..Len(x) : n - 1 \in T => n \in T
    BY <1>1, <1>9
  <2> HIDE DEF T
  <2>3. \A n \in 0..Len(x) : n \in T
    BY <1>1, <2>1, <2>2, Steps
  <2> QED  BY <1>1, <2>3 DEF T
<1>11. Latest(Len(x)) = LastCommand(S, k)
  BY <1>1 DEF LastCommand, Last
<1> QED
  BY <1>2, <1>10, <1>11 DEF Processed

-----------------------------------------------------------------------------
(* The invariant *)

Types == /\ credentials \in Accounts \cup {None}
         /\ worker \in {"waiting", "working", "exited"}
         /\ stage \in {"running", "draining", "joining", "done"}
         /\ carried \in Command
         /\ unremoved \in BOOLEAN

\* The worker has what it works on, and is stopped with nothing left to do.
Worker(S) ==
  /\ worker = "working" <=> S.active # None
  /\ S.stop_worker <=> stage \in {"joining", "done"}
  /\ worker = "exited" => S.stop_worker
  /\ S.stop_worker => S.work = <<>> /\ S.active = None /\ S.completed = <<>>

\* The client of the generation is there to the end, and there is room for those
\* of the commands; shutdown has neither commands nor a client that asks.
Stages(S) ==
  /\ stage # "done" => S.generation \in S.sessions
  /\ S.generation + Len(S.commands) <= MaxGeneration
  /\ S.stopping <=> stage # "running"
  /\ S.stopping => S.commands = <<>> /\ Current(S).retired

\* The credentials that the commands answer for: not those a failed removal left.
Accountable == IF unremoved THEN None ELSE credentials

IInv ==
  /\ Types
  /\ Good(service, service.completed, 0, carried, Accountable, {})
  /\ Shown(service)
  /\ Tokens(service, Accountable)
  /\ Worker(service)
  /\ Stages(service)

-----------------------------------------------------------------------------
(* The pump *)

\* collect_sessions between answers and load.
LEMMA GoodCollect ==
  ASSUME NEW S, NEW c, NEW n, NEW k, NEW cr, NEW X, Good(S, c, n, k, cr, X), Shown(S),
         NEW R, R = CollectSessions(S)
  PROVE  /\ R \in Service /\ Good(R, c, n, k, cr, X) /\ Shown(R)
         /\ Besides(S, R) /\ R.generation = S.generation /\ Current(R) = Current(S)
         /\ S.generation \in S.sessions => R.generation \in R.sessions
<1>1. S \in Service /\ Sound(S, c, n)
  BY DEF Good, Sound
<1>2. /\ R \in Service /\ Besides(S, R) /\ SameView(S, R) /\ R.generation = S.generation
      /\ Sound(R, c, n) /\ Current(R) = Current(S)
      /\ S.generation \in S.sessions => R.generation \in R.sessions
      /\ \A g \in Generations : /\ R.session[g].award = S.session[g].award
                                /\ R.session[g].retired = S.session[g].retired
  BY <1>1, SoundCollect, SMTT(60)
<1>3. Kept(R, k, cr)
  BY <1>2 DEF Good, Kept, Besides
<1>4. Known(R, k)
  BY <1>2 DEF Good, Known, Besides, SameView
<1>5. Retries(R, X)
  BY <1>2 DEF Good, Retries
<1>6. Shown(R)
  BY <1>2 DEF Shown, Besides, SameView, Refreshing
<1> QED
  BY <1>2, <1>3, <1>4, <1>5, <1>6 DEF Good

\* The load of an identified game, by a client that has not tried one.
LEMMA GoodLoad ==
  ASSUME NEW S, NEW c, NEW n, NEW k, NEW cr, NEW X, Good(S, c, n, k, cr, X), Shown(S),
         S.generation \in S.sessions, ~S.stopping, ~S.load_attempted, Current(S).user # None,
         NEW R, R = ServerCall([S EXCEPT !.load_attempted = TRUE, !.busy = TRUE,
                                         !.session[S.generation].load = "asked"],
                               Http("Load", S.generation, Current(S).user, 0))
  PROVE  R \in Service /\ Good(R, c, n, k, cr, X) /\ Shown(R) /\ Within(S, R)
<1> DEFINE g == S.generation
           ses == [S.session[g] EXCEPT !.load = "asked"]
           A == WithSession(S, g, ses)
           B == [A EXCEPT !.load_attempted = TRUE, !.busy = TRUE]
           item == Http("Load", g, Current(S).user, 0)
<1>1. S \in Service /\ g \in Generations /\ S.session[g] \in Session
  BY DEF Good, Sound, Service
<1>2. ses \in Session
  BY <1>1 DEF Session
<1>3. R = ServerCall(B, item)
  <2>1. B = [S EXCEPT !.load_attempted = TRUE, !.busy = TRUE,
                      !.session[S.generation].load = "asked"]
    BY <1>1, Zenon DEF WithSession, Service
  <2> QED  BY <2>1
<1>4. /\ ses.load = "asked" /\ ses.user = S.session[g].user
      /\ ses.login = S.session[g].login /\ ses.award = S.session[g].award
      /\ ses.pending = S.session[g].pending /\ ses.retired = S.session[g].retired
      /\ ses.last_chance = S.session[g].last_chance
  BY <1>1 DEF Session
<1>5. item \in Item /\ item.kind = "Load" /\ item.owner = g
  BY <1>1 DEF Item, Http, Serials, Session, Current
<1> HIDE DEF ses, item
<1>6. /\ A \in Service
      /\ Within(S, A) /\ SameView(S, A) /\ OthersKept(S, A, g)
      /\ A.session[g] = ses /\ A.work = S.work
  BY <1>1, <1>2, SessionUpdate
<1> HIDE DEF A
<1>7. B \in Service
  BY <1>6, ZenonT(60) DEF Service
<1>8. /\ Looks(A, B) /\ B.catalog = A.catalog /\ B.notifications = A.notifications
      /\ B.game_loaded = A.game_loaded /\ B.load_attempted
      /\ B.catalog_busy = A.catalog_busy /\ B.catalog_data = A.catalog_data
      /\ B.catalog_unlocks = A.catalog_unlocks /\ B.catalog_serial = A.catalog_serial
  BY <1>6 DEF Service, Looks, Within
<1> HIDE DEF B
<1>9. g <= S.generation /\ S.session[g].user # None /\ S.generation \in Nat
  BY <1>1 DEF Current, Generations
<1>10. S.session[g].login = None /\ (S.session[g].award = "cancelled" => S.session[g].last_chance)
  BY <1>1, <1>9 DEF Good, Sound, Logins, Chances
<1> HIDE DEF g
<1>11. Sound(A, c, n)
  BY <1>1, <1>4, <1>6, <1>9, <1>10, SoundSession DEF Good
<1>12. Kept(A, k, cr)
  <2>1. Prolongs(S, A) /\ A.active = S.active /\ Kept(S, k, cr)
    BY <1>1, <1>6, ProlongsSame DEF Within, Good
  <2> QED  BY <1>1, <1>6, <2>1, KeptProlongs
<1>13. Retries(A, X)
  BY <1>1, <1>4, <1>6, RetriesClient DEF Good
<1>14. Known(A, k)
  BY <1>1, <1>4, <1>6, KnownClient DEF Good, SameView
<1>15. Good(B, c, n, k, cr, X)
  <2>1. Good(A, c, n, k, cr, X)
    BY <1>11, <1>12, <1>13, <1>14 DEF Good
  <2> QED  BY <1>7, <1>8, <2>1, GoodLooks
<1>16. Shown(B)
  <2>1. Current(S).load = "none" /\ ~S.game_loaded
    BY DEF Shown
  <2>2. B.generation = S.generation /\ Refreshing(B) = Refreshing(S) /\ ~B.game_loaded /\ B.stopping = S.stopping
        /\ B.catalog = S.catalog /\ B.notifications = S.notifications
        /\ B.catalog_busy = S.catalog_busy /\ B.catalog_data = S.catalog_data
        /\ B.catalog_unlocks = S.catalog_unlocks
    BY <1>6, <1>8, <2>1 DEF Looks, Within, SameView, Refreshing
  <2> QED  BY <1>8, <2>2 DEF Shown
<1>17. item.owner \in B.sessions
  BY <1>5, <1>6, <1>8 DEF Looks, Within, g
<1>18. R \in Service /\ Good(R, c, n, k, cr, X) /\ Calls(B, R)
  BY <1>3, <1>5, <1>15, <1>17, CallsCall
<1>19. Shown(R)
  BY <1>7, <1>16, <1>18, ShownCalls
<1>20. Within(S, R)
  BY <1>6, <1>8, <1>18 DEF Looks, Within, Calls
<1> QED
  BY <1>18, <1>19, <1>20

\* All commands and answers are gone.
Pumped(S, R) ==
  /\ R.commands = <<>> /\ R.completed = <<>> /\ R.generation \in R.sessions
  /\ R.active = S.active /\ R.stopping = S.stopping /\ R.stop_worker = S.stop_worker
  /\ R.live_game = S.live_game /\ R.hash = S.hash

\* The pump: commands, answers, destroyed clients, a load.
LEMMA GoodPump ==
  ASSUME NEW S, NEW c, c = S.completed, NEW k, NEW cr,
         Good(S, c, 0, k, cr, {}), Shown(S), Tokens(S, cr), ~S.stopping,
         S.generation \in S.sessions, S.generation + Len(S.commands) <= MaxGeneration,
         NEW memory, NEW R, R = Pump(S, memory)
  PROVE  R \in Service /\ Good(R, <<>>, 0, LastCommand(S, k), cr, {}) /\ Shown(R) /\ Pumped(S, R)
<1> DEFINE A == ProcessCommands(S)
           F == FinishResponses(A)
           B == CollectSessions(F)
           last == LastCommand(S, k)
<1>1. R = IF /\ memory /\ B.hash /\ ~B.load_attempted
             /\ ~Current(B).retired /\ Current(B).user # None
          THEN ServerCall([B EXCEPT !.load_attempted = TRUE, !.busy = TRUE,
                                    !.session[B.generation].load = "asked"],
                          Http("Load", B.generation, Current(B).user, 0))
          ELSE B
  BY DEF Pump
<1> HIDE DEF last
<1>2. A \in Service /\ Good(A, c, 0, last, cr, {}) /\ Shown(A) /\ Processed(S, A)
  BY GoodProcessCommands DEF last
<1> HIDE DEF A
<1>3. c = A.completed /\ A.generation \in A.sessions
  BY <1>2 DEF Processed
<1>4. F \in Service /\ Good(F, <<>>, 0, last, cr, {}) /\ Shown(F) /\ Emptied(A, F)
  BY <1>2, <1>3, GoodFinishResponses
<1> HIDE DEF F
<1>5. /\ B \in Service /\ Good(B, <<>>, 0, last, cr, {}) /\ Shown(B)
      /\ Besides(F, B) /\ B.generation = F.generation
      /\ F.generation \in F.sessions => B.generation \in B.sessions
  BY <1>4, GoodCollect
<1> HIDE DEF B
<1>6. Pumped(S, B)
  BY <1>2, <1>4, <1>5 DEF Processed, Emptied, Besides, Pumped
<1>7. CASE R = B
  BY <1>5, <1>6, <1>7 DEF last
<1>8. CASE R # B
  <2>1. /\ ~B.load_attempted /\ Current(B).user # None
        /\ R = ServerCall([B EXCEPT !.load_attempted = TRUE, !.busy = TRUE,
                                    !.session[B.generation].load = "asked"],
                          Http("Load", B.generation, Current(B).user, 0))
    BY <1>1, <1>8
  <2>2. B.generation \in B.sessions /\ ~B.stopping
    BY <1>6 DEF Pumped
  <2>3. R \in Service /\ Good(R, <<>>, 0, last, cr, {}) /\ Shown(R) /\ Within(B, R)
    BY <1>5, <2>1, <2>2, GoodLoad
  <2>4. Pumped(S, R)
    BY <1>6, <2>3 DEF Pumped, Within
  <2> QED  BY <2>3, <2>4 DEF last
<1> QED
  BY <1>7, <1>8

\* A retry of the current client that is due, and the activation of its game.
LEMMA GoodIdle ==
  ASSUME NEW S, NEW c, NEW n, NEW k, NEW cr, NEW X, Good(S, c, n, k, cr, X), Shown(S),
         S.generation \in S.sessions, ~Current(S).retired, NEW due, NEW R, R = Idle(S, due)
  PROVE  R \in Service /\ Good(R, c, n, k, cr, X) /\ Shown(R) /\ Within(S, R)
<1> DEFINE g == S.generation
           deny == FALSE
           activated == TRUE
           A == IF due /\ Current(S).award = "scheduled" THEN Submit(S, g, deny) ELSE S
<1>1. R = IF Current(A).load = "ready" THEN Loaded(A, g, activated) ELSE A
  BY DEF Idle
<1>2. S \in Service /\ g \in Generations
  BY DEF Good, Sound, Service
<1>3. g \in S.sessions /\ g = S.generation /\ ~S.session[g].retired
  BY DEF Current
<1>4. activated \in BOOLEAN
  OBVIOUS
<1> HIDE DEF g, deny, activated
<1>5. A \in Service /\ Good(A, c, n, k, cr, X) /\ Shown(A) /\ Within(S, A)
  <2>1. CASE due /\ Current(S).award = "scheduled"
    <3>1. A = Submit(S, g, deny)
      BY <2>1
    <3> HIDE DEF A
    <3>2. /\ A \in Service /\ Good(A, c, n, k, cr, X \ {g}) /\ Asks(S, A, g)
      BY <1>2, <1>3, <3>1, GoodSubmit
    <3>3. Good(A, c, n, k, cr, X)
      BY <3>2, GoodWider
    <3>4. Shown(A) /\ Within(S, A)
      BY <1>2, <3>2, ShownAsks DEF Asks
    <3> QED  BY <3>2, <3>3, <3>4
  <2>2. CASE ~(due /\ Current(S).award = "scheduled")
    BY <1>2, <2>2 DEF Within
  <2> QED  BY <2>1, <2>2
<1> HIDE DEF A
<1>6. CASE Current(A).load # "ready"
  BY <1>1, <1>5, <1>6
<1>7. CASE Current(A).load = "ready"
  <2>1. A.generation \in Generations
    BY <1>5 DEF Service
  <2>2. R = Loaded(A, g, activated)
    BY <1>1, <1>7
  <2>3. Listening(A, g) /\ activated => Current(A).load # "none"
    BY <1>7
  <2>4. R \in Service /\ Good(R, c, n, k, cr, X) /\ Shown(R) /\ Heard(A, R)
    BY <1>2, <1>4, <1>5, <2>1, <2>2, <2>3, GoodLoaded
  <2> QED  BY <1>5, <2>4 DEF Heard, Within
<1> QED
  BY <1>6, <1>7

\* A frame may announce the achievement of the current client.
LEMMA GoodDoFrame ==
  ASSUME NEW S, NEW c, NEW n, NEW k, NEW cr, NEW X, Good(S, c, n, k, cr, X), Shown(S),
         S.generation \in S.sessions, ~Current(S).retired,
         NEW triggered, NEW due, NEW R, R = DoFrame(S, triggered, due)
  PROVE  R \in Service /\ Good(R, c, n, k, cr, X) /\ Shown(R) /\ Within(S, R)
<1> DEFINE g == S.generation
           deny == FALSE
           unlocks == triggered /\ Current(S).load = "loaded" /\ Current(S).award = "locked"
           U == Submit(S, g, deny)
           told == U.notifications \cup {g}
           N == [U EXCEPT !.notifications = told]
           A == IF unlocks THEN N ELSE S
<1>1. R = Idle(A, due)
  <2>1. N = [U EXCEPT !.notifications = @ \cup {g}]
    OBVIOUS
  <2> QED  BY <2>1 DEF DoFrame
<1>2. S \in Service /\ g \in Generations
  BY DEF Good, Sound, Service
<1>3. g \in S.sessions /\ g = S.generation /\ ~S.session[g].retired
  BY DEF Current
<1> HIDE DEF g, deny, unlocks
<1>4. /\ U \in Service /\ Good(U, c, n, k, cr, X \ {g}) /\ Asks(S, U, g)
  BY <1>2, <1>3, GoodSubmit
<1> HIDE DEF U
<1>5. Good(U, c, n, k, cr, X) /\ Shown(U) /\ Within(S, U)
  <2>1. Good(U, c, n, k, cr, X)
    BY <1>4, GoodWider
  <2>2. Shown(U) /\ Within(S, U)
    BY <1>2, <1>4, ShownAsks DEF Asks
  <2> QED  BY <2>1, <2>2
<1>6. told \in SUBSET Generations /\ told \subseteq {g}
  BY <1>2, <1>3, <1>4, <1>5 DEF Service, Shown, Within
<1> HIDE DEF told
<1>7. N \in Service
  BY <1>4, <1>6, ZenonT(60) DEF Service
<1>8. /\ Looks(U, N) /\ N.catalog = U.catalog /\ N.notifications = told
      /\ N.game_loaded = U.game_loaded /\ N.load_attempted = U.load_attempted
      /\ N.catalog_busy = U.catalog_busy /\ N.catalog_data = U.catalog_data
      /\ N.catalog_unlocks = U.catalog_unlocks /\ N.catalog_serial = U.catalog_serial
  BY <1>4 DEF Service, Looks, Within
<1> HIDE DEF N
<1>9. Good(N, c, n, k, cr, X)
  BY <1>5, <1>7, <1>8, GoodLooks
<1>10. Shown(N)
  <2>1. N.generation = g
    BY <1>3, <1>5, <1>8 DEF Looks, Within
  <2> QED  BY <1>5, <1>6, <1>8, <2>1 DEF Shown, Looks, Within, Current, Refreshing
<1>11. Within(S, N)
  BY <1>5, <1>8 DEF Looks, Within
<1>15. ~Current(N).retired
  BY <1>2, <1>3, <1>4, <1>8 DEF Current, Asks, Looks, Within
<1>12. /\ A \in Service /\ Good(A, c, n, k, cr, X) /\ Shown(A) /\ Within(S, A) /\ ~Current(A).retired
  BY <1>2, <1>7, <1>9, <1>10, <1>11, <1>15 DEF Within
<1> HIDE DEF A
<1>13. A.generation \in A.sessions
  BY <1>3, <1>12 DEF Within
<1>14. R \in Service /\ Good(R, c, n, k, cr, X) /\ Shown(R) /\ Within(A, R)
  BY <1>1, <1>12, <1>13, GoodIdle
<1> QED
  BY <1>12, <1>14 DEF Within

-----------------------------------------------------------------------------
(* The calls of the game and of the menus *)

\* Fields that the invariant does not speak of.
LEMMA GoodSame ==
  ASSUME NEW S, NEW c, NEW n, NEW k, NEW cr, NEW X, Good(S, c, n, k, cr, X),
         NEW R \in Service, R.generation = S.generation, R.sessions = S.sessions,
         R.session = S.session, R.work = S.work, R.active = S.active, R.remember = S.remember,
         S.stopping => R.stopping
  PROVE  Good(R, c, n, k, cr, X)
<1>1. Out(R, c, n) = Out(S, c, n)
  BY DEF Out
<1>2. Counted(R, c, n)
  BY DEF Good, Sound, Counted
<1>3. Clients(R) /\ Chances(R)
  BY DEF Good, Sound, Clients, Chances
<1>4. Sent(R, c, n) /\ Logins(R, c, n)
  BY <1>1 DEF Good, Sound, Sent, Logins, Awaited
<1>5. Sound(R, c, n)
  BY <1>2, <1>3, <1>4 DEF Good, Sound
<1>6. Retries(R, X)
  BY DEF Good, Retries
<1>7. Known(R, k)
  BY DEF Good, Known, Current
<1>8. Kept(R, k, cr)
  BY DEF Good, Kept
<1> QED
  BY <1>5, <1>6, <1>7, <1>8 DEF Good

LEMMA TokensKept ==
  ASSUME NEW S, NEW cr, Tokens(S, cr), NEW R, NEW kept, R.commands = S.commands,
         Current(R).login \in {None, Current(S).login}, Current(R).user \in {None, Current(S).user},
         \A y : Kept(S, y, cr) => Kept(R, y, kept)
  PROVE  Tokens(R, kept)
BY DEF Tokens

\* A command is queued, one with a token only for a client without an account.
Queued(S, x) == [S EXCEPT !.commands = Append(@, x)]

QueuedOnly(S, R) ==
  /\ R.generation = S.generation /\ R.sessions = S.sessions /\ R.session = S.session
  /\ R.work = S.work /\ R.completed = S.completed /\ R.active = S.active
  /\ R.stopping = S.stopping /\ R.stop_worker = S.stop_worker

\* A command is queued.
LEMMA GoodQueued ==
  ASSUME NEW S, NEW c, NEW n, NEW k, NEW cr, NEW X, Good(S, c, n, k, cr, X), Shown(S), Tokens(S, cr),
         NEW x \in Command,
         x.token => Current(S).login = None /\ Current(S).user = None /\ Kept(S, x, cr),
         NEW R, R = Queued(S, x)
  PROVE  /\ R \in Service /\ Good(R, c, n, k, cr, X) /\ Shown(R) /\ Tokens(R, cr)
         /\ QueuedOnly(S, R) /\ R.remember = S.remember /\ R.load_attempted = S.load_attempted
         /\ Len(R.commands) = Len(S.commands) + 1
<1>1. S \in Service /\ S.commands \in Seq(Command) /\ Len(S.commands) \in Nat
  BY DEF Good, Sound, Service
<1> DEFINE q == Append(S.commands, x)
<1>2. /\ q \in Seq(Command) /\ Len(q) = Len(S.commands) + 1 /\ q[Len(S.commands) + 1] = x
      /\ \A i \in 1..Len(S.commands) : q[i] = S.commands[i]
  BY <1>1
<1>3. R = [S EXCEPT !.commands = q]
  BY DEF Queued
<1> HIDE DEF q
<1>4. R \in Service
  BY <1>1, <1>2, <1>3, ZenonT(60) DEF Service
<1>5. /\ QueuedOnly(S, R) /\ SameView(S, R) /\ R.commands = q
  BY <1>1, <1>3 DEF Service, QueuedOnly, SameView
<1>6. Good(R, c, n, k, cr, X)
  BY <1>4, <1>5, GoodSame DEF QueuedOnly, SameView
<1>7. Shown(R)
  BY <1>5 DEF Shown, QueuedOnly, SameView, Current, Refreshing
<1>8. \A y : Kept(S, y, cr) => Kept(R, y, cr)
  BY <1>5 DEF Kept, QueuedOnly
<1>9. Current(R) = Current(S)
  BY <1>5 DEF Current, QueuedOnly
<1>10. Tokens(R, cr)
  <2> SUFFICES ASSUME NEW i \in 1..Len(R.commands), R.commands[i].token
               PROVE  /\ Current(R).login = None /\ Current(R).user = None
                      /\ (\A j \in 1..(i - 1) : R.commands[j].token) => Kept(R, R.commands[i], cr)
    BY DEF Tokens
  <2>1. CASE i = Len(S.commands) + 1
    BY <1>2, <1>5, <1>8, <1>9, <2>1
  <2>2. CASE i # Len(S.commands) + 1
    <3>1. i \in 1..Len(S.commands)
      BY <1>1, <1>2, <1>5, <2>2
    <3>2. R.commands[i] = S.commands[i] /\ \A j \in 1..(i - 1) : R.commands[j] = S.commands[j]
      BY <1>1, <1>2, <1>5, <3>1
    <3> QED  BY <1>8, <1>9, <3>1, <3>2 DEF Tokens
  <2> QED  BY <2>1, <2>2
<1> QED
  BY <1>2, <1>4, <1>5, <1>6, <1>7, <1>10 DEF SameView

\* A call that queues a command without a token.
LEMMA CommandStep ==
  ASSUME IInv, Running, Room(1), Unchanged, UNCHANGED carried,
         NEW x \in Command, ~x.token,
         service' = Queued(service, x)
  PROVE  IInv'
<1>1. /\ Good(service, service.completed, 0, carried, Accountable, {})
      /\ Shown(service) /\ Tokens(service, Accountable) /\ Worker(service) /\ Stages(service)
  BY DEF IInv
<1>3. /\ service' \in Service /\ Good(service', service.completed, 0, carried, Accountable, {})
      /\ Shown(service') /\ Tokens(service', Accountable) /\ QueuedOnly(service, service')
      /\ Len(service'.commands) = Len(service.commands) + 1
  BY <1>1, GoodQueued
<1>4. Good(service', service'.completed, 0, carried, Accountable, {})
  BY <1>3 DEF QueuedOnly
<1>5. Types'
  BY DEF IInv, Types, Unchanged
<1>6. Worker(service)'
  BY <1>1, <1>3 DEF Worker, QueuedOnly, Unchanged
<1>7. Stages(service)'
  <2>1. Len(service.commands) \in Nat /\ service.generation \in Nat /\ MaxGeneration \in Nat
    BY <1>1, BoundsAssumption DEF Good, Sound, Service, Generations
  <2> QED  BY <1>1, <1>3, <2>1 DEF Stages, QueuedOnly, Unchanged, Running, Room
<1> QED
  BY <1>3, <1>4, <1>5, <1>6, <1>7 DEF IInv, Unchanged, Accountable

\* A call that leaves the commands, the account and the worker alone.
LEMMA QuietStep ==
  ASSUME IInv, Unchanged, UNCHANGED carried,
         service' \in Service, Good(service', service.completed, 0, carried, Accountable, {}),
         Shown(service'), Within(service, service'), Prolongs(service, service'),
         Current(service').login = Current(service).login,
         Current(service').user = Current(service).user,
         service.stopping => service'.work = service.work /\ Current(service').retired
  PROVE  IInv'
<1>1. /\ Good(service, service.completed, 0, carried, Accountable, {})
      /\ Shown(service) /\ Tokens(service, Accountable) /\ Worker(service) /\ Stages(service)
  BY DEF IInv
<1>2. service \in Service
  BY <1>1 DEF Good, Sound
<1>3. Good(service', service'.completed, 0, carried, Accountable, {})
  BY DEF Within
<1>4. \A y : Kept(service, y, Accountable) => Kept(service', y, Accountable)
  BY <1>2, KeptProlongs DEF Within
<1>5. Tokens(service', Accountable)
  BY <1>1, <1>4, TokensKept DEF Within
<1>6. Types'
  BY DEF IInv, Types, Unchanged
<1>7. Stages(service)'
  BY <1>1 DEF Stages, Within, Unchanged
<1>8. Worker(service)'
  <2>1. stage' = stage /\ worker' = worker
    BY DEF Unchanged
  <2>2. service.stop_worker => service.stopping
    BY <1>1 DEF Stages, Worker
  <2> QED  BY <1>1, <2>1, <2>2 DEF Worker, Within
<1> QED
  BY <1>3, <1>5, <1>6, <1>7, <1>8 DEF IInv, Unchanged, Accountable

LEMMA DrainNotificationsStep == ASSUME IInv, DrainNotifications  PROVE IInv'
<1> DEFINE R == [service EXCEPT !.notifications = {}]
<1>1. /\ Good(service, service.completed, 0, carried, Accountable, {})
      /\ Shown(service) /\ Stages(service)
  BY DEF IInv
<1>2. service \in Service
  BY <1>1 DEF Good, Sound
<1>3. R \in Service
  <2>1. {} \in SUBSET Generations
    OBVIOUS
  <2> QED  BY <1>2, <2>1, ZenonT(60) DEF Service
<1>4. /\ Looks(service, R) /\ R.catalog = service.catalog /\ R.notifications = {}
      /\ R.game_loaded = service.game_loaded /\ R.load_attempted = service.load_attempted
      /\ R.catalog_busy = service.catalog_busy /\ R.catalog_data = service.catalog_data
      /\ R.catalog_unlocks = service.catalog_unlocks /\ R.catalog_serial = service.catalog_serial
  BY <1>2 DEF Service, Looks, Within
<1>5. service' = R /\ Unchanged /\ UNCHANGED carried
  BY DEF DrainNotifications
<1> HIDE DEF R
<1>6. Good(R, service.completed, 0, carried, Accountable, {}) /\ Prolongs(service, R)
  BY <1>1, <1>3, <1>4, GoodLooks
<1>7. Shown(R)
  BY <1>1, <1>4 DEF Shown, Looks, Within, Current, Refreshing
<1>8. Current(R) = Current(service) /\ Within(service, R) /\ R.work = service.work
  BY <1>4 DEF Looks, Within, Current
<1>9. service.stopping => Current(R).retired
  BY <1>1, <1>8 DEF Stages
<1> QED
  BY <1>3, <1>5, <1>6, <1>7, <1>8, <1>9, QuietStep

LEMMA RequestCatalogRefreshStep == ASSUME IInv, RequestCatalogRefresh  PROVE IInv'
<1>1. /\ Good(service, service.completed, 0, carried, Accountable, {})
      /\ Shown(service) /\ Stages(service)
  BY DEF IInv
<1>2. service \in Service /\ service.generation \in Generations
  BY <1>1 DEF Good, Sound, Service
<1>3. service' = BeginCatalog(service) /\ Unchanged /\ UNCHANGED carried
  BY DEF RequestCatalogRefresh
<1>4. service.stopping \/ service.generation \in service.sessions
  BY <1>1 DEF Stages
<1>5. /\ service' \in Service /\ Good(service', service.completed, 0, carried, Accountable, {})
      /\ Shown(service') /\ Browses(service, service')
  BY <1>1, <1>3, <1>4, GoodBeginCatalog
<1>6. /\ Current(service').login = Current(service).login
      /\ Current(service').user = Current(service).user
      /\ Current(service').retired = Current(service).retired
  BY <1>2, <1>5 DEF Browses, SameClients, Within, Current
<1>7. service.stopping => service' = service
  BY <1>3 DEF BeginCatalog
<1>8. service.stopping => service'.work = service.work /\ Current(service').retired
  BY <1>1, <1>7 DEF Stages
<1> QED
  BY <1>3, <1>5, <1>6, <1>8, QuietStep DEF Browses

\* A tick or a frame: what the pump leaves, after calls of the current client.
LEMMA PumpStep ==
  ASSUME IInv, Running, Unchanged, CarriedOut,
         NEW memory, NEW S, S = Pump(service, memory),
         service' \in Service,
         \A k : Good(S, <<>>, 0, k, Accountable, {}) /\ Shown(S) /\ S.generation \in S.sessions =>
                  Good(service', <<>>, 0, k, Accountable, {}) /\ Shown(service') /\ Within(S, service')
  PROVE  IInv'
<1>1. /\ Good(service, service.completed, 0, carried, Accountable, {})
      /\ Shown(service) /\ Tokens(service, Accountable) /\ Worker(service) /\ Stages(service)
  BY DEF IInv
<1> DEFINE last == LastCommand(service, carried)
<1>2. /\ ~service.stopping /\ stage = "running" /\ service.generation \in service.sessions
      /\ service.generation + Len(service.commands) <= MaxGeneration
  BY <1>1 DEF Running, Stages
<1>3. /\ S \in Service /\ Good(S, <<>>, 0, last, Accountable, {}) /\ Shown(S) /\ Pumped(service, S)
  BY <1>1, <1>2, GoodPump
<1>4. carried' = last
  BY DEF CarriedOut, LastCommand
<1>5. last \in Command
  <2>1. carried \in Command /\ service.commands \in Seq(Command)
    BY <1>1 DEF IInv, Types, Good, Sound, Service
  <2>2. CASE service.commands = <<>>
    BY <2>1, <2>2 DEF LastCommand
  <2>3. CASE service.commands # <<>>
    BY <2>1, <2>3 DEF LastCommand, Last
  <2> QED  BY <2>2, <2>3
<1> HIDE DEF last
<1>6. Good(service', <<>>, 0, last, Accountable, {}) /\ Shown(service') /\ Within(S, service')
  BY <1>3 DEF Pumped
<1>7. Pumped(service, service')
  BY <1>3, <1>6 DEF Pumped, Within
<1>8. Good(service', service'.completed, 0, carried', Accountable, {})
  BY <1>4, <1>6, <1>7 DEF Pumped
<1>9. Tokens(service', Accountable)
  BY <1>7 DEF Tokens, Pumped
<1>10. Types'
  BY <1>4, <1>5 DEF IInv, Types, Unchanged
<1>11. Stages(service)'
  <2>1. service'.generation \in Nat /\ service'.generation <= MaxGeneration /\ Len(service'.commands) = 0
    BY <1>7, BoundsAssumption DEF Pumped, Service, Generations
  <2> QED  BY <1>2, <1>7, <2>1 DEF Stages, Pumped, Unchanged
<1>12. Worker(service)'
  BY <1>1, <1>2, <1>7 DEF Worker, Pumped, Unchanged
<1> QED
  BY <1>6, <1>8, <1>9, <1>10, <1>11, <1>12 DEF IInv, Unchanged, Accountable

LEMMA UiTickStep == ASSUME IInv, NEW due, UiTick(due)  PROVE IInv'
<1> DEFINE memory == FALSE
           S == Pump(service, memory)
           A == IF ~S.live_game /\ ~Current(S).retired THEN Idle(S, due) ELSE S
<1>1. service' = Refresh(A) /\ Running /\ Unchanged /\ CarriedOut
  BY DEF UiTick
<1>2. S = Pump(service, memory)
  OBVIOUS
<1> HIDE DEF memory, S
<1>3. ASSUME NEW k, Good(S, <<>>, 0, k, Accountable, {}), Shown(S), S.generation \in S.sessions
      PROVE  /\ service' \in Service /\ Good(service', <<>>, 0, k, Accountable, {})
             /\ Shown(service') /\ Within(S, service')
  <2>1. A \in Service /\ Good(A, <<>>, 0, k, Accountable, {}) /\ Shown(A) /\ Within(S, A)
    <3>1. CASE ~S.live_game /\ ~Current(S).retired
      <4>1. A = Idle(S, due)
        BY <3>1
      <4> HIDE DEF A
      <4> QED  BY <1>3, <3>1, <4>1, GoodIdle
    <3>2. CASE ~(~S.live_game /\ ~Current(S).retired)
      <4>1. A = S
        BY <3>2
      <4> HIDE DEF A
      <4> QED  BY <1>3, <4>1 DEF Good, Sound, Within
    <3> QED  BY <3>1, <3>2
  <2> HIDE DEF A
  <2>2. /\ service' \in Service /\ Good(service', <<>>, 0, k, Accountable, {})
        /\ Shown(service') /\ Looks(A, service')
    BY <1>1, <2>1, GoodRefresh
  <2> QED  BY <2>1, <2>2 DEF Looks, Within
<1> HIDE DEF A
<1>4. PICK k : Good(S, <<>>, 0, k, Accountable, {}) /\ Shown(S) /\ S.generation \in S.sessions
  <2>1. /\ Good(service, service.completed, 0, carried, Accountable, {})
        /\ Shown(service) /\ Tokens(service, Accountable) /\ Stages(service)
    BY DEF IInv
  <2>2. /\ ~service.stopping /\ service.generation \in service.sessions
        /\ service.generation + Len(service.commands) <= MaxGeneration
    BY <1>1, <2>1 DEF Running, Stages
  <2> QED  BY <1>2, <2>1, <2>2, GoodPump DEF Pumped
<1> QED
  BY <1>1, <1>2, <1>3, <1>4, PumpStep

LEMMA NativeFrameStep == ASSUME IInv, NEW triggered, NEW due, NativeFrame(triggered, due)  PROVE IInv'
<1> DEFINE memory == TRUE
           S == Pump(service, memory)
           A == IF ~Current(S).retired THEN DoFrame(S, triggered, due) ELSE S
<1>1. service' = Refresh(A) /\ Running /\ Unchanged /\ CarriedOut
  BY DEF NativeFrame
<1>2. S = Pump(service, memory)
  OBVIOUS
<1> HIDE DEF memory, S
<1>3. ASSUME NEW k, Good(S, <<>>, 0, k, Accountable, {}), Shown(S), S.generation \in S.sessions
      PROVE  /\ service' \in Service /\ Good(service', <<>>, 0, k, Accountable, {})
             /\ Shown(service') /\ Within(S, service')
  <2>1. A \in Service /\ Good(A, <<>>, 0, k, Accountable, {}) /\ Shown(A) /\ Within(S, A)
    <3>1. CASE ~Current(S).retired
      <4>1. A = DoFrame(S, triggered, due)
        BY <3>1
      <4> HIDE DEF A
      <4> QED  BY <1>3, <3>1, <4>1, GoodDoFrame
    <3>2. CASE Current(S).retired
      <4>1. A = S
        BY <3>2
      <4> HIDE DEF A
      <4> QED  BY <1>3, <4>1 DEF Good, Sound, Within
    <3> QED  BY <3>1, <3>2
  <2> HIDE DEF A
  <2>2. /\ service' \in Service /\ Good(service', <<>>, 0, k, Accountable, {})
        /\ Shown(service') /\ Looks(A, service')
    BY <1>1, <2>1, GoodRefresh
  <2> QED  BY <2>1, <2>2 DEF Looks, Within
<1> HIDE DEF A
<1>4. PICK k : Good(S, <<>>, 0, k, Accountable, {}) /\ Shown(S) /\ S.generation \in S.sessions
  <2>1. /\ Good(service, service.completed, 0, carried, Accountable, {})
        /\ Shown(service) /\ Tokens(service, Accountable) /\ Stages(service)
    BY DEF IInv
  <2>2. /\ ~service.stopping /\ service.generation \in service.sessions
        /\ service.generation + Len(service.commands) <= MaxGeneration
    BY <1>1, <2>1 DEF Running, Stages
  <2> QED  BY <1>2, <2>1, <2>2, GoodPump DEF Pumped
<1> QED
  BY <1>1, <1>2, <1>3, <1>4, PumpStep

\* What the game does to the service beside its client.
WithGame(B, hash, live, attempted) ==
  [B EXCEPT !.hash = hash, !.live_game = live, !.game_loaded = FALSE, !.load_attempted = attempted]

\* Another game, or none: what set_game_identity and game_stopped end with.
LEMMA GameStep ==
  ASSUME IInv, stage = "running", Unchanged, UNCHANGED carried,
         NEW B \in Service, NEW hash \in BOOLEAN, NEW live \in BOOLEAN, NEW attempted \in BOOLEAN,
         Good(B, service.completed, 0, carried, Accountable, {}), Tokens(B, Accountable),
         B.generation \in B.sessions, B.generation + Len(B.commands) <= MaxGeneration,
         B.completed = service.completed, B.active = service.active, ~B.stopping,
         B.stop_worker = service.stop_worker,
         B.catalog # None => B.catalog.data = B.catalog.unlocks /\ B.catalog.data.owner = B.generation,
         B.catalog_busy => /\ B.catalog_data \in {None, Refreshing(B)}
                           /\ B.catalog_unlocks \in {None, Refreshing(B)},
         B.notifications \subseteq {B.generation},
         Current(B).load # "none" => attempted,
         service' = WithGame(B, hash, live, attempted)
  PROVE  IInv'
<1>1. /\ Worker(service) /\ Stages(service)
  BY DEF IInv
<1> DEFINE R == [B EXCEPT !.hash = hash, !.live_game = live, !.game_loaded = FALSE,
                          !.load_attempted = attempted]
<1>2. R \in Service
  BY ZenonT(60) DEF Service
<1>3. /\ R.generation = B.generation /\ R.sessions = B.sessions /\ R.session = B.session
      /\ R.work = B.work /\ R.active = B.active /\ R.remember = B.remember
      /\ R.commands = B.commands /\ R.completed = B.completed
      /\ R.stopping = B.stopping /\ R.stop_worker = B.stop_worker
      /\ ~R.game_loaded /\ R.load_attempted = attempted
      /\ R.catalog = B.catalog /\ R.notifications = B.notifications
      /\ R.catalog_busy = B.catalog_busy /\ R.catalog_data = B.catalog_data
      /\ R.catalog_unlocks = B.catalog_unlocks /\ R.catalog_serial = B.catalog_serial
  BY DEF Service
<1>4. service' = R
  BY DEF WithGame
<1> HIDE DEF R
<1>5. Good(R, R.completed, 0, carried, Accountable, {})
  <2>1. Good(R, service.completed, 0, carried, Accountable, {})
    BY <1>2, <1>3, GoodSame
  <2> QED  BY <1>3, <2>1
<1>6. Current(R) = Current(B)
  BY <1>3 DEF Current
<1>7. Shown(R)
  BY <1>3, <1>6 DEF Shown, Refreshing
<1>8. Tokens(R, Accountable)
  <2>1. \A y : Kept(B, y, Accountable) => Kept(R, y, Accountable)
    BY <1>3 DEF Kept
  <2> QED  BY <1>3, <1>6, <2>1, TokensKept
<1>9. Types'
  BY DEF IInv, Types, Unchanged
<1>10. Worker(service)'
  BY <1>1, <1>3, <1>4 DEF Worker, Stages, Unchanged
<1>11. Stages(service)'
  BY <1>1, <1>3, <1>4 DEF Stages, Unchanged
<1> QED
  BY <1>4, <1>5, <1>7, <1>8, <1>9, <1>10, <1>11 DEF IInv, Unchanged, Accountable

LEMMA SetGameIdentityStep == ASSUME IInv, NEW hash \in BOOLEAN, SetGameIdentity(hash)  PROVE IInv'
<1> DEFINE new_client == Current(service).retired \/ Current(service).load # "none"
           user == Current(service).user
           token == SignIn(user, TRUE, service.remember)
           A == IF new_client THEN ClearAccount(service) ELSE service
           B == IF new_client /\ user # None THEN Queued(A, token) ELSE A
           live == TRUE
           attempted == FALSE
           c == service.completed
<1>1. /\ Good(service, c, 0, carried, Accountable, {})
      /\ Shown(service) /\ Tokens(service, Accountable) /\ Stages(service)
  BY DEF IInv
<1>2. /\ service \in Service /\ service.generation \in Nat /\ Len(service.commands) \in Nat
      /\ Current(service) \in Session /\ service.remember \in BOOLEAN /\ MaxGeneration \in Nat
  BY <1>1, BoundsAssumption DEF Good, Sound, Service, Generations, Current
<1>3. service' = WithGame(B, hash, live, attempted)
  BY DEF SetGameIdentity, WithGame, Queued
<1>4. Running /\ Unchanged /\ UNCHANGED carried /\ (new_client => Room(2))
  BY DEF SetGameIdentity
<1>5. /\ ~service.stopping /\ stage = "running" /\ service.generation \in service.sessions
      /\ service.generation + Len(service.commands) <= MaxGeneration
  BY <1>1, <1>4 DEF Running, Stages
<1>6. live \in BOOLEAN /\ attempted \in BOOLEAN
  OBVIOUS
<1> HIDE DEF live, attempted
<1>7. CASE ~new_client
  <2>1. B = service
    BY <1>7
  <2>2. Current(service).load = "none"
    BY <1>7
  <2> HIDE DEF B
  <2>3. Current(B).load # "none" => attempted
    BY <2>1, <2>2
  <2>4. /\ B \in Service /\ Good(B, service.completed, 0, carried, Accountable, {}) /\ Tokens(B, Accountable)
        /\ B.generation \in B.sessions /\ B.generation + Len(B.commands) <= MaxGeneration
        /\ B.completed = service.completed /\ B.active = service.active /\ ~B.stopping
        /\ B.stop_worker = service.stop_worker /\ Shown(B)
    BY <1>1, <1>2, <1>5, <2>1
  <2> HIDE DEF Queued
  <2> QED  BY <1>3, <1>4, <1>5, <1>6, <2>3, <2>4, GameStep DEF Shown
<1>8. CASE new_client
  <2>1. A = ClearAccount(service)
    BY <1>8
  <2>2. service.generation + Len(service.commands) + 2 <= MaxGeneration
    BY <1>4, <1>8 DEF Room
  <2>3. service.generation < MaxGeneration
    BY <1>2, <2>2
  <2>4. B = IF user # None THEN Queued(A, token) ELSE A
    BY <1>8
  <2> HIDE DEF A, B, token
  <2>5. /\ A \in Service /\ Good(A, c, 0, carried, Accountable, {}) /\ Shown(A) /\ Renewed(service, A)
    BY <1>1, <1>5, <2>1, <2>3, GoodClearAccount
  <2>6. \A y : Kept(service, y, Accountable) => Kept(A, y, Accountable)
    BY <1>2, <2>5, KeptProlongs DEF Renewed
  <2>7. Current(A).login = None /\ Current(A).user = None /\ Current(A).load = "none"
    BY <2>5 DEF Renewed, NewSession
  <2>8. Tokens(A, Accountable)
    <3>1. A.commands = service.commands
      BY <2>5 DEF Renewed
    <3> QED  BY <1>1, <2>6, <2>7, <3>1, TokensKept
  <2>9. /\ B \in Service /\ Good(B, c, 0, carried, Accountable, {}) /\ Shown(B) /\ Tokens(B, Accountable)
        /\ QueuedOnly(A, B)
        /\ Len(B.commands) <= Len(service.commands) + 1 /\ Len(B.commands) \in Nat
    <3>1. A.commands = service.commands
      BY <2>5 DEF Renewed
    <3>2. CASE user # None
      <4>1. token \in Command
        BY <1>2 DEF token, SignIn, Command, Session
      <4>2. Kept(A, token, Accountable)
        <5>1. ~carried.logout /\ carried.username = user /\ carried.remember = service.remember
          BY <1>1, <1>5, <3>2 DEF Good, Known
        <5>2. ~token.logout /\ token.username = user /\ token.remember = service.remember
          BY DEF token, SignIn
        <5>3. \A u : Fits(token, u) <=> Fits(carried, u)
          BY <5>1, <5>2 DEF Fits
        <5>4. Kept(service, carried, Accountable)
          BY <1>1 DEF Good
        <5> HIDE DEF user
        <5>5. Kept(service, token, Accountable)
          BY <5>3, <5>4 DEF Kept
        <5> QED  BY <2>6, <5>5
      <4>3. B = Queued(A, token)
        BY <2>4, <3>2
      <4>4. /\ B \in Service /\ Good(B, c, 0, carried, Accountable, {}) /\ Shown(B) /\ Tokens(B, Accountable)
            /\ QueuedOnly(A, B) /\ Len(B.commands) = Len(A.commands) + 1
        BY <2>5, <2>7, <2>8, <4>1, <4>2, <4>3, GoodQueued
      <4> QED  BY <1>2, <3>1, <4>4
    <3>3. CASE user = None
      <4>1. B = A
        BY <2>4, <3>3
      <4>2. QueuedOnly(A, B)
        BY <4>1 DEF QueuedOnly
      <4> QED  BY <1>2, <2>5, <2>8, <3>1, <4>1, <4>2
    <3> QED  BY <3>2, <3>3
  <2>10. /\ B.generation = service.generation + 1 /\ B.generation \in B.sessions
         /\ B.completed = service.completed /\ B.active = service.active /\ ~B.stopping
         /\ B.stop_worker = service.stop_worker /\ Current(B) = Current(A)
    BY <1>5, <2>5, <2>9 DEF Renewed, QueuedOnly, Current
  <2>11. B.generation + Len(B.commands) <= MaxGeneration
    BY <1>2, <2>2, <2>9, <2>10, SMTT(40)
  <2>12. Current(B).load # "none" => attempted
    BY <2>7, <2>10
  <2> HIDE DEF c
  <2>13. Good(B, service.completed, 0, carried, Accountable, {})
    BY <2>9 DEF c
  <2> QED  BY <1>3, <1>4, <1>5, <1>6, <2>9, <2>10, <2>11, <2>12, <2>13, GameStep DEF Shown
<1> QED
  BY <1>7, <1>8

LEMMA GameStoppedStep == ASSUME IInv, GameStopped  PROVE IInv'
<1> DEFINE S == Refresh(service)
           serial == S.catalog_serial + 1
           A == [S EXCEPT !.catalog_serial = serial, !.catalog_busy = FALSE]
           R == RetireCurrent(A)
           hash == FALSE
           c == service.completed
<1>1. /\ Good(service, c, 0, carried, Accountable, {})
      /\ Shown(service) /\ Tokens(service, Accountable) /\ Stages(service)
  BY DEF IInv
<1>2. service' = [R EXCEPT !.hash = hash, !.live_game = hash, !.game_loaded = FALSE]
  BY DEF GameStopped
<1>3. stage = "running" /\ Unchanged /\ UNCHANGED carried
  BY DEF GameStopped
<1>4. service \in Service
  BY <1>1 DEF Good, Sound
<1>5. S \in Service /\ Good(S, c, 0, carried, Accountable, {}) /\ Shown(S) /\ Looks(service, S)
  BY <1>1, GoodRefresh
<1> HIDE DEF S
<1>6. serial \in Serials
  BY <1>5 DEF Service, Serials
<1> HIDE DEF serial
<1>7. A \in Service
  BY <1>5, <1>6, ZenonT(60) DEF Service
<1>8. /\ Looks(S, A) /\ ~A.catalog_busy /\ A.catalog = S.catalog /\ A.notifications = S.notifications
      /\ A.load_attempted = S.load_attempted
  BY <1>5 DEF Service, Looks, Within
<1> HIDE DEF A
<1>9. Good(A, c, 0, carried, Accountable, {})
  BY <1>5, <1>7, <1>8, GoodLooks
<1>10. /\ A.generation = service.generation /\ A.sessions = service.sessions /\ A.session = service.session
       /\ A.work = service.work /\ A.active = service.active /\ A.commands = service.commands
       /\ A.completed = service.completed /\ A.stopping = service.stopping
       /\ A.stop_worker = service.stop_worker /\ Current(A) = Current(service)
  BY <1>5, <1>8 DEF Looks, Within, Current
<1>11. A.generation \in A.sessions /\ ~A.stopping
  BY <1>1, <1>3, <1>10 DEF Stages
<1>12. /\ R \in Service /\ Good(R, c, 0, carried, Accountable, {})
       /\ Within(A, R) /\ SameView(A, R) /\ Prolongs(A, R)
       /\ Current(R).login \in {None, Current(A).login} /\ Current(R).user = Current(A).user
       /\ Current(R).load \in {"none", Current(A).load}
  BY <1>9, <1>11, GoodRetire
<1> HIDE DEF R
<1> DEFINE attempted == R.load_attempted
<1>13. service' = WithGame(R, hash, hash, attempted) /\ attempted \in BOOLEAN /\ hash \in BOOLEAN
  <2>1. R.load_attempted \in BOOLEAN
    BY <1>12 DEF Service
  <2>2. WithGame(R, hash, hash, attempted)
          = [R EXCEPT !.hash = hash, !.live_game = hash, !.game_loaded = FALSE]
    BY <1>12 DEF WithGame, Service
  <2> QED  BY <1>2, <2>1, <2>2
<1> HIDE DEF hash
<1>14. Tokens(R, Accountable)
  <2>1. \A y : Kept(service, y, Accountable) => Kept(R, y, Accountable)
    <3>1. \A y : Kept(service, y, Accountable) => Kept(A, y, Accountable)
      BY <1>10 DEF Kept
    <3>2. R.active = A.active
      BY <1>12 DEF Within
    <3> QED  BY <1>7, <1>12, <3>1, <3>2, KeptProlongs
  <2>2. R.commands = service.commands
    BY <1>10, <1>12 DEF Within
  <2> QED  BY <1>1, <1>10, <1>12, <2>1, <2>2, TokensKept
<1>15. /\ R.generation \in R.sessions /\ R.generation + Len(R.commands) <= MaxGeneration
       /\ R.completed = service.completed /\ R.active = service.active /\ ~R.stopping
       /\ R.stop_worker = service.stop_worker /\ R.generation = service.generation
  BY <1>1, <1>10, <1>11, <1>12 DEF Stages, Within
<1>16. /\ R.catalog # None => R.catalog.data = R.catalog.unlocks /\ R.catalog.data.owner = R.generation
       /\ ~R.catalog_busy
       /\ R.notifications \subseteq {R.generation}
  <2>1. /\ R.catalog = S.catalog /\ R.notifications = S.notifications /\ R.generation = S.generation
        /\ ~R.catalog_busy
    BY <1>8, <1>12 DEF Looks, Within, SameView
  <2> QED  BY <1>5, <2>1 DEF Shown
<1>17. Current(R).load # "none" => attempted
  <2>1. Current(S) = Current(A) /\ S.stopping = A.stopping
    BY <1>8 DEF Looks, Within, Current
  <2>2. Current(A).load # "none" => A.load_attempted
    BY <1>5, <1>8, <1>11, <2>1 DEF Shown
  <2> QED  BY <1>12, <2>2 DEF SameView
<1> HIDE DEF attempted
<1> QED
  BY <1>3, <1>12, <1>13, <1>14, <1>15, <1>16, <1>17, GameStep

-----------------------------------------------------------------------------
(* The worker *)

\* Nothing but the item in hand, the queue and the answers.
WorkOnly(S, R) ==
  /\ R.generation = S.generation /\ R.sessions = S.sessions /\ R.session = S.session
  /\ R.commands = S.commands /\ R.stopping = S.stopping /\ R.stop_worker = S.stop_worker
  /\ SameView(S, R)

Taken(S) == [S EXCEPT !.active = Head(S.work), !.work = Tail(@)]

\* The worker takes the first item: what it has to remove or save is in hand.
LEMMA KeptTaken ==
  ASSUME NEW w \in Seq(Item), w # <<>>, NEW S, NEW R, NEW k, NEW cr,
         S.work = w, S.active = None, R.work = Tail(w), R.active = Head(w), Kept(S, k, cr)
  PROVE  Kept(R, k, cr)
<1> DEFINE v == Tail(w)
<1>1. /\ DOMAIN v = 1..(Len(w) - 1) /\ DOMAIN w = 1..Len(w) /\ Len(w) \in Nat \ {0}
      /\ Head(w) = w[1] /\ \A i \in 1..(Len(w) - 1) : v[i] = w[i + 1]
      /\ w[1] \in Item
  OBVIOUS
<1>2. w[1] # None
  BY <1>1, NoneAssumption
<1> HIDE DEF v
<1>3. R.work = v /\ R.active = w[1]
  BY <1>1 DEF v
<1>4. \A j \in DOMAIN w : w[j].kind = "Remove" /\ j > 1 => j - 1 \in DOMAIN v /\ v[j - 1].kind = "Remove"
  <2> SUFFICES ASSUME NEW j \in DOMAIN w, w[j].kind = "Remove", j > 1
               PROVE  j - 1 \in DOMAIN v /\ v[j - 1].kind = "Remove"
    OBVIOUS
  <2>1. j - 1 \in 1..(Len(w) - 1) /\ (j - 1) + 1 = j
    BY <1>1
  <2> QED  BY <1>1, <2>1
<1>5. (cr # None /\ ~Fits(k, cr)) =>
        R.active.kind = "Remove" \/ \E j \in DOMAIN v : v[j].kind = "Remove"
  <2> SUFFICES ASSUME cr # None, ~Fits(k, cr)
               PROVE  R.active.kind = "Remove" \/ \E j \in DOMAIN v : v[j].kind = "Remove"
    OBVIOUS
  <2>1. PICK j \in DOMAIN w : w[j].kind = "Remove"
    BY DEF Kept
  <2>2. j = 1 \/ j > 1
    BY <1>1
  <2> QED  BY <1>3, <1>4, <2>1, <2>2
<1>6. (R.active.kind = "Save" /\ ~Fits(k, R.active.user)) => \E j \in DOMAIN v : v[j].kind = "Remove"
  <2> SUFFICES ASSUME R.active.kind = "Save", ~Fits(k, R.active.user)
               PROVE  \E j \in DOMAIN v : v[j].kind = "Remove"
    OBVIOUS
  <2>1. 1 \in DOMAIN w
    BY <1>1
  <2>2. PICK j \in DOMAIN w : j > 1 /\ w[j].kind = "Remove"
    BY <1>3, <2>1 DEF Kept
  <2> QED  BY <1>4, <2>2
<1>7. \A i \in DOMAIN v : (v[i].kind = "Save" /\ ~Fits(k, v[i].user)) =>
        \E j \in DOMAIN v : j > i /\ v[j].kind = "Remove"
  <2> SUFFICES ASSUME NEW i \in DOMAIN v, v[i].kind = "Save", ~Fits(k, v[i].user)
               PROVE  \E j \in DOMAIN v : j > i /\ v[j].kind = "Remove"
    OBVIOUS
  <2>1. i + 1 \in DOMAIN w /\ w[i + 1] = v[i] /\ i \in Nat
    BY <1>1
  <2>2. PICK j \in DOMAIN w : j > i + 1 /\ w[j].kind = "Remove"
    BY <2>1 DEF Kept
  <2>3. j > 1 /\ j - 1 > i
    BY <1>1, <2>1, <2>2
  <2> QED  BY <1>4, <2>2, <2>3
<1> QED
  BY <1>2, <1>3, <1>5, <1>6, <1>7 DEF Kept

LEMMA GoodTaken ==
  ASSUME NEW S, NEW c, NEW n, NEW k, NEW cr, NEW X, Good(S, c, n, k, cr, X),
         S.active = None, S.work # <<>>, NEW R, R = Taken(S)
  PROVE  /\ R \in Service /\ Good(R, c, n, k, cr, X) /\ WorkOnly(S, R)
         /\ R.completed = S.completed /\ R.active # None
         /\ \A y : Kept(S, y, cr) => Kept(R, y, cr)
<1> DEFINE w == S.work
           v == Tail(w)
           head == Head(w)
<1>1. S \in Service /\ w \in Seq(Item) /\ w # <<>> /\ S.active = None
  BY DEF Good, Sound, Service
<1> HIDE DEF w
<1>2. /\ DOMAIN v = 1..(Len(w) - 1) /\ DOMAIN w = 1..Len(w) /\ Len(w) \in Nat \ {0}
      /\ head = w[1] /\ \A i \in 1..(Len(w) - 1) : v[i] = w[i + 1]
      /\ head \in Item /\ v \in Seq(Item)
  BY <1>1
<1>3. R = [S EXCEPT !.active = head, !.work = v]
  BY DEF Taken, w
<1>4. head # None
  BY <1>2, NoneAssumption
<1>5. \A g : Cardinality(Owing(w, g)) =
                Cardinality(Owing(v, g)) + (IF IsHttp(head) /\ head.owner = g THEN 1 ELSE 0)
  BY <1>1, OwingTail
<1>6. \A g : Cardinality(Owing(v, g)) \in Nat /\ Cardinality(Owing(w, g)) \in Nat
  BY <1>1, <1>2, OwingFinite
<1>7. \A y : Kept(S, y, cr) => (R.work = v /\ R.active = head => Kept(R, y, cr))
  <2> HIDE DEF v, head
  <2>1. v = Tail(w) /\ head = Head(w) /\ w = S.work
    BY DEF v, head, w
  <2> QED  BY <1>1, <2>1, KeptTaken
<1> HIDE DEF v, head
<1>8. head \in Item \cup {None}
  BY <1>2
<1>9. R \in Service
  BY <1>1, <1>2, <1>3, <1>8, ZenonT(60) DEF Service
<1>10. WorkOnly(S, R) /\ R.completed = S.completed /\ R.active = head /\ R.work = v
  BY <1>1, <1>3 DEF Service, WorkOnly, SameView
<1>11. Out(R, c, n) = Out(S, c, n)
  <2>1. {w[i] : i \in DOMAIN w} = {head} \cup {v[i] : i \in DOMAIN v}
    <3>1. \A i \in DOMAIN w : i = 1 \/ (i - 1 \in DOMAIN v /\ v[i - 1] = w[i])
      <4> SUFFICES ASSUME NEW i \in DOMAIN w, i # 1  PROVE i - 1 \in DOMAIN v /\ v[i - 1] = w[i]
        OBVIOUS
      <4>1. i - 1 \in 1..(Len(w) - 1) /\ (i - 1) + 1 = i
        BY <1>2
      <4> QED  BY <1>2, <4>1
    <3>2. \A i \in DOMAIN v : i + 1 \in DOMAIN w /\ w[i + 1] = v[i]
      BY <1>2
    <3>3. 1 \in DOMAIN w
      BY <1>2
    <3>4. \A i \in DOMAIN w : w[i] \in {head} \cup {v[j] : j \in DOMAIN v}
      <4> SUFFICES ASSUME NEW i \in DOMAIN w  PROVE w[i] \in {head} \cup {v[j] : j \in DOMAIN v}
        OBVIOUS
      <4>1. CASE i = 1
        <5>1. w[i] = head
          BY <1>2, <4>1
        <5> QED  BY <5>1
      <4>2. CASE i - 1 \in DOMAIN v /\ v[i - 1] = w[i]
        BY <4>2
      <4> QED  BY <3>1, <4>1, <4>2
    <3>5. \A i \in DOMAIN v : v[i] \in {w[j] : j \in DOMAIN w}
      BY <3>2
    <3>6. head \in {w[j] : j \in DOMAIN w}
      BY <1>2, <3>3
    <3> QED  BY <3>4, <3>5, <3>6
  <2> QED  BY <1>1, <1>4, <1>10, <2>1 DEF Out, w
<1>12. Counted(R, c, n)
  <2> SUFFICES ASSUME NEW g \in Generations
               PROVE  R.session[g].pending =
                        Cardinality(Owing(R.work, g)) + Cardinality(Answered(c, n, g)) + Holding(R.active, g)
    BY DEF Counted
  <2>1. S.session[g].pending =
          Cardinality(Owing(w, g)) + Cardinality(Answered(c, n, g)) + Holding(None, g)
    BY <1>1 DEF Good, Sound, Counted, w
  <2>2. Holding(None, g) = 0 /\ Holding(head, g) = IF IsHttp(head) /\ head.owner = g THEN 1 ELSE 0
    BY <1>4 DEF Holding
  <2>3. Cardinality(Answered(c, n, g)) \in Nat
    BY AnsweredFinite DEF Good, Sound
  <2>4. R.session[g].pending = S.session[g].pending
    BY <1>10 DEF WorkOnly
  <2> QED  BY <1>5, <1>6, <1>10, <2>1, <2>2, <2>3, <2>4
<1>13. Clients(R) /\ Chances(R)
  BY <1>10 DEF Good, Sound, Clients, Chances, WorkOnly
<1>14. Sent(R, c, n) /\ Logins(R, c, n)
  BY <1>10, <1>11 DEF Good, Sound, Sent, Logins, Awaited, WorkOnly
<1>15. Sound(R, c, n)
  BY <1>9, <1>12, <1>13, <1>14 DEF Good, Sound
<1>16. Retries(R, X) /\ Known(R, k)
  BY <1>10 DEF Good, Retries, Known, Current, WorkOnly, SameView
<1>17. \A y : Kept(S, y, cr) => Kept(R, y, cr)
  BY <1>7, <1>10
<1>18. Good(R, c, n, k, cr, X)
  BY <1>15, <1>16, <1>17 DEF Good
<1> QED
  BY <1>4, <1>9, <1>10, <1>17, <1>18

\* The credentials after the item in hand ended.
Stored(item, result, cr) ==
  CASE item.kind = "Remove" -> None
    [] item.kind = "Save" /\ result = "ok" -> item.user
    [] OTHER -> cr

Finished(S, result) ==
  [S EXCEPT !.active = None,
            !.completed = IF IsHttp(S.active)
                          THEN Append(@, [item |-> S.active, result |-> result]) ELSE @]

\* It is done: the credentials are removed, saved or as before.
LEMMA KeptFinished ==
  ASSUME NEW S, NEW R, NEW k, NEW cr, NEW result, Kept(S, k, cr), S.active # None,
         R.active = None, R.work = S.work
  PROVE  Kept(R, k, Stored(S.active, result, cr))
<1>1. CASE S.active.kind = "Remove"
  BY <1>1 DEF Kept, Stored
<1>2. CASE S.active.kind # "Remove" /\ S.active.kind = "Save" /\ result = "ok"
  BY <1>2 DEF Kept, Stored
<1>3. CASE S.active.kind # "Remove" /\ ~(S.active.kind = "Save" /\ result = "ok")
  BY <1>3 DEF Kept, Stored
<1> QED
  BY <1>1, <1>2, <1>3

LEMMA GoodFinished ==
  ASSUME NEW S, NEW c, c = S.completed, NEW k, NEW cr, Good(S, c, 0, k, cr, {}),
         S.active # None, NEW result \in {"ok", "refused", "outage"},
         NEW R, R = Finished(S, result)
  PROVE  /\ R \in Service /\ Good(R, R.completed, 0, k, Stored(S.active, result, cr), {})
         /\ WorkOnly(S, R) /\ R.work = S.work /\ R.active = None
         /\ \A y : Kept(S, y, cr) => Kept(R, y, Stored(S.active, result, cr))
<1> DEFINE item == S.active
           done == [item |-> item, result |-> result]
           d == IF IsHttp(item) THEN Append(c, done) ELSE c
<1>1. S \in Service /\ item \in Item /\ c \in Outcomes /\ S.active = item /\ item # None
  BY DEF Good, Sound, Service
<1>2. R = [S EXCEPT !.active = None, !.completed = d]
  BY <1>1 DEF Finished, Service
<1>3. done \in Answer /\ done.item = item
  BY <1>1 DEF Answer
<1> HIDE DEF item, done
<1>4. /\ d \in Outcomes
      /\ \A g : Cardinality(Answered(d, 0, g)) =
                  Cardinality(Answered(c, 0, g)) + (IF IsHttp(item) /\ item.owner = g THEN 1 ELSE 0)
  <2>1. \A g : Cardinality(Answered(c, 0, g)) \in Nat
    BY <1>1, AnsweredFinite DEF Outcomes
  <2>2. CASE IsHttp(item)
    BY <1>1, <1>3, <2>2, AnsweredAppend
  <2>3. CASE ~IsHttp(item)
    BY <1>1, <2>1, <2>3
  <2> QED  BY <2>2, <2>3
<1>5. /\ {d[i].item : i \in 1..Len(d)} \subseteq {c[i].item : i \in 1..Len(c)} \cup {item}
      /\ {c[i].item : i \in 1..Len(c)} \subseteq {d[i].item : i \in 1..Len(d)}
      /\ IsHttp(item) => item \in {d[i].item : i \in 1..Len(d)}
  <2>1. CASE IsHttp(item)
    <3>1. /\ Len(d) = Len(c) + 1 /\ Len(c) \in Nat /\ d[Len(c) + 1] = done
          /\ \A i \in 1..Len(c) : d[i] = c[i]
      BY <1>1, <1>3, <2>1 DEF Outcomes
    <3> HIDE DEF d
    <3>2. \A i \in 1..Len(d) : i \in 1..Len(c) \/ i = Len(c) + 1
      BY <3>1
    <3>3. \A i \in 1..Len(c) : i \in 1..Len(d)
      BY <3>1
    <3>4. Len(c) + 1 \in 1..Len(d)
      BY <3>1
    <3> QED  BY <1>3, <3>1, <3>2, <3>3, <3>4
  <2>2. CASE ~IsHttp(item)
    BY <2>2
  <2> QED  BY <2>1, <2>2
<1> HIDE DEF d
<1>6. R \in Service
  <2>1. d \in Seq([item : Item, result : {"ok", "refused", "outage"}])
    BY <1>4 DEF Outcomes, Answer
  <2> QED  BY <1>1, <1>2, <2>1, ZenonT(60) DEF Service
<1>7. WorkOnly(S, R) /\ R.work = S.work /\ R.active = None /\ R.completed = d
  BY <1>1, <1>2 DEF Service, WorkOnly, SameView
<1> DEFINE queue == {S.work[i] : i \in DOMAIN S.work}
<1>18. /\ Out(R, d, 0) = queue \cup {d[i].item : i \in 1..Len(d)}
       /\ Out(S, c, 0) = queue \cup {item} \cup {c[i].item : i \in 1..Len(c)}
  <2>1. 0 + 1 = 1
    OBVIOUS
  <2>2. {R.work[i] : i \in DOMAIN R.work} = queue
    BY <1>7
  <2> HIDE DEF queue
  <2>3. Out(R, d, 0) = queue \cup {d[i].item : i \in 1..Len(d)}
    BY <1>7, <2>1, <2>2 DEF Out
  <2>4. Out(S, c, 0) = queue \cup {item} \cup {c[i].item : i \in 1..Len(c)}
    BY <1>1, <2>1 DEF Out, queue
  <2> QED  BY <2>3, <2>4
<1> DEFINE given == {d[i].item : i \in 1..Len(d)}
           before == {c[i].item : i \in 1..Len(c)}
<1>19. /\ given \subseteq before \cup {item} /\ before \subseteq given /\ (IsHttp(item) => item \in given)
       /\ Out(R, d, 0) = queue \cup given /\ Out(S, c, 0) = queue \cup {item} \cup before
  BY <1>5, <1>18
<1> HIDE DEF queue, given, before
<1>8. Out(R, d, 0) \subseteq Out(S, c, 0)
  BY <1>19
<1>9. \A x \in Out(S, c, 0) : x \in Out(R, d, 0) \/ (x = item /\ ~IsHttp(item))
  BY <1>19
<1>10. Counted(R, d, 0)
  <2> SUFFICES ASSUME NEW g \in Generations
               PROVE  R.session[g].pending =
                        Cardinality(Owing(R.work, g)) + Cardinality(Answered(d, 0, g)) + Holding(R.active, g)
    BY DEF Counted
  <2>1. S.session[g].pending =
          Cardinality(Owing(S.work, g)) + Cardinality(Answered(c, 0, g)) + Holding(item, g)
    BY <1>1 DEF Good, Sound, Counted
  <2>2. Holding(None, g) = 0 /\ Holding(item, g) = IF IsHttp(item) /\ item.owner = g THEN 1 ELSE 0
    BY <1>1 DEF Holding
  <2>3. Cardinality(Answered(c, 0, g)) \in Nat /\ Cardinality(Owing(S.work, g)) \in Nat
    <3>1. Len(c) \in Nat /\ 0 \in 0..Len(c) /\ S.work \in Seq(Item)
      BY <1>1 DEF Outcomes, Service
    <3> QED  BY <1>1, <3>1, AnsweredFinite, OwingFinite
  <2>4. R.session[g].pending = S.session[g].pending
    BY <1>7 DEF WorkOnly
  <2> QED  BY <1>4, <1>7, <2>1, <2>2, <2>3, <2>4
<1>11. Clients(R) /\ Chances(R)
  BY <1>7 DEF Good, Sound, Clients, Chances, WorkOnly
<1>12. Sent(R, d, 0)
  <2>1. \A g : Awaited(S, c, 0, g) => Awaited(R, d, 0, g)
    BY <1>9 DEF Awaited, IsHttp
  <2> QED  BY <1>7, <2>1 DEF Good, Sound, Sent, WorkOnly
<1>13. Logins(R, d, 0)
  BY <1>7, <1>8 DEF Good, Sound, Logins, WorkOnly
<1>14. Sound(R, d, 0)
  <2>1. 0 \in 0..Len(d)
    BY <1>4 DEF Outcomes
  <2> QED  BY <1>4, <1>6, <1>10, <1>11, <1>12, <1>13, <2>1 DEF Sound
<1>15. Retries(R, {}) /\ Known(R, k)
  BY <1>7 DEF Good, Retries, Known, Current, WorkOnly, SameView
<1>16. \A y : Kept(S, y, cr) => Kept(R, y, Stored(item, result, cr))
  BY <1>1, <1>7, KeptFinished
<1>17. Good(R, R.completed, 0, k, Stored(item, result, cr), {})
  BY <1>7, <1>14, <1>15, <1>16 DEF Good
<1> QED
  BY <1>1, <1>6, <1>7, <1>16, <1>17

LEMMA TakeWorkStep == ASSUME IInv, TakeWork  PROVE IInv'
<1>1. /\ Good(service, service.completed, 0, carried, Accountable, {})
      /\ Shown(service) /\ Tokens(service, Accountable) /\ Worker(service) /\ Stages(service)
  BY DEF IInv
<1>2. /\ worker = "waiting" /\ worker' = "working" /\ ~service.stop_worker /\ service.work # <<>>
      /\ service' = Taken(service)
      /\ stage' = stage /\ credentials' = credentials /\ carried' = carried
      /\ unremoved' = unremoved /\ Accountable' = Accountable
  BY DEF TakeWork, Taken, Accountable
<1>3. service.active = None
  BY <1>1, <1>2 DEF Worker
<1>4. /\ service' \in Service /\ Good(service', service.completed, 0, carried, Accountable, {})
      /\ WorkOnly(service, service') /\ service'.completed = service.completed /\ service'.active # None
      /\ \A y : Kept(service, y, Accountable) => Kept(service', y, Accountable)
  BY <1>1, <1>2, <1>3, GoodTaken
<1>5. Good(service', service'.completed, 0, carried', Accountable', {})
  BY <1>2, <1>4
<1>6. Current(service') = Current(service)
  BY <1>4 DEF Current, WorkOnly
<1>7. Shown(service')
  BY <1>1, <1>4, <1>6 DEF Shown, WorkOnly, SameView, Refreshing
<1>8. Tokens(service', Accountable')
  <2>1. service'.commands = service.commands
    BY <1>4 DEF WorkOnly
  <2> QED  BY <1>1, <1>2, <1>4, <1>6, <2>1, TokensKept
<1>9. Types'
  BY <1>2 DEF IInv, Types
<1>10. Worker(service)'
  BY <1>1, <1>2, <1>4 DEF Worker, WorkOnly
<1>11. Stages(service)'
  BY <1>1, <1>2, <1>4, <1>6 DEF Stages, WorkOnly
<1> QED
  BY <1>5, <1>7, <1>8, <1>9, <1>10, <1>11 DEF IInv

LEMMA FinishWorkStep ==
  ASSUME IInv, NEW result \in {"ok", "refused", "outage"}, FinishWork(result)
  PROVE  IInv'
<1>1. /\ Good(service, service.completed, 0, carried, Accountable, {})
      /\ Shown(service) /\ Tokens(service, Accountable) /\ Worker(service) /\ Stages(service)
  BY DEF IInv
<1>2. /\ worker = "working" /\ worker' = "waiting" /\ service' = Finished(service, result)
      /\ stage' = stage /\ carried' = carried
  BY DEF FinishWork, Finished
<1>3. service.active # None
  BY <1>1, <1>2 DEF Worker
<1> DEFINE cr == Stored(service.active, result, Accountable)
<1>4. /\ service' \in Service /\ Good(service', service'.completed, 0, carried, cr, {})
      /\ WorkOnly(service, service') /\ service'.work = service.work /\ service'.active = None
      /\ \A y : Kept(service, y, Accountable) => Kept(service', y, cr)
  BY <1>1, <1>2, <1>3, GoodFinished, Zenon
<1>5. credentials' \in Accounts \cup {None} /\ unremoved' \in BOOLEAN
  <2>1. service.active \in Item /\ credentials \in Accounts \cup {None} /\ unremoved \in BOOLEAN
    BY <1>1, <1>3 DEF IInv, Types, Good, Sound, Service
  <2>2. service.active.user \in Accounts \cup {None}
    BY <2>1 DEF Item
  <2> QED  BY <2>1, <2>2 DEF FinishWork
<1>6. Accountable' = cr
  BY DEF FinishWork, Stored, Accountable
<1> HIDE DEF cr
<1>7. Good(service', service'.completed, 0, carried', Accountable', {})
  BY <1>2, <1>4, <1>6
<1>8. Current(service') = Current(service)
  BY <1>4 DEF Current, WorkOnly
<1>9. Shown(service')
  BY <1>1, <1>4, <1>8 DEF Shown, WorkOnly, SameView, Refreshing
<1>10. Tokens(service', Accountable')
  <2>1. service'.commands = service.commands
    BY <1>4 DEF WorkOnly
  <2>2. Tokens(service', cr)
    BY <1>1, <1>4, <1>8, <2>1, TokensKept
  <2> QED  BY <1>6, <2>2
<1>11. Types'
  BY <1>2, <1>5 DEF IInv, Types
<1>12. Worker(service)'
  BY <1>1, <1>2, <1>3, <1>4 DEF Worker, WorkOnly
<1>13. Stages(service)'
  BY <1>1, <1>2, <1>4, <1>8 DEF Stages, WorkOnly
<1> QED
  BY <1>7, <1>9, <1>10, <1>11, <1>12, <1>13 DEF IInv

LEMMA StopWorkerStep == ASSUME IInv, StopWorker  PROVE IInv'
<1>1. /\ worker = "waiting" /\ worker' = "exited" /\ service.stop_worker
      /\ service' = service /\ credentials' = credentials /\ stage' = stage /\ carried' = carried
      /\ unremoved' = unremoved /\ Accountable' = Accountable
  BY DEF StopWorker, Accountable
<1>2. Types'
  BY <1>1 DEF IInv, Types
<1>3. Worker(service)'
  BY <1>1 DEF IInv, Worker
<1>4. Stages(service)'
  BY <1>1 DEF IInv, Stages
<1> QED
  BY <1>1, <1>2, <1>3, <1>4 DEF IInv

-----------------------------------------------------------------------------
(* shutdown *)

Removals(n) == [i \in 1..n |-> Removal]

\* Removals at the end of the queue.
WithRemovals(S, n) == [S EXCEPT !.work = @ \o Removals(n), !.commands = <<>>]

RemovalsOnly(S, R) ==
  /\ R.generation = S.generation /\ R.sessions = S.sessions /\ R.session = S.session
  /\ R.active = S.active /\ R.completed = S.completed
  /\ R.stopping = S.stopping /\ R.stop_worker = S.stop_worker
  /\ SameView(S, R) /\ R.commands = <<>>

\* Removals behind all other work.
LEMMA GoodRemovals ==
  ASSUME NEW S, NEW c, NEW n, NEW k, NEW cr, NEW X, Good(S, c, n, k, cr, X), S.stopping,
         NEW N \in Nat, NEW R, R = WithRemovals(S, N), NEW last, N # 0 \/ last = k
  PROVE  R \in Service /\ Good(R, c, n, last, cr, X) /\ RemovalsOnly(S, R)
<1> DEFINE w == S.work
           r == Removals(N)
           v == w \o r
<1>1. S \in Service /\ w \in Seq(Item) /\ Len(w) \in Nat
  BY DEF Good, Sound, Service
<1>2. Removal \in Item /\ Removal.kind = "Remove"
  BY BoundsAssumption DEF Removal, Http, Item, Serials, Generations
<1>3. r \in Seq(Item) /\ Len(r) = N /\ \A i \in 1..N : r[i] = Removal
  BY <1>2 DEF Removals
<1> HIDE DEF r, w
<1>4. /\ v \in Seq(Item) /\ Len(v) = Len(w) + N
      /\ \A i \in 1..Len(w) : v[i] = w[i]
      /\ \A i \in (Len(w) + 1)..(Len(w) + N) : v[i] = Removal
  <2>1. v \in Seq(Item) /\ Len(v) = Len(w) + N
    BY <1>1, <1>3
  <2>2. \A i \in 1..(Len(w) + Len(r)) : v[i] = IF i <= Len(w) THEN w[i] ELSE r[i - Len(w)]
    BY <1>1, <1>3
  <2>3. \A i \in (Len(w) + 1)..(Len(w) + N) : i - Len(w) \in 1..N /\ ~(i <= Len(w)) /\ i \in 1..(Len(w) + Len(r))
    BY <1>1, <1>3
  <2>4. \A i \in 1..Len(w) : i <= Len(w) /\ i \in 1..(Len(w) + Len(r))
    BY <1>1, <1>3
  <2> QED  BY <1>3, <2>1, <2>2, <2>3, <2>4
<1> HIDE DEF v
<1>5. DOMAIN v = 1..(Len(w) + N) /\ DOMAIN w = 1..Len(w)
  BY <1>1, <1>4
<1>6. R = [S EXCEPT !.work = v, !.commands = <<>>]
  BY DEF WithRemovals, v, r, w
<1>7. R \in Service
  <2>1. <<>> \in Seq(Command)
    OBVIOUS
  <2> QED  BY <1>1, <1>4, <1>6, <2>1, ZenonT(60) DEF Service
<1>8. RemovalsOnly(S, R) /\ R.work = v /\ S.work = w
  BY <1>1, <1>6, ZenonT(60) DEF Service, RemovalsOnly, SameView, w
<1>9. \A i \in DOMAIN v : (i \in DOMAIN w /\ v[i] = w[i]) \/ v[i] = Removal
  BY <1>1, <1>4, <1>5
<1>10. \A i \in DOMAIN w : i \in DOMAIN v /\ v[i] = w[i]
  BY <1>1, <1>4, <1>5
<1>11. \A g : Owing(v, g) = Owing(w, g)
  BY <1>2, <1>9, <1>10 DEF Owing, IsHttp
<1>12. \A x \in Out(R, c, n) : x \in Out(S, c, n) \/ x = Removal
  <2>1. \A i \in DOMAIN v : v[i] \in {w[j] : j \in DOMAIN w} \/ v[i] = Removal
    BY <1>9
  <2> QED  BY <1>8, <2>1 DEF Out, RemovalsOnly
<1>13. \A x \in Out(S, c, n) : x \in Out(R, c, n)
  <2>1. \A i \in DOMAIN w : w[i] \in {v[j] : j \in DOMAIN v}
    BY <1>10
  <2> QED  BY <1>8, <2>1 DEF Out, RemovalsOnly
<1>14. Counted(R, c, n)
  BY <1>8, <1>11 DEF Good, Sound, Counted, RemovalsOnly
<1>15. Clients(R) /\ Chances(R)
  BY <1>8 DEF Good, Sound, Clients, Chances, RemovalsOnly
<1>16. Sent(R, c, n)
  BY <1>8, <1>13 DEF Good, Sound, Sent, Awaited, RemovalsOnly
<1>17. Logins(R, c, n)
  BY <1>2, <1>8, <1>12 DEF Good, Sound, Logins, RemovalsOnly
<1>18. Sound(R, c, n)
  BY <1>7, <1>14, <1>15, <1>16, <1>17 DEF Good, Sound
<1>19. Retries(R, X)
  BY <1>8 DEF Good, Retries, RemovalsOnly
<1>20. Known(R, last)
  BY <1>8 DEF Known, RemovalsOnly
<1>21. Kept(R, last, cr)
  <2>1. CASE N = 0
    <3>1. \A i \in DOMAIN v : i \in DOMAIN w /\ v[i] = w[i]
      BY <1>4, <1>5, <1>1, <2>1
    <3> QED  BY <1>8, <1>10, <2>1, <3>1 DEF Good, Kept, RemovalsOnly
  <2>2. CASE N # 0
    <3> DEFINE e == Len(w) + N
    <3>1. e \in DOMAIN v /\ v[e] = Removal /\ \A i \in DOMAIN v : i < e \/ v[i] = Removal
      BY <1>1, <1>4, <1>5, <2>2
    <3> HIDE DEF e
    <3> QED  BY <1>2, <1>8, <3>1 DEF Kept
  <2> QED  BY <2>1, <2>2
<1> QED
  BY <1>7, <1>8, <1>18, <1>19, <1>20, <1>21 DEF Good

\* The sign-outs among the commands, as a number.
LEMMA SignOutsNumber ==
  ASSUME service \in Service
  PROVE  /\ SignOutsAtShutdown \in Nat
         /\ (\E i \in DOMAIN service.commands : service.commands[i].logout) <=> SignOutsAtShutdown # 0
<1> DEFINE outs == {i \in DOMAIN service.commands : service.commands[i].logout}
<1>1. DOMAIN service.commands = 1..Len(service.commands) /\ Len(service.commands) \in Nat
  BY DEF Service
<1>2. IsFiniteSet(outs)
  <2>1. outs \subseteq 1..Len(service.commands)
    BY <1>1
  <2>2. IsFiniteSet(1..Len(service.commands))
    BY <1>1, FS_Interval
  <2> QED  BY <2>1, <2>2, FS_Subset
<1>3. Cardinality(outs) \in Nat /\ (Cardinality(outs) = 0 <=> outs = {})
  BY <1>2, FS_CardinalityType, FS_EmptySet
<1> QED
  BY <1>3 DEF SignOutsAtShutdown

LEMMA BeginShutdownStep == ASSUME IInv, BeginShutdown  PROVE IInv'
<1> DEFINE A == [service EXCEPT !.stopping = TRUE, !.live_game = FALSE]
           S == RetireCurrent(A)
           n == SignOutsAtShutdown
           c == service.completed
<1>1. /\ Good(service, c, 0, carried, Accountable, {})
      /\ Shown(service) /\ Worker(service) /\ Stages(service) /\ service \in Service
  BY DEF IInv, Good, Sound
<1>2. /\ stage = "running" /\ stage' = "draining"
      /\ credentials' = credentials /\ worker' = worker
      /\ unremoved' = unremoved /\ Accountable' = Accountable
      /\ service' = WithRemovals(S, n)
      /\ carried' = IF \E i \in DOMAIN service.commands : service.commands[i].logout
                    THEN SignOut ELSE carried
  BY DEF BeginShutdown, WithRemovals, Removals, Accountable
<1>3. n \in Nat /\ ((\E i \in DOMAIN service.commands : service.commands[i].logout) <=> n # 0)
  BY <1>1, SignOutsNumber
<1>4. carried' = IF n # 0 THEN SignOut ELSE carried
  BY <1>2, <1>3
<1> HIDE DEF n
<1>5. A \in Service
  BY <1>1, ZenonT(60) DEF Service
<1>6. /\ A.generation = service.generation /\ A.sessions = service.sessions
      /\ A.session = service.session /\ A.work = service.work /\ A.active = service.active
      /\ A.completed = service.completed /\ A.stopping /\ A.stop_worker = service.stop_worker
      /\ SameView(service, A)
  BY <1>1 DEF Service, SameView
<1> HIDE DEF A
<1>7. Good(A, c, 0, carried, Accountable, {}) /\ A.generation \in A.sessions
  BY <1>1, <1>2, <1>5, <1>6, GoodSame DEF SameView, Stages
<1>8. /\ S \in Service /\ Good(S, c, 0, carried, Accountable, {})
      /\ Within(A, S) /\ SameView(A, S) /\ Current(S).retired
  BY <1>7, GoodRetire
<1> HIDE DEF S
<1>9. S.stopping
  BY <1>6, <1>8 DEF Within
<1>10. /\ service' \in Service /\ Good(service', c, 0, carried', Accountable, {})
       /\ RemovalsOnly(S, service')
  BY <1>2, <1>3, <1>4, <1>8, <1>9, GoodRemovals
<1>11. Good(service', service'.completed, 0, carried', Accountable', {})
  <2>1. service'.completed = c
    BY <1>6, <1>8, <1>10 DEF Within, RemovalsOnly
  <2> QED  BY <1>2, <1>10, <2>1
<1>12. /\ service'.generation = service.generation /\ service'.sessions = service.sessions
       /\ service'.stopping /\ service'.stop_worker = service.stop_worker
       /\ service'.active = service.active /\ service'.commands = <<>>
       /\ Current(service').retired
  BY <1>6, <1>8, <1>10 DEF Within, RemovalsOnly, Current
<1>13. Shown(service')
  <2>1. /\ service'.catalog = service.catalog /\ service'.notifications = service.notifications
        /\ service'.catalog_busy = service.catalog_busy /\ service'.catalog_data = service.catalog_data
        /\ service'.catalog_unlocks = service.catalog_unlocks
        /\ service'.catalog_serial = service.catalog_serial
    BY <1>6, <1>8, <1>10 DEF SameView, RemovalsOnly
  <2> QED  BY <1>1, <1>12, <2>1 DEF Shown, Refreshing
<1>14. Tokens(service', Accountable')
  BY <1>12 DEF Tokens
<1>15. Types'
  <2>1. SignOut \in Command
    BY DEF SignOut, Command
  <2> QED  BY <1>2, <1>4, <2>1 DEF IInv, Types
<1>16. Worker(service)'
  BY <1>1, <1>2, <1>12 DEF Worker
<1>17. Stages(service)'
  <2>1. service.generation \in Nat /\ service.generation <= MaxGeneration /\ Len(service'.commands) = 0
    BY <1>1, <1>12, BoundsAssumption DEF Service, Generations
  <2> QED  BY <1>1, <1>2, <1>12, <2>1 DEF Stages
<1> QED
  BY <1>11, <1>13, <1>14, <1>15, <1>16, <1>17 DEF IInv

\* A turn of shutdown's loop; the worker is stopped when nothing is left.
LEMMA DrainStep == ASSUME IInv, Drain  PROVE IInv'
<1> DEFINE F == FinishResponses(service)
           S == CollectSessions(F)
           over == Drained(S)
           c == service.completed
<1>1. /\ Good(service, c, 0, carried, Accountable, {})
      /\ Shown(service) /\ Worker(service) /\ Stages(service)
  BY DEF IInv
<1>2. /\ stage = "draining" /\ credentials' = credentials /\ worker' = worker /\ carried' = carried
      /\ unremoved' = unremoved /\ Accountable' = Accountable
      /\ service' = [S EXCEPT !.stop_worker = over]
      /\ stage' = IF over THEN "joining" ELSE "draining"
  BY DEF Drain, Accountable
<1>3. /\ service.stopping /\ service.commands = <<>> /\ Current(service).retired
      /\ service.generation \in service.sessions /\ ~service.stop_worker
      /\ service.generation \in Generations
  BY <1>1, <1>2 DEF Stages, Worker, Good, Sound, Service
<1>4. over \in BOOLEAN /\ (over => S.active = None /\ S.work = <<>> /\ S.completed = <<>>)
  BY DEF Drained
<1> HIDE DEF over
<1>5. /\ F \in Service /\ Good(F, <<>>, 0, carried, Accountable, {}) /\ Shown(F)
      /\ Emptied(service, F) /\ SameRetired(service, F)
  BY <1>1, <1>3, GoodFinishResponses
<1> HIDE DEF F
<1>6. /\ S \in Service /\ Good(S, <<>>, 0, carried, Accountable, {}) /\ Shown(S)
      /\ Besides(F, S) /\ S.generation = F.generation /\ Current(S) = Current(F)
      /\ F.generation \in F.sessions => S.generation \in S.sessions
  BY <1>5, GoodCollect
<1> HIDE DEF S
<1>7. service' \in Service
  BY <1>2, <1>4, <1>6, ZenonT(60) DEF Service
<1>8. /\ service'.generation = S.generation /\ service'.sessions = S.sessions
      /\ service'.session = S.session /\ service'.work = S.work /\ service'.active = S.active
      /\ service'.completed = S.completed /\ service'.commands = S.commands
      /\ service'.stopping = S.stopping /\ service'.stop_worker = over
      /\ SameView(S, service')
  BY <1>2, <1>6 DEF Service, SameView
<1>9. Good(service', <<>>, 0, carried, Accountable, {})
  BY <1>6, <1>7, <1>8, GoodSame DEF SameView
<1>10. S.completed = <<>> /\ S.commands = <<>> /\ S.stopping /\ S.active = service.active
       /\ S.generation \in S.sessions
  BY <1>3, <1>5, <1>6 DEF Emptied, Besides
<1>11. Good(service', service'.completed, 0, carried', Accountable', {})
  BY <1>2, <1>8, <1>9, <1>10
<1>12. Current(service') = Current(S) /\ Current(S).retired
  BY <1>3, <1>5, <1>6, <1>8 DEF Current, Emptied, SameRetired
<1>13. Shown(service')
  BY <1>6, <1>8, <1>12 DEF Shown, SameView, Refreshing
<1>14. Tokens(service', Accountable')
  BY <1>8, <1>10 DEF Tokens
<1>15. Types'
  BY <1>2 DEF IInv, Types
<1>16. Worker(service)'
  BY <1>1, <1>2, <1>3, <1>4, <1>8, <1>10 DEF Worker
<1>17. Stages(service)'
  <2>1. S.generation \in Nat /\ S.generation <= MaxGeneration /\ Len(S.commands) = 0
    BY <1>6, <1>10, BoundsAssumption DEF Service, Generations
  <2> QED  BY <1>2, <1>8, <1>10, <1>12, <2>1 DEF Stages
<1> QED
  BY <1>11, <1>13, <1>14, <1>15, <1>16, <1>17 DEF IInv

LEMMA JoinStep == ASSUME IInv, Join  PROVE IInv'
<1> DEFINE none == {}
           c == service.completed
<1>1. /\ Good(service, c, 0, carried, Accountable, {})
      /\ Shown(service) /\ Worker(service) /\ Stages(service)
  BY DEF IInv
<1>2. /\ stage = "joining" /\ stage' = "done"
      /\ credentials' = credentials /\ worker' = worker /\ carried' = carried
      /\ unremoved' = unremoved /\ Accountable' = Accountable
      /\ service' = [service EXCEPT !.sessions = none]
  BY DEF Join, Accountable
<1>3. /\ service \in Service /\ service.stop_worker
      /\ service.stopping /\ service.commands = <<>> /\ Current(service).retired
      /\ service.work = <<>> /\ service.active = None /\ c = <<>>
  BY <1>1, <1>2 DEF Stages, Worker, Good, Sound
<1>4. none \in SUBSET Generations
  OBVIOUS
<1>5. none \subseteq 0..service.generation /\ \A g : g \notin none
  OBVIOUS
<1> HIDE DEF none
<1>6. service' \in Service
  BY <1>2, <1>3, <1>4, ZenonT(60) DEF Service
<1>7. /\ service'.generation = service.generation /\ service'.sessions = none
      /\ service'.session = service.session /\ service'.work = service.work
      /\ service'.active = service.active /\ service'.completed = service.completed
      /\ service'.commands = service.commands /\ service'.stopping = service.stopping
      /\ service'.stop_worker = service.stop_worker /\ SameView(service, service')
  BY <1>2, <1>3, ZenonT(60) DEF Service, SameView
<1>8. \A g \in Generations : service.session[g].pending = 0
  <2> SUFFICES ASSUME NEW g \in Generations  PROVE service.session[g].pending = 0
    OBVIOUS
  <2>1. Owing(service.work, g) = {} /\ Answered(c, 0, g) = {} /\ Holding(service.active, g) = 0
    BY <1>3 DEF Owing, Answered, Holding
  <2>2. Cardinality({}) = 0
    BY FS_EmptySet
  <2>3. service.session[g].pending =
          Cardinality(Owing(service.work, g)) + Cardinality(Answered(c, 0, g)) + Holding(service.active, g)
    BY <1>1 DEF Good, Sound, Counted
  <2> QED  BY <2>1, <2>2, <2>3
<1>9. Clients(service') /\ Chances(service')
  BY <1>1, <1>5, <1>7, <1>8 DEF Good, Sound, Clients, Chances
<1>10. Out(service', c, 0) = Out(service, c, 0)
  BY <1>7 DEF Out
<1>11. Counted(service', c, 0)
  BY <1>1, <1>7 DEF Good, Sound, Counted
<1>12. Sent(service', c, 0) /\ Logins(service', c, 0)
  BY <1>1, <1>7, <1>10 DEF Good, Sound, Sent, Logins, Awaited
<1>13. Sound(service', c, 0)
  BY <1>1, <1>6, <1>9, <1>11, <1>12 DEF Good, Sound
<1>14. Retries(service', {}) /\ Known(service', carried) /\ Kept(service', carried, Accountable)
  BY <1>1, <1>3, <1>7 DEF Good, Retries, Known, Kept
<1>15. Good(service', service'.completed, 0, carried', Accountable', {})
  BY <1>2, <1>7, <1>13, <1>14 DEF Good
<1>16. Current(service') = Current(service)
  BY <1>7 DEF Current
<1>17. Shown(service')
  BY <1>1, <1>7, <1>16 DEF Shown, SameView, Refreshing
<1>18. Tokens(service', Accountable')
  BY <1>3, <1>7 DEF Tokens
<1>19. Types'
  BY <1>2 DEF IInv, Types
<1>20. Worker(service)'
  BY <1>1, <1>2, <1>3, <1>7 DEF Worker
<1>21. Stages(service)'
  BY <1>1, <1>2, <1>7, <1>16 DEF Stages
<1> QED
  BY <1>15, <1>17, <1>18, <1>19, <1>20, <1>21 DEF IInv

-----------------------------------------------------------------------------
(* The invariant holds *)

\* Saved credentials are the first command's.
LEMMA InitIInv == ASSUME Init  PROVE IInv
<1> DEFINE c == service.completed
<1>1. /\ credentials \in SavedAtFirst
      /\ carried = IF credentials = None THEN SignOut ELSE SignIn(credentials, TRUE, TRUE)
      /\ worker = "waiting" /\ stage = "running"
      /\ unremoved = FALSE /\ Accountable = credentials
  BY DEF Init, Accountable
<1>2. /\ service.commands = IF credentials = None THEN <<>> ELSE <<carried>>
      /\ service.work = <<>> /\ service.active = None /\ c = <<>>
  BY DEF Init
<1>22. service.session = [g \in Generations |-> NewSession]
  BY DEF Init
<1>23. /\ service.generation = 0 /\ service.sessions = {0}
      /\ service.catalog = None /\ service.catalog_busy = FALSE /\ service.notifications = {}
      /\ service.game_loaded = FALSE /\ service.stopping = FALSE /\ service.stop_worker = FALSE
  BY DEF Init
<1>3. credentials \in Accounts \cup {None} /\ carried \in Command
  BY <1>1 DEF Accounts, Command, SignIn, SignOut
<1>4. 0 \in Generations /\ 0 \in Serials /\ MaxGeneration \in Nat
  BY BoundsAssumption DEF Generations, Serials
<1>5. NewSession \in Session
  BY DEF NewSession, Session
<1>6. service \in Service
  <2> DEFINE cmds == IF credentials = None THEN <<>> ELSE <<carried>>
             ses == [g \in Generations |-> NewSession]
             first == {0}
             none == {}
             no == FALSE
             empty == <<>>
  <2>1. cmds \in Seq(Command)
    BY <1>3
  <2>2. ses \in [Generations -> Session]
    BY <1>5
  <2>3. first \in SUBSET Generations /\ none \in SUBSET Generations /\ no \in BOOLEAN
    BY <1>4
  <2>4. empty \in Seq(Item) /\ empty \in Seq([item : Item, result : {"ok", "refused", "outage"}])
    OBVIOUS
  <2>5. service = [commands |-> cmds, work |-> empty, active |-> None, completed |-> empty,
                   generation |-> 0, session |-> ses, sessions |-> first,
                   live_game |-> no, hash |-> no, load_attempted |-> no,
                   remember |-> no, token_login |-> no, busy |-> no,
                   game_loaded |-> no, catalog_serial |-> 0, catalog_busy |-> no,
                   catalog_data |-> None, catalog_unlocks |-> None, catalog |-> None,
                   notifications |-> none, stopping |-> no, stop_worker |-> no]
    BY <1>1 DEF Init
  <2> HIDE DEF cmds, ses, first, none, no, empty
  <2> QED  BY <1>4, <2>1, <2>2, <2>3, <2>4, <2>5, ZenonT(60) DEF Service
<1>7. \A g \in Generations : service.session[g] = NewSession
  BY <1>22
<1>8. Current(service) = NewSession
  BY <1>4, <1>7, <1>23 DEF Current
<1>9. Out(service, c, 0) = {}
  BY <1>2 DEF Out
<1>10. Counted(service, c, 0)
  <2> SUFFICES ASSUME NEW g \in Generations
               PROVE  service.session[g].pending =
                        Cardinality(Owing(service.work, g)) + Cardinality(Answered(c, 0, g))
                          + Holding(service.active, g)
    BY DEF Counted
  <2>1. Owing(service.work, g) = {} /\ Answered(c, 0, g) = {} /\ Holding(service.active, g) = 0
    BY <1>2 DEF Owing, Answered, Holding
  <2>2. Cardinality({}) = 0
    BY FS_EmptySet
  <2> QED  BY <1>7, <2>1, <2>2 DEF NewSession
<1>11. Clients(service)
  <2>1. NewSession.pending = 0 /\ ~NewSession.retired
    BY DEF NewSession
  <2> QED  BY <1>7, <1>23, <2>1 DEF Clients, Generations
<1>12. Sent(service, c, 0) /\ Logins(service, c, 0) /\ Chances(service)
  BY <1>7, <1>9 DEF Sent, Logins, Chances, NewSession
<1>13. Sound(service, c, 0)
  <2>1. c \in Outcomes /\ 0 \in 0..Len(c)
    BY <1>2 DEF Outcomes
  <2> QED  BY <1>6, <1>10, <1>11, <1>12, <2>1 DEF Sound
<1>14. Retries(service, {}) /\ Known(service, carried)
  BY <1>7, <1>8 DEF Retries, Known, NewSession
<1>15. Kept(service, carried, Accountable)
  <2>1. Accountable # None => Fits(carried, Accountable)
    BY <1>1 DEF Fits, SignIn
  <2> QED  BY <1>2, <2>1 DEF Kept
<1>16. Good(service, service.completed, 0, carried, Accountable, {})
  BY <1>13, <1>14, <1>15 DEF Good
<1>17. Shown(service)
  BY <1>8, <1>23 DEF Shown, NewSession
<1>18. Tokens(service, Accountable)
  <2>1. \A i \in 1..Len(service.commands) : service.commands[i] = carried
    BY <1>2
  <2> QED  BY <1>8, <1>15, <2>1 DEF Tokens, NewSession
<1>19. Types
  BY <1>1, <1>3 DEF Types
<1>20. Worker(service)
  BY <1>1, <1>2, <1>23 DEF Worker
<1>21. Stages(service)
  <2>1. service.generation + Len(service.commands) <= MaxGeneration
    <3> DEFINE k == Len(service.commands)
    <3>1. k \in 0..1
      BY <1>2
    <3>2. MaxGeneration \in Nat /\ MaxGeneration >= 1
      BY BoundsAssumption
    <3> HIDE DEF k
    <3>3. service.generation + k <= MaxGeneration
      BY <1>23, <3>1, <3>2
    <3> QED  BY <3>3 DEF k
  <2> QED  BY <1>1, <1>23, <2>1 DEF Stages
<1> QED
  BY <1>16, <1>17, <1>18, <1>19, <1>20, <1>21 DEF IInv

-----------------------------------------------------------------------------
(* The theorems *)

LEMMA RequestLoginStep ==
  ASSUME IInv, NEW u \in TypedAccounts, NEW remember \in BOOLEAN, RequestLogin(u, remember)
  PROVE  IInv'
<1> DEFINE x == SignIn(u, FALSE, remember)
<1>1. x \in Command /\ ~x.token
  BY DEF SignIn, Command, Accounts
<1>2. service' = Queued(service, x)
  BY DEF RequestLogin, Queued
<1>3. Running /\ Room(1) /\ Unchanged /\ UNCHANGED carried
  BY DEF RequestLogin
<1> HIDE DEF x
<1> QED
  BY <1>1, <1>2, <1>3, CommandStep

LEMMA RequestLogoutStep == ASSUME IInv, RequestLogout  PROVE IInv'
<1>1. SignOut \in Command /\ ~SignOut.token
  BY DEF SignOut, Command
<1>2. service' = Queued(service, SignOut)
  BY DEF RequestLogout, Queued
<1>3. Running /\ Room(1) /\ Unchanged /\ UNCHANGED carried
  BY DEF RequestLogout
<1> QED
  BY <1>1, <1>2, <1>3, CommandStep

LEMMA StutterStep == ASSUME IInv, UNCHANGED vars  PROVE IInv'
<1>1. /\ service' = service /\ credentials' = credentials /\ worker' = worker
      /\ stage' = stage /\ carried' = carried
      /\ unremoved' = unremoved /\ Accountable' = Accountable
  BY DEF vars, Accountable
<1>2. Types' /\ Worker(service)' /\ Stages(service)'
  BY <1>1 DEF IInv, Types, Worker, Stages
<1>3. Good(service, service.completed, 0, carried, Accountable, {})'
  BY <1>1 DEF IInv
<1>4. Shown(service)' /\ Tokens(service, Accountable)'
  BY <1>1 DEF IInv
<1> QED
  BY <1>2, <1>3, <1>4 DEF IInv

\* Every step keeps the invariant.
LEMMA NextIInv == IInv /\ [Next]_vars => IInv'
<1> SUFFICES ASSUME IInv, [Next]_vars  PROVE IInv'
  OBVIOUS
<1>1. CASE \E u \in TypedAccounts, remember \in BOOLEAN : RequestLogin(u, remember)
  BY <1>1, RequestLoginStep
<1>2. CASE RequestLogout
  BY <1>2, RequestLogoutStep
<1>3. CASE RequestCatalogRefresh
  BY <1>3, RequestCatalogRefreshStep
<1>4. CASE DrainNotifications
  BY <1>4, DrainNotificationsStep
<1>5. CASE \E due \in BOOLEAN : UiTick(due)
  BY <1>5, UiTickStep
<1>6. CASE \E triggered \in BOOLEAN, due \in BOOLEAN : NativeFrame(triggered, due)
  BY <1>6, NativeFrameStep
<1>7. CASE \E hash \in BOOLEAN : SetGameIdentity(hash)
  BY <1>7, SetGameIdentityStep
<1>8. CASE GameStopped
  BY <1>8, GameStoppedStep
<1>9. CASE TakeWork
  BY <1>9, TakeWorkStep
<1>10. CASE \E result \in {"ok", "refused", "outage"} : FinishWork(result)
  BY <1>10, FinishWorkStep
<1>11. CASE StopWorker
  BY <1>11, StopWorkerStep
<1>12. CASE BeginShutdown
  BY <1>12, BeginShutdownStep
<1>13. CASE Drain
  BY <1>13, DrainStep
<1>14. CASE Join
  BY <1>14, JoinStep
<1>15. CASE UNCHANGED vars
  BY <1>15, StutterStep
<1> QED
  BY <1>1, <1>2, <1>3, <1>4, <1>5, <1>6, <1>7, <1>8, <1>9, <1>10, <1>11, <1>12, <1>13, <1>14, <1>15 DEF Next

\* Between two calls the service is in order: requests are counted, unlocks and
\* credentials have their work on its way, what is shown is the current client's.
THEOREM ServiceInvariant == Spec => []IInv
<1>1. Init => IInv
  BY InitIInv
<1> QED
  BY <1>1, NextIInv, PTL DEF Spec

\* What the properties say of the variables is what the invariant says of a
\* service none of whose answers were given.
LEMMA ClientsFromIInv == ASSUME IInv  PROVE ClientsInv
<1> DEFINE S == service
           c == service.completed
<1>1. Good(S, c, 0, carried, Accountable, {}) /\ Types
  BY DEF IInv
<1>2. S \in Service /\ c \in Outcomes /\ Counted(S, c, 0) /\ Clients(S)
  BY <1>1 DEF Good, Sound
<1>3. TypeOK
  BY <1>1, <1>2 DEF Types, TypeOK
<1>4. ASSUME NEW g \in Generations
      PROVE  /\ S.session[g].pending = Cardinality(Requests(g)) + Cardinality(Answers(g)) + InHand(g)
             /\ S.session[g].pending # 0 => g \in S.sessions
  <2>1. Requests(g) = Owing(S.work, g)
    BY DEF Requests, Owing
  <2>2. Answers(g) = Answered(c, 0, g)
    <3>1. DOMAIN c = (0 + 1)..Len(c)
      BY <1>2 DEF Outcomes
    <3> HIDE DEF c
    <3> QED  BY <3>1 DEF Answers, Answered, c
  <2>3. InHand(g) = Holding(S.active, g)
    BY DEF InHand, Holding
  <2> QED  BY <1>2, <2>1, <2>2, <2>3 DEF Counted, Clients
<1> QED
  BY <1>3, <1>4 DEF ClientsInv, ClientsOutliveRequests

LEMMA CredentialsFromIInv == ASSUME IInv  PROVE CredentialsFollowCommands
<1> SUFFICES ASSUME service.work = <<>>, service.active = None, credentials # None, ~unremoved
             PROVE  Fits(carried, credentials)
  BY DEF CredentialsFollowCommands, Fits
<1>1. Kept(service, carried, credentials)
  BY DEF IInv, Good, Accountable
<1>2. DOMAIN service.work = {}
  OBVIOUS
<1> QED
  BY <1>1, <1>2 DEF Kept

LEMMA ShownFromIInv == ASSUME IInv  PROVE ShownIsCurrent
BY DEF IInv, Shown, ShownIsCurrent

LEMMA UnlocksFromIInv == ASSUME IInv  PROVE UnlocksGetLastChance
<1> DEFINE S == service
           c == service.completed
<1>7. \A g \in Generations : S.session[g].award = "cancelled" => S.session[g].last_chance
  BY DEF IInv, Good, Sound, Chances
<1> SUFFICES ASSUME stage \in {"joining", "done"}, NEW g \in Generations
             PROVE  S.session[g].award \in {"locked", "settled", "cancelled"}
  BY <1>7 DEF UnlocksGetLastChance
<1>1. /\ Good(S, c, 0, carried, Accountable, {}) /\ Worker(S) /\ Stages(S)
  BY DEF IInv
<1>2. /\ S \in Service /\ Sent(S, c, 0) /\ Clients(S) /\ Retries(S, {})
  BY <1>1 DEF Good, Sound
<1>3. S.work = <<>> /\ S.active = None /\ c = <<>> /\ Current(S).retired
  BY <1>1 DEF Worker, Stages
<1>4. S.session[g].award \in {"locked", "sent", "scheduled", "settled", "cancelled"}
  BY <1>2 DEF Service, Session
<1>5. S.session[g].award # "sent"
  <2>1. DOMAIN S.work = {} /\ (0 + 1)..Len(c) = {}
    BY <1>3
  <2>2. Out(S, c, 0) = {}
    BY <1>3, <2>1 DEF Out
  <2> QED  BY <1>2, <2>2 DEF Sent, Awaited
<1>6. S.session[g].award # "scheduled"
  <2>1. g \in Nat /\ S.generation \in Nat
    BY <1>2, BoundsAssumption DEF Service, Generations
  <2>2. CASE g < S.generation
    BY <1>2, <2>2 DEF Clients, Retries
  <2>3. CASE g = S.generation
    BY <1>2, <1>3, <2>3 DEF Current, Retries
  <2>4. CASE g > S.generation
    BY <1>2, <2>4 DEF Clients, NewSession
  <2> QED  BY <2>1, <2>2, <2>3, <2>4
<1> QED
  BY <1>4, <1>5, <1>6

\* A client is there for every answer it is owed: its counter is the number of
\* its requests in the queue, with the worker and among the completions.
THEOREM ClientsOutlive == Spec => []ClientsInv
BY ServiceInvariant, ClientsFromIInv, PTL

\* Removals and saves are done in the order of the commands: unless a removal
\* failed, the file holds no other account than the last command allows.
THEOREM CredentialsFollow == Spec => []CredentialsFollowCommands
BY ServiceInvariant, CredentialsFromIInv, PTL

\* Late answers never reach the view of another account or game, and the halves
\* of a catalogue are of one refresh.
THEOREM ShownCurrent == Spec => []ShownIsCurrent
BY ServiceInvariant, ShownFromIInv, PTL

\* Only after an outage that a retired client met is a submission cancelled, and
\* the worker is stopped when none is under way or scheduled.
THEOREM LastChances == Spec => []UnlocksGetLastChance
BY ServiceInvariant, UnlocksFromIInv, PTL
=============================================================================
