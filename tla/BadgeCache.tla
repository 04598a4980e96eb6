---------------------------- MODULE BadgeCache ----------------------------
(***************************************************************************)
(* The achievement badge cache (src/wr64_achievement_badges.cpp): a worker *)
(* thread takes badge images from disk or from the server and hands them   *)
(* to the frontend, which drains them once a frame.  One mutex, one        *)
(* condition variable for three events (something to do, room for the      *)
(* result, stopping), and a flag, stopping, that is stored without the     *)
(* mutex.                                                                  *)
(*                                                                         *)
(* The frontend's calls and shutdown come one after another: main() calls  *)
(* shutdown once recomp::start has joined the frontend's threads.  A       *)
(* critical section is one step, except for the worker's wait: between its *)
(* test of the condition and its registration as a waiter (dozing) it      *)
(* holds the mutex, which stops neither a store to stopping nor a notify.  *)
(***************************************************************************)
EXTENDS Integers, SequencesExt

CONSTANTS Names,              \* badges
          image_count_limit,  \* files requested, and files kept on disk
          ready_limit,        \* images waiting for the frontend
          None

ASSUME LimitsAssumption == /\ image_count_limit \in Nat
                           /\ ready_limit \in Nat \ {0}

\* A badge has two images: in color and locked.
Tasks == [name : Names, locked : BOOLEAN]
ASSUME NoneAssumption == None \notin Tasks

VARIABLES stopping,   \* cache.stopping
          pending,    \* cache.pending
          requested,  \* cache.requested
          ready,      \* cache.ready, all images of one size
          cached,     \* valid images on disk
          worker,     \* where the worker thread is; "none": not joinable
          task,       \* the task it works on
          client,     \* where the frontend or main thread is
          delivered   \* history: what the frontend got since initialize

vars == <<stopping, pending, requested, ready, cached, worker, task, client, delivered>>

\* Places of the worker: waiting for work, and waiting for room.
IdleWait == [test |-> "idle", doze |-> "idle_dozing", sleep |-> "idle_asleep"]
FullWait == [test |-> "full", doze |-> "full_dozing", sleep |-> "full_asleep"]
Waits == {IdleWait, FullWait}
Places == {"none", "start", "load", "fetch", "save", "exit"}
          \cup UNION {{w.test, w.doze, w.sleep} : w \in Waits}

MutexFree == \A w \in Waits : worker # w.doze

Init == /\ stopping = TRUE
        /\ pending = <<>>
        /\ requested = {}
        /\ ready = <<>>
        /\ cached \in SUBSET Tasks
        /\ worker = "none"
        /\ task = None
        /\ client = "running"
        /\ delivered = {}

\* notify_one and notify_all alike: only the worker ever waits.
Notified(place) == IF \E w \in Waits : place = w.sleep
                   THEN (CHOOSE w \in Waits : place = w.sleep).test
                   ELSE place

-----------------------------------------------------------------------------
(* The frontend and main(); every call here takes the mutex but shutdown. *)

Initialize ==
  /\ client = "running" /\ MutexFree
  /\ worker = "none"
  /\ stopping' = FALSE
  /\ worker' = "start"
  /\ delivered' = {}
  /\ UNCHANGED <<pending, requested, ready, cached, task, client>>

\* The first of the waiting tasks that is t goes to the front.
Promoted(tasks, t) ==
  LET it == CHOOSE i \in DOMAIN tasks : tasks[i] = t /\ \A j \in 1..(i - 1) : tasks[j] # t
  IN <<t>> \o RemoveAt(tasks, it)

\* Mutant: a promoted task also stays where it was.
RequestFileTwice(q, t, priority) ==
  IF t \in q.requested
  THEN IF priority /\ t \in ToSet(q.pending)
       THEN [q EXCEPT !.pending = <<t>> \o @]
       ELSE q
  ELSE IF Cardinality(q.requested) < image_count_limit
       THEN [requested |-> q.requested \cup {t},
             pending |-> IF priority THEN <<t>> \o q.pending ELSE Append(q.pending, t)]
       ELSE q

\* One of the two files of a badge: known, and moved to the front if it still
\* waits and this call has priority; or new, while there is room for names.
RequestFile(q, t, priority) ==
  IF t \in q.requested
  THEN IF priority /\ t \in ToSet(q.pending)
       THEN [q EXCEPT !.pending = Promoted(@, t)]
       ELSE q
  ELSE IF Cardinality(q.requested) < image_count_limit
       THEN [requested |-> q.requested \cup {t},
             pending |-> IF priority THEN <<t>> \o q.pending ELSE Append(q.pending, t)]
       ELSE q

Request(name, priority) ==
  /\ client = "running" /\ MutexFree
  /\ ~stopping
  /\ LET first == [name |-> name, locked |-> priority]
         second == [name |-> name, locked |-> ~priority]
         q == RequestFile(RequestFile([pending |-> pending, requested |-> requested],
                                      first, priority), second, priority)
     IN pending' = q.pending /\ requested' = q.requested
  /\ worker' = Notified(worker)
  /\ UNCHANGED <<stopping, ready, cached, task, client, delivered>>

\* Mutant: a worker that waits for room is not told of it.
DrainSilently ==
  /\ client = "running" /\ MutexFree
  /\ delivered' = delivered \cup ToSet(ready)
  /\ ready' = <<>>
  /\ UNCHANGED <<stopping, pending, requested, cached, worker, task, client>>

\* The frontend takes every ready image.
DrainImages ==
  /\ client = "running" /\ MutexFree
  /\ delivered' = delivered \cup ToSet(ready)
  /\ ready' = <<>>
  /\ worker' = Notified(worker)
  /\ UNCHANGED <<stopping, pending, requested, cached, task, client>>

\* stopping.store(true), then notify_all, then join: three steps, no mutex.
StopStore ==
  /\ client = "running"
  /\ stopping' = TRUE
  /\ client' = "notify"
  /\ UNCHANGED <<pending, requested, ready, cached, worker, task, delivered>>

StopNotify ==
  /\ client = "notify"
  /\ worker' = Notified(worker)
  /\ client' = "join"
  /\ UNCHANGED <<stopping, pending, requested, ready, cached, task, delivered>>

\* Mutant: the names requested so far are kept.
StopKeepingNames ==
  /\ client = "join"
  /\ worker \in {"none", "exit"}
  /\ worker' = "none"
  /\ pending' = <<>> /\ ready' = <<>>
  /\ client' = "running"
  /\ UNCHANGED <<stopping, requested, cached, task, delivered>>

\* The rest of shutdown, after the join.
StopJoin ==
  /\ client = "join"
  /\ worker \in {"none", "exit"}
  /\ worker' = "none"
  /\ pending' = <<>> /\ requested' = {} /\ ready' = <<>>
  /\ client' = "running"
  /\ UNCHANGED <<stopping, cached, task, delivered>>

-----------------------------------------------------------------------------
(* The worker: run() *)

\* trim_cache removes files, oldest first, until few enough are left; a file
\* it cannot remove stays.  Ages are not modelled.
Trimmed(files) ==
  {files} \cup {f \in SUBSET files : Cardinality(f) = image_count_limit}

Start ==
  /\ worker = "start"
  /\ cached' \in Trimmed(cached)
  /\ worker' = "idle"
  /\ UNCHANGED <<stopping, pending, requested, ready, task, client, delivered>>

\* The loop's own test, and wait()'s first one, with the mutex.
TakeTask ==
  /\ worker = "idle"
  /\ ~stopping /\ pending # <<>>
  /\ task' = Head(pending)
  /\ pending' = Tail(pending)
  /\ worker' = "load"
  /\ UNCHANGED <<stopping, requested, ready, cached, client, delivered>>

\* Mutant: one image too many.
DeliverOverLimit ==
  /\ worker = "full"
  /\ ~stopping /\ Len(ready) <= ready_limit
  /\ ready' = Append(ready, task)
  /\ task' = None
  /\ worker' = "idle"
  /\ UNCHANGED <<stopping, pending, requested, cached, client, delivered>>

\* The image is published once there is room for it.
Deliver ==
  /\ worker = "full"
  /\ ~stopping /\ Len(ready) + 1 <= ready_limit
  /\ ready' = Append(ready, task)
  /\ task' = None
  /\ worker' = "idle"
  /\ UNCHANGED <<stopping, pending, requested, cached, client, delivered>>

Exit ==
  /\ worker \in {w.test : w \in Waits}
  /\ stopping
  /\ task' = None
  /\ worker' = "exit"
  /\ UNCHANGED <<stopping, pending, requested, ready, cached, client, delivered>>

Ready(w) == \/ stopping
            \/ w = IdleWait /\ pending # <<>>
            \/ w = FullWait /\ Len(ready) + 1 <= ready_limit

Doze(w) ==
  /\ worker = w.test
  /\ ~Ready(w)
  /\ worker' = w.doze
  /\ UNCHANGED <<stopping, pending, requested, ready, cached, task, client, delivered>>

Sleep(w) ==
  /\ worker = w.doze
  /\ worker' = w.sleep
  /\ UNCHANGED <<stopping, pending, requested, ready, cached, task, client, delivered>>

\* A condition variable may wake its waiter for no reason.
WakeSpuriously(w) ==
  /\ worker = w.sleep
  /\ worker' = w.test
  /\ UNCHANGED <<stopping, pending, requested, ready, cached, task, client, delivered>>

LoadCached ==
  /\ worker = "load"
  /\ worker' = IF task \in cached THEN "full" ELSE "fetch"
  /\ UNCHANGED <<stopping, pending, requested, ready, cached, task, client, delivered>>

\* The download brings an image, or nothing: no network, not a valid PNG, or
\* stopping.  A task that brings nothing is over, and its name stays requested.
Fetch ==
  /\ worker = "fetch"
  /\ \/ task' = None /\ worker' = "idle"
     \/ ~stopping /\ worker' = "save" /\ UNCHANGED task
  /\ UNCHANGED <<stopping, pending, requested, ready, cached, client, delivered>>

\* save_cached may fail; the image is delivered all the same.
SaveCached ==
  /\ worker = "save"
  /\ \E saved \in {cached, cached \cup {task}} : cached' \in Trimmed(saved)
  /\ worker' = "full"
  /\ UNCHANGED <<stopping, pending, requested, ready, task, client, delivered>>

\* What run() throws ends the worker; its thread stays joinable.
Throw ==
  /\ worker \in {"start", "load", "fetch", "save"}
  /\ stopping' = TRUE
  /\ task' = None
  /\ worker' = "exit"
  /\ UNCHANGED <<pending, requested, ready, cached, client, delivered>>

Work == \/ Start \/ TakeTask \/ Deliver \/ Exit \/ LoadCached \/ Fetch \/ SaveCached
        \/ \E w \in Waits : Doze(w) \/ Sleep(w)

Next == \/ Initialize \/ DrainImages
        \/ StopStore \/ StopNotify \/ StopJoin
        \/ \E name \in Names, priority \in BOOLEAN : Request(name, priority)
        \/ Work
        \/ Throw
        \/ \E w \in Waits : WakeSpuriously(w)

Spec == Init /\ [][Next]_vars

\* The worker runs; a shutdown that began goes on; the frontend drains once in
\* every frame, on the thread that makes the requests, so neither its own
\* requests nor the worker's short hold of the mutex keep it from that (SF).
\* A request, a start, a spurious wakeup or an exception need never happen.
Fairness == /\ WF_vars(Work)
            /\ SF_vars(DrainImages)
            /\ WF_vars(StopNotify) /\ WF_vars(StopJoin)
FairSpec == Spec /\ Fairness

-----------------------------------------------------------------------------
(* Properties *)

\* The type invariant, with the two limits.
TypeOK ==
  /\ stopping \in BOOLEAN
  /\ pending \in Seq(Tasks)
  /\ requested \subseteq Tasks /\ Cardinality(requested) <= image_count_limit
  /\ ready \in Seq(Tasks) /\ Len(ready) <= ready_limit
  /\ cached \subseteq Tasks
  /\ worker \in Places
  /\ task \in Tasks \cup {None}
  /\ client \in {"running", "notify", "join"}
  /\ delivered \subseteq Tasks

\* A file is queued, in the worker's hands, ready or delivered at most once
\* between two starts, however often and with whatever priority it is asked
\* for: the frontend asks five times a second for every badge it lacks.
EachFileOnce ==
  LET held == IF task = None THEN <<>> ELSE <<task>>
      path == pending \o held \o ready
  IN /\ IsInjective(path)
     /\ worker # "none" => ToSet(path) \cap delivered = {}
     /\ ToSet(path) \subseteq requested

\* While no worker runs nothing is left from the last one, so that a new start
\* delivers what is asked for again.
StoppedIsEmpty ==
  worker = "none" =>
    /\ stopping
    /\ client = "running" => pending = <<>> /\ requested = {} /\ ready = <<>>

\* What is asked for is worked on, or the cache stops: neither a full ready
\* list nor a missed notification leaves the worker asleep.
Served == \A t \in Tasks : t \in ToSet(pending) ~> (t \notin ToSet(pending) \/ stopping)

\* "idle shutdown did not finish promptly" is a failure of the test
\* (tests/achievement_badges/badges.cpp:111): a shutdown ends.
ShutdownEnds == client = "join" ~> client = "running"
=============================================================================
