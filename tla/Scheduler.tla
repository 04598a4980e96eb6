----------------------------- MODULE Scheduler -----------------------------
(***************************************************************************)
(* The cooperative N64 scheduler of ultramodern: OSThreads handing one     *)
(* execution token around (scheduling.cpp, threads.cpp), message queues    *)
(* they block on (mesgqueue.cpp), and the concurrent queue through which   *)
(* the host's VI, timer, RSP, SI and audio threads deliver their events.   *)
(*                                                                         *)
(* Only the thread that holds the token runs game code or OS calls; it     *)
(* gives the token away with the semaphore of the next thread's context.   *)
(* A step is therefore everything the token holder does up to the next     *)
(* place where the host threads can interfere: a dequeue from              *)
(* external_messages.                                                      *)
(***************************************************************************)
EXTENDS ThreadQueue, MesgRing, FiniteSets

CONSTANTS
  Threads,        \* the OSThread structures of the game
  Idle,           \* the thread that ends in pause_self at priority 0
  MQs,            \* the OSMesgQueue structures
  Capacities,     \* the counts osCreateMesgQueue is called with
  Priorities,     \* the priorities the game uses, 0 for the idle thread
  EventSources,   \* host threads that post events (EventMessageSource)
  RequeueSources, \* the ones whose events are requeued when blocked
  HostThreads,    \* other host threads that call osSendMesg or osJamMesg
  GameMsgs,       \* messages sent by game threads
  Victims,        \* threads that others may destroy or reprioritise
  MaxExternal,    \* bound on the events in flight
  Null

ASSUME ThreadsAssumption ==
  /\ Idle \in Threads
  /\ Null \notin Threads
  /\ Victims \subseteq Threads \ {Idle}

ASSUME PrioritiesAssumption ==
  /\ Priorities \subseteq Nat
  /\ 0 \in Priorities

ASSUME QueuesAssumption ==
  /\ Capacities \subseteq Nat \ {0}
  /\ RequeueSources \subseteq EventSources
  /\ MaxExternal \in Nat

-----------------------------------------------------------------------------
(***************************************************************************)
(* Lists of threads: the running queue and the two wait lists of each      *)
(* message queue, blocked_on_recv and blocked_on_send.                     *)
(***************************************************************************)
RunningQueue     == << "running", Null >>
BlockedOnRecv(q) == << "recv", q >>
BlockedOnSend(q) == << "send", q >>
QueueIds         == {RunningQueue} \cup ({"recv", "send"} \X MQs)

\* No list has the address 0.
ASSUME NullAssumption == Null \notin QueueIds

Msgs      == GameMsgs \cup EventSources \cup HostThreads
Producers == Threads \cup EventSources \cup HostThreads

\* QueuedMessage, with the host thread that enqueued it: external_messages
\* keeps the order of the messages of one producer and no other.
ExternalMessage ==
  [src : Producers, mq : MQs, msg : Msgs, jam : BOOLEAN, requeue : BOOLEAN]

\* An OS call in progress: the arguments of osSendMesg, osJamMesg, osRecvMesg.
Calls  == [op : {"send", "recv"}, mq : MQs, msg : Msgs \cup {Null},
           jam : BOOLEAN, block : BOOLEAN]
NoCall == [op |-> "none"]

\* Where a thread is, or continues when it gets the token: in game code, in
\* the loop of dequeue_external_messages, in do_send or do_recv, or waiting
\* for an external message in pause_self, yield_self or yield_self_1ms.
Places == {"none", "game", "drain", "op", "pause", "yield", "yield_1ms"}

Halts == {"none", "no_threads", "hang", "fault"}

VARIABLES
  sched,     \* OSThread fields, the lists, the token holder (a record)
  ring,      \* [MQs -> OSMesgQueue ring buffer]
  pc,        \* [Threads -> Places]
  call,      \* [Threads -> Calls \cup {NoCall}]
  external,  \* external_messages, as one sequence with producer tags
  requeued,  \* requeued_messages of the dequeue loop in progress
  mesg       \* the word the last osRecvMesg stored through its msg argument

vars == << sched, ring, pc, call, external, requeued, mesg >>

SchedType ==
  [priority : [Threads -> Priorities],
   state    : [Threads -> {"STOPPED", "QUEUED"}],
   queue    : [Threads -> QueueIds \cup {Null}],
   context  : [Threads -> BOOLEAN],
   list     : [QueueIds -> Seq(Threads)],
   running  : Threads \cup {Null},
   halt     : Halts]

Created(q) == ring[q].msgCount # 0
-----------------------------------------------------------------------------
(***************************************************************************)
(* threadqueue.cpp, scheduling.cpp and threads.cpp as state transformers.  *)
(***************************************************************************)
ThreadQueueInsert(S, q, t) ==
  [S EXCEPT !.list[q] = InsertByPriority(@, t, S.priority), !.queue[t] = q]

ThreadQueuePop(S, q) ==
  [S EXCEPT !.list[q] = Tail(@), !.queue[S.list[q][1]] = Null]

\* thread_queue_remove leaves t->queue as it was.  The null read faults in
\* the guard range of the desktop builds and reads garbage on Switch.
ThreadQueueRemove(S, q, t) ==
  IF q = Null THEN {S}
  ELSE CASE RemoveOutcome(S.list[q], t) = "removed" ->
              {[S EXCEPT !.list[q] = Tail(@)]}
         [] RemoveOutcome(S.list[q], t) = "absent" -> {S}
         [] RemoveOutcome(S.list[q], t) = "hang" -> {[S EXCEPT !.halt = "hang"]}
         [] RemoveOutcome(S.list[q], t) = "null_read" ->
              {S, [S EXCEPT !.halt = "hang"], [S EXCEPT !.halt = "fault"]}

ScheduleRunningThread(S, t) ==
  [ThreadQueueInsert(S, RunningQueue, t) EXCEPT !.state[t] = "QUEUED"]

\* Mutant: swap_to_thread forgets to schedule the thread it takes over from.
CheckRunningQueueForgets(S) ==
  IF /\ S.list[RunningQueue] # << >>
     /\ S.priority[S.list[RunningQueue][1]] > S.priority[S.running]
  THEN [ThreadQueuePop(S, RunningQueue)
          EXCEPT !.running = S.list[RunningQueue][1]]
  ELSE S

\* check_running_queue and swap_to_thread: the token goes to the head of the
\* running queue only if its priority is strictly higher.
CheckRunningQueue(S) ==
  IF /\ S.list[RunningQueue] # << >>
     /\ S.priority[S.list[RunningQueue][1]] > S.priority[S.running]
  THEN [ScheduleRunningThread(ThreadQueuePop(S, RunningQueue), S.running)
          EXCEPT !.running = S.list[RunningQueue][1]]
  ELSE S

\* run_next_thread throws when the running queue is empty.
RunNextThread(S) ==
  IF S.list[RunningQueue] = << >>
  THEN [S EXCEPT !.halt = "no_threads"]
  ELSE [ThreadQueuePop(S, RunningQueue)
          EXCEPT !.running = S.list[RunningQueue][1]]

\* The body of the waiting loops of do_send and do_recv.
BlockOn(S, q) == RunNextThread(ThreadQueueInsert(S, q, S.running))

\* Mutant: the woken thread is peeked at and stays in the wait list.
WakeOneWithoutPop(S, q) ==
  IF S.list[q] = << >> THEN S
  ELSE ScheduleRunningThread(S, S.list[q][1])

\* The end of do_send and of do_recv: schedule one thread of the wait list.
WakeOne(S, q) ==
  IF S.list[q] = << >> THEN S
  ELSE ScheduleRunningThread(ThreadQueuePop(S, q), S.list[q][1])
-----------------------------------------------------------------------------
(***************************************************************************)
(* The host: bootproc starts the idle thread, event threads post events.   *)
(***************************************************************************)
Init ==
  /\ sched = [priority |-> [t \in Threads |-> 0],
              state    |-> [t \in Threads |-> "STOPPED"],
              queue    |-> [t \in Threads |-> Null],
              context  |-> [t \in Threads |-> FALSE],
              list     |-> [q \in QueueIds |-> << >>],
              running  |-> Null,
              halt     |-> "none"]
  /\ ring = [q \in MQs |-> NoRing]
  /\ pc = [t \in Threads |-> "none"]
  /\ call = [t \in Threads |-> NoCall]
  /\ external = << >>
  /\ requeued = << >>
  /\ mesg = Null

\* osCreateThread and osStartThread of the idle thread from the host's entry
\* thread, where thread_self is null: the token goes straight to it.
BootIdle(pri) ==
  /\ sched.running = Null
  /\ sched' = [sched EXCEPT !.priority[Idle] = pri, !.context[Idle] = TRUE,
                            !.state[Idle] = "QUEUED", !.running = Idle]
  /\ pc' = [pc EXCEPT ![Idle] = "game"]
  /\ UNCHANGED << ring, call, external, requeued, mesg >>

EnqueueExternal(m) ==
  /\ Len(external) + Len(requeued) < MaxExternal
  /\ external' = Append(external, m)

\* enqueue_external_message_src from an event thread.
EventMessage(s, q) ==
  /\ Created(q)
  /\ EnqueueExternal([src |-> s, mq |-> q, msg |-> s, jam |-> FALSE,
                      requeue |-> s \in RequeueSources])
  /\ UNCHANGED << sched, ring, pc, call, requeued, mesg >>

\* osSendMesg and osJamMesg outside of a game thread.
HostMessage(h, q, jam) ==
  /\ Created(q)
  /\ EnqueueExternal([src |-> h, mq |-> q, msg |-> h, jam |-> jam,
                      requeue |-> FALSE])
  /\ UNCHANGED << sched, ring, pc, call, requeued, mesg >>
-----------------------------------------------------------------------------
(***************************************************************************)
(* The token holder.                                                       *)
(***************************************************************************)
At(t, place) ==
  /\ sched.running = t
  /\ sched.halt = "none"
  /\ pc[t] = place

\* Messages that try_dequeue may return: the oldest one of some producer.
Oldest(i) ==
  \A j \in 1..(i - 1) : external[j].src # external[i].src

Without(i) == SubSeq(external, 1, i - 1) \o SubSeq(external, i + 1, Len(external))

\* do_send(..., block = false) of a dequeued message m.
DeliverExternal(m) ==
  /\ ~MQ_IS_FULL(ring[m.mq])
  /\ ring' = [ring EXCEPT ![m.mq] = Put(@, m.msg, m.jam)]

BeginCall(t, c) ==
  /\ At(t, "game")
  /\ t # Idle
  /\ Created(c.mq)
  /\ call' = [call EXCEPT ![t] = c]
  /\ pc' = [pc EXCEPT ![t] = "drain"]
  /\ UNCHANGED << sched, ring, external, requeued, mesg >>

OsSendMesg(t, q, m, block) ==
  BeginCall(t, [op |-> "send", mq |-> q, msg |-> m, jam |-> FALSE, block |-> block])

OsJamMesg(t, q, m, block) ==
  BeginCall(t, [op |-> "send", mq |-> q, msg |-> m, jam |-> TRUE, block |-> block])

OsRecvMesg(t, q, block) ==
  BeginCall(t, [op |-> "recv", mq |-> q, msg |-> Null, jam |-> FALSE, block |-> block])

\* Mutant: an external message is delivered without a wakeup.
DrainOneNoWake(t) ==
  /\ At(t, "drain")
  /\ \E i \in 1..Len(external) :
       /\ Oldest(i)
       /\ external' = Without(i)
       /\ LET m == external[i] IN
            \/ /\ DeliverExternal(m)
               /\ UNCHANGED << sched, requeued >>
            \/ /\ MQ_IS_FULL(ring[m.mq])
               /\ requeued' = IF m.requeue THEN Append(requeued, m) ELSE requeued
               /\ UNCHANGED << sched, ring >>
  /\ UNCHANGED << pc, call, mesg >>

\* Mutant: requeue_if_blocked is ignored by the loop.
DrainOneDrops(t) ==
  /\ At(t, "drain")
  /\ \E i \in 1..Len(external) :
       /\ Oldest(i)
       /\ external' = Without(i)
       /\ LET m == external[i] IN
            \/ /\ DeliverExternal(m)
               /\ sched' = WakeOne(sched, BlockedOnRecv(m.mq))
            \/ /\ MQ_IS_FULL(ring[m.mq])
               /\ UNCHANGED << sched, ring >>
  /\ UNCHANGED << pc, call, mesg, requeued >>

\* One iteration of the loop of dequeue_external_messages.
DrainOne(t) ==
  /\ At(t, "drain")
  /\ \E i \in 1..Len(external) :
       /\ Oldest(i)
       /\ external' = Without(i)
       /\ LET m == external[i] IN
            \/ /\ DeliverExternal(m)
               /\ sched' = WakeOne(sched, BlockedOnRecv(m.mq))
               /\ UNCHANGED requeued
            \/ /\ MQ_IS_FULL(ring[m.mq])
               /\ requeued' = IF m.requeue THEN Append(requeued, m) ELSE requeued
               /\ UNCHANGED << sched, ring >>
  /\ UNCHANGED << pc, call, mesg >>

\* try_dequeue fails and the blocked messages are enqueued again.  The token
\* holder is the only consumer, so a failed try_dequeue saw an empty queue.
DrainDone(t) ==
  /\ At(t, "drain")
  /\ external = << >>
  /\ external' = [i \in 1..Len(requeued) |-> [requeued[i] EXCEPT !.src = t]]
  /\ requeued' = << >>
  /\ pc' = [pc EXCEPT ![t] = "op"]
  /\ UNCHANGED << sched, ring, call, mesg >>

\* Mutant: the call returns without check_running_queue.
ReturnUnchecked(t, S) ==
  /\ sched' = S
  /\ pc' = [pc EXCEPT ![t] = "game"]
  /\ call' = [call EXCEPT ![t] = NoCall]
  /\ UNCHANGED << external, requeued >>

\* The call returns to game code after check_running_queue.
Return(t, S) ==
  /\ sched' = CheckRunningQueue(S)
  /\ pc' = [pc EXCEPT ![t] = "game"]
  /\ call' = [call EXCEPT ![t] = NoCall]
  /\ UNCHANGED << external, requeued >>

AtOp(t, op) == At(t, "op") /\ call[t].op = op

DoSend(t) ==
  /\ AtOp(t, "send")
  /\ LET c == call[t] IN
       /\ ~MQ_IS_FULL(ring[c.mq])
       /\ ring' = [ring EXCEPT ![c.mq] = Put(@, c.msg, c.jam)]
       /\ Return(t, WakeOne(sched, BlockedOnRecv(c.mq)))
  /\ UNCHANGED mesg

DoRecv(t) ==
  /\ AtOp(t, "recv")
  /\ LET c == call[t] IN
       /\ ~MQ_IS_EMPTY(ring[c.mq])
       /\ mesg' \in {mesg, Front(ring[c.mq])}  \* msg_ may be NULLPTR
       /\ ring' = [ring EXCEPT ![c.mq] = TakeHead(@)]
       /\ Return(t, WakeOne(sched, BlockedOnSend(c.mq)))

\* A non-blocking call on a full or empty queue returns -1.
CallFails(t) ==
  /\ At(t, "op")
  /\ ~call[t].block
  /\ \/ call[t].op = "send" /\ MQ_IS_FULL(ring[call[t].mq])
     \/ call[t].op = "recv" /\ MQ_IS_EMPTY(ring[call[t].mq])
  /\ Return(t, sched)
  /\ UNCHANGED << ring, mesg >>

\* A blocking call waits; it tests its condition again when it is resumed.
BlockOnSend(t) ==
  /\ AtOp(t, "send")
  /\ call[t].block
  /\ MQ_IS_FULL(ring[call[t].mq])
  /\ sched' = BlockOn(sched, BlockedOnSend(call[t].mq))
  /\ UNCHANGED << ring, pc, call, external, requeued, mesg >>

BlockOnRecv(t) ==
  /\ AtOp(t, "recv")
  /\ call[t].block
  /\ MQ_IS_EMPTY(ring[call[t].mq])
  /\ sched' = BlockOn(sched, BlockedOnRecv(call[t].mq))
  /\ UNCHANGED << ring, pc, call, external, requeued, mesg >>

\* Game code that posts its own event: the PI completion of do_dma.
PiMessage(t, q) ==
  /\ At(t, "game")
  /\ Created(q)
  /\ \E m \in GameMsgs :
       EnqueueExternal([src |-> t, mq |-> q, msg |-> m, jam |-> FALSE,
                        requeue |-> FALSE])
  /\ UNCHANGED << sched, ring, pc, call, requeued, mesg >>

\* osCreateMesgQueue.  The game creates a queue once, before it uses it.
OsCreateMesgQueue(t, q, count) ==
  /\ At(t, "game")
  /\ ~Created(q)
  /\ sched' = [sched EXCEPT !.list[BlockedOnRecv(q)] = << >>,
                            !.list[BlockedOnSend(q)] = << >>]
  /\ ring' = [ring EXCEPT ![q] = CreateRing(count, Null)]
  /\ UNCHANGED << pc, call, external, requeued, mesg >>

\* pause_self, yield_self and yield_self_1ms begin to wait.
BeginWait(t, place) ==
  /\ At(t, "game")
  /\ place = "pause" <=> t = Idle
  /\ place = "pause" => sched.priority[Idle] = 0
  /\ pc' = [pc EXCEPT ![t] = place]
  /\ UNCHANGED << sched, ring, call, external, requeued, mesg >>

Waiting(t) == \E place \in {"pause", "yield", "yield_1ms"} : At(t, place)
AfterWait(t) ==
  pc' = [pc EXCEPT ![t] = IF @ = "pause" THEN "pause" ELSE "game"]

\* Mutant: requeue_if_blocked is ignored by a waiting thread.
WaitForExternalMessageDrops(t) ==
  /\ Waiting(t)
  /\ \E i \in 1..Len(external) :
       /\ Oldest(i)
       /\ external' = Without(i)
       /\ LET m == external[i] IN
            \/ /\ DeliverExternal(m)
               /\ sched' = CheckRunningQueue(WakeOne(sched, BlockedOnRecv(m.mq)))
            \/ /\ MQ_IS_FULL(ring[m.mq])
               /\ sched' = CheckRunningQueue(sched)
               /\ UNCHANGED ring
  /\ AfterWait(t)
  /\ UNCHANGED << call, requeued, mesg >>

\* wait_for_external_message and the check_running_queue that follows it.
WaitForExternalMessage(t) ==
  /\ Waiting(t)
  /\ \E i \in 1..Len(external) :
       /\ Oldest(i)
       /\ LET m == external[i] IN
            \/ /\ DeliverExternal(m)
               /\ external' = Without(i)
               /\ sched' = CheckRunningQueue(WakeOne(sched, BlockedOnRecv(m.mq)))
            \/ /\ MQ_IS_FULL(ring[m.mq])
               /\ external' = IF m.requeue
                              THEN Append(Without(i), [m EXCEPT !.src = t])
                              ELSE Without(i)
               /\ sched' = CheckRunningQueue(sched)
               /\ UNCHANGED ring
  /\ AfterWait(t)
  /\ UNCHANGED << call, requeued, mesg >>

\* yield_self_1ms: wait_dequeue_timed expires on an empty queue.
WaitTimesOut(t) ==
  /\ At(t, "yield_1ms")
  /\ external = << >>
  /\ sched' = CheckRunningQueue(sched)
  /\ AfterWait(t)
  /\ UNCHANGED << ring, call, external, requeued, mesg >>
-----------------------------------------------------------------------------
(***************************************************************************)
(* Thread management calls of the token holder.                            *)
(***************************************************************************)

\* osCreateThread on a structure that no live thread uses.
OsCreateThread(self, t, pri) ==
  /\ At(self, "game")
  /\ ~sched.context[t]
  /\ sched' = [sched EXCEPT !.priority[t] = pri, !.state[t] = "STOPPED",
                            !.queue[t] = Null, !.context[t] = TRUE]
  /\ pc' = [pc EXCEPT ![t] = "game"]
  /\ call' = [call EXCEPT ![t] = NoCall]
  /\ UNCHANGED << ring, external, requeued, mesg >>

\* osStartThread on a thread that was not started, or that stopped itself.
OsStartThread(self, t) ==
  /\ At(self, "game")
  /\ t # self
  /\ sched.context[t]
  /\ sched.queue[t] = Null
  /\ sched' = CheckRunningQueue(ScheduleRunningThread(sched, t))
  /\ UNCHANGED << ring, pc, call, external, requeued, mesg >>

\* osStopThread of the caller: no list holds it and its state is unchanged.
OsStopThread(self) ==
  /\ At(self, "game")
  /\ self # Idle
  /\ sched' = RunNextThread(sched)
  /\ UNCHANGED << ring, pc, call, external, requeued, mesg >>

\* A thread returns from its function or destroys itself (_thread_func).
ThreadExit(self) ==
  /\ At(self, "game")
  /\ self # Idle
  /\ sched' = RunNextThread([sched EXCEPT !.context[self] = FALSE])
  /\ pc' = [pc EXCEPT ![self] = "none"]
  /\ UNCHANGED << ring, call, external, requeued, mesg >>

\* osDestroyThread of another thread.  The host thread of t only unwinds.
OsDestroyThread(self, t) ==
  /\ At(self, "game")
  /\ t \in Victims \ {self}
  /\ \E S \in IF sched.state[t] # "STOPPED"
              THEN ThreadQueueRemove(sched, sched.queue[t], t)
              ELSE {sched} :
       IF S.halt = "none"
       THEN /\ sched' = [S EXCEPT !.context[t] = FALSE]
            /\ pc' = [pc EXCEPT ![t] = "none"]
       ELSE sched' = S /\ UNCHANGED pc
  /\ UNCHANGED << ring, call, external, requeued, mesg >>

\* Mutant: a queued thread keeps its place when its priority changes.
RepositionInPlace(S, t) == {CheckRunningQueue(S)}

\* The list operations of osSetThreadPri on another thread: with t->queue
\* null, thread_queue_insert writes through a null pointer.
Reposition(S, t) ==
  {IF R.halt # "none" THEN R
   ELSE IF R.queue[t] = Null THEN [R EXCEPT !.halt = "fault"]
   ELSE CheckRunningQueue(ThreadQueueInsert(R, R.queue[t], t)) :
     R \in ThreadQueueRemove(S, S.queue[t], t)}

OsSetThreadPri(self, t, pri) ==
  /\ At(self, "game")
  /\ sched.context[t]
  /\ t \in Victims \cup {self}
  /\ sched.priority[t] # pri
  /\ LET S == [sched EXCEPT !.priority[t] = pri] IN
       sched' \in IF t # self /\ S.state[t] # "STOPPED"
                  THEN Reposition(S, t)
                  ELSE {CheckRunningQueue(S)}
  /\ UNCHANGED << ring, pc, call, external, requeued, mesg >>
-----------------------------------------------------------------------------
ThreadStep(t) ==
  \/ \E q \in MQs, m \in GameMsgs, block \in BOOLEAN :
       OsSendMesg(t, q, m, block) \/ OsJamMesg(t, q, m, block)
  \/ \E q \in MQs, block \in BOOLEAN : OsRecvMesg(t, q, block)
  \/ DrainOne(t) \/ DrainDone(t)
  \/ DoSend(t) \/ DoRecv(t) \/ CallFails(t)
  \/ BlockOnSend(t) \/ BlockOnRecv(t)
  \/ \E q \in MQs : PiMessage(t, q)
  \/ \E q \in MQs, count \in Capacities : OsCreateMesgQueue(t, q, count)
  \/ \E place \in {"pause", "yield", "yield_1ms"} : BeginWait(t, place)
  \/ WaitForExternalMessage(t) \/ WaitTimesOut(t)
  \/ \E u \in Threads, pri \in Priorities :
       OsCreateThread(t, u, pri) \/ OsSetThreadPri(t, u, pri)
  \/ \E u \in Threads : OsStartThread(t, u) \/ OsDestroyThread(t, u)
  \/ OsStopThread(t) \/ ThreadExit(t)

Next ==
  \/ \E pri \in Priorities : BootIdle(pri)
  \/ \E s \in EventSources, q \in MQs : EventMessage(s, q)
  \/ \E h \in HostThreads, q \in MQs, jam \in BOOLEAN : HostMessage(h, q, jam)
  \/ \E t \in Threads : ThreadStep(t)

Spec == Init /\ [][Next]_vars
-----------------------------------------------------------------------------
(***************************************************************************)
(* Correctness.                                                            *)
(***************************************************************************)
RingType ==
  UNION {[msgCount : {n}, first : 0..(n - 1), validCount : 0..n,
          msg : [0..(n - 1) -> Msgs \cup {Null}]] : n \in Capacities}

\* The types of the variables; the fields of a ring stay within its array.
TypeOK ==
  /\ sched \in SchedType
  /\ ring \in [MQs -> RingType \cup {NoRing}]
  /\ pc \in [Threads -> Places]
  /\ call \in [Threads -> Calls \cup {NoCall}]
  /\ external \in Seq(ExternalMessage)
  /\ requeued \in Seq(ExternalMessage)
  /\ mesg \in Msgs \cup {Null}

\* The parts of the properties below, as predicates on a scheduler record.
ListsOK(S) ==
  \A q \in QueueIds : \A i \in 1..Len(S.list[q]) :
    /\ S.queue[S.list[q][i]] = q
    /\ S.context[S.list[q][i]]
    /\ S.state[S.list[q][i]] = "QUEUED"
    /\ \A j \in 1..Len(S.list[q]) : S.list[q][i] = S.list[q][j] => i = j

TokenOK(S) ==
  S.running # Null => /\ S.queue[S.running] = Null
                      /\ S.context[S.running]
                      /\ S.state[S.running] = "QUEUED"

SortedOK(S) == \A q \in QueueIds : SortedByPriority(S.list[q], S.priority)

TopOK(S) ==
  S.running # Null =>
    \A i \in 1..Len(S.list[RunningQueue]) :
      S.priority[S.running] >= S.priority[S.list[RunningQueue][i]]

IdleOK(S) ==
  S.running # Null =>
    \/ S.running = Idle
    \/ \E i \in 1..Len(S.list[RunningQueue]) : S.list[RunningQueue][i] = Idle

\* A thread is in at most one list, at one place of it, and its queue field
\* names that list; a listed thread and the holder of the token are alive and
\* not marked STOPPED, and the holder is in no list.  The single `next' link
\* of OSThread depends on it, and so do osDestroyThread, which unlinks only
\* what is not STOPPED, and resuming a popped thread through its context.
OneQueue == sched.halt = "none" => ListsOK(sched) /\ TokenOK(sched)

\* Every list is ordered by the priorities the threads have now, also after
\* osSetThreadPri, so that popping the head takes the highest priority.
ListsSorted == sched.halt = "none" => SortedOK(sched)

\* Game code, and a thread that waits for external messages, never runs
\* while a thread of a higher priority is ready (check_running_queue at the
\* end of every call that may schedule a thread).
HighestPriorityRuns ==
  /\ sched.halt = "none"
  /\ sched.running # Null
  /\ pc[sched.running] \in {"game", "pause", "yield", "yield_1ms"}
  => TopOK(sched)

\* run_next_thread never throws "No threads left to run!": the idle thread,
\* which never blocks, is always running or ready.
NeverOutOfThreads ==
  /\ sched.halt # "no_threads"
  /\ sched.halt = "none" => IdleOK(sched)

\* The inductive invariant behind the four properties above.  Before the
\* boot nothing is listed; the idle thread never makes a blocking call.
SchedInv ==
  /\ TypeOK
  /\ OneQueue
  /\ ListsSorted
  /\ HighestPriorityRuns
  /\ NeverOutOfThreads
  /\ sched.running = Null =>
       /\ \A q \in QueueIds : sched.list[q] = << >>
       /\ sched.queue[Idle] = Null
  /\ pc[Idle] \in {"none", "game", "pause"}

\* Threads on their way to do_send or do_recv on q with the token or a turn.
Ready(t) ==
  \/ sched.running = t
  \/ \E i \in 1..Len(sched.list[RunningQueue]) : sched.list[RunningQueue][i] = t
OnTheirWay(q, op) ==
  {t \in Threads : Ready(t) /\ pc[t] = "op" /\ call[t].op = op /\ call[t].mq = q}

\* While threads wait to receive from q, every message in q has a thread of
\* its own that was woken for it and has not run yet, and symmetrically for
\* senders and free slots: no wakeup of do_send or do_recv is lost.
NoLostWakeup ==
  sched.halt = "none" =>
    \A q \in MQs :
      /\ sched.list[BlockedOnRecv(q)] # << >> =>
           ring[q].validCount <= Cardinality(OnTheirWay(q, "recv"))
      /\ sched.list[BlockedOnSend(q)] # << >> =>
           ring[q].msgCount - ring[q].validCount
             <= Cardinality(OnTheirWay(q, "send"))

\* The events of source s that are queued anywhere.
InFlight(s) ==
  Cardinality({i \in 1..Len(external) : external[i].msg = s})
  + Cardinality({i \in 1..Len(requeued) : requeued[i].msg = s})
  + Cardinality(UNION {{<< q, i >> : i \in {k \in 1..ring[q].validCount :
                          Contents(ring[q])[k] = s}} : q \in MQs})

\* An event of a source with requeue_if_blocked leaves the system only when
\* osRecvMesg takes it: it is never dropped, however often its queue is full.
RequeuedEventsKept ==
  [][\A s \in RequeueSources :
       InFlight(s)' < InFlight(s) =>
         \E q \in MQs : /\ ring[q].validCount > 0
                        /\ Front(ring[q]) = s
                        /\ ring'[q] = TakeHead(ring[q])]_vars

\* Destroying a live thread unlinks it wherever it is in its queue and returns.
DestroyUnlinksThread ==
  [][\A self, t \in Threads :
       OsDestroyThread(self, t) /\ sched.context[t] => sched'.halt = "none"]_vars

\* What the host has posted and no call has taken out of the queue yet.
PostsIn(s) == {[mq |-> s[i].mq, msg |-> s[i].msg, jam |-> s[i].jam] : i \in 1..Len(s)}
Posted == PostsIn(external) \cup PostsIn(requeued)

\* The ring buffers, driven by all the threads and events, implement bounded
\* FIFO queues with priority insertion at the head (do_send, do_recv): every
\* call puts or takes its message once and at the right end, and a call that
\* does not block fails only on a full or an empty queue.
Fifo == INSTANCE MesgFifo WITH
          Callers  <- Threads,
          capacity <- [q \in MQs |-> ring[q].msgCount],
          contents <- [q \in MQs |-> Contents(ring[q])],
          received <- mesg,
          asked    <- call,
          posted   <- Posted
ImplementsFifo == Fifo!Spec
=============================================================================
