------------------------------ MODULE MesgRing ------------------------------
(***************************************************************************)
(* OSMesgQueue as a ring buffer (ultramodern/src/mesgqueue.cpp): the       *)
(* fields msgCount, first, validCount and the array msg.                   *)
(***************************************************************************)
EXTENDS Integers, Sequences

\* An OSMesgQueue in zeroed RDRAM, before osCreateMesgQueue.
NoRing == [msgCount |-> 0, first |-> 0, validCount |-> 0, msg |-> << >>]

\* osCreateMesgQueue; the array keeps whatever the memory held (init).
CreateRing(count, init) ==
  [msgCount |-> count, first |-> 0, validCount |-> 0,
   msg |-> [i \in 0..(count - 1) |-> init]]

MQ_IS_EMPTY(r) == r.validCount = 0
MQ_IS_FULL(r)  == r.validCount >= r.msgCount

\* do_send, the branch that appends at the tail.
PutTail(r, m) ==
  LET last == (r.first + r.validCount) % r.msgCount
  IN  [r EXCEPT !.msg[last] = m, !.validCount = @ + 1]

\* do_send, the branch that jams at the head.
PutHead(r, m) ==
  LET f == (r.first + r.msgCount - 1) % r.msgCount
  IN  [r EXCEPT !.first = f, !.msg[f] = m, !.validCount = @ + 1]

\* Mutant: a jam queues up behind the others.
PutAtTail(r, m, jam) == PutTail(r, m)

Put(r, m, jam) == IF jam THEN PutHead(r, m) ELSE PutTail(r, m)

\* do_recv: the message at the head.
Front(r) == r.msg[r.first]

\* Mutant: the head index does not wrap.
TakeHeadNoWrap(r) == [r EXCEPT !.first = @ + 1, !.validCount = @ - 1]

\* do_recv: the ring without the message at the head.
TakeHead(r) ==
  [r EXCEPT !.first = (@ + 1) % r.msgCount, !.validCount = @ - 1]

\* The messages of a ring in the order do_recv returns them.
Contents(r) ==
  [i \in 1..r.validCount |-> r.msg[(r.first + i - 1) % r.msgCount]]
=============================================================================
