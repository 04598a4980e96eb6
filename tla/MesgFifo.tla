------------------------------ MODULE MesgFifo ------------------------------
(***************************************************************************)
(* What the message queues promise to the game: each queue is a bounded    *)
(* sequence.  A caller has one request at a time, which is carried out     *)
(* once: a send appends its message, a jam prepends it, a receive takes    *)
(* the first message and hands exactly that one to the caller.  A request  *)
(* that does not block is refused only if the queue has no room for it, or *)
(* nothing.  What the host posts is delivered in the same way, or dropped  *)
(* at a full queue.                                                        *)
(***************************************************************************)
EXTENDS Integers, Sequences

CONSTANTS Callers, MQs, Capacities, Msgs, Null,
          Victims  \* callers that may be destroyed during a request

VARIABLES
  capacity,  \* [MQs -> Nat], 0 before the queue is created
  contents,  \* [MQs -> Seq(Msgs)]
  received,  \* the message the last receive stored
  asked,     \* [Callers -> Requests \cup {NoRequest}]
  posted     \* the Posts of the host that are under way

fifoVars == << capacity, contents, received, asked, posted >>

Posts == [mq : MQs, msg : Msgs, jam : BOOLEAN]

Requests == [op : {"send", "recv"}, mq : MQs, msg : Msgs \cup {Null},
             jam : BOOLEAN, block : BOOLEAN]
NoRequest == [op |-> "none"]

Init ==
  /\ capacity = [q \in MQs |-> 0]
  /\ contents = [q \in MQs |-> << >>]
  /\ received = Null
  /\ asked = [t \in Callers |-> NoRequest]
  /\ posted = {}

Create(q) ==
  /\ capacity[q] = 0
  /\ \E n \in Capacities : capacity' = [capacity EXCEPT ![q] = n]
  /\ UNCHANGED << contents, received, asked, posted >>

HasRoom(q) == Len(contents[q]) < capacity[q]

\* One message enters a queue, at the end or, jammed, at the head.
Enter(q, m, jam) ==
  /\ HasRoom(q)
  /\ contents' = [contents EXCEPT ![q] = IF jam THEN << m >> \o @ ELSE Append(@, m)]
  /\ UNCHANGED << capacity, received >>

Ask(t) ==
  /\ asked[t] = NoRequest
  /\ \E r \in Requests : asked' = [asked EXCEPT ![t] = r]
  /\ UNCHANGED << capacity, contents, received, posted >>

Answered(t) ==
  /\ asked' = [asked EXCEPT ![t] = NoRequest]
  /\ UNCHANGED posted

Send(t) ==
  /\ asked[t].op = "send"
  /\ Enter(asked[t].mq, asked[t].msg, asked[t].jam)
  /\ Answered(t)

\* The caller may pass a null pointer for the message.
Receive(t) ==
  /\ asked[t].op = "recv"
  /\ LET q == asked[t].mq IN
       /\ contents[q] # << >>
       /\ received' \in {received, contents[q][1]}
       /\ contents' = [contents EXCEPT ![q] = Tail(@)]
  /\ UNCHANGED capacity
  /\ Answered(t)

Refuse(t) ==
  /\ \/ asked[t].op = "send" /\ ~HasRoom(asked[t].mq)
     \/ asked[t].op = "recv" /\ contents[asked[t].mq] = << >>
  /\ ~asked[t].block
  /\ Answered(t)
  /\ UNCHANGED << capacity, contents, received >>

Abandon(t) ==
  /\ t \in Victims
  /\ Answered(t)
  /\ UNCHANGED << capacity, contents, received >>

Post(p) ==
  /\ posted' = posted \cup {p}
  /\ UNCHANGED << capacity, contents, received, asked >>

\* The same may have been posted more than once.
Gone(p) ==
  /\ p \in posted
  /\ posted' \in {posted, posted \ {p}}
  /\ UNCHANGED asked

Deliver(p) == Gone(p) /\ Enter(p.mq, p.msg, p.jam)

Drop(p) ==
  /\ Gone(p)
  /\ ~HasRoom(p.mq)
  /\ UNCHANGED << capacity, contents, received >>

Next ==
  \/ \E q \in MQs : Create(q)
  \/ \E t \in Callers :
       Ask(t) \/ Send(t) \/ Receive(t) \/ Refuse(t) \/ Abandon(t)
  \/ \E p \in Posts : Post(p) \/ Deliver(p) \/ Drop(p)

Spec == Init /\ [][Next]_fifoVars
=============================================================================
