---------------------------- MODULE ThreadQueue ----------------------------
(***************************************************************************)
(* The intrusive priority lists of ultramodern/src/threadqueue.cpp.        *)
(*                                                                         *)
(* A list is the sequence of threads reached from its head through the     *)
(* `next' links.  A thread has one `next' link, so this is faithful only   *)
(* while a thread is in at most one list, which Scheduler!OneQueue states. *)
(***************************************************************************)
EXTENDS Integers, Sequences

\* Mutant: a thread is appended whatever its priority is.
InsertPositionLast(s, t, pri) == Len(s)

\* Where the loop of thread_queue_insert stops: behind the threads of a
\* strictly higher priority, in front of the first one that is not higher.
InsertPosition(s, t, pri) ==
  CHOOSE k \in 0..Len(s) :
    /\ \A i \in 1..k : pri[s[i]] > pri[t]
    /\ k < Len(s) => ~(pri[s[k + 1]] > pri[t])

\* thread_queue_insert: a thread goes ahead of the ones of its own priority.
InsertByPriority(s, t, pri) ==
  LET k == InsertPosition(s, t, pri)
  IN  [i \in 1..(Len(s) + 1) |->
         IF i <= k THEN s[i] ELSE IF i = k + 1 THEN t ELSE s[i - 1]]

\* What the loop of thread_queue_remove does.  It reads the head again in
\* every iteration, so only the head is ever unlinked: on a longer list it
\* never ends, and on an empty one it reads through a null pointer.
RemoveOutcome(s, t) ==
  CASE s = << >>                   -> "null_read"
    [] s # << >> /\ s[1] = t       -> "removed"
    [] s # << >> /\ s[1] # t       -> IF Len(s) = 1 THEN "absent" ELSE "hang"

\* The order thread_queue_insert maintains.
SortedByPriority(s, pri) ==
  \A i, j \in 1..Len(s) : i < j => pri[s[i]] >= pri[s[j]]
=============================================================================
