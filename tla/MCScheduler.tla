--------------------------- MODULE MCScheduler ---------------------------
(* Small instances of Scheduler for TLC. *)
EXTENDS Scheduler, TLC
CONSTANTS t0, t1, t2, t3, q1, q2, vi, sp, host, m1, m2

MCPriorities == {0, 1, 2}
MCTwoLevels == {0, 1}
MCOne == {1}
MCTwo == {2}
MCOneTwo == {1, 2}

\* The workers are interchangeable: nothing in the model distinguishes them
\* but their priorities, which are state.
Workers == Permutations(Threads \ {Idle})

\* Nothing distinguishes the messages, in Scheduler or in MesgFifo, of which
\* only safety is checked.
Messages == Permutations(GameMsgs)
=============================================================================
