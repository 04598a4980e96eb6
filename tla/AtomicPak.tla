---------------------------- MODULE AtomicPak ----------------------------
(***************************************************************************)
(* What the Controller Pak store promises its caller: the directory on     *)
(* disk changes in one step, from the directory the process sees to the    *)
(* one a call asked for; the call that asked is told Ok after that step    *)
(* and never otherwise; and a restart, wherever it falls, finds the        *)
(* directory before or after that step.                                    *)
(***************************************************************************)
CONSTANTS Directories,     \* what a disk may hold, damaged images included
          View(_),         \* what a process sees of it: a directory or a refusal
          Usable(_),       \* the views a call may go on from
          Result,          \* answers of the store
          Unread,          \* the view of a process that has not looked yet
          Nothing          \* no change asked for, no answer given

VARIABLES durable,    \* what is on disk
          visible,    \* what the process sees
          pending,    \* the directory the current call asks for
          answer      \* of the last call of this process

vars == <<durable, visible, pending, answer>>

Init == /\ durable \in Directories
        /\ visible = Unread
        /\ pending = Nothing
        /\ answer = Nothing

Looks == visible' = IF visible = Unread THEN View(durable) ELSE visible

\* A call that changes nothing.
Answer == /\ pending = Nothing
          /\ Looks
          /\ answer' \in Result
          /\ UNCHANGED <<durable, pending>>

\* A call that asks for a change, of the directory the process sees.
Ask == /\ pending = Nothing
       /\ Looks
       /\ Usable(visible')
       /\ pending' \in Directories
       /\ Usable(View(pending'))
       /\ answer' = Nothing
       /\ UNCHANGED durable

Commit == /\ pending # Nothing
          /\ visible = View(durable)
          /\ durable' = pending
          /\ UNCHANGED <<visible, pending, answer>>

Grant == /\ pending # Nothing
         /\ durable = pending
         /\ visible' = View(pending)
         /\ pending' = Nothing
         /\ answer' = "Ok"
         /\ UNCHANGED durable

Deny == /\ pending # Nothing
        /\ visible = View(durable)
        /\ pending' = Nothing
        /\ answer' = "ControllerFailure"
        /\ UNCHANGED <<durable, visible>>

Restart == /\ visible' = Unread
           /\ pending' = Nothing
           /\ answer' = Nothing
           /\ UNCHANGED durable

Next == Answer \/ Ask \/ Commit \/ Grant \/ Deny \/ Restart

Spec == Init /\ [][Next]_vars
=============================================================================
