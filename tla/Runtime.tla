------------------------------ MODULE Runtime ------------------------------
(***************************************************************************)
(* The life of the program and of its host threads: main() and its         *)
(* lifecycle thread (src/main.cpp), recomp::start, start_game, quit and    *)
(* the game start thread (librecomp/src/recomp.cpp), and the event threads *)
(* with the two VI states (ultramodern/src/events.cpp).                    *)
(*                                                                         *)
(* A step is what a thread does between two accesses to what others write. *)
(* The VI thread swaps and copies the VI states without message_mutex,     *)
(* under which game code writes them.  Of the game there is the boot that  *)
(* the recompiled code has: two framebuffers, each swapped in and waited   *)
(* for in a loop that never yields, the retrace event, then frames.  The   *)
(* game's threads, which nobody joins, end with RDRAM here.  Modes and     *)
(* colours, the renderer's work and RSP tasks are left out; retrace_count  *)
(* is 1, as the game sets it.                                              *)
(***************************************************************************)
EXTENDS Naturals, Sequences

CONSTANTS Failures,   \* which of "memory", "exception", "renderer", "rom", "mods" may fail
          MaxCalls    \* bound on the game's calls

ASSUME RuntimeAssumption ==
  /\ Failures \subseteq {"memory", "exception", "renderer", "rom", "mods"}
  /\ MaxCalls \in Nat /\ MaxCalls > 3

VARIABLES status,       \* exited, game_status, and whether current_game has a value
          quitting,     \* of each caller: how far its call of quit() is
          pc,           \* where each host thread is
          vi,           \* the two VI states, which is on display, and first_vi_ready
          guest,        \* the call the game makes, and where in it
          overlapped,   \* history: a call met the VI thread between two of its accesses
          mods_failed   \* history: the mods could not be loaded

vars == <<status, quitting, pc, vi, guest, overlapped, mods_failed>>

Callers == {"main", "frontend", "game"}
Joined == {"gfx", "vi", "task", "timer", "cleaner", "saver"}
Threads == {"main", "lifecycle", "game"} \cup Joined

Framebuffers == {"first", "second"}
ViState == [framebuffer : Framebuffers \cup {"null", "dummy"}, mq : BOOLEAN]

Init ==
  /\ status = [exited |-> FALSE, game_status |-> "None", current_game |-> FALSE]
  /\ quitting = [c \in Callers |-> "not yet"]
  /\ pc = [t \in Threads |-> CASE t = "main" -> "start" [] t = "lifecycle" -> "wait" [] OTHER -> "none"]
  /\ vi = [cur_state |-> 0, first_vi_ready |-> FALSE,
           states |-> [i \in 0..1 |-> [framebuffer |-> "null", mq |-> FALSE]]]
  /\ guest = [call |-> 0, at |-> "none", target |-> 0, framebuffer |-> "null"]
  /\ overlapped = FALSE /\ mods_failed = FALSE

GameStarted == status.game_status # "None"

\* After std::terminate, in the game start thread or in a thread of the game, no
\* thread takes a step.
Alive == pc["game"] # "terminated" /\ guest.at # "terminated"

Goes(t, from, to) == Alive /\ pc[t] = from /\ pc' = [pc EXCEPT ![t] = to]
OnlyPc == UNCHANGED <<status, quitting, vi, guest, overlapped, mods_failed>>
SameGame == UNCHANGED <<vi, guest, overlapped, mods_failed>>

-----------------------------------------------------------------------------
(* quit() *)

InQuit(c) == quitting[c] \in {"exited", "status"}

\* Each caller calls it once.
BeginQuit(c) ==
  /\ Alive /\ quitting[c] = "not yet"
  /\ status' = [status EXCEPT !.exited = TRUE]
  /\ quitting' = [quitting EXCEPT ![c] = "exited"]

\* Of the exchange: a game that runs goes on running.
QuitStatus(c) ==
  /\ Alive /\ quitting[c] = "exited"
  /\ status' = [status EXCEPT !.game_status = IF @ = "None" THEN "Quit" ELSE @]
  /\ quitting' = [quitting EXCEPT ![c] = "status"]
  /\ UNCHANGED pc /\ SameGame

\* Under current_game_mutex, which start_game holds while it is "naming".
QuitReset(c) ==
  /\ Alive /\ quitting[c] = "status" /\ pc["lifecycle"] # "naming"
  /\ status' = [status EXCEPT !.current_game = FALSE]
  /\ quitting' = [quitting EXCEPT ![c] = "done"]
  /\ UNCHANGED pc /\ SameGame

\* The player closes the window, in the update loop, or leaves by a menu, on
\* the graphics thread; but not both.
PlayerQuits ==
  /\ quitting["main"] = "not yet" /\ quitting["frontend"] = "not yet"
  /\ \/ pc["main"] = "loop" /\ BeginQuit("main")
     \/ pc["gfx"] = "loop" /\ BeginQuit("frontend")
  /\ UNCHANGED pc /\ SameGame

-----------------------------------------------------------------------------
(* main() and recomp::start *)

\* The game start thread is made.
Start ==
  /\ pc["main"] = "start"
  /\ pc' = [pc EXCEPT !["main"] = "loop", !["game"] = "preinit"]
  /\ OnlyPc

\* Without memory start returns; the catch block of main() quits after an
\* exception before start makes its thread. A missing window handle is none:
\* the renderer finds it.
StartFails ==
  \/ "memory" \in Failures /\ Goes("main", "start", "returned") /\ OnlyPc
  \/ "exception" \in Failures /\ Goes("main", "start", "caught") /\ BeginQuit("main") /\ SameGame

\* Mutant: the game start thread is joined last.
GameLast == <<"timer", "gfx", "vi", "task", "cleaner", "saver", "game">>

\* The joins, in this order.
Stages == <<"game", "timer", "gfx", "vi", "task", "cleaner", "saver">>

\* The loop is left, or the catch block; graphics_shutdown_ready is signalled.
LeaveLoop ==
  /\ ~InQuit("main")
  /\ \/ status.exited /\ Goes("main", "loop", Stages[1])
     \/ Goes("main", "caught", "returned")
  /\ OnlyPc

\* A thread that was never made is passed over.
Join(i) ==
  /\ pc[Stages[i]] \in {"none", "invalid", "ended"}
  /\ Goes("main", Stages[i], IF i < Len(Stages) THEN Stages[i + 1] ELSE "returned")
  /\ OnlyPc

\* RDRAM is there until start returns.
Returned == pc["main"] \in {"returned", "stopped", "done"}

RuntimeStopped == pc["main"] \in {"stopped", "done"}

\* runtime_stopped is set, and the lifecycle thread joined.
Teardown ==
  /\ \/ Goes("main", "returned", "stopped")
     \/ pc["lifecycle"] = "ended" /\ Goes("main", "stopped", "done")
  /\ OnlyPc

Main == Start \/ StartFails \/ LeaveLoop \/ (\E i \in DOMAIN Stages : Join(i)) \/ Teardown

-----------------------------------------------------------------------------
(* The lifecycle thread *)

\* The wait ends with the first VI, with exited or with runtime_stopped; the
\* last is looked at once more.
WaitFirstVi ==
  /\ \/ vi.first_vi_ready /\ Goes("lifecycle", "wait", "check")
     \/ ~vi.first_vi_ready /\ (status.exited \/ RuntimeStopped) /\ Goes("lifecycle", "wait", "ended")
     \/ Goes("lifecycle", "check", IF RuntimeStopped THEN "ended" ELSE "start_game")
  /\ OnlyPc

\* start_game holds current_game_mutex, but the game start thread reads both
\* without it.
StartGame ==
  /\ Goes("lifecycle", "start_game", "naming")
  /\ status' = [status EXCEPT !.current_game = TRUE]
  /\ UNCHANGED quitting /\ SameGame

\* Whatever the status was.
StoreRunning ==
  /\ Goes("lifecycle", "naming", "ended")
  /\ status' = [status EXCEPT !.game_status = "Running"]
  /\ UNCHANGED quitting /\ SameGame

Lifecycle == WaitFirstVi \/ StartGame \/ StoreRunning

-----------------------------------------------------------------------------
(* The game start thread *)

\* init_events, up to its wait for the graphics thread.
CreateEvents ==
  /\ pc["game"] = "preinit"
  /\ pc' = [pc EXCEPT !["game"] = "await gfx", !["gfx"] = "setup", !["task"] = "running"]
  /\ OnlyPc

\* Without a renderer init_events throws, and the thread quits.
AwaitGfx ==
  /\ pc["game"] = "await gfx" /\ pc["gfx"] # "setup"
  /\ \/ /\ pc["gfx"] # "invalid"
        /\ pc' = [pc EXCEPT !["game"] = "timers", !["vi"] = "top"]
        /\ OnlyPc
     \/ /\ pc["gfx"] = "invalid"
        /\ pc' = [pc EXCEPT !["game"] = "failed"]
        /\ BeginQuit("game") /\ SameGame

\* Timers and thread cleanup.
CreateOthers ==
  /\ pc["game"] = "timers"
  /\ pc' = [pc EXCEPT !["game"] = "wait", !["timer"] = "running", !["cleaner"] = "running"]
  /\ OnlyPc

WaitForGame ==
  /\ GameStarted
  /\ Goes("game", "wait", IF status.game_status = "Running" THEN "load" ELSE "ended")
  /\ OnlyPc

\* current_game.value(), without the mutex and outside of any try block.
Value(from, to) == Goes("game", from, IF status.current_game THEN to ELSE "terminated")

LoadRom ==
  \/ Value("load", "find") /\ OnlyPc
  \/ /\ "rom" \in Failures /\ status.current_game
     /\ Goes("game", "load", "failed")
     /\ BeginQuit("game") /\ SameGame

FindGame == Value("find", "mods") /\ OnlyPc

QuitByGame == ~InQuit("game") /\ Goes("game", "failed", "ended") /\ OnlyPc

\* After an error the thread waits for another start.
LoadMods ==
  \/ Goes("game", "mods", "saving") /\ OnlyPc
  \/ /\ "mods" \in Failures
     /\ Goes("game", "mods", "wait")
     /\ status' = [status EXCEPT !.game_status = "None"]
     /\ mods_failed' = TRUE
     /\ UNCHANGED <<quitting, vi, guest, overlapped>>

\* init_saving asks for the name under the mutex, and makes the saving thread.
InitSaving ==
  /\ Alive /\ pc["game"] = "saving" /\ pc["lifecycle"] # "naming"
  /\ pc' = IF status.current_game THEN [pc EXCEPT !["game"] = "enter", !["saver"] = "running"]
                                  ELSE [pc EXCEPT !["game"] = "terminated"]
  /\ OnlyPc

\* The entry point starts the game's first thread and returns.
EnterGame ==
  /\ Goes("game", "enter", "ended")
  /\ guest' = [guest EXCEPT !.call = 1, !.at = "thread"]
  /\ UNCHANGED <<status, quitting, vi, overlapped, mods_failed>>

Game == \/ CreateEvents \/ AwaitGfx \/ CreateOthers \/ WaitForGame
        \/ LoadRom \/ FindGame \/ QuitByGame \/ LoadMods \/ InitSaving \/ EnterGame

-----------------------------------------------------------------------------
(* The event threads but the VI thread, and the threads of timers, cleanup and saving *)

\* Mutant: the signal follows the joins.
SignalledAfterJoins == Returned

GraphicsShutdownReady == pc["main"] \notin {"start", "loop", "caught"}

\* The thread leaves its loop between two actions, one of which may be quit();
\* then it waits for graphics_shutdown_ready.
Gfx ==
  /\ \/ Goes("gfx", "setup", "loop")
     \/ "renderer" \in Failures /\ Goes("gfx", "setup", "invalid")
     \/ status.exited /\ ~InQuit("frontend") /\ Goes("gfx", "loop", "waiting")
     \/ GraphicsShutdownReady /\ Goes("gfx", "waiting", "ended")
  /\ OnlyPc

\* The null task is enqueued before its thread is joined, the stop action
\* before the timers' thread is; the two others look at exited.
Worker(t) ==
  /\ \/ t \in {"task", "timer"} /\ pc["main"] = t
     \/ t \in {"cleaner", "saver"} /\ status.exited
  /\ Goes(t, "running", "ended")
  /\ OnlyPc

-----------------------------------------------------------------------------
(* The VI thread *)

Other(i) == 1 - i

OnlyVi == UNCHANGED <<status, quitting, guest, overlapped, mods_failed>>

\* Mutant: the dummy VI goes on until the game has its retrace event.
DummyUntilEvent == guest.call < 4

NeedsDummy == ~GameStarted

\* The loop's test, and whether set_dummy_vi is called.
ViTop ==
  /\ Goes("vi", "top", IF status.exited THEN "ended" ELSE IF NeedsDummy THEN "dummy" ELSE "swap")
  /\ OnlyPc

SetDummyVi ==
  /\ Goes("vi", "dummy", "swap")
  /\ vi' = [vi EXCEPT !.states[Other(vi.cur_state)].framebuffer = "dummy"]
  /\ OnlyVi

SwapStates ==
  /\ Goes("vi", "swap", "copy")
  /\ vi' = [vi EXCEPT !.cur_state = Other(@)]
  /\ OnlyVi

\* Mutant: the next state is left as it was.
NotCopied(states, cur) == states

\* The next state after the swap.
Copied(states, cur) == [states EXCEPT ![Other(cur)] = states[cur]]

CopyState ==
  /\ Goes("vi", "copy", "send")
  /\ vi' = [vi EXCEPT !.states = Copied(@, vi.cur_state)]
  /\ OnlyVi

\* The events of a started game, under message_mutex, and the callback.
SendVi ==
  /\ GameStarted => guest.at # "store"
  /\ Goes("vi", "send", "top")
  /\ vi' = [vi EXCEPT !.first_vi_ready = TRUE]
  /\ OnlyVi

Vi == ViTop \/ SetDummyVi \/ SwapStates \/ CopyState \/ SendVi

-----------------------------------------------------------------------------
(* The game's calls: osViSwapBuffer, twice with a wait, osViSetEvent, and then *)
(* osViSwapBuffer for every frame.  The idle thread makes the first two, the   *)
(* main thread that it starts then the third, those that start last the others *)

OnlyGuest == UNCHANGED <<status, quitting, pc, mods_failed>>

\* A new thread of the game asks for current_game.value() as well, without the
\* mutex and where only thread_terminated is caught.
BeginThread ==
  /\ guest.at = "thread" /\ ~Returned
  /\ guest' = [guest EXCEPT !.at = IF status.current_game THEN "call" ELSE "terminated"]
  /\ UNCHANGED <<vi, overlapped>> /\ OnlyGuest

\* message_mutex is taken and the address of the next state computed.
BeginCall ==
  /\ guest.at = "call" /\ ~Returned
  /\ guest' = [guest EXCEPT !.at = "store", !.target = Other(vi.cur_state)]
  /\ UNCHANGED <<vi, overlapped>> /\ OnlyGuest

\* The frames take turns.
Argument == CASE guest.call = 1 -> {"first"}
              [] guest.call = 2 -> {"second"}
              [] guest.call = 3 -> {guest.framebuffer}
              [] OTHER -> Framebuffers \ {guest.framebuffer}

Store ==
  /\ guest.at = "store" /\ ~Returned
  /\ \E framebuffer \in Argument :
       /\ guest' = [guest EXCEPT !.framebuffer = framebuffer, !.target = 0,
                                 !.at = CASE guest.call < 3 -> "wait"
                                          [] guest.call = 3 -> "thread"
                                          [] guest.call = MaxCalls -> "none"
                                          [] OTHER -> "call",
                                 !.call = IF @ \in 3..(MaxCalls - 1) THEN @ + 1 ELSE @]
       /\ vi' = IF guest.call = 3 THEN [vi EXCEPT !.states[guest.target].mq = TRUE]
                                  ELSE [vi EXCEPT !.states[guest.target].framebuffer = framebuffer]
  /\ overlapped' = (overlapped \/ pc["vi"] \in {"dummy", "copy"} \/ guest.target = vi.cur_state)
  /\ OnlyGuest

\* The loop on osViGetCurrentFramebuffer finds it.
EndWait ==
  /\ guest.at = "wait" /\ ~Returned
  /\ vi.states[vi.cur_state].framebuffer = guest.framebuffer
  /\ guest' = [guest EXCEPT !.at = IF guest.call = 2 THEN "thread" ELSE "call", !.call = @ + 1]
  /\ UNCHANGED <<vi, overlapped>> /\ OnlyGuest

-----------------------------------------------------------------------------

Quit(c) == QuitStatus(c) \/ QuitReset(c)

Host == \/ Main \/ Lifecycle \/ Game \/ Gfx
        \/ \E c \in Callers : Quit(c)
        \/ \E t \in Joined : Worker(t)

Next == PlayerQuits \/ Host \/ Vi \/ BeginThread \/ BeginCall \/ Store \/ EndWait

\* No thread is held up for ever.  All but the VI thread take finitely many
\* steps, and none disables another's for good, so that one condition does for
\* them.  The game's calls, which keep message_mutex from the VI thread, are
\* bounded.  Nothing makes a player quit, or the game begin a thread or a call.
Fairness == WF_vars(Host) /\ WF_vars(Vi) /\ WF_vars(Store \/ EndWait)

Spec == Init /\ [][Next]_vars /\ Fairness

-----------------------------------------------------------------------------
(* Properties *)

TypeOK ==
  /\ status \in [exited : BOOLEAN, game_status : {"None", "Running", "Quit"}, current_game : BOOLEAN]
  /\ quitting \in [Callers -> {"not yet", "exited", "status", "done"}]
  /\ DOMAIN pc = Threads
  /\ vi \in [cur_state : 0..1, first_vi_ready : BOOLEAN, states : [0..1 -> ViState]]
  /\ guest \in [call : 0..MaxCalls, at : {"none", "thread", "call", "store", "wait", "terminated"},
                 target : 0..1, framebuffer : Framebuffers \cup {"null"}]
  /\ overlapped \in BOOLEAN /\ mods_failed \in BOOLEAN

\* When start() returns, and RDRAM is gone, every thread that the runtime makes
\* has ended, the game start thread before the threads that it makes are
\* joined: none is passed over because it was not made yet (the joins at the
\* end of recomp::start, join_thread.hpp).
RdramOutlivesThreads ==
  Returned => \A t \in Joined \cup {"game"} : pc[t] \in {"none", "invalid", "ended"}

\* The game is found without a name, which ends the process, in one case only:
\* somebody quits while the game start thread loads it or one of its threads
\* starts (start_game, and the uses of current_game.value() in
\* wait_for_game_started, init_saving and run_thread_function).
GameIsNamed == ~Alive => status.exited

\* The three, which every step leaves true.
RuntimeInv == TypeOK /\ RdramOutlivesThreads /\ GameIsNamed

\* What the game sets in the next VI state stays there over every swap, the
\* queue of its retrace event too, if no call of the game ever met the VI
\* thread in set_dummy_vi or in update_vi (osViSwapBuffer, osViSetEvent, update_vi).
SettingsKept ==
  LET next == vi.states[Other(vi.cur_state)]
  IN ~overlapped /\ pc["vi"] # "copy" /\ guest.framebuffer # "null" =>
       next.framebuffer = guest.framebuffer /\ (guest.call > 3 => next.mq)

\* The boot's loop on osViGetCurrentFramebuffer ends, under the same condition
\* or at the end of the VI thread.
BootEnds == guest.at = "wait" ~> guest.at # "wait" \/ overlapped \/ status.exited

\* After quit() every thread ends and the process with them, whoever called it
\* and wherever startup was, but for the two cases that the README describes.
QuitEnds == status.exited ~> pc["main"] = "done" \/ ~Alive \/ mods_failed

\* "Wake them before start() joins those threads; main's final teardown runs
\* only afterward" (quit()): a quit leads to that teardown.
QuitReachesTeardown == status.exited ~> RuntimeStopped
=============================================================================
