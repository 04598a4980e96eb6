--------------------------- MODULE RuntimeProofs ---------------------------
(***************************************************************************)
(* The runtime's life, whatever fails and however many calls the game      *)
(* makes: RDRAM outlives the threads, the game has a name unless somebody  *)
(* quits, and the game's VI settings survive the swaps.                    *)
(***************************************************************************)
EXTENDS Runtime, TLAPS

\* Where each thread may be.
GamePlaces == {"none", "preinit", "await gfx", "timers", "wait", "load", "find", "mods",
               "saving", "enter", "failed", "ended", "terminated"}
Places(t) ==
  CASE t = "main"      -> {"start", "loop", "caught", "game", "timer", "gfx", "vi", "task",
                           "cleaner", "saver", "returned", "stopped", "done"}
    [] t = "lifecycle" -> {"wait", "check", "start_game", "naming", "ended"}
    [] t = "game"      -> GamePlaces
    [] t = "gfx"       -> {"none", "setup", "loop", "waiting", "invalid", "ended"}
    [] t = "vi"        -> {"none", "top", "dummy", "swap", "copy", "send", "ended"}
    [] OTHER           -> {"none", "running", "ended"}

PlacesOK == \A t \in Threads : pc[t] \in Places(t)

\* Only the game start thread makes the threads that are joined, and only
\* start makes it, before its loop.
MadeInOrder ==
  /\ pc["game"] = "none" =>
       /\ pc["main"] \in {"start", "caught", "returned", "stopped", "done"}
       /\ \A t \in Joined : pc[t] = "none"
  /\ pc["main"] \in {"start", "caught"} => pc["game"] = "none"

\* Whom main() has joined, or passed over, by where it is.
Passed ==
  CASE pc["main"] \in {"start", "loop", "caught", "game"} -> {}
    [] pc["main"] = "timer"   -> {"game"}
    [] pc["main"] = "gfx"     -> {"game", "timer"}
    [] pc["main"] = "vi"      -> {"game", "timer", "gfx"}
    [] pc["main"] = "task"    -> {"game", "timer", "gfx", "vi"}
    [] pc["main"] = "cleaner" -> {"game", "timer", "gfx", "vi", "task"}
    [] pc["main"] = "saver"   -> {"game", "timer", "gfx", "vi", "task", "cleaner"}
    [] OTHER                  -> Joined \cup {"game"}

\* What it joined has ended; the game start thread, the first, makes no more.
JoinedEnded ==
  /\ "game" \in Passed => pc["game"] \in {"none", "ended"}
  /\ \A t \in Joined \cap Passed : pc[t] \in {"none", "invalid", "ended"}

\* What is said of the threads' places alone.
Control == DOMAIN pc = Threads /\ PlacesOK /\ MadeInOrder /\ JoinedEnded

\* A call of quit() that began has stored exited.
QuitStored == \A c \in Callers : quitting[c] # "not yet" => status.exited

\* Where the game start thread has found the status Running.
Loading == pc["game"] \in {"load", "find", "mods", "saving", "enter"}

\* A game that was started has a name until somebody quits.
NamedUntilQuit ==
  /\ pc["lifecycle"] = "naming" \/ status.game_status = "Running" \/ Loading
       => status.current_game \/ status.exited
  /\ ~Alive => status.exited

\* The game's calls begin after the load, and the load after start_game.
CallsInOrder ==
  /\ Loading \/ guest.call > 0 => status.game_status = "Running"
  /\ guest.call > 0 => pc["game"] = "ended"
  /\ guest.call = 0 => guest.at = "none" /\ guest.framebuffer = "null"
  /\ guest.at = "wait" => guest.call \in {1, 2}
  /\ guest.framebuffer = "null" => guest.call < 2 /\ guest.at # "wait"

\* Where the game's settings are over a swap; a dummy VI about to be set would
\* meet a call.
SettingsInCopy ==
  ~overlapped /\ guest.framebuffer # "null" =>
    /\ pc["vi"] # "dummy"
    /\ pc["vi"] = "copy" =>
         /\ vi.states[vi.cur_state].framebuffer = guest.framebuffer
         /\ guest.call > 3 => vi.states[vi.cur_state].mq

\* The inductive invariant.
IInv == /\ TypeOK /\ Control
        /\ QuitStored /\ NamedUntilQuit
        /\ CallsInOrder /\ SettingsInCopy /\ SettingsKept

-----------------------------------------------------------------------------
(* Where the threads are *)

LEMMA GoesTo ==
  ASSUME DOMAIN pc = Threads, NEW t \in Threads, NEW from, NEW to, Goes(t, from, to)
  PROVE  /\ Alive /\ pc[t] = from /\ pc'[t] = to
         /\ DOMAIN pc' = Threads
         /\ \A u \in Threads : u # t => pc'[u] = pc[u]
  BY DEF Goes

\* A thread that runs goes on to another of its places: it makes no thread
\* and is not one that was passed over.
LEMMA ThreadMoves ==
  ASSUME Control,
         NEW t \in Threads \ {"main"}, NEW from, NEW to,
         from \notin {"none", "invalid", "ended"},
         to \in Places(t), to # "none",
         Goes(t, from, to)
  PROVE  Control'
<1>1. /\ pc[t] = from /\ pc'[t] = to /\ DOMAIN pc' = Threads
      /\ \A u \in Threads : u # t => pc'[u] = pc[u]
  BY GoesTo DEF Control
<1>2. PlacesOK'
  BY <1>1 DEF Control, PlacesOK, Places
<1>3. MadeInOrder'
  BY <1>1 DEF Control, MadeInOrder, Threads, Joined
<1>4. Passed' = Passed
  BY <1>1 DEF Passed, Threads
<1>5. JoinedEnded'
  BY <1>1, <1>4 DEF Control, JoinedEnded, Threads
<1> QED BY <1>1, <1>2, <1>3, <1>5 DEF Control

\* main() goes on past threads that have ended.
LEMMA MainMoves ==
  ASSUME Control,
         NEW from, NEW to, Goes("main", from, to),
         to \in Places("main"),
         to \in {"start", "loop", "caught"} => pc["game"] = "none",
         to \notin {"returned", "stopped", "done", "caught"} => pc["game"] # "none",
         \A t \in Passed' \ Passed :
           pc[t] \in {"none", "invalid", "ended"}
  PROVE  Control'
<1>1. /\ pc["main"] = from /\ pc'["main"] = to /\ DOMAIN pc' = Threads
      /\ \A u \in Threads : u # "main" => pc'[u] = pc[u]
  BY GoesTo DEF Control, Threads
<1>2. PlacesOK'
  BY <1>1 DEF Control, PlacesOK, Places
<1>3. MadeInOrder'
  BY <1>1 DEF Control, MadeInOrder, Threads, Joined
<1>4. JoinedEnded'
  <2>1. \A t \in Joined \cup {"game"} : pc'[t] = pc[t]
    BY <1>1 DEF Threads, Joined
  <2>2. pc["game"] # "invalid"
    BY DEF Control, PlacesOK, Places, GamePlaces, Threads
  <2> QED BY <2>1, <2>2 DEF Control, JoinedEnded
<1> QED BY <1>1, <1>2, <1>3, <1>4 DEF Control

\* The game start thread makes some of the threads as it goes on: nothing has
\* been joined yet.
LEMMA GameMakes ==
  ASSUME Control,
         NEW Made \in SUBSET Joined, DOMAIN pc' = Threads,
         pc["game"] \notin {"none", "ended"},
         pc'["game"] \in Places("game"), pc'["game"] # "none",
         \A t \in Made : pc'[t] \in Places(t),
         \A t \in Threads \ (Made \cup {"game"}) : pc'[t] = pc[t]
  PROVE  Control'
<1>1. PlacesOK'
  BY DEF Control, PlacesOK
<1>2. pc'["main"] = pc["main"]
  BY DEF Threads, Joined
<1>3. MadeInOrder'
  BY <1>2 DEF Control, MadeInOrder
<1>4. "game" \notin Passed
  BY DEF Control, JoinedEnded
<1>5. Passed = {} /\ Passed' = {}
  BY <1>2, <1>4 DEF Passed
<1>6. JoinedEnded'
  BY <1>5 DEF JoinedEnded
<1> QED BY <1>1, <1>3, <1>6 DEF Control

\* Every step keeps the places in order.
LEMMA ControlStep ==
  ASSUME Control, [Next]_vars
  PROVE  Control'
<1> USE DEF Threads, Joined, Places, GamePlaces
<1>0. DOMAIN pc = Threads
  BY DEF Control
<1> USE <1>0
<1> DEFINE Same == UNCHANGED pc
           One == \E t \in Threads \ {"main"} :
                    \E from \in Places(t), to \in Places(t) :
                      /\ from \notin {"none", "invalid", "ended"}
                      /\ to # "none"
                      /\ Goes(t, from, to)
<1>1. CASE Same
  BY <1>1 DEF Control, PlacesOK, MadeInOrder, JoinedEnded, Passed, Returned
<1>2. CASE One
  <2>1. PICK t \in Threads \ {"main"} :
          \E from \in Places(t), to \in Places(t) :
            /\ from \notin {"none", "invalid", "ended"}
            /\ to # "none"
            /\ Goes(t, from, to)
    BY <1>2
  <2>2. \E from \in Places(t), to \in Places(t) :
          /\ from \notin {"none", "invalid", "ended"}
          /\ to # "none"
          /\ Goes(t, from, to)
    BY <2>1
  <2> HIDE DEF Threads, Joined, Places, GamePlaces, One, Same
  <2>3. PICK from : \E to \in Places(t) :
          /\ from \notin {"none", "invalid", "ended"}
          /\ to # "none"
          /\ Goes(t, from, to)
    BY <2>2
  <2>4. PICK to : /\ to \in Places(t)
                  /\ from \notin {"none", "invalid", "ended"}
                  /\ to # "none"
                  /\ Goes(t, from, to)
    BY <2>3
  <2> QED BY ONLY Control, <2>1, <2>4, ThreadMoves
<1>3. CASE Main
  <2>1. CASE Start
    <3>1. pc["main"] = "start" /\ \A t \in Joined \cup {"game"} : pc[t] = "none"
      BY <2>1 DEF Start, Control, MadeInOrder
    <3>2. /\ pc'["main"] = "loop" /\ pc'["game"] = "preinit" /\ DOMAIN pc' = Threads
          /\ \A t \in Joined \cup {"lifecycle"} : pc'[t] = pc[t]
      BY <2>1 DEF Start, Control
    <3>3. PlacesOK'
      <4>1. "loop" \in Places("main") /\ "preinit" \in Places("game")
        OBVIOUS
      <4> HIDE DEF Places
      <4> QED BY <3>2, <4>1 DEF Control, PlacesOK
    <3>4. MadeInOrder' /\ JoinedEnded'
      BY <3>2 DEF MadeInOrder, JoinedEnded, Passed
    <3> QED BY <3>2, <3>3, <3>4 DEF Control
  <2>2. CASE Goes("main", "start", "returned")
    <3>1. \A t \in Joined \cup {"game"} : pc[t] = "none"
      BY <2>2, GoesTo DEF Control, MadeInOrder
    <3> QED BY <2>2, <3>1, MainMoves DEF Passed
  <2>3. CASE Goes("main", "start", "caught")
    <3>1. pc["game"] = "none" /\ Passed' \subseteq {}
      BY <2>3, GoesTo DEF Control, MadeInOrder, Passed
    <3> QED BY <2>3, <3>1, MainMoves
  <2>4. CASE StartFails
    BY <2>2, <2>3, <2>4 DEF StartFails
  <2>5. CASE LeaveLoop
    <3>1. CASE Goes("main", "loop", "game")
      <4>1. pc["game"] # "none" /\ Passed' \subseteq {}
        BY <3>1, GoesTo DEF Control, MadeInOrder, Passed
      <4> QED BY <3>1, <4>1, MainMoves
    <3>2. CASE Goes("main", "caught", "returned")
      <4>1. \A t \in Joined \cup {"game"} : pc[t] = "none"
        BY <3>2, GoesTo DEF Control, MadeInOrder
      <4> QED BY <3>2, <4>1, MainMoves DEF Passed
    <3> QED BY <2>5, <3>1, <3>2 DEF LeaveLoop, Stages
  <2>6. ASSUME NEW i \in DOMAIN Stages, Join(i) PROVE Control'
    <3>1. /\ pc[Stages[i]] \in {"none", "invalid", "ended"}
          /\ Goes("main", Stages[i], IF i < 7 THEN Stages[i + 1] ELSE "returned")
      BY <2>6 DEF Join, Stages
    <3>2. /\ pc["main"] = Stages[i]
          /\ pc'["main"] = IF i < 7 THEN Stages[i + 1] ELSE "returned"
      BY <3>1, GoesTo
    <3>3. i \in 1..7
      BY DEF Stages
    <3>4. Passed' \subseteq Passed \cup {Stages[i]}
      BY <3>2, <3>3 DEF Stages, Passed
    <3>5. pc["game"] # "none"
      BY <3>2, <3>3 DEF Stages, Control, MadeInOrder
    <3>6. (IF i < 7 THEN Stages[i + 1] ELSE "returned")
            \in {"timer", "gfx", "vi", "task", "cleaner", "saver", "returned"}
      BY <3>3 DEF Stages
    <3> QED BY <3>1, <3>4, <3>5, <3>6, MainMoves
  <2>7. CASE Teardown
    <3>1. CASE Goes("main", "returned", "stopped")
      <4>1. Passed' = Passed
        BY <3>1, GoesTo DEF Passed
      <4> QED BY <3>1, <4>1, MainMoves
    <3>2. CASE Goes("main", "stopped", "done")
      <4>1. Passed' = Passed
        BY <3>2, GoesTo DEF Passed
      <4> QED BY <3>2, <4>1, MainMoves
    <3> QED BY <2>7, <3>1, <3>2 DEF Teardown
  <2> QED BY <1>3, <2>1, <2>4, <2>5, <2>6, <2>7 DEF Main
<1>4. CASE Lifecycle
  <2>1. Goes("lifecycle", "wait", "check") => One
    OBVIOUS
  <2>2. Goes("lifecycle", "wait", "ended") => One
    OBVIOUS
  <2>3. Goes("lifecycle", "check", IF RuntimeStopped THEN "ended" ELSE "start_game") => One
    OBVIOUS
  <2>4. Goes("lifecycle", "start_game", "naming") => One
    OBVIOUS
  <2>5. Goes("lifecycle", "naming", "ended") => One
    OBVIOUS
  <2> QED BY <1>2, <1>4, <2>1, <2>2, <2>3, <2>4, <2>5
          DEF Lifecycle, WaitFirstVi, StartGame, StoreRunning
<1>5. CASE Gfx
  <2>1. Goes("gfx", "setup", "loop") => One
    OBVIOUS
  <2>2. Goes("gfx", "setup", "invalid") => One
    OBVIOUS
  <2>3. Goes("gfx", "loop", "waiting") => One
    OBVIOUS
  <2>4. Goes("gfx", "waiting", "ended") => One
    OBVIOUS
  <2> QED BY <1>2, <1>5, <2>1, <2>2, <2>3, <2>4 DEF Gfx
<1>6. ASSUME NEW t \in Joined, Worker(t) PROVE Control'
  <2>1. t \in {"task", "timer", "cleaner", "saver"} /\ Goes(t, "running", "ended")
    BY <1>6 DEF Worker
  <2> QED BY <1>2, <2>1
<1>7. CASE Vi
  <2>1. Goes("vi", "top", IF status.exited THEN "ended" ELSE IF NeedsDummy THEN "dummy" ELSE "swap") => One
    OBVIOUS
  <2>2. Goes("vi", "dummy", "swap") => One
    OBVIOUS
  <2>3. Goes("vi", "swap", "copy") => One
    OBVIOUS
  <2>4. Goes("vi", "copy", "send") => One
    OBVIOUS
  <2>5. Goes("vi", "send", "top") => One
    OBVIOUS
  <2> QED BY <1>2, <1>7, <2>1, <2>2, <2>3, <2>4, <2>5
          DEF Vi, ViTop, SetDummyVi, SwapStates, CopyState, SendVi
<1>8. CASE Game
  <2>1. CASE CreateEvents
    <3>1. /\ pc["game"] = "preinit" /\ pc'["game"] = "await gfx"
          /\ pc'["gfx"] = "setup" /\ pc'["task"] = "running" /\ DOMAIN pc' = Threads
          /\ \A t \in Threads \ {"game", "gfx", "task"} : pc'[t] = pc[t]
      BY <2>1 DEF CreateEvents, Control
    <3> QED BY <3>1, GameMakes, {"gfx", "task"} \in SUBSET Joined
  <2>2. CASE AwaitGfx
    <3>1. CASE pc' = [pc EXCEPT !["game"] = "timers", !["vi"] = "top"]
      <4>1. /\ pc["game"] = "await gfx" /\ pc'["game"] = "timers" /\ pc'["vi"] = "top"
            /\ DOMAIN pc' = Threads
            /\ \A t \in Threads \ {"game", "vi"} : pc'[t] = pc[t]
        BY <2>2, <3>1 DEF AwaitGfx, Control
      <4> QED BY <4>1, GameMakes, {"vi"} \in SUBSET Joined
    <3>2. CASE pc' = [pc EXCEPT !["game"] = "failed"] /\ BeginQuit("game")
      <4>1. Goes("game", "await gfx", "failed")
        BY <2>2, <3>2 DEF AwaitGfx, BeginQuit, Goes
      <4> QED BY <1>2, <4>1
    <3> QED BY <2>2, <3>1, <3>2 DEF AwaitGfx
  <2>3. CASE CreateOthers
    <3>1. /\ pc["game"] = "timers" /\ pc'["game"] = "wait"
          /\ pc'["timer"] = "running" /\ pc'["cleaner"] = "running" /\ DOMAIN pc' = Threads
          /\ \A t \in Threads \ {"game", "timer", "cleaner"} : pc'[t] = pc[t]
      BY <2>3 DEF CreateOthers, Control
    <3> QED BY <3>1, GameMakes, {"timer", "cleaner"} \in SUBSET Joined
  <2>4. CASE InitSaving
    <3>1. CASE status.current_game
      <4>1. /\ pc["game"] = "saving" /\ pc'["game"] = "enter" /\ pc'["saver"] = "running"
            /\ DOMAIN pc' = Threads
            /\ \A t \in Threads \ {"game", "saver"} : pc'[t] = pc[t]
        BY <2>4, <3>1 DEF InitSaving, Control
      <4> QED BY <4>1, GameMakes, {"saver"} \in SUBSET Joined
    <3>2. CASE ~status.current_game
      <4>1. Goes("game", "saving", "terminated")
        BY <2>4, <3>2 DEF InitSaving, Goes
      <4> QED BY <1>2, <4>1
    <3> QED BY <3>1, <3>2
  <2>5. Goes("game", "wait", IF status.game_status = "Running" THEN "load" ELSE "ended") => One
    OBVIOUS
  <2>6. Goes("game", "load", IF status.current_game THEN "find" ELSE "terminated") => One
    OBVIOUS
  <2>7. Goes("game", "load", "failed") => One
    OBVIOUS
  <2>8. Goes("game", "find", IF status.current_game THEN "mods" ELSE "terminated") => One
    OBVIOUS
  <2>9. Goes("game", "failed", "ended") => One
    OBVIOUS
  <2>10. Goes("game", "mods", "saving") => One
    OBVIOUS
  <2>11. Goes("game", "mods", "wait") => One
    OBVIOUS
  <2>12. Goes("game", "enter", "ended") => One
    OBVIOUS
  <2> QED BY <1>2, <1>8, <2>1, <2>2, <2>3, <2>4, <2>5, <2>6, <2>7, <2>8, <2>9, <2>10, <2>11, <2>12
          DEF Game, WaitForGame, LoadRom, FindGame, Value, QuitByGame, LoadMods, EnterGame
<1>9. PlayerQuits \/ BeginThread \/ BeginCall \/ Store \/ EndWait \/ (\E c \in Callers : Quit(c))
        \/ UNCHANGED vars
        => Same
  BY DEF PlayerQuits, BeginThread, BeginCall, Store, EndWait, OnlyGuest, Quit, QuitStatus, QuitReset, vars
<1> QED BY <1>1, <1>3, <1>4, <1>5, <1>6, <1>7, <1>8, <1>9 DEF Next, Host

\* Who moves three of the threads.
LEMMA Movers ==
  ASSUME Control, [Next]_vars
  PROVE  /\ pc'["game"] # pc["game"] => Start \/ Game
         /\ pc'["lifecycle"] # pc["lifecycle"] => Lifecycle
         /\ pc'["vi"] # pc["vi"] => Vi \/ AwaitGfx
<1> USE DEF Threads, Joined
<1>0. DOMAIN pc = Threads
  BY DEF Control
<1> DEFINE Move(t) == \E from, to : Goes(t, from, to)
           Still(t) == pc'[t] = pc[t]
<1>1. ASSUME NEW t \in Threads, Move(t)
      PROVE  \A u \in Threads \ {t} : Still(u)
  BY <1>0, <1>1, GoesTo
<1>2. CASE Main
  <2>1. Main => Start \/ Move("main")
    BY DEF Main, StartFails, LeaveLoop, Join, Teardown
  <2>2. CASE Start
    BY <1>0, <2>2 DEF Start
  <2> QED BY <1>1, <1>2, <2>1, <2>2
<1>3. CASE Lifecycle
  <2>1. Move("lifecycle")
    BY <1>3 DEF Lifecycle, WaitFirstVi, StartGame, StoreRunning
  <2> QED BY <1>1, <1>3, <2>1
<1>4. CASE Gfx
  <2>1. Move("gfx")
    BY <1>4 DEF Gfx
  <2> QED BY <1>1, <2>1
<1>5. ASSUME NEW t \in Joined, Worker(t) PROVE Still("game") /\ Still("lifecycle") /\ Still("vi")
  <2>1. t \in {"task", "timer", "cleaner", "saver"} /\ Move(t)
    BY <1>5 DEF Worker
  <2> QED BY <1>1, <2>1
<1>6. CASE Vi
  <2>1. Move("vi")
    BY <1>6 DEF Vi, ViTop, SetDummyVi, SwapStates, CopyState, SendVi
  <2> QED BY <1>1, <1>6, <2>1
<1>7. CASE Game
  <2>1. Game => CreateEvents \/ AwaitGfx \/ CreateOthers \/ InitSaving \/ Move("game")
    BY DEF Game, WaitForGame, LoadRom, FindGame, Value, QuitByGame, LoadMods, EnterGame
  <2>2. CASE CreateEvents
    BY <1>0, <1>7, <2>2 DEF CreateEvents
  <2>3. CASE AwaitGfx
    <3>1. CASE pc' = [pc EXCEPT !["game"] = "timers", !["vi"] = "top"]
      BY <1>0, <1>7, <2>3, <3>1
    <3>2. CASE pc' = [pc EXCEPT !["game"] = "failed"]
      BY <1>0, <1>7, <2>3, <3>2
    <3> QED BY <2>3, <3>1, <3>2 DEF AwaitGfx
  <2>4. CASE CreateOthers
    BY <1>0, <1>7, <2>4 DEF CreateOthers
  <2>5. CASE InitSaving
    <3>1. CASE status.current_game
      BY <1>0, <1>7, <2>5, <3>1 DEF InitSaving
    <3>2. CASE ~status.current_game
      BY <1>0, <1>7, <2>5, <3>2 DEF InitSaving
    <3> QED BY <3>1, <3>2
  <2> QED BY <1>1, <1>7, <2>1, <2>2, <2>3, <2>4, <2>5
<1>8. PlayerQuits \/ BeginThread \/ BeginCall \/ Store \/ EndWait \/ (\E c \in Callers : Quit(c))
        \/ UNCHANGED vars
        => pc' = pc
  BY DEF PlayerQuits, BeginThread, BeginCall, Store, EndWait, OnlyGuest, Quit, QuitStatus, QuitReset, vars
<1> QED BY <1>2, <1>3, <1>4, <1>5, <1>6, <1>7, <1>8 DEF Next, Host

-----------------------------------------------------------------------------
(* The status and the calls of quit() *)

\* What may happen to the status.
LEMMA StatusSteps ==
  ASSUME [Next]_vars
  PROVE  \/ UNCHANGED <<status, quitting>>
         \/ \E c \in Callers : BeginQuit(c) \/ QuitStatus(c) \/ QuitReset(c)
         \/ StartGame \/ StoreRunning
         \/ /\ Goes("game", "mods", "wait") /\ UNCHANGED <<quitting, guest>>
            /\ status' = [status EXCEPT !.game_status = "None"]
<1>1. Main => UNCHANGED <<status, quitting>> \/ \E c \in Callers : BeginQuit(c)
  BY DEF Main, Start, StartFails, LeaveLoop, Join, Teardown, OnlyPc, Callers
<1>2. Lifecycle => UNCHANGED <<status, quitting>> \/ StartGame \/ StoreRunning
  BY DEF Lifecycle, WaitFirstVi, OnlyPc
<1>3. Gfx \/ (\E t \in Joined : Worker(t)) \/ Vi \/ BeginThread \/ BeginCall \/ Store \/ EndWait
        \/ UNCHANGED vars
        => UNCHANGED <<status, quitting>>
  BY DEF Gfx, Worker, Vi, ViTop, SetDummyVi, SwapStates, CopyState, SendVi, OnlyVi, OnlyPc,
         BeginThread, BeginCall, Store, EndWait, OnlyGuest, vars
<1>4. PlayerQuits => \E c \in Callers : BeginQuit(c)
  BY DEF PlayerQuits, Callers
<1>5. Game => \/ UNCHANGED <<status, quitting>>
              \/ \E c \in Callers : BeginQuit(c)
              \/ /\ Goes("game", "mods", "wait") /\ UNCHANGED <<quitting, guest>>
                 /\ status' = [status EXCEPT !.game_status = "None"]
  BY DEF Game, CreateEvents, AwaitGfx, CreateOthers, WaitForGame, LoadRom, FindGame, Value,
         QuitByGame, LoadMods, InitSaving, EnterGame, OnlyPc, Callers
<1> QED BY <1>1, <1>2, <1>3, <1>4, <1>5 DEF Next, Host, Quit

StatusOK ==
  /\ status \in [exited : BOOLEAN, game_status : {"None", "Running", "Quit"}, current_game : BOOLEAN]
  /\ quitting \in [Callers -> {"not yet", "exited", "status", "done"}]

\* exited is stored by quit() only, and stays.
LEMMA QuitStep ==
  ASSUME StatusOK, QuitStored, [Next]_vars
  PROVE  /\ StatusOK' /\ QuitStored'
         /\ status.exited => status'.exited
<1> USE DEF StatusOK, QuitStored
<1>1. CASE UNCHANGED <<status, quitting>>
  BY <1>1
<1>2. ASSUME NEW c \in Callers, BeginQuit(c)
      PROVE  /\ StatusOK' /\ QuitStored' /\ status'.exited
  BY <1>2 DEF BeginQuit
<1>3. ASSUME NEW c \in Callers, QuitStatus(c)
      PROVE  /\ StatusOK' /\ QuitStored' /\ status'.exited = status.exited
  BY <1>3 DEF QuitStatus
<1>4. ASSUME NEW c \in Callers, QuitReset(c)
      PROVE  /\ StatusOK' /\ QuitStored' /\ status'.exited = status.exited
  BY <1>4 DEF QuitReset
<1>5. CASE StartGame
  BY <1>5 DEF StartGame
<1>6. CASE StoreRunning
  BY <1>6 DEF StoreRunning
<1>7. CASE status' = [status EXCEPT !.game_status = "None"] /\ quitting' = quitting
  BY <1>7
<1> QED BY <1>1, <1>2, <1>3, <1>4, <1>5, <1>6, <1>7, StatusSteps

\* The status Running comes from start_game, and an error of the mods alone
\* takes it back.
LEMMA RunningStep ==
  ASSUME StatusOK, [Next]_vars
  PROVE  /\ status'.game_status = "Running" =>
              status.game_status = "Running" \/ Goes("lifecycle", "naming", "ended")
         /\ status.game_status = "Running" =>
              \/ status'.game_status = "Running"
              \/ Goes("game", "mods", "wait") /\ guest' = guest
<1> USE DEF StatusOK
<1>1. CASE UNCHANGED <<status, quitting>>
  BY <1>1
<1>2. ASSUME NEW c \in Callers, BeginQuit(c)
      PROVE  status'.game_status = status.game_status
  BY <1>2 DEF BeginQuit
<1>3. ASSUME NEW c \in Callers, QuitStatus(c)
      PROVE  status'.game_status = "Running" <=> status.game_status = "Running"
  BY <1>3 DEF QuitStatus
<1>4. ASSUME NEW c \in Callers, QuitReset(c)
      PROVE  status'.game_status = status.game_status
  BY <1>4 DEF QuitReset
<1>5. CASE StartGame
  BY <1>5 DEF StartGame
<1>6. CASE StoreRunning
  BY <1>6 DEF StoreRunning
<1>7. CASE /\ Goes("game", "mods", "wait") /\ guest' = guest
           /\ status' = [status EXCEPT !.game_status = "None"]
  BY <1>7
<1> QED BY <1>1, <1>2, <1>3, <1>4, <1>5, <1>6, <1>7, StatusSteps

\* The name is given before the lifecycle thread stores Running, and taken by
\* quit() alone.
LEMMA NameStep ==
  ASSUME StatusOK, QuitStored, [Next]_vars
  PROVE  /\ status.current_game => status'.current_game \/ status'.exited
         /\ StartGame => status'.current_game
<1> USE DEF StatusOK, QuitStored
<1>1. CASE UNCHANGED <<status, quitting>>
  BY <1>1 DEF StartGame
<1>2. ASSUME NEW c \in Callers, BeginQuit(c)
      PROVE  status'.exited
  BY <1>2 DEF BeginQuit
<1>3. ASSUME NEW c \in Callers, QuitStatus(c)
      PROVE  status'.current_game = status.current_game
  BY <1>3 DEF QuitStatus
<1>4. ASSUME NEW c \in Callers, QuitReset(c)
      PROVE  status'.exited
  BY <1>4 DEF QuitReset
<1>5. StartGame => status'.current_game
  BY DEF StartGame
<1>6. StoreRunning => status'.current_game = status.current_game
  BY DEF StoreRunning
<1>7. status' = [status EXCEPT !.game_status = "None"] => status'.current_game = status.current_game
  OBVIOUS
<1> QED BY <1>1, <1>2, <1>3, <1>4, <1>5, <1>6, <1>7, StatusSteps

\* How the game start thread comes to load, and to an end by std::terminate.
LEMMA LoadingStep ==
  ASSUME Control, [Next]_vars
  PROVE  /\ Loading' => Loading \/ (status.game_status = "Running" /\ UNCHANGED status)
         /\ pc'["game"] = "terminated" =>
              pc["game"] = "terminated" \/ (Loading /\ ~status.current_game /\ UNCHANGED status)
<1>0. DOMAIN pc = Threads /\ pc["game"] \in GamePlaces
  BY DEF Control, PlacesOK, Places, Threads
<1> USE <1>0 DEF Threads, Loading
<1>1. CASE pc'["game"] = pc["game"]
  BY <1>1
<1>2. CASE Start
  BY <1>2 DEF Start
<1>3. CASE Game
  <2>1. ASSUME NEW from, NEW to, Goes("game", from, to)
        PROVE  pc["game"] = from /\ pc'["game"] = to
    BY <2>1, GoesTo
  <2>2. CASE CreateEvents
    BY <2>2 DEF CreateEvents
  <2>3. CASE AwaitGfx
    <3>1. CASE pc' = [pc EXCEPT !["game"] = "timers", !["vi"] = "top"]
      BY <3>1
    <3>2. CASE pc' = [pc EXCEPT !["game"] = "failed"]
      BY <3>2
    <3> QED BY <2>3, <3>1, <3>2 DEF AwaitGfx
  <2>4. CASE CreateOthers
    BY <2>4 DEF CreateOthers
  <2>5. CASE WaitForGame
    BY <2>1, <2>5 DEF WaitForGame, OnlyPc
  <2>6. CASE LoadRom \/ FindGame
    BY <2>1, <2>6 DEF LoadRom, FindGame, Value, OnlyPc
  <2>7. CASE QuitByGame \/ LoadMods \/ EnterGame
    BY <2>1, <2>7 DEF QuitByGame, LoadMods, EnterGame
  <2>8. CASE InitSaving
    <3>1. CASE status.current_game
      BY <2>8, <3>1 DEF InitSaving
    <3>2. CASE ~status.current_game
      BY <2>8, <3>2 DEF InitSaving, OnlyPc
    <3> QED BY <3>1, <3>2
  <2> QED BY <1>3, <2>2, <2>3, <2>4, <2>5, <2>6, <2>7, <2>8 DEF Game
<1> QED BY <1>1, <1>2, <1>3, Movers

-----------------------------------------------------------------------------
(* The VI states and the game's calls *)

\* Who writes them.
LEMMA Writers ==
  ASSUME [Next]_vars
  PROVE  \/ UNCHANGED <<vi, guest, overlapped>>
         \/ SetDummyVi \/ SwapStates \/ CopyState \/ SendVi
         \/ EnterGame \/ BeginThread \/ BeginCall \/ Store \/ EndWait
<1> DEFINE Same == UNCHANGED <<vi, guest, overlapped>>
<1>1. Main => Same
  BY DEF Main, Start, StartFails, LeaveLoop, Join, Teardown, OnlyPc, SameGame
<1>2. Lifecycle => Same
  BY DEF Lifecycle, WaitFirstVi, StartGame, StoreRunning, OnlyPc, SameGame
<1>3. Game => Same \/ EnterGame
  BY DEF Game, CreateEvents, AwaitGfx, CreateOthers, WaitForGame, LoadRom, FindGame, Value,
         QuitByGame, LoadMods, InitSaving, OnlyPc, SameGame
<1>4. Gfx \/ (\E t \in Joined : Worker(t)) \/ ViTop \/ UNCHANGED vars => Same
  BY DEF Gfx, Worker, ViTop, OnlyPc, vars
<1>5. PlayerQuits \/ (\E c \in Callers : Quit(c)) => Same
  BY DEF PlayerQuits, Quit, QuitStatus, QuitReset, SameGame
<1> QED BY <1>1, <1>2, <1>3, <1>4, <1>5 DEF Next, Host, Vi

\* Where a call of the game may be.
Stations == {"none", "thread", "call", "store", "wait", "terminated"}

WorldOK ==
  /\ vi \in [cur_state : 0..1, first_vi_ready : BOOLEAN, states : [0..1 -> ViState]]
  /\ guest \in [call : 0..MaxCalls, at : Stations, target : 0..1,
                 framebuffer : Framebuffers \cup {"null"}]
  /\ overlapped \in BOOLEAN

\* What a store does to the state it writes, and to the call that made it.
LEMMA Stores ==
  ASSUME WorldOK, Store
  PROVE  /\ guest.at = "store" /\ guest'.framebuffer \in Argument /\ guest'.target = 0
         /\ guest'.at = CASE guest.call < 3 -> "wait" [] guest.call = 3 -> "thread"
                          [] guest.call = MaxCalls -> "none" [] OTHER -> "call"
         /\ guest'.call = IF guest.call \in 3..(MaxCalls - 1) THEN guest.call + 1 ELSE guest.call
         /\ guest' \in [call : {guest'.call}, at : {guest'.at}, target : {0},
                        framebuffer : {guest'.framebuffer}]
         /\ vi' = IF guest.call = 3
                    THEN [vi EXCEPT !.states[guest.target].mq = TRUE]
                    ELSE [vi EXCEPT !.states[guest.target].framebuffer = guest'.framebuffer]
         /\ overlapped' = (overlapped \/ pc["vi"] \in {"dummy", "copy"} \/ guest.target = vi.cur_state)
<1> HIDE DEF Argument
<1> DEFINE At == CASE guest.call < 3 -> "wait" [] guest.call = 3 -> "thread"
                   [] guest.call = MaxCalls -> "none" [] OTHER -> "call"
           Call == IF guest.call \in 3..(MaxCalls - 1) THEN guest.call + 1 ELSE guest.call
<1>1. PICK framebuffer \in Argument :
        /\ guest' = [guest EXCEPT !.framebuffer = framebuffer, !.target = 0, !.at = At, !.call = Call]
        /\ vi' = IF guest.call = 3 THEN [vi EXCEPT !.states[guest.target].mq = TRUE]
                                  ELSE [vi EXCEPT !.states[guest.target].framebuffer = framebuffer]
  BY DEF Store
<1>2. guest.at = "store" /\ overlapped' = (overlapped \/ pc["vi"] \in {"dummy", "copy"} \/ guest.target = vi.cur_state)
  BY DEF Store
<1> HIDE DEF At, Call
<1>3. /\ guest'.framebuffer = framebuffer /\ guest'.target = 0 /\ guest'.at = At /\ guest'.call = Call
      /\ guest' \in [call : {Call}, at : {At}, target : {0}, framebuffer : {framebuffer}]
  BY <1>1 DEF WorldOK
<1> QED BY <1>1, <1>2, <1>3 DEF At, Call

\* What the game passes is one of its framebuffers, once it set one.
LEMMA Arguments ==
  ASSUME WorldOK, guest.call = 3 => guest.framebuffer # "null"
  PROVE  Argument \subseteq Framebuffers
<1>1. CASE guest.call = 1
  BY <1>1 DEF Argument, Framebuffers
<1>2. CASE guest.call = 2
  BY <1>2 DEF Argument, Framebuffers
<1>3. CASE guest.call = 3
  BY <1>3 DEF Argument, Framebuffers, WorldOK
<1>4. CASE guest.call \notin {1, 2, 3}
  BY <1>4 DEF Argument, Framebuffers, WorldOK
<1> QED BY <1>1, <1>2, <1>3, <1>4

CallsOK ==
  /\ guest.call = 0 => guest.at = "none" /\ guest.framebuffer = "null"
  /\ guest.at = "wait" => guest.call \in {1, 2}
  /\ guest.framebuffer = "null" => guest.call < 2 /\ guest.at # "wait"

\* The types of the VI states and of the calls, and the order of the calls.
LEMMA WorldStep ==
  ASSUME WorldOK, CallsOK, [Next]_vars
  PROVE  WorldOK' /\ CallsOK'
<1> USE DEF WorldOK, Stations
<1>1. CASE UNCHANGED <<vi, guest, overlapped>>
  BY <1>1 DEF CallsOK
<1>2. CASE SetDummyVi
  BY <1>2 DEF CallsOK, SetDummyVi, OnlyVi, ViState, Other
<1>3. CASE SwapStates
  BY <1>3 DEF CallsOK, SwapStates, OnlyVi, Other
<1>4. CASE CopyState
  BY <1>4 DEF CallsOK, CopyState, Copied, OnlyVi, Other
<1>5. CASE SendVi
  BY <1>5 DEF CallsOK, SendVi, OnlyVi
<1>6. CASE EnterGame
  <2>1. 1 \in 0..MaxCalls
    BY RuntimeAssumption
  <2>2. /\ guest'.call = 1 /\ guest'.at = "thread" /\ guest'.framebuffer = guest.framebuffer
        /\ UNCHANGED <<vi, overlapped>>
    BY <1>6 DEF EnterGame
  <2>3. WorldOK'
    BY <1>6, <2>1 DEF EnterGame
  <2> QED BY <2>2, <2>3 DEF CallsOK
<1>7. CASE BeginCall
  <2>1. /\ guest.at = "call" /\ guest'.call = guest.call /\ guest'.at = "store"
        /\ guest'.framebuffer = guest.framebuffer
    BY <1>7 DEF BeginCall
  <2>2. WorldOK'
    <3>1. Other(vi.cur_state) \in 0..1
      BY DEF Other
    <3>2. guest' = [guest EXCEPT !.at = "store", !.target = Other(vi.cur_state)]
      BY <1>7 DEF BeginCall
    <3>3. guest' \in [call : 0..MaxCalls, at : Stations, target : 0..1,
                      framebuffer : Framebuffers \cup {"null"}]
      BY <3>1, <3>2
    <3> QED BY <1>7, <3>3 DEF BeginCall
  <2> QED BY <2>1, <2>2 DEF CallsOK
<1>8. CASE Store
  <2>1. guest'.framebuffer \in Framebuffers /\ guest'.framebuffer # "null"
    BY <1>8, Stores, Arguments DEF CallsOK, Framebuffers
  <2>2. guest'.call \in 0..MaxCalls /\ guest'.call >= guest.call
    BY <1>8, Stores, RuntimeAssumption
  <2>3. guest'.at \in {"none", "thread", "call", "wait"} /\ (guest'.at = "wait" => guest.call < 3)
    BY <1>8, Stores
  <2>4. guest.call > 0
    BY <1>8, Stores DEF CallsOK
  <2>5. CallsOK'
    <3>1. guest.call < 3 => guest'.call = guest.call
      BY <1>8, Stores
    <3> QED BY <2>1, <2>2, <2>3, <2>4, <3>1 DEF CallsOK
  <2>6. vi' \in [cur_state : 0..1, first_vi_ready : BOOLEAN, states : [0..1 -> ViState]]
    <3>1. CASE guest.call = 3
      <4>1. vi' = [vi EXCEPT !.states[guest.target].mq = TRUE]
        BY <1>8, <3>1, Stores
      <4>2. vi.states[guest.target] \in ViState /\ guest.target \in 0..1
        OBVIOUS
      <4>3. [vi.states[guest.target] EXCEPT !.mq = TRUE] \in ViState
        BY <4>2 DEF ViState
      <4>4. vi' = [vi EXCEPT !.states = [@ EXCEPT ![guest.target] =
                                           [vi.states[guest.target] EXCEPT !.mq = TRUE]]]
        BY <4>1
      <4> HIDE DEF ViState
      <4> QED BY <4>2, <4>3, <4>4
    <3>2. CASE guest.call # 3
      <4>1. guest'.framebuffer \in Framebuffers \cup {"null", "dummy"}
        BY <2>1
      <4>2. vi' = [vi EXCEPT !.states[guest.target].framebuffer = guest'.framebuffer]
        BY <1>8, <3>2, Stores
      <4> QED BY <4>1, <4>2 DEF ViState
    <3> QED BY <3>1, <3>2
  <2>7. overlapped' \in BOOLEAN
    BY <1>8, Stores
  <2>8. guest' \in [call : 0..MaxCalls, at : Stations, target : 0..1,
                    framebuffer : Framebuffers \cup {"null"}]
    BY <1>8, <2>1, <2>2, <2>3, Stores
  <2> QED BY <2>5, <2>6, <2>7, <2>8
<1>9. CASE EndWait
  <2>1. guest.call + 1 \in 0..MaxCalls
    BY <1>9, RuntimeAssumption DEF CallsOK, EndWait
  <2>2. /\ guest.at = "wait" /\ guest'.call = guest.call + 1 /\ guest'.at \in {"thread", "call"}
        /\ guest'.framebuffer = guest.framebuffer
    BY <1>9 DEF EndWait
  <2>3. WorldOK'
    BY <1>9, <2>1 DEF EndWait
  <2> QED BY <2>2, <2>3 DEF CallsOK
<1>10. CASE BeginThread
  <2>1. /\ guest.at = "thread" /\ guest'.call = guest.call /\ guest'.at \in {"call", "terminated"}
        /\ guest'.framebuffer = guest.framebuffer
    BY <1>10 DEF BeginThread
  <2>2. WorldOK'
    BY <1>10 DEF BeginThread
  <2> QED BY <2>1, <2>2 DEF CallsOK
<1> QED BY <1>1, <1>2, <1>3, <1>4, <1>5, <1>6, <1>7, <1>8, <1>9, <1>10, Writers

\* How a thread of the game comes to such an end.
LEMMA ThreadStep ==
  ASSUME WorldOK, [Next]_vars, guest'.at = "terminated"
  PROVE  guest.at = "terminated" \/ (guest.at = "thread" /\ ~status.current_game /\ UNCHANGED status)
<1> USE DEF WorldOK
<1>1. CASE UNCHANGED guest
  BY <1>1
<1>2. CASE EnterGame
  BY <1>2 DEF EnterGame
<1>3. CASE BeginThread
  BY <1>3 DEF BeginThread, OnlyGuest
<1>4. CASE BeginCall
  BY <1>4 DEF BeginCall
<1>5. CASE Store
  BY <1>5, Stores
<1>6. CASE EndWait
  BY <1>6 DEF EndWait
<1> QED BY <1>1, <1>2, <1>3, <1>4, <1>5, <1>6, Writers
         DEF SetDummyVi, SwapStates, CopyState, SendVi, OnlyVi

LEMMA NamedStep ==
  ASSUME StatusOK, WorldOK, Control, QuitStored, NamedUntilQuit, CallsInOrder, [Next]_vars
  PROVE  NamedUntilQuit'
<1> DEFINE Named == status.current_game \/ status.exited
<1>1. Named => Named'
  BY QuitStep, NameStep
<1>2. Loading' => Named'
  BY <1>1, LoadingStep DEF NamedUntilQuit
<1>3. ~Alive' => status'.exited
  <2>1. CASE pc'["game"] = "terminated"
    BY <2>1, LoadingStep, QuitStep DEF NamedUntilQuit, Alive
  <2>2. CASE guest'.at = "terminated"
    <3>1. CASE guest.at = "terminated"
      BY <3>1, QuitStep DEF NamedUntilQuit, Alive
    <3>2. CASE guest.at = "thread" /\ ~status.current_game /\ UNCHANGED status
      <4>1. guest.call > 0
        BY <3>2 DEF CallsInOrder, WorldOK
      <4> QED BY <3>2, <4>1 DEF CallsInOrder, NamedUntilQuit
    <3> QED BY <2>2, <3>1, <3>2, ThreadStep
  <2> QED BY <2>1, <2>2 DEF Alive
<1>4. pc'["lifecycle"] = "naming" => Named'
  <2>1. CASE pc'["lifecycle"] = pc["lifecycle"]
    BY <1>1, <2>1 DEF NamedUntilQuit
  <2>2. CASE WaitFirstVi
    <3>1. ASSUME NEW from, NEW to, Goes("lifecycle", from, to) PROVE pc'["lifecycle"] = to
      BY <3>1, GoesTo DEF Control, Threads
    <3> QED BY <2>2, <3>1 DEF WaitFirstVi
  <2>3. CASE StartGame
    BY <2>3, NameStep
  <2>4. CASE StoreRunning
    BY <2>4, GoesTo DEF StoreRunning, Control, Threads
  <2> QED BY <2>1, <2>2, <2>3, <2>4, Movers DEF Lifecycle
<1>5. status'.game_status = "Running" => Named'
  <2>1. CASE Goes("lifecycle", "naming", "ended")
    BY <1>1, <2>1, GoesTo DEF NamedUntilQuit, Control, Threads
  <2> QED BY <1>1, <2>1, RunningStep DEF NamedUntilQuit
<1> QED BY <1>2, <1>3, <1>4, <1>5 DEF NamedUntilQuit

\* The types.
LEMMA TypeStep ==
  ASSUME TypeOK, Control, QuitStored, CallsInOrder, [Next]_vars
  PROVE  TypeOK'
<1>1. StatusOK' /\ WorldOK' /\ DOMAIN pc' = Threads
  BY QuitStep, WorldStep, ControlStep DEF TypeOK, StatusOK, WorldOK, Stations, CallsInOrder, CallsOK, Control
<1>2. mods_failed' = mods_failed \/ mods_failed' = TRUE
  BY DEF Next, Host, Main, Start, StartFails, LeaveLoop, Join, Teardown, Lifecycle, WaitFirstVi,
         StartGame, StoreRunning, Game, CreateEvents, AwaitGfx, CreateOthers, WaitForGame, LoadRom,
         FindGame, Value, QuitByGame, LoadMods, InitSaving, EnterGame, Gfx, Worker, Vi, ViTop,
         SetDummyVi, SwapStates, CopyState, SendVi, BeginThread, BeginCall, Store, EndWait, PlayerQuits, Quit,
         QuitStatus, QuitReset, OnlyPc, SameGame, OnlyVi, OnlyGuest, vars
<1> QED BY <1>1, <1>2 DEF TypeOK, StatusOK, WorldOK, Stations

\* The game's calls begin after the load, and the load after start_game.
LEMMA CallsStep ==
  ASSUME TypeOK, Control, CallsInOrder, [Next]_vars
  PROVE  CallsInOrder'
<1>1. StatusOK /\ WorldOK /\ CallsOK /\ DOMAIN pc = Threads /\ "game" \in Threads
  BY DEF TypeOK, StatusOK, WorldOK, Stations, CallsInOrder, CallsOK, Threads
<1>2. CallsOK'
  BY <1>1, WorldStep
<1>3. guest'.call > 0 => guest.call > 0 \/ EnterGame
  <2>1. CASE guest'.call = guest.call
    BY <2>1
  <2>2. CASE BeginThread \/ BeginCall
    BY <1>1, <2>2 DEF BeginThread, BeginCall, WorldOK
  <2>3. CASE Store \/ EndWait
    <3>1. guest.at \in {"store", "wait"}
      BY <2>3 DEF Store, EndWait
    <3> QED BY <1>1, <3>1 DEF CallsOK, WorldOK
  <2> QED BY <1>1, <2>1, <2>2, <2>3, Writers DEF SetDummyVi, SwapStates, CopyState, SendVi, OnlyVi
<1>4. EnterGame => pc["game"] = "enter" /\ pc'["game"] = "ended" /\ UNCHANGED status
  BY <1>1, GoesTo DEF EnterGame
<1>5. guest.call > 0 => pc["game"] = "ended" /\ pc'["game"] = "ended"
  <2>1. ASSUME guest.call > 0 PROVE pc'["game"] = pc["game"]
    <3>1. pc["game"] = "ended"
      BY <2>1 DEF CallsInOrder
    <3>2. ~Start
      BY <3>1 DEF Start, Control, MadeInOrder
    <3>3. ~Game
      BY <3>1 DEF Game, CreateEvents, AwaitGfx, CreateOthers, WaitForGame, LoadRom, FindGame, Value,
         QuitByGame, LoadMods, InitSaving, EnterGame, Goes
    <3> QED BY <3>2, <3>3, Movers
  <2> QED BY <2>1 DEF CallsInOrder
<1>6. Loading \/ guest.call > 0 \/ Loading' \/ guest'.call > 0 => status.game_status = "Running"
  BY <1>3, <1>4, LoadingStep DEF CallsInOrder, Loading
<1>7. Loading' \/ guest'.call > 0 => status'.game_status = "Running"
  <2>1. CASE Goes("game", "mods", "wait") /\ guest' = guest
    BY <1>1, <1>5, <2>1, GoesTo DEF Loading
  <2> QED BY <1>1, <1>6, <2>1, RunningStep
<1> QED BY <1>2, <1>3, <1>4, <1>5, <1>7 DEF CallsInOrder, CallsOK

\* The VI thread's steps keep what the game has set, and so do the game's
\* stores, unless one meets the VI thread.
LEMMA SettingsStep ==
  ASSUME TypeOK, Control, CallsInOrder, SettingsInCopy, SettingsKept, [Next]_vars
  PROVE  SettingsInCopy' /\ SettingsKept'
<1> DEFINE Set == ~overlapped /\ guest.framebuffer # "null"
           Has(i) == /\ vi.states[i].framebuffer = guest.framebuffer
                     /\ guest.call > 3 => vi.states[i].mq
<1>1. /\ Set => pc["vi"] # "dummy"
      /\ Set /\ pc["vi"] = "copy" => Has(vi.cur_state)
      /\ Set /\ pc["vi"] # "copy" => Has(Other(vi.cur_state))
  BY DEF SettingsInCopy, SettingsKept
<1>2. SUFFICES ASSUME Set'
               PROVE  /\ pc'["vi"] # "dummy"
                      /\ pc'["vi"] = "copy" => Has(vi.cur_state)'
                      /\ pc'["vi"] # "copy" => Has(Other(vi.cur_state))'
  BY DEF SettingsInCopy, SettingsKept
<1>3. WorldOK /\ CallsOK /\ DOMAIN pc = Threads /\ "vi" \in Threads
  BY DEF TypeOK, WorldOK, Stations, CallsInOrder, CallsOK, Threads, Joined
<1>4. vi.cur_state \in 0..1 /\ Other(0) = 1 /\ Other(1) = 0
  BY <1>3 DEF WorldOK, Other
<1>5. CASE SetDummyVi
  <2>1. pc["vi"] = "dummy" /\ Set
    BY <1>2, <1>3, <1>5, GoesTo DEF SetDummyVi, OnlyVi
  <2> QED BY <1>1, <2>1
<1>6. CASE SwapStates
  <2>1. pc["vi"] = "swap" /\ pc'["vi"] = "copy" /\ Set
    BY <1>2, <1>3, <1>6, GoesTo DEF SwapStates, OnlyVi
  <2>2. vi'.cur_state = Other(vi.cur_state) /\ vi'.states = vi.states /\ guest' = guest
    BY <1>3, <1>6 DEF SwapStates, OnlyVi, WorldOK
  <2> QED BY <1>1, <2>1, <2>2
<1>7. CASE CopyState
  <2>1. pc["vi"] = "copy" /\ pc'["vi"] = "send" /\ Set
    BY <1>2, <1>3, <1>7, GoesTo DEF CopyState, OnlyVi
  <2>2. vi'.cur_state = vi.cur_state /\ guest' = guest
    BY <1>3, <1>7 DEF CopyState, OnlyVi, WorldOK
  <2>3. vi'.states[Other(vi.cur_state)] = vi.states[vi.cur_state]
    BY <1>3, <1>4, <1>7 DEF CopyState, Copied, WorldOK
  <2> QED BY <1>1, <2>1, <2>2, <2>3
<1>8. CASE SendVi
  <2>1. pc["vi"] = "send" /\ pc'["vi"] = "top" /\ Set
    BY <1>2, <1>3, <1>8, GoesTo DEF SendVi, OnlyVi
  <2>2. vi'.cur_state = vi.cur_state /\ vi'.states = vi.states /\ guest' = guest
    BY <1>3, <1>8 DEF SendVi, OnlyVi, WorldOK
  <2> QED BY <1>1, <2>1, <2>2
<1>9. CASE EnterGame
  <2>1. pc["game"] = "enter"
    BY <1>3, <1>9, GoesTo DEF EnterGame, Threads
  <2>2. guest.framebuffer = "null"
    BY <1>3, <2>1 DEF CallsInOrder, WorldOK
  <2>3. guest'.framebuffer = "null"
    BY <1>9, <2>2 DEF EnterGame
  <2> QED BY <1>2, <2>3
<1>10. CASE BeginThread \/ BeginCall
  <2>1. /\ guest'.framebuffer = guest.framebuffer /\ guest'.call = guest.call
        /\ UNCHANGED <<vi, overlapped, pc>>
    BY <1>3, <1>10 DEF BeginThread, BeginCall, OnlyGuest, WorldOK
  <2> QED BY <1>1, <1>2, <2>1
<1>11. CASE Store
  <2>1. pc' = pc
    BY <1>11 DEF Store, OnlyGuest
  <2>2. /\ ~overlapped /\ pc["vi"] \notin {"dummy", "copy"}
        /\ guest.target = Other(vi.cur_state)
    <3>1. guest.target \in 0..1
      BY <1>3 DEF WorldOK
    <3>2. overlapped' = (overlapped \/ pc["vi"] \in {"dummy", "copy"} \/ guest.target = vi.cur_state)
      BY <1>3, <1>11, Stores
    <3>3. ~overlapped'
      BY <1>2
    <3>4. ~overlapped /\ pc["vi"] \notin {"dummy", "copy"} /\ guest.target # vi.cur_state
      BY <3>2, <3>3, Zenon
    <3> QED BY <1>4, <3>1, <3>4
  <2>3. vi'.cur_state = vi.cur_state
    BY <1>3, <1>11, Stores DEF WorldOK
  <2>4. Other(vi.cur_state) \in 0..1 /\ vi.states[Other(vi.cur_state)] \in ViState
    BY <1>3, <1>4 DEF WorldOK
  <2>5. CASE guest.call = 3
    <3>1. Set /\ Has(guest.target)
      BY <1>1, <1>3, <2>2, <2>5 DEF CallsOK
    <3>2. guest'.framebuffer = guest.framebuffer
      BY <1>3, <1>11, <2>5, Stores DEF Argument
    <3>3. /\ vi'.states[guest.target].framebuffer = vi.states[guest.target].framebuffer
          /\ vi'.states[guest.target].mq
      BY <1>3, <1>11, <2>2, <2>4, <2>5, Stores DEF WorldOK, ViState
    <3> QED BY <2>1, <2>2, <2>3, <3>1, <3>2, <3>3
  <2>6. CASE guest.call # 3
    <3>1. /\ vi'.states[guest.target].framebuffer = guest'.framebuffer
          /\ vi'.states[guest.target].mq = vi.states[guest.target].mq
      BY <1>3, <1>11, <2>2, <2>4, <2>6, Stores DEF WorldOK, ViState
    <3>2. guest'.call > 3 => guest.call > 3
      BY <1>3, <1>11, <2>6, Stores DEF WorldOK
    <3>3. guest.call > 3 => vi.states[guest.target].mq
      BY <1>1, <1>3, <2>2 DEF WorldOK, CallsOK
    <3> QED BY <2>1, <2>2, <2>3, <3>1, <3>2, <3>3
  <2> QED BY <2>5, <2>6
<1>12. CASE EndWait
  <2>1. /\ guest'.framebuffer = guest.framebuffer /\ guest'.call = guest.call + 1
        /\ guest.at = "wait" /\ UNCHANGED <<vi, overlapped, pc>>
    BY <1>12 DEF EndWait, OnlyGuest
  <2>2. ~(guest'.call > 3)
    BY <1>3, <2>1 DEF CallsOK
  <2> QED BY <1>1, <1>2, <2>1, <2>2
<1>13. CASE UNCHANGED <<vi, guest, overlapped>>
  <2>1. CASE pc'["vi"] = pc["vi"]
    BY <1>1, <1>2, <1>13, <2>1
  <2>2. CASE ViTop
    <3>1. ~NeedsDummy
      BY <1>2, <1>3, <1>13 DEF CallsInOrder, NeedsDummy, GameStarted, WorldOK
    <3>2. pc["vi"] = "top" /\ pc'["vi"] \in {"ended", "swap"}
      BY <1>3, <2>2, <3>1, GoesTo DEF ViTop
    <3> QED BY <1>1, <1>2, <1>13, <3>2
  <2>3. CASE AwaitGfx
    <3>1. guest.call = 0
      <4>1. pc["game"] = "await gfx"
        BY <2>3 DEF AwaitGfx
      <4>2. guest.call \in Nat
        BY <1>3, RuntimeAssumption DEF WorldOK
      <4>3. ~(guest.call > 0)
        BY <4>1 DEF CallsInOrder
      <4> QED BY <4>2, <4>3
    <3> QED BY <1>2, <1>13, <3>1 DEF CallsInOrder
  <2> QED BY <2>1, <2>2, <2>3, <1>5, <1>6, <1>7, <1>8, Movers DEF Vi
<1> QED BY <1>5, <1>6, <1>7, <1>8, <1>9, <1>10, <1>11, <1>12, <1>13, Writers

-----------------------------------------------------------------------------
(* The theorems *)

LEMMA InitHolds == Init => IInv
<1> SUFFICES ASSUME Init PROVE IInv
  OBVIOUS
<1>1. /\ DOMAIN pc = Threads /\ pc["main"] = "start" /\ pc["lifecycle"] = "wait"
      /\ \A t \in Threads \ {"main", "lifecycle"} : pc[t] = "none"
  <2> DEFINE place(t) == CASE t = "main" -> "start" [] t = "lifecycle" -> "wait" [] OTHER -> "none"
  <2>1. pc = [t \in Threads |-> place(t)]
    BY DEF Init
  <2>2. /\ place("main") = "start" /\ place("lifecycle") = "wait"
        /\ \A t : t \notin {"main", "lifecycle"} => place(t) = "none"
    OBVIOUS
  <2> HIDE DEF place
  <2> QED BY <2>1, <2>2 DEF Threads
<1>2. /\ status = [exited |-> FALSE, game_status |-> "None", current_game |-> FALSE]
      /\ quitting = [c \in Callers |-> "not yet"]
      /\ vi = [cur_state |-> 0, first_vi_ready |-> FALSE,
               states |-> [i \in 0..1 |-> [framebuffer |-> "null", mq |-> FALSE]]]
      /\ guest = [call |-> 0, at |-> "none", target |-> 0, framebuffer |-> "null"]
      /\ overlapped = FALSE /\ mods_failed = FALSE
  BY DEF Init
<1>3. Control
  <2>1. PlacesOK
    BY <1>1 DEF PlacesOK, Places, GamePlaces, Threads, Joined
  <2> QED BY <1>1, <2>1 DEF Control, MadeInOrder, JoinedEnded, Passed, Threads, Joined
<1>4. TypeOK
  <2>1. StatusOK
    BY <1>2 DEF StatusOK
  <2>2. guest \in [call : 0..MaxCalls, at : Stations, target : 0..1,
                   framebuffer : Framebuffers \cup {"null"}]
    <3>1. 0 \in 0..MaxCalls
      BY RuntimeAssumption
    <3>2. guest = [call |-> 0, at |-> "none", target |-> 0, framebuffer |-> "null"]
      BY <1>2
    <3> QED BY <3>1, <3>2 DEF Stations
  <2>3. vi \in [cur_state : 0..1, first_vi_ready : BOOLEAN, states : [0..1 -> ViState]]
    <3>1. [framebuffer |-> "null", mq |-> FALSE] \in ViState
      BY DEF ViState
    <3>2. [i \in 0..1 |-> [framebuffer |-> "null", mq |-> FALSE]] \in [0..1 -> ViState]
      BY <3>1
    <3>3. vi = [cur_state |-> 0, first_vi_ready |-> FALSE,
                states |-> [i \in 0..1 |-> [framebuffer |-> "null", mq |-> FALSE]]]
      BY <1>2
    <3> QED BY <3>2, <3>3
  <2> QED BY <1>1, <1>2, <2>1, <2>2, <2>3 DEF TypeOK, StatusOK
<1>5. QuitStored /\ NamedUntilQuit
  BY <1>1, <1>2 DEF QuitStored, NamedUntilQuit, Loading, Alive, Threads, Joined
<1>6. CallsInOrder
  <2>1. guest.call = 0 /\ guest.at = "none" /\ guest.framebuffer = "null"
    BY <1>2
  <2>2. ~Loading
    BY <1>1 DEF Loading, Threads, Joined
  <2> QED BY <2>1, <2>2 DEF CallsInOrder
<1>7. SettingsInCopy /\ SettingsKept
  BY <1>2 DEF SettingsInCopy, SettingsKept
<1> QED BY <1>3, <1>4, <1>5, <1>6, <1>7 DEF IInv

\* The invariant holds in every state, whatever fails and whenever somebody quits.
THEOREM RuntimeInvariant == Spec => []IInv
<1>1. Init => IInv
  BY InitHolds
<1>2. IInv /\ [Next]_vars => IInv'
  <2> SUFFICES ASSUME IInv, [Next]_vars PROVE IInv'
    OBVIOUS
  <2>1. StatusOK /\ WorldOK
    BY DEF IInv, TypeOK, StatusOK, WorldOK, Stations
  <2>2. Control'
    BY ControlStep DEF IInv
  <2>3. TypeOK' /\ QuitStored' /\ NamedUntilQuit'
    BY <2>1, TypeStep, QuitStep, NamedStep DEF IInv
  <2>4. CallsInOrder' /\ SettingsInCopy' /\ SettingsKept'
    BY CallsStep, SettingsStep DEF IInv
  <2> QED BY <2>2, <2>3, <2>4 DEF IInv
<1> QED BY <1>1, <1>2, PTL DEF Spec

\* RDRAM outlives the threads that use it, wherever startup was when somebody
\* quit, and the game is found without a name only after quit().
THEOREM RuntimeSafe == Spec => []RuntimeInv
<1>1. IInv => RuntimeInv
  <2> SUFFICES ASSUME IInv PROVE RuntimeInv
    OBVIOUS
  <2>1. Returned => Passed = Joined \cup {"game"}
    BY DEF Returned, Passed
  <2>2. RdramOutlivesThreads
    BY <2>1 DEF IInv, Control, JoinedEnded, RdramOutlivesThreads, Joined
  <2> QED BY <2>2 DEF IInv, RuntimeInv, NamedUntilQuit, GameIsNamed
<1> QED BY <1>1, RuntimeInvariant, PTL

\* The framebuffer and the retrace queue that the game sets survive every swap,
\* with any number of frames, if no call met the VI thread between its steps.
THEOREM SettingsSurvive == Spec => []SettingsKept
<1>1. IInv => SettingsKept
  BY DEF IInv
<1> QED BY <1>1, RuntimeInvariant, PTL
=============================================================================
