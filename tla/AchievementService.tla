------------------------- MODULE AchievementService -------------------------
(***************************************************************************)
(* The achievement service (src/wr64_achievements.cpp): accounts, game     *)
(* sessions and unlocks over rcheevos, with one worker thread for HTTP and *)
(* for the credentials file.                                               *)
(*                                                                         *)
(* Every call holds service.mutex; the worker takes only io_mutex, to pop  *)
(* an item and to publish its end.  A call is therefore one step: what it  *)
(* does to the queues commutes with the worker, except for the one swap of *)
(* completed.  Calls are functions on the service, a record.               *)
(*                                                                         *)
(* A sign-in, a sign-out or another game retires the current rc_client and *)
(* makes a new one, each with the next account_generation: generations     *)
(* number the clients here.  Of rcheevos there is what its callbacks do to *)
(* a client: a login, a load (one request, activated by a later idle), and *)
(* one achievement, whose submission is retried after an outage.           *)
(***************************************************************************)
EXTENDS Integers, FiniteSets, SequencesExt

CONSTANTS SavedAtFirst,   \* what the credentials file may hold at first
          TypedAccounts,  \* accounts a player signs in with
          None,
          MaxGeneration,  \* bound: commands carried out and queued
          RefreshedIn     \* bound: generations with one refresh by the player

\* The first command, with saved credentials, makes generation 1.
ASSUME BoundsAssumption == MaxGeneration \in Nat \ {0} /\ RefreshedIn \subseteq 0..MaxGeneration

VARIABLES service,      \* the Service, and its rc_clients
          credentials,  \* external: the account in the credentials file
          worker,       \* the worker thread: "waiting", "working", "exited"
          stage,        \* main(): "running", "draining", "joining", "done"
          carried,      \* history: the last command that was carried out
          unremoved     \* history: a removal failed, and left these credentials

vars == <<service, credentials, worker, stage, carried, unremoved>>

Accounts == (SavedAtFirst \ {None}) \cup TypedAccounts

Generations == 0..MaxGeneration

\* Of a generation: the catalogue of the sign-in, refreshes, the end of the game.
Serials == Nat

Command == [logout : BOOLEAN, token : BOOLEAN, remember : BOOLEAN, username : Accounts \cup {None}]
SignOut == [logout |-> TRUE, token |-> FALSE, remember |-> FALSE, username |-> None]
SignIn(u, token, remember) == [logout |-> FALSE, token |-> token, remember |-> remember, username |-> u]

\* Work for the worker.  A catalogue is asked for in two halves.
Item == [kind : {"Login", "Load", "Award", "Data", "Unlocks", "Save", "Remove"},
         owner : Generations, user : Accounts \cup {None}, serial : Serials]
Http(kind, g, u, serial) == [kind |-> kind, owner |-> g, user |-> u, serial |-> serial]
IsHttp(item) == item.kind \notin {"Save", "Remove"}
Removal == Http("Remove", 0, None, 0)

\* How a request ends: an outage is retryable, a refusal is not.
Results(item) == IF item.kind \in {"Login", "Award"} THEN {"ok", "refused", "outage"} ELSE {"ok", "refused"}

\* A client before its login.  "login": the account asked for; "load": a
\* requested game, one that waits for activation, one that is active; "award":
\* "settled" by the server, "cancelled" here; "last_chance", history: an outage
\* answered a submission of the client after it was retired.
Session == [user : Accounts \cup {None}, login : Accounts \cup {None},
            load : {"none", "asked", "ready", "loaded"},
            award : {"locked", "sent", "scheduled", "settled", "cancelled"},
            last_chance : BOOLEAN, retried : BOOLEAN, retired : BOOLEAN, pending : Nat]
NewSession == [user |-> None, login |-> None, load |-> "none", award |-> "locked",
               last_chance |-> FALSE, retried |-> FALSE, retired |-> FALSE, pending |-> 0]

\* Half a catalogue, by the request it answers; serial 0: from a loaded game.
Part == [owner : Generations, serial : Serials]

ASSUME NoneAssumption == /\ None \notin Item
                         /\ None \notin Part /\ None \notin [data : Part, unlocks : Part]

Service == [commands : Seq(Command), work : Seq(Item), active : Item \cup {None},
            completed : Seq([item : Item, result : {"ok", "refused", "outage"}]),
            generation : Generations, session : [Generations -> Session],
            sessions : SUBSET Generations, live_game : BOOLEAN, hash : BOOLEAN,
            load_attempted : BOOLEAN, remember : BOOLEAN, token_login : BOOLEAN,
            busy : BOOLEAN, game_loaded : BOOLEAN, catalog_serial : Serials,
            catalog_busy : BOOLEAN, catalog_data : Part \cup {None},
            catalog_unlocks : Part \cup {None},
            catalog : [data : Part, unlocks : Part] \cup {None},
            notifications : SUBSET Generations,
            stopping : BOOLEAN, stop_worker : BOOLEAN]

\* After initialize(): saved credentials become the first command.
Init ==
  /\ credentials \in SavedAtFirst
  /\ carried = IF credentials = None THEN SignOut ELSE SignIn(credentials, TRUE, TRUE)
  /\ service = [commands |-> IF credentials = None THEN <<>> ELSE <<carried>>,
                work |-> <<>>, active |-> None, completed |-> <<>>, generation |-> 0,
                session |-> [g \in Generations |-> NewSession], sessions |-> {0},
                live_game |-> FALSE, hash |-> FALSE, load_attempted |-> FALSE,
                remember |-> FALSE, token_login |-> FALSE, busy |-> FALSE,
                game_loaded |-> FALSE, catalog_serial |-> 0, catalog_busy |-> FALSE,
                catalog_data |-> None, catalog_unlocks |-> None, catalog |-> None,
                notifications |-> {}, stopping |-> FALSE, stop_worker |-> FALSE]
  /\ worker = "waiting"
  /\ stage = "running"
  /\ unremoved = FALSE

Current(S) == S.session[S.generation]

-----------------------------------------------------------------------------
(* Requests *)

Enqueue(S, item) == [S EXCEPT !.work = Append(@, item)]

\* server_call of a client that may still make requests.
ServerCall(S, item) == Enqueue([S EXCEPT !.session[item.owner].pending = @ + 1], item)

\* rcheevos submits the unlock.  A retired session may do so only while
\* retire_current flushes its scheduled retries; else it is told that the
\* session has closed, which ends the submission without a server's answer.
Submit(S, g, allow_retired_submission) ==
  IF S.session[g].retired /\ ~allow_retired_submission
  THEN [S EXCEPT !.session[g].award = "cancelled"]
  ELSE ServerCall([S EXCEPT !.session[g].award = "sent"],
                  Http("Award", g, S.session[g].user, 0))

\* Mutant: a retired session goes on retrying.
FlushAndSubmit(S, g, submit_scheduled) ==
  IF S.session[g].award = "scheduled" THEN Submit(S, g, TRUE) ELSE S

\* Retries that are due at once, whatever their delay.
FlushRetired(S, g, submit_scheduled) ==
  IF S.session[g].award = "scheduled" THEN Submit(S, g, submit_scheduled) ELSE S

\* Mutant: a retired client's scheduled retry is cancelled, not sent.
RetireCancelling(S) ==
  IF Current(S).retired THEN S
  ELSE FlushRetired([S EXCEPT !.session[S.generation].retired = TRUE,
                              !.session[S.generation].login = None,
                              !.session[S.generation].load = IF @ = "loaded" THEN @ ELSE "none"],
                    S.generation, FALSE)

\* The login is aborted, an unfinished load unloaded; a loaded game stays, for
\* the answers of its submissions.
RetireCurrent(S) ==
  IF Current(S).retired THEN S
  ELSE FlushRetired([S EXCEPT !.session[S.generation].retired = TRUE,
                              !.session[S.generation].login = None,
                              !.session[S.generation].load = IF @ = "loaded" THEN @ ELSE "none"],
                    S.generation, TRUE)

\* Mutant: a retired client goes at once.
DestroyedWhenRetired(S, g) == g # S.generation /\ S.session[g].retired

\* A retired client is destroyed when none of its requests is left.
Destroyed(S, g) == g # S.generation /\ S.session[g].retired /\ S.session[g].pending = 0

CollectSessions(S) ==
  [S EXCEPT !.sessions = {g \in @ : ~Destroyed(S, g)},
            !.session = [g \in Generations |->
              IF g \in S.sessions /\ Destroyed(S, g)
              THEN [NewSession EXCEPT !.retired = TRUE, !.pending = S.session[g].pending,
                                      !.award = S.session[g].award,
                                      !.last_chance = S.session[g].last_chance]
              ELSE @[g]]]

\* retire_current and create_client, and a view without the old account.  Serial
\* numbers are compared within a generation only, and start again with it.
ClearAccount(S) ==
  LET R == RetireCurrent(S)
      N == [R EXCEPT !.generation = @ + 1, !.sessions = @ \cup {R.generation + 1}]
  IN [CollectSessions(N) EXCEPT
        !.game_loaded = FALSE, !.busy = FALSE, !.catalog_serial = 0,
        !.catalog = None, !.catalog_data = None, !.catalog_unlocks = None,
        !.catalog_busy = FALSE, !.notifications = {}, !.load_attempted = FALSE]

-----------------------------------------------------------------------------
(* The catalogue: what the browsing view shows of an account *)

\* The limit of one request in five seconds is the caller's choice.
BeginCatalog(S) ==
  IF S.stopping \/ Current(S).retired \/ S.catalog_busy \/ Current(S).user = None THEN S
  ELSE LET A == [S EXCEPT !.catalog_serial = @ + 1, !.catalog_busy = TRUE,
                          !.catalog_data = None, !.catalog_unlocks = None]
           Half(kind) == Http(kind, A.generation, Current(A).user, A.catalog_serial)
       IN ServerCall(ServerCall(A, Half("Data")), Half("Unlocks"))

\* Mutant: an answer counts whenever an answer is awaited.
WantedWhenBusy(S, item) == S.catalog_busy

\* An answer counts for the account and the refresh that asked.
Wanted(S, item) ==
  /\ ~S.stopping
  /\ item.owner = S.generation /\ ~Current(S).retired
  /\ item.serial = S.catalog_serial
  /\ S.catalog_busy

CatalogResponse(S, item, result) ==
  LET part == [owner |-> item.owner, serial |-> item.serial]
      A == IF item.kind = "Data" THEN [S EXCEPT !.catalog_data = part]
                                 ELSE [S EXCEPT !.catalog_unlocks = part]
  IN CASE ~Wanted(S, item) -> S
       [] Wanted(S, item) /\ result # "ok" -> [S EXCEPT !.catalog_busy = FALSE,
                                                          !.catalog_data = None, !.catalog_unlocks = None]
       [] OTHER ->
            IF None \in {A.catalog_data, A.catalog_unlocks} THEN A
            ELSE [A EXCEPT !.catalog_busy = FALSE, !.catalog_data = None, !.catalog_unlocks = None,
                           !.catalog = IF S.game_loaded THEN @
                                       ELSE [data |-> A.catalog_data, unlocks |-> A.catalog_unlocks]]

\* refresh: a loaded game is its own catalogue.
Refresh(S) ==
  LET played == [owner |-> S.generation, serial |-> 0]
  IN IF S.game_loaded THEN [S EXCEPT !.catalog = [data |-> played, unlocks |-> played]] ELSE S

-----------------------------------------------------------------------------
(* Callbacks *)

\* logged_in and loaded ignore a client that is not the current one.
Listening(S, g) == g = S.generation /\ ~Current(S).retired /\ ~S.stopping

\* Mutant: a failed sign-in stays busy.
LoggedInBusy(S, g, u, result) ==
  IF Listening(S, g) /\ result = "ok" THEN BeginCatalog([S EXCEPT !.busy = FALSE]) ELSE S

LoggedIn(S, g, u, result) ==
  LET A == [S EXCEPT !.busy = FALSE]
      saved == Http("Save", g, u, 0)
      B == IF A.remember THEN Enqueue(A, saved) ELSE A
  IN CASE ~Listening(S, g) -> S
       [] Listening(S, g) /\ result = "ok" -> BeginCatalog([B EXCEPT !.load_attempted = FALSE])
       [] OTHER -> IF result = "refused" /\ A.token_login THEN Enqueue(A, Removal) ELSE A

\* rcheevos drops the answer of an aborted login.
LoginResponse(S, g, u, result) ==
  IF S.session[g].login = None THEN S
  ELSE LoggedIn([S EXCEPT !.session[g].login = None,
                          !.session[g].user = IF result = "ok" THEN u ELSE @], g, u, result)

Loaded(S, g, ok) ==
  IF ~Listening(S, g) THEN S
  ELSE [S EXCEPT !.busy = FALSE, !.game_loaded = ok,
                 !.session[g].load = IF ok THEN "loaded" ELSE "none"]

\* A good answer waits for a frame: only there may memory be validated.
LoadResponse(S, g, result) ==
  CASE S.session[g].load # "asked" -> S
    [] S.session[g].load = "asked" /\ result = "ok" -> [S EXCEPT !.session[g].load = "ready"]
    [] OTHER -> Loaded(S, g, FALSE)

\* The first retry is made at once, later ones after a delay.
AwardResponse(S, g, result) ==
  CASE result # "outage" -> [S EXCEPT !.session[g].award = "settled"]
    [] result = "outage" /\ ~S.session[g].retried ->
         Submit([S EXCEPT !.session[g].retried = TRUE,
                          !.session[g].last_chance = @ \/ S.session[g].retired], g, FALSE)
    [] OTHER -> [S EXCEPT !.session[g].award = "scheduled",
                          !.session[g].last_chance = @ \/ S.session[g].retired]

Callback(S, item, result) ==
  CASE item.kind = "Login" -> LoginResponse(S, item.owner, item.user, result)
    [] item.kind = "Load"  -> LoadResponse(S, item.owner, result)
    [] item.kind = "Award" -> AwardResponse(S, item.owner, result)
    [] OTHER               -> CatalogResponse(S, item, result)

Respond(S, done) ==
  LET g == done.item.owner
      A == Callback(S, done.item, done.result)
      B == IF A.session[g].retired THEN FlushRetired(A, g, FALSE) ELSE A
  IN [B EXCEPT !.session[g].pending = @ - 1]

\* The answers that were there at the swap, each after the one before it.
FinishResponses(S) ==
  LET after[n \in 0..Len(S.completed)] ==
        IF n = 0 THEN [S EXCEPT !.completed = <<>>] ELSE Respond(after[n - 1], S.completed[n])
  IN after[Len(S.completed)]

-----------------------------------------------------------------------------
(* The pump *)

\* Mutant: the saved credentials are only removed by a sign-out.
CarryKeeping(S, c) ==
  LET A == ClearAccount(S)
      B == IF c.logout THEN Enqueue(A, Removal) ELSE A
  IN IF c.logout THEN B
     ELSE ServerCall([B EXCEPT !.remember = c.remember, !.token_login = c.token, !.busy = TRUE,
                               !.session[B.generation].login = c.username],
                     Http("Login", B.generation, c.username, 0))

\* One command: the old account goes; a sign-in begins.
Carry(S, c) ==
  LET A == ClearAccount(S)
      B == IF c.token THEN A ELSE Enqueue(A, Removal)
  IN IF c.logout THEN B
     ELSE ServerCall([B EXCEPT !.remember = c.remember, !.token_login = c.token, !.busy = TRUE,
                               !.session[B.generation].login = c.username],
                     Http("Login", B.generation, c.username, 0))

ProcessCommands(S) ==
  LET after[n \in 0..Len(S.commands)] ==
        IF n = 0 THEN [S EXCEPT !.commands = <<>>] ELSE Carry(after[n - 1], S.commands[n])
  IN after[Len(S.commands)]

\* All commands, all answers, and the load of an identified game if the
\* caller may read its memory.
Pump(S, memory) ==
  LET B == CollectSessions(FinishResponses(ProcessCommands(S)))
  IN IF /\ memory /\ B.hash /\ ~B.load_attempted
        /\ ~Current(B).retired /\ Current(B).user # None
     THEN ServerCall([B EXCEPT !.load_attempted = TRUE, !.busy = TRUE,
                               !.session[B.generation].load = "asked"],
                     Http("Load", B.generation, Current(B).user, 0))
     ELSE B

\* rc_client_idle: activation, and a retry if its time has come.
Idle(S, due) ==
  LET g == S.generation
      A == IF due /\ Current(S).award = "scheduled" THEN Submit(S, g, FALSE) ELSE S
  IN IF Current(A).load = "ready" THEN Loaded(A, g, TRUE) ELSE A

\* rc_client_do_frame: the game may trigger the achievement.
DoFrame(S, triggered, due) ==
  LET g == S.generation
      unlocks == triggered /\ Current(S).load = "loaded" /\ Current(S).award = "locked"
      A == IF unlocks THEN [Submit(S, g, FALSE) EXCEPT !.notifications = @ \cup {g}] ELSE S
  IN Idle(A, due)

-----------------------------------------------------------------------------
(* The calls *)

Unchanged == UNCHANGED <<credentials, worker, stage, unremoved>>
Running == ~service.stopping

\* Bound: a queued command makes a generation when it is carried out.
Room(n) == service.generation + Len(service.commands) + n <= MaxGeneration

RequestLogin(u, remember) ==
  /\ Running /\ Room(1)
  /\ service' = [service EXCEPT !.commands = Append(@, SignIn(u, FALSE, remember))]
  /\ Unchanged /\ UNCHANGED carried

RequestLogout ==
  /\ Running /\ Room(1)
  /\ service' = [service EXCEPT !.commands = Append(@, SignOut)]
  /\ Unchanged /\ UNCHANGED carried

RequestCatalogRefresh ==
  /\ service.generation \in RefreshedIn /\ service.catalog_serial < 2
  /\ service' = BeginCatalog(service)
  /\ Unchanged /\ UNCHANGED carried

DrainNotifications ==
  /\ service' = [service EXCEPT !.notifications = {}]
  /\ Unchanged /\ UNCHANGED carried

CarriedOut == carried' = IF service.commands = <<>> THEN carried ELSE Last(service.commands)

UiTick(due) ==
  /\ Running
  /\ LET S == Pump(service, FALSE)
     IN service' = Refresh(IF ~S.live_game /\ ~Current(S).retired THEN Idle(S, due) ELSE S)
  /\ CarriedOut /\ Unchanged

NativeFrame(triggered, due) ==
  /\ Running
  /\ service.live_game /\ ~Current(service).retired
  /\ LET S == Pump(service, TRUE)
     IN service' = Refresh(IF ~Current(S).retired THEN DoFrame(S, triggered, due) ELSE S)
  /\ CarriedOut /\ Unchanged

\* A new game after another one gets a new client, and the signed-in identity
\* a login of its own.
SetGameIdentity(hash) ==
  /\ Running
  /\ LET new_client == Current(service).retired \/ Current(service).load # "none"
         user == Current(service).user
         A == IF new_client THEN ClearAccount(service) ELSE service
         B == IF new_client /\ user # None
              THEN [A EXCEPT !.commands = Append(@, SignIn(user, TRUE, service.remember))]
              ELSE A
     IN /\ new_client => Room(2)
        /\ service' = [B EXCEPT !.hash = hash, !.live_game = TRUE,
                                !.game_loaded = FALSE, !.load_attempted = FALSE]
  /\ Unchanged /\ UNCHANGED carried

\* A second call would change nothing but the serial.
GameStopped ==
  /\ stage = "running" /\ ~Current(service).retired
  /\ LET S == Refresh(service)
         R == RetireCurrent([S EXCEPT !.catalog_serial = @ + 1, !.catalog_busy = FALSE])
     IN service' = [R EXCEPT !.hash = FALSE, !.live_game = FALSE, !.game_loaded = FALSE]
  /\ Unchanged /\ UNCHANGED carried

-----------------------------------------------------------------------------
(* The worker *)

TakeWork ==
  /\ worker = "waiting" /\ ~service.stop_worker /\ service.work # <<>>
  /\ service' = [service EXCEPT !.active = Head(service.work), !.work = Tail(@)]
  /\ worker' = "working"
  /\ UNCHANGED <<credentials, stage, carried, unremoved>>

\* A save or a removal may fail, and leaves the file as it was: neither error
\* is heard of again.
FinishWork(result) ==
  /\ worker = "working"
  /\ result \in IF IsHttp(service.active) THEN Results(service.active) ELSE {"ok", "refused"}
  /\ credentials' = CASE service.active.kind = "Remove" /\ result = "ok" -> None
                      [] service.active.kind = "Save" /\ result = "ok"   -> service.active.user
                      [] OTHER -> credentials
  /\ unremoved' = CASE service.active.kind = "Remove" -> result # "ok" /\ credentials # None
                    [] service.active.kind = "Save" /\ result = "ok" -> FALSE
                    [] OTHER -> unremoved
  /\ service' = [service EXCEPT
       !.active = None,
       !.completed = IF IsHttp(service.active)
                     THEN Append(@, [item |-> service.active, result |-> result]) ELSE @]
  /\ worker' = "waiting"
  /\ UNCHANGED <<stage, carried>>

StopWorker ==
  /\ worker = "waiting" /\ service.stop_worker
  /\ worker' = "exited"
  /\ UNCHANGED <<service, credentials, stage, carried, unremoved>>

-----------------------------------------------------------------------------
(* shutdown *)

\* Mutant: commands that were not carried out are dropped.
DroppedAtShutdown == 0

\* The sign-outs among the commands still remove the credentials.
SignOutsAtShutdown == Cardinality({i \in DOMAIN service.commands : service.commands[i].logout})

BeginShutdown ==
  /\ stage = "running"
  /\ LET S == RetireCurrent([service EXCEPT !.stopping = TRUE, !.live_game = FALSE])
         removals == [i \in 1..SignOutsAtShutdown |-> Removal]
     IN service' = [S EXCEPT !.work = @ \o removals, !.commands = <<>>]
  /\ carried' = IF \E i \in DOMAIN service.commands : service.commands[i].logout
                THEN SignOut ELSE carried
  /\ stage' = "draining"
  /\ UNCHANGED <<credentials, worker, unremoved>>

Pending(S) == \E g \in S.sessions : S.session[g].pending # 0

Drained(S) == ~Pending(S) /\ S.active = None /\ S.work = <<>> /\ S.completed = <<>>

\* One turn of the loop; the wait at its end is over after 25 ms at the latest.
Drain ==
  /\ stage = "draining"
  /\ LET S == CollectSessions(FinishResponses(service))
     IN /\ service' = [S EXCEPT !.stop_worker = Drained(S)]
        /\ stage' = IF Drained(S) THEN "joining" ELSE "draining"
  /\ UNCHANGED <<credentials, worker, carried, unremoved>>

Join ==
  /\ stage = "joining" /\ worker = "exited"
  /\ service' = [service EXCEPT !.sessions = {}]
  /\ stage' = "done"
  /\ UNCHANGED <<credentials, worker, carried, unremoved>>

Next ==
  \/ \E u \in TypedAccounts, remember \in BOOLEAN : RequestLogin(u, remember)
  \/ RequestLogout
  \/ RequestCatalogRefresh
  \/ DrainNotifications
  \/ \E due \in BOOLEAN : UiTick(due)
  \/ \E triggered \in BOOLEAN, due \in BOOLEAN : NativeFrame(triggered, due)
  \/ \E hash \in BOOLEAN : SetGameIdentity(hash)
  \/ GameStopped
  \/ TakeWork
  \/ \E result \in {"ok", "refused", "outage"} : FinishWork(result)
  \/ StopWorker
  \/ BeginShutdown
  \/ Drain
  \/ Join

Work == TakeWork \/ (\E result \in {"ok", "refused", "outage"} : FinishWork(result)) \/ StopWorker

\* When a tick, a frame and a turn of shutdown's loop have something to do.
TickDue == Running /\ (service.commands # <<>> \/ service.completed # <<>>)
FrameDue ==
  /\ Running
  /\ service.live_game /\ ~Current(service).retired
  /\ \/ service.commands # <<>> \/ service.completed # <<>>
     \/ Current(service).load = "ready"
     \/ service.hash /\ ~service.load_attempted /\ Current(service).user # None
DrainDue ==
  /\ stage = "draining"
  /\ service.completed # <<>> \/ (service.work = <<>> /\ service.active = None)

\* Weak fairness of the worker, of the frontend, which ticks once a frame, of the
\* frames of a live game, and of main() once it shuts down.  Written out with what
\* enables a step, which is far cheaper to evaluate than ENABLED.  Of the endless
\* frames, most neither trigger the achievement nor meet a retry, whose delay is
\* a second at least.
Fairness ==
  /\ WF_vars(Work)
  /\ WF_vars(Join)
  /\ []<>~TickDue \/ []<><<UiTick(FALSE)>>_vars
  /\ []<>~FrameDue \/ []<><<NativeFrame(FALSE, FALSE)>>_vars
  /\ []<>~DrainDue \/ []<><<Drain>>_vars

Spec == Init /\ [][Next]_vars /\ Fairness

-----------------------------------------------------------------------------
(* Properties *)

TypeOK == /\ service \in Service
          /\ credentials \in Accounts \cup {None}
          /\ worker \in {"waiting", "working", "exited"}
          /\ stage \in {"running", "draining", "joining", "done"}
          /\ carried \in Command
          /\ unremoved \in BOOLEAN

\* All requests of a client, wherever they are.
Requests(g) ==
  {i \in DOMAIN service.work : IsHttp(service.work[i]) /\ service.work[i].owner = g}
Answers(g) == {i \in DOMAIN service.completed : service.completed[i].item.owner = g}
InHand(g) == IF service.active # None /\ IsHttp(service.active) /\ service.active.owner = g THEN 1 ELSE 0

\* The counter that keeps a retired client alive counts its requests: none is
\* answered into a destroyed client ("The worker owns the callback and
\* originating client", wr64_achievements.cpp:396).
ClientsOutliveRequests ==
  \A g \in Generations :
    /\ service.session[g].pending = Cardinality(Requests(g)) + Cardinality(Answers(g)) + InHand(g)
    /\ service.session[g].pending # 0 => g \in service.sessions

\* The two, which every step leaves true.
ClientsInv == TypeOK /\ ClientsOutliveRequests

\* With nothing left for the worker, the file holds the account of the last
\* sign-in that was carried out, if that was to be remembered, or nothing; and
\* nothing after a sign-out.  Removals and saves are requested in the order of the
\* commands and done in that order (wr64_achievements.cpp:544).  Only a removal
\* that failed leaves another account: remove_credentials ignores the error.  The
\* restore of set_game_identity is a sign-in like others: behind a sign-out that
\* is still queued it brings back the token that the sign-out removes.
CredentialsFollowCommands ==
  (service.work = <<>> /\ service.active = None /\ credentials # None) =>
    \/ unremoved
    \/ ~carried.logout /\ carried.remember /\ credentials = carried.username

\* What is browsed and announced belongs to the current client, and a catalogue
\* has both halves from one refresh.
ShownIsCurrent ==
  /\ service.catalog # None =>
       /\ service.catalog.data = service.catalog.unlocks
       /\ service.catalog.data.owner = service.generation
  /\ service.notifications \subseteq {service.generation}
  /\ (service.game_loaded /\ ~service.stopping) =>
       Current(service).load = "loaded" /\ ~Current(service).retired

\* No unlock is given up unsent: a submission is cancelled only after an outage
\* answered one that was made or still under way when its client was retired, and
\* when the worker is stopped each has ended ("Retired sessions allow one
\* already-scheduled retry, then terminate further failures locally", line 709).
UnlocksGetLastChance ==
  /\ \A g \in Generations :
       service.session[g].award = "cancelled" => service.session[g].last_chance
  /\ stage \in {"joining", "done"} =>
       \A g \in Generations : service.session[g].award \in {"locked", "settled", "cancelled"}

\* A sign-in or a load in progress ends, unless the game or the program does.
BusyEnds ==
  service.busy ~> (~service.busy \/ Current(service).retired \/ service.stopping)

\* shutdown returns, whatever the server answers.
ShutdownEnds == (stage = "draining") ~> (stage = "done")
=============================================================================
