------------------------ MODULE SavingThreadProofs ------------------------
(***************************************************************************)
(* The saving thread, for any images, either build and any cap: no write   *)
(* is forgotten, and the last image saved stays on disk.                   *)
(***************************************************************************)
EXTENDS SavingThread, TLAPS

\* A sound process holds an image, and what it has written to the temporary
\* file by the time it touches the others is one.
Whole ==
  sound => /\ buffer \in Images
           /\ (~in_place /\ thread \in {"backup", "backing", "replace", "replacing"})
                => temporary \in Images

\* Where the image last saved is, step by step.
KeptAt ==
  (sound /\ ~in_place /\ last # Absent) =>
    CASE thread = "backing"   -> last = primary
      [] thread = "replace"   -> last = backup /\ primary \in {last, Absent}
      [] thread = "replacing" -> last = backup
      [] OTHER                -> last = primary \/ (primary = Absent /\ last = backup)

\* A write that no save has taken has a signal, or a save to come, or a
\* reported failure.
Outstanding ==
  owed => \/ signals > 0 \/ writer = "signalling"
          \/ thread = "waiting" /\ num_actions > 0
          \/ thread \in {"open", "write"}
          \/ thread \in {"test", "waiting", "ended"} /\ saving_failed

\* Where the contents of the buffer are once a save has taken them.
TakenAt ==
  (sound /\ ~owed) =>
    /\ (thread \in {"backup", "backing", "replace", "replacing"} /\ ~in_place) => temporary = buffer
    /\ (thread = "remove" /\ ~in_place) => primary = buffer
    /\ (thread \in {"test", "waiting", "ended"} /\ ~saving_failed) => Loaded = buffer

\* The Switch build returns from the write.
Branch == in_place => thread \notin {"backup", "backing", "replace", "replacing", "remove"}

\* The inductive invariant.
IInv == TypeOK /\ Whole /\ KeptAt /\ Outstanding /\ TakenAt /\ Branch

LEMMA InitHolds == Init => IInv
<1> SUFFICES ASSUME Init PROVE IInv
  OBVIOUS
<1> USE ImagesAssumption, ActionsAssumption
<1>1. TypeOK
  <2>1. {primary, backup, temporary} \subseteq File
    BY DEF Init, File, Contents
  <2>2. Opened \in File
    BY DEF Init, Opened, File, Contents
  <2>3. Loaded \in Contents /\ Kept(Opened) \in Images \cup {Absent}
    BY <2>2 DEF Loaded, Kept, File, Contents
  <2>4. in_place \in BOOLEAN /\ sound \in BOOLEAN
    BY DEF Init
  <2>5. signals = 0 /\ writer = "idle" /\ owed = FALSE /\ exited = FALSE
    BY DEF Init
  <2>6. thread = "test" /\ num_actions = 0 /\ saving_failed = FALSE
    BY DEF Init
  <2>7. buffer \in Contents /\ last \in Images \cup {Absent}
    BY <2>3 DEF Init
  <2>8. signals \in 0..MaxSignals /\ num_actions \in 0..max_actions
    BY <2>5, <2>6
  <2>9. exited \in BOOLEAN /\ owed \in BOOLEAN /\ saving_failed \in BOOLEAN
    BY <2>5, <2>6
  <2> QED
    BY <2>1, <2>4, <2>5, <2>6, <2>7, <2>8, <2>9 DEF TypeOK
<1>2. Whole
  BY DEF Init, Whole, Loaded, Opened
<1>3. KeptAt
  BY DEF Init, KeptAt, Kept, Opened
<1>4. Outstanding /\ TakenAt /\ Branch
  BY DEF Init, Outstanding, TakenAt, Branch
<1> QED
  BY <1>1, <1>2, <1>3, <1>4 DEF IInv

LEMMA SaveWriteStep == ASSUME NEW image \in Images, IInv, SaveWrite(image) PROVE IInv'
<1> USE ImagesAssumption, ActionsAssumption
<1>1. TypeOK'
  BY DEF IInv, TypeOK, SaveWrite, disk, caller, File, Contents
<1>2. Whole'
  BY DEF IInv, TypeOK, Whole, SaveWrite, disk, caller, File, Contents
<1>3. KeptAt'
  BY DEF IInv, TypeOK, Whole, KeptAt, Branch, SaveWrite, disk, caller, File, Contents
<1>4. Outstanding'
  BY DEF IInv, TypeOK, Outstanding, SaveWrite, disk, caller
<1>5. TakenAt'
  BY DEF IInv, TypeOK, Whole, Outstanding, TakenAt, Branch, SaveWrite, disk, caller, Loaded, Opened, File, Contents
<1>6. Branch'
  BY DEF IInv, TypeOK, Branch, SaveWrite, disk, caller
<1> QED
  BY <1>1, <1>2, <1>3, <1>4, <1>5, <1>6 DEF IInv

LEMMA SignalStep == IInv /\ Signal => IInv'
<1> SUFFICES ASSUME IInv, Signal PROVE IInv'
  OBVIOUS
<1> USE ImagesAssumption, ActionsAssumption
<1>1. TypeOK'
  BY DEF IInv, TypeOK, Signal, disk, caller, File, Contents
<1>2. Whole'
  BY DEF IInv, TypeOK, Whole, Signal, disk, caller, File, Contents
<1>3. KeptAt'
  BY DEF IInv, TypeOK, Whole, KeptAt, Branch, Signal, disk, caller, File, Contents
<1>4. Outstanding'
  BY DEF IInv, TypeOK, Outstanding, Signal, disk, caller
<1>5. TakenAt'
  BY DEF IInv, TypeOK, Whole, Outstanding, TakenAt, Branch, Signal, disk, caller, Loaded, Opened, File, Contents
<1>6. Branch'
  BY DEF IInv, TypeOK, Branch, Signal, disk, caller
<1> QED
  BY <1>1, <1>2, <1>3, <1>4, <1>5, <1>6 DEF IInv

LEMMA QuitStep == IInv /\ Quit => IInv'
<1> SUFFICES ASSUME IInv, Quit PROVE IInv'
  OBVIOUS
<1> USE ImagesAssumption, ActionsAssumption
<1>1. TypeOK'
  BY DEF IInv, TypeOK, Quit, disk, caller, File, Contents
<1>2. Whole'
  BY DEF IInv, TypeOK, Whole, Quit, disk, caller, File, Contents
<1>3. KeptAt'
  BY DEF IInv, TypeOK, Whole, KeptAt, Branch, Quit, disk, caller, File, Contents
<1>4. Outstanding'
  BY DEF IInv, TypeOK, Outstanding, Quit, disk, caller
<1>5. TakenAt'
  BY DEF IInv, TypeOK, Whole, Outstanding, TakenAt, Branch, Quit, disk, caller, Loaded, Opened, File, Contents
<1>6. Branch'
  BY DEF IInv, TypeOK, Branch, Quit, disk, caller
<1> QED
  BY <1>1, <1>2, <1>3, <1>4, <1>5, <1>6 DEF IInv

LEMMA TestStep == IInv /\ Test => IInv'
<1> SUFFICES ASSUME IInv, Test PROVE IInv'
  OBVIOUS
<1> USE ImagesAssumption, ActionsAssumption
<1>1. TypeOK'
  BY DEF IInv, TypeOK, Test, disk, caller, File, Contents, Goes, Stops
<1>2. Whole'
  BY DEF IInv, TypeOK, Whole, Test, disk, caller, File, Contents, Goes, Stops
<1>3. KeptAt'
  BY DEF IInv, TypeOK, Whole, KeptAt, Branch, Test, disk, caller, File, Contents, Goes, Stops
<1>4. Outstanding'
  BY DEF IInv, TypeOK, Outstanding, Test, disk, caller, Goes, Stops
<1>5. TakenAt'
  BY DEF IInv, TypeOK, Whole, Outstanding, TakenAt, Branch, Test, disk, caller, Loaded, Opened, File, Contents, Goes, Stops
<1>6. Branch'
  BY DEF IInv, TypeOK, Branch, Test, disk, caller, Goes, Stops
<1> QED
  BY <1>1, <1>2, <1>3, <1>4, <1>5, <1>6 DEF IInv

LEMMA TakeSignalStep == IInv /\ TakeSignal => IInv'
<1> SUFFICES ASSUME IInv, TakeSignal PROVE IInv'
  OBVIOUS
<1> USE ImagesAssumption, ActionsAssumption
<1>1. TypeOK'
  BY DEF IInv, TypeOK, TakeSignal, disk, caller, File, Contents, Room, Counted
<1>2. Whole'
  BY DEF IInv, TypeOK, Whole, TakeSignal, disk, caller, File, Contents, Room, Counted
<1>3. KeptAt'
  BY DEF IInv, TypeOK, Whole, KeptAt, Branch, TakeSignal, disk, caller, File, Contents, Room, Counted
<1>4. Outstanding'
  BY DEF IInv, TypeOK, Outstanding, TakeSignal, disk, caller, Room, Counted
<1>5. TakenAt'
  BY DEF IInv, TypeOK, Whole, Outstanding, TakenAt, Branch, TakeSignal, disk, caller, Loaded, Opened, File, Contents, Room, Counted
<1>6. Branch'
  BY DEF IInv, TypeOK, Branch, TakeSignal, disk, caller, Room, Counted
<1> QED
  BY <1>1, <1>2, <1>3, <1>4, <1>5, <1>6 DEF IInv

LEMMA TimeOutStep == IInv /\ TimeOut => IInv'
<1> SUFFICES ASSUME IInv, TimeOut PROVE IInv'
  OBVIOUS
<1> USE ImagesAssumption, ActionsAssumption
<1>1. TypeOK'
  BY DEF IInv, TypeOK, TimeOut, disk, caller, File, Contents, Goes, Due
<1>2. Whole'
  BY DEF IInv, TypeOK, Whole, TimeOut, disk, caller, File, Contents, Goes, Due
<1>3. KeptAt'
  BY DEF IInv, TypeOK, Whole, KeptAt, Branch, TimeOut, disk, caller, File, Contents, Goes, Due
<1>4. Outstanding'
  BY DEF IInv, TypeOK, Outstanding, TimeOut, disk, caller, Goes, Due
<1>5. TakenAt'
  BY DEF IInv, TypeOK, Whole, Outstanding, TakenAt, Branch, TimeOut, disk, caller, Loaded, Opened, File, Contents, Goes, Due
<1>6. Branch'
  BY DEF IInv, TypeOK, Branch, TimeOut, disk, caller, Goes, Due
<1> QED
  BY <1>1, <1>2, <1>3, <1>4, <1>5, <1>6 DEF IInv

LEMMA OpenStep == IInv /\ Open => IInv'
<1> SUFFICES ASSUME IInv, Open PROVE IInv'
  OBVIOUS
<1> USE ImagesAssumption, ActionsAssumption
<1>1. TypeOK'
  BY DEF IInv, TypeOK, Open, disk, caller, File, Contents, Returns
<1>2. Whole'
  BY DEF IInv, TypeOK, Whole, Open, disk, caller, File, Contents, Returns
<1>3. KeptAt'
  BY DEF IInv, TypeOK, Whole, KeptAt, Branch, Open, disk, caller, File, Contents, Returns
<1>4. Outstanding'
  BY DEF IInv, TypeOK, Outstanding, Open, disk, caller, Returns
<1>5. TakenAt'
  BY DEF IInv, TypeOK, Whole, Outstanding, TakenAt, Branch, Open, disk, caller, Loaded, Opened, File, Contents, Returns
<1>6. Branch'
  BY DEF IInv, TypeOK, Branch, Open, disk, caller, Returns
<1> QED
  BY <1>1, <1>2, <1>3, <1>4, <1>5, <1>6 DEF IInv

LEMMA WriteStep == IInv /\ Write => IInv'
<1> SUFFICES ASSUME IInv, Write PROVE IInv'
  OBVIOUS
<1> USE ImagesAssumption, ActionsAssumption
<1>1. TypeOK'
  BY DEF IInv, TypeOK, Write, disk, caller, File, Contents, Returns
<1>2. Whole'
  BY DEF IInv, TypeOK, Whole, Write, disk, caller, File, Contents, Returns
<1>3. KeptAt'
  BY DEF IInv, TypeOK, Whole, KeptAt, Branch, Write, disk, caller, File, Contents, Returns
<1>4. Outstanding'
  BY DEF IInv, TypeOK, Outstanding, Write, disk, caller, Returns
<1>5. TakenAt'
  BY DEF IInv, TypeOK, Whole, Outstanding, TakenAt, Branch, Write, disk, caller, Loaded, Opened, File, Contents, Returns
<1>6. Branch'
  BY DEF IInv, TypeOK, Branch, Write, disk, caller, Returns
<1> QED
  BY <1>1, <1>2, <1>3, <1>4, <1>5, <1>6 DEF IInv

LEMMA StartBackupStep == IInv /\ StartBackup => IInv'
<1> SUFFICES ASSUME IInv, StartBackup PROVE IInv'
  OBVIOUS
<1> USE ImagesAssumption, ActionsAssumption
<1>1. TypeOK'
  BY DEF IInv, TypeOK, StartBackup, disk, caller, File, Contents, Returns, NewFile
<1>2. Whole'
  BY DEF IInv, TypeOK, Whole, StartBackup, disk, caller, File, Contents, Returns, NewFile
<1>3. KeptAt'
  BY DEF IInv, TypeOK, Whole, KeptAt, Branch, StartBackup, disk, caller, File, Contents, Returns, NewFile
<1>4. Outstanding'
  BY DEF IInv, TypeOK, Outstanding, StartBackup, disk, caller, Returns, NewFile
<1>5. TakenAt'
  BY DEF IInv, TypeOK, Whole, Outstanding, TakenAt, Branch, StartBackup, disk, caller, Loaded, Opened, File, Contents, Returns, NewFile
<1>6. Branch'
  BY DEF IInv, TypeOK, Branch, StartBackup, disk, caller, Returns, NewFile
<1> QED
  BY <1>1, <1>2, <1>3, <1>4, <1>5, <1>6 DEF IInv

LEMMA FinishBackupStep == IInv /\ FinishBackup => IInv'
<1> SUFFICES ASSUME IInv, FinishBackup PROVE IInv'
  OBVIOUS
<1> USE ImagesAssumption, ActionsAssumption
<1>1. TypeOK'
  BY DEF IInv, TypeOK, FinishBackup, disk, caller, File, Contents, Returns
<1>2. Whole'
  BY DEF IInv, TypeOK, Whole, FinishBackup, disk, caller, File, Contents, Returns
<1>3. KeptAt'
  BY DEF IInv, TypeOK, Whole, KeptAt, Branch, FinishBackup, disk, caller, File, Contents, Returns
<1>4. Outstanding'
  BY DEF IInv, TypeOK, Outstanding, FinishBackup, disk, caller, Returns
<1>5. TakenAt'
  BY DEF IInv, TypeOK, Whole, Outstanding, TakenAt, Branch, FinishBackup, disk, caller, Loaded, Opened, File, Contents, Returns
<1>6. Branch'
  BY DEF IInv, TypeOK, Branch, FinishBackup, disk, caller, Returns
<1> QED
  BY <1>1, <1>2, <1>3, <1>4, <1>5, <1>6 DEF IInv

LEMMA StartReplaceStep == IInv /\ StartReplace => IInv'
<1> SUFFICES ASSUME IInv, StartReplace PROVE IInv'
  OBVIOUS
<1> USE ImagesAssumption, ActionsAssumption
<1>1. TypeOK'
  BY DEF IInv, TypeOK, StartReplace, disk, caller, File, Contents, Returns
<1>2. Whole'
  BY DEF IInv, TypeOK, Whole, StartReplace, disk, caller, File, Contents, Returns
<1>3. KeptAt'
  BY DEF IInv, TypeOK, Whole, KeptAt, Branch, StartReplace, disk, caller, File, Contents, Returns
<1>4. Outstanding'
  BY DEF IInv, TypeOK, Outstanding, StartReplace, disk, caller, Returns
<1>5. TakenAt'
  BY DEF IInv, TypeOK, Whole, Outstanding, TakenAt, Branch, StartReplace, disk, caller, Loaded, Opened, File, Contents, Returns
<1>6. Branch'
  BY DEF IInv, TypeOK, Branch, StartReplace, disk, caller, Returns
<1> QED
  BY <1>1, <1>2, <1>3, <1>4, <1>5, <1>6 DEF IInv

LEMMA FinishReplaceStep == IInv /\ FinishReplace => IInv'
<1> SUFFICES ASSUME IInv, FinishReplace PROVE IInv'
  OBVIOUS
<1> USE ImagesAssumption, ActionsAssumption
<1>1. TypeOK'
  BY DEF IInv, TypeOK, FinishReplace, disk, caller, File, Contents, Returns
<1>2. Whole'
  BY DEF IInv, TypeOK, Whole, FinishReplace, disk, caller, File, Contents, Returns
<1>3. KeptAt'
  BY DEF IInv, TypeOK, Whole, KeptAt, Branch, FinishReplace, disk, caller, File, Contents, Returns
<1>4. Outstanding'
  BY DEF IInv, TypeOK, Outstanding, FinishReplace, disk, caller, Returns
<1>5. TakenAt'
  BY DEF IInv, TypeOK, Whole, Outstanding, TakenAt, Branch, FinishReplace, disk, caller, Loaded, Opened, File, Contents, Returns
<1>6. Branch'
  BY DEF IInv, TypeOK, Branch, FinishReplace, disk, caller, Returns
<1> QED
  BY <1>1, <1>2, <1>3, <1>4, <1>5, <1>6 DEF IInv

LEMMA RemoveStep == IInv /\ Remove => IInv'
<1> SUFFICES ASSUME IInv, Remove PROVE IInv'
  OBVIOUS
<1> USE ImagesAssumption, ActionsAssumption
<1>1. TypeOK'
  BY DEF IInv, TypeOK, Remove, disk, caller, File, Contents, Returns
<1>2. Whole'
  BY DEF IInv, TypeOK, Whole, Remove, disk, caller, File, Contents, Returns
<1>3. KeptAt'
  BY DEF IInv, TypeOK, Whole, KeptAt, Branch, Remove, disk, caller, File, Contents, Returns
<1>4. Outstanding'
  BY DEF IInv, TypeOK, Outstanding, Remove, disk, caller, Returns
<1>5. TakenAt'
  BY DEF IInv, TypeOK, Whole, Outstanding, TakenAt, Branch, Remove, disk, caller, Loaded, Opened, File, Contents, Returns
<1>6. Branch'
  BY DEF IInv, TypeOK, Branch, Remove, disk, caller, Returns
<1> QED
  BY <1>1, <1>2, <1>3, <1>4, <1>5, <1>6 DEF IInv

LEMMA LoadedType ==
  ASSUME TypeOK
  PROVE  /\ Opened \in File
         /\ Loaded \in Contents
         /\ Kept(Opened) \in Images \cup {Absent}
<1> USE ImagesAssumption
<1>1. Opened \in File
  BY DEF TypeOK, Opened, File
<1>2. Loaded \in Contents
  BY <1>1 DEF Loaded, File, Contents
<1>3. Kept(Opened) \in Images \cup {Absent}
  BY <1>1 DEF Kept, File, Contents
<1> QED
  BY <1>1, <1>2, <1>3

LEMMA RestartStep == IInv /\ Restart => IInv'
<1> SUFFICES ASSUME IInv, Restart PROVE IInv'
  OBVIOUS
<1> USE ImagesAssumption, ActionsAssumption
<1>1. TypeOK'
  <2>1. /\ {primary, backup, temporary}' \subseteq File
        /\ in_place' \in BOOLEAN
    BY DEF IInv, TypeOK, Restart, disk
  <2>2. /\ buffer' \in Contents
        /\ last' \in Images \cup {Absent}
    BY LoadedType DEF IInv, Restart
  <2>3. /\ signals' = 0 /\ writer' = "idle" /\ owed' = FALSE /\ exited' = FALSE
        /\ thread' = "test" /\ num_actions' = 0 /\ saving_failed' = FALSE
    BY DEF Restart
  <2>4. sound' \in BOOLEAN
    BY DEF Restart
  <2>5. signals' \in 0..MaxSignals /\ num_actions' \in 0..max_actions
    BY <2>3
  <2>6. exited' \in BOOLEAN /\ owed' \in BOOLEAN /\ saving_failed' \in BOOLEAN
    BY <2>3
  <2> QED
    BY <2>1, <2>2, <2>3, <2>4, <2>5, <2>6 DEF TypeOK
<1>2. Whole'
  BY DEF IInv, TypeOK, Whole, Restart, disk, caller, File, Contents, Kept, Loaded, Opened
<1>3. KeptAt'
  BY DEF IInv, TypeOK, Whole, KeptAt, Branch, Restart, disk, caller, File, Contents, Kept, Loaded, Opened
<1>4. Outstanding'
  BY DEF IInv, TypeOK, Outstanding, Restart, disk, caller, Kept, Loaded, Opened
<1>5. TakenAt'
  BY DEF IInv, TypeOK, Whole, Outstanding, TakenAt, Branch, Restart, disk, caller, File, Contents, Kept, Loaded, Opened
<1>6. Branch'
  BY DEF IInv, TypeOK, Branch, Restart, disk, caller, Kept, Loaded, Opened
<1> QED
  BY <1>1, <1>2, <1>3, <1>4, <1>5, <1>6 DEF IInv

\* The inductive invariant holds in every reachable state.
THEOREM SavingInvariant == Spec => []IInv
<1>1. Init => IInv
  BY InitHolds
<1>2. IInv /\ [Next]_vars => IInv'
  <2> SUFFICES ASSUME IInv, [Next]_vars PROVE IInv'
    OBVIOUS
  <2>1. CASE \E image \in Images : SaveWrite(image)
    BY <2>1, SaveWriteStep
  <2>2. CASE Signal \/ Quit
    BY <2>2, SignalStep, QuitStep
  <2>3. CASE Test \/ TakeSignal \/ TimeOut
    BY <2>3, TestStep, TakeSignalStep, TimeOutStep
  <2>4. CASE Open \/ Write \/ StartBackup \/ FinishBackup
    BY <2>4, OpenStep, WriteStep, StartBackupStep, FinishBackupStep
  <2>5. CASE StartReplace \/ FinishReplace \/ Remove
    BY <2>5, StartReplaceStep, FinishReplaceStep, RemoveStep
  <2>6. CASE Restart
    BY <2>6, RestartStep
  <2>7. CASE UNCHANGED vars
    BY <2>7 DEF vars, disk, caller, IInv, TypeOK, Whole, KeptAt, Outstanding, TakenAt, Branch, Loaded, Opened
  <2> QED
    BY <2>1, <2>2, <2>3, <2>4, <2>5, <2>6, <2>7 DEF Next
<1> QED
  BY <1>1, <1>2, PTL DEF Spec

\* Each variable keeps its type; num_actions never exceeds its cap by more than
\* the loop in saving_thread_func allows.
THEOREM SavingTypeCorrect == Spec => []TypeOK
<1>1. IInv => TypeOK
  BY DEF IInv
<1> QED
  BY <1>1, SavingInvariant, PTL

\* No write of the game is forgotten, for any images, cap and build: an idle or
\* ended thread without signals and failures leaves what the game wrote last.
THEOREM NoWriteForgotten == Spec => []NothingForgotten
<1>1. IInv => NothingForgotten
  <2> SUFFICES ASSUME IInv,
                      thread \in {"test", "waiting", "ended"},
                      thread = "waiting" => num_actions = 0,
                      signals = 0, writer = "idle", ~saving_failed, sound
               PROVE  Loaded = buffer
    BY DEF NothingForgotten
  <2>1. ~owed
    BY DEF IInv, Outstanding
  <2> QED
    BY <2>1 DEF IInv, TakenAt
<1> QED
  BY <1>1, SavingInvariant, PTL

\* The image last saved is in the save file or its backup at every step of a save.
THEOREM LastImageSurvives == Spec => []LastImageKept
<1>1. IInv => LastImageKept
  BY DEF IInv, KeptAt, LastImageKept
<1> QED
  BY <1>1, SavingInvariant, PTL
=============================================================================
