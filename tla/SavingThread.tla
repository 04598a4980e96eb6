---------------------------- MODULE SavingThread ----------------------------
(***************************************************************************)
(* The EEPROM of the game (librecomp/src/pi.cpp, files.cpp): game code     *)
(* writes to a buffer and signals a semaphore; the saving thread collects  *)
(* signals until none has come for 10 ms, and then writes the buffer to a  *)
(* temporary file, copies the save file (primary) to its backup, and the   *)
(* temporary file over the primary.  The Switch build writes the primary   *)
(* in place.                                                               *)
(*                                                                         *)
(* Files hold an image, a part of one, or are absent.  Opening and copying *)
(* may fail, a write may be cut short, and the process may end between any *)
(* two steps.  change_save_file, which mods may call, is left out.         *)
(***************************************************************************)
EXTENDS Naturals

CONSTANTS Images,      \* complete contents of the save buffer
          Zeros,       \* the one of a new game
          Builds,      \* is the save file written in place?
          max_actions, \* signals that one save collects at most
          Absent,      \* no such file
          Part,        \* contents that are not an image
          MaxSignals   \* bound: signals the thread has not taken yet

ASSUME ImagesAssumption == Zeros \in Images /\ Absent \notin Images /\ Part \notin Images /\ Absent # Part
ASSUME ActionsAssumption == Builds \subseteq BOOLEAN /\ max_actions \in Nat \ {0} /\ MaxSignals \in Nat \ {0}

VARIABLES in_place,       \* the build: TRUE for the Switch
          primary, backup, temporary,  \* the files on disk
          buffer,         \* save_buffer
          signals,        \* write_sempahore
          exited,         \* set by quit()
          writer,         \* game code: "idle", or "signalling" between write and signal
          thread,         \* where the saving thread is
          num_actions,    \* its num_actions; not 0 if save_buffer_updated
          saving_failed,  \* the result of the last save, which a message box shows
          owed,           \* history: the buffer was changed after a save last took it
          sound,          \* history: no file was cut short, nor loaded so
          last            \* history: the image last saved completely, Absent if none was

disk == <<primary, backup, temporary>>
caller == <<buffer, signals, writer, owed>>
vars == <<in_place, disk, caller, exited, thread, num_actions, saving_failed, sound, last>>

Contents == Images \cup {Part}
File == Contents \cup {Absent}

\* open_input_file_with_backup: any primary that exists is read.
Opened == CASE primary # Absent -> primary
            [] primary = Absent /\ backup # Absent -> backup
            [] OTHER -> Absent

\* read_save_file
Loaded == IF Opened = Absent THEN Zeros ELSE Opened

\* What a process that read these contents has to keep.
Kept(contents) == IF contents = Part THEN Absent ELSE contents

Init == /\ in_place \in Builds
        /\ primary \in Images \cup {Absent}
        /\ backup \in Images \cup {Absent}
        /\ temporary = Absent
        /\ buffer = Loaded
        /\ signals = 0 /\ writer = "idle" /\ owed = FALSE
        /\ exited = FALSE
        /\ thread = "test" /\ num_actions = 0
        /\ saving_failed = FALSE
        /\ sound = (Opened # Part)
        /\ last = Kept(Opened)

-----------------------------------------------------------------------------
(* Game code *)

\* save_write: into the buffer under its mutex, then the signal.  Contents that
\* were loaded in part need not be an image after it.
SaveWrite(image) ==
  /\ writer = "idle"
  /\ buffer' \in {image} \cup ({buffer} \ Images)
  /\ writer' = "signalling"
  /\ owed' = TRUE
  /\ UNCHANGED <<in_place, disk, signals, exited, thread, num_actions, saving_failed, sound, last>>

Signal ==
  /\ writer = "signalling" /\ signals < MaxSignals
  /\ signals' = signals + 1
  /\ writer' = "idle"
  /\ UNCHANGED <<in_place, disk, buffer, owed, exited, thread, num_actions, saving_failed, sound, last>>

Quit ==
  /\ ~exited
  /\ exited' = TRUE
  /\ UNCHANGED <<in_place, disk, caller, thread, num_actions, saving_failed, sound, last>>

-----------------------------------------------------------------------------
(* The saving thread *)

Goes(from, to) == thread = from /\ thread' = to

\* The loop ends with signals left.
Stops == exited

Test ==
  /\ Goes("test", IF Stops THEN "ended" ELSE "waiting")
  /\ num_actions' = 0
  /\ UNCHANGED <<in_place, disk, caller, exited, saving_failed, sound, last>>

\* Mutant: the actions are not counted.
CountedOnce(n) == 1

\* One more action.
Counted(n) == n + 1

\* Mutant: one action too many.
RoomForOneMore == num_actions <= max_actions

\* A save collects no more than max_actions.
Room == num_actions < max_actions

\* A signal is taken; the one that comes after max_actions ends the wait.
TakeSignal ==
  /\ thread = "waiting" /\ signals > 0
  /\ signals' = signals - 1
  /\ IF Room
     THEN num_actions' = Counted(num_actions) /\ UNCHANGED thread
     ELSE UNCHANGED num_actions /\ thread' = "open"
  /\ UNCHANGED <<in_place, disk, buffer, writer, owed, exited, saving_failed, sound, last>>

\* Mutant: one action is not enough for a save.
DueAfterMany == num_actions > 1

\* Whether save_buffer_updated was set.
Due == num_actions > 0

\* No signal for 10 ms.
TimeOut ==
  /\ signals = 0
  /\ Goes("waiting", IF Due THEN "open" ELSE "test")
  /\ UNCHANGED <<in_place, disk, caller, exited, num_actions, saving_failed, sound, last>>

\* update_save_file returns.
Returns(failed) ==
  /\ thread' = "test"
  /\ saving_failed' = failed

\* Opening truncates, or fails and changes nothing.
Open ==
  /\ thread = "open"
  /\ \/ Returns(TRUE) /\ UNCHANGED disk
     \/ /\ thread' = "write"
        /\ IF in_place THEN primary' = Part /\ UNCHANGED <<backup, temporary>>
                       ELSE temporary' = Part /\ UNCHANGED <<primary, backup>>
        /\ UNCHANGED saving_failed
  /\ UNCHANGED <<in_place, caller, exited, num_actions, sound, last>>

\* The buffer is written under its mutex.  Only the Switch build looks whether
\* that succeeded.
Write ==
  /\ thread = "write"
  /\ owed' = FALSE
  /\ \E written \in {buffer, Part} :
       /\ sound' = (sound /\ written # Part)
       /\ IF in_place
          THEN /\ primary' = written
               /\ Returns(written # buffer)
               /\ last' = IF written = Part THEN last ELSE written
               /\ UNCHANGED <<backup, temporary>>
          ELSE /\ temporary' = written
               /\ thread' = "backup"
               /\ UNCHANGED <<primary, backup, saving_failed, last>>
  /\ UNCHANGED <<in_place, buffer, signals, writer, exited, num_actions>>

\* Mutant: the old file is not copied to the backup.
NothingToKeep == TRUE

\* Only a file that exists is copied.
NewFile == primary = Absent

\* copy_file empties a file before it fills it; what fails leaves that.
StartBackup ==
  /\ thread = "backup"
  /\ \/ /\ NewFile
        /\ thread' = "replace"
        /\ UNCHANGED <<backup, saving_failed>>
     \/ /\ ~NewFile
        /\ Returns(TRUE) /\ UNCHANGED backup
     \/ /\ ~NewFile
        /\ thread' = "backing" /\ backup' = Part
        /\ UNCHANGED saving_failed
  /\ UNCHANGED <<in_place, primary, temporary, caller, exited, num_actions, sound, last>>

FinishBackup ==
  /\ thread = "backing"
  /\ \/ Returns(TRUE) /\ UNCHANGED backup
     \/ /\ thread' = "replace" /\ backup' = primary
        /\ UNCHANGED saving_failed
  /\ UNCHANGED <<in_place, primary, temporary, caller, exited, num_actions, sound, last>>

StartReplace ==
  /\ thread = "replace"
  /\ \/ Returns(TRUE) /\ UNCHANGED primary
     \/ /\ thread' = "replacing" /\ primary' = Part
        /\ UNCHANGED saving_failed
  /\ UNCHANGED <<in_place, backup, temporary, caller, exited, num_actions, sound, last>>

FinishReplace ==
  /\ thread = "replacing"
  /\ \/ Returns(TRUE) /\ sound' = FALSE /\ UNCHANGED <<primary, last>>
     \/ /\ thread' = "remove"
        /\ primary' = temporary
        /\ last' = IF temporary = Part THEN last ELSE temporary
        /\ UNCHANGED <<sound, saving_failed>>
  /\ UNCHANGED <<in_place, backup, temporary, caller, exited, num_actions>>

\* The result of remove is not looked at.
Remove ==
  /\ thread = "remove"
  /\ temporary' \in {temporary, Absent}
  /\ Returns(FALSE)
  /\ UNCHANGED <<in_place, primary, backup, caller, exited, num_actions, sound, last>>

Save == \/ Open \/ Write \/ StartBackup \/ FinishBackup
        \/ StartReplace \/ FinishReplace \/ Remove
Saver == Test \/ TakeSignal \/ TimeOut \/ Save

\* The process ends, of itself or not, and another one starts: init_saving.
Restart ==
  /\ buffer' = Loaded
  /\ signals' = 0 /\ writer' = "idle" /\ owed' = FALSE
  /\ exited' = FALSE
  /\ thread' = "test" /\ num_actions' = 0
  /\ saving_failed' = FALSE
  /\ sound' = (Opened # Part)
  /\ last' = Kept(Opened)
  /\ UNCHANGED <<in_place, disk>>

Next == \/ \E image \in Images : SaveWrite(image)
        \/ Signal
        \/ Quit
        \/ Test \/ TakeSignal \/ TimeOut
        \/ Open \/ Write \/ StartBackup \/ FinishBackup
        \/ StartReplace \/ FinishReplace \/ Remove
        \/ Restart

\* The saving thread runs, and game code that has written goes on to its signal.
Spec == Init /\ [][Next]_vars /\ WF_vars(Saver) /\ WF_vars(Signal)

-----------------------------------------------------------------------------
(* Properties *)

TypeOK ==
  /\ in_place \in BOOLEAN
  /\ {primary, backup, temporary} \subseteq File
  /\ buffer \in Contents
  /\ signals \in 0..MaxSignals
  /\ exited \in BOOLEAN
  /\ writer \in {"idle", "signalling"}
  /\ thread \in {"test", "waiting", "open", "write", "backup", "backing",
                 "replace", "replacing", "remove", "ended"}
  /\ num_actions \in 0..max_actions
  /\ saving_failed \in BOOLEAN
  /\ owed \in BOOLEAN
  /\ sound \in BOOLEAN
  /\ last \in Images \cup {Absent}

\* No write is forgotten: when the thread has nothing to do, or has ended, with
\* no signal left and no failure reported, the next start reads what game code
\* wrote last.  What quit() cuts off has left a signal (pi.cpp:172).
NothingForgotten ==
  (/\ thread \in {"test", "waiting", "ended"} /\ (thread = "waiting" => num_actions = 0)
   /\ signals = 0 /\ writer = "idle"
   /\ ~saving_failed /\ sound)
  => Loaded = buffer

\* The image last saved stays on disk, under the save file's name or its backup's,
\* in whichever step of a save the process ends (files.cpp:31-51).
LastImageKept == (sound /\ ~in_place /\ last # Absent) => last \in {primary, backup}

\* Every write is taken into a save, however many others follow it: "guarantee
\* that the save buffer eventually gets written out to the file even if the
\* game is constantly sending writes" (pi.cpp:180), up to a failed opening.
SavedEventually == owed ~> (~owed \/ exited \/ saving_failed)
=============================================================================
