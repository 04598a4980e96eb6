----------------------------- MODULE GhostSlots -----------------------------
(***************************************************************************)
(* The two ghosts a player saves by hand (src/wr64_ghost.cpp): one file on *)
(* the Controller Pak holds both slots, and every change rewrites it.  The *)
(* Pak is the store that AtomicPak describes: each of its calls succeeds   *)
(* or changes nothing, and a crash falls between two of them.              *)
(***************************************************************************)
EXTENDS Integers

CONSTANTS Courses,
          Times,     \* finishing times
          Tracks,    \* trajectories, which tell runs of one time apart
          None, Absent, Zeros

Runs == [course : Courses, finish_ms : Times, points : Tracks]
Slots == {0, 1}
NoRuns == [i \in Slots |-> None]

\* The file: none, the zeros of an allocation, or two slots.
Contents == [Slots -> Runs \cup {None}]
Files == Contents \cup {Absent, Zeros}

ASSUME TimesAssumption == Times \subseteq Nat
ASSUME MarksAssumption ==
  /\ None \notin Runs
  /\ None \notin [slot : Slots, worse : BOOLEAN]
  /\ Absent \notin Contents /\ Zeros \notin Contents /\ Absent # Zeros

Result == {"Ok", "NoGhost", "CorruptData", "StorageFailure", "WouldOverwriteBetter"}

VARIABLES file,    \* the ghost file on the Pak
          best,    \* state.best, the run a save writes
          shown,   \* state.slots, what the frontend shows
          last,    \* state.last
          step,    \* where the call in progress is
          runs,    \* the slots it wants to write
          created, \* it allocated the file
          allowed  \* history: the slot it may change, and whether to a worse run

vars == <<file, best, shown, last, step, runs, created, allowed>>

Init == /\ file \in {Absent, NoRuns}
        /\ best = None
        /\ shown = NoRuns
        /\ last = "Ok"
        /\ step = "ready"
        /\ runs = NoRuns
        /\ created = FALSE
        /\ allowed = None

\* A race ends with a new best, or another course starts (GhostAutosave).
BestChanges ==
  /\ step = "ready"
  /\ best' \in Runs \cup {None}
  /\ UNCHANGED <<file, shown, last, step, runs, created, allowed>>

\* read_slots: what it returns; any call of the store may fail.
ReadSlots == {CASE file = Absent -> "NoGhost"
                [] file = Zeros  -> "CorruptData"
                [] OTHER           -> "Ok", "StorageFailure"}
Read == IF file \in Contents THEN file ELSE NoRuns

Reply(result) ==
  /\ last' = result
  /\ step' = "ready"
  /\ runs' = NoRuns
  /\ created' = FALSE
  /\ allowed' = None

RefreshSlots ==
  /\ step = "ready"
  /\ \E result \in ReadSlots :
       /\ shown' = IF result = "Ok" THEN Read ELSE NoRuns
       /\ Reply(IF result = "NoGhost" THEN "Ok" ELSE result)
  /\ UNCHANGED <<file, best>>

LoadSlot(slot) ==
  /\ step = "ready"
  /\ \E result \in ReadSlots :
       \/ /\ result = "Ok" /\ Read[slot] # None
          /\ best' = Read[slot]
          /\ shown' = Read
          /\ Reply("Ok")
       \/ /\ result # "Ok" \/ Read[slot] = None
          /\ Reply(IF result = "Ok" THEN "NoGhost" ELSE result)
          /\ UNCHANGED <<best, shown>>
  /\ UNCHANGED file

\* write_slots begins: with an allocation if there is no file.
BeginWrite(slot, new, worse) ==
  /\ step' = IF file = Absent THEN "allocate" ELSE "write"
  /\ runs' = new
  /\ created' = FALSE
  /\ allowed' = [slot |-> slot, worse |-> worse]
  /\ UNCHANGED last

\* Mutant: only a faster ghost of the course is kept.
SlotFaster(slot) ==
  Read[slot] # None /\ Read[slot].course = best.course /\ Read[slot].finish_ms < best.finish_ms

\* The slot holds a ghost of this course that is at least as fast.
SlotBetter(slot) ==
  Read[slot] # None /\ Read[slot].course = best.course /\ Read[slot].finish_ms <= best.finish_ms

\* Mutant: the other slot is not written back.
WithOnly(slot, run) == [NoRuns EXCEPT ![slot] = run]

\* Both slots, with this run in one of them.
With(slot, run) == [Read EXCEPT ![slot] = run]

SaveSlot(slot, overwrite_better) ==
  /\ step = "ready"
  /\ \/ best = None /\ Reply("NoGhost")
     \/ /\ best # None
        /\ \E result \in ReadSlots :
             \/ result \notin {"Ok", "NoGhost"} /\ Reply(result)
             \/ /\ result \in {"Ok", "NoGhost"}
                /\ \/ /\ ~overwrite_better /\ SlotBetter(slot)
                      /\ Reply("WouldOverwriteBetter")
                   \/ /\ overwrite_better \/ ~SlotBetter(slot)
                      /\ BeginWrite(slot, With(slot, best), overwrite_better)
  /\ UNCHANGED <<file, best, shown>>

ClearSlot(slot) ==
  /\ step = "ready"
  /\ \E result \in ReadSlots :
       \/ result # "Ok" /\ Reply(result)
       \/ result = "Ok" /\ BeginWrite(slot, With(slot, None), TRUE)
  /\ UNCHANGED <<file, best, shown>>

Allocate ==
  /\ step = "allocate"
  /\ \/ Reply("StorageFailure") /\ UNCHANGED file
     \/ /\ file' = Zeros
        /\ created' = TRUE
        /\ step' = "write"
        /\ UNCHANGED <<last, runs, allowed>>
  /\ UNCHANGED <<best, shown>>

\* Mutant: the frontend is told before the write.
WriteFileShown ==
  /\ step = "write"
  /\ shown' = runs
  /\ \/ file' = runs /\ Reply("Ok")
     \/ /\ created
        /\ step' = "undo"
        /\ UNCHANGED <<file, last, runs, created, allowed>>
     \/ /\ ~created
        /\ Reply("StorageFailure")
        /\ UNCHANGED file
  /\ UNCHANGED best

\* Mutant: the undo runs whoever created the file.
WriteFileUndoing ==
  /\ step = "write"
  /\ \/ /\ file' = runs
        /\ shown' = runs
        /\ Reply("Ok")
     \/ /\ step' = "undo"
        /\ UNCHANGED <<file, shown, last, runs, created, allowed>>
  /\ UNCHANGED best

\* write_file, and the end of the call.
WriteFile ==
  /\ step = "write"
  /\ \/ /\ file' = runs
        /\ shown' = runs
        /\ Reply("Ok")
     \/ /\ created
        /\ step' = "undo"
        /\ UNCHANGED <<file, shown, last, runs, created, allowed>>
     \/ /\ ~created
        /\ Reply("StorageFailure")
        /\ UNCHANGED <<file, shown>>
  /\ UNCHANGED best

\* Undo an allocation of this call; that may fail too.
Undo ==
  /\ step = "undo"
  /\ file' \in {Absent, file}
  /\ Reply("StorageFailure")
  /\ UNCHANGED <<best, shown>>

Crash ==
  /\ best' = None
  /\ shown' = NoRuns
  /\ Reply("Ok")
  /\ UNCHANGED file

Next == \/ BestChanges \/ RefreshSlots \/ Allocate \/ WriteFile \/ Undo \/ Crash
        \/ \E slot \in Slots : LoadSlot(slot) \/ ClearSlot(slot)
        \/ \E slot \in Slots, overwrite_better \in BOOLEAN : SaveSlot(slot, overwrite_better)

Spec == Init /\ [][Next]_vars

-----------------------------------------------------------------------------
(* Properties *)

\* The type invariant; an allocation is only ever undone by the call that made it.
TypeOK ==
  /\ file \in Files
  /\ best \in Runs \cup {None}
  /\ shown \in Contents
  /\ last \in Result
  /\ step \in {"ready", "allocate", "write", "undo"}
  /\ runs \in Contents
  /\ created \in BOOLEAN /\ (step = "undo" => created /\ file = Zeros)
  /\ allowed \in [slot : Slots, worse : BOOLEAN] \cup {None}

\* The slot takes the runs' entry with consent, or for a better run.
ReplaceOK(i) ==
  \/ file[i] = None
  \/ allowed.worse
  \/ runs[i].course # file[i].course
  \/ runs[i].finish_ms < file[i].finish_ms

\* What a call in progress knows: whose slot it changes, that its runs differ
\* from the file's in that slot only, and that an allocation of its own is
\* all there is to undo.
CallOK ==
  /\ step = "ready" <=> allowed = None
  /\ step = "allocate" => file = Absent
  /\ step = "write" => IF created THEN file = Zeros ELSE file \in Contents
  /\ (step = "write" /\ file \in Contents) =>
       \A i \in Slots : runs[i] # file[i] => (i = allowed.slot /\ ReplaceOK(i))

\* Saved ghosts survive failed calls and crashes: a file with slots in it stays
\* one, and a step changes no slot but the one its call named.
OtherSlotKept ==
  [][(file \in Contents) =>
       /\ file' \in Contents
       /\ \A i \in Slots : file'[i] # file[i] => (allowed # None /\ allowed.slot = i)]_vars

\* Without the player's consent no slot goes from a run to an equal or slower
\* one of its course ("equal saved time requires explicit overwrite",
\* tests/ghost/ghost_test.cpp:89).
BetterSlotKept ==
  [][\A i \in Slots :
       (file \in Contents /\ file'[i] # file[i] /\ file[i] # None /\ ~allowed.worse) =>
         \/ file'[i].course # file[i].course
         \/ file'[i].finish_ms < file[i].finish_ms]_vars

\* What the frontend shows of a slot is on the Pak.
ShownIsSaved ==
  \A i \in Slots : shown[i] # None => file \in Contents /\ file[i] = shown[i]
=============================================================================
