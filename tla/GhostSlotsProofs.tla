-------------------------- MODULE GhostSlotsProofs --------------------------
(***************************************************************************)
(* That saved ghosts survive failures and crashes, and that no better one  *)
(* is replaced without consent, for any courses, times and trajectories.   *)
(***************************************************************************)
EXTENDS GhostSlots, TLAPS

\* Between two steps of a call, CallOK says what its write is about to do.
SlotsInv == TypeOK /\ CallOK

\* The runs that a read returns have the type of a file's.
LEMMA ReadType == ASSUME file \in Files
                  PROVE  /\ Read \in Contents
                         /\ file \in Contents => Read = file
  BY DEF Read, NoRuns, Contents

LEMMA NoRunsType == NoRuns \in Contents
  BY DEF NoRuns, Contents

\* At the end of a call nothing is left of it.
LEMMA ReplyKeeps ==
  ASSUME SlotsInv, NEW result \in Result, Reply(result),
         file' \in Files, best' \in Runs \cup {None}, shown' \in Contents
  PROVE  SlotsInv'
  BY NoRunsType, MarksAssumption DEF SlotsInv, TypeOK, CallOK, Reply

\* The start of a write knows its slot and keeps the others.
LEMMA BeginKeeps ==
  ASSUME SlotsInv, step = "ready", NEW slot \in Slots, NEW run \in Runs \cup {None},
         NEW worse \in BOOLEAN, file # Zeros,
         BeginWrite(slot, With(slot, run), worse),
         \/ worse
         \/ run = best /\ best # None /\ ~SlotBetter(slot),
         UNCHANGED <<file, best, shown>>
  PROVE  SlotsInv'
<1> DEFINE new == With(slot, run)
<1>1. Read \in Contents /\ (file \in Contents => Read = file)
  BY ReadType DEF SlotsInv, TypeOK
<1>2. /\ new \in Contents
      /\ \A i \in Slots : new[i] = IF i = slot THEN run ELSE Read[i]
  BY <1>1 DEF With, Contents
<1>3. /\ runs' = new /\ created' = FALSE
      /\ allowed' = [slot |-> slot, worse |-> worse]
      /\ step' = IF file = Absent THEN "allocate" ELSE "write"
      /\ last' = last
  BY DEF BeginWrite
<1>4. allowed' \in [slot : Slots, worse : BOOLEAN] /\ allowed' # None
  BY <1>3, MarksAssumption
<1>5. TypeOK'
  BY <1>2, <1>3, <1>4 DEF SlotsInv, TypeOK
<1>6. ASSUME file \in Contents, NEW i \in Slots, new[i] # file[i]
      PROVE  i = slot /\ ReplaceOK(i)'
  <2>1. i = slot /\ new[i] = run /\ Read = file
    BY <1>1, <1>2, <1>6
  <2>2. allowed'.worse = worse /\ runs'[i] = run /\ file' = file
    BY <1>3, <2>1
  <2>3. CASE worse
    BY <2>1, <2>2, <2>3 DEF ReplaceOK
  <2>4. CASE run = best /\ best # None /\ ~SlotBetter(slot)
    <3>1. file[i] # None => file[i] \in Runs
      BY <1>6 DEF Contents
    <3>2. best \in Runs
      BY <2>4 DEF SlotsInv, TypeOK
    <3>3. \/ file[i] = None
          \/ best.course # file[i].course
          \/ ~(file[i].finish_ms <= best.finish_ms)
      BY <2>1, <2>4 DEF SlotBetter
    <3>4. file[i] # None => file[i].finish_ms \in Nat /\ best.finish_ms \in Nat
      BY <3>1, <3>2, TimesAssumption DEF Runs
    <3> QED  BY <2>1, <2>2, <2>4, <3>3, <3>4 DEF ReplaceOK
  <2> QED  BY <2>1, <2>3, <2>4
<1>7. file \in Files
  BY DEF SlotsInv, TypeOK
<1>8. (step' = "write" /\ file' \in Contents) =>
        \A i \in Slots : runs'[i] # file'[i] => (i = allowed'.slot /\ ReplaceOK(i)')
  BY <1>3, <1>6
<1>9. /\ step' # "ready" /\ allowed' # None
      /\ step' = "allocate" => file' = Absent
      /\ step' = "write" => ~created' /\ file' \in Contents
  BY <1>3, <1>4, <1>7 DEF Files
<1> QED  BY <1>5, <1>8, <1>9 DEF SlotsInv, CallOK, ReplaceOK

\* The invariant holds at the start and after every step.
LEMMA InvInit == Init => SlotsInv
  BY NoRunsType, MarksAssumption DEF Init, SlotsInv, TypeOK, CallOK, Files, Result

LEMMA InvNext == SlotsInv /\ [Next]_vars => SlotsInv'
<1> SUFFICES ASSUME SlotsInv, [Next]_vars PROVE SlotsInv'
  OBVIOUS
<1>0. TypeOK /\ CallOK /\ Read \in Contents
  BY ReadType DEF SlotsInv, TypeOK
<1>1. CASE BestChanges
  BY <1>0, <1>1 DEF BestChanges, SlotsInv, TypeOK, CallOK, ReplaceOK
<1>2. CASE RefreshSlots
  <2>1. PICK result \in ReadSlots :
          /\ shown' = IF result = "Ok" THEN Read ELSE NoRuns
          /\ Reply(IF result = "NoGhost" THEN "Ok" ELSE result)
    BY <1>2 DEF RefreshSlots
  <2>2. result \in Result /\ "Ok" \in Result
    BY DEF ReadSlots, Result
  <2> QED  BY <1>0, <1>2, <2>1, <2>2, ReplyKeeps, NoRunsType DEF RefreshSlots, TypeOK
<1>3. ASSUME NEW slot \in Slots, LoadSlot(slot) PROVE SlotsInv'
  <2>1. PICK result \in ReadSlots :
          \/ /\ result = "Ok" /\ Read[slot] # None
             /\ best' = Read[slot]
             /\ shown' = Read
             /\ Reply("Ok")
          \/ /\ result # "Ok" \/ Read[slot] = None
             /\ Reply(IF result = "Ok" THEN "NoGhost" ELSE result)
             /\ UNCHANGED <<best, shown>>
    BY <1>3 DEF LoadSlot
  <2>2. /\ result \in Result /\ "Ok" \in Result /\ "NoGhost" \in Result
        /\ Read[slot] \in Runs \cup {None}
        /\ file' = file
    BY <1>0, <1>3 DEF ReadSlots, Result, Contents, LoadSlot
  <2> QED  BY <1>0, <2>1, <2>2, ReplyKeeps DEF TypeOK
<1>4. ASSUME NEW slot \in Slots, NEW overwrite_better \in BOOLEAN,
             SaveSlot(slot, overwrite_better)
      PROVE  SlotsInv'
  <2>1. UNCHANGED <<file, best, shown>> /\ step = "ready"
    BY <1>4 DEF SaveSlot
  <2>2. CASE \E result \in Result : Reply(result)
    BY <1>0, <2>1, <2>2, ReplyKeeps DEF TypeOK
  <2>3. CASE /\ best # None /\ file # Zeros
             /\ overwrite_better \/ ~SlotBetter(slot)
             /\ BeginWrite(slot, With(slot, best), overwrite_better)
    BY <1>0, <1>4, <2>1, <2>3, BeginKeeps DEF TypeOK
  <2>4. \A result \in ReadSlots : /\ result \in Result
                                  /\ file = Zeros => result \notin {"Ok", "NoGhost"}
    BY MarksAssumption DEF ReadSlots, Result
  <2> QED  BY <1>4, <2>2, <2>3, <2>4 DEF SaveSlot, Result
<1>5. ASSUME NEW slot \in Slots, ClearSlot(slot) PROVE SlotsInv'
  <2>1. UNCHANGED <<file, best, shown>> /\ step = "ready"
    BY <1>5 DEF ClearSlot
  <2>2. CASE \E result \in Result : Reply(result)
    BY <1>0, <2>1, <2>2, ReplyKeeps DEF TypeOK
  <2>3. CASE file # Zeros /\ BeginWrite(slot, With(slot, None), TRUE)
    BY <1>5, <2>1, <2>3, BeginKeeps
  <2>4. \A result \in ReadSlots : result \in Result /\ (file = Zeros => result # "Ok")
    BY MarksAssumption DEF ReadSlots, Result
  <2> QED  BY <1>5, <2>2, <2>3, <2>4 DEF ClearSlot
<1>6. CASE Allocate
  <2>1. CASE Reply("StorageFailure") /\ UNCHANGED <<file, best, shown>>
    BY <1>0, <2>1, ReplyKeeps DEF TypeOK, Result
  <2>2. CASE /\ file' = Zeros /\ created' = TRUE /\ step' = "write"
             /\ UNCHANGED <<last, runs, allowed, best, shown>>
    BY <1>0, <1>6, <2>2, MarksAssumption DEF Allocate, SlotsInv, TypeOK, CallOK, Files
  <2> QED  BY <1>6, <2>1, <2>2 DEF Allocate
<1>7. CASE WriteFile
  <2>1. CASE file' = runs /\ shown' = runs /\ Reply("Ok") /\ UNCHANGED best
    BY <1>0, <2>1, ReplyKeeps DEF TypeOK, Files, Result
  <2>2. CASE /\ created /\ step' = "undo"
             /\ UNCHANGED <<file, shown, last, runs, created, allowed, best>>
    BY <1>0, <1>7, <2>2 DEF WriteFile, SlotsInv, TypeOK, CallOK
  <2>3. CASE Reply("StorageFailure") /\ UNCHANGED <<file, best, shown>>
    BY <1>0, <2>3, ReplyKeeps DEF TypeOK, Result
  <2> QED  BY <1>7, <2>1, <2>2, <2>3 DEF WriteFile
<1>8. CASE Undo
  BY <1>0, <1>8, ReplyKeeps DEF Undo, TypeOK, Files, Result
<1>9. CASE Crash
  BY <1>0, <1>9, ReplyKeeps, NoRunsType DEF Crash, TypeOK, Result
<1>10. CASE UNCHANGED vars
  BY <1>0, <1>10 DEF vars, SlotsInv, TypeOK, CallOK, ReplaceOK
<1> QED  BY <1>1, <1>2, <1>3, <1>4, <1>5, <1>6, <1>7, <1>8, <1>9, <1>10 DEF Next

\* The file is written only by a call's write, and otherwise left, allocated
\* where there was none, or taken away again when an allocation is undone.
LEMMA FileChanges ==
  ASSUME SlotsInv, [Next]_vars, file \in Contents, file' # file
  PROVE  step = "write" /\ file' = runs
<1>1. Allocate \/ WriteFile \/ Undo
  BY DEF Next, vars, BestChanges, RefreshSlots, LoadSlot, SaveSlot, ClearSlot, Crash
<1>2. ~Allocate
  BY MarksAssumption DEF Allocate, SlotsInv, CallOK
<1>3. ~Undo
  BY MarksAssumption DEF Undo, SlotsInv, TypeOK
<1> QED  BY <1>1, <1>2, <1>3 DEF WriteFile

\* The slots' file, its types and what a call in progress is about to do.
THEOREM SlotsInvariant == Spec => []SlotsInv
  BY InvInit, InvNext, PTL DEF Spec

\* The types of the slots, of what the frontend shows and of the call in
\* progress, through failed calls and crashes.
THEOREM SlotsTypeCorrect == Spec => []TypeOK
  BY SlotsInvariant, PTL DEF SlotsInv

\* Saved ghosts survive failed calls and crashes: write_slots keeps the slot
\* it was not called for, and nothing but it changes a file with slots.
THEOREM OtherSlotSurvives == Spec => OtherSlotKept
<1>1. SlotsInv /\ [Next]_vars =>
        [(file \in Contents) =>
           /\ file' \in Contents
           /\ \A i \in Slots : file'[i] # file[i] => (allowed # None /\ allowed.slot = i)]_vars
  BY FileChanges DEF SlotsInv, TypeOK, CallOK
<1> QED  BY <1>1, SlotsInvariant, PTL DEF Spec, OtherSlotKept

\* save_slot and clear_slot replace a run by an equal or slower one of its
\* course only with the player's consent, whatever fails on the way.
THEOREM BetterSlotSurvives == Spec => BetterSlotKept
<1>1. SlotsInv /\ [Next]_vars =>
        [\A i \in Slots :
           (file \in Contents /\ file'[i] # file[i] /\ file[i] # None /\ ~allowed.worse) =>
             \/ file'[i].course # file[i].course
             \/ file'[i].finish_ms < file[i].finish_ms]_vars
  BY FileChanges DEF SlotsInv, CallOK, ReplaceOK
<1> QED  BY <1>1, SlotsInvariant, PTL DEF Spec, BetterSlotKept

\* Whatever fails, the frontend shows no ghost that is not on the Pak: the
\* slots it shows change with a read that succeeded or a write that did.
THEOREM ShownSlotsAreSaved == Spec => []ShownIsSaved
<1>1. Init => ShownIsSaved
  BY DEF Init, ShownIsSaved, NoRuns
<1>2. SlotsInv /\ ShownIsSaved /\ [Next]_vars => ShownIsSaved'
  <2> SUFFICES ASSUME SlotsInv, ShownIsSaved, [Next]_vars
               PROVE  ShownIsSaved'
    OBVIOUS
  <2>1. CASE file' = file /\ (shown' = shown \/ shown' = NoRuns)
    BY <2>1 DEF ShownIsSaved, NoRuns
  <2>2. CASE shown' = Read /\ file' = file
    <3>1. Read = IF file \in Contents THEN file ELSE NoRuns
      BY DEF Read
    <3> QED  BY <2>2, <3>1 DEF ShownIsSaved, NoRuns
  <2>3. CASE WriteFile
    BY <2>1, <2>3 DEF WriteFile, ShownIsSaved, SlotsInv, TypeOK
  <2>4. CASE Allocate \/ Undo
    <3>1. file \notin Contents /\ shown' = shown
      BY <2>4, MarksAssumption DEF Allocate, Undo, SlotsInv, TypeOK, CallOK
    <3> QED  BY <3>1 DEF ShownIsSaved
  <2>5. \/ file' = file /\ (shown' = shown \/ shown' = NoRuns \/ shown' = Read)
        \/ WriteFile \/ Allocate \/ Undo
    BY DEF Next, vars, BestChanges, RefreshSlots, LoadSlot, SaveSlot, ClearSlot, Crash
  <2> QED  BY <2>1, <2>2, <2>3, <2>4, <2>5
<1> QED  BY <1>1, <1>2, SlotsInvariant, PTL DEF Spec
=============================================================================
