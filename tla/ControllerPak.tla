--------------------------- MODULE ControllerPak ---------------------------
(***************************************************************************)
(* The file system of one Controller Pak port (src/controller_pak.cpp),    *)
(* down to the files a save goes through: the image under its own name     *)
(* (primary), the copy of the image before it (.bak) and the one being     *)
(* written (.temp).  The store's mutex admits one call at a time, so the   *)
(* interleaving that matters is with the disk: every step of a save may    *)
(* fail, and the process may die between any two of them.                  *)
(*                                                                         *)
(* A file's contents are one value; a write through the store replaces it. *)
(***************************************************************************)
EXTENDS Integers, FiniteSetsExt

CONSTANTS kDirectoryEntryCount,  \* files in a Pak
          kPageSize,             \* bytes
          kDataPageCount,        \* pages
          Keys,                  \* names of files
          Values,                \* contents of files
          Zeros,                 \* the contents of a file just allocated
          Sizes,                 \* the sizes and offsets callers ask for
          FirstDisks,            \* what the first start may find, and on which disk
          Free,                  \* an unoccupied directory entry
          Absent,                \* no such file
          Damaged,               \* a file that does not parse
          None

ASSUME SizesAssumption ==
  /\ kDirectoryEntryCount \in Nat \ {0}
  /\ kPageSize \in Nat \ {0}
  /\ kDataPageCount \in Nat \ {0}
  /\ Sizes \subseteq Nat
ASSUME ValuesAssumption == Zeros \in Values

Slots == 0..(kDirectoryEntryCount - 1)
kCapacityBytes == kPageSize * kDataPageCount

File == [key : Keys, size : 1..kCapacityBytes, value : Values]
Entries == [Slots -> File \cup {Free}]
Formatted == [i \in Slots |-> Free]
Occupied(entries) == {i \in Slots : entries[i] # Free}

\* The bytes a file of this size takes: whole pages.
Pages(size) == (size + kPageSize - 1) \div kPageSize
AllocatedSize(size) == kPageSize * Pages(size)

\* The pages of all files, each with its file's entry, and their bytes.
UsedPages(entries) == UNION {{i} \X (1..Pages(entries[i].size)) : i \in Occupied(entries)}
UsedBytes(entries) == kPageSize * Cardinality(UsedPages(entries))

\* What load() accepts of an image that parses.
Consistent(entries) ==
  /\ UsedBytes(entries) <= kCapacityBytes
  /\ \A i, j \in Occupied(entries) : entries[i].key = entries[j].key => i = j

Images == Entries \cup {Damaged}
Decodes(file) == file \notin {Absent, Damaged} /\ Consistent(file)

ASSUME FirstDisksAssumption ==
  \A d \in FirstDisks : /\ DOMAIN d = {"primary", "backup", "reads_fail"}
                         /\ {d.primary, d.backup} \subseteq Images \cup {Absent}
                         /\ d.reads_fail \in BOOLEAN
Result == {"Ok", "Inconsistent", "ControllerFailure", "Invalid", "DataFull",
           "DirectoryFull", "Exists"}
LoadResult == {"Ok", "Inconsistent", "ControllerFailure"}

Pak == [loaded : BOOLEAN, load_result : LoadResult, entries : Entries]

ASSUME MarksAssumption ==
  /\ Free \notin File
  /\ {Absent, Damaged, None} \cap Entries = {}
  /\ Absent # Damaged /\ Absent # None /\ Damaged # None
  /\ None \notin Pak

VARIABLES primary,     \* the three files on disk
          backup,
          temporary,
          reads_fail,  \* may opening or reading a file of this disk fail once?
          pak,         \* the process's Pak: loaded, load_result, entries
          step,        \* where the call in progress is
          candidate,   \* the entries it wants to save
          answer       \* the result of the last call, None while one runs

disk == <<primary, backup, temporary, reads_fail>>
vars == <<primary, backup, temporary, reads_fail, pak, step, candidate, answer>>

NewPak == [loaded |-> FALSE, load_result |-> "Ok", entries |-> Formatted]

Steps == {"ready", "open", "write", "exists", "copy", "copying", "rename", "finish"}

Init == /\ \E first \in FirstDisks : /\ primary = first.primary
                                      /\ backup = first.backup
                                      /\ reads_fail = first.reads_fail
        /\ temporary = Absent
        /\ pak = NewPak
        /\ step = "ready"
        /\ candidate = None
        /\ answer = None

-----------------------------------------------------------------------------
(* load() *)

Loaded(result, entries) == [loaded |-> TRUE, load_result |-> result, entries |-> entries]
Refused(result) == Loaded(result, Formatted)

\* An existing file opens, unless opening it fails this once.
MayNotOpen(file) == file = Absent \/ reads_fail

\* open_input_file_with_backup: the primary, or the backup if it does not open.
Opened == ({primary} \cup {f \in {backup} : MayNotOpen(primary)}) \ {Absent}

Decode(file) == IF Decodes(file) THEN Loaded("Ok", file) ELSE Refused("Inconsistent")

\* No file at all is a new Pak, which nothing writes before the first save.
Unopened ==
  IF primary = Absent /\ backup = Absent THEN Loaded("Ok", Formatted)
                                         ELSE Refused("ControllerFailure")

\* The Paks a call may start from: load() runs once per process.
Load ==
  IF pak.loaded THEN {pak}
  ELSE {Decode(f) : f \in Opened}
       \cup {p \in {Unopened} : MayNotOpen(primary) /\ MayNotOpen(backup)}
       \cup {p \in {Refused("ControllerFailure")} : reads_fail}
       \cup {p \in {Refused("Inconsistent")} : reads_fail /\ Opened # {}}

-----------------------------------------------------------------------------
(* Calls *)

Reply(result) ==
  /\ answer' = result
  /\ UNCHANGED <<reads_fail, primary, backup, temporary, step, candidate>>

BeginSave(entries) ==
  /\ step' = "open"
  /\ candidate' = entries
  /\ answer' = None
  /\ UNCHANGED disk

FilesNamed(p, key) == {i \in Occupied(p.entries) : p.entries[i].key = key}
FreeSlots(p) == Slots \ Occupied(p.entries)

\* Mutant: only a Pak that could not be opened stops a call.
AdmittedDamaged(p) == p.load_result # "ControllerFailure"

\* The Pak has been read, so a call may go on.
Admitted(p) == p.load_result = "Ok"

\* A call reads the Pak first, and gives up if that failed.
Enter(p) == step = "ready" /\ pak' = p
Refuse(p) == ~Admitted(p) /\ Reply(p.load_result)

\* initialize, free_blocks and num_files only look.
Inspect ==
  \E p \in Load :
    /\ Enter(p)
    /\ Refuse(p) \/ (Admitted(p) /\ Reply("Ok"))

FindFile(key) ==
  \E p \in Load :
    /\ Enter(p)
    /\ \/ Refuse(p)
       \/ Admitted(p) /\ FilesNamed(p, key) = {} /\ Reply("Invalid")
       \/ Admitted(p) /\ FilesNamed(p, key) # {} /\ Reply("Ok")

\* No Pak holds a file of this size.
InvalidSize(size) == size = 0 \/ AllocatedSize(size) > kCapacityBytes

\* Mutant: the pages of the other files are not counted.
FitsEmptyPak(p, size) == AllocatedSize(size) <= kCapacityBytes

\* The free pages take the file.
Fits(p, size) == UsedBytes(p.entries) + AllocatedSize(size) <= kCapacityBytes

\* The checks of allocate_file, in their order; "Ok" if all of them pass.
AllocationResult(p, key, size) ==
  CASE InvalidSize(size)         -> "Invalid"
    [] FilesNamed(p, key) # {}   -> "Exists"
    [] ~Fits(p, size)            -> "DataFull"
    [] FreeSlots(p) = {}         -> "DirectoryFull"
    [] OTHER                     -> "Ok"

AllocateFile(key, size) ==
  \E p \in Load :
    /\ Enter(p)
    /\ \/ Refuse(p)
       \/ /\ Admitted(p)
          /\ AllocationResult(p, key, size) # "Ok"
          /\ Reply(AllocationResult(p, key, size))
       \/ /\ Admitted(p)
          /\ AllocationResult(p, key, size) = "Ok"
          /\ BeginSave([p.entries EXCEPT ![Min(FreeSlots(p))] =
                          [key |-> key, size |-> size, value |-> Zeros]])

DeleteFile(key) ==
  \E p \in Load :
    /\ Enter(p)
    /\ \/ Refuse(p)
       \/ Admitted(p) /\ FilesNamed(p, key) = {} /\ Reply("Invalid")
       \/ /\ Admitted(p)
          /\ \E i \in FilesNamed(p, key) : BeginSave([p.entries EXCEPT ![i] = Free])

\* A span of a file: file_number, offset and length, checked without overflow.
InFile(p, i, offset, length) ==
  /\ i \in Occupied(p.entries)
  /\ offset <= p.entries[i].size
  /\ length <= p.entries[i].size - offset

\* file_state is the read of an empty span.
ReadFile(i, offset, length) ==
  \E p \in Load :
    /\ Enter(p)
    /\ \/ Refuse(p)
       \/ Admitted(p) /\ InFile(p, i, offset, length) /\ Reply("Ok")
       \/ Admitted(p) /\ ~InFile(p, i, offset, length) /\ Reply("Invalid")

\* An empty write changes nothing and is saved all the same.
WriteFile(i, offset, length, value) ==
  \E p \in Load :
    /\ Enter(p)
    /\ \/ Refuse(p)
       \/ Admitted(p) /\ ~InFile(p, i, offset, length) /\ Reply("Invalid")
       \/ /\ Admitted(p) /\ InFile(p, i, offset, length)
          /\ BeginSave(IF length = 0 THEN p.entries
                       ELSE [p.entries EXCEPT ![i].value = value])

-----------------------------------------------------------------------------
(* save(), one step per change of the disk *)

\* Mutant: the call takes over the entries it could not save.
FailAfterTakeover ==
  /\ step' = "ready"
  /\ candidate' = None
  /\ answer' = "ControllerFailure"
  /\ pak' = [pak EXCEPT !.entries = candidate]

\* The call returns with the Pak as it was.
Fail ==
  /\ step' = "ready"
  /\ candidate' = None
  /\ answer' = "ControllerFailure"
  /\ UNCHANGED pak

\* Mutant: the image is written in place.
OpenPrimary ==
  /\ step = "open"
  /\ \/ Fail /\ UNCHANGED disk
     \/ /\ primary' = Damaged
        /\ step' = "write"
        /\ UNCHANGED <<reads_fail, temporary, backup, pak, candidate, answer>>

\* open_output_file_with_backup truncates what a failed save left behind.
OpenTemporary ==
  /\ step = "open"
  /\ \/ Fail /\ UNCHANGED disk
     \/ /\ temporary' = Damaged
        /\ step' = "write"
        /\ UNCHANGED <<reads_fail, primary, backup, pak, candidate, answer>>

\* Writing, flushing and closing: a failure leaves part of an image.
WriteTemporary ==
  /\ step = "write"
  /\ \/ Fail /\ UNCHANGED disk
     \/ /\ temporary' = candidate
        /\ step' = "exists"
        /\ UNCHANGED <<reads_fail, primary, backup, pak, candidate, answer>>

PrimaryExists ==
  /\ step = "exists"
  /\ \/ Fail
     \/ /\ step' = IF primary = Absent THEN "rename" ELSE "copy"
        /\ UNCHANGED <<pak, candidate, answer>>
  /\ UNCHANGED disk

\* copy_file empties the backup before it fills it.
StartCopy ==
  /\ step = "copy"
  /\ \/ Fail /\ UNCHANGED disk
     \/ /\ backup' = Damaged
        /\ step' = "copying"
        /\ UNCHANGED <<reads_fail, primary, temporary, pak, candidate, answer>>

FinishCopy ==
  /\ step = "copying"
  /\ \/ Fail /\ UNCHANGED disk
     \/ /\ backup' = primary
        /\ step' = "rename"
        /\ UNCHANGED <<reads_fail, primary, temporary, pak, candidate, answer>>

Rename ==
  /\ step = "rename"
  /\ \/ Fail /\ UNCHANGED disk
     \/ /\ primary' = temporary
        /\ temporary' = Absent
        /\ step' = "finish"
        /\ UNCHANGED <<reads_fail, backup, pak, candidate, answer>>

\* The call takes the saved entries over and returns.
Finish ==
  /\ step = "finish"
  /\ pak' = [pak EXCEPT !.entries = candidate]
  /\ step' = "ready"
  /\ candidate' = None
  /\ answer' = "Ok"
  /\ UNCHANGED disk

Save == \/ OpenTemporary \/ WriteTemporary \/ PrimaryExists
        \/ StartCopy \/ FinishCopy \/ Rename \/ Finish

\* The process ends, at any point, and another starts: the files stay.
Restart ==
  /\ pak' = NewPak
  /\ step' = "ready"
  /\ candidate' = None
  /\ answer' = None
  /\ UNCHANGED disk

Next ==
  \/ Inspect
  \/ \E key \in Keys : FindFile(key) \/ DeleteFile(key)
  \/ \E key \in Keys, size \in Sizes : AllocateFile(key, size)
  \/ \E i \in Slots, offset, length \in Sizes : ReadFile(i, offset, length)
  \/ \E i \in Slots, offset, length \in Sizes, value \in Values :
       WriteFile(i, offset, length, value)
  \/ Save
  \/ Restart

Spec == Init /\ [][Next]_vars

-----------------------------------------------------------------------------
(* Properties *)

\* The type invariant: what each variable may hold.
TypeOK ==
  /\ {primary, backup, temporary} \subseteq Images \cup {Absent}
  /\ pak \in Pak
  /\ step \in Steps
  /\ candidate \in Entries \cup {None}
  /\ candidate = None <=> step = "ready"
  /\ answer \in Result \cup {None}

\* The store never holds or writes a directory that load() would refuse: the
\* free space and duplicate checks of allocate_file agree with the ones of
\* load(), so no sequence of calls locks the player out at the next start.
SavedImagesLoad ==
  /\ Consistent(pak.entries)
  /\ candidate # None => Consistent(candidate)

\* The two, which every step leaves true.
PakInv == TypeOK /\ SavedImagesLoad

\* A Pak whose image could not be read is left as it is by this process: "a
\* damaged image remains on disk" (controller_pak.cpp, load()).
RefusedPakUntouched ==
  [][pak.loaded /\ pak.load_result # "Ok" => UNCHANGED disk]_vars

\* Whatever fails, and wherever the process dies, an image that loads is left
\* under the primary's or the backup's name: "Preserve the last complete image
\* until an atomic replacement succeeds" (controller_pak.cpp, save()).
LastImagePreserved ==
  [][Decodes(primary) \/ Decodes(backup)
       => (Decodes(primary) \/ Decodes(backup))']_vars

\* What a process gets to see of a directory, and what it can work with.
View(file) == IF file = Absent THEN Loaded("Ok", Formatted) ELSE Decode(file)
Usable(p) == p.load_result = "Ok"

\* The three files together implement a directory that changes atomically and
\* durably (AtomicPak), on a disk where files that exist can be opened and read;
\* of another disk nothing is said.
Reliable(v) == IF reads_fail THEN None ELSE v
Atomic == INSTANCE AtomicPak WITH
            Directories <- Images \cup {Absent},
            Unread <- None,
            Nothing <- None,
            durable <- IF reads_fail THEN Absent ELSE IF primary = Absent THEN backup ELSE primary,
            visible <- Reliable(IF pak.loaded THEN pak ELSE None),
            pending <- Reliable(candidate),
            answer  <- Reliable(answer)
ImplementsAtomicPak == Atomic!Spec
=============================================================================
