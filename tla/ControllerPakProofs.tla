------------------------ MODULE ControllerPakProofs ------------------------
(***************************************************************************)
(* The Controller Pak store with any files, sizes and disks: what it saves *)
(* can be loaded again, a Pak it could not read is not touched, an image   *)
(* that loads is always left, and on a disk that reads well the directory  *)
(* changes atomically and durably.                                         *)
(***************************************************************************)
EXTENDS ControllerPak, FiniteSetTheorems, WellFoundedInduction, TLAPS

-----------------------------------------------------------------------------
(* Pages *)

\* Whole pages are enough for a file: the rounding of AllocatedSize.
LEMMA PagesCover ==
  ASSUME NEW size \in Nat
  PROVE  /\ Pages(size) \in Nat
         /\ AllocatedSize(size) \in Nat
         /\ size <= AllocatedSize(size)
<1> DEFINE k == kPageSize
           n == size + kPageSize - 1
           d == n \div k
<1>1. k \in Nat \ {0} /\ n \in Nat
  BY SizesAssumption
<1>2. d \in Int /\ k * d <= n /\ n < k * d + k
  <2> HIDE DEF k, n
  <2> QED BY <1>1, Z3 DEF d
<1>3. d \in Nat
  <2>1. ~(d <= -1)
    <3>1. d <= -1 => k * d <= -k
      BY <1>1, <1>2
    <3> QED BY <1>1, <1>2, <3>1
  <2> QED BY <1>2, <2>1
<1> QED
  <2>1. Pages(size) = d /\ AllocatedSize(size) = k * d
    BY DEF Pages, AllocatedSize
  <2>2. k * d \in Nat
    BY <1>1, <1>3
  <2>3. size <= k * d
    BY <1>1, <1>2, <2>2
  <2> QED BY <1>3, <2>1, <2>2, <2>3

\* The pages of one file.
LEMMA PagesOfOne ==
  ASSUME NEW i, NEW n \in Nat
  PROVE  IsFiniteSet({i} \X (1..n)) /\ Cardinality({i} \X (1..n)) = n
<1>1. IsFiniteSet({i}) /\ Cardinality({i}) = 1
  BY FS_Singleton
<1>2. IsFiniteSet(1..n) /\ Cardinality(1..n) = n
  BY FS_Interval
<1>3. /\ IsFiniteSet({i} \X (1..n))
      /\ Cardinality({i} \X (1..n)) = Cardinality({i}) * Cardinality(1..n)
  <2> DEFINE one == {i}
             some == 1..n
  <2>1. IsFiniteSet(one) /\ IsFiniteSet(some)
    BY <1>1, <1>2
  <2> HIDE DEF one, some
  <2>2. IsFiniteSet(one \X some) /\ Cardinality(one \X some) = Cardinality(one) * Cardinality(some)
    BY <2>1, FS_Product
  <2> QED BY <2>2 DEF one, some
<1> QED BY <1>1, <1>2, <1>3

LEMMA SlotsFinite == IsFiniteSet(Slots) /\ Slots \subseteq Nat
  BY FS_Interval, SizesAssumption DEF Slots

\* What the type says of an entry that is occupied.
LEMMA OccupiedFile ==
  ASSUME NEW entries \in Entries, NEW i \in Occupied(entries)
  PROVE  /\ i \in Slots /\ entries[i] \in File
         /\ entries[i].size \in Nat /\ Pages(entries[i].size) \in Nat
<1>1. i \in Slots /\ entries[i] \in File
  BY DEF Entries, Occupied
<1>2. entries[i].size \in 1..kCapacityBytes
  BY <1>1 DEF File
<1> QED BY <1>1, <1>2, PagesCover

\* The pages of a directory, one by one.
LEMMA InUsedPages ==
  ASSUME NEW entries
  PROVE  \A p : p \in UsedPages(entries) <=>
                  \E i \in Occupied(entries) : p \in {i} \X (1..Pages(entries[i].size))
  BY DEF UsedPages

\* The pages of a directory are finitely many.
LEMMA UsedPagesFinite ==
  ASSUME NEW entries \in Entries
  PROVE  /\ IsFiniteSet(UsedPages(entries))
         /\ Cardinality(UsedPages(entries)) \in Nat
         /\ UsedBytes(entries) \in Nat
<1>1. IsFiniteSet(UsedPages(entries))
  <2> DEFINE OfOne(i) == {i} \X (1..Pages(entries[i].size))
             all == {OfOne(i) : i \in Occupied(entries)}
  <2>1. IsFiniteSet(Occupied(entries))
    BY SlotsFinite, FS_Subset DEF Occupied
  <2>2. IsFiniteSet(all)
    <3> HIDE DEF OfOne
    <3>1. [i \in Occupied(entries) |-> OfOne(i)] \in Surjection(Occupied(entries), all)
      BY DEF Surjection
    <3> HIDE DEF all
    <3> QED BY <2>1, <3>1, FS_Surjection
  <2>3. ASSUME NEW S \in all PROVE IsFiniteSet(S)
    <3>1. PICK i \in Occupied(entries) : S = OfOne(i)
      OBVIOUS
    <3>2. Pages(entries[i].size) \in Nat
      BY OccupiedFile
    <3> QED BY <3>1, <3>2, PagesOfOne
  <2>4. IsFiniteSet(UNION all)
    <3> HIDE DEF all
    <3>1. \A S \in all : IsFiniteSet(S)
      BY <2>3
    <3> QED BY <2>2, <3>1, FS_UNION
  <2> QED BY <2>4 DEF UsedPages
<1>2. Cardinality(UsedPages(entries)) \in Nat
  BY <1>1, FS_CardinalityType
<1> QED BY <1>1, <1>2, SizesAssumption DEF UsedBytes

-----------------------------------------------------------------------------
(* Directories that load() accepts *)

\* A new Pak is one of them.
LEMMA FormattedLoads == Formatted \in Entries /\ Consistent(Formatted)
<1>1. Formatted \in Entries /\ Occupied(Formatted) = {}
  BY DEF Formatted, Entries, Occupied
<1>2. UsedPages(Formatted) = {}
  BY <1>1 DEF UsedPages
<1>3. UsedBytes(Formatted) = 0
  BY <1>2, FS_EmptySet, SizesAssumption DEF UsedBytes
<1>4. 0 <= kCapacityBytes
  BY SizesAssumption DEF kCapacityBytes
<1> QED BY <1>1, <1>3, <1>4 DEF Consistent

\* A file that fits, under a new name, in a free entry: the check of
\* allocate_file is the one of load().
LEMMA AllocatedLoads ==
  ASSUME NEW entries \in Entries, Consistent(entries),
         NEW i \in Slots, entries[i] = Free, NEW file \in File,
         \A j \in Occupied(entries) : entries[j].key # file.key,
         UsedBytes(entries) + AllocatedSize(file.size) <= kCapacityBytes
  PROVE  /\ [entries EXCEPT ![i] = file] \in Entries
         /\ Consistent([entries EXCEPT ![i] = file])
<1> DEFINE new == [entries EXCEPT ![i] = file]
           pages == {i} \X (1..Pages(file.size))
<1>1. /\ new \in Entries /\ new[i] = file /\ file # Free
      /\ \A j \in Slots \ {i} : new[j] = entries[j]
  BY MarksAssumption DEF Entries
<1> HIDE DEF new
<1>2. Occupied(new) = Occupied(entries) \cup {i} /\ i \notin Occupied(entries)
  BY <1>1 DEF Occupied
<1>3. UsedPages(new) = UsedPages(entries) \cup pages
  <2>1. \A j \in Occupied(entries) : new[j] = entries[j]
    BY <1>1, <1>2 DEF Occupied
  <2>2. \A p : p \in UsedPages(new) <=> p \in UsedPages(entries) \/ p \in pages
    BY <1>1, <1>2, <2>1, InUsedPages
  <2> QED BY <2>2
<1>4. UsedPages(entries) \cap pages = {}
  BY <1>2, InUsedPages
<1>5. file.size \in Nat
  BY DEF File
<1>6. /\ IsFiniteSet(pages) /\ Cardinality(pages) = Pages(file.size) /\ Pages(file.size) \in Nat
  BY <1>5, PagesCover, PagesOfOne
<1> HIDE DEF pages
<1>7. Cardinality(UsedPages(new)) = Cardinality(UsedPages(entries)) + Pages(file.size)
  <2>1. Cardinality(UsedPages(entries) \cup pages)
          = Cardinality(UsedPages(entries)) + Cardinality(pages) - Cardinality({})
    BY <1>4, <1>6, UsedPagesFinite, FS_Union
  <2> QED BY <1>3, <1>6, <2>1, UsedPagesFinite, FS_EmptySet
<1>8. UsedBytes(new) = UsedBytes(entries) + AllocatedSize(file.size)
  <2>1. \A a, b \in Nat : kPageSize * (a + b) = kPageSize * a + kPageSize * b
    BY SizesAssumption
  <2> QED BY <1>6, <1>7, <2>1, UsedPagesFinite DEF UsedBytes, AllocatedSize
<1>9. ASSUME NEW a \in Occupied(new), NEW b \in Occupied(new), new[a].key = new[b].key
      PROVE  a = b
  <2>1. \A j \in Occupied(entries) : new[j] = entries[j] /\ j # i
    BY <1>1, <1>2 DEF Occupied
  <2> QED BY <1>1, <1>2, <1>9, <2>1 DEF Consistent
<1>10. Consistent(new)
  BY <1>8, <1>9 DEF Consistent
<1> QED BY <1>1, <1>10 DEF new

\* Fewer files.
LEMMA FreedLoads ==
  ASSUME NEW entries \in Entries, Consistent(entries), NEW i \in Slots
  PROVE  /\ [entries EXCEPT ![i] = Free] \in Entries
         /\ Consistent([entries EXCEPT ![i] = Free])
<1> DEFINE new == [entries EXCEPT ![i] = Free]
<1>1. new \in Entries /\ new[i] = Free /\ \A j \in Slots \ {i} : new[j] = entries[j]
  BY DEF Entries
<1> HIDE DEF new
<1>2. Occupied(new) = Occupied(entries) \ {i} /\ \A j \in Occupied(new) : new[j] = entries[j]
  BY <1>1 DEF Occupied
<1>3. UsedPages(new) \subseteq UsedPages(entries)
  BY <1>2, InUsedPages
<1>4. Cardinality(UsedPages(new)) <= Cardinality(UsedPages(entries))
  BY <1>3, UsedPagesFinite, FS_Subset
<1>5. UsedBytes(new) <= UsedBytes(entries)
  <2>1. \A a, b \in Nat : a <= b => kPageSize * a <= kPageSize * b
    BY SizesAssumption
  <2> QED BY <1>1, <1>4, <2>1, UsedPagesFinite DEF UsedBytes
<1>6. UsedBytes(new) <= kCapacityBytes
  <2>1. kCapacityBytes \in Nat
    BY SizesAssumption DEF kCapacityBytes
  <2> QED BY <1>1, <1>5, <2>1, UsedPagesFinite DEF Consistent
<1>7. Consistent(new)
  BY <1>2, <1>6 DEF Consistent
<1> QED BY <1>1, <1>7 DEF new

\* Other contents.
LEMMA WrittenLoads ==
  ASSUME NEW entries \in Entries, Consistent(entries), NEW i \in Occupied(entries), NEW v \in Values
  PROVE  /\ [entries EXCEPT ![i].value = v] \in Entries
         /\ Consistent([entries EXCEPT ![i].value = v])
<1> DEFINE file == [entries[i] EXCEPT !.value = v]
           new == [entries EXCEPT ![i] = file]
<1>1. i \in Slots /\ entries[i] \in File
  BY OccupiedFile
<1>2. file \in File /\ file.key = entries[i].key /\ file.size = entries[i].size
  BY <1>1 DEF File
<1>3. file # Free
  BY <1>2, MarksAssumption
<1> HIDE DEF file
<1>4. new \in Entries /\ new[i] = file /\ \A j \in Slots \ {i} : new[j] = entries[j]
  BY <1>1, <1>2 DEF Entries
<1> HIDE DEF new
<1>5. /\ Occupied(new) = Occupied(entries)
      /\ \A j \in Occupied(new) : new[j].key = entries[j].key /\ new[j].size = entries[j].size
  BY <1>1, <1>2, <1>3, <1>4 DEF Occupied
<1>6. \A p : p \in UsedPages(new) <=> p \in UsedPages(entries)
  BY <1>5, InUsedPages
<1>7. UsedPages(new) = UsedPages(entries)
  BY <1>6
<1>8. Consistent(new)
  BY <1>5, <1>7 DEF Consistent, UsedBytes
<1> QED BY <1>4, <1>8 DEF new, file

-----------------------------------------------------------------------------
(* The inductive invariant *)

\* What the next start finds on a disk that reads well.
Durable == IF primary = Absent THEN backup ELSE primary

\* Between two steps of a save.
SaveOK ==
  /\ candidate # None => pak.loaded /\ pak.load_result = "Ok"
  /\ step \in {"exists", "copy", "copying", "rename"} => temporary = candidate
  /\ step \in {"copy", "copying"} => primary # Absent
  /\ step = "finish" => primary = candidate

\* What the process sees is what is on disk, until a save has replaced it.
SeesDurable ==
  ~reads_fail /\ pak.loaded /\ step # "finish" => pak = View(Durable)

IInv == PakInv /\ reads_fail \in BOOLEAN /\ SaveOK /\ SeesDurable

\* What the marks tell apart.
LEMMA Marks ==
  /\ Absent \notin Entries /\ Damaged \notin Entries /\ None \notin Entries
  /\ Absent # Damaged /\ Absent # None /\ Damaged # None
  /\ \A entries \in Entries : Decodes(entries) <=> Consistent(entries)
  /\ \A file : Decodes(file) => file # Absent
  BY MarksAssumption DEF Decodes

\* A Pak that was loaded, and one that was refused.
LEMMA LoadedPak ==
  ASSUME NEW result \in LoadResult, NEW entries \in Entries
  PROVE  /\ Loaded(result, entries) \in Pak
         /\ Loaded(result, entries).loaded
         /\ Loaded(result, entries).load_result = result
         /\ Loaded(result, entries).entries = entries
  BY DEF Loaded, Pak

LEMMA RefusedPak ==
  ASSUME NEW result \in LoadResult
  PROVE  /\ Refused(result) \in Pak /\ Refused(result).loaded
         /\ Consistent(Refused(result).entries)
         /\ Refused(result).load_result = result
  BY LoadedPak, FormattedLoads DEF Refused

\* Only a directory that load() accepts comes out of a file.
LEMMA DecodedPak ==
  ASSUME NEW file \in Images
  PROVE  /\ Decode(file) \in Pak /\ Decode(file).loaded
         /\ Consistent(Decode(file).entries)
         /\ Decode(file).load_result = "Ok" => Decodes(file)
<1> USE DEF LoadResult
<1>1. CASE Decodes(file)
  <2>1. file \in Entries /\ Consistent(file)
    BY <1>1 DEF Decodes, Images
  <2>2. Decode(file) = Loaded("Ok", file)
    BY <1>1 DEF Decode
  <2> QED BY <1>1, <2>1, <2>2, LoadedPak
<1>2. CASE ~Decodes(file)
  <2>1. Decode(file) = Refused("Inconsistent")
    BY <1>2 DEF Decode
  <2> QED BY <2>1, RefusedPak
<1> QED BY <1>1, <1>2

\* The Pak that a call starts from: one whose directory load() accepts, and on
\* a disk that reads well the one on disk.
LEMMA LoadOK ==
  ASSUME IInv, step = "ready", NEW p \in Load
  PROVE  /\ p \in Pak /\ p.loaded /\ Consistent(p.entries)
         /\ ~reads_fail => p = View(Durable)
         /\ pak.loaded => p = pak
<1> USE DEF LoadResult
<1>0. primary \in Images \cup {Absent} /\ backup \in Images \cup {Absent} /\ Absent \notin Images
  BY Marks DEF IInv, PakInv, TypeOK, Images
<1>1. CASE pak.loaded
  <2>1. p = pak
    BY <1>1 DEF Load
  <2> QED BY <1>1, <2>1 DEF IInv, PakInv, TypeOK, SavedImagesLoad, SeesDurable
<1>2. CASE ~pak.loaded
  <2>1. Opened \subseteq Images
    BY <1>0 DEF Opened
  <2>2. ASSUME NEW f \in Opened, p = Decode(f)
        PROVE  /\ p \in Pak /\ p.loaded /\ Consistent(p.entries)
               /\ ~reads_fail => p = View(Durable)
    <3>1. p \in Pak /\ p.loaded /\ Consistent(p.entries)
      BY <2>1, <2>2, DecodedPak
    <3>2. ~reads_fail => f = Durable /\ f # Absent
      BY <1>0 DEF Opened, MayNotOpen, Durable
    <3> QED BY <2>2, <3>1, <3>2 DEF View
  <2>3. ASSUME p = Unopened, MayNotOpen(primary), MayNotOpen(backup)
        PROVE  /\ p \in Pak /\ p.loaded /\ Consistent(p.entries)
               /\ ~reads_fail => p = View(Durable)
    <3>1. p = Loaded("Ok", Formatted) \/ p = Refused("ControllerFailure")
      BY <2>3 DEF Unopened
    <3>2. p \in Pak /\ p.loaded /\ Consistent(p.entries)
      BY <3>1, LoadedPak, RefusedPak, FormattedLoads
    <3>3. ~reads_fail => primary = Absent /\ backup = Absent
      BY <2>3 DEF MayNotOpen
    <3> QED BY <2>3, <3>2, <3>3 DEF View, Durable, Unopened
  <2>4. ASSUME reads_fail, p \in {Refused("ControllerFailure"), Refused("Inconsistent")}
        PROVE  /\ p \in Pak /\ p.loaded /\ Consistent(p.entries)
               /\ ~reads_fail => p = View(Durable)
    BY <2>4, RefusedPak
  <2>5. \/ \E f \in Opened : p = Decode(f)
        \/ p = Unopened /\ MayNotOpen(primary) /\ MayNotOpen(backup)
        \/ reads_fail /\ p \in {Refused("ControllerFailure"), Refused("Inconsistent")}
    BY <1>2 DEF Load
  <2> QED BY <1>2, <2>2, <2>3, <2>4, <2>5
<1> QED BY <1>1, <1>2

-----------------------------------------------------------------------------
(* Calls *)

\* A call answers, or asks for a directory that load() accepts, of a Pak that
\* was read.
CallStep ==
  \E p \in Load :
    /\ Enter(p)
    /\ \/ \E result \in Result : Reply(result)
       \/ /\ Admitted(p)
          /\ \E entries \in Entries : Consistent(entries) /\ BeginSave(entries)

\* The lowest free entry is one.
LEMMA LowestFree ==
  ASSUME NEW S \in SUBSET Slots, S # {}
  PROVE  Min(S) \in S
<1>1. S \subseteq Nat
  BY SlotsFinite
<1>2. PICK x \in S : \A y \in S : ~(<<y, x>> \in OpToRel(<, Nat))
  BY <1>1, NatLessThanWellFounded, WFMin
<1>3. \A y \in S : x <= y
  <2> SUFFICES ASSUME NEW y \in S PROVE x <= y
    OBVIOUS
  <2>1. ~(y < x)
    BY <1>1, <1>2 DEF OpToRel
  <2> QED BY <1>1, <2>1
<1> QED BY <1>3 DEF Min

\* The checks of allocate_file.
LEMMA AllocationChecks ==
  ASSUME NEW p, NEW key, NEW size
  PROVE  /\ AllocationResult(p, key, size) \in Result
         /\ AllocationResult(p, key, size) = "Ok" =>
              ~InvalidSize(size) /\ FilesNamed(p, key) = {} /\ Fits(p, size) /\ FreeSlots(p) # {}
  BY DEF AllocationResult, Result

LEMMA AllocateCall ==
  ASSUME IInv, NEW key \in Keys, NEW size \in Sizes, AllocateFile(key, size)
  PROVE  CallStep
<1>1. PICK p \in Load :
        /\ Enter(p)
        /\ \/ Refuse(p)
           \/ Reply(AllocationResult(p, key, size))
           \/ /\ Admitted(p)
              /\ AllocationResult(p, key, size) = "Ok"
              /\ BeginSave([p.entries EXCEPT ![Min(FreeSlots(p))] =
                              [key |-> key, size |-> size, value |-> Zeros]])
  BY DEF AllocateFile
<1>2. p.entries \in Entries /\ Consistent(p.entries) /\ p.load_result \in Result
  BY <1>1, LoadOK DEF Enter, Pak, LoadResult, Result
<1>3. CASE Refuse(p)
  BY <1>1, <1>2, <1>3 DEF Refuse, CallStep
<1>4. CASE Reply(AllocationResult(p, key, size))
  BY <1>1, <1>4, AllocationChecks DEF CallStep
<1>5. CASE /\ Admitted(p)
           /\ AllocationResult(p, key, size) = "Ok"
           /\ BeginSave([p.entries EXCEPT ![Min(FreeSlots(p))] =
                           [key |-> key, size |-> size, value |-> Zeros]])
  <2> DEFINE i == Min(FreeSlots(p))
             file == [key |-> key, size |-> size, value |-> Zeros]
  <2>1. ~InvalidSize(size) /\ FilesNamed(p, key) = {} /\ Fits(p, size) /\ FreeSlots(p) # {}
    BY <1>5, AllocationChecks
  <2>2. i \in Slots /\ p.entries[i] = Free
    BY <2>1, LowestFree DEF FreeSlots, Occupied
  <2>3. size \in 1..kCapacityBytes
    <3>1. size \in Nat /\ size # 0 /\ ~(AllocatedSize(size) > kCapacityBytes)
      BY <2>1, SizesAssumption DEF InvalidSize
    <3>2. kCapacityBytes \in Nat
      BY SizesAssumption DEF kCapacityBytes
    <3>3. AllocatedSize(size) \in Nat /\ size <= AllocatedSize(size)
      BY <3>1, PagesCover
    <3> QED BY <3>1, <3>2, <3>3
  <2>4. file \in File /\ file.key = key /\ file.size = size
    BY <2>3, ValuesAssumption DEF File
  <2>5. \A j \in Occupied(p.entries) : p.entries[j].key # file.key
    BY <2>1, <2>4 DEF FilesNamed
  <2>6. UsedBytes(p.entries) + AllocatedSize(file.size) <= kCapacityBytes
    BY <2>1, <2>4 DEF Fits
  <2> HIDE DEF i, file
  <2>7. /\ [p.entries EXCEPT ![i] = file] \in Entries
        /\ Consistent([p.entries EXCEPT ![i] = file])
    BY <1>2, <2>2, <2>4, <2>5, <2>6, AllocatedLoads
  <2>8. BeginSave([p.entries EXCEPT ![i] = file])
    BY <1>5 DEF i, file
  <2> QED BY <1>1, <1>5, <2>7, <2>8 DEF CallStep
<1> QED BY <1>1, <1>3, <1>4, <1>5

LEMMA DeleteCall ==
  ASSUME IInv, NEW key \in Keys, DeleteFile(key)
  PROVE  CallStep
<1>1. PICK p \in Load :
        /\ Enter(p)
        /\ \/ Refuse(p)
           \/ Reply("Invalid")
           \/ Admitted(p) /\ \E i \in FilesNamed(p, key) : BeginSave([p.entries EXCEPT ![i] = Free])
  BY DEF DeleteFile
<1>2. p.entries \in Entries /\ Consistent(p.entries) /\ p.load_result \in Result
  BY <1>1, LoadOK DEF Enter, Pak, LoadResult, Result
<1>3. CASE Refuse(p) \/ Reply("Invalid")
  BY <1>1, <1>2, <1>3 DEF Refuse, CallStep, Result
<1>4. CASE Admitted(p) /\ \E i \in FilesNamed(p, key) : BeginSave([p.entries EXCEPT ![i] = Free])
  <2>1. PICK i \in FilesNamed(p, key) : BeginSave([p.entries EXCEPT ![i] = Free])
    BY <1>4
  <2>2. i \in Slots
    BY DEF FilesNamed, Occupied
  <2>3. /\ [p.entries EXCEPT ![i] = Free] \in Entries
        /\ Consistent([p.entries EXCEPT ![i] = Free])
    BY <1>2, <2>2, FreedLoads
  <2> QED BY <1>1, <1>4, <2>1, <2>3 DEF CallStep
<1> QED BY <1>1, <1>3, <1>4

LEMMA WriteCall ==
  ASSUME IInv, NEW i \in Slots, NEW offset \in Sizes, NEW length \in Sizes, NEW value \in Values,
         WriteFile(i, offset, length, value)
  PROVE  CallStep
<1>1. PICK p \in Load :
        /\ Enter(p)
        /\ \/ Refuse(p)
           \/ Reply("Invalid")
           \/ /\ Admitted(p) /\ InFile(p, i, offset, length)
              /\ BeginSave(IF length = 0 THEN p.entries
                           ELSE [p.entries EXCEPT ![i].value = value])
  BY DEF WriteFile
<1>2. p.entries \in Entries /\ Consistent(p.entries) /\ p.load_result \in Result
  BY <1>1, LoadOK DEF Enter, Pak, LoadResult, Result
<1>3. CASE Refuse(p) \/ Reply("Invalid")
  BY <1>1, <1>2, <1>3 DEF Refuse, CallStep, Result
<1>4. CASE /\ Admitted(p) /\ InFile(p, i, offset, length)
           /\ BeginSave(IF length = 0 THEN p.entries
                        ELSE [p.entries EXCEPT ![i].value = value])
  <2> DEFINE new == IF length = 0 THEN p.entries ELSE [p.entries EXCEPT ![i].value = value]
  <2>1. i \in Occupied(p.entries)
    BY <1>4 DEF InFile
  <2>2. new \in Entries /\ Consistent(new)
    BY <1>2, <2>1, WrittenLoads
  <2>3. BeginSave(new)
    BY <1>4
  <2> HIDE DEF new
  <2> QED BY <1>1, <1>4, <2>2, <2>3 DEF CallStep
<1> QED BY <1>1, <1>3, <1>4

\* The calls that only look.
LEMMA LookingCall ==
  ASSUME IInv, step = "ready",
         NEW p \in Load, Enter(p), Refuse(p) \/ Reply("Ok") \/ Reply("Invalid")
  PROVE  CallStep
<1>1. p.load_result \in Result
  BY LoadOK DEF Pak, LoadResult, Result
<1> QED BY <1>1 DEF Refuse, CallStep, Result

\* Every step is a call, a step of a save, or a restart.
LEMMA Steps3 ==
  ASSUME IInv, Next
  PROVE  CallStep \/ Save \/ Restart
<1>1. CASE Inspect
  BY <1>1, LookingCall DEF Inspect, Enter
<1>2. ASSUME NEW key \in Keys, FindFile(key) PROVE CallStep
  BY <1>2, LookingCall DEF FindFile, Enter
<1>3. ASSUME NEW i \in Slots, NEW offset \in Sizes, NEW length \in Sizes, ReadFile(i, offset, length)
      PROVE  CallStep
  BY <1>3, LookingCall DEF ReadFile, Enter
<1> QED BY <1>1, <1>2, <1>3, AllocateCall, DeleteCall, WriteCall DEF Next

-----------------------------------------------------------------------------
(* Every step keeps the invariant *)

LEMMA InitHolds == Init => IInv
<1> SUFFICES ASSUME Init PROVE IInv
  OBVIOUS
<1>1. PICK first \in FirstDisks : /\ primary = first.primary
                                  /\ backup = first.backup
                                  /\ reads_fail = first.reads_fail
  BY DEF Init
<1>2. {primary, backup} \subseteq Images \cup {Absent} /\ reads_fail \in BOOLEAN
  BY <1>1, FirstDisksAssumption
<1>3. temporary = Absent /\ pak = NewPak /\ step = "ready" /\ candidate = None /\ answer = None
  BY DEF Init
<1>4. NewPak \in Pak /\ NewPak.loaded = FALSE /\ NewPak.entries = Formatted
  BY FormattedLoads DEF NewPak, Pak, LoadResult
<1>5. TypeOK
  BY <1>2, <1>3, <1>4 DEF TypeOK, Steps
<1>6. SavedImagesLoad
  BY <1>3, <1>4, FormattedLoads DEF SavedImagesLoad
<1>7. SaveOK /\ SeesDurable
  BY <1>3, <1>4 DEF SaveOK, SeesDurable
<1> QED BY <1>2, <1>5, <1>6, <1>7 DEF IInv, PakInv

\* The same disk shows the same.
LEMMA SameDisk == UNCHANGED disk => Durable' = Durable /\ View(Durable)' = View(Durable)
  BY DEF disk, Durable, View, Decode, Decodes

LEMMA CallKeeps == IInv /\ CallStep => IInv'
<1> SUFFICES ASSUME IInv, CallStep PROVE IInv'
  OBVIOUS
<1>1. PICK p \in Load :
        /\ Enter(p)
        /\ \/ \E result \in Result : Reply(result)
           \/ Admitted(p) /\ \E entries \in Entries : Consistent(entries) /\ BeginSave(entries)
  BY DEF CallStep
<1>2. step = "ready" /\ pak' = p /\ UNCHANGED disk
  BY <1>1 DEF Enter, Reply, BeginSave, disk
<1>3. p \in Pak /\ p.loaded /\ Consistent(p.entries) /\ (~reads_fail => p = View(Durable))
  BY <1>1, <1>2, LoadOK
<1>4. candidate = None
  BY <1>2 DEF IInv, PakInv, TypeOK
<1>5. SeesDurable'
  <2>1. Durable' = Durable /\ View(Durable)' = View(Durable) /\ reads_fail' = reads_fail
    BY <1>2, SameDisk DEF disk
  <2> QED BY <1>2, <1>3, <2>1 DEF SeesDurable
<1>6. ASSUME NEW result \in Result, Reply(result) PROVE IInv'
  <2>1. answer' = result /\ step' = "ready" /\ candidate' = None
    BY <1>2, <1>4, <1>6 DEF Reply
  <2>2. TypeOK'
    BY <1>2, <1>3, <2>1 DEF IInv, PakInv, TypeOK, disk, Steps
  <2>3. SavedImagesLoad' /\ SaveOK'
    BY <1>2, <1>3, <2>1 DEF SavedImagesLoad, SaveOK
  <2> QED BY <1>2, <1>5, <2>2, <2>3 DEF IInv, PakInv, disk
<1>7. ASSUME NEW entries \in Entries, Admitted(p), Consistent(entries), BeginSave(entries)
      PROVE  IInv'
  <2>1. answer' = None /\ step' = "open" /\ candidate' = entries /\ candidate' # None
    BY <1>7, Marks DEF BeginSave
  <2>2. TypeOK'
    BY <1>2, <1>3, <2>1 DEF IInv, PakInv, TypeOK, disk, Steps
  <2>3. SavedImagesLoad' /\ SaveOK'
    BY <1>2, <1>3, <1>7, <2>1 DEF SavedImagesLoad, SaveOK, Admitted
  <2> QED BY <1>2, <1>5, <2>2, <2>3 DEF IInv, PakInv, disk
<1> QED BY <1>1, <1>6, <1>7

\* While a save goes on, what it began with.
LEMMA Saving ==
  ASSUME IInv, step # "ready"
  PROVE  /\ candidate \in Entries /\ Consistent(candidate) /\ Decodes(candidate)
         /\ candidate # None /\ candidate # Absent
         /\ pak \in Pak /\ pak.loaded /\ pak.load_result = "Ok"
  BY Marks DEF IInv, PakInv, TypeOK, SavedImagesLoad, SaveOK

\* A save that fails leaves the call and changes nothing.
LEMMA FailKeeps ==
  ASSUME IInv, step \notin {"ready", "finish"}, Fail, UNCHANGED disk
  PROVE  IInv'
<1>1. step' = "ready" /\ candidate' = None /\ answer' = "ControllerFailure" /\ pak' = pak
  BY DEF Fail
<1>2. Durable' = Durable /\ View(Durable)' = View(Durable)
  BY SameDisk
<1>3. TypeOK'
  BY <1>1 DEF IInv, PakInv, TypeOK, Steps, Result, disk
<1>4. SavedImagesLoad' /\ SaveOK'
  BY <1>1 DEF IInv, PakInv, SavedImagesLoad, SaveOK
<1>5. SeesDurable'
  BY <1>1, <1>2 DEF IInv, SeesDurable, disk
<1> QED BY <1>3, <1>4, <1>5 DEF IInv, PakInv, disk

\* A save that goes on, without a change of what the next start finds.
LEMMA GoesOn ==
  ASSUME IInv, step \notin {"ready", "finish"}, step' \in Steps \ {"ready", "finish"},
         UNCHANGED <<reads_fail, pak, candidate, answer>>,
         {primary', backup', temporary'} \subseteq Images \cup {Absent},
         Durable' = Durable,
         step' \in {"exists", "copy", "copying", "rename"} => temporary' = candidate,
         step' \in {"copy", "copying"} => primary' # Absent
  PROVE  IInv'
<1>1. TypeOK'
  BY DEF IInv, PakInv, TypeOK
<1>2. SavedImagesLoad' /\ SaveOK'
  BY DEF IInv, PakInv, SavedImagesLoad, SaveOK
<1>3. View(Durable)' = View(Durable)
  BY DEF View, Decode, Decodes
<1>4. SeesDurable'
  BY <1>3 DEF IInv, SeesDurable
<1> QED BY <1>1, <1>2, <1>4 DEF IInv, PakInv

\* The Pak with the saved entries is what the next start finds.
LEMMA TakesOver ==
  ASSUME IInv, step = "finish"
  PROVE  /\ [pak EXCEPT !.entries = candidate] = View(candidate)
         /\ [pak EXCEPT !.entries = candidate] \in Pak
         /\ Durable = candidate
<1>1. /\ candidate # Absent /\ Decodes(candidate) /\ candidate \in Entries
      /\ pak \in Pak /\ pak.loaded /\ pak.load_result = "Ok"
  BY Saving
<1>2. View(candidate) = Loaded("Ok", candidate)
  BY <1>1 DEF View, Decode
<1>3. [pak EXCEPT !.entries = candidate] = Loaded("Ok", candidate)
  <2> DEFINE is == pak.loaded
             how == pak.load_result
             what == pak.entries
  <2>1. pak = [loaded |-> is, load_result |-> how, entries |-> what]
    BY <1>1 DEF Pak
  <2>2. is = TRUE /\ how = "Ok"
    BY <1>1 DEF Pak
  <2> HIDE DEF is, how, what
  <2>3. [pak EXCEPT !.entries = candidate]
          = [loaded |-> is, load_result |-> how, entries |-> candidate]
    BY <2>1
  <2> QED BY <2>2, <2>3 DEF Loaded
<1>4. Loaded("Ok", candidate) \in Pak
  BY <1>1, LoadedPak DEF LoadResult
<1>5. Durable = candidate
  BY <1>1 DEF IInv, SaveOK, Durable
<1> QED BY <1>2, <1>3, <1>4, <1>5

LEMMA SaveKeeps == IInv /\ Save => IInv'
<1> SUFFICES ASSUME IInv, Save PROVE IInv'
  OBVIOUS
<1>0. /\ {primary, backup, temporary} \subseteq Images \cup {Absent} /\ Damaged \in Images
      /\ Entries \subseteq Images
  BY DEF IInv, PakInv, TypeOK, Images
<1> USE DEF Steps
<1>1. CASE OpenTemporary
  <2>1. CASE Fail /\ UNCHANGED disk
    BY <1>1, <2>1, FailKeeps DEF OpenTemporary
  <2>2. CASE /\ temporary' = Damaged /\ step' = "write"
             /\ UNCHANGED <<reads_fail, primary, backup, pak, candidate, answer>>
    BY <1>0, <1>1, <2>2, GoesOn DEF OpenTemporary, Durable
  <2> QED BY <1>1, <2>1, <2>2 DEF OpenTemporary
<1>2. CASE WriteTemporary
  <2>1. CASE Fail /\ UNCHANGED disk
    BY <1>2, <2>1, FailKeeps DEF WriteTemporary
  <2>2. CASE /\ temporary' = candidate /\ step' = "exists"
             /\ UNCHANGED <<reads_fail, primary, backup, pak, candidate, answer>>
    <3>1. candidate \in Entries
      BY <1>2, Saving DEF WriteTemporary
    <3> QED BY <1>0, <1>2, <2>2, <3>1, GoesOn DEF WriteTemporary, Durable
  <2> QED BY <1>2, <2>1, <2>2 DEF WriteTemporary
<1>3. CASE PrimaryExists
  <2>1. step = "exists" /\ temporary = candidate /\ UNCHANGED disk
    BY <1>3 DEF PrimaryExists, IInv, SaveOK
  <2>2. CASE Fail
    BY <2>1, <2>2, FailKeeps
  <2>3. CASE /\ step' = IF primary = Absent THEN "rename" ELSE "copy"
             /\ UNCHANGED <<pak, candidate, answer>>
    BY <1>0, <2>1, <2>3, GoesOn DEF disk, Durable
  <2> QED BY <1>3, <2>2, <2>3 DEF PrimaryExists
<1>4. CASE StartCopy
  <2>1. step = "copy" /\ temporary = candidate /\ primary # Absent
    BY <1>4 DEF StartCopy, IInv, SaveOK
  <2>2. CASE Fail /\ UNCHANGED disk
    BY <2>1, <2>2, FailKeeps
  <2>3. CASE /\ backup' = Damaged /\ step' = "copying"
             /\ UNCHANGED <<reads_fail, primary, temporary, pak, candidate, answer>>
    BY <1>0, <2>1, <2>3, GoesOn DEF Durable
  <2> QED BY <1>4, <2>2, <2>3 DEF StartCopy
<1>5. CASE FinishCopy
  <2>1. step = "copying" /\ temporary = candidate /\ primary # Absent
    BY <1>5 DEF FinishCopy, IInv, SaveOK
  <2>2. CASE Fail /\ UNCHANGED disk
    BY <2>1, <2>2, FailKeeps
  <2>3. CASE /\ backup' = primary /\ step' = "rename"
             /\ UNCHANGED <<reads_fail, primary, temporary, pak, candidate, answer>>
    BY <1>0, <2>1, <2>3, GoesOn DEF Durable
  <2> QED BY <1>5, <2>2, <2>3 DEF FinishCopy
<1>6. CASE Rename
  <2>1. step = "rename" /\ temporary = candidate
    BY <1>6 DEF Rename, IInv, SaveOK
  <2>2. CASE Fail /\ UNCHANGED disk
    BY <2>1, <2>2, FailKeeps
  <2>3. CASE /\ primary' = temporary /\ temporary' = Absent /\ step' = "finish"
             /\ UNCHANGED <<reads_fail, backup, pak, candidate, answer>>
    <3>1. candidate \in Entries /\ candidate # None
      BY <2>1, Saving
    <3>2. TypeOK'
      BY <1>0, <2>1, <2>3, <3>1 DEF IInv, PakInv, TypeOK
    <3>3. SavedImagesLoad' /\ SaveOK'
      BY <2>1, <2>3 DEF IInv, PakInv, SavedImagesLoad, SaveOK
    <3>4. SeesDurable'
      BY <2>3 DEF SeesDurable
    <3> QED BY <2>3, <3>2, <3>3, <3>4 DEF IInv, PakInv
  <2> QED BY <1>6, <2>2, <2>3 DEF Rename
<1>7. CASE Finish
  <2>1. /\ step = "finish" /\ step' = "ready" /\ candidate' = None /\ answer' = "Ok"
        /\ pak' = [pak EXCEPT !.entries = candidate] /\ UNCHANGED disk
    BY <1>7 DEF Finish
  <2>2. pak' = View(candidate) /\ pak' \in Pak /\ Durable = candidate /\ Consistent(candidate)
    BY <2>1, TakesOver, Saving
  <2>3. pak'.entries = candidate
    BY <2>1 DEF IInv, PakInv, TypeOK, Pak
  <2>4. Durable' = Durable /\ View(Durable)' = View(Durable)
    BY <2>1, SameDisk
  <2>5. TypeOK'
    BY <1>0, <2>1, <2>2 DEF TypeOK, Result, disk
  <2>6. SavedImagesLoad' /\ SaveOK'
    BY <2>1, <2>2, <2>3 DEF SavedImagesLoad, SaveOK
  <2>7. SeesDurable'
    BY <2>2, <2>4 DEF SeesDurable
  <2> QED BY <2>1, <2>5, <2>6, <2>7 DEF IInv, PakInv, disk
<1> QED BY <1>1, <1>2, <1>3, <1>4, <1>5, <1>6, <1>7 DEF Save

LEMMA RestartKeeps == IInv /\ Restart => IInv'
<1> SUFFICES ASSUME IInv, Restart PROVE IInv'
  OBVIOUS
<1>1. pak' = NewPak /\ step' = "ready" /\ candidate' = None /\ answer' = None /\ UNCHANGED disk
  BY DEF Restart
<1>2. NewPak \in Pak /\ NewPak.loaded = FALSE /\ NewPak.entries = Formatted
  BY FormattedLoads DEF NewPak, Pak, LoadResult
<1>3. TypeOK'
  BY <1>1, <1>2 DEF IInv, PakInv, TypeOK, Steps, disk
<1>4. SavedImagesLoad' /\ SaveOK' /\ SeesDurable'
  BY <1>1, <1>2, FormattedLoads DEF SavedImagesLoad, SaveOK, SeesDurable
<1> QED BY <1>1, <1>3, <1>4 DEF IInv, PakInv, disk

\* The next step of the proofs below.
LEMMA StepKeeps == IInv /\ [Next]_vars => IInv'
<1> SUFFICES ASSUME IInv, [Next]_vars PROVE IInv'
  OBVIOUS
<1>1. CASE UNCHANGED vars
  <2>1. UNCHANGED disk /\ UNCHANGED <<pak, step, candidate, answer>>
    BY <1>1 DEF vars, disk
  <2>2. Durable' = Durable /\ View(Durable)' = View(Durable)
    BY <2>1, SameDisk
  <2> QED BY <2>1, <2>2 DEF disk, IInv, PakInv, TypeOK, SavedImagesLoad, SaveOK, SeesDurable
<1> QED BY <1>1, Steps3, CallKeeps, SaveKeeps, RestartKeeps

-----------------------------------------------------------------------------
(* The theorems *)

\* The invariant holds in every state, whatever the disk holds at first,
\* whichever steps fail and wherever the process dies.
THEOREM PakInvariant == Spec => []IInv
  BY InitHolds, StepKeeps, PTL DEF Spec

\* The types, and that no sequence of calls leads to a directory that load()
\* would refuse: neither the process nor a save ever holds one.
THEOREM PakSafe == Spec => []PakInv
<1>1. IInv => PakInv
  BY DEF IInv
<1> QED BY <1>1, PakInvariant, PTL

\* A process that could not read the Pak changes no file.
THEOREM RefusedPakStays == Spec => RefusedPakUntouched
<1>1. IInv /\ [Next]_vars => [pak.loaded /\ pak.load_result # "Ok" => UNCHANGED disk]_vars
  <2> SUFFICES ASSUME IInv, Next, pak.loaded, pak.load_result # "Ok"
               PROVE  UNCHANGED disk
    OBVIOUS
  <2>1. CASE CallStep
    BY <2>1 DEF CallStep, Reply, BeginSave, disk
  <2>2. CASE Save
    <3>1. step # "ready"
      BY <2>2 DEF Save, OpenTemporary, WriteTemporary, PrimaryExists, StartCopy, FinishCopy, Rename, Finish
    <3> QED BY <3>1, Saving
  <2>3. CASE Restart
    BY <2>3 DEF Restart
  <2> QED BY <2>1, <2>2, <2>3, Steps3
<1> QED BY <1>1, PakInvariant, PTL DEF Spec, RefusedPakUntouched

-----------------------------------------------------------------------------
(* The last image *)

\* A disk whose reads may fail holds, at first, no primary or one that loads: a
\* first read that fails would otherwise let the store work from the backup,
\* and its first save would overwrite the backup with the damaged primary.
ReadableFirst ==
  \A d \in FirstDisks : d.reads_fail => d.primary = Absent \/ Decodes(d.primary)

PrimaryReadable == reads_fail => primary = Absent \/ Decodes(primary)

\* The image that a save copies to the backup is one that loads.
LEMMA CopiesReadable ==
  ASSUME IInv, PrimaryReadable, step \in {"copy", "copying"}
  PROVE  Decodes(primary)
<1>1. primary # Absent /\ pak.loaded /\ pak.load_result = "Ok"
  BY Saving DEF IInv, SaveOK
<1>2. CASE reads_fail
  BY <1>1, <1>2 DEF PrimaryReadable
<1>3. CASE ~reads_fail
  <2>1. pak = Decode(primary)
    BY <1>1, <1>3 DEF IInv, SeesDurable, Durable, View
  <2>2. primary \in Images
    BY <1>1 DEF IInv, PakInv, TypeOK
  <2> QED BY <1>1, <2>1, <2>2, DecodedPak
<1> QED BY <1>2, <1>3

\* Only the steps of a save that copy and rename touch the two images.
LEMMA ImagesStay ==
  ASSUME IInv, [Next]_vars,
         ~(step \in {"copy", "copying"} /\ primary' = primary),
         ~(step = "rename" /\ primary' = temporary)
  PROVE  UNCHANGED <<primary, backup>>
<1>1. CASE CallStep
  BY <1>1 DEF CallStep, Reply, BeginSave, disk
<1>2. CASE Save
  BY <1>2 DEF Save, OpenTemporary, WriteTemporary, PrimaryExists, StartCopy, FinishCopy,
              Rename, Finish, disk
<1>3. CASE Restart \/ UNCHANGED vars
  BY <1>3 DEF Restart, disk, vars
<1> QED BY <1>1, <1>2, <1>3, Steps3

\* Reads fail or do not, from the first start on.
LEMMA SameReads == IInv /\ [Next]_vars => reads_fail' = reads_fail
<1> SUFFICES ASSUME IInv, [Next]_vars PROVE reads_fail' = reads_fail
  OBVIOUS
<1>1. CASE CallStep
  BY <1>1 DEF CallStep, Reply, BeginSave, disk
<1>2. CASE Save
  BY <1>2 DEF Save, OpenTemporary, WriteTemporary, PrimaryExists, StartCopy, FinishCopy,
              Rename, Finish, disk
<1>3. CASE Restart \/ UNCHANGED vars
  BY <1>3 DEF Restart, disk, vars
<1> QED BY <1>1, <1>2, <1>3, Steps3

\* The image that a save renames is one that loads.
LEMMA RenamesReadable ==
  ASSUME IInv, step = "rename", primary' = temporary
  PROVE  Decodes(primary)'
<1>1. primary' = candidate /\ Decodes(candidate)
  BY Saving DEF IInv, SaveOK
<1> QED BY <1>1 DEF Decodes

LEMMA ReadableKept == IInv /\ PrimaryReadable /\ [Next]_vars => PrimaryReadable'
<1> SUFFICES ASSUME IInv, PrimaryReadable, [Next]_vars PROVE PrimaryReadable'
  OBVIOUS
<1>1. reads_fail' = reads_fail
  BY SameReads
<1>2. CASE step = "rename" /\ primary' = temporary
  BY <1>2, RenamesReadable DEF PrimaryReadable
<1>3. CASE primary' = primary
  BY <1>1, <1>3 DEF PrimaryReadable, Decodes
<1> QED BY <1>2, <1>3, ImagesStay

\* Whatever fails and wherever the process dies, an image that loads is left
\* under one of the two names, on every disk but those ReadableFirst excludes.
THEOREM LastImageSurvives ==
  ASSUME ReadableFirst
  PROVE  Spec => LastImagePreserved
<1>1. Init => PrimaryReadable
  BY DEF Init, ReadableFirst, PrimaryReadable
<1>2. IInv /\ PrimaryReadable /\ [Next]_vars =>
        [Decodes(primary) \/ Decodes(backup) => (Decodes(primary) \/ Decodes(backup))']_vars
  <2> SUFFICES ASSUME IInv, PrimaryReadable, Next, Decodes(primary) \/ Decodes(backup)
               PROVE  Decodes(primary)' \/ Decodes(backup)'
    OBVIOUS
  <2>1. CASE step \in {"copy", "copying"} /\ primary' = primary
    <3>1. Decodes(primary)
      BY <2>1, CopiesReadable
    <3> QED BY <2>1, <3>1 DEF Decodes
  <2>2. CASE step = "rename" /\ primary' = temporary
    BY <2>2, RenamesReadable
  <2>3. CASE UNCHANGED <<primary, backup>>
    BY <2>3 DEF Decodes
  <2> QED BY <2>1, <2>2, <2>3, ImagesStay
<1> QED BY <1>1, <1>2, ReadableKept, PakInvariant, PTL DEF Spec, LastImagePreserved

-----------------------------------------------------------------------------
(* The store implements AtomicPak *)

\* What a process sees: nothing before it has read the Pak.
Seen == IF pak.loaded THEN pak ELSE None

LEMMA NotSeen == IInv => (Seen = None <=> ~pak.loaded)
  BY MarksAssumption DEF IInv, PakInv, TypeOK, Seen

\* The directories of AtomicPak are the ones on disk.
LEMMA DurableType == IInv => Durable \in Images \cup {Absent}
  BY DEF IInv, PakInv, TypeOK, Durable

\* Of a disk that does not read well nothing is said.
LEMMA UnreliableStutters ==
  ASSUME reads_fail, reads_fail'
  PROVE  UNCHANGED Atomic!vars
  BY DEF Atomic!vars, Reliable

\* A step that changes nothing AtomicPak speaks of.
LEMMA Stutters ==
  ASSUME reads_fail' = reads_fail, Durable' = Durable, UNCHANGED <<pak, candidate, answer>>
  PROVE  UNCHANGED Atomic!vars
  BY DEF Atomic!vars, Reliable, Durable

\* A call, as AtomicPak has it.
LEMMA CallMaps ==
  ASSUME IInv, ~reads_fail, CallStep
  PROVE  Atomic!Answer \/ Atomic!Ask
<1>1. PICK p \in Load :
        /\ Enter(p)
        /\ \/ \E result \in Result : Reply(result)
           \/ Admitted(p) /\ \E entries \in Entries : Consistent(entries) /\ BeginSave(entries)
  BY DEF CallStep
<1>2. step = "ready" /\ pak' = p /\ UNCHANGED disk
  BY <1>1 DEF Enter, Reply, BeginSave, disk
<1>3. p \in Pak /\ p.loaded /\ p = View(Durable) /\ (pak.loaded => p = pak)
  BY <1>1, <1>2, LoadOK
<1>4. candidate = None
  BY <1>2 DEF IInv, PakInv, TypeOK
<1>5. Durable' = Durable /\ ~reads_fail'
  BY <1>2, SameDisk DEF disk
<1>6. Seen' = p /\ Seen' = IF Seen = None THEN View(Durable) ELSE Seen
  BY <1>2, <1>3, NotSeen DEF Seen
<1>7. ASSUME NEW result \in Result, Reply(result) PROVE Atomic!Answer
  <2>1. answer' \in Result /\ candidate' = None
    BY <1>4, <1>7 DEF Reply
  <2> QED BY <1>4, <1>5, <1>6, <2>1 DEF Atomic!Answer, Atomic!Looks, Reliable, Seen, Durable
<1>8. ASSUME NEW entries \in Entries, Admitted(p), Consistent(entries), BeginSave(entries)
      PROVE  Atomic!Ask
  <2>1. candidate' = entries /\ answer' = None
    BY <1>8 DEF BeginSave
  <2>2. entries # Absent /\ entries \in Images /\ Decodes(entries)
    BY <1>8, Marks DEF Images
  <2>3. View(entries).load_result = "Ok"
    BY <2>2 DEF View, Decode, Loaded
  <2>4. Usable(Seen') /\ Usable(View(entries))
    BY <1>6, <1>8, <2>3 DEF Usable, Admitted
  <2> QED BY <1>4, <1>5, <1>6, <2>1, <2>2, <2>4
          DEF Atomic!Ask, Atomic!Looks, Reliable, Seen, Durable
<1> QED BY <1>1, <1>7, <1>8

\* A save that fails before it has renamed the image.
LEMMA FailMaps ==
  ASSUME IInv, ~reads_fail, step \notin {"ready", "finish"}, Fail, UNCHANGED disk
  PROVE  Atomic!Deny
<1>1. candidate # None /\ pak.loaded
  BY Saving
<1>2. Seen = View(Durable)
  BY <1>1 DEF Seen, IInv, SeesDurable
<1>3. candidate' = None /\ answer' = "ControllerFailure" /\ Seen' = Seen
  BY DEF Fail, Seen
<1>4. Durable' = Durable /\ ~reads_fail'
  BY SameDisk DEF disk
<1> QED BY <1>1, <1>2, <1>3, <1>4 DEF Atomic!Deny, Reliable, Seen, Durable

\* The rename is the step that changes the directory.
LEMMA RenameMaps ==
  ASSUME IInv, ~reads_fail, step = "rename",
         primary' = temporary, UNCHANGED <<reads_fail, pak, candidate, answer>>
  PROVE  Atomic!Commit
<1>1. candidate # None /\ candidate # Absent /\ pak.loaded /\ temporary = candidate
  BY Saving DEF IInv, SaveOK
<1>2. Seen = View(Durable)
  BY <1>1 DEF Seen, IInv, SeesDurable
<1>3. Durable' = candidate /\ Seen' = Seen
  BY <1>1 DEF Durable, Seen
<1> QED BY <1>1, <1>2, <1>3 DEF Atomic!Commit, Reliable, Seen, Durable

LEMMA FinishMaps ==
  ASSUME IInv, ~reads_fail, Finish
  PROVE  Atomic!Grant
<1>1. /\ step = "finish" /\ candidate' = None /\ answer' = "Ok"
      /\ pak' = [pak EXCEPT !.entries = candidate] /\ UNCHANGED disk
  BY DEF Finish
<1>2. candidate # None /\ Durable = candidate /\ pak' = View(candidate)
  BY <1>1, Saving, TakesOver
<1>3. View(candidate).loaded
  BY <1>1, Saving DEF View, Decode, Loaded
<1>4. Seen' = View(candidate)
  BY <1>2, <1>3 DEF Seen
<1>5. Durable' = Durable /\ ~reads_fail'
  BY <1>1, SameDisk DEF disk
<1> QED BY <1>1, <1>2, <1>4, <1>5 DEF Atomic!Grant, Reliable, Seen, Durable

LEMMA SaveMaps ==
  ASSUME IInv, ~reads_fail, Save
  PROVE  Atomic!Commit \/ Atomic!Grant \/ Atomic!Deny \/ UNCHANGED Atomic!vars
<1>1. ASSUME step \notin {"ready", "finish"}, Fail, UNCHANGED disk PROVE Atomic!Deny
  BY <1>1, FailMaps
<1>2. CASE OpenTemporary
  BY <1>1, <1>2, Stutters DEF OpenTemporary, Durable
<1>3. CASE WriteTemporary
  BY <1>1, <1>3, Stutters DEF WriteTemporary, Durable
<1>4. CASE PrimaryExists
  BY <1>1, <1>4, Stutters DEF PrimaryExists, Durable, disk
<1>5. CASE StartCopy
  <2>1. primary # Absent
    BY <1>5 DEF StartCopy, IInv, SaveOK
  <2> QED BY <1>1, <1>5, <2>1, Stutters DEF StartCopy, Durable
<1>6. CASE FinishCopy
  <2>1. primary # Absent
    BY <1>6 DEF FinishCopy, IInv, SaveOK
  <2> QED BY <1>1, <1>6, <2>1, Stutters DEF FinishCopy, Durable
<1>7. CASE Rename
  BY <1>1, <1>7, RenameMaps DEF Rename
<1>8. CASE Finish
  BY <1>8, FinishMaps
<1> QED BY <1>2, <1>3, <1>4, <1>5, <1>6, <1>7, <1>8 DEF Save

LEMMA RestartMaps ==
  ASSUME IInv, ~reads_fail, Restart
  PROVE  Atomic!Restart
<1>1. /\ pak'.loaded = FALSE /\ candidate' = None /\ answer' = None
      /\ Durable' = Durable /\ ~reads_fail'
  BY SameDisk DEF Restart, NewPak, disk
<1> QED BY <1>1 DEF Atomic!Restart, Reliable, Durable

LEMMA InitMaps == Init => Atomic!Init
<1> SUFFICES ASSUME Init PROVE Atomic!Init
  OBVIOUS
<1>1. IInv /\ pak.loaded = FALSE /\ candidate = None /\ answer = None
  BY InitHolds DEF Init, NewPak
<1>2. Durable \in Images \cup {Absent}
  BY <1>1, DurableType
<1> QED BY <1>1, <1>2 DEF Atomic!Init, Reliable, Durable

LEMMA StepMaps == IInv /\ [Next]_vars => [Atomic!Next]_Atomic!vars
<1> SUFFICES ASSUME IInv, [Next]_vars PROVE [Atomic!Next]_Atomic!vars
  OBVIOUS
<1>1. reads_fail' = reads_fail
  BY SameReads
<1>2. CASE reads_fail
  BY <1>1, <1>2, UnreliableStutters
<1>3. CASE ~reads_fail
  <2>1. CASE UNCHANGED vars
    BY <2>1, Stutters, SameDisk DEF vars, disk
  <2>2. CASE CallStep
    BY <1>3, <2>2, CallMaps DEF Atomic!Next
  <2>3. CASE Save
    BY <1>3, <2>3, SaveMaps DEF Atomic!Next
  <2>4. CASE Restart
    BY <1>3, <2>4, RestartMaps DEF Atomic!Next
  <2> QED BY <2>1, <2>2, <2>3, <2>4, Steps3
<1> QED BY <1>2, <1>3

\* On a disk that reads well the directory changes in one step and for good:
\* each call, each step of a save and each restart is a step of AtomicPak, or
\* one it does not see.
THEOREM PakIsAtomic == Spec => ImplementsAtomicPak
  BY InitMaps, StepMaps, PakInvariant, PTL DEF Spec, ImplementsAtomicPak, Atomic!Spec
=============================================================================
