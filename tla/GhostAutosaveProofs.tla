------------------------ MODULE GhostAutosaveProofs ------------------------
(***************************************************************************)
(* The automatic archive with any courses, times, lengths of runs and      *)
(* first files: what counts as saved is on disk, a readable archive stays  *)
(* readable, a damaged one is left alone, an unsaved best is kept, and     *)
(* with files that can be read the archive never gets slower.              *)
(*                                                                         *)
(* Calls are functions from a world to a set of worlds, and so are the     *)
(* lemmas: each says what a function makes of a world that is in order     *)
(* (WorldOK), and how the worlds it gives relate to that one (Follows).    *)
(***************************************************************************)
EXTENDS GhostAutosave, TLAPS

-----------------------------------------------------------------------------
(* The inductive invariant *)

DiskType == [primary : Archives \cup {Absent, Corrupt}, backup : Archives \cup {Absent, Corrupt}]
EntryType == [best : Archives \cup {NewRun}, loaded : BOOLEAN,
              dirty : BOOLEAN, load_result : Result \ {"NoGhost"}]
SessionType == [active : BOOLEAN, capturing : BOOLEAN, full : BOOLEAN,
                invalid : BOOLEAN, finished : BOOLEAN, candidate : BOOLEAN,
                course : Courses \cup {None}, recording : Run]

\* None of the two files can be read, and one is there.
DamagedDisk(d) == Archived(d) = {} /\ Corrupt \in Files(d)

\* A run is at least as fast as all that is on disk.
Leads(best, d) == \A run \in Archived(d) : best.finish_ms <= run.finish_ms

\* The entry of a course and its files.
DiskOK(d) == d \in DiskType /\ (~reads_fail => InOrder(d))
EntryOK(e, d) ==
  /\ e \in EntryType
  /\ DiskOK(d)
  /\ e.dirty => e.loaded /\ Complete(e.best)
  /\ ~e.loaded => e.best = NewRun
  /\ Complete(e.best) /\ ~e.dirty => e.best \in Archived(d)
  /\ e.loaded /\ e.load_result = "Ok" => ~DamagedDisk(d)
  /\ ~reads_fail /\ e.loaded /\ Archived(d) # {} => Complete(e.best) /\ Leads(e.best, d)

\* The session and the entry of its course: a candidate is in memory.
SessionOK(s, es) ==
  /\ s \in SessionType
  /\ s.active => s.course \in Courses /\ es[s.course].loaded
  /\ s.candidate => /\ s.course \in Courses
                    /\ Complete(s.recording)
                    /\ es[s.course].best.finish_ms = s.recording.finish_ms

Worlds == [session : SessionType, entries : [Courses -> EntryType], disk : [Courses -> DiskType]]
WorldOK(w) ==
  /\ w \in Worlds
  /\ \A c \in Courses : EntryOK(w.entries[c], w.disk[c])
  /\ SessionOK(w.session, w.entries)

IInv == reads_fail \in BOOLEAN /\ WorldOK(World)

-----------------------------------------------------------------------------
(* What a call may do to a course *)

\* A best does not get slower, and is not lost.
Better(e, f) ==
  Complete(e.best) => Complete(f.best) /\ f.best.finish_ms <= e.best.finish_ms

\* The promises about the files.
Kept(d, f) ==
  /\ Archived(d) # {} => Archived(f) # {}
  /\ DamagedDisk(d) => f = d
  /\ ~reads_fail => \A run \in Archived(d) :
                      \E other \in Archived(f) : other.finish_ms <= run.finish_ms

Follows(w, v) ==
  \A c \in Courses : Better(w.entries[c], v.entries[c]) /\ Kept(w.disk[c], v.disk[c])

\* Runs, and what of them can be in a file.
LEMMA RunFacts ==
  /\ \A run \in Archives : run \in Run /\ Complete(run) /\ run.finish_ms \in Nat
  /\ NewRun \in Run /\ ~Complete(NewRun)
  /\ \A run \in Run : run.finish_ms \in Nat /\ run.points \in Nat /\ run.goal_samples \in Nat
  /\ \A run \in Run : Complete(run) => run \in Archives
  /\ \A run \in Archives \cup {NewRun} : Complete(run) => run \in Archives
<1>1. NewRun \in Run /\ ~Complete(NewRun)
  BY TimesAssumption DEF Run, NewRun, Complete
<1>2. \A run \in Run : run.finish_ms \in Nat /\ run.points \in Nat /\ run.goal_samples \in Nat
  <2> SUFFICES ASSUME NEW run \in Run
               PROVE  run.finish_ms \in Nat /\ run.points \in Nat /\ run.goal_samples \in Nat
    OBVIOUS
  <2>1. /\ run.finish_ms \in Times \cup {0}
        /\ run.points \in 0..kMaxSamples /\ run.goal_samples \in 0..kMaxSamples
    BY DEF Run
  <2>2. \A t \in Times \cup {0} : t \in Nat
    BY TimesAssumption
  <2>3. \A n \in 0..kMaxSamples : n \in Nat
    BY TimesAssumption
  <2> QED BY <2>1, <2>2, <2>3
<1> QED BY <1>1, <1>2 DEF Archives

LEMMA DiskFacts ==
  ASSUME NEW d \in DiskType
  PROVE  /\ d.primary \in Archives \cup {Absent, Corrupt}
         /\ d.backup \in Archives \cup {Absent, Corrupt}
         /\ Archived(d) \subseteq Archives
         /\ d.primary \in Archives <=> d.primary \in Archived(d)
         /\ d.backup \in Archives <=> d.backup \in Archived(d)
         /\ Archived(d) \subseteq {d.primary, d.backup}
  BY FilesAssumption DEF DiskType, Archived, Files

\* Calls one after the other.
LEMMA BetterTransitive ==
  ASSUME NEW e \in EntryType, NEW f \in EntryType, NEW g \in EntryType,
         Better(e, f), Better(f, g)
  PROVE  Better(e, g)
<1>1. e.best \in Run /\ f.best \in Run /\ g.best \in Run
  BY RunFacts DEF EntryType
<1> QED BY <1>1, RunFacts DEF Better

LEMMA KeptTransitive ==
  ASSUME NEW d \in DiskType, NEW f \in DiskType, NEW g \in DiskType, Kept(d, f), Kept(f, g)
  PROVE  Kept(d, g)
<1>1. /\ \A run \in Archived(d) : run.finish_ms \in Nat
      /\ \A run \in Archived(f) : run.finish_ms \in Nat
      /\ \A run \in Archived(g) : run.finish_ms \in Nat
  BY DiskFacts, RunFacts
<1>2. Archived(d) # {} => Archived(g) # {}
  BY DEF Kept
<1>3. DamagedDisk(d) => g = d
  BY DEF Kept
<1>4. ASSUME ~reads_fail, NEW run \in Archived(d)
      PROVE  \E other \in Archived(g) : other.finish_ms <= run.finish_ms
  <2>1. PICK some \in Archived(f) : some.finish_ms <= run.finish_ms
    BY <1>4 DEF Kept
  <2>2. PICK other \in Archived(g) : other.finish_ms <= some.finish_ms
    BY <1>4 DEF Kept
  <2> QED BY <1>1, <2>1, <2>2
<1> QED BY <1>2, <1>3, <1>4 DEF Kept

LEMMA SameEntry ==
  ASSUME NEW e \in EntryType
  PROVE  Better(e, e)
<1>1. e.best \in Run
  BY RunFacts DEF EntryType
<1> QED BY <1>1, RunFacts DEF Better

LEMMA SameFiles ==
  ASSUME NEW d \in DiskType
  PROVE  Kept(d, d)
<1>1. \A run \in Archived(d) : run.finish_ms <= run.finish_ms
  BY DiskFacts, RunFacts
<1> QED BY <1>1 DEF Kept

-----------------------------------------------------------------------------
(* The archive *)

\* What reading a file says of it.
LEMMA ReadFacts ==
  ASSUME NEW file \in Archives \cup {Absent, Corrupt}, NEW r \in ReadAutomaticFile(file)
  PROVE  /\ r \in Result
         /\ r = "Ok" => file \in Archives
         /\ r = "NoGhost" => file = Absent
         /\ r = "CorruptData" => file = Corrupt
         /\ ~reads_fail => (file \in Archives => r = "Ok")
<1>1. CASE file = Absent
  BY <1>1, FilesAssumption DEF ReadAutomaticFile, Result
<1>2. CASE file = Corrupt
  BY <1>2, FilesAssumption DEF ReadAutomaticFile, Result
<1>3. CASE file \in Archives
  BY <1>3, FilesAssumption DEF ReadAutomaticFile, Result
<1> QED BY <1>1, <1>2, <1>3

\* The run and the result that Loaded gives an entry.
ReadRun(d, primary, backup) ==
  CASE primary = "Ok" -> d.primary
    [] primary # "Ok" /\ backup = "Ok" -> d.backup
    [] OTHER -> NewRun
ReadResult(primary, backup) ==
  CASE "Ok" \in {primary, backup} -> "Ok"
    [] primary = "NoGhost" /\ backup # "Ok" -> backup
    [] OTHER -> primary

LEMMA ReadRunFacts ==
  ASSUME NEW d, DiskOK(d),
         NEW primary \in ReadAutomaticFile(d.primary), NEW backup \in ReadAutomaticFile(d.backup)
  PROVE  /\ ReadRun(d, primary, backup) \in Archived(d) \cup {NewRun}
         /\ "Ok" \in {primary, backup} => ReadRun(d, primary, backup) \in Archived(d)
         /\ ~reads_fail /\ Archived(d) # {} =>
              ReadRun(d, primary, backup) \in Archived(d) /\ Leads(ReadRun(d, primary, backup), d)
<1>0. d \in DiskType /\ (~reads_fail => InOrder(d))
  BY DEF DiskOK
<1>1. /\ primary \in Result /\ backup \in Result
      /\ primary = "Ok" => d.primary \in Archived(d)
      /\ backup = "Ok" => d.backup \in Archived(d)
      /\ ~reads_fail => (d.primary \in Archived(d) => primary = "Ok")
      /\ ~reads_fail => (d.backup \in Archived(d) => backup = "Ok")
  BY <1>0, DiskFacts, ReadFacts
<1>2. CASE primary = "Ok"
  <2>1. ReadRun(d, primary, backup) = d.primary
    BY <1>2 DEF ReadRun
  <2>2. ASSUME ~reads_fail PROVE Leads(d.primary, d)
    <3> SUFFICES ASSUME NEW run \in Archived(d) PROVE d.primary.finish_ms <= run.finish_ms
      BY DEF Leads
    <3>1. CASE run = d.primary
      BY <1>0, <3>1, DiskFacts, RunFacts
    <3>2. CASE run = d.backup
      <4>1. {d.primary, d.backup} \cap {Absent, Corrupt} = {}
        BY <1>0, <1>1, <1>2, <3>2, DiskFacts, FilesAssumption
      <4> QED BY <1>0, <2>2, <3>2, <4>1 DEF InOrder
    <3> QED BY <1>0, <3>1, <3>2, DiskFacts
  <2> QED BY <1>1, <1>2, <2>1, <2>2
<1>3. CASE primary # "Ok" /\ backup = "Ok"
  <2>1. ReadRun(d, primary, backup) = d.backup
    BY <1>3 DEF ReadRun
  <2>2. ASSUME ~reads_fail PROVE Leads(d.backup, d)
    <3>1. Archived(d) \subseteq {d.backup}
      BY <1>0, <1>1, <1>3, <2>2, DiskFacts
    <3>2. d.backup.finish_ms \in Nat
      BY <1>0, <1>1, <1>3, DiskFacts, RunFacts
    <3> QED BY <3>1, <3>2 DEF Leads
  <2> QED BY <1>1, <1>3, <2>1, <2>2
<1>4. CASE primary # "Ok" /\ backup # "Ok"
  <2>1. ReadRun(d, primary, backup) = NewRun
    BY <1>4 DEF ReadRun
  <2>2. ~reads_fail => Archived(d) = {}
    BY <1>0, <1>1, <1>4, DiskFacts
  <2> QED BY <1>4, <2>1, <2>2
<1> QED BY <1>2, <1>3, <1>4

\* The entry after its files were read, whatever it was before.
LEMMA LoadedOK ==
  ASSUME NEW e \in EntryType, NEW d, DiskOK(d),
         e.dirty => Complete(e.best),
         Complete(e.best) => e.dirty,
         NEW primary \in ReadAutomaticFile(d.primary), NEW backup \in ReadAutomaticFile(d.backup)
  PROVE  LET f == Loaded(e, d, primary, backup)
         IN EntryOK(f, d) /\ f.loaded /\ Better(e, f) /\ (f.dirty => e.dirty /\ f.best = e.best)
<1> DEFINE saved == ReadRun(d, primary, backup)
           result == ReadResult(primary, backup)
           best == IF Takes(saved, e.best) THEN saved ELSE e.best
           dirty == e.dirty /\ ~Takes(saved, e.best)
           f == [best |-> best, loaded |-> TRUE, dirty |-> dirty, load_result |-> LoadResult(result)]
<1>1. Loaded(e, d, primary, backup) = f
  BY DEF Loaded, ReadRun, ReadResult
<1>2. /\ d \in DiskType /\ Archived(d) \subseteq Archives
      /\ e.best \in Archives \cup {NewRun} /\ e.dirty \in BOOLEAN
  BY DiskFacts DEF DiskOK, EntryType
<1>3. saved \in Archived(d) \cup {NewRun} /\ (Complete(saved) => saved \in Archived(d))
  BY ReadRunFacts, RunFacts
<1>4. /\ saved.finish_ms \in Nat /\ e.best.finish_ms \in Nat
      /\ saved \in Archives \cup {NewRun}
  BY <1>2, <1>3, RunFacts
<1>5. /\ LoadResult(result) \in Result \ {"NoGhost"}
      /\ LoadResult(result) = "Ok" => ~DamagedDisk(d)
  <2>1. primary \in Result /\ backup \in Result
    BY <1>2, DiskFacts, ReadFacts
  <2>2. CASE "Ok" \in {primary, backup}
    <3>1. Archived(d) # {}
      BY <2>2, <1>2, DiskFacts, ReadFacts
    <3> QED BY <2>2, <3>1 DEF ReadResult, LoadResult, Result, DamagedDisk
  <2>3. CASE primary = "NoGhost" /\ backup # "Ok"
    <3>1. result = backup
      BY <2>3 DEF ReadResult
    <3>2. backup = "NoGhost" => d.primary = Absent /\ d.backup = Absent
      BY <1>2, <2>3, DiskFacts, ReadFacts
    <3>3. backup = "NoGhost" => ~DamagedDisk(d)
      BY <3>2, FilesAssumption DEF DamagedDisk, Files
    <3> QED BY <2>1, <2>3, <3>1, <3>3 DEF LoadResult, Result
  <2>4. CASE "Ok" \notin {primary, backup} /\ primary # "NoGhost"
    <3>1. result = primary
      BY <2>4 DEF ReadResult
    <3> QED BY <2>1, <2>4, <3>1 DEF LoadResult, Result
  <2> QED BY <2>2, <2>3, <2>4
<1>6. ~reads_fail /\ Archived(d) # {} => Complete(saved) /\ Leads(saved, d)
  BY <1>2, ReadRunFacts, RunFacts
<1> HIDE DEF saved, result
<1>7. best \in Archives \cup {NewRun} /\ dirty \in BOOLEAN
  BY <1>2, <1>4
<1>8. Complete(best) /\ ~dirty => best \in Archived(d)
  BY <1>3 DEF Takes
<1>9. dirty => e.dirty /\ best = e.best /\ Complete(best)
  OBVIOUS
<1>10. Complete(e.best) => Complete(best) /\ best.finish_ms <= e.best.finish_ms
  BY <1>4 DEF Takes
<1>11. ASSUME ~reads_fail, Archived(d) # {} PROVE Complete(best) /\ Leads(best, d)
  <2>1. Complete(saved) /\ Leads(saved, d)
    BY <1>6, <1>11
  <2>2. CASE Takes(saved, e.best)
    BY <2>1, <2>2
  <2>3. CASE ~Takes(saved, e.best)
    <3>1. Complete(e.best) /\ e.best.finish_ms <= saved.finish_ms
      BY <1>4, <2>1, <2>3 DEF Takes
    <3>2. \A run \in Archived(d) : run.finish_ms \in Nat
      BY <1>2, RunFacts
    <3> QED BY <1>4, <2>1, <2>3, <3>1, <3>2 DEF Leads
  <2> QED BY <2>2, <2>3
<1> HIDE DEF best, dirty
<1>12. /\ f.best = best /\ f.loaded = TRUE /\ f.dirty = dirty /\ f.load_result = LoadResult(result)
       /\ f \in EntryType
  BY <1>5, <1>7 DEF EntryType
<1> HIDE DEF f
<1>13. EntryOK(f, d)
  BY <1>5, <1>8, <1>9, <1>11, <1>12 DEF EntryOK
<1>14. Better(e, f)
  BY <1>10, <1>12 DEF Better
<1> QED BY <1>1, <1>9, <1>12, <1>13, <1>14

LEMMA AutomaticEntryOK ==
  ASSUME NEW e, NEW d, EntryOK(e, d), NEW f \in AutomaticEntry(e, d)
  PROVE  EntryOK(f, d) /\ f.loaded /\ Better(e, f)
<1>1. e \in EntryType /\ DiskOK(d) /\ d \in DiskType
  BY DEF EntryOK, DiskOK
<1>2. CASE e.loaded
  BY <1>1, <1>2, SameEntry DEF AutomaticEntry
<1>3. CASE ~e.loaded
  <2>1. PICK primary \in ReadAutomaticFile(d.primary), backup \in ReadAutomaticFile(d.backup) :
          f = Loaded(e, d, primary, backup)
    BY <1>3 DEF AutomaticEntry
  <2>2. (e.dirty => Complete(e.best)) /\ (Complete(e.best) => e.dirty)
    BY <1>3, RunFacts DEF EntryOK
  <2> QED BY <1>1, <2>1, <2>2, LoadedOK
<1> QED BY <1>2, <1>3

-----------------------------------------------------------------------------
(* Writing *)

\* The files that a write leaves, from the primary it found.
LEMMA WrittenFiles ==
  ASSUME NEW best, NEW d \in DiskType, NEW w \in Writes(best, d)
  PROVE  /\ w.done \in BOOLEAN
         /\ \/ ~w.done /\ w.disk = d
            \/ ~w.done /\ d.primary \in Archives
               /\ w.disk.primary = d.primary /\ w.disk.backup \in {Corrupt, d.primary}
            \/ w.done /\ w.disk.primary = best
               /\ w.disk.backup = IF d.primary \in Archives THEN d.primary ELSE d.backup
         /\ best \in Archives => w.disk \in DiskType
<1>1. CASE w = [done |-> FALSE, disk |-> d]
  BY <1>1
<1>2. ASSUME NEW existing \in ReadAutomaticFile(d.primary) \ {"StorageFailure"},
             w \in LET copied == IF existing \in Copied THEN [d EXCEPT !.backup = d.primary] ELSE d
                       half == IF existing \in Copied THEN [d EXCEPT !.backup = Corrupt] ELSE d
                   IN {[done |-> FALSE, disk |-> half], [done |-> FALSE, disk |-> copied],
                       [done |-> TRUE, disk |-> [copied EXCEPT !.primary = best]]}
      PROVE  /\ w.done \in BOOLEAN
             /\ \/ ~w.done /\ w.disk = d
                \/ ~w.done /\ d.primary \in Archives
                   /\ w.disk.primary = d.primary /\ w.disk.backup \in {Corrupt, d.primary}
                \/ w.done /\ w.disk.primary = best
                   /\ w.disk.backup = IF d.primary \in Archives THEN d.primary ELSE d.backup
             /\ best \in Archives => w.disk \in DiskType
  <2>1. d.primary \in Archives \cup {Absent, Corrupt} /\ d.backup \in Archives \cup {Absent, Corrupt}
    BY DEF DiskType
  <2>2. existing \in Copied <=> d.primary \in Archives
    <3>1. existing \in Copied => d.primary \in Archives
      BY <2>1, ReadFacts DEF Copied
    <3>2. d.primary \in Archives => existing \in Copied
      BY <2>1, FilesAssumption DEF Copied, ReadAutomaticFile
    <3> QED BY <3>1, <3>2
  <2>3. CASE d.primary \in Archives
    <3> DEFINE copied == [d EXCEPT !.backup = d.primary]
               half == [d EXCEPT !.backup = Corrupt]
               done == [copied EXCEPT !.primary = best]
    <3>1. w \in {[done |-> FALSE, disk |-> half], [done |-> FALSE, disk |-> copied],
                 [done |-> TRUE, disk |-> done]}
      BY <1>2, <2>2, <2>3
    <3>2. copied \in DiskType /\ copied.primary = d.primary /\ copied.backup = d.primary
      BY <2>3 DEF DiskType
    <3>3. half \in DiskType /\ half.primary = d.primary /\ half.backup = Corrupt
      BY <2>3 DEF DiskType
    <3> HIDE DEF copied
    <3>4. /\ done.primary = best /\ done.backup = d.primary
          /\ best \in Archives => done \in DiskType
      BY <3>2 DEF DiskType
    <3> HIDE DEF half, done
    <3>5. CASE w = [done |-> FALSE, disk |-> half]
      BY <2>3, <3>3, <3>5
    <3>6. CASE w = [done |-> FALSE, disk |-> copied]
      BY <2>3, <3>2, <3>6
    <3>7. CASE w = [done |-> TRUE, disk |-> done]
      BY <2>3, <3>4, <3>7
    <3> QED BY <3>1, <3>5, <3>6, <3>7
  <2>4. CASE d.primary \notin Archives
    <3> DEFINE done == [d EXCEPT !.primary = best]
    <3>1. w \in {[done |-> FALSE, disk |-> d], [done |-> TRUE, disk |-> done]}
      BY <1>2, <2>2, <2>4
    <3>2. /\ done.primary = best /\ done.backup = d.backup
          /\ best \in Archives => done \in DiskType
      BY DEF DiskType
    <3> HIDE DEF done
    <3>3. CASE w = [done |-> FALSE, disk |-> d]
      BY <3>3
    <3>4. CASE w = [done |-> TRUE, disk |-> done]
      BY <2>4, <3>2, <3>4
    <3> QED BY <3>1, <3>3, <3>4
  <2> QED BY <2>3, <2>4
<1> QED BY <1>1, <1>2 DEF Writes

\* A write of the best of all, to files that are not damaged.
LEMMA WritesOK ==
  ASSUME NEW best \in Archives, NEW d, DiskOK(d), ~DamagedDisk(d),
         ~reads_fail => Leads(best, d),
         NEW w \in Writes(best, d)
  PROVE  /\ DiskOK(w.disk) /\ Kept(d, w.disk) /\ ~DamagedDisk(w.disk)
         /\ w.done \in BOOLEAN
         /\ w.done => best \in Archived(w.disk)
         /\ ~reads_fail => Leads(best, w.disk)
<1> DEFINE f == w.disk
<1>1. d \in DiskType /\ f \in DiskType /\ w.done \in BOOLEAN
  BY WrittenFiles DEF DiskOK
<1>2. /\ \A run \in Archived(d) \cup Archived(f) : run.finish_ms \in Nat
      /\ Archived(d) \subseteq {d.primary, d.backup} /\ Archived(f) \subseteq {f.primary, f.backup}
      /\ best.finish_ms \in Nat
  BY <1>1, DiskFacts, RunFacts
<1>3. CASE ~w.done /\ f = d
  BY <1>1, <1>3, SameFiles DEF DiskOK
<1>4. CASE ~w.done /\ d.primary \in Archives /\ f.primary = d.primary /\ f.backup \in {Corrupt, d.primary}
  <2>1. d.primary \in Archived(d) /\ Archived(f) = {d.primary}
    BY <1>1, <1>2, <1>4, DiskFacts, FilesAssumption
  <2>2. ~reads_fail => InOrder(f)
    <3>1. f.backup = Corrupt \/ f.primary.finish_ms <= f.backup.finish_ms
      BY <1>2, <1>4, <2>1
    <3> QED BY <3>1 DEF InOrder
  <2>3. ASSUME ~reads_fail, NEW run \in Archived(d) PROVE d.primary.finish_ms <= run.finish_ms
    <3>1. CASE run = d.primary
      BY <1>2, <3>1
    <3>2. CASE run = d.backup
      <4>1. {d.primary, d.backup} \cap {Absent, Corrupt} = {}
        BY <2>1, <2>3, <3>2 DEF Archived
      <4> QED BY <2>3, <3>2, <4>1 DEF DiskOK, InOrder
    <3> QED BY <1>2, <3>1, <3>2
  <2>4. Kept(d, f) /\ ~DamagedDisk(f)
    BY <2>1, <2>3 DEF Kept, DamagedDisk
  <2>5. ~reads_fail => Leads(best, f)
    BY <2>1 DEF Leads
  <2> QED BY <1>1, <1>4, <2>2, <2>4, <2>5 DEF DiskOK
<1>5. CASE /\ w.done /\ f.primary = best
           /\ f.backup = IF d.primary \in Archives THEN d.primary ELSE d.backup
  <2>1. best \in Archived(f) /\ Archived(f) \subseteq Archived(d) \cup {best}
    BY <1>1, <1>2, <1>5, DiskFacts
  <2>2. ~reads_fail => Leads(best, f)
    BY <1>2, <2>1 DEF Leads
  <2>3. ~reads_fail => InOrder(f)
    <3> SUFFICES ASSUME ~reads_fail, {f.primary, f.backup} \cap {Absent, Corrupt} = {}
                 PROVE  f.primary.finish_ms <= f.backup.finish_ms
      BY DEF InOrder
    <3>1. f.backup \in Archived(f)
      BY DEF Archived, Files
    <3> QED BY <1>5, <2>2, <3>1 DEF Leads
  <2>4. Kept(d, f) /\ ~DamagedDisk(f)
    BY <2>1 DEF Kept, DamagedDisk, Leads
  <2> QED BY <1>1, <1>5, <2>1, <2>2, <2>3, <2>4 DEF DiskOK
<1> HIDE DEF f
<1>6. \/ ~w.done /\ f = d
      \/ ~w.done /\ d.primary \in Archives /\ f.primary = d.primary /\ f.backup \in {Corrupt, d.primary}
      \/ w.done /\ f.primary = best
         /\ f.backup = IF d.primary \in Archives THEN d.primary ELSE d.backup
  BY <1>1, WrittenFiles DEF f
<1> QED BY <1>3, <1>4, <1>5, <1>6 DEF f

\* The entry after a write of it.
LEMMA WrittenOK ==
  ASSUME NEW r, NEW d, EntryOK(r, d), r.dirty, Writable(r),
         NEW w \in Writes(r.best, d)
  PROVE  LET f == [r EXCEPT !.dirty = Unsaved(w)]
         IN /\ EntryOK(f, w.disk) /\ Better(r, f) /\ Kept(d, w.disk)
            /\ f.loaded /\ f.best = r.best
<1> DEFINE f == [r EXCEPT !.dirty = Unsaved(w)]
<1>1. /\ r \in EntryType /\ r.best \in Archives /\ Complete(r.best) /\ r.loaded
      /\ r.load_result = "Ok" /\ DiskOK(d) /\ ~DamagedDisk(d) /\ (~reads_fail => Leads(r.best, d))
  BY RunFacts DEF EntryOK, Writable, EntryType, Leads
<1>2. /\ DiskOK(w.disk) /\ Kept(d, w.disk) /\ ~DamagedDisk(w.disk)
      /\ w.done \in BOOLEAN
      /\ w.done => r.best \in Archived(w.disk)
      /\ ~reads_fail => Leads(r.best, w.disk)
  BY <1>1, WritesOK
<1>3. Unsaved(w) \in BOOLEAN /\ Unsaved(w) = ~w.done
  BY <1>2 DEF Unsaved
<1>4. /\ f \in EntryType /\ f.best = r.best /\ f.loaded = r.loaded
      /\ f.load_result = r.load_result /\ f.dirty = Unsaved(w)
  BY <1>1, <1>3 DEF EntryType
<1> HIDE DEF f
<1>5. EntryOK(f, w.disk)
  BY <1>1, <1>2, <1>3, <1>4 DEF EntryOK
<1>6. Better(r, f)
  BY <1>1, <1>4, SameEntry DEF Better
<1> QED BY <1>1, <1>2, <1>4, <1>5, <1>6 DEF f

\* What save_automatic leaves of an entry and its files.
LEMMA SaveAutomaticOK ==
  ASSUME NEW e, NEW d, EntryOK(e, d), NEW o \in SaveAutomatic(e, d)
  PROVE  /\ EntryOK(o.entry, o.disk)
         /\ Better(e, o.entry) /\ Kept(d, o.disk)
         /\ e.loaded => o.entry.loaded
         /\ o.recovered \in BOOLEAN
         /\ ~o.recovered => o.entry.best = e.best
<1>1. e \in EntryType /\ DiskOK(d) /\ d \in DiskType
  BY DEF EntryOK, DiskOK
<1>2. CASE ~e.dirty \/ ~Complete(e.best)
  <2>1. o = [entry |-> e, disk |-> d, recovered |-> FALSE]
    BY <1>2 DEF SaveAutomatic
  <2>2. o.entry = e /\ o.disk = d /\ o.recovered = FALSE
    BY <2>1
  <2> QED BY <1>1, <2>2, SameEntry, SameFiles
<1>3. CASE e.dirty /\ Complete(e.best)
  <2> DEFINE again == [e EXCEPT !.loaded = FALSE]
             Tried == IF e.load_result = "StorageFailure" THEN AutomaticEntry(again, d) ELSE {e}
             Of(r) == CASE ~r.dirty -> {[entry |-> r, disk |-> d, recovered |-> TRUE]}
                        [] r.dirty /\ ~Writable(r) -> {[entry |-> r, disk |-> d, recovered |-> FALSE]}
                        [] OTHER -> {[entry |-> [r EXCEPT !.dirty = Unsaved(w)], disk |-> w.disk,
                                      recovered |-> FALSE] : w \in Writes(r.best, d)}
  <2>1. PICK r \in Tried : o \in Of(r)
    BY <1>3 DEF SaveAutomatic
  <2>2. EntryOK(r, d) /\ r.loaded /\ Better(e, r) /\ (r.dirty => r.best = e.best)
    <3>1. CASE e.load_result = "StorageFailure"
      <4>1. /\ again \in EntryType /\ again.best = e.best /\ again.dirty = e.dirty
            /\ ~again.loaded
        BY <1>1 DEF EntryType
      <4> HIDE DEF again
      <4>2. PICK primary \in ReadAutomaticFile(d.primary), backup \in ReadAutomaticFile(d.backup) :
              r = Loaded(again, d, primary, backup)
        BY <2>1, <3>1, <4>1 DEF AutomaticEntry
      <4>3. EntryOK(r, d) /\ r.loaded /\ Better(again, r) /\ (r.dirty => r.best = again.best)
        BY <1>1, <1>3, <4>1, <4>2, LoadedOK
      <4> QED BY <4>1, <4>3 DEF Better
    <3>2. CASE e.load_result # "StorageFailure"
      <4>1. r = e
        BY <2>1, <3>2
      <4> QED BY <1>1, <1>3, <4>1, SameEntry DEF EntryOK
    <3> QED BY <3>1, <3>2
  <2>3. r \in EntryType
    BY <2>2 DEF EntryOK
  <2> HIDE DEF Tried
  <2>4. CASE ~r.dirty
    <3>1. o = [entry |-> r, disk |-> d, recovered |-> TRUE]
      BY <2>1, <2>4
    <3>2. o.entry = r /\ o.disk = d /\ o.recovered = TRUE
      BY <3>1
    <3> QED BY <1>1, <2>2, <3>2, SameFiles
  <2>5. CASE r.dirty /\ ~Writable(r)
    <3>1. o = [entry |-> r, disk |-> d, recovered |-> FALSE]
      BY <2>1, <2>5
    <3>2. o.entry = r /\ o.disk = d /\ o.recovered = FALSE
      BY <3>1
    <3> QED BY <1>1, <2>2, <2>5, <3>2, SameFiles
  <2>6. CASE r.dirty /\ Writable(r)
    <3>1. PICK w \in Writes(r.best, d) :
            o = [entry |-> [r EXCEPT !.dirty = Unsaved(w)], disk |-> w.disk, recovered |-> FALSE]
      BY <2>1, <2>6
    <3> DEFINE f == [r EXCEPT !.dirty = Unsaved(w)]
    <3>2. o.entry = f /\ o.disk = w.disk /\ o.recovered = FALSE
      BY <3>1
    <3>3. EntryOK(f, w.disk) /\ Better(r, f) /\ Kept(d, w.disk) /\ f.loaded /\ f.best = r.best
      BY <2>2, <2>6, WrittenOK
    <3> HIDE DEF f
    <3>4. f \in EntryType
      BY <3>3 DEF EntryOK
    <3>5. Better(e, f)
      BY <1>1, <2>2, <2>3, <3>3, <3>4, BetterTransitive
    <3> QED BY <2>2, <2>6, <3>2, <3>3, <3>5
  <2> QED BY <2>4, <2>5, <2>6
<1> QED BY <1>2, <1>3 DEF EntryOK, EntryType

-----------------------------------------------------------------------------
(* Worlds *)

LEMMA FollowsTransitive ==
  ASSUME NEW u, NEW v, NEW w, WorldOK(u), WorldOK(v), WorldOK(w), Follows(u, v), Follows(v, w)
  PROVE  Follows(u, w)
<1> SUFFICES ASSUME NEW c \in Courses
             PROVE  Better(u.entries[c], w.entries[c]) /\ Kept(u.disk[c], w.disk[c])
  BY DEF Follows
<1>1. /\ u.entries[c] \in EntryType /\ v.entries[c] \in EntryType /\ w.entries[c] \in EntryType
      /\ u.disk[c] \in DiskType /\ v.disk[c] \in DiskType /\ w.disk[c] \in DiskType
  BY DEF WorldOK, EntryOK, DiskOK
<1>2. /\ Better(u.entries[c], v.entries[c]) /\ Kept(u.disk[c], v.disk[c])
      /\ Better(v.entries[c], w.entries[c]) /\ Kept(v.disk[c], w.disk[c])
  BY DEF Follows
<1> QED BY <1>1, <1>2, BetterTransitive, KeptTransitive

\* A change of the session only.
LEMMA SessionOnly ==
  ASSUME NEW w, WorldOK(w), NEW v, v \in Worlds, v.entries = w.entries, v.disk = w.disk,
         SessionOK(v.session, w.entries)
  PROVE  WorldOK(v) /\ Follows(w, v)
<1>1. WorldOK(v)
  BY DEF WorldOK
<1>2. ASSUME NEW c \in Courses PROVE w.entries[c] \in EntryType /\ w.disk[c] \in DiskType
  BY DEF WorldOK, EntryOK, DiskOK
<1> QED BY <1>1, <1>2, SameEntry, SameFiles DEF Follows

\* What Save leaves of a world: its session, that of a candidate that lost apart.
LEMMA SaveOK ==
  ASSUME NEW w, WorldOK(w), NEW courses \in SUBSET Courses, NEW v \in Save(w, courses)
  PROVE  /\ WorldOK(v) /\ Follows(w, v)
         /\ v.session \in {w.session, [w.session EXCEPT !.candidate = FALSE]}
         /\ \A c \in Courses : w.entries[c].loaded => v.entries[c].loaded
<1> DEFINE Of(c) == SaveAutomatic(w.entries[c], w.disk[c])
           s == w.session
<1>1. PICK o \in [courses -> UNION {Of(c) : c \in courses}] :
        (\A c \in courses : o[c] \in Of(c)) /\ v = Applied(w, o)
  BY DEF Save
<1> DEFINE lost == \E c \in courses : c = s.course /\ o[c].recovered
           t == [s EXCEPT !.candidate = @ /\ \A c \in DOMAIN o : c = s.course => ~o[c].recovered]
<1>2. DOMAIN o = courses
  OBVIOUS
<1>3. /\ v.session = t
      /\ v.entries = [c \in Courses |-> IF c \in courses THEN o[c].entry ELSE w.entries[c]]
      /\ v.disk = [c \in Courses |-> IF c \in courses THEN o[c].disk ELSE w.disk[c]]
      /\ DOMAIN v = {"session", "entries", "disk"}
      /\ v = [session |-> v.session, entries |-> v.entries, disk |-> v.disk]
  BY <1>1, <1>2 DEF Applied
<1>4. s \in SessionType /\ s.candidate \in BOOLEAN
  BY DEF WorldOK, SessionOK, SessionType
<1>5. /\ t \in {s, [s EXCEPT !.candidate = FALSE]}
      /\ t.candidate => s.candidate /\ ~lost
  <2> DEFINE won == \A c \in DOMAIN o : c = s.course => ~o[c].recovered
             val == s.candidate /\ won
  <2>1. won \in BOOLEAN /\ (won => ~lost)
    BY <1>2
  <2> HIDE DEF won, lost
  <2>2. val = s.candidate \/ val = FALSE
    BY <1>4, <2>1
  <2>3. val => s.candidate /\ ~lost
    BY <2>1
  <2>4. t = [s EXCEPT !.candidate = val] /\ t.candidate = val
    BY <1>4 DEF won, SessionType
  <2> HIDE DEF val, t
  <2>5. [s EXCEPT !.candidate = s.candidate] = s
    BY <1>4 DEF SessionType
  <2> QED BY <2>2, <2>3, <2>4, <2>5
<1> HIDE DEF t, lost, s
<1>6. /\ t \in SessionType /\ t.active = s.active /\ t.course = s.course
      /\ t.recording = s.recording
  <2>1. [s EXCEPT !.candidate = FALSE] \in SessionType
    BY <1>4 DEF SessionType
  <2> QED BY <1>4, <1>5, <2>1 DEF SessionType
<1>7. ASSUME NEW c \in Courses
      PROVE  /\ EntryOK(v.entries[c], v.disk[c])
             /\ Better(w.entries[c], v.entries[c]) /\ Kept(w.disk[c], v.disk[c])
             /\ w.entries[c].loaded => v.entries[c].loaded
             /\ (c \in courses => ~o[c].recovered) => v.entries[c].best = w.entries[c].best
  <2>1. EntryOK(w.entries[c], w.disk[c])
    BY DEF WorldOK
  <2>2. w.entries[c] \in EntryType /\ w.disk[c] \in DiskType
    BY <2>1 DEF EntryOK, DiskOK
  <2>3. CASE c \in courses
    <3>1. o[c] \in SaveAutomatic(w.entries[c], w.disk[c])
      BY <1>1, <2>3
    <3>2. v.entries[c] = o[c].entry /\ v.disk[c] = o[c].disk
      BY <1>3, <2>3
    <3> QED BY <2>1, <2>3, <3>1, <3>2, SaveAutomaticOK
  <2>4. CASE c \notin courses
    <3>1. v.entries[c] = w.entries[c] /\ v.disk[c] = w.disk[c]
      BY <1>3, <2>4
    <3> QED BY <2>1, <2>2, <3>1, SameEntry, SameFiles
  <2> QED BY <2>3, <2>4
<1>8. v \in Worlds
  <2>1. \A c \in Courses : v.entries[c] \in EntryType /\ v.disk[c] \in DiskType
    BY <1>7 DEF EntryOK, DiskOK
  <2>2. v.entries \in [Courses -> EntryType] /\ v.disk \in [Courses -> DiskType]
    BY <1>3, <2>1
  <2>3. v.session \in SessionType
    BY <1>3, <1>6
  <2> QED BY <1>3, <2>2, <2>3 DEF Worlds
<1>9. SessionOK(v.session, v.entries)
  <2>1. SessionOK(s, w.entries)
    BY DEF WorldOK, s
  <2>2. t.active => t.course \in Courses /\ v.entries[t.course].loaded
    BY <1>6, <1>7, <2>1 DEF SessionOK
  <2>3. ASSUME t.candidate
        PROVE  /\ t.course \in Courses /\ Complete(t.recording)
               /\ v.entries[t.course].best.finish_ms = t.recording.finish_ms
    <3>1. s.candidate /\ ~lost
      BY <1>5, <2>3
    <3>2. s.course \in Courses /\ (s.course \in courses => ~o[s.course].recovered)
      BY <2>1, <3>1 DEF SessionOK, lost
    <3>3. v.entries[s.course].best = w.entries[s.course].best
      BY <1>7, <3>2
    <3> QED BY <1>6, <2>1, <3>1, <3>2, <3>3 DEF SessionOK
  <2> QED BY <1>3, <1>6, <2>2, <2>3 DEF SessionOK
<1> QED BY <1>3, <1>5, <1>7, <1>8, <1>9 DEF WorldOK, Follows, s

\* Another session, and another entry of a course.
LEMMA WithSession ==
  ASSUME NEW w \in Worlds, NEW s \in SessionType
  PROVE  LET v == [w EXCEPT !.session = s]
         IN v \in Worlds /\ v.session = s /\ v.entries = w.entries /\ v.disk = w.disk
  BY DEF Worlds

LEMMA EntryOnly ==
  ASSUME NEW w, WorldOK(w), NEW course \in Courses,
         NEW e, EntryOK(e, w.disk[course]), Better(w.entries[course], e),
         NEW v, v \in Worlds, v.entries = [w.entries EXCEPT ![course] = e], v.disk = w.disk,
         SessionOK(v.session, v.entries)
  PROVE  WorldOK(v) /\ Follows(w, v)
<1>1. ASSUME NEW c \in Courses
      PROVE  /\ EntryOK(v.entries[c], v.disk[c])
             /\ Better(w.entries[c], v.entries[c]) /\ Kept(w.disk[c], v.disk[c])
  <2>1. EntryOK(w.entries[c], w.disk[c]) /\ w.entries[c] \in EntryType /\ w.disk[c] \in DiskType
    BY DEF WorldOK, EntryOK, DiskOK
  <2>2. v.entries[c] = IF c = course THEN e ELSE w.entries[c]
    BY DEF WorldOK, Worlds
  <2> QED BY <2>1, <2>2, SameEntry, SameFiles
<1> QED BY <1>1 DEF WorldOK, Follows

-----------------------------------------------------------------------------
(* Recording *)

LEMMA StartOK ==
  ASSUME NEW w, WorldOK(w), NEW course \in Courses, NEW v \in Start(w, course)
  PROVE  WorldOK(v) /\ Follows(w, v) /\ v.session.active /\ v.session.course = course
<1> DEFINE s == [NewSession EXCEPT !.active = TRUE, !.capturing = TRUE, !.course = course]
<1>1. PICK f \in FlushAutomatic(w) : \E e \in AutomaticEntry(f.entries[course], f.disk[course]) :
        v = [session |-> s, entries |-> [f.entries EXCEPT ![course] = e], disk |-> f.disk]
  BY DEF Start
<1>2. PICK e \in AutomaticEntry(f.entries[course], f.disk[course]) :
        v = [session |-> s, entries |-> [f.entries EXCEPT ![course] = e], disk |-> f.disk]
  BY <1>1
<1>3. WorldOK(f) /\ Follows(w, f)
  BY <1>1, SaveOK DEF FlushAutomatic
<1>4. EntryOK(e, f.disk[course]) /\ e.loaded /\ Better(f.entries[course], e)
  BY <1>2, <1>3, AutomaticEntryOK DEF WorldOK
<1>5. /\ s \in SessionType /\ s.active /\ s.course = course /\ s.candidate = FALSE
  BY RunFacts DEF SessionType, NewSession
<1> HIDE DEF s
<1>6. v.session = s /\ v.entries = [f.entries EXCEPT ![course] = e] /\ v.disk = f.disk
  BY <1>2
<1>7. /\ f.entries \in [Courses -> EntryType] /\ f.disk \in [Courses -> DiskType]
      /\ e \in EntryType
  BY <1>3, <1>4 DEF WorldOK, Worlds, EntryOK
<1>8. v \in Worlds /\ v.entries[course] = e
  BY <1>2, <1>5, <1>6, <1>7 DEF Worlds
<1>9. SessionOK(v.session, v.entries)
  BY <1>4, <1>5, <1>6, <1>8 DEF SessionOK
<1>10. WorldOK(v) /\ Follows(f, v)
  BY <1>3, <1>4, <1>6, <1>8, <1>9, EntryOnly
<1> QED BY <1>3, <1>5, <1>6, <1>10, FollowsTransitive

\* The best of a course is the recording from now on.
LEMMA PublishOK ==
  ASSUME NEW u, WorldOK(u),
         NEW w, w \in Worlds, w.entries = u.entries, w.disk = u.disk,
         w.session.course \in Courses, u.entries[w.session.course].loaded,
         Complete(w.session.recording),
         Complete(u.entries[w.session.course].best) =>
           w.session.recording.finish_ms <= u.entries[w.session.course].best.finish_ms,
         NEW just_finished \in BOOLEAN, NEW v \in Publish(w, just_finished)
  PROVE  WorldOK(v) /\ Follows(u, v)
<1> DEFINE c == w.session.course
           new == w.session.recording
           e == w.entries[c]
           differs == new.points # e.best.points \/ new.finish_ms # e.best.finish_ms
           w2 == IF differs THEN [w EXCEPT !.entries[c].best = new, !.entries[c].dirty = TRUE] ELSE w
<1>1. v \in IF just_finished THEN Save(w2, {c}) ELSE {w2}
  BY DEF Publish
<1>2. /\ w.session \in SessionType /\ new \in Archives /\ c \in Courses
      /\ EntryOK(e, w.disk[c]) /\ e \in EntryType /\ e.loaded
      /\ Complete(e.best) => new.finish_ms <= e.best.finish_ms
  BY RunFacts DEF Worlds, SessionType, WorldOK, EntryOK
<1>3. WorldOK(w2) /\ Follows(u, w2)
  <2>1. CASE differs
    <3> DEFINE f == [e EXCEPT !.best = new, !.dirty = TRUE]
    <3>1. /\ f \in EntryType /\ f.best = new /\ f.dirty = TRUE /\ f.loaded = e.loaded
          /\ f.load_result = e.load_result
      BY <1>2 DEF EntryType
    <3>2. /\ w2.entries = [w.entries EXCEPT ![c] = f]
          /\ w2.session = w.session /\ w2.disk = w.disk /\ w2 \in Worlds
      BY <1>2, <2>1, <3>1 DEF Worlds
    <3> HIDE DEF f, w2
    <3>3. EntryOK(f, w.disk[c])
      <4>1. Complete(new)
        BY <1>2, RunFacts
      <4>2. ASSUME ~reads_fail, Archived(w.disk[c]) # {} PROVE Leads(new, w.disk[c])
        <5>1. Complete(e.best) /\ Leads(e.best, w.disk[c])
          BY <1>2, <4>2 DEF EntryOK
        <5>2. new.finish_ms \in Nat /\ e.best.finish_ms \in Nat
          BY <1>2, RunFacts DEF EntryType
        <5>3. \A run \in Archived(w.disk[c]) : run.finish_ms \in Nat
          BY <1>2, DiskFacts, RunFacts DEF EntryOK, DiskOK
        <5> QED BY SMTT(40), <1>2, <5>1, <5>2, <5>3 DEF Leads
      <4> QED BY <1>2, <3>1, <4>1, <4>2 DEF EntryOK
    <3>4. Better(e, f)
      BY <1>2, <3>1, RunFacts DEF Better
    <3>5. w2.entries[c] = f
      BY <1>2, <3>2 DEF Worlds
    <3>6. SessionOK(w2.session, w2.entries)
      BY <1>2, <3>1, <3>2, <3>5, RunFacts DEF SessionOK
    <3> QED BY <1>2, <3>2, <3>3, <3>4, <3>6, EntryOnly
  <2>2. CASE ~differs
    <3>1. w2 = w
      BY <2>2
    <3>2. SessionOK(w.session, w.entries)
      BY <1>2, <2>2, RunFacts DEF SessionOK
    <3> HIDE DEF w2
    <3> QED BY <3>1, <3>2, SessionOnly
  <2> QED BY <2>1, <2>2
<1> HIDE DEF w2
<1>4. CASE just_finished
  <2>1. v \in Save(w2, {c}) /\ {c} \in SUBSET Courses
    BY <1>1, <1>2, <1>4
  <2> HIDE DEF c
  <2>2. WorldOK(v) /\ Follows(w2, v)
    BY <1>3, <2>1, SaveOK
  <2> QED BY <1>3, <2>2, FollowsTransitive
<1>5. CASE ~just_finished
  BY <1>1, <1>3, <1>5
<1> QED BY <1>4, <1>5

\* What a frame may show.
FrameType == [eligible : BOOLEAN, course : Courses, paused : BOOLEAN, retired : BOOLEAN,
              finished : BOOLEAN, elapsed_ms : Times \cup {0}, in_range : BOOLEAN]

LEMMA FrameFacts ==
  ASSUME NEW frame \in Frames
  PROVE  frame \in FrameType /\ (frame.finished => frame.elapsed_ms \in Times)
<1>1. \A c \in Courses : Plain(c) \in FrameType /\ Plain(c).finished = FALSE
  BY DEF Plain, FrameType
<1>2. ASSUME NEW plain \in FrameType, plain.finished = FALSE,
             \/ frame = [plain EXCEPT !.eligible = FALSE]
             \/ frame = [plain EXCEPT !.paused = TRUE]
             \/ frame = [plain EXCEPT !.retired = TRUE]
      PROVE  frame \in FrameType /\ frame.finished = FALSE
  BY <1>2 DEF FrameType
<1>3. ASSUME NEW c \in Courses, NEW r \in BOOLEAN
      PROVE  Racing(c, r) \in FrameType /\ Racing(c, r).finished = FALSE
  BY <1>1 DEF Racing, FrameType
<1>4. ASSUME NEW c \in Courses, NEW t \in Times, NEW r \in BOOLEAN
      PROVE  Finishing(c, t, r) \in FrameType /\ Finishing(c, t, r).elapsed_ms = t
  <2> DEFINE racing == Racing(c, r)
             times == Times \cup {0}
  <2>1. racing \in FrameType /\ t \in times
    BY <1>3
  <2>2. FrameType = [eligible : BOOLEAN, course : Courses, paused : BOOLEAN, retired : BOOLEAN,
                     finished : BOOLEAN, elapsed_ms : times, in_range : BOOLEAN]
    BY DEF FrameType
  <2>3. Finishing(c, t, r) = [racing EXCEPT !.finished = TRUE, !.elapsed_ms = t]
    BY DEF Finishing
  <2> HIDE DEF racing, times
  <2>4. /\ [racing EXCEPT !.finished = TRUE, !.elapsed_ms = t] \in FrameType
        /\ [racing EXCEPT !.finished = TRUE, !.elapsed_ms = t].elapsed_ms = t
    BY <2>1, <2>2
  <2> QED BY <2>3, <2>4
<1>5. CASE frame \in {[Plain(c) EXCEPT !.eligible = FALSE] : c \in Courses}
                    \cup {[Plain(c) EXCEPT !.paused = TRUE] : c \in Courses}
                    \cup {[Plain(c) EXCEPT !.retired = TRUE] : c \in Courses}
  BY <1>1, <1>2, <1>5
<1>6. CASE frame \in {Racing(c, r) : c \in Courses, r \in BOOLEAN}
  <2>1. PICK c \in Courses, r \in BOOLEAN : frame = Racing(c, r)
    BY <1>6
  <2>2. frame \in FrameType /\ ~frame.finished
    BY <1>3, <2>1
  <2> QED BY <2>2
<1>7. CASE frame \in {Finishing(c, t, r) : c \in Courses, t \in Times, r \in BOOLEAN}
  BY <1>4, <1>7
<1> QED BY <1>5, <1>6, <1>7 DEF Frames

\* The recording after a frame that finishes the race, and with its sample.
LEMMA WithPoints ==
  ASSUME NEW run \in Run, NEW n \in 0..kMaxSamples
  PROVE  [run EXCEPT !.points = n] \in Run
<1> DEFINE lengths == 0..kMaxSamples
           times == Times \cup {0}
<1>1. Run = [finish_ms : times, goal_samples : lengths, points : lengths]
  BY DEF Run
<1>2. n \in lengths
  OBVIOUS
<1> HIDE DEF lengths, times
<1> QED BY <1>1, <1>2

LEMMA LongerRun ==
  ASSUME NEW run \in Run, run.points < kMaxSamples
  PROVE  LET longer == [run EXCEPT !.points = @ + 1]
         IN /\ longer \in Run /\ longer.finish_ms = run.finish_ms
            /\ Complete(run) => Complete(longer)
<1> DEFINE n == run.points + 1
<1>1. /\ run.points \in Nat /\ run.goal_samples \in Nat
      /\ kMaxSamples \in Nat
  BY RunFacts, TimesAssumption
<1>2. n \in 0..kMaxSamples /\ (run.goal_samples <= run.points => run.goal_samples <= n)
  BY <1>1
<1> HIDE DEF n
<1> DEFINE longer == [run EXCEPT !.points = n]
<1>3. longer \in Run
  BY <1>2, WithPoints
<1>4. /\ longer.points = n /\ longer.finish_ms = run.finish_ms
      /\ longer.goal_samples = run.goal_samples
  BY DEF Run
<1> HIDE DEF longer
<1>5. Complete(run) => Complete(longer)
  BY <1>2, <1>4 DEF Complete
<1> QED BY <1>3, <1>4, <1>5 DEF longer, n

LEMMA FinishedRun ==
  ASSUME NEW run \in Run, NEW t \in Times, NEW f,
         f = [run EXCEPT !.goal_samples = run.points, !.finish_ms = t]
  PROVE  /\ f \in Run /\ f.finish_ms = t
         /\ 0 < f.goal_samples /\ f.goal_samples < kMaxSamples => Complete(f)
<1>1. /\ f \in Run /\ f.finish_ms = t /\ f.goal_samples = run.points /\ f.points = run.points
  BY DEF Run
<1>2. run.points \in Nat /\ t > 0
  BY RunFacts, TimesAssumption
<1> QED BY <1>1, <1>2 DEF Complete

LEMMA CaptureOK ==
  ASSUME NEW w, WorldOK(w), w.session.active, NEW frame \in Frames, NEW v \in Capture(w, frame)
  PROVE  WorldOK(v) /\ Follows(w, v)
<1> DEFINE s == w.session
           just_finished == frame.finished /\ ~s.finished
           run == IF just_finished
                  THEN [s.recording EXCEPT !.goal_samples = s.recording.points,
                                           !.finish_ms = frame.elapsed_ms]
                  ELSE s.recording
           candidate == IF just_finished
                        THEN /\ ~s.invalid /\ ~s.full
                             /\ 0 < run.goal_samples /\ run.goal_samples < kMaxSamples
                             /\ Beats(run, w.entries[s.course].best)
                        ELSE s.candidate
           room == run.points < kMaxSamples
           longer == IF room THEN [run EXCEPT !.points = @ + 1] ELSE run
           ended == [s EXCEPT !.finished = @ \/ just_finished]
           stopped == [ended EXCEPT !.recording = run, !.invalid = TRUE,
                                    !.capturing = FALSE, !.candidate = FALSE]
           goes == [ended EXCEPT !.recording = longer, !.candidate = candidate,
                                 !.full = @ \/ longer.points = kMaxSamples]
<1>1. v \in IF room /\ ~frame.in_range
            THEN {[w EXCEPT !.session = stopped]}
            ELSE IF candidate /\ Complete(longer)
                 THEN Publish([w EXCEPT !.session = goes], just_finished)
                 ELSE {[w EXCEPT !.session = goes]}
  BY DEF Capture
<1>2. /\ w \in Worlds /\ s \in SessionType /\ SessionOK(s, w.entries)
      /\ s.course \in Courses /\ w.entries[s.course].loaded
      /\ w.entries[s.course].best \in Archives \cup {NewRun}
      /\ s.recording \in Run
  BY DEF WorldOK, SessionOK, SessionType, EntryOK, EntryType
<1>3. just_finished \in BOOLEAN /\ (just_finished => frame.elapsed_ms \in Times)
  BY <1>2, FrameFacts DEF SessionType, FrameType
<1>4. run \in Run /\ (candidate => Complete(run))
  <2>1. CASE just_finished
    BY <1>2, <1>3, <2>1, FinishedRun
  <2>2. CASE ~just_finished
    BY <1>2, <2>2 DEF SessionOK
  <2> QED BY <2>1, <2>2
<1>5. candidate /\ Complete(w.entries[s.course].best) =>
        run.finish_ms <= w.entries[s.course].best.finish_ms
  <2>1. run.finish_ms \in Nat /\ w.entries[s.course].best.finish_ms \in Nat
    BY <1>2, <1>4, RunFacts
  <2>2. CASE just_finished
    <3> HIDE DEF run
    <3> QED BY <2>1, <2>2 DEF Beats
  <2>3. CASE ~just_finished
    <3>1. candidate => w.entries[s.course].best.finish_ms = s.recording.finish_ms
      BY <1>2, <2>3 DEF SessionOK
    <3>2. run = s.recording
      BY <2>3
    <3> HIDE DEF candidate, run
    <3> QED BY <2>1, <3>1, <3>2
  <2> QED BY <2>2, <2>3
<1>6. candidate \in BOOLEAN
  BY <1>2, <1>3 DEF SessionType
<1> HIDE DEF candidate, run
<1>7. longer \in Run /\ longer.finish_ms = run.finish_ms /\ (candidate => Complete(longer))
  BY <1>4, LongerRun
<1> HIDE DEF longer, just_finished
<1>8. ended \in SessionType /\ ended.active = s.active /\ ended.course = s.course
  BY <1>2, <1>3 DEF SessionType
<1> HIDE DEF ended
<1>9. /\ stopped \in SessionType /\ stopped.active = s.active /\ stopped.course = s.course
      /\ stopped.candidate = FALSE
  BY <1>4, <1>8 DEF SessionType
<1>10. /\ goes \in SessionType /\ goes.active = s.active /\ goes.course = s.course
       /\ goes.candidate = candidate /\ goes.recording = longer
  BY <1>6, <1>7, <1>8 DEF SessionType
<1> HIDE DEF stopped, goes, room
<1>11. CASE v = [w EXCEPT !.session = stopped]
  <2>1. v \in Worlds /\ v.session = stopped /\ v.entries = w.entries /\ v.disk = w.disk
    BY <1>2, <1>9, <1>11, WithSession
  <2>2. SessionOK(stopped, w.entries)
    BY <1>2, <1>9 DEF SessionOK
  <2> QED BY <2>1, <2>2, SessionOnly
<1> DEFINE w2 == [w EXCEPT !.session = goes]
<1>12. w2 \in Worlds /\ w2.session = goes /\ w2.entries = w.entries /\ w2.disk = w.disk
  BY <1>2, <1>10, WithSession
<1> HIDE DEF w2
<1>13. CASE candidate /\ v \in Publish(w2, just_finished)
  BY <1>2, <1>3, <1>5, <1>7, <1>10, <1>12, <1>13, PublishOK DEF s
<1>14. CASE ~candidate /\ v = w2
  <2>1. SessionOK(goes, w.entries)
    BY <1>2, <1>10, <1>14 DEF SessionOK
  <2> QED BY <1>12, <1>14, <2>1, SessionOnly
<1> QED BY <1>1, <1>7, <1>11, <1>13, <1>14 DEF w2

LEMMA WatchOK ==
  ASSUME NEW w, WorldOK(w), w.session.active, NEW frame \in Frames, NEW v \in Watch(w, frame)
  PROVE  WorldOK(v) /\ Follows(w, v)
<1> DEFINE retires == frame.retired /\ ~w.session.finished
           s == w.session
           stopped == [s EXCEPT !.capturing = FALSE]
<1>1. w \in Worlds /\ s \in SessionType /\ SessionOK(s, w.entries)
  BY DEF WorldOK, SessionOK
<1>2. CASE frame.paused
  <2>1. v = w
    BY <1>2 DEF Watch
  <2> QED BY <1>1, <2>1, SessionOnly
<1>3. CASE ~frame.paused /\ (retires \/ ~s.capturing)
  <2>1. v = [w EXCEPT !.session.capturing = FALSE]
    BY <1>3 DEF Watch
  <2>2. v = [w EXCEPT !.session = stopped]
    BY <2>1
  <2>3. /\ stopped \in SessionType /\ stopped.active = s.active /\ stopped.course = s.course
        /\ stopped.candidate = s.candidate /\ stopped.recording = s.recording
    BY <1>1 DEF SessionType
  <2> HIDE DEF stopped, s
  <2>4. v \in Worlds /\ v.session = stopped /\ v.entries = w.entries /\ v.disk = w.disk
    BY <1>1, <2>2, <2>3, WithSession
  <2>5. SessionOK(stopped, w.entries)
    BY <1>1, <2>3 DEF SessionOK
  <2> QED BY <2>4, <2>5, SessionOnly
<1>4. CASE ~frame.paused /\ ~(retires \/ ~s.capturing)
  <2>1. v \in Capture(w, frame)
    BY <1>4 DEF Watch
  <2> QED BY <2>1, CaptureOK
<1> QED BY <1>2, <1>3, <1>4

LEMMA InactiveOK ==
  ASSUME NEW w, WorldOK(w)
  PROVE  WorldOK(Inactive(w)) /\ Follows(w, Inactive(w))
<1> DEFINE s == w.session
           quiet == [s EXCEPT !.active = FALSE, !.capturing = FALSE]
           v == Inactive(w)
<1>1. w \in Worlds /\ s \in SessionType /\ SessionOK(s, w.entries)
  BY DEF WorldOK, SessionOK
<1>2. v = [w EXCEPT !.session = quiet]
  BY <1>1 DEF Inactive, Worlds
<1>3. /\ quiet \in SessionType /\ quiet.active = FALSE /\ quiet.course = s.course
      /\ quiet.candidate = s.candidate /\ quiet.recording = s.recording
  BY <1>1 DEF SessionType
<1> HIDE DEF quiet, s, v
<1>4. v \in Worlds /\ v.session = quiet /\ v.entries = w.entries /\ v.disk = w.disk
  BY <1>1, <1>2, <1>3, WithSession
<1>5. SessionOK(quiet, w.entries)
  BY <1>1, <1>3 DEF SessionOK
<1> QED BY <1>4, <1>5, SessionOnly DEF v

LEMMA ObserveOK ==
  ASSUME NEW w, WorldOK(w), NEW frame \in Frames, NEW v \in Observe(w, frame)
  PROVE  WorldOK(v) /\ Follows(w, v)
<1>1. Follows(w, w)
  BY SessionOnly DEF WorldOK
<1>2. CASE ~frame.eligible
  <2>1. PICK f \in IF w.session.active THEN FlushAutomatic(w) ELSE {w} : v = Inactive(f)
    BY <1>2 DEF Observe
  <2>2. WorldOK(f) /\ Follows(w, f)
    BY <1>1, <2>1, SaveOK DEF FlushAutomatic
  <2> QED BY <2>1, <2>2, InactiveOK, FollowsTransitive
<1>3. CASE frame.eligible
  <2>1. PICK f \in IF ~w.session.active \/ w.session.course # frame.course
                   THEN Start(w, frame.course) ELSE {w} : v \in Watch(f, frame)
    BY <1>3 DEF Observe
  <2>2. frame.course \in Courses
    BY FrameFacts DEF FrameType
  <2>3. WorldOK(f) /\ Follows(w, f) /\ f.session.active
    BY <1>1, <2>1, <2>2, StartOK
  <2>4. WorldOK(v) /\ Follows(f, v)
    BY <2>1, <2>3, WatchOK
  <2> QED BY <2>3, <2>4, FollowsTransitive
<1> QED BY <1>2, <1>3

\* A new process finds the files as they are.
LEMMA RestartedOK ==
  ASSUME NEW w, WorldOK(w)
  PROVE  WorldOK(Restarted(w.disk))
<1> DEFINE v == Restarted(w.disk)
<1>1. /\ NewEntry \in EntryType /\ NewEntry.best = NewRun /\ NewEntry.loaded = FALSE
      /\ NewEntry.dirty = FALSE
  BY DEF NewEntry, EntryType, Result
<1>2. /\ NewSession \in SessionType /\ NewSession.active = FALSE /\ NewSession.candidate = FALSE
  BY RunFacts DEF NewSession, SessionType
<1>3. /\ v.session = NewSession /\ v.entries = [c \in Courses |-> NewEntry] /\ v.disk = w.disk
      /\ v = [session |-> v.session, entries |-> v.entries, disk |-> v.disk]
  BY DEF Restarted
<1> HIDE DEF v
<1>4. w.disk \in [Courses -> DiskType]
  BY DEF WorldOK, Worlds
<1>5. v.entries \in [Courses -> EntryType]
  BY <1>1, <1>3
<1>6. v \in Worlds
  BY <1>2, <1>3, <1>4, <1>5 DEF Worlds
<1>7. ASSUME NEW c \in Courses PROVE EntryOK(v.entries[c], v.disk[c])
  <2>1. v.entries[c] = NewEntry /\ v.disk[c] = w.disk[c] /\ DiskOK(w.disk[c])
    BY <1>3 DEF WorldOK, EntryOK
  <2> QED BY <1>1, <2>1, RunFacts DEF EntryOK
<1>8. SessionOK(v.session, v.entries)
  BY <1>2, <1>3 DEF SessionOK
<1> QED BY <1>6, <1>7, <1>8 DEF WorldOK, v

-----------------------------------------------------------------------------
(* Every call keeps the invariant and the promises *)

\* What a call does to the variables.
CallOK == /\ IInv'
          /\ reads_fail' = reads_fail
          /\ \A c \in Courses : /\ Kept(disk[c], disk'[c])
                                /\ entries'[c] = NewEntry \/ Better(entries[c], entries'[c])

LEMMA BecomesOK ==
  ASSUME IInv, NEW w, WorldOK(w), Becomes(w),
         \A c \in Courses : /\ Kept(disk[c], w.disk[c])
                            /\ w.entries[c] = NewEntry \/ Better(entries[c], w.entries[c])
  PROVE  CallOK
<1>1. /\ session' = w.session /\ entries' = w.entries /\ disk' = w.disk
      /\ reads_fail' = reads_fail
  BY DEF Becomes
<1>2. World' = w
  <2>1. w = [session |-> w.session, entries |-> w.entries, disk |-> w.disk]
    BY DEF WorldOK, Worlds
  <2> QED BY <1>1, <2>1 DEF World
<1>3. WorldOK(World)'
  BY <1>1, <1>2 DEF WorldOK, EntryOK, DiskOK, SessionOK
<1> QED BY <1>1, <1>3 DEF CallOK, IInv

LEMMA FollowedOK ==
  ASSUME IInv, NEW w, WorldOK(w), Follows(World, w), Becomes(w)
  PROVE  CallOK
  BY BecomesOK DEF Follows, World

LEMMA EndedOK ==
  ASSUME IInv, NEW w, WorldOK(w), Follows(World, w), Becomes(Restarted(w.disk))
  PROVE  CallOK
<1> DEFINE v == Restarted(w.disk)
<1>1. WorldOK(v) /\ v.disk = w.disk /\ v.entries = [c \in Courses |-> NewEntry]
  BY RestartedOK DEF Restarted
<1>2. \A c \in Courses : Kept(disk[c], v.disk[c]) /\ v.entries[c] = NewEntry
  BY <1>1 DEF Follows, World
<1> HIDE DEF v
<1> QED BY <1>1, <1>2, BecomesOK DEF v

LEMMA NextOK == IInv /\ Next => CallOK
<1> SUFFICES ASSUME IInv, Next PROVE CallOK
  OBVIOUS
<1>1. WorldOK(World) /\ Follows(World, World)
  BY SessionOnly DEF IInv, WorldOK
<1>2. ASSUME NEW course \in Courses, BeginRun(course) PROVE CallOK
  BY <1>1, <1>2, StartOK, FollowedOK DEF BeginRun
<1>3. ASSUME NEW frame \in Frames, ObserveFrame(frame) PROVE CallOK
  BY <1>1, <1>3, ObserveOK, FollowedOK DEF ObserveFrame
<1>4. CASE EndRun
  <2>1. PICK w \in FlushAutomatic(World) : Becomes(Inactive(w))
    BY <1>4 DEF EndRun
  <2>2. WorldOK(w) /\ Follows(World, w)
    BY <1>1, <2>1, SaveOK DEF FlushAutomatic
  <2>3. WorldOK(Inactive(w)) /\ Follows(World, Inactive(w))
    BY <1>1, <2>2, InactiveOK, FollowsTransitive
  <2> QED BY <2>1, <2>3, FollowedOK
<1>5. CASE ResetSession
  <2>1. PICK w \in FlushAutomatic(World) : Becomes(Restarted(w.disk))
    BY <1>5 DEF ResetSession
  <2>2. WorldOK(w) /\ Follows(World, w)
    BY <1>1, <2>1, SaveOK DEF FlushAutomatic
  <2> QED BY <2>1, <2>2, EndedOK
<1>6. CASE Crash
  <2> DEFINE Left(frame) == {w.disk : w \in Observe(World, frame)}
             left == UNION {Left(frame) : frame \in Frames}
  <2>1. \E d \in left \cup {disk} : Becomes(Restarted(d))
    BY <1>6 DEF Crash
  <2> HIDE DEF left
  <2>2. PICK d \in left \cup {disk} : Becomes(Restarted(d))
    BY <2>1
  <2>3. CASE d = disk
    BY <1>1, <2>2, <2>3, EndedOK DEF World
  <2>4. CASE d \in left
    <3> HIDE DEF Left
    <3>1. PICK frame \in Frames : d \in Left(frame)
      BY <2>4 DEF left
    <3>2. PICK w \in Observe(World, frame) : d = w.disk
      BY <3>1 DEF Left
    <3>3. WorldOK(w) /\ Follows(World, w)
      BY <1>1, <3>2, ObserveOK
    <3> QED BY <2>2, <3>2, <3>3, EndedOK
  <2> QED BY <2>2, <2>3, <2>4
<1> QED BY <1>2, <1>3, <1>4, <1>5, <1>6 DEF Next

LEMMA InitOK == Init => IInv
<1> SUFFICES ASSUME Init PROVE IInv
  OBVIOUS
<1>1. PICK d \in [Courses -> {f \in [primary : FirstFiles, backup : FirstFiles] : InOrder(f)}] :
        disk = d
  BY DEF Init
<1>2. \A c \in Courses : d[c] \in [primary : FirstFiles, backup : FirstFiles] /\ InOrder(d[c])
  OBVIOUS
<1>3. \A c \in Courses : d[c] \in DiskType /\ InOrder(d[c])
  BY <1>2, FilesAssumption DEF DiskType
<1>4. /\ session = NewSession /\ entries = [c \in Courses |-> NewEntry]
      /\ reads_fail \in BOOLEAN
  BY DEF Init
<1>5. /\ NewEntry \in EntryType /\ NewEntry.best = NewRun /\ NewEntry.loaded = FALSE
      /\ NewEntry.dirty = FALSE
  BY DEF NewEntry, EntryType, Result
<1>6. /\ NewSession \in SessionType /\ NewSession.active = FALSE /\ NewSession.candidate = FALSE
  BY RunFacts DEF NewSession, SessionType
<1>7. World \in Worlds /\ World.session = session /\ World.entries = entries /\ World.disk = disk
  <2>1. entries \in [Courses -> EntryType] /\ disk \in [Courses -> DiskType]
    BY <1>1, <1>3, <1>4, <1>5
  <2> QED BY <1>4, <1>6, <2>1 DEF World, Worlds
<1>8. ASSUME NEW c \in Courses PROVE EntryOK(entries[c], disk[c])
  <2>1. entries[c] = NewEntry /\ DiskOK(disk[c])
    BY <1>1, <1>3, <1>4 DEF DiskOK
  <2> QED BY <1>5, <2>1, RunFacts DEF EntryOK
<1>9. SessionOK(session, entries)
  BY <1>4, <1>6 DEF SessionOK
<1> QED BY <1>4, <1>7, <1>8, <1>9 DEF IInv, WorldOK

-----------------------------------------------------------------------------
(* The theorems *)

LEMMA StepOK == IInv /\ [Next]_vars => IInv'
<1>1. IInv /\ UNCHANGED vars => IInv'
  BY DEF IInv, vars, World, WorldOK, EntryOK, DiskOK, SessionOK
<1> QED BY <1>1, NextOK DEF CallOK

\* The invariant holds in every state, whatever the files hold at first, fail
\* to be read or written, and wherever the program ends.
THEOREM AutosaveInvariant == Spec => []IInv
  BY InitOK, StepOK, PTL DEF Spec

\* The types, and that what the status calls saved is on disk.
THEOREM ArchiveSafe == Spec => []ArchiveInv
<1>1. IInv => ArchiveInv
  <2> SUFFICES ASSUME IInv PROVE ArchiveInv
    OBVIOUS
  <2>1. /\ World \in Worlds /\ World.session = session /\ World.entries = entries
        /\ World.disk = disk
    BY DEF IInv, WorldOK, World
  <2>2. \A c \in Courses : EntryOK(entries[c], disk[c])
    BY <2>1 DEF IInv, WorldOK
  <2>3. /\ session \in SessionType /\ entries \in [Courses -> EntryType]
        /\ disk \in [Courses -> DiskType]
    BY <2>1 DEF Worlds
  <2>4. \A c \in Courses : Files(disk[c]) \subseteq Archives \cup {Absent, Corrupt}
    BY <2>3 DEF DiskType, Files
  <2>5. TypeOK
    BY <2>3, <2>4 DEF TypeOK, SessionType, EntryType
  <2>6. CleanBestOnDisk
    BY <2>2 DEF CleanBestOnDisk, EntryOK
  <2> QED BY <2>5, <2>6 DEF ArchiveInv
<1> QED BY <1>1, AutosaveInvariant, PTL

\* A course with a readable file keeps one.
THEOREM StaysReadable == Spec => ArchiveStaysReadable
<1>1. IInv /\ [Next]_vars =>
        [\A c \in Courses : Archived(disk[c]) # {} => Archived(disk'[c]) # {}]_vars
  BY NextOK DEF CallOK, Kept
<1> QED BY <1>1, AutosaveInvariant, PTL DEF Spec, ArchiveStaysReadable

\* Files of which none can be read are not touched.
THEOREM DamagedStays == Spec => DamagedArchiveKept
<1>1. IInv /\ [Next]_vars =>
        [\A c \in Courses :
           (Archived(disk[c]) = {} /\ Corrupt \in Files(disk[c])) => disk'[c] = disk[c]]_vars
  BY NextOK DEF CallOK, Kept, DamagedDisk
<1> QED BY <1>1, AutosaveInvariant, PTL DEF Spec, DamagedArchiveKept

\* While the program runs, the best of a course is lost to no retry, failed write
\* or late tail: it gives way to a run at least as fast.
THEOREM BestSurvives == Spec => BestKept
<1>1. IInv /\ [Next]_vars =>
        [\A c \in Courses :
           (Complete(entries[c].best) /\ entries'[c] # NewEntry) =>
             /\ Complete(entries'[c].best)
             /\ entries'[c].best.finish_ms <= entries[c].best.finish_ms]_vars
  BY NextOK DEF CallOK, Better
<1> QED BY <1>1, AutosaveInvariant, PTL DEF Spec, BestKept

\* With files that can be read, the archive of a course never gets slower.
THEOREM NeverSlower == Spec => BestNeverSlower
<1>1. IInv /\ [Next]_vars =>
        [~reads_fail => \A c \in Courses : \A run \in Archived(disk[c]) :
           \E other \in Archived(disk'[c]) : other.finish_ms <= run.finish_ms]_vars
  BY NextOK DEF CallOK, Kept
<1> QED BY <1>1, AutosaveInvariant, PTL DEF Spec, BestNeverSlower
=============================================================================
