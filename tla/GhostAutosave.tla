--------------------------- MODULE GhostAutosave ---------------------------
(***************************************************************************)
(* The ghost recorder and its automatic archive (src/wr64_ghost.cpp): the  *)
(* player's best run of every course, recorded frame by frame and kept in  *)
(* a file with a backup.                                                   *)
(*                                                                         *)
(* The game thread makes every call, so a call is one step; what a call    *)
(* may leave behind, with files that fail to read and writes that fail, is *)
(* a set of worlds, and a crash leaves the disk of any of them.  A run is  *)
(* its time, the samples before the goal and all its samples; playback,    *)
(* visibility and the manual slots are left out.                           *)
(***************************************************************************)
EXTENDS Integers

CONSTANTS Courses,
          Times,        \* finishing times, in order of speed
          kMaxSamples,  \* samples of a run
          FirstFiles,   \* what may be on disk at the first start
          Absent,       \* no such file
          Corrupt,      \* a file that does not decode, or is of another course
          None

ASSUME TimesAssumption == /\ Times \subseteq Nat \ {0}
                          /\ kMaxSamples \in Nat \ {0}

Run == [finish_ms : Times \cup {0}, goal_samples : 0..kMaxSamples, points : 0..kMaxSamples]
NewRun == [finish_ms |-> 0, goal_samples |-> 0, points |-> 0]
Complete(run) == /\ run.finish_ms > 0
                 /\ 0 < run.goal_samples /\ run.goal_samples < kMaxSamples
                 /\ run.goal_samples <= run.points
Archives == {run \in Run : Complete(run)}

ASSUME FilesAssumption == /\ FirstFiles \subseteq Archives \cup {Absent, Corrupt}
                          /\ {Absent, Corrupt} \cap Archives = {}
                          /\ Absent # Corrupt
                          /\ None \notin Courses

Result == {"Ok", "NoGhost", "CorruptData", "StorageFailure"}

VARIABLES session,  \* the State: the race being recorded
          entries,  \* automatic.entries: the best of each course, in memory
          disk,     \* primary and backup of each course
          reads_fail  \* whether reading a file may fail once in a while: never changes

vars == <<session, entries, disk, reads_fail>>

\* A world is all there is: calls are composed of functions to sets of worlds.
World == [session |-> session, entries |-> entries, disk |-> disk]

NewSession == [active |-> FALSE, capturing |-> FALSE, full |-> FALSE,
               invalid |-> FALSE, finished |-> FALSE, candidate |-> FALSE,
               course |-> None, recording |-> NewRun]
NewEntry == [best |-> NewRun, loaded |-> FALSE, dirty |-> FALSE, load_result |-> "Ok"]

\* The backup is an earlier best, so it is not the faster one.
InOrder(d) == {d.primary, d.backup} \cap {Absent, Corrupt} = {}
                => d.primary.finish_ms <= d.backup.finish_ms

Init == /\ session = NewSession
        /\ entries = [c \in Courses |-> NewEntry]
        /\ disk \in [Courses -> {d \in [primary : FirstFiles, backup : FirstFiles] : InOrder(d)}]
        /\ reads_fail \in BOOLEAN

-----------------------------------------------------------------------------
(* The archive *)

ReadAutomaticFile(file) ==
  {CASE file = Absent  -> "NoGhost"
     [] file = Corrupt -> "CorruptData"
     [] OTHER          -> "Ok"} \cup {r \in {"StorageFailure"} : reads_fail}

\* A run from disk replaces the best in memory if it is at least as fast.
Takes(saved, best) ==
  Complete(saved) /\ (~Complete(best) \/ saved.finish_ms <= best.finish_ms)

\* No file yet is as good as a file that was read.
LoadResult(result) == IF result = "NoGhost" THEN "Ok" ELSE result

\* The entry after both files were read with these results.
Loaded(e, d, primary, backup) ==
  LET saved == CASE primary = "Ok" -> d.primary
                 [] primary # "Ok" /\ backup = "Ok" -> d.backup
                 [] OTHER -> NewRun
      result == CASE "Ok" \in {primary, backup} -> "Ok"
                  [] primary = "NoGhost" /\ backup # "Ok" -> backup
                  [] OTHER -> primary
  IN [best        |-> IF Takes(saved, e.best) THEN saved ELSE e.best,
      loaded      |-> TRUE,
      dirty       |-> e.dirty /\ ~Takes(saved, e.best),
      load_result |-> LoadResult(result)]

AutomaticEntry(e, d) ==
  IF e.loaded THEN {e}
  ELSE {Loaded(e, d, primary, backup) :
          primary \in ReadAutomaticFile(d.primary), backup \in ReadAutomaticFile(d.backup)}

\* Mutant: a damaged primary is copied over the backup.
CopiedWhenReadable == {"Ok", "CorruptData"}

\* The primaries that write() copies to the backup first.
Copied == {"Ok"}

\* write(): every disk it may leave, and whether it succeeds.  It may fail
\* before it reads the primary, at a primary it cannot read, half way through
\* the copy, and at the rename.
Writes(best, d) ==
  {[done |-> FALSE, disk |-> d]}
  \cup UNION {
    LET copied == IF existing \in Copied THEN [d EXCEPT !.backup = d.primary] ELSE d
        half == IF existing \in Copied THEN [d EXCEPT !.backup = Corrupt] ELSE d
    IN {[done |-> FALSE, disk |-> half], [done |-> FALSE, disk |-> copied],
        [done |-> TRUE, disk |-> [copied EXCEPT !.primary = best]]} :
    existing \in ReadAutomaticFile(d.primary) \ {"StorageFailure"}}

\* Mutant: an entry whose files are damaged is written as well.
WritableUnlessUnread(e) == e.load_result # "StorageFailure"

\* Only an entry whose files were read is written.
Writable(e) == e.load_result = "Ok"

\* Mutant: the entry counts as saved whatever write() returned.
NeverUnsaved(w) == FALSE

\* A failed write leaves the entry dirty.
Unsaved(w) == ~w.done

\* save_automatic.  "recovered": the files turned out to hold a best that is at
\* least as fast, which the entry now has.
SaveAutomatic(e, d) ==
  IF ~e.dirty \/ ~Complete(e.best)
  THEN {[entry |-> e, disk |-> d, recovered |-> FALSE]}
  ELSE UNION {
    CASE ~r.dirty -> {[entry |-> r, disk |-> d, recovered |-> TRUE]}
      [] r.dirty /\ ~Writable(r) -> {[entry |-> r, disk |-> d, recovered |-> FALSE]}
      [] OTHER -> {[entry |-> [r EXCEPT !.dirty = Unsaved(w)], disk |-> w.disk, recovered |-> FALSE] :
                     w \in Writes(r.best, d)} :
    r \in IF e.load_result = "StorageFailure"
          THEN AutomaticEntry([e EXCEPT !.loaded = FALSE], d)
          ELSE {e}}

\* Mutant: a candidate that lost to a recovered best goes on as one.
AppliedToEntries(w, outcome) ==
  [session |-> w.session,
   entries |-> [c \in Courses |-> IF c \in DOMAIN outcome THEN outcome[c].entry ELSE w.entries[c]],
   disk    |-> [c \in Courses |-> IF c \in DOMAIN outcome THEN outcome[c].disk ELSE w.disk[c]]]

\* The world after these outcomes: a candidate that lost to a recovered best
\* is none any more, and its tail is not saved.
Applied(w, outcome) ==
  [session |-> [w.session EXCEPT !.candidate =
                  @ /\ \A c \in DOMAIN outcome : c = w.session.course => ~outcome[c].recovered],
   entries |-> [c \in Courses |-> IF c \in DOMAIN outcome THEN outcome[c].entry ELSE w.entries[c]],
   disk    |-> [c \in Courses |-> IF c \in DOMAIN outcome THEN outcome[c].disk ELSE w.disk[c]]]

\* Save the entries of these courses.
Save(w, courses) ==
  LET Of(c) == SaveAutomatic(w.entries[c], w.disk[c])
  IN {Applied(w, outcome) :
        outcome \in {o \in [courses -> UNION {Of(c) : c \in courses}] :
                       \A c \in courses : o[c] \in Of(c)}}

FlushAutomatic(w) == Save(w, Courses)

-----------------------------------------------------------------------------
(* Recording *)

Start(w, course) ==
  UNION {{[session |-> [NewSession EXCEPT !.active = TRUE, !.capturing = TRUE, !.course = course],
           entries |-> [f.entries EXCEPT ![course] = e],
           disk    |-> f.disk] : e \in AutomaticEntry(f.entries[course], f.disk[course])} :
         f \in FlushAutomatic(w)}

\* Mutant: any finish is a candidate.
BeatsAnything(run, best) == TRUE

\* A finish has to be faster than the best to replace it.
Beats(run, best) == ~Complete(best) \/ run.finish_ms < best.finish_ms

\* The recording takes over the entry; the finish itself is saved at once, the
\* samples after it with the next flush.
Publish(w, just_finished) ==
  LET c == w.session.course
      new == w.session.recording
      e == w.entries[c]
      differs == new.points # e.best.points \/ new.finish_ms # e.best.finish_ms
      w2 == IF differs THEN [w EXCEPT !.entries[c].best = new, !.entries[c].dirty = TRUE] ELSE w
  IN IF just_finished THEN Save(w2, {c}) ELSE {w2}

\* The rest of observe() for a session that captures this frame.
Capture(w, frame) ==
  LET s == w.session
      just_finished == frame.finished /\ ~s.finished
      run == IF just_finished
             THEN [s.recording EXCEPT !.goal_samples = s.recording.points,
                                      !.finish_ms = frame.elapsed_ms]
             ELSE s.recording
      candidate == IF just_finished
                   THEN /\ ~s.invalid /\ ~s.full
                        /\ 0 < run.goal_samples /\ run.goal_samples < kMaxSamples
                        /\ Beats(run, w.entries[s.course].best)
                   ELSE s.candidate
      room == run.points < kMaxSamples
      longer == IF room THEN [run EXCEPT !.points = @ + 1] ELSE run
      ended == [s EXCEPT !.finished = @ \/ just_finished]
  IN IF room /\ ~frame.in_range
     THEN {[w EXCEPT !.session = [ended EXCEPT !.recording = run, !.invalid = TRUE,
                                               !.capturing = FALSE, !.candidate = FALSE]]}
     ELSE LET w2 == [w EXCEPT !.session = [ended EXCEPT !.recording = longer,
                                             !.candidate = candidate,
                                             !.full = @ \/ longer.points = kMaxSamples]]
          IN IF candidate /\ Complete(longer) THEN Publish(w2, just_finished) ELSE {w2}

\* observe() of a frame of a race that counts, once the session is its course's.
Watch(w, frame) ==
  LET retires == frame.retired /\ ~w.session.finished
  IN CASE frame.paused -> {w}
       [] ~frame.paused /\ (retires \/ ~w.session.capturing) ->
            {[w EXCEPT !.session.capturing = FALSE]}
       [] OTHER -> Capture(w, frame)

Inactive(w) == [w EXCEPT !.session.active = FALSE, !.session.capturing = FALSE]

Observe(w, frame) ==
  IF ~frame.eligible
  THEN {Inactive(f) : f \in IF w.session.active THEN FlushAutomatic(w) ELSE {w}}
  ELSE UNION {Watch(v, frame) :
                v \in IF ~w.session.active \/ w.session.course # frame.course
                      THEN Start(w, frame.course) ELSE {w}}

\* What a frame may show.  Frames that observe() treats alike are one: the
\* first test that ends it leaves the other fields at rest, and the time only
\* counts in a finished frame.
Plain(course) == [eligible |-> TRUE, course |-> course, paused |-> FALSE, retired |-> FALSE,
                  finished |-> FALSE, elapsed_ms |-> 0, in_range |-> TRUE]
Racing(course, in_range) == [Plain(course) EXCEPT !.in_range = in_range]
Finishing(course, t, in_range) ==
  [Racing(course, in_range) EXCEPT !.finished = TRUE, !.elapsed_ms = t]
Frames ==
  {[Plain(c) EXCEPT !.eligible = FALSE] : c \in Courses}
  \cup {[Plain(c) EXCEPT !.paused = TRUE] : c \in Courses}
  \cup {[Plain(c) EXCEPT !.retired = TRUE] : c \in Courses}
  \cup {Racing(c, r) : c \in Courses, r \in BOOLEAN}
  \cup {Finishing(c, t, r) : c \in Courses, t \in Times, r \in BOOLEAN}

-----------------------------------------------------------------------------
(* The calls *)

Becomes(w) == /\ session' = w.session /\ entries' = w.entries /\ disk' = w.disk
              /\ UNCHANGED reads_fail

BeginRun(course) == \E w \in Start(World, course) : Becomes(w)
ObserveFrame(frame) == \E w \in Observe(World, frame) : Becomes(w)
EndRun == \E w \in FlushAutomatic(World) : Becomes(Inactive(w))

\* reset_session, at the end of the program, or a crash in any call: the disk
\* is what is left.
Restarted(d) == [session |-> NewSession, entries |-> [c \in Courses |-> NewEntry], disk |-> d]
ResetSession == \E w \in FlushAutomatic(World) : Becomes(Restarted(w.disk))
Crash ==
  LET left == UNION {{w.disk : w \in Observe(World, frame)} : frame \in Frames}
  IN \E d \in left \cup {disk} : Becomes(Restarted(d))

Next == \/ \E course \in Courses : BeginRun(course)
        \/ \E frame \in Frames : ObserveFrame(frame)
        \/ EndRun
        \/ ResetSession
        \/ Crash

Spec == Init /\ [][Next]_vars

-----------------------------------------------------------------------------
(* Properties *)

Files(d) == {d.primary, d.backup}
Archived(d) == Files(d) \ {Absent, Corrupt}

\* The type invariant: only complete runs are archived.
TypeOK ==
  /\ session \in [active : BOOLEAN, capturing : BOOLEAN, full : BOOLEAN,
                  invalid : BOOLEAN, finished : BOOLEAN, candidate : BOOLEAN,
                  course : Courses \cup {None}, recording : Run]
  /\ entries \in [Courses -> [best : Archives \cup {NewRun}, loaded : BOOLEAN,
                              dirty : BOOLEAN, load_result : Result \ {"NoGhost"}]]
  /\ \A c \in Courses : Files(disk[c]) \subseteq Archives \cup {Absent, Corrupt}

\* With files that can be read, the archive of a course never gets slower: "slower finish cannot replace
\* automatic fastest trajectory" (tests/ghost/ghost_autosave_test.cpp:141).
BestNeverSlower ==
  [][~reads_fail => \A c \in Courses : \A run \in Archived(disk[c]) :
       \E other \in Archived(disk'[c]) : other.finish_ms <= run.finish_ms]_vars

\* What was readable stays readable: through failed reads, failed writes and
\* crashes one of the two files holds a run ("Do not copy a damaged primary
\* over a successfully recovered backup", wr64_ghost.cpp:339).
ArchiveStaysReadable ==
  [][\A c \in Courses : Archived(disk[c]) # {} => Archived(disk'[c]) # {}]_vars

\* Files of which none can be read stay as they are: "Never replace an
\* unreadable/corrupt archive" (wr64_ghost.cpp:314).
DamagedArchiveKept ==
  [][\A c \in Courses :
       (Archived(disk[c]) = {} /\ Corrupt \in Files(disk[c])) => disk'[c] = disk[c]]_vars

\* What the status calls saved is on disk.
CleanBestOnDisk ==
  \A c \in Courses :
    (Complete(entries[c].best) /\ ~entries[c].dirty) => entries[c].best \in Archived(disk[c])

\* The two, which every call leaves true.
ArchiveInv == TypeOK /\ CleanBestOnDisk

\* Until the program ends, the best of a course in memory gives way only to a
\* run at least as fast: not when a failed load is tried again, nor to the tail of
\* a candidate that has lost to what the files turned out to hold ("Its later tail
\* must not replace that recovered record either", wr64_ghost.cpp:304), whatever
\* fails in between.
BestKept ==
  [][\A c \in Courses :
       (Complete(entries[c].best) /\ entries'[c] # NewEntry) =>
         /\ Complete(entries'[c].best)
         /\ entries'[c].best.finish_ms <= entries[c].best.finish_ms]_vars
=============================================================================
