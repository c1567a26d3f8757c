------------------------------ MODULE StorageDir ------------------------------
(***************************************************************************)
(* The bounded file store of src/src/common/storagedir.c.  A handle keeps  *)
(* an in-RAM listing of the directory ("contents", or NULL when it has not *)
(* been scanned) and a byte count ("usage", meaningful when usage_known).  *)
(* The directory itself is persistent: it outlives a crash of the process, *)
(* which loses the handle and may leave the temporary file of a save that  *)
(* was in flight.  File names are FNAME_MIN_NUM + i for i < max_files, and *)
(* "<n>.tmp" while being written (write_bytes_to_file in util.c, not under *)
(* src/, is modelled from the spec: write to the .tmp file, rename it).    *)
(*                                                                         *)
(* unlink() and the directory listing may fail, as the code allows for;    *)
(* which calls of unlink() may fail is a constant, by caller.  stat() of a *)
(* listed file is taken to succeed.                                        *)
(***************************************************************************)
EXTENDS Integers, FiniteSets, FiniteSetsExt, Sequences

CONSTANTS
  MaxFiles,          \* d->max_files
  Lengths,           \* lengths of the data callers save
  Targets,           \* target_size values given to shrink
  MinRemoves,        \* min_to_remove values given to shrink
  UnlinkFailsIn,     \* the callers whose unlink() can fail
  ListdirMayFail,    \* whether spider_listdir() can fail
  NoFile,            \* an absent directory entry (model value)
  NULL,              \* a NULL contents pointer (model value)
  ClockMax,          \* bound on the file-system clock (mtime)
  Strings            \* NUL-terminated strings callers save (byte sequences)

ASSUME MaxFiles \in Nat \ {0}
UnlinkCallers == {"clean_tmpfiles", "remove_file", "shrink"}

ASSUME UnlinkFailsIn \subseteq UnlinkCallers /\ ListdirMayFail \in BOOLEAN

FNAME_MIN_NUM == 1000

Nums == FNAME_MIN_NUM..(FNAME_MIN_NUM + MaxFiles - 1)

\* "<n>" and "<n>.tmp"
Names == [num: Nums, tmp: BOOLEAN]
Final(n) == [num |-> n, tmp |-> FALSE]
Tmp(n) == [num |-> n, tmp |-> TRUE]

VARIABLES
  disk,         \* the directory: Names -> [size, mtime] or NoFile
  contents,     \* d->contents: NULL or a set of names
  usage_known,  \* d->usage_known
  usage,        \* d->usage
  now,          \* the file-system clock that stamps mtime
  crashed,      \* the process dereferenced a NULL contents list
  shrunk        \* history: [target, min, failed] of a shrink that was
                \* the last step (failed: the files whose unlink()
                \* failed in its loop), NULL after any other step

vars == <<disk, contents, usage_known, usage, now, crashed, shrunk>>

OnDisk == {f \in Names : disk[f] # NoFile}

\* Bytes that stat() reports for the listed files (a missing file counts 0).
ListedBytes(ls, dk) ==
  MapThenSumSet(LAMBDA f : dk[f].size, {f \in ls : dk[f] # NoFile})

\* The outcomes of the caller's unlink() on a set of files: any subset may
\* fail.
UnlinkFailures(caller, fs) ==
  IF caller \in UnlinkFailsIn THEN SUBSET fs ELSE {{}}

Unlinked(dk, gone) == [f \in Names |-> IF f \in gone THEN NoFile ELSE dk[f]]

(***************************************************************************)
(* sspiderage_dir_rescan with sspiderage_dir_clean_tmpfiles: the listing is*)
(* replaced by a fresh one, usage forgotten, and every ".tmp" file         *)
(* unlinked and dropped from the listing unless its unlink fails.  A       *)
(* failed listing leaves contents NULL.  The result is the set of states   *)
(* [disk, contents, ok] the rescan can end in.                             *)
(***************************************************************************)
Rescans(dk) ==
  LET listed == {f \in Names : dk[f] # NoFile}
      tmps == {f \in listed : f.tmp}
  IN {[disk |-> Unlinked(dk, tmps \ fail), contents |-> listed \ (tmps \ fail),
       ok |-> TRUE] : fail \in UnlinkFailures("clean_tmpfiles", tmps)}
     \cup (IF ListdirMayFail THEN {[disk |-> dk, contents |-> NULL, ok |-> FALSE]}
           ELSE {})

-----------------------------------------------------------------------------
\* sspiderage_dir_new: a fresh handle over whatever is on disk.
NewHandle ==
  /\ contents' = NULL
  /\ usage_known' = FALSE
  /\ usage' = 0

Init ==
  /\ disk = [f \in Names |-> NoFile]
  /\ contents = NULL
  /\ usage_known = FALSE
  /\ usage = 0
  /\ now = 0
  /\ crashed = FALSE
  /\ shrunk = NULL

(***************************************************************************)
(* sspiderage_dir_list: scan if there is no listing yet.                   *)
(***************************************************************************)
sspiderage_dir_list ==
  /\ ~crashed
  /\ contents = NULL
  /\ \E r \in Rescans(disk) :
       /\ disk' = r.disk
       /\ contents' = r.contents
  /\ usage_known' = FALSE
  /\ usage' = 0
  /\ UNCHANGED <<now, crashed>>
  /\ shrunk' = NULL

(***************************************************************************)
(* sspiderage_dir_get_usage: when usage is not known, sum stat() sizes over*)
(* sspiderage_dir_list(d); iterating a NULL list dereferences it.          *)
(***************************************************************************)
sspiderage_dir_get_usage ==
  /\ ~crashed
  /\ ~usage_known
  /\ \E r \in IF contents = NULL THEN Rescans(disk)
              ELSE {[disk |-> disk, contents |-> contents, ok |-> TRUE]} :
       /\ disk' = r.disk
       /\ contents' = r.contents
       /\ IF r.contents = NULL
          THEN /\ crashed' = TRUE
               /\ UNCHANGED <<usage_known, usage>>
          ELSE /\ usage' = ListedBytes(r.contents, r.disk)
               /\ usage_known' = TRUE
               /\ UNCHANGED crashed
  /\ UNCHANGED now
  /\ shrunk' = NULL

(***************************************************************************)
(* sspiderage_dir_save_bytes_to_file: find_unused_fname (rescanning first if*)
(* there is no listing) probes FNAME_MIN_NUM upwards for the first name    *)
(* not in the listing; write_bytes_to_file writes "<n>.tmp" and renames it *)
(* to "<n>", or fails and removes the temporary file.  On success usage    *)
(* grows by the length if known and the name joins the listing.            *)
(***************************************************************************)
\* Seeded fault: name the new file after the number of listed files.
FirstUnusedByCount(ls) ==
  IF Cardinality(ls) < MaxFiles THEN FNAME_MIN_NUM + Cardinality(ls) ELSE NoFile

FirstUnused(ls) ==
  LET free == {n \in Nums : Final(n) \notin ls} IN
  IF free = {} THEN NoFile ELSE Min(free)

\* Seeded fault: a successful save leaves usage as it was.
SaveWithoutUsage(dk, ls, known, u, len) ==
  LET n == FirstUnused(ls) IN
  /\ contents' = IF n = NoFile THEN ls ELSE ls \cup {Final(n)}
  /\ usage_known' = known
  /\ \/ /\ n # NoFile
        /\ disk' = [dk EXCEPT ![Tmp(n)] = NoFile,
                              ![Final(n)] = [size |-> len, mtime |-> now]]
        /\ usage' = u
     \/ /\ disk' = dk
        /\ contents' = ls
        /\ usage' = u

SaveTo(dk, ls, known, u, len) ==
  LET n == FirstUnused(ls) IN
  /\ contents' = IF n = NoFile THEN ls ELSE ls \cup {Final(n)}
  /\ usage_known' = known
  /\ \/ /\ n # NoFile
        /\ disk' = [dk EXCEPT ![Tmp(n)] = NoFile,
                              ![Final(n)] = [size |-> len, mtime |-> now]]
        /\ usage' = IF known THEN u + len ELSE u
     \/ /\ disk' = dk    \* no free name, or the write failed
        /\ contents' = ls
        /\ usage' = u

sspiderage_dir_save_bytes_to_file(len) ==
  /\ ~crashed
  /\ IF contents # NULL THEN SaveTo(disk, contents, usage_known, usage, len)
     ELSE \E r \in Rescans(disk) :
            IF r.ok THEN SaveTo(r.disk, r.contents, FALSE, 0, len)
                    ELSE /\ disk' = r.disk
                         /\ contents' = NULL
                         /\ usage_known' = FALSE
                         /\ usage' = 0
  /\ UNCHANGED <<now, crashed>>
  /\ shrunk' = NULL

(***************************************************************************)
(* sspiderage_dir_save_string_to_file: save the bytes of str up to, not    *)
(* including, its first NUL.                                               *)
(***************************************************************************)
strlen(str) == CHOOSE i \in 0..(Len(str) - 1) :
                 str[i + 1] = 0 /\ \A j \in 1..i : str[j] # 0

sspiderage_dir_save_string_to_file(str) ==
  sspiderage_dir_save_bytes_to_file(strlen(str))

(***************************************************************************)
(* sspiderage_dir_remove_file: stat() the file if usage is known, unlink it;*)
(* on success take its size off usage and drop it from the listing.        *)
(***************************************************************************)
\* Seeded fault: stat() and subtract the size whether or not usage is known.
RemoveFileAlwaysSized(n) ==
  LET f == Final(n)
      size == IF disk[f] # NoFile THEN disk[f].size ELSE 0
  IN
  /\ ~crashed
  /\ \/ /\ disk[f] # NoFile
        /\ disk' = [disk EXCEPT ![f] = NoFile]
        /\ usage' = usage - size
        /\ contents' = IF contents = NULL THEN NULL ELSE contents \ {f}
     \/ /\ disk[f] = NoFile \/ "remove_file" \in UnlinkFailsIn
        /\ UNCHANGED <<disk, usage, contents>>
  /\ UNCHANGED <<usage_known, now, crashed>>
  /\ shrunk' = NULL

sspiderage_dir_remove_file(n) ==
  LET f == Final(n)
      size == IF usage_known /\ disk[f] # NoFile THEN disk[f].size ELSE 0
  IN
  /\ ~crashed
  /\ \/ /\ disk[f] # NoFile
        /\ disk' = [disk EXCEPT ![f] = NoFile]
        /\ usage' = usage - size
        /\ contents' = IF contents = NULL THEN NULL ELSE contents \ {f}
     \/ /\ disk[f] = NoFile \/ "remove_file" \in UnlinkFailsIn
        /\ UNCHANGED <<disk, usage, contents>>
  /\ UNCHANGED <<usage_known, now, crashed>>
  /\ shrunk' = NULL

(***************************************************************************)
(* sspiderage_dir_shrink(target, min): nothing to do if usage is known to be*)
(* small enough and nothing must go; otherwise rescan (failing returns     *)
(* -1), compute usage, and unless now small enough sort the listed files   *)
(* by mtime (qsort: ties in any order) and unlink from the oldest while    *)
(* usage > target or min > 0; a failed unlink is skipped without counting. *)
(* The handle is rescanned at the end.  sspiderage_dir_remove_all is       *)
(* shrink(0, max_files).                                                   *)
(***************************************************************************)
Mtime(dk, f) == dk[f].mtime

RECURSIVE MtimeOrders(_, _)
MtimeOrders(fs, dk) ==
  IF fs = {} THEN {<<>>}
  ELSE UNION {{<<f>> \o rest : rest \in MtimeOrders(fs \ {f}, dk)} :
              f \in {g \in fs : \A h \in fs : Mtime(dk, g) <= Mtime(dk, h)}}

\* Seeded fault: the loop runs only while both goals are unmet.
RECURSIVE ShrinkLoopWhileBoth(_, _, _, _, _, _, _)
ShrinkLoopWhileBoth(ents, i, u, target, min, fail, dk) ==
  IF u > target /\ min > 0 /\ i <= Len(ents)
  THEN LET f == ents[i] IN
       IF f \in fail
       THEN ShrinkLoopWhileBoth(ents, i + 1, u, target, min, fail, dk)
       ELSE {f} \cup ShrinkLoopWhileBoth(ents, i + 1,
                                IF u < dk[f].size THEN u ELSE u - dk[f].size,
                                target, min - 1, fail, dk)
  ELSE {}

\* Seeded fault: a failed unlink counts towards min_to_remove.
RECURSIVE ShrinkLoopCountingFailures(_, _, _, _, _, _, _)
ShrinkLoopCountingFailures(ents, i, u, target, min, fail, dk) ==
  IF (u > target \/ min > 0) /\ i <= Len(ents)
  THEN LET f == ents[i] IN
       IF f \in fail
       THEN ShrinkLoopCountingFailures(ents, i + 1, u, target, min - 1, fail, dk)
       ELSE {f} \cup ShrinkLoopCountingFailures(ents, i + 1,
                                IF u < dk[f].size THEN u ELSE u - dk[f].size,
                                target, min - 1, fail, dk)
  ELSE {}

\* The files the unlink loop removes, walking ents from position i; the
\* unlink() of a file in fail fails and the loop moves on uncounted.
RECURSIVE ShrinkLoop(_, _, _, _, _, _, _)
ShrinkLoop(ents, i, u, target, min, fail, dk) ==
  IF (u > target \/ min > 0) /\ i <= Len(ents)
  THEN LET f == ents[i] IN
       IF f \in fail
       THEN ShrinkLoop(ents, i + 1, u, target, min, fail, dk)
       ELSE {f} \cup ShrinkLoop(ents, i + 1,
                                IF u < dk[f].size THEN u ELSE u - dk[f].size,
                                target, min - 1, fail, dk)
  ELSE {}

FinalRescan(dk) ==
  \E r \in Rescans(dk) :
    /\ disk' = r.disk
    /\ contents' = r.contents
    /\ usage_known' = FALSE
    /\ usage' = 0

sspiderage_dir_shrink(target, min) ==
  /\ ~crashed
  /\ IF usage_known /\ usage <= target /\ min = 0
     THEN /\ UNCHANGED <<disk, contents, usage_known, usage>>
          /\ shrunk' = [target |-> target, min |-> min, failed |-> {}]
     ELSE \E r \in Rescans(disk) :
       LET orig == ListedBytes(r.contents, r.disk) IN
       IF ~r.ok
       THEN /\ disk' = r.disk
            /\ contents' = NULL
            /\ usage_known' = FALSE
            /\ usage' = 0
            /\ shrunk' = [target |-> target, min |-> min, failed |-> {}]
       ELSE IF orig <= target /\ min = 0
       THEN /\ disk' = r.disk
            /\ contents' = r.contents
            /\ usage_known' = TRUE
            /\ usage' = orig
            /\ shrunk' = [target |-> target, min |-> min, failed |-> {}]
       ELSE \E ents \in MtimeOrders(r.contents, r.disk) :
            \E fail \in UnlinkFailures("shrink", r.contents) :
              LET gone == ShrinkLoop(ents, 1, orig, target, min, fail, r.disk)
              IN /\ FinalRescan(Unlinked(r.disk, gone))
                 /\ shrunk' = [target |-> target, min |-> min,
                               failed |-> fail \ gone]
  /\ UNCHANGED <<now, crashed>>

sspiderage_dir_remove_all == sspiderage_dir_shrink(0, MaxFiles)

(***************************************************************************)
(* The process dies at any point and starts again with sspiderage_dir_new. *)
(* A save in flight leaves its "<n>.tmp" behind, for a name the listing    *)
(* did not hold.                                                           *)
(***************************************************************************)
Restart ==
  /\ NewHandle
  /\ crashed' = FALSE
  /\ \/ UNCHANGED disk
     \/ \E n \in Nums, len \in Lengths :
          /\ disk[Final(n)] = NoFile
          /\ disk' = [disk EXCEPT ![Tmp(n)] = [size |-> len, mtime |-> now]]
  /\ UNCHANGED now
  /\ shrunk' = NULL

Tick ==
  /\ now < ClockMax
  /\ now' = now + 1
  /\ UNCHANGED <<disk, contents, usage_known, usage, crashed>>
  /\ shrunk' = NULL

Next ==
  \/ sspiderage_dir_list
  \/ sspiderage_dir_get_usage
  \/ \E len \in Lengths : sspiderage_dir_save_bytes_to_file(len)
  \/ \E str \in Strings : sspiderage_dir_save_string_to_file(str)
  \/ \E n \in Nums : sspiderage_dir_remove_file(n)
  \/ \E t \in Targets, m \in MinRemoves : sspiderage_dir_shrink(t, m)
  \/ sspiderage_dir_remove_all
  \/ Restart
  \/ Tick

Spec == Init /\ [][Next]_vars

-----------------------------------------------------------------------------
FileRec == [size: Lengths, mtime: 0..ClockMax]

TypeOK ==
  /\ disk \in [Names -> FileRec \cup {NoFile}]
  /\ contents = NULL \/ contents \subseteq Names
  /\ usage_known \in BOOLEAN
  /\ usage \in Nat
  /\ now \in 0..ClockMax
  /\ crashed \in BOOLEAN
  /\ shrunk \in {NULL} \cup
       [target: Targets \cup {0}, min: MinRemoves \cup {MaxFiles},
        failed: SUBSET Names]

(***************************************************************************)
(* Spec invariant 6: whenever usage is known it equals the sum of stat()   *)
(* sizes of the files in the listing, through saves, removals, shrinks,    *)
(* rescans and restarts.                                                   *)
(***************************************************************************)
UsageMatchesDisk ==
  usage_known => contents # NULL /\ usage = ListedBytes(contents, disk)

(***************************************************************************)
(* A save never overwrites a file already in the directory: the name       *)
(* find_unused_fname picks from the in-RAM listing is free on disk.        *)
(***************************************************************************)
NoSaveOverwrites ==
  [][\A f \in OnDisk : ~f.tmp /\ disk'[f] # NoFile => disk'[f] = disk[f]]_vars

(***************************************************************************)
(* A shrink whose listing succeeds deletes the oldest files first, save    *)
(* those whose unlink() failed, and either meets both goals (at most       *)
(* target bytes left, at least min files removed) or leaves only files    *)
(* whose unlink() failed: a failed unlink may let a younger file go in its *)
(* place but never ends the loop early or counts as a removal.             *)
(***************************************************************************)
FinalsOn(dk) == {f \in Names : ~f.tmp /\ dk[f] # NoFile}
DiskBytes(dk) == MapThenSumSet(LAMBDA f : dk[f].size, FinalsOn(dk))

ShrinkPost(t, m, failed) ==
  LET gone == FinalsOn(disk) \ FinalsOn(disk')
      kept == FinalsOn(disk')
  IN \/ contents' = NULL /\ disk' = disk
     \/ /\ \A a \in gone, b \in kept \ failed :
             disk[a].mtime <= disk[b].mtime
        /\ \/ DiskBytes(disk') <= t /\ Cardinality(gone) >= m
           \/ kept \subseteq failed

ShrinkRemovesOldestToGoal ==
  [][shrunk' # NULL =>
       ShrinkPost(shrunk'.target, shrunk'.min, shrunk'.failed)]_vars

(***************************************************************************)
(* The process never iterates a NULL listing (sspiderage_dir_get_usage after*)
(* a failed rescan).                                                       *)
(***************************************************************************)
NoNullListing == ~crashed
=============================================================================
