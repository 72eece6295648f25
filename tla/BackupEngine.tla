--------------------------- MODULE BackupEngine ---------------------------
(***************************************************************************)
(* The backups of backup_engine.c: the rows of backups.db and the backup   *)
(* directories, shared by several processes (storage_cli, the tests) that  *)
(* create, verify, restore and clean up backups in any order and may die   *)
(* at any point.                                                           *)
(*                                                                         *)
(* A backup id is the second it was made in, so ids are the numbers of     *)
(* Times.  The two reads of the clock in backup_create are one step: the   *)
(* timestamp that backup_list sorts by is the id.  All backups are of one  *)
(* source into one destination; a backup's content is the set of files of  *)
(* the source that its directory holds.  sqlite3 runs without a busy       *)
(* timeout: a statement that meets another process's lock does nothing,    *)
(* and the code does not look at its result.                               *)
(***************************************************************************)
EXTENDS Naturals, FiniteSets

CONSTANTS
  Procs,    \* processes that use the backup engine
  Files,    \* files of the source directory, none of them of size 0
  MaxTime,  \* bound on the clock: last second of the model
  Keeps     \* values of keep_count

ASSUME FilesAssumption == IsFiniteSet(Files) /\ Files # {}
ASSUME TimeAssumption == MaxTime \in Nat \ {0}
ASSUME KeepAssumption == Keeps \subseteq Nat \ {0}

Times == 1 .. MaxTime
None == 0          \* no backup id

\* An incremental backup is a full one here: the previous backup that it lists decides
\* which files become links (--link-dest), and the parent column is never used again.
Types == {"FULL", "DIFFERENTIAL"}

VARIABLES
  now,       \* the clock
  listed,    \* ids that have a row in the table backups
  row,       \* per id: its row, when it has one
  dirs,      \* ids whose directory exists
  files,     \* per id: the files in its directory
  ppc,       \* per process: where it is
  id,        \* per process: the backup it works on
  type,      \* per process: info.type
  done,      \* per process: files its rsync has transferred
  ok,        \* per process: info.success
  count,     \* per process: rows counted by backup_list
  keep,      \* per process: keep_count
  todo,      \* per process: backups that cleanup_old has yet to remove
  removed,   \* history: ids on which rm -rf has been run
  torn       \* history: a listing has returned entries that it never filled

dbVars == <<listed, row>>
fsVars == <<dirs, files>>
infoVars == <<id, type, ok>>
cleanVars == <<count, keep, todo>>
vars == <<now, dbVars, fsVars, ppc, infoVars, done, cleanVars, removed, torn>>

PPC == {"idle", "count", "read", "copy", "insert", "rm_files", "rm_dir", "delete",
        "stat", "du", "verified", "rejected", "unmeasured", "fetch", "transfer", "restored"}
NoRow == [type |-> "FULL", success |-> FALSE]

\* The n newest of a set of backups (all of them when there are no n).
Newest(S, n) == {t \in S : Cardinality({u \in S : u > t}) < n}

Init ==
  /\ now = 1
  /\ listed = {}
  /\ row = [t \in Times |-> NoRow]
  /\ dirs = {}
  /\ files = [t \in Times |-> {}]
  /\ ppc = [p \in Procs |-> "idle"]
  /\ id = [p \in Procs |-> None]
  /\ type = [p \in Procs |-> "FULL"]
  /\ done = [p \in Procs |-> {}]
  /\ ok = [p \in Procs |-> FALSE]
  /\ count = [p \in Procs |-> 0]
  /\ keep = [p \in Procs |-> 0]
  /\ todo = [p \in Procs |-> {}]
  /\ removed = {}
  /\ torn = FALSE

\* The locals of a process that has returned to its caller, or has died.
Return(p) ==
  /\ ppc' = [ppc EXCEPT ![p] = "idle"]
  /\ id' = [id EXCEPT ![p] = None]
  /\ type' = [type EXCEPT ![p] = "FULL"]
  /\ done' = [done EXCEPT ![p] = {}]
  /\ ok' = [ok EXCEPT ![p] = FALSE]
  /\ count' = [count EXCEPT ![p] = 0]
  /\ keep' = [keep EXCEPT ![p] = 0]
  /\ todo' = [todo EXCEPT ![p] = {}]

\* A second passes.
Tick ==
  /\ now < MaxTime
  /\ now' = now + 1
  /\ UNCHANGED <<dbVars, fsVars, ppc, infoVars, done, cleanVars, removed, torn>>
-----------------------------------------------------------------------------
(* backup_create.                                                          *)

\* Mutant: a backup starts with an empty directory.
StartBackup_Clean(p, ty, t) ==
  /\ ppc[p] = "idle"
  /\ id' = [id EXCEPT ![p] = t]
  /\ type' = [type EXCEPT ![p] = ty]
  /\ dirs' = dirs \cup {t}
  /\ files' = [files EXCEPT ![t] = {}]
  /\ ppc' = [ppc EXCEPT ![p] = "copy"]
  /\ UNCHANGED <<now, dbVars, ok, done, cleanVars, removed, torn>>

\* The id of backup_generate_id, and mkdir -p of the directory named after it, which may
\* fail: its result is ignored.
StartBackup(p, ty, t) ==
  /\ ppc[p] = "idle"
  /\ id' = [id EXCEPT ![p] = t]
  /\ type' = [type EXCEPT ![p] = ty]
  /\ \E made \in {{}, {t}} : dirs' = dirs \cup made
  /\ ppc' = [ppc EXCEPT ![p] = "copy"]
  /\ UNCHANGED <<now, dbVars, files, ok, done, cleanVars, removed, torn>>

\* backup_create up to the start of the rsync command. Nothing stops two backups of
\* the same second from sharing id and directory.
BeginCreate(p) == \E ty \in Types : StartBackup(p, ty, now)

\* rsync transfers one file: a copy, or a link that outlives the backup it links to.
\* It makes the directory itself when there is none before it starts.
CopyFile(p) ==
  /\ ppc[p] = "copy"
  /\ type[p] # "DIFFERENTIAL"
  /\ id[p] \in dirs \/ done[p] = {}
  /\ dirs' = dirs \cup {id[p]}
  /\ \E f \in Files \ done[p] :
       /\ files' = [files EXCEPT ![id[p]] = @ \cup {f}]
       /\ done' = [done EXCEPT ![p] = @ \cup {f}]
  /\ UNCHANGED <<now, dbVars, ppc, infoVars, cleanVars, removed, torn>>

\* rsync ends with status 0 once every file has been transferred. For a
\* differential backup cmd still holds the mkdir -p, which is run again.
CopyDone(p) ==
  /\ ppc[p] = "copy"
  /\ type[p] # "DIFFERENTIAL" => done[p] = Files
  /\ dirs' = IF type[p] = "DIFFERENTIAL" THEN dirs \cup {id[p]} ELSE dirs
  /\ ok' = [ok EXCEPT ![p] = TRUE]
  /\ ppc' = [ppc EXCEPT ![p] = "insert"]
  /\ UNCHANGED <<now, dbVars, files, id, type, done, cleanVars, removed, torn>>

\* Mutant: the exit status of rsync is not looked at.
CopyFails_Unnoticed(p) ==
  /\ ppc[p] = "copy"
  /\ ok' = [ok EXCEPT ![p] = TRUE]
  /\ ppc' = [ppc EXCEPT ![p] = "insert"]
  /\ UNCHANGED <<now, dbVars, fsVars, id, type, done, cleanVars, removed, torn>>

\* popen or the command fails; what has been copied stays.
CopyFails(p) ==
  /\ ppc[p] = "copy"
  /\ ppc' = [ppc EXCEPT ![p] = "insert"]
  /\ UNCHANGED <<now, dbVars, fsVars, infoVars, done, cleanVars, removed, torn>>

\* INSERT INTO backups, whose result is ignored: backup_id is UNIQUE, and another
\* process may hold the lock.
Insert(p) ==
  /\ ppc[p] = "insert"
  /\ \/ /\ id[p] \notin listed
        /\ listed' = listed \cup {id[p]}
        /\ row' = [row EXCEPT ![id[p]] = [type |-> type[p], success |-> ok[p]]]
     \/ UNCHANGED dbVars
  /\ Return(p)
  /\ UNCHANGED <<now, fsVars, removed, torn>>
-----------------------------------------------------------------------------
(* backup_cleanup_old, with the two passes of backup_list.                 *)

\* backup_cleanup_old(keep_count).
BeginCleanup(p) ==
  /\ ppc[p] = "idle"
  /\ \E n \in Keeps : keep' = [keep EXCEPT ![p] = n]
  /\ ppc' = [ppc EXCEPT ![p] = "count"]
  /\ UNCHANGED <<now, dbVars, fsVars, infoVars, done, count, todo, removed, torn>>

\* The first pass counts the rows; a locked database counts as an empty one. There
\* is nothing to do when there are no more rows than are kept.
CountRows(p) ==
  /\ ppc[p] = "count"
  /\ \E n \in {Cardinality(listed), 0} :
       \/ /\ n > keep[p]
          /\ count' = [count EXCEPT ![p] = n]
          /\ ppc' = [ppc EXCEPT ![p] = "read"]
          /\ UNCHANGED <<infoVars, done, keep, todo>>
       \/ /\ n <= keep[p]
          /\ Return(p)
  /\ UNCHANGED <<now, dbVars, fsVars, removed, torn>>

\* Mutant: ORDER BY timestamp, without DESC.
Dropped_Oldest(S, n) == S \ {t \in S : Cardinality({u \in S : u < t}) < n}

\* The entries of a listing from index n on.
Dropped(S, n) == S \ Newest(S, n)

\* The second pass fills at most count entries, newest first. Rows deleted since the
\* first pass, or a locked database, leave entries of malloc'ed memory that nobody
\* wrote: they hold what an earlier listing left there, or nothing of use. The loop
\* takes those from index keep_count on.
ReadRows(p) ==
  /\ ppc[p] = "read"
  /\ \E got \in {Newest(listed, count[p]), {}} :
     \E junk \in SUBSET Times :
       /\ Cardinality(junk) + keep[p] <= count[p]
       /\ Cardinality(junk) + Cardinality(got) <= count[p]
       /\ torn' = (torn \/ Cardinality(got) < count[p])
       /\ todo' = [todo EXCEPT ![p] = Dropped(got, keep[p]) \cup junk]
  /\ ppc' = [ppc EXCEPT ![p] = "rm_files"]
  /\ UNCHANGED <<now, dbVars, fsVars, infoVars, done, count, keep, removed>>

\* rm -rf of the next backup, which may fail; first the files.
RmFiles(p) ==
  /\ ppc[p] = "rm_files"
  /\ \E t \in todo[p] :
       /\ torn \/ \A u \in todo[p] : u <= t
       /\ id' = [id EXCEPT ![p] = t]
       /\ removed' = removed \cup {t}
       /\ \E rest \in {{}, files[t]} : files' = [files EXCEPT ![t] = rest]
  /\ ppc' = [ppc EXCEPT ![p] = "rm_dir"]
  /\ UNCHANGED <<now, dbVars, dirs, type, ok, done, cleanVars, torn>>

\* ... then the directory, unless another process has put a file into it.
RmDir(p) ==
  /\ ppc[p] = "rm_dir"
  /\ dirs' = IF files[id[p]] = {} THEN dirs \ {id[p]} ELSE dirs
  /\ ppc' = [ppc EXCEPT ![p] = "delete"]
  /\ UNCHANGED <<now, dbVars, files, infoVars, done, cleanVars, removed, torn>>

\* DELETE FROM backups, whose result is ignored.
Delete(p) ==
  /\ ppc[p] = "delete"
  /\ \/ /\ listed' = listed \ {id[p]}
        /\ row' = [row EXCEPT ![id[p]] = NoRow]
     \/ UNCHANGED dbVars
  /\ id' = [id EXCEPT ![p] = None]
  /\ todo' = [todo EXCEPT ![p] = @ \ {id[p]}]
  /\ ppc' = [ppc EXCEPT ![p] = "rm_files"]
  /\ UNCHANGED <<now, fsVars, type, ok, done, count, keep, removed, torn>>

\* The loop is over.
CleanupEnds(p) ==
  /\ ppc[p] = "rm_files"
  /\ todo[p] = {}
  /\ Return(p)
  /\ UNCHANGED <<now, dbVars, fsVars, removed, torn>>
-----------------------------------------------------------------------------
(* backup_verify and backup_restore.                                       *)

\* backup_get_info finds the row, and keeps a copy of it; or the backup has no row (it is
\* still being written, its INSERT failed, it has been deleted, it never was), or the
\* database is locked: "Backup not found".
GetInfo(p) ==
  /\ ppc[p] = "idle"
  /\ \/ /\ \E t \in listed :
             /\ id' = [id EXCEPT ![p] = t]
             /\ type' = [type EXCEPT ![p] = row[t].type]
             /\ ok' = [ok EXCEPT ![p] = row[t].success]
        /\ \E next \in {"stat", "fetch"} : ppc' = [ppc EXCEPT ![p] = next]
     \/ /\ \E t \in Times : id' = [id EXCEPT ![p] = t]
        /\ ppc' = [ppc EXCEPT ![p] = "rejected"]
        /\ UNCHANGED <<type, ok>>
  /\ UNCHANGED <<now, dbVars, fsVars, done, cleanVars, removed, torn>>

\* backup_verify: stat of the directory.
Verify(p) ==
  /\ ppc[p] = "stat"
  /\ ppc' = [ppc EXCEPT ![p] = IF id[p] \in dirs THEN "du" ELSE "rejected"]
  /\ UNCHANGED <<now, dbVars, fsVars, infoVars, done, cleanVars, removed, torn>>

\* ... and its size by du -sb, which counts the directory itself or not: 0 rejects. The
\* size is 0, too, when popen or du fails.
Measure(p) ==
  /\ ppc[p] = "du"
  /\ \/ id[p] \in dirs /\ ppc' = [ppc EXCEPT ![p] = "verified"]
     \/ files[id[p]] = {} /\ ppc' = [ppc EXCEPT ![p] = "rejected"]
     \/ ppc' = [ppc EXCEPT ![p] = "unmeasured"]
  /\ UNCHANGED <<now, dbVars, fsVars, infoVars, done, cleanVars, removed, torn>>

\* backup_restore: rsync lists the files of the directory.
Fetch(p) ==
  /\ ppc[p] = "fetch"
  /\ id[p] \in dirs
  /\ done' = [done EXCEPT ![p] = files[id[p]]]
  /\ ppc' = [ppc EXCEPT ![p] = "transfer"]
  /\ UNCHANGED <<now, dbVars, fsVars, infoVars, cleanVars, removed, torn>>

\* Mutant: the exit status of the restoring rsync is not looked at.
Transfer_Unchecked(p) ==
  /\ ppc[p] = "transfer"
  /\ \E part \in SUBSET done[p] : done' = [done EXCEPT ![p] = part]
  /\ ppc' = [ppc EXCEPT ![p] = "restored"]
  /\ UNCHANGED <<now, dbVars, fsVars, infoVars, cleanVars, removed, torn>>

\* ... and transfers them; a file that has vanished makes its status non-zero.
Transfer(p) ==
  /\ ppc[p] = "transfer"
  /\ id[p] \in dirs
  /\ done[p] \subseteq files[id[p]]
  /\ ppc' = [ppc EXCEPT ![p] = "restored"]
  /\ UNCHANGED <<now, dbVars, fsVars, infoVars, done, cleanVars, removed, torn>>

\* The result of verify or restore is returned, or restore fails.
Finish(p) ==
  /\ ppc[p] \in {"verified", "rejected", "unmeasured", "restored", "fetch", "transfer"}
  /\ Return(p)
  /\ UNCHANGED <<now, dbVars, fsVars, removed, torn>>

\* The process dies; the database and the directories stay as they are.
Crash(p) ==
  /\ ppc[p] # "idle"
  /\ Return(p)
  /\ UNCHANGED <<now, dbVars, fsVars, removed, torn>>
-----------------------------------------------------------------------------
Step(p) ==
  \/ BeginCreate(p) \/ CopyFile(p) \/ CopyDone(p) \/ CopyFails(p) \/ Insert(p)
  \/ BeginCleanup(p) \/ CountRows(p) \/ ReadRows(p)
  \/ RmFiles(p) \/ RmDir(p) \/ Delete(p) \/ CleanupEnds(p)
  \/ GetInfo(p) \/ Verify(p) \/ Measure(p) \/ Fetch(p) \/ Transfer(p) \/ Finish(p) \/ Crash(p)

Next == Tick \/ \E p \in Procs : Step(p)

Spec == Init /\ [][Next]_vars
-----------------------------------------------------------------------------
(* Properties.                                                             *)

\* Types of the tables, the directories and the locals of backup_engine.c.
TypeOK ==
  /\ now \in Times
  /\ listed \subseteq Times
  /\ row \in [Times -> [type : Types, success : BOOLEAN]]
  /\ dirs \subseteq Times
  /\ files \in [Times -> SUBSET Files]
  /\ ppc \in [Procs -> PPC]
  /\ id \in [Procs -> Times \cup {None}]
  /\ type \in [Procs -> Types]
  /\ done \in [Procs -> SUBSET Files]
  /\ ok \in [Procs -> BOOLEAN]
  /\ count \in [Procs -> 0 .. MaxTime]
  /\ keep \in [Procs -> Keeps \cup {0}]
  /\ todo \in [Procs -> SUBSET Times]
  /\ removed \subseteq Times
  /\ torn \in BOOLEAN

\* A row that says success, of a full or incremental backup, can be relied upon: its
\* directory holds every file, unless backup_cleanup_old has started to remove it.
\* Failed or interrupted copies and backups of the same second do not break it.
SuccessIsComplete ==
  \A t \in listed \ removed :
    row[t].success /\ row[t].type # "DIFFERENTIAL" => t \in dirs /\ files[t] = Files

\* backup_verify has no false alarm for a backup recorded as complete: it reports a
\* missing or an empty directory, seen after the row was read, only when a cleanup has
\* started to remove that backup. Backups of the same second, and a mkdir that failed, do
\* not lead to one; a du that cannot be run does ("unmeasured"), and so does a row that
\* cannot be read, as the code takes either for a bad backup.
SoundNeverRejected ==
  \A p \in Procs :
    (ppc[p] = "rejected" /\ ok[p] /\ type[p] # "DIFFERENTIAL") => id[p] \in removed

\* backup_restore that reports success has restored every file of a backup recorded
\* as complete, although the row was read before the files, unless a cleanup has
\* removed that backup in the meantime.
RestoredIsWhole ==
  \A p \in Procs :
    (ppc[p] = "restored" /\ ok[p] /\ type[p] # "DIFFERENTIAL" /\ id[p] \notin removed)
      => done[p] = Files

\* A step that takes rows from the table leaves one that is as new as any it took.
KeepStep == ~torn => \A t \in listed : \E u \in listed' : t <= u

\* "Keeping only the latest backup": however many cleanups and backups run at once,
\* the newest row survives, unless a listing returned unwritten entries.
NewestSurvives == [][KeepStep]_vars
=============================================================================
