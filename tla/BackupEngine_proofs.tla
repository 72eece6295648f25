------------------------ MODULE BackupEngine_proofs ------------------------
(***************************************************************************)
(* Proofs about BackupEngine, for any processes, files, seconds and        *)
(* numbers of backups to keep.                                             *)
(***************************************************************************)
EXTENDS BackupEngine, FiniteSetTheorems, TLAPS

\* Most leaves are arithmetic, sequences, records and functions and go to SMT; the ones
\* that are plain logic name Zenon.
USE SMTT(40)

\* A process that works on a backup has its id.
Working == {"copy", "insert", "rm_dir", "delete", "stat", "du", "verified", "rejected",
            "unmeasured", "fetch", "transfer", "restored"}
Typed == TypeOK /\ \A p \in Procs : ppc[p] \in Working => id[p] \in Times

-----------------------------------------------------------------------------
(* Types.                                                                  *)

LEMMA PCFacts ==
  PPC = {"idle", "count", "read", "copy", "insert", "rm_files", "rm_dir", "delete",
         "stat", "du", "verified", "rejected", "unmeasured", "fetch", "transfer",
         "restored"}
BY DEF PPC

\* The rows of any listing can be counted, and there are at most as many as seconds.
LEMMA CountFacts ==
  ASSUME NEW S, S \subseteq Times
  PROVE  IsFiniteSet(S) /\ Cardinality(S) \in 0 .. MaxTime
<1>1. IsFiniteSet(Times) /\ Cardinality(Times) = MaxTime
  <2>1. 1 \in Int /\ MaxTime \in Int /\ 1 <= MaxTime
    BY TimeAssumption
  <2> QED BY <2>1, FS_Interval DEF Times
<1>2. IsFiniteSet(S) /\ Cardinality(S) <= Cardinality(Times)
  BY <1>1, FS_Subset
<1>3. Cardinality(S) \in Nat
  BY <1>2, FS_CardinalityType
<1> QED BY <1>1, <1>2, <1>3, TimeAssumption

\* The locals after a return have the types they had, and no backup is worked on.
LEMMA ReturnTyped ==
  ASSUME Typed, NEW p \in Procs, Return(p),
         now' = now, listed' \subseteq Times, removed' = removed, torn' = torn,
         row' \in [Times -> [type : Types, success : BOOLEAN]], UNCHANGED fsVars
  PROVE  Typed'
<1> USE DEF Typed, TypeOK, Return
<1>1. ppc' \in [Procs -> PPC] /\ \A q \in Procs : ppc'[q] \in Working => id'[q] \in Times
  BY PCFacts DEF Working
<1>2. id' \in [Procs -> Times \cup {None}] /\ type' \in [Procs -> Types]
  BY DEF Types
<1>3. done' \in [Procs -> SUBSET Files] /\ todo' \in [Procs -> SUBSET Times]
  OBVIOUS
<1>4. ok' \in [Procs -> BOOLEAN]
  OBVIOUS
<1>5. count' \in [Procs -> 0 .. MaxTime] /\ keep' \in [Procs -> Keeps \cup {0}]
  BY TimeAssumption
<1>6. now' \in Times /\ dirs' \subseteq Times /\ files' \in [Times -> SUBSET Files]
      /\ removed' \subseteq Times /\ torn' \in BOOLEAN
  BY DEF fsVars
<1> QED BY <1>1, <1>2, <1>3, <1>4, <1>5, <1>6

LEMMA InitTyped == Init => Typed
<1> SUFFICES ASSUME Init PROVE Typed
  OBVIOUS
<1> USE DEF Init
<1>1. ok \in [Procs -> BOOLEAN] /\ torn \in BOOLEAN
  BY ZenonT(40)
<1>2. row \in [Times -> [type : Types, success : BOOLEAN]]
  BY DEF NoRow, Types
<1>3. now \in Times /\ listed \subseteq Times /\ dirs \subseteq Times /\ removed \subseteq Times
      /\ files \in [Times -> SUBSET Files] /\ type \in [Procs -> Types]
      /\ done \in [Procs -> SUBSET Files] /\ todo \in [Procs -> SUBSET Times]
      /\ id \in [Procs -> Times \cup {None}]
  BY TimeAssumption DEF Times, Types
<1>4. ppc \in [Procs -> PPC] /\ \A p \in Procs : ppc[p] \notin Working
  BY PCFacts DEF Working
<1>5. count \in [Procs -> 0 .. MaxTime] /\ keep \in [Procs -> Keeps \cup {0}]
  BY TimeAssumption
<1> QED BY <1>1, <1>2, <1>3, <1>4, <1>5 DEF Typed, TypeOK

LEMMA CreateTyped ==
  ASSUME Typed, NEW p \in Procs,
         BeginCreate(p) \/ CopyFile(p) \/ CopyDone(p) \/ CopyFails(p) \/ Insert(p)
  PROVE  Typed'
<1>1. CASE BeginCreate(p)
  BY <1>1, PCFacts DEF BeginCreate, StartBackup, Typed, TypeOK, Working, dbVars, cleanVars
<1>2. CASE CopyFile(p)
  <2>1. id[p] \in Times
    BY <1>2 DEF CopyFile, Typed, Working
  <2> QED BY <1>2, <2>1 DEF CopyFile, Typed, TypeOK, dbVars, infoVars, cleanVars
<1>3. CASE CopyDone(p)
  <2>1. id[p] \in Times
    BY <1>3 DEF CopyDone, Typed, Working
  <2>2. ok' \in [Procs -> BOOLEAN]
    BY <1>3 DEF CopyDone, Typed, TypeOK
  <2> QED BY <1>3, <2>1, <2>2, PCFacts DEF CopyDone, Typed, TypeOK, Working, dbVars, cleanVars
<1>4. CASE CopyFails(p)
  BY <1>4, PCFacts
  DEF CopyFails, Typed, TypeOK, Working, dbVars, fsVars, infoVars, cleanVars
<1>5. CASE Insert(p)
  <2>1. id[p] \in Times
    BY <1>5 DEF Insert, Typed, Working
  <2>2. [type |-> type[p], success |-> ok[p]] \in [type : Types, success : BOOLEAN]
    BY DEF Typed, TypeOK
  <2>3. listed' \subseteq Times /\ row' \in [Times -> [type : Types, success : BOOLEAN]]
    BY <1>5, <2>1, <2>2 DEF Insert, Typed, TypeOK, dbVars
  <2> QED BY <1>5, <2>3, ReturnTyped DEF Insert
<1> QED BY <1>1, <1>2, <1>3, <1>4, <1>5

LEMMA CleanupTyped ==
  ASSUME Typed, NEW p \in Procs,
         BeginCleanup(p) \/ CountRows(p) \/ ReadRows(p)
           \/ RmFiles(p) \/ RmDir(p) \/ Delete(p) \/ CleanupEnds(p)
  PROVE  Typed'
<1>1. CASE BeginCleanup(p)
  BY <1>1, PCFacts
  DEF BeginCleanup, Typed, TypeOK, Working, dbVars, fsVars, infoVars
<1>2. CASE CountRows(p)
  <2>1. PICK n \in {Cardinality(listed), 0} :
          \/ /\ n > keep[p]
             /\ count' = [count EXCEPT ![p] = n]
             /\ ppc' = [ppc EXCEPT ![p] = "read"]
             /\ UNCHANGED <<infoVars, done, keep, todo>>
          \/ /\ n <= keep[p]
             /\ Return(p)
    BY <1>2 DEF CountRows
  <2>2. n \in 0 .. MaxTime
    BY CountFacts, TimeAssumption DEF Typed, TypeOK
  <2>3. UNCHANGED <<now, dbVars, fsVars, removed, torn>>
    BY <1>2 DEF CountRows
  <2>4. CASE Return(p)
    BY <2>3, <2>4, ReturnTyped DEF Typed, TypeOK, dbVars
  <2>5. CASE /\ count' = [count EXCEPT ![p] = n]
             /\ ppc' = [ppc EXCEPT ![p] = "read"]
             /\ UNCHANGED <<infoVars, done, keep, todo>>
    BY <2>2, <2>3, <2>5, PCFacts DEF Typed, TypeOK, Working, dbVars, fsVars, infoVars
  <2> QED BY <2>1, <2>4, <2>5
<1>3. CASE ReadRows(p)
  <2>1. PICK got \in {Newest(listed, count[p]), {}}, junk \in SUBSET Times :
          /\ torn' = (torn \/ Cardinality(got) < count[p])
          /\ todo' = [todo EXCEPT ![p] = Dropped(got, keep[p]) \cup junk]
    BY <1>3, ZenonT(40) DEF ReadRows
  <2>2. Dropped(got, keep[p]) \cup junk \in SUBSET Times
    BY ZenonT(40) DEF Dropped, Newest, Typed, TypeOK
  <2>3. torn' \in BOOLEAN
    BY <2>1, ZenonT(40)
  <2> QED BY <1>3, <2>1, <2>2, <2>3, PCFacts
          DEF ReadRows, Typed, TypeOK, Working, dbVars, fsVars, infoVars
<1>4. CASE RmFiles(p)
  BY <1>4, PCFacts DEF RmFiles, Typed, TypeOK, Working, dbVars, cleanVars
<1>5. CASE RmDir(p)
  BY <1>5, PCFacts DEF RmDir, Typed, TypeOK, Working, dbVars, infoVars, cleanVars
<1>6. CASE Delete(p)
  <2>1. NoRow \in [type : Types, success : BOOLEAN]
    BY DEF NoRow, Types
  <2> DEFINE Rows == [type : Types, success : BOOLEAN]
  <2>2. row \in [Times -> Rows] /\ NoRow \in Rows /\ listed \subseteq Times
    BY <2>1 DEF Typed, TypeOK
  <2> HIDE DEF Rows
  <2>3. listed' \subseteq Times /\ row' \in [Times -> Rows]
    BY <1>6, <2>2 DEF Delete, dbVars
  <2> USE DEF Rows
  <2> QED BY <1>6, <2>3, PCFacts DEF Delete, Typed, TypeOK, Working, fsVars
<1>7. CASE CleanupEnds(p)
  BY <1>7, ReturnTyped DEF CleanupEnds, Typed, TypeOK, dbVars
<1> QED BY <1>1, <1>2, <1>3, <1>4, <1>5, <1>6, <1>7

LEMMA UseTyped ==
  ASSUME Typed, NEW p \in Procs,
         GetInfo(p) \/ Verify(p) \/ Measure(p) \/ Fetch(p) \/ Transfer(p) \/ Finish(p)
           \/ Crash(p)
  PROVE  Typed'
<1>1. CASE GetInfo(p) /\ ppc'[p] # "rejected"
  <2>1. PICK t \in listed : /\ id' = [id EXCEPT ![p] = t]
                            /\ type' = [type EXCEPT ![p] = row[t].type]
                            /\ ok' = [ok EXCEPT ![p] = row[t].success]
    BY <1>1 DEF GetInfo, Typed, TypeOK
  <2>2. t \in Times /\ row[t].type \in Types /\ row[t].success \in BOOLEAN
    BY DEF Typed, TypeOK
  <2>3. ok' \in [Procs -> BOOLEAN]
    BY <2>1, <2>2 DEF Typed, TypeOK
  <2>4. /\ id' \in [Procs -> Times \cup {None}] /\ id'[p] \in Times
        /\ \A q \in Procs \ {p} : id'[q] = id[q]
        /\ type' \in [Procs -> Types]
    BY <2>1, <2>2 DEF Typed, TypeOK
  <2>5. ppc' \in [Procs -> PPC] /\ \A q \in Procs \ {p} : ppc'[q] = ppc[q]
    BY <1>1, PCFacts DEF GetInfo, Typed, TypeOK
  <2>6. UNCHANGED <<now, listed, row, dirs, files, done, count, keep, todo, removed, torn>>
    BY <1>1, ZenonT(40) DEF GetInfo, dbVars, fsVars, cleanVars
  <2>7. TypeOK'
    BY <2>3, <2>4, <2>5, <2>6 DEF Typed, TypeOK
  <2> QED BY <2>4, <2>5, <2>7 DEF Typed
<1>2. CASE GetInfo(p) /\ ppc'[p] = "rejected"
  <2>1. /\ \E t \in Times : id' = [id EXCEPT ![p] = t]
        /\ ppc' = [ppc EXCEPT ![p] = "rejected"]
        /\ UNCHANGED <<type, ok>>
    BY <1>2 DEF GetInfo, Typed, TypeOK
  <2> QED BY <1>2, <2>1, PCFacts
          DEF GetInfo, Typed, TypeOK, Working, dbVars, fsVars, cleanVars
<1>3. CASE Verify(p) \/ Measure(p)
  BY <1>3, PCFacts
  DEF Verify, Measure, Typed, TypeOK, Working, dbVars, fsVars, infoVars, cleanVars
<1>4. CASE Fetch(p)
  BY <1>4, PCFacts DEF Fetch, Typed, TypeOK, Working, dbVars, fsVars, infoVars, cleanVars
<1>5. CASE Transfer(p)
  BY <1>5, PCFacts DEF Transfer, Typed, TypeOK, Working, dbVars, fsVars, infoVars, cleanVars
<1>6. CASE Finish(p) \/ Crash(p)
  BY <1>6, ReturnTyped DEF Finish, Crash, Typed, TypeOK, dbVars
<1> QED BY <1>1, <1>2, <1>3, <1>4, <1>5, <1>6

LEMMA NextTyped == Typed /\ [Next]_vars => Typed'
<1> SUFFICES ASSUME Typed, [Next]_vars PROVE Typed'
  OBVIOUS
<1>1. CASE Tick
  BY <1>1, TimeAssumption
  DEF Tick, Typed, TypeOK, Times, dbVars, fsVars, infoVars, cleanVars
<1>2. ASSUME NEW p \in Procs, Step(p) PROVE Typed'
  BY <1>2, CreateTyped, CleanupTyped, UseTyped DEF Step
<1>3. CASE UNCHANGED vars
  BY <1>3 DEF vars, Typed, TypeOK, dbVars, fsVars, infoVars, cleanVars
<1> QED BY <1>1, <1>2, <1>3 DEF Next

LEMMA TypeInvariant == Spec => []Typed
<1> QED BY InitTyped, NextTyped, PTL DEF Spec

\* The rows, the directories and the locals of backup_engine.c keep their types, and no
\* listing counts more rows than there are seconds.
THEOREM TypeCorrect == Spec => []TypeOK
<1>1. Typed => TypeOK
  BY DEF Typed
<1> QED BY <1>1, TypeInvariant, PTL

-----------------------------------------------------------------------------
(* Backups that no cleanup has touched are whole.                          *)

\* The positions of backup_verify and backup_restore.
Reading == {"stat", "du", "verified", "rejected", "unmeasured", "fetch", "transfer",
            "restored"}

\* p holds a record that says success, of a backup that should hold every file.
Trusts(p) == ok[p] /\ type[p] # "DIFFERENTIAL" /\ id[p] \notin removed

\* What makes a row say success, the directory and every file in it, is on the disk when the
\* process that writes the row, or has read it, relies on it, and stays until a cleanup
\* removes it.
Transferred(p) == done[p] \subseteq files[id[p]] /\ (done[p] # {} => id[p] \in dirs)

LocalInv(p) ==
  /\ ppc[p] = "idle" => ~ok[p] /\ done[p] = {}
  /\ ppc[p] = "copy" =>
       ~ok[p] /\ (id[p] \notin removed => Transferred(p))
  /\ ppc[p] \in {"rm_dir", "delete"} => id[p] \in removed
  /\ ppc[p] \in {"insert"} \cup Reading /\ Trusts(p) =>
       id[p] \in dirs /\ files[id[p]] = Files /\ ppc[p] # "rejected"
  /\ ppc[p] \in {"transfer", "restored"} /\ Trusts(p) => done[p] = Files

RowInv == \A t \in listed \ removed :
  row[t].success /\ row[t].type # "DIFFERENTIAL" => t \in dirs /\ files[t] = Files

BackupInv == RowInv /\ \A p \in Procs : LocalInv(p)

\* What a step does to a backup that no cleanup has touched.
Kept ==
  /\ removed \subseteq removed'
  /\ \A t \in Times \ removed' : (t \in dirs => t \in dirs') /\ files[t] \subseteq files'[t]

LEMMA StepKeeps == ASSUME Typed, BackupInv, NEW p \in Procs, Step(p) PROVE Kept
<1>1. CASE BeginCreate(p)
  BY <1>1 DEF BeginCreate, StartBackup, Kept
<1>2. CASE CopyFile(p)
  BY <1>2 DEF CopyFile, Kept, Typed, TypeOK
<1>3. CASE CopyDone(p)
  BY <1>3 DEF CopyDone, Kept
<1>4. CASE RmFiles(p)
  BY <1>4 DEF RmFiles, Kept, Typed, TypeOK
<1>5. CASE RmDir(p)
  BY <1>5 DEF RmDir, Kept, BackupInv, LocalInv
<1>6. CASE UNCHANGED <<fsVars, removed>>
  BY <1>6 DEF Kept, fsVars
<1>7. CASE GetInfo(p) \/ Verify(p) \/ Measure(p) \/ Fetch(p) \/ Transfer(p)
  BY <1>6, <1>7, ZenonT(40) DEF GetInfo, Verify, Measure, Fetch, Transfer, fsVars
<1>8. CASE CopyFails(p) \/ Insert(p) \/ BeginCleanup(p) \/ CountRows(p) \/ ReadRows(p)
             \/ Delete(p) \/ CleanupEnds(p) \/ Finish(p) \/ Crash(p)
  BY <1>6, <1>8 DEF CopyFails, Insert, BeginCleanup, CountRows, ReadRows, Delete,
                    CleanupEnds, Finish, Crash
<1> QED BY <1>1, <1>2, <1>3, <1>4, <1>5, <1>7, <1>8 DEF Step

\* A process that does not move keeps what it relies on.
LEMMA OthersKeep ==
  ASSUME Typed, Typed', Kept, NEW q \in Procs, LocalInv(q),
         ppc'[q] = ppc[q], id'[q] = id[q], type'[q] = type[q], ok'[q] = ok[q],
         done'[q] = done[q]
  PROVE  LocalInv(q)'
<1>1. ppc[q] \in Working => id[q] \in Times
  BY DEF Typed
<1>2. \A t \in Times : files'[t] \subseteq Files
  BY DEF Typed, TypeOK
<1>3. Trusts(q)' => Trusts(q)
  BY DEF Trusts, Kept
<1>4. ppc[q] \in Working /\ id[q] \notin removed' =>
        /\ id[q] \notin removed
        /\ id[q] \in dirs => id[q] \in dirs'
        /\ files[id[q]] \subseteq files'[id[q]] /\ files'[id[q]] \subseteq Files
  BY <1>1, <1>2 DEF Kept
<1>5. id[q] \in removed => id[q] \in removed'
  BY DEF Kept
<1>6. /\ ppc'[q] = "idle" => ~ok'[q] /\ done'[q] = {}
      /\ ppc'[q] \in {"rm_dir", "delete"} => id'[q] \in removed'
  BY <1>5, ZenonT(40) DEF LocalInv
<1>7. ppc'[q] = "copy" => ~ok'[q] /\ (id'[q] \notin removed' => Transferred(q)')
  BY <1>4, ZenonT(40) DEF LocalInv, Working, Transferred
<1>8. /\ ppc'[q] \in {"insert"} \cup Reading /\ Trusts(q)' =>
           id'[q] \in dirs' /\ files'[id'[q]] = Files /\ ppc'[q] # "rejected"
      /\ ppc'[q] \in {"transfer", "restored"} /\ Trusts(q)' => done'[q] = Files
  <2>1. Trusts(q)' => id[q] \notin removed'
    BY DEF Trusts
  <2>2. ppc[q] \in {"insert"} \cup Reading /\ Trusts(q)' =>
          /\ ppc[q] \in Working /\ id[q] \in dirs /\ files[id[q]] = Files
          /\ ppc[q] # "rejected"
    BY <1>3, ZenonT(40) DEF LocalInv, Working, Reading
  <2>3. ppc[q] \in {"insert"} \cup Reading /\ Trusts(q)' =>
          id[q] \in dirs' /\ files'[id[q]] = Files /\ ppc[q] # "rejected"
    BY <1>4, <2>1, <2>2, ZenonT(40)
  <2>4. ppc[q] \in {"transfer", "restored"} /\ Trusts(q)' => done[q] = Files
    BY <1>3, ZenonT(40) DEF LocalInv
  <2> QED BY <2>3, <2>4
<1> QED BY <1>6, <1>7, <1>8, ZenonT(40) DEF LocalInv

\* A process that has returned relies on nothing.
LEMMA ReturnLocal ==
  ASSUME Typed, NEW p \in Procs, Return(p)
  PROVE  LocalInv(p)'
<1>1. ppc'[p] = "idle" /\ ~ok'[p] /\ done'[p] = {}
  BY DEF Return, Typed, TypeOK
<1> QED BY <1>1, ZenonT(40) DEF LocalInv, Reading

LEMMA StepMovesOne ==
  ASSUME Typed, NEW p \in Procs, Step(p), NEW q \in Procs, q # p
  PROVE  /\ ppc'[q] = ppc[q] /\ id'[q] = id[q] /\ type'[q] = type[q] /\ ok'[q] = ok[q]
         /\ done'[q] = done[q]
<1> USE DEF Typed, TypeOK
<1>1. CASE BeginCreate(p) \/ CopyFile(p) \/ CopyDone(p) \/ CopyFails(p)
  BY <1>1 DEF BeginCreate, StartBackup, CopyFile, CopyDone, CopyFails, infoVars
<1>2. CASE Return(p)
  BY <1>2 DEF Return
<1>3. CASE BeginCleanup(p) \/ ReadRows(p) \/ RmFiles(p) \/ RmDir(p) \/ Delete(p)
  BY <1>3 DEF BeginCleanup, ReadRows, RmFiles, RmDir, Delete, infoVars
<1>4. CASE CountRows(p) /\ ~Return(p)
  BY <1>4 DEF CountRows, infoVars
<1>5. CASE GetInfo(p) \/ Verify(p) \/ Measure(p) \/ Fetch(p) \/ Transfer(p)
  BY <1>5 DEF GetInfo, Verify, Measure, Fetch, Transfer, infoVars
<1> QED BY <1>1, <1>2, <1>3, <1>4, <1>5, ZenonT(40) DEF Step, Insert, CleanupEnds, Finish, Crash

LEMMA CreateLocal ==
  ASSUME Typed, Kept, NEW p \in Procs, LocalInv(p),
         BeginCreate(p) \/ CopyFile(p) \/ CopyDone(p) \/ CopyFails(p)
  PROVE  LocalInv(p)'
<1>1. /\ ppc \in [Procs -> PPC] /\ done \in [Procs -> SUBSET Files]
      /\ files \in [Times -> SUBSET Files]
      /\ ppc[p] \in Working => id[p] \in Times
  BY DEF Typed, TypeOK
<1>2. CASE BeginCreate(p)
  <2>1. ppc[p] = "idle" /\ ppc'[p] = "copy" /\ ok' = ok /\ done' = done
    <3>1. /\ ppc[p] = "idle" /\ ppc' = [ppc EXCEPT ![p] = "copy"]
          /\ UNCHANGED <<ok, done>>
      BY <1>2, ZenonT(40) DEF BeginCreate, StartBackup
    <3> QED BY <1>1, <3>1
  <2>2. ~ok'[p] /\ done'[p] = {}
    BY <2>1, ZenonT(40) DEF LocalInv
  <2> QED BY <2>1, <2>2, ZenonT(40) DEF LocalInv, Reading, Transferred
<1>3. CASE CopyFile(p)
  <2>1. /\ ppc[p] = "copy" /\ ppc' = ppc /\ id' = id /\ ok' = ok /\ removed' = removed
        /\ id[p] \in dirs' /\ id[p] \in Times
    <3>1. /\ ppc[p] = "copy" /\ ppc' = ppc /\ id' = id /\ ok' = ok /\ removed' = removed
          /\ dirs' = dirs \cup {id[p]}
      BY <1>3, ZenonT(40) DEF CopyFile, infoVars
    <3> QED BY <1>1, <3>1 DEF Working
  <2>2. PICK f \in Files : /\ files' = [files EXCEPT ![id[p]] = @ \cup {f}]
                           /\ done' = [done EXCEPT ![p] = @ \cup {f}]
    BY <1>3, ZenonT(40) DEF CopyFile
  <2>3. files'[id[p]] = files[id[p]] \cup {f} /\ done'[p] = done[p] \cup {f}
    BY <1>1, <2>1, <2>2
  <2>4. ~ok'[p] /\ (id'[p] \notin removed' => Transferred(p)')
    BY <2>1, <2>3, ZenonT(40) DEF LocalInv, Transferred
  <2> QED BY <2>1, <2>4, ZenonT(40) DEF LocalInv, Reading
<1>4. CASE CopyDone(p)
  <2>1. /\ ppc[p] = "copy" /\ ppc'[p] = "insert" /\ id' = id /\ type' = type
        /\ files' = files /\ removed' = removed
        /\ type[p] # "DIFFERENTIAL" => done[p] = Files
        /\ id[p] \in dirs => id[p] \in dirs'
        /\ id[p] \in Times
    BY <1>1, <1>4 DEF CopyDone, Working
  <2>2. files[id[p]] \subseteq Files
    BY <1>1, <2>1
  <2>3. Trusts(p)' => id[p] \notin removed /\ type[p] # "DIFFERENTIAL"
    BY <2>1 DEF Trusts
  <2>4. Trusts(p)' => Transferred(p) /\ done[p] = Files
    BY <2>1, <2>3, ZenonT(40) DEF LocalInv
  <2>5. Trusts(p)' => id'[p] \in dirs' /\ files'[id'[p]] = Files
    BY <2>1, <2>2, <2>4, FilesAssumption DEF Transferred
  <2> QED BY <2>1, <2>5, ZenonT(40) DEF LocalInv, Reading
<1>5. CASE CopyFails(p)
  <2>1. /\ ppc[p] = "copy" /\ ppc'[p] = "insert" /\ id' = id /\ ok' = ok
        /\ dirs' = dirs /\ removed' = removed
    BY <1>1, <1>5 DEF CopyFails, infoVars, fsVars
  <2>2. ~Trusts(p)'
    BY <2>1, ZenonT(40) DEF LocalInv, Trusts
  <2> QED BY <2>1, <2>2, ZenonT(40) DEF LocalInv, Reading
<1> QED BY <1>2, <1>3, <1>4, <1>5

LEMMA CleanupLocal ==
  ASSUME Typed, NEW p \in Procs, LocalInv(p),
         BeginCleanup(p) \/ CountRows(p) \/ ReadRows(p)
           \/ RmFiles(p) \/ RmDir(p) \/ Delete(p)
  PROVE  LocalInv(p)'
<1>1. CASE Return(p)
  BY <1>1, ReturnLocal
<1>2. CASE ~Return(p) /\ ~RmFiles(p) /\ ~RmDir(p)
  <2>1. ppc'[p] \in {"count", "read", "rm_files"}
    BY <1>2 DEF BeginCleanup, CountRows, ReadRows, Delete, Typed, TypeOK
  <2>2. ppc'[p] \notin {"idle", "copy", "rm_dir", "delete", "transfer", "restored"}
        /\ ppc'[p] \notin {"insert"} \cup Reading
    BY <2>1 DEF Reading
  <2> QED BY <2>2, ZenonT(40) DEF LocalInv
<1>3. CASE RmFiles(p)
  <2>1. ppc'[p] = "rm_dir" /\ id'[p] \in removed'
    BY <1>3 DEF RmFiles, Typed, TypeOK
  <2> QED BY <2>1, ZenonT(40) DEF LocalInv, Reading
<1>4. CASE RmDir(p)
  <2>1. ppc[p] = "rm_dir" /\ ppc'[p] = "delete" /\ id' = id /\ removed' = removed
    BY <1>4 DEF RmDir, Typed, TypeOK, infoVars
  <2> QED BY <2>1, ZenonT(40) DEF LocalInv, Reading
<1> QED BY <1>1, <1>2, <1>3, <1>4

LEMMA UseLocal ==
  ASSUME Typed, RowInv, NEW p \in Procs, LocalInv(p),
         GetInfo(p) \/ Verify(p) \/ Measure(p) \/ Fetch(p) \/ Transfer(p)
  PROVE  LocalInv(p)'
<1>1. CASE GetInfo(p) /\ ppc'[p] # "rejected"
  <2>1. PICK t \in listed : /\ id' = [id EXCEPT ![p] = t]
                            /\ type' = [type EXCEPT ![p] = row[t].type]
                            /\ ok' = [ok EXCEPT ![p] = row[t].success]
    BY <1>1 DEF GetInfo, Typed, TypeOK
  <2>2. id'[p] = t /\ type'[p] = row[t].type /\ ok'[p] = row[t].success
    BY <2>1 DEF Typed, TypeOK
  <2>3. ppc'[p] \in {"stat", "fetch"} /\ dirs' = dirs /\ files' = files /\ removed' = removed
    BY <1>1 DEF GetInfo, Typed, TypeOK, fsVars
  <2>4. Trusts(p)' => id'[p] \in dirs' /\ files'[id'[p]] = Files
    BY <2>2, <2>3, ZenonT(40) DEF Trusts, RowInv
  <2> QED BY <2>3, <2>4, ZenonT(40) DEF LocalInv, Reading
<1>2. CASE GetInfo(p) /\ ppc'[p] = "rejected"
  <2>1. ppc[p] = "idle" /\ ok' = ok
    BY <1>2 DEF GetInfo, Typed, TypeOK
  <2>2. ~Trusts(p)'
    BY <2>1, ZenonT(40) DEF LocalInv, Trusts
  <2> QED BY <1>2, <2>2, ZenonT(40) DEF LocalInv, Reading
<1>3. CASE Verify(p) \/ Measure(p)
  <2>1. /\ ppc[p] \in {"stat", "du"} /\ UNCHANGED <<id, type, ok, done, dirs, files, removed>>
        /\ ppc'[p] \in {"du", "verified", "rejected", "unmeasured"}
        /\ ppc'[p] = "rejected" => id[p] \notin dirs \/ files[id[p]] = {}
    BY <1>3 DEF Verify, Measure, Typed, TypeOK, fsVars, infoVars
  <2>2. Trusts(p)' => Trusts(p)
    BY <2>1, ZenonT(40) DEF Trusts
  <2>3. ppc[p] \in {"insert"} \cup Reading
    BY <2>1, ZenonT(40) DEF Reading
  <2>4. Trusts(p) => id[p] \in dirs /\ files[id[p]] = Files
    BY <2>3, ZenonT(40) DEF LocalInv
  <2>5. Trusts(p)' => id'[p] \in dirs' /\ files'[id'[p]] = Files /\ ppc'[p] # "rejected"
    BY <2>1, <2>2, <2>4, FilesAssumption, ZenonT(40)
  <2>6. ppc'[p] \notin {"idle", "copy", "rm_dir", "delete", "transfer", "restored"}
    BY <2>1, ZenonT(40)
  <2> QED BY <2>5, <2>6, ZenonT(40) DEF LocalInv
<1>4. CASE Fetch(p)
  <2>1. /\ ppc[p] = "fetch" /\ ppc'[p] = "transfer" /\ done'[p] = files[id[p]]
        /\ UNCHANGED <<id, type, ok, dirs, files, removed>>
    BY <1>4 DEF Fetch, Typed, TypeOK, fsVars, infoVars
  <2>2. Trusts(p)' => Trusts(p)
    BY <2>1, ZenonT(40) DEF Trusts
  <2>3. ppc[p] \in {"insert"} \cup Reading
    BY <2>1, ZenonT(40) DEF Reading
  <2>4. Trusts(p) => id[p] \in dirs /\ files[id[p]] = Files
    BY <2>3, ZenonT(40) DEF LocalInv
  <2>5. /\ Trusts(p)' => id'[p] \in dirs' /\ files'[id'[p]] = Files /\ done'[p] = Files
        /\ ppc'[p] \notin {"idle", "copy", "rm_dir", "delete", "rejected"}
    BY <2>1, <2>2, <2>4, ZenonT(40)
  <2> QED BY <2>5, ZenonT(40) DEF LocalInv
<1>5. CASE Transfer(p)
  <2>1. /\ ppc[p] = "transfer" /\ ppc'[p] = "restored"
        /\ UNCHANGED <<id, type, ok, done, dirs, files, removed>>
    BY <1>5 DEF Transfer, Typed, TypeOK, fsVars, infoVars
  <2>2. Trusts(p)' => Trusts(p)
    BY <2>1, ZenonT(40) DEF Trusts
  <2>3. ppc[p] \in {"insert"} \cup Reading /\ ppc[p] \in {"transfer", "restored"}
    BY <2>1, ZenonT(40) DEF Reading
  <2>4. Trusts(p) => id[p] \in dirs /\ files[id[p]] = Files /\ done[p] = Files
    BY <2>3, ZenonT(40) DEF LocalInv
  <2>5. /\ Trusts(p)' => id'[p] \in dirs' /\ files'[id'[p]] = Files /\ done'[p] = Files
        /\ ppc'[p] \notin {"idle", "copy", "rm_dir", "delete", "rejected"}
    BY <2>1, <2>2, <2>4, ZenonT(40)
  <2> QED BY <2>5, ZenonT(40) DEF LocalInv
<1> QED BY <1>1, <1>2, <1>3, <1>4, <1>5

\* A row is added only by a process that has the files, and no row changes.
LEMMA RowsKept ==
  ASSUME Typed, Typed', BackupInv, Kept, NEW p \in Procs, Step(p)
  PROVE  RowInv'
<1> SUFFICES ASSUME NEW t \in listed', t \notin removed'
             PROVE  row'[t].success /\ row'[t].type # "DIFFERENTIAL" =>
                      t \in dirs' /\ files'[t] = Files
  BY DEF RowInv
<1>1. t \in Times /\ files'[t] \subseteq Files /\ t \notin removed
  BY DEF Typed, TypeOK, Kept
<1>2. CASE t \in listed /\ row'[t] = row[t]
  BY <1>1, <1>2, ZenonT(40) DEF BackupInv, RowInv, Kept
<1>3. CASE Insert(p) /\ t = id[p] /\ row'[t] = [type |-> type[p], success |-> ok[p]]
  <2>1. ppc[p] = "insert" /\ dirs' = dirs /\ files' = files
    BY <1>3, ZenonT(40) DEF Insert, fsVars
  <2>2. ok[p] /\ type[p] # "DIFFERENTIAL" => t \in dirs /\ files[t] = Files
    BY <1>1, <1>3, <2>1, ZenonT(40) DEF BackupInv, LocalInv, Trusts
  <2>3. row'[t].success = ok[p] /\ row'[t].type = type[p]
    BY <1>3
  <2> QED BY <2>1, <2>2, <2>3
<1>4. CASE Insert(p) /\ ~(t \in listed /\ row'[t] = row[t])
  BY <1>1, <1>3, <1>4 DEF Insert, Typed, TypeOK, dbVars
<1>5. CASE Delete(p) /\ ~(t \in listed /\ row'[t] = row[t])
  <2>1. \/ listed' = listed \ {id[p]} /\ row' = [row EXCEPT ![id[p]] = NoRow]
        \/ listed' = listed /\ row' = row
    BY <1>5, ZenonT(40) DEF Delete, dbVars
  <2>2. row \in [Times -> [type : Types, success : BOOLEAN]]
    BY DEF Typed, TypeOK
  <2> QED BY <1>1, <1>5, <2>1, <2>2
<1>6. CASE UNCHANGED dbVars
  BY <1>2, <1>6 DEF dbVars
<1> QED BY <1>2, <1>4, <1>5, <1>6, ZenonT(40)
        DEF Step, BeginCreate, StartBackup, CopyFile, CopyDone, CopyFails, BeginCleanup,
            CountRows, ReadRows, RmFiles, RmDir, CleanupEnds, GetInfo, Verify, Measure, Fetch,
            Transfer, Finish, Crash

LEMMA NextBackupInv == Typed /\ Typed' /\ BackupInv /\ [Next]_vars => BackupInv'
<1> SUFFICES ASSUME Typed, Typed', BackupInv, [Next]_vars PROVE BackupInv'
  OBVIOUS
<1>1. ASSUME NEW p \in Procs, Step(p) PROVE BackupInv'
  <2>1. Kept
    BY <1>1, StepKeeps
  <2>2. RowInv'
    BY <1>1, <2>1, RowsKept
  <2>3. LocalInv(p)'
    <3>1. CASE Return(p)
      BY <3>1, ReturnLocal
    <3>2. CASE ~Return(p)
      BY <1>1, <2>1, <3>2, CreateLocal, CleanupLocal, UseLocal, ZenonT(40)
      DEF Step, Insert, CleanupEnds, Finish, Crash, BackupInv
    <3> QED BY <3>1, <3>2
  <2>4. ASSUME NEW q \in Procs, q # p PROVE LocalInv(q)'
    BY <1>1, <2>1, <2>4, StepMovesOne, OthersKeep, ZenonT(40) DEF BackupInv
  <2> QED BY <2>2, <2>3, <2>4 DEF BackupInv
<1>2. CASE Tick \/ UNCHANGED vars
  BY <1>2, ZenonT(40)
     DEF Tick, vars, BackupInv, RowInv, LocalInv, Transferred, Trusts, dbVars, fsVars, infoVars
<1> QED BY <1>1, <1>2 DEF Next

LEMMA BackupInvariant == Spec => []BackupInv
<1>1. Init => BackupInv
  BY DEF Init, BackupInv, RowInv, LocalInv, Trusts, Reading
<1> QED BY <1>1, TypeInvariant, NextBackupInv, PTL DEF Spec

\* A row that says success is a complete backup until a cleanup starts to remove it,
\* whatever other backups of the same second, failures and crashes do (SuccessIsComplete).
THEOREM SuccessMeansComplete == Spec => []SuccessIsComplete
<1>1. BackupInv => SuccessIsComplete
  BY DEF BackupInv, RowInv, SuccessIsComplete
<1> QED BY <1>1, BackupInvariant, PTL

\* backup_verify finds the directory and the files of a backup recorded as complete, unless
\* a cleanup has started to remove it (SoundNeverRejected).
THEOREM VerifyTrustsSuccess == Spec => []SoundNeverRejected
<1>1. BackupInv => SoundNeverRejected
  BY DEF BackupInv, LocalInv, Trusts, Reading, SoundNeverRejected
<1> QED BY <1>1, BackupInvariant, PTL

\* A backup_restore that reports success has restored every file of a backup recorded as
\* complete, unless a cleanup came between.
THEOREM RestoreIsWhole == Spec => []RestoredIsWhole
<1>1. BackupInv => RestoredIsWhole
  BY DEF BackupInv, LocalInv, Trusts, RestoredIsWhole
<1> QED BY <1>1, BackupInvariant, PTL

-----------------------------------------------------------------------------
(* The newest backup survives.                                             *)

\* Whatever a cleanup still has to remove is older than some row, which may change
\* while other processes delete rows.
NewerInv ==
  /\ \A p \in Procs : ppc[p] \in {"count", "read"} => keep[p] \in Keeps
  /\ \A p \in Procs : ppc[p] \in {"rm_dir", "delete"} => id[p] \in todo[p]
  /\ ~torn => \A p \in Procs : \A t \in todo[p] : \E u \in listed : t < u

\* Of what is dropped from a listing, something newer is kept in it.
LEMMA DroppedIsOlder ==
  ASSUME NEW S, S \subseteq Times, NEW n \in Keeps, NEW t \in Dropped(S, n)
  PROVE  \E u \in S : t < u
<1> DEFINE N == {u \in S : u > t}
<1>1. t \in S /\ ~(Cardinality(N) < n)
  BY DEF Dropped, Newest
<1>2. n \in Nat /\ n >= 1
  BY KeepAssumption
<1>3. N # {}
  BY <1>1, <1>2, FS_EmptySet
<1>4. t \in Int /\ \A u \in S : u \in Int
  BY <1>1 DEF Times
<1> QED BY <1>3, <1>4

LEMMA ReadNewer ==
  ASSUME Typed, NewerInv, NEW p \in Procs, ReadRows(p), ~torn'
  PROVE  ~torn /\ \A t \in todo'[p] : \E u \in listed : t < u
<1>1. PICK got \in {Newest(listed, count[p]), {}}, junk \in SUBSET Times :
        /\ Cardinality(junk) + Cardinality(got) <= count[p]
        /\ torn' = (torn \/ Cardinality(got) < count[p])
        /\ todo' = [todo EXCEPT ![p] = Dropped(got, keep[p]) \cup junk]
  BY ZenonT(40) DEF ReadRows
<1>2. ~torn /\ ~(Cardinality(got) < count[p])
  BY <1>1, ZenonT(40)
<1>3. got \subseteq listed /\ got \subseteq Times /\ junk \subseteq Times
  BY ZenonT(40) DEF Newest, Typed, TypeOK
<1>4. /\ Cardinality(got) \in Nat /\ IsFiniteSet(junk) /\ Cardinality(junk) \in Nat
      /\ count[p] \in Nat
  BY <1>3, CountFacts DEF Typed, TypeOK
<1>5. junk = {}
  BY <1>1, <1>2, <1>4, FS_EmptySet
<1>6. keep[p] \in Keeps
  BY DEF ReadRows, NewerInv
<1>7. todo'[p] = Dropped(got, keep[p])
  BY <1>1, <1>5 DEF Typed, TypeOK
<1> QED BY <1>2, <1>3, <1>6, <1>7, DroppedIsOlder

\* A row that goes is older than one that stays.
LEMMA DeleteKeepsNewer ==
  ASSUME Typed, NewerInv, NEW p \in Procs, Delete(p), ~torn, NEW t \in Int, NEW u \in listed,
         t <= u
  PROVE  \E v \in listed' : t <= v /\ u <= v
<1>1. PICK v \in listed : id[p] < v
  BY DEF Delete, NewerInv
<1>2. id[p] \in Int /\ u \in Int /\ v \in Int
  BY DEF Delete, Typed, TypeOK, Working, Times
<1>3. v # id[p]
  BY <1>1, <1>2
<1>4. CASE u = id[p]
  BY <1>1, <1>2, <1>3, <1>4 DEF Delete, dbVars
<1>5. CASE u # id[p]
  BY <1>2, <1>5 DEF Delete, dbVars
<1> QED BY <1>4, <1>5

LEMMA NextNewerInv == Typed /\ NewerInv /\ [Next]_vars => NewerInv'
<1> SUFFICES ASSUME Typed, NewerInv, [Next]_vars PROVE NewerInv'
  OBVIOUS
<1>1. ASSUME NEW p \in Procs, Delete(p) PROVE NewerInv'
  <2>1. /\ ppc' = [ppc EXCEPT ![p] = "rm_files"] /\ id' = [id EXCEPT ![p] = None]
        /\ todo' = [todo EXCEPT ![p] = @ \ {id[p]}] /\ torn' = torn /\ keep' = keep
    BY <1>1 DEF Delete
  <2>2. /\ \A q \in Procs : ppc'[q] \in {"count", "read"} => keep'[q] \in Keeps
        /\ \A q \in Procs : ppc'[q] \in {"rm_dir", "delete"} => id'[q] \in todo'[q]
    BY <2>1 DEF Typed, TypeOK, NewerInv
  <2>3. ASSUME ~torn', NEW q \in Procs, NEW t \in todo'[q] PROVE \E v \in listed' : t < v
    <3>1. t \in todo[q]
      BY <2>1 DEF Typed, TypeOK
    <3>2. PICK u \in listed : t < u
      BY <2>1, <2>3, <3>1 DEF NewerInv
    <3>3. t \in Int /\ u \in Int /\ \A v \in listed' : v \in Int
      <4>1. todo[q] \subseteq Times /\ listed \subseteq Times
        BY DEF Typed, TypeOK
      <4>2. listed' \subseteq Times
        BY <1>1, <4>1 DEF Delete, dbVars
      <4> QED BY <3>1, <4>1, <4>2 DEF Times
    <3>4. PICK v \in listed' : u <= v
      <4>1. ~torn /\ u <= u
        BY <2>1, <2>3, <3>3
      <4> QED BY <1>1, <3>3, <4>1, DeleteKeepsNewer
    <3> QED BY <3>2, <3>3, <3>4
  <2> QED BY <2>2, <2>3 DEF NewerInv
<1>2. ASSUME NEW p \in Procs, ReadRows(p) PROVE NewerInv'
  <2>1. ppc' = [ppc EXCEPT ![p] = "rm_files"] /\ UNCHANGED <<id, keep, listed>>
        /\ \A q \in Procs : q # p => todo'[q] = todo[q]
    BY <1>2 DEF ReadRows, dbVars, infoVars, Typed, TypeOK
  <2>2. ~torn' => ~torn /\ \A t \in todo'[p] : \E u \in listed : t < u
    BY <1>2, ReadNewer
  <2> QED BY <2>1, <2>2 DEF Typed, TypeOK, NewerInv
<1>3. ASSUME NEW p \in Procs, Return(p), listed \subseteq listed', torn' = torn PROVE NewerInv'
  BY <1>3 DEF Return, Typed, TypeOK, NewerInv
<1>4. ASSUME NEW p \in Procs, CountRows(p), ~Return(p) PROVE NewerInv'
  <2>1. /\ ppc[p] = "count" /\ ppc' = [ppc EXCEPT ![p] = "read"]
        /\ UNCHANGED <<id, keep, todo, listed, torn>>
    BY <1>4 DEF CountRows, dbVars, infoVars
  <2> QED BY <2>1 DEF Typed, TypeOK, NewerInv
<1>5. ASSUME NEW p \in Procs, BeginCleanup(p) PROVE NewerInv'
  BY <1>5 DEF BeginCleanup, dbVars, infoVars, Typed, TypeOK, NewerInv
<1>6. ASSUME NEW p \in Procs, RmFiles(p) PROVE NewerInv'
  BY <1>6 DEF RmFiles, dbVars, cleanVars, Typed, TypeOK, NewerInv
<1>7. ASSUME NEW p \in Procs, RmDir(p) PROVE NewerInv'
  BY <1>7 DEF RmDir, dbVars, infoVars, cleanVars, Typed, TypeOK, NewerInv
<1>8. ASSUME NEW p \in Procs,
             BeginCreate(p) \/ CopyFile(p) \/ CopyDone(p) \/ CopyFails(p)
               \/ GetInfo(p) \/ Verify(p) \/ Measure(p) \/ Fetch(p) \/ Transfer(p)
      PROVE  NewerInv'
  <2>1. /\ UNCHANGED <<keep, todo, listed, torn>>
        /\ \A q \in Procs : ppc'[q] \in {"count", "read", "rm_dir", "delete"} =>
             ppc'[q] = ppc[q] /\ id'[q] = id[q]
    BY <1>8, ZenonT(40)
       DEF BeginCreate, StartBackup, CopyFile, CopyDone, CopyFails, GetInfo, Verify,
           Measure, Fetch, Transfer, dbVars, infoVars, cleanVars, Typed, TypeOK
  <2> QED BY <2>1 DEF NewerInv
<1>9. CASE Tick \/ UNCHANGED vars
  BY <1>9 DEF Tick, vars, NewerInv, dbVars, infoVars, cleanVars
<1>10. ASSUME NEW p \in Procs, Insert(p) \/ CleanupEnds(p) \/ Finish(p) \/ Crash(p)
                                 \/ (CountRows(p) /\ Return(p))
       PROVE  NewerInv'
  BY <1>3, <1>10, ZenonT(40) DEF Insert, CleanupEnds, Finish, Crash, CountRows, dbVars
<1> QED BY <1>1, <1>2, <1>4, <1>5, <1>6, <1>7, <1>8, <1>9, <1>10 DEF Next, Step

LEMMA NewerStep == Typed /\ NewerInv /\ [Next]_vars => [KeepStep]_vars
<1> SUFFICES ASSUME Typed, NewerInv, [Next]_vars PROVE KeepStep
  OBVIOUS
<1>1. \A t \in listed : t \in Int
  BY DEF Typed, TypeOK, Times
<1>2. CASE \E p \in Procs : Delete(p)
  BY <1>1, <1>2, DeleteKeepsNewer DEF KeepStep
<1>3. CASE listed \subseteq listed'
  BY <1>1, <1>3 DEF KeepStep
<1> QED BY <1>2, <1>3, ZenonT(40)
        DEF Next, Step, Tick, vars, BeginCreate, StartBackup, CopyFile, CopyDone, CopyFails,
            Insert, BeginCleanup, CountRows, ReadRows, RmFiles, RmDir, CleanupEnds,
            GetInfo, Verify, Measure, Fetch, Transfer, Finish, Crash, dbVars

\* However many cleanups and backups run at once, a step of theirs leaves a row that is
\* as new as any it takes, unless a listing was torn (NewestSurvives).
THEOREM LatestIsKept == Spec => NewestSurvives
<1>1. Init => NewerInv
  BY DEF Init, NewerInv
<1> QED BY <1>1, TypeInvariant, NextNewerInv, NewerStep, PTL DEF Spec, NewestSurvives

=============================================================================
