------------------------- MODULE StorageCalls_proofs -------------------------
(***************************************************************************)
(* Proofs about StorageCalls, for any number of processes, disks, volumes  *)
(* and seconds: the types, that what the calls make is given back, what a  *)
(* snapshot backup reads, that a profile does not undo itself, and what    *)
(* becomes of audit entries.                                               *)
(*                                                                         *)
(* What a command does depends on its target, so all of it rests on a type *)
(* for the scripts (Steps): every step a process has left is a command     *)
(* with a target it can have.                                              *)
(***************************************************************************)
EXTENDS StorageCalls, TLAPS

\* Most leaves are plain logic about functions and sets and go to Zenon; the ones with
\* arithmetic, sequences or tuples name SMT.
USE ZenonT(40)

DiskCommands ==
  {"mkfs", "mount", "umount", "is_mounted", "fsck_n", "fsck", "resize2fs", "xfs_growfs",
   "pvcreate", "pv_info", "pvremove", "vgcreate", "vgextend", "zero_superblock",
   "md_add", "md_fail", "md_remove", "luksFormat", "luksOpen", "luksClose",
   "luksChangeKey"}
GroupCommands ==
  {"vgremove", "lvcreate", "lvextend", "lvremove", "lvcreate_s", "lvconvert", "md_stop"}
ProcCommands == {"mkstemp", "mkstemp_two", "fopen_a", "write_a"}
FileCommands ==
  {"unlink", "check_low", "dd", "mkswap", "swapon", "swapoff", "write_test", "cp", "read_test"}

\* The steps of all the calls but backup_create_with_snapshot.
PlainSteps ==
  (DiskCommands \X Disks) \cup ({"md_create"} \X SUBSET Disks)
    \cup (GroupCommands \X {"vg", "md"}) \cup (ProcCommands \X Procs)
    \cup ({"mkdir"} \X {MountDir(d) : d \in Disks}) \cup (FileCommands \X FileNames)
    \cup {Setter(w, k) : w \in Workloads, k \in Settings}
    \cup ({"setflags", "getflags", "clearflags"} \X SUBSET Flags)
    \cup ({"truncate"} \X {"log"})

BackupSteps ==
  ({"snapshot", "remove_snapshot"} \X (Volumes \X Times))
    \cup ({"mount_snapshot", "copy"} \X (Volumes \X Times \X Times))
    \cup ({"umount_snapshot"} \X Times) \cup ({"rmdir"} \X {MountPoint(t) : t \in Times})

Steps == PlainSteps \cup BackupSteps

\* The steps that audit_log turns to when it cannot append.
Fallback == {"fopen_w", "write_w"} \X Procs

\* The inductive invariant of the scripts.  The fallback of audit_log is on the
\* way only when an fopen with "a" has failed.
TodoInv ==
  /\ now \in Times
  /\ started \subseteq Procs
  /\ todo \in [Procs -> Seq(Steps \cup Fallback)]
  /\ cleared \/ todo \in [Procs -> Seq(Steps)]
  /\ \A p \in Procs : p \notin started => todo[p] = << >>

-----------------------------------------------------------------------------
(* The scripts are made of steps *)

\* A command with a target it can have is a step.
LEMMA StepTypes ==
  /\ \A c \in DiskCommands, d \in Disks : <<c, d>> \in PlainSteps
  /\ \A D \in SUBSET Disks : <<"md_create", D>> \in PlainSteps
  /\ \A c \in GroupCommands, g \in {"vg", "md"} : <<c, g>> \in PlainSteps
  /\ \A c \in ProcCommands, p \in Procs : <<c, p>> \in PlainSteps
  /\ \A d \in Disks : <<"mkdir", MountDir(d)>> \in PlainSteps
  /\ \A c \in FileCommands, f \in FileNames : <<c, f>> \in PlainSteps
  /\ \A t \in Times : <<"rmdir", MountPoint(t)>> \in Steps
  /\ \A c \in {"snapshot", "remove_snapshot"}, v \in Volumes, t \in Times :
       <<c, <<v, t>> >> \in Steps
  /\ \A c \in {"mount_snapshot", "copy"}, v \in Volumes, t, u \in Times :
       <<c, <<v, t, u>> >> \in Steps
  /\ \A u \in Times : <<"umount_snapshot", u>> \in Steps
  /\ \A w \in Workloads, k \in Settings : Setter(w, k) \in PlainSteps
  /\ \A c \in {"setflags", "getflags", "clearflags"}, F \in SUBSET Flags : <<c, F>> \in PlainSteps
  /\ <<"truncate", "log">> \in PlainSteps
<1>1. \A c \in DiskCommands, d \in Disks : <<c, d>> \in PlainSteps
  BY SMT DEF PlainSteps
<1>2. \A D \in SUBSET Disks : <<"md_create", D>> \in PlainSteps
  BY SMT DEF PlainSteps
<1>3. \A c \in GroupCommands, g \in {"vg", "md"} : <<c, g>> \in PlainSteps
  BY SMT DEF PlainSteps
<1>4. \A c \in ProcCommands, p \in Procs : <<c, p>> \in PlainSteps
  BY SMT DEF PlainSteps
<1>5. \A d \in Disks : <<"mkdir", MountDir(d)>> \in PlainSteps
  BY SMT DEF PlainSteps
<1>6. \A c \in FileCommands, f \in FileNames : <<c, f>> \in PlainSteps
  BY SMT DEF PlainSteps
<1>7. \A t \in Times : <<"rmdir", MountPoint(t)>> \in Steps
  BY DEF Steps, BackupSteps
<1>8. \A c \in {"snapshot", "remove_snapshot"}, v \in Volumes, t \in Times :
        <<c, <<v, t>> >> \in Steps
  BY DEF Steps, BackupSteps
<1>9. \A c \in {"mount_snapshot", "copy"}, v \in Volumes, t, u \in Times :
        <<c, <<v, t, u>> >> \in Steps
  BY DEF Steps, BackupSteps
<1>10. \A u \in Times : <<"umount_snapshot", u>> \in Steps
  BY DEF Steps, BackupSteps
<1>11. \A w \in Workloads, k \in Settings : Setter(w, k) \in PlainSteps
  BY SMT DEF PlainSteps
<1>12. \A c \in {"setflags", "getflags", "clearflags"}, F \in SUBSET Flags : <<c, F>> \in PlainSteps
  BY SMT DEF PlainSteps
<1>13. <<"truncate", "log">> \in PlainSteps
  BY SMT DEF PlainSteps
<1> QED BY <1>1, <1>2, <1>3, <1>4, <1>5, <1>6, <1>7, <1>8, <1>9, <1>10, <1>11, <1>12, <1>13

\* The files the calls name are the ones FileNames lists.
LEMMA NamedFiles ==
  /\ SwapFile \in FileNames /\ WriteTest \in FileNames /\ ReadTest \in FileNames
  /\ \A p \in Procs : {PassFile(p), OldFile(p), NewFile(p)} \subseteq FileNames
  /\ \A t \in Times : MountPoint(t) \in FileNames
  /\ \A d \in Disks : MountDir(d) \in FileNames
<1>1. SwapFile \in FileNames /\ WriteTest \in FileNames /\ ReadTest \in FileNames
  BY DEF FileNames
<1>2. \A p \in Procs : {PassFile(p), OldFile(p), NewFile(p)} \subseteq FileNames
  BY DEF FileNames
<1>3. \A t \in Times : MountPoint(t) \in FileNames
  <2> TAKE t \in Times
  <2>1. MountPoint(t) \in {MountPoint(u) : u \in Times}
    OBVIOUS
  <2> QED BY <2>1 DEF FileNames
<1>4. \A d \in Disks : MountDir(d) \in FileNames
  <2> TAKE d \in Disks
  <2>1. MountDir(d) \in {MountDir(e) : e \in Disks}
    OBVIOUS
  <2> QED BY <2>1 DEF FileNames
<1> QED BY <1>1, <1>2, <1>3, <1>4

\* What a process calls is a sequence of steps: the functions on devices.
LEMMA DeviceScripts ==
  ASSUME NEW p \in Procs, NEW d \in Disks
  PROVE  /\ fs_create(d) \in Seq(PlainSteps)
         /\ fs_create_ext4_advanced(d) \in Seq(PlainSteps)
         /\ fs_create_xfs_advanced(d) \in Seq(PlainSteps)
         /\ fs_mount(d) \in Seq(PlainSteps)
         /\ fs_unmount(d) \in Seq(PlainSteps)
         /\ fs_check(d) \in Seq(PlainSteps)
         /\ fs_repair(d) \in Seq(PlainSteps)
         /\ fs_resize(d) \in Seq(PlainSteps)
         /\ fs_resize_xfs_online(d) \in Seq(PlainSteps)
         /\ lvm_pv_create(d) \in Seq(PlainSteps)
         /\ lvm_pv_remove(d) \in Seq(PlainSteps)
         /\ lvm_vg_create(d) \in Seq(PlainSteps)
         /\ lvm_vg_extend(d) \in Seq(PlainSteps)
         /\ raid_add_disk(d) \in Seq(PlainSteps)
         /\ raid_fail_disk(d) \in Seq(PlainSteps)
         /\ raid_remove_disk(d) \in Seq(PlainSteps)
         /\ luks_format_advanced(p, d) \in Seq(PlainSteps)
         /\ luks_open(p, d) \in Seq(PlainSteps)
         /\ luks_close(d) \in Seq(PlainSteps)
         /\ luks_change_password(p, d) \in Seq(PlainSteps)
         /\ \A e \in Disks : raid_create(d, e) \in Seq(PlainSteps)
<1>1. \A c \in DiskCommands : <<c, d>> \in PlainSteps
  BY StepTypes
<1>2. \A c \in ProcCommands : <<c, p>> \in PlainSteps
  BY StepTypes
<1>3. \A f \in {PassFile(p), OldFile(p), NewFile(p)} : <<"unlink", f>> \in PlainSteps
  BY StepTypes, NamedFiles DEF FileCommands
<1>4. <<"mkdir", MountDir(d)>> \in PlainSteps
  BY StepTypes
<1>5. /\ fs_create(d) \in Seq(PlainSteps)
      /\ fs_create_ext4_advanced(d) \in Seq(PlainSteps)
      /\ fs_create_xfs_advanced(d) \in Seq(PlainSteps)
      /\ fs_mount(d) \in Seq(PlainSteps)
      /\ fs_unmount(d) \in Seq(PlainSteps)
      /\ fs_check(d) \in Seq(PlainSteps)
      /\ fs_repair(d) \in Seq(PlainSteps)
      /\ fs_resize(d) \in Seq(PlainSteps)
      /\ fs_resize_xfs_online(d) \in Seq(PlainSteps)
  BY <1>1, <1>4, SMT DEF DiskCommands, fs_create, fs_create_ext4_advanced, fs_create_xfs_advanced,
     fs_mount, fs_unmount, fs_check, fs_repair, fs_resize, fs_resize_xfs_online
<1>6. /\ lvm_pv_create(d) \in Seq(PlainSteps)
      /\ lvm_pv_remove(d) \in Seq(PlainSteps)
      /\ lvm_vg_create(d) \in Seq(PlainSteps)
      /\ lvm_vg_extend(d) \in Seq(PlainSteps)
      /\ raid_add_disk(d) \in Seq(PlainSteps)
      /\ raid_fail_disk(d) \in Seq(PlainSteps)
      /\ raid_remove_disk(d) \in Seq(PlainSteps)
      /\ luks_close(d) \in Seq(PlainSteps)
  BY <1>1, SMT DEF DiskCommands, lvm_pv_create, lvm_pv_remove, lvm_vg_create, lvm_vg_extend,
     raid_add_disk, raid_fail_disk, raid_remove_disk, luks_close
<1>7. /\ luks_format_advanced(p, d) \in Seq(PlainSteps)
      /\ luks_open(p, d) \in Seq(PlainSteps)
      /\ luks_change_password(p, d) \in Seq(PlainSteps)
  BY <1>1, <1>2, <1>3, SMT DEF DiskCommands, ProcCommands, luks_format_advanced, luks_open,
     luks_change_password
<1>8. \A e \in Disks : raid_create(d, e) \in Seq(PlainSteps)
  <2> TAKE e \in Disks
  <2>1. <<"zero_superblock", d>> \in PlainSteps /\ <<"zero_superblock", e>> \in PlainSteps
    BY StepTypes DEF DiskCommands
  <2>2. <<"md_create", {d, e}>> \in PlainSteps
    BY StepTypes
  <2> QED BY <2>1, <2>2, SMT DEF raid_create
<1> QED BY <1>5, <1>6, <1>7, <1>8

\* The functions on snapshots, swap, kernel settings, attributes and the log.
LEMMA OtherScripts ==
  /\ \A v \in Volumes, t, u \in Times : backup_create_with_snapshot(v, t, u) \in Seq(Steps)
  /\ \A w \in Workloads : perf_apply_profile(w) \in Seq(PlainSteps) /\ cmd_perf_tune(w) \in Seq(PlainSteps)
  /\ \A F \in SUBSET Flags : attr_set(F) \in Seq(PlainSteps) /\ attr_unset(F) \in Seq(PlainSteps)
  /\ \A p \in Procs : audit_log(p) \in Seq(PlainSteps)
<1>1. ASSUME NEW v \in Volumes, NEW t \in Times, NEW u \in Times
      PROVE  backup_create_with_snapshot(v, t, u) \in Seq(Steps)
  <2>1. /\ <<"snapshot", <<v, t>> >> \in Steps
        /\ <<"remove_snapshot", <<v, t>> >> \in Steps
    BY StepTypes
  <2>2. /\ <<"mount_snapshot", <<v, t, u>> >> \in Steps
        /\ <<"copy", <<v, t, u>> >> \in Steps
    BY StepTypes
  <2>3. <<"umount_snapshot", u>> \in Steps /\ <<"rmdir", MountPoint(u)>> \in Steps
    BY StepTypes
  <2> QED BY <2>1, <2>2, <2>3, SMT DEF backup_create_with_snapshot
<1>2. ASSUME NEW w \in Workloads
      PROVE  perf_apply_profile(w) \in Seq(PlainSteps) /\ cmd_perf_tune(w) \in Seq(PlainSteps)
  <2>1. \A k \in Settings : Setter(w, k) \in PlainSteps
    BY StepTypes
  <2> QED BY <2>1, SMT DEF Settings, perf_apply_profile, cmd_perf_tune
<1>3. ASSUME NEW F \in SUBSET Flags
      PROVE  attr_set(F) \in Seq(PlainSteps) /\ attr_unset(F) \in Seq(PlainSteps)
  <2>1. \A c \in {"setflags", "getflags", "clearflags"} : <<c, F>> \in PlainSteps
    BY StepTypes
  <2> QED BY <2>1, SMT DEF attr_set, attr_unset
<1>4. ASSUME NEW p \in Procs PROVE audit_log(p) \in Seq(PlainSteps)
  <2>1. \A c \in ProcCommands : <<c, p>> \in PlainSteps
    BY StepTypes
  <2> QED BY <2>1, SMT DEF ProcCommands, audit_log
<1> QED BY <1>1, <1>2, <1>3, <1>4

\* The functions without an argument.
LEMMA PlainScripts ==
  /\ lvm_vg_remove \in Seq(PlainSteps) /\ lvm_lv_create \in Seq(PlainSteps)
  /\ lvm_lv_extend \in Seq(PlainSteps) /\ lvm_lv_remove \in Seq(PlainSteps)
  /\ lvm_snapshot_create \in Seq(PlainSteps) /\ lvm_snapshot_merge \in Seq(PlainSteps)
  /\ raid_stop \in Seq(PlainSteps) /\ memory_auto_swap \in Seq(PlainSteps)
  /\ swap_disable \in Seq(PlainSteps) /\ swap_remove_file \in Seq(PlainSteps)
  /\ perf_benchmark \in Seq(PlainSteps) /\ audit_clear_log \in Seq(PlainSteps)
<1>1. \A c \in GroupCommands, g \in {"vg", "md"} : <<c, g>> \in PlainSteps
  BY StepTypes
<1>2. \A c \in FileCommands, f \in {SwapFile, WriteTest, ReadTest} : <<c, f>> \in PlainSteps
  BY StepTypes, NamedFiles
<1>3. <<"truncate", "log">> \in PlainSteps
  BY StepTypes
<1>4. /\ lvm_vg_remove \in Seq(PlainSteps) /\ lvm_lv_create \in Seq(PlainSteps)
      /\ lvm_lv_extend \in Seq(PlainSteps) /\ lvm_lv_remove \in Seq(PlainSteps)
      /\ lvm_snapshot_create \in Seq(PlainSteps) /\ lvm_snapshot_merge \in Seq(PlainSteps)
      /\ raid_stop \in Seq(PlainSteps)
  BY <1>1, SMT DEF GroupCommands, lvm_vg_remove, lvm_lv_create, lvm_lv_extend, lvm_lv_remove,
     lvm_snapshot_create, lvm_snapshot_merge, raid_stop
<1>5. /\ memory_auto_swap \in Seq(PlainSteps) /\ swap_disable \in Seq(PlainSteps)
      /\ swap_remove_file \in Seq(PlainSteps) /\ perf_benchmark \in Seq(PlainSteps)
  BY <1>2, SMT DEF FileCommands, memory_auto_swap, swap_disable, swap_remove_file, perf_benchmark
<1> QED BY <1>3, <1>4, <1>5, SMT DEF audit_clear_log

\* What a call runs when a step fails is made of steps too, and of the fallback
\* only after an fopen with "a".
LEMMA RollbackScripts ==
  ASSUME NEW s \in Steps \cup Fallback
  PROVE  /\ Rollback(s) \in Seq(Steps \cup Fallback)
         /\ s[1] # "fopen_a" => Rollback(s) \in Seq(Steps)
<1>1. CASE s[1] = "mount_snapshot"
  <2>1. s[2][1] \in Volumes /\ s[2][2] \in Times
    BY <1>1, SMT DEF Steps, PlainSteps, BackupSteps, DiskCommands, GroupCommands,
       ProcCommands, FileCommands, Setter, Fallback
  <2>2. <<"remove_snapshot", <<s[2][1], s[2][2]>> >> \in Steps
    BY <2>1, StepTypes
  <2> QED BY <1>1, <2>2, SMT DEF Rollback
<1>2. CASE s[1] \in {"mkswap", "swapon"}
  <2>1. <<"unlink", SwapFile>> \in Steps
    BY StepTypes, NamedFiles DEF FileCommands, Steps
  <2>2. Rollback(s) = << <<"unlink", SwapFile>> >>
    BY <1>2 DEF Rollback
  <2> QED BY <1>2, <2>1, <2>2, SMT
<1>3. CASE s[1] = "fopen_a"
  <2>1. s[2] \in Procs
    BY <1>3, SMT DEF Steps, PlainSteps, BackupSteps, DiskCommands, GroupCommands,
       ProcCommands, FileCommands, Setter, Fallback
  <2>2. <<"fopen_w", s[2]>> \in Fallback /\ <<"write_w", s[2]>> \in Fallback
    BY <2>1 DEF Fallback
  <2> QED BY <1>3, <2>2, SMT DEF Rollback
<1> QED BY <1>1, <1>2, <1>3, SMT DEF Rollback

-----------------------------------------------------------------------------
(* What each kind of step leaves alone *)

Advance(p) ==
  /\ todo[p] # << >>
  /\ todo' = [todo EXCEPT ![p] = Tail(@)]
  /\ UNCHANGED <<area, started>>

\* A command on devices changes nothing but devices.
LEMMA DeviceFrame ==
  ASSUME NEW p, DeviceCommand(p)
  PROVE  Advance(p) /\ UNCHANGED <<snapVars, fileVars, tuneVars, secVars, left>>
<1> USE DEF Advance, Does, OnDevices
<1>1. CASE Mkfs(p) \/ Mount(p) \/ Umount(p) \/ IsMounted(p) \/ FsckReadOnly(p) \/ Fsck(p)
         \/ Resize(p) \/ XfsGrow(p)
  BY <1>1 DEF Mkfs, Mount, Umount, IsMounted, FsckReadOnly, Fsck, Resize, XfsGrow
<1>2. CASE Pvcreate(p) \/ PvInfo(p) \/ Pvremove(p) \/ Vgcreate(p) \/ Vgextend(p) \/ Vgremove(p)
  BY <1>2 DEF Pvcreate, PvInfo, Pvremove, Vgcreate, Vgextend, JoinGroup, Vgremove
<1>3. CASE Lvcreate(p) \/ Lvextend(p) \/ Lvremove(p) \/ LvcreateSnapshot(p) \/ Lvconvert(p)
  BY <1>3 DEF Lvcreate, Lvextend, Lvremove, LvcreateSnapshot, Lvconvert
<1>4. CASE ZeroSuperblock(p) \/ MdCreate(p) \/ MdAdd(p) \/ MdFail(p) \/ MdRemove(p) \/ MdStop(p)
  BY <1>4 DEF ZeroSuperblock, MdCreate, MdAdd, MdFail, MdRemove, MdStop
<1>5. CASE LuksFormat(p) \/ LuksOpen(p) \/ LuksClose(p) \/ LuksChangeKey(p)
  BY <1>5 DEF LuksFormat, LuksOpen, LuksClose, LuksChangeKey
<1> QED BY <1>1, <1>2, <1>3, <1>4, <1>5 DEF DeviceCommand

\* A command on snapshots changes neither devices nor the swap file.
LEMMA SnapshotFrame ==
  ASSUME NEW p, SnapshotCommand(p)
  PROVE  Advance(p) /\ UNCHANGED <<devVars, now, swap, tuneVars, secVars>>
BY DEF Advance, Does, SnapshotCommand, Snapshot, MountSnapshot, Copy, UmountSnapshot,
   RemoveSnapshot, Rmdir, snapVars, fileVars

\* A command on files changes neither devices nor snapshots.
LEMMA FileFrame ==
  ASSUME NEW p, FileCommand(p)
  PROVE  Advance(p) /\ UNCHANGED <<devVars, snapVars, tuneVars, secVars>>
BY DEF Advance, Does, OnFiles, FileCommand, Mkdir, CheckLow, Dd, Mkswap, Swapon, Swapoff,
   Unlink, Mkstemp, MkstempTwo, WriteTestFile, Cp, ReadTestFile

\* A setter changes only kernel settings.
LEMMA SetFrame ==
  ASSUME NEW p, Set(p)
  PROVE  Advance(p) /\ UNCHANGED <<devVars, snapVars, fileVars, secVars, left>>
BY DEF Advance, Does, Set

\* The steps of attr_set, attr_unset and audit_log change nothing else.
LEMMA SecurityFrame ==
  ASSUME NEW p, SecurityCommand(p)
  PROVE  Advance(p) /\ UNCHANGED <<devVars, snapVars, fileVars, tuneVars, left>>
BY DEF Advance, Does, OnSecurity, SecurityCommand, SetFlags, GetFlags, ClearFlags, FopenA,
   FopenW, WriteA, WriteW, Truncate

\* All the calls but backup_create_with_snapshot have plain scripts.
LEMMA PlainCall ==
  ASSUME NEW p \in Procs, CallDevice(p) \/ CallMemory(p) \/ CallPerf(p) \/ CallSecurity(p)
  PROVE  \E s \in Seq(PlainSteps) : Start(p, s)
<1>1. CASE CallDevice(p)
  <2>1. \/ \E d \in Disks :
             \/ Start(p, fs_create(d))
             \/ Start(p, fs_create_ext4_advanced(d))
             \/ Start(p, fs_create_xfs_advanced(d))
             \/ Start(p, fs_mount(d))
             \/ Start(p, fs_unmount(d))
             \/ Start(p, fs_check(d))
             \/ Start(p, fs_repair(d))
             \/ Start(p, fs_resize(d))
             \/ Start(p, fs_resize_xfs_online(d))
             \/ Start(p, lvm_pv_create(d))
             \/ Start(p, lvm_pv_remove(d))
             \/ Start(p, lvm_vg_create(d))
             \/ Start(p, lvm_vg_extend(d))
             \/ Start(p, raid_add_disk(d))
             \/ Start(p, raid_fail_disk(d))
             \/ Start(p, raid_remove_disk(d))
             \/ Start(p, luks_format_advanced(p, d))
             \/ Start(p, luks_open(p, d))
             \/ Start(p, luks_close(d))
             \/ Start(p, luks_change_password(p, d))
             \/ \E e \in Disks : Start(p, raid_create(d, e))
        \/ Start(p, lvm_vg_remove) \/ Start(p, lvm_lv_create) \/ Start(p, lvm_lv_extend)
        \/ Start(p, lvm_lv_remove) \/ Start(p, lvm_snapshot_create)
        \/ Start(p, lvm_snapshot_merge) \/ Start(p, raid_stop)
    BY <1>1 DEF CallDevice
  <2> QED BY <2>1, DeviceScripts, PlainScripts
<1>2. CASE CallMemory(p)
  BY <1>2, PlainScripts DEF CallMemory
<1>3. CASE CallPerf(p)
  BY <1>3, OtherScripts, PlainScripts DEF CallPerf
<1>4. CASE CallSecurity(p)
  <2>1. PICK F \in SUBSET Flags :
          \/ Start(p, attr_set(F)) \/ Start(p, attr_unset(F))
          \/ Start(p, audit_log(p)) \/ Start(p, audit_clear_log)
    BY <1>4 DEF CallSecurity
  <2> QED BY <2>1, OtherScripts, PlainScripts
<1> QED BY <1>1, <1>2, <1>3, <1>4

\* Before a process makes its call it has nothing to do; the call is a script.
LEMMA CallFrame ==
  ASSUME now \in Times, NEW p \in Procs, Call(p)
  PROVE  /\ p \notin started /\ started' = started \cup {p}
         /\ \E s \in Seq(Steps) : todo' = [todo EXCEPT ![p] = s]
         /\ UNCHANGED <<devVars, snapVars, fileVars, secVars, left>>
<1>1. PICK s \in Seq(Steps) : Start(p, s)
  <2>1. CASE CallBackup(p)
    <3>1. PICK v \in Volumes, u \in Times : Start(p, backup_create_with_snapshot(v, now, u))
      BY <2>1 DEF CallBackup
    <3> QED BY <3>1, OtherScripts
  <2>2. CASE ~CallBackup(p)
    <3>1. PICK s \in Seq(PlainSteps) : Start(p, s)
      BY <2>2, PlainCall DEF Call
    <3>2. s \in Seq(Steps)
      BY SMT DEF Steps
    <3> QED BY <3>1, <3>2
  <2> QED BY <2>1, <2>2
<1>2. UNCHANGED <<devVars, snapVars, fileVars, secVars, left>>
  BY DEF Call, CallDevice, CallBackup, CallMemory, CallPerf, CallSecurity
<1> QED BY <1>1, <1>2 DEF Start

\* The scripts stay well formed whatever is called, succeeds, fails or is killed.
LEMMA NextTodoInv ==
  ASSUME TodoInv, Next
  PROVE  TodoInv'
<1> USE DEF TodoInv
<1>1. ASSUME NEW p \in Procs, Advance(p), UNCHANGED now, cleared => cleared'
      PROVE  TodoInv'
  <2>1. Tail(todo[p]) \in Seq(Steps \cup Fallback)
    BY <1>1, SMT DEF Advance
  <2>2. cleared \/ Tail(todo[p]) \in Seq(Steps)
    BY <1>1, SMT DEF Advance
  <2> QED BY <1>1, <2>1, <2>2 DEF Advance
<1>2. ASSUME NEW p \in Procs, Call(p) PROVE TodoInv'
  <2>1. PICK s \in Seq(Steps) : todo' = [todo EXCEPT ![p] = s]
    BY <1>2, CallFrame
  <2>2. s \in Seq(Steps \cup Fallback)
    BY SMT
  <2>3. /\ p \notin started /\ started' = started \cup {p}
        /\ now' = now /\ cleared' = cleared
    BY <1>2, CallFrame DEF snapVars, secVars, auditVars
  <2> QED BY <2>1, <2>2, <2>3
<1>3. ASSUME NEW p \in Procs, Fail(p) PROVE TodoInv'
  <2> DEFINE s == Head(todo[p])
  <2>1. s \in Steps \cup Fallback /\ (cleared \/ s \in Steps)
    BY <1>3, SMT DEF Fail
  <2>2. /\ Tail(todo[p]) \in Seq(Steps \cup Fallback)
        /\ cleared \/ Tail(todo[p]) \in Seq(Steps)
    BY <1>3, SMT DEF Fail
  <2>3. /\ Rollback(s) \in Seq(Steps \cup Fallback)
        /\ s[1] # "fopen_a" => Rollback(s) \in Seq(Steps)
    BY <2>1, RollbackScripts
  <2>4. /\ todo' = [todo EXCEPT ![p] = IF s[1] \in Fatal THEN Rollback(s) ELSE Tail(@)]
        /\ cleared' = (cleared \/ s[1] \in {"fopen_a", "write_a", "write_w"})
        /\ UNCHANGED <<started, now>> /\ todo[p] # << >>
    BY <1>3 DEF Fail, snapVars
  <2> HIDE DEF s
  <2> QED BY <2>2, <2>3, <2>4
<1>4. ASSUME NEW p \in Procs, Crash(p) PROVE TodoInv'
  <2>1. << >> \in Seq(Steps) /\ << >> \in Seq(Steps \cup Fallback)
    BY SMT
  <2> QED BY <1>4, <2>1 DEF Crash, snapVars, secVars, auditVars
<1>5. CASE Tick
  BY <1>5, CallsAssumption, SMT DEF Tick, Times, secVars, auditVars
<1>6. ASSUME NEW p \in Procs, SecurityCommand(p) PROVE cleared => cleared'
  BY <1>6 DEF SecurityCommand, SetFlags, GetFlags, ClearFlags, FopenA, FopenW, WriteA, WriteW,
     Truncate, auditVars, secVars
<1>7. ASSUME NEW p \in Procs,
             \/ DeviceCommand(p) \/ SnapshotCommand(p) \/ FileCommand(p) \/ Set(p)
             \/ SecurityCommand(p)
      PROVE  TodoInv'
  <2>1. CASE DeviceCommand(p)
    BY <1>1, <2>1, DeviceFrame, SMT DEF snapVars, secVars, auditVars
  <2>2. CASE SnapshotCommand(p)
    BY <1>1, <2>2, SnapshotFrame, SMT DEF secVars, auditVars
  <2>3. CASE FileCommand(p)
    BY <1>1, <2>3, FileFrame, SMT DEF snapVars, secVars, auditVars
  <2>4. CASE Set(p)
    BY <1>1, <2>4, SetFrame, SMT DEF snapVars, secVars, auditVars
  <2>5. CASE SecurityCommand(p)
    BY <1>1, <1>6, <2>5, SecurityFrame DEF snapVars
  <2> QED BY <1>7, <2>1, <2>2, <2>3, <2>4, <2>5
<1> QED BY <1>2, <1>3, <1>4, <1>5, <1>7 DEF Next

-----------------------------------------------------------------------------
(* Devices *)

\* The inductive invariant of the devices.  Besides the type of each disk it has that a
\* disk in use has the signature its user needs, and that a member of the group is a PV:
\* a new volume is put on members of the group without another look at them.
DevInv ==
  /\ disk \in [Disks -> [has : Contents, claim : Claims, vg : BOOLEAN]]
  /\ array \in BOOLEAN
  /\ failed \subseteq {d \in Disks : disk[d].claim = "raid"}
  /\ lvsnap => Allocated # {}
  /\ \A d \in Disks : disk[d].claim # "free" => disk[d].has = Needs[disk[d].claim]
  /\ \A d \in Disks : disk[d].vg => disk[d].has = "pv"

\* The target of a command on a disk is a disk.
LEMMA TargetIsDisk ==
  ASSUME TodoInv, NEW p \in Procs, NEW c \in DiskCommands, Does(p, c)
  PROVE  Target(p) \in Disks
<1>1. Head(todo[p]) \in Steps \cup Fallback /\ Head(todo[p])[1] = c
  BY SMT DEF TodoInv, Does
<1> QED BY <1>1, SMT DEF Target, Steps, PlainSteps, BackupSteps, DiskCommands, GroupCommands,
   ProcCommands, FileCommands,
           Setter, Fallback

\* A disk that nobody holds may get any signature, and the user that needs it.
LEMMA FreeDiskWritten ==
  ASSUME DevInv, NEW d \in Disks, Free(d),
         NEW c \in Contents, NEW u \in Claims, NEW b \in BOOLEAN,
         u # "free" => c = Needs[u], b => c = "pv",
         disk' = [disk EXCEPT ![d] = [has |-> c, claim |-> u, vg |-> b]],
         UNCHANGED <<array, failed, lvsnap>>
  PROVE  DevInv'
<1>1. disk' \in [Disks -> [has : Contents, claim : Claims, vg : BOOLEAN]]
  BY DEF DevInv
<1>2. \A e \in Disks : e # d => disk'[e] = disk[e]
  BY DEF DevInv
<1>3. disk'[d].has = c /\ disk'[d].claim = u /\ disk'[d].vg = b
  BY DEF DevInv
<1>4. failed' \subseteq {e \in Disks : disk'[e].claim = "raid"}
  BY <1>2 DEF DevInv, Free
<1>5. lvsnap' => Allocated' # {}
  BY <1>2 DEF DevInv, Free, Allocated
<1>6. \A e \in Disks : disk'[e].claim # "free" => disk'[e].has = Needs[disk'[e].claim]
  BY <1>2, <1>3 DEF DevInv
<1>7. \A e \in Disks : disk'[e].vg => disk'[e].has = "pv"
  BY <1>2, <1>3 DEF DevInv
<1> QED BY <1>1, <1>4, <1>5, <1>6, <1>7 DEF DevInv

\* A user may take a free disk with its signature; one that is neither a volume
\* nor an array may give its disk back.
LEMMA ClaimMoves ==
  ASSUME DevInv, NEW d \in Disks, NEW u \in Claims,
         \/ Free(d) /\ u # "free" /\ disk[d].has = Needs[u]
         \/ u = "free" /\ disk[d].claim \notin {"lvm", "raid"},
         Claim(d, u), UNCHANGED <<array, failed, lvsnap>>
  PROVE  DevInv'
<1>1. disk' \in [Disks -> [has : Contents, claim : Claims, vg : BOOLEAN]]
  BY DEF DevInv, Claim
<1>2. \A e \in Disks : e # d => disk'[e] = disk[e]
  BY DEF DevInv, Claim
<1>3. disk'[d].has = disk[d].has /\ disk'[d].claim = u /\ disk'[d].vg = disk[d].vg
  BY DEF DevInv, Claim
<1>4. failed' \subseteq {e \in Disks : disk'[e].claim = "raid"}
  BY <1>2, <1>3 DEF DevInv, Free
<1>5. lvsnap' => Allocated' # {}
  BY <1>2, <1>3 DEF DevInv, Free, Allocated
<1>6. \A e \in Disks : disk'[e].claim # "free" => disk'[e].has = Needs[disk'[e].claim]
  BY <1>2, <1>3 DEF DevInv
<1>7. \A e \in Disks : disk'[e].vg => disk'[e].has = "pv"
  BY <1>2, <1>3 DEF DevInv
<1> QED BY <1>1, <1>4, <1>5, <1>6, <1>7 DEF DevInv

\* mkfs, pvcreate, pvremove, vgcreate, vgextend, mdadm --zero-superblock and --add
\* and luksFormat write only to a disk that nobody holds.
LEMMA WritersKeepDevInv ==
  ASSUME TodoInv, DevInv, NEW p \in Procs,
         \/ Mkfs(p) \/ Pvcreate(p) \/ Pvremove(p) \/ Vgcreate(p) \/ Vgextend(p)
         \/ ZeroSuperblock(p) \/ MdAdd(p) \/ LuksFormat(p)
  PROVE  DevInv'
<1> DEFINE d == Target(p)
<1> USE DEF DiskCommands
<1>1. /\ d \in Disks /\ Free(d) /\ UNCHANGED <<array, failed, lvsnap>>
      /\ \/ \E c \in {"fs", "pv", "none", "luks"} :
              disk' = [disk EXCEPT ![d] = [has |-> c, claim |-> "free", vg |-> FALSE]]
         \/ disk' = [disk EXCEPT ![d] = [has |-> "pv", claim |-> "free", vg |-> TRUE]]
         \/ disk' = [disk EXCEPT ![d] = [has |-> "md", claim |-> "raid", vg |-> FALSE]]
  <2>1. CASE Mkfs(p)
    BY <2>1, TargetIsDisk DEF Mkfs, Write
  <2>2. CASE Pvcreate(p)
    BY <2>2, TargetIsDisk DEF Pvcreate, Write
  <2>3. CASE Pvremove(p)
    BY <2>3, TargetIsDisk DEF Pvremove, Write
  <2>4. CASE Vgcreate(p)
    BY <2>4, TargetIsDisk DEF Vgcreate, JoinGroup
  <2>5. CASE Vgextend(p)
    BY <2>5, TargetIsDisk DEF Vgextend, JoinGroup
  <2>6. CASE ZeroSuperblock(p)
    BY <2>6, TargetIsDisk DEF ZeroSuperblock, Write
  <2>7. CASE MdAdd(p)
    BY <2>7, TargetIsDisk DEF MdAdd
  <2>8. CASE LuksFormat(p)
    BY <2>8, TargetIsDisk DEF LuksFormat, Write
  <2> QED BY <2>1, <2>2, <2>3, <2>4, <2>5, <2>6, <2>7, <2>8
<1> HIDE DEF d
<1>2. "raid" \in Claims /\ "free" \in Claims /\ Needs["raid"] = "md"
  BY DEF Claims, Needs
<1>3. {"fs", "pv", "none", "luks", "md"} \subseteq Contents
  BY DEF Contents
<1>4. CASE \E c \in {"fs", "pv", "none", "luks"} :
             disk' = [disk EXCEPT ![d] = [has |-> c, claim |-> "free", vg |-> FALSE]]
  <2>1. PICK c \in Contents :
             disk' = [disk EXCEPT ![d] = [has |-> c, claim |-> "free", vg |-> FALSE]]
    BY <1>3, <1>4
  <2> QED BY <1>1, <1>2, <2>1, FreeDiskWritten
<1>5. CASE disk' = [disk EXCEPT ![d] = [has |-> "pv", claim |-> "free", vg |-> TRUE]]
  BY <1>1, <1>2, <1>3, <1>5, FreeDiskWritten
<1>6. CASE disk' = [disk EXCEPT ![d] = [has |-> "md", claim |-> "raid", vg |-> FALSE]]
  BY <1>1, <1>2, <1>3, <1>6, FreeDiskWritten
<1> QED BY <1>1, <1>4, <1>5, <1>6

\* mount and luksOpen take a free disk with their signature, umount and luksClose
\* give it back.
LEMMA ClaimsKeepDevInv ==
  ASSUME TodoInv, DevInv, NEW p \in Procs,
         Mount(p) \/ Umount(p) \/ LuksOpen(p) \/ LuksClose(p)
  PROVE  DevInv'
<1> USE DEF DiskCommands
<1>1. /\ {"free", "mount", "crypt"} \subseteq Claims
      /\ Needs["mount"] = "fs" /\ Needs["crypt"] = "luks"
  BY DEF Claims, Needs
<1>2. CASE Mount(p)
  <2>1. Target(p) \in Disks
    BY <1>2, TargetIsDisk DEF Mount
  <2> QED BY <1>1, <1>2, <2>1, ClaimMoves DEF Mount
<1>3. CASE Umount(p)
  <2>1. Target(p) \in Disks
    BY <1>3, TargetIsDisk DEF Umount
  <2> QED BY <1>1, <1>3, <2>1, ClaimMoves DEF Umount
<1>4. CASE LuksOpen(p)
  <2>1. Target(p) \in Disks
    BY <1>4, TargetIsDisk DEF LuksOpen
  <2> QED BY <1>1, <1>4, <2>1, ClaimMoves DEF LuksOpen
<1>5. CASE LuksClose(p)
  <2>1. Target(p) \in Disks
    BY <1>5, TargetIsDisk DEF LuksClose
  <2> QED BY <1>1, <1>5, <2>1, ClaimMoves DEF LuksClose
<1> QED BY <1>2, <1>3, <1>4, <1>5

\* A volume is put on members of the group, which are PVs: none of them is held by
\* a mount, an array or a mapping, whose signatures are others.
LEMMA AllocateKeeps ==
  ASSUME DevInv, NEW D \in SUBSET Grouped, Allocate(D), UNCHANGED <<array, failed>>,
         lvsnap' => D # {} \/ Allocated # {}
  PROVE  DevInv'
<1>1. D \subseteq Disks /\ \A d \in D : disk[d].has = "pv"
  BY DEF DevInv, Grouped
<1>2. disk' \in [Disks -> [has : Contents, claim : Claims, vg : BOOLEAN]]
  BY DEF DevInv, Allocate, Claims
<1>3. \A d \in Disks : d \notin D => disk'[d] = disk[d]
  BY DEF Allocate
<1>4. \A d \in D : disk'[d].has = disk[d].has /\ disk'[d].claim = "lvm" /\ disk'[d].vg = disk[d].vg
  BY <1>1 DEF DevInv, Allocate
<1>5. failed' \subseteq {d \in Disks : disk'[d].claim = "raid"}
  BY <1>1, <1>3, SMT DEF DevInv, Needs
<1>6. lvsnap' => Allocated' # {}
  BY <1>1, <1>3, <1>4 DEF Allocated
<1>7. \A d \in Disks : disk'[d].claim # "free" => disk'[d].has = Needs[disk'[d].claim]
  BY <1>1, <1>3, <1>4, SMT DEF DevInv, Needs
<1>8. \A d \in Disks : disk'[d].vg => disk'[d].has = "pv"
  BY <1>1, <1>3, <1>4 DEF DevInv
<1> QED BY <1>2, <1>5, <1>6, <1>7, <1>8 DEF DevInv

\* Disks may be given back by a volume, with the snapshot, or by a whole array.
LEMMA ReleaseKeeps ==
  ASSUME DevInv, NEW D \in SUBSET Disks, Release(D),
         ~lvsnap' \/ (lvsnap' = lvsnap /\ D \cap Allocated = {}),
         array' \in BOOLEAN, failed' \subseteq failed \ D
  PROVE  DevInv'
<1>1. disk' \in [Disks -> [has : Contents, claim : Claims, vg : BOOLEAN]]
  BY DEF DevInv, Release, Claims
<1>2. \A d \in Disks : d \notin D => disk'[d] = disk[d]
  BY DEF Release
<1>3. \A d \in D : disk'[d].has = disk[d].has /\ disk'[d].claim = "free" /\ disk'[d].vg = disk[d].vg
  BY DEF DevInv, Release
<1>4. failed' \subseteq {d \in Disks : disk'[d].claim = "raid"}
  BY <1>2 DEF DevInv
<1>5. lvsnap' => Allocated' # {}
  BY <1>2 DEF DevInv, Allocated
<1>6. \A d \in Disks : disk'[d].claim # "free" => disk'[d].has = Needs[disk'[d].claim]
  BY <1>2, <1>3 DEF DevInv
<1>7. \A d \in Disks : disk'[d].vg => disk'[d].has = "pv"
  BY <1>2, <1>3 DEF DevInv
<1> QED BY <1>1, <1>4, <1>5, <1>6, <1>7 DEF DevInv

\* The commands on volumes, groups and arrays.
LEMMA GroupsKeepDevInv ==
  ASSUME TodoInv, DevInv, NEW p \in Procs,
         \/ Vgremove(p) \/ Lvcreate(p) \/ Lvextend(p) \/ Lvremove(p) \/ LvcreateSnapshot(p)
         \/ Lvconvert(p) \/ MdStop(p)
  PROVE  DevInv'
<1>1. CASE Vgremove(p)
  <2>1. /\ disk' = [d \in Disks |->
                      IF disk[d].vg THEN [disk[d] EXCEPT !.claim = "free", !.vg = FALSE] ELSE disk[d]]
        /\ ~lvsnap' /\ UNCHANGED <<array, failed>>
    BY <1>1 DEF Vgremove
  <2>2. disk' \in [Disks -> [has : Contents, claim : Claims, vg : BOOLEAN]]
    BY <2>1 DEF DevInv, Claims
  <2>3. \A d \in Disks :
          \/ ~disk[d].vg /\ disk'[d] = disk[d]
          \/ disk[d].vg /\ disk'[d].has = disk[d].has /\ disk'[d].claim = "free" /\ disk'[d].vg = FALSE
    BY <2>1 DEF DevInv
  <2>4. \A d \in failed : ~disk[d].vg
    BY SMT DEF DevInv, Needs
  <2>5. ~lvsnap' /\ UNCHANGED <<array, failed>>
    BY <2>1
  <2>6. failed' \subseteq {d \in Disks : disk'[d].claim = "raid"}
    BY <2>3, <2>4, <2>5 DEF DevInv
  <2>7. \A d \in Disks : disk'[d].claim # "free" => disk'[d].has = Needs[disk'[d].claim]
    BY <2>3, SMT DEF DevInv
  <2>8. \A d \in Disks : disk'[d].vg => disk'[d].has = "pv"
    BY <2>3 DEF DevInv
  <2> QED BY <2>2, <2>5, <2>6, <2>7, <2>8 DEF DevInv
<1>2. CASE Lvcreate(p)
  BY <1>2, AllocateKeeps DEF Lvcreate
<1>3. CASE Lvextend(p)
  BY <1>3, AllocateKeeps DEF Lvextend
<1>4. CASE LvcreateSnapshot(p)
  BY <1>4, AllocateKeeps DEF LvcreateSnapshot
<1>5. CASE Lvremove(p) \/ Lvconvert(p)
  <2>1. Allocated \subseteq Disks /\ \A d \in Allocated : d \notin failed
    BY DEF Allocated, DevInv
  <2>2. PICK D \in SUBSET Allocated : Release(D)
    BY <1>5 DEF Lvremove, Lvconvert
  <2>3. ~lvsnap' /\ UNCHANGED <<array, failed>>
    BY <1>5 DEF Lvremove, Lvconvert
  <2>4. D \in SUBSET Disks /\ failed' \subseteq failed \ D /\ array' \in BOOLEAN
    BY <2>1, <2>3 DEF DevInv
  <2> QED BY <2>2, <2>3, <2>4, ReleaseKeeps
<1>6. CASE MdStop(p)
  <2> DEFINE D == {d \in Disks : disk[d].claim = "raid"}
  <2>1. D \cap Allocated = {} /\ D \in SUBSET Disks
    BY DEF Allocated
  <2>2. Release(D) /\ lvsnap' = lvsnap /\ array' \in BOOLEAN /\ failed' \subseteq failed \ D
    BY <1>6 DEF MdStop
  <2> HIDE DEF D
  <2> QED BY <2>1, <2>2, ReleaseKeeps
<1> QED BY <1>1, <1>2, <1>3, <1>4, <1>5, <1>6

\* mdadm's commands on members: a new array is made of free disks, and only a
\* failed member leaves it.
LEMMA MembersKeepDevInv ==
  ASSUME TodoInv, DevInv, NEW p \in Procs, MdCreate(p) \/ MdFail(p) \/ MdRemove(p)
  PROVE  DevInv'
<1>1. CASE MdCreate(p)
  <2> DEFINE D == Target(p)
  <2>1. /\ \A d \in D : Free(d)
        /\ disk' = [d \in Disks |-> IF d \in D THEN [has |-> "md", claim |-> "raid", vg |-> FALSE]
                                               ELSE disk[d]]
        /\ array' = TRUE /\ UNCHANGED <<failed, lvsnap>>
    BY <1>1 DEF MdCreate
  <2> HIDE DEF D
  <2>2. disk' \in [Disks -> [has : Contents, claim : Claims, vg : BOOLEAN]]
    BY <2>1 DEF DevInv, Contents, Claims
  <2>3. \A d \in Disks :
          \/ disk'[d] = disk[d]
          \/ /\ disk[d].claim = "free"
             /\ disk'[d].has = "md" /\ disk'[d].claim = "raid" /\ disk'[d].vg = FALSE
    BY <2>1 DEF Free
  <2>4. Allocated \subseteq Allocated' /\ Needs["raid"] = "md"
    BY <2>3 DEF Allocated, Needs
  <2> QED BY <2>1, <2>2, <2>3, <2>4 DEF DevInv
<1>2. CASE MdFail(p)
  <2>1. Target(p) \in Disks /\ disk[Target(p)].claim = "raid"
    BY <1>2 DEF MdFail, Working
  <2> QED BY <1>2, <2>1 DEF MdFail, DevInv, Allocated
<1>3. CASE MdRemove(p)
  <2> DEFINE d == Target(p)
  <2>1. /\ d \in Disks /\ disk[d].claim = "raid"
        /\ disk' = [disk EXCEPT ![d].claim = "free"]
        /\ failed' = failed \ {d} /\ UNCHANGED <<array, lvsnap>>
    BY <1>3 DEF MdRemove, Claim, DevInv
  <2> HIDE DEF d
  <2>2. disk' \in [Disks -> [has : Contents, claim : Claims, vg : BOOLEAN]]
    BY <2>1 DEF DevInv, Claims
  <2>3. /\ \A e \in Disks : e # d => disk'[e] = disk[e]
        /\ disk'[d].has = disk[d].has /\ disk'[d].claim = "free" /\ disk'[d].vg = disk[d].vg
    BY <2>1 DEF DevInv
  <2>4. Allocated \subseteq Allocated'
    BY <2>1, <2>3 DEF Allocated
  <2> QED BY <2>1, <2>2, <2>3, <2>4 DEF DevInv
<1> QED BY <1>1, <1>2, <1>3

\* Every step keeps the devices' invariant: the other commands on devices only
\* look, and no other step touches a device.
LEMMA NextDevInv ==
  ASSUME TodoInv, DevInv, Next
  PROVE  DevInv'
<1>1. ASSUME UNCHANGED devVars PROVE DevInv'
  BY <1>1 DEF DevInv, devVars, Allocated
<1>2. ASSUME NEW p \in Procs, DeviceCommand(p) PROVE DevInv'
  <2>1. CASE IsMounted(p) \/ FsckReadOnly(p) \/ Fsck(p)
         \/ Resize(p) \/ XfsGrow(p) \/ PvInfo(p) \/ LuksChangeKey(p)
    BY <1>1, <2>1 DEF IsMounted, FsckReadOnly, Fsck, Resize, XfsGrow, PvInfo, LuksChangeKey
  <2> QED BY <1>2, <2>1, WritersKeepDevInv, ClaimsKeepDevInv, GroupsKeepDevInv, MembersKeepDevInv
          DEF DeviceCommand
<1>3. ASSUME NEW p \in Procs,
             \/ Call(p) \/ SnapshotCommand(p) \/ FileCommand(p) \/ Set(p) \/ SecurityCommand(p)
             \/ Fail(p) \/ Crash(p)
      PROVE  UNCHANGED devVars
  <2>1. CASE Call(p)
    BY <2>1, CallFrame DEF TodoInv
  <2>2. CASE Fail(p) \/ Crash(p)
    BY <2>2 DEF Fail, Crash
  <2> QED BY <1>3, <2>1, <2>2, SnapshotFrame, FileFrame, SetFrame, SecurityFrame
<1>4. CASE Tick
  BY <1>1, <1>4 DEF Tick
<1> QED BY <1>1, <1>2, <1>3, <1>4 DEF Next

-----------------------------------------------------------------------------
(* Files, snapshots and settings *)

\* A swap file in use exists: only mkswap's file is turned on, and neither
\* unlink nor dd gets past one that is on.
FileInv ==
  /\ files \subseteq FileNames
  /\ swap \in {{}, {"sig"}, {"sig", "on"}}
  /\ "on" \in swap => SwapFile \in files

\* What is mounted at a mount point is a snapshot that exists.
SnapInv ==
  /\ snaps \subseteq Volumes \X Times
  /\ stack \in [Times -> Seq(snaps)]

\* The file that a command names is one of the files.
LEMMA TargetIsFile ==
  ASSUME TodoInv, NEW p \in Procs, Does(p, "mkdir") \/ Does(p, "rmdir")
  PROVE  Target(p) \in FileNames \ {SwapFile}
<1>1. Head(todo[p]) \in Steps \cup Fallback /\ Head(todo[p])[1] \in {"mkdir", "rmdir"}
  BY SMTT(40) DEF TodoInv, Does
<1>2. \/ Target(p) \in {MountDir(d) : d \in Disks}
      \/ Target(p) \in {MountPoint(t) : t \in Times}
  BY <1>1, SMT DEF Target, Steps, PlainSteps, BackupSteps, DiskCommands, GroupCommands,
     ProcCommands, FileCommands,
     Setter, Fallback
<1>3. \A d \in Disks : MountDir(d) # SwapFile
  BY DEF MountDir, SwapFile
<1>4. \A t \in Times : MountPoint(t) # SwapFile
  BY DEF MountPoint, SwapFile
<1> QED BY <1>2, <1>3, <1>4, NamedFiles

\* The target of a command on a snapshot: the snapshot and the mount point.
LEMMA TargetIsSnapshot ==
  ASSUME TodoInv, NEW p \in Procs
  PROVE  /\ Does(p, "snapshot") => Target(p) \in Volumes \X Times
         /\ Does(p, "mount_snapshot") =>
              <<Target(p)[1], Target(p)[2]>> \in Volumes \X Times /\ Target(p)[3] \in Times
         /\ Does(p, "copy") => Target(p)[3] \in Times
         /\ Does(p, "umount_snapshot") => Target(p) \in Times
<1> USE DEF TodoInv, Does, Target
<1>1. Head(todo[p]) \in Steps \cup Fallback \/ todo[p] = << >>
  BY SMTT(40)
<1>2. Does(p, "snapshot") => Target(p) \in Volumes \X Times
  BY <1>1, SMTT(40) DEF Steps, PlainSteps, BackupSteps, DiskCommands, GroupCommands,
     ProcCommands, FileCommands, Setter, Fallback
<1>3. Does(p, "mount_snapshot") =>
        <<Target(p)[1], Target(p)[2]>> \in Volumes \X Times /\ Target(p)[3] \in Times
  BY <1>1, SMTT(40) DEF Steps, PlainSteps, BackupSteps, DiskCommands, GroupCommands,
     ProcCommands, FileCommands, Setter, Fallback
<1>4. Does(p, "umount_snapshot") => Target(p) \in Times
  BY <1>1, SMTT(40) DEF Steps, PlainSteps, BackupSteps, DiskCommands, GroupCommands,
     ProcCommands, FileCommands, Setter, Fallback
<1>5. Does(p, "copy") => Target(p)[3] \in Times
  BY <1>1, SMT DEF Steps, PlainSteps, BackupSteps, DiskCommands, GroupCommands,
     ProcCommands, FileCommands, Setter, Fallback
<1> QED BY <1>2, <1>3, <1>4, <1>5

\* A failed command may leave files, but only named ones, and the swap file only
\* when dd could write it.
LEMMA FailedFiles ==
  ASSUME TodoInv, NEW p \in Procs, todo[p] # << >>, NEW F \in FailureLeaves(Head(todo[p]))
  PROVE  F \subseteq FileNames
<1> DEFINE s == Head(todo[p])
<1>1. s \in Steps \cup Fallback
  BY SMT DEF TodoInv
<1> HIDE DEF s
<1>2. s[1] = "mount_snapshot" => s[2][3] \in Times
  BY <1>1, SMT DEF Steps, PlainSteps, BackupSteps, DiskCommands, GroupCommands,
     ProcCommands, FileCommands, Setter, Fallback
<1>3. s[1] = "mkstemp_two" => s[2] \in Procs
  BY <1>1, SMT DEF Steps, PlainSteps, BackupSteps, DiskCommands, GroupCommands,
     ProcCommands, FileCommands, Setter, Fallback
<1>4. F \in FailureLeaves(s)
  BY DEF s
<1>5. s[1] = "mount_snapshot" => F \subseteq FileNames
  BY <1>2, <1>4, NamedFiles DEF FailureLeaves
<1>6. s[1] = "mkstemp_two" => F \subseteq FileNames
  BY <1>3, <1>4, NamedFiles DEF FailureLeaves
<1>7. s[1] \notin {"mount_snapshot", "mkstemp_two"} => F \subseteq FileNames
  BY <1>4, NamedFiles DEF FailureLeaves
<1> QED BY <1>5, <1>6, <1>7

\* No step removes or overwrites a swap file in use, or makes a file without a name.
LEMMA NextFileInv ==
  ASSUME TodoInv, FileInv, Next
  PROVE  FileInv'
<1>1. ASSUME UNCHANGED fileVars PROVE FileInv'
  BY <1>1 DEF FileInv, fileVars
<1>2. ASSUME NEW p \in Procs, FileCommand(p) PROVE FileInv'
  <2> USE DEF FileInv
  <2>1. CASE Mkdir(p)
    <3>1. Target(p) \in FileNames
      BY <2>1, TargetIsFile DEF Mkdir
    <3> QED BY <2>1, <3>1 DEF Mkdir
  <2>2. CASE CheckLow(p) \/ ReadTestFile(p)
    BY <2>2 DEF CheckLow, ReadTestFile
  <2>3. CASE Dd(p)
    BY <2>3, NamedFiles DEF Dd, Create
  <2>4. CASE Mkswap(p) \/ Swapon(p) \/ Swapoff(p)
    BY <2>4 DEF Mkswap, Swapon, Swapoff
  <2>5. CASE Unlink(p)
    BY <2>5 DEF Unlink
  <2>6. CASE Mkstemp(p) \/ MkstempTwo(p)
    <3>1. Head(todo[p]) \in Steps \cup Fallback /\ Head(todo[p])[1] \in ProcCommands
      BY <2>6, SMTT(40) DEF TodoInv, Mkstemp, MkstempTwo, Does, ProcCommands
    <3>2. Target(p) \in Procs
      BY <3>1, SMT DEF Target, Steps, PlainSteps, BackupSteps, DiskCommands, GroupCommands,
         ProcCommands, FileCommands, Setter, Fallback
    <3>3. {PassFile(Target(p)), OldFile(Target(p)), NewFile(Target(p))} \subseteq FileNames
      BY <3>2, NamedFiles
    <3> QED BY <2>6, <3>3 DEF Mkstemp, MkstempTwo, Create
  <2>7. CASE WriteTestFile(p) \/ Cp(p)
    BY <2>7, NamedFiles DEF WriteTestFile, Cp, Create
  <2> QED BY <1>2, <2>1, <2>2, <2>3, <2>4, <2>5, <2>6, <2>7 DEF FileCommand
<1>3. ASSUME NEW p \in Procs, SnapshotCommand(p) PROVE FileInv'
  <2>1. CASE MountSnapshot(p)
    <3>1. Target(p)[3] \in Times
      BY <2>1, TargetIsSnapshot DEF MountSnapshot
    <3>2. files' = files \cup {MountPoint(Target(p)[3])} /\ swap' = swap
      BY <2>1 DEF MountSnapshot
    <3> QED BY <3>1, <3>2, NamedFiles DEF FileInv
  <2>2. CASE Rmdir(p)
    <3>1. Target(p) # SwapFile
      BY <2>2, TargetIsFile DEF Rmdir
    <3>2. files' = files \ {Target(p)} /\ swap' = swap
      BY <2>2 DEF Rmdir
    <3> QED BY <3>1, <3>2 DEF FileInv
  <2>3. CASE Snapshot(p) \/ Copy(p) \/ UmountSnapshot(p) \/ RemoveSnapshot(p)
    BY <1>1, <2>3 DEF Snapshot, Copy, UmountSnapshot, RemoveSnapshot
  <2> QED BY <1>3, <2>1, <2>2, <2>3 DEF SnapshotCommand
<1>4. ASSUME NEW p \in Procs, Fail(p) PROVE FileInv'
  <2>1. PICK F \in FailureLeaves(Head(todo[p])) :
          /\ files' = files \cup F
          /\ swap' = IF SwapFile \in F THEN {} ELSE swap
    BY <1>4 DEF Fail
  <2>2. F \subseteq FileNames
    BY <1>4, FailedFiles DEF Fail
  <2> QED BY <2>1, <2>2 DEF FileInv
<1>5. ASSUME NEW p \in Procs,
             Call(p) \/ DeviceCommand(p) \/ Set(p) \/ SecurityCommand(p) \/ Crash(p)
      PROVE  UNCHANGED fileVars
  <2>1. CASE Call(p)
    BY <2>1, CallFrame DEF TodoInv
  <2>2. CASE Crash(p)
    BY <2>2 DEF Crash
  <2> QED BY <1>5, <2>1, <2>2, DeviceFrame, SetFrame, SecurityFrame
<1>6. CASE Tick
  BY <1>1, <1>6 DEF Tick
<1> QED BY <1>1, <1>2, <1>3, <1>4, <1>5, <1>6 DEF Next

\* A sequence is one over every set that has its elements.
LEMMA SeqOfElements ==
  ASSUME NEW S, NEW T, NEW s \in Seq(S), \A i \in 1..Len(s) : s[i] \in T
  PROVE  s \in Seq(T)
BY SMT

\* lvremove takes no snapshot that is mounted somewhere.
LEMMA NextSnapInv ==
  ASSUME TodoInv, SnapInv, Next
  PROVE  SnapInv'
<1>1. ASSUME UNCHANGED <<snaps, stack>> PROVE SnapInv'
  BY <1>1 DEF SnapInv
<1>2. ASSUME NEW p \in Procs, SnapshotCommand(p) PROVE SnapInv'
  <2> USE DEF SnapInv
  <2>1. CASE Snapshot(p)
    <3>1. Target(p) \in Volumes \X Times
      BY <2>1, TargetIsSnapshot DEF Snapshot
    <3>2. snaps' = snaps \cup {Target(p)} /\ stack' = stack
      BY <2>1 DEF Snapshot
    <3>3. \A t \in Times : stack[t] \in Seq(snaps')
      BY <3>2, SMT
    <3> QED BY <3>1, <3>2, <3>3
  <2>2. CASE MountSnapshot(p)
    <3> DEFINE x == <<Target(p)[1], Target(p)[2]>>
               u == Target(p)[3]
    <3>1. u \in Times
      BY <2>2, TargetIsSnapshot DEF MountSnapshot
    <3>2. x \in snaps /\ stack' = [stack EXCEPT ![u] = <<x>> \o @] /\ snaps' = snaps
      BY <2>2 DEF MountSnapshot
    <3> HIDE DEF x, u
    <3>3. <<x>> \in Seq(snaps) /\ stack[u] \in Seq(snaps)
      BY <3>1, <3>2, SMT
    <3>4. <<x>> \o stack[u] \in Seq(snaps)
      BY <3>3, SMT
    <3> QED BY <3>1, <3>2, <3>4
  <2>3. CASE Copy(p) \/ Rmdir(p)
    BY <1>1, <2>3 DEF Copy, Rmdir, snapVars
  <2>4. CASE UmountSnapshot(p)
    <3>1. Target(p) \in Times /\ stack[Target(p)] # << >>
      BY <2>4, TargetIsSnapshot DEF UmountSnapshot
    <3>2. Tail(stack[Target(p)]) \in Seq(snaps)
      BY <3>1, SMT
    <3> QED BY <2>4, <3>1, <3>2 DEF UmountSnapshot
  <2>5. CASE RemoveSnapshot(p)
    <3>1. /\ snaps' = snaps \ {Target(p)} /\ stack' = stack
          /\ \A u \in Times : \A i \in 1..Len(stack[u]) : stack[u][i] # Target(p)
      BY <2>5 DEF RemoveSnapshot
    <3>2. ASSUME NEW u \in Times PROVE stack[u] \in Seq(snaps')
      <4>1. stack[u] \in Seq(snaps) /\ \A i \in 1..Len(stack[u]) : stack[u][i] \in snaps
        BY <3>2, SMT
      <4>2. \A i \in 1..Len(stack[u]) : stack[u][i] \in snaps'
        BY <3>1, <4>1
      <4> QED BY <4>1, <4>2, SeqOfElements
    <3> QED BY <3>1, <3>2
  <2> QED BY <1>2, <2>1, <2>2, <2>3, <2>4, <2>5 DEF SnapshotCommand
<1>3. ASSUME NEW p \in Procs,
             \/ Call(p) \/ DeviceCommand(p) \/ FileCommand(p) \/ Set(p) \/ SecurityCommand(p)
             \/ Fail(p) \/ Crash(p)
      PROVE  UNCHANGED snapVars
  <2>1. CASE Call(p)
    BY <2>1, CallFrame DEF TodoInv
  <2>2. CASE Fail(p) \/ Crash(p)
    BY <2>2 DEF Fail, Crash
  <2> QED BY <1>3, <2>1, <2>2, DeviceFrame, FileFrame, SetFrame, SecurityFrame
<1>4. CASE Tick
  BY <1>1, <1>4 DEF Tick
<1> QED BY <1>1, <1>2, <1>3, <1>4 DEF Next, snapVars

-----------------------------------------------------------------------------
(* File attributes and the audit log *)

\* The attributes of the file, and the copies of them.
AttrInv ==
  /\ flags \subseteq Flags
  /\ attrs \in [Procs -> SUBSET Flags]

\* The log holds entries that were logged, and as long as nothing cleared it, all.
AuditInv ==
  /\ log \in Seq(logged)
  /\ AuditKept

\* The flags a step names are flags the library has a constant for.
LEMMA TargetIsFlags ==
  ASSUME TodoInv, NEW p \in Procs, Does(p, "setflags") \/ Does(p, "clearflags")
  PROVE  Target(p) \subseteq Flags
<1>1. Head(todo[p]) \in Steps \cup Fallback /\ Head(todo[p])[1] \in {"setflags", "clearflags"}
  BY SMTT(40) DEF TodoInv, Does
<1> QED BY <1>1, SMT DEF Target, Steps, PlainSteps, BackupSteps, DiskCommands, GroupCommands,
   ProcCommands, FileCommands,
           Setter, Fallback

\* audit_log opens or writes with "w" only after an fopen with "a" has failed.
LEMMA FallbackAfterFailure ==
  ASSUME TodoInv, NEW p \in Procs, Does(p, "fopen_w") \/ Does(p, "write_w")
  PROVE  cleared
<1>1. SUFFICES ASSUME ~cleared PROVE FALSE
  OBVIOUS
<1>2. Head(todo[p]) \in Steps /\ Head(todo[p])[1] \in {"fopen_w", "write_w"}
  BY <1>1, SMT DEF TodoInv, Does
<1> QED BY <1>2, SMT DEF Steps, PlainSteps, BackupSteps, DiskCommands, GroupCommands,
   ProcCommands, FileCommands, Setter

\* Only attr_set and attr_unset write them.
LEMMA NextAttrInv ==
  ASSUME TodoInv, AttrInv, Next
  PROVE  AttrInv'
<1>1. ASSUME UNCHANGED attrVars PROVE AttrInv'
  BY <1>1 DEF AttrInv, attrVars
<1>2. ASSUME NEW p \in Procs, SecurityCommand(p) PROVE AttrInv'
  <2> USE DEF AttrInv
  <2>1. CASE SetFlags(p)
    <3>1. Target(p) \subseteq Flags
      BY <2>1, TargetIsFlags DEF SetFlags
    <3> QED BY <2>1, <3>1 DEF SetFlags
  <2>2. CASE GetFlags(p)
    BY <2>2 DEF GetFlags
  <2>3. CASE ClearFlags(p)
    BY <2>3 DEF ClearFlags
  <2>4. CASE FopenA(p) \/ FopenW(p) \/ WriteA(p) \/ WriteW(p) \/ Truncate(p)
    BY <1>1, <2>4 DEF FopenA, FopenW, WriteA, WriteW, Truncate, secVars
  <2> QED BY <1>2, <2>1, <2>2, <2>3, <2>4 DEF SecurityCommand
<1>3. ASSUME NEW p \in Procs,
             \/ Call(p) \/ DeviceCommand(p) \/ SnapshotCommand(p) \/ FileCommand(p) \/ Set(p)
             \/ Fail(p) \/ Crash(p)
      PROVE  UNCHANGED attrVars
  <2> USE DEF secVars
  <2>1. CASE Call(p)
    BY <2>1, CallFrame DEF TodoInv
  <2>2. CASE Fail(p) \/ Crash(p)
    BY <2>2 DEF Fail, Crash
  <2> QED BY <1>3, <2>1, <2>2, DeviceFrame, SnapshotFrame, FileFrame, SetFrame
<1>4. CASE Tick
  BY <1>1, <1>4 DEF Tick, secVars
<1> QED BY <1>1, <1>2, <1>3, <1>4 DEF Next

\* Entries are appended, and the steps that lose some are the ones `cleared' notes.
LEMMA NextAuditInv ==
  ASSUME TodoInv, AuditInv, Next
  PROVE  AuditInv'
<1>1. ASSUME UNCHANGED auditVars PROVE AuditInv'
  BY <1>1 DEF AuditInv, AuditKept, auditVars
<1>2. ASSUME NEW p \in Procs, SecurityCommand(p) PROVE AuditInv'
  <2> USE DEF AuditInv, AuditKept
  <2>1. CASE SetFlags(p) \/ GetFlags(p) \/ ClearFlags(p) \/ FopenA(p)
    BY <1>1, <2>1 DEF SetFlags, GetFlags, ClearFlags, FopenA, secVars
  <2>2. CASE FopenW(p)
    BY <2>2, FallbackAfterFailure, SMT DEF FopenW
  <2>3. CASE WriteA(p)
    <3>1. /\ log' = Append(log, p) /\ logged' = logged \cup {p} /\ cleared' = cleared
      BY <2>3 DEF WriteA
    <3>2. log \in Seq(logged')
      BY <3>1, SMT
    <3>3. log' \in Seq(logged') /\ Len(log') = Len(log) + 1
      BY <3>1, <3>2, SMT
    <3>4. \A i \in 1..Len(log) : i \in 1..Len(log') /\ log'[i] = log[i]
      BY <3>1, <3>2, <3>3, SMT
    <3>5. Len(log') \in 1..Len(log') /\ log'[Len(log')] = p
      BY <3>1, <3>2, <3>3, SMT
    <3>6. {log[i] : i \in 1..Len(log)} \cup {p} \subseteq {log'[i] : i \in 1..Len(log')}
      BY <3>4, <3>5
    <3> QED BY <3>1, <3>3, <3>6
  <2>4. CASE WriteW(p)
    <3>1. cleared /\ cleared' = cleared
      BY <2>4, FallbackAfterFailure DEF WriteW
    <3>2. /\ log' = <<p>> \o (IF log = << >> THEN << >> ELSE Tail(log))
          /\ logged' = logged \cup {p}
      BY <2>4 DEF WriteW
    <3>3. <<p>> \in Seq(logged') /\ log \in Seq(logged')
      BY <3>2, SMT
    <3>4. (IF log = << >> THEN << >> ELSE Tail(log)) \in Seq(logged')
      BY <3>3, SMT
    <3> QED BY <3>1, <3>2, <3>3, <3>4, SMTT(40)
  <2>5. CASE Truncate(p)
    BY <2>5, SMT DEF Truncate
  <2> QED BY <1>2, <2>1, <2>2, <2>3, <2>4, <2>5 DEF SecurityCommand
<1>3. ASSUME NEW p \in Procs, Fail(p) PROVE AuditInv'
  <2> DEFINE s == Head(todo[p])
  <2>1. /\ cleared' = (cleared \/ s[1] \in {"fopen_a", "write_a", "write_w"})
        /\ logged' = IF s[1] \in {"write_a", "write_w"} THEN logged \cup {p} ELSE logged
        /\ log' = log
    BY <1>3 DEF Fail
  <2> HIDE DEF s
  <2>2. log \in Seq(logged')
    BY <2>1, SMT DEF AuditInv
  <2> QED BY <2>1, <2>2 DEF AuditInv, AuditKept
<1>4. ASSUME NEW p \in Procs,
             \/ Call(p) \/ DeviceCommand(p) \/ SnapshotCommand(p) \/ FileCommand(p) \/ Set(p)
             \/ Crash(p)
      PROVE  UNCHANGED auditVars
  <2> USE DEF secVars
  <2>1. CASE Call(p)
    BY <2>1, CallFrame DEF TodoInv
  <2>2. CASE Crash(p)
    BY <2>2 DEF Crash
  <2> QED BY <1>4, <2>1, <2>2, DeviceFrame, SnapshotFrame, FileFrame, SetFrame
<1>5. CASE Tick
  BY <1>1, <1>5 DEF Tick, secVars
<1> QED BY <1>1, <1>2, <1>3, <1>4, <1>5 DEF Next

-----------------------------------------------------------------------------
(* Kernel settings *)

\* The setting k has the profile's value, or p's setter of it had no effect.
Applied(p, w, k) ==
  \/ tuned[k] = perf_get_default_profile(w)[k]
  \/ <<p, k>> \in missed
  \/ k = "queue_depth" /\ ~HasQueueDepth

Pending(p, k) == \E i \in 1..Len(todo[p]) : todo[p][i] = Setter(want[p], k)

\* A process that applies a profile has only setters left, and every setting is
\* applied, was missed or will be set.  The scheduler resets nr_requests, and queue_depth may
\* be written to it: after each of the two comes the setter of nr_requests.
TuneInv ==
  /\ DOMAIN tuned = Settings
  /\ want \in [Procs -> Workloads \cup {NoWorkload}]
  /\ \A p \in Procs : want[p] # NoWorkload =>
       /\ p \in started
       /\ \A i \in 1..Len(todo[p]) : \E k \in Settings : todo[p][i] = Setter(want[p], k)
       /\ \A i \in 1..Len(todo[p]) :
            todo[p][i] \in {Setter(want[p], "scheduler"), Setter(want[p], "queue_depth")} =>
              \E j \in 1..Len(todo[p]) : j > i /\ todo[p][j] = Setter(want[p], "nr_requests")
       /\ p \notin mixed => \A k \in Settings : Pending(p, k) \/ Applied(p, want[p], k)

\* What is left after a step is the script without its head.
LEMMA TailShift ==
  ASSUME NEW S, NEW s \in Seq(S), s # << >>
  PROVE  /\ Head(s) = s[1] /\ 1 \in 1..Len(s) /\ Len(s) \in Nat
         /\ Len(Tail(s)) = Len(s) - 1
         /\ \A i \in 1..Len(Tail(s)) : i + 1 \in 1..Len(s) /\ Tail(s)[i] = s[i + 1]
         /\ \A i \in 2..Len(s) : i - 1 \in 1..Len(Tail(s)) /\ Tail(s)[i - 1] = s[i]
BY SMT

\* Only the setters run a step of a process that applies a profile, and only the
\* commands on snapshots mount, copy or unmount one.
LEMMA OnlyTheirOwn ==
  ASSUME NEW p,
         DeviceCommand(p) \/ SnapshotCommand(p) \/ FileCommand(p) \/ SecurityCommand(p) \/ Fail(p)
  PROVE  /\ todo[p] # << >> /\ Head(todo[p])[1] # "set"
         /\ DeviceCommand(p) \/ FileCommand(p) \/ SecurityCommand(p) =>
              Head(todo[p])[1] \notin {"mount_snapshot", "copy", "umount_snapshot"}
<1> USE DEF Does
<1>1. CASE DeviceCommand(p)
  <2>1. CASE Mkfs(p) \/ Mount(p) \/ Umount(p) \/ IsMounted(p) \/ FsckReadOnly(p) \/ Fsck(p)
         \/ Resize(p) \/ XfsGrow(p)
    BY <2>1 DEF Mkfs, Mount, Umount, IsMounted, FsckReadOnly, Fsck, Resize, XfsGrow
  <2>2. CASE Pvcreate(p) \/ PvInfo(p) \/ Pvremove(p) \/ Vgcreate(p) \/ Vgextend(p) \/ Vgremove(p)
    BY <2>2 DEF Pvcreate, PvInfo, Pvremove, Vgcreate, Vgextend, Vgremove
  <2>3. CASE Lvcreate(p) \/ Lvextend(p) \/ Lvremove(p) \/ LvcreateSnapshot(p) \/ Lvconvert(p)
    BY <2>3 DEF Lvcreate, Lvextend, Lvremove, LvcreateSnapshot, Lvconvert
  <2>4. CASE ZeroSuperblock(p) \/ MdCreate(p) \/ MdAdd(p) \/ MdFail(p) \/ MdRemove(p) \/ MdStop(p)
    BY <2>4 DEF ZeroSuperblock, MdCreate, MdAdd, MdFail, MdRemove, MdStop
  <2>5. CASE LuksFormat(p) \/ LuksOpen(p) \/ LuksClose(p) \/ LuksChangeKey(p)
    BY <2>5 DEF LuksFormat, LuksOpen, LuksClose, LuksChangeKey
  <2> QED BY <1>1, <2>1, <2>2, <2>3, <2>4, <2>5 DEF DeviceCommand
<1>2. CASE SnapshotCommand(p) /\ ~DeviceCommand(p) /\ ~FileCommand(p) /\ ~SecurityCommand(p)
  BY <1>2 DEF SnapshotCommand, Snapshot, MountSnapshot, Copy, UmountSnapshot, RemoveSnapshot, Rmdir
<1>3. CASE FileCommand(p)
  BY <1>3 DEF FileCommand, Mkdir, CheckLow, Dd, Mkswap, Swapon, Swapoff, Unlink, Mkstemp,
     MkstempTwo, WriteTestFile, Cp, ReadTestFile
<1>4. CASE SecurityCommand(p)
  BY <1>4 DEF SecurityCommand, SetFlags, GetFlags, ClearFlags, FopenA, FopenW, WriteA, WriteW,
     Truncate
<1>5. CASE Fail(p) /\ ~DeviceCommand(p) /\ ~FileCommand(p) /\ ~SecurityCommand(p)
  BY <1>5 DEF Fail
<1> QED BY <1>1, <1>2, <1>3, <1>4, <1>5

\* What a setter that takes effect does to the settings: the one it is for gets its
\* value, and no other one changes but nr_requests, and that only under scheduler and
\* queue_depth.
LEMMA StoreApplies ==
  ASSUME DOMAIN tuned = Settings, NEW k \in Settings, NEW v, tuned' = Store(k, v)
  PROVE  /\ DOMAIN tuned' = Settings
         /\ tuned'[k] = v \/ (k = "queue_depth" /\ ~HasQueueDepth)
         /\ \A j \in Settings : j # k =>
              tuned'[j] = tuned[j] \/ (j = "nr_requests" /\ k \in {"scheduler", "queue_depth"})
<1>1. CASE k = "scheduler"
  <2>1. tuned' = [tuned EXCEPT !["scheduler"] = v,
                    !["nr_requests"] = IF tuned["scheduler"] # v THEN 0 ELSE @]
    BY <1>1 DEF Store, Attribute
  <2> QED BY <1>1, <2>1 DEF Settings
<1>2. CASE k # "scheduler"
  <2>1. Attribute(k) \in Settings
    BY DEF Attribute, Settings
  <2>2. DOMAIN tuned' = Settings /\ \A j \in Settings : tuned'[j] = IF j = Attribute(k) THEN v ELSE tuned[j]
    BY <1>2, <2>1, SMT DEF Store, Settings
  <2> QED BY <1>2, <2>1, <2>2 DEF Attribute
<1> QED BY <1>1, <1>2

\* One setter of a profile's script: what was ahead of it is applied or was missed.
LEMMA SetKeepsTuneInv ==
  ASSUME TodoInv, TuneInv, NEW p \in Procs, Set(p)
  PROVE  TuneInv'
<1> DEFINE s == todo[p]
           c == Head(s)[2][1]
<1>0. PICK w : w = want[p]
  OBVIOUS
<1>1. /\ s # << >> /\ todo' = [todo EXCEPT ![p] = Tail(s)] /\ todo \in [Procs -> Seq(Steps \cup Fallback)]
      /\ Head(s)[1] = "set"
      /\ want' = want /\ started' = started
  BY DEF Set, Does, TodoInv
<1>a. \/ /\ tuned' = Store(c, Head(s)[2][2]) /\ missed' = missed
         /\ mixed' = mixed \cup {q \in Procs \ {p} : want[q] # NoWorkload}
      \/ tuned' = tuned /\ missed' = missed \cup {<<p, c>>} /\ mixed' = mixed
  BY DEF Set, Target
<1>2. s \in Seq(Steps \cup Fallback)
  BY <1>1
<1> HIDE DEF c
<1>3. DOMAIN tuned' = Settings
  <2>1. Head(s) \in Steps
    BY <1>1, <1>2, SMT DEF Fallback
  <2> DEFINE h == Head(s)
  <2>2. h \in PlainSteps /\ h[1] = "set"
    BY <1>1, <2>1 DEF Steps, BackupSteps
  <2> HIDE DEF h
  <2>3. PICK x \in Workloads, k \in Settings : h = Setter(x, k)
    BY <2>2, SMTT(40) DEF PlainSteps, DiskCommands, GroupCommands, ProcCommands, FileCommands
  <2>4. c \in Settings
    BY <2>3, SMT DEF Setter, h, c
  <2> QED BY <1>a, <2>4, StoreApplies DEF TuneInv
<1>4. want' \in [Procs -> Workloads \cup {NoWorkload}]
  BY <1>1 DEF TuneInv
<1>b. missed \subseteq missed' /\ (p \notin mixed' => p \notin mixed)
  BY <1>a
<1>5. ASSUME NEW q \in Procs, q # p, want[q] # NoWorkload
      PROVE  /\ q \in started' /\ todo'[q] = todo[q] /\ want'[q] = want[q]
             /\ q \notin mixed' => \A k \in Settings : Pending(q, k)' \/ Applied(q, want[q], k)'
  <2>1. q \in started' /\ todo'[q] = todo[q] /\ want'[q] = want[q]
    BY <1>1, <1>5 DEF TuneInv
  <2>2. ASSUME q \notin mixed', NEW k \in Settings
        PROVE  Pending(q, k)' \/ Applied(q, want[q], k)'
    <3>1. tuned' = tuned /\ q \notin mixed
      BY <1>a, <1>5, <2>2
    <3>2. Pending(q, k) \/ Applied(q, want[q], k)
      BY <1>5, <3>1 DEF TuneInv
    <3> QED BY <1>b, <2>1, <3>1, <3>2 DEF Pending, Applied
  <2> QED BY <2>1, <2>2
<1>6. ASSUME w # NoWorkload
      PROVE  /\ p \in started'
             /\ \A i \in 1..Len(todo'[p]) : \E k \in Settings : todo'[p][i] = Setter(w, k)
             /\ \A i \in 1..Len(todo'[p]) :
                  todo'[p][i] \in {Setter(w, "scheduler"), Setter(w, "queue_depth")} =>
                    \E j \in 1..Len(todo'[p]) : j > i /\ todo'[p][j] = Setter(w, "nr_requests")
             /\ p \notin mixed' => \A k \in Settings : Pending(p, k)' \/ Applied(p, w, k)'
  <2>1. /\ Head(s) = s[1] /\ 1 \in 1..Len(s) /\ Len(s) \in Nat
        /\ Len(Tail(s)) = Len(s) - 1
        /\ \A i \in 1..Len(Tail(s)) : i + 1 \in 1..Len(s) /\ Tail(s)[i] = s[i + 1]
        /\ \A i \in 2..Len(s) : i - 1 \in 1..Len(Tail(s)) /\ Tail(s)[i - 1] = s[i]
    BY <1>1, <1>2, TailShift
  <2>2. todo'[p] = Tail(s)
    BY <1>1
  <2>3. /\ w \in Workloads /\ p \in started
        /\ \A i \in 1..Len(s) : \E k \in Settings : s[i] = Setter(w, k)
        /\ \A i \in 1..Len(s) :
             s[i] \in {Setter(w, "scheduler"), Setter(w, "queue_depth")} =>
               \E j \in 1..Len(s) : j > i /\ s[j] = Setter(w, "nr_requests")
        /\ p \notin mixed => \A k \in Settings : Pending(p, k) \/ Applied(p, w, k)
    BY <1>0, <1>6 DEF TuneInv
  <2>4. PICK h \in Settings : s[1] = Setter(w, h)
    BY <2>1, <2>3
  <2>5. c = h /\ Head(s)[2][2] = perf_get_default_profile(w)[h]
    BY <1>1, <2>1, <2>4, SMT DEF Setter, c
  <2>6. /\ Applied(p, w, h)'
        /\ \A j \in Settings : j # h =>
             tuned'[j] = tuned[j] \/ (j = "nr_requests" /\ h \in {"scheduler", "queue_depth"})
    <3>1. CASE tuned' = Store(c, Head(s)[2][2])
      BY <2>5, <3>1, StoreApplies DEF TuneInv, Applied
    <3>2. CASE tuned' = tuned /\ <<p, c>> \in missed'
      BY <2>5, <3>2 DEF Applied
    <3> QED BY <1>a, <3>1, <3>2
  <2>7. ASSUME NEW k \in Settings, \E i \in 2..Len(s) : s[i] = Setter(w, k)
        PROVE  Pending(p, k)'
    BY <1>0, <1>1, <2>1, <2>2, <2>7 DEF Pending
  <2>8. ASSUME NEW i \in 1..Len(todo'[p])
        PROVE  \E k \in Settings : todo'[p][i] = Setter(w, k)
    <3>1. i + 1 \in 1..Len(s) /\ todo'[p][i] = s[i + 1]
      BY <2>1, <2>2, <2>8
    <3> QED BY <2>3, <3>1
  <2>9. ASSUME NEW i \in 1..Len(todo'[p]),
               todo'[p][i] \in {Setter(w, "scheduler"), Setter(w, "queue_depth")}
        PROVE  \E j \in 1..Len(todo'[p]) : j > i /\ todo'[p][j] = Setter(w, "nr_requests")
    <3>1. i + 1 \in 1..Len(s) /\ s[i + 1] \in {Setter(w, "scheduler"), Setter(w, "queue_depth")}
      BY <2>1, <2>2, <2>9
    <3>2. PICK j \in 1..Len(s) : j > i + 1 /\ s[j] = Setter(w, "nr_requests")
      BY <2>3, <3>1
    <3>3. j - 1 \in 1..Len(Tail(s)) /\ j - 1 > i /\ Tail(s)[j - 1] = Setter(w, "nr_requests")
      BY <2>1, <2>2, <3>2, SMT
    <3> QED BY <2>2, <3>3
  <2>10. ASSUME p \notin mixed', NEW k \in Settings
         PROVE  Pending(p, k)' \/ Applied(p, w, k)'
    <3>1. Pending(p, k) \/ Applied(p, w, k)
      BY <1>b, <2>3, <2>10
    <3>2. CASE k = h
      BY <2>6, <3>2
    <3>3. CASE k # h /\ Pending(p, k)
      <4>1. PICK i \in 1..Len(s) : s[i] = Setter(w, k)
        BY <1>0, <3>3 DEF Pending
      <4>2. Setter(w, k) # Setter(w, h)
        BY <3>3 DEF Setter
      <4>3. i \in 2..Len(s)
        BY <2>1, <2>4, <4>1, <4>2, SMTT(40)
      <4> QED BY <2>7, <4>1, <4>3
    <3>4. CASE k # h /\ Applied(p, w, k) /\ tuned'[k] = tuned[k]
      BY <1>b, <3>4 DEF Applied
    <3>5. CASE k = "nr_requests" /\ h \in {"scheduler", "queue_depth"}
      <4>1. PICK j \in 1..Len(s) : j > 1 /\ s[j] = Setter(w, "nr_requests")
        BY <2>1, <2>3, <2>4, <3>5
      <4>2. j \in 2..Len(s)
        BY <2>1, <4>1, SMT
      <4> QED BY <2>7, <3>5, <4>1, <4>2
    <3> QED BY <2>6, <3>1, <3>2, <3>3, <3>4, <3>5
  <2> QED BY <1>1, <2>3, <2>8, <2>9, <2>10
<1>7. want'[p] = w /\ \A q \in Procs : want'[q] = want[q]
  BY <1>0, <1>1
<1> HIDE DEF s
<1> QED BY <1>3, <1>4, <1>5, <1>6, <1>7, SMTT(40) DEF TuneInv

\* perf_apply_profile has a setter for every setting, nr_requests after the
\* scheduler and the queue depth.
LEMMA ProfileScript ==
  ASSUME NEW w
  PROVE  LET s == perf_apply_profile(w)
         IN  /\ Len(s) = 8
             /\ \A i \in 1..Len(s) : \E k \in Settings : s[i] = Setter(w, k)
             /\ \A i \in 1..Len(s) :
                  s[i] \in {Setter(w, "scheduler"), Setter(w, "queue_depth")} =>
                    \E j \in 1..Len(s) : j > i /\ s[j] = Setter(w, "nr_requests")
             /\ \A k \in Settings : \E i \in 1..Len(s) : s[i] = Setter(w, k)
<1> DEFINE s == perf_apply_profile(w)
<1>1. /\ Len(s) = 8
      /\ s[1] = Setter(w, "scheduler") /\ s[2] = Setter(w, "read_ahead_kb")
      /\ s[3] = Setter(w, "queue_depth") /\ s[4] = Setter(w, "nr_requests")
      /\ s[5] = Setter(w, "swappiness") /\ s[6] = Setter(w, "dirty_ratio")
      /\ s[7] = Setter(w, "dirty_background_ratio") /\ s[8] = Setter(w, "vfs_cache_pressure")
  BY DEF perf_apply_profile
<1> HIDE DEF s
<1>2. \A i \in 1..Len(s) : i \in {1, 2, 3, 4, 5, 6, 7, 8}
  BY <1>1, SMT
<1>3. \A j, k \in Settings : Setter(w, j) = Setter(w, k) => j = k
  BY DEF Setter
<1>4. \A i \in 1..Len(s) : \E k \in Settings : s[i] = Setter(w, k)
  BY <1>1, <1>2 DEF Settings
<1>5. \A k \in Settings : \E i \in 1..Len(s) : s[i] = Setter(w, k)
  BY <1>1, SMTT(40) DEF Settings
<1>6. \A i \in 1..Len(s) :
        s[i] \in {Setter(w, "scheduler"), Setter(w, "queue_depth")} =>
          \E j \in 1..Len(s) : j > i /\ s[j] = Setter(w, "nr_requests")
  <2> SUFFICES ASSUME NEW i \in 1..Len(s),
                      s[i] \in {Setter(w, "scheduler"), Setter(w, "queue_depth")}
               PROVE  i < 4
    BY <1>1, SMT
  <2>1. i \in {1, 2, 3, 4, 5, 6, 7, 8}
    BY <1>2
  <2> QED BY <1>1, <1>3, <2>1, SMTT(40) DEF Settings
<1> QED BY <1>1, <1>4, <1>5, <1>6 DEF s

\* A profile is applied by the setters of its script and by nothing else.
LEMMA NextTuneInv ==
  ASSUME TodoInv, TuneInv, Next
  PROVE  TuneInv'
<1>1. ASSUME UNCHANGED <<tuned, mixed, missed>>, started \subseteq started',
             want' \in [Procs -> Workloads \cup {NoWorkload}],
             \A q \in Procs : want'[q] # NoWorkload =>
               want'[q] = want[q] /\ todo'[q] = todo[q]
      PROVE  TuneInv'
  BY <1>1, SMT DEF TuneInv, Pending, Applied
<1>2. ASSUME NEW p \in Procs, Call(p) PROVE TuneInv'
  <2>1. /\ p \notin started /\ started' = started \cup {p}
        /\ \E s \in Seq(Steps) : todo' = [todo EXCEPT ![p] = s]
    BY <1>2, CallFrame DEF TodoInv
  <2>2. want[p] = NoWorkload
    BY <2>1 DEF TuneInv
  <2>3. \A q \in Procs : q # p => todo'[q] = todo[q]
    BY <2>1 DEF TodoInv
  <2>4. CASE UNCHANGED tuneVars
    <3>1. \A q \in Procs : want'[q] # NoWorkload => want'[q] = want[q] /\ todo'[q] = todo[q]
      BY <2>2, <2>3, <2>4 DEF tuneVars
    <3> QED BY <1>1, <2>1, <2>4, <3>1 DEF tuneVars, TuneInv
  <2>5. ASSUME NEW w \in Workloads, Start(p, perf_apply_profile(w)),
               want' = [want EXCEPT ![p] = w], UNCHANGED <<tuned, mixed, missed>>
        PROVE  TuneInv'
    <3> DEFINE s == perf_apply_profile(w)
    <3>1. todo'[p] = s /\ want'[p] = w
      BY <2>5 DEF Start, TodoInv, TuneInv
    <3>2. /\ \A i \in 1..Len(s) : \E k \in Settings : s[i] = Setter(w, k)
          /\ \A i \in 1..Len(s) :
               s[i] \in {Setter(w, "scheduler"), Setter(w, "queue_depth")} =>
                 \E j \in 1..Len(s) : j > i /\ s[j] = Setter(w, "nr_requests")
          /\ \A k \in Settings : \E i \in 1..Len(s) : s[i] = Setter(w, k)
      BY ProfileScript
    <3>3. \A q \in Procs : q # p => want'[q] = want[q] /\ todo'[q] = todo[q]
      BY <2>3, <2>5 DEF TuneInv
    <3>4. want' \in [Procs -> Workloads \cup {NoWorkload}] /\ DOMAIN tuned' = Settings
      BY <2>5 DEF TuneInv
    <3> HIDE DEF s
    <3>5. \A k \in Settings : Pending(p, k)'
      BY <3>1, <3>2 DEF Pending
    <3>6. ASSUME NEW q \in Procs, q # p, want'[q] # NoWorkload
          PROVE  /\ q \in started'
                 /\ \A i \in 1..Len(todo'[q]) : \E k \in Settings : todo'[q][i] = Setter(want'[q], k)
                 /\ \A i \in 1..Len(todo'[q]) :
                      todo'[q][i] \in {Setter(want'[q], "scheduler"), Setter(want'[q], "queue_depth")} =>
                        \E j \in 1..Len(todo'[q]) : j > i /\ todo'[q][j] = Setter(want'[q], "nr_requests")
                 /\ q \notin mixed' => \A k \in Settings : Pending(q, k)' \/ Applied(q, want[q], k)'
      BY <2>1, <2>5, <3>3, <3>6, SMTT(40) DEF TuneInv, Pending, Applied
    <3>7. p \in started'
      BY <2>1
    <3> QED BY <3>1, <3>2, <3>3, <3>4, <3>5, <3>6, <3>7, SMTT(40) DEF TuneInv
  <2>6. CASE CallPerf(p)
    BY <2>4, <2>5, <2>6 DEF CallPerf, tuneVars
  <2>7. CASE CallDevice(p) \/ CallBackup(p) \/ CallMemory(p) \/ CallSecurity(p)
    BY <2>4, <2>7 DEF CallDevice, CallBackup, CallMemory, CallSecurity
  <2> QED BY <1>2, <2>6, <2>7 DEF Call
<1>3. ASSUME NEW p \in Procs,
             \/ DeviceCommand(p) \/ SnapshotCommand(p) \/ FileCommand(p) \/ SecurityCommand(p)
             \/ Fail(p)
      PROVE  TuneInv'
  <2>1. todo[p] # << >> /\ Head(todo[p])[1] # "set"
    BY <1>3, OnlyTheirOwn
  <2>2. todo[p] \in Seq(Steps \cup Fallback)
    BY DEF TodoInv
  <2>3. Head(todo[p]) = todo[p][1] /\ 1 \in 1..Len(todo[p])
    BY <2>1, <2>2, TailShift
  <2>4. want[p] = NoWorkload
    BY <2>1, <2>3, SMT DEF TuneInv, Setter
  <2>5. UNCHANGED tuneVars /\ started' = started /\ \E s : todo' = [todo EXCEPT ![p] = s]
    <3>1. CASE Fail(p)
      BY <3>1 DEF Fail
    <3> QED BY <1>3, <3>1, DeviceFrame, SnapshotFrame, FileFrame, SecurityFrame DEF Advance
  <2>6. \A q \in Procs : q # p => todo'[q] = todo[q]
    BY <2>5 DEF TodoInv
  <2> QED BY <1>1, <2>4, <2>5, <2>6 DEF tuneVars, TuneInv
<1>4. ASSUME NEW p \in Procs, Crash(p) PROVE TuneInv'
  <2>1. /\ want' = [want EXCEPT ![p] = NoWorkload] /\ todo' = [todo EXCEPT ![p] = << >>]
        /\ UNCHANGED <<started, tuned, mixed, missed>>
    BY <1>4 DEF Crash
  <2>2. want' \in [Procs -> Workloads \cup {NoWorkload}]
    BY <2>1 DEF TuneInv
  <2>3. \A q \in Procs : want'[q] # NoWorkload => want'[q] = want[q] /\ todo'[q] = todo[q]
    BY <2>1 DEF TuneInv, TodoInv
  <2> QED BY <1>1, <2>1, <2>2, <2>3
<1>5. CASE Tick
  BY <1>1, <1>5 DEF Tick, tuneVars, TuneInv
<1> QED BY <1>2, <1>3, <1>4, <1>5, SetKeepsTuneInv DEF Next

-----------------------------------------------------------------------------
(* What a snapshot backup reads *)

\* p is about to copy from the mount point of the second u, or to unmount it.
InPlace(p, u) ==
  /\ todo[p] # << >>
  /\ \/ Head(todo[p])[1] = "copy" /\ Head(todo[p])[2][3] = u
     \/ Head(todo[p])[1] = "umount_snapshot" /\ Head(todo[p])[2] = u

\* In a script a copy comes right after the mount of the same snapshot, and an
\* unmount right after the copy from the same mount point.
Ordered(s) ==
  \A i \in 2..Len(s) :
    /\ s[i][1] = "copy" => s[i - 1][1] = "mount_snapshot" /\ s[i - 1][2] = s[i][2]
    /\ s[i][1] = "umount_snapshot" => s[i - 1][1] = "copy" /\ s[i - 1][2][3] = s[i][2]

\* While nobody has mounted over another's mount point, whoever is in place there
\* is alone, and the only thing mounted is the snapshot it will copy.
CopyInv ==
  /\ \A p \in Procs : Ordered(todo[p])
  /\ \A p \in Procs : \A u \in Times \ crowded : InPlace(p, u) =>
       /\ Len(stack[u]) = 1
       /\ Head(todo[p])[1] = "copy" =>
            Head(stack[u]) = <<Head(todo[p])[2][1], Head(todo[p])[2][2]>>
  /\ \A p, q \in Procs : \A u \in Times \ crowded : InPlace(p, u) /\ InPlace(q, u) => p = q
  /\ CopiesOwnSnapshot

\* After a step the script is still in order, and its new head is a copy only
\* after a mount, an unmount only after a copy.
LEMMA TailOrdered ==
  ASSUME NEW S, NEW s \in Seq(S), s # << >>, Ordered(s)
  PROVE  /\ Ordered(Tail(s))
         /\ Tail(s) # << >> =>
              /\ Head(Tail(s))[1] = "copy" => Head(s)[1] = "mount_snapshot" /\ Head(s)[2] = Head(Tail(s))[2]
              /\ Head(Tail(s))[1] = "umount_snapshot" =>
                   Head(s)[1] = "copy" /\ Head(s)[2][3] = Head(Tail(s))[2]
<1>1. /\ Head(s) = s[1] /\ 1 \in 1..Len(s) /\ Len(s) \in Nat
      /\ Len(Tail(s)) = Len(s) - 1
      /\ \A i \in 1..Len(Tail(s)) : i + 1 \in 1..Len(s) /\ Tail(s)[i] = s[i + 1]
  BY TailShift
<1>2. ASSUME NEW i \in 2..Len(Tail(s))
      PROVE  /\ Tail(s)[i][1] = "copy" =>
                  Tail(s)[i - 1][1] = "mount_snapshot" /\ Tail(s)[i - 1][2] = Tail(s)[i][2]
             /\ Tail(s)[i][1] = "umount_snapshot" =>
                  Tail(s)[i - 1][1] = "copy" /\ Tail(s)[i - 1][2][3] = Tail(s)[i][2]
  <2>1. Tail(s)[i] = s[i + 1] /\ Tail(s)[i - 1] = s[i] /\ i + 1 \in 2..Len(s) /\ (i + 1) - 1 = i
    <3>1. i \in 1..Len(Tail(s)) /\ i - 1 \in 1..Len(Tail(s)) /\ (i - 1) + 1 = i
      BY <1>1, SMT
    <3> QED BY <1>1, <3>1, SMT
  <2> QED BY <2>1 DEF Ordered
<1>3. ASSUME Tail(s) # << >>
      PROVE  /\ Head(Tail(s))[1] = "copy" => s[1][1] = "mount_snapshot" /\ s[1][2] = Head(Tail(s))[2]
             /\ Head(Tail(s))[1] = "umount_snapshot" =>
                  s[1][1] = "copy" /\ s[1][2][3] = Head(Tail(s))[2]
  <2>1. Tail(s) \in Seq(S)
    BY SMT
  <2>2. Head(Tail(s)) = Tail(s)[1] /\ 1 \in 1..Len(Tail(s))
    BY <1>3, <2>1, TailShift
  <2>3. Head(Tail(s)) = s[2] /\ 2 \in 2..Len(s) /\ 2 - 1 = 1
    BY <1>1, <2>2, SMT
  <2> QED BY <2>3 DEF Ordered
<1> QED BY <1>1, <1>2, <1>3 DEF Ordered

\* Every script that is called or rolled back to is in order and begins with
\* another step.
LEMMA ScriptsOrdered ==
  /\ \A s \in Seq(PlainSteps) : Ordered(s) /\ (s # << >> => Head(s)[1] \notin {"copy", "umount_snapshot"})
  /\ \A v, t, u : LET s == backup_create_with_snapshot(v, t, u)
                  IN  Ordered(s) /\ Head(s)[1] = "snapshot"
  /\ \A x : LET s == Rollback(x)
            IN  Ordered(s) /\ (s # << >> => Head(s)[1] \notin {"copy", "umount_snapshot"})
<1>1. \A x \in PlainSteps : x[1] \notin {"copy", "umount_snapshot"}
  BY SMT DEF PlainSteps, DiskCommands, GroupCommands, ProcCommands, FileCommands, Setter
<1>2. ASSUME NEW s \in Seq(PlainSteps)
      PROVE  Ordered(s) /\ (s # << >> => Head(s)[1] \notin {"copy", "umount_snapshot"})
  <2>1. \A i \in 2..Len(s) : s[i] \in PlainSteps
    BY SMT
  <2>2. s # << >> => Head(s) \in PlainSteps
    BY SMT
  <2> QED BY <1>1, <2>1, <2>2 DEF Ordered
<1>3. ASSUME NEW v, NEW t, NEW u
      PROVE  LET s == backup_create_with_snapshot(v, t, u)
             IN  Ordered(s) /\ Head(s)[1] = "snapshot"
  <2> DEFINE s == backup_create_with_snapshot(v, t, u)
  <2>1. /\ Len(s) = 6 /\ Head(s)[1] = "snapshot"
        /\ s[2] = <<"mount_snapshot", <<v, t, u>> >> /\ s[3] = <<"copy", <<v, t, u>> >>
        /\ s[4] = <<"umount_snapshot", u>> /\ s[5][1] = "remove_snapshot" /\ s[6][1] = "rmdir"
    BY SMT DEF backup_create_with_snapshot
  <2> HIDE DEF s
  <2>2. \A i \in 2..Len(s) : i \in {2, 3, 4, 5, 6}
    BY <2>1, SMTT(40)
  <2>3. Ordered(s)
    BY <2>1, <2>2, SMTT(40) DEF Ordered
  <2> QED BY <2>1, <2>3 DEF s
<1>4. ASSUME NEW x
      PROVE  LET s == Rollback(x)
             IN  Ordered(s) /\ (s # << >> => Head(s)[1] \notin {"copy", "umount_snapshot"})
  BY SMT DEF Rollback, Ordered
<1> QED BY <1>2, <1>3, <1>4

\* The three steps between which the snapshot is mounted.
LEMMA MountedKeepsCopyInv ==
  ASSUME TodoInv, SnapInv, CopyInv, NEW p \in Procs,
         MountSnapshot(p) \/ Copy(p) \/ UmountSnapshot(p)
  PROVE  CopyInv'
<1> DEFINE s == todo[p]
<1>1. /\ s \in Seq(Steps \cup Fallback) /\ s # << >> /\ Ordered(s)
      /\ todo' = [todo EXCEPT ![p] = Tail(s)]
  BY DEF TodoInv, CopyInv, MountSnapshot, Copy, UmountSnapshot, Does
<1>2. /\ Ordered(Tail(s))
      /\ Tail(s) # << >> =>
           /\ Head(Tail(s))[1] = "copy" => Head(s)[1] = "mount_snapshot" /\ Head(s)[2] = Head(Tail(s))[2]
           /\ Head(Tail(s))[1] = "umount_snapshot" =>
                Head(s)[1] = "copy" /\ Head(s)[2][3] = Head(Tail(s))[2]
  BY <1>1, TailOrdered
<1>3. todo'[p] = Tail(s) /\ \A q \in Procs : q # p => todo'[q] = todo[q]
  BY <1>1 DEF TodoInv
<1>4. \A q \in Procs : Ordered(todo'[q])
  BY <1>2, <1>3 DEF CopyInv
<1>5. \A q \in Procs : \A u : q # p => (InPlace(q, u)' <=> InPlace(q, u))
  BY <1>3 DEF InPlace
<1>6. \A u \in Times : stack[u] \in Seq(snaps)
  BY DEF SnapInv
<1>7. \A q \in Procs : \A u \in Times \ crowded : InPlace(q, u) => stack[u] # << >>
  BY <1>6, SMT DEF CopyInv
<1>8. CASE MountSnapshot(p)
  <2> DEFINE x == <<Target(p)[1], Target(p)[2]>>
             w == Target(p)[3]
  <2>1. /\ w \in Times /\ Head(s)[1] = "mount_snapshot" /\ Head(s)[2] = Target(p) /\ x \in snaps
        /\ stack' = [stack EXCEPT ![w] = <<x>> \o @]
        /\ crowded' = IF stack[w] = << >> THEN crowded ELSE crowded \cup {w}
        /\ copied' = copied
    BY <1>8, TargetIsSnapshot DEF MountSnapshot, Does, Target
  <2>2. \A u : InPlace(p, u)' => u = w /\ Head(todo'[p])[1] = "copy" /\ Head(todo'[p])[2] = Target(p)
    BY <1>2, <1>3, <2>1 DEF InPlace
  <2> HIDE DEF w, x, s
  <2>3. \A u \in Times \ crowded' : u \notin crowded /\ (u = w => stack[u] = << >>)
    BY <2>1
  <2>4. stack[w] = << >> => Len(stack'[w]) = 1 /\ Head(stack'[w]) = x
    BY <1>6, <2>1, SMT DEF SnapInv
  <2>5. \A u \in Times : u # w => stack'[u] = stack[u]
    BY <2>1 DEF SnapInv
  <2>6. ASSUME NEW q \in Procs, NEW u \in Times \ crowded', InPlace(q, u)'
        PROVE  /\ Len(stack'[u]) = 1
               /\ Head(todo'[q])[1] = "copy" =>
                    Head(stack'[u]) = <<Head(todo'[q])[2][1], Head(todo'[q])[2][2]>>
               /\ (u = w <=> q = p)
    <3>1. CASE q = p
      BY <2>2, <2>3, <2>4, <2>6, <3>1 DEF x
    <3>2. CASE q # p
      <4>1. InPlace(q, u) /\ u \notin crowded /\ todo'[q] = todo[q]
        BY <1>3, <1>5, <2>3, <2>6, <3>2
      <4>2. u # w
        BY <1>7, <2>3, <4>1
      <4> QED BY <2>5, <3>2, <4>1, <4>2 DEF CopyInv
    <3> QED BY <3>1, <3>2
  <2>7. ASSUME NEW q \in Procs, NEW r \in Procs, NEW u \in Times \ crowded',
               InPlace(q, u)', InPlace(r, u)'
        PROVE  q = r
    <3>1. CASE q = p \/ r = p
      BY <2>6, <2>7, <3>1
    <3>2. CASE q # p /\ r # p
      BY <1>5, <2>3, <2>7, <3>2 DEF CopyInv
    <3> QED BY <3>1, <3>2
  <2>8. CopiesOwnSnapshot'
    BY <2>1 DEF CopyInv, CopiesOwnSnapshot
  <2> QED BY <1>4, <2>6, <2>7, <2>8 DEF CopyInv
<1>9. CASE Copy(p)
  <2> DEFINE x == <<Target(p)[1], Target(p)[2]>>
             w == Target(p)[3]
  <2>1. /\ w \in Times /\ Head(s)[1] = "copy" /\ Head(s)[2] = Target(p)
        /\ copied' = copied \cup {[point |-> w, own |-> stack[w] # << >> /\ Head(stack[w]) = x]}
        /\ UNCHANGED <<stack, crowded>>
    BY <1>9, TargetIsSnapshot DEF Copy, Does, Target
  <2>2. InPlace(p, w)
    BY <1>1, <2>1 DEF InPlace
  <2>3. \A u : InPlace(p, u)' => u = w /\ Head(todo'[p])[1] = "umount_snapshot"
    BY <1>2, <1>3, <2>1 DEF InPlace
  <2>4. w \in crowded \/ (stack[w] # << >> /\ Head(stack[w]) = x)
    BY <1>7, <2>1, <2>2 DEF CopyInv
  <2> HIDE DEF w, x, s
  <2>5. CopiesOwnSnapshot'
    <3>1. PICK b : b = (stack[w] # << >> /\ Head(stack[w]) = x)
      OBVIOUS
    <3>2. copied' = copied \cup {[point |-> w, own |-> b]} /\ crowded' = crowded
      BY <2>1, <3>1
    <3>3. w \in crowded \/ b
      BY <2>4, <3>1
    <3> QED BY <3>2, <3>3, SMT DEF CopyInv, CopiesOwnSnapshot
  <2>6. \A q \in Procs : \A u : InPlace(q, u)' => InPlace(q, u)
    BY <1>5, <2>2, <2>3
  <2>7. \A q, r \in Procs : \A u \in Times \ crowded' : InPlace(q, u)' /\ InPlace(r, u)' => q = r
    BY <2>1, <2>6 DEF CopyInv
  <2>8. ASSUME NEW q \in Procs, NEW u \in Times \ crowded', InPlace(q, u)'
        PROVE  /\ Len(stack'[u]) = 1
               /\ Head(todo'[q])[1] = "copy" =>
                    Head(stack'[u]) = <<Head(todo'[q])[2][1], Head(todo'[q])[2][2]>>
    BY <1>3, <2>1, <2>3, <2>6, <2>8 DEF CopyInv
  <2> QED BY <1>4, <2>5, <2>7, <2>8 DEF CopyInv
<1>10. CASE UmountSnapshot(p)
  <2> DEFINE w == Target(p)
  <2>1. /\ w \in Times /\ Head(s)[1] = "umount_snapshot" /\ Head(s)[2] = w
        /\ stack' = [stack EXCEPT ![w] = Tail(@)]
        /\ UNCHANGED <<copied, crowded>>
    BY <1>10, TargetIsSnapshot DEF UmountSnapshot, Does, Target
  <2>2. InPlace(p, w) /\ \A u : ~InPlace(p, u)'
    BY <1>1, <1>2, <1>3, <2>1 DEF InPlace
  <2> HIDE DEF w, s
  <2>3. CopiesOwnSnapshot'
    BY <2>1 DEF CopyInv, CopiesOwnSnapshot
  <2>4. \A q \in Procs : \A u : InPlace(q, u)' => q # p /\ InPlace(q, u)
    BY <1>5, <2>2
  <2>5. \A q, r \in Procs : \A u \in Times \ crowded' : InPlace(q, u)' /\ InPlace(r, u)' => q = r
    BY <2>1, <2>4 DEF CopyInv
  <2>6. ASSUME NEW q \in Procs, NEW u \in Times \ crowded', InPlace(q, u)'
        PROVE  /\ Len(stack'[u]) = 1
               /\ Head(todo'[q])[1] = "copy" =>
                    Head(stack'[u]) = <<Head(todo'[q])[2][1], Head(todo'[q])[2][2]>>
    <3>1. q # p /\ InPlace(q, u) /\ u \in Times \ crowded
      BY <2>1, <2>4, <2>6
    <3>2. u # w
      BY <2>2, <3>1 DEF CopyInv
    <3>3. stack'[u] = stack[u] /\ todo'[q] = todo[q]
      BY <1>3, <2>1, <3>1, <3>2 DEF SnapInv
    <3> QED BY <3>1, <3>3 DEF CopyInv
  <2> QED BY <1>4, <2>3, <2>5, <2>6 DEF CopyInv
<1> QED BY <1>8, <1>9, <1>10

\* Every other step leaves its process out of place, and the mounts alone.
LEMMA NextCopyInv ==
  ASSUME TodoInv, SnapInv, CopyInv, Next
  PROVE  CopyInv'
<1>1. ASSUME NEW p \in Procs, NEW s, todo' = [todo EXCEPT ![p] = s], Ordered(s),
             s # << >> => Head(s)[1] \notin {"copy", "umount_snapshot"},
             UNCHANGED <<stack, crowded, copied>>
      PROVE  CopyInv'
  <2>1. todo'[p] = s /\ \A q \in Procs : q # p => todo'[q] = todo[q]
    BY <1>1 DEF TodoInv
  <2>2. \A q \in Procs : \A u : InPlace(q, u)' => q # p /\ InPlace(q, u)
    BY <1>1, <2>1 DEF InPlace
  <2>3. CopiesOwnSnapshot'
    BY <1>1 DEF CopyInv, CopiesOwnSnapshot
  <2>4. \A q \in Procs : Ordered(todo'[q])
    BY <1>1, <2>1 DEF CopyInv
  <2>5. \A q, r \in Procs : \A u \in Times \ crowded' : InPlace(q, u)' /\ InPlace(r, u)' => q = r
    BY <1>1, <2>2 DEF CopyInv
  <2>6. ASSUME NEW q \in Procs, NEW u \in Times \ crowded', InPlace(q, u)'
        PROVE  /\ Len(stack'[u]) = 1
               /\ Head(todo'[q])[1] = "copy" =>
                    Head(stack'[u]) = <<Head(todo'[q])[2][1], Head(todo'[q])[2][2]>>
    BY <1>1, <2>1, <2>2, <2>6 DEF CopyInv
  <2> QED BY <2>3, <2>4, <2>5, <2>6 DEF CopyInv
<1>2. ASSUME NEW p \in Procs, todo[p] # << >>, todo' = [todo EXCEPT ![p] = Tail(todo[p])],
             Head(todo[p])[1] \notin {"mount_snapshot", "copy"},
             UNCHANGED <<stack, crowded, copied>>
      PROVE  CopyInv'
  <2>1. todo[p] \in Seq(Steps \cup Fallback) /\ Ordered(todo[p])
    BY DEF TodoInv, CopyInv
  <2>2. /\ Ordered(Tail(todo[p]))
        /\ Tail(todo[p]) # << >> => Head(Tail(todo[p]))[1] \notin {"copy", "umount_snapshot"}
    BY <1>2, <2>1, TailOrdered
  <2> QED BY <1>1, <1>2, <2>2
<1>3. ASSUME NEW p \in Procs, Call(p) PROVE CopyInv'
  <2>1. UNCHANGED <<stack, crowded, copied>>
    BY <1>3, CallFrame DEF TodoInv, snapVars
  <2>2. CASE CallBackup(p)
    <3>1. PICK v, u : Start(p, backup_create_with_snapshot(v, now, u))
      BY <2>2 DEF CallBackup
    <3>2. /\ Ordered(backup_create_with_snapshot(v, now, u))
          /\ Head(backup_create_with_snapshot(v, now, u))[1] = "snapshot"
      BY ScriptsOrdered
    <3> QED BY <1>1, <2>1, <3>1, <3>2 DEF Start
  <2>3. CASE ~CallBackup(p)
    <3>1. PICK s \in Seq(PlainSteps) : Start(p, s)
      BY <1>3, <2>3, PlainCall DEF Call
    <3>2. Ordered(s) /\ (s # << >> => Head(s)[1] \notin {"copy", "umount_snapshot"})
      BY ScriptsOrdered
    <3> QED BY <1>1, <2>1, <3>1, <3>2 DEF Start
  <2> QED BY <2>2, <2>3
<1>4. ASSUME NEW p \in Procs, DeviceCommand(p) \/ FileCommand(p) \/ Set(p) \/ SecurityCommand(p)
      PROVE  CopyInv'
  <2>1. Advance(p) /\ UNCHANGED snapVars
    BY <1>4, DeviceFrame, FileFrame, SetFrame, SecurityFrame
  <2>2. Head(todo[p])[1] \notin {"mount_snapshot", "copy"}
    <3>1. CASE Set(p)
      BY <3>1 DEF Set, Does
    <3> QED BY <1>4, <3>1, OnlyTheirOwn
  <2> QED BY <1>2, <2>1, <2>2 DEF Advance, snapVars
<1>5. ASSUME NEW p \in Procs, SnapshotCommand(p) PROVE CopyInv'
  <2>1. CASE Snapshot(p) \/ RemoveSnapshot(p) \/ Rmdir(p)
    <3>1. Head(todo[p])[1] \notin {"mount_snapshot", "copy"} /\ UNCHANGED <<stack, crowded, copied>>
      BY <2>1 DEF Snapshot, RemoveSnapshot, Rmdir, Does, snapVars
    <3> QED BY <1>2, <1>5, <3>1, SnapshotFrame DEF Advance
  <2> QED BY <1>5, <2>1, MountedKeepsCopyInv DEF SnapshotCommand
<1>6. ASSUME NEW p \in Procs, Fail(p) PROVE CopyInv'
  <2> DEFINE s == Head(todo[p])
  <2>1. /\ todo[p] # << >> /\ s[1] # "copy" /\ UNCHANGED <<stack, crowded, copied>>
        /\ todo' = [todo EXCEPT ![p] = IF s[1] \in Fatal THEN Rollback(s) ELSE Tail(@)]
    BY <1>6 DEF Fail, snapVars
  <2>2. CASE s[1] \in Fatal
    <3>1. Ordered(Rollback(s)) /\ (Rollback(s) # << >> => Head(Rollback(s))[1] \notin {"copy", "umount_snapshot"})
      BY ScriptsOrdered
    <3> HIDE DEF s
    <3> QED BY <1>1, <2>1, <2>2, <3>1
  <2>3. CASE s[1] \notin Fatal
    <3>1. s[1] # "mount_snapshot"
      BY <2>3 DEF Fatal
    <3> QED BY <1>2, <2>1, <2>3, <3>1
  <2> QED BY <2>2, <2>3
<1>7. ASSUME NEW p \in Procs, Crash(p) PROVE CopyInv'
  <2>1. Ordered(<< >>)
    BY SMT DEF Ordered
  <2> QED BY <1>1, <1>7, <2>1 DEF Crash, snapVars
<1>8. CASE Tick
  BY <1>8 DEF Tick, CopyInv, InPlace, CopiesOwnSnapshot
<1> QED BY <1>3, <1>4, <1>5, <1>6, <1>7, <1>8 DEF Next

-----------------------------------------------------------------------------
(* What the calls make is given back *)

\* What the step s makes that has to be released later.  mkswap goes on with the swap
\* file that dd has made.
Makes(s) ==
  CASE s[1] = "snapshot"         -> {<<"snapshot", s[2]>>}
    [] s[1] = "mount_snapshot"   -> {<<"mount", s[2][3]>>, <<"file", MountPoint(s[2][3])>>}
    [] s[1] \in {"dd", "mkswap"} -> {<<"file", SwapFile>>}
    [] s[1] = "mkstemp"          -> {<<"file", PassFile(s[2])>>}
    [] s[1] = "mkstemp_two"      -> {<<"file", OldFile(s[2])>>, <<"file", NewFile(s[2])>>}
    [] s[1] = "write_test"       -> {<<"file", WriteTest>>}
    [] s[1] = "cp"               -> {<<"file", ReadTest>>}
    [] OTHER                     -> {}

\* What the steps of a script release.
ReleasedBy(s) == UNION {Releases(s[i]) : i \in 1..Len(s)}

\* What is released even when the step s fails and ends the call.
Undone(s) == ReleasedBy(Rollback(s))

\* What a script releases whatever step of it fails.
Due(s) ==
  IF s = << >> THEN {}
  ELSE IF Head(s)[1] \in Fatal THEN Undone(Head(s)) ELSE ReleasedBy(s)

\* A script is complete when what a step makes is released by a later one, and the
\* steps that end the call come first: what is undone when one of them fails is what
\* the steps before it have made, and is released by a later step otherwise.
Complete(s) ==
  /\ \A i \in 1..Len(s) : \A x \in Makes(s[i]) :
       \E j \in 1..Len(s) : j > i /\ x \in Releases(s[j])
  /\ \A i \in 1..Len(s) : s[i][1] \in Fatal =>
       /\ \A j \in 1..Len(s) : j < i => s[j][1] \in Fatal
       /\ \A x \in Undone(s[i]) : \E j \in 1..Len(s) : j >= i /\ x \in Releases(s[j])
       /\ i > 1 => Makes(s[i - 1]) \cup Undone(s[i - 1]) \subseteq Undone(s[i])

\* The calls that will unmount something at u.
Mounters(u) == {p \in Procs : <<"mount", u>> \in Due(todo[p])}

\* The snapshots and files to account for: Existing without the mounts.
Kept ==
  {<<"snapshot", x>> : x \in snaps}
    \cup {<<"file", f>> : f \in {g \in files :
              g[1] # "mount_dir" /\ (g = SwapFile => "on" \notin swap)}}

\* n things can be given to as many different elements of S.
Fits(n, S) == \E f \in [1..n -> S] : \A i, j \in 1..n : f[i] = f[j] => i = j

\* The inductive invariant.  The scripts are complete; a snapshot or a file is left or
\* due.  That says too little of mounts, as several calls may mount at the same second
\* and the first unmount there takes away the topmost, whoever mounted it: there are
\* at most as many mounts as calls that will unmount there, or one counts as left.
ScriptInv == \A p \in Procs : Complete(todo[p])

KeptInv == Kept \subseteq left \cup UNION {Due(todo[p]) : p \in Procs}

Bounded(u) == <<"mount", u>> \in left \/ Fits(Len(stack[u]), Mounters(u))

MountInv == \A u \in Times : Bounded(u)

\* What a script releases: what its first step releases, and the steps after it.
LEMMA ReleasedByTail ==
  ASSUME NEW S, NEW s \in Seq(S), s # << >>
  PROVE  ReleasedBy(s) = Releases(Head(s)) \cup ReleasedBy(Tail(s))
<1>1. /\ Head(s) = s[1] /\ 1 \in 1..Len(s)
      /\ \A i \in 1..Len(Tail(s)) : i + 1 \in 1..Len(s) /\ Tail(s)[i] = s[i + 1]
      /\ \A i \in 2..Len(s) : i - 1 \in 1..Len(Tail(s)) /\ Tail(s)[i - 1] = s[i]
  BY TailShift
<1>2. \A i \in 1..Len(s) : i = 1 \/ i \in 2..Len(s)
  BY SMT
<1>3. ASSUME NEW x \in ReleasedBy(s) PROVE x \in Releases(Head(s)) \cup ReleasedBy(Tail(s))
  <2>1. PICK i \in 1..Len(s) : x \in Releases(s[i])
    BY <1>3 DEF ReleasedBy
  <2>2. CASE i = 1
    BY <1>1, <2>1, <2>2
  <2>3. CASE i \in 2..Len(s)
    BY <1>1, <2>1, <2>3 DEF ReleasedBy
  <2> QED BY <1>2, <2>2, <2>3
<1>4. ASSUME NEW x \in Releases(Head(s)) \cup ReleasedBy(Tail(s)) PROVE x \in ReleasedBy(s)
  BY <1>1, <1>4 DEF ReleasedBy
<1> QED BY <1>3, <1>4

\* A step that succeeds, or fails without ending the call, leaves a complete script.
\* Nothing that was due is lost save what the step itself releases, and what it makes
\* is due from then on.
LEMMA DueAfterStep ==
  ASSUME NEW S, NEW s \in Seq(S), s # << >>, Complete(s)
  PROVE  /\ Complete(Tail(s))
         /\ Due(s) \subseteq Due(Tail(s)) \cup Releases(Head(s))
         /\ Makes(Head(s)) \subseteq Due(Tail(s))
         /\ Due(s) \subseteq ReleasedBy(s)
<1> DEFINE r == Tail(s)
<1>1. /\ Head(s) = s[1] /\ 1 \in 1..Len(s) /\ Len(s) \in Nat
      /\ Len(r) = Len(s) - 1
      /\ \A i \in 1..Len(r) : i + 1 \in 1..Len(s) /\ r[i] = s[i + 1]
      /\ \A i \in 2..Len(s) : i - 1 \in 1..Len(r) /\ r[i - 1] = s[i]
  BY TailShift
<1>2. r \in Seq(S)
  BY SMT
<1>3. r # << >> => Head(r) = r[1] /\ 1 \in 1..Len(r) /\ Head(r) = s[2] /\ 2 \in 1..Len(s)
  BY <1>1, <1>2, TailShift, SMT
<1>4. ReleasedBy(s) = Releases(Head(s)) \cup ReleasedBy(r)
  BY ReleasedByTail
<1> HIDE DEF r
<1>5. Complete(r)
  <2>1. ASSUME NEW i \in 1..Len(r), NEW x \in Makes(r[i])
        PROVE  \E j \in 1..Len(r) : j > i /\ x \in Releases(r[j])
    <3>1. PICK j \in 1..Len(s) : j > i + 1 /\ x \in Releases(s[j])
      BY <1>1, <2>1 DEF Complete
    <3>2. j \in 2..Len(s) /\ j - 1 > i
      BY <1>1, <3>1, SMT
    <3> QED BY <1>1, <3>1, <3>2
  <2>2. ASSUME NEW i \in 1..Len(r), r[i][1] \in Fatal
        PROVE  /\ \A j \in 1..Len(r) : j < i => r[j][1] \in Fatal
               /\ \A x \in Undone(r[i]) : \E j \in 1..Len(r) : j >= i /\ x \in Releases(r[j])
               /\ i > 1 => Makes(r[i - 1]) \cup Undone(r[i - 1]) \subseteq Undone(r[i])
    <3>1. i + 1 \in 1..Len(s) /\ r[i] = s[i + 1] /\ s[i + 1][1] \in Fatal
      BY <1>1, <2>2
    <3>2. ASSUME NEW j \in 1..Len(r), j < i PROVE r[j][1] \in Fatal
      <4>1. j + 1 \in 1..Len(s) /\ j + 1 < i + 1 /\ r[j] = s[j + 1]
        BY <1>1, <3>2, SMT
      <4> QED BY <3>1, <4>1 DEF Complete
    <3>3. ASSUME NEW x \in Undone(r[i]) PROVE \E j \in 1..Len(r) : j >= i /\ x \in Releases(r[j])
      <4>1. PICK j \in 1..Len(s) : j >= i + 1 /\ x \in Releases(s[j])
        BY <3>1, <3>3 DEF Complete
      <4>2. j \in 2..Len(s) /\ j - 1 >= i
        BY <1>1, <4>1, SMT
      <4> QED BY <1>1, <4>1, <4>2
    <3>4. ASSUME i > 1 PROVE Makes(r[i - 1]) \cup Undone(r[i - 1]) \subseteq Undone(r[i])
      <4>1. i - 1 \in 1..Len(r) /\ (i - 1) + 1 = i /\ (i + 1) - 1 = i /\ i + 1 > 1
        BY <3>4, SMTT(40)
      <4>2. r[i - 1] = s[i]
        BY <1>1, <4>1
      <4>3. Makes(s[(i + 1) - 1]) \cup Undone(s[(i + 1) - 1]) \subseteq Undone(s[i + 1])
        BY <3>1, <4>1 DEF Complete
      <4> QED BY <3>1, <4>1, <4>2, <4>3
    <3> QED BY <3>2, <3>3, <3>4
  <2> QED BY <2>1, <2>2 DEF Complete
<1>6. ASSUME Head(s)[1] \in Fatal
      PROVE  Undone(Head(s)) \subseteq ReleasedBy(s)
  <2> SUFFICES ASSUME NEW x \in Undone(Head(s)) PROVE x \in ReleasedBy(s)
    OBVIOUS
  <2>1. PICK j \in 1..Len(s) : x \in Releases(s[j])
    BY <1>1, <1>6 DEF Complete
  <2> QED BY <2>1 DEF ReleasedBy
<1>7. Makes(Head(s)) \subseteq ReleasedBy(r)
  <2> SUFFICES ASSUME NEW x \in Makes(Head(s)) PROVE x \in ReleasedBy(r)
    OBVIOUS
  <2>1. PICK j \in 1..Len(s) : j > 1 /\ x \in Releases(s[j])
    BY <1>1 DEF Complete
  <2>2. j \in 2..Len(s)
    BY <1>1, <2>1, SMTT(40)
  <2> QED BY <1>1, <2>1, <2>2 DEF ReleasedBy
<1>8. r = << >> => ReleasedBy(r) = {}
  <2>1. r = << >> => 1..Len(r) = {}
    BY SMT
  <2> QED BY <2>1 DEF ReleasedBy
<1>9. ASSUME r # << >>, Head(r)[1] \in Fatal
      PROVE  /\ Head(s)[1] \in Fatal
             /\ Makes(Head(s)) \cup Undone(Head(s)) \subseteq Undone(Head(r))
  <2>1. /\ s[2][1] \in Fatal /\ 2 \in 1..Len(s) /\ 1 < 2 /\ 2 > 1 /\ 2 - 1 = 1
    BY <1>3, <1>9, SMT
  <2>2. Makes(s[2 - 1]) \cup Undone(s[2 - 1]) \subseteq Undone(s[2])
    BY <2>1 DEF Complete
  <2> QED BY <1>1, <1>3, <1>9, <2>1, <2>2 DEF Complete
<1>10. CASE r # << >> /\ Head(r)[1] \in Fatal
  BY <1>4, <1>5, <1>6, <1>9, <1>10 DEF Due, r
<1>11. CASE ~(r # << >> /\ Head(r)[1] \in Fatal)
  <2>1. Due(r) = ReleasedBy(r)
    BY <1>8, <1>11 DEF Due
  <2> QED BY <1>4, <1>5, <1>6, <1>7, <2>1 DEF Due, r
<1> QED BY <1>10, <1>11

\* The commands that make something, or end a call with something to undo.
Makers ==
  {"snapshot", "mount_snapshot", "dd", "mkswap", "swapon", "mkstemp", "mkstemp_two",
   "write_test", "cp"}

\* A script that makes nothing and in which only the first step can end the call.
Quiet(s) == \A i \in 1..Len(s) : s[i][1] \notin Makers /\ (s[i][1] \in Fatal => i = 1)

\* What the steps make and release, command by command.
LEMMA Accounts ==
  ASSUME NEW x
  PROVE  /\ Makes(<<"snapshot", x>>) = {<<"snapshot", x>>}
         /\ Makes(<<"mount_snapshot", x>>) = {<<"mount", x[3]>>, <<"file", MountPoint(x[3])>>}
         /\ Makes(<<"dd", x>>) = {<<"file", SwapFile>>}
         /\ Makes(<<"mkswap", x>>) = {<<"file", SwapFile>>}
         /\ Makes(<<"swapon", x>>) = {}
         /\ Makes(<<"mkstemp", x>>) = {<<"file", PassFile(x)>>}
         /\ Makes(<<"mkstemp_two", x>>) = {<<"file", OldFile(x)>>, <<"file", NewFile(x)>>}
         /\ Makes(<<"write_test", x>>) = {<<"file", WriteTest>>}
         /\ Makes(<<"cp", x>>) = {<<"file", ReadTest>>}
         /\ Releases(<<"remove_snapshot", x>>) = {<<"snapshot", x>>}
         /\ Releases(<<"umount_snapshot", x>>) = {<<"mount", x>>}
         /\ Releases(<<"unlink", x>>) = {<<"file", x>>}
         /\ Releases(<<"rmdir", x>>) = {<<"file", x>>}
         /\ Releases(<<"mkswap", x>>) = {<<"file", SwapFile>>}
         /\ Releases(<<"swapon", x>>) = {<<"file", SwapFile>>}
<1>1. /\ Makes(<<"snapshot", x>>) = {<<"snapshot", x>>}
      /\ Makes(<<"mount_snapshot", x>>) = {<<"mount", x[3]>>, <<"file", MountPoint(x[3])>>}
      /\ Makes(<<"dd", x>>) = {<<"file", SwapFile>>}
      /\ Makes(<<"mkswap", x>>) = {<<"file", SwapFile>>}
      /\ Makes(<<"swapon", x>>) = {}
      /\ Makes(<<"mkstemp", x>>) = {<<"file", PassFile(x)>>}
      /\ Makes(<<"mkstemp_two", x>>) = {<<"file", OldFile(x)>>, <<"file", NewFile(x)>>}
      /\ Makes(<<"write_test", x>>) = {<<"file", WriteTest>>}
      /\ Makes(<<"cp", x>>) = {<<"file", ReadTest>>}
  BY SMT DEF Makes
<1>2. /\ Releases(<<"remove_snapshot", x>>) = {<<"snapshot", x>>}
      /\ Releases(<<"umount_snapshot", x>>) = {<<"mount", x>>}
      /\ Releases(<<"unlink", x>>) = {<<"file", x>>}
      /\ Releases(<<"rmdir", x>>) = {<<"file", x>>}
      /\ Releases(<<"mkswap", x>>) = {<<"file", SwapFile>>}
      /\ Releases(<<"swapon", x>>) = {<<"file", SwapFile>>}
  BY SMT DEF Releases
<1> QED BY <1>1, <1>2

\* What is undone when a step fails and ends the call.
LEMMA UndoneBy ==
  ASSUME NEW c, NEW x
  PROVE  /\ c \notin {"mount_snapshot", "mkswap", "swapon"} => Undone(<<c, x>>) = {}
         /\ Undone(<<"mount_snapshot", x>>) = {<<"snapshot", <<x[1], x[2]>> >>}
         /\ Undone(<<"mkswap", x>>) = {<<"file", SwapFile>>}
         /\ Undone(<<"swapon", x>>) = {<<"file", SwapFile>>}
<1>1. ASSUME NEW a PROVE ReleasedBy(<<a>>) = Releases(a)
  <2>1. Len(<<a>>) = 1 /\ <<a>>[1] = a /\ 1..1 = {1}
    BY SMT
  <2> QED BY <2>1 DEF ReleasedBy
<1>2. ReleasedBy(<< >>) = {}
  BY SMT DEF ReleasedBy
<1>3. ReleasedBy(<< <<"fopen_w", x>>, <<"write_w", x>> >>) = {}
  BY SMT DEF ReleasedBy, Releases
<1>4. c \notin {"mount_snapshot", "mkswap", "swapon"} =>
        \/ Rollback(<<c, x>>) = << >>
        \/ Rollback(<<c, x>>) = << <<"fopen_w", x>>, <<"write_w", x>> >>
  BY SMT DEF Rollback
<1>5. /\ Rollback(<<"mount_snapshot", x>>) = << <<"remove_snapshot", <<x[1], x[2]>> >> >>
      /\ Rollback(<<"mkswap", x>>) = << <<"unlink", SwapFile>> >>
      /\ Rollback(<<"swapon", x>>) = << <<"unlink", SwapFile>> >>
  BY SMT DEF Rollback
<1>6. /\ Releases(<<"remove_snapshot", <<x[1], x[2]>> >>) = {<<"snapshot", <<x[1], x[2]>> >>}
      /\ Releases(<<"unlink", SwapFile>>) = {<<"file", SwapFile>>}
  BY Accounts
<1>7. c \notin {"mount_snapshot", "mkswap", "swapon"} => Undone(<<c, x>>) = {}
  BY <1>2, <1>3, <1>4 DEF Undone
<1>8. Undone(<<"mount_snapshot", x>>) = {<<"snapshot", <<x[1], x[2]>> >>}
  BY <1>1, <1>5, <1>6 DEF Undone
<1>9. Undone(<<"mkswap", x>>) = {<<"file", SwapFile>>} /\ Undone(<<"swapon", x>>) = {<<"file", SwapFile>>}
  BY <1>1, <1>5, <1>6 DEF Undone
<1> QED BY <1>7, <1>8, <1>9

\* The steps of a call are pairs of a command and its target.
LEMMA StepsArePairs ==
  ASSUME NEW s \in Steps \cup Fallback
  PROVE  s = <<s[1], s[2]>>
BY SMT DEF Steps, PlainSteps, BackupSteps, Setter, Fallback

\* A script in which only the first step can end the call, with nothing to undo.
LEMMA FirstFatalComplete ==
  ASSUME NEW s,
         \A i \in 1..Len(s) : \A x \in Makes(s[i]) :
           \E j \in 1..Len(s) : j > i /\ x \in Releases(s[j]),
         \A i \in 1..Len(s) : s[i][1] \in Fatal => i = 1 /\ Undone(s[i]) = {}
  PROVE  Complete(s)
<1>1. ~(1 > 1) /\ \A j \in 1..Len(s) : ~(j < 1)
  BY SMT
<1>2. ASSUME NEW i \in 1..Len(s), s[i][1] \in Fatal
      PROVE  /\ \A j \in 1..Len(s) : j < i => s[j][1] \in Fatal
             /\ \A x \in Undone(s[i]) : \E j \in 1..Len(s) : j >= i /\ x \in Releases(s[j])
             /\ i > 1 => Makes(s[i - 1]) \cup Undone(s[i - 1]) \subseteq Undone(s[i])
  <2>1. i = 1 /\ Undone(s[i]) = {}
    BY <1>2
  <2> QED BY <1>1, <2>1
<1> QED BY <1>2 DEF Complete

\* A quiet script is complete.
LEMMA QuietIsComplete ==
  ASSUME NEW s \in Seq(Steps \cup Fallback), Quiet(s)
  PROVE  Complete(s)
<1>1. ASSUME NEW i \in 1..Len(s)
      PROVE  Makes(s[i]) = {} /\ Undone(s[i]) = {}
  <2>1. s[i] \in Steps \cup Fallback
    BY SMT
  <2>2. s[i] = <<s[i][1], s[i][2]>> /\ s[i][1] \notin Makers
    BY <2>1, StepsArePairs DEF Quiet
  <2>3. Makes(s[i]) = {}
    BY <2>2, SMT DEF Makes, Makers
  <2>4. s[i][1] \notin {"mount_snapshot", "mkswap", "swapon"}
    BY <2>2 DEF Makers
  <2>5. Undone(<<s[i][1], s[i][2]>>) = {}
    BY <2>4, UndoneBy
  <2> QED BY <2>2, <2>3, <2>5
<1>2. \A i \in 1..Len(s) : s[i][1] \in Fatal => i = 1
  BY DEF Quiet
<1> QED BY <1>1, <1>2, FirstFatalComplete

\* What a call turns to when a step fails is complete, and releases what is undone.
LEMMA RollbackIsComplete ==
  ASSUME NEW s \in Steps \cup Fallback
  PROVE  Complete(Rollback(s)) /\ Undone(s) \subseteq Due(Rollback(s))
<1>1. Rollback(s) \in Seq(Steps \cup Fallback)
  BY RollbackScripts
<1>2. Quiet(Rollback(s))
  <2> USE DEF Quiet, Makers, Fatal
  <2>1. CASE s[1] = "mount_snapshot"
    BY <2>1, SMT DEF Rollback
  <2>2. CASE s[1] \in {"mkswap", "swapon"}
    BY <2>2, SMT DEF Rollback
  <2>3. CASE s[1] = "fopen_a"
    BY <2>3, SMTT(40) DEF Rollback
  <2>4. CASE s[1] \notin {"mount_snapshot", "mkswap", "swapon", "fopen_a"}
    BY <2>4, SMT DEF Rollback
  <2> QED BY <2>1, <2>2, <2>3, <2>4
<1>3. CASE s[1] \notin {"mount_snapshot", "mkswap", "swapon"}
  <2>1. Undone(<<s[1], s[2]>>) = {} /\ s = <<s[1], s[2]>>
    BY <1>3, UndoneBy, StepsArePairs
  <2> QED BY <1>1, <1>2, <2>1, QuietIsComplete
<1>4. CASE s[1] \in {"mount_snapshot", "mkswap", "swapon"}
  <2>1. Rollback(s) # << >> /\ Head(Rollback(s))[1] \notin Fatal
    BY <1>4, SMT DEF Rollback, Fatal
  <2>2. Due(Rollback(s)) = Undone(s)
    BY <2>1 DEF Due, Undone
  <2> QED BY <1>1, <1>2, <2>2, QuietIsComplete
<1> QED BY <1>3, <1>4

\* Three steps of which the first makes something and the last releases it.
LEMMA ThreeSteps ==
  ASSUME NEW a, NEW b, NEW c, NEW s, s = <<a, b, c>>,
         b[1] \notin Fatal, c[1] \notin Fatal,
         Undone(a) = {}, Makes(a) \subseteq Releases(c), Makes(b) = {}, Makes(c) = {}
  PROVE  Complete(s)
<1>1. Len(s) = 3 /\ 1..Len(s) = {1, 2, 3} /\ s[1] = a /\ s[2] = b /\ s[3] = c
  BY SMT
<1>2. ASSUME NEW i \in 1..Len(s), NEW x \in Makes(s[i])
      PROVE  \E j \in 1..Len(s) : j > i /\ x \in Releases(s[j])
  <2>1. i = 1
    BY <1>1, <1>2
  <2>2. 3 \in 1..Len(s) /\ 3 > 1
    BY <1>1, SMT
  <2> QED BY <1>1, <1>2, <2>1, <2>2
<1>3. ASSUME NEW i \in 1..Len(s), s[i][1] \in Fatal
      PROVE  i = 1 /\ Undone(s[i]) = {}
  BY <1>1, <1>3
<1> QED BY <1>2, <1>3, FirstFatalComplete

\* The steps of those scripts that make nothing.
LEMMA MakesNothing ==
  ASSUME NEW x,
         NEW c \in {"luksFormat", "luksOpen", "luksChangeKey", "unlink", "check_low", "swapon",
                    "copy", "umount_snapshot", "remove_snapshot", "rmdir", "read_test"}
  PROVE  Makes(<<c, x>>) = {}
BY SMT DEF Makes

\* The files of a LUKS call are unlinked in every case.
LEMMA LuksScriptsComplete ==
  ASSUME NEW p, NEW d
  PROVE  /\ Complete(luks_format_advanced(p, d))
         /\ Complete(luks_open(p, d))
         /\ Complete(luks_change_password(p, d))
<1>1. /\ Makes(<<"mkstemp", p>>) = {<<"file", PassFile(p)>>}
      /\ Makes(<<"mkstemp_two", p>>) = {<<"file", OldFile(p)>>, <<"file", NewFile(p)>>}
      /\ Undone(<<"mkstemp", p>>) = {} /\ Undone(<<"mkstemp_two", p>>) = {}
  BY Accounts, UndoneBy
<1>2. \A c \in {"luksFormat", "luksOpen", "luksChangeKey", "unlink"} : \A x : Makes(<<c, x>>) = {}
  BY MakesNothing
<1>3. \A f : Releases(<<"unlink", f>>) = {<<"file", f>>}
  BY Accounts
<1>4. \A c \in {"luksFormat", "luksOpen", "luksChangeKey", "unlink"} : \A x : <<c, x>>[1] \notin Fatal
  BY SMT DEF Fatal
<1>5. ASSUME NEW c \in {"luksFormat", "luksOpen"}
      PROVE  Complete(<< <<"mkstemp", p>>, <<c, d>>, <<"unlink", PassFile(p)>> >>)
  <2>1. /\ <<c, d>>[1] \notin Fatal /\ <<"unlink", PassFile(p)>>[1] \notin Fatal
        /\ Makes(<<c, d>>) = {} /\ Makes(<<"unlink", PassFile(p)>>) = {}
    BY <1>2, <1>4
  <2>2. Makes(<<"mkstemp", p>>) \subseteq Releases(<<"unlink", PassFile(p)>>)
    BY <1>1, <1>3
  <2> QED BY <1>1, <2>1, <2>2, ThreeSteps
<1>6. Complete(luks_change_password(p, d))
  <2> DEFINE s == luks_change_password(p, d)
  <2>1. /\ Len(s) = 4 /\ 1..Len(s) = {1, 2, 3, 4}
        /\ s[1] = <<"mkstemp_two", p>> /\ s[2] = <<"luksChangeKey", d>>
        /\ s[3] = <<"unlink", OldFile(p)>> /\ s[4] = <<"unlink", NewFile(p)>>
    BY SMT DEF luks_change_password
  <2> HIDE DEF s
  <2>2. /\ Makes(s[2]) = {} /\ Makes(s[3]) = {} /\ Makes(s[4]) = {}
        /\ s[2][1] \notin Fatal /\ s[3][1] \notin Fatal /\ s[4][1] \notin Fatal
    BY <1>2, <1>4, <2>1
  <2>3. ASSUME NEW i \in 1..Len(s), NEW x \in Makes(s[i])
        PROVE  \E j \in 1..Len(s) : j > i /\ x \in Releases(s[j])
    <3>1. i = 1 /\ x \in {<<"file", OldFile(p)>>, <<"file", NewFile(p)>>}
      BY <1>1, <2>1, <2>2, <2>3
    <3>2. 3 > 1 /\ 4 > 1 /\ 3 \in 1..Len(s) /\ 4 \in 1..Len(s)
      BY <2>1, SMT
    <3>3. Releases(s[3]) = {<<"file", OldFile(p)>>} /\ Releases(s[4]) = {<<"file", NewFile(p)>>}
      BY <1>3, <2>1
    <3> QED BY <3>1, <3>2, <3>3
  <2>4. ASSUME NEW i \in 1..Len(s), s[i][1] \in Fatal
        PROVE  i = 1 /\ Undone(s[i]) = {}
    BY <1>1, <2>1, <2>2, <2>4
  <2>5. Complete(s)
    BY <2>3, <2>4, FirstFatalComplete
  <2> QED BY <2>5 DEF s
<1> QED BY <1>5, <1>6 DEF luks_format_advanced, luks_open

\* The snapshot, its mount and its mount point are released in every case.
LEMMA BackupScriptComplete ==
  ASSUME NEW v, NEW t, NEW u
  PROVE  Complete(backup_create_with_snapshot(v, t, u))
<1> DEFINE s == backup_create_with_snapshot(v, t, u)
<1>1. /\ Len(s) = 6 /\ 1..Len(s) = {1, 2, 3, 4, 5, 6}
      /\ s[1] = <<"snapshot", <<v, t>> >> /\ s[2] = <<"mount_snapshot", <<v, t, u>> >>
      /\ s[3] = <<"copy", <<v, t, u>> >> /\ s[4] = <<"umount_snapshot", u>>
      /\ s[5] = <<"remove_snapshot", <<v, t>> >> /\ s[6] = <<"rmdir", MountPoint(u)>>
  BY SMT DEF backup_create_with_snapshot
<1> HIDE DEF s
<1>2. <<v, t, u>>[1] = v /\ <<v, t, u>>[2] = t /\ <<v, t, u>>[3] = u
  BY SMT
<1>3. /\ Makes(s[1]) = {<<"snapshot", <<v, t>> >>}
      /\ Makes(s[2]) = {<<"mount", u>>, <<"file", MountPoint(u)>>}
  <2>1. Makes(<<"snapshot", <<v, t>> >>) = {<<"snapshot", <<v, t>> >>}
    BY Accounts
  <2>2. Makes(<<"mount_snapshot", <<v, t, u>> >>)
           = {<<"mount", <<v, t, u>>[3]>>, <<"file", MountPoint(<<v, t, u>>[3])>>}
    BY Accounts
  <2> QED BY <1>1, <1>2, <2>1, <2>2
<1>4. Makes(s[3]) = {} /\ Makes(s[4]) = {} /\ Makes(s[5]) = {} /\ Makes(s[6]) = {}
  BY <1>1, MakesNothing
<1>5. /\ Releases(s[4]) = {<<"mount", u>>}
      /\ Releases(s[5]) = {<<"snapshot", <<v, t>> >>}
      /\ Releases(s[6]) = {<<"file", MountPoint(u)>>}
  BY <1>1, Accounts
<1>6. Undone(s[1]) = {} /\ Undone(s[2]) = {<<"snapshot", <<v, t>> >>}
  BY <1>1, <1>2, UndoneBy
<1>7. /\ s[1][1] \in Fatal /\ s[3][1] \notin Fatal /\ s[4][1] \notin Fatal
      /\ s[5][1] \notin Fatal /\ s[6][1] \notin Fatal
  BY <1>1, SMT DEF Fatal
<1>8. /\ 4 > 2 /\ 5 > 1 /\ 6 > 2 /\ 5 >= 2 /\ ~(1 > 1) /\ 2 - 1 = 1
      /\ \A j \in 1..Len(s) : ~(j < 1) /\ (j < 2 => j = 1)
  BY <1>1, SMT
<1>9. ASSUME NEW i \in 1..Len(s), NEW x \in Makes(s[i])
      PROVE  \E j \in 1..Len(s) : j > i /\ x \in Releases(s[j])
  <2>1. \/ i = 1 /\ x = <<"snapshot", <<v, t>> >>
        \/ i = 2 /\ x \in {<<"mount", u>>, <<"file", MountPoint(u)>>}
    BY <1>1, <1>3, <1>4, <1>9
  <2>2. 4 \in 1..Len(s) /\ 5 \in 1..Len(s) /\ 6 \in 1..Len(s)
    BY <1>1
  <2> QED BY <1>5, <1>8, <2>1, <2>2
<1>10. ASSUME NEW i \in 1..Len(s), s[i][1] \in Fatal
       PROVE  /\ \A j \in 1..Len(s) : j < i => s[j][1] \in Fatal
              /\ \A x \in Undone(s[i]) : \E j \in 1..Len(s) : j >= i /\ x \in Releases(s[j])
              /\ i > 1 => Makes(s[i - 1]) \cup Undone(s[i - 1]) \subseteq Undone(s[i])
  <2>1. i = 1 \/ i = 2
    BY <1>1, <1>7, <1>10
  <2>2. 5 \in 1..Len(s)
    BY <1>1
  <2> QED BY <1>3, <1>5, <1>6, <1>7, <1>8, <2>1, <2>2
<1>11. Complete(s)
  BY <1>9, <1>10 DEF Complete
<1> QED BY <1>11 DEF s

\* The swap file is in use or unlinked in every case.
LEMMA SwapScriptComplete == Complete(memory_auto_swap)
<1> DEFINE s == memory_auto_swap
           f == <<"file", SwapFile>>
<1>1. /\ Len(s) = 4 /\ 1..Len(s) = {1, 2, 3, 4}
      /\ s[1] = <<"check_low", SwapFile>> /\ s[2] = <<"dd", SwapFile>>
      /\ s[3] = <<"mkswap", SwapFile>> /\ s[4] = <<"swapon", SwapFile>>
  BY SMT DEF memory_auto_swap
<1> HIDE DEF s
<1>2. Makes(s[1]) = {} /\ Makes(s[2]) = {f} /\ Makes(s[3]) = {f} /\ Makes(s[4]) = {}
  <2>1. Makes(s[2]) = {f} /\ Makes(s[3]) = {f}
    BY <1>1, Accounts
  <2>2. Makes(s[1]) = {} /\ Makes(s[4]) = {}
    BY <1>1, MakesNothing
  <2> QED BY <2>1, <2>2
<1>3. Releases(s[3]) = {f} /\ Releases(s[4]) = {f}
  BY <1>1, Accounts
<1>4. Undone(s[1]) = {} /\ Undone(s[2]) = {} /\ Undone(s[3]) = {f} /\ Undone(s[4]) = {f}
  <2>1. Undone(s[1]) = {} /\ Undone(s[2]) = {}
    BY <1>1, UndoneBy
  <2>2. Undone(s[3]) = {f} /\ Undone(s[4]) = {f}
    BY <1>1, UndoneBy
  <2> QED BY <2>1, <2>2
<1>5. s[1][1] \in Fatal /\ s[2][1] \in Fatal /\ s[3][1] \in Fatal /\ s[4][1] \in Fatal
  BY <1>1, SMT DEF Fatal
<1>6. /\ 3 > 2 /\ 4 > 3 /\ 3 >= 3 /\ 4 >= 4 /\ ~(1 > 1)
      /\ 2 - 1 = 1 /\ 3 - 1 = 2 /\ 4 - 1 = 3
  BY SMT
<1> HIDE DEF f
<1>7. ASSUME NEW i \in 1..Len(s), NEW x \in Makes(s[i])
      PROVE  \E j \in 1..Len(s) : j > i /\ x \in Releases(s[j])
  BY <1>1, <1>2, <1>3, <1>6, <1>7
<1>8. ASSUME NEW i \in 1..Len(s)
      PROVE  /\ \A j \in 1..Len(s) : s[j][1] \in Fatal
             /\ \A x \in Undone(s[i]) : \E j \in 1..Len(s) : j >= i /\ x \in Releases(s[j])
             /\ i > 1 => Makes(s[i - 1]) \cup Undone(s[i - 1]) \subseteq Undone(s[i])
  <2>1. i = 1 \/ i = 2 \/ i = 3 \/ i = 4
    BY <1>1, <1>8
  <2>2. \A j \in 1..Len(s) : s[j][1] \in Fatal
    BY <1>1, <1>5
  <2>3. \A x \in Undone(s[i]) : \E j \in 1..Len(s) : j >= i /\ x \in Releases(s[j])
    BY <1>1, <1>3, <1>4, <1>6, <2>1
  <2>4. i > 1 => Makes(s[i - 1]) \cup Undone(s[i - 1]) \subseteq Undone(s[i])
    BY <1>2, <1>4, <1>6, <2>1
  <2> QED BY <2>2, <2>3, <2>4
<1>9. Complete(s)
  BY <1>7, <1>8 DEF Complete
<1> QED BY <1>9 DEF s

\* The test files are unlinked in every case: no step of the benchmark ends it.
LEMMA BenchmarkScriptComplete == Complete(perf_benchmark)
<1> DEFINE s == perf_benchmark
<1>1. /\ Len(s) = 5 /\ 1..Len(s) = {1, 2, 3, 4, 5}
      /\ s[1] = <<"write_test", WriteTest>> /\ s[2] = <<"cp", ReadTest>>
      /\ s[3] = <<"read_test", ReadTest>> /\ s[4] = <<"unlink", WriteTest>>
      /\ s[5] = <<"unlink", ReadTest>>
  BY SMT DEF perf_benchmark
<1> HIDE DEF s
<1>2. Makes(s[1]) = {<<"file", WriteTest>>} /\ Makes(s[2]) = {<<"file", ReadTest>>}
  BY <1>1, Accounts
<1>3. Makes(s[3]) = {} /\ Makes(s[4]) = {} /\ Makes(s[5]) = {}
  BY <1>1, MakesNothing
<1>4. Releases(s[4]) = {<<"file", WriteTest>>} /\ Releases(s[5]) = {<<"file", ReadTest>>}
  BY <1>1, Accounts
<1>5. 4 > 1 /\ 5 > 2
  BY SMTT(40)
<1>6. \A i \in 1..Len(s) : s[i][1] \notin Fatal
  BY <1>1, SMTT(40) DEF Fatal
<1>7. ASSUME NEW i \in 1..Len(s), NEW x \in Makes(s[i])
      PROVE  \E j \in 1..Len(s) : j > i /\ x \in Releases(s[j])
  BY <1>1, <1>2, <1>3, <1>4, <1>5, <1>7
<1>8. Complete(s)
  BY <1>6, <1>7, FirstFatalComplete
<1> QED BY <1>8 DEF s

\* The steps that make nothing and do not end the call.
Harmless ==
  {"mkfs", "mount", "umount", "fsck_n", "fsck", "resize2fs", "xfs_growfs", "pvcreate", "pvremove",
   "vgcreate", "vgextend", "vgremove", "lvcreate", "lvextend", "lvremove", "lvcreate_s",
   "lvconvert", "zero_superblock", "md_create", "md_add", "md_fail", "md_remove", "md_stop",
   "luksClose", "mkdir", "swapoff", "unlink", "set", "setflags", "clearflags", "write_a",
   "truncate"}

\* Short scripts without a step that makes something are quiet.
LEMMA ShortScriptsAreQuiet ==
  /\ \A c \in Harmless : c \notin Makers /\ c \notin Fatal
  /\ \A c \in {"is_mounted", "pv_info", "getflags", "fopen_a"} : c \notin Makers
  /\ \A a : a[1] \notin Makers => Quiet(<<a>>)
  /\ \A a, b : a[1] \notin Makers /\ b[1] \notin Makers /\ b[1] \notin Fatal => Quiet(<<a, b>>)
<1>1. \A c \in Harmless : c \notin Makers /\ c \notin Fatal
  BY SMT DEF Harmless, Makers, Fatal
<1>2. \A c \in {"is_mounted", "pv_info", "getflags", "fopen_a"} : c \notin Makers
  BY SMT DEF Makers
<1>3. \A a : a[1] \notin Makers => Quiet(<<a>>)
  BY SMT DEF Quiet
<1>4. \A a, b : a[1] \notin Makers /\ b[1] \notin Makers /\ b[1] \notin Fatal => Quiet(<<a, b>>)
  BY SMT DEF Quiet
<1> QED BY <1>1, <1>2, <1>3, <1>4

\* A script of one such step, or of two, is quiet.
LEMMA PairsAreQuiet ==
  /\ \A c \in Harmless : \A x : Quiet(<< <<c, x>> >>)
  /\ \A b \in Harmless \cup {"is_mounted", "pv_info", "getflags", "fopen_a"}, c \in Harmless :
       \A x, y : Quiet(<< <<b, x>>, <<c, y>> >>)
<1>1. \A c : \A x : <<c, x>>[1] = c
  BY SMT
<1> QED BY <1>1, ShortScriptsAreQuiet

\* The calls on devices, save the LUKS ones with their password files, are quiet.
LEMMA DeviceScriptsQuiet ==
  ASSUME NEW d
  PROVE  /\ Quiet(fs_create(d)) /\ Quiet(fs_create_ext4_advanced(d))
         /\ Quiet(fs_create_xfs_advanced(d)) /\ Quiet(fs_mount(d)) /\ Quiet(fs_unmount(d))
         /\ Quiet(fs_check(d)) /\ Quiet(fs_repair(d)) /\ Quiet(fs_resize(d))
         /\ Quiet(fs_resize_xfs_online(d)) /\ Quiet(lvm_pv_create(d)) /\ Quiet(lvm_pv_remove(d))
         /\ Quiet(lvm_vg_create(d)) /\ Quiet(lvm_vg_extend(d)) /\ Quiet(raid_add_disk(d))
         /\ Quiet(raid_fail_disk(d)) /\ Quiet(raid_remove_disk(d)) /\ Quiet(luks_close(d))
         /\ \A e : Quiet(raid_create(d, e))
<1>1. /\ Quiet(fs_create(d)) /\ Quiet(fs_create_ext4_advanced(d))
      /\ Quiet(fs_create_xfs_advanced(d)) /\ Quiet(fs_unmount(d))
      /\ Quiet(fs_resize(d)) /\ Quiet(fs_resize_xfs_online(d))
  BY PairsAreQuiet DEF Harmless, fs_create, fs_create_ext4_advanced, fs_create_xfs_advanced,
     fs_unmount, fs_resize, fs_resize_xfs_online
<1>2. /\ Quiet(lvm_pv_create(d)) /\ Quiet(lvm_vg_create(d)) /\ Quiet(lvm_vg_extend(d))
      /\ Quiet(raid_fail_disk(d)) /\ Quiet(raid_remove_disk(d)) /\ Quiet(luks_close(d))
  BY PairsAreQuiet DEF Harmless, lvm_pv_create, lvm_vg_create, lvm_vg_extend, raid_fail_disk,
     raid_remove_disk, luks_close
<1>3. /\ Quiet(fs_mount(d)) /\ Quiet(fs_check(d)) /\ Quiet(fs_repair(d))
      /\ Quiet(lvm_pv_remove(d)) /\ Quiet(raid_add_disk(d))
  BY PairsAreQuiet DEF Harmless, fs_mount, fs_check, fs_repair, lvm_pv_remove, raid_add_disk
<1>4. \A e : Quiet(raid_create(d, e))
  <2> TAKE e
  <2> DEFINE s == raid_create(d, e)
  <2>1. /\ 1..Len(s) = {1, 2, 3} /\ s[1][1] = "zero_superblock" /\ s[2][1] = "zero_superblock"
        /\ s[3][1] = "md_create"
    BY SMT DEF raid_create
  <2> HIDE DEF s
  <2>2. \A i \in 1..Len(s) : s[i][1] \in Harmless
    BY <2>1 DEF Harmless
  <2>3. Quiet(s)
    BY <2>2, ShortScriptsAreQuiet DEF Quiet
  <2> QED BY <2>3 DEF s
<1> QED BY <1>1, <1>2, <1>3, <1>4

\* So are the calls on the volume group, settings, attributes and the log.
LEMMA OtherScriptsQuiet ==
  /\ Quiet(lvm_vg_remove) /\ Quiet(lvm_lv_create) /\ Quiet(lvm_lv_extend)
  /\ Quiet(lvm_lv_remove) /\ Quiet(lvm_snapshot_create) /\ Quiet(lvm_snapshot_merge)
  /\ Quiet(raid_stop) /\ Quiet(swap_disable) /\ Quiet(swap_remove_file)
  /\ \A w : Quiet(perf_apply_profile(w)) /\ Quiet(cmd_perf_tune(w))
  /\ \A F : Quiet(attr_set(F)) /\ Quiet(attr_unset(F))
  /\ \A p : Quiet(audit_log(p))
  /\ Quiet(audit_clear_log)
<1>1. /\ Quiet(lvm_vg_remove) /\ Quiet(lvm_lv_create) /\ Quiet(lvm_lv_extend)
      /\ Quiet(lvm_lv_remove) /\ Quiet(lvm_snapshot_create) /\ Quiet(lvm_snapshot_merge)
      /\ Quiet(raid_stop) /\ Quiet(swap_disable) /\ Quiet(swap_remove_file)
      /\ Quiet(audit_clear_log)
  BY PairsAreQuiet DEF Harmless, lvm_vg_remove, lvm_lv_create, lvm_lv_extend, lvm_lv_remove,
     lvm_snapshot_create, lvm_snapshot_merge, raid_stop, swap_disable, swap_remove_file,
     audit_clear_log
<1>2. \A F : Quiet(attr_set(F)) /\ Quiet(attr_unset(F))
  BY PairsAreQuiet DEF Harmless, attr_set, attr_unset
<1>3. \A p : Quiet(audit_log(p))
  BY PairsAreQuiet DEF Harmless, audit_log
<1>4. ASSUME NEW w PROVE Quiet(perf_apply_profile(w))
  <2> DEFINE s == perf_apply_profile(w)
  <2>1. \A k : Setter(w, k)[1] = "set"
    BY SMTT(40) DEF Setter
  <2>2. \A i \in 1..Len(s) : s[i][1] = "set"
    BY <2>1, SMT DEF perf_apply_profile
  <2> HIDE DEF s
  <2>3. "set" \in Harmless
    BY DEF Harmless
  <2>4. Quiet(s)
    BY <2>2, <2>3, ShortScriptsAreQuiet DEF Quiet
  <2> QED BY <2>4 DEF s
<1>5. \A w : Quiet(cmd_perf_tune(w))
  BY PairsAreQuiet DEF Harmless, cmd_perf_tune, Setter
<1> QED BY <1>1, <1>2, <1>3, <1>4, <1>5

\* Every call begins with a complete script: whichever of its steps fails, what it has
\* made by then is released.
LEMMA CallIsComplete ==
  ASSUME NEW p \in Procs, Call(p)
  PROVE  \E s : Complete(s) /\ Start(p, s)
<1>1. \A s \in Seq(PlainSteps) : Quiet(s) => Complete(s)
  <2> TAKE s \in Seq(PlainSteps)
  <2>1. s \in Seq(Steps \cup Fallback)
    BY SMT DEF Steps
  <2> QED BY <2>1, QuietIsComplete
<1>2. CASE CallDevice(p)
  <2>1. \/ \E d \in Disks :
             \/ Start(p, fs_create(d))
             \/ Start(p, fs_create_ext4_advanced(d))
             \/ Start(p, fs_create_xfs_advanced(d))
             \/ Start(p, fs_mount(d))
             \/ Start(p, fs_unmount(d))
             \/ Start(p, fs_check(d))
             \/ Start(p, fs_repair(d))
             \/ Start(p, fs_resize(d))
             \/ Start(p, fs_resize_xfs_online(d))
             \/ Start(p, lvm_pv_create(d))
             \/ Start(p, lvm_pv_remove(d))
             \/ Start(p, lvm_vg_create(d))
             \/ Start(p, lvm_vg_extend(d))
             \/ Start(p, raid_add_disk(d))
             \/ Start(p, raid_fail_disk(d))
             \/ Start(p, raid_remove_disk(d))
             \/ Start(p, luks_close(d))
             \/ \E e \in Disks : Start(p, raid_create(d, e))
        \/ \E d \in Disks : \/ Start(p, luks_format_advanced(p, d))
                            \/ Start(p, luks_open(p, d))
                            \/ Start(p, luks_change_password(p, d))
        \/ Start(p, lvm_vg_remove) \/ Start(p, lvm_lv_create) \/ Start(p, lvm_lv_extend)
        \/ Start(p, lvm_lv_remove) \/ Start(p, lvm_snapshot_create)
        \/ Start(p, lvm_snapshot_merge) \/ Start(p, raid_stop)
    BY <1>2 DEF CallDevice
  <2>2. ASSUME NEW d \in Disks
        PROVE  /\ Complete(fs_create(d)) /\ Complete(fs_create_ext4_advanced(d))
               /\ Complete(fs_create_xfs_advanced(d)) /\ Complete(fs_mount(d))
               /\ Complete(fs_unmount(d)) /\ Complete(fs_check(d)) /\ Complete(fs_repair(d))
               /\ Complete(fs_resize(d)) /\ Complete(fs_resize_xfs_online(d))
               /\ Complete(lvm_pv_create(d)) /\ Complete(lvm_pv_remove(d))
               /\ Complete(lvm_vg_create(d)) /\ Complete(lvm_vg_extend(d))
               /\ Complete(raid_add_disk(d)) /\ Complete(raid_fail_disk(d))
               /\ Complete(raid_remove_disk(d)) /\ Complete(luks_close(d))
               /\ \A e \in Disks : Complete(raid_create(d, e))
    BY <1>1, DeviceScripts, DeviceScriptsQuiet
  <2>3. /\ Complete(lvm_vg_remove) /\ Complete(lvm_lv_create) /\ Complete(lvm_lv_extend)
        /\ Complete(lvm_lv_remove) /\ Complete(lvm_snapshot_create)
        /\ Complete(lvm_snapshot_merge) /\ Complete(raid_stop)
    BY <1>1, PlainScripts, OtherScriptsQuiet
  <2> QED BY <2>1, <2>2, <2>3, LuksScriptsComplete
<1>3. CASE CallBackup(p)
  BY <1>3, BackupScriptComplete DEF CallBackup
<1>4. CASE CallMemory(p)
  <2>1. Complete(swap_disable) /\ Complete(swap_remove_file)
    BY <1>1, PlainScripts, OtherScriptsQuiet
  <2> QED BY <1>4, <2>1, SwapScriptComplete DEF CallMemory
<1>5. CASE CallPerf(p)
  <2>1. \A w \in Workloads : Complete(perf_apply_profile(w)) /\ Complete(cmd_perf_tune(w))
    BY <1>1, OtherScripts, OtherScriptsQuiet
  <2> QED BY <1>5, <2>1, BenchmarkScriptComplete DEF CallPerf
<1>6. CASE CallSecurity(p)
  <2>1. PICK F \in SUBSET Flags :
          \/ Start(p, attr_set(F)) \/ Start(p, attr_unset(F))
          \/ Start(p, audit_log(p)) \/ Start(p, audit_clear_log)
    BY <1>6 DEF CallSecurity
  <2>2. /\ Complete(attr_set(F)) /\ Complete(attr_unset(F))
        /\ Complete(audit_log(p)) /\ Complete(audit_clear_log)
    BY <1>1, OtherScripts, PlainScripts, OtherScriptsQuiet
  <2> QED BY <2>1, <2>2
<1> QED BY <1>2, <1>3, <1>4, <1>5, <1>6 DEF Call

\* The steps that release something, or go on with the swap file.
Releasers == {"remove_snapshot", "umount_snapshot", "unlink", "rmdir", "mkswap", "swapon"}

\* The step that is next is a pair, and the call is complete after it.
LEMMA NextStep ==
  ASSUME TodoInv, ScriptInv, NEW p \in Procs, todo[p] # << >>
  PROVE  /\ Head(todo[p]) \in Steps \cup Fallback
         /\ Head(todo[p]) = <<Head(todo[p])[1], Head(todo[p])[2]>>
         /\ Complete(Tail(todo[p]))
         /\ Due(todo[p]) \subseteq Due(Tail(todo[p])) \cup Releases(Head(todo[p]))
         /\ Makes(Head(todo[p])) \subseteq Due(Tail(todo[p]))
         /\ Due(todo[p]) \subseteq ReleasedBy(todo[p])
<1>1. todo[p] \in Seq(Steps \cup Fallback) /\ Complete(todo[p])
  BY DEF TodoInv, ScriptInv
<1>2. Head(todo[p]) \in Steps \cup Fallback
  BY <1>1, SMT
<1>3. Head(todo[p]) = <<Head(todo[p])[1], Head(todo[p])[2]>>
  BY <1>2, StepsArePairs
<1> QED BY <1>1, <1>2, <1>3, DueAfterStep

\* Whatever is called, succeeds, fails or is killed, the scripts stay complete.
LEMMA NextScriptInv ==
  ASSUME TodoInv, ScriptInv, Next
  PROVE  ScriptInv'
<1>1. ASSUME NEW p \in Procs, Advance(p) PROVE ScriptInv'
  <2>1. Complete(Tail(todo[p]))
    BY <1>1, NextStep DEF Advance
  <2> QED BY <1>1, <2>1 DEF Advance, ScriptInv, TodoInv
<1>2. ASSUME NEW p \in Procs, Call(p) PROVE ScriptInv'
  <2>1. PICK s : Complete(s) /\ Start(p, s)
    BY <1>2, CallIsComplete
  <2> QED BY <2>1 DEF Start, ScriptInv, TodoInv
<1>3. ASSUME NEW p \in Procs, Fail(p) PROVE ScriptInv'
  <2>1. Complete(Tail(todo[p])) /\ Complete(Rollback(Head(todo[p])))
    BY <1>3, NextStep, RollbackIsComplete DEF Fail
  <2> QED BY <1>3, <2>1 DEF Fail, ScriptInv, TodoInv
<1>4. ASSUME NEW p \in Procs, Crash(p) PROVE ScriptInv'
  <2>1. Complete(<< >>)
    BY SMT DEF Complete
  <2> QED BY <1>4, <2>1 DEF Crash, ScriptInv, TodoInv
<1>5. CASE Tick
  BY <1>5 DEF Tick, ScriptInv
<1> QED BY <1>1, <1>2, <1>3, <1>4, <1>5, DeviceFrame, SnapshotFrame, FileFrame, SetFrame,
   SecurityFrame DEF Next

\* A step of p keeps accounts of the snapshots and files when what it makes (M) is due
\* from then on, and what is no longer due (G) exists no more or counts as left.
LEMMA AccountsKept ==
  ASSUME KeptInv, NEW p \in Procs, NEW G, NEW M,
         \A q \in Procs : q # p => todo'[q] = todo[q],
         Due(todo[p]) \subseteq Due(todo'[p]) \cup G,
         M \subseteq Due(todo'[p]),
         Kept' \subseteq (Kept \ G) \cup M \cup left',
         left \subseteq left' \cup M
  PROVE  KeptInv'
<1> SUFFICES ASSUME NEW x \in Kept', x \notin left'
             PROVE  \E q \in Procs : x \in Due(todo'[q])
  BY DEF KeptInv
<1>1. CASE x \in M
  BY <1>1
<1>2. CASE x \notin M
  <2>1. x \in Kept /\ x \notin G /\ x \notin left
    BY <1>2
  <2>2. PICK q \in Procs : x \in Due(todo[q])
    BY <2>1 DEF KeptInv
  <2> QED BY <2>1, <2>2
<1> QED BY <1>1, <1>2

\* The same for a step of the script that succeeds.
LEMMA StepKeepsAccounts ==
  ASSUME TodoInv, ScriptInv, KeptInv, NEW p \in Procs, Advance(p),
         Kept' \subseteq (Kept \ Releases(Head(todo[p]))) \cup Makes(Head(todo[p])) \cup left',
         left \subseteq left' \cup Makes(Head(todo[p]))
  PROVE  KeptInv'
<1>1. /\ todo[p] # << >> /\ todo'[p] = Tail(todo[p])
      /\ \A q \in Procs : q # p => todo'[q] = todo[q]
  BY DEF Advance, TodoInv
<1>2. /\ Due(todo[p]) \subseteq Due(todo'[p]) \cup Releases(Head(todo[p]))
      /\ Makes(Head(todo[p])) \subseteq Due(todo'[p])
  BY <1>1, NextStep
<1> QED BY <1>1, <1>2, AccountsKept

\* Snapshots, files and mounts are told apart, and so are mount points of devices.
LEMMA ItemsDiffer ==
  /\ \A x, y : <<"snapshot", x>> # <<"file", y>> /\ <<"snapshot", x>> # <<"mount", y>>
               /\ <<"file", x>> # <<"mount", y>>
  /\ \A c : \A x, y : <<c, x>> = <<c, y>> => x = y
  /\ \A d : MountDir(d)[1] = "mount_dir" /\ MountDir(d) # SwapFile
  /\ \A t : MountPoint(t) # SwapFile
BY SMT DEF MountDir, SwapFile, MountPoint

\* The step a process runs, as a pair.
LEMMA DoesStep ==
  ASSUME TodoInv, ScriptInv, NEW p \in Procs, NEW c, Does(p, c)
  PROVE  Head(todo[p]) = <<c, Target(p)>> /\ Advance(p)
BY NextStep DEF Does, Target, Advance

\* The commands on devices, settings, attributes and the log release nothing.
LEMMA OthersReleaseNothing ==
  ASSUME NEW p, DeviceCommand(p) \/ Set(p) \/ SecurityCommand(p)
  PROVE  Releases(Head(todo[p])) = {}
<1>1. \A s : s[1] \notin Releasers => Releases(s) = {}
  BY SMT DEF Releases, Releasers
<1> USE DEF Does, Releasers
<1>2. CASE DeviceCommand(p)
  <2>1. CASE Mkfs(p) \/ Mount(p) \/ Umount(p) \/ IsMounted(p) \/ FsckReadOnly(p) \/ Fsck(p)
         \/ Resize(p) \/ XfsGrow(p)
    BY <1>1, <2>1 DEF Mkfs, Mount, Umount, IsMounted, FsckReadOnly, Fsck, Resize, XfsGrow
  <2>2. CASE Pvcreate(p) \/ PvInfo(p) \/ Pvremove(p) \/ Vgcreate(p) \/ Vgextend(p) \/ Vgremove(p)
    BY <1>1, <2>2 DEF Pvcreate, PvInfo, Pvremove, Vgcreate, Vgextend, Vgremove
  <2>3. CASE Lvcreate(p) \/ Lvextend(p) \/ Lvremove(p) \/ LvcreateSnapshot(p) \/ Lvconvert(p)
    BY <1>1, <2>3 DEF Lvcreate, Lvextend, Lvremove, LvcreateSnapshot, Lvconvert
  <2>4. CASE ZeroSuperblock(p) \/ MdCreate(p) \/ MdAdd(p) \/ MdFail(p) \/ MdRemove(p) \/ MdStop(p)
    BY <1>1, <2>4 DEF ZeroSuperblock, MdCreate, MdAdd, MdFail, MdRemove, MdStop
  <2>5. CASE LuksFormat(p) \/ LuksOpen(p) \/ LuksClose(p) \/ LuksChangeKey(p)
    BY <1>1, <2>5 DEF LuksFormat, LuksOpen, LuksClose, LuksChangeKey
  <2> QED BY <1>2, <2>1, <2>2, <2>3, <2>4, <2>5 DEF DeviceCommand
<1>3. CASE Set(p)
  BY <1>1, <1>3 DEF Set
<1>4. CASE SecurityCommand(p)
  BY <1>1, <1>4 DEF SecurityCommand, SetFlags, GetFlags, ClearFlags, FopenA, FopenW, WriteA,
     WriteW, Truncate
<1> QED BY <1>2, <1>3, <1>4

\* Nor do these steps.
LEMMA ReleasesNothing ==
  ASSUME NEW x,
         NEW c \in {"snapshot", "mount_snapshot", "copy", "mkdir", "check_low", "dd", "swapoff",
                    "mkstemp", "mkstemp_two", "write_test", "cp", "read_test"}
  PROVE  Releases(<<c, x>>) = {}
BY SMT DEF Releases

\* Commands on snapshots keep account of what they make and release.
LEMMA SnapshotsKeepAccounts ==
  ASSUME TodoInv, ScriptInv, KeptInv, NEW p \in Procs, SnapshotCommand(p)
  PROVE  KeptInv'
<1> DEFINE h == Head(todo[p])
           T == Target(p)
<1>1. CASE Snapshot(p)
  <2>1. h = <<"snapshot", T>> /\ Advance(p)
    BY <1>1, DoesStep DEF Snapshot
  <2>2. Makes(h) = {<<"snapshot", T>>} /\ Releases(h) = {}
    <3>1. Makes(h) = {<<"snapshot", T>>}
      BY <2>1, Accounts
    <3>2. Releases(h) = {}
      BY <2>1, ReleasesNothing
    <3> QED BY <3>1, <3>2
  <2>3. /\ snaps' = snaps \cup {T} /\ left' = left \ {<<"snapshot", T>>}
        /\ files' = files /\ swap' = swap
    BY <1>1 DEF Snapshot, fileVars
  <2>4. Kept' \subseteq Kept \cup {<<"snapshot", T>>}
    BY <2>3 DEF Kept
  <2> QED BY <2>1, <2>2, <2>3, <2>4, StepKeepsAccounts
<1>2. CASE MountSnapshot(p)
  <2> DEFINE u == T[3]
  <2>1. h = <<"mount_snapshot", T>> /\ Advance(p)
    BY <1>2, DoesStep DEF MountSnapshot
  <2>2. Makes(h) = {<<"mount", u>>, <<"file", MountPoint(u)>>} /\ Releases(h) = {}
    <3>1. Makes(h) = {<<"mount", u>>, <<"file", MountPoint(u)>>}
      BY <2>1, Accounts
    <3>2. Releases(h) = {}
      BY <2>1, ReleasesNothing
    <3> QED BY <3>1, <3>2
  <2>3. /\ files' = files \cup {MountPoint(u)} /\ swap' = swap /\ snaps' = snaps
        /\ left \subseteq left' \cup {<<"mount", u>>, <<"file", MountPoint(u)>>}
    BY <1>2 DEF MountSnapshot
  <2> HIDE DEF h, T, u
  <2>4. Kept' \subseteq Kept \cup {<<"file", MountPoint(u)>>}
    BY <2>3 DEF Kept
  <2>5. Kept' \subseteq (Kept \ Releases(h)) \cup Makes(h) \cup left'
    BY <2>2, <2>4
  <2>6. left \subseteq left' \cup Makes(h)
    BY <2>2, <2>3
  <2> QED BY <2>1, <2>5, <2>6, StepKeepsAccounts DEF h
<1>3. CASE Copy(p) \/ UmountSnapshot(p)
  <2>1. (h = <<"copy", T>> \/ h = <<"umount_snapshot", T>>) /\ Advance(p)
    BY <1>3, DoesStep DEF Copy, UmountSnapshot
  <2>2. Releases(h) \subseteq {<<"mount", T>>}
    BY <2>1, SMTT(40) DEF Releases
  <2>3. snaps' = snaps /\ files' = files /\ swap' = swap /\ left' = left
    BY <1>3 DEF Copy, UmountSnapshot, fileVars
  <2>4. Kept' = Kept /\ <<"mount", T>> \notin Kept
    BY <2>3, ItemsDiffer DEF Kept
  <2> QED BY <2>1, <2>2, <2>3, <2>4, StepKeepsAccounts
<1>4. CASE RemoveSnapshot(p)
  <2>1. h = <<"remove_snapshot", T>> /\ Advance(p)
    BY <1>4, DoesStep DEF RemoveSnapshot
  <2>2. Releases(h) = {<<"snapshot", T>>}
    BY <2>1, Accounts
  <2>3. snaps' = snaps \ {T} /\ files' = files /\ swap' = swap /\ left' = left
    BY <1>4 DEF RemoveSnapshot, fileVars
  <2>4. Kept' \subseteq Kept \ {<<"snapshot", T>>}
    BY <2>3, ItemsDiffer DEF Kept
  <2> QED BY <2>1, <2>2, <2>3, <2>4, StepKeepsAccounts
<1>5. CASE Rmdir(p)
  <2>1. h = <<"rmdir", T>> /\ Advance(p)
    BY <1>5, DoesStep DEF Rmdir
  <2>2. Releases(h) = {<<"file", T>>}
    BY <2>1, Accounts
  <2>3. snaps' = snaps /\ files' = files \ {T} /\ swap' = swap /\ left' = left
    BY <1>5 DEF Rmdir, snapVars
  <2>4. Kept' \subseteq Kept \ {<<"file", T>>}
    BY <2>3, ItemsDiffer DEF Kept
  <2> QED BY <2>1, <2>2, <2>3, <2>4, StepKeepsAccounts
<1> QED BY <1>1, <1>2, <1>3, <1>4, <1>5 DEF SnapshotCommand

\* Commands on files keep account too.  The mount point of a device is not accounted
\* for, and a swap file that swapoff has taken out of use counts as left.
LEMMA FilesKeepAccounts ==
  ASSUME TodoInv, ScriptInv, KeptInv, NEW p \in Procs, FileCommand(p)
  PROVE  KeptInv'
<1> DEFINE h == Head(todo[p])
           T == Target(p)
           f == <<"file", SwapFile>>
<1>1. Advance(p) /\ snaps' = snaps
  BY FileFrame DEF snapVars
<1>2. CASE Mkdir(p)
  <2>1. h = <<"mkdir", T>> /\ h \in Steps \cup Fallback
    BY <1>2, DoesStep, NextStep DEF Mkdir, Does
  <2>2. Releases(h) = {}
    BY <2>1, ReleasesNothing
  <2>3. T[1] = "mount_dir"
    BY <2>1, SMTT(40) DEF Steps, PlainSteps, BackupSteps, DiskCommands, GroupCommands,
       ProcCommands, FileCommands, Setter, Fallback, MountDir
  <2>4. files' = files \cup {T} /\ swap' = swap /\ left' = left
    BY <1>2 DEF Mkdir
  <2>5. Kept' \subseteq Kept
    BY <1>1, <2>3, <2>4 DEF Kept
  <2> QED BY <1>1, <2>2, <2>4, <2>5, StepKeepsAccounts
<1>3. CASE CheckLow(p) \/ ReadTestFile(p)
  <2>1. h = <<"check_low", T>> \/ h = <<"read_test", T>>
    BY <1>3, DoesStep DEF CheckLow, ReadTestFile
  <2>2. Releases(h) = {}
    BY <2>1, ReleasesNothing
  <2>3. files' = files /\ swap' = swap /\ left' = left
    BY <1>3 DEF CheckLow, ReadTestFile
  <2>4. Kept' = Kept
    BY <1>1, <2>3 DEF Kept
  <2> QED BY <1>1, <2>2, <2>3, <2>4, StepKeepsAccounts
<1>4. CASE Dd(p)
  <2>1. h = <<"dd", T>>
    BY <1>4, DoesStep DEF Dd
  <2>2. Releases(h) = {} /\ Makes(h) = {f}
    <3>1. Makes(h) = {f}
      BY <2>1, Accounts
    <3>2. Releases(h) = {}
      BY <2>1, ReleasesNothing
    <3> QED BY <3>1, <3>2
  <2>3. files' = files \cup {SwapFile} /\ left' = left \ {f} /\ "on" \notin swap
    BY <1>4 DEF Dd, Create
  <2>4. Kept' \subseteq Kept \cup {f}
    BY <1>1, <2>3 DEF Kept
  <2> QED BY <1>1, <2>2, <2>3, <2>4, StepKeepsAccounts
<1>5. CASE Mkswap(p)
  <2>1. h = <<"mkswap", T>>
    BY <1>5, DoesStep DEF Mkswap
  <2>2. Releases(h) = {f} /\ Makes(h) = {f}
    BY <2>1, Accounts
  <2>3. files' = files /\ left' = left /\ "on" \notin swap
    BY <1>5 DEF Mkswap
  <2>4. Kept' \subseteq Kept
    BY <1>1, <2>3 DEF Kept
  <2> QED BY <1>1, <2>2, <2>3, <2>4, StepKeepsAccounts
<1>6. CASE Swapon(p)
  <2>1. h = <<"swapon", T>>
    BY <1>6, DoesStep DEF Swapon
  <2>2. Releases(h) = {f}
    BY <2>1, Accounts
  <2>3. files' = files /\ left' = left /\ "on" \in swap' /\ swap = {"sig"}
    BY <1>6 DEF Swapon
  <2>4. Kept' \subseteq Kept /\ f \notin Kept'
    BY <1>1, <2>3, ItemsDiffer DEF Kept
  <2> QED BY <1>1, <2>2, <2>3, <2>4, StepKeepsAccounts
<1>7. CASE Swapoff(p)
  <2>1. h = <<"swapoff", T>>
    BY <1>7, DoesStep DEF Swapoff
  <2>2. Releases(h) = {}
    BY <2>1, ReleasesNothing
  <2>3. files' = files /\ left' = left \cup {f}
    BY <1>7 DEF Swapoff
  <2>4. Kept' \subseteq Kept \cup {f}
    BY <1>1, <2>3 DEF Kept
  <2> QED BY <1>1, <2>2, <2>3, <2>4, StepKeepsAccounts
<1>8. CASE Unlink(p)
  <2>1. h = <<"unlink", T>>
    BY <1>8, DoesStep DEF Unlink
  <2>2. Releases(h) = {<<"file", T>>}
    BY <2>1, Accounts
  <2>3. files' = files \ {T} /\ left' = left /\ (T # SwapFile => swap' = swap)
    BY <1>8 DEF Unlink
  <2>4. Kept' \subseteq Kept \ {<<"file", T>>}
    BY <1>1, <2>3, ItemsDiffer DEF Kept
  <2> QED BY <1>1, <2>2, <2>3, <2>4, StepKeepsAccounts
<1>9. CASE Mkstemp(p)
  <2>1. h = <<"mkstemp", T>>
    BY <1>9, DoesStep DEF Mkstemp
  <2>2. Releases(h) = {} /\ Makes(h) = {<<"file", PassFile(T)>>}
    <3>1. Makes(h) = {<<"file", PassFile(T)>>}
      BY <2>1, Accounts
    <3>2. Releases(h) = {}
      BY <2>1, ReleasesNothing
    <3> QED BY <3>1, <3>2
  <2>3. /\ files' = files \cup {PassFile(T)} /\ swap' = swap
        /\ left' = left \ {<<"file", PassFile(T)>>}
    BY <1>9 DEF Mkstemp, Create
  <2>4. Kept' \subseteq Kept \cup {<<"file", PassFile(T)>>}
    BY <1>1, <2>3 DEF Kept
  <2> QED BY <1>1, <2>2, <2>3, <2>4, StepKeepsAccounts
<1>10. CASE MkstempTwo(p)
  <2>1. h = <<"mkstemp_two", T>>
    BY <1>10, DoesStep DEF MkstempTwo
  <2>2. Releases(h) = {} /\ Makes(h) = {<<"file", OldFile(T)>>, <<"file", NewFile(T)>>}
    <3>1. Makes(h) = {<<"file", OldFile(T)>>, <<"file", NewFile(T)>>}
      BY <2>1, Accounts
    <3>2. Releases(h) = {}
      BY <2>1, ReleasesNothing
    <3> QED BY <3>1, <3>2
  <2>3. files' = files \cup {OldFile(T), NewFile(T)} /\ swap' = swap /\ left' = left
    BY <1>10 DEF MkstempTwo
  <2>4. Kept' \subseteq Kept \cup {<<"file", OldFile(T)>>, <<"file", NewFile(T)>>}
    BY <1>1, <2>3 DEF Kept
  <2> QED BY <1>1, <2>2, <2>3, <2>4, StepKeepsAccounts
<1>11. CASE WriteTestFile(p) \/ Cp(p)
  <2>1. \/ h = <<"write_test", T>> /\ Create(WriteTest) /\ swap' = swap
        \/ h = <<"cp", T>> /\ Create(ReadTest) /\ swap' = swap
    BY <1>11, DoesStep DEF WriteTestFile, Cp
  <2>2. /\ Makes(<<"write_test", T>>) = {<<"file", WriteTest>>}
        /\ Makes(<<"cp", T>>) = {<<"file", ReadTest>>}
    BY Accounts
  <2>3. PICK g : Makes(h) = {<<"file", g>>} /\ Create(g) /\ swap' = swap
    BY <2>1, <2>2
  <2>4. Releases(h) = {}
    BY <2>1, ReleasesNothing
  <2>5. files' = files \cup {g} /\ left' = left \ {<<"file", g>>}
    BY <2>3 DEF Create
  <2>6. Kept' \subseteq Kept \cup {<<"file", g>>}
    BY <1>1, <2>3, <2>5 DEF Kept
  <2> QED BY <1>1, <2>3, <2>4, <2>5, <2>6, StepKeepsAccounts
<1> QED BY <1>2, <1>3, <1>4, <1>5, <1>6, <1>7, <1>8, <1>9, <1>10, <1>11 DEF FileCommand

\* What a failed step makes counts as left, what it should have released too, and the
\* steps of the rollback release the rest.
LEMMA FailureKeepsAccounts ==
  ASSUME TodoInv, ScriptInv, KeptInv, NEW p \in Procs, Fail(p)
  PROVE  KeptInv'
<1> DEFINE h == Head(todo[p])
<1>1. PICK F \in FailureLeaves(h) :
        /\ files' = files \cup F
        /\ swap' = IF SwapFile \in F THEN {} ELSE swap
        /\ left' = left \cup {<<"file", f>> : f \in F}
                        \cup IF h[1] \in Fatal THEN {} ELSE Releases(h)
  BY DEF Fail
<1>2. /\ todo[p] # << >> /\ todo'[p] = IF h[1] \in Fatal THEN Rollback(h) ELSE Tail(todo[p])
      /\ \A q \in Procs : q # p => todo'[q] = todo[q]
      /\ snaps' = snaps
  BY DEF Fail, TodoInv, snapVars
<1>3. h \in Steps \cup Fallback /\ Due(todo[p]) \subseteq Due(Tail(todo[p])) \cup Releases(h)
  BY <1>2, NextStep
<1>4. Kept' \subseteq Kept \cup {<<"file", f>> : f \in F}
  BY <1>1, <1>2 DEF Kept
<1>5. {} \subseteq Due(todo'[p])
  OBVIOUS
<1>6. CASE h[1] \in Fatal
  <2>1. Due(todo[p]) = Undone(h) /\ Undone(h) \subseteq Due(todo'[p])
    BY <1>2, <1>3, <1>6, RollbackIsComplete DEF Due
  <2>2. Due(todo[p]) \subseteq Due(todo'[p]) \cup {}
    BY <2>1
  <2>3. Kept' \subseteq (Kept \ {}) \cup {} \cup left' /\ left \subseteq left' \cup {}
    BY <1>1, <1>4
  <2> QED BY <1>2, <1>5, <2>2, <2>3, AccountsKept
<1>7. CASE h[1] \notin Fatal
  <2>1. Due(todo[p]) \subseteq Due(todo'[p]) \cup Releases(h) /\ Releases(h) \subseteq left'
    BY <1>1, <1>2, <1>3, <1>7
  <2>2. Kept' \subseteq (Kept \ Releases(h)) \cup {} \cup left' /\ left \subseteq left' \cup {}
    BY <1>1, <1>4, <2>1
  <2> QED BY <1>2, <1>5, <2>1, <2>2, AccountsKept
<1> QED BY <1>6, <1>7

\* Whatever is called, succeeds, fails or is killed, a snapshot or a file is accounted for.
LEMMA NextKeptInv ==
  ASSUME TodoInv, ScriptInv, KeptInv, Next
  PROVE  KeptInv'
<1>1. ASSUME NEW p \in Procs, DeviceCommand(p) \/ Set(p) \/ SecurityCommand(p) PROVE KeptInv'
  <2>1. Advance(p) /\ snaps' = snaps /\ files' = files /\ swap' = swap /\ left' = left
    BY <1>1, DeviceFrame, SetFrame, SecurityFrame DEF snapVars, fileVars
  <2>2. Releases(Head(todo[p])) = {}
    BY <1>1, OthersReleaseNothing
  <2>3. Kept' = Kept
    BY <2>1 DEF Kept
  <2> QED BY <2>1, <2>2, <2>3, StepKeepsAccounts
<1>2. ASSUME NEW p \in Procs, Call(p) PROVE KeptInv'
  <2>1. PICK s : Start(p, s)
    BY <1>2, CallIsComplete
  <2>2. todo[p] = << >> /\ \A q \in Procs : q # p => todo'[q] = todo[q]
    BY <2>1 DEF Start, TodoInv
  <2>3. snaps' = snaps /\ files' = files /\ swap' = swap /\ left' = left
    BY <1>2, CallFrame DEF TodoInv, snapVars, fileVars
  <2>4. Kept' = Kept
    BY <2>3 DEF Kept
  <2>5. Due(todo[p]) \subseteq Due(todo'[p]) \cup {} /\ {} \subseteq Due(todo'[p])
    BY <2>2 DEF Due
  <2>6. Kept' \subseteq (Kept \ {}) \cup {} \cup left' /\ left \subseteq left' \cup {}
    BY <2>3, <2>4
  <2> QED BY <2>2, <2>5, <2>6, AccountsKept
<1>3. ASSUME NEW p \in Procs, Crash(p) PROVE KeptInv'
  <2>1. /\ todo[p] # << >> /\ left' = left \cup Owed(p)
        /\ \A q \in Procs : q # p => todo'[q] = todo[q]
        /\ snaps' = snaps /\ files' = files /\ swap' = swap
    BY <1>3 DEF Crash, TodoInv, snapVars, fileVars
  <2>2. Due(todo[p]) \subseteq left'
    BY <2>1, NextStep DEF Owed, ReleasedBy
  <2>3. Kept' = Kept
    BY <2>1 DEF Kept
  <2>4. Due(todo[p]) \subseteq Due(todo'[p]) \cup Due(todo[p]) /\ {} \subseteq Due(todo'[p])
    OBVIOUS
  <2>5. Kept' \subseteq (Kept \ Due(todo[p])) \cup {} \cup left' /\ left \subseteq left' \cup {}
    BY <2>1, <2>2, <2>3
  <2> QED BY <2>1, <2>4, <2>5, AccountsKept
<1>4. CASE Tick
  BY <1>4 DEF Tick, KeptInv, Kept, fileVars
<1> QED BY <1>1, <1>2, <1>3, <1>4, SnapshotsKeepAccounts, FilesKeepAccounts,
   FailureKeepsAccounts DEF Next

\* A larger set has room for as many, one more element for one more, and without an
\* element there is room for one less.
LEMMA FitsMore ==
  ASSUME NEW n \in Nat, NEW S, NEW T, S \subseteq T, Fits(n, S)
  PROVE  Fits(n, T)
<1>1. PICK f \in [1..n -> S] : \A i, j \in 1..n : f[i] = f[j] => i = j
  BY DEF Fits
<1>2. f \in [1..n -> T]
  OBVIOUS
<1> QED BY <1>1, <1>2 DEF Fits

LEMMA FitsOneMore ==
  ASSUME NEW n \in Nat, NEW S, NEW p, p \notin S, Fits(n, S)
  PROVE  Fits(n + 1, S \cup {p})
<1>1. PICK f \in [1..n -> S] : \A i, j \in 1..n : f[i] = f[j] => i = j
  BY DEF Fits
<1> DEFINE g == [i \in 1..(n + 1) |-> IF i = n + 1 THEN p ELSE f[i]]
<1>2. \A i \in 1..(n + 1) : i # n + 1 => i \in 1..n
  BY SMT
<1>3. g \in [1..(n + 1) -> S \cup {p}]
  BY <1>2
<1>4. /\ \A i \in 1..(n + 1) : i # n + 1 => g[i] = f[i] /\ f[i] # p
      /\ \A i \in 1..(n + 1) : i = n + 1 => g[i] = p
  BY <1>2
<1> HIDE DEF g
<1>5. \A i, j \in 1..(n + 1) : g[i] = g[j] => i = j
  BY <1>1, <1>2, <1>4
<1> QED BY <1>3, <1>5 DEF Fits

LEMMA FitsOneLess ==
  ASSUME NEW n \in Nat, NEW S, NEW p, Fits(n + 1, S)
  PROVE  Fits(n, S \ {p})
<1>1. PICK f \in [1..(n + 1) -> S] : \A i, j \in 1..(n + 1) : f[i] = f[j] => i = j
  BY DEF Fits
<1> DEFINE g == [i \in 1..n |-> IF f[i] = p THEN f[n + 1] ELSE f[i]]
<1>2. n + 1 \in 1..(n + 1) /\ \A i \in 1..n : i \in 1..(n + 1) /\ i # n + 1
  BY SMT
<1>3. g \in [1..n -> S \ {p}]
  BY <1>1, <1>2
<1>4. \A i, j \in 1..n : g[i] = g[j] => i = j
  BY <1>1, <1>2
<1> QED BY <1>3, <1>4 DEF Fits

LEMMA FitsBase ==
  ASSUME NEW S
  PROVE  /\ Fits(0, S)
         /\ \A p \in S : Fits(1, S)
         /\ \A n \in Nat : n # 0 /\ Fits(n, S) => S # {}
<1>1. 1..0 = {} /\ 1..1 = {1} /\ \A n \in Nat : n # 0 => 1 \in 1..n
  BY SMT
<1>2. [i \in 1..0 |-> 0] \in [1..0 -> S]
  BY <1>1
<1>3. Fits(0, S)
  BY <1>1, <1>2 DEF Fits
<1>4. ASSUME NEW p \in S PROVE Fits(1, S)
  <2>1. [i \in 1..1 |-> p] \in [1..1 -> S]
    OBVIOUS
  <2> QED BY <1>1, <2>1 DEF Fits
<1> QED BY <1>1, <1>3, <1>4 DEF Fits
\* A step of p that leaves the mounts at u alone, and is not an unmount there that
\* was due, keeps their bound.
LEMMA BoundKept ==
  ASSUME SnapInv, MountInv, NEW p \in Procs, NEW u \in Times,
         \A q \in Procs : q # p => todo'[q] = todo[q],
         stack'[u] = stack[u],
         <<"mount", u>> \in left => <<"mount", u>> \in left',
         <<"mount", u>> \in Due(todo[p]) => <<"mount", u>> \in Due(todo'[p]) \cup left'
  PROVE  Bounded(u)'
<1>1. CASE <<"mount", u>> \in left'
  BY <1>1 DEF Bounded
<1>2. CASE <<"mount", u>> \notin left'
  <2>1. Fits(Len(stack[u]), Mounters(u))
    BY <1>2 DEF MountInv, Bounded
  <2>2. stack[u] \in Seq(snaps)
    BY DEF SnapInv
  <2>3. Len(stack[u]) \in Nat
    BY <2>2, SMT
  <2>4. Mounters(u) \subseteq Mounters(u)'
    BY <1>2 DEF Mounters
  <2>5. Fits(Len(stack[u]), Mounters(u)')
    BY <2>1, <2>3, <2>4, FitsMore
  <2> QED BY <2>5 DEF Bounded
<1> QED BY <1>1, <1>2

\* Only umount releases a mount.
LEMMA MountReleases ==
  ASSUME NEW s, NEW u, <<"mount", u>> \in Releases(s)
  PROVE  s[1] = "umount_snapshot" /\ s[2] = u
BY SMT DEF Releases, SwapFile

\* A mount adds one at its mount point, and a call that unmounts there.
LEMMA MountKeepsBound ==
  ASSUME TodoInv, ScriptInv, SnapInv, MountInv, NEW p \in Procs,
         MountSnapshot(p), NEW u \in Times
  PROVE  Bounded(u)'
<1> DEFINE h == Head(todo[p])
           T == Target(p)
           x == <<T[1], T[2]>>
<1>1. h = <<"mount_snapshot", T>> /\ Advance(p)
  BY DoesStep DEF MountSnapshot
<1>2. /\ T[3] \in Times
      /\ stack' = [stack EXCEPT ![T[3]] = <<x>> \o @]
      /\ left' = left \ (IF stack[T[3]] = << >> THEN {<<"mount", T[3]>>, <<"file", MountPoint(T[3])>>}
                                               ELSE {})
  BY TargetIsSnapshot DEF MountSnapshot
<1>3. /\ todo[p] # << >> /\ todo'[p] = Tail(todo[p])
      /\ \A q \in Procs : q # p => todo'[q] = todo[q]
  BY <1>1 DEF Advance, TodoInv
<1>4. Releases(h) = {} /\ <<"mount", T[3]>> \in Makes(h)
  <2>1. Makes(h) = {<<"mount", T[3]>>, <<"file", MountPoint(T[3])>>}
    BY <1>1, Accounts
  <2> QED BY <1>1, <2>1, ReleasesNothing
<1>5. Due(todo[p]) \subseteq Due(todo'[p]) /\ <<"mount", T[3]>> \in Due(todo'[p])
  BY <1>3, <1>4, NextStep
<1>6. stack \in [Times -> Seq(snaps)] /\ stack[T[3]] \in Seq(snaps)
  BY <1>2 DEF SnapInv
<1>7. Len(stack[T[3]]) \in Nat /\ Len(<<x>> \o stack[T[3]]) = Len(stack[T[3]]) + 1
      /\ (stack[T[3]] = << >> => Len(stack[T[3]]) = 0)
  BY <1>6, SMTT(40)
<1>8. CASE u # T[3]
  <2>1. stack'[u] = stack[u]
    BY <1>2, <1>6, <1>8
  <2>2. <<"mount", u>> \in left => <<"mount", u>> \in left'
    BY <1>2, <1>8, ItemsDiffer
  <2> QED BY <1>3, <1>5, <2>1, <2>2, BoundKept
<1>9. CASE u = T[3]
  <2>1. stack'[u] = <<x>> \o stack[u]
    BY <1>2, <1>6, <1>9
  <2>2. p \in Mounters(u)' /\ Mounters(u) \cup {p} \subseteq Mounters(u)'
    BY <1>3, <1>5, <1>9 DEF Mounters
  <2>3. p \notin Mounters(u)
    <3>1. "mount_snapshot" \in Fatal /\ <<"mount_snapshot", T>>[1] = "mount_snapshot"
      BY SMTT(40) DEF Fatal
    <3>2. Due(todo[p]) = {<<"snapshot", x>>}
      BY <1>1, <1>3, <3>1, UndoneBy DEF Due
    <3> QED BY <3>2, ItemsDiffer DEF Mounters
  <2>4. CASE stack[u] = << >>
    <3>1. Len(stack'[u]) = 1
      BY <1>7, <1>9, <2>1, <2>4, SMTT(40)
    <3>2. Fits(1, Mounters(u)')
      BY <2>2, FitsBase
    <3> QED BY <3>1, <3>2 DEF Bounded
  <2>5. CASE stack[u] # << >> /\ <<"mount", u>> \in left
    BY <1>2, <1>9, <2>5 DEF Bounded
  <2>6. CASE stack[u] # << >> /\ <<"mount", u>> \notin left
    <3>1. Fits(Len(stack[u]), Mounters(u))
      BY <2>6 DEF MountInv, Bounded
    <3>2. Fits(Len(stack[u]) + 1, Mounters(u) \cup {p})
      BY <1>7, <1>9, <2>3, <3>1, FitsOneMore
    <3>3. Len(stack'[u]) = Len(stack[u]) + 1 /\ Len(stack[u]) + 1 \in Nat
      BY <1>7, <1>9, <2>1, SMTT(40)
    <3>4. Fits(Len(stack[u]) + 1, Mounters(u)')
      BY <2>2, <3>2, <3>3, FitsMore
    <3> QED BY <3>3, <3>4 DEF Bounded
  <2> QED BY <2>4, <2>5, <2>6
<1> QED BY <1>8, <1>9

\* An unmount takes one away, and the call that makes it.
LEMMA UmountKeepsBound ==
  ASSUME TodoInv, ScriptInv, SnapInv, MountInv, NEW p \in Procs,
         UmountSnapshot(p), NEW u \in Times
  PROVE  Bounded(u)'
<1> DEFINE h == Head(todo[p])
           T == Target(p)
<1>1. h = <<"umount_snapshot", T>> /\ Advance(p)
  BY DoesStep DEF UmountSnapshot
<1>2. /\ T \in Times /\ stack[T] # << >>
      /\ stack' = [stack EXCEPT ![T] = Tail(@)] /\ left' = left
  BY TargetIsSnapshot DEF UmountSnapshot
<1>3. /\ todo[p] # << >> /\ todo'[p] = Tail(todo[p])
      /\ \A q \in Procs : q # p => todo'[q] = todo[q]
  BY <1>1 DEF Advance, TodoInv
<1>4. Releases(h) = {<<"mount", T>>}
  BY <1>1, Accounts
<1>5. Due(todo[p]) \subseteq Due(todo'[p]) \cup {<<"mount", T>>}
  BY <1>3, <1>4, NextStep
<1>6. stack \in [Times -> Seq(snaps)] /\ stack[T] \in Seq(snaps)
  BY <1>2 DEF SnapInv
<1>7. CASE u # T
  <2>1. stack'[u] = stack[u]
    BY <1>2, <1>6, <1>7
  <2>2. <<"mount", u>> \in Due(todo[p]) => <<"mount", u>> \in Due(todo'[p])
    BY <1>5, <1>7, ItemsDiffer
  <2> QED BY <1>2, <1>3, <2>1, <2>2, BoundKept
<1>8. CASE u = T /\ <<"mount", u>> \in left
  BY <1>2, <1>8 DEF Bounded
<1>9. CASE u = T /\ <<"mount", u>> \notin left
  <2>1. Len(stack'[u]) \in Nat /\ Len(stack[u]) = Len(stack'[u]) + 1
    BY <1>2, <1>6, <1>9, SMTT(40)
  <2>2. Mounters(u) \ {p} \subseteq Mounters(u)'
    BY <1>3 DEF Mounters
  <2>3. Fits(Len(stack[u]), Mounters(u))
    BY <1>9 DEF MountInv, Bounded
  <2>4. Fits(Len(stack'[u]), Mounters(u) \ {p})
    BY <2>1, <2>3, FitsOneLess
  <2>5. Fits(Len(stack'[u]), Mounters(u)')
    BY <2>1, <2>2, <2>4, FitsMore
  <2> QED BY <2>5 DEF Bounded
<1> QED BY <1>7, <1>8, <1>9

\* Whatever is called, succeeds, fails or is killed, a mount is accounted for.
LEMMA NextMountInv ==
  ASSUME TodoInv, ScriptInv, SnapInv, MountInv, Next
  PROVE  MountInv'
<1> SUFFICES ASSUME NEW u \in Times PROVE Bounded(u)'
  BY DEF MountInv
<1> DEFINE m == <<"mount", u>>
<1>1. ASSUME NEW p \in Procs, Advance(p), stack'[u] = stack[u], m \in left => m \in left',
             Head(todo[p])[1] # "umount_snapshot"
      PROVE  Bounded(u)'
  <2>1. /\ todo[p] # << >> /\ todo'[p] = Tail(todo[p])
        /\ \A q \in Procs : q # p => todo'[q] = todo[q]
    BY <1>1 DEF Advance, TodoInv
  <2>2. m \in Due(todo[p]) => m \in Due(todo'[p])
    BY <1>1, <2>1, NextStep, MountReleases
  <2> QED BY <1>1, <2>1, <2>2, BoundKept
<1>2. ASSUME NEW p \in Procs, DeviceCommand(p) \/ Set(p) \/ SecurityCommand(p)
      PROVE  Bounded(u)'
  <2>1. Advance(p) /\ stack' = stack /\ left' = left
    BY <1>2, DeviceFrame, SetFrame, SecurityFrame DEF snapVars
  <2>2. Head(todo[p])[1] # "umount_snapshot"
    BY <1>2, OnlyTheirOwn DEF Set, Does
  <2> QED BY <1>1, <2>1, <2>2
<1>3. ASSUME NEW p \in Procs, FileCommand(p) PROVE Bounded(u)'
  <2>1. Advance(p) /\ stack' = stack
    BY <1>3, FileFrame DEF snapVars
  <2>2. Head(todo[p])[1] # "umount_snapshot"
    BY <1>3, OnlyTheirOwn
  <2>3. m \in left => m \in left'
    BY <1>3, ItemsDiffer DEF FileCommand, Mkdir, CheckLow, Dd, Mkswap, Swapon, Swapoff, Unlink,
       Mkstemp, MkstempTwo, WriteTestFile, Cp, ReadTestFile, Create
  <2> QED BY <1>1, <2>1, <2>2, <2>3
<1>4. ASSUME NEW p \in Procs, SnapshotCommand(p) PROVE Bounded(u)'
  <2>1. CASE Snapshot(p) \/ Copy(p) \/ RemoveSnapshot(p) \/ Rmdir(p)
    <3>1. Advance(p)
      BY <1>4, SnapshotFrame
    <3>2. stack' = stack /\ (m \in left => m \in left')
      BY <2>1, ItemsDiffer DEF Snapshot, Copy, RemoveSnapshot, Rmdir, snapVars
    <3>3. Head(todo[p])[1] # "umount_snapshot"
      BY <2>1 DEF Snapshot, Copy, RemoveSnapshot, Rmdir, Does
    <3> QED BY <1>1, <3>1, <3>2, <3>3
  <2> QED BY <1>4, <2>1, MountKeepsBound, UmountKeepsBound DEF SnapshotCommand
<1>5. ASSUME NEW p \in Procs, Call(p) PROVE Bounded(u)'
  <2>1. PICK s : Start(p, s)
    BY <1>5, CallIsComplete
  <2>2. todo[p] = << >> /\ \A q \in Procs : q # p => todo'[q] = todo[q]
    BY <2>1 DEF Start, TodoInv
  <2>3. stack' = stack /\ left' = left
    BY <1>5, CallFrame DEF TodoInv, snapVars
  <2>4. Due(todo[p]) = {}
    BY <2>2 DEF Due
  <2> QED BY <2>2, <2>3, <2>4, BoundKept
<1>6. ASSUME NEW p \in Procs, Fail(p) PROVE Bounded(u)'
  <2> DEFINE h == Head(todo[p])
  <2>1. /\ todo[p] # << >> /\ todo'[p] = IF h[1] \in Fatal THEN Rollback(h) ELSE Tail(todo[p])
        /\ \A q \in Procs : q # p => todo'[q] = todo[q]
        /\ stack' = stack /\ left \subseteq left'
        /\ h[1] \notin Fatal => Releases(h) \subseteq left'
    BY <1>6 DEF Fail, TodoInv, snapVars
  <2>2. h \in Steps \cup Fallback /\ Due(todo[p]) \subseteq Due(Tail(todo[p])) \cup Releases(h)
    BY <2>1, NextStep
  <2>3. h[1] \in Fatal => Due(todo[p]) \subseteq Due(todo'[p])
    BY <2>1, <2>2, RollbackIsComplete DEF Due
  <2>4. m \in Due(todo[p]) => m \in Due(todo'[p]) \cup left'
    BY <2>1, <2>2, <2>3
  <2> QED BY <2>1, <2>4, BoundKept
<1>7. ASSUME NEW p \in Procs, Crash(p) PROVE Bounded(u)'
  <2>1. /\ todo[p] # << >> /\ left' = left \cup Owed(p) /\ stack' = stack
        /\ \A q \in Procs : q # p => todo'[q] = todo[q]
    BY <1>7 DEF Crash, TodoInv, snapVars
  <2>2. Due(todo[p]) \subseteq left'
    BY <2>1, NextStep DEF Owed, ReleasedBy
  <2> QED BY <2>1, <2>2, BoundKept
<1>8. CASE Tick
  BY <1>8 DEF Tick, MountInv, Mounters, Bounded
<1> QED BY <1>2, <1>3, <1>4, <1>5, <1>6, <1>7, <1>8 DEF Next

-----------------------------------------------------------------------------
\* With the accounts nothing is left behind: a mount needs a call that unmounts there.
LEMMA AccountsSuffice ==
  ASSUME TodoInv, SnapInv, ScriptInv, KeptInv, MountInv
  PROVE  NothingLeftBehind
<1>1. \A p \in Procs : Due(todo[p]) \subseteq Owed(p)
  <2> TAKE p \in Procs
  <2>1. CASE todo[p] = << >>
    BY <2>1 DEF Due
  <2>2. CASE todo[p] # << >>
    BY <2>2, NextStep DEF Owed, ReleasedBy
  <2> QED BY <2>1, <2>2
<1>2. ASSUME NEW u \in Times, stack[u] # << >>, <<"mount", u>> \notin left
      PROVE  \E p \in Procs : <<"mount", u>> \in Due(todo[p])
  <2>1. stack[u] \in Seq(snaps)
    BY DEF SnapInv
  <2>2. Len(stack[u]) \in Nat /\ Len(stack[u]) # 0
    BY <1>2, <2>1, SMTT(40)
  <2>3. Fits(Len(stack[u]), Mounters(u))
    BY <1>2 DEF MountInv, Bounded
  <2>4. Mounters(u) # {}
    BY <2>2, <2>3, FitsBase
  <2> QED BY <2>4 DEF Mounters
<1>3. Existing \subseteq Kept \cup {<<"mount", t>> : t \in {u \in Times : stack[u] # << >>}}
  BY DEF Existing, Kept
<1> SUFFICES ASSUME NEW x \in Existing, x \notin left PROVE \E p \in Procs : x \in Owed(p)
  BY DEF NothingLeftBehind
<1>4. CASE x \in Kept
  BY <1>1, <1>4 DEF KeptInv
<1>5. CASE x \notin Kept
  BY <1>1, <1>2, <1>3, <1>5
<1> QED BY <1>4, <1>5

-----------------------------------------------------------------------------
(* The theorems *)

\* The inductive invariant: one part for each kind of state, all of them on top
\* of the one for the scripts.
CallsInv ==
  /\ TodoInv /\ DevInv /\ FileInv /\ SnapInv /\ AttrInv /\ AuditInv /\ TuneInv /\ CopyInv
  /\ ScriptInv /\ KeptInv /\ MountInv

\* The machine as it is found has the invariant.
LEMMA InitCallsInv ==
  ASSUME Init
  PROVE  CallsInv
<1> USE DEF Init
<1>1. todo \in [Procs -> Seq(Steps)] /\ todo \in [Procs -> Seq(Steps \cup Fallback)]
  <2>1. << >> \in Seq(Steps) /\ << >> \in Seq(Steps \cup Fallback)
    BY SMTT(40)
  <2> QED BY <2>1
<1>2. TodoInv
  BY <1>1, CallsAssumption, SMTT(40) DEF TodoInv, Times
<1>3. disk \in [Disks -> DiskStates]
  <2>1. Blank \in DiskStates
    BY DEF Blank, DiskStates, Contents, Claims
  <2> QED BY <2>1
<1>4. DevInv
  <2>1. \A d \in Disks : disk[d] \in DiskStates
    BY <1>3
  <2>2. disk \in [Disks -> [has : Contents, claim : Claims, vg : BOOLEAN]]
    BY <1>3 DEF DiskStates
  <2>3. array \in BOOLEAN
    OBVIOUS
  <2> QED BY <2>1, <2>2, <2>3 DEF DevInv, DiskStates
<1>5. FileInv
  BY NamedFiles DEF FileInv
<1>6. SnapInv
  BY SMTT(40) DEF SnapInv
<1>7. AttrInv /\ AuditInv
  BY SMT DEF AttrInv, AuditInv, AuditKept
<1>8. TuneInv
  BY DEF TuneInv
<1>9. CopyInv
  <2>1. Ordered(<< >>)
    BY SMT DEF Ordered
  <2> QED BY <2>1 DEF CopyInv, InPlace, CopiesOwnSnapshot
<1>10. ScriptInv
  <2>1. Complete(<< >>)
    BY SMT DEF Complete
  <2> QED BY <2>1 DEF ScriptInv
<1>11. KeptInv
  <2>1. snaps = {} /\ \A g \in files : g[1] = "mount_dir"
    BY ItemsDiffer
  <2> QED BY <2>1 DEF KeptInv, Kept
<1>12. MountInv
  <2>1. Len(<< >>) = 0
    BY SMT
  <2> QED BY <2>1, FitsBase DEF MountInv, Bounded
<1> QED BY <1>2, <1>4, <1>5, <1>6, <1>7, <1>8, <1>9, <1>10, <1>11, <1>12 DEF CallsInv

\* And it always holds.
LEMMA Invariance == Spec => []CallsInv
<1>1. Init => CallsInv
  BY InitCallsInv
<1>2. CallsInv /\ [Next]_vars => CallsInv'
  <2>1. ASSUME CallsInv, Next PROVE CallsInv'
    BY <2>1, NextTodoInv, NextDevInv, NextFileInv, NextSnapInv, NextAttrInv, NextAuditInv,
       NextTuneInv, NextCopyInv, NextScriptInv, NextKeptInv, NextMountInv DEF CallsInv
  <2>2. ASSUME CallsInv, UNCHANGED vars PROVE CallsInv'
    <3> USE <2>2 DEF CallsInv, vars, devVars, snapVars, fileVars, tuneVars, secVars, attrVars, auditVars
    <3>1. TodoInv'
      BY DEF TodoInv
    <3>2. DevInv'
      BY DEF DevInv, Allocated
    <3>3. FileInv' /\ SnapInv'
      BY DEF FileInv, SnapInv
    <3>4. AttrInv' /\ AuditInv'
      BY DEF AttrInv, AuditInv, AuditKept
    <3>5. TuneInv'
      BY DEF TuneInv, Pending, Applied
    <3>6. CopyInv'
      BY DEF CopyInv, InPlace, CopiesOwnSnapshot
    <3>7. ScriptInv'
      BY DEF ScriptInv
    <3>8. KeptInv'
      BY DEF KeptInv, Kept
    <3>9. MountInv'
      BY DEF MountInv, Bounded, Mounters
    <3> QED BY <3>1, <3>2, <3>3, <3>4, <3>5, <3>6, <3>7, <3>8, <3>9
  <2> QED BY <2>1, <2>2
<1> QED BY <1>1, <1>2, PTL DEF Spec

\* Devices, files and settings keep their types, and what is mounted at a
\* snapshot's mount point is a snapshot that exists.
THEOREM TypeCorrect == Spec => []TypeOK
<1>1. CallsInv => TypeOK
  <2> SUFFICES ASSUME CallsInv PROVE TypeOK
    OBVIOUS
  <2>1. \A t \in Times : \A i \in 1..Len(stack[t]) : stack[t][i] \in snaps
    BY SMT DEF CallsInv, SnapInv
  <2>2. \A i \in 1..Len(log) : log[i] \in logged
    BY SMTT(40) DEF CallsInv, AuditInv
  <2> QED BY <2>1, <2>2 DEF CallsInv, TodoInv, DevInv, FileInv, SnapInv, AttrInv, TuneInv, TypeOK
<1> QED BY Invariance, <1>1, PTL

\* Whichever steps of any number of calls fail and whichever processes are killed, a
\* snapshot, a mount, a password file, a test file or a swap file out of use is there
\* only while a call that releases it runs, or because its release failed, its process
\* was killed or the command that failed had made it.
THEOREM NothingStays == Spec => []NothingLeftBehind
<1>1. CallsInv => NothingLeftBehind
  BY AccountsSuffice DEF CallsInv
<1> QED BY Invariance, <1>1, PTL

\* backup_create_with_snapshot copies its own snapshot, however many backups run,
\* unless another was mounted over it on the mount point of the same second.
THEOREM BackupReadsItsSnapshot == Spec => []CopiesOwnSnapshot
<1>1. CallsInv => CopiesOwnSnapshot
  BY DEF CallsInv, CopyInv
<1> QED BY Invariance, <1>1, PTL

\* A profile that perf_apply_profile has applied undisturbed is in force in every setting
\* whose setter took effect, for any workload, set of schedulers and kind of device, and
\* whichever of its setters fail.
THEOREM ProfileIsApplied == Spec => []ProfileApplied
<1>1. CallsInv => ProfileApplied
  <2> SUFFICES ASSUME CallsInv, NEW p \in Procs \ mixed, want[p] # NoWorkload, todo[p] = << >>,
                      NEW k \in Settings
               PROVE  Applied(p, want[p], k)
    BY DEF ProfileApplied, Applied
  <2>1. ~Pending(p, k)
    BY SMTT(40) DEF Pending
  <2> QED BY <2>1 DEF CallsInv, TuneInv
<1> QED BY Invariance, <1>1, PTL

\* Whatever number of processes log, no entry of audit_log is lost while the log
\* can be opened to append and nobody clears it.
THEOREM EntriesStay == Spec => []AuditKept
<1>1. CallsInv => AuditKept
  BY DEF CallsInv, AuditInv
<1> QED BY Invariance, <1>1, PTL
=============================================================================
