--------------------------- MODULE StorageCalls ---------------------------
(***************************************************************************)
(* The library calls of filesystem_ops.c, lvm_manager.c, raid_manager.c,   *)
(* memory_manager.c, security_manager.c, performance_tuner.c and the       *)
(* snapshot half of backup_engine.c, made by processes that run at the     *)
(* same time (storage_cli, the test programs, scripts).                    *)
(*                                                                         *)
(* Each call is a script: the checks and external commands it runs, in the *)
(* order of the code, with the ones it runs when a step fails.  Between    *)
(* two steps of a script the steps of other processes may happen.  A       *)
(* process makes one call and exits, and may be killed in the middle.      *)
(*                                                                         *)
(* The calls fall into areas that share no variable a command writes:      *)
(* block devices, snapshots, swap, kernel settings, and file attributes    *)
(* with the audit log.  The calls of one behaviour are all of one area.    *)
(*                                                                         *)
(* A step is a pair <<command, target>>.  What the commands themselves do  *)
(* (mkfs, mdadm, lvm, mount, swapon, cryptsetup, sysfs) is external.  They *)
(* open a block device exclusively, so they refuse one the kernel holds:   *)
(* that no call overwrites a device in use rests on them, not on the code. *)
(***************************************************************************)
EXTENDS Integers, Sequences, FiniteSets

CONSTANTS
  Procs,          \* the processes
  Areas,          \* the parts of the machine the calls work on, of AllAreas
  MaxCalls,       \* bound: the calls made in each area
  Disks,          \* the block devices
  Volumes,        \* the logical volumes that snapshot backups are made of
  MaxTime,        \* bound: the seconds that snapshots are named after
  Workloads,      \* the workloads processes tune for
  Schedulers,     \* the I/O schedulers the kernel offers
  HasQueueDepth,  \* the tuned device has a device/queue_depth that can be written
  MaxMissed,      \* bound: no setter fails once so many have, but for a scheduler not offered
  NoWorkload

AllAreas == {"devices", "snapshots", "memory", "tuning", "security"}

ASSUME CallsAssumption ==
  /\ Areas \subseteq AllAreas
  /\ MaxCalls \in [AllAreas -> Nat]
  /\ MaxTime \in Nat \ {0}
  /\ HasQueueDepth \in BOOLEAN
  /\ MaxMissed \in Nat
  /\ NoWorkload \notin Workloads

VARIABLES
  area,      \* the area of all the calls of a behaviour
  started,   \* the processes that have made their call
  todo,      \* what is left of each call's script
  disk,      \* each disk: has, the signature on it; claim, the kernel user
             \* that holds it; vg, it is a PV that belongs to the group
  array,     \* the md array runs
  failed,    \* the members of the array marked as failed
  lvsnap,    \* the volume of the group has a snapshot
  snaps,     \* the snapshots <<volume, second>> that exist
  stack,     \* what is mounted at each second's mount point, topmost first
  files,     \* the files that the calls create
  swap,      \* "sig": the file is formatted as swap; "on": it is in use
  tuned,     \* the value of each kernel setting, 0 as booted
  now,       \* time()
  flags,     \* the attributes of a file
  attrs,     \* the local attrs of each process: the attributes it has read
  log,       \* the audit log: the processes whose entries it holds
  copied,    \* history: what each backup read: its mount point, and whether it
             \* was its own snapshot
  crowded,   \* history: the seconds whose mount point was mounted over
  left,      \* history: what a failed release or a killed process left
  want,      \* history: the workload a process's profile was for
  mixed,     \* history: the processes whose settings another one wrote over
  missed,    \* history: the pairs <<process, setting>> whose setter had no effect
  logged,    \* history: the processes whose audit_log has returned SUCCESS
  cleared    \* history: audit_clear_log ran, or the log could not be opened to
             \* append, or an entry could not be written

devVars == <<disk, array, failed, lvsnap>>
snapVars == <<snaps, stack, copied, crowded, now>>
fileVars == <<files, swap>>
tuneVars == <<tuned, want, mixed, missed>>
attrVars == <<flags, attrs>>
auditVars == <<log, logged, cleared>>
secVars == <<attrVars, auditVars>>
vars == <<area, started, todo, devVars, snapVars, fileVars, tuneVars, secVars, left>>

Times == 1..MaxTime
Contents == {"none", "fs", "pv", "md", "luks"}
Claims == {"free", "mount", "lvm", "raid", "crypt"}
SwapFile == <<"swap", "file">>
WriteTest == <<"test", "write">>
ReadTest == <<"test", "read">>
PassFile(p) == <<"pass", p>>
OldFile(p) == <<"old", p>>
NewFile(p) == <<"new", p>>
MountPoint(t) == <<"mount_point", t>>
MountDir(d) == <<"mount_dir", d>>
FileNames == {SwapFile, WriteTest, ReadTest}
               \cup (UNION {{PassFile(p), OldFile(p), NewFile(p)} : p \in Procs})
               \cup {MountPoint(t) : t \in Times} \cup {MountDir(d) : d \in Disks}
Flags == {"immutable", "append_only"}

-----------------------------------------------------------------------------
(* The tuning profiles *)

Settings == {"scheduler", "read_ahead_kb", "queue_depth", "nr_requests",
             "swappiness", "dirty_ratio", "dirty_background_ratio",
             "vfs_cache_pressure"}

Tuning(s, ra, qd, nr, sw, dr, db, vc) ==
  [scheduler |-> s, read_ahead_kb |-> ra, queue_depth |-> qd,
   nr_requests |-> nr, swappiness |-> sw, dirty_ratio |-> dr,
   dirty_background_ratio |-> db, vfs_cache_pressure |-> vc]

perf_get_default_profile(w) ==
  CASE w = "database"   -> Tuning("deadline", 256, 128, 256, 10, 15, 5, 50)
    [] w = "web"        -> Tuning("deadline", 512, 64, 128, 10, 20, 10, 100)
    [] w = "fileserver" -> Tuning("cfq", 2048, 64, 128, 1, 40, 10, 50)
    [] OTHER            -> Tuning("mq-deadline", 128, 32, 128, 60, 20, 10, 100)

-----------------------------------------------------------------------------
(* The scripts *)

fs_create(d)  == << <<"mkfs", d>> >>
fs_create_ext4_advanced(d) == << <<"mkfs", d>> >>
fs_create_xfs_advanced(d)  == << <<"mkfs", d>> >>
fs_mount(d)   == << <<"mkdir", MountDir(d)>>, <<"mount", d>> >>
fs_unmount(d) == << <<"umount", d>> >>
fs_check(d)   == << <<"is_mounted", d>>, <<"fsck_n", d>> >>
fs_repair(d)  == << <<"is_mounted", d>>, <<"fsck", d>> >>
fs_resize(d)  == << <<"resize2fs", d>> >>
fs_resize_xfs_online(d) == << <<"xfs_growfs", d>> >>

lvm_pv_create(d) == << <<"pvcreate", d>> >>
lvm_pv_remove(d) == << <<"pv_info", d>>, <<"pvremove", d>> >>
lvm_vg_create(d) == << <<"vgcreate", d>> >>
lvm_vg_extend(d) == << <<"vgextend", d>> >>
lvm_vg_remove    == << <<"vgremove", "vg">> >>
lvm_lv_create    == << <<"lvcreate", "vg">> >>
lvm_lv_extend    == << <<"lvextend", "vg">> >>
lvm_lv_remove    == << <<"lvremove", "vg">> >>
lvm_snapshot_create == << <<"lvcreate_s", "vg">> >>
lvm_snapshot_merge  == << <<"lvconvert", "vg">> >>

raid_create(d, e) ==
  << <<"zero_superblock", d>>, <<"zero_superblock", e>>, <<"md_create", {d, e}>> >>
raid_add_disk(d) == << <<"zero_superblock", d>>, <<"md_add", d>> >>
raid_fail_disk(d)   == << <<"md_fail", d>> >>
raid_remove_disk(d) == << <<"md_remove", d>> >>
raid_stop           == << <<"md_stop", "md">> >>

luks_format_advanced(p, d) ==
  << <<"mkstemp", p>>, <<"luksFormat", d>>, <<"unlink", PassFile(p)>> >>
luks_open(p, d) ==
  << <<"mkstemp", p>>, <<"luksOpen", d>>, <<"unlink", PassFile(p)>> >>
luks_close(d) == << <<"luksClose", d>> >>
luks_change_password(p, d) ==
  << <<"mkstemp_two", p>>, <<"luksChangeKey", d>>, <<"unlink", OldFile(p)>>,
     <<"unlink", NewFile(p)>> >>

memory_auto_swap ==
  << <<"check_low", SwapFile>>, <<"dd", SwapFile>>, <<"mkswap", SwapFile>>,
     <<"swapon", SwapFile>> >>
swap_disable == << <<"swapoff", SwapFile>> >>
swap_remove_file == << <<"unlink", SwapFile>> >>

\* Mutant: the snapshot is unmounted before the backup is made.
backup_create_with_snapshot_UmountFirst(v, t, u) ==
  << <<"snapshot", <<v, t>> >>, <<"mount_snapshot", <<v, t, u>> >>,
     <<"umount_snapshot", u>>, <<"copy", <<v, t, u>> >>,
     <<"remove_snapshot", <<v, t>> >>, <<"rmdir", MountPoint(u)>> >>

\* The snapshot is named after the volume and the second t, the mount point
\* after the second u alone: time() is read again for it.
backup_create_with_snapshot(v, t, u) ==
  << <<"snapshot", <<v, t>> >>, <<"mount_snapshot", <<v, t, u>> >>,
     <<"copy", <<v, t, u>> >>, <<"umount_snapshot", u>>,
     <<"remove_snapshot", <<v, t>> >>, <<"rmdir", MountPoint(u)>> >>

perf_benchmark ==
  << <<"write_test", WriteTest>>, <<"cp", ReadTest>>, <<"read_test", ReadTest>>,
     <<"unlink", WriteTest>>, <<"unlink", ReadTest>> >>

Setter(w, k) == <<"set", <<k, perf_get_default_profile(w)[k]>> >>

\* Mutant: nr_requests is set before queue_depth.
perf_apply_profile_NrFirst(w) ==
  << Setter(w, "scheduler"), Setter(w, "read_ahead_kb"), Setter(w, "nr_requests"),
     Setter(w, "queue_depth"), Setter(w, "swappiness"), Setter(w, "dirty_ratio"),
     Setter(w, "dirty_background_ratio"), Setter(w, "vfs_cache_pressure") >>

perf_apply_profile(w) ==
  << Setter(w, "scheduler"), Setter(w, "read_ahead_kb"), Setter(w, "queue_depth"),
     Setter(w, "nr_requests"), Setter(w, "swappiness"), Setter(w, "dirty_ratio"),
     Setter(w, "dirty_background_ratio"), Setter(w, "vfs_cache_pressure") >>
cmd_perf_tune(w) == << Setter(w, "scheduler"), Setter(w, "read_ahead_kb") >>

attr_set(F)   == << <<"setflags", F>> >>
attr_unset(F) == << <<"getflags", F>>, <<"clearflags", F>> >>

\* Mutant: the log is opened for writing, not for appending.
audit_log_Truncating(p) == << <<"fopen_w", p>>, <<"write_w", p>> >>

audit_log(p) == << <<"fopen_a", p>>, <<"write_a", p>> >>
audit_clear_log == << <<"truncate", "log">> >>

\* The steps that end the call when they fail, after the ones of Rollback.
Fatal == {"is_mounted", "pv_info", "mkstemp", "mkstemp_two", "snapshot",
          "mount_snapshot", "check_low", "dd", "mkswap", "swapon", "getflags",
          "fopen_a", "fopen_w"}

\* Mutant: a failed mount returns without removing the snapshot.
Rollback_KeepSnapshot(s) ==
  IF s[1] \in {"mkswap", "swapon"} THEN << <<"unlink", SwapFile>> >> ELSE << >>

Rollback(s) ==
  CASE s[1] = "mount_snapshot"        -> << <<"remove_snapshot", <<s[2][1], s[2][2]>> >> >>
    [] s[1] \in {"mkswap", "swapon"} -> << <<"unlink", SwapFile>> >>
    [] s[1] = "fopen_a" -> << <<"fopen_w", s[2]>>, <<"write_w", s[2]>> >>
    [] OTHER                          -> << >>

-----------------------------------------------------------------------------
(* What the calls have to give back *)

\* What the step s releases.  mkswap and swapon stand for the swap file: the
\* call ends with the file in use, or unlinks it.
Releases(s) ==
  CASE s[1] = "remove_snapshot"      -> {<<"snapshot", s[2]>>}
    [] s[1] = "umount_snapshot"      -> {<<"mount", s[2]>>}
    [] s[1] \in {"unlink", "rmdir"}   -> {<<"file", s[2]>>}
    [] s[1] \in {"mkswap", "swapon"} -> {<<"file", SwapFile>>}
    [] OTHER                         -> {}

Owed(p) == UNION {Releases(todo[p][i]) : i \in 1..Len(todo[p])}

-----------------------------------------------------------------------------
\* The user that needs each signature, and the states a disk can be found in.
Needs == [mount |-> "fs", lvm |-> "pv", raid |-> "md", crypt |-> "luks"]

DiskStates ==
  {k \in [has : Contents, claim : Claims, vg : BOOLEAN] :
     /\ k.claim # "free" => k.has = Needs[k.claim]
     /\ k.claim = "lvm" => k.vg
     /\ k.vg => k.has = "pv"}

Blank == [has |-> "none", claim |-> "free", vg |-> FALSE]

Init ==
  /\ area \in Areas
  /\ started = {}
  /\ todo = [p \in Procs |-> << >>]
  /\ disk \in IF area = "devices" THEN [Disks -> DiskStates] ELSE {[d \in Disks |-> Blank]}
  /\ array = (\E d \in Disks : disk[d].claim = "raid")
  /\ failed = {}
  /\ lvsnap = FALSE
  /\ snaps = {}
  /\ stack = [t \in Times |-> << >>]
  /\ files = {MountDir(d) : d \in {e \in Disks : disk[e].claim = "mount"}}
  /\ swap = {}
  /\ tuned = [k \in Settings |-> IF k = "scheduler" THEN "none" ELSE 0]
  /\ now = 1
  /\ copied = {}
  /\ crowded = {}
  /\ left = {}
  /\ want = [p \in Procs |-> NoWorkload]
  /\ mixed = {}
  /\ missed = {}
  /\ flags \in IF area = "security" THEN SUBSET Flags ELSE {{}}
  /\ attrs = [p \in Procs |-> {}]
  /\ log = << >>
  /\ logged = {}
  /\ cleared = FALSE

-----------------------------------------------------------------------------
(* A process makes its call: one disjunct for each function of the library *)

Start(p, script) ==
  /\ p \notin started
  /\ Cardinality(started) < MaxCalls[area]
  /\ started' = started \cup {p}
  /\ todo' = [todo EXCEPT ![p] = script]
  /\ UNCHANGED area

CallDevice(p) ==
  /\ area = "devices"
  /\ \/ \E d \in Disks :
          \/ Start(p, fs_create(d))
          \/ Start(p, fs_create_ext4_advanced(d))
          \/ Start(p, fs_create_xfs_advanced(d))
          \/ Start(p, fs_mount(d))
          \/ Start(p, fs_unmount(d))
          \/ Start(p, fs_check(d))
          \/ Start(p, fs_repair(d))
          \/ Start(p, fs_resize(d))
          \/ Start(p, fs_resize_xfs_online(d))
          \/ Start(p, lvm_pv_create(d))
          \/ Start(p, lvm_pv_remove(d))
          \/ Start(p, lvm_vg_create(d))
          \/ Start(p, lvm_vg_extend(d))
          \/ array /\ Start(p, raid_add_disk(d))
          \/ Start(p, raid_fail_disk(d))
          \/ Start(p, raid_remove_disk(d))
          \/ Start(p, luks_format_advanced(p, d))
          \/ Start(p, luks_open(p, d))
          \/ Start(p, luks_close(d))
          \/ Start(p, luks_change_password(p, d))
          \/ \E e \in Disks \ {d} : Start(p, raid_create(d, e))
     \/ Start(p, lvm_vg_remove)
     \/ Start(p, lvm_lv_create)
     \/ Start(p, lvm_lv_extend)
     \/ Start(p, lvm_lv_remove)
     \/ Start(p, lvm_snapshot_create)
     \/ Start(p, lvm_snapshot_merge)
     \/ Start(p, raid_stop)
  /\ UNCHANGED <<devVars, snapVars, fileVars, tuneVars, secVars, left>>

CallBackup(p) ==
  /\ area = "snapshots"
  /\ \E v \in Volumes, u \in {now, now + 1} \cap Times :
       Start(p, backup_create_with_snapshot(v, now, u))
  /\ UNCHANGED <<devVars, snapVars, fileVars, tuneVars, secVars, left>>

CallMemory(p) ==
  /\ area = "memory"
  /\ \/ Start(p, memory_auto_swap)
     \/ Start(p, swap_disable)
     \/ Start(p, swap_remove_file)
  /\ UNCHANGED <<devVars, snapVars, fileVars, tuneVars, secVars, left>>

CallPerf(p) ==
  /\ area = "tuning"
  /\ \/ Start(p, perf_benchmark) /\ UNCHANGED want
     \/ \E w \in Workloads :
          \/ Start(p, perf_apply_profile(w)) /\ want' = [want EXCEPT ![p] = w]
          \/ Start(p, cmd_perf_tune(w)) /\ UNCHANGED want
  /\ UNCHANGED <<devVars, snapVars, fileVars, tuned, mixed, missed, secVars, left>>

CallSecurity(p) ==
  /\ area = "security"
  /\ \/ \E F \in (SUBSET Flags) \ {{}} : Start(p, attr_set(F)) \/ Start(p, attr_unset(F))
     \/ Start(p, audit_log(p))
     \/ Start(p, audit_clear_log)
  /\ UNCHANGED <<devVars, snapVars, fileVars, tuneVars, secVars, left>>

\* The step of p's script that is next is the command c, and it succeeds.
Does(p, c) ==
  /\ todo[p] # << >>
  /\ Head(todo[p])[1] = c
  /\ todo' = [todo EXCEPT ![p] = Tail(@)]
  /\ UNCHANGED <<area, started>>

Target(p) == Head(todo[p])[2]

-----------------------------------------------------------------------------
(* The commands on block devices *)

Free(d) == disk[d].claim = "free"

Write(d, content) ==
  disk' = [disk EXCEPT ![d] = [has |-> content, claim |-> "free", vg |-> FALSE]]

Claim(d, user) == disk' = [disk EXCEPT ![d].claim = user]

OnDevices == UNCHANGED <<snapVars, fileVars, tuneVars, secVars, left>>

\* mkfs -F or -f overwrites any signature, but not a device in use.
Mkfs(p) ==
  /\ Does(p, "mkfs")
  /\ Free(Target(p))
  /\ Write(Target(p), "fs")
  /\ OnDevices /\ UNCHANGED <<array, failed, lvsnap>>

\* fs_create_mount_point: the directory may exist.
Mkdir(p) ==
  /\ Does(p, "mkdir")
  /\ files' = files \cup {Target(p)}
  /\ UNCHANGED <<devVars, snapVars, swap, tuneVars, secVars, left>>

\* One mount point for each device: the kernel refuses the same mount twice.
Mount(p) ==
  /\ Does(p, "mount")
  /\ MountDir(Target(p)) \in files
  /\ Free(Target(p)) /\ disk[Target(p)].has = "fs"
  /\ Claim(Target(p), "mount")
  /\ OnDevices /\ UNCHANGED <<array, failed, lvsnap>>

Umount(p) ==
  /\ Does(p, "umount")
  /\ disk[Target(p)].claim = "mount"
  /\ Claim(Target(p), "free")
  /\ OnDevices /\ UNCHANGED <<array, failed, lvsnap>>

\* fs_is_mounted found nothing; any other answer ends the call.
IsMounted(p) ==
  /\ Does(p, "is_mounted")
  /\ disk[Target(p)].claim # "mount"
  /\ OnDevices /\ UNCHANGED devVars

\* e2fsck -n or xfs_repair -n of fs_check: it only reads, and does not claim the device,
\* which may have been mounted since.
FsckReadOnly(p) ==
  /\ Does(p, "fsck_n")
  /\ disk[Target(p)].has = "fs"
  /\ OnDevices /\ UNCHANGED devVars

\* e2fsck -y or -p, or xfs_repair, of fs_repair, which opens the device exclusively.
Fsck(p) ==
  /\ Does(p, "fsck")
  /\ Free(Target(p)) /\ disk[Target(p)].has = "fs"
  /\ OnDevices /\ UNCHANGED devVars

\* resize2fs takes a device that is mounted or not, xfs_growfs a mount point.
Resize(p) ==
  /\ Does(p, "resize2fs")
  /\ disk[Target(p)].has = "fs" /\ disk[Target(p)].claim \in {"free", "mount"}
  /\ OnDevices /\ UNCHANGED devVars

XfsGrow(p) ==
  /\ Does(p, "xfs_growfs")
  /\ disk[Target(p)].claim = "mount"
  /\ OnDevices /\ UNCHANGED devVars

Pvcreate(p) ==
  /\ Does(p, "pvcreate")
  /\ Free(Target(p)) /\ ~disk[Target(p)].vg
  /\ Write(Target(p), "pv")
  /\ OnDevices /\ UNCHANGED <<array, failed, lvsnap>>

\* The call goes on when the PV is not allocated, and also when pvs failed or
\* did not list it: lvm_pv_info is then not SUCCESS.
PvInfo(p) ==
  /\ Does(p, "pv_info")
  /\ OnDevices /\ UNCHANGED devVars

\* One -f: pvremove still refuses a PV that belongs to a volume group.
Pvremove(p) ==
  /\ Does(p, "pvremove")
  /\ Free(Target(p)) /\ disk[Target(p)].has = "pv" /\ ~disk[Target(p)].vg
  /\ Write(Target(p), "none")
  /\ OnDevices /\ UNCHANGED <<array, failed, lvsnap>>

Grouped == {d \in Disks : disk[d].vg}

JoinGroup(p) ==
  /\ Free(Target(p)) /\ disk[Target(p)].has \in {"none", "pv"} /\ ~disk[Target(p)].vg
  /\ disk' = [disk EXCEPT ![Target(p)] = [has |-> "pv", claim |-> "free", vg |-> TRUE]]
  /\ OnDevices /\ UNCHANGED <<array, failed, lvsnap>>

Vgcreate(p) == Does(p, "vgcreate") /\ Grouped = {} /\ JoinGroup(p)
Vgextend(p) == Does(p, "vgextend") /\ Grouped # {} /\ JoinGroup(p)

Release(D) ==
  disk' = [d \in Disks |-> IF d \in D THEN [disk[d] EXCEPT !.claim = "free"] ELSE disk[d]]

Allocate(D) ==
  disk' = [d \in Disks |-> IF d \in D THEN [disk[d] EXCEPT !.claim = "lvm"] ELSE disk[d]]

\* The disks that the logical volume and its snapshot lie on.
Allocated == {d \in Disks : disk[d].claim = "lvm"}

\* vgremove -f removes the volumes of the group with it.
Vgremove(p) ==
  /\ Does(p, "vgremove")
  /\ Grouped # {}
  /\ disk' = [d \in Disks |->
                IF disk[d].vg THEN [disk[d] EXCEPT !.claim = "free", !.vg = FALSE] ELSE disk[d]]
  /\ lvsnap' = FALSE
  /\ OnDevices /\ UNCHANGED <<array, failed>>

\* A new logical volume is active, and holds the disks it lies on.
Lvcreate(p) ==
  /\ Does(p, "lvcreate")
  /\ \E D \in (SUBSET Grouped) \ {{}} : Allocate(D)
  /\ OnDevices /\ UNCHANGED <<array, failed, lvsnap>>

Lvextend(p) ==
  /\ Does(p, "lvextend")
  /\ Allocated # {}
  /\ \E D \in SUBSET Grouped : Allocate(D)
  /\ OnDevices /\ UNCHANGED <<array, failed, lvsnap>>

\* lvremove -f of a volume removes its snapshot too.
Lvremove(p) ==
  /\ Does(p, "lvremove")
  /\ Allocated # {}
  /\ Release(Allocated)
  /\ lvsnap' = FALSE
  /\ OnDevices /\ UNCHANGED <<array, failed>>

LvcreateSnapshot(p) ==
  /\ Does(p, "lvcreate_s")
  /\ Allocated # {} /\ ~lvsnap
  /\ \E D \in SUBSET Grouped : Allocate(D)
  /\ lvsnap' = TRUE
  /\ OnDevices /\ UNCHANGED <<array, failed>>

\* The snapshot is gone after the merge, and the disks that only it lay on.
Lvconvert(p) ==
  /\ Does(p, "lvconvert")
  /\ lvsnap
  /\ \E D \in (SUBSET Allocated) \ {Allocated} : Release(D)
  /\ lvsnap' = FALSE
  /\ OnDevices /\ UNCHANGED <<array, failed>>

-----------------------------------------------------------------------------
(* mdadm and cryptsetup *)

ZeroSuperblock(p) ==
  /\ Does(p, "zero_superblock")
  /\ Free(Target(p)) /\ disk[Target(p)].has = "md"
  /\ Write(Target(p), "none")
  /\ OnDevices /\ UNCHANGED <<array, failed, lvsnap>>

\* --force --run: whatever the disks hold is overwritten without a question.
MdCreate(p) ==
  /\ Does(p, "md_create")
  /\ ~array
  /\ \A d \in Target(p) : Free(d)
  /\ array' = TRUE
  /\ disk' = [d \in Disks |-> IF d \in Target(p)
                              THEN [has |-> "md", claim |-> "raid", vg |-> FALSE]
                              ELSE disk[d]]
  /\ OnDevices /\ UNCHANGED <<failed, lvsnap>>

MdAdd(p) ==
  /\ Does(p, "md_add")
  /\ array /\ Free(Target(p))
  /\ disk' = [disk EXCEPT ![Target(p)] = [has |-> "md", claim |-> "raid", vg |-> FALSE]]
  /\ OnDevices /\ UNCHANGED <<array, failed, lvsnap>>

Working == {d \in Disks : disk[d].claim = "raid"} \ failed

MdFail(p) ==
  /\ Does(p, "md_fail")
  /\ Target(p) \in Working /\ Working # {Target(p)}
  /\ failed' = failed \cup {Target(p)}
  /\ OnDevices /\ UNCHANGED <<disk, array, lvsnap>>

MdRemove(p) ==
  /\ Does(p, "md_remove")
  /\ Target(p) \in failed
  /\ failed' = failed \ {Target(p)}
  /\ Claim(Target(p), "free")
  /\ OnDevices /\ UNCHANGED <<array, lvsnap>>

MdStop(p) ==
  /\ Does(p, "md_stop")
  /\ array
  /\ array' = FALSE /\ failed' = {}
  /\ Release({d \in Disks : disk[d].claim = "raid"})
  /\ OnDevices /\ UNCHANGED lvsnap

LuksFormat(p) ==
  /\ Does(p, "luksFormat")
  /\ Free(Target(p))
  /\ Write(Target(p), "luks")
  /\ OnDevices /\ UNCHANGED <<array, failed, lvsnap>>

LuksOpen(p) ==
  /\ Does(p, "luksOpen")
  /\ Free(Target(p)) /\ disk[Target(p)].has = "luks"
  /\ Claim(Target(p), "crypt")
  /\ OnDevices /\ UNCHANGED <<array, failed, lvsnap>>

\* The key is changed in the header, which an open mapping does not lock.
LuksChangeKey(p) ==
  /\ Does(p, "luksChangeKey")
  /\ disk[Target(p)].has = "luks"
  /\ OnDevices /\ UNCHANGED devVars

LuksClose(p) ==
  /\ Does(p, "luksClose")
  /\ disk[Target(p)].claim = "crypt"
  /\ Claim(Target(p), "free")
  /\ OnDevices /\ UNCHANGED <<array, failed, lvsnap>>

-----------------------------------------------------------------------------
(* Snapshots *)

Snapshot(p) ==
  /\ Does(p, "snapshot")
  /\ Target(p) \notin snaps
  /\ snaps' = snaps \cup {Target(p)}
  /\ left' = left \ {<<"snapshot", Target(p)>>}
  /\ UNCHANGED <<devVars, stack, copied, crowded, now, fileVars, tuneVars, secVars>>

\* mkdir -p and mount.  A mount on a mount point in use covers what is there.
MountSnapshot(p) ==
  /\ Does(p, "mount_snapshot")
  /\ LET x == <<Target(p)[1], Target(p)[2]>>
         u == Target(p)[3]
     IN  /\ x \in snaps
         /\ stack' = [stack EXCEPT ![u] = <<x>> \o @]
         /\ crowded' = IF stack[u] = << >> THEN crowded ELSE crowded \cup {u}
         /\ files' = files \cup {MountPoint(u)}
         /\ left' = left \ (IF stack[u] = << >> THEN {<<"mount", u>>, <<"file", MountPoint(u)>>}
                                               ELSE {})
  /\ UNCHANGED <<devVars, snaps, copied, now, swap, tuneVars, secVars>>

\* backup_create(mount_point, ...) reads what is topmost there; the backup it
\* makes is BackupEngine's.
Copy(p) ==
  /\ Does(p, "copy")
  /\ LET x == <<Target(p)[1], Target(p)[2]>>
         u == Target(p)[3]
     IN  copied' = copied \cup {[point |-> u, own |-> stack[u] # << >> /\ Head(stack[u]) = x]}
  /\ UNCHANGED <<devVars, snaps, stack, crowded, now, fileVars, tuneVars, secVars, left>>

UmountSnapshot(p) ==
  /\ Does(p, "umount_snapshot")
  /\ stack[Target(p)] # << >>
  /\ stack' = [stack EXCEPT ![Target(p)] = Tail(@)]
  /\ UNCHANGED <<devVars, snaps, copied, crowded, now, fileVars, tuneVars, secVars, left>>

\* lvremove -f refuses a snapshot that is mounted.
RemoveSnapshot(p) ==
  /\ Does(p, "remove_snapshot")
  /\ Target(p) \in snaps
  /\ \A u \in Times : \A i \in 1..Len(stack[u]) : stack[u][i] # Target(p)
  /\ snaps' = snaps \ {Target(p)}
  /\ UNCHANGED <<devVars, stack, copied, crowded, now, fileVars, tuneVars, secVars, left>>

Rmdir(p) ==
  /\ Does(p, "rmdir")
  /\ Target(p) \in files /\ stack[Target(p)[2]] = << >>
  /\ files' = files \ {Target(p)}
  /\ UNCHANGED <<devVars, snapVars, swap, tuneVars, secVars, left>>

Tick ==
  /\ area = "snapshots"
  /\ now < MaxTime
  /\ now' = now + 1
  /\ UNCHANGED <<area, started, todo, devVars, snaps, stack, copied, crowded, fileVars, tuneVars,
                 secVars, left>>

-----------------------------------------------------------------------------
(* Files: the swap file, the password file, the benchmark's test files *)

OnFiles == UNCHANGED <<devVars, snapVars, tuneVars, secVars>>

Create(f) == files' = files \cup {f} /\ left' = left \ {<<"file", f>>}

\* memory_check_low found too little; any other answer ends the call.
CheckLow(p) == Does(p, "check_low") /\ OnFiles /\ UNCHANGED <<files, swap, left>>

\* The kernel lets nobody write to, or unlink, a swap file in use.
Dd(p) ==
  /\ Does(p, "dd")
  /\ "on" \notin swap
  /\ Create(SwapFile) /\ swap' = {}
  /\ OnFiles

Mkswap(p) ==
  /\ Does(p, "mkswap")
  /\ SwapFile \in files /\ "on" \notin swap
  /\ swap' = {"sig"}
  /\ OnFiles /\ UNCHANGED <<files, left>>

Swapon(p) ==
  /\ Does(p, "swapon")
  /\ SwapFile \in files /\ swap = {"sig"}
  /\ swap' = {"sig", "on"}
  /\ OnFiles /\ UNCHANGED <<files, left>>

\* swap_disable leaves the file: whoever disabled it removes it.
Swapoff(p) ==
  /\ Does(p, "swapoff")
  /\ "on" \in swap
  /\ swap' = {"sig"}
  /\ left' = left \cup {<<"file", SwapFile>>}
  /\ OnFiles /\ UNCHANGED files

Unlink(p) ==
  /\ Does(p, "unlink")
  /\ Target(p) \in files
  /\ Target(p) = SwapFile => "on" \notin swap
  /\ files' = files \ {Target(p)}
  /\ swap' = IF Target(p) = SwapFile THEN {} ELSE swap
  /\ OnFiles /\ UNCHANGED left

Mkstemp(p) ==
  /\ Does(p, "mkstemp")
  /\ Create(PassFile(Target(p)))
  /\ OnFiles /\ UNCHANGED swap

\* Both temporary files are made before either result is looked at.
MkstempTwo(p) ==
  /\ Does(p, "mkstemp_two")
  /\ files' = files \cup {OldFile(Target(p)), NewFile(Target(p))}
  /\ OnFiles /\ UNCHANGED <<swap, left>>

WriteTestFile(p) == Does(p, "write_test") /\ Create(WriteTest) /\ OnFiles /\ UNCHANGED swap

Cp(p) ==
  /\ Does(p, "cp")
  /\ WriteTest \in files
  /\ Create(ReadTest)
  /\ OnFiles /\ UNCHANGED swap

ReadTestFile(p) ==
  /\ Does(p, "read_test")
  /\ ReadTest \in files
  /\ OnFiles /\ UNCHANGED <<files, swap, left>>

-----------------------------------------------------------------------------
(* Kernel settings *)

\* The attribute the setter of k writes: when it cannot open device/queue_depth
\* perf_set_queue_depth writes nr_requests.
Attribute(k) == IF k = "queue_depth" /\ ~HasQueueDepth THEN "nr_requests" ELSE k

\* A new scheduler resets nr_requests.
Store(k, v) ==
  [tuned EXCEPT ![Attribute(k)] = v,
                !["nr_requests"] = IF k = "scheduler" /\ tuned["scheduler"] # v THEN 0 ELSE @]

\* A setter.  It has no effect when fopen fails, for which it returns -1, or when the
\* kernel refuses the value, as it does a scheduler it does not have: the write happens in
\* fclose, whose result is not looked at.  perf_apply_profile goes on in either case.
Set(p) ==
  /\ Does(p, "set")
  /\ LET k == Target(p)[1]
         v == Target(p)[2]
     IN  \/ /\ k = "scheduler" => v \in Schedulers
            /\ tuned' = Store(k, v)
            /\ mixed' = mixed \cup {q \in Procs \ {p} : want[q] # NoWorkload}
            /\ UNCHANGED missed
         \/ /\ (k = "scheduler" /\ v \notin Schedulers) \/ Cardinality(missed) < MaxMissed
            /\ missed' = missed \cup {<<p, k>>}
            /\ UNCHANGED <<tuned, mixed>>
  /\ UNCHANGED <<devVars, snapVars, fileVars, want, secVars, left>>

-----------------------------------------------------------------------------
(* File attributes and the audit log *)

OnSecurity == UNCHANGED <<devVars, snapVars, fileVars, tuneVars, left>>

\* The flags given are all the file has afterwards.
SetFlags(p) ==
  /\ Does(p, "setflags")
  /\ flags' = Target(p)
  /\ OnSecurity /\ UNCHANGED <<attrs, auditVars>>

GetFlags(p) ==
  /\ Does(p, "getflags")
  /\ attrs' = [attrs EXCEPT ![p] = flags]
  /\ OnSecurity /\ UNCHANGED <<flags, auditVars>>

\* The copy is written back without the flags: what others set or removed since is lost.
ClearFlags(p) ==
  /\ Does(p, "clearflags")
  /\ flags' = attrs[p] \ Target(p)
  /\ OnSecurity /\ UNCHANGED <<attrs, auditVars>>

\* fopen "a" creates the log when there is none, and "w" empties it.
FopenA(p) ==
  /\ Does(p, "fopen_a")
  /\ OnSecurity /\ UNCHANGED secVars

FopenW(p) ==
  /\ Does(p, "fopen_w")
  /\ log' = << >>
  /\ OnSecurity /\ UNCHANGED <<attrVars, logged, cleared>>

\* What was opened with "a" is written at the end of the log in one write, what
\* was opened with "w" at its start, over what others have written there.
\* audit_log does not look at the result: it returns SUCCESS (see Fail).
WriteA(p) ==
  /\ Does(p, "write_a")
  /\ log' = Append(log, p)
  /\ logged' = logged \cup {p}
  /\ OnSecurity /\ UNCHANGED <<attrVars, cleared>>

WriteW(p) ==
  /\ Does(p, "write_w")
  /\ log' = <<p>> \o (IF log = << >> THEN << >> ELSE Tail(log))
  /\ logged' = logged \cup {p}
  /\ OnSecurity /\ UNCHANGED <<attrVars, cleared>>

Truncate(p) ==
  /\ Does(p, "truncate")
  /\ log' = << >>
  /\ cleared' = TRUE
  /\ OnSecurity /\ UNCHANGED <<attrVars, logged>>

-----------------------------------------------------------------------------
(* Failures *)

\* A command fails and changes nothing; a release that fails leaves its target.
\* Three steps do leave files: dd has made the swap file, mkdir -p the mount
\* point, and when one mkstemp of luks_change_password fails the file of the
\* other stays.
FailureLeaves(s) ==
  CASE s[1] = "dd" /\ "on" \notin swap -> {{SwapFile}}
    [] s[1] = "mount_snapshot"          -> {{MountPoint(s[2][3])}}
    [] s[1] = "mkstemp_two"             -> {{}, {OldFile(s[2])}, {NewFile(s[2])}}
    [] OTHER                            -> {{}}

Fail(p) ==
  /\ todo[p] # << >>
  /\ LET s == Head(todo[p])
     IN  /\ s[1] \notin {"set", "copy"}
         /\ s[1] = "pv_info" => disk[s[2]].vg
         /\ todo' = [todo EXCEPT ![p] = IF s[1] \in Fatal THEN Rollback(s) ELSE Tail(@)]
         /\ \E F \in FailureLeaves(s) :
              /\ files' = files \cup F
              /\ swap' = IF SwapFile \in F THEN {} ELSE swap
              /\ left' = left \cup {<<"file", f>> : f \in F}
                              \cup IF s[1] \in Fatal THEN {} ELSE Releases(s)
         /\ cleared' = (cleared \/ s[1] \in {"fopen_a", "write_a", "write_w"})
         /\ logged' = IF s[1] \in {"write_a", "write_w"} THEN logged \cup {p} ELSE logged
  /\ UNCHANGED <<area, started, devVars, snapVars, tuneVars, attrVars, log>>

\* The process is killed between two steps.
Crash(p) ==
  /\ todo[p] # << >>
  /\ todo' = [todo EXCEPT ![p] = << >>]
  /\ left' = left \cup Owed(p)
  /\ want' = [want EXCEPT ![p] = NoWorkload]
  /\ UNCHANGED <<area, started, devVars, snapVars, fileVars, tuned, mixed, missed, secVars>>

-----------------------------------------------------------------------------
DeviceCommand(p) ==
  \/ Mkfs(p) \/ Mount(p) \/ Umount(p) \/ IsMounted(p) \/ FsckReadOnly(p) \/ Fsck(p)
  \/ Resize(p) \/ XfsGrow(p)
  \/ Pvcreate(p) \/ PvInfo(p) \/ Pvremove(p) \/ Vgcreate(p) \/ Vgextend(p) \/ Vgremove(p)
  \/ Lvcreate(p) \/ Lvextend(p) \/ Lvremove(p) \/ LvcreateSnapshot(p) \/ Lvconvert(p)
  \/ ZeroSuperblock(p) \/ MdCreate(p) \/ MdAdd(p) \/ MdFail(p) \/ MdRemove(p) \/ MdStop(p)
  \/ LuksFormat(p) \/ LuksOpen(p) \/ LuksClose(p) \/ LuksChangeKey(p)

SnapshotCommand(p) ==
  \/ Snapshot(p) \/ MountSnapshot(p) \/ Copy(p) \/ UmountSnapshot(p) \/ RemoveSnapshot(p)
  \/ Rmdir(p)

FileCommand(p) ==
  \/ Mkdir(p) \/ CheckLow(p) \/ Dd(p) \/ Mkswap(p) \/ Swapon(p) \/ Swapoff(p) \/ Unlink(p)
  \/ Mkstemp(p) \/ MkstempTwo(p) \/ WriteTestFile(p) \/ Cp(p) \/ ReadTestFile(p)

SecurityCommand(p) ==
  \/ SetFlags(p) \/ GetFlags(p) \/ ClearFlags(p)
  \/ FopenA(p) \/ FopenW(p) \/ WriteA(p) \/ WriteW(p) \/ Truncate(p)

Call(p) == CallDevice(p) \/ CallBackup(p) \/ CallMemory(p) \/ CallPerf(p) \/ CallSecurity(p)

Next ==
  \/ \E p \in Procs :
       \/ Call(p) \/ DeviceCommand(p) \/ SnapshotCommand(p) \/ FileCommand(p) \/ Set(p)
       \/ SecurityCommand(p) \/ Fail(p) \/ Crash(p)
  \/ Tick

Spec == Init /\ [][Next]_vars

-----------------------------------------------------------------------------
(* Properties *)

\* Types of the devices, files and settings the calls work on.  What is mounted at a
\* snapshot's mount point is a snapshot that exists: lvremove never takes a mounted one.
TypeOK ==
  /\ started \subseteq Procs
  /\ \A p \in Procs : p \notin started => todo[p] = << >>
  /\ disk \in [Disks -> [has : Contents, claim : Claims, vg : BOOLEAN]]
  /\ array \in BOOLEAN
  /\ failed \subseteq {d \in Disks : disk[d].claim = "raid"}
  /\ snaps \subseteq Volumes \X Times
  /\ \A t \in Times : \A i \in 1..Len(stack[t]) : stack[t][i] \in snaps
  /\ files \subseteq FileNames
  /\ swap \in {{}, {"sig"}, {"sig", "on"}}
  /\ DOMAIN tuned = Settings
  /\ now \in Times
  /\ lvsnap => Allocated # {}
  /\ flags \subseteq Flags
  /\ \A i \in 1..Len(log) : log[i] \in logged

Existing ==
  {<<"snapshot", x>> : x \in snaps}
    \cup {<<"mount", t>> : t \in {u \in Times : stack[u] # << >>}}
    \cup {<<"file", f>> : f \in {g \in files :
              g[1] # "mount_dir" /\ (g = SwapFile => "on" \notin swap)}}

\* A snapshot, its mount, a password file, a test file or a swap file that is
\* not in use exists only while a call that will release it is running, unless
\* the process was killed, the command that releases it failed, or a command
\* that failed had made it (dd, mkdir -p, one of two mkstemp).
NothingLeftBehind == Existing \subseteq left \cup UNION {Owed(p) : p \in Procs}

\* backup_create_with_snapshot copies its own snapshot ("Realizar backup desde
\* el snapshot"), unless the snapshot of another volume was mounted over it, on
\* the mount point the two share when they are made in the same second.
CopiesOwnSnapshot == \A c \in copied : c.own \/ c.point \in crowded

\* When perf_apply_profile has returned and no other process has tuned since it
\* began, every setting whose setter took effect has the value of the profile: no later
\* setter of the profile undoes an earlier one, whichever of them fail, although two of
\* them write nr_requests and a third resets it.  A queue_depth the device does not have
\* is excepted.  What failed is reported to nobody: "Profile applied successfully!".
ProfileApplied ==
  \A p \in Procs \ mixed :
    want[p] # NoWorkload /\ todo[p] = << >> =>
      \A k \in Settings :
        \/ tuned[k] = perf_get_default_profile(want[p])[k]
        \/ <<p, k>> \in missed
        \/ k = "queue_depth" /\ ~HasQueueDepth

\* Every entry that audit_log has returned SUCCESS for is in the audit log,
\* whatever processes log at the same time, unless audit_clear_log was called,
\* the log could not be opened with "a" (audit_log then empties it with "w"), or
\* an entry could not be written, which fprintf and fclose report to nobody.
AuditKept == cleared \/ logged \subseteq {log[i] : i \in 1..Len(log)}
=============================================================================
