---------------------------- MODULE StorageStats ----------------------------
(***************************************************************************)
(* The kernel module storage_stats: the table device_stats[] behind        *)
(* /proc/storage_stats, updated by concurrent callers of the exported      *)
(* update_storage_stats, reset and read through the /proc file.            *)
(*                                                                         *)
(* Everything done under one hold of stats_lock is one step.  What the     *)
(* code does outside the lock is a step of its own: the entry that         *)
(* get_device_stats has just created is found again through device_count   *)
(* after the unlock, the update takes the lock a second time, and          *)
(* storage_stats_show prints its last line after the unlock.               *)
(***************************************************************************)
EXTENDS Naturals

CONSTANTS
  Names,        \* device names
  Cut,          \* Cut[n]: the first 63 characters of n
  NoName,       \* the name of an entry never used
  Callers,      \* contexts that may run update_storage_stats at once
  Readers,      \* processes that may read the /proc file at once
  MAX_DEVICES,  \* 16
  MaxOps        \* bound on the operations counted in one entry

ASSUME NameAssumption ==
  /\ Cut \in [Names -> Names]
  /\ \A n \in Names : Cut[Cut[n]] = Cut[n]
  /\ NoName \notin Names
ASSUME TableAssumption == MAX_DEVICES \in Nat \ {0} /\ MaxOps \in Nat \ {0}

VARIABLES
  device_stats,  \* the table
  device_count,
  cpc,           \* per caller: where its update is
  dev,           \* per caller: the device it was called for
  stats,         \* per caller: the index of the entry it points to
  debug,
  rpc,           \* per reader: where its storage_stats_show is
  listed         \* per reader: how many devices it has printed

callVars == <<cpc, dev, stats>>
showVars == <<rpc, listed>>
vars == <<device_stats, device_count, callVars, debug, showVars>>

Index == 0 .. MAX_DEVICES - 1
Used == {e \in Index : e < device_count}

\* An entry with all its counters at zero. The byte and latency counters move with
\* the operation counters, in the same two places, and are left out.
Fresh(n) == [name |-> n, read_ops |-> 0, write_ops |-> 0, op_count |-> 0]

Init ==
  /\ device_stats = [e \in Index |-> Fresh(NoName)]
  /\ device_count = 0
  /\ cpc = [t \in Callers |-> "idle"]
  /\ dev = [t \in Callers |-> NoName]
  /\ stats = [t \in Callers |-> 0]
  /\ debug = FALSE
  /\ rpc = [r \in Readers |-> "idle"]
  /\ listed = [r \in Readers |-> 0]
-----------------------------------------------------------------------------
(* update_storage_stats and get_device_stats.                              *)

\* Mutant: the loop returns the first entry without comparing names.
Matches_First(n, e) == e \in Used /\ e = 0

\* The first entry whose name is n, as strcmp sees it.
Matches(n, e) ==
  /\ e \in Used
  /\ device_stats[e].name = n
  /\ \A f \in Used : f < e => device_stats[f].name # n

\* get_device_stats finds the device and returns its entry.
Find(t) ==
  /\ cpc[t] = "idle"
  /\ \E n \in Names, e \in Index :
       /\ Matches(n, e)
       /\ dev' = [dev EXCEPT ![t] = n]
       /\ stats' = [stats EXCEPT ![t] = e]
  /\ cpc' = [cpc EXCEPT ![t] = "apply"]
  /\ UNCHANGED <<device_stats, device_count, debug, showVars>>

\* Mutant: the entry is created after a search whose lock has been released.
Create_StaleSearch(t) ==
  /\ cpc[t] = "idle"
  /\ device_count < MAX_DEVICES
  /\ \E n \in Names :
       /\ device_stats' = [device_stats EXCEPT ![device_count] = Fresh(Cut[n])]
       /\ dev' = [dev EXCEPT ![t] = n]
  /\ device_count' = device_count + 1
  /\ cpc' = [cpc EXCEPT ![t] = "created"]
  /\ UNCHANGED <<stats, debug, showVars>>

\* get_device_stats creates an entry, device_count++, and unlocks.
Create(t) ==
  /\ cpc[t] = "idle"
  /\ device_count < MAX_DEVICES
  /\ \E n \in Names :
       /\ \A e \in Used : device_stats[e].name # n
       /\ device_stats' = [device_stats EXCEPT ![device_count] = Fresh(Cut[n])]
       /\ dev' = [dev EXCEPT ![t] = n]
  /\ device_count' = device_count + 1
  /\ cpc' = [cpc EXCEPT ![t] = "created"]
  /\ UNCHANGED <<stats, debug, showVars>>

\* get_device_stats returns NULL: the table is full.
NoSpace(t) ==
  /\ cpc[t] = "idle"
  /\ device_count >= MAX_DEVICES
  /\ \E n \in Names : \A e \in Used : device_stats[e].name # n
  /\ UNCHANGED vars

\* Mutant: "&device_stats[device_count]".
ReturnCreated_OneOff(t) ==
  /\ cpc[t] = "created"
  /\ stats' = [stats EXCEPT ![t] = device_count]
  /\ cpc' = [cpc EXCEPT ![t] = "apply"]
  /\ UNCHANGED <<device_stats, device_count, dev, debug, showVars>>

\* "return &device_stats[device_count - 1]", after the unlock.
ReturnCreated(t) ==
  /\ cpc[t] = "created"
  /\ stats' = [stats EXCEPT ![t] = device_count - 1]
  /\ cpc' = [cpc EXCEPT ![t] = "apply"]
  /\ UNCHANGED <<device_stats, device_count, dev, debug, showVars>>

\* The counters of one read or write operation.
Counted(s, is_read) ==
  [name |-> s.name,
   read_ops |-> IF is_read THEN s.read_ops + 1 ELSE s.read_ops,
   write_ops |-> IF is_read THEN s.write_ops ELSE s.write_ops + 1,
   op_count |-> s.op_count + 1]

\* The second critical section of update_storage_stats.
Apply(t) ==
  /\ cpc[t] = "apply"
  /\ device_stats[stats[t]].op_count < MaxOps
  /\ \E is_read \in BOOLEAN :
       device_stats' = [device_stats EXCEPT ![stats[t]] = Counted(@, is_read)]
  /\ cpc' = [cpc EXCEPT ![t] = "idle"]
  /\ dev' = [dev EXCEPT ![t] = NoName]
  /\ stats' = [stats EXCEPT ![t] = 0]
  /\ UNCHANGED <<device_count, debug, showVars>>
-----------------------------------------------------------------------------
(* /proc/storage_stats.                                                    *)

\* Mutant: op_count is not reset.
Reset_KeepOpCount ==
  /\ device_stats' = [e \in Index |->
       IF e \in Used THEN [device_stats[e] EXCEPT !.read_ops = 0, !.write_ops = 0]
                     ELSE device_stats[e]]
  /\ UNCHANGED <<device_count, callVars, debug, showVars>>

\* The command "reset": the counters of the used entries, not the entries.
Reset ==
  /\ device_stats' = [e \in Index |-> IF e \in Used THEN Fresh(device_stats[e].name)
                                                  ELSE device_stats[e]]
  /\ UNCHANGED <<device_count, callVars, debug, showVars>>

\* The commands "debug on" and "debug off"; any other command changes nothing.
SetDebug ==
  /\ debug' \in BOOLEAN
  /\ UNCHANGED <<device_stats, device_count, callVars, showVars>>

\* Mutant: the loop runs over the whole table.
ShowDevices_All(r) ==
  /\ rpc[r] = "idle"
  /\ device_count > 0
  /\ listed' = [listed EXCEPT ![r] = MAX_DEVICES]
  /\ rpc' = [rpc EXCEPT ![r] = "total"]
  /\ UNCHANGED <<device_stats, device_count, callVars, debug>>

\* storage_stats_show up to the unlock: every used entry is printed. With an empty
\* table it returns there.
ShowDevices(r) ==
  /\ rpc[r] = "idle"
  /\ device_count > 0
  /\ listed' = [listed EXCEPT ![r] = device_count]
  /\ rpc' = [rpc EXCEPT ![r] = "total"]
  /\ UNCHANGED <<device_stats, device_count, callVars, debug>>

\* "Total Devices Tracked", printed after the unlock.
ShowTotal(r) ==
  /\ rpc[r] = "total"
  /\ rpc' = [rpc EXCEPT ![r] = "idle"]
  /\ listed' = [listed EXCEPT ![r] = 0]
  /\ UNCHANGED <<device_stats, device_count, callVars, debug>>
-----------------------------------------------------------------------------
Update(t) == Find(t) \/ Create(t) \/ NoSpace(t) \/ ReturnCreated(t) \/ Apply(t)
Show(r) == ShowDevices(r) \/ ShowTotal(r)

Next ==
  \/ \E t \in Callers : Update(t)
  \/ \E r \in Readers : Show(r)
  \/ Reset
  \/ SetDebug

Spec == Init /\ [][Next]_vars
-----------------------------------------------------------------------------
(* Properties.                                                             *)

\* Types of the table and of the callers' locals.
TypeOK ==
  /\ device_stats \in [Index -> [name : Names \cup {NoName}, read_ops : Nat,
                                 write_ops : Nat, op_count : Nat]]
  /\ device_count \in 0 .. MAX_DEVICES
  /\ cpc \in [Callers -> {"idle", "created", "apply"}]
  /\ dev \in [Callers -> Names \cup {NoName}]
  /\ stats \in [Callers -> Nat]
  /\ debug \in BOOLEAN
  /\ rpc \in [Readers -> {"idle", "total"}]
  /\ listed \in [Readers -> Nat]

\* op_count, the divisor of the average latency, is the "Total Operations" printed
\* beside it, however updates, resets and creations of entries interleave.
OpCountExact ==
  \A e \in Index :
    device_stats[e].op_count = device_stats[e].read_ops + device_stats[e].write_ops

\* The pointer used in the second critical section of update_storage_stats points to a
\* used entry, although it was computed from device_count outside the lock.
PointerInTable == \A t \in Callers : cpc[t] = "apply" => stats[t] \in Used

\* An update goes to an entry of its own device or, when the caller created that entry,
\* to one created after it: never to an entry that is older.
NeverAnOlderEntry ==
  \A t \in Callers : cpc[t] = "apply" =>
    \E e \in Used : e <= stats[t] /\ device_stats[e].name = Cut[dev[t]]

\* Two entries have the same name only when it is what is left of a longer one.
DuplicatesOnlyOfLongNames ==
  \A e, f \in Used :
    e # f /\ device_stats[e].name = device_stats[f].name =>
      \E n \in Names : n # Cut[n] /\ Cut[n] = device_stats[e].name

\* A reader never prints a total below the number of devices it has just listed.
TotalCoversListed == \A r \in Readers : rpc[r] = "total" => listed[r] <= device_count

\* "Safe concurrency handling": an update is counted for the device it was called for.
CountedForItsDevice ==
  \A t \in Callers : cpc[t] = "apply" => device_stats[stats[t]].name = Cut[dev[t]]
=============================================================================
