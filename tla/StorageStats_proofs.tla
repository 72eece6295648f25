------------------------ MODULE StorageStats_proofs ------------------------
(***************************************************************************)
(* Proofs about StorageStats, for any set of names and callers and any     *)
(* table size.                                                             *)
(***************************************************************************)
EXTENDS StorageStats, TLAPS

\* Most leaves are arithmetic, sequences, records and functions and go to SMT; the ones
\* that are plain logic name Zenon.
USE SMTT(40)

\* What holds of the table and of a caller between its two critical sections: the
\* names in the table are truncated ones, and the entry a caller has created or found
\* is still there.
TableInv == \A e \in Used : device_stats[e].name \in Names
                            /\ Cut[device_stats[e].name] = device_stats[e].name
CallerInv ==
  \A t \in Callers :
    /\ cpc[t] # "idle" => dev[t] \in Names
    /\ cpc[t] = "created" => \E e \in Used : device_stats[e].name = Cut[dev[t]]

IInv ==
  /\ TypeOK
  /\ OpCountExact
  /\ PointerInTable
  /\ TableInv
  /\ CallerInv
  /\ NeverAnOlderEntry
  /\ DuplicatesOnlyOfLongNames
  /\ TotalCoversListed

\* Counting one operation keeps an entry well-typed, its name, and its sum exact.
LEMMA CountedFacts ==
  ASSUME NEW s \in [name : Names \cup {NoName}, read_ops : Nat, write_ops : Nat, op_count : Nat],
         NEW b \in BOOLEAN,
         s.op_count = s.read_ops + s.write_ops
  PROVE  /\ Counted(s, b) \in [name : Names \cup {NoName}, read_ops : Nat, write_ops : Nat, op_count : Nat]
         /\ Counted(s, b).name = s.name
         /\ Counted(s, b).op_count = Counted(s, b).read_ops + Counted(s, b).write_ops
BY DEF Counted

\* The table starts empty and every counter at zero.
LEMMA InitIInv == Init => IInv
<1> SUFFICES ASSUME Init PROVE IInv
  OBVIOUS
<1> USE NameAssumption, TableAssumption
<1>1. Used = {}
  BY DEF Init, Used, Index
<1>2. TypeOK
  <2>1. device_stats \in [Index -> [name : Names \cup {NoName}, read_ops : Nat,
                                    write_ops : Nat, op_count : Nat]]
    BY DEF Init, Fresh
  <2>2. device_count \in 0 .. MAX_DEVICES
    BY DEF Init
  <2>4. debug \in BOOLEAN
    BY ZenonT(40) DEF Init
  <2>3. /\ cpc \in [Callers -> {"idle", "created", "apply"}]
        /\ dev \in [Callers -> Names \cup {NoName}]
        /\ stats \in [Callers -> Nat]
        /\ rpc \in [Readers -> {"idle", "total"}]
        /\ listed \in [Readers -> Nat]
    BY DEF Init
  <2> QED BY <2>1, <2>2, <2>3, <2>4 DEF TypeOK
<1>3. OpCountExact
  BY DEF Init, OpCountExact, Fresh, Index
<1>4. PointerInTable /\ CallerInv /\ NeverAnOlderEntry /\ TotalCoversListed
  BY DEF Init, PointerInTable, CallerInv, NeverAnOlderEntry, TotalCoversListed
<1>5. TableInv /\ DuplicatesOnlyOfLongNames
  BY <1>1 DEF TableInv, DuplicatesOnlyOfLongNames
<1> QED BY <1>2, <1>3, <1>4, <1>5 DEF IInv

\* get_device_stats finding an entry keeps the invariant.
LEMMA FindIInv == ASSUME NEW t \in Callers, IInv, Find(t) PROVE IInv'
<1> USE NameAssumption, TableAssumption DEF IInv, Index, Used
<1>1. PICK n \in Names, e \in Index :
        /\ Matches(n, e)
        /\ dev' = [dev EXCEPT ![t] = n]
        /\ stats' = [stats EXCEPT ![t] = e]
  BY ZenonT(40) DEF Find
<1>2. e \in Used /\ device_stats[e].name = n /\ Cut[n] = n
  BY <1>1 DEF Matches, TableInv
<1>3. UNCHANGED <<device_stats, device_count, debug, rpc, listed>>
  BY DEF Find, showVars
<1>4. cpc' = [cpc EXCEPT ![t] = "apply"]
  BY DEF Find
<1>5. TypeOK'
  <2>1. dev' \in [Callers -> Names \cup {NoName}]
    BY <1>1 DEF TypeOK
  <2>2. stats' \in [Callers -> Nat]
    BY <1>1 DEF TypeOK
  <2>3. cpc' \in [Callers -> {"idle", "created", "apply"}]
    BY <1>4 DEF TypeOK
  <2> QED BY <1>3, <2>1, <2>2, <2>3 DEF TypeOK
<1>6. OpCountExact' /\ TableInv' /\ DuplicatesOnlyOfLongNames' /\ TotalCoversListed'
  BY <1>3 DEF OpCountExact, TableInv, DuplicatesOnlyOfLongNames, TotalCoversListed
<1>7. PointerInTable'
  BY <1>1, <1>2, <1>3, <1>4 DEF PointerInTable, TypeOK
<1>8. CallerInv'
  BY <1>1, <1>3, <1>4 DEF CallerInv, TypeOK
<1>9. NeverAnOlderEntry'
  <2> SUFFICES ASSUME NEW u \in Callers, cpc'[u] = "apply"
               PROVE \E g \in Used : g <= stats'[u] /\ device_stats[g].name = Cut[dev'[u]]
    BY <1>3 DEF NeverAnOlderEntry
  <2>1. CASE u = t
    <3>1. stats'[u] = e /\ dev'[u] = n /\ e <= e BY <1>1, <2>1 DEF TypeOK
    <3> QED BY <3>1, <1>2
  <2>2. CASE u # t
    <3>1. stats'[u] = stats[u] /\ dev'[u] = dev[u] /\ cpc[u] = "apply"
      BY <1>1, <1>4, <2>2 DEF TypeOK
    <3> QED BY <3>1 DEF NeverAnOlderEntry
  <2> QED BY <2>1, <2>2
<1> QED BY <1>5, <1>6, <1>7, <1>8, <1>9

\* get_device_stats creating an entry keeps the invariant.
LEMMA CreateIInv == ASSUME NEW t \in Callers, IInv, Create(t) PROVE IInv'
<1> USE NameAssumption, TableAssumption DEF IInv, Index, Used
<1>1. PICK n \in Names :
        /\ \A e \in Used : device_stats[e].name # n
        /\ device_stats' = [device_stats EXCEPT ![device_count] = Fresh(Cut[n])]
        /\ dev' = [dev EXCEPT ![t] = n]
  BY ZenonT(40) DEF Create
<1>2. /\ device_count \in Index
      /\ device_count' = device_count + 1
      /\ cpc' = [cpc EXCEPT ![t] = "created"]
      /\ UNCHANGED <<stats, debug, rpc, listed>>
  BY DEF Create, showVars, TypeOK
<1>3. Cut[n] \in Names /\ Cut[Cut[n]] = Cut[n]
  OBVIOUS
<1>4. /\ device_stats'[device_count] = Fresh(Cut[n])
      /\ \A e \in Used : device_stats'[e] = device_stats[e] /\ e # device_count
      /\ Used' = Used \cup {device_count}
  BY <1>1, <1>2 DEF TypeOK
<1>5. TypeOK'
  BY <1>1, <1>2, <1>3 DEF TypeOK, Fresh
<1>6. OpCountExact'
  BY <1>1, <1>2 DEF OpCountExact, Fresh, TypeOK
<1>7. PointerInTable'
  BY <1>2, <1>4 DEF PointerInTable, TypeOK
<1>8. TableInv'
  BY <1>3, <1>4 DEF TableInv, Fresh
<1>9. CallerInv'
  <2> SUFFICES ASSUME NEW u \in Callers
               PROVE /\ cpc'[u] # "idle" => dev'[u] \in Names
                     /\ cpc'[u] = "created" => \E e \in Used' : device_stats'[e].name = Cut[dev'[u]]
    BY DEF CallerInv
  <2>1. CASE u = t
    <3>1. dev'[u] = n BY <1>1, <2>1 DEF TypeOK
    <3>2. device_stats'[device_count].name = Cut[n] BY <1>4 DEF Fresh
    <3> QED BY <3>1, <3>2, <1>4
  <2>2. CASE u # t
    <3>1. cpc'[u] = cpc[u] /\ dev'[u] = dev[u] BY <1>1, <1>2, <2>2 DEF TypeOK
    <3> QED BY <3>1, <1>4 DEF CallerInv
  <2> QED BY <2>1, <2>2
<1>10. NeverAnOlderEntry'
  <2> SUFFICES ASSUME NEW u \in Callers, cpc'[u] = "apply"
               PROVE \E e \in Used' : e <= stats'[u] /\ device_stats'[e].name = Cut[dev'[u]]
    BY DEF NeverAnOlderEntry
  <2>1. u # t /\ cpc[u] = "apply" /\ dev'[u] = dev[u] /\ stats'[u] = stats[u]
    BY <1>1, <1>2 DEF TypeOK
  <2> QED BY <2>1, <1>4 DEF NeverAnOlderEntry
<1>11. DuplicatesOnlyOfLongNames'
  <2> SUFFICES ASSUME NEW e \in Used', NEW f \in Used', e # f,
                      device_stats'[e].name = device_stats'[f].name
               PROVE \E m \in Names : m # Cut[m] /\ Cut[m] = device_stats'[e].name
    BY DEF DuplicatesOnlyOfLongNames
  <2>1. CASE e \in Used /\ f \in Used
    BY <2>1, <1>4 DEF DuplicatesOnlyOfLongNames
  <2>2. CASE e = device_count \/ f = device_count
    <3>1. device_stats'[e].name = Cut[n] BY <2>2, <1>4 DEF Fresh
    <3>2. \E g \in Used : device_stats[g].name = Cut[n] BY <2>2, <3>1, <1>4, ZenonT(40)
    <3> QED BY <3>1, <3>2, <1>1
  <2> QED BY <2>1, <2>2, <1>4
<1>12. TotalCoversListed'
  BY <1>2 DEF TotalCoversListed, TypeOK
<1> QED BY <1>5, <1>6, <1>7, <1>8, <1>9, <1>10, <1>11, <1>12

\* Reading device_count after the unlock keeps the invariant.
LEMMA ReturnCreatedIInv == ASSUME NEW t \in Callers, IInv, ReturnCreated(t) PROVE IInv'
<1> USE NameAssumption, TableAssumption DEF IInv, Index, Used
<1>1. /\ cpc[t] = "created"
      /\ stats' = [stats EXCEPT ![t] = device_count - 1]
      /\ cpc' = [cpc EXCEPT ![t] = "apply"]
      /\ UNCHANGED <<device_stats, device_count, dev, debug, rpc, listed>>
  BY DEF ReturnCreated, showVars
<1>2. PICK e \in Used : device_stats[e].name = Cut[dev[t]]
  BY <1>1 DEF CallerInv
<1>3. device_count - 1 \in Used /\ e <= device_count - 1
  BY <1>2 DEF TypeOK
<1>4. TypeOK'
  <2>1. stats' \in [Callers -> Nat]
    BY <1>1, <1>3 DEF TypeOK
  <2>2. cpc' \in [Callers -> {"idle", "created", "apply"}]
    BY <1>1 DEF TypeOK
  <2> QED BY <1>1, <2>1, <2>2, ZenonT(40) DEF TypeOK
<1>5. OpCountExact' /\ TableInv' /\ DuplicatesOnlyOfLongNames' /\ TotalCoversListed'
  BY <1>1 DEF OpCountExact, TableInv, DuplicatesOnlyOfLongNames, TotalCoversListed
<1>6. PointerInTable' /\ NeverAnOlderEntry'
  BY <1>1, <1>2, <1>3 DEF PointerInTable, NeverAnOlderEntry, TypeOK
<1>7. CallerInv'
  BY <1>1 DEF CallerInv, TypeOK
<1> QED BY <1>4, <1>5, <1>6, <1>7

\* The second critical section of update_storage_stats keeps the invariant.
LEMMA ApplyIInv == ASSUME NEW t \in Callers, IInv, Apply(t) PROVE IInv'
<1> USE NameAssumption, TableAssumption DEF IInv
<1>1. PICK b \in BOOLEAN :
        device_stats' = [device_stats EXCEPT ![stats[t]] = Counted(device_stats[stats[t]], b)]
  BY ZenonT(40) DEF Apply
<1>2. /\ cpc[t] = "apply"
      /\ cpc' = [cpc EXCEPT ![t] = "idle"]
      /\ dev' = [dev EXCEPT ![t] = NoName]
      /\ stats' = [stats EXCEPT ![t] = 0]
      /\ UNCHANGED <<device_count, debug, rpc, listed>>
  BY DEF Apply, showVars
<1>3. stats[t] \in Index /\ Used' = Used
  BY <1>2 DEF PointerInTable, Used
<1>4. device_stats[stats[t]] \in [name : Names \cup {NoName}, read_ops : Nat, write_ops : Nat, op_count : Nat]
      /\ device_stats[stats[t]].op_count = device_stats[stats[t]].read_ops + device_stats[stats[t]].write_ops
  BY <1>3 DEF TypeOK, OpCountExact
<1>5. TypeOK'
  BY <1>1, <1>2, <1>3, <1>4, CountedFacts DEF TypeOK
<1>6. OpCountExact'
  BY <1>1, <1>3, <1>4, CountedFacts DEF OpCountExact, TypeOK
<1>7. \A e \in Index : device_stats'[e].name = device_stats[e].name
  BY <1>1, <1>3, <1>4, CountedFacts DEF TypeOK
<1>8. Used \subseteq Index
  BY DEF Used
<1>9. TableInv' /\ DuplicatesOnlyOfLongNames'
  BY <1>3, <1>7, <1>8 DEF TableInv, DuplicatesOnlyOfLongNames
<1>10. PointerInTable' /\ TotalCoversListed'
  BY <1>2, <1>3 DEF PointerInTable, TotalCoversListed, TypeOK
<1>11. CallerInv' /\ NeverAnOlderEntry'
  BY <1>2, <1>3, <1>7, <1>8 DEF CallerInv, NeverAnOlderEntry, TypeOK
<1> QED BY <1>5, <1>6, <1>9, <1>10, <1>11

\* The command "reset" keeps the invariant.
LEMMA ResetIInv == ASSUME IInv, Reset PROVE IInv'
<1> USE NameAssumption, TableAssumption DEF IInv
<1>1. /\ device_stats' = [e \in Index |-> IF e \in Used THEN Fresh(device_stats[e].name)
                                                       ELSE device_stats[e]]
      /\ UNCHANGED <<device_count, cpc, dev, stats, debug, rpc, listed>>
  BY DEF Reset, callVars, showVars
<1>2. Used' = Used /\ Used \subseteq Index
  BY <1>1 DEF Used
<1>3. \A e \in Index : device_stats'[e].name = device_stats[e].name
  BY <1>1 DEF Fresh
<1>4. TypeOK'
  BY <1>1 DEF TypeOK, Fresh
<1>5. OpCountExact'
  BY <1>1 DEF OpCountExact, Fresh
<1>6. TableInv' /\ DuplicatesOnlyOfLongNames'
  BY <1>2, <1>3 DEF TableInv, DuplicatesOnlyOfLongNames
<1>7. PointerInTable' /\ TotalCoversListed'
  BY <1>1, <1>2 DEF PointerInTable, TotalCoversListed
<1>8. CallerInv' /\ NeverAnOlderEntry'
  BY <1>1, <1>2, <1>3 DEF CallerInv, NeverAnOlderEntry
<1> QED BY <1>4, <1>5, <1>6, <1>7, <1>8

\* The steps that leave the table and the callers alone keep the invariant.
LEMMA QuietIInv ==
  ASSUME IInv, UNCHANGED <<device_stats, device_count, callVars>>, debug' \in BOOLEAN,
         TypeOK', TotalCoversListed'
  PROVE  IInv'
BY DEF IInv, OpCountExact, PointerInTable, TableInv, CallerInv, NeverAnOlderEntry,
       DuplicatesOnlyOfLongNames, Used, callVars

\* Every step of the module keeps the invariant.
LEMMA NextIInv == IInv /\ [Next]_vars => IInv'
<1> SUFFICES ASSUME IInv, [Next]_vars PROVE IInv'
  OBVIOUS
<1>1. ASSUME NEW t \in Callers, Update(t) PROVE IInv'
  <2>1. CASE NoSpace(t)
    BY <2>1, QuietIInv DEF NoSpace, vars, callVars, showVars, IInv, TypeOK, TotalCoversListed
  <2> QED BY <1>1, <2>1, FindIInv, CreateIInv, ReturnCreatedIInv, ApplyIInv DEF Update
<1>2. ASSUME NEW r \in Readers, Show(r) PROVE IInv'
  <2>1. CASE ShowDevices(r)
    BY <2>1, QuietIInv DEF ShowDevices, callVars, IInv, TypeOK, TotalCoversListed
  <2>2. CASE ShowTotal(r)
    BY <2>2, QuietIInv DEF ShowTotal, callVars, IInv, TypeOK, TotalCoversListed
  <2> QED BY <1>2, <2>1, <2>2 DEF Show
<1>3. CASE SetDebug
  BY <1>3, QuietIInv DEF SetDebug, showVars, callVars, IInv, TypeOK, TotalCoversListed
<1>4. CASE UNCHANGED vars
  BY <1>4, QuietIInv DEF vars, showVars, callVars, IInv, TypeOK, TotalCoversListed
<1> QED BY <1>1, <1>2, <1>3, <1>4, ResetIInv DEF Next

\* The invariant holds in every reachable state.
THEOREM Invariance == Spec => []IInv
BY InitIInv, NextIInv, PTL DEF Spec

\* The types of the table and of the locals of update_storage_stats are kept.
THEOREM TypeCorrect == Spec => []TypeOK
<1>1. IInv => TypeOK BY DEF IInv
<1> QED BY Invariance, <1>1, PTL

\* The divisor of the average latency is always the printed number of operations.
THEOREM OpCountIsExact == Spec => []OpCountExact
<1>1. IInv => OpCountExact BY DEF IInv
<1> QED BY Invariance, <1>1, PTL

\* The unlocked read of device_count never yields a pointer outside the used entries.
THEOREM PointersStayInTable == Spec => []PointerInTable
<1>1. IInv => PointerInTable BY DEF IInv
<1> QED BY Invariance, <1>1, PTL

\* The race after the unlock can only move an update to a later entry.
THEOREM UpdatesNeverGoBack == Spec => []NeverAnOlderEntry
<1>1. IInv => NeverAnOlderEntry BY DEF IInv
<1> QED BY Invariance, <1>1, PTL

\* The search and the creation under one lock keep short names unique.
THEOREM ShortNamesUnique == Spec => []DuplicatesOnlyOfLongNames
<1>1. IInv => DuplicatesOnlyOfLongNames BY DEF IInv
<1> QED BY Invariance, <1>1, PTL

\* The last line of the report, computed after the lock is released, is never smaller
\* than the number of devices listed above it, as entries are never taken away.
THEOREM TotalsCoverListed == Spec => []TotalCoversListed
<1>1. IInv => TotalCoversListed BY DEF IInv
<1> QED BY Invariance, <1>1, PTL
=============================================================================
