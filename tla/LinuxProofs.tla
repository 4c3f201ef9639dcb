---------------------------- MODULE LinuxProofs ----------------------------
(***************************************************************************)
(* The Linux architecture, in two parts.                                   *)
(*                                                                         *)
(* The kernel follows the table, for tables and limits of any size and for *)
(* any number of tries.  The passes of _disk_sync_part_table go through    *)
(* the numbers in order; the invariant says what holds of those behind i   *)
(* and of those before it.                                                 *)
(*                                                                         *)
(* The descriptors and the caches of a device, for any number of sectors,  *)
(* contents, nodes and lost descriptors.                                   *)
(***************************************************************************)
EXTENDS LinuxSync, LinuxDevice, TLAPS

(***************************************************************************)
(* _disk_sync_part_table                                                   *)
(***************************************************************************)
KernelEntry == [start : Int, len : Int]

SyncTypes ==
    /\ disk \in Tables /\ backend \in {"blkpg", "dm"} /\ sysfs \in BOOLEAN
    /\ kern \in [Nums -> KernelEntry] /\ before \in [Nums -> KernelEntry]
    /\ ok \in [Nums -> BOOLEAN] /\ err \in [Nums -> {"", "ENXIO", "EBUSY"}]
    /\ shown \in BOOLEAN
    /\ pc \in {"idle", "remove", "add", "report", "done"}
    /\ pc = "remove" => i \in Nums
    /\ pc = "add" => i \in 1 .. lpn2

(* n will be named in the warning, if nothing else becomes of it. *)
Refused(n) == ~ ok[n] /\ err[n] # "ENXIO"

(* The first pass has removed what the table does not have, or noted that  *)
(* it could not.                                                           *)
Cleared(n) == InTable(n) \/ ~ Has(n) \/ (~ ok[n] /\ err[n] = "EBUSY")

(* The second pass has told the kernel of n, or the user will be told. *)
Told(n) == KernelKnows(n) \/ shown \/ Refused(n)

Passes ==
    /\ pc = "remove" => \A n \in Nums : IF n < i THEN Cleared(n) ELSE ~ ok[n]
    /\ pc = "add" => \A n \in 1 .. lpn2 : IF n < i THEN Told(n) ELSE Cleared(n)
    /\ pc = "report" => \A n \in 1 .. lpn2 : Told(n)

SyncInv == SyncTypes /\ Passes /\ KernelInStep

(***************************************************************************)
(* The limits, and the entries of the kernel.                              *)
(***************************************************************************)

(* The limits of both tables are partition numbers.                        *)
LEMMA Limits ==
    /\ lpn \in Nat /\ lpn > 0 /\ lpn2 \in Nat /\ lpn2 <= lpn
    /\ \A n \in 1 .. lpn2 : n \in Nums
    /\ 1 \in Nums /\ Nums = 1 .. lpn /\ (lpn2 > 0 => 1 \in 1 .. lpn2)
  BY SyncAssumption DEF lpn, lpn2, Larger, Smaller, Nums

(* A partition of a table is something for the kernel, and starts where it *)
(* should.                                                                 *)
LEMMA Entries ==
    ASSUME disk \in Tables, NEW n \in DOMAIN disk
    PROVE  /\ Entry(n) \in KernelEntry /\ Entry(n).start = disk[n].start
           /\ DmEntry(n) \in KernelEntry
           /\ DmEntry(n).start = disk[n].start /\ DmEntry(n).len = disk[n].len
           /\ BlkpgEntry(n) \in KernelEntry
           /\ Entry(n) # Nothing /\ DmEntry(n) # Nothing
           /\ backend = "dm" \/ ~ disk[n].ext => Entry(n) = DmEntry(n)
           /\ backend = "dm" => Entry(n) = DmEntry(n)
           /\ backend # "dm" => Entry(n) = BlkpgEntry(n)
<1>1. disk[n].start \in Nat /\ disk[n].len \in Nat
  BY TablesAssumption
<1>2. /\ DmEntry(n) \in KernelEntry /\ DmEntry(n).start = disk[n].start
      /\ DmEntry(n).len = disk[n].len
  BY <1>1 DEF DmEntry, KernelEntry
<1>3. /\ BlkpgEntry(n) \in KernelEntry /\ BlkpgEntry(n).start = disk[n].start
      /\ ~ disk[n].ext => BlkpgEntry(n) = DmEntry(n)
  BY <1>1 DEF DmEntry, BlkpgEntry, KernelEntry
<1>4. Nothing.start = -1
  BY DEF Nothing
<1>5. QED
  BY <1>1, <1>2, <1>3, <1>4 DEF Entry

(* An unused number is an entry of the kernel, too.                        *)
LEMMA NothingIs == Nothing \in KernelEntry
  BY DEF Nothing, KernelEntry

(* A step that goes from one number to the next changes the kernel's       *)
(* table, and the notes, in that place only.                               *)
OnlyAt(n) ==
    /\ disk' = disk /\ backend' = backend /\ sysfs' = sysfs /\ before' = before
    /\ kern' \in [Nums -> KernelEntry] /\ ok' \in [Nums -> BOOLEAN]
    /\ err' \in [Nums -> {"", "ENXIO", "EBUSY"}] /\ shown' \in BOOLEAN
    /\ shown => shown'
    /\ \A m \in Nums \ {n} : kern'[m] = kern[m] /\ ok'[m] = ok[m] /\ err'[m] = err[m]

(* What is said of another number is not disturbed. *)
LEMMA OthersSame ==
    ASSUME NEW n \in Nums, OnlyAt(n), NEW m \in Nums, m # n
    PROVE  /\ Cleared(m) => Cleared(m)'
           /\ Told(m) => Told(m)'
           /\ ~ ok[m] => ~ ok'[m]
           /\ before[m] = Wanted(m) /\ kern[m] = before[m] =>
                 before'[m] = Wanted(m)' /\ kern'[m] = before'[m]
<1>1. /\ kern'[m] = kern[m] /\ ok'[m] = ok[m] /\ err'[m] = err[m]
      /\ disk' = disk /\ backend' = backend /\ before' = before /\ (shown => shown')
  BY DEF OnlyAt
<1>2. Entry(m)' = Entry(m) /\ DmEntry(m)' = DmEntry(m) /\ (InTable(m)' <=> InTable(m))
  BY <1>1 DEF Entry, DmEntry, BlkpgEntry, InTable
<1>3. QED
  BY <1>1, <1>2 DEF Cleared, Told, KernelKnows, Has, Refused, Wanted

(* What the commit does not change stays as it was. *)
Kept(n) ==
    (backend = "dm" \/ sysfs) /\ n \in 1 .. lpn2 /\ before[n] = Wanted(n) => kern[n] = before[n]

(* UnchangedStays, number by number.                                       *)
LEMMA StaysIs == UnchangedStays <=> (pc # "idle" => \A n \in 1 .. lpn2 : Kept(n))
  BY DEF UnchangedStays, Kept

(* A number of which nothing changed stays as it is kept.                  *)
LEMMA KeptSame ==
    ASSUME NEW n \in Nums, OnlyAt(n), NEW m \in Nums, m # n, Kept(m)
    PROVE  Kept(m)'
<1>1. /\ kern'[m] = kern[m] /\ disk' = disk /\ backend' = backend /\ before' = before
      /\ sysfs' = sysfs
  BY DEF OnlyAt
<1>2. Wanted(m)' = Wanted(m)
  BY <1>1 DEF Wanted, Entry, DmEntry, BlkpgEntry, InTable
<1>3. QED
  BY <1>1, <1>2 DEF Kept

(* A step of the first pass. *)
LEMMA RemovalKeeps ==
    ASSUME SyncInv, pc = "remove", NextRemoval, NEW k \in Nums, k = i,
           OnlyAt(k), Cleared(k)', Kept(k)'
    PROVE  SyncInv'
<1>1. i \in Nums /\ i \in Nat /\ i <= lpn
  <2>1. i \in Nums
    BY DEF SyncInv, SyncTypes
  <2>2. QED
    BY <2>1, Limits
<1>2. \A n \in Nums : IF n < i THEN Cleared(n) ELSE ~ ok[n]
  BY DEF SyncInv, Passes
<1>3. \A n \in 1 .. lpn2 : Kept(n)
  BY StaysIs DEF SyncInv, KernelInStep
<1>4. /\ i' = (IF i = lpn THEN 1 ELSE i + 1)
      /\ pc' = (IF i < lpn THEN pc ELSE IF lpn2 > 0 THEN "add" ELSE "report")
  BY DEF NextRemoval
<1>5. SyncTypes'
  <2>1. pc' \in {"remove", "add", "report"}
    BY <1>4
  <2>2. pc' = "remove" => i' \in Nums
    BY <1>1, <1>2, <1>4, Limits
  <2>3. pc' = "add" => i' \in 1 .. lpn2
    BY <1>1, <1>2, <1>4, Limits
  <2>4. QED
    BY <2>1, <2>2, <2>3 DEF SyncInv, SyncTypes, OnlyAt
<1>6. ASSUME NEW n \in Nums PROVE n <= i => Cleared(n)'
  <2>1. n \in Nat
    BY Limits
  <2>2. n <= i => n = i \/ n < i
    BY <1>1, <1>2, <2>1
  <2>3. QED
    BY <1>1, <1>2, <2>2, OthersSame
<1>7. \A n \in Nums : n > i => ~ ok'[n]
  BY <1>1, <1>2, OthersSame, Limits
<1>8. \A n \in 1 .. lpn2 : Kept(n)'
  BY <1>1, <1>2, <1>3, KeptSame, Limits
<1>9. Passes'
  <2>1. CASE i < lpn
    <3>1. pc' = "remove" /\ i' = i + 1
      BY <1>1, <1>2, <1>4, <2>1, Limits
    <3>2. \A n \in Nums : IF n < i + 1 THEN Cleared(n)' ELSE ~ ok'[n]
      BY <1>1, <1>2, <1>6, <1>7, Limits
    <3>3. QED
      BY <3>1, <3>2 DEF Passes
  <2>2. CASE i = lpn
    <3>1. i' = 1 /\ pc' = IF lpn2 > 0 THEN "add" ELSE "report"
      BY <1>1, <1>2, <1>4, <2>2, Limits
    <3>2. \A n \in 1 .. lpn2 : Cleared(n)' /\ ~ (n < 1)
      BY <1>6, <2>2, Limits
    <3>3. ~ (lpn2 > 0) => \A n \in 1 .. lpn2 : Told(n)'
      BY Limits
    <3>4. QED
      BY <3>1, <3>2, <3>3 DEF Passes
  <2>3. QED
    BY <1>1, <1>2, <2>1, <2>2, Limits
<1>10. KernelInStep'
  <2>1. pc' # "done"
    BY <1>4
  <2>2. SilenceMeansKnown'
    BY <2>1 DEF SilenceMeansKnown
  <2>3. UnchangedStays'
    BY <1>8 DEF UnchangedStays, Kept
  <2>4. QED
    BY <2>2, <2>3 DEF KernelInStep
<1>11. QED
  BY <1>5, <1>9, <1>10 DEF SyncInv

(* A step of the second pass. *)
LEMMA AdditionKeeps ==
    ASSUME SyncInv, pc = "add", NextAddition, NEW k \in Nums, k = i,
           OnlyAt(k), Told(k)', Kept(k)'
    PROVE  SyncInv'
<1>1. i \in 1 .. lpn2 /\ i \in Nums /\ i \in Nat
  <2>1. i \in 1 .. lpn2
    BY DEF SyncInv, SyncTypes
  <2>2. QED
    BY <2>1, Limits
<1>2. \A n \in 1 .. lpn2 : IF n < i THEN Told(n) ELSE Cleared(n)
  BY DEF SyncInv, Passes
<1>3. \A n \in 1 .. lpn2 : Kept(n)
  BY StaysIs DEF SyncInv, KernelInStep
<1>4. i' = i + 1 /\ pc' = IF i >= lpn2 THEN "report" ELSE pc
  BY DEF NextAddition
<1>5. SyncTypes'
  <2>1. pc' \in {"add", "report"}
    BY <1>4
  <2>2. pc' = "add" => i' \in 1 .. lpn2
    BY <1>1, <1>2, <1>4, Limits
  <2>3. QED
    BY <2>1, <2>2 DEF SyncInv, SyncTypes, OnlyAt
<1>6. ASSUME NEW n \in 1 .. lpn2 PROVE IF n < i + 1 THEN Told(n)' ELSE Cleared(n)'
  <2>1. n \in Nums /\ n \in Nat
    BY Limits
  <2>2. CASE n = i
    BY <1>1, <1>2, <2>2
  <2>3. CASE n # i
    <3>1. (n < i + 1) <=> (n < i)
      BY <1>1, <1>2, <2>1, <2>3
    <3>2. QED
      BY <1>1, <1>2, <2>1, <2>3, <3>1, OthersSame
  <2>4. QED
    BY <2>2, <2>3
<1>7. \A n \in 1 .. lpn2 : Kept(n)'
  BY <1>1, <1>2, <1>3, KeptSame, Limits
<1>8. Passes'
  <2>1. CASE i >= lpn2
    <3>1. pc' = "report" /\ \A n \in 1 .. lpn2 : n < i + 1
      BY <1>1, <1>2, <1>4, <2>1, Limits
    <3>2. QED
      BY <1>6, <3>1 DEF Passes
  <2>2. CASE ~ (i >= lpn2)
    <3>1. pc' = "add" /\ i' = i + 1
      BY <1>4, <2>2
    <3>2. QED
      BY <1>6, <3>1 DEF Passes
  <2>3. QED
    BY <2>1, <2>2
<1>9. KernelInStep'
  <2>1. pc' # "done"
    BY <1>4
  <2>2. SilenceMeansKnown'
    BY <2>1 DEF SilenceMeansKnown
  <2>3. UnchangedStays'
    BY <1>7 DEF UnchangedStays, Kept
  <2>4. QED
    BY <2>2, <2>3 DEF KernelInStep
<1>10. QED
  BY <1>5, <1>8, <1>9 DEF SyncInv

(***************************************************************************)
(* The steps.                                                              *)
(***************************************************************************)

(* A partition that the kernel has as it should is recognised. *)
LEMMA Recognised ==
    ASSUME disk \in Tables, NEW n \in Nums, InTable(n), kern[n] = Entry(n),
           backend = "dm" \/ sysfs
    PROVE  SameStart(n) /\ (n \in 1 .. lpn2 => Stays(n))
<1>1. /\ kern[n] # Nothing /\ kern[n].start = disk[n].start
      /\ backend = "dm" \/ ~ disk[n].ext => kern[n].len = disk[n].len
      /\ disk[n].ext => n # lpn2
  BY Entries, TablesAssumption DEF InTable
<1>2. Known(n)
  BY <1>1 DEF Known, _dm_get_partition_start_and_length,
              _kernel_get_partition_start_and_length, Has
<1>3. SameStart(n)
  BY <1>1, <1>2 DEF SameStart
<1>4. n \in 1 .. lpn2 /\ n # lpn2 => n < lpn2
  BY Limits
<1>5. QED
  BY <1>1, <1>3, <1>4 DEF Stays, Unchanged

(* What the state gives of the number that a pass is at. *)
LEMMA AtHand ==
    ASSUME SyncInv, pc \in {"remove", "add"}
    PROVE  /\ i \in Nums /\ disk \in Tables /\ Kept(i)
           /\ kern \in [Nums -> KernelEntry] /\ kern[i] \in KernelEntry
           /\ ok \in [Nums -> BOOLEAN] /\ err \in [Nums -> {"", "ENXIO", "EBUSY"}]
           /\ shown \in BOOLEAN
<1>1. /\ disk \in Tables /\ kern \in [Nums -> KernelEntry]
      /\ ok \in [Nums -> BOOLEAN] /\ err \in [Nums -> {"", "ENXIO", "EBUSY"}]
      /\ shown \in BOOLEAN
  BY DEF SyncInv, SyncTypes
<1>2. (pc = "remove" => i \in Nums) /\ (pc = "add" => i \in 1 .. lpn2)
  BY DEF SyncInv, SyncTypes
<1>3. i \in Nums
  BY <1>2, Limits
<1>4. Kept(i)
  <2>1. \A n \in 1 .. lpn2 : Kept(n)
    BY StaysIs DEF SyncInv, KernelInStep
  <2>2. QED
    BY <2>1 DEF Kept
<1>5. QED
  BY <1>1, <1>3, <1>4

(* A partition that the new table has at the same place is left.           *)
LEMMA KeepOldInv == ASSUME SyncInv, KeepOld PROVE SyncInv'
<1>1. PICK k \in Nums : k = i
  BY AtHand DEF KeepOld
<1>2. /\ pc = "remove" /\ Stays(k) /\ ok' = [ok EXCEPT ![k] = TRUE] /\ NextRemoval
      /\ disk' = disk /\ kern' = kern /\ backend' = backend /\ sysfs' = sysfs
      /\ err' = err /\ shown' = shown /\ before' = before
  BY <1>1 DEF KeepOld, env
<1>3. OnlyAt(k)
  BY <1>1, <1>2, AtHand DEF OnlyAt
<1>4. InTable(k)
  BY <1>2 DEF Stays, Unchanged, SameStart
<1>5. Cleared(k)'
  BY <1>2, <1>4 DEF Cleared, InTable
<1>6. Kept(k)
  BY <1>1, <1>2, AtHand
<1>7. Kept(k)'
  BY <1>2, <1>6 DEF Kept, Wanted, InTable, Entry, DmEntry, BlkpgEntry
<1>8. QED
  BY <1>1, <1>2, <1>3, <1>5, <1>7, RemovalKeeps

(* The first loop removes another partition.                               *)
LEMMA RemoveOldInv == ASSUME SyncInv, RemoveOld PROVE SyncInv'
<1>1. PICK k \in Nums : k = i
  BY AtHand DEF RemoveOld
<1>2. /\ pc = "remove" /\ ~ Stays(k) /\ k \notin in_use /\ NextRemoval
      /\ kern' = remove_partition(k) /\ ok' = [ok EXCEPT ![k] = TRUE]
      /\ err' = [err EXCEPT ![k] = IF Has(k) THEN "" ELSE "ENXIO"]
      /\ disk' = disk /\ backend' = backend /\ sysfs' = sysfs
      /\ shown' = shown /\ before' = before
  BY <1>1 DEF RemoveOld, env
<1>3. kern' = [kern EXCEPT ![k] = Nothing]
  BY <1>2 DEF remove_partition, _dm_remove_partition, _blkpg_remove_partition, Put
<1>4. OnlyAt(k) /\ kern'[k] = Nothing
  BY <1>1, <1>2, <1>3, AtHand, NothingIs DEF OnlyAt
<1>5. Cleared(k)'
  BY <1>4 DEF Cleared, Has
<1>6. Kept(k) /\ disk \in Tables
  BY <1>1, <1>2, AtHand
<1>7. ASSUME backend = "dm" \/ sysfs, k \in 1 .. lpn2, before[k] = Wanted(k)
      PROVE  before[k] = Nothing
  <2>1. kern[k] = before[k]
    BY <1>6, <1>7 DEF Kept
  <2>2. ~ InTable(k)
    BY <1>2, <1>6, <1>7, <2>1, Recognised DEF Wanted
  <2>3. QED
    BY <1>7, <2>2 DEF Wanted
<1>8. Wanted(k)' = Wanted(k)
  BY <1>2 DEF Wanted, InTable, Entry, DmEntry, BlkpgEntry
<1>9. Kept(k)'
  BY <1>2, <1>4, <1>7, <1>8 DEF Kept
<1>10. QED
  BY <1>1, <1>2, <1>4, <1>5, <1>9, RemovalKeeps

(* The last attempt to remove a partition in use is given up.              *)
LEMMA BusyGiveUpInv == ASSUME SyncInv, BusyGiveUp PROVE SyncInv'
<1>1. PICK k \in Nums : k = i
  BY AtHand DEF BusyGiveUp
<1>2. /\ pc = "remove" /\ NextRemoval
      /\ kern' = kern /\ ok' = ok /\ err' = [err EXCEPT ![k] = "EBUSY"]
      /\ disk' = disk /\ backend' = backend /\ sysfs' = sysfs
      /\ shown' = shown /\ before' = before
  BY <1>1 DEF BusyGiveUp, env
<1>3. OnlyAt(k) /\ err'[k] = "EBUSY"
  BY <1>1, <1>2, AtHand DEF OnlyAt
<1>4. ~ ok[k]
  <2>1. \A n \in Nums : IF n < i THEN Cleared(n) ELSE ~ ok[n]
    BY <1>2 DEF SyncInv, Passes
  <2>2. ~ (k < i)
    BY <1>1, Limits
  <2>3. QED
    BY <2>1, <2>2
<1>5. Cleared(k)'
  BY <1>2, <1>3, <1>4 DEF Cleared
<1>6. Kept(k)
  BY <1>1, <1>2, AtHand
<1>7. Kept(k)'
  BY <1>2, <1>6 DEF Kept, Wanted, InTable, Entry, DmEntry, BlkpgEntry
<1>8. QED
  BY <1>1, <1>2, <1>3, <1>5, <1>7, RemovalKeeps

(* A step that changes only the notes of the number at hand, or nothing of *)
(* a commit.                                                               *)
LEMMA BusyRetryInv == ASSUME SyncInv, BusyRetry PROVE SyncInv'
<1>1. PICK k \in Nums : k = i
  BY AtHand DEF BusyRetry
<1>2. /\ pc = "remove" /\ pc' = pc /\ i' = i
      /\ kern' = kern /\ ok' = ok /\ err' = [err EXCEPT ![k] = "EBUSY"]
      /\ disk' = disk /\ backend' = backend /\ sysfs' = sysfs
      /\ shown' = shown /\ before' = before
  BY <1>1 DEF BusyRetry, env
<1>3. OnlyAt(k)
  BY <1>1, <1>2, AtHand DEF OnlyAt
<1>4. SyncTypes'
  BY <1>2, <1>3 DEF SyncInv, SyncTypes, OnlyAt
<1>5. \A n \in Nums : IF n < i THEN Cleared(n) ELSE ~ ok[n]
  BY <1>2 DEF SyncInv, Passes
<1>6. ASSUME NEW n \in Nums PROVE IF n < i THEN Cleared(n)' ELSE ~ ok'[n]
  <2>1. n < i => n # k
    BY <1>1, Limits
  <2>2. QED
    BY <1>1, <1>2, <1>3, <1>5, <2>1, OthersSame
<1>7. Passes'
  BY <1>2, <1>6 DEF Passes
<1>8. KernelInStep'
  BY <1>2 DEF SyncInv, KernelInStep, SilenceMeansKnown, UnchangedStays, Wanted, InTable,
              Entry, DmEntry, BlkpgEntry
<1>9. QED
  BY <1>4, <1>7, <1>8 DEF SyncInv

(* The second loop passes a number that the new table lacks.               *)
LEMMA Nothing2AddInv == ASSUME SyncInv, Nothing2Add PROVE SyncInv'
<1>1. PICK k \in Nums : k = i
  BY AtHand DEF Nothing2Add
<1>2. /\ pc = "add" /\ (~ InTable(k) \/ Unchanged(k)) /\ NextAddition
      /\ ok' = IF InTable(k) THEN [ok EXCEPT ![k] = TRUE] ELSE ok
      /\ kern' = kern /\ err' = err
      /\ disk' = disk /\ backend' = backend /\ sysfs' = sysfs
      /\ shown' = shown /\ before' = before
  BY <1>1 DEF Nothing2Add, env
<1>3. OnlyAt(k)
  BY <1>1, <1>2, AtHand DEF OnlyAt
<1>4. /\ InTable(k)' <=> InTable(k)
      /\ Has(k)' <=> Has(k)
      /\ Wanted(k)' = Wanted(k)
      /\ DmEntry(k)' = DmEntry(k)
  BY <1>2 DEF InTable, Has, Wanted, Entry, DmEntry, BlkpgEntry
<1>5. Told(k)'
  <2>1. CASE ~ InTable(k)
    <3>1. Cleared(k)
      <4>1. \A n \in 1 .. lpn2 : IF n < i THEN Told(n) ELSE Cleared(n)
        BY <1>2 DEF SyncInv, Passes
      <4>2. i \in 1 .. lpn2
        BY <1>2 DEF SyncInv, SyncTypes
      <4>3. k \in 1 .. lpn2 /\ ~ (k < i)
        BY <1>1, <4>2, Limits
      <4>4. QED
        BY <4>1, <4>3
    <3>2. QED
      BY <1>2, <1>4, <2>1, <3>1 DEF Cleared, Told, KernelKnows, Refused
  <2>2. CASE InTable(k) /\ Unchanged(k)
    <3>1. kern[k].start = disk[k].start /\ kern[k].len = disk[k].len /\ kern[k] \in KernelEntry
      BY <1>1, <1>2, <2>2, AtHand DEF Unchanged, SameStart
    <3>2. kern[k] = DmEntry(k)
      BY <3>1 DEF DmEntry, KernelEntry
    <3>3. QED
      BY <1>2, <1>4, <2>2, <3>2 DEF Told, KernelKnows
  <2>3. QED
    BY <1>2, <2>1, <2>2
<1>6. Kept(k)
  BY <1>1, <1>2, AtHand
<1>7. Kept(k)'
  BY <1>2, <1>4, <1>6 DEF Kept
<1>8. QED
  BY <1>1, <1>2, <1>3, <1>5, <1>7, AdditionKeeps

(* The second loop changes the length of a partition that was left.        *)
LEMMA ResizeInv == ASSUME SyncInv, NEW ignore \in BOOLEAN, Resize(ignore) PROVE SyncInv'
<1>1. PICK k \in Nums : k = i
  BY AtHand DEF Resize
<1>2. /\ pc = "add" /\ SameStart(k) /\ NextAddition /\ kern' = resize_partition(k)
      /\ IF kern'[k] = Entry(k)
         THEN ok' = [ok EXCEPT ![k] = TRUE] /\ err' = err /\ shown' = shown
         ELSE /\ shown' = TRUE
              /\ ok' = [ok EXCEPT ![k] = ignore]
              /\ err' = IF ignore THEN err ELSE [err EXCEPT ![k] = "EBUSY"]
      /\ disk' = disk /\ backend' = backend /\ sysfs' = sysfs /\ before' = before
  BY <1>1 DEF Resize, env
<1>3. InTable(k) /\ k \in DOMAIN disk
  BY <1>2 DEF SameStart, InTable
<1>4. Entry(k) \in KernelEntry /\ (kern' = kern \/ kern' = [kern EXCEPT ![k] = Entry(k)])
  BY <1>1, <1>2, <1>3, AtHand, Entries
     DEF resize_partition, _dm_resize_partition, _blkpg_resize_partition, Put
<1>5. OnlyAt(k)
  BY <1>1, <1>2, <1>4, AtHand DEF OnlyAt
<1>6. kern'[k] = kern[k] \/ kern'[k] = Entry(k)
  BY <1>1, <1>2, <1>4, AtHand
<1>7. InTable(k)' /\ Entry(k)' = Entry(k) /\ Wanted(k) = Entry(k) /\ Wanted(k)' = Entry(k)
  BY <1>2, <1>3 DEF InTable, Wanted, Entry, DmEntry, BlkpgEntry
<1>8. Told(k)'
  BY <1>2, <1>7 DEF Told, KernelKnows
<1>9. Kept(k)
  BY <1>1, <1>2, AtHand
<1>10. Kept(k)'
  BY <1>2, <1>6, <1>7, <1>9 DEF Kept
<1>11. QED
  BY <1>1, <1>2, <1>5, <1>8, <1>10, AdditionKeeps

(* The second loop adds a partition.                                       *)
LEMMA AddInv == ASSUME SyncInv, Add PROVE SyncInv'
<1>1. PICK k \in Nums : k = i
  BY AtHand DEF Add
<1>2. /\ pc = "add" /\ InTable(k) /\ ~ SameStart(k) /\ NextAddition
      /\ kern' = add_partition(k)
      /\ IF ~ Has(k) /\ kern' # kern THEN ok' = ok /\ err' = err
         ELSE /\ ok' = [ok EXCEPT ![k] = FALSE]
              /\ err' = [err EXCEPT ![k] = "EBUSY"]
      /\ disk' = disk /\ backend' = backend /\ sysfs' = sysfs
      /\ shown' = shown /\ before' = before
  BY <1>1 DEF Add, env
<1>3. k \in DOMAIN disk /\ disk \in Tables
  BY <1>1, <1>2, AtHand DEF InTable
<1>4. /\ Entry(k) \in KernelEntry
      /\ \/ kern' = kern
         \/ kern' = [kern EXCEPT ![k] = Entry(k)]
         \/ kern' = [kern EXCEPT ![k] = Nothing] /\ Has(k)
  BY <1>2, <1>3, Entries
     DEF add_partition, _dm_add_partition, _blkpg_add_partition, _dm_remove_partition, Put
<1>5. OnlyAt(k)
  BY <1>1, <1>2, <1>4, AtHand, NothingIs DEF OnlyAt
<1>6. InTable(k)' /\ Entry(k)' = Entry(k) /\ Wanted(k) = Entry(k) /\ Wanted(k)' = Entry(k)
  BY <1>2 DEF InTable, Wanted, Entry, DmEntry, BlkpgEntry
<1>7. Told(k)'
  <2>1. CASE ~ Has(k) /\ kern' # kern
    <3>1. kern'[k] = Entry(k)
      BY <1>1, <1>2, <1>4, <2>1, AtHand
    <3>2. QED
      BY <1>6, <3>1 DEF Told, KernelKnows
  <2>2. CASE ~ (~ Has(k) /\ kern' # kern)
    <3>1. ok'[k] = FALSE /\ err'[k] = "EBUSY"
      BY <1>1, <1>2, <2>2, AtHand
    <3>2. QED
      BY <3>1 DEF Told, Refused
  <2>3. QED
    BY <2>1, <2>2
<1>8. Kept(k)
  BY <1>1, <1>2, AtHand
<1>9. Kept(k)'
  <2>1. ~ (/\ backend = "dm" \/ sysfs
           /\ k \in 1 .. lpn2 /\ before[k] = Wanted(k))
    BY <1>2, <1>3, <1>6, <1>8, Recognised DEF Kept
  <2>2. QED
    BY <1>2, <1>6, <2>1 DEF Kept
<1>10. QED
  BY <1>1, <1>2, <1>5, <1>7, <1>9, AdditionKeeps

(* The commit ends with or without a message.                              *)
LEMMA ReportInv == ASSUME SyncInv, Report PROVE SyncInv'
<1>1. /\ pc = "report" /\ pc' = "done" /\ shown' = (shown \/ BadParts # {})
      /\ disk' = disk /\ kern' = kern /\ backend' = backend /\ sysfs' = sysfs
      /\ ok' = ok /\ err' = err /\ before' = before
  BY DEF Report, env
<1>2. SyncTypes'
  BY <1>1 DEF SyncInv, SyncTypes
<1>3. Passes'
  BY <1>1 DEF Passes
<1>4. SilenceMeansKnown'
  <2>1. \A n \in 1 .. lpn2 : Told(n)
    BY <1>1 DEF SyncInv, Passes
  <2>2. ASSUME ~ shown', NEW n \in 1 .. lpn2 PROVE KernelKnows(n)'
    <3>1. ~ shown /\ ~ Refused(n)
      BY <1>1, <2>2 DEF BadParts, Refused
    <3>2. KernelKnows(n)
      BY <2>1, <3>1 DEF Told
    <3>3. QED
      BY <1>1, <3>2 DEF KernelKnows, InTable, Has, Entry, DmEntry, BlkpgEntry
  <2>3. QED
    BY <2>2 DEF SilenceMeansKnown
<1>5. UnchangedStays'
  BY <1>1 DEF SyncInv, KernelInStep, UnchangedStays, Wanted, InTable, Entry, DmEntry, BlkpgEntry
<1>6. QED
  BY <1>2, <1>3, <1>4, <1>5 DEF SyncInv, KernelInStep

(* A commit begins with the first loop, and with nothing told.             *)
LEMMA CommitInv == ASSUME SyncInv, NEW table \in Tables, Commit(table) PROVE SyncInv'
<1>1. /\ disk' = table /\ pc' = "remove" /\ i' = 1
      /\ ok' = [n \in Nums |-> FALSE] /\ err' = [n \in Nums |-> ""]
      /\ shown' = FALSE /\ before' = kern /\ kern' = kern
      /\ backend' = backend /\ sysfs' = sysfs
  BY DEF Commit, env
<1>2. SyncTypes'
  BY <1>1, Limits DEF SyncInv, SyncTypes
<1>3. Passes'
  <2>1. \A n \in Nums : ~ (n < 1)
    BY Limits
  <2>2. \A n \in Nums : ~ ok'[n]
    BY <1>1
  <2>3. QED
    BY <1>1, <2>1, <2>2 DEF Passes
<1>4. KernelInStep'
  BY <1>1 DEF KernelInStep, SilenceMeansKnown, UnchangedStays
<1>5. QED
  BY <1>2, <1>3, <1>4 DEF SyncInv

(* Nothing of a commit changes, or it ends. *)
LEMMA ApartInv ==
    ASSUME SyncInv, UNCHANGED <<disk, kern, backend, sysfs, ok, err, shown, before, i>>,
           pc' = pc \/ pc' = "idle"
    PROVE  SyncInv'
<1>1. SyncTypes'
  BY DEF SyncInv, SyncTypes
<1>2. \A n : /\ Cleared(n)' <=> Cleared(n)
             /\ Told(n)' <=> Told(n)
             /\ KernelKnows(n)' <=> KernelKnows(n)
  BY DEF Cleared, Told, KernelKnows, Refused, InTable, Has, Entry, DmEntry, BlkpgEntry
<1>3. Passes'
  BY <1>2 DEF SyncInv, Passes
<1>4. SilenceMeansKnown'
  BY <1>2 DEF SyncInv, KernelInStep, SilenceMeansKnown
<1>5. UnchangedStays'
  BY DEF SyncInv, KernelInStep, UnchangedStays, Wanted, InTable, Entry, DmEntry, BlkpgEntry
<1>6. QED
  BY <1>1, <1>3, <1>4, <1>5 DEF SyncInv, KernelInStep

(* Whatever other processes hold and release meanwhile, a commit that ends *)
(* without a word has told the kernel of the table that linux_disk_commit  *)
(* wrote, and what it did not change was never taken away.                 *)
THEOREM InStep == SyncSpec => []KernelInStep
<1>1. SyncInit => SyncInv
  <2> SUFFICES ASSUME SyncInit PROVE SyncInv
    OBVIOUS
  <2>1. /\ pc = "idle" /\ disk \in Tables /\ before = kern
        /\ kern = [n \in Nums |-> IF InTable(n) THEN Entry(n) ELSE Nothing]
        /\ backend \in {"blkpg", "dm"} /\ sysfs \in BOOLEAN /\ shown = FALSE
        /\ ok = [n \in Nums |-> FALSE] /\ err = [n \in Nums |-> ""]
    BY DEF SyncInit
  <2>2. \A n \in Nums : InTable(n) => Entry(n) \in KernelEntry
    BY <2>1, Entries DEF InTable
  <2>3. kern \in [Nums -> KernelEntry]
    BY <2>1, <2>2, NothingIs
  <2>4. SyncTypes
    BY <2>1, <2>3 DEF SyncTypes
  <2>5. QED
    BY <2>1, <2>4 DEF SyncInv, Passes, KernelInStep, SilenceMeansKnown, UnchangedStays
<1>2. SyncInv /\ [SyncNext]_sync_vars => SyncInv'
  <2> SUFFICES ASSUME SyncInv, [SyncNext]_sync_vars PROVE SyncInv'
    OBVIOUS
  <2>1. CASE KeepOld
    BY <2>1, KeepOldInv
  <2>2. CASE RemoveOld
    BY <2>2, RemoveOldInv
  <2>3. CASE BusyRetry
    BY <2>3, BusyRetryInv
  <2>4. CASE BusyGiveUp
    BY <2>4, BusyGiveUpInv
  <2>5. CASE Nothing2Add
    BY <2>5, Nothing2AddInv
  <2>6. CASE Add
    BY <2>6, AddInv
  <2>7. CASE Report
    BY <2>7, ReportInv
  <2>8. CASE Return
    BY <2>8, ApartInv DEF Return, env
  <2>9. CASE \E ignore \in BOOLEAN : Resize(ignore)
    BY <2>9, ResizeInv
  <2>10. CASE \E table \in Tables : Commit(table)
    BY <2>10, CommitInv
  <2>11. CASE \E n \in Nums : Hold(n) \/ Release(n)
    BY <2>11, ApartInv DEF Hold, Release, env
  <2>12. CASE UNCHANGED sync_vars
    BY <2>12, ApartInv DEF sync_vars
  <2>13. QED
    BY <2>1, <2>2, <2>3, <2>4, <2>5, <2>6, <2>7, <2>8, <2>9, <2>10, <2>11, <2>12
       DEF SyncNext, Program
<1>3. SyncInv => KernelInStep
  BY DEF SyncInv
<1>4. QED
  BY <1>1, <1>2, <1>3, PTL DEF SyncSpec

(***************************************************************************)
(* Descriptors and caches                                                  *)
(***************************************************************************)
Device == [type : {"ram", "other"}, open : 0 .. 2, ro : BOOLEAN, dirty : BOOLEAN]
Stages == {"idle", "flush", "flush part", "close flush", "close flush part", "close", "write"}
Page == Contents \cup {Absent}

(* A close that is under way is that of the last user, and every           *)
(* descriptor is accounted for.                                            *)
FdInv ==
    /\ dev = NoDev \/ dev \in Device
    /\ fds \in Int /\ leaks \in Int
    /\ io \in Stages
    /\ io \in {"close", "close flush", "close flush part"} => dev \in Device /\ dev.open = 1
    /\ FdBalanced

(* What the program wrote last is in the page that will be written back,   *)
(* or on the medium; once the whole device is flushed, no page of it is    *)
(* left until the partitions are, too.                                     *)
Held(s) == mine[s] \in {Absent, IF s \in wdirty THEN whole[s] ELSE medium[s]}

CacheInv ==
    /\ medium \in [Sectors -> Page] /\ whole \in [Sectors -> Page]
    /\ part \in [InPart -> Page] /\ mine \in [Sectors -> Page]
    /\ wdirty \subseteq Sectors /\ pdirty \subseteq InPart /\ todo \subseteq Sectors
    /\ \A s \in Sectors : Held(s)
    /\ io \in {"flush part", "close flush part"} => whole = None /\ wdirty = {}

(* A device is told from no device. *)
LEMMA Devices == NoDev \notin Device
<1>1. NoDev.type = "none"
  BY DEF NoDev
<1>2. \A d \in Device : d.type # "none"
  BY DEF Device
<1>3. QED
  BY <1>1, <1>2

(***************************************************************************)
(* Descriptors.                                                            *)
(***************************************************************************)

InUse == dev # NoDev /\ dev.open > 0

(* How many descriptors a device has. *)
LEMMA Balance ==
    /\ InUse => (FdBalanced <=> fds = leaks + 1)
    /\ leaks \in Int /\ ~ InUse => (FdBalanced <=> fds = leaks)
  BY DEF FdBalanced, InUse

(* The same of the next state.                                             *)
LEMMA BalanceAfter ==
    /\ InUse' => (FdBalanced' <=> fds' = leaks' + 1)
    /\ leaks' \in Int /\ ~ InUse' => (FdBalanced' <=> fds' = leaks')
  BY DEF FdBalanced, InUse

(* What the invariant says of the counts. *)
LEMMA Counts ==
    ASSUME FdInv
    PROVE  /\ fds \in Int /\ leaks \in Int /\ io \in Stages
           /\ dev = NoDev \/ dev \in Device
           /\ InUse => fds = leaks + 1
           /\ ~ InUse => fds = leaks
<1>1. fds \in Int /\ leaks \in Int /\ io \in Stages /\ (dev = NoDev \/ dev \in Device) /\ FdBalanced
  BY DEF FdInv
<1>2. QED
  BY <1>1, Balance

(* Opening and closing change a device and the counts together. *)
LEMMA FdStep ==
    ASSUME fds' \in Int, leaks' \in Int, io' \in Stages,
           dev' = NoDev \/ dev' \in Device,
           io' \in {"close", "close flush", "close flush part"} => dev' \in Device /\ dev'.open = 1,
           InUse' => fds' = leaks' + 1, ~ InUse' => fds' = leaks'
    PROVE  FdInv'
<1>1. FdBalanced'
  <2>1. CASE InUse'
    BY <2>1, BalanceAfter
  <2>2. CASE ~ InUse'
    <3>1. fds' = leaks'
      BY <2>2
    <3>2. QED
      BY <2>2, <3>1, BalanceAfter
  <2>3. QED
    BY <2>1, <2>2
<1>2. QED
  BY <1>1 DEF FdInv

(* linux_new closes what it opened, or loses it.                           *)
LEMMA NewFd ==
    ASSUME FdInv, NEW n, NEW size, NEW known \in BOOLEAN, NEW opened \in BOOLEAN,
           NEW ssz \in BOOLEAN, NEW by64 \in BOOLEAN, NEW by32 \in BOOLEAN,
           NEW closed \in BOOLEAN, New(n, size, known, opened, ssz, by64, by32, closed)
    PROVE  FdInv'
<1>1. /\ dev = NoDev /\ (dev' = NoDev \/ (dev' \in Device /\ dev'.open = 0))
      /\ io' \in {"flush", "idle"}
      /\ fds' = (IF opened /\ ~closed THEN fds + 1 ELSE fds)
      /\ leaks' = leaks + (fds' - fds)
  BY DEF New, Device
<1>2. fds = leaks /\ fds \in Int /\ leaks \in Int
  BY <1>1, Counts DEF InUse
<1>3. fds' \in Int /\ leaks' \in Int /\ fds' = leaks'
  BY <1>1, <1>2
<1>4. ~ InUse'
  BY <1>1 DEF InUse
<1>5. io' \in Stages /\ io' \notin {"close", "close flush", "close flush part"}
  BY <1>1 DEF Stages
<1>6. QED
  BY <1>1, <1>3, <1>4, <1>5, FdStep

(* linux_open takes one descriptor, or none.                               *)
LEMMA OpenFd ==
    ASSUME FdInv, NEW how \in {"rw", "ro", "no"}, LinuxOpen(how)
    PROVE  FdInv'
<1>1. dev # NoDev /\ dev.open = 0 /\ io = "idle" /\ leaks' = leaks
  BY DEF LinuxOpen, Ready, files
<1>2. ~ InUse
  BY <1>1 DEF InUse
<1>3. dev \in Device /\ fds = leaks /\ fds \in Int /\ leaks \in Int
  BY <1>1, <1>2, Counts
<1>4. CASE how = "no"
  <2>1. dev' = dev /\ fds' = fds /\ io' = "idle"
    BY <1>1, <1>4 DEF LinuxOpen
  <2>2. ~ InUse' /\ io' \in Stages
    BY <1>1, <2>1 DEF InUse, Stages
  <2>3. QED
    BY <1>1, <1>3, <2>1, <2>2, FdStep
<1>5. CASE how # "no"
  <2>1. /\ dev' = [dev EXCEPT !.open = 1, !.ro = (how = "ro")]
        /\ fds' = fds + 1 /\ io' \in {"flush", "idle"}
    BY <1>5 DEF LinuxOpen
  <2>2. PICK b \in BOOLEAN : dev' = [dev EXCEPT !.open = 1, !.ro = b]
    BY <2>1
  <2>3. dev' \in Device /\ dev'.open = 1
    <3>1. dev'.open = 1 /\ dev'.ro = b /\ dev'.type = dev.type /\ dev'.dirty = dev.dirty
      BY <1>3, <2>2 DEF Device
    <3>2. dev' = [type |-> dev.type, open |-> 1, ro |-> b, dirty |-> dev.dirty]
      BY <1>3, <2>2 DEF Device
    <3>3. QED
      BY <1>3, <3>1, <3>2 DEF Device
  <2>4. InUse' /\ io' \in Stages /\ io' \notin {"close", "close flush", "close flush part"}
    <3>1. InUse'
      BY <2>3, Devices DEF InUse
    <3>2. QED
      BY <2>1, <3>1 DEF Stages
  <2>5. fds' \in Int /\ leaks' \in Int /\ fds' = leaks' + 1
    BY <1>1, <1>3, <2>1
  <2>6. QED
    BY <2>3, <2>4, <2>5, FdStep
<1>6. QED
  BY <1>4, <1>5

(* The last close gives the descriptor back, or loses it.                  *)
LEMMA CloseFdFd ==
    ASSUME FdInv, NEW synced \in BOOLEAN, CloseFd(synced)
    PROVE  FdInv'
<1>1. /\ io = "close" /\ dev' = [dev EXCEPT !.open = 0] /\ io' = "idle"
      /\ fds' = (IF synced THEN fds - 1 ELSE fds)
      /\ leaks' = (IF synced THEN leaks ELSE leaks + 1)
  BY DEF CloseFd
<1>2. dev \in Device /\ dev.open = 1
  BY <1>1 DEF FdInv
<1>3. InUse
  BY <1>2, Devices DEF InUse
<1>4. fds = leaks + 1 /\ fds \in Int /\ leaks \in Int
  BY <1>3, Counts
<1>5. dev' \in Device /\ dev'.open = 0
  BY <1>1, <1>2 DEF Device
<1>6. ~ InUse' /\ io' \in Stages
  BY <1>1, <1>5 DEF InUse, Stages
<1>7. fds' \in Int /\ leaks' \in Int /\ fds' = leaks'
  BY <1>1, <1>4
<1>8. QED
  BY <1>1, <1>5, <1>6, <1>7, FdStep

(* A step between opening and closing leaves the descriptors alone. *)
LEMMA SameFd ==
    ASSUME FdInv, fds' = fds, leaks' = leaks, io' \in Stages, InUse' <=> InUse,
           dev' = NoDev \/ dev' \in Device,
           io' \in {"close", "close flush", "close flush part"} => dev' \in Device /\ dev'.open = 1
    PROVE  FdInv'
  BY Counts, FdStep

(* No step loses count of the descriptors.                                 *)
LEMMA NextFd == ASSUME FdInv, [DevNext]_dev_vars PROVE FdInv'
<1> USE DEF Ready, files, disks, call, Stages
<1>1. /\ dev = NoDev \/ dev \in Device
      /\ dev # NoDev => dev \in Device
      /\ io \in Stages
  BY Counts
<1>2. io \in {"close", "close flush", "close flush part"} => dev \in Device /\ dev.open = 1
  BY DEF FdInv
<1>3. CASE \E n \in Candidates, size \in SectorSizes,
              known, opened, ssz, by64, by32, closed \in BOOLEAN :
            New(n, size, known, opened, ssz, by64, by32, closed \/ leaks = MaxLeaks)
  <2>1. PICK n \in Candidates, size \in SectorSizes,
             known, opened, ssz, by64, by32, closed \in BOOLEAN :
               New(n, size, known, opened, ssz, by64, by32, closed \/ leaks = MaxLeaks)
    BY <1>3
  <2>2. PICK c \in BOOLEAN : New(n, size, known, opened, ssz, by64, by32, c)
    BY <2>1
  <2>3. QED
    BY <2>2, NewFd
<1>4. CASE \E how \in {"rw", "ro", "no"} : LinuxOpen(how)
  BY <1>4, OpenFd
<1>5. CASE RefreshOpen
  <2>1. /\ dev \in Device /\ dev.open = 1 /\ dev' = [dev EXCEPT !.open = 2]
        /\ io' = "idle" /\ fds' = fds /\ leaks' = leaks
    BY <1>1, <1>5 DEF RefreshOpen
  <2>2. dev' \in Device /\ dev'.open = 2
    BY <2>1 DEF Device
  <2>3. InUse /\ InUse'
    BY <2>1, <2>2, Devices DEF InUse
  <2>4. QED
    BY <2>1, <2>2, <2>3, SameFd
<1>6. CASE FlushWhole
  <2>1. /\ dev' = (IF dev = NoDev THEN dev ELSE [dev EXCEPT !.dirty = FALSE])
        /\ fds' = fds /\ leaks' = leaks
        /\ \/ io = "flush" /\ io' = "flush part"
           \/ io = "close flush" /\ io' = "close flush part"
    BY <1>6 DEF FlushWhole
  <2>2. /\ dev' = NoDev \/ dev' \in Device
        /\ InUse' <=> InUse
        /\ dev \in Device /\ dev.open = 1 => dev' \in Device /\ dev'.open = 1
    <3>1. CASE dev = NoDev
      BY <2>1, <3>1, Devices DEF InUse
    <3>2. CASE dev \in Device
      <4>1. dev' \in Device /\ dev'.open = dev.open
        BY <2>1, <3>2, Devices DEF Device
      <4>2. QED
        BY <3>2, <4>1, Devices DEF InUse
    <3>3. QED
      BY <1>1, <3>1, <3>2
  <2>3. QED
    BY <1>2, <2>1, <2>2, SameFd
<1>7. CASE FlushPart
  <2>1. /\ dev' = dev /\ fds' = fds /\ leaks' = leaks
        /\ \/ io = "flush part" /\ io' = "idle"
           \/ io = "close flush part" /\ io' = "close"
    BY <1>7 DEF FlushPart
  <2>2. InUse' <=> InUse
    BY <2>1 DEF InUse
  <2>3. QED
    BY <1>1, <1>2, <2>1, <2>2, SameFd
<1>8. CASE RefreshClose
  <2>1. /\ dev \in Device /\ dev.open = 2 /\ dev' = [dev EXCEPT !.open = 1]
        /\ io' \in {"flush", "idle"} /\ fds' = fds /\ leaks' = leaks
    BY <1>1, <1>8 DEF RefreshClose
  <2>2. dev' \in Device /\ dev'.open = 1
    BY <2>1 DEF Device
  <2>3. InUse /\ InUse'
    BY <2>1, <2>2, Devices DEF InUse
  <2>4. QED
    BY <2>1, <2>2, <2>3, SameFd
<1>9. CASE LinuxClose
  <2>1. /\ dev \in Device /\ dev.open = 1 /\ dev' = dev
        /\ io' \in {"close flush", "close"} /\ fds' = fds /\ leaks' = leaks
    BY <1>1, <1>9 DEF LinuxClose
  <2>2. InUse' <=> InUse
    BY <2>1 DEF InUse
  <2>3. QED
    BY <2>1, <2>2, SameFd
<1>10. CASE LinuxDestroy
  <2>1. /\ dev # NoDev /\ dev.open = 0 /\ dev' = NoDev
        /\ io' = "idle" /\ fds' = fds /\ leaks' = leaks
    BY <1>10 DEF LinuxDestroy
  <2>2. ~ InUse /\ ~ InUse'
    BY <2>1 DEF InUse
  <2>3. QED
    BY <2>1, <2>2, SameFd
<1>11. CASE \E synced \in BOOLEAN : CloseFd(synced \/ leaks = MaxLeaks)
  <2>1. PICK c \in BOOLEAN : CloseFd(c)
    BY <1>11
  <2>2. QED
    BY <2>1, CloseFdFd
<1>12. ASSUME dev' = dev, fds' = fds, leaks' = leaks, io' = io \/ io' \in {"idle", "flush", "write"}
       PROVE  FdInv'
  <2>1. InUse' <=> InUse
    BY <1>12 DEF InUse
  <2>2. QED
    BY <1>1, <1>2, <1>12, <2>1, SameFd
<1>13. CASE \E s \in Sectors : Read(s) \/ KernelWritesBack(s) \/ OtherReads(s)
  BY <1>12, <1>13 DEF Read, KernelWritesBack, OtherReads
<1>14. CASE \E secs \in SUBSET Sectors \ {{}} : LinuxWrite(secs)
  <2>1. /\ dev \in Device /\ dev.open > 0 /\ dev' = [dev EXCEPT !.dirty = TRUE]
        /\ io' = "write" /\ fds' = fds /\ leaks' = leaks
    BY <1>1, <1>14 DEF LinuxWrite
  <2>2. dev' \in Device /\ dev'.open = dev.open
    BY <2>1 DEF Device
  <2>3. InUse /\ InUse'
    BY <2>1, <2>2, Devices DEF InUse
  <2>4. QED
    BY <2>1, <2>2, <2>3, SameFd
<1>15. CASE \E n \in 1 .. Cardinality(Sectors), v \in Contents : WriteSome(n, v)
  BY <1>12, <1>15 DEF WriteSome
<1>16. CASE WriteStops
  BY <1>12, <1>16 DEF WriteStops
<1>17. CASE \E fast \in BOOLEAN, outcome \in {"ok", "ignore", "cancel"} : Sync(fast, outcome)
  BY <1>12, <1>17 DEF Sync
<1>18. CASE \E s \in InPart, v \in Contents : OtherWrites(s, v)
  BY <1>12, <1>18 DEF OtherWrites
<1>19. CASE Mount
  BY <1>12, <1>19 DEF Mount
<1>20. CASE UNCHANGED dev_vars
  BY <1>12, <1>20 DEF dev_vars
<1>21. QED
  BY <1>3, <1>4, <1>5, <1>6, <1>7, <1>8, <1>9, <1>10, <1>11, <1>13, <1>14, <1>15, <1>16,
     <1>17, <1>18, <1>19, <1>20 DEF DevNext

(* Every path of linux_new, linux_open and linux_close gives back what it  *)
(* took, but for the descriptors whose fsync failed.                       *)
THEOREM FdsBalanced == DevSpec => []FdBalanced
<1>1. DevInit => FdInv
  BY DEF DevInit, FdInv, FdBalanced, Stages
<1>2. FdInv /\ [DevNext]_dev_vars => FdInv'
  BY NextFd
<1>3. FdInv => FdBalanced
  BY DEF FdInv
<1>4. QED
  BY <1>1, <1>2, <1>3, PTL DEF DevSpec

(***************************************************************************)
(* Caches.                                                                 *)
(***************************************************************************)

(* Writing dirty pages back. *)
LEMMA WroteBack ==
    ASSUME CacheInv, NEW S, S \subseteq Sectors, NEW cache \in [S -> Page], NEW dirty, dirty \subseteq S
    PROVE  /\ WriteBack(cache, dirty) \in [Sectors -> Page]
           /\ \A s \in Sectors : WriteBack(cache, dirty)[s]
                                   = IF s \in dirty THEN cache[s] ELSE medium[s]
  BY DEF CacheInv, WriteBack

(* An empty cache.                                                         *)
LEMMA NoneIs == None \in [Sectors -> Page] /\ \A s \in Sectors : None[s] = Absent
  BY DEF None, Page

(* What every step has to show. *)
Cached ==
    /\ medium \in [Sectors -> Page] /\ whole \in [Sectors -> Page]
    /\ part \in [InPart -> Page] /\ mine \in [Sectors -> Page]
    /\ wdirty \subseteq Sectors /\ pdirty \subseteq InPart /\ todo \subseteq Sectors
    /\ InPart \subseteq Sectors

(* The types, with the partition inside of the device.                     *)
LEMMA CachedIs == CacheInv => Cached
  BY DevicesAssumption DEF CacheInv, Cached

(* Writing back the cache of the whole device.                             *)
LEMMA WholeBack ==
    ASSUME CacheInv
    PROVE  /\ WriteBack(whole, wdirty) \in [Sectors -> Page]
           /\ \A s \in Sectors : WriteBack(whole, wdirty)[s]
                                   = IF s \in wdirty THEN whole[s] ELSE medium[s]
  BY WroteBack, CachedIs DEF Cached

(* Writing back the cache of the partition.                                *)
LEMMA PartBack ==
    ASSUME CacheInv
    PROVE  /\ WriteBack(part, pdirty) \in [Sectors -> Page]
           /\ \A s \in Sectors : WriteBack(part, pdirty)[s]
                                   = IF s \in pdirty THEN part[s] ELSE medium[s]
<1>1. part \in [InPart -> Page] /\ pdirty \subseteq InPart /\ InPart \subseteq Sectors
  BY CachedIs DEF Cached
<1>2. QED
  BY <1>1, WroteBack

(* A step that touches neither a cache nor the medium.                     *)
LEMMA NoPages ==
    ASSUME CacheInv, UNCHANGED <<medium, whole, part, wdirty, pdirty, mine>>,
           todo' \subseteq Sectors,
           io' \in {"flush part", "close flush part"} => io' = io
    PROVE  CacheInv'
  BY DEF CacheInv, Held, None

(* BLKFLSBUF on the device.                                                *)
LEMMA FlushWholeCache == ASSUME CacheInv, FlushWhole PROVE CacheInv'
<1>1. /\ medium' = WriteBack(whole, wdirty) /\ whole' = None /\ wdirty' = {}
      /\ part' = part /\ pdirty' = pdirty /\ mine' = mine /\ todo' = todo
  BY DEF FlushWhole
<1>2. /\ medium' \in [Sectors -> Page]
      /\ \A s \in Sectors : medium'[s] = IF s \in wdirty THEN whole[s] ELSE medium[s]
  BY <1>1, WholeBack
<1>3. \A s \in Sectors : Held(s)'
  BY <1>1, <1>2 DEF CacheInv, Held
<1>4. None' = None
  BY DEF None
<1>5. QED
  BY <1>1, <1>2, <1>3, <1>4, NoneIs DEF CacheInv

(* BLKFLSBUF on the partition, unless it is mounted.                       *)
LEMMA FlushPartCache == ASSUME CacheInv, FlushPart PROVE CacheInv'
<1>1. /\ io \in {"flush part", "close flush part"} /\ io' \in {"idle", "close"}
      /\ whole' = whole /\ wdirty' = wdirty /\ todo' = todo
  BY DEF FlushPart
<1>2. CASE mounted
  <2>1. medium' = medium /\ part' = part /\ pdirty' = pdirty /\ mine' = mine
    BY <1>2 DEF FlushPart, _partition_is_mounted_by_path
  <2>2. QED
    BY <1>1, <2>1, NoPages DEF CacheInv
<1>3. CASE ~ mounted
  <2>1. /\ medium' = WriteBack(part, pdirty)
        /\ part' = [s \in InPart |-> Absent] /\ pdirty' = {}
        /\ mine' = [s \in Sectors |-> IF s \in pdirty THEN Absent ELSE mine[s]]
    BY <1>3 DEF FlushPart, _partition_is_mounted_by_path
  <2>2. /\ medium' \in [Sectors -> Page]
        /\ \A s \in Sectors : medium'[s] = IF s \in pdirty THEN part[s] ELSE medium[s]
    BY <2>1, PartBack
  <2>3. /\ wdirty = {} /\ \A s \in Sectors : Held(s)
    BY <1>1 DEF CacheInv
  <2>4. \A s \in Sectors : Held(s)'
    BY <1>1, <2>1, <2>2, <2>3 DEF Held
  <2>5. mine' \in [Sectors -> Page] /\ part' \in [InPart -> Page]
    BY <2>1, CachedIs DEF Cached, Page
  <2>6. QED
    BY <1>1, <2>1, <2>2, <2>4, <2>5 DEF CacheInv
<1>4. QED
  BY <1>2, <1>3

(* After fsync the program has lost nothing that it was not told of.       *)
LEMMA FsyncCache ==
    ASSUME CacheInv, NEW done \in BOOLEAN, Fsync(done),
           UNCHANGED <<whole, part, pdirty, todo>>,
           io' \notin {"flush part", "close flush part"}
    PROVE  /\ CacheInv'
           /\ \A s \in Sectors : mine'[s] \in {Absent, medium'[s]}
<1>1. CASE done
  <2>1. medium' = WriteBack(whole, wdirty) /\ wdirty' = {} /\ mine' = mine
    BY <1>1 DEF Fsync
  <2>2. /\ medium' \in [Sectors -> Page]
        /\ \A s \in Sectors : medium'[s] = IF s \in wdirty THEN whole[s] ELSE medium[s]
    BY <2>1, WholeBack
  <2>3. \A s \in Sectors : Held(s)' /\ mine'[s] \in {Absent, medium'[s]}
    BY <2>1, <2>2 DEF CacheInv, Held
  <2>4. QED
    BY <2>1, <2>2, <2>3 DEF CacheInv
<1>2. CASE ~ done
  <2>1. medium' = medium /\ wdirty' \in {{}, wdirty} /\ mine' = None
    BY <1>2 DEF Fsync
  <2>2. \A s \in Sectors : Held(s)' /\ mine'[s] = Absent
    BY <2>1, NoneIs DEF Held
  <2>3. QED
    BY <2>1, <2>2, NoneIs DEF CacheInv
<1>3. QED
  BY <1>1, <1>2

(* linux_read fills the cache.                                             *)
LEMMA ReadCache == ASSUME CacheInv, NEW s \in Sectors, Read(s) PROVE CacheInv'
<1>1. /\ io = "idle" /\ io' = io /\ todo' = todo /\ whole[s] = Absent
      /\ whole' = [whole EXCEPT ![s] = medium[s]]
      /\ UNCHANGED <<medium, part, wdirty, pdirty, mine>>
  BY DEF Read, Ready, call
<1>2. /\ whole' \in [Sectors -> Page] /\ whole'[s] = medium[s]
      /\ \A x \in Sectors \ {s} : whole'[x] = whole[x]
  BY <1>1, CachedIs DEF Cached
<1>3. \A x \in Sectors : Held(x)'
  BY <1>1, <1>2 DEF CacheInv, Held
<1>4. QED
  BY <1>1, <1>2, <1>3 DEF CacheInv

(* The kernel writes a page of either cache back.                          *)
LEMMA KernelCache == ASSUME CacheInv, NEW s \in Sectors, KernelWritesBack(s) PROVE CacheInv'
<1>1. io' = io /\ todo' = todo /\ whole' = whole /\ part' = part
  BY DEF KernelWritesBack, call
<1>2. CASE /\ s \in wdirty /\ wdirty' = wdirty \ {s}
           /\ medium' = [medium EXCEPT ![s] = whole[s]]
           /\ UNCHANGED <<pdirty, mine>>
  <2>1. /\ medium' \in [Sectors -> Page] /\ medium'[s] = whole[s]
        /\ \A x \in Sectors \ {s} : medium'[x] = medium[x]
    BY <1>2, CachedIs DEF Cached
  <2>2. \A x \in Sectors : Held(x)'
    BY <1>1, <1>2, <2>1 DEF CacheInv, Held
  <2>3. QED
    BY <1>1, <1>2, <2>1, <2>2 DEF CacheInv, None
<1>3. CASE /\ s \in pdirty /\ pdirty' = pdirty \ {s}
           /\ medium' = [medium EXCEPT ![s] = part[s]]
           /\ mine' = [mine EXCEPT ![s] = Absent]
           /\ UNCHANGED wdirty
  <2>1. s \in InPart /\ part[s] \in Page /\ Absent \in Page
    BY <1>3, CachedIs DEF Cached, Page
  <2>2. /\ medium' \in [Sectors -> Page] /\ mine' \in [Sectors -> Page] /\ mine'[s] = Absent
        /\ \A x \in Sectors \ {s} : medium'[x] = medium[x] /\ mine'[x] = mine[x]
    BY <1>3, <2>1, CachedIs DEF Cached
  <2>3. \A x \in Sectors : Held(x)'
    BY <1>1, <1>3, <2>2 DEF CacheInv, Held
  <2>4. QED
    BY <1>1, <1>3, <2>2, <2>3 DEF CacheInv, None
<1>4. QED
  BY <1>2, <1>3 DEF KernelWritesBack

(* Another process reads through the partition's cache.                    *)
LEMMA OtherReadsCache == ASSUME CacheInv, NEW s \in Sectors, OtherReads(s) PROVE CacheInv'
<1>1. /\ s \in InPart /\ part' = [part EXCEPT ![s] = medium[s]]
      /\ io' = io /\ todo' = todo
      /\ UNCHANGED <<medium, whole, wdirty, pdirty, mine>>
  BY DEF OtherReads, call
<1>2. part' \in [InPart -> Page]
  BY <1>1, CachedIs DEF Cached
<1>3. \A x \in Sectors : Held(x)'
  BY <1>1 DEF CacheInv, Held
<1>4. QED
  BY <1>1, <1>2, <1>3 DEF CacheInv, None

(* Another process writes to the partition's cache.                        *)
LEMMA OtherWritesCache ==
    ASSUME CacheInv, NEW s \in InPart, NEW v \in Contents, OtherWrites(s, v)
    PROVE  CacheInv'
<1>1. /\ part' = [part EXCEPT ![s] = v] /\ pdirty' = pdirty \cup {s}
      /\ mine' = [mine EXCEPT ![s] = Absent]
      /\ io' = io /\ todo' = todo
      /\ UNCHANGED <<medium, whole, wdirty>>
  BY DEF OtherWrites, call
<1>2. /\ part' \in [InPart -> Page] /\ mine' \in [Sectors -> Page]
      /\ mine'[s] = Absent /\ \A x \in Sectors \ {s} : mine'[x] = mine[x]
  BY <1>1, CachedIs DEF Cached, Page
<1>3. \A x \in Sectors : Held(x)'
  BY <1>1, <1>2 DEF CacheInv, Held
<1>4. QED
  BY <1>1, <1>2, <1>3 DEF CacheInv, None

(* write() takes some of the sectors.                                      *)
LEMMA WriteSomeCache ==
    ASSUME CacheInv, NEW n \in 1 .. Cardinality(Sectors), NEW v \in Contents, WriteSome(n, v)
    PROVE  CacheInv'
<1> DEFINE now == {s \in todo : Cardinality({x \in todo : x <= s}) <= n}
<1>1. /\ whole' = [s \in Sectors |-> IF s \in now THEN v ELSE whole[s]]
      /\ wdirty' = wdirty \cup now
      /\ mine' = [s \in Sectors |-> IF s \in now THEN v ELSE mine[s]]
      /\ todo' = todo \ now /\ io' \in {"idle", "write"}
      /\ UNCHANGED <<medium, part, pdirty>>
  BY DEF WriteSome
<1>2. now \subseteq todo
  OBVIOUS
<1> HIDE DEF now
<1>3. now \subseteq Sectors /\ v \in Page
  BY <1>2, CachedIs DEF Cached, Page
<1>4. whole' \in [Sectors -> Page] /\ mine' \in [Sectors -> Page]
  BY <1>1, <1>3, CachedIs DEF Cached
<1>5. \A x \in Sectors : Held(x)'
  BY <1>1 DEF CacheInv, Held
<1>6. QED
  BY <1>1, <1>3, <1>4, <1>5 DEF CacheInv

(* Mounting changes no page, unmounting writes back.                       *)
LEMMA MountCache == ASSUME CacheInv, Mount PROVE CacheInv'
<1>1. io' = io /\ todo' = todo /\ UNCHANGED <<whole, part, wdirty>>
  BY DEF Mount, call
<1>2. CASE ~ mounted
  BY <1>1, <1>2, NoPages DEF Mount, CacheInv
<1>3. CASE mounted
  <2>1. /\ medium' = WriteBack(part, pdirty) /\ pdirty' = {}
        /\ mine' = [s \in Sectors |-> IF s \in pdirty THEN Absent ELSE mine[s]]
    BY <1>3 DEF Mount
  <2>2. /\ medium' \in [Sectors -> Page]
        /\ \A s \in Sectors : medium'[s] = IF s \in pdirty THEN part[s] ELSE medium[s]
    BY <2>1, PartBack
  <2>3. mine' \in [Sectors -> Page]
    BY <2>1, CachedIs DEF Cached, Page
  <2>4. \A s \in Sectors : Held(s)'
    BY <1>1, <2>1, <2>2 DEF CacheInv, Held
  <2>5. QED
    BY <1>1, <2>1, <2>2, <2>3, <2>4 DEF CacheInv, None
<1>4. QED
  BY <1>2, <1>3

(* Every step keeps what the program wrote.                                *)
LEMMA NextCache == ASSUME CacheInv, [DevNext]_dev_vars PROVE CacheInv'
<1> USE DEF Ready, files, disks, call
<1>1. todo \subseteq Sectors
  BY DEF CacheInv
<1>2. ASSUME UNCHANGED <<medium, whole, part, wdirty, pdirty, mine>>, todo' = todo \/ todo' = {},
             io' \in {"idle", "flush", "close flush", "close"} \/ io' = io
      PROVE  CacheInv'
  BY <1>1, <1>2, NoPages
<1>3. CASE \E n \in Candidates, size \in SectorSizes,
              known, opened, ssz, by64, by32, closed \in BOOLEAN :
            New(n, size, known, opened, ssz, by64, by32, closed \/ leaks = MaxLeaks)
  BY <1>2, <1>3 DEF New
<1>4. CASE \E how \in {"rw", "ro", "no"} : LinuxOpen(how)
  BY <1>2, <1>4 DEF LinuxOpen
<1>5. CASE RefreshOpen
  BY <1>2, <1>5 DEF RefreshOpen
<1>6. CASE RefreshClose
  BY <1>2, <1>6 DEF RefreshClose
<1>7. CASE LinuxClose
  BY <1>2, <1>7 DEF LinuxClose
<1>8. CASE LinuxDestroy
  BY <1>2, <1>8 DEF LinuxDestroy
<1>9. CASE WriteStops
  BY <1>2, <1>9 DEF WriteStops
<1>10. CASE \E secs \in SUBSET Sectors \ {{}} : LinuxWrite(secs)
  BY <1>10, NoPages DEF LinuxWrite
<1>11. CASE \E synced \in BOOLEAN : CloseFd(synced \/ leaks = MaxLeaks)
  <2>1. PICK c \in BOOLEAN : CloseFd(c)
    BY <1>11
  <2>2. Fsync(c) /\ io' = "idle" /\ UNCHANGED <<whole, part, pdirty, todo>>
    BY <2>1 DEF CloseFd
  <2>3. QED
    BY <2>2, FsyncCache
<1>12. CASE \E fast \in BOOLEAN, outcome \in {"ok", "ignore", "cancel"} : Sync(fast, outcome)
  <2>1. PICK done \in BOOLEAN : /\ Fsync(done) /\ io' \in {"idle", "flush"}
                                /\ UNCHANGED <<whole, part, pdirty, todo>>
    <3>1. PICK fast \in BOOLEAN, outcome \in {"ok", "ignore", "cancel"} : Sync(fast, outcome)
      BY <1>12
    <3>2. /\ Fsync(outcome = "ok") /\ io' \in {"idle", "flush"}
          /\ UNCHANGED <<whole, part, pdirty, todo>>
      BY <3>1 DEF Sync
    <3>3. QED
      BY <3>2
  <2>2. QED
    BY <2>1, FsyncCache
<1>13. CASE \E s \in Sectors : Read(s) \/ KernelWritesBack(s) \/ OtherReads(s)
  BY <1>13, ReadCache, KernelCache, OtherReadsCache
<1>14. CASE \E n \in 1 .. Cardinality(Sectors), v \in Contents : WriteSome(n, v)
  BY <1>14, WriteSomeCache
<1>15. CASE \E s \in InPart, v \in Contents : OtherWrites(s, v)
  BY <1>15, OtherWritesCache
<1>16. CASE UNCHANGED dev_vars
  BY <1>2, <1>16 DEF dev_vars
<1>17. QED
  BY <1>3, <1>4, <1>5, <1>6, <1>7, <1>8, <1>9, <1>10, <1>11, <1>12, <1>13, <1>14, <1>15, <1>16,
     FlushWholeCache, FlushPartCache, MountCache DEF DevNext

(* The step that ends _flush_cache, and the one that ends a close. *)
Flushed ==
    io = "flush part" /\ io' = "idle" /\ ~mounted =>
      \A s \in Sectors :
        /\ mine'[s] \in {Absent, medium'[s]}
        /\ whole'[s] \in {Absent, medium'[s]}
        /\ s \in InPart => part'[s] \in {Absent, medium'[s]}

ClosedWell ==
    io = "close" /\ io' = "idle" => \A s \in Sectors : mine'[s] \in {Absent, medium'[s]}

(* Only two actions leave those stages. *)
LEMMA Leaving ==
    ASSUME [DevNext]_dev_vars, io \in {"flush part", "close"}, io' = "idle"
    PROVE  FlushPart \/ \E c \in BOOLEAN : CloseFd(c)
<1> USE DEF Ready, call
<1>1. io' # io
  OBVIOUS
<1>2. ~ \E s \in Sectors : Read(s) \/ KernelWritesBack(s) \/ OtherReads(s)
  BY <1>1 DEF Read, KernelWritesBack, OtherReads
<1>3. ~ \E s \in InPart, v \in Contents : OtherWrites(s, v)
  BY <1>1 DEF OtherWrites
<1>4. ~ Mount /\ ~ UNCHANGED dev_vars
  BY <1>1 DEF Mount, dev_vars
<1>5. ~ \E n \in Candidates, size \in SectorSizes,
           known, opened, ssz, by64, by32, closed \in BOOLEAN :
          New(n, size, known, opened, ssz, by64, by32, closed \/ leaks = MaxLeaks)

  <2>1. ASSUME NEW n, NEW size, NEW known, NEW opened, NEW ssz, NEW by64, NEW by32, NEW closed,
               New(n, size, known, opened, ssz, by64, by32, closed)
        PROVE  io = "idle"
    BY <2>1, Zenon DEF New
  <2>2. QED
    BY <2>1
<1>6. ~ \E how \in {"rw", "ro", "no"} : LinuxOpen(how)
  BY DEF LinuxOpen
<1>7. /\ ~ RefreshOpen /\ ~ FlushWhole /\ ~ RefreshClose /\ ~ LinuxClose /\ ~ LinuxDestroy
      /\ ~ WriteStops
  BY DEF RefreshOpen, FlushWhole, RefreshClose, LinuxClose, LinuxDestroy, WriteStops
<1>8. ~ \E secs \in SUBSET Sectors \ {{}} : LinuxWrite(secs)
  BY DEF LinuxWrite
<1>9. ~ \E n \in 1 .. Cardinality(Sectors), v \in Contents : WriteSome(n, v)
  BY DEF WriteSome
<1>10. ~ \E fast \in BOOLEAN, outcome \in {"ok", "ignore", "cancel"} : Sync(fast, outcome)
  BY DEF Sync
<1>11. FlushPart \/ \E synced \in BOOLEAN : CloseFd(synced \/ leaks = MaxLeaks)
  BY <1>2, <1>3, <1>4, <1>5, <1>6, <1>7, <1>8, <1>9, <1>10 DEF DevNext
<1>12. QED
  BY <1>11

(* When the partition is flushed the device has no page left.              *)
LEMMA FlushedStep == ASSUME CacheInv, [DevNext]_dev_vars PROVE Flushed
<1> SUFFICES ASSUME io = "flush part", io' = "idle", ~mounted
             PROVE  \A s \in Sectors :
                      /\ mine'[s] \in {Absent, medium'[s]}
                      /\ whole'[s] \in {Absent, medium'[s]}
                      /\ s \in InPart => part'[s] \in {Absent, medium'[s]}
  BY DEF Flushed
<1>1. FlushPart
  BY Leaving DEF CloseFd
<1>2. /\ medium' = WriteBack(part, pdirty) /\ whole' = whole
      /\ part' = [s \in InPart |-> Absent]
      /\ mine' = [s \in Sectors |-> IF s \in pdirty THEN Absent ELSE mine[s]]
  BY <1>1 DEF FlushPart, _partition_is_mounted_by_path
<1>3. \A s \in Sectors : medium'[s] = IF s \in pdirty THEN part[s] ELSE medium[s]
  BY <1>2, PartBack
<1>4. whole = None /\ wdirty = {} /\ \A s \in Sectors : Held(s)
  BY DEF CacheInv
<1>5. \A s \in Sectors : mine[s] \in {Absent, medium[s]}
  BY <1>4 DEF Held
<1>6. QED
  BY <1>2, <1>3, <1>4, <1>5, NoneIs

(* A close that ends without an error has synced.                          *)
LEMMA ClosedStep == ASSUME CacheInv, [DevNext]_dev_vars PROVE ClosedWell
<1> SUFFICES ASSUME io = "close", io' = "idle"
             PROVE  \A s \in Sectors : mine'[s] \in {Absent, medium'[s]}
  BY DEF ClosedWell
<1>1. PICK c \in BOOLEAN : CloseFd(c)
  BY Leaving DEF FlushPart
<1>2. Fsync(c) /\ io' = "idle" /\ UNCHANGED <<whole, part, pdirty, todo>>
  BY <1>1 DEF CloseFd
<1>3. QED
  BY <1>2, FsyncCache

(* After _flush_cache the program and everybody else read the same sectors, *)
(* and a close that reports no error leaves what was written on the medium. *)
THEOREM CachesCoherent == DevSpec => FlushCoherent
<1>1. DevInit => CacheInv
  BY DevicesAssumption, NoneIs DEF DevInit, CacheInv, Held, Page
<1>2. CacheInv /\ [DevNext]_dev_vars => CacheInv'
  BY NextCache
<1>3. CacheInv /\ [DevNext]_dev_vars => [Flushed /\ ClosedWell]_dev_vars
  BY FlushedStep, ClosedStep
<1>4. QED
  BY <1>1, <1>2, <1>3, PTL DEF DevSpec, FlushCoherent, Flushed, ClosedWell
=============================================================================
