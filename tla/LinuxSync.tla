----------------------------- MODULE LinuxSync -----------------------------
(***************************************************************************)
(* Telling the Linux kernel about a new partition table:                    *)
(* _disk_sync_part_table of libparted/arch/linux.c, called by               *)
(* linux_disk_commit after the label was written.                           *)
(*                                                                         *)
(* The kernel keeps its own table, kern, and other processes open and close *)
(* partitions while the program works.  Every ioctl is a step.  The kernel  *)
(* refuses to remove a partition in use, to add one that exists or that     *)
(* overlaps another, and to let one grow over another; the device mapper    *)
(* does not look for overlaps.                                              *)
(***************************************************************************)
EXTENDS Integers, FiniteSets

CONSTANTS
    Tables,       \* the tables a label may hold: functions from numbers to
                  \* records with start, len and ext, true of an extended one
    LabelMax,     \* ped_disk_get_max_supported_partition_count
    Range,        \* _device_get_partition_range, from ext_range
    MaxSleeps     \* how often a removal that met EBUSY is tried again (100)

\* Every label allows a partition; a kernel may allow none (Range is 0).
ASSUME SyncAssumption == LabelMax \in Nat \ {0} /\ Range \in Nat /\ MaxSleeps \in Nat

Larger(a, b) == IF a < b THEN b ELSE a
Smaller(a, b) == IF a < b THEN a ELSE b
lpn == Larger(LabelMax, Range)
lpn2 == Smaller(LabelMax, Range)

\* An extended partition is one of the four primary ones, and neither limit
\* is four: such a label allows 64, a kernel none or many more than four.
ASSUME TablesAssumption ==
    \A t \in Tables : \A n \in DOMAIN t :
        /\ t[n].start \in Nat /\ t[n].len \in Nat \ {0} /\ t[n].ext \in BOOLEAN
        /\ t[n].ext => n # lpn2

Nums == 1 .. lpn
Nothing == [start |-> -1, len |-> 0]

VARIABLES
    disk,      \* the table in memory, which is the one on the disk
    kern,      \* Nums -> what the kernel has, or Nothing
    in_use,    \* the partitions that another process has open
    backend,   \* "blkpg", or "dm" for a device mapper device
    sysfs,     \* whether /sys is there
    pc, i, sleeps, ok, err, shown,
    before     \* kern when the commit began

env == <<backend, sysfs>>
sync_vars == <<disk, kern, in_use, backend, sysfs, pc, i, sleeps, ok, err, shown, before>>

(***************************************************************************)
(* The kernel                                                              *)
(***************************************************************************)
Has(n) == kern[n] # Nothing

\* the partitions of the whole kernel table, with n put at e
Overlaps(n, e) ==
    /\ backend = "blkpg"
    /\ \E m \in Nums \ {n} : /\ Has(m)
                             /\ e.start < kern[m].start + kern[m].len
                             /\ kern[m].start < e.start + e.len

\* the extended partition is two sectors, or one when a logical one begins in
\* the second
BlkpgEntry(n) ==
    [start |-> disk[n].start,
     len |-> IF ~disk[n].ext THEN disk[n].len
             ELSE IF \E m \in DOMAIN disk : disk[m].start = disk[n].start + 1 THEN 1 ELSE 2]

DmEntry(n) == [start |-> disk[n].start, len |-> disk[n].len]

Entry(n) == IF backend = "dm" THEN DmEntry(n) ELSE BlkpgEntry(n)
(***************************************************************************)
(* The calls that change the kernel's table: the table they leave           *)
(***************************************************************************)
Put(n, e) == [kern EXCEPT ![n] = e]

_blkpg_add_partition(n) ==
    IF Has(n) \/ Overlaps(n, BlkpgEntry(n)) THEN kern ELSE Put(n, BlkpgEntry(n))

_blkpg_remove_partition(n) == IF n \in in_use THEN kern ELSE Put(n, Nothing)

_blkpg_resize_partition(n) ==
    IF Overlaps(n, BlkpgEntry(n)) THEN kern ELSE Put(n, BlkpgEntry(n))

\* the name is opened exclusively first, so that one in use is left alone
_dm_remove_partition(n) == IF n \in in_use THEN kern ELSE Put(n, Nothing)

\* a map that cannot be created, since there is one of that name, is removed
_dm_add_partition(n) ==
    IF Has(n) THEN _dm_remove_partition(n) ELSE Put(n, DmEntry(n))

\* reload and resume
_dm_resize_partition(n) == Put(n, DmEntry(n))

add_partition(n) == IF backend = "dm" THEN _dm_add_partition(n) ELSE _blkpg_add_partition(n)
remove_partition(n) == IF backend = "dm" THEN _dm_remove_partition(n) ELSE _blkpg_remove_partition(n)
resize_partition(n) == IF backend = "dm" THEN _dm_resize_partition(n) ELSE _blkpg_resize_partition(n)

\* Without sysfs an HDIO_GETGEO that succeeds is taken for a failure.
_kernel_get_partition_start_and_length(n) == Has(n) /\ sysfs

_dm_get_partition_start_and_length(n) == Has(n)

Known(n) ==
    IF backend = "dm" THEN _dm_get_partition_start_and_length(n)
    ELSE _kernel_get_partition_start_and_length(n)

InTable(n) == n \in DOMAIN disk
SameStart(n) == InTable(n) /\ Known(n) /\ kern[n].start = disk[n].start
Unchanged(n) == SameStart(n) /\ kern[n].len = disk[n].len
-----------------------------------------------------------------------------
SyncInit ==
    /\ disk \in Tables
    /\ backend \in {"blkpg", "dm"} /\ sysfs \in BOOLEAN
    /\ kern = [n \in Nums |-> IF InTable(n) THEN Entry(n) ELSE Nothing]
    /\ in_use = {}
    /\ pc = "idle" /\ i = 0 /\ sleeps = 0 /\ shown = FALSE
    /\ ok = [n \in Nums |-> FALSE] /\ err = [n \in Nums |-> ""]
    /\ before = kern

\* other processes: mount, udev, ...
Hold(n) ==
    /\ Has(n) /\ n \notin in_use
    /\ in_use' = in_use \cup {n}
    /\ UNCHANGED <<disk, kern, env, pc, i, sleeps, ok, err, shown, before>>

Release(n) ==
    /\ n \in in_use
    /\ in_use' = in_use \ {n}
    /\ UNCHANGED <<disk, kern, env, pc, i, sleeps, ok, err, shown, before>>

\* linux_disk_commit of a table that was edited; a block device
Commit(table) ==
    /\ pc = "idle"
    /\ disk' = table
    /\ pc' = "remove" /\ i' = 1 /\ sleeps' = MaxSleeps
    /\ ok' = [n \in Nums |-> FALSE] /\ err' = [n \in Nums |-> ""]
    /\ shown' = FALSE /\ before' = kern
    /\ UNCHANGED <<kern, in_use, env>>

NextRemoval ==
    /\ i' = IF i = lpn THEN 1 ELSE i + 1
    /\ pc' = IF i < lpn THEN pc ELSE IF lpn2 > 0 THEN "add" ELSE "report"
    /\ sleeps' = MaxSleeps

\* unchanged, or to be resized
Stays(n) == Unchanged(n) \/ (SameStart(n) /\ n < lpn2)

KeepOld ==
    /\ pc = "remove" /\ Stays(i)
    /\ ok' = [ok EXCEPT ![i] = TRUE]
    /\ NextRemoval
    /\ UNCHANGED <<disk, kern, in_use, env, err, shown, before>>

\* remove_partition: ENXIO when there is none, which is as good
RemoveOld ==
    /\ pc = "remove" /\ ~Stays(i) /\ i \notin in_use
    /\ kern' = remove_partition(i)
    /\ ok' = [ok EXCEPT ![i] = TRUE]
    /\ err' = [err EXCEPT ![i] = IF Has(i) THEN "" ELSE "ENXIO"]
    /\ NextRemoval
    /\ UNCHANGED <<disk, in_use, env, shown, before>>

\* mutant: the count is started again with each failure
Mut_BusyRetry ==
    /\ pc = "remove" /\ ~Stays(i) /\ i \in in_use
    /\ sleeps > 0
    /\ UNCHANGED sync_vars

\* EBUSY: sleep and try again, or go on to the next one
BusyRetry ==
    /\ pc = "remove" /\ ~Stays(i) /\ i \in in_use
    /\ sleeps > 0
    /\ sleeps' = sleeps - 1
    /\ err' = [err EXCEPT ![i] = "EBUSY"]
    /\ UNCHANGED <<disk, kern, in_use, env, pc, i, ok, shown, before>>

BusyGiveUp ==
    /\ pc = "remove" /\ ~Stays(i) /\ i \in in_use
    /\ sleeps = 0
    /\ err' = [err EXCEPT ![i] = "EBUSY"]
    /\ NextRemoval
    /\ UNCHANGED <<disk, kern, in_use, env, ok, shown, before>>

NextAddition ==
    /\ i' = i + 1
    /\ pc' = IF i >= lpn2 THEN "report" ELSE pc

Nothing2Add ==
    /\ pc = "add" /\ (~InTable(i) \/ Unchanged(i))
    /\ ok' = IF InTable(i) THEN [ok EXCEPT ![i] = TRUE] ELSE ok
    /\ NextAddition
    /\ UNCHANGED <<disk, kern, in_use, env, sleeps, err, shown, before>>

\* resize_partition; the kernel resizes a partition in use, too.  The answer
\* to the error is the user's: ignored, it counts as done; cancelled, the
\* partition is added, which fails since it is there.
Resize(ignore) ==
    /\ pc = "add" /\ SameStart(i) /\ ~Unchanged(i)
    /\ kern' = resize_partition(i)
    /\ IF kern'[i] = Entry(i)
       THEN ok' = [ok EXCEPT ![i] = TRUE] /\ UNCHANGED <<err, shown>>
       ELSE /\ shown' = TRUE
            /\ ok' = [ok EXCEPT ![i] = ignore]
            /\ err' = IF ignore THEN err ELSE [err EXCEPT ![i] = "EBUSY"]
    /\ NextAddition
    /\ UNCHANGED <<disk, in_use, env, sleeps, before>>

\* mutant: a partition that could not be added is not noted
Mut_Add ==
    /\ pc = "add" /\ InTable(i) /\ ~SameStart(i)
    /\ kern' = add_partition(i)
    /\ NextAddition
    /\ UNCHANGED <<disk, in_use, env, sleeps, ok, err, shown, before>>

\* add_partition
Add ==
    /\ pc = "add" /\ InTable(i) /\ ~SameStart(i)
    /\ kern' = add_partition(i)
    /\ IF ~Has(i) /\ kern' # kern THEN UNCHANGED <<ok, err>>
       ELSE /\ ok' = [ok EXCEPT ![i] = FALSE]
            /\ err' = [err EXCEPT ![i] = "EBUSY"]
    /\ NextAddition
    /\ UNCHANGED <<disk, in_use, env, sleeps, shown, before>>

BadParts == {n \in 1 .. lpn2 : ~ok[n] /\ err[n] # "ENXIO"}

\* the warning about the partitions that the kernel was not told of
Report ==
    /\ pc = "report"
    /\ shown' = (shown \/ BadParts # {})
    /\ pc' = "done"
    /\ UNCHANGED <<disk, kern, in_use, env, i, sleeps, ok, err, before>>

Return ==
    /\ pc = "done"
    /\ pc' = "idle"
    /\ UNCHANGED <<disk, kern, in_use, env, i, sleeps, ok, err, shown, before>>

Program ==
    \/ KeepOld \/ RemoveOld \/ BusyRetry \/ BusyGiveUp
    \/ Nothing2Add \/ Add \/ Report \/ Return
    \/ \E ignore \in BOOLEAN : Resize(ignore)

SyncNext ==
    \/ Program
    \/ \E table \in Tables : Commit(table)
    \/ \E n \in Nums : Hold(n) \/ Release(n)

\* the program runs on; other processes owe it nothing
SyncSpec == SyncInit /\ [][SyncNext]_sync_vars /\ WF_sync_vars(Program)
-----------------------------------------------------------------------------
Wanted(n) == IF InTable(n) THEN Entry(n) ELSE Nothing

\* What counts as known: an extended partition that takes the place of one of
\* the same extent is left at its full length.
KernelKnows(n) == IF InTable(n) THEN kern[n] \in {Entry(n), DmEntry(n)} ELSE ~Has(n)

\* A commit that ends without a word to the user has made the kernel's table
\* the one on the disk, up to the label's limit, whatever other processes
\* opened or closed meanwhile.
SilenceMeansKnown ==
    pc = "done" /\ ~shown => \A n \in 1 .. lpn2 : KernelKnows(n)

\* A partition that the commit does not change is there all the time, so that
\* nobody who holds or mounts it notices: it is never removed and put back.
\* (The sizes are read from sysfs; without it every partition is.)
UnchangedStays ==
    pc # "idle" /\ (backend = "dm" \/ sysfs) =>
      \A n \in 1 .. lpn2 : before[n] = Wanted(n) => kern[n] = before[n]

\* While the commit runs, and others come and go, the kernel's partitions follow
\* the table: none that stays is touched, and none is wrong in silence.
KernelInStep == SilenceMeansKnown /\ UnchangedStays

\* The commit ends although a partition may stay in use for ever: the
\* removals that meet EBUSY are bounded.
CommitEnds == (pc = "remove") ~> (pc = "idle")

=============================================================================
