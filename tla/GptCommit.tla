----------------------------- MODULE GptCommit -----------------------------
(***************************************************************************)
(* How labels/gpt.c keeps a partition table on a device: a protective MBR, *)
(* a header and an array of entries at the start, the same again at the    *)
(* end.  A commit is a sequence of writes that a power loss or an error of *)
(* the firmware may cut short; opening the device decides which of the two *)
(* copies to believe, and offers to repair what it finds.                  *)
(*                                                                         *)
(* A sector is written completely or not at all, and in the order of the   *)
(* calls.  The CRC of an array stands for the array: it is the table.      *)
(***************************************************************************)
EXTENDS Integers, Sequences, TLC

CONSTANTS
    NULL,
    Chunks,         \* what one sector of the array can hold
    Ptes,           \* sectors of the array (32 of 512 bytes)
    NClobber,       \* sectors that ped_disk_clobber clears (19 of 512 bytes)
    Len0, MaxLen    \* the device's length, and bound: how long it may become

ASSUME GptCommitAssumption ==
    /\ Ptes \in Nat \ {0}
    /\ NClobber \in 1 .. Ptes + 1   \* 9 KiB and a sector, 16 KiB and the header
    /\ Len0 \in Nat /\ MaxLen \in Nat /\ Len0 <= MaxLen
    /\ 4 + 2 * Ptes < Len0       \* gpt_alloc refuses a shorter device

VARIABLES
    dev,        \* sector -> what is stored there
    len,        \* dev->length
    mem,        \* the PedDisk of the running program, NULL when none
    wipe,       \* sectors that the running commit has yet to clear
    next,       \* its next write, an index of gpt_write; 0: none is running
    base        \* history: of the last commit, see Base

vars == <<dev, len, mem, wipe, next, base>>

Tables == [0 .. Ptes - 1 -> Chunks]
first == 2 + Ptes               \* FirstUsableLBA

Zero == [kind |-> "zero"]
Pmbr == [kind |-> "pmbr"]
Pte(c) == [kind |-> "pte", chunk |-> c]
Header(my, alt, ptes, last, table) ==
    [kind |-> "header", my |-> my, alt |-> alt, ptes |-> ptes, last |-> last,
     crc |-> table]

Sector ==
    {Zero, Pmbr} \cup [kind : {"pte"}, chunk : Chunks] \cup
    [kind : {"header"}, my : Int, alt : Int, ptes : Int, last : Int, crc : Tables]

MemDisk == [table : Tables, alt : Int, last : Int]

\* The null pointer is none of the things it is compared with.
ASSUME NullAssumption == NULL \notin Tables \cup Sector \cup MemDisk

---------------------------------------------------------------------------
(* Reading.                                                                *)

gpt_probe(dv) == dv[0] = Pmbr /\ dv[1].kind = "header"

check_PE_array_CRC(dv, h) ==
    \A i \in 0 .. Ptes - 1 : dv[h.ptes + i] = Pte(h.crc[i])

header_is_valid(dv, lba) ==
    /\ dv[lba].kind = "header"
    /\ dv[lba].my = lba
    /\ lba # 1 => dv[lba].alt = 1
    /\ dv[lba].alt # lba
    /\ check_PE_array_CRC(dv, dv[lba])
    /\ first <= dv[lba].last

Primary(dv) == header_is_valid(dv, 1)

(* gpt_read_headers: where the backup is looked for. *)
AlternateLBA(dv, ln) == IF Primary(dv) THEN dv[1].alt ELSE ln - 1

Backup(dv, ln) == header_is_valid(dv, AlternateLBA(dv, ln))

(* Mutant: a bad primary is an error. *)
Mut_Chosen(dv, ln) == IF gpt_probe(dv) /\ Primary(dv) THEN dv[1] ELSE NULL

(* The header that gpt_read believes, NULL when it gives up. *)
Chosen(dv, ln) ==
    CASE gpt_probe(dv) /\ Primary(dv) -> dv[1]
      [] gpt_probe(dv) /\ ~ Primary(dv) /\ Backup(dv, ln) -> dv[ln - 1]
      [] OTHER -> NULL

(* The table that opening the device would give. *)
Stored(dv, ln) == IF Chosen(dv, ln) = NULL THEN NULL ELSE Chosen(dv, ln).crc

(* Both copies are good, equal, and the backup is where it is looked for   *)
(* when the primary is not good.                                           *)
Redundant(dv, ln) ==
    /\ gpt_probe(dv) /\ Primary(dv) /\ Backup(dv, ln)
    /\ dv[1].alt = ln - 1
    /\ dv[ln - 1].crc = dv[1].crc

---------------------------------------------------------------------------
(* Writing.  The writes of gpt_write, sector by sector.                    *)

NWrites == 3 + 2 * Ptes

Put(at, what) == [at |-> at, what |-> what]

generate_header(m, alternate) ==
    IF alternate THEN Header(m.alt, 1, m.alt - Ptes, m.last, m.table)
                 ELSE Header(1, m.alt, 2, m.last, m.table)

(* Mutant: both headers first, then both arrays. *)
Mut_gpt_write(m) ==
    [k \in 1 .. NWrites |->
        CASE k = 1 -> Put(0, Pmbr)
          [] k = 2 -> Put(1, generate_header(m, FALSE))
          [] k = 3 -> Put(m.alt, generate_header(m, TRUE))
          [] k \in 4 .. 3 + Ptes -> Put(2 + k - 4, Pte(m.table[k - 4]))
          [] OTHER -> Put(m.alt - Ptes + k - (4 + Ptes), Pte(m.table[k - (4 + Ptes)]))]

gpt_write(m) ==
    [k \in 1 .. NWrites |->
        CASE k = 1 -> Put(0, Pmbr)
          [] k = 2 -> Put(1, generate_header(m, FALSE))
          [] k \in 3 .. 2 + Ptes -> Put(2 + k - 3, Pte(m.table[k - 3]))
          [] k = 3 + Ptes -> Put(m.alt, generate_header(m, TRUE))
          [] OTHER -> Put(m.alt - Ptes + k - (4 + Ptes), Pte(m.table[k - (4 + Ptes)]))]

(* The last write of the call of ped_device_write that write k belongs to. *)
CallEnd(k) ==
    CASE k \in 3 .. 2 + Ptes -> 2 + Ptes
      [] k > 3 + Ptes -> NWrites
      [] OTHER -> k

(* The sectors that ped_disk_clobber clears, from both ends; the           *)
(* protective MBR stays when there is a GPT.                               *)
ped_disk_clobber(dv, ln) ==
    LET from == IF gpt_probe(dv) THEN 1 ELSE 0
        n    == IF ln < from + NClobber THEN ln - from ELSE NClobber
        t    == ln - (IF NClobber < ln THEN NClobber ELSE 1)
        tail == IF t < from THEN from ELSE t
    IN  [i \in 1 .. n |-> from + i - 1] \o [i \in 1 .. ln - tail |-> tail + i - 1]

---------------------------------------------------------------------------

Idle == wipe = <<>> /\ next = 0

(* What is remembered of a commit: the table that a good primary held, the *)
(* one that is written, whether the device was redundant, the last sector  *)
(* that partitions could use until now (of a new label: can use), the      *)
(* number of faults and whether the commit was cut short.                  *)
Base(old, new, redundant, used) ==
    [old |-> old, new |-> new, sound |-> redundant, used |-> used,
     faults |-> 0, cut |-> FALSE]

(* Nothing is claimed after a second fault, or after the first one when    *)
(* the device was not redundant.                                           *)
Forgotten ==
    [old |-> NULL, new |-> NULL, sound |-> FALSE, used |-> 0, faults |-> 1, cut |-> TRUE]

(* A device of length Len0 with a GPT, made by this program or another:    *)
(* its backup need not be in the last sector.                              *)
Init ==
    \E t \in Tables, alt \in first + Ptes + 2 .. Len0 - 1, last \in first + 1 .. Len0 - 1 :
        LET m == [table |-> t, alt |-> alt, last |-> last]
        IN  /\ last < alt - Ptes
            /\ dev = [s \in 0 .. MaxLen - 1 |->
                        IF \E k \in 1 .. NWrites : gpt_write(m)[k].at = s
                        THEN gpt_write(m)[CHOOSE k \in 1 .. NWrites :
                                            gpt_write(m)[k].at = s].what
                        ELSE Zero]
            /\ len = Len0
            /\ mem = NULL
            /\ wipe = <<>> /\ next = 0
            /\ base = Base(NULL, t, FALSE, last)

LastUsable == len - 2 - Ptes    \* of a table that uses the whole device

(* Mutant: one sector too many. *)
Mut_parse_header(h, alt, fix) ==
    [table |-> h.crc,
     alt   |-> IF h.last < LastUsable /\ fix THEN len - 1 ELSE alt,
     last  |-> IF h.last < LastUsable /\ fix THEN LastUsable + 1 ELSE h.last]

(* _parse_header: the table in memory, grown to the device when the user   *)
(* says "Fix".                                                             *)
parse_header(h, alt, fix) ==
    [table |-> h.crc,
     alt   |-> IF h.last < LastUsable /\ fix THEN len - 1 ELSE alt,
     last  |-> IF h.last < LastUsable /\ fix THEN LastUsable ELSE h.last]

(* gpt_read, and the commit that writes a repair back.  The user is asked  *)
(* about a backup that is neither at the end of the device nor where the   *)
(* primary's idea of the end is, and about unused space.  Both answers     *)
(* "Fix" clear the backup header that is about to be replaced.  The disk   *)
(* is still marked needs_clobber while it is read, so the commit of the    *)
(* repair begins with ped_disk_clobber, like that of a new label: both     *)
(* headers are gone before gpt_write begins.                               *)
Read(fix_backup, fix_size) ==
    LET h     == Chosen(dev, len)
        alt   == AlternateLBA(dev, len)
        moved == /\ Primary(dev) /\ Backup(dev, len)
                 /\ alt # len - 1 /\ alt # h.last + 1 + Ptes
                 /\ fix_backup
        alt1  == IF moved THEN len - 1 ELSE alt
        grown == h.last < LastUsable /\ fix_size
    IN  /\ Idle /\ mem = NULL /\ h # NULL
        /\ first < h.last /\ h.last <= len /\ first < LastUsable
        /\ mem' = parse_header(h, alt1, fix_size)
        /\ wipe' = (IF moved THEN <<alt>> ELSE <<>>)
                   \o (IF grown THEN <<alt1>> ELSE <<>>)
                   \o (IF moved \/ grown THEN ped_disk_clobber(dev, len) ELSE <<>>)
        /\ next' = IF moved \/ grown THEN 1 ELSE 0
        /\ base' = IF moved \/ grown
                   THEN Base(IF Primary(dev) THEN h.crc ELSE NULL, h.crc, FALSE, h.last)
                   ELSE base
        /\ UNCHANGED <<dev, len>>

(* ped_disk_commit_to_dev of a table that was read or committed before,    *)
(* and changed to t: needs_clobber is 0.                                   *)
Commit(t) ==
    /\ Idle /\ mem # NULL
    /\ mem' = [mem EXCEPT !.table = t]
    /\ next' = 1
    /\ LET redundant == Redundant(dev, len)
       IN  base' = Base(IF redundant THEN Stored(dev, len) ELSE NULL, t, redundant, mem.last)
    /\ UNCHANGED <<dev, len, wipe>>

(* ped_disk_new_fresh (gpt_alloc) and ped_disk_commit_to_dev: the device   *)
(* is clobbered first.                                                     *)
CommitFresh(t) ==
    /\ Idle
    /\ mem' = [table |-> t, alt |-> len - 1, last |-> LastUsable]
    /\ wipe' = ped_disk_clobber(dev, len)
    /\ next' = 1
    /\ base' = Base(NULL, t, FALSE, LastUsable)
    /\ UNCHANGED <<dev, len>>

Clear ==                    \* one sector of ptt_clear_sectors
    /\ wipe # <<>>
    /\ dev' = [dev EXCEPT ![Head(wipe)] = Zero]
    /\ wipe' = Tail(wipe)
    /\ UNCHANGED <<len, mem, next, base>>

Advance(k) == next' = IF k = NWrites THEN 0 ELSE k + 1

Write ==
    /\ wipe = <<>> /\ next # 0
    /\ dev' = [dev EXCEPT ![gpt_write(mem)[next].at] = gpt_write(mem)[next].what]
    /\ Advance(next)
    /\ UNCHANGED <<len, mem, wipe, base>>

Fault(cut) ==
    base' = IF base.sound /\ base.faults = 0
            THEN [base EXCEPT !.faults = 1, !.cut = cut] ELSE Forgotten

(* WriteBlocks fails; uefi_write returns 1 all the same.  The sectors of   *)
(* the call from here on are not written, and the commit goes on.          *)
LoseWrite ==
    /\ wipe = <<>> /\ next # 0
    /\ Advance(CallEnd(next))
    /\ Fault(FALSE)
    /\ UNCHANGED <<dev, len, mem, wipe>>

PowerLoss ==
    /\ ~ Idle
    /\ mem' = NULL /\ wipe' = <<>> /\ next' = 0
    /\ Fault(TRUE)
    /\ UNCHANGED <<dev, len>>

Quit ==
    /\ Idle /\ mem # NULL
    /\ mem' = NULL
    /\ UNCHANGED <<dev, len, wipe, next, base>>

(* The volume is made longer while the program does not run.  A backup     *)
(* that was in the last sector no longer is.                               *)
Grow ==
    /\ mem = NULL /\ len < MaxLen
    /\ len' \in len + 1 .. MaxLen
    /\ base' = IF base.faults = 0 \/ Primary(dev) THEN base ELSE Forgotten
    /\ UNCHANGED <<dev, mem, wipe, next>>

Next ==
    \/ \E fix_backup, fix_size \in BOOLEAN : Read(fix_backup, fix_size)
    \/ \E t \in Tables : Commit(t) \/ CommitFresh(t)
    \/ Clear
    \/ Write
    \/ LoseWrite
    \/ PowerLoss
    \/ Quit
    \/ Grow

Spec == Init /\ [][Next]_vars

(* For TLC: nothing tells one content of a sector from another.            *)
Symm == Permutations(Chunks)

---------------------------------------------------------------------------

(* What a commit clears or writes is on the device, and so is the area     *)
(* that gpt_read and gpt_alloc let partitions use.                         *)
TypeOK ==
    /\ len \in Len0 .. MaxLen
    /\ next \in 0 .. NWrites
    /\ \A i \in DOMAIN wipe : wipe[i] \in 0 .. len - 1
    /\ mem = NULL => Idle
    /\ mem # NULL => /\ mem.table \in Tables
                     /\ mem.alt \in first .. len - 1 /\ mem.last \in first .. len - 1

(* Sound: the commit found both copies good and equal, was neither that of *)
(* a new label nor a repair, and met no fault, or one when it is over.     *)
Sound == base.sound /\ base.faults <= (IF Idle THEN 1 ELSE 0)

(* Whenever a commit to a redundant device is cut short, by a loss of      *)
(* power between two sectors or by one refused write, opening the device   *)
(* gives the table before the commit or the one after it, never nothing    *)
(* and never a mixture.  Nothing is said of the repair that gpt_read       *)
(* writes back, which clobbers both copies first: see RepairKeepsTable.    *)
CrashSafe == Sound => Stored(dev, len) \in {base.old, base.new}

(* A commit that met no fault, whatever the device held before, leaves its *)
(* table in both copies, and no later growth of the device hides it.       *)
CommitStores ==
    (Idle /\ base.faults = 0) =>
        /\ Stored(dev, len) = base.new
        /\ Backup(dev, len) /\ dev[dev[1].alt].crc = base.new

(* One refused write is survived even when it is not noticed: when the     *)
(* commit to a redundant device has gone through, the new table is read.   *)
LostWriteSurvived ==
    (Idle /\ Sound /\ ~ base.cut) => Stored(dev, len) = base.new

(* No write of a commit touches the sectors that partitions may use, and   *)
(* none is beyond the device.  What is cleared before, in both ends of the *)
(* device and where the old backup header was, is outside of what          *)
(* partitions could use until now; when the table grows, that header may   *)
(* be inside of what they can use from now on.                             *)
DataUntouched ==
    /\ mem # NULL => \A k \in 1 .. NWrites :
          /\ gpt_write(mem)[k].at \notin first .. mem.last
          /\ gpt_write(mem)[k].at < len
    /\ \A i \in DOMAIN wipe : wipe[i] \notin first .. base.used

(* What a user is promised of a commit, whatever cuts it short.            *)
CommitSafe == CrashSafe /\ CommitStores /\ LostWriteSurvived

(* The commit that is running or could be started clears and writes on the *)
(* device and outside of what partitions may use, also in a repair, with   *)
(* its clobber, and after a growth.                                        *)
WritesPlaced == TypeOK /\ DataUntouched

(* Opening the device is promised to give a definite table while nothing   *)
(* worse than one fault happened to a device that had both copies, and     *)
(* after every commit without faults.                                      *)
Promised == Sound \/ (Idle /\ base.faults = 0)

Store == INSTANCE TableStore WITH
    Unknown <- NULL,
    val     <- IF Promised THEN Stored(dev, len) ELSE NULL,
    target  <- IF Idle THEN NULL ELSE base.new,
    busy    <- ~ Idle,
    sound   <- base.sound,
    hurt    <- base.faults > 0

(* The two copies, the order of gpt_write and the choice of gpt_read make  *)
(* one register of the table: it changes in one step of a commit, to what  *)
(* is committed; a loss of power leaves it before or after that step; a    *)
(* refused write that nobody notices is made up for by the end of the      *)
(* commit; and a growing device hides it only after a cut commit.          *)
AtomicTable == Store!StoreSpec

(* gpt_read on two bad headers: "Both are corrupt."  Then no sector of the *)
(* device holds a good backup.                                             *)
BothAreCorrupt ==
    (mem = NULL /\ gpt_probe(dev) /\ Chosen(dev, len) = NULL)
        => \A s \in 2 .. len - 1 : ~ header_is_valid(dev, s)


=============================================================================
