----------------------------- MODULE LabelDisk -----------------------------
(***************************************************************************)
(* A session with the labels other than msdos and gpt: what disk.c does    *)
(* with them and with the medium.  The session makes a label, edits it,    *)
(* commits it and reads it again, and finds what other systems left there. *)
(***************************************************************************)
EXTENDS SunLabel, BsdLabel, DvhLabel, MacLabel, Pc98Label, AmigaLabel

CONSTANTS
    Labels,         \* the labels the user makes
    Wishes,         \* the regions the user asks for
    FsTypes,        \* the file systems of new partitions
    Probed,         \* the file systems that reading finds in partitions
    Names,          \* the names the user gives
    Media,          \* what may be on the medium at first
    MaxParts,       \* bound: active partitions
    MaxEdits        \* bound: changes the user makes in a session

ASSUME LabelDiskAssumption ==
    Labels \subseteq {"sun", "bsd", "dvh", "mac", "pc98", "amiga"} /\ MaxParts \in Nat /\ MaxEdits \in Nat

VARIABLES
    d,      \* the PedDisk, NoDisk when none is open
    dev,    \* the medium
    clean,  \* d is what the last commit wrote or the last read found
    told,   \* the user overrode a warning since the label was made
    edits   \* changes made so far

vars == <<d, dev, clean, told, edits>>

---------------------------------------------------------------------------
(* disk->type->ops *)

OpsHasExtended(disk) == disk.lab = "dvh"
HasNames(disk) == disk.lab \in {"dvh", "mac", "pc98", "amiga"}

OpsMaxPrimary(disk) ==
    CASE disk.lab = "sun" -> SunSlots
      [] disk.lab = "bsd" -> BsdSlots
      [] disk.lab = "dvh" -> DvhSlots
      [] disk.lab = "mac" -> mac_get_max_primary_partition_count(disk)
      [] disk.lab = "pc98" -> Pc98Slots
      [] disk.lab = "amiga" -> AmigaMax

OpsEnumerate(disk, p, ignore) ==
    CASE disk.lab = "sun" -> sun_partition_enumerate(disk, p, ignore)
      [] disk.lab = "bsd" -> bsd_partition_enumerate(disk, p)
      [] disk.lab = "dvh" -> dvh_partition_enumerate(disk, p)
      [] disk.lab = "mac" -> mac_partition_enumerate(disk, p)
      [] disk.lab = "pc98" -> pc98_partition_enumerate(disk, p)
      [] disk.lab = "amiga" -> amiga_partition_enumerate(disk, p)

OpsConstraints(disk, p) ==
    CASE disk.lab = "sun" -> sun_partition_align(disk, p)
      [] disk.lab = "bsd" -> bsd_partition_align
      [] disk.lab = "dvh" -> dvh_partition_align(p)
      [] disk.lab = "mac" -> mac_partition_align
      [] disk.lab = "pc98" -> pc98_partition_align
      [] disk.lab = "amiga" -> amiga_partition_align

OpsAlign(disk, p, c) == ped_partition_attempt_align(p, c, OpsConstraints(disk, p))

OpsMetadata(disk) ==
    CASE disk.lab = "sun" -> sun_alloc_metadata(disk)
      [] disk.lab = "bsd" -> bsd_alloc_metadata(disk)
      [] disk.lab = "dvh" -> dvh_alloc_metadata(disk)
      [] disk.lab = "mac" -> mac_alloc_metadata(disk)
      [] disk.lab = "pc98" -> pc98_alloc_metadata(disk)
      [] disk.lab = "amiga" -> amiga_alloc_metadata(disk)
      [] OTHER -> Okay(disk)

OpsAlloc(lab, bios) ==
    CASE lab = "sun" -> sun_alloc(bios)
      [] lab = "bsd" -> bsd_alloc(bios)
      [] lab = "dvh" -> dvh_alloc(bios)
      [] lab = "mac" -> mac_alloc(bios)
      [] lab = "pc98" -> pc98_alloc(bios)
      [] lab = "amiga" -> amiga_alloc(bios)

OpsRead(disk, medium, fs, ignore) ==
    CASE disk.lab = "sun" -> sun_read(disk, medium, fs, ignore)
      [] disk.lab = "bsd" -> bsd_read(disk, medium, fs, ignore)
      [] disk.lab = "dvh" -> dvh_read(disk, medium, fs, ignore)
      [] disk.lab = "mac" -> mac_read(disk, medium, fs, ignore)
      [] disk.lab = "pc98" -> pc98_read(disk, medium, fs, ignore)
      [] disk.lab = "amiga" -> amiga_read(disk, medium, fs, ignore)

OpsWrite(disk, medium, fix) ==
    CASE disk.lab = "sun" -> sun_write(disk, medium)
      [] disk.lab = "bsd" -> bsd_write(disk, medium)
      [] disk.lab = "dvh" -> dvh_write(disk, medium)
      [] disk.lab = "mac" -> mac_write(disk, medium, fix)
      [] disk.lab = "pc98" -> pc98_write(disk, medium)
      [] disk.lab = "amiga" -> amiga_write(disk, medium, fix)

ped_partition_new(disk, type, g) ==
    CASE disk.lab = "sun" -> sun_partition_new(type, g)
      [] disk.lab = "bsd" -> bsd_partition_new(type, g)
      [] disk.lab = "dvh" -> dvh_partition_new(type, g)
      [] disk.lab = "mac" -> mac_partition_new(type, g)
      [] disk.lab = "pc98" -> pc98_partition_new(type, g)
      [] disk.lab = "amiga" -> amiga_partition_new(type, g)

ped_partition_set_system(disk, p, fs) ==
    CASE disk.lab = "sun" -> sun_partition_set_system(p, fs)
      [] disk.lab = "bsd" -> bsd_partition_set_system(p, fs)
      [] disk.lab = "dvh" -> dvh_partition_set_system(p, fs)
      [] disk.lab = "mac" -> mac_partition_set_system(p, fs)
      [] disk.lab = "pc98" -> pc98_partition_set_system(p, fs)
      [] disk.lab = "amiga" -> amiga_partition_set_system(p, fs)

ped_partition_is_flag_available(disk, flag) ==
    CASE disk.lab = "sun" -> sun_flag_available(flag)
      [] disk.lab = "bsd" -> bsd_flag_available(flag)
      [] disk.lab = "dvh" -> dvh_flag_available(flag)
      [] disk.lab = "mac" -> mac_flag_available(flag)
      [] disk.lab = "pc98" -> pc98_flag_available(flag)
      [] disk.lab = "amiga" -> amiga_flag_available(flag)

OpsSetFlag(disk, p, flag, state) ==
    CASE disk.lab = "sun" -> Okay(Replace(disk, p, sun_partition_set_flag(p, flag, state)))
      [] disk.lab = "bsd" -> Okay(Replace(disk, p, bsd_partition_set_flag(p, flag, state)))
      [] disk.lab = "dvh" -> dvh_partition_set_flag(disk, p, flag, state)
      [] disk.lab = "mac" -> Okay(Replace(disk, p, mac_partition_set_flag(p, flag, state)))
      [] disk.lab = "pc98" -> Okay(Replace(disk, p, pc98_partition_set_flag(p, flag, state)))
      [] disk.lab = "amiga" -> Okay(Replace(disk, p, amiga_partition_set_flag(p, flag, state)))

ped_partition_get_flag(disk, p, flag) ==
    IF disk.lab = "dvh" THEN flag \in DvhFlags /\ dvh_partition_get_flag(disk, p, flag)
    ELSE flag \in p.flags

ped_partition_set_name(disk, p, name, ignore) ==
    CASE disk.lab = "dvh" -> dvh_partition_set_name(p, name)
      [] disk.lab = "mac" -> mac_partition_set_name(p, name, ignore)
      [] disk.lab \in {"pc98", "amiga"} -> [p EXCEPT !.name = name]

---------------------------------------------------------------------------
(* disk.c *)

(* The registered types, in the order they are probed; msdos is not here.  *)
(* amiga, which this build does not register, as if registered last.       *)
ProbeOrder == <<"amiga", "bsd", "dvh", "gpt", "mac", "pc98", "sun">>

gpt_probe(medium) == medium[1].tag = "gpt"

Recognised(medium, lab) ==
    CASE lab = "bsd" -> bsd_probe(medium)
      [] lab = "dvh" -> dvh_probe(medium)
      [] lab = "gpt" -> gpt_probe(medium)
      [] lab = "mac" -> mac_probe(medium)
      [] lab = "pc98" -> pc98_probe(medium)
      [] lab = "amiga" -> amiga_probe(medium)
      [] lab = "sun" -> sun_probe(medium)

ped_disk_probe(medium) ==
    LET found == SelectSeq(ProbeOrder, LAMBDA lab : Recognised(medium, lab))
    IN  IF found = <<>> THEN "none" ELSE found[1]

NewFresh(a) ==
    IF a.ok THEN Okay([disk_pop_update_mode(a.d) EXCEPT !.clobber = TRUE]) ELSE Fail(NoDisk)

ped_disk_new_fresh(lab, bios) == NewFresh(OpsAlloc(lab, bios))

(* Mutant: only the first and the last sectors are cleared. *)
Mut_ped_disk_clobber(medium) ==
    [s \in DOMAIN medium |-> IF s \in {0, DevLength - 1} THEN Zero ELSE medium[s]]

(* Both ends are cleared, except the protective MBR of a GPT. *)
ped_disk_clobber(medium) ==
    LET first == IF gpt_probe(medium) THEN 1 ELSE 0
        tail  == DevLength - (IF ClobberSpan < DevLength THEN ClobberSpan ELSE 1)
    IN  [s \in DOMAIN medium |->
            IF s >= first /\ (s < first + ClobberSpan \/ s >= tail) THEN Zero ELSE medium[s]]

(* needs_clobber is reset before the label is written. *)
ped_disk_commit_to_dev(disk, medium, fix) ==
    IF disk.clobber
    THEN OpsWrite([disk EXCEPT !.clobber = FALSE], ped_disk_clobber(medium), fix)
    ELSE OpsWrite(disk, medium, fix)

(* What the read itself wrote back, once it has succeeded. *)
WriteBack(r, medium) ==
    IF r.ok /\ r.d.lab = "mac" /\ MacWritesBack(medium)
    THEN ped_disk_commit_to_dev(r.d, medium, TRUE)
    ELSE IF r.ok /\ r.d.lab = "dvh" /\ DvhWritesBack(medium) THEN dvh_write(r.d, medium)
    ELSE [d |-> r.d, dev |-> medium, ok |-> r.ok]

ReadFresh(f, medium, fs, ignore) ==
    IF f.ok THEN OpsRead(f.d, medium, fs, ignore) ELSE f

(* ped_disk_new; a label that cannot be read is not kept in memory, but    *)
(* the geometry it changed is.                                             *)
ped_disk_new(bios, medium, fs, ignore) ==
    LET lab == ped_disk_probe(medium)
    IN  IF lab \in {"none", "gpt"} THEN Fail(NoDisk)
        ELSE ReadFresh(ped_disk_new_fresh(lab, bios), medium, fs, ignore)

KeepIfRead(w) ==
    [w EXCEPT !.d = IF w.ok THEN [@ EXCEPT !.clobber = FALSE]
                    ELSE [NoDisk EXCEPT !.bios = w.d.bios]]

(* Mutant: the copy keeps the map that came with the fresh label. *)
Mut_mac_duplicate(fresh, disk) == [fresh EXCEPT !.spec = disk.spec]

(* The map of the fresh label makes room for the copy of the old one. *)
mac_duplicate(fresh, disk) ==
    [ped_disk_remove_partition(fresh,
        CHOOSE p \in AllParts(fresh) : p.start <= 1 /\ 1 <= p.end) EXCEPT !.spec = disk.spec]

(* What the label's duplicate makes of a fresh label.  dvh assigns neither *)
(* root, swap nor boot, junk, and keeps the fresh volume header.           *)
OpsDuplicate(fresh, disk, junk) ==
    CASE disk.lab = "mac" -> mac_duplicate(fresh, disk)
      [] disk.lab = "dvh" -> [fresh EXCEPT !.spec = junk]
      [] OTHER -> [fresh EXCEPT !.spec = disk.spec]

(* The label's partition_duplicate.  amiga makes a new partition and never *)
(* gives it the number of the old one.                                     *)
partition_duplicate(disk, p) == IF disk.lab = "amiga" THEN Numbered(p, NoNum) ELSE p

(* Every active partition is put into the copy without a check, and        *)
(* without being enumerated.                                               *)
CopyParts(copy, disk) ==
    [disk_pop_update_mode(FoldLeft(
        LAMBDA c, p : disk_raw_add(c, partition_duplicate(c, p)),
        disk_push_update_mode(copy),
        SelectSeq(disk.prim, IsActive) \o SelectSeq(disk.logi, IsActive)))
     EXCEPT !.clobber = disk.clobber]

ped_disk_duplicate(disk, junk) ==
    CopyParts(OpsDuplicate(ped_disk_new_fresh(disk.lab, disk.bios).d, disk, junk), disk)

---------------------------------------------------------------------------
(* The session. *)

Init ==
    /\ dev \in Media
    /\ d = NoDisk
    /\ clean = FALSE
    /\ told = FALSE
    /\ edits = 0

Open == d.lab # "none"

Counted ==
    /\ edits < MaxEdits
    /\ edits' = edits + 1

Edit(disk) ==
    /\ Counted
    /\ d' = disk
    /\ clean' = (clean /\ disk = d)
    /\ UNCHANGED dev

(* mklabel commits the new label at once. *)
Adopt(w) ==
    \E r \in {w} : d' = r.d /\ dev' = r.dev /\ clean' = r.ok

CommitFresh(f) ==
    IF f.ok THEN ped_disk_commit_to_dev(f.d, dev, FALSE)
    ELSE [d |-> d, dev |-> dev, ok |-> clean]

Mklabel ==
    \E lab \in Labels :
        /\ Adopt(CommitFresh(ped_disk_new_fresh(lab, d.bios)))
        /\ told' = FALSE
        /\ Counted

(* do_mkpart: a partition, its file system type, its place. *)
Add ==
    \E g \in Wishes, fs \in FsTypes, ignore \in BOOLEAN,
       type \in {"normal", "logical"} :
        /\ Open /\ Cardinality(Active(d)) < MaxParts
        /\ type = "logical" => OpsHasExtended(d)
        /\ LET p == ped_partition_set_system(d, ped_partition_new(d, type, g), fs)
               r == ped_disk_add_partition(d, p, ped_constraint_any, ignore)
           IN  Edit(r.d)
        /\ told' = (told \/ ignore)

Delete ==
    \E p \in Active(d) :
        /\ Edit(ped_disk_delete_partition(d, p))
        /\ UNCHANGED told

SetFlag ==
    \E p \in Active(d), flag \in Flags, state \in BOOLEAN :
        /\ ped_partition_is_flag_available(d, flag)
        /\ Edit(OpsSetFlag(d, p, flag, state).d)
        /\ UNCHANGED told

SetName ==
    \E p \in Active(d), name \in Names, ignore \in BOOLEAN :
        /\ HasNames(d)
        /\ Edit(Replace(d, p, ped_partition_set_name(d, p, name, ignore)))
        /\ UNCHANGED told

Commit ==
    \E fix \in BOOLEAN :
        /\ Open
        /\ Adopt(ped_disk_commit_to_dev(d, dev, fix))
        /\ UNCHANGED <<told, edits>>

(* The label is read again, by this program or after a restart; checksums  *)
(* of an Amiga label may be put right as it is read.                       *)
Reopen ==
    \E fs \in Probed, ignore \in BOOLEAN, medium \in {dev, AmigaRepaired(dev)} :
        /\ Adopt(KeepIfRead(WriteBack(ped_disk_new(d.bios, medium, fs, ignore), medium)))
        /\ told' = (told \/ ignore)
        /\ UNCHANGED edits

(* Another program installs a boot loader. *)
InstallBoot ==
    /\ dev[0].tag = "bsd" /\ ~ dev[0].boot
    /\ dev' = [dev EXCEPT ![0].boot = TRUE]
    /\ UNCHANGED <<d, clean, told, edits>>

(* The partitions that are the label itself, or hold it. *)
Own(disk, p) ==
    CASE disk.lab = "dvh" -> p.type = "extended"
      [] disk.lab = "mac" -> p.num = disk.spec.mapnum
      [] OTHER -> FALSE

(* The partitions of a committed table are put to use. *)
UseParts ==
    /\ clean /\ Open
    /\ dev' = [s \in DOMAIN dev |->
                  IF s # 0 /\ \E p \in Active(d) : ~ Own(d, p) /\ s \in p.start .. p.end
                  THEN Data ELSE dev[s]]
    /\ UNCHANGED <<d, clean, told, edits>>

Next ==
    \/ Mklabel
    \/ Add
    \/ Delete
    \/ SetFlag
    \/ SetName
    \/ Commit
    \/ Reopen
    \/ InstallBoot
    \/ UseParts

Spec == Init /\ [][Next]_vars
---------------------------------------------------------------------------
(* Properties. *)

(* A label that was committed is the label that is found, whatever was on  *)
(* the medium before: ped_disk_clobber and the write leave no signature    *)
(* that is probed earlier.                                                 *)
ProbeFindsLabel == (clean /\ Open) => ped_disk_probe(dev) = d.lab

(* The map has an entry for every partition and every free region. *)
MapHoldsAll == d.lab = "mac" => d.spec.last <= d.spec.count

StoredFlags(disk, p) ==
    IF disk.lab = "bsd" THEN {} ELSE {f \in Flags : ped_partition_get_flag(disk, p, f)}

Stored(disk) ==
    {[type |-> p.type, start |-> p.start, end |-> p.end, num |-> p.num, id |-> p.id,
      name |-> p.name, flags |-> StoredFlags(disk, p)] : p \in Active(disk)}

ReadsAs(r) == r.ok /\ Stored(r.d) = Stored(d)

(* What a label has a place for.  A dvh boot file keeps the length it was  *)
(* created with, and is taken for the one to boot if it has its name, ""   *)
(* when there is none; mac has one type per partition and pc98 gives the   *)
(* nameless the name of their file system.  amiga numbers partitions by    *)
(* their order, and reads one less than it writes.                         *)
Storable(disk) ==
  /\ disk.lab = "dvh" => ped_disk_extended_partition(disk) # NULL
  /\ \A p \in Active(disk) :
        CASE disk.lab = "dvh" ->
               p.type = "logical" =>
                   /\ p.size = Length(p) /\ p.name # ""
                   /\ \A q \in Active(disk) : q.name = p.name => q = p
          [] disk.lab = "mac" ->
               MapHoldsAll /\ p.flags = rawpart_flags(RawReal(disk, p))
                           /\ (p.num = disk.spec.mapnum) = (p.id = MapType)
          [] disk.lab = "pc98" -> p.name # "" \/ p.fs = "none"
          [] disk.lab = "amiga" ->
               /\ Cardinality(Active(disk)) < AmigaMax
               /\ p.num = Cardinality({q \in Active(disk) : q.start <= p.start})
          [] OTHER -> TRUE

(* What was committed and can be stored reads back as it was: the          *)
(* partitions, their numbers, types, names and flags.                      *)
RoundTrip ==
    (clean /\ Open /\ ~ told /\ Storable(d)) =>
        ReadsAs(ped_disk_new(d.bios, dev, "none", FALSE))

(* An Amiga disk without the numbers of its partitions. *)
Unnumbered(disk) ==
    IF disk.lab # "amiga" THEN disk
    ELSE [disk EXCEPT !.prim = [i \in DOMAIN @ |->
            IF IsActive(@[i]) THEN Numbered(@[i], NoNum) ELSE @[i]]]

(* The copy of a label other than dvh is the same in every respect, the     *)
(* regions of free space and metadata and the state of the map included,    *)
(* but for the numbers of an Amiga label, which amiga_partition_duplicate   *)
(* leaves out.  (dvh_duplicate leaves root, swap and boot as malloc         *)
(* returned them.)                                                          *)
CopyFaithful ==
    (Open /\ d.lab # "dvh" /\ ~ told)
        => Unnumbered(ped_disk_duplicate(d, d.spec)) = Unnumbered(d)

InTable(p) == d.lab = "mac" => p.num <= d.spec.count

(* Editing never changes the number of another partition, as long as the   *)
(* user was not made to accept partitions that overlap.                    *)
NumbersKept ==
    clean' \/ told' \/ \A p \in Active(d), q \in Active(d)' :
        (InTable(p) /\ p.start = q.start /\ p.end = q.end /\ p.type = q.type)
            => p.num = q.num

(* A partition that takes the number of one that was deleted does not      *)
(* become the root, swap or boot partition that the other one was.         *)
NoInheritedFlag ==
    (d.lab = "dvh" /\ edits' # edits /\ d'.lab = "dvh") =>
        \A n \in Taken(d') \ Taken(d) : \A f \in DvhFlags : d'.spec[f] # n

(* What a number stands for is never changed by editing other partitions:  *)
(* neither the partition nor the role that a label keeps under its number. *)
NumbersStable == [][NumbersKept /\ NoInheritedFlag]_vars

(* Nothing but a Sun label, which shares the first sector of the first     *)
(* cylinder, is ever written into a partition, by a commit or by a read.   *)
DataKept ==
    dev' = dev \/ told' \/ \A p \in {q \in Active(d') : ~ Own(d', q)} :
        \A s \in p.start .. p.end :
            dev[s] = Data => (dev'[s] = Data \/ (s = 0 /\ d'.lab = "sun"))

(* Boot code that another program put beside a BSD label outlives every    *)
(* commit, even of a label that was read before it was there.              *)
BootCodeKept ==
    (d.lab = "bsd" /\ dev[0].tag = "bsd" /\ dev[0].boot
     /\ d'.lab = "bsd" /\ Active(d') # {}) => dev'[0].boot

(* A commit of an Amiga label leaves the blocks of the lists of bad blocks, *)
(* file systems and boot blocks alone, as long as there is one file system. *)
ForeignBlocksKept ==
    (d.lab = "amiga" /\ d'.lab = "amiga" /\ edits' = edits) =>
        \A s \in AmigaForeign(dev) : dev'[s].tag = dev[s].tag

(* No step writes over what is not the label's: the data in partitions,    *)
(* boot code, and blocks of other lists.                                   *)
OthersKept == [][DataKept /\ BootCodeKept /\ ForeignBlocksKept]_vars
=============================================================================
