----------------------------- MODULE DvhLabel -----------------------------
(* labels/dvh.c.  The label is sector 0, inside the volume header, which   *)
(* is the extended partition; the boot files in it are the logical ones.   *)
(* Which partition is root, swap or boot is kept as a number in the disk.  *)
EXTENDS LabelCommon

CONSTANTS
    DvhSlots,       \* NPARTAB
    DvhFiles,       \* NVDIR
    VolHdr,         \* PNUM_VOLHDR + 1, the number of the volume header
    Volume,         \* PNUM_VOLUME + 1, the number of the whole volume's entry
    VolHdrSize      \* PTYPE_VOLHDR_DFLTSZ

ASSUME DvhAssumption ==
    /\ VolHdr \in 1 .. DvhSlots /\ Volume \in 1 .. DvhSlots /\ VolHdr # Volume
    /\ DvhFiles \in Nat \ {0} /\ VolHdrSize \in 1 .. DevLength

DvhFlags == {"root", "swap", "boot"}

dvh_probe(dev) == dev[0].tag = "dvh"

dvh_partition_new(type, g) ==
    LabelPart(type, g, IF type = "extended" THEN "volhdr" ELSE "raw", "")

(* dvh_alloc and _handle_no_volume_header *)
AddVolumeHeader(disk) ==
    Outcome(ped_disk_add_partition(disk,
        Numbered(dvh_partition_new("extended", Geom(0, VolHdrSize)), VolHdr),
        ped_constraint_any, FALSE))

dvh_alloc(bios) ==
    AddVolumeHeader(BlankDisk("dvh", bios, [f \in DvhFlags |-> 0]))

flush_stale_flags(disk) ==
    [disk EXCEPT !.spec = [f \in DvhFlags |->
        IF ped_disk_get_partition(disk, disk.spec[f]) = NULL THEN 0 ELSE disk.spec[f]]]

(* root and swap are for primary partitions and boot is for boot files.    *)
(* Clearing one clears it for whichever partition has it.                  *)
dvh_partition_set_flag(disk, p, flag, state) ==
    IF state /\ p.type # (IF flag = "boot" THEN "logical" ELSE "normal")
    THEN Fail(disk)
    ELSE Okay([disk EXCEPT !.spec[flag] = IF state THEN p.num ELSE 0])

dvh_partition_get_flag(disk, p, flag) == disk.spec[flag] = p.num

dvh_flag_available(flag) == flag \in DvhFlags

Flagged(acc, p, flag, cond) ==
    IF acc.ok /\ cond THEN [acc EXCEPT !.d = dvh_partition_set_flag(@, p, flag, TRUE).d]
                      ELSE acc

(* _parse_partition: type 0 is the volume header. *)
DvhSlot(e, n) ==
    Numbered(LabelPart(IF e.id = "volhdr" THEN "extended" ELSE "normal",
                       Geom(e.start, e.len), e.id, ""), n)

(* _parse_boot_file *)
DvhFile(e, n) == Numbered(LabelPart("logical", Geom(e.start, e.len), "raw", e.name), n)

ReadSlots(acc0, vh, fs, ignore) ==
    LET add(acc, n) ==
            LET p == [DvhSlot(vh.slots[n], n) EXCEPT !.fs = fs]
            IN  IF vh.slots[n].len = 0 \/ vh.slots[n].id = "volume" THEN acc
                ELSE ReadPart(Flagged(Flagged(acc, p, "root", vh.root = n),
                                      p, "swap", vh.swap = n), p, ignore)
    IN  FoldLeft(add, acc0, [n \in 1 .. DvhSlots |-> n])

(* Any boot file that has the name of the one to boot becomes it. *)
ReadFiles(acc0, vh, fs, ignore) ==
    LET add(acc, n) ==
            LET p == [DvhFile(vh.files[n], DvhSlots + n) EXCEPT !.fs = fs]
            IN  IF vh.files[n].len = 0 THEN acc
                ELSE ReadPart(Flagged(acc, p, "boot", vh.bootfile = p.name), p, ignore)
    IN  FoldLeft(add, acc0, [n \in 1 .. DvhFiles |-> n])

(* A volume header that is missing is made, if the user agrees, and        *)
(* written back.                                                           *)
OrAddHeader(acc, ignore) ==
    IF ~ acc.ok \/ ped_disk_extended_partition(acc.d) # NULL THEN acc
    ELSE IF ignore THEN AddVolumeHeader(acc.d) ELSE Fail(acc.d)

dvh_read(disk, dev, fs, ignore) ==
    LET slots == ReadSlots(Okay(ped_disk_delete_all(disk)), dev[0], fs, ignore)
    IN  IF ~ dev[0].sum /\ ~ ignore THEN Fail(disk)
        ELSE ReadFiles(OrAddHeader(slots, ignore), dev[0], fs, ignore)

DvhWritesBack(dev) ==
    \A n \in 1 .. DvhSlots : dev[0].slots[n].id # "volhdr" \/ dev[0].slots[n].len = 0

DvhEntry(disk, n) ==
    LET p == ped_disk_get_partition(disk, n)
    IN  CASE n = Volume -> [id |-> "volume", start |-> 0, len |-> DevLength]
          [] n # Volume /\ p # NULL -> [id |-> p.id, start |-> p.start, len |-> Length(p)]
          [] OTHER -> [id |-> "volhdr", start |-> 0, len |-> 0]

(* The length of a boot file is the one it was made with. *)
DvhFileEntry(disk, n) ==
    LET p == ped_disk_get_partition(disk, n)
    IN  IF p = NULL THEN [name |-> "", start |-> 0, len |-> 0]
        ELSE [name |-> p.name, start |-> p.start, len |-> p.size]

VolumeHeader(disk) ==
    [tag |-> "dvh", sum |-> TRUE, root |-> disk.spec.root, swap |-> disk.spec.swap,
     bootfile |-> IF disk.spec.boot = 0 THEN ""
                  ELSE ped_disk_get_partition(disk, disk.spec.boot).name,
     slots |-> [n \in 1 .. DvhSlots |-> DvhEntry(disk, n)],
     files |-> [n \in 1 .. DvhFiles |-> DvhFileEntry(disk, DvhSlots + n)]]

dvh_write(disk0, dev) ==
    LET disk == flush_stale_flags(disk0)
    IN  [d |-> disk, dev |-> [dev EXCEPT ![0] = VolumeHeader(disk)], ok |-> TRUE]

dvh_partition_set_system(p, fs) ==
    [p EXCEPT !.fs = fs,
              !.id = CASE p.type = "extended" -> "volhdr"
                       [] p.type = "logical" -> @
                       [] OTHER -> IF fs = "xfs" THEN "xfs" ELSE "raw"]

(* Only boot files have a name. *)
dvh_partition_set_name(p, name) == IF p.type = "logical" THEN [p EXCEPT !.name = name] ELSE p

(* The volume header must hold sector 0, the others may not. *)
dvh_partition_align(p) ==
    << IF p.type = "extended" THEN ped_constraint_new_from_min(Geom(0, 1))
       ELSE ped_constraint_new_from_max(Geom(1, DevLength - 1)) >>

(* A volume header gets its number but the call still fails. *)
dvh_partition_enumerate(disk, p) ==
    IF p.num # NoNum THEN [d |-> disk, p |-> p]
    ELSE KeepOrLowest(flush_stale_flags(disk), p,
             CASE p.type = "logical" -> DvhSlots + 1 .. DvhSlots + DvhFiles
               [] p.type = "extended" -> {}
               [] OTHER -> (1 .. DvhSlots) \ {Volume})

dvh_alloc_metadata(disk) ==
    LET ext == ped_disk_extended_partition(disk)
    IN  AddMetadata(Okay(disk), IF ext # NULL /\ ext.start = 0 THEN "logical" ELSE "normal",
                    0, 0)

=============================================================================
