----------------------------- MODULE Pc98Label -----------------------------
(* labels/pc98.c.  The table is in sectors 0 and 1 and counts in cylinders *)
(* of the hardware geometry.                                               *)
EXTENDS LabelCommon

CONSTANT Pc98Slots      \* MAX_PART_COUNT

ASSUME Pc98Assumption == Pc98Slots \in Nat \ {0}

Pc98Flags == {"boot", "hidden"}
HwCyl == Sectors * Heads

(* The magic number and the signature of a boot loader. *)
pc98_probe(dev) == dev[0].tag = "pc98" /\ dev[0].ipl

pc98_alloc(bios) == Okay(BlankDisk("pc98", bios, [none |-> TRUE]))

chs_to_sector(c, h, s) == (c * Heads + h) * Sectors + s

sector_to_chs(sector) ==
    [c |-> sector \div HwCyl, h |-> (sector % HwCyl) \div Sectors,
     s |-> (sector % HwCyl) % Sectors]

legacy_start(e) == chs_to_sector(e.from.c, e.from.h, e.from.s)

(* Mutant: the shorthand for the end of a cylinder is not understood. *)
Mut_legacy_end(e) == chs_to_sector(e.to.c, e.to.h, e.to.s)

(* Head 0 and sector 0 stand for the end of the cylinder. *)
legacy_end(e) ==
    IF e.to.h = 0 /\ e.to.s = 0 THEN chs_to_sector(e.to.c, Heads - 1, Sectors - 1)
    ELSE chs_to_sector(e.to.c, e.to.h, e.to.s)

UnusedSlot == [id |-> "0x0", flags |-> {"hidden"}, name |-> "",
               from |-> sector_to_chs(0), to |-> sector_to_chs(0)]

Pc98Slot(e, n) ==
    Numbered([LabelPart("normal", [start |-> legacy_start(e), end |-> legacy_end(e)],
                        e.id, e.name) EXCEPT !.flags = e.flags], n)

(* read_table: added near where it is, and refused if it had to be moved. *)
UnlessMoved(r, p) == [d |-> r.d, ok |-> r.ok /\ GeomOf(r.part) = GeomOf(p)]

ReadLegacy(acc, p, ignore) ==
    UnlessMoved(ped_disk_add_partition(acc.d, p, ped_constraint_any, ignore), p)

pc98_read(disk, dev, fs, ignore) ==
    LET add(acc, n) ==
            IF ~ acc.ok \/ dev[1].slots[n] = UnusedSlot THEN acc
            ELSE ReadLegacy(acc, [Pc98Slot(dev[1].slots[n], n) EXCEPT !.fs = fs], ignore)
    IN  OrEmpty(FoldLeft(add, Okay(ped_disk_delete_all(disk)), [n \in 1 .. Pc98Slots |-> n]))

EndsCylinder(p) == p.end % HwCyl = HwCyl - 1

(* A partition without a name is written with that of its file system. *)
fill_raw_part(p) ==
    [id |-> p.id, flags |-> p.flags,
     name |-> IF p.name = "" /\ p.fs # "none" THEN p.fs ELSE p.name,
     from |-> sector_to_chs(p.start),
     to |-> [sector_to_chs(p.end) EXCEPT !.h = 0, !.s = 0]]

(* One partition that does not end on a cylinder fails the whole write. *)
pc98_write(disk, dev) ==
    LET slot(n) == LET p == ped_disk_get_partition(disk, n)
                   IN  IF p = NULL THEN UnusedSlot ELSE fill_raw_part(p)
        ok == \A p \in Active(disk) : EndsCylinder(p)
    IN  [d |-> disk, ok |-> ok,
         dev |-> IF ~ ok THEN dev
                 ELSE [dev EXCEPT ![0] = [tag |-> "pc98", ipl |-> TRUE],
                        ![1] = [tag |-> "pc98table",
                                slots |-> [n \in 1 .. Pc98Slots |-> slot(n)]]]]

(* The system of a new partition is not assigned before set_system. *)
pc98_partition_new(type, g) == LabelPart(type, g, "0x2062", "")

(* "ext2 partitions must be marked boot" *)
pc98_partition_set_system(p, fs) ==
    LET q == [p EXCEPT !.fs = fs]
    IN  CASE fs = "none" -> [q EXCEPT !.id = "0x2062"]
          [] fs = "fat16" -> [q EXCEPT !.id = "0x2011"]
          [] fs = "ntfs" -> [q EXCEPT !.id = "0x2031"]
          [] fs = "ufs" -> [q EXCEPT !.id = "0x2044"]
          [] OTHER -> [q EXCEPT !.id = "0x2062", !.flags = @ \cup {"boot"}]

pc98_partition_set_flag(p, flag, state) ==
    pc98_partition_set_system(WithFlag(p, flag, state), p.fs)

pc98_flag_available(flag) == flag \in Pc98Flags

pc98_constraint ==
    ped_constraint_new(ped_alignment_new(0, HwCyl), ped_alignment_new(-1, HwCyl),
        Geom(HwCyl, DevLength - HwCyl), Geom(HwCyl, DevLength - HwCyl), 1, DevLength)

pc98_partition_align == << pc98_constraint >>

pc98_partition_enumerate(disk, p) == KeepOrLowest(disk, p, 1 .. Pc98Slots)

pc98_alloc_metadata(disk) == AddMetadata(Okay(disk), "normal", 0, HwCyl - 1)

=============================================================================
