----------------------------- MODULE SunLabel -----------------------------
(* labels/sun.c.  The label is sector 0; partitions start on cylinders and *)
(* one slot of the label is kept for an entry that spans the disk.         *)
EXTENDS LabelCommon

CONSTANTS
    SunSlots,       \* SUN_DISK_MAXPARTITIONS
    WholeDisk       \* WHOLE_DISK_PART + 1, the number kept for the whole disk

ASSUME SunAssumption == WholeDisk \in 1 .. SunSlots

SunFlagIds == [boot |-> "0x1", root |-> "0x2", lvm |-> "0x8e", raid |-> "0xfd"]

WholeEntry(length) == [id |-> "whole", cyl |-> 0, len |-> length]
NoEntry == [id |-> "0x0", cyl |-> 0, len |-> 0]

sun_probe(dev) == dev[0].tag = "sun"        \* magic and checksum

SunLength(bios) == CylSize(bios) * bios.cylinders

sun_alloc(bios) ==
    Okay(BlankDisk("sun", bios,
        [length |-> (DevLength \div CylSize(bios)) * CylSize(bios),
         sectors |-> bios.sectors, heads |-> bios.heads]))

(* The geometry to use with the label: the label's own wins, after a       *)
(* warning.  NULL when the user cancels or a field is zero.                *)
check_geometry_sanity(bios0, raw, ignore) ==
    LET bios == IF raw.sectors = Sectors /\ raw.heads = Heads THEN HwGeom ELSE bios0
        own  == [sectors |-> raw.sectors, heads |-> raw.heads, cylinders |-> raw.cylinders]
    IN  CASE 0 \in {raw.sectors, raw.heads, raw.cylinders} -> NULL
          [] raw.sectors = bios.sectors /\ raw.heads = bios.heads -> bios
          [] OTHER -> IF ignore THEN own ELSE NULL

SunSlot(bios, e, n) ==
    LET start == e.cyl * CylSize(bios)
        p == LabelPart("normal", [start |-> start, end |-> start + e.len - 1], e.id, "")
    IN  Numbered([p EXCEPT !.flags = {f \in DOMAIN SunFlagIds : SunFlagIds[f] = e.id}], n)

SunReady(disk, raw, bios) ==
    IF bios = NULL THEN Fail(disk)
    ELSE Okay([disk EXCEPT !.bios = bios,
                 !.spec = [length |-> SunLength(bios),
                           sectors |-> raw.sectors, heads |-> raw.heads]])

sun_read(disk, dev, fs, ignore) ==
    LET used  == {n \in 1 .. SunSlots : dev[0].slots[n].len > 0
                                        /\ dev[0].slots[n].id \notin {"0x0", "whole"}}
        add(acc, n) ==
            IF ~ acc.ok \/ n \notin used THEN acc
            ELSE ReadPart(acc, [SunSlot(acc.d.bios, dev[0].slots[n], n) EXCEPT !.fs = fs], ignore)
        start == SunReady(ped_disk_delete_all(disk), dev[0],
                          check_geometry_sanity(disk.bios, dev[0], ignore))
    IN  FoldLeft(add, start, [n \in 1 .. SunSlots |-> n])

SunEntry(disk, n) ==
    LET p == ped_disk_get_partition(disk, n)
    IN  IF p # NULL
        THEN [id |-> p.id, cyl |-> p.start \div CylSize(disk.bios), len |-> Length(p)]
        ELSE IF n = WholeDisk THEN WholeEntry(disk.spec.length) ELSE NoEntry

(* _use_old_info: a Sun label on the medium is the one that is rewritten. *)
sun_write(disk, dev) ==
    LET old == IF sun_probe(dev) THEN dev[0] ELSE disk.spec
        raw == [tag |-> "sun", sectors |-> old.sectors, heads |-> old.heads,
                cylinders |-> disk.bios.cylinders,
                slots |-> [n \in 1 .. SunSlots |-> SunEntry(disk, n)]]
    IN  [d |-> [disk EXCEPT !.spec.sectors = old.sectors, !.spec.heads = old.heads],
         dev |-> [dev EXCEPT ![0] = raw], ok |-> TRUE]

sun_partition_new(type, g) == LabelPart(type, g, "0x0", "")

(* A flag decides the id before the file system does. *)
sun_partition_set_system(p, fs) ==
    LET flagged == {f \in DOMAIN SunFlagIds : f \in p.flags}
    IN  [p EXCEPT !.fs = fs,
           !.id = IF flagged # {} THEN SunFlagIds[CHOOSE f \in flagged : TRUE]
                  ELSE CASE fs = "swap" -> "0x82" [] fs = "ufs" -> "0x6" [] OTHER -> "0x83"]

sun_partition_set_flag(p, flag, state) ==
    sun_partition_set_system(WithOnly(p, flag, state, DOMAIN SunFlagIds), p.fs)

sun_flag_available(flag) == flag \in DOMAIN SunFlagIds

(* Cylinders, or any end when the caller insists. *)
sun_constraint(disk, end_align) ==
    ped_constraint_new(ped_alignment_new(0, CylSize(disk.bios)), end_align,
        Geom(0, disk.spec.length), Geom(0, disk.spec.length), 1, DevLength)

sun_partition_align(disk, p) ==
    << sun_constraint(disk, ped_alignment_new(-1, CylSize(disk.bios))),
       sun_constraint(disk, ped_alignment_any) >>

(* The whole disk's number is given only to a user who insists. *)
sun_partition_enumerate(disk, p, ignore) ==
    LET r == KeepOrLowest(disk, p, (1 .. SunSlots) \ {WholeDisk})
    IN  IF r.p.num = NoNum /\ ignore THEN KeepOrLowest(disk, p, {WholeDisk}) ELSE r

sun_alloc_metadata(disk) ==
    IF disk.spec.length = DevLength THEN Fail(disk)
    ELSE AddMetadata(Okay(disk), "normal", disk.spec.length, DevLength - 1)

=============================================================================
