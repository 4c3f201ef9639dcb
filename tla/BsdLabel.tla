----------------------------- MODULE BsdLabel -----------------------------
(* labels/bsd.c.  The label shares sector 0 with boot code that other      *)
(* tools install; the flags of a partition have no place in it.            *)
EXTENDS LabelCommon

CONSTANT BsdSlots       \* BSD_MAXPARTITIONS

ASSUME BsdAssumption == BsdSlots \in Nat \ {0}

BsdFlags == {"boot", "raid", "lvm"}

bsd_probe(dev) == dev[0].tag = "bsd"

bsd_alloc(bios) == Okay(BlankDisk("bsd", bios, [boot |-> FALSE]))

BsdSlot(e, n) ==
    Numbered(LabelPart("normal", [start |-> e.start, end |-> e.start + e.len - 1], e.id, ""), n)

bsd_read(disk, dev, fs, ignore) ==
    LET ready == [ped_disk_delete_all(disk) EXCEPT !.spec = [boot |-> dev[0].boot]]
        add(acc, n) ==
            IF dev[0].slots[n].len = 0 \/ dev[0].slots[n].id = "0x0" THEN acc
            ELSE ReadPart(acc, [BsdSlot(dev[0].slots[n], n) EXCEPT !.fs = fs], ignore)
    IN  FoldLeft(add, Okay(ready), [n \in 1 .. BsdSlots |-> n])

(* Mutant: the boot code on the medium is not looked for. *)
Mut_probe_and_add_boot_code(disk, dev) == disk.spec.boot

(* Boot code that was installed since the label was read is kept. *)
probe_and_add_boot_code(disk, dev) ==
    disk.spec.boot \/ (bsd_probe(dev) /\ dev[0].boot)

BsdEntry(disk, n) ==
    LET p == ped_disk_get_partition(disk, n)
    IN  IF p = NULL THEN [id |-> "0x0", start |-> 0, len |-> 0]
        ELSE [id |-> p.id, start |-> p.start, len |-> Length(p)]

bsd_write(disk, dev) ==
    LET boot == probe_and_add_boot_code(disk, dev)
    IN  [d |-> [disk EXCEPT !.spec.boot = boot],
         dev |-> [dev EXCEPT ![0] =
                    [tag |-> "bsd", boot |-> boot,
                     slots |-> [n \in 1 .. BsdSlots |-> BsdEntry(disk, n)]]],
         ok |-> TRUE]

bsd_partition_new(type, g) == LabelPart(type, g, "0x0", "")

bsd_partition_set_system(p, fs) ==
    [p EXCEPT !.fs = fs, !.id = IF fs = "swap" THEN "0x1" ELSE "0x8"]

bsd_partition_set_flag(p, flag, state) ==
    WithOnly(p, flag, state, IF flag = "boot" THEN {} ELSE {"raid", "lvm"})

bsd_flag_available(flag) == flag \in BsdFlags

bsd_partition_align == << ped_constraint_new_from_max(Geom(1, DevLength - 1)) >>

bsd_partition_enumerate(disk, p) == KeepOrLowest(disk, p, 1 .. BsdSlots)

(* The label and nothing else: the sectors of the boot program after it    *)
(* are not protected.                                                      *)
bsd_alloc_metadata(disk) == AddMetadata(Okay(disk), "normal", 0, 0)

=============================================================================
