----------------------------- MODULE MacLabel -----------------------------
(***************************************************************************)
(* labels/mac.c on a device with 512-byte sectors, where the ghost size is *)
(* 1.  The partition map is an array of sectors that is itself a partition *)
(* of the table, and it has entries for the free space as well.            *)
(***************************************************************************)
EXTENDS LabelCommon

CONSTANTS
    MapGrain,       \* 64: the sectors in which the map grows
    MacMinLength    \* 256: the smallest device for this label

ASSUME MacAssumption == MapGrain \in Nat \ {0, 1} /\ MacMinLength \in Nat

MacFlags == {"boot", "root", "swap", "lvm", "raid"}

UNIX == "Apple_UNIX_SVR2"
MapType == "Apple_partition_map"

mac_probe(dev) == dev[0].tag = "mac"

IsRawPart(s) == s.tag = "macpart"           \* _rawpart_check_signature

mac_partition_new(type, g) == LabelPart(type, g, "", "untitled")

(* part_map_entry_num is forgotten when that partition is gone. *)
mac_get_max_primary_partition_count(disk) ==
    IF ped_disk_get_partition(disk, disk.spec.mapnum) = NULL THEN 65536
    ELSE disk.spec.count - disk.spec.free + 1

ForgetMap(disk) ==
    IF ped_disk_get_partition(disk, disk.spec.mapnum) = NULL
    THEN [disk EXCEPT !.spec.mapnum = 0] ELSE disk

(* Numbers beyond the map are changed. *)
mac_partition_enumerate(disk, p) ==
    LET d1 == ForgetMap(disk)
        bound == mac_get_max_primary_partition_count(d1)
    IN  IF p.num > 0 /\ p.num <= disk.spec.count THEN [d |-> d1, p |-> p]
        ELSE [d |-> d1, p |-> Numbered(p,
                LowestFree(d1, 1 .. (IF bound = 65536 THEN DevLength ELSE bound)))]

MapSize(last) == IF last = 0 THEN MapGrain
                 ELSE ((last + MapGrain - 1) \div MapGrain) * MapGrain

MapAdded(r) ==
    IF ~ r.ok THEN Fail(r.d)
    ELSE Okay([r.d EXCEPT !.spec.mapnum = r.part.num, !.spec.count = r.part.end - 1])

disk_add_part_map_entry(disk) ==
    LET map == [mac_partition_new("normal", Geom(1, MapSize(disk.spec.last) - 1))
                   EXCEPT !.name = "Apple", !.id = MapType]
    IN  MapAdded(ped_disk_add_partition(disk, map, ped_constraint_any, FALSE))

mac_alloc(bios) ==
    LET blank == BlankDisk("mac", bios, [mapnum |-> 0, count |-> 0, active |-> 0,
                                         free |-> 1, last |-> 1, drivers |-> {}])
    IN  IF DevLength < MacMinLength THEN Fail(blank) ELSE disk_add_part_map_entry(blank)

---------------------------------------------------------------------------
(* Reading. *)

rawpart_is_active(e) ==
    /\ ~ (e.type = "Apple_Free" /\ e.name \in {"Extra", ""})
    /\ e.type \notin {"Apple_Void", "Apple_Scratch", "Apple_Extra"}

rawpart_flags(e) ==
    {f \in MacFlags :
        CASE f = "boot" -> e.type \in {"Apple_Bootstrap", "Apple_Boot"}
          [] f = "lvm"  -> e.type = "Linux_LVM"
          [] f = "raid" -> e.type = "Linux_RAID"
          [] OTHER      -> e.type = UNIX /\ e.name = f}

(* What _rawpart_analyse refuses, or asks about. *)
Suspicious(e, flags) == e.data < e.len /\ "boot" \notin flags

rawpart_analyse(e, fs, num) ==
    Numbered([mac_partition_new("normal", Geom(e.start, e.len)) EXCEPT
                !.name = e.name, !.id = e.type, !.flags = rawpart_flags(e), !.fs = fs], num)

MapSeen(r, e, num) ==
    IF r.ok /\ e.type = MapType
    THEN Okay([r.d EXCEPT !.spec.mapnum = num, !.spec.count = e.start + e.len - 1])
    ELSE r

ReadEntry(acc, e, fs, num, ignore) ==
    IF \/ e.len = 0
       \/ Suspicious(e, rawpart_flags(e)) /\ ~ ignore
       \/ e.type = MapType /\ acc.d.spec.mapnum # 0 /\ ~ ignore
    THEN Fail(acc.d)
    ELSE MapSeen(ReadPart(acc, rawpart_analyse(e, fs, num), ignore), e, num)

(* The first entry says how many there are; the others must agree. *)
ReadMap(acc0, dev, fs, ignore) ==
    LET last == dev[1].map_count
        add(acc, n) ==
            LET e == dev[n]
            IN  IF ~ acc.ok \/ ~ IsRawPart(e) THEN acc
                ELSE IF e.map_count # last /\ ~ ignore THEN Fail(acc.d)
                ELSE IF ~ rawpart_is_active(e) THEN acc
                ELSE ReadEntry(acc, e, fs, n, ignore)
    IN  FoldLeft(add, acc0, [n \in 1 .. IF last < 1 THEN 1 ELSE last |-> n])

(* A table without an entry for the map gets one, if the user agrees. *)
OrAddMap(r, ignore) ==
    IF ~ r.ok \/ r.d.spec.mapnum # 0 THEN r
    ELSE IF ignore THEN disk_add_part_map_entry(r.d) ELSE Fail(r.d)

mac_read(disk, dev, fs, ignore) ==
    LET fresh == [disk EXCEPT !.spec.mapnum = 0]
        ready == [ped_disk_delete_all(fresh) EXCEPT !.spec.drivers = dev[0].drivers]
    IN  IF ~ IsRawPart(dev[1]) \/ dev[1].type = "Apple_Void" THEN Fail(fresh)
        ELSE OrEmpty(OrAddMap(ReadMap(Okay(ready), dev, fs, ignore), ignore))

(* A missing map entry is written back by ped_disk_commit_to_dev, while    *)
(* needs_clobber is still set.                                             *)
MacWritesBack(dev) ==
    \A n \in 1 .. (IF dev[1].map_count < 1 THEN 1 ELSE dev[1].map_count) :
        IsRawPart(dev[n]) => dev[n].type # MapType

---------------------------------------------------------------------------
(* Writing. *)

RawPart(disk, start, len, name, type) ==
    [tag |-> "macpart", map_count |-> disk.spec.last, start |-> start, len |-> len,
     name |-> name, type |-> type, data |-> len]

RawReal(disk, p) == RawPart(disk, p.start, Length(p), p.name, p.id)
RawFree(disk, p) == RawPart(disk, p.start, Length(p), "Extra", "Apple_Free")
RawVoid(disk) == RawPart(disk, 0, 0, "", "Apple_Void")

FreeSpace(disk) == SelectSeq(disk.prim, LAMBDA p : p.kind = "free")

Taken(disk) == {p.num : p \in Active(disk)}

(* The entries that no partition has, in order: _get_first_empty_part_entry *)
Untaken(disk) ==
    SelectSeq([i \in 1 .. disk.spec.last |-> i], LAMBDA i : i \notin Taken(disk))

(* The partitions, then the free space, then "void" up to the last entry.  *)
(* The buffer has count entries: what lies beyond it is not written.       *)
MapEntry(disk, n) ==
    LET at == {i \in DOMAIN Untaken(disk) : Untaken(disk)[i] = n}
    IN  IF n \in Taken(disk) THEN RawReal(disk, ped_disk_get_partition(disk, n))
        ELSE IF at = {} THEN Zero
        ELSE LET i == CHOOSE k \in at : TRUE
             IN  IF i <= Len(FreeSpace(disk)) THEN RawFree(disk, FreeSpace(disk)[i])
                 ELSE RawVoid(disk)

(* _update_driver_count: a driver whose partition is gone is dropped. *)
KeptDrivers(disk) == {g \in disk.spec.drivers : \E p \in Active(disk) : GeomOf(p) = g}

WriteMap(r, dev) ==
    [d |-> r.d, ok |-> r.ok,
     dev |-> IF ~ r.ok THEN dev
             ELSE [s \in DOMAIN dev |->
                     CASE s = 0 -> [tag |-> "mac", drivers |-> KeptDrivers(r.d)]
                       [] s \in 1 .. r.d.spec.count -> MapEntry(r.d, s)
                       [] OTHER -> dev[s]]]

(* A map partition that was deleted is made again, if the user agrees. *)
mac_write(disk, dev, fix) ==
    WriteMap(IF ped_disk_get_partition(disk, disk.spec.mapnum) # NULL THEN Okay(disk)
             ELSE IF fix THEN disk_add_part_map_entry(disk) ELSE Fail(disk), dev)

---------------------------------------------------------------------------
(* Partitions. *)

(* Setting lvm or raid never clears the other, clearing either leaves it   *)
(* set; both are mutually exclusive on the medium.                         *)
SetUnix(p) ==
    [p EXCEPT !.id = IF "boot" \in p.flags THEN "Apple_Bootstrap"
                     ELSE IF p.fs = "hfs" THEN "Apple_HFS" ELSE UNIX]

Exclusive(p, flag, state) ==
    [WithOnly(p, flag, state, {"root", "swap"}) EXCEPT
        !.name = IF state THEN flag ELSE IF flag \in p.flags THEN "untitled" ELSE @]

mac_partition_set_system(p, fs) ==
    LET q == [p EXCEPT !.fs = fs]
    IN  SetUnix(IF fs = "swap" THEN Exclusive(q, "swap", TRUE) ELSE q)

mac_partition_set_flag(p, flag, state) ==
    LET q == WithFlag(p, flag, state)
    IN  CASE flag = "boot" ->
               IF p.fs # "none" THEN mac_partition_set_system(q, p.fs)
               ELSE IF state THEN [q EXCEPT !.id = "Apple_Bootstrap"] ELSE q
          [] flag \in {"root", "swap"} -> Exclusive(p, flag, state)
          [] OTHER ->
               IF state THEN [q EXCEPT !.id = IF flag = "lvm" THEN "Linux_LVM" ELSE "Linux_RAID"]
               ELSE IF flag \in p.flags THEN mac_partition_set_system(p, p.fs) ELSE p

mac_flag_available(flag) == flag \in MacFlags

(* Renaming a root or swap partition takes that role away, after a warning. *)
mac_partition_set_name(p, name, ignore) ==
    IF p.flags \cap {"root", "swap"} = {} THEN [p EXCEPT !.name = name]
    ELSE IF ignore THEN [p EXCEPT !.name = name, !.flags = @ \ {"root", "swap"}] ELSE p

mac_partition_align ==
    << ped_constraint_new(ped_alignment_new(0, 1), ped_alignment_new(-1, 1),
                          Geom(1, DevLength - 1), Geom(1, DevLength - 1), 1, DevLength) >>

(* _disk_count_partitions: gaps between partitions and after the last one. *)
CountPartitions(disk) ==
    LET parts == SelectSeq(disk.prim, IsActive)
        gaps == {i \in 1 .. Len(parts) - 1 : parts[i].end + 1 < parts[i + 1].start}
        tail == IF parts # <<>> /\ Last(parts).end < DevLength - 1 THEN 1 ELSE 0
        free == Cardinality(gaps) + tail
        nums == {p.num : p \in ToSet(parts)} \cup {Len(parts) + free}
    IN  [disk EXCEPT !.spec.active = Len(parts), !.spec.free = free,
                     !.spec.last = CHOOSE n \in nums : \A m \in nums : m <= n]

mac_alloc_metadata(disk) ==
    LET m == AddMetadata(Okay(disk), "normal", 0, 0)
    IN  IF m.ok THEN Okay(CountPartitions(m.d)) ELSE m

=============================================================================
