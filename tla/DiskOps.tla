------------------------------ MODULE DiskOps ------------------------------
(***************************************************************************)
(* The calls of libparted/disk.c that change a partition list, for any     *)
(* label: the label's operations (disk->type->ops) are parameters.  Inside *)
(* a call the table is in update mode: the placeholders are gone (push)    *)
(* and are made again when the outermost call leaves it (pop).             *)
(***************************************************************************)
EXTENDS PartList

CONSTANTS
    MaxLength,                      \* the longest partition the label can represent
    HasExtended(_),                 \* feature PED_DISK_TYPE_EXTENDED
    MaxPrimary(_),                  \* ops->get_max_primary_partition_count
    partition_enumerate(_, _, _),   \* ops->partition_enumerate, as [d, p]; may ask the user
    partition_align(_, _, _),       \* the region the partition is moved to, or NULL
    alloc_metadata(_)               \* ops->alloc_metadata, as [d, ok]

ASSUME MaxLengthAssumption == MaxLength \in Nat

Renumbered(r, p) == Replace(r.d, p, r.p)

ped_disk_enumerate_partitions(disk) ==
    LET renumber(e, i) ==
            LET p == ped_disk_get_partition(e, i)
            IN  IF p = NULL THEN e ELSE Renumbered(partition_enumerate(e, p, FALSE), p)
    IN  FoldLeft(renumber, disk,
                 [i \in 1 .. ped_disk_get_last_partition_num(disk) |-> i])

---------------------------------------------------------------------------
(* Update mode.  Deleting a metadata placeholder renumbers the partitions, *)
(* as deleting any partition does.                                         *)

disk_push_update_mode(disk) ==
    LET solid == RemovePlaceholders(disk)
    IN  IF disk.um > 0 THEN [disk EXCEPT !.um = @ + 1]
        ELSE [(IF \E p \in AllParts(disk) : p.kind = "meta"
               THEN ped_disk_enumerate_partitions(solid) ELSE solid) EXCEPT !.um = 1]

(* The result of alloc_metadata is thrown away; the field meta keeps it    *)
(* for the properties.                                                     *)
LeaveUpdateMode(m) == [disk_alloc_freespace(m.d) EXCEPT !.um = 0, !.meta = m.ok]

disk_pop_update_mode(disk) ==
    IF disk.um > 1 THEN [disk EXCEPT !.um = @ - 1]
    ELSE LeaveUpdateMode(alloc_metadata(disk))

---------------------------------------------------------------------------
(* Checks.                                                                 *)

partition_check_basic_sanity(disk, p) ==
    /\ HasExtended(disk) \/ p.type = "normal"
    /\ p.type = "logical" \/ ped_disk_get_primary_partition_count(disk) + 1 <= MaxPrimary(disk)
    /\ p.type = "logical" => ped_disk_extended_partition(disk) # NULL

(* What the user may choose to ignore. *)
Questionable(disk, p) ==
    LET ext == ped_disk_extended_partition(disk)
    IN  \/ p.type = "logical" /\ ~ ped_geometry_test_inside(GeomOf(ext), GeomOf(p))
        \/ /\ p.type # "logical" /\ ext # NULL /\ ext # p
           /\ ped_geometry_test_inside(GeomOf(ext), GeomOf(p))
        \/ p.end >= DevLength

check_partition(disk, p, ignore) ==
    LET ext == ped_disk_extended_partition(disk)
    IN  /\ p.type = "extended" =>
             /\ ext = NULL \/ ext = p
             /\ \A q \in ToSet(disk.logi) :
                    ped_geometry_test_inside(GeomOf(p), GeomOf(q))
        /\ Questionable(disk, p) => ignore
        /\ Length(p) <= MaxLength /\ p.start <= MaxLength

---------------------------------------------------------------------------
(* The API calls as functions of the disk.  Each returns the disk, whether *)
(* the call succeeded, and the partition as the call leaves it.            *)

Result(disk, ok, p) == [d |-> disk, ok |-> ok, part |-> p]

Popped(r) == Result(disk_pop_update_mode(r.d), r.ok, r.part)

(* _partition_align: the region the label moves p to, or NULL.  While      *)
(* needs_clobber is set nothing is moved.                                  *)
Aligned(disk, p, c) == IF disk.clobber THEN GeomOf(p) ELSE partition_align(disk, p, c)

(* The stages of ped_disk_add_partition, in update mode: the free region,  *)
(* the number and the alignment, the checks.                               *)
AddChecked(d1, p, ignore) ==
    IF check_partition(d1, p, ignore) THEN Result(disk_raw_add(d1, p), TRUE, p)
                                      ELSE Result(d1, FALSE, p)

AddAligned(d1, p, g, ignore) ==
    IF p.num = NoNum \/ g = NULL THEN Result(d1, FALSE, p)
    ELSE AddChecked(d1, MoveTo(p, g), ignore)

AddNumbered(r, c, ignore) == AddAligned(r.d, r.p, Aligned(r.d, r.p, c), ignore)

AddWithin(d1, p, c, free, ignore) ==
    IF free = NULL /\ ~ ignore THEN Result(d1, FALSE, p)
    ELSE AddNumbered(partition_enumerate(d1, p, ignore),
                     IF free = NULL THEN c ELSE free, ignore)

AddIn(d1, p, c, ignore) ==
    AddWithin(d1, p, c,
        ped_constraint_intersect(partition_get_overlap_constraint(d1, p, GeomOf(p)), c),
        ignore)

ped_disk_add_partition(disk, p, c, ignore) ==
    IF ~ partition_check_basic_sanity(disk, p) THEN Result(disk, FALSE, p)
    ELSE Popped(AddIn(disk_push_update_mode(disk), p, c, ignore))

(* Mutant: the logical partitions are not renumbered. *)
Mut_ped_disk_remove_partition(disk, p) ==
    disk_pop_update_mode(disk_raw_remove(disk_push_update_mode(disk), p))

ped_disk_remove_partition(disk, p) ==
    ped_disk_enumerate_partitions(disk_pop_update_mode(
        disk_raw_remove(disk_push_update_mode(disk), p)))

(* Mutant: update mode is not left. *)
Mut_ped_disk_delete_partition(disk, p) ==
    LET d1 == disk_push_update_mode(disk)
        d2 == IF p.type = "extended" THEN [d1 EXCEPT !.logi = <<>>] ELSE d1
    IN  ped_disk_remove_partition(d2, p)

(* ped_disk_delete_all_logical empties the list of an extended partition. *)
ped_disk_delete_partition(disk, p) ==
    LET d1 == disk_push_update_mode(disk)
        d2 == IF p.type = "extended" THEN [d1 EXCEPT !.logi = <<>>] ELSE d1
    IN  disk_pop_update_mode(ped_disk_remove_partition(d2, p))

ped_disk_delete_all(disk) ==
    disk_pop_update_mode(
        [disk_push_update_mode(disk) EXCEPT !.prim = <<>>, !.logi = <<>>])

(* Mutant: the old geometry is not put back. *)
Mut_FailSetGeom(e, r, p) == Result(e, FALSE, r)

(* The error path has left update mode, and so placed the metadata and the *)
(* free space, while part->geom was still the new one r, and only now puts *)
(* the old geometry back.                                                  *)
FailSetGeom(e, r, p) == Result(Replace(e, r, p), FALSE, p)

LeaveSetGeom(popped, p) ==
    IF popped.ok THEN popped ELSE FailSetGeom(popped.d, popped.part, p)

(* The stages of ped_disk_set_partition_geom: the free region around the   *)
(* new geometry, the alignment, the checks.                                *)
SetGeomChecked(d3, p, ignore) ==
    IF check_partition(d3, p, ignore)
    THEN Result(disk_raw_add(disk_raw_remove(d3, p), p), TRUE, p)
    ELSE Result(d3, FALSE, p)

SetGeomAligned(d2, p, g, ignore) ==
    IF g = NULL THEN Result(d2, FALSE, p)
    ELSE SetGeomChecked(Replace(d2, p, MoveTo(p, g)), MoveTo(p, g), ignore)

SetGeomMoved(d2, p, free, ignore) ==
    SetGeomAligned(d2, p, Aligned(d2, p, free), ignore)

SetGeomWithin(d1, p, new, free, ignore) ==
    IF free = NULL THEN Result(d1, FALSE, p)
    ELSE SetGeomMoved(Replace(d1, p, MoveTo(p, new)), MoveTo(p, new), free, ignore)

SetGeomIn(d1, p, c, new, ignore) ==
    SetGeomWithin(d1, p, new,
        ped_constraint_intersect(partition_get_overlap_constraint(d1, p, new), c),
        ignore)

ped_disk_set_partition_geom(disk, p, c, start, end, ignore) ==
    IF end < start THEN Result(disk, FALSE, p)
    ELSE LeaveSetGeom(
             Popped(SetGeomIn(disk_push_update_mode(disk), p, c,
                              [start |-> start, end |-> end], ignore)), p)

=============================================================================
