----------------------------- MODULE PartList -----------------------------
(***************************************************************************)
(* The in-memory partition table of libparted/disk.c as a value: the list  *)
(* of primary partitions, the list that hangs off the extended partition,  *)
(* and the placeholders for metadata and free space that fill the gaps.    *)
(*                                                                         *)
(* A partition is a record; type is the role in the label and kind tells a *)
(* real ("part", the code's ped_partition_is_active) partition from a      *)
(* placeholder.  A disk is [prim, logi, um, clobber, cyl]: the two lists,  *)
(* update_mode, needs_clobber and the msdos cylinder_alignment flag.       *)
(***************************************************************************)
EXTENDS Constraint, SequencesExt

NoNum == -1

Part(type, kind, start, end) ==         \* _ped_partition_alloc
    [type |-> type, kind |-> kind, start |-> start, end |-> end, num |-> NoNum]

IsActive(p) == p.kind = "part"

GeomOf(p) == [start |-> p.start, end |-> p.end]

MoveTo(p, g) == [p EXCEPT !.start = g.start, !.end = g.end]

AllParts(d) == ToSet(d.prim) \cup ToSet(d.logi)

Active(d) == {p \in AllParts(d) : IsActive(p)}

ped_disk_extended_partition(d) ==
    LET exts == {i \in DOMAIN d.prim : d.prim[i].type = "extended"}
    IN  IF exts = {} THEN NULL ELSE d.prim[CHOOSE i \in exts : \A j \in exts : i <= j]

(* ped_disk_get_partition; the numbers of active partitions are unique     *)
(* (invariant NumbersSettled), so any match is the first match.             *)
ped_disk_get_partition(d, num) ==
    LET ps == {p \in AllParts(d) : p.num = num /\ p.kind # "free"}
    IN  IF ps = {} THEN NULL ELSE CHOOSE p \in ps : TRUE

ped_disk_get_last_partition_num(d) ==
    LET nums == {p.num : p \in AllParts(d)} \cup {NoNum}
    IN  CHOOSE n \in nums : \A m \in nums : m <= n

ped_disk_get_primary_partition_count(d) ==
    Cardinality({i \in DOMAIN d.prim : IsActive(d.prim[i])})

(* Which of the two lists p belongs to. *)
ListOf(d, p) == IF p.type = "logical" THEN d.logi ELSE d.prim

WithList(d, p, list) ==
    IF p.type = "logical" THEN [d EXCEPT !.logi = list]
                          ELSE [d EXCEPT !.prim = list]

(* Before the first partition that starts after p's end, else at the end. *)
disk_raw_add(d, p) ==
    LET list  == ListOf(d, p)
        after == {i \in DOMAIN list : list[i].start > p.end}
        at    == IF after = {} THEN Len(list) + 1
                 ELSE CHOOSE i \in after : \A j \in after : i <= j
    IN  WithList(d, p, InsertAt(list, at, p))

disk_raw_remove(d, p) == WithList(d, p, Remove(ListOf(d, p), p))

Replace(d, p, q) == WithList(d, p, ReplaceAll(ListOf(d, p), p, q))

---------------------------------------------------------------------------
(* Free space.  FillGaps walks one list and puts a placeholder in every    *)
(* gap: the two loops _alloc_extended_freespace and _disk_alloc_freespace. *)

Solid(list) == SelectSeq(list, LAMBDA p : p.kind # "free")

(* Mutant: a gap of one sector is skipped. *)
Mut_Gap(type, from, to) ==
    IF from < to THEN <<Part(type, "free", from, to)>> ELSE <<>>

Gap(type, from, to) ==
    IF from <= to THEN <<Part(type, "free", from, to)>> ELSE <<>>

LastGap(done, type, end) == done.out \o Gap(type, done.last + 1, end)

FillGaps(list, type, last_end, end) ==
    LET step(acc, p) ==
            [out  |-> Append(acc.out \o Gap(type, acc.last + 1, p.start - 1), p),
             last |-> p.end]
    IN  LastGap(FoldLeft(step, [out |-> <<>>, last |-> last_end], list), type, end)

disk_alloc_freespace(d) ==
    LET ext == ped_disk_extended_partition(d)
    IN  [d EXCEPT
           !.prim = FillGaps(Solid(d.prim), "normal", -1, DevLength - 1),
           !.logi = IF ext = NULL THEN Solid(d.logi)
                    ELSE FillGaps(Solid(d.logi), "logical", ext.start, ext.end)]

(* _disk_remove_freespace and _disk_remove_metadata together. *)
RemovePlaceholders(d) ==
    [d EXCEPT !.prim = SelectSeq(d.prim, IsActive),
              !.logi = SelectSeq(d.logi, IsActive)]

---------------------------------------------------------------------------
(* The region around geom that no other partition of p's list uses.  The   *)
(* walk moves min_start past every partition that starts before geom.      *)

(* ext.start .. ext.end for a logical partition, else the whole device and *)
(* beyond (LLONG_MAX - 1 in the code).                                     *)
SectorMax == 4 * DevLength

OverlapWalk(list, p, geom, min0) ==
    LET step(acc, q) ==
            CASE acc.stop # NULL -> acc
              [] acc.stop = NULL /\ acc.self -> [acc EXCEPT !.stop = q]
              [] OTHER ->
                   IF q.start < geom.start \/ acc.min >= q.start
                   THEN [acc EXCEPT !.min = IF q # p THEN q.end + 1 ELSE @]
                   ELSE IF q = p THEN [acc EXCEPT !.self = TRUE]
                   ELSE [acc EXCEPT !.stop = q]
    IN  FoldLeft(step, [min |-> min0, stop |-> NULL, self |-> FALSE], list)

(* Mutant: one sector too far. *)
Mut_OverlapEnd(ext, p, stop) ==
    IF stop # NULL THEN stop.start
    ELSE IF p.type = "logical" THEN ext.end ELSE SectorMax

(* The last sector before the partition that stopped the walk. *)
OverlapEnd(ext, p, stop) ==
    IF stop # NULL THEN stop.start - 1
    ELSE IF p.type = "logical" THEN ext.end ELSE SectorMax

FreeRegion(ext, p, walk) ==
    LET max_end == OverlapEnd(ext, p, walk.stop)
    IN  IF walk.min > max_end THEN NULL
        ELSE ped_constraint_new_from_max([start |-> walk.min, end |-> max_end])

partition_get_overlap_constraint(d, p, geom) ==
    LET ext == ped_disk_extended_partition(d)
    IN  FreeRegion(ext, p, OverlapWalk(ListOf(d, p), p, geom,
                                       IF p.type = "logical" THEN ext.start ELSE 0))

---------------------------------------------------------------------------
(* add_metadata_part of the labels: ped_disk_add_partition for a           *)
(* placeholder, which is neither numbered nor aligned.  acc is [d, ok];    *)
(* the labels stop at the first one that is refused.                       *)

Refused(ext, type, g) ==
    \/ g.end < g.start
    \/ g.end >= DevLength
    \/ type = "logical" /\ (ext = NULL \/ ~ ped_geometry_test_inside(GeomOf(ext), g))
    \/ type = "normal" /\ ext # NULL /\ ped_geometry_test_inside(GeomOf(ext), g)

AddMetadata(acc, type, start, end) ==
    IF \/ ~ acc.ok
       \/ Refused(ped_disk_extended_partition(acc.d), type, [start |-> start, end |-> end])
    THEN [acc EXCEPT !.ok = FALSE]
    ELSE [acc EXCEPT !.d = disk_raw_add(@, Part(type, "meta", start, end))]

=============================================================================
