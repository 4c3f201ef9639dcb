----------------------------- MODULE DosLabel -----------------------------
(***************************************************************************)
(* What labels/dos.c adds to the partition lists: the extended partition   *)
(* with its logical partitions, each behind the sector of its own table,   *)
(* alignment to cylinders or to no geometry at all, and the numbering.     *)
(* bios_geom is the device's: a new partition has no CHS entry on disk     *)
(* that partition_probe_bios_geometry could learn another one from.        *)
(***************************************************************************)
EXTENDS PartList

CONSTANTS
    Sectors, Heads,     \* bios_geom
    VistaStart,         \* 2048, where Windows starts the first partition
    NPri,               \* DOS_N_PRI_PARTITIONS (4)
    MaxTotalPart        \* MAX_TOTAL_PART (64)

ASSUME DosAssumption ==
    /\ Sectors \in Nat \ {0} /\ Heads \in Nat \ {0}
    /\ NPri \in Nat \ {0} /\ MaxTotalPart \in Nat /\ VistaStart \in Nat

Cyl == Sectors * Heads
FirstLog == NPri + 1        \* "partition 5"

MaxOf(a, b) == IF a > b THEN a ELSE b
MinOf(a, b) == IF a < b THEN a ELSE b
One(b) == IF b THEN 1 ELSE 0

---------------------------------------------------------------------------
(* Numbering: a primary partition keeps its number, a logical one takes    *)
(* the lowest that is free.                                                *)

FreeNums(d, lo, hi) == {i \in lo .. hi : ped_disk_get_partition(d, i) = NULL}

msdos_partition_enumerate(d, p) ==
    LET rest == Replace(d, p, [p EXCEPT !.num = NoNum])
        free == IF p.type = "logical" THEN FreeNums(rest, FirstLog, MaxTotalPart)
                                      ELSE FreeNums(rest, 1, NPri)
    IN  IF p.num # NoNum /\ p.num <= NPri THEN p
        ELSE [p EXCEPT !.num = IF free = {} THEN NoNum
                               ELSE CHOOSE i \in free : \A j \in free : i <= j]

---------------------------------------------------------------------------
(* Alignment.                                                              *)

try_constraint(p, external, internal) ==
    ped_constraint_solve_nearest(ped_constraint_intersect(external, internal),
                                 GeomOf(p))

best_solution(p, a, b) ==
    CASE a = NULL -> b
      [] b = NULL -> a
      [] OTHER ->
           IF a.start \div Cyl = b.start \div Cyl
           THEN IF (a.start \div Sectors) % Heads < (b.start \div Sectors) % Heads
                THEN a ELSE b
           ELSE IF llabs(p.start - a.start) < llabs(p.start - b.start)
                THEN a ELSE b

(* Room for every logical partition and, the comment says, for all their   *)
(* tables; head is one track, or one sector without a geometry.            *)
get_min_extended_part_geom(d, head) ==
    LET five  == ped_disk_get_partition(d, FirstLog)
        widen(g, p) ==
            IF p.num = FirstLog THEN g
            ELSE [start |-> IF p.start < g.start THEN p.start - 2 * head ELSE g.start,
                  end   |-> MaxOf(g.end, p.end)]
    IN  IF five = NULL THEN NULL
        ELSE FoldLeft(widen,
                [start |-> five.start - MaxOf(head, 2), end |-> five.end], d.logi)

ConstraintOf(start_align, end_align, start_range, end_range) ==
    IF start_range = NULL \/ end_range = NULL THEN NULL
    ELSE ped_constraint_new(start_align, end_align, start_range, end_range,
                            1, DevLength)

CylEnd == ped_alignment_new(-1, Cyl)

primary_constraint(min) ==
    LET start == IF Cyl < DevLength THEN Cyl ELSE 1
    IN  IF min = NULL
        THEN ConstraintOf(ped_alignment_new(0, Cyl), CylEnd,
                          Geom(start, DevLength - start), FullDev)
        ELSE IF min.start < Cyl THEN NULL
        ELSE ConstraintOf(ped_alignment_new(0, Cyl), CylEnd,
                          Geom(Cyl, min.start + 1 - Cyl),
                          Geom(min.end, DevLength - min.end))

primary_start_constraint(p, min) ==
    LET pos == IF p.start = VistaStart THEN VistaStart ELSE Sectors
    IN  ConstraintOf(ped_alignment_new(pos, 0), CylEnd,
            Geom(pos, IF min = NULL THEN DevLength - pos ELSE 1),
            IF min = NULL THEN FullDev ELSE Geom(min.end, DevLength - min.end))

align_primary(d, p, c) ==
    LET min == IF p.type = "extended" THEN get_min_extended_part_geom(d, Sectors)
                                      ELSE NULL
    IN  best_solution(p, try_constraint(p, c, primary_start_constraint(p, min)),
                         try_constraint(p, c, primary_constraint(min)))

logical_constraint(ext, start_offset, is_start_part) ==
    LET min_start == ped_round_up_to(ext.start + 1, Cyl)
        max == IF is_start_part THEN GeomOf(ext)
               ELSE IF min_start >= ext.end THEN NULL
               ELSE Geom(min_start, ext.end - min_start + 1)
    IN  ConstraintOf(ped_alignment_new(start_offset, Cyl), CylEnd, max, max)

logical_min_start_head(p, ext, is_start_ext_part) ==
    (IF is_start_ext_part THEN 1 + (ext.start % Cyl) \div Sectors ELSE 0)
        + One(p.num # FirstLog)

(* Mutant: no sector is kept for the table. *)
Mut_TableRoom(p) == 0

(* The sectors a table takes in front of logical partition p: number 5 has *)
(* its table in the first sector of the extended partition.                *)
TableRoom(p) == One(p.num # FirstLog)

(* Leaves a sector for the table in front of every logical partition but   *)
(* number 5.                                                               *)
log_meta_overlap_constraint(d, p) ==
    LET ext   == ped_disk_extended_partition(d)
        not_5 == TableRoom(p)
        edge(q) == q.start - TableRoom(q)
        step(acc, q) ==
            IF /\ ~ acc.stopped
               /\ edge(q) < p.start - not_5 \/ edge(q) <= acc.min
            THEN [acc EXCEPT !.min = IF q # p THEN q.end + 1 + not_5 ELSE @]
            ELSE IF acc.next = NULL /\ q # p THEN [acc EXCEPT !.stopped = TRUE, !.next = q]
            ELSE [acc EXCEPT !.stopped = TRUE]
        walk == FoldLeft(step, [min |-> ext.start + 1 + not_5,
                                stopped |-> FALSE, next |-> NULL], d.logi)
        max_end == IF walk.next = NULL THEN ext.end ELSE edge(walk.next) - 1
    IN  IF walk.min >= max_end THEN NULL
        ELSE ped_constraint_new_from_max([start |-> walk.min, end |-> max_end])

align_logical_in(ext, p, inter) ==
    LET base  == ped_round_down_to(p.start, Cyl)
        heads == [i \in 1 .. MinOf(5, Heads) |-> i - 1]
        try(sol, head) ==
            IF head < logical_min_start_head(p, ext, FALSE) THEN sol
            ELSE best_solution(p, sol, try_constraint(p, inter,
                     logical_constraint(ext, base + head * Sectors,
                         head >= logical_min_start_head(p, ext, TRUE))))
    IN  IF inter = NULL THEN NULL ELSE FoldLeft(try, NULL, heads)

align_logical(d, p, c) ==
    align_logical_in(ped_disk_extended_partition(d), p,
        ped_constraint_intersect(c, log_meta_overlap_constraint(d, p)))

no_geom_extended_constraint(d) ==
    LET min == get_min_extended_part_geom(d, 1)
    IN  ped_constraint_new(ped_alignment_any, ped_alignment_any,
            Geom(1, IF min = NULL THEN DevLength - 1 ELSE min.start),
            IF min = NULL THEN Geom(1, DevLength - 1)
                          ELSE Geom(min.end, DevLength - min.end),
            1, DevLength)

align_no_geom(d, p, c) ==
    try_constraint(p, c,
        CASE p.type = "logical"  -> log_meta_overlap_constraint(d, p)
          [] p.type = "extended" -> no_geom_extended_constraint(d)
          [] p.type = "normal"   ->
               ped_constraint_new_from_max([start |-> 1, end |-> DevLength - 1]))

OrElse(a, b) == IF a # NULL THEN a ELSE b

msdos_partition_align(d, p, c) ==
    OrElse(CASE ~ d.cyl -> NULL
             [] d.cyl /\ p.type = "logical" -> align_logical(d, p, c)
             [] d.cyl /\ p.type # "logical" -> align_primary(d, p, c),
           align_no_geom(d, p, c))

---------------------------------------------------------------------------
(* Metadata placeholders.                                                  *)

(* Number 5 needs no table in front of it; what is left of its track is    *)
(* marked only when it is a track long.                                    *)
NeedsMetadata(p, start, end) == ~ (p.num = FirstLog /\ end - start + 1 < Sectors)

add_logical_part_metadata(acc, p) ==
    LET d    == acc.d
        ext  == ped_disk_extended_partition(d)
        i    == CHOOSE k \in DOMAIN d.logi : d.logi[k] = p
        end  == p.start - 1
        low  == IF i > 1 THEN d.logi[i - 1].end + 1 ELSE ext.start + 1
        start == MaxOf(ped_round_down_to(end, Cyl), low)
    IN  IF ~ acc.ok THEN acc
        ELSE IF ~ NeedsMetadata(p, start, end) THEN acc
        ELSE AddMetadata(acc, "logical", start, end)

add_end_metadata(acc, first, final) ==
    IF final < DevLength - 1 /\ first < final
    THEN AddMetadata(acc, "normal", final, DevLength - 1) ELSE acc

add_startend_metadata(acc) ==
    LET act   == SelectSeq(acc.d.prim, IsActive)
        first == IF act = <<>> THEN Sectors - 1 ELSE MinOf(Sectors - 1, act[1].start - 1)
        down  == ped_round_down_to(DevLength, Cyl)
        final == IF ~ acc.d.cyl THEN DevLength - 1
                 ELSE IF act = <<>> THEN down ELSE MaxOf(Last(act).end + 1, down)
    IN  add_end_metadata(IF 0 < first /\ first <= DevLength
                         THEN AddMetadata(acc, "normal", 0, first) ELSE acc,
                         first, final)

(* Logical partitions in the order of their numbers, up to the first gap. *)
add_logical_metadata(acc) ==
    LET run  == {n \in FirstLog .. MaxTotalPart :
                    \A m \in FirstLog .. n : ped_disk_get_partition(acc.d, m) # NULL}
        nums == [i \in 1 .. Cardinality(run) |-> FirstLog + i - 1]
        add(a, n) == IF ~ a.ok THEN a
                     ELSE add_logical_part_metadata(a, ped_disk_get_partition(a.d, n))
    IN  FoldLeft(add, acc, nums)

add_extended_metadata(acc, ext) ==
    LET end == ext.start + Sectors - 1
    IN  IF ext = NULL \/ ~ acc.ok THEN acc
        ELSE AddMetadata(acc, "logical", ext.start,
                 IF acc.d.logi = <<>> THEN end ELSE MinOf(end, acc.d.logi[1].start - 1))

msdos_alloc_metadata(d) ==
    add_extended_metadata(
        add_logical_metadata(add_startend_metadata([d |-> d, ok |-> TRUE])),
        ped_disk_extended_partition(d))

=============================================================================
