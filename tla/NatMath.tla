------------------------------ MODULE NatMath ------------------------------
(***************************************************************************)
(* The arithmetic of libparted: rounding and alignment (cs/natmath.c) and  *)
(* regions of one device (cs/geom.c).  A PedAlignment is the set of        *)
(* sectors offset + X * grain; a PedGeometry is the region start..end.     *)
(* Both are C pointers in the source, so both may be NULL.                 *)
(***************************************************************************)
EXTENDS Integers

CONSTANTS
    NULL,       \* the null pointer
    IntMax      \* INT_MAX: extended_euclid takes int, the grains are 64 bits

ASSUME IntMaxAssumption == IntMax \in Nat \ {0}

PedAlignment == [offset : Int, grain : Nat]
PedGeometry == [start : Int, end : Int]

ASSUME NullAssumption == NULL \notin PedAlignment \cup PedGeometry

NoSector == -1      \* the -1 that a PedSector function returns for "none"

llabs(n) == IF n < 0 THEN -n ELSE n

(* C's % and / truncate towards zero; TLA+'s % and \div do not.            *)
CMod(a, b) == IF a < 0 THEN -(llabs(a) % llabs(b)) ELSE a % llabs(b)
CDiv(a, b) == IF (a < 0) = (b < 0) THEN llabs(a) \div llabs(b)
                                   ELSE -(llabs(a) \div llabs(b))

AsInt(n) == ((n + IntMax + 1) % (2 * (IntMax + 1))) - (IntMax + 1)

---------------------------------------------------------------------------
(* Rounding.                                                               *)

abs_mod(a, b) == IF a < 0 THEN CMod(a, b) + b ELSE CMod(a, b)

ped_round_down_to(sector, grain) == sector - abs_mod(sector, grain)

ped_round_up_to(sector, grain) ==
    IF CMod(sector, grain) # 0 THEN ped_round_down_to(sector, grain) + grain
                               ELSE sector

---------------------------------------------------------------------------
(* Regions.                                                                *)

Geom(start, length) ==      \* ped_geometry_new: NULL when length < 1
    IF length < 1 THEN NULL ELSE [start |-> start, end |-> start + length - 1]

Length(g) == g.end - g.start + 1

ped_geometry_test_sector_inside(g, s) == g.start <= s /\ s <= g.end

ped_geometry_test_inside(a, b) == b.start >= a.start /\ b.end <= a.end

ped_geometry_test_overlap(a, b) ==
    IF a.start < b.start THEN a.end >= b.start ELSE b.end >= a.start

ped_geometry_intersect(a, b) ==
    LET start == IF a.start > b.start THEN a.start ELSE b.start
        end   == IF a.end < b.end THEN a.end ELSE b.end
    IN  IF a = NULL \/ b = NULL \/ start > end THEN NULL
        ELSE Geom(start, end - start + 1)

---------------------------------------------------------------------------
(* Alignments.                                                             *)

ped_alignment_new(offset, grain) ==
    IF grain < 0 THEN NULL
    ELSE [offset |-> IF grain # 0 THEN abs_mod(offset, grain) ELSE offset,
          grain  |-> grain]

ped_alignment_any == [offset |-> 0, grain |-> 1]

ped_alignment_is_aligned(align, geom, sector) ==
    /\ align # NULL
    /\ geom # NULL => ped_geometry_test_sector_inside(geom, sector)
    /\ IF align.grain # 0 THEN CMod(sector - align.offset, align.grain) = 0
                          ELSE sector = align.offset

(* gcd(a, b) with x and y such that gcd = x*a + y*b. *)
extended_euclid[ab \in Int \X Int] ==
    LET a == ab[1]
        b == ab[2]
        tmp == extended_euclid[<<b, CMod(a, b)>>]
    IN  IF b = 0 THEN [gcd |-> a, x |-> 1, y |-> 0]
        ELSE [gcd |-> tmp.gcd, x |-> tmp.y, y |-> tmp.x - CDiv(a, b) * tmp.y]

(* x * a.grain + y * b.grain = gcd moves the two offsets onto each other,  *)
(* unless their distance is no multiple of the gcd.                        *)
Meeting(a, b, e, delta_on_gcd) ==
    LET new_offset == a.offset + e.x * delta_on_gcd * a.grain
    IN  IF new_offset # b.offset - e.y * delta_on_gcd * b.grain THEN NULL
        ELSE ped_alignment_new(new_offset, CDiv(a.grain * b.grain, e.gcd))

Euclid(a, b, e) == Meeting(a, b, e, CDiv(b.offset - a.offset, e.gcd))

IntersectCoarser(a, b) ==       \* a.grain >= b.grain
    IF a.grain = 0 /\ b.grain = 0
    THEN IF a.offset = b.offset THEN a ELSE NULL
    ELSE Euclid(a, b, extended_euclid[<<AsInt(a.grain), AsInt(b.grain)>>])

ped_alignment_intersect(p, q) ==
    IF p = NULL \/ q = NULL THEN NULL
    ELSE IntersectCoarser(IF p.grain < q.grain THEN q ELSE p,
                          IF p.grain < q.grain THEN p ELSE q)

(* Moves an aligned sector by whole grains into geom, or gives up. *)
Raise(geom, grain, s) ==
    IF s < geom.start THEN s + ped_round_up_to(geom.start - s, grain) ELSE s

Lower(geom, grain, s) ==
    IF s > geom.end THEN s - ped_round_up_to(s - geom.end, grain) ELSE s

IfInside(align, geom, s) ==
    IF /\ ped_geometry_test_sector_inside(geom, s)
       /\ align.grain = 0 => ped_alignment_is_aligned(align, geom, s)
    THEN s ELSE NoSector

closest_inside_geometry(align, geom, sector) ==
    IfInside(align, geom,
             IF align.grain = 0 THEN sector
             ELSE Lower(geom, align.grain, Raise(geom, align.grain, sector)))

InsideGeometry(align, geom, sector) ==
    IF geom = NULL THEN sector ELSE closest_inside_geometry(align, geom, sector)

ped_alignment_align_up(align, geom, sector) ==
    InsideGeometry(align, geom,
        IF align.grain = 0 THEN align.offset
        ELSE ped_round_up_to(sector - align.offset, align.grain) + align.offset)

ped_alignment_align_down(align, geom, sector) ==
    InsideGeometry(align, geom,
        IF align.grain = 0 THEN align.offset
        ELSE ped_round_down_to(sector - align.offset, align.grain) + align.offset)

closest(sector, a, b) ==
    CASE a = NoSector -> b
      [] b = NoSector -> a
      [] OTHER -> IF llabs(sector - a) < llabs(sector - b) THEN a ELSE b

(* Mutant: the sector below is never considered. *)
Mut_align_nearest(align, geom, sector) ==
    closest(sector, ped_alignment_align_up(align, geom, sector),
                    ped_alignment_align_up(align, geom, sector))

ped_alignment_align_nearest(align, geom, sector) ==
    closest(sector, ped_alignment_align_up(align, geom, sector),
                    ped_alignment_align_down(align, geom, sector))

=============================================================================
