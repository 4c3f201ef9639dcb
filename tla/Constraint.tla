---------------------------- MODULE Constraint ----------------------------
(***************************************************************************)
(* The constraint solver of libparted (cs/constraint.c).  A PedConstraint  *)
(* says where a region may start and end (an alignment and a range for     *)
(* each) and how long it may be.                                           *)
(***************************************************************************)
EXTENDS NatMath

CONSTANT DevLength      \* dev->length, in sectors

ASSUME DevLengthAssumption == DevLength \in Nat \ {0}

PedConstraint == [start_align : PedAlignment, end_align : PedAlignment,
                  start_range : PedGeometry, end_range : PedGeometry,
                  min_size : Int, max_size : Int]

ASSUME NullConstraint == NULL \notin PedConstraint

FullDev == [start |-> 0, end |-> DevLength - 1]

(* ped_constraint_new duplicates its alignments, which normalises them. *)
Dup(align) == IF align = NULL THEN NULL
              ELSE ped_alignment_new(align.offset, align.grain)

ped_constraint_new(start_align, end_align, start_range, end_range, min, max) ==
    [start_align |-> Dup(start_align), end_align |-> Dup(end_align),
     start_range |-> start_range, end_range |-> end_range,
     min_size |-> min, max_size |-> max]

ped_constraint_new_from_min_max(min, max) ==
    ped_constraint_new(ped_alignment_any, ped_alignment_any,
        Geom(max.start, min.start - max.start + 1),
        Geom(min.end, max.end - min.end + 1),
        Length(min), Length(max))

ped_constraint_new_from_min(min) ==
    ped_constraint_new_from_min_max(min, FullDev)

ped_constraint_new_from_max(max) ==
    ped_constraint_new(ped_alignment_any, ped_alignment_any,
                       max, max, 1, Length(max))

ped_constraint_any ==
    ped_constraint_new(ped_alignment_any, ped_alignment_any,
                       FullDev, FullDev, 1, DevLength)

ped_constraint_exact(g) ==
    ped_constraint_new(ped_alignment_new(g.start, 0), ped_alignment_new(g.end, 0),
                       Geom(g.start, 1), Geom(g.end, 1), 1, DevLength)

---------------------------------------------------------------------------

IfAll(start_align, end_align, start_range, end_range, min, max) ==
    IF NULL \in {start_align, end_align, start_range, end_range} THEN NULL
    ELSE ped_constraint_new(start_align, end_align, start_range, end_range, min, max)

(* Mutant: the two lower bounds on the length combined with PED_MIN. *)
Mut_intersect_min_size(a, b) ==
    IF a = NULL \/ b = NULL THEN NULL
    ELSE IfAll(ped_alignment_intersect(a.start_align, b.start_align),
               ped_alignment_intersect(a.end_align, b.end_align),
               ped_geometry_intersect(a.start_range, b.start_range),
               ped_geometry_intersect(a.end_range, b.end_range),
               IF a.min_size < b.min_size THEN a.min_size ELSE b.min_size,
               IF a.max_size < b.max_size THEN a.max_size ELSE b.max_size)

ped_constraint_intersect(a, b) ==
    IF a = NULL \/ b = NULL THEN NULL
    ELSE IfAll(ped_alignment_intersect(a.start_align, b.start_align),
               ped_alignment_intersect(a.end_align, b.end_align),
               ped_geometry_intersect(a.start_range, b.start_range),
               ped_geometry_intersect(a.end_range, b.end_range),
               IF a.min_size > b.min_size THEN a.min_size ELSE b.min_size,
               IF a.max_size < b.max_size THEN a.max_size ELSE b.max_size)

ped_constraint_is_solution(c, g) ==
    /\ ped_alignment_is_aligned(c.start_align, NULL, g.start)
    /\ ped_alignment_is_aligned(c.end_align, NULL, g.end)
    /\ ped_geometry_test_sector_inside(c.start_range, g.start)
    /\ ped_geometry_test_sector_inside(c.end_range, g.end)
    /\ Length(g) >= c.min_size
    /\ Length(g) <= c.max_size

---------------------------------------------------------------------------
(* Solving.  first_end_soln and last_end_soln are the first and the last   *)
(* aligned ends; the start must leave room for one of them.                *)

first_end_soln(c) ==
    ped_alignment_align_down(c.end_align, c.end_range, c.end_range.start)

last_end_soln(c) ==
    ped_alignment_align_up(c.end_align, c.end_range, c.end_range.end)

HasEndSoln(c, first, last) ==
    /\ c.min_size <= c.max_size
    /\ first # NoSector /\ last # NoSector /\ first <= last
    /\ last >= c.min_size

MinStart(c, first) == IF first - c.max_size + 1 < 0 THEN 0 ELSE first - c.max_size + 1

MaxStart(c, last) == last - c.min_size + 1

StartRange(c, first, last) ==
    IF ~ HasEndSoln(c, first, last) \/ MaxStart(c, last) < 0 THEN NULL
    ELSE ped_geometry_intersect(
             Geom(MinStart(c, first), MaxStart(c, last) - MinStart(c, first) + 1),
             c.start_range)

constraint_get_canonical_start_range(c) ==
    StartRange(c, first_end_soln(c), last_end_soln(c))

NearestIn(align, range, sector) ==
    IF range = NULL THEN NoSector ELSE ped_alignment_align_nearest(align, range, sector)

constraint_get_nearest_start_soln(c, start) ==
    NearestIn(c.start_align, constraint_get_canonical_start_range(c), start)

LastMinMaxEnd(c, start) ==
    IF start + c.max_size - 1 > DevLength - 1 THEN DevLength - 1
                                              ELSE start + c.max_size - 1

constraint_get_end_range(c, start) ==
    LET first == start + c.min_size - 1
    IN  IF first > DevLength - 1 THEN NULL
        ELSE ped_geometry_intersect(
                 Geom(first, LastMinMaxEnd(c, start) - first + 1), c.end_range)

constraint_get_nearest_end_soln(c, start, end) ==
    NearestIn(c.end_align, constraint_get_end_range(c, start), end)

FromTo(start, end) ==
    IF start = NoSector \/ end = NoSector THEN NULL ELSE Geom(start, end - start + 1)

SolveFrom(c, g, start) ==
    FromTo(start, IF start = NoSector THEN NoSector
                  ELSE constraint_get_nearest_end_soln(c, start, g.end))

ped_constraint_solve_nearest(c, g) ==
    IF c = NULL THEN NULL
    ELSE SolveFrom(c, g, constraint_get_nearest_start_soln(c, g.start))

ped_constraint_solve_max(c) ==
    IF c = NULL THEN NULL ELSE ped_constraint_solve_nearest(c, FullDev)

=============================================================================
