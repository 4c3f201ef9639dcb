------------------------- MODULE ConstraintSolver -------------------------
(***************************************************************************)
(* How libparted uses its constraints: a caller starts from the constraint *)
(* that any region satisfies, narrows it with further constraints (the     *)
(* label's, the device's, the user's, the free region's) and asks for the  *)
(* region nearest to a wish.  sols is the reference: the plain set of the  *)
(* regions that satisfy every constraint given so far.                     *)
(***************************************************************************)
EXTENDS Constraint, FiniteSets

CONSTANTS
    Aligns,         \* the alignments the callers use
    Sizes,          \* the limits on a region's length they use
    MaxNarrow       \* bound: how many constraints are combined

ASSUME SolverAssumption ==
    /\ Aligns \subseteq PedAlignment
    /\ Sizes \subseteq Nat \ {0}
    /\ MaxNarrow \in Nat

VARIABLES
    con,        \* the combined PedConstraint, or NULL
    sols,       \* the regions that satisfy all of its parts
    narrowed,   \* how many parts it has
    wish, res   \* the region asked for in the end, and the answer

solver_vars == <<con, sols, narrowed, wish, res>>

Regions == {g \in [start : 0 .. DevLength - 1, end : 0 .. DevLength - 1] :
                g.start <= g.end}

Solutions(c) == {g \in Regions : c # NULL /\ ped_constraint_is_solution(c, g)}

SolveInit ==
    /\ con = ped_constraint_any
    /\ sols = Regions
    /\ narrowed = 0
    /\ wish = NULL
    /\ res = NULL

(* One call of ped_constraint_intersect(con, c). *)
Narrow(c) ==
    /\ narrowed < MaxNarrow /\ wish = NULL
    /\ con' = ped_constraint_intersect(con, c)
    /\ sols' = sols \cap Solutions(c)
    /\ narrowed' = narrowed + 1
    /\ UNCHANGED <<wish, res>>

NarrowToAlignment ==    \* what a label or a device requires
    \E s, e \in Aligns, min, max \in Sizes :
        Narrow(ped_constraint_new(s, e, FullDev, FullDev, min, max))

NarrowToExact == \E g \in Regions : Narrow(ped_constraint_exact(g))
NarrowToMax   == \E g \in Regions : Narrow(ped_constraint_new_from_max(g))
NarrowToMin   == \E g \in Regions : Narrow(ped_constraint_new_from_min(g))

NarrowToMinMax ==
    \E g, h \in Regions :
        /\ ped_geometry_test_inside(h, g)
        /\ Narrow(ped_constraint_new_from_min_max(g, h))

SolveNearest ==
    \E g \in Regions :
        /\ wish = NULL
        /\ wish' = g
        /\ res' = ped_constraint_solve_nearest(con, g)
        /\ UNCHANGED <<con, sols, narrowed>>

SolveMax ==
    /\ wish = NULL
    /\ wish' = FullDev
    /\ res' = ped_constraint_solve_max(con)
    /\ UNCHANGED <<con, sols, narrowed>>

SolveNext ==
    \/ NarrowToAlignment
    \/ NarrowToExact
    \/ NarrowToMax
    \/ NarrowToMin
    \/ NarrowToMinMax
    \/ SolveNearest
    \/ SolveMax

SolveSpec == SolveInit /\ [][SolveNext]_solver_vars

---------------------------------------------------------------------------

(* The documentation of ped_constraint_intersect: a region satisfies the   *)
(* combined constraint if and only if it satisfies each of its parts, so   *)
(* NULL is returned only for parts that exclude each other.                *)
IntersectExact == Solutions(con) = sols

(* The assertion that ends ped_constraint_solve_nearest (compiled out in   *)
(* this build): what the solver returns is a solution.                     *)
SolveSound == (wish # NULL /\ res # NULL) => res \in sols

(* The solver calls ped_geometry_init without looking at its result, and   *)
(* goes on with a region on its stack: every such call must succeed, or    *)
(* the region is uninitialised memory.                                     *)
UncheckedInitSucceeds ==
    (con # NULL /\ wish # NULL) =>
        /\ LET first == first_end_soln(con)
               last  == last_end_soln(con)
           IN  (HasEndSoln(con, first, last) /\ MaxStart(con, last) >= 0)
                 => MinStart(con, first) <= MaxStart(con, last)
        /\ LET s == constraint_get_nearest_start_soln(con, wish.start)
           IN  (s # NoSector /\ s + con.min_size <= DevLength)
                 => s + con.min_size - 1 <= LastMinMaxEnd(con, s)

(* Lengths may vary by a whole grain of the end alignment, as they do in   *)
(* every constraint the labels build, and the sector after the first       *)
(* min_size ones can be the end: the test last_end_soln < min_size refuses *)
(* the region that starts at sector 0 and has no sector to spare.          *)
Roomy(c) ==
    /\ c.max_size - c.min_size >= c.end_align.grain - 1
    /\ c.end_align.grain > 0
    /\ last_end_soln(c) # c.min_size - 1

(* With that room the solver finds a region whenever there is one, no      *)
(* other solution starts nearer to the wish, and none with that start ends *)
(* nearer to it.                                                           *)
RoomySolveNearest ==
    (wish # NULL /\ con # NULL /\ Roomy(con)) =>
        /\ res = NULL => sols = {}
        /\ res # NULL => \A g \in sols :
            /\ llabs(g.start - wish.start) >= llabs(res.start - wish.start)
            /\ g.start = res.start =>
                   llabs(g.end - wish.end) >= llabs(res.end - wish.end)

(* ped_constraint_solve_nearest on any constraint that callers build: no   *)
(* step works on an uninitialised region, the result is a solution, and    *)
(* with room to spare it is the nearest one there is.                      *)
SolveRight == UncheckedInitSucceeds /\ SolveSound /\ RoomySolveNearest
=============================================================================
