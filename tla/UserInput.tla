----------------------------- MODULE UserInput -----------------------------
(***************************************************************************)
(* What becomes of the start and the end a user types for a partition:     *)
(* unit.c reads them, parted.c moves an end given in IEC units and snaps   *)
(* both to the boundaries of the partitions and free regions on the disk.  *)
(*                                                                         *)
(* A typed or printed number is counted in hundredths, the most decimals   *)
(* that are ever printed.                                                  *)
(***************************************************************************)
EXTENDS NatMath, FiniteSets

CONSTANTS
    DevLength,      \* dev->length
    SectorSize,     \* dev->sector_size in bytes
    Heads, Sectors, \* dev->bios_geom
    Bytes,          \* unit |-> its size, of the units that have a fixed one
    Hundred,        \* how many PED_UNIT_PERCENT make the device
    Defaults,       \* the default units the user chooses
    Texts,          \* what the user may type: number, sign and suffix
    Layouts         \* the disks: sequences of regions that tile the device

(* The units of unit_names but compact. *)
Units == {"s", "chs", "cyl", "%"} \cup DOMAIN Bytes

(* A number that is typed or printed. *)
NumberText == [num : Nat, neg : BOOLEAN, suffix : Units \cup {""}]

(* The regions print shows: none is empty and each sector is in one.       *)
Tiled(regions) ==
    /\ \A i \in DOMAIN regions :
          /\ regions[i].start \in 0 .. DevLength - 1 /\ regions[i].end \in 0 .. DevLength - 1
          /\ regions[i].start <= regions[i].end
    /\ \A i, j \in DOMAIN regions : ped_geometry_test_overlap(regions[i], regions[j]) => i = j
    /\ \A sector \in 0 .. DevLength - 1 :
          \E i \in DOMAIN regions : ped_geometry_test_sector_inside(regions[i], sector)

ASSUME UserInputAssumption ==
    /\ DevLength \in Nat \ {0} /\ Heads \in Nat \ {0} /\ Sectors \in Nat \ {0}
    /\ SectorSize \in Nat \ {0} /\ Hundred \in Nat \ {0} /\ Hundred <= DevLength * SectorSize
    /\ \A u \in DOMAIN Bytes : Bytes[u] \in Nat \ {0}
    /\ {"B", "kB"} \subseteq DOMAIN Bytes
    /\ {"s", "chs", "cyl", "%", "compact", ""} \cap DOMAIN Bytes = {}
    /\ Defaults \subseteq Units \cup {"compact"} /\ Texts \subseteq NumberText
    /\ \A regions \in Layouts : Tiled(regions)

VARIABLES
    unit,       \* default_unit
    tiles,      \* the regions of the disk
    stage,      \* "start", "end", "snap", "done" or "error"
    start, end, \* the sectors typed
    range_start, range_end,
    typed,      \* what was typed for the end
    new,        \* part->geom of the new partition
    retyped     \* the region whose printed ends the user typed, or NULL

input_vars == <<unit, tiles, stage, start, end, range_start, range_end, typed, new, retyped>>

---------------------------------------------------------------------------
(* unit.c *)

IEC == {"kiB", "MiB"}

ped_unit_get_size(u) ==
    CASE u \in {"s", "chs"} -> SectorSize
      [] u = "cyl" -> Heads * Sectors * SectorSize
      [] u = "%" -> (DevLength * SectorSize) \div Hundred
      [] OTHER -> Bytes[u]

(* Three digits are printed of most units, and a half is rounded up.       *)
RoundTo(n, step) == ((n + step \div 2) \div step) * step

ped_unit_format_custom_byte(byte, u) ==
    LET custom == IF u # "compact" THEN u
                  ELSE IF byte >= 10 * Bytes["kB"] THEN "kB" ELSE "B"
        size == ped_unit_get_size(custom)
        step == IF 100 * byte < 995 * size THEN 1
                ELSE IF 10 * byte < 995 * size THEN 10 ELSE 100
    IN IF u \in {"chs", "cyl", "s", "B"}
       THEN [num |-> 100 * (byte \div size), neg |-> FALSE, suffix |-> custom]
       ELSE [num |-> RoundTo((200 * byte + size) \div (2 * size), step), neg |-> FALSE,
             suffix |-> custom]

ped_unit_format(sector, u) == ped_unit_format_custom_byte(sector * SectorSize, u)

parse_unit_suffix(suffix, suggested) ==
    IF suffix # "" THEN suffix
    ELSE IF suggested = "compact" THEN "kB" ELSE suggested

clip(sector) == IF sector < 0 THEN 0 ELSE IF sector > DevLength - 1 THEN DevLength - 1 ELSE sector

geometry_from_centre_radius(sector, radius) ==
    LET s == clip(sector - radius)
        e == clip(sector + radius)
    IN IF sector - e > radius \/ s - sector > radius THEN NULL
       ELSE [start |-> s, end |-> e]

(* A location in cylinders, heads and sectors is exact. *)
parse_chs(sector) ==
    IF sector >= DevLength THEN NULL
    ELSE [sector |-> sector, range |-> [start |-> sector, end |-> sector]]

(* Units of 1000 stand for a range of one unit, the others for a sector. *)
Radius(u) ==
    LET r == ((ped_unit_get_size(u) + SectorSize - 1) \div SectorSize) \div 2 - 1
    IN IF u \in IEC \/ r < 0 THEN 0 ELSE r

ped_unit_parse_custom(text, suggested) ==
    LET u == parse_unit_suffix(text.suffix, suggested)
        size == ped_unit_get_size(u)
        distance == (text.num * size) \div (100 * SectorSize)
        sector == IF text.neg THEN DevLength - distance ELSE distance
        range == geometry_from_centre_radius(sector, Radius(u))
    IN IF u = "chs" THEN parse_chs(text.num \div 100)
       ELSE IF (~text.neg /\ text.num > 0 /\ text.num < 100) \/ range = NULL THEN NULL
       ELSE [sector |-> clip(sector), range |-> range]

---------------------------------------------------------------------------
(* parted.c *)

ends_with_iec_unit(text) == text.suffix \in IEC
has_unit_suffix(text) == text.suffix # ""

(* The end is the sector before the location, unless that is the start. *)
adjust_end_if_iec(s, e, range, text) ==
    IF s # e /\ (ends_with_iec_unit(text) \/ (~has_unit_suffix(text) /\ unit \in IEC))
    THEN [end |-> e - 1, range |-> [start |-> range.start - 1, end |-> range.end - 1]]
    ELSE [end |-> e, range |-> range]

By(sector) == CHOOSE i \in DOMAIN tiles : ped_geometry_test_sector_inside(tiles[i], sector)

(* what is 0 for a start and -1 for an end.  The moves that are out of     *)
(* range are dropped and the nearest of the others is preferred.           *)
prefer_snap(s, what, range, allow, part) ==
    LET up == part.end + 1 + what
        down == part.start + what
        can == {m \in allow : ped_geometry_test_sector_inside(range, IF m = "up" THEN up ELSE down)}
        updist == up - s
        downdist == s - down
        want == CASE can = {} -> "still"
                  [] can = {"up"} -> "up"
                  [] can = {"down"} -> "down"
                  [] OTHER -> IF downdist < updist \/ (downdist = updist /\ what = 0)
                              THEN "down" ELSE "up"
    IN [want |-> want,
        dist |-> CASE want = "up" -> updist [] want = "down" -> downdist [] OTHER -> 0,
        to |-> CASE want = "up" -> up [] want = "down" -> down [] OTHER -> s]

(* Mutant: start and end are snapped each on their own. *)
Mut_snap_to_boundaries(s, e, rs, re) ==
    LET sp == tiles[By(s)]
        ep == tiles[By(e)]
        both == IF sp = ep THEN {} ELSE {"up", "down"}
    IN [start |-> prefer_snap(s, 0, rs, both \cup {"down"}, sp).to,
        end |-> prefer_snap(e, -1, re, both \cup {"up"}, ep).to]

(* Start and end may not cross: not within one region, and on adjacent     *)
(* ones the nearer boundary wins.                                          *)
snap_to_boundaries(s, e, rs, re) ==
    LET sp == tiles[By(s)]
        ep == tiles[By(e)]
        same == sp = ep
        sallow == IF same THEN {"down"} ELSE {"up", "down"}
        eallow == IF same THEN {"up"} ELSE {"up", "down"}
        sw == prefer_snap(s, 0, rs, sallow, sp)
        ew == prefer_snap(e, -1, re, eallow, ep)
        crossing == sp.end + 1 = ep.start /\ sw.want = "up" /\ ew.want = "down"
        sw2 == IF crossing /\ ew.dist < sw.dist
               THEN prefer_snap(s, 0, rs, {"down"}, sp) ELSE sw
        ew2 == IF crossing /\ ~(ew.dist < sw.dist)
               THEN prefer_snap(e, -1, re, {"up"}, ep) ELSE ew
    IN [start |-> sw2.to, end |-> ew2.to]

---------------------------------------------------------------------------
InputInit ==
    /\ unit \in Defaults /\ tiles \in Layouts
    /\ stage = "start"
    /\ start = 0 /\ end = 0 /\ range_start = NULL /\ range_end = NULL
    /\ typed = NULL /\ new = NULL /\ retyped = NULL

(* command_line_get_sector for the start and for the end *)
TypeStart(text) ==
    /\ stage = "start"
    /\ \E p \in {ped_unit_parse_custom(text, unit)} :
        \/ p = NULL /\ stage' = "error" /\ UNCHANGED <<start, range_start>>
        \/ p # NULL /\ stage' = "end" /\ start' = p.sector /\ range_start' = p.range
    /\ UNCHANGED <<unit, tiles, end, range_end, typed, new>>

TypeEnd(text) ==
    /\ stage = "end"
    /\ typed' = text
    /\ \E p \in {ped_unit_parse_custom(text, unit)} :
        \/ p = NULL /\ stage' = "error" /\ UNCHANGED <<end, range_end>>
        \/ /\ p # NULL
           /\ \E moved \in {adjust_end_if_iec(start, p.sector, p.range, text)} :
                end' = moved.end /\ range_end' = moved.range
           /\ stage' = "snap"
    /\ UNCHANGED <<unit, tiles, start, range_start, new, retyped>>

(* ped_partition_new refuses an end before the start. *)
NewPartition ==
    /\ stage = "snap"
    /\ \/ end < start /\ stage' = "error" /\ UNCHANGED new
       \/ /\ start <= end
          /\ new' = snap_to_boundaries(start, end, range_start, range_end)
          /\ stage' = "done"
    /\ UNCHANGED <<unit, tiles, start, end, range_start, range_end, typed, retyped>>

(* print shows where a region starts and its last byte. *)
PrintedStart(g) == ped_unit_format(g.start, unit)
PrintedEnd(g) == ped_unit_format_custom_byte((g.end + 1) * SectorSize - 1, unit)

Type ==
    \/ \E text \in Texts : TypeStart(text) /\ UNCHANGED retyped
    \/ \E i \in DOMAIN tiles : TypeStart(PrintedStart(tiles[i])) /\ retyped' = tiles[i]
    \/ \E text \in Texts : retyped = NULL /\ TypeEnd(text)
    \/ retyped # NULL /\ TypeEnd(PrintedEnd(retyped))

Again ==
    /\ stage \in {"done", "error"}
    /\ stage' = "start" /\ start' = 0 /\ end' = 0 /\ range_start' = NULL /\ range_end' = NULL
    /\ typed' = NULL /\ new' = NULL /\ retyped' = NULL
    /\ UNCHANGED <<unit, tiles>>

InputNext == Type \/ NewPartition \/ Again

InputSpec == InputInit /\ [][InputNext]_input_vars

---------------------------------------------------------------------------
(* What the assertions of snap_to_boundaries ask for and what do_mkpart    *)
(* builds its constraint on: both ends stay in the ranges the user gave,   *)
(* on the device and in order.                                             *)
SnapOrdered ==
    stage = "done" =>
        /\ ped_geometry_test_sector_inside(range_start, new.start)
        /\ ped_geometry_test_sector_inside(range_end, new.end)
        /\ 0 <= new.start /\ new.start <= new.end /\ new.end < DevLength

(* A region of the disk whose start and end are typed as print shows them  *)
(* is that region again, when the ranges typed reach its ends: for regions *)
(* that are no smaller than the range a printed number stands for.         *)
Retyped ==
    stage = "done" /\ retyped # NULL =>
        \/ ~ped_geometry_test_sector_inside(range_start, retyped.start)
        \/ ~ped_geometry_test_sector_inside(range_end, retyped.end)
        \/ new = retyped

(* A partition whose end is typed in IEC units ends right before that      *)
(* location, so that the next one can start there: unless it was also      *)
(* typed for the start.                                                    *)
IecAbuts ==
    stage = "done" /\ ends_with_iec_unit(typed) =>
        \E next \in {ped_unit_parse_custom(typed, unit).sector} :
            start # next => new.end + 1 = next

(* The region that do_mkpart asks for is one the user typed: in the ranges *)
(* given, in order, and up to an end in IEC units.                         *)
PlacedAsTyped == SnapOrdered /\ IecAbuts
=============================================================================
