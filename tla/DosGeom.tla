------------------------------ MODULE DosGeom ------------------------------
(***************************************************************************)
(* The BIOS geometry of a DOS label.  A table holds each boundary twice, as *)
(* a sector number and as cylinder, head and sector under a geometry that   *)
(* nothing records.  msdos_read infers the geometry from the entries, and   *)
(* every later write must keep both notations in step.                      *)
(***************************************************************************)
EXTENDS Integers

CONSTANTS
    Geometries,   \* records [heads, sectors] a table may be written under
    Points        \* sectors where partitions may begin or end

\* What a BIOS can report: heads are numbered in a byte, sectors in six bits
\* and from 1.
ASSUME GeometriesAssumption ==
    /\ \A g \in Geometries : g \in [heads : 1 .. 255, sectors : 1 .. 63]
    /\ Points \subseteq Nat

VARIABLES
    written,   \* the geometry the table is written under, NoChs when it mixes two
    bios_geom, \* dev->bios_geom
    table,     \* entries on the disk: a sequence, in partition order
    chs_parts, \* partitions of the open disk, with the entry each came from
    chs_pc,    \* "read" or "open"
    passes     \* calls of msdos_read since the disk was opened

geom_vars == <<written, bios_geom, table, chs_parts, chs_pc, passes>>

MAX_CHS_CYLINDER == 1021

\* C's division rounds towards zero.
Quot(a, b) == IF (a < 0) = (b < 0) THEN (IF a < 0 THEN -a ELSE a) \div (IF b < 0 THEN -b ELSE b)
              ELSE - ((IF a < 0 THEN -a ELSE a) \div (IF b < 0 THEN -b ELSE b))

(***************************************************************************)
(* The two notations.  The high bits of the cylinder share a byte with the  *)
(* sector.                                                                  *)
(***************************************************************************)
chs_get_cylinder(chs) == chs.cylinder + (chs.sector \div 64) * 256
chs_get_head(chs) == chs.head
chs_get_sector(chs) == (chs.sector % 64) - 1

\* 0 stands for "not expressible".
chs_to_sector(g, chs) ==
    IF chs_get_cylinder(chs) > MAX_CHS_CYLINDER \/ chs_get_sector(chs) < 0 THEN 0
    ELSE (chs_get_cylinder(chs) * g.heads + chs_get_head(chs)) * g.sectors + chs_get_sector(chs)

RawChs(c, h, s) == [cylinder |-> c % 256, head |-> h, sector |-> s + 1 + (c \div 256) * 64]

sector_to_chs(g, sector) ==
    IF sector \div (g.heads * g.sectors) > MAX_CHS_CYLINDER THEN RawChs(1023, g.heads - 1, g.sectors - 1)
    ELSE RawChs(sector \div (g.heads * g.sectors), (sector \div g.sectors) % g.heads, sector % g.sectors)

(***************************************************************************)
(* Checking and inferring.  A partition is [start, end, boot, type, fs,     *)
(* orig]; fs is the geometry its boot sector records, or NoChs; orig is     *)
(* the table entry it was read from.                                        *)
(***************************************************************************)
NoChs == [heads |-> 0, sectors |-> 0]

partition_check_bios_geometry(p, g) ==
    /\ chs_to_sector(g, p.orig.chs_start) \in {0, p.orig.start}
    /\ chs_to_sector(g, p.orig.chs_end) \in {0, p.orig.end}

disk_check_bios_geometry(ps, g) == \A i \in DOMAIN ps : partition_check_bios_geometry(ps[i], g)

probe_filesystem_for_geom(p) ==
    IF p.fs.sectors \in 1 .. 63 /\ p.fs.heads \in 1 .. 255 THEN p.fs ELSE NoChs

\* Whether the geometry gives both boundaries, the end possibly one cylinder
\* further than the entry says.
Fits(g, e) ==
    LET at(chs, more) == ((chs_get_cylinder(chs) + more) * g.heads + chs.head) * g.sectors + chs_get_sector(chs)
    IN  at(e.chs_start, 0) = e.start /\ (at(e.chs_end, 0) = e.end \/ at(e.chs_end, 1) = e.end)

\* Two equations in the sizes of a cylinder and of a head.
Solve(e, c, h, a_, C, H, A_) ==
    LET denum == c * H - C * h
        cyl_size == IF denum = 0 THEN 0 ELSE Quot(a_ * H - A_ * h, denum)
        head_size == IF h > 0 THEN Quot(a_ - c * cyl_size, h) ELSE Quot(A_ - C * cyl_size, H)
        g == [heads |-> cyl_size \div head_size, sectors |-> head_size]
    IN  IF /\ denum # 0
           /\ cyl_size * denum = a_ * H - A_ * h
           /\ cyl_size \in 1 .. 255 * 63
           /\ head_size \in 1 .. 63
           /\ g.heads \in 1 .. 255
           /\ Fits(g, e)
        THEN g ELSE NoChs

\* Solving without the row that starts the partition.
Mut_probe_partition_for_geom(p) ==
    Solve(p.orig, 0, 1, chs_get_sector(p.orig.chs_start), chs_get_cylinder(p.orig.chs_end), p.orig.chs_end.head,
          p.orig.end - chs_get_sector(p.orig.chs_end))

probe_partition_for_geom(p) ==
    LET e == p.orig
        C == chs_get_cylinder(e.chs_end)
    IN  IF \/ e.chs_start.head > 254 \/ e.chs_end.head > 254
           \/ chs_get_cylinder(e.chs_start) > C
           \/ e.end > (C + 1) * 255 * 63
           \/ C > MAX_CHS_CYLINDER \/ C = 0
        THEN NoChs
        ELSE Solve(e, chs_get_cylinder(e.chs_start), e.chs_start.head, e.start - chs_get_sector(e.chs_start),
                   C, e.chs_end.head, e.end - chs_get_sector(e.chs_end))

Extended(ps) == CHOOSE i \in DOMAIN ps : ps[i].type = "extended"

\* The geometry one partition is written with: its own entry's, that of the
\* extended partition it lies in, or the device's.
partition_probe_bios_geometry(ps, i) ==
    LET own(j) == LET g == probe_partition_for_geom(ps[j])
                  IN  IF g = NoChs /\ ps[j].type = "extended" THEN probe_filesystem_for_geom(ps[j]) ELSE g
    IN  IF own(i) # NoChs THEN own(i)
        ELSE IF ps[i].type = "logical" /\ own(Extended(ps)) # NoChs THEN own(Extended(ps))
        ELSE bios_geom

\* The first geometry that was found, or else.
FirstFound(geoms, else) ==
    IF \A i \in DOMAIN geoms : geoms[i] = NoChs THEN else
    ELSE geoms[CHOOSE i \in DOMAIN geoms : geoms[i] # NoChs /\ \A j \in DOMAIN geoms : geoms[j] # NoChs => i <= j]

\* That of the active partition, of any entry, of any file system.
disk_probe_bios_geometry(ps) ==
    LET boot == [i \in DOMAIN ps |->
                    IF ~ ps[i].boot THEN NoChs
                    ELSE IF probe_filesystem_for_geom(ps[i]) # NoChs THEN probe_filesystem_for_geom(ps[i])
                    ELSE probe_partition_for_geom(ps[i])]
        entry == [i \in DOMAIN ps |-> probe_partition_for_geom(ps[i])]
        fs == [i \in DOMAIN ps |-> probe_filesystem_for_geom(ps[i])]
    IN  FirstFound(boot, FirstFound(entry, FirstFound(fs, bios_geom)))

\* A boundary that did not move keeps the notation it was read with.
fill_raw_part(ps, i) ==
    LET p == ps[i]
        g == partition_probe_bios_geometry(ps, i)
    IN  [start |-> p.start, end |-> p.end, boot |-> p.boot, type |-> p.type, fs |-> p.fs,
         chs_start |-> IF p.orig.start = p.start THEN p.orig.chs_start ELSE sector_to_chs(g, p.start),
         chs_end |-> IF p.orig.end = p.end THEN p.orig.chs_end ELSE sector_to_chs(g, p.end)]

raw_part_parse(e) ==
    [start |-> e.start, end |-> e.end, boot |-> e.boot, type |-> e.type, fs |-> e.fs, orig |-> e]

(***************************************************************************)
(* The foreign table, reading, resizing and writing                         *)
(***************************************************************************)
Entry(g, start, end, boot, type, fs) ==
    [start |-> start, end |-> end, boot |-> boot, type |-> type, fs |-> fs,
     chs_start |-> sector_to_chs(g, start), chs_end |-> sector_to_chs(g, end)]

\* Two primary partitions, or an extended partition with a logical one in it.
GeomInit ==
    /\ written \in Geometries /\ bios_geom \in Geometries
    /\ \E a, b, c, d \in Points, boot \in BOOLEAN, fs \in {NoChs, written} :
          /\ a < b /\ c < d
          /\ \/ b <= c /\ table = <<Entry(written, a, b - 1, FALSE, "normal", NoChs),
                                    Entry(written, c, d - 1, boot, "normal", fs)>>
             \/ /\ a < c /\ d <= b /\ ~ boot
                /\ table = <<Entry(written, a, b - 1, FALSE, "extended", NoChs),
                             Entry(written, c, d - 1, FALSE, "logical", fs)>>
    /\ chs_parts = <<>> /\ chs_pc = "read" /\ passes = 0

\* One call of msdos_read; it calls itself when the geometry changed.  (The
\* number of cylinders, compared as well, follows from the other two.)
msdos_read ==
    /\ chs_pc = "read"
    /\ \E ps \in {[i \in DOMAIN table |-> raw_part_parse(table[i])]} :
          LET g == IF disk_check_bios_geometry(ps, bios_geom) THEN bios_geom ELSE disk_probe_bios_geometry(ps)
          IN  /\ chs_parts' = ps
              /\ bios_geom' = g
              /\ chs_pc' = IF g = bios_geom THEN "open" ELSE "read"
    /\ passes' = passes + 1
    /\ UNCHANGED <<written, table>>

\* The end or the start of a primary partition moves, and the table is
\* written.
Resize(i, start, end) ==
    /\ chs_pc = "open" /\ chs_parts[i].type = "normal"
    /\ start < end /\ (start # chs_parts[i].start \/ end # chs_parts[i].end)
    /\ \A j \in DOMAIN chs_parts \ {i} : end < chs_parts[j].start \/ start > chs_parts[j].end
    /\ \E ps \in {[chs_parts EXCEPT ![i] = [@ EXCEPT !.start = start, !.end = end]]} :
          /\ table' = [j \in DOMAIN ps |-> fill_raw_part(ps, j)]
          /\ chs_parts' = ps
    /\ written' = IF bios_geom = written THEN written ELSE NoChs
    /\ UNCHANGED <<bios_geom, chs_pc, passes>>

\* Another program opens the disk; the firmware may report any geometry.
OpenAgain(g) ==
    /\ chs_pc = "open"
    /\ bios_geom' = g /\ chs_pc' = "read" /\ passes' = 0 /\ chs_parts' = <<>>
    /\ UNCHANGED <<written, table>>

GeomNext ==
    \/ msdos_read
    \/ \E i \in DOMAIN chs_parts, a, b \in Points : Resize(i, a, b - 1)
    \/ \E g \in Geometries : OpenAgain(g)

GeomSpec == GeomInit /\ [][GeomNext]_geom_vars

(***************************************************************************)
(* Properties                                                               *)
(***************************************************************************)
\* An entry from which one geometry follows: its two equations are
\* independent and its end can be expressed.
Determines(e) ==
    LET C == chs_get_cylinder(e.chs_end)
    IN  C \in 1 .. MAX_CHS_CYLINDER
        /\ chs_get_cylinder(e.chs_start) * e.chs_end.head # C * e.chs_start.head

\* Reading ends after at most two passes, and when the device's geometry
\* contradicts the table it is replaced by the one the table was written
\* under, if any entry determines it.
Recovered ==
    /\ passes <= 2
    /\ chs_pc = "open" /\ written # NoChs =>
          \/ bios_geom = written
          \/ disk_check_bios_geometry(chs_parts, bios_geom)
          \/ \A i \in DOMAIN chs_parts : ~ Determines(chs_parts[i].orig) /\ chs_parts[i].fs = NoChs

\* Resizing keeps the two notations of every boundary in step, as long as
\* the program that wrote had the geometry of the table.
InStep ==
    written # NoChs =>
        \A i \in DOMAIN table : /\ chs_to_sector(written, table[i].chs_start) \in {0, table[i].start}
                                /\ chs_to_sector(written, table[i].chs_end) \in {0, table[i].end}

\* Programs that see the disk under different geometries one after another agree
\* on its table: each finds the geometry it was written under, and writes both
\* notations under it.
GeometryKept == Recovered /\ InStep
=============================================================================
