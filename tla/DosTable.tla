----------------------------- MODULE DosTable -----------------------------
(***************************************************************************)
(* How labels/dos.c stores the lists of PedDisk on the device: the MBR in  *)
(* sector 0 with one entry per primary partition, and a chain of extended  *)
(* tables, each with one logical partition and the place of the next       *)
(* table.  An image maps every sector to the table written there or NULL.  *)
(***************************************************************************)
EXTENDS PedDisk

Blank == [s \in 0 .. DevLength - 1 |-> NULL]

Entry(start, length) == [start |-> start, length |-> length]

(* The sector of the table that describes logical partition p: the first   *)
(* of the extended partition for number 5, else the first of whatever      *)
(* precedes p in the list.  NULL: nothing does, and part->prev is NULL.    *)
EbrSector(disk, p) ==
    LET i == CHOOSE k \in DOMAIN disk.logi : disk.logi[k] = p
    IN  IF p.num = FirstLog THEN ped_disk_extended_partition(disk).start
        ELSE IF i = 1 THEN NULL ELSE disk.logi[i - 1].start

Chain(disk) ==      \* the logical partitions that are written, in order
    LET run == {n \in FirstLog .. MaxTotalPart :
                   \A m \in FirstLog .. n : ped_disk_get_partition(disk, m) # NULL}
    IN  [i \in 1 .. Cardinality(run) |-> ped_disk_get_partition(disk, FirstLog + i - 1)]

(* A partition is stored relative to its own table, a table relative to    *)
(* the first one.                                                          *)
PartEntry(disk, p, at) == Entry(p.start - at, Length(p))

(* write_ext_table recurses before it writes, so the tail of the chain is  *)
(* written first.                                                          *)
write_ext_table(disk, image) ==
    LET ext   == ped_disk_extended_partition(disk)
        chain == Chain(disk)
        put(img, i) ==
            LET p  == chain[i]
                at == EbrSector(disk, p)
                nx == EbrSector(disk, chain[i + 1])
            IN  [img EXCEPT ![at] =
                    [part |-> PartEntry(disk, p, at),
                     next |-> IF i = Len(chain) THEN NULL
                              ELSE Entry(nx - ext.start, chain[i + 1].end - nx + 1)]]
    IN  IF chain = <<>>
        THEN [image EXCEPT ![ext.start] = [part |-> NULL, next |-> NULL]]
        ELSE FoldLeft(put, image, Reverse([i \in DOMAIN chain |-> i]))

msdos_write(disk, image) ==
    LET ext  == ped_disk_extended_partition(disk)
        img  == IF ext = NULL THEN image ELSE write_ext_table(disk, image)
        slot(n) == LET p == ped_disk_get_partition(disk, n)
                   IN  IF p = NULL THEN NULL
                       ELSE [ext |-> p.type = "extended",
                             at  |-> Entry(p.start, Length(p))]
    IN  [img EXCEPT ![0] = [n \in 1 .. NPri |-> slot(n)]]

---------------------------------------------------------------------------
(* Reading.  acc is the disk, whether all went well, and the table to read *)
(* next.  Partitions are added where the table says, with the needs_clobber *)
(* flag up, so that none of them is moved.                                 *)

Added(acc, r) == [acc EXCEPT !.d = r.d, !.ok = r.ok]

ReadPart(acc, type, num, start, length) ==
    LET p == [Part(type, "part", start, start + length - 1) EXCEPT !.num = num]
    IN  Added(acc, ped_disk_add_partition(acc.d, p, ped_constraint_exact(GeomOf(p)), FALSE))

Follow(acc, at) == [acc EXCEPT !.at = at]

ReadExtended(image, acc0, first) ==
    LET step(acc, i) ==
            LET t == image[acc.at]
                s == acc.at + t.part.start
                n == first + t.next.start
            IN  IF acc.at = NULL \/ ~ acc.ok THEN acc
                ELSE IF t = NULL \/ (t.part # NULL /\ s = acc.at)
                THEN [acc EXCEPT !.ok = FALSE]
                ELSE Follow(IF t.part = NULL THEN acc
                            ELSE ReadPart(acc, "logical", NoNum, s, t.part.length),
                            IF t.next = NULL \/ n = acc.at THEN NULL ELSE n)
    IN  FoldLeft(step, [acc0 EXCEPT !.at = first], [i \in 1 .. DevLength |-> i])

ReadLogicals(image, acc, e) ==
    IF e.ext /\ acc.ok THEN ReadExtended(image, acc, e.at.start) ELSE acc

DeletedOnError(r) == IF r.ok THEN r.d ELSE ped_disk_delete_all(r.d)

msdos_read(image) ==
    LET slot(acc, n) ==
            LET e == image[0][n]
            IN  IF ~ acc.ok \/ e = NULL THEN acc
                ELSE ReadLogicals(image,
                         ReadPart(acc, IF e.ext THEN "extended" ELSE "normal", n,
                                  e.at.start, e.at.length), e)
    IN  DeletedOnError(FoldLeft(slot, [d |-> ped_disk_new_fresh, ok |-> TRUE, at |-> NULL],
                                [n \in 1 .. NPri |-> n]))

---------------------------------------------------------------------------

(* The sectors of the tables are the tables' own: no two logical           *)
(* partitions share one and none lies inside a partition's data.           *)
OwnEbr(disk) ==
    LET chain == Chain(disk)
        at(i) == EbrSector(disk, chain[i])
    IN  \A i \in DOMAIN chain :
            /\ at(i) # NULL
            /\ \A j \in DOMAIN chain :
                 /\ at(i) = at(j) => i = j
                 /\ ~ ped_geometry_test_sector_inside(GeomOf(chain[j]), at(i))

(* Writing the table of any disk that adding, deleting and resizing can    *)
(* build destroys no partition's data: every logical partition has a table *)
(* sector of its own, although the writer takes the sector from the        *)
(* placeholder that happens to precede the partition.                      *)
EbrSafe == excuse = {} => OwnEbr(d)

(* Reading back what was written gives the same partitions with the same   *)
(* places and numbers.                                                     *)
RoundTrip ==
    excuse = {} => Active(msdos_read(msdos_write(d, Blank))) = Active(d)

(* The chain of tables on the device: every logical partition has a table  *)
(* sector, no table is written over data or over another table, and        *)
(* reading the chain gives the partitions that were written.               *)
ChainSound == MetadataPlaced /\ EbrSafe /\ RoundTrip
=============================================================================
