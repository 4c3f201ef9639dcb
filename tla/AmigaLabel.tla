----------------------------- MODULE AmigaLabel -----------------------------
(***************************************************************************)
(* labels/rdb.c.  The rigid disk block is one of the first sectors; from   *)
(* it hang lists of single blocks: the partitions, and the bad blocks, the *)
(* file systems with the segments of their code, and the boot blocks,      *)
(* which belong to other programs.  Cylinders are those of the device, for *)
(* which every label here was made: copying them from the label to hw_geom *)
(* changes nothing.                                                        *)
(***************************************************************************)
EXTENDS LabelCommon

CONSTANTS
    RdbLimit,       \* RDB_LOCATION_LIMIT
    AmigaMax,       \* AMIGA_MAX_PARTITIONS
    MaxRdb          \* MAX_RDB_BLOCK

ASSUME AmigaAssumption ==
    /\ RdbLimit \in Nat \ {0, 1, 2}
    /\ AmigaMax \in Nat \ {0}
    /\ 2 + AmigaMax <= MaxRdb           \* room for a fresh label's blocks

LinkEnd == -1
AmigaFlags == {"boot", "hidden", "raid", "lvm"}
AmigaCyl == CylSize(HwGeom)

(* A block that is read: a bad checksum is put right or passed over, tolerant, *)
(* or cancels the read.                                                     *)
_amiga_read_block(dev, s, tolerant) ==
    s \in DOMAIN dev /\ ("sum" \in DOMAIN dev[s] => dev[s].sum \/ tolerant)

(* The first rigid disk block, or LinkEnd. *)
_amiga_find_rdb(dev, tolerant) ==
    LET found == {s \in 0 .. RdbLimit - 1 :
                     dev[s].tag = "RDSK" /\ _amiga_read_block(dev, s, tolerant)}
    IN  IF found = {} THEN LinkEnd ELSE CHOOSE s \in found : \A t \in found : s <= t

(* Probing answers no question, which passes over a bad checksum. *)
amiga_probe(dev) == _amiga_find_rdb(dev, TRUE) # LinkEnd

amiga_alloc(bios) ==
    LET high == 1 + MaxRdb \div AmigaCyl
    IN  Okay(BlankDisk("amiga", bios,
            [tag |-> "RDSK", sum |-> TRUE, parts |-> LinkEnd, bad |-> LinkEnd,
             fshd |-> LinkEnd, boot |-> LinkEnd, lo |-> 0, hi |-> high * AmigaCyl - 1]))

---------------------------------------------------------------------------
(* Reading. *)

AmigaPart(b, n, fs) ==
    LET g == [start |-> b.low * AmigaCyl, end |-> (b.high + 1) * AmigaCyl - 1]
    IN  Numbered([LabelPart("normal", g, b.id, b.name) EXCEPT !.flags = b.flags, !.fs = fs], n)

(* The partition blocks in the order of their list: fewer than AmigaMax of *)
(* them, and none twice.                                                   *)
RECURSIVE AmigaChain(_, _, _)
AmigaChain(dev, s, seen) ==
    IF s = LinkEnd \/ Len(seen) = AmigaMax - 1 \/ Contains(seen, s) \/ s \notin DOMAIN dev
    THEN seen
    ELSE AmigaChain(dev, IF "next" \in DOMAIN dev[s] THEN dev[s].next ELSE LinkEnd, Append(seen, s))

(* A partition's number is its place in the list. *)
amiga_read(disk, dev, fs, ignore) ==
    LET at == _amiga_find_rdb(dev, ignore)
        chain == AmigaChain(dev, dev[at].parts, <<>>)
        add(acc, n) ==
            IF ~ acc.ok \/ ~ _amiga_read_block(dev, chain[n], ignore) THEN Fail(acc.d)
            ELSE ReadPart(acc, AmigaPart(dev[chain[n]], n, fs), ignore)
    IN  IF at = LinkEnd THEN Fail(disk)
        ELSE FoldLeft(add, Okay([ped_disk_delete_all(disk) EXCEPT !.spec = dev[at]]),
                      [n \in DOMAIN chain |-> n])

(* The blocks that a read looks at and whose checksums it repairs when the *)
(* user wants it to.                                                       *)
AmigaRepaired(dev) ==
    LET at   == _amiga_find_rdb(dev, TRUE)
        read == {at} \cup Range(AmigaChain(dev, dev[at].parts, <<>>))
    IN  IF at = LinkEnd THEN dev
        ELSE [s \in DOMAIN dev |-> IF s \in read THEN [dev[s] EXCEPT !.sum = TRUE] ELSE dev[s]]

---------------------------------------------------------------------------
(* Writing. *)

(* Marks the blocks of a list in the table.  A block that is marked already *)
(* ends the list, if the user accepts that.  buf is the link of the block   *)
(* that was read last: the list of segments is read into the same buffer,   *)
(* so that the list of file systems goes on where that one ended.           *)
RECURSIVE _amiga_find_free_blocks(_, _, _, _, _)
_amiga_find_free_blocks(dev, acc, next, type, fix) ==
    LET marked == [acc EXCEPT !.table[next] = type, !.buf = dev[next].next]
        linked == IF type = "FSHD"
                  THEN _amiga_find_free_blocks(dev, marked, dev[next].linked, "LSEG", fix)
                  ELSE marked
    IN  CASE ~ acc.ok \/ next = LinkEnd -> acc
          [] acc.table[next] # "free" -> [acc EXCEPT !.ok = fix]
          [] ~ _amiga_read_block(dev, next, fix) \/ dev[next].tag # type -> [acc EXCEPT !.ok = FALSE]
          [] OTHER -> _amiga_find_free_blocks(dev, linked, linked.buf, type, fix)

(* The blocks for partitions, one after the other: those of the old list    *)
(* and those of no list.                                                    *)
_amiga_next_free_block(table) ==
    SelectSeq([i \in 1 .. Cardinality(DOMAIN table) |-> i - 1],
              LAMBDA i : table[i] \in {"PART", "free"})

AmigaTable(rdb, num) ==
    [i \in 0 .. 1 + Max({rdb.hi - rdb.lo, num}) |-> IF i <= num THEN "RDSK" ELSE "free"]

(* The four lists in turn, until one cannot be read. *)
AmigaMarked(dev, rdb, num, fix) ==
    LET lists == << <<"bad", "BADB">>, <<"parts", "PART">>, <<"fshd", "FSHD">>, <<"boot", "BOOT">> >>
    IN  FoldLeft(LAMBDA acc, l : _amiga_find_free_blocks(dev, acc, rdb[l[1]], l[2], fix),
                 [ok |-> TRUE, table |-> AmigaTable(rdb, num), buf |-> LinkEnd], lists)

AmigaBlock(p, next) ==
    [tag |-> "PART", sum |-> TRUE, next |-> next, id |-> p.id, flags |-> p.flags,
     name |-> p.name, low |-> p.start \div AmigaCyl, high |-> (p.end + 1) \div AmigaCyl - 1]

(* What is on the medium once the partitions, in the order they lie on the  *)
(* disk, and then the rigid disk block have been written.                   *)
AmigaWritten(dev, rdb, num, parts, blocks) ==
    LET link(k) == IF k > Len(parts) THEN LinkEnd ELSE blocks[k]
        new     == [rdb EXCEPT !.parts = link(1), !.sum = TRUE]
        slots   == {blocks[k] : k \in DOMAIN parts}
    IN  [rdb |-> new,
         dev |-> [s \in DOMAIN dev |->
                    IF s = num THEN new
                    ELSE IF s \notin slots THEN dev[s]
                    ELSE LET k == CHOOSE i \in DOMAIN parts : blocks[i] = s
                         IN  AmigaBlock(parts[k], link(k + 1))]]

(* A rigid disk block that is on the medium replaces the one in memory; a   *)
(* fresh one goes to block 2.  The lists are looked through first, and what *)
(* is repaired there is repaired whatever comes after.                      *)
amiga_write(disk, dev, fix) ==
    LET at    == _amiga_find_rdb(dev, fix)
        num   == IF at = LinkEnd THEN 2 ELSE at
        rdb   == IF at = LinkEnd THEN disk.spec ELSE dev[at]
        mark  == AmigaMarked(dev, rdb, num, fix)
        fixed == [s \in DOMAIN dev |->
                    IF fix /\ s > num /\ s \in DOMAIN mark.table /\ mark.table[s] # "free"
                    THEN [dev[s] EXCEPT !.sum = TRUE] ELSE dev[s]]
        w     == AmigaWritten(fixed, rdb, num, SelectSeq(disk.prim, IsActive),
                              _amiga_next_free_block(mark.table))
    IN  IF mark.ok THEN [d |-> [disk EXCEPT !.spec = w.rdb], dev |-> w.dev, ok |-> TRUE]
        ELSE [d |-> [disk EXCEPT !.spec = rdb], dev |-> fixed, ok |-> FALSE]

---------------------------------------------------------------------------
(* Partitions. *)

(* DosType of a file system; names are those that fit the block. *)
AmigaIds ==
    [none |-> "LNX", ext2 |-> "LNX", ext3 |-> "EXT", swap |-> "SWP", fat16 |-> "FAT",
     fat32 |-> "FAT1", hfs |-> "HFS", jfs |-> "JFS", ntfs |-> "NTFS", reiserfs |-> "RFS",
     ufs |-> "SUFS", xfs |-> "XFS"]

AmigaId(fs) == IF fs \in DOMAIN AmigaIds THEN AmigaIds[fs] ELSE "unknown"

amiga_partition_new(type, g) == LabelPart(type, g, AmigaId("none"), "dhx")

amiga_partition_set_system(p, fs) == [p EXCEPT !.fs = fs, !.id = AmigaId(fs)]

amiga_partition_set_flag(p, flag, state) == WithFlag(p, flag, state)

amiga_flag_available(flag) == flag \in AmigaFlags

(* Whole cylinders behind the blocks of the label. *)
_amiga_get_constraint ==
    ped_constraint_new(ped_alignment_new(0, AmigaCyl), ped_alignment_new(-1, AmigaCyl),
        Geom(MaxRdb + 1, DevLength - MaxRdb - 1), Geom(MaxRdb + 1, DevLength - MaxRdb - 1),
        1, DevLength)

amiga_partition_align == <<_amiga_get_constraint>>

amiga_partition_enumerate(disk, p) == KeepOrLowest(disk, p, 1 .. AmigaMax)

amiga_alloc_metadata(disk) == AddMetadata(Okay(disk), "normal", 0, MaxRdb)

---------------------------------------------------------------------------
(* The blocks of the lists that belong to other programs. *)
RECURSIVE AmigaLinks(_, _)
AmigaLinks(dev, s) ==
    IF s = LinkEnd THEN {}
    ELSE {s} \cup AmigaLinks(dev, dev[s].next)
             \cup (IF dev[s].tag = "FSHD" THEN AmigaLinks(dev, dev[s].linked) ELSE {})

AmigaForeign(dev) ==
    LET at == _amiga_find_rdb(dev, TRUE)
    IN  IF at = LinkEnd THEN {}
        ELSE UNION {AmigaLinks(dev, dev[at][l]) : l \in {"bad", "fshd", "boot"}}

=============================================================================
