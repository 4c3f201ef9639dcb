------------------------------ MODULE FsProbe ------------------------------
(***************************************************************************)
(* File system detection: ped_file_system_probe and the probe of every file *)
(* system type in the repository.                                           *)
(*                                                                          *)
(* The device is a sparse function from sectors to what was last written    *)
(* there: a superblock, a boot sector, an anchor.  mkfs programs write the  *)
(* sectors of their own signatures and leave the older ones of other file   *)
(* systems in place; detection has to tell the newest from the leftovers by *)
(* the region each one claims.  Offsets are the code's, in 512-byte sectors. *)
(***************************************************************************)
EXTENDS Integers, SequencesExt

CONSTANTS
    DevLengths,  \* lengths a device may have
    IntBits,     \* width of a C int
    Parts,       \* partitions that may be made: records [start, len]
    Kinds,       \* what mkfs programs may be run
    FsTypes,     \* registered types, in the order of registration
    VrsBlocks,   \* volume descriptors looked at (64 in the code)
    MaxMkfs      \* bound on the number of mkfs runs

VARIABLES dev_len, disk, part, made, seen

probe_vars == <<dev_len, disk, part, made, seen>>

(***************************************************************************)
(* Geometries and reads                                                     *)
(***************************************************************************)
NoGeom == [start |-> 0, len |-> 0]
Blank == [sig |-> "blank"]

End(g) == g.start + g.len - 1

\* Only an empty range is refused: a claim may run past the device's end.
ped_geometry_new(start, len) == IF len < 1 THEN NoGeom ELSE [start |-> start, len |-> len]

ped_device_read_ok(start, count) == start >= 0 /\ start + count <= dev_len

ped_geometry_read(g, off, count) ==
    /\ g.start + off + count - 1 <= End(g)
    /\ ped_device_read_ok(g.start + off, count)

At(d, s) == IF s \in DOMAIN d THEN d[s] ELSE Blank
Has(d, s, sig) == At(d, s).sig = sig

(***************************************************************************)
(* Types that keep their length in the superblock                           *)
(***************************************************************************)
ntfs_probe(d, g) ==
    IF ped_geometry_read(g, 0, 1) /\ Has(d, g.start, "boot") /\ At(d, g.start).oem = "NTFS"
    THEN ped_geometry_new(g.start, At(d, g.start).length)
    ELSE NoGeom

jfs_probe(d, g) ==
    IF g.len >= 64 /\ ped_geometry_read(g, 64, 1) /\ Has(d, g.start + 64, "jfs")
    THEN ped_geometry_new(g.start, At(d, g.start + 64).len)
    ELSE NoGeom

xfs_probe(d, g) ==
    IF g.len >= 1 /\ ped_geometry_read(g, 0, 1) /\ Has(d, g.start, "xfs")
    THEN ped_geometry_new(g.start, At(d, g.start).len)
    ELSE NoGeom

\* The 64 kB superblock is tried first, the 8 kB one of old volumes second.
reiserfs_probe(d, g) ==
    LET found(off) == off < g.len /\ ped_geometry_read(g, off, 1) /\ Has(d, g.start + off, "reiserfs")
    IN  IF found(128) THEN ped_geometry_new(g.start, At(d, g.start + 128).len)
        ELSE IF found(16) THEN ped_geometry_new(g.start, At(d, g.start + 16).len)
        ELSE NoGeom

\* Three sectors from 8 kB are read; the magic is in the last of them.
UfsProbe(d, g, magics) ==
    IF /\ g.len >= 5 /\ ped_geometry_read(g, 16, 3)
       /\ Has(d, g.start + 18, "ufs") /\ At(d, g.start + 18).magic \in magics
    THEN ped_geometry_new(g.start, At(d, g.start + 18).len)
    ELSE NoGeom

ufs_probe_sun(d, g) == UfsProbe(d, g, {"UFS"})
ufs_probe_hp(d, g) == UfsProbe(d, g, {"LFN", "FEA", "4GB"})

is_ext3(feat) == "has_journal" \in feat
is_ext4(feat) ==
    is_ext3(feat) /\ feat \cap {"huge_file", "gdt_csum", "dir_nlink", "extents", "64bit", "flex_bg"} # {}

\* A backup superblock names its group; the code then looks where it expects
\* group 0, counting the distance in blocks where the start is in sectors.
RECURSIVE _ext2_generic_probe(_, _, _)
_ext2_generic_probe(d, g, expect_ext_ver) ==
    IF ~ ped_geometry_read(g, 0, 8) \/ ~ Has(d, g.start + 2, "ext") THEN NoGeom
    ELSE LET sb == At(d, g.start + 2)
             version == IF is_ext4(sb.feat) THEN 4 ELSE IF is_ext3(sb.feat) THEN 3 ELSE 2
             start == g.start - sb.group_blocks * sb.group_nr - sb.first_data_block
         IN  IF expect_ext_ver # version THEN NoGeom
             ELSE IF sb.group_nr = 0 THEN ped_geometry_new(g.start, sb.len)
             ELSE IF start < 0 THEN NoGeom
             ELSE _ext2_generic_probe(d, [start |-> start, len |-> sb.len], expect_ext_ver)

(***************************************************************************)
(* Types that claim the whole region, or one computed from its length       *)
(***************************************************************************)
btrfs_probe(d, g) ==
    IF g.len >= 129 /\ ped_geometry_read(g, 128, 1) /\ Has(d, g.start + 128, "btrfs")
    THEN ped_geometry_new(g.start, g.len)
    ELSE NoGeom

f2fs_probe(d, g) ==
    IF ped_geometry_read(g, 2, 1) /\ Has(d, g.start + 2, "f2fs")
    THEN ped_geometry_new(g.start, g.len)
    ELSE NoGeom

\* The second superblock lies at the start of the last whole 4 kB block but one.
NILFS_SB2_OFFSET(len) == (len \div 8 - 1) * 8

\* s_sum covers the superblock, so any sector that was overwritten is refused.
is_valid_nilfs_sb(d, s) == Has(d, s, "nilfs2")

nilfs2_probe(d, g) ==
    LET sb2off == NILFS_SB2_OFFSET(g.len)
    IN  IF /\ sb2off > 2
           /\ \/ ped_geometry_read(g, 0, 8) /\ is_valid_nilfs_sb(d, g.start + 2)
              \/ ped_geometry_read(g, sb2off, 2) /\ is_valid_nilfs_sb(d, g.start + sb2off)
        THEN ped_geometry_new(g.start, sb2off + 8)
        ELSE NoGeom

(***************************************************************************)
(* Linux swap: the signature ends the first page                            *)
(***************************************************************************)
Page == 8

swap_init(g) == ped_geometry_read(g, 0, Page)

SwapMagic(d, g) == IF Has(d, g.start + 7, "swap") THEN At(d, g.start + 7).magic ELSE ""

_swap_v0_open(d, g) == swap_init(g) /\ SwapMagic(d, g) = "SWAP-SPACE"
_swap_v1_open(d, g) == swap_init(g) /\ SwapMagic(d, g) = "SWAPSPACE2"
_swap_swsusp_open(d, g) == swap_init(g) /\ SwapMagic(d, g) = "S1SUSPEND"

\* Version 0 has no length of its own; version 1 counts up to its last page,
\* one short of the number of pages; swsusp keeps the count of swap_init.
_generic_swap_probe(d, g, kind) ==
    CASE kind = 0 /\ _swap_v0_open(d, g) -> ped_geometry_new(g.start, g.len)
      [] kind = 1 /\ _swap_v1_open(d, g) -> ped_geometry_new(g.start, Page * At(d, g.start + 7).last_page)
      [] kind = -1 /\ _swap_swsusp_open(d, g) -> ped_geometry_new(g.start, Page * (g.len \div Page))
      [] OTHER -> NoGeom

(***************************************************************************)
(* UDF                                                                      *)
(***************************************************************************)
\* The volume recognition sequence runs from 32 kB until a descriptor the
\* code does not know; an NSR descriptor in it is wanted.
check_vrs(d, g, vsd) ==
    LET s(block) == 64 + block * vsd
        id(block) == IF Has(d, g.start + s(block), "vsd") THEN At(d, g.start + s(block)).id ELSE ""
    IN  \E b \in 0 .. VrsBlocks - 1 :
            /\ id(b) \in {"NSR02", "NSR03"}
            /\ \A c \in 0 .. b : ped_geometry_read(g, s(c), 1)
            /\ \A c \in 0 .. b - 1 : id(c) \in {"BEA01", "TEA01", "BOOT2", "CD001", "CDW02"}

check_anchor(d, g, blocksize, rel_block) ==
    LET blocks == g.len \div blocksize
        block == IF rel_block < 0 THEN blocks + rel_block ELSE rel_block
    IN  /\ rel_block < 0 => blocks > - rel_block /\ block >= 257
        /\ ped_geometry_read(g, block * blocksize, 1)
        /\ Has(d, g.start + block * blocksize, "avdp")
        /\ At(d, g.start + block * blocksize).location = block

detect_anchor(d, g, blocksize) ==
    \E rel \in {256, -257, -1, 512} : check_anchor(d, g, blocksize, rel)

detect_udf(d, g) ==
    \/ check_vrs(d, g, 4) /\ \E b \in {1, 2, 4} : detect_anchor(d, g, b)
    \/ \E b \in {8, 16, 32, 64} : check_vrs(d, g, b) /\ detect_anchor(d, g, b)

udf_probe(d, g) == IF detect_udf(d, g) THEN g ELSE NoGeom

(***************************************************************************)
(* FAT                                                                      *)
(***************************************************************************)
MAX_FAT12_CLUSTERS == 4086

fat_boot_sector_read(d, g) ==
    /\ ped_geometry_read(g, 0, 1)
    /\ Has(d, g.start, "boot")
    /\ LET bs == At(d, g.start)
       IN  bs.sector_size > 0 /\ bs.cluster_size > 0 /\ bs.reserved > 0 /\ bs.fats \in 1 .. 4

\* Sector counts are those of 512-byte logical sectors.  The number of
\* clusters comes from the partition's length, not from the boot sector.
fat_boot_sector_probe_type(bs, g) ==
    LET room == g.len - (bs.reserved + 2 * bs.fat_length + bs.dir_entries \div 16)
        negative == room <= - bs.cluster_size      \* a huge number once unsigned
    IN  IF bs.dir_entries = 0 THEN "fat32"
        ELSE IF negative \/ room \div bs.cluster_size > MAX_FAT12_CLUSTERS
             THEN "fat16" ELSE "fat12"

\* Detection fetches exceptions, so nobody answers the question about a CHS
\* geometry that makes no sense, and the default is to go on.
fat_boot_sector_analyse(bs, g) == fat_boot_sector_probe_type(bs, g) # "fat12"

fat_probe(d, g, fat_type) ==
    IF /\ fat_boot_sector_read(d, g)
       /\ fat_boot_sector_analyse(At(d, g.start), g)
       /\ fat_boot_sector_probe_type(At(d, g.start), g) = fat_type
    THEN ped_geometry_new(g.start, At(d, g.start).sector_count)
    ELSE NoGeom

(***************************************************************************)
(* HFS                                                                      *)
(***************************************************************************)
\* The alternate block is read into the buffer's first sector while mdb still
\* points at the third: the signature compared is the one already found.
hfs_and_wrapper_probe(d, g) ==
    IF g.len < 5 \/ ~ ped_geometry_read(g, 0, 3) \/ ~ Has(d, g.start + 2, "hfs") THEN NoGeom
    ELSE LET mdb == At(d, g.start + 2)
             search == mdb.start_block + mdb.total_blocks * mdb.block_size
         IN  IF mdb.block_size > 0 /\ ped_device_read_ok(g.start + search, 1)
             THEN ped_geometry_new(g.start, search + 2)
             ELSE NoGeom

\* The region that ends with the first alternate header in lo .. hi - 1; a
\* read past the device ends the search.
AlternateHeader(d, g, sig, lo, hi) ==
    LET hits == {s \in lo .. hi - 1 : Has(d, g.start + s, sig) /\ ped_device_read_ok(g.start + s, 1)}
    IN  IF hits = {} THEN NoGeom ELSE ped_geometry_new(g.start, Min(hits) + 2)

\* After a search that read something the header's fields are those of the
\* last sector read, which are zero or meaningless: the older place is
\* looked at only when the very first read failed.
hfsplus_probe(d, g) ==
    LET wrapper == hfs_and_wrapper_probe(d, g)
        vh == At(d, g.start + 2)
        max == (vh.total_blocks + 1) * vh.block_size - 2
        search == max - 2 * vh.block_size + 2
        older == (vh.total_blocks - 1) * vh.block_size - 1
    IN  CASE wrapper # NoGeom ->
                 IF vh.embedded THEN wrapper ELSE NoGeom
          [] wrapper = NoGeom /\ (g.len < 5 \/ ~ ped_geometry_read(g, 2, 1) \/ ~ Has(d, g.start + 2, "hfs+")) -> NoGeom
          [] OTHER ->
                 IF search < 0 THEN NoGeom
                 ELSE IF ped_device_read_ok(g.start + search, 1)
                 THEN AlternateHeader(d, g, "hfs+", search, max)
                 ELSE IF older >= 0 THEN AlternateHeader(d, g, "hfs+", older, older + 1)
                 ELSE NoGeom

hfs_probe(d, g) ==
    LET base == hfs_and_wrapper_probe(d, g)
    IN  IF base # NoGeom /\ hfsplus_probe(d, base) = NoGeom THEN base ELSE NoGeom

hfsx_probe(d, g) ==
    IF g.len < 5 \/ ~ ped_geometry_read(g, 2, 1) \/ ~ Has(d, g.start + 2, "hfsx") THEN NoGeom
    ELSE LET vh == At(d, g.start + 2)
             max == (vh.total_blocks + 1) * vh.block_size - 2
         IN  IF max < vh.block_size THEN NoGeom
             ELSE AlternateHeader(d, g, "hfsx", max - vh.block_size, max)

(***************************************************************************)
(* Amiga file systems.  amiga_find_part never recognises a partition block  *)
(* (its identifier is compared without being swapped), so blocks are one    *)
(* sector and two blocks are reserved.                                      *)
(***************************************************************************)
AmigaBoot(d, g, kind) ==
    ped_device_read_ok(g.start, 1) /\ Has(d, g.start, "amiga") /\ At(d, g.start).kind = kind

\* A root block has its type and subtype, and its words add up to zero.
_affs_probe_root(d, root) == Has(d, root, "affs root")

_generic_affs_probe(d, g, kind) ==
    LET root == g.start + (g.len - 3) \div 2 + 2
    IN  IF AmigaBoot(d, g, kind) /\ ped_device_read_ok(root, 1) /\ _affs_probe_root(d, root)
        THEN g ELSE NoGeom

_generic_apfs_probe(d, g, kind) ==
    IF AmigaBoot(d, g, kind) /\ AmigaBoot(d, [g EXCEPT !.start = g.start + 2], kind)
    THEN g ELSE NoGeom

_asfs_probe_root(d, g, root) ==
    /\ AmigaBoot(d, [g EXCEPT !.start = root], "SFS")
    /\ At(d, root).own + g.start = root
    /\ At(d, root).first = g.start /\ At(d, root).last = End(g)

_asfs_probe(d, g) ==
    IF /\ AmigaBoot(d, g, "SFS") /\ ped_device_read_ok(End(g), 1)
       /\ _asfs_probe_root(d, g, g.start) \/ _asfs_probe_root(d, g, End(g))
    THEN g ELSE NoGeom

(***************************************************************************)
(* The registry and the choice between what was detected                    *)
(***************************************************************************)
\* Each registration puts its type at the head of the list.
fs_types == Reverse(FsTypes)

ped_file_system_probe_specific(t, d, g) ==
    CASE t = "ntfs" -> ntfs_probe(d, g)
      [] t = "fat16" -> fat_probe(d, g, "fat16")
      [] t = "fat32" -> fat_probe(d, g, "fat32")
      [] t = "ext2" -> _ext2_generic_probe(d, g, 2)
      [] t = "ext3" -> _ext2_generic_probe(d, g, 3)
      [] t = "ext4" -> _ext2_generic_probe(d, g, 4)
      [] t = "btrfs" -> btrfs_probe(d, g)
      [] t = "xfs" -> xfs_probe(d, g)
      [] t = "jfs" -> jfs_probe(d, g)
      [] t = "reiserfs" -> reiserfs_probe(d, g)
      [] t = "sun-ufs" -> ufs_probe_sun(d, g)
      [] t = "hp-ufs" -> ufs_probe_hp(d, g)
      [] t = "f2fs" -> f2fs_probe(d, g)
      [] t = "nilfs2" -> nilfs2_probe(d, g)
      [] t = "linux-swap(v0)" -> _generic_swap_probe(d, g, 0)
      [] t = "linux-swap(v1)" -> _generic_swap_probe(d, g, 1)
      [] t = "swsusp" -> _generic_swap_probe(d, g, -1)
      [] t = "udf" -> udf_probe(d, g)
      [] t = "hfs" -> hfs_probe(d, g)
      [] t = "hfs+" -> hfsplus_probe(d, g)
      [] t = "hfsx" -> hfsx_probe(d, g)
      [] t = "affs1" -> _generic_affs_probe(d, g, "DOS1")
      [] t = "asfs" -> _asfs_probe(d, g)
      [] t = "apfs1" -> _generic_apfs_probe(d, g, "PF11")

Abs(n) == IF n < 0 THEN - n ELSE n

\* What is left of a 64-bit sum in an int.
CInt(n) == ((n + 2 ^ (IntBits - 1)) % (2 ^ IntBits)) - 2 ^ (IntBits - 1)

_geometry_error(a, b) == CInt(Abs(a.start - b.start) + Abs(End(a) - End(b)))

\* Choosing the smallest error without the margin.
Mut__best_match(g, detected, error) ==
    detected[CHOOSE i \in 1 .. Len(detected) : \A j \in 1 .. Len(detected) : error[i] <= error[j]]

\* The smallest error wins if it is smaller than every other by min_error.
_best_match(g, detected, error) ==
    LET n == Len(detected)
        best == CHOOSE i \in 1 .. n : /\ \A j \in 1 .. n : error[i] <= error[j]
                                      /\ \A j \in 1 .. i - 1 : error[j] > error[i]
        min_error == Max({4096, g.len \div 100})
    IN  IF \E i \in 1 .. n : i # best /\ Abs(CInt(error[best] - error[i])) < min_error
        THEN "none" ELSE detected[best]

ped_file_system_probe(d, g) ==
    LET probed == [i \in 1 .. Len(fs_types) |-> ped_file_system_probe_specific(fs_types[i], d, g)]
        hits == SetToSortSeq({i \in DOMAIN probed : probed[i] # NoGeom}, LAMBDA a, b : a < b)
    IN  IF hits = <<>> THEN "none"
        ELSE _best_match(g, [i \in 1 .. Len(hits) |-> fs_types[hits[i]]],
                         [i \in 1 .. Len(hits) |-> _geometry_error(g, probed[hits[i]])])

(***************************************************************************)
(* What the mkfs programs write (outside the repository), taken from what   *)
(* the probes look for                                                      *)
(***************************************************************************)
FatBootSector(oem, reserved, dir_entries, fat_length, len) ==
    [sig |-> "boot", oem |-> oem, length |-> len, sector_count |-> len, sector_size |-> 512, cluster_size |-> 8,
     reserved |-> reserved, fats |-> 2, dir_entries |-> dir_entries, fat_length |-> fat_length]

xfs_sb(len) == [sig |-> "xfs", len |-> len]
jfs_superblock(len) == [sig |-> "jfs", len |-> len]
reiserfs_super_block(len) == [sig |-> "reiserfs", len |-> (len \div 8) * 8]
ufs_super_block(magic, len) == [sig |-> "ufs", magic |-> magic, len |-> len]
f2fs_super_block == [sig |-> "f2fs"]
nilfs2_super_block == [sig |-> "nilfs2"]
SwapNewHeader(magic, len) == [sig |-> "swap", magic |-> magic, last_page |-> len \div Page - 1]

\* Block groups are 8192 blocks of two sectors; group 1 keeps a backup.
ext2_super_block(feat, group_nr, len) ==
    [sig |-> "ext", feat |-> feat, group_nr |-> group_nr, group_blocks |-> 8192, first_data_block |-> 1,
     len |-> len]

HfsMasterDirectoryBlock(len) ==
    [sig |-> "hfs", start_block |-> 16, total_blocks |-> (len - 18) \div 8, block_size |-> 8, embedded |-> FALSE]
HfsPVolumeHeader(sig, len) == [sig |-> sig, total_blocks |-> len \div 8, block_size |-> 8]

ExtStamps(p, feat) ==
    (p.start + 2 :> ext2_super_block(feat, 0, p.len)) @@ (p.start + 16386 :> ext2_super_block(feat, 1, p.len))

HfsStamps(p, sig) == [s \in {p.start + 2, End(p) - 1} |-> HfsPVolumeHeader(sig, p.len)]

Amiga(kind) == [sig |-> "amiga", kind |-> kind]
SfsRoot(p, root) == [sig |-> "amiga", kind |-> "SFS", own |-> root - p.start, first |-> p.start, last |-> End(p)]

Stamps(kind, p) ==
    CASE kind = "ntfs" -> p.start :> FatBootSector("NTFS", 0, 0, 0, p.len)
      [] kind = "fat16" -> p.start :> FatBootSector("MSDOS", 1, 512, 40, p.len)
      [] kind = "fat32" -> p.start :> FatBootSector("MSDOS", 32, 0, 0, p.len)
      [] kind = "ext2" -> ExtStamps(p, {})
      [] kind = "ext3" -> ExtStamps(p, {"has_journal"})
      [] kind = "ext4" -> ExtStamps(p, {"has_journal", "extents"})
      [] kind = "btrfs" -> p.start + 128 :> [sig |-> "btrfs"]
      [] kind = "xfs" -> p.start :> xfs_sb(p.len)
      [] kind = "jfs" -> p.start + 64 :> jfs_superblock(p.len)
      [] kind = "reiserfs" -> p.start + 128 :> reiserfs_super_block(p.len)
      [] kind = "sun-ufs" -> p.start + 18 :> ufs_super_block("UFS", p.len)
      [] kind = "hp-ufs" -> p.start + 18 :> ufs_super_block("LFN", p.len)
      [] kind = "f2fs" -> p.start + 2 :> f2fs_super_block
      [] kind = "nilfs2" -> [s \in {p.start + 2, p.start + NILFS_SB2_OFFSET(p.len)} |-> nilfs2_super_block]
      [] kind = "linux-swap(v0)" -> p.start + 7 :> SwapNewHeader("SWAP-SPACE", p.len)
      [] kind = "linux-swap(v1)" -> p.start + 7 :> SwapNewHeader("SWAPSPACE2", p.len)
      [] kind = "swsusp" -> p.start + 7 :> SwapNewHeader("S1SUSPEND", p.len)
      [] kind = "udf" -> (p.start + 64 :> [sig |-> "vsd", id |-> "BEA01"])
                         @@ (p.start + 68 :> [sig |-> "vsd", id |-> "NSR02"])
                         @@ (p.start + 256 :> [sig |-> "avdp", location |-> 256])
                         @@ (End(p) :> [sig |-> "avdp", location |-> p.len - 1])
      [] kind = "hfs" -> p.start + 2 :> HfsMasterDirectoryBlock(p.len)
      [] kind = "hfs+" -> HfsStamps(p, "hfs+")
      [] kind = "hfsx" -> HfsStamps(p, "hfsx")
      [] kind = "affs1" -> (p.start :> Amiga("DOS1")) @@ (p.start + (p.len - 3) \div 2 + 2 :> [sig |-> "affs root"])
      [] kind = "asfs" -> (p.start :> SfsRoot(p, p.start)) @@ (End(p) :> SfsRoot(p, End(p)))
      [] kind = "apfs1" -> (p.start :> Amiga("PF11")) @@ (p.start + 2 :> Amiga("PF11"))

(***************************************************************************)
(* A partition is made or resized, a file system is made on it, and the     *)
(* program asks what is there.                                              *)
(***************************************************************************)
ProbeInit ==
    /\ dev_len \in DevLengths
    /\ part \in {p \in Parts : End(p) < dev_len}
    /\ disk = <<>> /\ made = <<>> /\ seen = "unknown"

SetPart(p) ==
    /\ p # part /\ End(p) < dev_len
    /\ part' = p /\ seen' = "unknown"
    /\ UNCHANGED <<dev_len, disk, made>>

Mkfs(kind) ==
    /\ Len(made) < MaxMkfs
    /\ disk' = Stamps(kind, part) @@ disk
    /\ made' = <<[type |-> kind, part |-> part]>> \o made
    /\ seen' = "unknown"
    /\ UNCHANGED <<dev_len, part>>

Probe ==
    /\ seen = "unknown"
    /\ seen' = ped_file_system_probe(disk, part)
    /\ UNCHANGED <<dev_len, disk, part, made>>

ProbeNext == Probe \/ (\E p \in Parts : SetPart(p)) \/ (\E k \in Kinds : Mkfs(k))

(***************************************************************************)
(* Properties                                                               *)
(***************************************************************************)
Newest == made # <<>> /\ made[1].part = part /\ seen # "unknown"
IntHolds == dev_len <= 2 ^ (IntBits - 1)

\* The detection never names a leftover: on the partition a file system was
\* last made on it answers that file system or nothing ("one file system was
\* not completely erased before a new file system was created on top of
\* it"), as long as every error fits an int.
NeverStale == Newest /\ IntHolds => seen \in {made[1].type, "none"}

\* A type whose superblock holds the length it was made for.
Measured == {"ntfs", "fat16", "fat32", "ext2", "ext3", "ext4", "xfs", "jfs", "reiserfs", "sun-ufs", "hp-ufs",
             "linux-swap(v1)", "hfs", "hfs+", "hfsx"}
Slack == 32

\* The ambiguity rule gives up only when it must: leftovers that were made
\* for a length that differs by more than the margin never hide the newest
\* file system.
NewestFound ==
    /\ Newest /\ IntHolds
    /\ \A i \in 2 .. Len(made) :
           /\ made[i].type \in Measured
           /\ Abs(made[i].part.len - part.len) >= Max({4096, part.len \div 100}) + Slack
    => seen = made[1].type

\* On the partition where a file system was last made, that one is named, and
\* nothing else, whatever earlier ones left behind.
NewestNamed == NeverStale /\ NewestFound
=============================================================================
