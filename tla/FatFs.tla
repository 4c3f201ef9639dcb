------------------------------- MODULE FatFs -------------------------------
(***************************************************************************)
(* FAT file systems: libparted/fs/r/fat/calc.c, table.c, bootsector.c,      *)
(* traverse.c, count.c, fatio.c and the creating and opening of fat.c.      *)
(*                                                                         *)
(* A disk is a function from devices to functions from sectors to sector   *)
(* contents.  A file system is a record with the fields of FatSpecific      *)
(* that matter, its geometry (dev, start, len), its in-memory FAT and the   *)
(* cluster flags.  A FAT code is a number: 0 free, BAD and EOF above every  *)
(* cluster number, as in the code, where a bad code is an end of file too.  *)
(* The sizes that make a real FAT big are constants.                        *)
(***************************************************************************)
EXTENDS Integers, Sequences, FiniteSets, TLC

CONSTANTS
    DevLen,            \* dev -> its length in sectors
    Reserved,          \* fat_min_reserved_sector_count, by type (1, 32)
    EntriesPerSector,  \* entries_per_sector, by type (256, 128)
    MinClusterSize,    \* fat_min_cluster_size, by type (2, 8)
    MaxClusterSize,    \* fat_max_cluster_size (128)
    MaxCount,          \* fat_max_cluster_count, by type
    MaxFat12,          \* MAX_FAT12_CLUSTERS
    RootSectors,       \* the sectors of a FAT16 root directory (32)
    MinRootSectors,    \* alloc_root_dir's minimum (16)
    DirPerSector,      \* directory entries in a sector (16)
    InfoOffset,        \* where the FAT32 information sector goes (1)
    BackupOffset,      \* and the copy of the boot sector (6)
    BufferSectors      \* BUFFER_SIZE (1024)

Types == {16, 32}
AVAIL == 0
BAD == 1000
EOF == 1001

DivUp(a, b) == (a + b - 1) \div b
Less(a, b) == IF a < b THEN a ELSE b
More(a, b) == IF a < b THEN b ELSE a

Zero == [t |-> "zero"]
NoEntry == [k |-> "nul", n |-> "", c |-> 0, l |-> 0]
(***************************************************************************)
(* calc.c                                                                  *)
(***************************************************************************)
fat_min_cluster_count(type) ==
    IF type = 16 THEN MaxCount[16] \div 2 ELSE MaxCount[16]

fat_recommend_min_cluster_size(type, size) ==
    IF type = 16 THEN MinClusterSize[16]
    ELSE LET over == CHOOSE p \in {2 ^ i : i \in 0 .. 8} :
                       /\ p >= size \div MaxCount[32]
                       /\ \A i \in 0 .. 8 : 2 ^ i >= size \div MaxCount[32] => p <= 2 ^ i
         IN More(over, MinClusterSize[32])

\* C division truncates toward zero
CDiv(a, b) == IF a >= 0 THEN a \div b ELSE -((-a) \div b)

calc_sizes(size, align, type, rootSectors, cs) ==
    LET space == size - Reserved[type] - align - (IF type = 16 THEN rootSectors ELSE 0)
        per == EntriesPerSector[type]
        fats == IF type = 32 THEN 1 ELSE 2
        FatFor(n) == DivUp(n + 2, per)
        first == FatFor(CDiv(space, cs))
        second == FatFor(CDiv(space - fats * first, cs))
        count == CDiv(space - 2 * second, cs)
    IN [ok |-> count <= MaxCount[type] /\ count >= fat_min_cluster_count(type),
        cs |-> cs, count |-> count, fatSec |-> More(second, FatFor(count))]

NoSizes == [ok |-> FALSE, cs |-> 0, count |-> 0, fatSec |-> 0]

\* the first of a sequence of layouts that is possible
FirstOk(layouts) ==
    IF \A i \in DOMAIN layouts : ~layouts[i].ok THEN NoSizes
    ELSE layouts[CHOOSE i \in DOMAIN layouts :
                   layouts[i].ok /\ \A j \in 1 .. i - 1 : ~layouts[j].ok]

FirstFit(sizes, size, align, type, rootSectors) ==
    FirstOk([i \in DOMAIN sizes |-> calc_sizes(size, align, type, rootSectors, sizes[i])])

\* the cluster sizes from one to another, doubling or halving
Doubling(lo, hi) ==
    SelectSeq([i \in 1 .. 9 |-> lo * 2 ^ (i - 1)], LAMBDA x : x <= hi)
Halving(hi, lo) ==
    SelectSeq([i \in 1 .. 9 |-> hi \div 2 ^ (i - 1)], LAMBDA x : x >= lo /\ x > 0)

fat_calc_sizes(size, align, type, rootSectors) ==
    LET rec == fat_recommend_min_cluster_size(type, size)
    IN FirstFit(Doubling(rec, MaxClusterSize) \o Halving(rec, MinClusterSize[type])
                  \o <<4, 2, 1>>,
                size, align, type, rootSectors)

fat_calc_resize_sizes(len, align, type, rootSectors, cs) ==
    FirstFit(Halving(cs, MinClusterSize[type]), len, align, type, rootSectors)

\* mutant: the room left over at the end is not used up
Mut_fat_calc_align_sectors(new, old) ==
    LET meta == Reserved[new.type] + 2 * new.fatSec
                  + (IF new.type = 16 THEN new.rootSec ELSE 0)
        gap == old.start + old.clOff - (new.start + meta)
    IN IF gap > 0 THEN gap % new.cs ELSE (new.cs - ((-gap) % new.cs)) % new.cs

\* the sectors that push the clusters of the new file system onto those of the
\* old one, and use up the room that would be left over at the end
fat_calc_align_sectors(new, old) ==
    LET meta == Reserved[new.type] + 2 * new.fatSec
                  + (IF new.type = 16 THEN new.rootSec ELSE 0)
        gap == old.start + old.clOff - (new.start + meta)
        align == IF gap > 0 THEN gap % new.cs ELSE (new.cs - ((-gap) % new.cs)) % new.cs
        room == new.len - meta - new.count * new.cs - align
    IN align + (IF room >= new.cs THEN new.cs * (room \div new.cs) ELSE 0)

fat_is_sector_in_clusters(fs, s) == s >= fs.clOff /\ s < fs.clOff + fs.cs * fs.count

cluster_frags(fs) == fs.cs \div fs.frag
frag_count(fs) == fs.count * cluster_frags(fs)
fat_cluster_to_frag(fs, c) == (c - 2) * cluster_frags(fs)
fat_frag_to_cluster(fs, f) == f \div cluster_frags(fs) + 2
fat_frag_to_sector(fs, f) == f * fs.frag + fs.clOff
fat_cluster_to_sector(fs, c) == (c - 2) * fs.cs + fs.clOff
fat_sector_to_cluster(fs, s) == (s - fs.clOff) \div fs.cs + 2
(***************************************************************************)
(* Reading and writing: ped_geometry_read and ped_geometry_write, fatio.c   *)
(***************************************************************************)
ReadAt(disk, fs, s) ==
    IF fs.start + s < DevLen[fs.dev] THEN disk[fs.dev][fs.start + s] ELSE Zero

\* write contents, a function of sectors of the geometry
WriteAt(disk, fs, contents) ==
    [disk EXCEPT ![fs.dev] =
       [s \in DOMAIN @ |-> IF s - fs.start \in DOMAIN contents
                           THEN contents[s - fs.start] ELSE @[s]]]

FragSectors(fs, f) == fat_frag_to_sector(fs, f) .. fat_frag_to_sector(fs, f) + fs.frag - 1
ClusterSectors(fs, c) == fat_cluster_to_sector(fs, c) .. fat_cluster_to_sector(fs, c) + fs.cs - 1
(***************************************************************************)
(* table.c                                                                 *)
(***************************************************************************)
fat_table_is_eof(code) == code >= BAD
fat_table_clear(count) == [c \in 0 .. count + 1 |-> IF c < 2 THEN EOF ELSE AVAIL]
fat_table_set(fat, c, v) == IF c \in DOMAIN fat THEN [fat EXCEPT ![c] = v] ELSE fat
FreeClusters(fat) == {c \in DOMAIN fat : c >= 2 /\ fat[c] = AVAIL}

\* next fit from the cluster after last; the modulus is the count, so that the
\* last two clusters are never handed out.  0 when nothing is free.
fat_table_alloc_cluster(fat, last) ==
    LET count == Cardinality(DOMAIN fat) - 2
        At(i) == (i + last) % count
        free == {i \in 1 .. count : fat[At(i)] = AVAIL}
    IN IF free = {} THEN 0 ELSE At(CHOOSE i \in free : \A j \in free : i <= j)

fat_table_write(fs, n) ==
    [s \in fs.fatOff + n * fs.fatSec .. fs.fatOff + (n + 1) * fs.fatSec - 1 |->
       LET first == (s - fs.fatOff - n * fs.fatSec) * EntriesPerSector[fs.type]
       IN [t |-> "fat",
           e |-> [i \in 0 .. EntriesPerSector[fs.type] - 1 |->
                    IF first + i \in DOMAIN fs.fat THEN fs.fat[first + i] ELSE AVAIL]]]

fat_table_read(disk, fs, n) ==
    [c \in 0 .. fs.count + 1 |->
       LET per == EntriesPerSector[fs.type]
           s == ReadAt(disk, fs, fs.fatOff + n * fs.fatSec + c \div per)
       IN IF s.t = "fat" /\ c % per \in DOMAIN s.e THEN s.e[c % per] ELSE AVAIL]

\* the clusters of a chain; one that does not end as a file does, or never
\* ends, is followed by a 0
Follow(fat, st) ==
    IF st.at \in DOMAIN fat /\ st.at >= 2
    THEN [at |-> fat[st.at], out |-> Append(st.out, st.at)] ELSE st

ChainEnd(st) == IF fat_table_is_eof(st.at) THEN st.out ELSE Append(st.out, 0)

Chain(fat, first) ==
    LET go[i \in 0 .. Cardinality(DOMAIN fat)] ==
          IF i = 0 THEN [at |-> first, out |-> <<>>] ELSE Follow(fat, go[i - 1])
    IN ChainEnd(go[Cardinality(DOMAIN fat)])

Upto(n) == [i \in 1 .. n |-> i]
Elems(s) == {s[i] : i \in DOMAIN s}
(***************************************************************************)
(* Directories: traverse.c                                                 *)
(***************************************************************************)
fat_dir_entry_is_active(e) == e.k \notin {"del", "nul"}
fat_dir_entry_is_directory(e) == e.k \in {"dir", "dot"}
fat_dir_entry_has_first_cluster(e) ==
    e.k \in {"file", "dir", "dot"} /\ e.c # 0 /\ ~fat_table_is_eof(e.c)

\* the sectors of a directory: the root region of FAT16 or a chain of clusters
ChainSectors(fs, chain) ==
    [i \in 1 .. Len(chain) * fs.cs |->
       fat_cluster_to_sector(fs, chain[(i - 1) \div fs.cs + 1]) + ((i - 1) % fs.cs)]

DirSectors(fs, first) ==
    IF fs.type = 16 /\ first = 0
    THEN [i \in 1 .. fs.rootSec |-> fs.rootOff + i - 1]
    ELSE ChainSectors(fs, SelectSeq(Chain(fs.fat, first), LAMBDA c : c # 0))

\* every entry of a directory, the empty ones included
EntryIn(s, i) == IF s.t = "dir" THEN s.e[(i % DirPerSector) + 1] ELSE NoEntry

EntriesIn(disk, fs, secs) ==
    [i \in 1 .. Len(secs) * DirPerSector |->
       EntryIn(ReadAt(disk, fs, secs[(i - 1) \div DirPerSector + 1]), i - 1)]

ReadDir(disk, fs, first) == EntriesIn(disk, fs, DirSectors(fs, first))

DirSector(e) ==
    IF \A i \in 1 .. DirPerSector : e[i] = NoEntry THEN Zero ELSE [t |-> "dir", e |-> e]

PutEntries(disk, fs, secs, es) ==
    WriteAt(disk, fs,
      [s \in Elems(secs) |->
         LET at == CHOOSE i \in DOMAIN secs : secs[i] = s
         IN DirSector(SubSeq(es, (at - 1) * DirPerSector + 1, at * DirPerSector))])

WriteDir(disk, fs, first, es) == PutEntries(disk, fs, DirSectors(fs, first), es)

\* the number of entries before the null terminator
BeforeNull(es) ==
    IF \A i \in DOMAIN es : es[i] # NoEntry THEN Len(es)
    ELSE (CHOOSE i \in DOMAIN es : es[i] = NoEntry /\ \A j \in 1 .. i - 1 : es[j] # NoEntry) - 1

BeforeTerminator(es) == SubSeq(es, 1, BeforeNull(es))

\* every entry of a directory before the null terminator, with the directory
Walked(disk, fs, first, dir) ==
    {[dir |-> dir, e |-> e] : e \in Elems(BeforeTerminator(ReadDir(disk, fs, first)))}

\* the directories a set of entries leads to
Below(disk, fs, seen) ==
    UNION {Walked(disk, fs, w.e.c, w.e.n) :
             w \in {x \in seen : x.e.k = "dir" /\ fat_dir_entry_has_first_cluster(x.e)}}

\* the whole tree, which is two directories deep in this model
WithBelow(disk, fs, root) == root \cup Below(disk, fs, root)

Walk(disk, fs) ==
    WithBelow(disk, fs, Walked(disk, fs, IF fs.type = 32 THEN fs.rootCl ELSE 0, "\\"))
(***************************************************************************)
(* count.c: what each cluster is used for.  units is the part of a cluster *)
(* in use, in 64ths, 0 meaning all of it.                                  *)
(***************************************************************************)
RemUp(a, b) == IF a % b = 0 THEN b ELSE a % b

\* the chains flag_traverse_dir and flag_traverse_fat follow, the root's last
FlaggedChains(disk, fs) ==
    {[flag |-> IF w.e.k = "dir" THEN "dir" ELSE "file",
      cl |-> Chain(fs.fat, w.e.c), l |-> w.e.l] :
        w \in {x \in Walk(disk, fs) : fat_dir_entry_has_first_cluster(x.e) /\ x.e.k # "dot"}}
      \cup (IF fs.type = 32
            THEN {[flag |-> "dir", cl |-> Chain(fs.fat, fs.rootCl), l |-> 0]} ELSE {})

ClusterInfo(fs, chains) ==
    LET Tip(ch) == ch.cl[Len(ch.cl)]
        Of(c) == {ch \in chains : c \in Elems(ch.cl)}
    IN [ok |-> /\ \A ch \in chains : 0 \notin Elems(ch.cl) /\ ch.cl # <<>>
               /\ \A ch \in chains : Cardinality(Elems(ch.cl)) = Len(ch.cl)
               /\ \A c1, c2 \in chains : c1 # c2 => Elems(c1.cl) \cap Elems(c2.cl) = {}
               /\ \A ch \in chains : ch.l # 0 => Len(ch.cl) = DivUp(ch.l, fs.cs),
        flag |-> [c \in 2 .. fs.count + 1 |->
                    IF fs.fat[c] = BAD THEN "bad"
                    ELSE IF Of(c) = {} THEN "free" ELSE (CHOOSE ch \in Of(c) : TRUE).flag],
        units |-> [c \in 2 .. fs.count + 1 |->
                    IF \E ch \in Of(c) : Tip(ch) = c
                    THEN LET ch == CHOOSE x \in Of(c) : Tip(x) = c
                         IN DivUp(64 * RemUp(ch.l, fs.cs), fs.cs) % 64
                    ELSE 0],
        dirs |-> Cardinality({c \in 2 .. fs.count + 1 : \E ch \in Of(c) : ch.flag = "dir"})]

fat_collect_cluster_info(disk, fs) == ClusterInfo(fs, FlaggedChains(disk, fs))

fat_get_cluster_usage(fs, c) ==
    IF fs.flag[c] = "free" THEN 0
    ELSE ((IF fs.units[c] = 0 THEN 64 ELSE fs.units[c]) * fs.cs) \div 64

fat_get_fragment_flag(fs, f) ==
    LET c == fat_frag_to_cluster(fs, f)
        lastUsed == CDiv(fat_get_cluster_usage(fs, c) - 1, fs.frag)
    IN IF fs.flag[c] \notin {"file", "dir"} THEN fs.flag[c]
       ELSE IF f % cluster_frags(fs) > lastUsed THEN "free" ELSE fs.flag[c]

fat_is_fragment_active(fs, f) == fat_get_fragment_flag(fs, f) \in {"file", "dir"}
(***************************************************************************)
(* bootsector.c                                                            *)
(***************************************************************************)
fat_boot_sector_generate(fs) ==
    [t |-> "boot", cluster_size |-> fs.cs, reserved |-> fs.fatOff, fats |-> 2,
     dir_entries |-> IF fs.type = 16 THEN fs.rootSec * DirPerSector ELSE 0,
     sector_count |-> fs.len, fat_length |-> fs.fatSec,
     root_dir_cluster |-> IF fs.type = 32 THEN fs.rootCl ELSE 0]

fat_boot_sector_write(fs) ==
    [s \in {0} \cup (IF fs.type = 32 THEN {BackupOffset} ELSE {}) |->
       fat_boot_sector_generate(fs)]

fat_info_sector_generate(fs) ==
    [t |-> "info", free |-> Cardinality(FreeClusters(fs.fat))]

\* the type is told from the boot sector and the length of the geometry
fat_boot_sector_probe_type(bs, len) ==
    IF bs.dir_entries = 0 THEN 32
    ELSE LET first == bs.reserved + 2 * bs.fat_length + bs.dir_entries \div DirPerSector
         IN IF (len - first) \div bs.cluster_size > MaxFat12 THEN 16 ELSE 12

NoFs == [ok |-> FALSE]

fat_boot_sector_analyse(bs, geom, type) ==
    LET root == IF type = 16 THEN bs.dir_entries \div DirPerSector ELSE 0
        rootOff == bs.reserved + bs.fat_length * bs.fats
    IN [ok |-> TRUE, dev |-> geom.dev, start |-> geom.start, len |-> geom.len,
        type |-> type, cs |-> bs.cluster_size, frag |-> bs.cluster_size,
        count |-> Less((bs.sector_count - rootOff - root) \div bs.cluster_size,
                       bs.fat_length * EntriesPerSector[type] - 2),
        fatOff |-> bs.reserved, fatSec |-> bs.fat_length,
        rootOff |-> IF type = 16 THEN rootOff ELSE 0, rootSec |-> root,
        clOff |-> rootOff + root, rootCl |-> bs.root_dir_cluster]

\* _init_fats
WithFat(disk, fs) == fs @@ [fat |-> fat_table_read(disk, fs, 0)]

WithInfo(fs, info) ==
    IF ~info.ok THEN NoFs
    ELSE fs @@ [flag |-> info.flag, units |-> info.units, dirs |-> info.dirs]

Collected(disk, fs) == WithInfo(fs, fat_collect_cluster_info(disk, fs))

OpenBoot(disk, geom, bs, type) ==
    IF type = 12 THEN NoFs
    ELSE Collected(disk, WithFat(disk, fat_boot_sector_analyse(bs, geom, type)))

\* FAT12 is not supported
fat_open(disk, geom) ==
    LET bs == ReadAt(disk, geom, 0)
    IN IF bs.t # "boot" THEN NoFs
       ELSE OpenBoot(disk, geom, bs, fat_boot_sector_probe_type(bs, geom.len))

\* what a reader finds: names, kinds and contents, not where they are
Contents(disk, fs, e, secs) == [i \in 1 .. Less(e.l, Len(secs)) |-> ReadAt(disk, fs, secs[i])]

Listing(disk, fs) ==
    {[dir |-> w.dir, n |-> w.e.n, k |-> w.e.k,
      data |-> IF w.e.k # "file" \/ ~fat_dir_entry_has_first_cluster(w.e) THEN <<>>
               ELSE Contents(disk, fs, w.e, DirSectors(fs, w.e.c))] :
       w \in {x \in Walk(disk, fs) : fat_dir_entry_is_active(x.e)}}
(***************************************************************************)
(* fat_create                                                              *)
(***************************************************************************)
FatCreateSizes(geom, type) == fat_calc_sizes(geom.len, 0, type, RootSectors)

\* the file system fat_create lays out; for FAT32 the root directory is the
\* first cluster it allocates
LaidOut(geom, type, sz) ==
    LET root == IF type = 16 THEN RootSectors ELSE 0
        empty == fat_table_clear(sz.count)
        rootCl == IF type = 32 THEN fat_table_alloc_cluster(empty, 1) ELSE 0
    IN [ok |-> TRUE, dev |-> geom.dev, start |-> geom.start, len |-> geom.len,
        type |-> type, cs |-> sz.cs, frag |-> sz.cs, count |-> sz.count,
        fatOff |-> Reserved[type], fatSec |-> sz.fatSec,
        rootOff |-> IF type = 16 THEN Reserved[type] + 2 * sz.fatSec ELSE 0,
        rootSec |-> root, clOff |-> Reserved[type] + 2 * sz.fatSec + root,
        rootCl |-> rootCl,
        fat |-> IF type = 32 THEN fat_table_set(empty, rootCl, EOF) ELSE empty]

CreatedFs(geom, type) == LaidOut(geom, type, FatCreateSizes(geom, type))

Blank(secs) == [s \in secs |-> Zero]

WriteTables(disk, fs) ==
    WriteAt(WriteAt(disk, fs, fat_table_write(fs, 0)), fs, fat_table_write(fs, 1))

\* the information sector, which FAT16 lacks
WriteInfo(disk, fs) ==
    WriteAt(disk, fs, [s \in IF fs.type = 32 THEN {InfoOffset} ELSE {} |->
                         fat_info_sector_generate(fs)])

\* the writes of fat_create, in its order
fat_create(disk, fs) ==
    LET d1 == WriteAt(disk, fs, Blank(IF fs.type = 32 THEN ClusterSectors(fs, fs.rootCl) ELSE {}))
        d2 == WriteTables(WriteInfo(WriteAt(d1, fs, fat_boot_sector_write(fs)), fs), fs)
    IN WriteAt(d2, fs, Blank(IF fs.type = 16
                             THEN fs.rootOff .. fs.rootOff + fs.rootSec - 1 ELSE {}))
=============================================================================
