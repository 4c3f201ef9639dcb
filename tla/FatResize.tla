----------------------------- MODULE FatResize -----------------------------
(***************************************************************************)
(* Resizing and copying a FAT file system: libparted/fs/r/fat/resize.c,      *)
(* context.c and clstdup.c, called through libparted/fs/r/filesys.c.         *)
(*                                                                         *)
(* A resize moves what has no place in the new geometry, builds a new FAT   *)
(* and a new directory tree beside the old ones and only then writes the    *)
(* new metadata.  Its steps are the calls of fat_resize; the loop that      *)
(* duplicates clusters takes one step per buffer.  disk is what the devices *)
(* hold, fs the open file system, new and ctx the FatOpContext.             *)
(***************************************************************************)
EXTENDS FatFs

LOCAL INSTANCE SequencesExt

CONSTANTS
    Homes,       \* the geometries a file system is created in
    Targets,     \* the geometries of the first, the second, ... resize
    LenA, LenB,  \* the lengths in sectors of the two files put on it
    Spots,       \* where they may be: clusters from the start or, negative, the end
    Bads         \* sets of sectors, <<dev, sector>>, that cannot be written

VARIABLES disk, fs, new, ctx, pc, resizes, unwritable, failed, files
vars == <<disk, fs, new, ctx, pc, resizes, unwritable, failed, files>>

None == [ok |-> FALSE]
(***************************************************************************)
(* filesys.c: erase the signatures where the new file system will begin,    *)
(* unless the old one is there                                              *)
(***************************************************************************)
Inside(g, s) == s >= g.start /\ s <= g.start + g.len - 1

\* <<success, disk>> of clearing n sectors; a device refuses sectors it lacks
ClearSectors(d, dev, start, n) ==
    IF start + n > DevLen[dev] THEN <<FALSE, d>>
    ELSE <<TRUE, [d EXCEPT ![dev] = [s \in DOMAIN @ |->
                    IF s \in start .. start + n - 1 THEN Zero ELSE @[s]]]>>

ped_file_system_clobber(d, g) ==
    LET len == Less(g.len, DevLen[g.dev])
        first == ClearSectors(d, g.dev, g.start, IF len <= 5 THEN len ELSE 3)
    IN IF len <= 5 \/ ~first[1] THEN first
       ELSE ClearSectors(first[2], g.dev, g.start + DevLen[g.dev] - 2, 2)

ped_file_system_clobber_exclude(d, g, old) ==
    LET overlap == g.dev = old.dev /\ g.start < old.start /\ g.start + g.len > old.start
    IN IF Inside(old, g.start) THEN <<TRUE, d>>
       ELSE ped_file_system_clobber(d, [g EXCEPT !.len =
              IF overlap THEN old.start - g.start ELSE @])
(***************************************************************************)
(* The context                                                             *)
(***************************************************************************)
\* the types a user may end up with: the question of ask_type
get_fat_type(old, g) ==
    LET Ok(type) == fat_calc_resize_sizes(g.len, old.cs, type, old.rootSec, old.cs).ok
    IN {type \in Types : Ok(type)}

fat_check_resize_geometry(old, sz) ==
    Cardinality(FreeClusters(old.fat)) * old.cs
      >= old.count * old.cs - sz.count * sz.cs + old.dirs * old.cs

NewFs(old, g, type, sz) ==
    LET rootSec == IF type = 32 THEN 0
                   ELSE IF old.rootSec # 0 THEN old.rootSec ELSE RootSectors
        part == [ok |-> TRUE, dev |-> g.dev, start |-> g.start, len |-> g.len,
                 type |-> type, cs |-> sz.cs, frag |-> sz.cs, count |-> sz.count,
                 fatSec |-> sz.fatSec, rootSec |-> rootSec, rootCl |-> 0]
        fatOff == Reserved[type] + fat_calc_align_sectors(part, old)
    IN part @@ [fatOff |-> fatOff,
                rootOff |-> IF type = 16 THEN fatOff + 2 * sz.fatSec ELSE 0,
                clOff |-> fatOff + 2 * sz.fatSec + rootSec]

\* calc_deltas; delta is negative when the clusters begin earlier
Delta(old, nf) == nf.start + nf.clOff - (old.start + old.clOff)

\* mutant: the bound is off by one
Mut_map_static_fragment(old, nf, f) ==
    LET r == f - CDiv(Delta(old, nf), nf.cs)
    IN IF nf.dev # old.dev \/ r < 0 \/ r > frag_count(nf) THEN -1 ELSE r

fat_op_context_map_static_fragment(old, nf, f) ==
    LET r == f - CDiv(Delta(old, nf), nf.cs)
    IN IF nf.dev # old.dev \/ r < 0 \/ r >= frag_count(nf) THEN -1 ELSE r

\* the offset is tested as if it were a sector of the device, as the code does
ped_geometry_map(dst, src, s) ==
    LET r == src.start + s - dst.start
    IN IF ~Inside(src, s) \/ dst.dev # src.dev \/ r < 0 \/ r > dst.len THEN -1 ELSE r

\* the clusters onto which fragments with these flags fall when nothing moves
StaticClusters(old, nf, flags) ==
    {fat_frag_to_cluster(nf, fat_op_context_map_static_fragment(old, nf, f)) :
       f \in {x \in 0 .. frag_count(old) - 1 :
                /\ fat_get_fragment_flag(old, x) \in flags
                /\ fat_op_context_map_static_fragment(old, nf, x) # -1}}

\* the clusters that lie over metadata of the old file system
UnderMetadata(old, nf) ==
    {fat_sector_to_cluster(nf, m) :
       m \in {x \in {ped_geometry_map(nf, old, s) : s \in 0 .. old.clOff - 1} :
                x # -1 /\ fat_is_sector_in_clusters(nf, x)}}

fat_op_context_create_initial_fat(old, nf) ==
    LET kept == UnderMetadata(old, nf) \cup StaticClusters(old, nf, {"file", "dir"})
        bad == StaticClusters(old, nf, {"bad"})
    IN [c \in 0 .. nf.count + 1 |->
          IF c < 2 \/ c \in kept THEN EOF ELSE IF c \in bad THEN BAD ELSE AVAIL]
(***************************************************************************)
(* clstdup.c                                                               *)
(***************************************************************************)
\* mutant: directories stay where they are when they can
Mut_needs_duplicating(old, nf, f) ==
    /\ fat_is_fragment_active(old, f)
    /\ fat_op_context_map_static_fragment(old, nf, f) = -1

needs_duplicating(old, nf, f) ==
    \/ fat_get_fragment_flag(old, f) = "dir"
    \/ /\ fat_get_fragment_flag(old, f) = "file"
       /\ fat_op_context_map_static_fragment(old, nf, f) = -1

init_remap(old, nf) ==
    [f \in 0 .. frag_count(old) - 1 |-> fat_op_context_map_static_fragment(old, nf, f)]

\* the fragments of the next buffer that move: search_next_fragment and
\* fetch_fragments
ToMove(old, nf, off) ==
    {f \in off .. frag_count(old) - 1 : needs_duplicating(old, nf, f)}
Least(S) == CHOOSE x \in S : \A y \in S : x <= y
Greatest(S) == CHOOSE x \in S : \A y \in S : x >= y

FragData(d, f, n) == [s \in FragSectors(f, n) |-> ReadAt(d, f, s)]
\* what ped_geometry_read and ped_geometry_write accept; a sector that cannot
\* be written can still be read
CanRead(f, secs) == \A s \in secs : f.start + s < DevLen[f.dev] /\ s < f.len
CanWrite(f, secs) ==
    CanRead(f, secs) /\ \A s \in secs : <<f.dev, f.start + s>> \notin unwritable

\* a write that nobody checks
Attempt(d, f, contents) ==
    IF CanWrite(f, DOMAIN contents) THEN WriteAt(d, f, contents) ELSE d

\* a sector or a cluster at a time is cleared, and no write checked
ClearEach(d, f, pieces) ==
    WriteAt(d, f, Blank(UNION {secs \in pieces : CanWrite(f, secs)}))

\* the sectors of an old fragment, placed at a fragment of the new file system
PutFrag(d, old, nf, from, f, n) ==
    WriteAt(d, nf, [s \in FragSectors(nf, n) |->
       ReadAt(from, old, fat_frag_to_sector(old, f) + s - fat_frag_to_sector(nf, n))])

\* slow_group_write, for one fragment: a fragment that cannot be written is
\* marked bad in the table and another one is taken, until one can be or none
\* is left.  The table is given fragment numbers where it takes clusters, and
\* gives clusters back.
Replace(s, f, fat, next) ==
    IF next = 0 THEN [s EXCEPT !.fat = fat, !.out = "no space"]
    ELSE [s EXCEPT !.fat = fat, !.last = next, !.remap[f] = next]

MarkAndTake(s, f, fat) == Replace(s, f, fat, fat_table_alloc_cluster(fat, s.last))

Retry(s, nf, f) ==
    IF s.out # "" \/ CanWrite(nf, FragSectors(nf, s.remap[f])) THEN s
    ELSE MarkAndTake(s, f, fat_table_set(s.fat, s.remap[f], BAD))

PutIfOk(s, old, nf, from, f) ==
    IF s.out # "" THEN s
    ELSE [s EXCEPT !.disk = PutFrag(@, old, nf, from, f, s.remap[f])]

SlowWrite(st, old, nf, from, f) ==
    PutIfOk(FoldLeft(LAMBDA s, i : Retry(s, nf, f), st, Upto(nf.count + 2)), old, nf, from, f)

SlowGroup(st, old, nf, from, group) ==
    FoldLeft(LAMBDA s, f : SlowWrite(s, old, nf, from, f), st, group)

QuickGroup(st, old, nf, from, group) ==
    FoldLeft(LAMBDA s, f : [s EXCEPT !.disk = PutFrag(@, old, nf, from, f, st.remap[f])],
             st, group)

\* group_write: one write of everything between the first and the last
\* fragment, the ones in between written back as they were read
GroupWrite(st, old, nf, from, lo, hi) ==
    IF lo > hi THEN [st EXCEPT !.out = "undefined"]
    ELSE IF CanWrite(nf, UNION {FragSectors(nf, n) : n \in lo .. hi})
    THEN QuickGroup(st, old, nf, from, st.group)
    ELSE [SlowGroup(st, old, nf, from, st.group) EXCEPT !.failed = TRUE]

group_write(st, old, nf, from) ==
    [GroupWrite(st, old, nf, from, st.remap[st.group[1]], st.remap[st.group[Len(st.group)]])
       EXCEPT !.group = <<>>]

\* the elements of a set of numbers, the least first
InOrder(S) == SetToSortSeq(S, LAMBDA x, y : x < y)

\* write_fragments: allocate, and write a group when it outgrows the buffer
Outgrows(s, nf) ==
    /\ s.group # <<>>
    /\ fat_cluster_to_frag(nf, s.last) - s.remap[s.group[1]] + 1 > BufferSectors \div nf.frag

AppendTo(s, f) == [s EXCEPT !.group = Append(@, f)]

Allocated(s, f, old, nf, from, c) ==
    LET s1 == [s EXCEPT !.fat = fat_table_set(@, c, EOF), !.last = c,
                        !.remap[f] = fat_cluster_to_frag(nf, c)]
    IN IF c = 0 THEN [s EXCEPT !.out = "no space"]
       ELSE AppendTo(IF Outgrows(s1, nf) THEN group_write(s1, old, nf, from) ELSE s1, f)

WriteRest(s, old, nf, from) == IF s.out # "" THEN s ELSE group_write(s, old, nf, from)

write_fragments(st, old, nf, from, todo) ==
    WriteRest(FoldLeft(LAMBDA s, f :
                         IF s.out # "" THEN s
                         ELSE Allocated(s, f, old, nf, from, fat_table_alloc_cluster(s.fat, s.last)),
                       st, InOrder(todo)),
              old, nf, from)
(***************************************************************************)
(* The new FAT                                                             *)
(***************************************************************************)
MapCluster(old, nf, remap, c) ==
    LET m == remap[fat_cluster_to_frag(old, c)]
    IN IF m = -1 THEN 0 ELSE fat_frag_to_cluster(nf, m)

_get_next_old_frag(old, f) ==
    LET next == old.fat[fat_frag_to_cluster(old, f)]
    IN IF (f + 1) % cluster_frags(old) # 0
       THEN IF fat_is_fragment_active(old, f + 1) THEN f + 1 ELSE -1
       ELSE IF fat_table_is_eof(next) THEN -1 ELSE fat_cluster_to_frag(old, next)

\* the chains of the old file system, followed through the remapping
OldLinks(old, nf, remap, bad) ==
    LET used == {f \in 0 .. frag_count(old) - 1 : fat_is_fragment_active(old, f)}
        Cl(f) == fat_frag_to_cluster(nf, remap[f])
        Into(c) == {f \in used : Cl(f) = c}
        Link(next) == IF next = -1 THEN EOF ELSE Cl(next)
    IN [c \in 0 .. nf.count + 1 |->
          IF Into(c) # {} THEN Link(_get_next_old_frag(old, Greatest(Into(c))))
          ELSE IF c \in bad THEN BAD ELSE IF c < 2 THEN EOF ELSE AVAIL]

fat_construct_new_fat(old, nf, remap, roots) ==
    LET base == OldLinks(old, nf, remap, StaticClusters(old, nf, {"bad"}))
    IN [c \in DOMAIN base |->
          IF \E i \in DOMAIN roots : roots[i] = c
          THEN LET i == Greatest({j \in DOMAIN roots : roots[j] = c})
               IN IF i = Len(roots) THEN EOF ELSE roots[i + 1]
          ELSE base[c]]

\* the root directory was duplicated and FAT16 has no use for the copy; the
\* cluster freed is computed with the old file system's cluster size
free_root_dir(fat, old, remap, chain) ==
    FoldLeft(LAMBDA t, c : fat_table_set(t, fat_frag_to_cluster(old,
                                              remap[fat_cluster_to_frag(old, c)]), AVAIL),
             fat, chain)
(***************************************************************************)
(* The new directory tree                                                  *)
(***************************************************************************)
Moved(old, nf, remap, e) ==
    IF fat_dir_entry_has_first_cluster(e)
    THEN [e EXCEPT !.c = MapCluster(old, nf, remap, @)] ELSE e

IsSubdir(e) == e.k = "dir" /\ fat_dir_entry_has_first_cluster(e)

\* a directory that was duplicated, rewritten
Relinked(es, n, old, nf, remap) ==
    [i \in DOMAIN es |-> IF i <= n THEN Moved(old, nf, remap, es[i]) ELSE NoEntry]

Rewritten(es, old, nf, remap) == Relinked(es, BeforeNull(es), old, nf, remap)

RewriteSub(d, old, nf, remap, first) ==
    WriteDir(d, nf, first, Rewritten(ReadDir(d, nf, first), old, nf, remap))

\* the sub-directories are rewritten before the directory's buffer is flushed
PutRewritten(d, old, nf, remap, first, out) ==
    WriteDir(FoldLeft(LAMBDA dd, e : RewriteSub(dd, old, nf, remap, e.c), d,
                      SelectSeq(out, IsSubdir)), nf, first, out)

fat_construct_directory(d, old, nf, remap, first) ==
    PutRewritten(d, old, nf, remap, first, Rewritten(ReadDir(d, nf, first), old, nf, remap))

\* the active entries of a directory of the old type
Kept(d, old, first) ==
    SelectSeq(BeforeTerminator(ReadDir(d, old, first)), fat_dir_entry_is_active)

\* a directory copied between FAT types.  A root directory that is too small
\* loses the rest when the user agrees.
Converted(keep, old, nf, remap, newFirst) ==
    [i \in 1 .. Len(DirSectors(nf, newFirst)) * DirPerSector |->
       IF i <= Len(keep) THEN Moved(old, nf, remap, keep[i]) ELSE NoEntry]

ConvertSub(d, old, nf, remap, oldFirst, newFirst) ==
    WriteDir(d, nf, newFirst, Converted(Kept(d, old, oldFirst), old, nf, remap, newFirst))

\* A directory is walked a buffer at a time, a cluster or the whole root region;
\* the first buffer that cannot be written ends the walk.  The clusters of
\* sub-directories were written when they were duplicated, so that only a new
\* root directory meets this.
DirBuffer(nf, first) == IF nf.type = 16 /\ first = 0 THEN nf.rootSec ELSE nf.cs

Flushed(nf, first) ==
    LET secs == DirSectors(nf, first)
    IN Greatest({n \in 0 .. Len(secs) : /\ n % DirBuffer(nf, first) = 0
                                       /\ CanWrite(nf, Elems(SubSeq(secs, 1, n)))})

\* how many entries the walk gets to
Reached(nf, first) ==
    DirPerSector * Less(Len(DirSectors(nf, first)), Flushed(nf, first) + DirBuffer(nf, first))

PutConverted(d, old, nf, remap, newFirst, keep, out) ==
    PutEntries(FoldLeft(LAMBDA dd, e : ConvertSub(dd, old, nf, remap, e.c,
                                                  Moved(old, nf, remap, e).c), d,
                        SelectSeq(SubSeq(keep, 1, Less(Len(keep), Reached(nf, newFirst))),
                                  IsSubdir)),
               nf, SubSeq(DirSectors(nf, newFirst), 1, Flushed(nf, newFirst)), out)

fat_convert_directory(d, old, nf, remap, newFirst, keep) ==
    PutConverted(d, old, nf, remap, newFirst, keep,
                 Converted(keep, old, nf, remap, newFirst))

NewRoot(nf) == IF nf.type = 32 THEN nf.rootCl ELSE 0
OldRoot(old) == IF old.type = 32 THEN old.rootCl ELSE 0

\* fat_convert_directory takes a root directory whose buffer it could not write
\* for one that is full
RootTooSmall(d, old, nf) ==
    /\ nf.type # old.type
    /\ Len(Kept(d, old, OldRoot(old))) > Reached(nf, NewRoot(nf))
-----------------------------------------------------------------------------
Init ==
    /\ disk = [d \in DOMAIN DevLen |-> [s \in 0 .. DevLen[d] - 1 |-> Zero]]
    /\ fs = None /\ new = None /\ ctx = None
    /\ pc = "blank" /\ resizes = 0 /\ failed = FALSE /\ files = {}
    /\ unwritable \in Bads

\* fat_create_fat16, fat_create_fat32
Create(g, type) ==
    /\ pc = "blank"
    /\ FatCreateSizes(g, type).ok
    /\ \A s \in unwritable : s[1] = g.dev
    /\ fs' = CreatedFs(g, type)
    /\ disk' = fat_create(disk, fs')
    /\ pc' = "created"
    /\ UNCHANGED <<new, ctx, resizes, unwritable, failed, files>>

\* the system that uses the file system puts files on it, as a FAT driver does
\* that is not part of this program: A and a directory D in the root, B in D,
\* a label, a deleted entry and, where there is room, two empty files; at is
\* where the clusters are, one of them possibly marked bad
Entry(k, n, c, l) == [k |-> k, n |-> n, c |-> c, l |-> l]

FilledTable(f, a, d, b, bad) ==
    [c \in DOMAIN f.fat |->
       IF c \in Elems(a) \ {a[Len(a)]} THEN a[1 + CHOOSE i \in DOMAIN a : a[i] = c]
       ELSE IF c \in Elems(b) \ {b[Len(b)]} THEN b[1 + CHOOSE i \in DOMAIN b : b[i] = c]
       ELSE IF c \in {a[Len(a)], d, b[Len(b)]} THEN EOF
       ELSE IF c = bad /\ bad # 0 THEN BAD ELSE f.fat[c]]

FileSectors(f, cl, name, len) ==
    [s \in UNION {ClusterSectors(f, c) : c \in Elems(cl)} |->
       LET i == CHOOSE j \in 0 .. Len(cl) * f.cs - 1 :
                  s = fat_cluster_to_sector(f, cl[(j \div f.cs) + 1]) + (j % f.cs)
       IN IF i < len THEN [t |-> "data", f |-> name, i |-> i] ELSE Zero]

Clusters(f) ==
    {IF k >= 0 THEN 2 + k ELSE f.count + 2 + k : k \in Spots} \ {f.rootCl}

Pad(es, n) == [i \in 1 .. n |-> IF i <= Len(es) THEN es[i] ELSE NoEntry]

PutFiles(f, a, d, b, root, rootFirst) ==
    LET sub == <<Entry("dot", ".", d, 0), Entry("dot", "..", 0, 0),
                 Entry("file", "B", b[1], LenB)>>
        room == Len(DirSectors(f, rootFirst)) * DirPerSector
        d1 == WriteAt(WriteTables(disk, f), f, FileSectors(f, a, "A", LenA))
        d2 == WriteAt(d1, f, FileSectors(f, b, "B", LenB))
    IN /\ Len(root) <= room
       /\ disk' = WriteDir(WriteDir(d2, f, d, Pad(sub, f.cs * DirPerSector)),
                           f, rootFirst, Pad(root, room))

Populate(o, at, bad, empty) ==
    LET na == DivUp(LenA, fs.cs)
        a == SubSeq(at, 1, na)
        d == at[na + 1]
        b == SubSeq(at, na + 2, Len(at))
        some == <<Entry("label", "V", 0, 0), Entry("file", "A", a[1], LenA),
                  Entry("del", "X", a[1], 1), Entry("dir", "D", d, 0)>>
        root == IF empty THEN some \o <<Entry("file", "E", 0, 0), Entry("file", "F", 0, 0)>>
                ELSE some
    IN /\ pc = "created"
       /\ PutFiles([o EXCEPT !.fat = FilledTable(o, a, d, b, bad)], a, d, b, root,
                   IF o.type = 32 THEN o.rootCl ELSE 0)
       /\ pc' = "closed"
       /\ UNCHANGED <<fs, new, ctx, resizes, unwritable, failed, files>>

\* ped_file_system_open
Open ==
    /\ pc = "closed"
    /\ \E o \in {fat_open(disk, fs)} :
         IF o.ok THEN /\ fs' = o /\ pc' = "ready"
                      /\ files' = Listing(disk, o)
                 ELSE fs' = fs /\ pc' = "lost" /\ UNCHANGED files
    /\ UNCHANGED <<disk, new, ctx, resizes, unwritable, failed>>

\* ped_file_system_resize and the part of fat_resize that makes the context
Request(g, type) ==
    /\ pc = "ready"
    /\ resizes' = resizes + 1
    /\ \E clob \in {ped_file_system_clobber_exclude(disk, g, fs)},
          sz \in {fat_calc_resize_sizes(g.len, fs.cs, type,
                     IF fs.rootSec # 0 THEN fs.rootSec ELSE RootSectors, fs.cs)} :
         \E nf \in {IF sz.ok THEN NewFs(fs, g, type, sz) ELSE None} :
           /\ disk' = clob[2]
           /\ IF ~clob[1] \/ type \notin get_fat_type(fs, g)
              THEN pc' = "refused" /\ UNCHANGED <<fs, new, ctx>>
              ELSE IF ~sz.ok THEN pc' = "undefined" /\ UNCHANGED <<fs, new, ctx>>
              ELSE IF ~fat_check_resize_geometry(fs, sz)
              THEN pc' = "no space" /\ UNCHANGED <<fs, new, ctx>>
              ELSE IF Delta(fs, nf) % nf.cs # 0
              THEN pc' = "refused" /\ UNCHANGED <<fs, new, ctx>>
              ELSE /\ fs' = [fs EXCEPT !.frag = nf.cs]
                   /\ new' = nf @@ [fat |-> fat_op_context_create_initial_fat(fs', nf)]
                   /\ ctx' = [off |-> 0, last |-> 1, remap |-> init_remap(fs', nf),
                              roots |-> <<>>]
                   /\ pc' = "duplicate"
    /\ UNCHANGED <<unwritable, failed, files>>

\* one turn of the loop of fat_duplicate_clusters
DuplicateBuffer ==
    /\ pc = "duplicate"
    /\ LET todo == ToMove(fs, new, ctx.off)
           off == Least(todo)
           frags == {f \in todo : f < off + BufferSectors \div new.frag}
       IN IF todo = {}
          THEN /\ pc' = IF fs.type = 16 /\ new.type = 32 THEN "root" ELSE "fat"
               /\ UNCHANGED <<disk, new, ctx, failed>>
          ELSE \E st \in {write_fragments([disk |-> disk, fat |-> new.fat, last |-> ctx.last,
                                           remap |-> ctx.remap, group |-> <<>>, out |-> "",
                                           failed |-> failed], fs, new, disk, frags)} :
               /\ disk' = st.disk
               /\ new' = [new EXCEPT !.fat = st.fat]
               /\ ctx' = [ctx EXCEPT !.off = off + BufferSectors \div new.frag,
                                     !.last = st.last, !.remap = st.remap]
               /\ failed' = st.failed
               /\ pc' = IF st.out = "" THEN pc ELSE st.out
    /\ UNCHANGED <<fs, resizes, unwritable, files>>

\* fat_table_alloc_check_cluster: a cluster that cannot be read is marked bad
Checked(f) ==
    [c \in DOMAIN f.fat |-> IF c < 2 \/ CanRead(f, ClusterSectors(f, c)) THEN f.fat[c] ELSE BAD]

\* alloc_root_dir: the clusters of the new root directory are taken in turn
\* but not marked in the table; whether they could be cleared is ignored
TakeClusters(fat, last, n) ==
    LET Next1(got, i) ==
            LET c == fat_table_alloc_cluster(fat, IF i = 1 THEN last ELSE got[i - 1])
            IN IF 0 \in Elems(got) THEN got ELSE Append(got, c)
    IN FoldLeft(Next1, <<>>, Upto(n))

AllocRootDir ==
    /\ pc = "root"
    /\ LET roots == TakeClusters(Checked(new), ctx.last,
                                 DivUp(More(MinRootSectors, fs.rootSec), new.cs))
           got == Elems(roots) \ {0}
       IN /\ disk' = ClearEach(disk, new, {ClusterSectors(new, c) : c \in got})
          /\ IF 0 \in Elems(roots) THEN pc' = "no space" /\ UNCHANGED <<new, ctx>>
             ELSE /\ ctx' = [ctx EXCEPT !.roots = roots]
                  /\ new' = [new EXCEPT !.rootCl = roots[1]]
                  /\ pc' = "fat"
    /\ UNCHANGED <<fs, resizes, unwritable, failed, files>>

\* fat_construct_new_fat and free_root_dir
ConstructNewFat ==
    /\ pc = "fat"
    /\ LET free == IF fs.type = 32 /\ new.type = 16 THEN Chain(fs.fat, fs.rootCl) ELSE <<>>
           rootCl == IF fs.type = 32 /\ new.type = 32
                     THEN MapCluster(fs, new, ctx.remap, fs.rootCl) ELSE new.rootCl
       IN new' = [new EXCEPT !.rootCl = rootCl,
                             !.fat = free_root_dir(fat_construct_new_fat(fs, new, ctx.remap,
                                                                         ctx.roots),
                                                   fs, ctx.remap, free)]
    /\ pc' = "tree"
    /\ UNCHANGED <<disk, fs, ctx, resizes, unwritable, failed, files>>

\* what fat_construct_dir_tree walks: FAT16 begins with the old root directory
\* or a cleared one
TreeBase ==
    LET region == new.rootOff .. new.rootOff + new.rootSec - 1
    IN IF new.type = 32 THEN disk
       ELSE IF fs.type = 16
       THEN WriteAt(disk, new, [s \in region |-> ReadAt(disk, fs, fs.rootOff + s - new.rootOff)])
       ELSE ClearEach(disk, new, {{s} : s \in region})

\* duplicate_legacy_root_dir: the one write of a directory that is checked
RootRefused ==
    /\ new.type = 16 /\ fs.type = 16
    /\ ~CanWrite(new, new.rootOff .. new.rootOff + new.rootSec - 1)

\* fat_construct_dir_tree; the answer is the user's, when files must be lost
ConstructDirTree(ignore) ==
    /\ pc = "tree" /\ ~RootRefused
    /\ ignore \/ RootTooSmall(TreeBase, fs, new)
    /\ disk' = IF fs.type = new.type
               THEN fat_construct_directory(TreeBase, fs, new, ctx.remap, NewRoot(new))
               ELSE fat_convert_directory(TreeBase, fs, new, ctx.remap, NewRoot(new),
                                          Kept(TreeBase, fs, OldRoot(fs)))
    /\ failed' = (failed \/ Flushed(new, NewRoot(new)) < Len(DirSectors(new, NewRoot(new))))
    /\ pc' = IF ignore THEN "table 0" ELSE "cancelled"
    /\ UNCHANGED <<fs, new, ctx, resizes, unwritable, files>>

RefuseRoot ==
    /\ pc = "tree" /\ RootRefused
    /\ pc' = "no write"
    /\ UNCHANGED <<disk, fs, new, ctx, resizes, unwritable, failed, files>>

\* fat_table_write_all, one copy at a time
WriteTable(n) ==
    /\ pc = (IF n = 0 THEN "table 0" ELSE "table 1")
    /\ IF CanWrite(new, DOMAIN fat_table_write(new, n))
       THEN /\ disk' = WriteAt(disk, new, fat_table_write(new, n))
            /\ pc' = IF n = 0 THEN "table 1" ELSE "boot"
       ELSE UNCHANGED disk /\ pc' = "no write"
    /\ UNCHANGED <<fs, new, ctx, resizes, unwritable, failed, files>>

Information(f) == IF f.type = 32 THEN {InfoOffset} ELSE {}

\* _copy_hidden_sectors, the boot sector, the information sector, and
\* resize_context_assimilate.  None of the writes is checked.
Finish ==
    /\ pc = "boot"
    /\ LET both32 == fs.type = 32 /\ new.type = 32
           hidden == IF both32 THEN 1 .. Less(fs.fatOff, new.fatOff) - 1 ELSE {}
           boot == [s \in {0} |-> fat_boot_sector_generate(new)]
           d1 == Attempt(disk, new, [s \in hidden |-> ReadAt(disk, fs, s)])
           d2 == IF CanWrite(new, {0})
                 THEN Attempt(WriteAt(d1, new, boot), new, fat_boot_sector_write(new)) ELSE d1
       IN /\ disk' = IF CanWrite(new, Information(new)) THEN WriteInfo(d2, new) ELSE d2
          /\ failed' = (failed \/ ~CanWrite(new, hidden \cup Information(new)
                                                  \cup DOMAIN fat_boot_sector_write(new)))
    /\ pc' = "done"
    /\ UNCHANGED <<fs, new, ctx, resizes, unwritable, files>>

\* ped_file_system_close: the flags of the new clusters were never collected,
\* so that the file system is opened again before it is resized again
Close ==
    /\ pc = "done" /\ resizes < Len(Targets)
    /\ fs' = new /\ new' = None /\ ctx' = None
    /\ pc' = "closed"
    /\ UNCHANGED <<disk, resizes, unwritable, failed, files>>

\* sequences of n different clusters
Placements(S, n) == {q \in [1 .. n -> S] : Cardinality(Elems(q)) = n}

Next ==
    \/ \E g \in Homes, type \in Types : Create(g, type)
    \/ /\ resizes < Len(Targets)
       /\ \E g \in Targets[resizes + 1], type \in Types : Request(g, type)
    \/ /\ pc = "created"
       /\ \E o \in {fat_open(disk, fs)} :
            \E at \in Placements(Clusters(o), DivUp(LenA, fs.cs) + 1 + DivUp(LenB, fs.cs)) :
              \E bad \in {0} \cup (Clusters(o) \ Elems(at)), empty \in BOOLEAN :
                Populate(o, at, bad, empty)
    \/ Open \/ DuplicateBuffer \/ AllocRootDir \/ ConstructNewFat
    \/ \E ignore \in BOOLEAN : ConstructDirTree(ignore)
    \/ \E n \in {0, 1} : WriteTable(n)
    \/ RefuseRoot \/ Finish \/ Close

Spec == Init /\ [][Next]_vars

-----------------------------------------------------------------------------
(***************************************************************************)
(* Properties                                                              *)
(***************************************************************************)
\* what a file system on the disk holds, or nothing when it does not open
ListingOf(o) == IF o.ok THEN Listing(disk, o) ELSE {}
Holds(f) == ListingOf(fat_open(disk, f))

\* the conversions to FAT16 that go wrong: with smaller clusters free_root_dir
\* frees a cluster in use, and clearing the new root directory destroys the
\* directories of the old file system that lie there before they are read
ConversionLoses ==
    /\ fs.type = 32 /\ new.type = 16
    /\ \/ new.cs # fs.cs
       \/ /\ fs.dev = new.dev
          /\ \E s \in new.rootOff .. new.rootOff + new.rootSec - 1 :
               \E c \in 2 .. fs.count + 1 :
                 /\ fs.flag[c] = "dir"
                 /\ new.start + s - fs.start \in ClusterSectors(fs, c)

\* the layout runs over the end: calc_sizes enlarged the FATs once more after it
\* had counted the clusters
Overruns(f) == f.clOff + f.count * f.cs > f.len

\* A resize that ends well leaves a file system that opens and holds the same
\* tree of names and the same contents, wherever clusters, directories and
\* metadata had to move, whether the type or the cluster size changed; files
\* are lost only from a FAT16 root directory that is full, with consent.
\* fat_resize (resize.c) with everything it calls.  Write errors, the
\* conversions and the layouts above are apart.
FilesPreserved ==
    pc = "done" /\ ~failed /\ ~ConversionLoses /\ ~Overruns(new) =>
      \/ Holds(new) = files
      \/ /\ fs.type = 32 /\ new.type = 16 /\ Holds(new) \subseteq files
         /\ Cardinality({x \in Holds(new) : x.dir = "\\"}) = new.rootSec * DirPerSector

\* Until the new directory tree is put over the old metadata the old file
\* system stays whole: a crash, or an error that makes fat_resize give up
\* while it duplicates clusters, allocates the root directory or builds the
\* new table, loses nothing.  A FAT32 tree is built in new clusters, so there
\* it holds until the first FAT is written; a copy never changes its source.
OldKept ==
    /\ pc \in {"duplicate", "root", "fat", "tree", "no space"} /\ ~failed => Holds(fs) = files
    /\ pc = "table 0" /\ new.type = 32 /\ ~failed => Holds(fs) = files
    /\ new.ok /\ new.dev # fs.dev => Holds(fs) = files
\* What fat_create and fat_resize believe of the new file system is what the
\* next ped_file_system_open reads from its boot sector: the type told from
\* the cluster count, the number of clusters and where they begin, unless the
\* layout overruns.  (calc_sizes and fat_calc_align_sectors against
\* fat_boot_sector_analyse.)
ReopensAsLaidOut ==
    LET Agree(o, f) == o.ok => /\ o.type = f.type /\ o.count = f.count
                               /\ o.clOff = f.clOff /\ o.cs = f.cs
        Same(f) == Agree(fat_open(disk, f), f)
    IN /\ pc = "created" /\ ~Overruns(fs) => Same(fs)
       /\ pc = "done" /\ ~failed /\ ~Overruns(new) /\ ~ConversionLoses => Same(new)
\* A sector the old file system marked bad holds no file and no directory of
\* the new one: the clusters that cover it are marked bad before anything is
\* allocated and again in the table that is written
\* (fat_op_context_create_initial_fat, fat_construct_new_fat).
BadAvoided ==
    pc = "done" /\ ~failed /\ fs.dev = new.dev =>
      \A c \in 2 .. new.count + 1 :
        (new.fat[c] # AVAIL /\ new.fat[c] # BAD) =>
          \A s \in ClusterSectors(new, c) :
            LET o == new.start + s - fs.start
            IN fat_is_sector_in_clusters(fs, o) => fs.fat[fat_sector_to_cluster(fs, o)] # BAD

\* Where a resize ends well the files are all there, and none of them is on a
\* sector known to be bad.
FilesSafe == FilesPreserved /\ BadAvoided
=============================================================================
