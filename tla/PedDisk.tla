------------------------------ MODULE PedDisk ------------------------------
(***************************************************************************)
(* The operations of libparted/disk.c on an in-memory partition table.     *)
(* Every API call is one action.  Inside a call the table is in update     *)
(* mode: the placeholders are gone (push) and are made again when the      *)
(* outermost call leaves it (pop).                                         *)
(***************************************************************************)
EXTENDS DosLabel, GptLabel, DiskOps

CONSTANTS
    Label,          \* "gpt" or "msdos": disk->type
    Wishes,         \* the regions that callers ask for
    Fresh,          \* TRUE: the table is new, needs_clobber is still set
    Ignorer,        \* TRUE: the user may answer "Ignore" to a warning
    Calls,          \* the calls that callers make
    MaxParts        \* bound: active partitions on the disk

ASSUME PedDiskAssumption ==
    /\ Label \in {"gpt", "msdos"}
    /\ Fresh \in BOOLEAN /\ Ignorer \in BOOLEAN
    /\ MaxParts \in Nat

VARIABLES
    d,          \* the PedDisk
    excuse      \* what happened that the caller asked for against advice

vars == <<d, excuse>>

(* The operations of the label, which the configurations pass to DiskOps. *)
LabelHasExtended(disk) == Label = "msdos"
LabelMaxPrimary(disk) == IF Label = "gpt" THEN EntryCount ELSE NPri

LabelEnumerate(disk, p, ignore) ==
    [d |-> disk,
     p |-> IF Label = "gpt" THEN gpt_partition_enumerate(disk, p)
                            ELSE msdos_partition_enumerate(disk, p)]

LabelAlign(disk, p, c) ==
    IF Label = "gpt" THEN gpt_partition_align(p, c) ELSE msdos_partition_align(disk, p, c)

LabelMetadata(disk) ==
    IF Label = "gpt" THEN gpt_alloc_metadata(disk) ELSE msdos_alloc_metadata(disk)

---------------------------------------------------------------------------
(* Calls built from calls. *)

(* Mutant: the room starts one sector late. *)
Mut_RoomAround(disk, p) ==
    LET list == ListOf(disk, p)
        ext  == ped_disk_extended_partition(disk)
        i    == CHOOSE k \in DOMAIN list : list[k] = p
    IN  [start |-> IF i > 1 THEN list[i - 1].end + 2
                   ELSE IF p.type = "logical" THEN ext.start ELSE 0,
         end   |-> IF i < Len(list) THEN list[i + 1].start - 1
                   ELSE IF p.type = "logical" THEN ext.end ELSE DevLength - 1]

(* The sectors between p's neighbours.  *)
RoomAround(disk, p) ==
    LET list == ListOf(disk, p)
        ext  == ped_disk_extended_partition(disk)
        i    == CHOOSE k \in DOMAIN list : list[k] = p
    IN  [start |-> IF i > 1 THEN list[i - 1].end + 1
                   ELSE IF p.type = "logical" THEN ext.start ELSE 0,
         end   |-> IF i < Len(list) THEN list[i + 1].start - 1
                   ELSE IF p.type = "logical" THEN ext.end ELSE DevLength - 1]

(* A failed attempt is followed by a move back to where p was. *)
OrUndo(r, p, ignore) ==
    IF r.ok THEN r
    ELSE [ped_disk_set_partition_geom(r.d, p, ped_constraint_any, p.start, p.end, ignore)
             EXCEPT !.ok = FALSE]

MaximizeIn(d1, p, c, room, ignore) ==
    Popped(OrUndo(ped_disk_set_partition_geom(d1, p, c, room.start, room.end, ignore),
                  p, ignore))

ped_disk_maximize_partition(disk, p, c, ignore) ==
    LET d1 == disk_push_update_mode(disk)
    IN  MaximizeIn(d1, p, c, RoomAround(d1, p), ignore)

(* Maximises, and puts the partition back where it was. *)
PutBack(m, p, ignore) ==
    IF ~ m.ok THEN m
    ELSE [ped_disk_set_partition_geom(m.d, m.part, ped_constraint_exact(GeomOf(p)),
                                      p.start, p.end, ignore) EXCEPT !.ok = TRUE]

ped_disk_get_max_partition_geometry(disk, p, c, ignore) ==
    PutBack(ped_disk_maximize_partition(disk, p, c, ignore), p, ignore)

MinimizeIn(d1, ext, ignore) ==
    IF d1.logi = <<>>
    THEN Result(ped_disk_delete_partition(disk_pop_update_mode(d1), ext), TRUE, ext)
    ELSE Popped(ped_disk_set_partition_geom(d1, ext, ped_constraint_any,
                    d1.logi[1].start, Last(d1.logi).end, ignore))

ped_disk_minimize_extended_partition(disk, ignore) ==
    MinimizeIn(disk_push_update_mode(disk), ped_disk_extended_partition(disk), ignore)

EmptyDisk == [prim |-> <<>>, logi |-> <<>>, um |-> 1, clobber |-> FALSE,
              cyl |-> TRUE, meta |-> TRUE]

(* type->ops->alloc and the pop that ends ped_disk_new_fresh. *)
ped_disk_new_fresh == [disk_pop_update_mode(EmptyDisk) EXCEPT !.clobber = TRUE]

(* Mutant: the alignment flag is not copied. *)
Mut_ped_disk_duplicate(disk) ==
    LET d1 == disk_push_update_mode(ped_disk_new_fresh)
        d2 == FoldLeft(disk_raw_add, d1, SelectSeq(disk.prim, IsActive))
        d3 == FoldLeft(disk_raw_add, d2, SelectSeq(disk.logi, IsActive))
    IN  [disk_pop_update_mode(d3) EXCEPT !.clobber = disk.clobber]

(* The copies are put in one by one, logical partitions after the extended *)
(* one that holds them.                                                    *)
ped_disk_duplicate(disk) ==
    LET d1 == disk_push_update_mode([ped_disk_new_fresh EXCEPT !.cyl = disk.cyl])
        d2 == FoldLeft(disk_raw_add, d1, SelectSeq(disk.prim, IsActive))
        d3 == FoldLeft(disk_raw_add, d2, SelectSeq(disk.logi, IsActive))
    IN  [disk_pop_update_mode(d3) EXCEPT !.clobber = disk.clobber]

---------------------------------------------------------------------------
(* The specification.                                                      *)

Init ==
    /\ d = [ped_disk_new_fresh EXCEPT !.clobber = Fresh]
    /\ excuse = {}

Types == IF HasExtended(d) THEN {"normal", "extended", "logical"} ELSE {"normal"}
Answers == {FALSE, Ignorer}
Limits(g) == {ped_constraint_any} \cup
                 (IF "exact" \in Calls THEN {ped_constraint_exact(g)} ELSE {})

(* A call with result r.  What the user asked for against advice stays on  *)
(* record.  "stale": the last call may have left old placeholders behind.  *)
Call(name, r, ignore, more) ==
    /\ name \in Calls
    /\ d' = r.d
    /\ excuse' = (excuse \ {"stale"}) \cup more
                   \cup (IF ignore THEN {"ignored"} ELSE {})
                   \cup (IF d.clobber THEN {"unaligned"} ELSE {})
                   \cup (IF r.ok THEN {} ELSE {"stale"})

Add ==
    \E t \in Types, g \in Wishes, ignore \in Answers :
        \E c \in Limits(g) :
            /\ Cardinality(Active(d)) < MaxParts
            /\ Call("add",
                    ped_disk_add_partition(d, Part(t, "part", g.start, g.end), c, ignore),
                    ignore, {})

(* The caller may not remove an extended partition that has logical ones.  *)
(* The placeholders are made before the other partitions are renumbered.   *)
Remove1 ==
    \E p \in Active(d) :
        /\ p.type = "extended" => \A q \in ToSet(d.logi) : ~ IsActive(q)
        /\ Call("remove", Result(ped_disk_remove_partition(d, p), TRUE, p), FALSE, {"stale"})

Delete ==
    \E p \in Active(d) :
        Call("delete", Result(ped_disk_delete_partition(d, p), TRUE, p), FALSE, {})

DeleteAll ==
    Call("delete_all", Result(ped_disk_delete_all(d), TRUE, NULL), FALSE, {})

MovedExtended(p) == IF p.type = "extended" THEN {"ext_moved"} ELSE {}

SetGeom ==
    \E p \in Active(d), g \in Wishes, ignore \in Answers :
        \E c \in Limits(g) :
            Call("set_geom",
                 ped_disk_set_partition_geom(d, p, c, g.start, g.end, ignore),
                 ignore, MovedExtended(p))

Maximize ==
    \E p \in Active(d), ignore \in Answers :
        Call("maximize", ped_disk_maximize_partition(d, p, ped_constraint_any, ignore),
             ignore, MovedExtended(p))

CallGetMax(p, r, ignore) ==     \* the second set_geom may fail unnoticed
    Call("get_max", r, ignore,
         MovedExtended(p) \cup (IF r.part = p THEN {} ELSE {"stale"}))

GetMax ==
    \E p \in Active(d), ignore \in Answers :
        CallGetMax(p,
            ped_disk_get_max_partition_geometry(d, p, ped_constraint_any, ignore), ignore)

MinimizeExtended ==
    \E ignore \in Answers :
        /\ ped_disk_extended_partition(d) # NULL
        /\ Call("minimize", ped_disk_minimize_extended_partition(d, ignore),
                ignore, {"ext_moved"})

ped_disk_set_flag(disk) ==
    disk_pop_update_mode([disk_push_update_mode(disk) EXCEPT !.cyl = ~ @])

SetCylinderFlag ==
    /\ Label = "msdos"
    /\ Call("set_flag", Result(ped_disk_set_flag(d), TRUE, NULL), FALSE, {})

Commit ==                   \* what ped_disk_commit_to_dev changes in memory
    /\ "commit" \in Calls /\ d.clobber
    /\ d' = [d EXCEPT !.clobber = FALSE]
    /\ UNCHANGED excuse

Next ==
    \/ Add
    \/ Remove1
    \/ Delete
    \/ DeleteAll
    \/ SetGeom
    \/ Maximize
    \/ GetMax
    \/ MinimizeExtended
    \/ SetCylinderFlag
    \/ Commit

Spec == Init /\ [][Next]_vars
---------------------------------------------------------------------------
(* Properties.                                                             *)

Primaries == {p \in ToSet(d.prim) : IsActive(p)}
Logicals == {p \in ToSet(d.logi) : IsActive(p)}
Ext == ped_disk_extended_partition(d)

(* Nobody overrode a check or used a table that was not committed yet. *)
Advised == excuse \cap {"ignored", "unaligned"} = {}

(* Every call of disk.c leaves the update mode it entered, and what it     *)
(* leaves in the lists is on the device and within the limits that         *)
(* check_partition enforces.                                               *)
TypeOK ==
    /\ d.um = 0
    /\ \A p \in AllParts(d) :
         /\ p.start \in 0 .. DevLength - 1 /\ p.end \in p.start .. DevLength - 1
         /\ IsActive(p) => Length(p) <= MaxLength /\ p.start <= MaxLength

Disjoint(ps) ==
    \A p, q \in ps : p # q => ~ ped_geometry_test_overlap(GeomOf(p), GeomOf(q))

(* No sequence of calls makes two partitions overlap or lets a logical one *)
(* out of the extended partition, unless the user chose "Ignore" or the    *)
(* table is fresh (partition_align then ignores the free region).          *)
NoOverlap ==
    Advised =>
        /\ Disjoint(Primaries) /\ Disjoint(Logicals)
        /\ \A p \in Logicals :
             Ext # NULL /\ ped_geometry_test_inside(GeomOf(Ext), GeomOf(p))

Tiles(list, lo, hi) ==
    /\ list # <<>> /\ list[1].start = lo /\ Last(list).end = hi
    /\ \A i \in 1 .. Len(list) - 1 : list[i + 1].start = list[i].end + 1

(* Leaving update mode puts back exactly what entering it took away: the   *)
(* partitions, the metadata and the free space tile the device, and those  *)
(* of the extended partition tile it, when the label could place all its   *)
(* metadata (the result of alloc_metadata is not looked at).               *)
Tiled ==
    (Advised /\ "stale" \notin excuse /\ d.meta) =>
        /\ Tiles(d.prim, 0, DevLength - 1)
        /\ Ext # NULL => Tiles(d.logi, Ext.start, Ext.end)

(* alloc_metadata can fail only for an extended partition shorter than a   *)
(* track or for one that was moved, never in a table built by adding and   *)
(* deleting.                                                               *)
MetadataPlaced ==
    (excuse \subseteq {"stale"} /\ (Ext # NULL => Length(Ext) >= Sectors)) => d.meta

(* After every call all partitions are numbered, no number is used twice,  *)
(* primary numbers fit the label and logical numbers have no gap, without  *)
(* which the logical partitions after the gap would not be written.        *)
NumbersSettled ==
    /\ \A p, q \in Active(d) : p # q => p.num # q.num
    /\ \A p \in Primaries : p.num \in 1 .. MaxPrimary(d)
    /\ HasExtended(d) => {p.num : p \in Logicals}
                         = FirstLog .. FirstLog + Cardinality(Logicals) - 1

(* A copy made partition by partition has the same partitions, numbers and *)
(* placeholders as the original, whatever calls the original went through. *)
DuplicateFaithful == (Advised /\ "stale" \notin excuse) => ped_disk_duplicate(d) = d

Contained(r, p) ==
    IF r.ok THEN Active(d) \ {p} = Active(r.d) \ {r.part} ELSE Active(r.d) = Active(d)

(* A resize that fails leaves every partition, the one it was for too,     *)
(* as it was; one that succeeds changes no other.                          *)
SetGeomContained ==
    \A p \in Active(d), g \in Wishes :
        Contained(ped_disk_set_partition_geom(d, p, ped_constraint_any,
                                              g.start, g.end, FALSE), p)

Restored(r) == r.ok => Active(r.d) = Active(d)

(* The assertion that ends ped_disk_get_max_partition_geometry: "this      *)
(* assertion should never fail, because the old geometry was valid".       *)
GetMaxRestores ==
    Advised => \A p \in Active(d) :
        Restored(ped_disk_get_max_partition_geometry(d, p, ped_constraint_any, FALSE))

Grown(r, p) == r.ok => ped_geometry_test_inside(GeomOf(r.part), GeomOf(p))

(* ped_disk_maximize_partition: "The new geometry will be a superset of    *)
(* the old geometry."                                                      *)
MaximizeGrows ==
    Advised => \A p \in Active(d) :
        Grown(ped_disk_maximize_partition(d, p, ped_constraint_any, FALSE), p)

(* After every call of disk.c, failed ones and nested ones included, the   *)
(* two lists describe the device: nothing is in update mode or beyond the  *)
(* limits, no partitions overlap, nothing is covered twice or not at all.  *)
ListsSound == TypeOK /\ NoOverlap /\ Tiled

(* On a GPT (the alignment of a DOS label breaks the last two) a resize    *)
(* that fails changes nothing and one that succeeds no other partition, a  *)
(* query for the largest geometry leaves all where they were, and          *)
(* maximising never shrinks.                                               *)
CallsContained == SetGeomContained /\ GetMaxRestores /\ MaximizeGrows
=============================================================================
