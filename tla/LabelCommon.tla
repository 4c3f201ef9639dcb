---------------------------- MODULE LabelCommon ----------------------------
(***************************************************************************)
(* What the label modules share: the medium, a function from sectors to    *)
(* what is written there, and the steps every labels/*.c repeats.          *)
(*                                                                         *)
(* A disk has, besides the fields of PartList, lab (disk->type), spec      *)
(* (disk_specific) and bios (dev->bios_geom, which reading a label may     *)
(* change).  An active partition has, besides the fields of Part, fs, id   *)
(* (the label's code for the kind of partition), flags and name, and size, *)
(* which only dvh keeps.                                                   *)
(***************************************************************************)
EXTENDS DiskOps

CONSTANTS
    Sectors, Heads,     \* dev->hw_geom
    Flags,              \* the PedPartitionFlags that are told apart
    ClobberSpan         \* sectors that ped_disk_clobber zeroes at each end

ASSUME LabelCommonAssumption ==
    /\ Sectors \in Nat \ {0} /\ Heads \in Nat \ {0}
    /\ Flags \subseteq {"boot", "root", "swap", "lvm", "raid", "hidden"}
    /\ ClobberSpan \in Nat \ {0}

HwGeom == [sectors |-> Sectors, heads |-> Heads,
           cylinders |-> DevLength \div (Sectors * Heads)]

CylSize(bios) == bios.sectors * bios.heads

Zero == [tag |-> "zero"]
Data == [tag |-> "data"]

(* _ped_disk_alloc *)
BlankDisk(lab, bios, spec) ==
    [lab |-> lab, spec |-> spec, bios |-> bios, prim |-> <<>>, logi |-> <<>>,
     um |-> 1, clobber |-> FALSE, meta |-> TRUE]

NoDisk == BlankDisk("none", HwGeom, [none |-> TRUE])

LabelPart(type, g, id, name) ==
    Part(type, "part", g.start, g.end) @@
    [fs |-> "none", id |-> id, flags |-> {}, name |-> name, size |-> Length(g)]

Numbered(p, n) == [p EXCEPT !.num = n]

(* The lowest number of ns that no partition has, or NoNum. *)
LowestFree(disk, ns) ==
    LET free == {n \in ns : ped_disk_get_partition(disk, n) = NULL}
    IN  IF free = {} THEN NoNum ELSE CHOOSE n \in free : \A m \in free : n <= m

(* Mutant: a partition that has a number gets a new one. *)
Mut_KeepOrLowest(disk, p, ns) == [d |-> disk, p |-> Numbered(p, LowestFree(disk, ns))]

(* partition_enumerate of most labels: "never change the partition         *)
(* numbers".                                                               *)
KeepOrLowest(disk, p, ns) ==
    [d |-> disk, p |-> IF p.num # NoNum THEN p ELSE Numbered(p, LowestFree(disk, ns))]

FirstSoln(gs) == IF gs = <<>> THEN NULL ELSE gs[1]

(* ped_partition_attempt_align with each of the label's own constraints in *)
(* turn, until one has a solution.                                         *)
ped_partition_attempt_align(p, external, internals) ==
    FirstSoln(SelectSeq(
        [i \in DOMAIN internals |->
            ped_constraint_solve_nearest(
                ped_constraint_intersect(external, internals[i]), GeomOf(p))],
        LAMBDA g : g # NULL))

Okay(disk) == [d |-> disk, ok |-> TRUE]
Fail(disk) == [d |-> disk, ok |-> FALSE]

(* A call that destroys what it read when it fails. *)
OrEmpty(r) == IF r.ok THEN r ELSE Fail(ped_disk_delete_all(r.d))

Outcome(r) == [d |-> r.d, ok |-> r.ok]

(* One pass of a read loop: the partition found in a slot is added exactly *)
(* where it is; the loop ends at the first one that is refused.            *)
ReadPart(acc, p, ignore) ==
    IF ~ acc.ok THEN acc
    ELSE Outcome(ped_disk_add_partition(acc.d, p, ped_constraint_exact(GeomOf(p)), ignore))

(* A bit in a flag set. *)
WithFlag(p, flag, state) ==
    [p EXCEPT !.flags = IF state THEN @ \cup {flag} ELSE @ \ {flag}]

(* A flag that excludes those of others. *)
WithOnly(p, flag, state, others) ==
    WithFlag([p EXCEPT !.flags = IF state THEN @ \ others ELSE @], flag, state)

=============================================================================
