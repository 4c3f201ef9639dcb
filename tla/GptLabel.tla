----------------------------- MODULE GptLabel -----------------------------
(* What labels/gpt.c adds to the partition lists: the data area, the       *)
(* metadata at both ends and the numbering.                                *)
EXTENDS PartList

CONSTANTS
    EntryCount,     \* entries in the partition array
    Ptes            \* sectors the array occupies

ASSUME GptAssumption ==
    /\ EntryCount \in Nat \ {0}
    /\ Ptes \in Nat \ {0}
    /\ 2 + Ptes <= DevLength - 2 - Ptes     \* else gpt_alloc refuses

data_area == [start |-> 2 + Ptes, end |-> DevLength - 2 - Ptes]

gpt_partition_enumerate(d, p) ==
    LET free == {i \in 1 .. EntryCount : ped_disk_get_partition(d, i) = NULL}
    IN  IF p.num # NoNum \/ free = {} THEN p
        ELSE [p EXCEPT !.num = CHOOSE i \in free : \A j \in free : i <= j]

gpt_alloc_metadata(d) ==
    AddMetadata(AddMetadata([d |-> d, ok |-> TRUE], "normal", 0, 1 + Ptes),
                "normal", DevLength - 1 - Ptes, DevLength - 1)

gpt_partition_align(p, c) ==
    ped_constraint_solve_nearest(
        ped_constraint_intersect(c, ped_constraint_new_from_max(data_area)),
        GeomOf(p))

=============================================================================
