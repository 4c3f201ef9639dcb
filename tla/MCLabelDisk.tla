---------------------------- MODULE MCLabelDisk ----------------------------
(* A device of 12 sectors and cylinders of 2; maps of 4 sectors.           *)
EXTENDS LabelDisk

R(start, end) == [start |-> start, end |-> end]

MCWishes == {R(4, 5), R(5, 8)}

Blank == [s \in 0 .. DevLength - 1 |-> Data]

HasGpt == [Blank EXCEPT ![0] = [tag |-> "pmbr"], ![1] = [tag |-> "gpt"]]

(* A Sun label written for cylinders of 4 sectors. *)
HasSun ==
    [Blank EXCEPT ![0] =
        [tag |-> "sun", sectors |-> 2, heads |-> 2, cylinders |-> DevLength \div 4,
         slots |-> [n \in 1 .. SunSlots |->
            IF n = 1 THEN [id |-> "0x83", cyl |-> 1, len |-> 4] ELSE NoEntry]]]

(* A dvh label; without a volume header its checksum is wrong as well. *)
DvhSlotsOf(header) ==
    [n \in 1 .. DvhSlots |->
        CASE n = 1 -> [id |-> "raw", start |-> 4, len |-> 1]
          [] n = 2 -> [id |-> "raw", start |-> 5, len |-> 2]
          [] n = VolHdr /\ header -> [id |-> "volhdr", start |-> 0, len |-> VolHdrSize]
          [] OTHER -> [id |-> "volhdr", start |-> 0, len |-> 0]]

HasDvh(header) ==
    [Blank EXCEPT ![0] =
        [tag |-> "dvh", sum |-> header, root |-> 1, swap |-> 0, bootfile |-> "x",
         slots |-> DvhSlotsOf(header),
         files |-> [n \in 1 .. DvhFiles |->
            [name |-> "x", start |-> 2, len |-> IF n = 1 /\ header THEN 1 ELSE 0]]]]

(* A Mac label whose map has no entry for itself. *)
HasMac ==
    [Blank EXCEPT ![0] = [tag |-> "mac", drivers |-> {}],
        ![1] = [tag |-> "macpart", map_count |-> 1, start |-> 5, len |-> 5,
                name |-> "x", type |-> UNIX, data |-> 5]]

(* An Amiga label with a file system and its code; in the damaged one the   *)
(* second partition's block has a bad checksum and links to itself.         *)
AmigaPB(low, next, sum) ==
    [tag |-> "PART", sum |-> sum, next |-> next, id |-> "LNX", flags |-> {"boot"},
     name |-> "dh0", low |-> low, high |-> low]

HasAmiga(damaged) ==
    [Blank EXCEPT
        ![0] = [tag |-> "RDSK", sum |-> TRUE, parts |-> 3, bad |-> LinkEnd,
                fshd |-> 1, boot |-> LinkEnd, lo |-> 0, hi |-> 5],
        ![1] = [tag |-> "FSHD", sum |-> TRUE, next |-> LinkEnd, linked |-> 2],
        ![2] = [tag |-> "LSEG", sum |-> TRUE, next |-> LinkEnd],
        ![3] = AmigaPB(3, 4, TRUE),
        ![4] = AmigaPB(4, IF damaged THEN 4 ELSE LinkEnd, ~ damaged)]

MCMedia == {HasGpt, HasSun, HasDvh(TRUE), HasDvh(FALSE), HasMac, HasAmiga(TRUE), HasAmiga(FALSE)}
=============================================================================
