---------------------------- MODULE MCFatResize ----------------------------
(***************************************************************************)
(* The instance of FatResize that TLC checks: a FAT16 of 8 to 16 clusters    *)
(* and a FAT32 of 16 clusters and more, the sizes at which the choice of     *)
(* type, of the cluster size and of the number of FAT sectors all change.   *)
(***************************************************************************)
EXTENDS FatResize

G(dev, start, len) == [dev |-> dev, start |-> start, len |-> len]
By(fat16, fat32) == [type \in Types |-> IF type = 16 THEN fat16 ELSE fat32]

MCDevLen == [d \in {"a", "b"} |-> IF d = "a" THEN 58 ELSE 32]
MCReserved == By(1, 3)
MCEntriesPerSector == By(6, 3)
MCMinClusterSize == By(1, 2)
MCMaxCount == By(16, 60)
MCHomes == {G("a", 2, 22), G("a", 2, 32), G("a", 2, 52)}
MCTargets == <<{G("a", 2, 21), G("a", 2, 29), G("a", 1, 38), G("a", 2, 54), G("a", 4, 34),
               G("a", 9, 23), G("a", 5, 49), G("b", 0, 32), G("a", 0, 30)},
               {G("a", 2, 54), G("a", 4, 29)}>>
MCSpots == {0, 1, 4, -2, -1}
MCBads == {{}, {<<"a", 12>>}, {<<"a", 1>>, <<"a", 3>>, <<"a", 28>>}}
=============================================================================
