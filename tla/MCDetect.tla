------------------------------ MODULE MCDetect ------------------------------
(***************************************************************************)
(* What the program believes of a disk it did not write: the file system of *)
(* a region, the flags behind a type, the geometry behind an entry.  mode   *)
(* says which of the three a behaviour exercises, the others keep their     *)
(* first state.                                                             *)
(***************************************************************************)
EXTENDS FsProbe, PartFlags, DosGeom, Functions

MCParts == {[start |-> 2048, len |-> 100000], [start |-> 2048, len |-> 60000], [start |-> 2048, len |-> 98003],
            [start |-> 18432, len |-> 60000], [start |-> 2048, len |-> 290000]}
MCTypes == <<"xfs", "sun-ufs", "hp-ufs", "reiserfs", "ntfs", "linux-swap(v0)", "linux-swap(v1)", "swsusp", "jfs",
             "hfs", "hfs+", "hfsx", "fat16", "fat32", "f2fs", "ext2", "ext3", "ext4", "nilfs2", "btrfs", "udf",
             "affs1", "asfs", "apfs1">>
MCKinds == Range(MCTypes)
MCGeometries == {[heads |-> h[1], sectors |-> h[2]] : h \in {<<255, 63>>, <<16, 63>>, <<4, 17>>}}

VARIABLE mode

detect_vars == <<probe_vars, flag_vars, geom_vars, mode>>

DetectInit ==
    /\ mode \in {"probe", "flags", "chs"}
    /\ ProbeInit /\ FlagInit
    /\ mode # "probe" => dev_len = 120000 /\ part = [start |-> 2048, len |-> 100000]
    /\ mode # "flags" => label = "msdos"
    /\ IF mode = "chs" THEN GeomInit
       ELSE /\ written = NoChs /\ bios_geom = NoChs /\ table = <<>>
            /\ chs_parts = <<>> /\ chs_pc = "read" /\ passes = 0

DetectNext ==
    \/ mode = "probe" /\ ProbeNext /\ UNCHANGED <<flag_vars, geom_vars, mode>>
    \/ mode = "flags" /\ FlagNext /\ UNCHANGED <<probe_vars, geom_vars, mode>>
    \/ mode = "chs" /\ GeomNext /\ UNCHANGED <<probe_vars, flag_vars, mode>>
=============================================================================
