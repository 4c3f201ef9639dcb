----------------------------- MODULE MCDevices -----------------------------
(***************************************************************************)
(* Devices: the structures and counts of device.c, under them the Linux     *)
(* architecture, which opens and flushes nodes and tells the kernel of a    *)
(* new table, and the choice of a region of a device.  layer says which of  *)
(* the four a behaviour exercises, the others are at rest.                  *)
(* Three PedDevice structures for two paths: a removed device and its       *)
(* successor exist together.                                                *)
(***************************************************************************)
EXTENDS PedDevice, LinuxSync, LinuxDevice, ConstraintSolver

P(s, l) == [start |-> s, len |-> l, ext |-> FALSE]
X(s, l) == [start |-> s, len |-> l, ext |-> TRUE]
T(a, b, c) == [n \in {x \in 1 .. 3 : <<a, b, c>>[x].len > 0} |-> <<a, b, c>>[n]]
No == P(0, 0)
MCTables == {T(P(1, 3), P(4, 3), No), T(P(1, 4), P(5, 2), No),
             T(P(4, 3), P(1, 3), No), T(P(3, 4), P(1, 2), No),
             T(P(1, 3), X(4, 4), P(5, 2)),
             T(P(1, 3), X(4, 3), No),
             T(No, P(4, 3), P(1, 1))}

N(name, kind, first, text, runs, place) ==
    [name |-> name, blk |-> kind # "none", kind |-> kind, first |-> first,
     whole |-> first, text |-> text, runs |-> runs, place |-> place]
MCNodes == {N("sda", "scsi", TRUE, "", 1, "standard"), N("sda1", "scsi", FALSE, "", 2, "named"),
            N("dm-0", "dm", TRUE, "dmraid", 2, ""), N("ram0", "ram", TRUE, "", 2, "named"),
            N("hda", "ide", TRUE, "", 1, "standard"), N("nvme0n1", "blkext", TRUE, "nvme", 4, ""), N("image", "none", FALSE, "", 1, "named")}

(* Regions: alignments whose grains have a common factor or none, one of    *)
(* them a single sector (grain 0), and an offset that the labels write as   *)
(* -1.                                                                      *)
MCAligns == {ped_alignment_any, ped_alignment_new(0, 2),
             ped_alignment_new(-1, 4), ped_alignment_new(1, 3)}
MCSizes == {1, 3, DevLength}

VARIABLE layer

DevicesInit ==
    /\ layer \in {"users", "commit", "node", "region"}
    /\ Init /\ SyncInit /\ DevInit
    /\ layer # "users" => path = CHOOSE f \in [Objs -> Paths] : TRUE
    /\ layer # "commit" => disk = (CHOOSE t \in Tables : TRUE) /\ backend = "blkpg" /\ sysfs
    /\ layer # "node" => medium = CHOOSE m \in [Sectors -> Contents] : TRUE
    /\ IF layer = "region" THEN SolveInit
       ELSE con = NULL /\ sols = {} /\ narrowed = 0 /\ wish = NULL /\ res = NULL

(* A caller that has its region asks no more. *)
Chosen == layer = "region" /\ wish # NULL /\ UNCHANGED <<vars, sync_vars, dev_vars, solver_vars, layer>>

DevicesNext ==
    \/ layer = "users" /\ Next /\ UNCHANGED <<sync_vars, dev_vars, solver_vars, layer>>
    \/ layer = "commit" /\ SyncNext /\ UNCHANGED <<vars, dev_vars, solver_vars, layer>>
    \/ layer = "node" /\ DevNext /\ UNCHANGED <<vars, sync_vars, solver_vars, layer>>
    \/ layer = "region" /\ SolveNext /\ UNCHANGED <<vars, sync_vars, dev_vars, layer>>
    \/ Chosen

DevicesSpec ==
    DevicesInit /\ [][DevicesNext]_<<vars, sync_vars, dev_vars, solver_vars, layer>> /\ WF_sync_vars(Program)
=============================================================================
