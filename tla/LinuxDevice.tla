---------------------------- MODULE LinuxDevice ----------------------------
(***************************************************************************)
(* The Linux architecture's device operations: the parts of                 *)
(* libparted/arch/linux.c that find, identify, open, read, write, flush and *)
(* close a device.                                                          *)
(*                                                                         *)
(* The kernel caches the pages of the whole device and those of a partition *)
(* device apart, and the caches are not coherent: that is why _flush_cache   *)
(* exists.  whole and part are those caches, for one partition that covers   *)
(* the sectors InPart; a page that was not written back is dirty.  Other     *)
(* processes mount the partition and read and write it through its own      *)
(* device.  Every system call that can fail may fail, and the answer to an   *)
(* exception is the user's; retry only makes the same call again.            *)
(***************************************************************************)
EXTENDS Integers, FiniteSets

CONSTANTS
    Nodes,       \* entries of /dev, as records: see the operators below
    Sectors, InPart, Contents,
    SectorSizes, \* logical sector sizes, in units of 512 bytes
    Bytes,       \* the size of the device, in units of 512 bytes
    MaxLeaks     \* how many descriptors a run may lose

ASSUME DevicesAssumption == InPart \subseteq Sectors /\ Contents # {} /\ Bytes \in Nat

Absent == "absent"

VARIABLES
    dev,         \* the device in use: a record, or NoDev
    fds,         \* descriptors the program has open on it
    leaks,       \* ghost: descriptors given up after an fsync that failed
    medium, whole, part, wdirty, pdirty,
    mounted,
    io, todo,    \* where linux_write or _flush_cache is
    mine         \* ghost: what the program wrote and nobody overwrote

files == <<fds, leaks>>
disks == <<medium, whole, part, wdirty, pdirty>>
call == <<io, todo>>
dev_vars == <<dev, fds, leaks, medium, whole, part, wdirty, pdirty,
              mounted, io, todo, mine>>

NoDev == [type |-> "none"]
(***************************************************************************)
(* What a node is.  kind is what its major number stands for, first whether  *)
(* the minor number is that of a whole device, text tells the names of an    *)
(* extended major apart, runs counts the runs of letters and digits of its   *)
(* name and place says where a scan of the system meets it.                  *)
(***************************************************************************)
\* kinds with minor numbers that tell a partition from its device
Numbered == {"scsi", "ide", "dac960", "ataraid", "aoe", "dasd", "viodasd", "sx8",
             "i2o", "cpqarray", "ubd", "xvd", "sdmmc"}
Plain == {"dm", "virtblk", "loop", "md", "ram"}

_device_probe_type(n) ==
    IF ~n.blk THEN "file"
    ELSE IF n.kind \in Numbered /\ n.first THEN n.kind
    ELSE IF n.kind \in Plain THEN n.kind
    ELSE IF n.kind = "blkext" /\ n.text \in {"nvme", "pmem"} THEN n.text
    ELSE "unknown"

\* [^0-9]+[0-9]+[^0-9]+[0-9]+
_match_rd_device(n) == n.runs = 4
EndsInDigit(n) == n.runs % 2 = 0

\* . .. dm- loop ram fd
_skip_entry(n) == n.kind \in {"dm", "loop", "ram", "fd"}

_probe_standard_devices == {n \in Nodes : n.place = "standard"}

\* a member of a dmraid set that is not a linear map of another map
_is_dmraid_device(n) == n.text = "dmraid"
_dm_is_part(n) == ~n.first
_probe_dm_devices ==
    {n \in Nodes : n.kind = "dm" /\ _is_dmraid_device(n) /\ ~_dm_is_part(n)}

\* /sys/block lists whole devices
_probe_sys_block == {n \in Nodes : n.whole /\ n.blk /\ ~_skip_entry(n)}

_probe_proc_partitions ==
    {n \in Nodes : n.blk /\ (_match_rd_device(n) \/ ~EndsInDigit(n))}

linux_probe_all(sys) ==
    _probe_standard_devices \cup _probe_dm_devices
      \cup (IF sys THEN _probe_sys_block ELSE _probe_proc_partitions)
(***************************************************************************)
(* The size.  Of the length only whether it is zero decides anything here;  *)
(* the cylinders, heads and sectors and the model name are left out.        *)
(***************************************************************************)
\* in units of 512 bytes
_device_set_sector_size(size, ssz) == IF ssz THEN size ELSE 1

\* BLKGETSIZE counts in units of 512 bytes whatever the sector size; 0 when
\* both calls fail
_device_get_length(size, by64, by32) ==
    IF by64 THEN Bytes \div size ELSE IF by32 THEN Bytes ELSE 0

_device_probe_geometry(size, ssz, by64, by32) ==
    _device_get_length(_device_set_sector_size(size, ssz), by64, by32) > 0

\* st_size; PARTED_SECTOR_SIZE chooses the sector size
init_file(size) == Bytes \div size > 0

\* the second chance, when the geometry fails but the length is there, cannot
\* come: the first fails for the length only (stat has just succeeded)
init_generic(size, ssz, by64, by32) == _device_probe_geometry(size, ssz, by64, by32)
-----------------------------------------------------------------------------
None == [s \in Sectors |-> Absent]

DevInit ==
    /\ dev = NoDev /\ fds = 0 /\ leaks = 0
    /\ medium \in [Sectors -> Contents]
    /\ whole = None /\ part = [s \in InPart |-> Absent]
    /\ wdirty = {} /\ pdirty = {} /\ mounted = FALSE
    /\ io = "idle" /\ todo = {} /\ mine = None

Ready == io = "idle" /\ dev # NoDev

\* whether _flush_cache does anything
Flushes(d) == ~d.ro /\ d.type # "ram"

\* HDIO_GET_IDENTITY, or SCSI_IOCTL_GET_IDLUN, fails and the user gives up
\* (known is false), or the geometry cannot be found
init_ide(known, size, ssz, by64, by32) ==
    known /\ _device_probe_geometry(size, ssz, by64, by32)

init_scsi(known, size, ssz, by64, by32) ==
    known /\ _device_probe_geometry(size, ssz, by64, by32)

\* the init function of the type: TRUE when the device can be used
InitOf(type, known, size, ssz, by64, by32) ==
    CASE type = "file" -> init_file(size)
      [] type = "ide" -> init_ide(known, size, ssz, by64, by32)
      [] type = "scsi" -> init_scsi(known, size, ssz, by64, by32)
      [] OTHER -> init_generic(size, ssz, by64, by32)

\* mutant: init_file and init_generic leave by the label error, not
\* error_close_dev, when the size cannot be found
Mut_New(n, size, known, opened, ssz, by64, by32, closed) ==
    LET type == _device_probe_type(n)
    IN /\ io = "idle" /\ dev = NoDev /\ type # "dasd"
       /\ opened /\ ~InitOf(type, known, size, ssz, by64, by32) /\ fds < 3
       /\ fds' = fds + 1
       /\ UNCHANGED <<dev, leaks, disks, mounted, call, mine>>

\* linux_new: _device_probe_type and the init function of the type, which opens
\* the device read-only (without setting read_only, so that the caches are
\* flushed), asks for its size and closes it, on success and on failure.  A
\* close that fails after its fsync is given up leaves the descriptor open.
New(n, size, known, opened, ssz, by64, by32, closed) ==
    LET type == _device_probe_type(n)
    IN /\ io = "idle" /\ dev = NoDev /\ type # "dasd"
       /\ type = "dm" => known  \* _dm_maptype
       /\ dev' = IF opened /\ InitOf(type, known, size, ssz, by64, by32)
                 THEN [type |-> IF type = "ram" THEN type ELSE "other",
                       open |-> 0, ro |-> FALSE, dirty |-> FALSE]
                 ELSE NoDev
       /\ io' = IF opened /\ type # "ram" THEN "flush" ELSE "idle"
       /\ fds' = IF opened /\ ~closed THEN fds + 1 ELSE fds
       /\ leaks' = leaks + (fds' - fds)
       /\ UNCHANGED <<disks, mounted, todo, mine>>

\* _device_open: open read-write, or read-only with a warning, or give up
LinuxOpen(how) ==
    /\ Ready /\ dev.open = 0
    /\ IF how = "no" THEN UNCHANGED <<dev, fds, io>>
       ELSE /\ dev' = [dev EXCEPT !.open = 1, !.ro = (how = "ro")]
            /\ fds' = fds + 1
            /\ io' = IF Flushes(dev') THEN "flush" ELSE "idle"
    /\ UNCHANGED <<leaks, disks, mounted, todo, mine>>

\* linux_refresh_open: nothing is read anew
RefreshOpen ==
    /\ Ready /\ dev.open = 1
    /\ dev' = [dev EXCEPT !.open = 2]
    /\ UNCHANGED <<files, disks, mounted, call, mine>>

WriteBack(cache, dirty) ==
    [s \in Sectors |-> IF s \in dirty THEN cache[s] ELSE medium[s]]

\* _flush_cache, the whole device: BLKFLSBUF writes back and forgets
FlushWhole ==
    /\ io \in {"flush", "close flush"}
    /\ dev' = IF dev = NoDev THEN dev ELSE [dev EXCEPT !.dirty = FALSE]
    /\ medium' = WriteBack(whole, wdirty)
    /\ whole' = None /\ wdirty' = {}
    /\ io' = IF io = "flush" THEN "flush part" ELSE "close flush part"
    /\ UNCHANGED <<files, part, pdirty, mounted, todo, mine>>

\* mutant: only the master device is flushed
Mut_FlushPart ==
    /\ io \in {"flush part", "close flush part"}
    /\ io' = IF io = "flush part" THEN "idle" ELSE "close"
    /\ UNCHANGED <<dev, files, disks, mounted, todo, mine>>

\* a row of /proc/mounts, /proc/swaps or /etc/mtab names it
_partition_is_mounted_by_path == mounted

\* ... and the partition devices that are not mounted
FlushPart ==
    /\ io \in {"flush part", "close flush part"}
    /\ IF _partition_is_mounted_by_path THEN UNCHANGED <<medium, part, pdirty, mine>>
       ELSE /\ medium' = WriteBack(part, pdirty)
            /\ part' = [s \in InPart |-> Absent] /\ pdirty' = {}
            /\ mine' = [s \in Sectors |-> IF s \in pdirty THEN Absent ELSE mine[s]]
    /\ io' = IF io = "flush part" THEN "idle" ELSE "close"
    /\ UNCHANGED <<dev, files, whole, wdirty, mounted, todo>>

\* linux_refresh_close
RefreshClose ==
    /\ Ready /\ dev.open = 2
    /\ dev' = [dev EXCEPT !.open = 1]
    /\ io' = IF dev.dirty /\ Flushes(dev) THEN "flush" ELSE "idle"
    /\ UNCHANGED <<files, disks, mounted, todo, mine>>

\* linux_close
LinuxClose ==
    /\ Ready /\ dev.open = 1
    /\ io' = IF dev.dirty /\ Flushes(dev) THEN "close flush" ELSE "close"
    /\ UNCHANGED <<dev, files, disks, mounted, todo, mine>>

\* fsync: what is dirty is written, or an error is reported, once, after which
\* the kernel may have forgotten it
Fsync(done) ==
    /\ medium' = IF done THEN WriteBack(whole, wdirty) ELSE medium
    /\ wdirty' \in IF done THEN {{}} ELSE {{}, wdirty}
    /\ mine' = IF done THEN mine ELSE None

\* fsync, then close; when fsync fails and the user ignores it, close is not
\* called
CloseFd(synced) ==
    /\ io = "close"
    /\ dev' = [dev EXCEPT !.open = 0]
    /\ Fsync(synced)
    /\ fds' = IF synced THEN fds - 1 ELSE fds
    /\ leaks' = IF synced THEN leaks ELSE leaks + 1
    /\ io' = "idle"
    /\ UNCHANGED <<whole, part, pdirty, mounted, todo>>

\* linux_destroy
LinuxDestroy ==
    /\ Ready /\ dev.open = 0
    /\ dev' = NoDev
    /\ UNCHANGED <<files, disks, mounted, call, mine>>

\* linux_read: what is cached, or else what is on the medium
Read(s) ==
    /\ Ready /\ dev.open > 0
    /\ whole[s] = Absent
    /\ whole' = [whole EXCEPT ![s] = medium[s]]
    /\ UNCHANGED <<dev, files, medium, part, wdirty, pdirty, mounted, call, mine>>

\* linux_write of several sectors; dirty is set before the first is written
LinuxWrite(secs) ==
    /\ Ready /\ dev.open > 0 /\ ~dev.ro
    /\ dev' = [dev EXCEPT !.dirty = TRUE]
    /\ todo' = secs /\ io' = "write"
    /\ UNCHANGED <<files, disks, mounted, mine>>

\* write() takes some of the sectors, from the first on
WriteSome(n, v) ==
    /\ io = "write"
    /\ n <= Cardinality(todo)
    /\ LET now == {s \in todo : Cardinality({x \in todo : x <= s}) <= n}
       IN /\ whole' = [s \in Sectors |-> IF s \in now THEN v ELSE whole[s]]
          /\ wdirty' = wdirty \cup now
          /\ mine' = [s \in Sectors |-> IF s \in now THEN v ELSE mine[s]]
          /\ todo' = todo \ now
          /\ io' = IF todo = now THEN "idle" ELSE "write"
    /\ UNCHANGED <<dev, files, medium, part, pdirty, mounted>>

\* an error, ignored or cancelled: the rest is not written
WriteStops ==
    /\ io = "write"
    /\ todo' = {} /\ io' = "idle"
    /\ UNCHANGED <<dev, files, disks, mounted, mine>>

\* linux_sync; linux_sync_fast leaves the caches.  An error that is ignored
\* counts as success, one that is cancelled returns before the flush.
Sync(fast, outcome) ==
    /\ Ready /\ dev.open > 0 /\ ~dev.ro
    /\ Fsync(outcome = "ok")
    /\ io' = IF fast \/ outcome = "cancel" \/ ~Flushes(dev) THEN "idle" ELSE "flush"
    /\ UNCHANGED <<dev, files, whole, part, pdirty, mounted, todo>>
(***************************************************************************)
(* The kernel and other processes                                          *)
(***************************************************************************)
KernelWritesBack(s) ==
    /\ \/ /\ s \in wdirty /\ wdirty' = wdirty \ {s}
          /\ medium' = [medium EXCEPT ![s] = whole[s]]
          /\ UNCHANGED <<pdirty, mine>>
       \/ /\ s \in pdirty /\ pdirty' = pdirty \ {s}
          /\ medium' = [medium EXCEPT ![s] = part[s]]
          /\ mine' = [mine EXCEPT ![s] = Absent]
          /\ UNCHANGED wdirty
    /\ UNCHANGED <<dev, files, whole, part, mounted, call>>

OtherReads(s) ==
    /\ s \in InPart /\ part[s] = Absent
    /\ part' = [part EXCEPT ![s] = medium[s]]
    /\ UNCHANGED <<dev, files, medium, whole, wdirty, pdirty, mounted, call, mine>>

OtherWrites(s, v) ==
    /\ s \in InPart /\ mounted
    /\ part' = [part EXCEPT ![s] = v] /\ pdirty' = pdirty \cup {s}
    /\ mine' = [mine EXCEPT ![s] = Absent]
    /\ UNCHANGED <<dev, files, medium, whole, wdirty, mounted, call>>

\* unmounting syncs what the file system had written
Mount ==
    /\ mounted' = ~mounted
    /\ medium' = IF mounted THEN WriteBack(part, pdirty) ELSE medium
    /\ pdirty' = IF mounted THEN {} ELSE pdirty
    /\ mine' = IF mounted THEN [s \in Sectors |-> IF s \in pdirty THEN Absent ELSE mine[s]]
               ELSE mine
    /\ UNCHANGED <<dev, files, whole, part, wdirty, call>>

\* what a scan finds, with /sys or without, and what the user names
Candidates ==
    linux_probe_all(TRUE) \cup linux_probe_all(FALSE) \cup {n \in Nodes : n.place = "named"}

DevNext ==
    \/ \E n \in Candidates, size \in SectorSizes, known, opened, ssz, by64, by32, closed \in BOOLEAN :
         New(n, size, known, opened, ssz, by64, by32, closed \/ leaks = MaxLeaks)
    \/ \E how \in {"rw", "ro", "no"} : LinuxOpen(how)
    \/ RefreshOpen \/ FlushWhole \/ FlushPart \/ RefreshClose \/ LinuxClose \/ LinuxDestroy
    \/ \E synced \in BOOLEAN : CloseFd(synced \/ leaks = MaxLeaks)
    \/ \E s \in Sectors : Read(s) \/ KernelWritesBack(s) \/ OtherReads(s)
    \/ \E secs \in SUBSET Sectors \ {{}} : LinuxWrite(secs)
    \/ \E n \in 1 .. Cardinality(Sectors), v \in Contents : WriteSome(n, v)
    \/ WriteStops
    \/ \E fast \in BOOLEAN, outcome \in {"ok", "ignore", "cancel"} : Sync(fast, outcome)
    \/ \E s \in InPart, v \in Contents : OtherWrites(s, v)
    \/ Mount

DevSpec == DevInit /\ [][DevNext]_dev_vars
-----------------------------------------------------------------------------
\* Once _flush_cache has run and the partition is not mounted, the program and
\* everybody else read the same: what the program wrote, and nobody overwrote,
\* is on the medium, and no cache holds anything else.  A close that reports no
\* error leaves it on the medium, too.
FlushCoherent ==
    [][/\ io = "flush part" /\ io' = "idle" /\ ~mounted =>
            \A s \in Sectors :
              /\ mine'[s] \in {Absent, medium'[s]}
              /\ whole'[s] \in {Absent, medium'[s]}
              /\ s \in InPart => part'[s] \in {Absent, medium'[s]}
       /\ io = "close" /\ io' = "idle" =>
            \A s \in Sectors : mine'[s] \in {Absent, medium'[s]}]_dev_vars

\* Every path of linux_new, open and close gives back the descriptors it took:
\* the only ones lost are those of an fsync error that was ignored.
FdBalanced ==
    fds = leaks + (IF dev # NoDev /\ dev.open > 0 THEN 1 ELSE 0)
=============================================================================
