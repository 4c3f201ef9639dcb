----------------------------- MODULE PedDevice -----------------------------
(***************************************************************************)
(* libparted/device.c on top of libparted/arch/uefi.c: the list of known   *)
(* devices, the open count that several users share, external access mode  *)
(* and what a write reports.  The architecture's open and close do nothing *)
(* on UEFI, so arch counts the calls: open minus close.                    *)
(***************************************************************************)
EXTENDS Integers, Sequences, FiniteSets

CONSTANTS
    Paths,      \* the block devices the firmware knows
    Objs,       \* PedDevice structures that can be allocated
    Users,      \* parts of the program that open devices
    Values      \* contents of a device

ASSUME DeviceAssumption == IsFiniteSet(Users) /\ Values # {}

VARIABLES
    devices,    \* the list of known devices
    path,       \* Objs -> Paths, of the structures that were allocated
    state,      \* Objs -> "live", or "free": not allocated or destroyed
    open_count, external_mode,
    arch,       \* Objs -> open minus close calls to the architecture
    held,       \* Objs -> the users that opened it and have not closed it
    stored,     \* Paths -> what is on the medium
    acked       \* Paths -> what the last successful write wrote

vars == <<devices, path, state, open_count, external_mode, arch, held,
          stored, acked>>

cache == <<devices, path, state>>
counts == <<open_count, external_mode, arch, held>>
media == <<stored, acked>>

Init ==
    /\ devices = <<>>
    /\ path \in [Objs -> Paths]
    /\ state = [o \in Objs |-> "free"]
    /\ open_count = [o \in Objs |-> 0]
    /\ external_mode = [o \in Objs |-> FALSE]
    /\ arch = [o \in Objs |-> 0]
    /\ held = [o \in Objs |-> {}]
    /\ stored \in [Paths -> Values]
    /\ acked = stored

---------------------------------------------------------------------------
(* The list.                                                               *)

Listed(o) == \E i \in 1 .. Len(devices) : devices[i] = o

(* Mutant: the device is left in the list. *)
Mut_Unlink(o) == devices

(* _device_unregister: does nothing for a device that is not in the list. *)
Unlink(o) ==
    LET i == CHOOSE k \in 1 .. Len(devices) : devices[k] = o
    IN  IF ~ Listed(o) THEN devices
        ELSE [j \in 1 .. Len(devices) - 1 |->
                 IF j < i THEN devices[j] ELSE devices[j + 1]]

(* ped_device_get of a path that no listed device has; otherwise it gives  *)
(* the listed one and changes nothing.                                     *)
Get(p, o) ==
    /\ \A i \in 1 .. Len(devices) : path[devices[i]] # p
    /\ state[o] = "free"
    /\ path' = [path EXCEPT ![o] = p]
    /\ state' = [state EXCEPT ![o] = "live"]
    /\ devices' = Append(devices, o)
    /\ UNCHANGED <<counts, media>>

(* The device stays usable, and is its user's to destroy. *)
CacheRemove(o) ==
    /\ state[o] = "live"
    /\ devices' = Unlink(o)
    /\ UNCHANGED <<path, state, counts, media>>

(* Mutant: one close, however often the device is open. *)
Mut_Destroy(o) ==
    /\ state[o] = "live" /\ ~ external_mode[o]
    /\ devices' = Unlink(o)
    /\ state' = [state EXCEPT ![o] = "free"]
    /\ arch' = [arch EXCEPT ![o] = IF open_count[o] > 0 THEN @ - 1 ELSE @]
    /\ held' = [held EXCEPT ![o] = {}]
    /\ UNCHANGED <<path, open_count, external_mode, media>>

(* Closes until the count is 0, or until a close returns 0: refresh_close  *)
(* returns 1 and the last close returns 0.  No device is destroyed while   *)
(* it is in external access mode.                                          *)
Destroy(o) ==
    /\ state[o] = "live" /\ ~ external_mode[o]
    /\ devices' = Unlink(o)
    /\ state' = [state EXCEPT ![o] = "free"]
    /\ open_count' = [open_count EXCEPT ![o] = 0]
    /\ arch' = [arch EXCEPT ![o] = IF open_count[o] > 0 THEN @ - 1 ELSE @]
    /\ held' = [held EXCEPT ![o] = {}]
    /\ UNCHANGED <<path, external_mode, media>>

---------------------------------------------------------------------------
(* Opening and closing.  Users follow the documentation: who opens closes, *)
(* and nothing is opened or closed in external access mode (the assertions *)
(* that say so are compiled out).                                          *)

Usable(o) == state[o] = "live" /\ ~ external_mode[o]

Open(u, o) ==           \* uefi_open and uefi_refresh_open return 1
    /\ Usable(o) /\ u \notin held[o]
    /\ open_count' = [open_count EXCEPT ![o] = @ + 1]
    /\ arch' = [arch EXCEPT ![o] = IF open_count[o] = 0 THEN @ + 1 ELSE @]
    /\ held' = [held EXCEPT ![o] = @ \cup {u}]
    /\ UNCHANGED <<external_mode, cache, media>>

(* Mutant: the architecture's close on every close. *)
Mut_Close(u, o) ==
    /\ Usable(o) /\ u \in held[o]
    /\ open_count' = [open_count EXCEPT ![o] = @ - 1]
    /\ arch' = [arch EXCEPT ![o] = @ - 1]
    /\ held' = [held EXCEPT ![o] = @ \ {u}]
    /\ UNCHANGED <<external_mode, cache, media>>

(* Mutant: a close that does not ask whether the device is open. *)
Mut_Close2(u, o) ==
    /\ Usable(o)
    /\ open_count' = [open_count EXCEPT ![o] = @ - 1]
    /\ arch' = [arch EXCEPT ![o] = IF open_count[o] = 1 THEN @ - 1 ELSE @]
    /\ held' = [held EXCEPT ![o] = @ \ {u}]
    /\ UNCHANGED <<external_mode, cache, media>>

Close(u, o) ==          \* uefi_refresh_close returns 1, uefi_close 0
    /\ Usable(o) /\ u \in held[o]
    /\ open_count' = [open_count EXCEPT ![o] = @ - 1]
    /\ arch' = [arch EXCEPT ![o] = IF open_count[o] = 1 THEN @ - 1 ELSE @]
    /\ held' = [held EXCEPT ![o] = @ \ {u}]
    /\ UNCHANGED <<external_mode, cache, media>>

BeginExternal(o) ==     \* ped_device_begin_external_access
    /\ Usable(o)
    /\ external_mode' = [external_mode EXCEPT ![o] = TRUE]
    /\ arch' = [arch EXCEPT ![o] = IF open_count[o] > 0 THEN @ - 1 ELSE @]
    /\ UNCHANGED <<open_count, held, cache, media>>

EndExternal(o) ==       \* ped_device_end_external_access
    /\ state[o] = "live" /\ external_mode[o]
    /\ external_mode' = [external_mode EXCEPT ![o] = FALSE]
    /\ arch' = [arch EXCEPT ![o] = IF open_count[o] > 0 THEN @ + 1 ELSE @]
    /\ UNCHANGED <<open_count, held, cache, media>>

(* uefi_write: 0 when the handle has no block I/O protocol; an error of    *)
(* WriteBlocks is printed, and 1 returned.                                 *)
Write(u, o, v, found, efi_ok) ==
    /\ Usable(o) /\ u \in held[o]
    /\ stored' = [stored EXCEPT ![path[o]] = IF found /\ efi_ok THEN v ELSE @]
    /\ acked' = [acked EXCEPT ![path[o]] = IF found THEN v ELSE @]
    /\ UNCHANGED <<cache, counts>>

Next ==
    \/ \E p \in Paths, o \in Objs : Get(p, o)
    \/ \E o \in Objs : CacheRemove(o) \/ Destroy(o)
    \/ \E u \in Users, o \in Objs : Open(u, o) \/ Close(u, o)
    \/ \E o \in Objs : BeginExternal(o) \/ EndExternal(o)
    \/ \E u \in Users, o \in Objs, v \in Values, found, efi_ok \in BOOLEAN :
           Write(u, o, v, found, efi_ok)

Spec == Init /\ [][Next]_vars

---------------------------------------------------------------------------

(* The types; ped_device_close never takes an open count below 0, and the  *)
(* list of devices holds structures that exist.                            *)
TypeOK ==
    /\ devices \in Seq(Objs)
    /\ path \in [Objs -> Paths]
    /\ state \in [Objs -> {"free", "live"}]
    /\ open_count \in [Objs -> Nat]
    /\ external_mode \in [Objs -> BOOLEAN]
    /\ arch \in [Objs -> Int]
    /\ held \in [Objs -> SUBSET Users]
    /\ stored \in [Paths -> Values] /\ acked \in [Paths -> Values]

(* ped_device_open is "a ref-count-like mechanism": the count is the       *)
(* number of users that have the device open, so no user can close it      *)
(* under another one, and external access mode does not disturb it.        *)
RefCount == \A o \in Objs : open_count[o] = Cardinality(held[o])

(* The architecture sees open and close alternate, and has the device open *)
(* exactly while some user has it open outside external access mode: "any  *)
(* resources allocated here will be freed by a final ped_device_close()".  *)
(* A destroyed device has none left.                                       *)
ArchOpen ==
    \A o \in Objs :
        arch[o] = IF held[o] # {} /\ ~ external_mode[o] THEN 1 ELSE 0

(* The list holds live devices only, each once and no two with one path,   *)
(* although a device is unregistered twice when it is removed from the     *)
(* cache and destroyed later.                                              *)
CacheSound ==
    /\ \A i \in 1 .. Len(devices) : state[devices[i]] = "live"
    /\ \A i, j \in 1 .. Len(devices) : path[devices[i]] = path[devices[j]] => i = j

(* "Write count sectors from buffer to dev. \return zero on failure": what *)
(* a write that returned non-zero wrote is on the medium.                  *)
AckedIsStored == acked = stored
=============================================================================
