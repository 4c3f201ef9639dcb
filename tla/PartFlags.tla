----------------------------- MODULE PartFlags -----------------------------
(***************************************************************************)
(* Partition flags and types of the DOS and the GPT label.  Neither label   *)
(* stores the flags the user sees: most of them are readings of one         *)
(* type id (DOS) or type GUID (GPT), which set_system, set_flag and the     *)
(* "type" command all rewrite, and which the next program to open the disk  *)
(* interprets again.                                                        *)
(***************************************************************************)
EXTENDS Integers, FiniteSets

CONSTANTS
    DosFlags,   \* flags tried on a DOS label
    GptFlags,   \* flags tried on a GPT label
    TypeIds,    \* type ids the user may type
    FileSystems,\* what a partition may hold, "none" included
    MaxSteps    \* bound on the number of requests

\* do_type takes no other ids.
ASSUME TypeIdsAssumption == TypeIds \subseteq 1 .. 255

VARIABLES
    label,    \* "msdos" or "gpt"
    parts,    \* partitions of the open disk, by number
    content,  \* what ped_file_system_probe finds on each partition
    last,     \* the last accepted request for a flag
    steps,    \* requests so far
    retyped   \* an id was set that makes or unmakes an extended partition, or the GPT id

flag_vars == <<label, parts, content, last, steps, retyped>>

NoRequest == [num |-> 0, flag |-> "none", state |-> FALSE]

(***************************************************************************)
(* DOS type ids                                                             *)
(***************************************************************************)
FAT12 == 1
FAT16_SM == 4
DOS_EXT == 5
FAT16 == 6
NTFS == 7
FAT32 == 11
FAT32_LBA == 12
FAT16_LBA == 14
EXT_LBA == 15
COMPAQ_DIAG == 18
MSFT_RECOVERY == 39
LINUX_SWAP == 130
LINUX == 131
LINUX_EXT == 133
LINUX_LVM == 142
HFS == 175
SUN_UFS == 191
DELL_DIAG == 222
GPT == 238
ESP == 239
LINUX_RAID == 253
LINUX_LVM_OLD == 254

HiddenId(id) == id + 16

\* Flags that are type ids: the id that is set and the ids that count.  A
\* flag without an alternative has 0 there, which get_flag compares as well.
flag_id_mapping ==
    [bls_boot |-> <<234, 0>>, diag |-> <<COMPAQ_DIAG, DELL_DIAG>>, esp |-> <<ESP, 0>>, irst |-> <<132, 0>>,
     lvm |-> <<LINUX_LVM, LINUX_LVM_OLD>>, msftres |-> <<MSFT_RECOVERY, 0>>, palo |-> <<240, 0>>,
     prep |-> <<65, 0>>, raid |-> <<LINUX_RAID, 0>>, swap |-> <<LINUX_SWAP, 0>>]

IdFlag(f) == f \in DOMAIN flag_id_mapping
IdOf(f, id) == id = flag_id_mapping[f][1] \/ id = flag_id_mapping[f][2]

skip_set_system_types ==
    {EXT_LBA, DOS_EXT, COMPAQ_DIAG, MSFT_RECOVERY, LINUX_LVM, LINUX_SWAP, LINUX_RAID, 240, 65, 132, ESP, 234}

Hideable == {DOS_EXT, FAT12, FAT16, FAT16_LBA, FAT16_SM, FAT32, FAT32_LBA, NTFS}

dos_type_id_is_hidden(id) == id - 16 \in Hideable
dos_type_id_supports_hidden(id) == id \in Hideable \/ dos_type_id_is_hidden(id)

dos_type_id_set_hidden(id, state) ==
    IF state = dos_type_id_is_hidden(id) THEN id
    ELSE IF state THEN HiddenId(id) ELSE id - 16

LbaOf == [id \in {FAT16, FAT32, DOS_EXT} |->
             CASE id = FAT16 -> FAT16_LBA [] id = FAT32 -> FAT32_LBA [] id = DOS_EXT -> EXT_LBA]

dos_type_id_is_lba(id) == id \in {FAT16_LBA, FAT32_LBA, EXT_LBA, HiddenId(FAT16_LBA), HiddenId(FAT32_LBA)}
dos_type_id_supports_lba(id) == dos_type_id_is_lba(id) \/ id \in DOMAIN LbaOf \cup {HiddenId(FAT16), HiddenId(FAT32)}

\* Going back from an LBA id as if a hidden one were its visible twin.
Mut_dos_type_id_set_lba(id, state) ==
    CASE state /\ id \in DOMAIN LbaOf -> LbaOf[id]
      [] ~ state /\ dos_type_id_is_lba(id) -> CHOOSE b \in DOMAIN LbaOf : LbaOf[b] = id \/ HiddenId(LbaOf[b]) = id
      [] OTHER -> id

\* The hidden ids have no case of their own: they are left as they are.
dos_type_id_set_lba(id, state) ==
    CASE state /\ id \in DOMAIN LbaOf -> LbaOf[id]
      [] ~ state /\ \E b \in DOMAIN LbaOf : LbaOf[b] = id -> CHOOSE b \in DOMAIN LbaOf : LbaOf[b] = id
      [] OTHER -> id

is_skip_type(id) == id \in skip_set_system_types

\* The type id that goes with a file system, unless the present one is kept.
msdos_partition_set_system(p, fs) ==
    [p EXCEPT !.fs = fs,
              !.id = CASE is_skip_type(p.id) -> p.id
                       [] ~ is_skip_type(p.id) /\ p.type = "extended" -> EXT_LBA
                       [] ~ is_skip_type(p.id) /\ p.type # "extended" ->
                              CASE fs = "fat16" -> FAT16
                                [] fs = "fat32" -> FAT32
                                [] fs \in {"ntfs", "udf"} -> NTFS
                                [] fs \in {"hfs", "hfs+"} -> HFS
                                [] fs = "sun-ufs" -> SUN_UFS
                                [] fs = "swap" -> LINUX_SWAP
                                [] OTHER -> LINUX]

msdos_partition_is_flag_available(p, f) ==
    CASE IdFlag(f) -> p.type # "extended"
      [] f = "hidden" -> dos_type_id_supports_hidden(p.id)
      [] f = "lba" -> dos_type_id_supports_lba(p.id)
      [] f = "boot" -> TRUE
      [] OTHER -> FALSE

msdos_partition_get_flag(p, f) ==
    CASE IdFlag(f) -> IdOf(f, p.id)
      [] f = "hidden" -> dos_type_id_is_hidden(p.id)
      [] f = "lba" -> dos_type_id_is_lba(p.id)
      [] f = "boot" -> p.boot
      [] OTHER -> FALSE

\* Clearing a flag that is a type id goes back to the file system's own id.
Cleared(p) == msdos_partition_set_system([p EXCEPT !.id = LINUX], p.fs)

\* Clearing only the id that set_flag would set.
Mut_FlagId(p, f, state) ==
    IF state THEN [p EXCEPT !.id = flag_id_mapping[f][1]]
    ELSE IF p.id = flag_id_mapping[f][1] THEN Cleared(p) ELSE p

FlagId(p, f, state) ==
    IF state THEN [p EXCEPT !.id = flag_id_mapping[f][1]]
    ELSE IF IdOf(f, p.id) THEN Cleared(p) ELSE p

\* At most one partition of the disk is active.
SetBoot(ps, n, state) == [m \in DOMAIN ps |-> [ps[m] EXCEPT !.boot = IF m = n THEN state ELSE @ /\ ~ state]]

msdos_partition_set_flag(ps, n, f, state) ==
    CASE IdFlag(f) -> [ps EXCEPT ![n] = FlagId(@, f, state)]
      [] f = "hidden" -> [ps EXCEPT ![n].id = dos_type_id_set_hidden(@, state)]
      [] f = "lba" -> [ps EXCEPT ![n].id = dos_type_id_set_lba(@, state)]
      [] f = "boot" -> SetBoot(ps, n, state)

(***************************************************************************)
(* GPT types and attributes                                                 *)
(***************************************************************************)
\* The GUID behind each flag; "boot" and "esp" are the same one.
flag_uuid_mapping ==
    [atvrecv |-> "atvrecv", bios_grub |-> "bios_grub", bls_boot |-> "bls_boot", boot |-> "system",
     chromeos_kernel |-> "chromeos", diag |-> "recovery", esp |-> "system", hp_service |-> "hp", irst |-> "irst",
     linux_home |-> "home", lvm |-> "lvm", msftdata |-> "basic_data", msftres |-> "msftres", prep |-> "prep",
     raid |-> "raid", swap |-> "swap"]

Attributes == {"hidden", "legacy_boot", "no_automount"}

skip_set_system_guids == {flag_uuid_mapping[f] : f \in DOMAIN flag_uuid_mapping \ {"linux_home"}}

gpt_partition_set_system(p, fs) ==
    [p EXCEPT !.fs = fs,
              !.id = CASE p.id \in skip_set_system_guids -> p.id
                       [] p.id \notin skip_set_system_guids /\ fs \in {"fat16", "fat32", "udf", "ntfs"} -> "basic_data"
                       [] p.id \notin skip_set_system_guids /\ fs \in {"hfs", "hfs+"} -> "apple_hfs"
                       [] p.id \notin skip_set_system_guids /\ fs = "swap" -> "swap"
                       [] OTHER -> "linux_data"]

gpt_partition_is_flag_available(f) == f \in DOMAIN flag_uuid_mapping \cup Attributes

gpt_partition_get_flag(p, f) ==
    IF f \in DOMAIN flag_uuid_mapping THEN p.id = flag_uuid_mapping[f] ELSE f \in p.attrs

gpt_partition_set_flag(p, f, state) ==
    CASE f \in Attributes -> [p EXCEPT !.attrs = IF state THEN @ \cup {f} ELSE @ \ {f}]
      [] f \notin Attributes /\ state -> [p EXCEPT !.id = flag_uuid_mapping[f]]
      [] f \notin Attributes /\ ~ state ->
             IF p.id = flag_uuid_mapping[f]
             THEN gpt_partition_set_system([p EXCEPT !.id = "linux_data"], p.fs)
             ELSE p

(***************************************************************************)
(* The label as disk.c and the program see it                               *)
(***************************************************************************)
ped_partition_is_flag_available(p, f) ==
    IF label = "gpt" THEN gpt_partition_is_flag_available(f) ELSE msdos_partition_is_flag_available(p, f)

ped_partition_get_flag(p, f) ==
    IF label = "gpt" THEN gpt_partition_get_flag(p, f) ELSE msdos_partition_get_flag(p, f)

ped_partition_set_system(p, fs) ==
    IF label = "gpt" THEN gpt_partition_set_system(p, fs) ELSE msdos_partition_set_system(p, fs)

Flags == IF label = "gpt" THEN GptFlags ELSE DosFlags

msdos_partition_new(type) == [type |-> type, id |-> LINUX, boot |-> FALSE, fs |-> "none"]
gpt_partition_new == [type |-> "normal", id |-> "linux_data", attrs |-> {}, fs |-> "none"]

DosNumbers == {1, 2, 5}
DosType(n) == CASE n = 1 -> "normal" [] n = 2 -> "extended" [] n = 5 -> "logical"

FlagInit ==
    /\ label \in {"msdos", "gpt"}
    /\ parts = IF label = "gpt" THEN [n \in {1, 2} |-> gpt_partition_new]
               ELSE [n \in DosNumbers |-> msdos_partition_set_system(msdos_partition_new(DosType(n)), "none")]
    /\ content = [n \in DOMAIN parts |-> "none"]
    /\ last = NoRequest /\ steps = 0 /\ retyped = FALSE

\* Not knowing the id parted itself gives to extended partitions.
Mut_raw_part_is_extended(id) == id \in {DOS_EXT, LINUX_EXT}

\* The ids under which a table entry is an extended partition.
raw_part_is_extended(id) == id \in {DOS_EXT, EXT_LBA, LINUX_EXT}

\* do_set and do_toggle
ped_partition_set_flag(n, f, state) ==
    /\ ped_partition_is_flag_available(parts[n], f)
    /\ parts' = IF label = "gpt" THEN [parts EXCEPT ![n] = gpt_partition_set_flag(@, f, state)]
                ELSE msdos_partition_set_flag(parts, n, f, state)
    /\ last' = [num |-> n, flag |-> f, state |-> state]
    /\ retyped' = (retyped \/ (label = "msdos" /\ raw_part_is_extended(parts'[n].id) # (parts[n].type = "extended")))
    /\ UNCHANGED <<label, content>>

\* do_mkpart in place of partition n, with any file system name
mkpart(n, fs) ==
    /\ parts[n].type # "extended"
    /\ parts' = [parts EXCEPT ![n] = ped_partition_set_system(
                    IF label = "gpt" THEN gpt_partition_new ELSE msdos_partition_new(parts[n].type), fs)]
    /\ last' = NoRequest
    /\ UNCHANGED <<label, content, retyped>>

\* do_type on a DOS label
msdos_partition_set_type_id(n, id) ==
    /\ label = "msdos"
    /\ parts' = [parts EXCEPT ![n].id = id, ![n].fs = content[n]]
    /\ last' = NoRequest
    /\ retyped' = (retyped \/ (raw_part_is_extended(id) # (parts[n].type = "extended")) \/ (id = GPT /\ n <= 4))
    /\ UNCHANGED <<label, content>>

\* A file system is made on a partition by another program.
MakeFs(n, fs) ==
    /\ content[n] # fs /\ parts[n].type # "extended"
    /\ content' = [content EXCEPT ![n] = fs] /\ last' = NoRequest
    /\ UNCHANGED <<label, parts, retyped>>

(***************************************************************************)
(* The disk is committed and opened again.                                  *)
(***************************************************************************)
\* A table with a GPT entry is left to the other label.
msdos_probe == \A n \in DOMAIN parts : n <= 4 => parts[n].id # GPT

Links == {n \in DOMAIN parts : n <= 4 /\ raw_part_is_extended(parts[n].id)}

\* Logical partitions are reached through the extended one, and an extended
\* id among them is taken for a link of the chain.
Readable == {n \in DOMAIN parts : n > 4 => ~ raw_part_is_extended(parts[n].id) /\ 2 \in Links}

\* The file system of a primary partition has no table in its first sector,
\* which the user may ignore; two extended partitions are refused.
RereadDos(ignore) ==
    IF ~ msdos_probe \/ (1 \in Links /\ (2 \in Links \/ ~ ignore)) THEN <<>>
    ELSE [n \in Readable |->
             [parts[n] EXCEPT !.type = IF n > 4 THEN "logical" ELSE IF n \in Links THEN "extended" ELSE "normal",
                              !.fs = IF n \in Links THEN "none" ELSE content[n]]]

_parse_part_entry(n) == [parts[n] EXCEPT !.fs = content[n]]

Reopen ==
    /\ \E ignore \in BOOLEAN :
          parts' = IF label = "gpt" THEN [n \in DOMAIN parts |-> _parse_part_entry(n)] ELSE RereadDos(ignore)
    /\ last' = NoRequest
    /\ UNCHANGED <<label, content, retyped>>

FlagNext ==
    \/ steps < MaxSteps /\ steps' = steps + 1 /\ \E n \in DOMAIN parts :
          \/ \E f \in Flags, state \in BOOLEAN : ped_partition_set_flag(n, f, state)
          \/ \E fs \in FileSystems : mkpart(n, fs) \/ MakeFs(n, fs)
          \/ \E id \in TypeIds : msdos_partition_set_type_id(n, id)
    \/ Reopen /\ UNCHANGED steps

FlagSpec == FlagInit /\ [][FlagNext]_flag_vars

(***************************************************************************)
(* Properties                                                               *)
(***************************************************************************)
\* Whatever is set, created, retyped or read again, at most one partition of
\* a DOS table is active.
OneActive == label = "msdos" => Cardinality({n \in DOMAIN parts : parts[n].boot}) <= 1

\* A flag comes back with the file system the program believes is there.
Implied(p, f) == \/ f = "swap" /\ p.fs = "swap"
                 \/ f = "msftdata" /\ p.fs \in {"fat16", "fat32", "udf", "ntfs"}

\* An accepted request shows in the next query, but for two cases: the lba
\* flag of a hidden FAT id, which set_lba accepts and ignores, and clearing
\* a flag that the file system brings back.
FlagSticks ==
    last.num # 0 =>
        \/ ped_partition_get_flag(parts[last.num], last.flag) = last.state
        \/ label = "msdos" /\ last.flag = "lba" /\ dos_type_id_is_hidden(parts[last.num].id)
        \/ ~ last.state /\ Implied(parts[last.num], last.flag)

\* Flags that are not a type of their own.
Independent == {"hidden", "lba", "boot", "legacy_boot", "no_automount"}

\* Setting one of them changes no other flag of any partition, though on a
\* DOS label hidden, lba and the type share one byte.
KeepsRest ==
    [][(last' # last /\ last'.num # 0 /\ last'.flag \in Independent /\ (label = "gpt" => last'.flag # "boot"))
       => \A n \in DOMAIN parts, f \in Flags \ {last'.flag} :
             ped_partition_get_flag(parts'[n], f) = ped_partition_get_flag(parts[n], f)]_flag_vars

\* What is asked for is what is shown, on the partition it was asked for, and
\* setting boot on one partition clears it on all others.
FlagsTrue == FlagSticks /\ OneActive

\* The next program that opens the disk finds every partition, of the same
\* kind, unless an id was typed, hidden or unhidden that makes or unmakes an
\* extended partition, or the GPT id was typed.
Survives ==
    ~ retyped /\ label = "msdos" => DOMAIN parts = DosNumbers /\ \A n \in DosNumbers : parts[n].type = DosType(n)
=============================================================================
