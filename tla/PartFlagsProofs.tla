-------------------------- MODULE PartFlagsProofs --------------------------
(***************************************************************************)
(* Flags and types, for any flags, file systems and type ids: what every   *)
(* request makes of the type id or GUID, and from it that a request shows, *)
(* that it leaves the other flags alone, and that the table is read back.  *)
(***************************************************************************)
EXTENDS PartFlags, FiniteSetTheorems, TLAPS

Fs == FileSystems \cup {"none"}
DosPart == [type : {"normal", "extended", "logical"}, id : 1 .. 255, boot : BOOLEAN, fs : Fs]

(* The id msdos_partition_set_system chooses.                              *)
SystemId(id, type, fs) ==
    CASE is_skip_type(id) -> id
      [] ~ is_skip_type(id) /\ type = "extended" -> EXT_LBA
      [] ~ is_skip_type(id) /\ type # "extended" ->
                              CASE fs = "fat16" -> FAT16
                                [] fs = "fat32" -> FAT32
                                [] fs \in {"ntfs", "udf"} -> NTFS
                                [] fs \in {"hfs", "hfs+"} -> HFS
                                [] fs = "sun-ufs" -> SUN_UFS
                                [] fs = "swap" -> LINUX_SWAP
                                [] OTHER -> LINUX

(* The ids set_system chooses from.                                        *)
LEMMA SystemIdIs ==
    ASSUME NEW id, NEW type, NEW fs, NEW i, i = SystemId(id, type, fs)
    PROVE  \/ i = id
           \/ i = EXT_LBA /\ type = "extended"
           \/ i = LINUX_SWAP /\ fs = "swap"
           \/ i \in {FAT16, FAT32, NTFS, HFS, SUN_UFS, LINUX}
  BY Zenon DEF SystemId

(* set_system writes the file system and one of those ids, nothing else.   *)
LEMMA SystemIs ==
    ASSUME NEW p \in DosPart, NEW fs \in Fs, NEW q, q = msdos_partition_set_system(p, fs)
    PROVE  /\ q \in DosPart /\ q.type = p.type /\ q.boot = p.boot /\ q.fs = fs
           /\ \/ q.id = p.id
              \/ q.id = 15 /\ p.type = "extended"
              \/ q.id = 130 /\ fs = "swap"
              \/ q.id \in {6, 11, 7, 175, 191, 131}
<1>1. PICK i : i = SystemId(p.id, p.type, fs)
  OBVIOUS
<1>2. q = [p EXCEPT !.fs = fs, !.id = i]
  BY <1>1, Zenon DEF msdos_partition_set_system, SystemId
<1>3. \/ i = p.id
      \/ i = 15 /\ p.type = "extended"
      \/ i = 130 /\ fs = "swap"
      \/ i \in {6, 11, 7, 175, 191, 131}
  BY <1>1, SystemIdIs DEF EXT_LBA, FAT16, FAT32, NTFS, HFS, SUN_UFS, LINUX_SWAP, LINUX
<1>4. PICK r : r = [p EXCEPT !.fs = fs]
  OBVIOUS
<1>5. q = [r EXCEPT !.id = i]
  BY <1>2, <1>4, Zenon
<1>6. r \in DosPart /\ r.type = p.type /\ r.boot = p.boot /\ r.fs = fs /\ r.id = p.id
  BY <1>4 DEF DosPart
<1>7. i \in 1 .. 255
  BY <1>3 DEF DosPart
<1>8. q \in DosPart /\ q.type = r.type /\ q.boot = r.boot /\ q.fs = r.fs /\ q.id = i
  BY <1>5, <1>6, <1>7 DEF DosPart
<1>9. QED
  BY <1>3, <1>6, <1>8

(* The ids with an LBA twin.                                               *)
LEMMA LbaIs ==
    /\ DOMAIN LbaOf = {6, 11, 5}
    /\ LbaOf[6] = 14 /\ LbaOf[11] = 12 /\ LbaOf[5] = 15
<1>1. DOMAIN LbaOf = {6, 11, 5}
  BY DEF LbaOf, FAT16, FAT32, DOS_EXT
<1>2. ASSUME NEW id \in {6, 11, 5}, NEW i, i = CASE id = 6 -> 14 [] id = 11 -> 12 [] id = 5 -> 15
      PROVE  (id = 6 => i = 14) /\ (id = 11 => i = 12) /\ (id = 5 => i = 15)
  <2>1. 6 # 11 /\ 6 # 5 /\ 11 # 5
    OBVIOUS
  <2>2. QED
    BY <1>2, <2>1, Zenon
<1>3. \A id \in {6, 11, 5} : LbaOf[id] = CASE id = 6 -> 14 [] id = 11 -> 12 [] id = 5 -> 15
  BY Zenon DEF LbaOf, FAT16, FAT32, DOS_EXT, FAT16_LBA, FAT32_LBA, EXT_LBA
<1>4. QED
  BY <1>1, <1>2, <1>3

(* The ids behind the flags, and that no flag of another kind has one.     *)
LEMMA IdMapping ==
    \A f \in DOMAIN flag_id_mapping :
        /\ f # "hidden" /\ f # "lba" /\ f # "boot"
        /\ flag_id_mapping[f][1] \in {234, 18, 239, 132, 142, 39, 240, 65, 253, 130}
        /\ flag_id_mapping[f][2] \in {0, 222, 254}
        /\ f # "swap" => flag_id_mapping[f][1] # 130
  BY DEF flag_id_mapping, COMPAQ_DIAG, DELL_DIAG, ESP, LINUX_LVM, LINUX_LVM_OLD, MSFT_RECOVERY, LINUX_RAID,
         LINUX_SWAP

(* The ids that can be hidden.                                             *)
LEMMA Hideables == Hideable = {5, 1, 6, 14, 4, 11, 12, 7}
  BY DEF Hideable, DOS_EXT, FAT12, FAT16, FAT16_LBA, FAT16_SM, FAT32, FAT32_LBA, NTFS

(* What the two flags make of an id for which they are available.          *)
LEMMA HiddenIs ==
    ASSUME NEW id \in 1 .. 255, NEW state \in BOOLEAN, dos_type_id_supports_hidden(id),
           NEW i, i = dos_type_id_set_hidden(id, state)
    PROVE  /\ i \in 1 .. 255 /\ dos_type_id_is_hidden(i) = state
           /\ dos_type_id_is_lba(i) = dos_type_id_is_lba(id)
           /\ id < 31 /\ id # 15 /\ id # 18 /\ i < 31 /\ i # 15 /\ i # 18
  BY Hideables DEF dos_type_id_supports_hidden, dos_type_id_set_hidden, dos_type_id_is_hidden, HiddenId,
                   dos_type_id_is_lba, FAT16_LBA, FAT32_LBA, EXT_LBA

(* set_lba keeps hidden as it was, and a hidden id as it is.               *)
LEMMA SetLbaIs ==
    ASSUME NEW id \in 1 .. 255, NEW state \in BOOLEAN, dos_type_id_supports_lba(id),
           NEW i, i = dos_type_id_set_lba(id, state)
    PROVE  /\ i \in 1 .. 255 /\ dos_type_id_is_hidden(i) = dos_type_id_is_hidden(id)
           /\ dos_type_id_is_hidden(i) \/ (dos_type_id_is_lba(i) = state)
           /\ id < 31 /\ id # 18 /\ i < 31 /\ i # 18
           /\ i \in {5, 15} <=> id \in {5, 15}
<1>1. id \in {14, 12, 15, 30, 28, 6, 11, 5, 22, 27}
  BY LbaIs DEF dos_type_id_supports_lba, dos_type_id_is_lba, FAT16_LBA, FAT32_LBA, EXT_LBA, HiddenId, FAT16, FAT32
<1>2. /\ state /\ id \in {6, 11, 5} => i = LbaOf[id]
      /\ ~ state /\ (\E b \in {6, 11, 5} : LbaOf[b] = id) => i = CHOOSE b \in {6, 11, 5} : LbaOf[b] = id
      /\ ~ (state /\ id \in {6, 11, 5}) /\ ~ (~ state /\ \E b \in {6, 11, 5} : LbaOf[b] = id) => i = id
  BY LbaIs, Zenon DEF dos_type_id_set_lba
<1>3. /\ ~ state /\ (\E b \in {6, 11, 5} : LbaOf[b] = id) => i \in {6, 11, 5} /\ LbaOf[i] = id
  BY <1>2
<1>4. /\ dos_type_id_is_lba(i) = (i \in {14, 12, 15, 30, 28})
      /\ dos_type_id_is_hidden(i) = (i - 16 \in {5, 1, 6, 14, 4, 11, 12, 7})
      /\ dos_type_id_is_hidden(id) = (id - 16 \in {5, 1, 6, 14, 4, 11, 12, 7})
  BY Hideables DEF dos_type_id_is_lba, FAT16_LBA, FAT32_LBA, EXT_LBA, HiddenId, dos_type_id_is_hidden
<1>5. \/ state /\ ((id = 6 /\ i = 14) \/ (id = 11 /\ i = 12) \/ (id = 5 /\ i = 15))
      \/ ~ state /\ ((id = 14 /\ i = 6) \/ (id = 12 /\ i = 11) \/ (id = 15 /\ i = 5))
      \/ i = id /\ IF state THEN id \in {14, 12, 15, 30, 28, 22, 27} ELSE id \in {30, 28, 6, 11, 5, 22, 27}
  <2>1. CASE state /\ id \in {6, 11, 5}
    <3>1. i = LbaOf[id]
      BY <1>2, <2>1, Zenon
    <3>2. QED
      BY <2>1, <3>1, LbaIs
  <2>2. CASE ~ state /\ \E b \in {6, 11, 5} : LbaOf[b] = id
    <3>1. i \in {6, 11, 5} /\ LbaOf[i] = id
      BY <1>3, <2>2, Zenon
    <3>2. QED
      BY <2>2, <3>1, LbaIs
  <2>3. CASE ~ (state /\ id \in {6, 11, 5}) /\ ~ (~ state /\ \E b \in {6, 11, 5} : LbaOf[b] = id)
    <3>1. i = id
      BY <1>2, <2>3, Zenon
    <3>2. ~ state => id # 14 /\ id # 12 /\ id # 15
      BY <2>3, LbaIs
    <3>3. QED
      BY <1>1, <2>3, <3>1, <3>2
  <2>4. QED
    BY <2>1, <2>2, <2>3, Zenon
<1>6. i \in 1 .. 255 /\ id < 31 /\ id # 18 /\ i < 31 /\ i # 18 /\ (i \in {5, 15} <=> id \in {5, 15})
  BY <1>5
<1>7. dos_type_id_is_hidden(i) = dos_type_id_is_hidden(id)
  BY <1>4, <1>5, <1>6
<1>8. dos_type_id_is_hidden(i) \/ (dos_type_id_is_lba(i) = state)
  <2>0. /\ state => i \in {14, 12, 15, 30, 28, 22, 27}
        /\ ~ state => i \in {30, 28, 6, 11, 5, 22, 27}
    BY <1>5
  <2>1. CASE i - 16 \in {5, 1, 6, 14, 4, 11, 12, 7}
    BY <1>4, <2>1
  <2>2. CASE state /\ i - 16 \notin {5, 1, 6, 14, 4, 11, 12, 7}
    <3>1. i \in {14, 12, 15, 30, 28}
      <4>1. 22 - 16 = 6 /\ 27 - 16 = 11
        OBVIOUS
      <4>2. i # 22 /\ i # 27
        BY <4>1, <2>2
      <4>3. QED
        BY <2>0, <2>2, <4>2
    <3>2. QED
      BY <1>4, <2>2, <3>1
  <2>3. CASE ~ state /\ i - 16 \notin {5, 1, 6, 14, 4, 11, 12, 7}
    <3>1. i \notin {14, 12, 15, 30, 28}
      BY <2>0, <2>3
    <3>2. QED
      BY <1>4, <2>3, <3>1
  <2>4. QED
    BY <2>1, <2>2, <2>3
<1>9. QED
  BY <1>6, <1>7, <1>8

Numbers == IF label = "gpt" THEN {1, 2} ELSE DosNumbers
Guids == {flag_uuid_mapping[f] : f \in DOMAIN flag_uuid_mapping} \cup {"linux_data", "apple_hfs"}
GptPart == [type : {"normal"}, id : Guids, attrs : SUBSET Attributes, fs : Fs]

(* Ids are bytes that are never 0, as no entry in use has the type 0.      *)
FlagTypes ==
    /\ label \in {"msdos", "gpt"}
    /\ content \in [Numbers -> Fs]
    /\ DOMAIN parts \subseteq Numbers
    /\ parts \in [DOMAIN parts -> IF label = "gpt" THEN GptPart ELSE DosPart]

(* The request is for one of four kinds of flags.                          *)
LEMMA Available ==
    ASSUME NEW p, NEW f, msdos_partition_is_flag_available(p, f)
    PROVE  \/ IdFlag(f) /\ p.type # "extended"
           \/ ~ IdFlag(f) /\ f = "hidden" /\ dos_type_id_supports_hidden(p.id)
           \/ ~ IdFlag(f) /\ f = "lba" /\ dos_type_id_supports_lba(p.id)
           \/ ~ IdFlag(f) /\ f = "boot"
<1> DEFINE b == msdos_partition_is_flag_available(p, f)
<1>1. b = CASE IdFlag(f) -> p.type # "extended"
            [] f = "hidden" -> dos_type_id_supports_hidden(p.id)
            [] f = "lba" -> dos_type_id_supports_lba(p.id)
            [] f = "boot" -> TRUE
            [] OTHER -> FALSE
  BY Zenon DEF msdos_partition_is_flag_available
<1>2. IdFlag(f) => f # "hidden" /\ f # "lba" /\ f # "boot"
  BY IdMapping DEF IdFlag
<1>3. "hidden" # "lba" /\ "hidden" # "boot" /\ "lba" # "boot"
  OBVIOUS
<1> HIDE DEF b
<1>4. CASE IdFlag(f)
  <2>1. b = (p.type # "extended")
    BY <1>1, <1>2, <1>4, Zenon
  <2>2. QED
    BY <1>4, <2>1 DEF b
<1>5. CASE ~ IdFlag(f) /\ f = "hidden"
  <2>1. b = dos_type_id_supports_hidden(p.id)
    BY <1>1, <1>3, <1>5, Zenon
  <2>2. QED
    BY <1>5, <2>1 DEF b
<1>6. CASE ~ IdFlag(f) /\ f = "lba"
  <2>1. b = dos_type_id_supports_lba(p.id)
    BY <1>1, <1>3, <1>6, Zenon
  <2>2. QED
    BY <1>6, <2>1 DEF b
<1>7. CASE ~ IdFlag(f) /\ f = "boot"
  BY <1>7
<1>8. CASE ~ IdFlag(f) /\ f # "hidden" /\ f # "lba" /\ f # "boot"
  <2>1. b = FALSE
    BY <1>1, <1>8, Zenon
  <2>2. QED
    BY <2>1 DEF b
<1>9. QED
  BY <1>4, <1>5, <1>6, <1>7, <1>8

(* What msdos_partition_set_flag makes of the partitions.                  *)
DosSet(qs, n, f, state) ==
    /\ qs \in [DOMAIN parts -> DosPart]
    /\ \A m \in DOMAIN parts : /\ qs[m].type = parts[m].type /\ qs[m].fs = parts[m].fs
                               /\ m # n \/ f = "boot" => qs[m].id = parts[m].id
                               /\ f # "boot" => qs[m].boot = parts[m].boot
                               /\ f = "boot" => qs[m].boot = IF m = n THEN state ELSE parts[m].boot /\ ~ state
    /\ IdFlag(f) => /\ state => qs[n].id = flag_id_mapping[f][1]
                    /\ ~ state /\ ~ IdOf(f, parts[n].id) => qs[n].id = parts[n].id
                    /\ ~ state /\ IdOf(f, parts[n].id) => \/ qs[n].id = 130 /\ parts[n].fs = "swap"
                                                          \/ qs[n].id \in {6, 11, 7, 175, 191, 131}
    /\ f = "hidden" => qs[n].id = dos_type_id_set_hidden(parts[n].id, state)
    /\ f = "lba" => qs[n].id = dos_type_id_set_lba(parts[n].id, state)

(* msdos_partition_set_flag does no more than that.                        *)
LEMMA SetFlagIs ==
    ASSUME label = "msdos", FlagTypes, NEW n \in DOMAIN parts, NEW f, NEW state \in BOOLEAN,
           msdos_partition_is_flag_available(parts[n], f),
           NEW qs, qs = msdos_partition_set_flag(parts, n, f, state)
    PROVE  DosSet(qs, n, f, state)
<1>1. parts \in [DOMAIN parts -> DosPart] /\ parts[n] \in DosPart /\ parts[n].id \in 1 .. 255
  BY DEF FlagTypes, DosPart
<1>2. CASE IdFlag(f) /\ parts[n].type # "extended"
  <2>1. f # "hidden" /\ f # "lba" /\ f # "boot"
    BY <1>2, IdMapping DEF IdFlag
  <2>2. PICK q : q = FlagId(parts[n], f, state)
    OBVIOUS
  <2>3. qs = [parts EXCEPT ![n] = q]
    BY <1>2, <2>1, <2>2, Zenon DEF msdos_partition_set_flag
  <2>4. /\ q \in DosPart /\ q.type = parts[n].type /\ q.fs = parts[n].fs /\ q.boot = parts[n].boot
        /\ state => q.id = flag_id_mapping[f][1]
        /\ ~ state /\ ~ IdOf(f, parts[n].id) => q.id = parts[n].id
        /\ ~ state /\ IdOf(f, parts[n].id) =>
             \/ q.id = 130 /\ parts[n].fs = "swap"
             \/ q.id \in {6, 11, 7, 175, 191, 131}
    <3>1. CASE state
      <4>1. flag_id_mapping[f][1] \in 1 .. 255
        BY <1>2, IdMapping DEF IdFlag
      <4>2. q = [parts[n] EXCEPT !.id = flag_id_mapping[f][1]]
        BY <2>2, <3>1 DEF FlagId
      <4>3. QED
        BY <1>1, <3>1, <4>1, <4>2 DEF DosPart
    <3>2. CASE ~ state /\ IdOf(f, parts[n].id)
      <4>1. PICK r : r = [parts[n] EXCEPT !.id = LINUX]
        OBVIOUS
      <4>2. q = msdos_partition_set_system(r, parts[n].fs)
        BY <2>2, <3>2, <4>1 DEF FlagId, Cleared
      <4>3. /\ r \in DosPart /\ r.type = parts[n].type /\ r.boot = parts[n].boot /\ r.id = 131
            /\ parts[n].fs \in Fs
        BY <1>1, <4>1 DEF DosPart, LINUX
      <4>4. QED
        BY <1>2, <3>2, <4>2, <4>3, SystemIs
    <3>3. CASE ~ state /\ ~ IdOf(f, parts[n].id)
      BY <1>1, <2>2, <3>3 DEF FlagId
    <3>4. QED
      BY <3>1, <3>2, <3>3
  <2>5. QED
    BY <1>1, <1>2, <2>1, <2>3, <2>4 DEF DosSet
<1>3. CASE ~ IdFlag(f) /\ f = "hidden" /\ dos_type_id_supports_hidden(parts[n].id)
  <2>1. PICK i : i = dos_type_id_set_hidden(parts[n].id, state)
    OBVIOUS
  <2>2. qs = [parts EXCEPT ![n].id = i]
    BY <1>3, <2>1, Zenon DEF msdos_partition_set_flag
  <2>3. i \in 1 .. 255
    BY <1>1, <1>3, <2>1, HiddenIs
  <2>4. QED
    BY <1>1, <1>3, <2>1, <2>2, <2>3 DEF DosPart, DosSet
<1>4. CASE ~ IdFlag(f) /\ f = "lba" /\ dos_type_id_supports_lba(parts[n].id)
  <2>1. PICK i : i = dos_type_id_set_lba(parts[n].id, state)
    OBVIOUS
  <2>2. qs = [parts EXCEPT ![n].id = i]
    BY <1>4, <2>1, Zenon DEF msdos_partition_set_flag
  <2>3. i \in 1 .. 255
    BY <1>1, <1>4, <2>1, SetLbaIs, SMTT(30)
  <2>4. QED
    BY <1>1, <1>4, <2>1, <2>2, <2>3 DEF DosPart, DosSet
<1>5. CASE ~ IdFlag(f) /\ f = "boot"
  <2>1. qs = SetBoot(parts, n, state)
    BY <1>5, Zenon DEF msdos_partition_set_flag
  <2>2. \A m \in DOMAIN parts : parts[m] \in DosPart /\ parts[m].boot \in BOOLEAN
    BY <1>1 DEF DosPart
  <2>3. \A m \in DOMAIN parts : \E b \in BOOLEAN : 
            /\ qs[m] = [parts[m] EXCEPT !.boot = b] /\ b = (IF m = n THEN state ELSE parts[m].boot /\ ~ state)
    BY <2>1, <2>2 DEF SetBoot
  <2>4. DOMAIN qs = DOMAIN parts /\ qs = [m \in DOMAIN qs |-> qs[m]]
    BY <2>1 DEF SetBoot
  <2>5. ASSUME NEW m \in DOMAIN parts
        PROVE  /\ qs[m] \in DosPart /\ qs[m].type = parts[m].type /\ qs[m].fs = parts[m].fs
               /\ qs[m].id = parts[m].id
               /\ qs[m].boot = IF m = n THEN state ELSE parts[m].boot /\ ~ state
    <3>1. PICK b \in BOOLEAN : /\ qs[m] = [parts[m] EXCEPT !.boot = b]
                              /\ b = (IF m = n THEN state ELSE parts[m].boot /\ ~ state)
      BY <2>3
    <3>2. parts[m] \in DosPart
      BY <2>2
    <3>3. qs[m] \in DosPart /\ qs[m].type = parts[m].type /\ qs[m].fs = parts[m].fs /\ qs[m].id = parts[m].id
      BY <3>1, <3>2 DEF DosPart
    <3>4. qs[m].boot = b
      BY <3>1, <3>2 DEF DosPart
    <3>5. QED
      BY <3>1, <3>3, <3>4
  <2>6. QED
    BY <1>5, <2>4, <2>5 DEF DosSet
<1>6. QED
  BY <1>2, <1>3, <1>4, <1>5, Available

(* What a query of each kind of flag reads.                                *)
LEMMA GetFlagIs ==
    ASSUME NEW p, NEW f
    PROVE  /\ IdFlag(f) => msdos_partition_get_flag(p, f) = IdOf(f, p.id)
           /\ f = "hidden" => msdos_partition_get_flag(p, f) = dos_type_id_is_hidden(p.id)
           /\ f = "lba" => msdos_partition_get_flag(p, f) = dos_type_id_is_lba(p.id)
           /\ f = "boot" => msdos_partition_get_flag(p, f) = p.boot
           /\ ~ IdFlag(f) /\ f # "hidden" /\ f # "lba" /\ f # "boot" => msdos_partition_get_flag(p, f) = FALSE
<1> DEFINE b == msdos_partition_get_flag(p, f)
<1>1. b = CASE IdFlag(f) -> IdOf(f, p.id)
            [] f = "hidden" -> dos_type_id_is_hidden(p.id)
            [] f = "lba" -> dos_type_id_is_lba(p.id)
            [] f = "boot" -> p.boot
            [] OTHER -> FALSE
  BY Zenon DEF msdos_partition_get_flag
<1>2. IdFlag(f) => f # "hidden" /\ f # "lba" /\ f # "boot"
  BY IdMapping DEF IdFlag
<1>3. "hidden" # "lba" /\ "hidden" # "boot" /\ "lba" # "boot"
  OBVIOUS
<1> HIDE DEF b
<1>4. IdFlag(f) => b = IdOf(f, p.id)
  BY <1>1, <1>2, Zenon
<1>5. f = "hidden" => b = dos_type_id_is_hidden(p.id)
  BY <1>1, <1>2, <1>3, Zenon
<1>6. f = "lba" => b = dos_type_id_is_lba(p.id)
  BY <1>1, <1>2, <1>3, Zenon
<1>7. f = "boot" => b = p.boot
  BY <1>1, <1>2, <1>3, Zenon
<1>8. ~ IdFlag(f) /\ f # "hidden" /\ f # "lba" /\ f # "boot" => b = FALSE
  BY <1>1, Zenon
<1>9. QED
  BY <1>4, <1>5, <1>6, <1>7, <1>8, Zenon DEF b

(* The GUIDs, as far as the file systems can bring them back.              *)
LEMMA UuidMapping ==
    /\ \A f \in DOMAIN flag_uuid_mapping :
         /\ f \notin Attributes /\ f # "lba"
         /\ flag_uuid_mapping[f] # "linux_data" /\ flag_uuid_mapping[f] # "apple_hfs"
         /\ flag_uuid_mapping[f] = "basic_data" => f = "msftdata"
         /\ flag_uuid_mapping[f] = "swap" => f = "swap"
    /\ "linux_data" \notin skip_set_system_guids
    /\ {"linux_data", "apple_hfs", "basic_data", "swap"} \subseteq Guids
    /\ \A f \in DOMAIN flag_uuid_mapping : flag_uuid_mapping[f] \in Guids
<1>1. \A f \in DOMAIN flag_uuid_mapping :
         /\ f \notin Attributes /\ f # "lba"
         /\ flag_uuid_mapping[f] # "linux_data" /\ flag_uuid_mapping[f] # "apple_hfs"
  BY DEF flag_uuid_mapping, Attributes
<1>2. \A f \in DOMAIN flag_uuid_mapping : flag_uuid_mapping[f] = "basic_data" => f = "msftdata"
  BY DEF flag_uuid_mapping
<1>3. \A f \in DOMAIN flag_uuid_mapping : flag_uuid_mapping[f] = "swap" => f = "swap"
  BY DEF flag_uuid_mapping
<1>4. /\ "msftdata" \in DOMAIN flag_uuid_mapping /\ flag_uuid_mapping["msftdata"] = "basic_data"
      /\ "swap" \in DOMAIN flag_uuid_mapping /\ flag_uuid_mapping["swap"] = "swap"
  BY DEF flag_uuid_mapping
<1>5. "linux_data" \notin skip_set_system_guids
  BY <1>1 DEF skip_set_system_guids
<1>6. \A f \in DOMAIN flag_uuid_mapping : flag_uuid_mapping[f] \in Guids
  BY DEF Guids
<1>7. {"linux_data", "apple_hfs", "basic_data", "swap"} \subseteq Guids
  BY <1>4, <1>6 DEF Guids
<1>8. QED
  BY <1>1, <1>2, <1>3, <1>5, <1>6, <1>7

(* The GUIDs gpt_partition_set_system chooses from.                        *)
LEMMA GptSystemIs ==
    ASSUME NEW p \in GptPart, NEW fs \in Fs, NEW q, q = gpt_partition_set_system(p, fs)
    PROVE  /\ q \in GptPart /\ q.attrs = p.attrs /\ q.fs = fs
           /\ \/ q.id = p.id /\ p.id \in skip_set_system_guids
              \/ q.id = "basic_data" /\ fs \in {"fat16", "fat32", "udf", "ntfs"}
              \/ q.id = "swap" /\ fs = "swap"
              \/ q.id \in {"apple_hfs", "linux_data"}
<1> DEFINE guid == CASE p.id \in skip_set_system_guids -> p.id
                     [] p.id \notin skip_set_system_guids /\ fs \in {"fat16", "fat32", "udf", "ntfs"} -> "basic_data"
                     [] p.id \notin skip_set_system_guids /\ fs \in {"hfs", "hfs+"} -> "apple_hfs"
                     [] p.id \notin skip_set_system_guids /\ fs = "swap" -> "swap"
                     [] OTHER -> "linux_data"
<1>1. PICK i : i = guid
  OBVIOUS
<1>2. \/ i = p.id /\ p.id \in skip_set_system_guids
      \/ i = "basic_data" /\ fs \in {"fat16", "fat32", "udf", "ntfs"}
      \/ i = "swap" /\ fs = "swap"
      \/ i \in {"apple_hfs", "linux_data"}
  BY <1>1, Zenon
<1>3. q = [p EXCEPT !.fs = fs, !.id = i]
  BY <1>1, Zenon DEF gpt_partition_set_system
<1>4. PICK r : r = [p EXCEPT !.fs = fs]
  OBVIOUS
<1>5. q = [r EXCEPT !.id = i]
  BY <1>3, <1>4, Zenon
<1>6. r \in GptPart /\ r.attrs = p.attrs /\ r.fs = fs /\ r.id = p.id
  BY <1>4 DEF GptPart
<1>7. i \in Guids
  BY <1>2, UuidMapping DEF GptPart
<1> HIDE DEF guid
<1>8. q \in GptPart /\ q.attrs = r.attrs /\ q.fs = r.fs /\ q.id = i
  BY <1>5, <1>6, <1>7 DEF GptPart
<1>9. QED
  BY <1>2, <1>6, <1>8

(* What gpt_partition_set_flag makes of the partition.                     *)
GptSet(p, q, f, state) ==
    /\ q \in GptPart /\ q.fs = p.fs
    /\ f \in Attributes => q.id = p.id /\ q.attrs = IF state THEN p.attrs \cup {f} ELSE p.attrs \ {f}
    /\ f \notin Attributes =>
         /\ f \in DOMAIN flag_uuid_mapping /\ q.attrs = p.attrs
         /\ state => q.id = flag_uuid_mapping[f]
         /\ ~ state => \/ q.id # flag_uuid_mapping[f]
                       \/ f = "msftdata" /\ q.fs \in {"fat16", "fat32", "udf", "ntfs"}
                       \/ f = "swap" /\ q.fs = "swap"

(* gpt_partition_set_flag does no more than that.                          *)
LEMMA GptSetFlagIs ==
    ASSUME NEW p \in GptPart, NEW f, NEW state \in BOOLEAN, gpt_partition_is_flag_available(f),
           NEW q, q = gpt_partition_set_flag(p, f, state)
    PROVE  GptSet(p, q, f, state)
<1>1. CASE f \in Attributes
  <2>1. PICK a : a = IF state THEN p.attrs \cup {f} ELSE p.attrs \ {f}
    OBVIOUS
  <2>2. q = [p EXCEPT !.attrs = a]
    BY <1>1, <2>1, Zenon DEF gpt_partition_set_flag
  <2>3. a \in SUBSET Attributes
    BY <1>1, <2>1 DEF GptPart
  <2>4. q \in GptPart /\ q.fs = p.fs /\ q.id = p.id /\ q.attrs = a
    BY <2>2, <2>3 DEF GptPart
  <2>5. QED
    BY <1>1, <2>1, <2>4 DEF GptSet
<1>2. CASE f \notin Attributes /\ state
  <2>1. f \in DOMAIN flag_uuid_mapping
    BY <1>2 DEF gpt_partition_is_flag_available
  <2>2. PICK i : i = flag_uuid_mapping[f]
    OBVIOUS
  <2>3. q = [p EXCEPT !.id = i]
    BY <1>2, <2>2, Zenon DEF gpt_partition_set_flag
  <2>4. i \in Guids
    BY <2>1, <2>2, UuidMapping
  <2>5. q \in GptPart /\ q.fs = p.fs /\ q.id = i /\ q.attrs = p.attrs
    BY <2>3, <2>4 DEF GptPart
  <2>6. QED
    BY <1>2, <2>1, <2>2, <2>5 DEF GptSet
<1>3. CASE f \notin Attributes /\ ~ state
  <2>1. f \in DOMAIN flag_uuid_mapping
    BY <1>3 DEF gpt_partition_is_flag_available
  <2>2. q = IF p.id = flag_uuid_mapping[f] THEN gpt_partition_set_system([p EXCEPT !.id = "linux_data"], p.fs) ELSE p
    BY <1>3, Zenon DEF gpt_partition_set_flag
  <2>3. CASE p.id = flag_uuid_mapping[f]
    <3>1. PICK r : r = [p EXCEPT !.id = "linux_data"]
      OBVIOUS
    <3>2. q = gpt_partition_set_system(r, p.fs)
      BY <2>2, <2>3, <3>1, Zenon
    <3>3. r \in GptPart /\ r.attrs = p.attrs /\ r.id = "linux_data" /\ p.fs \in Fs
      BY <3>1, UuidMapping DEF GptPart
    <3>4. /\ q \in GptPart /\ q.attrs = p.attrs /\ q.fs = p.fs
          /\ \/ q.id = "basic_data" /\ p.fs \in {"fat16", "fat32", "udf", "ntfs"}
             \/ q.id = "swap" /\ p.fs = "swap"
             \/ q.id \in {"apple_hfs", "linux_data"}
      BY <3>2, <3>3, GptSystemIs, UuidMapping
    <3>5. QED
      BY <1>3, <2>1, <3>4, UuidMapping DEF GptSet
  <2>4. CASE p.id # flag_uuid_mapping[f]
    BY <1>3, <2>1, <2>2, <2>4 DEF GptSet
  <2>5. QED
    BY <2>3, <2>4
<1>4. QED
  BY <1>1, <1>2, <1>3

(* At most one active partition, without counting them.                    *)
OneBoot == label = "msdos" => \A m, n \in DOMAIN parts : parts[m].boot /\ parts[n].boot => m = n

(* Why a table survives: only the extended partition has an id that makes  *)
(* it one, and no entry of the first four hides the label.                 *)
Kept ==
    ~ retyped /\ label = "msdos" =>
        /\ DOMAIN parts = DosNumbers
        /\ \A n \in DosNumbers : /\ parts[n].type = DosType(n)
                                 /\ raw_part_is_extended(parts[n].id) <=> n = 2
                                 /\ n <= 4 => parts[n].id # GPT

FlagInv == FlagTypes /\ FlagSticks /\ OneBoot /\ Kept

(* The kinds of the three partitions of a DOS label.                       *)
LEMMA DosTypeIs == /\ DosType(1) = "normal" /\ DosType(2) = "extended" /\ DosType(5) = "logical"
                   /\ \A n \in DosNumbers : (DosType(n) = "extended") <=> n = 2
<1>1. 1 # 2 /\ 1 # 5 /\ 2 # 5
  OBVIOUS
<1>2. DosType(1) = "normal" /\ DosType(2) = "extended" /\ DosType(5) = "logical"
  BY <1>1, Zenon DEF DosType
<1>3. QED
  BY <1>2 DEF DosNumbers

(* The ids of extended partitions.                                         *)
LEMMA Extendeds == \A id : raw_part_is_extended(id) <=> id \in {5, 15, 133}
  BY DEF raw_part_is_extended, DOS_EXT, EXT_LBA, LINUX_EXT

(* An accepted request on a DOS label shows in the next query.             *)
LEMMA DosSticks ==
    ASSUME label = "msdos", FlagTypes, NEW n \in DOMAIN parts, NEW f, NEW state \in BOOLEAN,
           msdos_partition_is_flag_available(parts[n], f),
           NEW qs, qs = msdos_partition_set_flag(parts, n, f, state)
    PROVE  \/ msdos_partition_get_flag(qs[n], f) = state
           \/ f = "lba" /\ dos_type_id_is_hidden(qs[n].id)
           \/ ~ state /\ Implied(qs[n], f)
<1>0. DosSet(qs, n, f, state)
  BY SetFlagIs
<1>1. parts[n].id \in 1 .. 255 /\ parts[n].boot \in BOOLEAN
  BY DEF FlagTypes, DosPart
<1>2. CASE IdFlag(f)
  <2>1. msdos_partition_get_flag(qs[n], f) = IdOf(f, qs[n].id)
    BY <1>2, GetFlagIs, Zenon
  <2>2. CASE state
    <3>1. qs[n].id = flag_id_mapping[f][1]
      BY <1>0, <1>2, <2>2 DEF DosSet
    <3>2. IdOf(f, qs[n].id) = TRUE
      BY <3>1 DEF IdOf
    <3>3. QED
      BY <2>1, <2>2, <3>2
  <2>3. CASE ~ state /\ ~ IdOf(f, parts[n].id)
    BY <1>0, <1>2, <2>1, <2>3 DEF IdOf, DosSet
  <2>4. CASE ~ state /\ IdOf(f, parts[n].id)
    <3>1. qs[n].fs = parts[n].fs /\ ((qs[n].id = 130 /\ parts[n].fs = "swap") \/ qs[n].id \in {6, 11, 7, 175, 191, 131})
      BY <1>0, <1>2, <2>4 DEF DosSet
    <3>2. CASE qs[n].id \in {6, 11, 7, 175, 191, 131}
      BY <1>2, <2>1, <2>4, <3>2, IdMapping DEF IdOf, IdFlag
    <3>3. CASE qs[n].id = 130 /\ qs[n].fs = "swap"
      <4>1. CASE f = "swap"
        BY <2>4, <3>3, <4>1 DEF Implied
      <4>2. CASE f # "swap"
        BY <1>2, <2>1, <2>4, <3>3, <4>2, IdMapping DEF IdOf, IdFlag
      <4>3. QED
        BY <4>1, <4>2
    <3>4. QED
      BY <3>1, <3>2, <3>3
  <2>5. QED
    BY <2>2, <2>3, <2>4
<1>3. CASE ~ IdFlag(f) /\ f = "hidden" /\ dos_type_id_supports_hidden(parts[n].id)
  <2>1. msdos_partition_get_flag(qs[n], f) = dos_type_id_is_hidden(qs[n].id)
    BY <1>3, GetFlagIs
  <2>2. qs[n].id = dos_type_id_set_hidden(parts[n].id, state)
    BY <1>0, <1>3 DEF DosSet
  <2>3. QED
    BY <1>1, <1>3, <2>1, <2>2, HiddenIs
<1>4. CASE ~ IdFlag(f) /\ f = "lba" /\ dos_type_id_supports_lba(parts[n].id)
  <2>1. msdos_partition_get_flag(qs[n], f) = dos_type_id_is_lba(qs[n].id)
    BY <1>4, GetFlagIs
  <2>2. qs[n].id = dos_type_id_set_lba(parts[n].id, state)
    BY <1>0, <1>4 DEF DosSet
  <2>3. QED
    BY <1>1, <1>4, <2>1, <2>2, SetLbaIs
<1>5. CASE ~ IdFlag(f) /\ f = "boot"
  <2>1. msdos_partition_get_flag(qs[n], f) = qs[n].boot
    BY <1>5, GetFlagIs
  <2>2. QED
    BY <1>0, <1>5, <2>1 DEF DosSet
<1>6. QED
  BY <1>2, <1>3, <1>4, <1>5, Available

(* No request for a flag makes an id extended or GPT unseen.               *)
LEMMA DosIdKept ==
    ASSUME label = "msdos", FlagTypes, NEW n \in DOMAIN parts, NEW f, NEW state \in BOOLEAN,
           msdos_partition_is_flag_available(parts[n], f),
           NEW qs, qs = msdos_partition_set_flag(parts, n, f, state)
    PROVE  qs[n].id = parts[n].id \/ qs[n].id # GPT
<1>0. DosSet(qs, n, f, state)
  BY SetFlagIs
<1>1. parts[n].id \in 1 .. 255
  BY DEF FlagTypes, DosPart
<1>2. CASE IdFlag(f)
  <2>1. \/ qs[n].id = flag_id_mapping[f][1]
        \/ qs[n].id = parts[n].id
        \/ qs[n].id \in {130, 6, 11, 7, 175, 191, 131}
    BY <1>0, <1>2 DEF DosSet
  <2>2. flag_id_mapping[f][1] # GPT
    BY <1>2, IdMapping DEF IdFlag, GPT
  <2>3. QED
    BY <2>1, <2>2 DEF GPT
<1>3. CASE ~ IdFlag(f) /\ f = "hidden" /\ dos_type_id_supports_hidden(parts[n].id)
  <2>1. qs[n].id = dos_type_id_set_hidden(parts[n].id, state)
    BY <1>0, <1>3 DEF DosSet
  <2>2. QED
    BY <1>1, <1>3, <2>1, HiddenIs DEF GPT
<1>4. CASE ~ IdFlag(f) /\ f = "lba" /\ dos_type_id_supports_lba(parts[n].id)
  <2>1. qs[n].id = dos_type_id_set_lba(parts[n].id, state)
    BY <1>0, <1>4 DEF DosSet
  <2>2. QED
    BY <1>1, <1>4, <2>1, SetLbaIs DEF GPT
<1>5. CASE ~ IdFlag(f) /\ f = "boot"
  BY <1>0, <1>5 DEF DosSet
<1>6. QED
  BY <1>2, <1>3, <1>4, <1>5, Available

(* do_set and do_toggle keep the invariant.                                *)
LEMMA SetFlagKeeps ==
    ASSUME FlagTypes, OneBoot, Kept, NEW n \in DOMAIN parts, NEW f, NEW state \in BOOLEAN,
           ped_partition_set_flag(n, f, state)
    PROVE  (FlagTypes /\ FlagSticks /\ OneBoot /\ Kept)'
<1>1. label' = label /\ content' = content /\ last' = [num |-> n, flag |-> f, state |-> state]
  BY DEF ped_partition_set_flag
<1>2. last'.num = n /\ last'.flag = f /\ last'.state = state
  BY <1>1
<1>3. CASE label = "gpt"
  <2>1. gpt_partition_is_flag_available(f)
    BY <1>3 DEF ped_partition_set_flag, ped_partition_is_flag_available
  <2>2. PICK q : q = gpt_partition_set_flag(parts[n], f, state)
    OBVIOUS
  <2>3. parts' = [parts EXCEPT ![n] = q]
    BY <1>3, <2>2, Zenon DEF ped_partition_set_flag
  <2>4. parts \in [DOMAIN parts -> GptPart] /\ parts[n] \in GptPart
    BY <1>3 DEF FlagTypes
  <2>5. GptSet(parts[n], q, f, state) /\ q \in GptPart
    <3>1. GptSet(parts[n], q, f, state)
      BY <2>1, <2>2, <2>4, GptSetFlagIs
    <3>2. QED
      BY <3>1 DEF GptSet
  <2>6. DOMAIN parts' = DOMAIN parts /\ parts' \in [DOMAIN parts -> GptPart] /\ parts'[n] = q
    BY <2>3, <2>4, <2>5
  <2>7. FlagTypes'
    BY <1>1, <1>3, <2>6 DEF FlagTypes, Numbers
  <2>8. FlagSticks'
    <3>1. SUFFICES gpt_partition_get_flag(q, f) = state \/ (~ state /\ Implied(q, f))
      BY <1>1, <1>2, <1>3, <2>6 DEF FlagSticks, ped_partition_get_flag
    <3>2. CASE f \in Attributes
      <4>1. gpt_partition_get_flag(q, f) = (f \in q.attrs)
        BY <3>2, UuidMapping DEF gpt_partition_get_flag
      <4>2. q.attrs = IF state THEN parts[n].attrs \cup {f} ELSE parts[n].attrs \ {f}
        BY <2>5, <3>2 DEF GptSet
      <4>3. QED
        BY <4>1, <4>2
    <3>3. CASE f \notin Attributes
      BY <2>5, <3>3 DEF GptSet, gpt_partition_get_flag, Implied
    <3>4. QED
      BY <3>2, <3>3
  <2>9. QED
    BY <1>1, <1>3, <2>7, <2>8 DEF OneBoot, Kept
<1>4. CASE label = "msdos"
  <2>1. /\ msdos_partition_is_flag_available(parts[n], f)
        /\ parts' = msdos_partition_set_flag(parts, n, f, state)
    BY <1>4 DEF ped_partition_set_flag, ped_partition_is_flag_available
  <2>0. DosSet(parts', n, f, state)
    BY <1>4, <2>1, SetFlagIs
  <2>2. DOMAIN parts' = DOMAIN parts /\ parts' \in [DOMAIN parts -> DosPart]
    BY <2>0 DEF DosSet
  <2>3. FlagTypes'
    BY <1>1, <1>4, <2>2 DEF FlagTypes, Numbers
  <2>4. FlagSticks'
    <3>2. \/ msdos_partition_get_flag(parts'[n], f) = state
          \/ f = "lba" /\ dos_type_id_is_hidden(parts'[n].id)
          \/ ~ state /\ Implied(parts'[n], f)
      BY <1>4, <2>1, DosSticks
    <3>3. QED
      BY <1>1, <1>2, <1>4, <3>2 DEF FlagSticks, ped_partition_get_flag
  <2>5. OneBoot'
    <3>1. CASE f = "boot"
      <4>1. \A m \in DOMAIN parts : parts'[m].boot = IF m = n THEN state ELSE parts[m].boot /\ ~ state
        BY <2>0, <3>1 DEF DosSet
      <4>2. CASE state
        BY <2>2, <4>1, <4>2 DEF OneBoot
      <4>3. CASE ~ state
        BY <1>4, <2>2, <4>1, <4>3 DEF OneBoot
      <4>4. QED
        BY <4>2, <4>3
    <3>2. CASE f # "boot"
      <4>1. \A m \in DOMAIN parts : parts'[m].boot = parts[m].boot
        BY <2>0, <3>2 DEF DosSet
      <4>2. QED
        BY <1>4, <2>2, <4>1 DEF OneBoot
    <3>3. QED
      BY <3>1, <3>2
  <2>6. Kept'
    <3>1. SUFFICES ASSUME ~ retyped'
                   PROVE  /\ DOMAIN parts' = DosNumbers
                          /\ \A m \in DosNumbers : /\ parts'[m].type = DosType(m)
                                                   /\ raw_part_is_extended(parts'[m].id) <=> m = 2
                                                   /\ m <= 4 => parts'[m].id # GPT
      BY DEF Kept, raw_part_is_extended
    <3>2. ~ retyped /\ (raw_part_is_extended(parts'[n].id) <=> parts[n].type = "extended")
      BY <1>4, <3>1, Extendeds DEF ped_partition_set_flag, raw_part_is_extended
    <3>3. /\ DOMAIN parts = DosNumbers
          /\ \A m \in DosNumbers : /\ parts[m].type = DosType(m)
                                   /\ raw_part_is_extended(parts[m].id) <=> m = 2
                                   /\ m <= 4 => parts[m].id # GPT
      BY <1>4, <3>2 DEF Kept
    <3>4. parts'[n].id = parts[n].id \/ parts'[n].id # GPT
      BY <1>4, <2>1, DosIdKept
    <3>5. \A m \in DosNumbers : parts'[m].type = parts[m].type /\ (m # n => parts'[m].id = parts[m].id)
      BY <2>0, <3>3 DEF DosSet
    <3>6. QED
      BY <2>2, <3>2, <3>3, <3>4, <3>5, DosTypeIs
  <2>7. QED
    BY <2>3, <2>4, <2>5, <2>6
<1>5. QED
  BY <1>3, <1>4 DEF FlagTypes

(* So does do_mkpart,                                                      *)
LEMMA MkpartKeeps ==
    ASSUME FlagTypes, OneBoot, Kept, NEW n \in DOMAIN parts, NEW fs \in FileSystems, mkpart(n, fs)
    PROVE  (FlagTypes /\ FlagSticks /\ OneBoot /\ Kept)'
<1>1. label' = label /\ content' = content /\ retyped' = retyped /\ last'.num = 0 /\ fs \in Fs
  BY DEF mkpart, NoRequest, Fs
<1>2. FlagSticks'
  BY <1>1 DEF FlagSticks
<1>3. CASE label = "gpt"
  <2>1. PICK q : q = gpt_partition_set_system(gpt_partition_new, fs)
    OBVIOUS
  <2>2. parts' = [parts EXCEPT ![n] = q]
    BY <1>3, <2>1, Zenon DEF mkpart, ped_partition_set_system
  <2>3. gpt_partition_new \in GptPart
    BY UuidMapping DEF gpt_partition_new, GptPart, Fs
  <2>4. q \in GptPart
    BY <1>1, <2>1, <2>3, GptSystemIs
  <2>5. parts' \in [DOMAIN parts -> GptPart] /\ DOMAIN parts' = DOMAIN parts
    BY <1>3, <2>2, <2>4 DEF FlagTypes
  <2>6. FlagTypes'
    BY <1>1, <1>3, <2>5 DEF FlagTypes, Numbers
  <2>7. QED
    BY <1>1, <1>2, <1>3, <2>6 DEF OneBoot, Kept
<1>4. CASE label = "msdos"
  <2> DEFINE p == msdos_partition_new(parts[n].type)
  <2>1. PICK q : q = msdos_partition_set_system(p, fs)
    OBVIOUS
  <2>2. parts' = [parts EXCEPT ![n] = q] /\ parts[n].type # "extended"
    BY <1>4, <2>1, Zenon DEF mkpart, ped_partition_set_system
  <2>3. parts \in [DOMAIN parts -> DosPart] /\ parts[n] \in DosPart
    BY <1>4 DEF FlagTypes
  <2>4. p \in DosPart /\ p.id = 131 /\ p.type = parts[n].type /\ p.boot = FALSE
    BY <2>3 DEF msdos_partition_new, LINUX, DosPart, Fs
  <2> HIDE DEF p
  <2>5. /\ q \in DosPart /\ q.type = parts[n].type /\ q.boot = FALSE
        /\ q.id \in {131, 130, 6, 11, 7, 175, 191}
    BY <1>1, <2>1, <2>2, <2>4, SystemIs
  <2>6. /\ parts' \in [DOMAIN parts -> DosPart] /\ DOMAIN parts' = DOMAIN parts /\ parts'[n] = q
        /\ \A m \in DOMAIN parts : m # n => parts'[m] = parts[m]
    BY <2>2, <2>3, <2>5
  <2>7. FlagTypes'
    BY <1>1, <1>4, <2>6 DEF FlagTypes, Numbers
  <2>8. OneBoot'
    <3>1. \A m \in DOMAIN parts : parts'[m].boot => parts[m].boot
      BY <2>5, <2>6
    <3>2. QED
      BY <1>1, <1>4, <2>6, <3>1 DEF OneBoot
  <2>9. Kept'
    <3>1. ~ raw_part_is_extended(q.id) /\ q.id # GPT
      BY <2>5, Extendeds DEF GPT
    <3>2. SUFFICES ASSUME ~ retyped
                   PROVE  /\ DOMAIN parts' = DosNumbers
                          /\ \A m \in DosNumbers : /\ parts'[m].type = DosType(m)
                                                   /\ raw_part_is_extended(parts'[m].id) <=> m = 2
                                                   /\ m <= 4 => parts'[m].id # GPT
      BY <1>1 DEF Kept, raw_part_is_extended
    <3>3. /\ DOMAIN parts = DosNumbers
          /\ \A m \in DosNumbers : /\ parts[m].type = DosType(m)
                                   /\ raw_part_is_extended(parts[m].id) <=> m = 2
                                   /\ m <= 4 => parts[m].id # GPT
      BY <1>4, <3>2 DEF Kept
    <3>4. n # 2
      BY <2>2, <3>3, DosTypeIs
    <3>5. QED
      BY <2>5, <2>6, <3>1, <3>3, <3>4
  <2>10. QED
    BY <1>2, <2>7, <2>8, <2>9
<1>5. QED
  BY <1>3, <1>4 DEF FlagTypes

(* do_type, of a DOS label only,                                           *)
LEMMA TypeIdKeeps ==
    ASSUME FlagTypes, OneBoot, Kept, NEW n \in DOMAIN parts, NEW id \in TypeIds, msdos_partition_set_type_id(n, id)
    PROVE  (FlagTypes /\ FlagSticks /\ OneBoot /\ Kept)'
<1>1. label = "msdos" /\ label' = label /\ content' = content /\ last'.num = 0
  BY DEF msdos_partition_set_type_id, NoRequest
<1>2. FlagSticks'
  BY <1>1 DEF FlagSticks
<1>3. parts \in [DOMAIN parts -> DosPart] /\ parts[n] \in DosPart /\ content[n] \in Fs /\ id \in 1 .. 255
  BY <1>1, TypeIdsAssumption DEF FlagTypes
<1>4. PICK r : r = [parts[n] EXCEPT !.id = id]
  OBVIOUS
<1>5. PICK q : q = [r EXCEPT !.fs = content[n]]
  OBVIOUS
<1>6. PICK ps : ps = [parts EXCEPT ![n].id = id]
  OBVIOUS
<1>7. parts' = [ps EXCEPT ![n].fs = content[n]]
  BY <1>6, Zenon DEF msdos_partition_set_type_id
<1>8. r \in DosPart /\ r.type = parts[n].type /\ r.boot = parts[n].boot /\ r.id = id
  BY <1>3, <1>4 DEF DosPart
<1>9. q \in DosPart /\ q.type = parts[n].type /\ q.boot = parts[n].boot /\ q.id = id
  BY <1>3, <1>5, <1>8 DEF DosPart
<1>10. ps = [parts EXCEPT ![n] = r]
  BY <1>4, <1>6
<1>11. parts' = [ps EXCEPT ![n] = q]
  BY <1>3, <1>5, <1>7, <1>10
<1>12. /\ parts' \in [DOMAIN parts -> DosPart] /\ DOMAIN parts' = DOMAIN parts /\ parts'[n] = q
       /\ \A m \in DOMAIN parts : m # n => parts'[m] = parts[m]
  BY <1>3, <1>9, <1>10, <1>11
<1>13. FlagTypes'
  BY <1>1, <1>12 DEF FlagTypes, Numbers
<1>14. OneBoot'
  <2>1. \A m \in DOMAIN parts : parts'[m].boot = parts[m].boot
    BY <1>9, <1>12
  <2>2. QED
    BY <1>1, <1>12, <2>1 DEF OneBoot
<1>15. Kept'
  <2>1. SUFFICES ASSUME ~ retyped'
                 PROVE  /\ DOMAIN parts' = DosNumbers
                        /\ \A m \in DosNumbers : /\ parts'[m].type = DosType(m)
                                                 /\ raw_part_is_extended(parts'[m].id) <=> m = 2
                                                 /\ m <= 4 => parts'[m].id # GPT
    BY <1>1 DEF Kept, raw_part_is_extended
  <2>2. /\ ~ retyped /\ (raw_part_is_extended(id) <=> parts[n].type = "extended")
        /\ n <= 4 => id # GPT
    BY <2>1 DEF msdos_partition_set_type_id, raw_part_is_extended
  <2>3. /\ DOMAIN parts = DosNumbers
        /\ \A m \in DosNumbers : /\ parts[m].type = DosType(m)
                                 /\ raw_part_is_extended(parts[m].id) <=> m = 2
                                 /\ m <= 4 => parts[m].id # GPT
    BY <1>1, <2>2 DEF Kept
  <2>4. QED
    BY <1>9, <1>12, <2>2, <2>3, DosTypeIs
<1>16. QED
  BY <1>2, <1>13, <1>14, <1>15

(* reading the committed table again,                                      *)
LEMMA ReopenKeeps ==
    ASSUME FlagTypes, OneBoot, Kept, Reopen
    PROVE  (FlagTypes /\ FlagSticks /\ OneBoot /\ Kept)'
<1>1. label' = label /\ content' = content /\ retyped' = retyped /\ last'.num = 0
  BY DEF Reopen, NoRequest
<1>2. FlagSticks'
  BY <1>1 DEF FlagSticks
<1>3. CASE label = "gpt"
  <2>1. parts' = [n \in DOMAIN parts |-> _parse_part_entry(n)]
    BY <1>3 DEF Reopen
  <2>2. ASSUME NEW n \in DOMAIN parts
        PROVE  _parse_part_entry(n) \in GptPart
    <3>1. parts[n] \in GptPart /\ content[n] \in Fs
      BY <1>3 DEF FlagTypes
    <3>2. PICK q : q = [parts[n] EXCEPT !.fs = content[n]]
      OBVIOUS
    <3>3. q \in GptPart
      BY <3>1, <3>2 DEF GptPart
    <3>4. QED
      BY <3>2, <3>3, Zenon DEF _parse_part_entry
  <2>3. parts' \in [DOMAIN parts -> GptPart] /\ DOMAIN parts' = DOMAIN parts
    BY <2>1, <2>2
  <2>4. FlagTypes'
    BY <1>1, <1>3, <2>3 DEF FlagTypes, Numbers
  <2>5. QED
    BY <1>1, <1>2, <1>3, <2>4 DEF OneBoot, Kept
<1>4. CASE label = "msdos"
  <2>1. PICK ignore \in BOOLEAN : parts' = RereadDos(ignore)
    BY <1>4 DEF Reopen
  <2>2. CASE ~ msdos_probe \/ (1 \in Links /\ (2 \in Links \/ ~ ignore))
    <3>1. parts' = <<>>
      BY <2>1, <2>2 DEF RereadDos
    <3>2. DOMAIN parts' = {} /\ parts' \in [DOMAIN parts' -> DosPart]
      BY <3>1
    <3>3. FlagTypes'
      BY <1>1, <1>4, <3>2 DEF FlagTypes, Numbers
    <3>4. OneBoot'
      BY <3>2 DEF OneBoot
    <3>5. retyped
      <4>1. SUFFICES ASSUME ~ retyped
                     PROVE  FALSE
        OBVIOUS
      <4>2. /\ DOMAIN parts = DosNumbers
            /\ \A m \in DosNumbers : /\ raw_part_is_extended(parts[m].id) <=> m = 2
                                     /\ m <= 4 => parts[m].id # GPT
        BY <1>4, <4>1 DEF Kept
      <4>3. msdos_probe /\ 1 \notin Links
        BY <4>2 DEF msdos_probe, Links, DosNumbers
      <4>4. QED
        BY <2>2, <4>3
    <3>6. QED
      BY <1>1, <1>2, <3>3, <3>4, <3>5 DEF Kept
  <2>3. CASE ~ (~ msdos_probe \/ (1 \in Links /\ (2 \in Links \/ ~ ignore)))
    <3> DEFINE type(n) == IF n > 4 THEN "logical" ELSE IF n \in Links THEN "extended" ELSE "normal"
               found(n) == IF n \in Links THEN "none" ELSE content[n]
               reread(n) == [parts[n] EXCEPT !.type = type(n), !.fs = found(n)]
    <3>1. parts' = [n \in Readable |-> reread(n)]
      BY <2>1, <2>3, Zenon DEF RereadDos
    <3>2. Readable \subseteq DOMAIN parts
      BY DEF Readable
    <3>3. ASSUME NEW n \in Readable
          PROVE  /\ reread(n) \in DosPart /\ reread(n).type = type(n)
                 /\ reread(n).id = parts[n].id /\ reread(n).boot = parts[n].boot
      <4>1. parts[n] \in DosPart /\ content[n] \in Fs
        BY <1>4, <3>2 DEF FlagTypes
      <4>2. PICK t : t = type(n)
        OBVIOUS
      <4>3. PICK fs : fs = found(n)
        OBVIOUS
      <4>4. t \in {"normal", "extended", "logical"} /\ fs \in Fs
        BY <4>1, <4>2, <4>3 DEF Fs
      <4>5. PICK r : r = [parts[n] EXCEPT !.type = t]
        OBVIOUS
      <4>6. PICK q : q = [r EXCEPT !.fs = fs]
        OBVIOUS
      <4>7. r \in DosPart /\ r.type = t /\ r.id = parts[n].id /\ r.boot = parts[n].boot
        BY <4>1, <4>4, <4>5 DEF DosPart
      <4>8. q \in DosPart /\ q.type = t /\ q.id = parts[n].id /\ q.boot = parts[n].boot
        BY <4>4, <4>6, <4>7 DEF DosPart
      <4>9. reread(n) = q
        BY <4>2, <4>3, <4>5, <4>6, Zenon
      <4> HIDE DEF reread, type, found
      <4>10. QED
        BY <4>2, <4>8, <4>9
    <3> HIDE DEF reread
    <3>4. parts' \in [Readable -> DosPart] /\ DOMAIN parts' = Readable
      BY <3>1, <3>3
    <3>5. \A n \in Readable : parts'[n].type = type(n) /\ parts'[n].id = parts[n].id /\ parts'[n].boot = parts[n].boot
      BY <3>1, <3>3
    <3>6. FlagTypes'
      BY <1>1, <1>4, <3>2, <3>4 DEF FlagTypes, Numbers
    <3>7. OneBoot'
      BY <1>1, <1>4, <3>2, <3>4, <3>5 DEF OneBoot
    <3>8. Kept'
      <4>1. SUFFICES ASSUME ~ retyped
                     PROVE  /\ DOMAIN parts' = DosNumbers
                            /\ \A m \in DosNumbers : /\ parts'[m].type = DosType(m)
                                                     /\ raw_part_is_extended(parts'[m].id) <=> m = 2
                                                     /\ m <= 4 => parts'[m].id # GPT
        BY <1>1 DEF Kept, raw_part_is_extended
      <4>2. /\ DOMAIN parts = DosNumbers
            /\ \A m \in DosNumbers : /\ raw_part_is_extended(parts[m].id) <=> m = 2
                                     /\ m <= 4 => parts[m].id # GPT
        BY <1>4, <4>1 DEF Kept
      <4>3. Links = {2}
        BY <4>2 DEF Links, DosNumbers
      <4>4. Readable = DosNumbers
        BY <4>2, <4>3 DEF Readable, DosNumbers
      <4>5. type(1) = "normal" /\ type(2) = "extended" /\ type(5) = "logical"
        BY <4>3
      <4>6. \A m \in DosNumbers : type(m) = DosType(m)
        BY <4>5, DosTypeIs DEF DosNumbers
      <4> HIDE DEF type
      <4>7. QED
        BY <3>4, <3>5, <4>2, <4>4, <4>6
    <3>9. QED
      BY <1>2, <3>6, <3>7, <3>8
  <2>4. QED
    BY <2>2, <2>3
<1>5. QED
  BY <1>3, <1>4 DEF FlagTypes

(* and another program that makes a file system.                           *)
LEMMA MakeFsKeeps ==
    ASSUME FlagTypes, OneBoot, Kept, NEW n \in DOMAIN parts, NEW fs \in FileSystems, MakeFs(n, fs)
    PROVE  (FlagTypes /\ FlagSticks /\ OneBoot /\ Kept)'
<1>1. /\ label' = label /\ parts' = parts /\ retyped' = retyped /\ last'.num = 0
      /\ content' = [content EXCEPT ![n] = fs] /\ fs \in Fs
  BY DEF MakeFs, NoRequest, Fs
<1>2. FlagSticks'
  BY <1>1 DEF FlagSticks
<1>3. FlagTypes'
  BY <1>1 DEF FlagTypes, Numbers
<1>4. OneBoot' /\ Kept'
  BY <1>1 DEF OneBoot, Kept, raw_part_is_extended
<1>5. QED
  BY <1>2, <1>3, <1>4

(* A new table is one that would be read back.                             *)
LEMMA InitFlagInv == FlagInit => FlagInv
<1> SUFFICES ASSUME FlagInit
             PROVE  FlagInv
  OBVIOUS
<1>1. label \in {"msdos", "gpt"} /\ content = [n \in DOMAIN parts |-> "none"] /\ last.num = 0 /\ "none" \in Fs
  BY DEF FlagInit, NoRequest, Fs
<1>2. FlagSticks
  BY <1>1 DEF FlagSticks
<1>3. CASE label = "gpt"
  <2>1. parts = [n \in {1, 2} |-> gpt_partition_new]
    BY <1>3 DEF FlagInit
  <2>2. gpt_partition_new \in GptPart
    BY <1>1, UuidMapping DEF gpt_partition_new, GptPart
  <2>3. FlagTypes
    BY <1>1, <1>3, <2>1, <2>2 DEF FlagTypes, Numbers
  <2>4. QED
    BY <1>2, <1>3, <2>3 DEF FlagInv, OneBoot, Kept
<1>4. CASE label = "msdos"
  <2> DEFINE new(n) == msdos_partition_set_system(msdos_partition_new(DosType(n)), "none")
  <2>1. parts = [n \in DosNumbers |-> new(n)]
    BY <1>4, Zenon DEF FlagInit
  <2>2. ASSUME NEW n \in DosNumbers
        PROVE  /\ new(n) \in DosPart /\ new(n).type = DosType(n) /\ new(n).boot = FALSE
               /\ raw_part_is_extended(new(n).id) <=> n = 2
               /\ new(n).id # GPT
    <3> DEFINE p == msdos_partition_new(DosType(n))
    <3>1. p \in DosPart /\ p.type = DosType(n) /\ p.id = 131 /\ p.boot = FALSE
      BY <1>1, DosTypeIs DEF msdos_partition_new, DosPart, LINUX, DosNumbers
    <3>2. new(n) = msdos_partition_set_system(p, "none")
      OBVIOUS
    <3> HIDE DEF p, new
    <3>3. /\ new(n) \in DosPart /\ new(n).type = DosType(n) /\ new(n).boot = FALSE
          /\ \/ new(n).id \in {131, 6, 11, 7, 175, 191}
             \/ new(n).id = 15 /\ DosType(n) = "extended"
      BY <1>1, <3>1, <3>2, SystemIs
    <3>4. n = 2 => new(n).id = 15
      <4>1. SUFFICES ASSUME n = 2
                     PROVE  new(n).id = 15
        OBVIOUS
      <4>2. ~ is_skip_type(p.id) /\ p.type = "extended"
        BY <3>1, <4>1, DosTypeIs
           DEF is_skip_type, skip_set_system_types, EXT_LBA, DOS_EXT, COMPAQ_DIAG, MSFT_RECOVERY, LINUX_LVM,
               LINUX_SWAP, LINUX_RAID, ESP
      <4>3. PICK i : i = SystemId(p.id, p.type, "none")
        OBVIOUS
      <4>4. i = EXT_LBA
        BY <4>2, <4>3, Zenon DEF SystemId
      <4>5. new(n) = [p EXCEPT !.fs = "none", !.id = i]
        BY <3>2, <4>3, Zenon DEF msdos_partition_set_system, SystemId
      <4>6. PICK r : r = [p EXCEPT !.fs = "none"]
        OBVIOUS
      <4>7. new(n) = [r EXCEPT !.id = i]
        BY <4>5, <4>6, Zenon
      <4>8. r \in DosPart
        BY <1>1, <3>1, <4>6 DEF DosPart
      <4>9. QED
        BY <4>4, <4>7, <4>8 DEF DosPart, EXT_LBA
    <3>5. QED
      BY <3>3, <3>4, DosTypeIs, Extendeds DEF GPT
  <2> HIDE DEF new
  <2>3. FlagTypes
    BY <1>1, <1>4, <2>1, <2>2 DEF FlagTypes, Numbers
  <2>4. OneBoot
    BY <2>1, <2>2 DEF OneBoot
  <2>5. Kept
    BY <2>1, <2>2 DEF Kept
  <2>6. QED
    BY <1>2, <2>3, <2>4, <2>5 DEF FlagInv
<1>5. QED
  BY <1>1, <1>3, <1>4

(* Every step keeps the invariant.                                         *)
LEMMA StepFlagInv == FlagInv /\ [FlagNext]_flag_vars => FlagInv'
<1> SUFFICES ASSUME FlagInv, [FlagNext]_flag_vars
             PROVE  FlagInv'
  OBVIOUS
<1>1. FlagTypes /\ FlagSticks /\ OneBoot /\ Kept
  BY DEF FlagInv
<1>2. ASSUME NEW n \in DOMAIN parts, NEW f \in Flags, NEW state \in BOOLEAN, ped_partition_set_flag(n, f, state)
      PROVE  FlagInv'
  BY <1>1, <1>2, SetFlagKeeps DEF FlagInv
<1>3. ASSUME NEW n \in DOMAIN parts, NEW fs \in FileSystems, mkpart(n, fs)
      PROVE  FlagInv'
  BY <1>1, <1>3, MkpartKeeps DEF FlagInv
<1>4. ASSUME NEW n \in DOMAIN parts, NEW fs \in FileSystems, MakeFs(n, fs)
      PROVE  FlagInv'
  BY <1>1, <1>4, MakeFsKeeps DEF FlagInv
<1>5. ASSUME NEW n \in DOMAIN parts, NEW id \in TypeIds, msdos_partition_set_type_id(n, id)
      PROVE  FlagInv'
  BY <1>1, <1>5, TypeIdKeeps DEF FlagInv
<1>6. CASE Reopen
  BY <1>1, <1>6, ReopenKeeps DEF FlagInv
<1>7. CASE UNCHANGED flag_vars
  <2>1. label' = label /\ parts' = parts /\ content' = content /\ last' = last /\ retyped' = retyped
    BY <1>7 DEF flag_vars
  <2>2. FlagTypes' /\ OneBoot' /\ Kept'
    BY <1>1, <2>1 DEF FlagTypes, OneBoot, Kept, Numbers, raw_part_is_extended
  <2>3. FlagSticks'
    BY <1>1, <2>1 DEF FlagSticks, ped_partition_get_flag
  <2>4. QED
    BY <2>2, <2>3 DEF FlagInv
<1>8. QED
  BY <1>2, <1>3, <1>4, <1>5, <1>6, <1>7 DEF FlagNext

(* The invariant holds.                                                    *)
LEMMA FlagInvHolds == FlagSpec => []FlagInv
  BY InitFlagInv, StepFlagInv, PTL DEF FlagSpec

(* Whatever is set, created, retyped, made or read again: an accepted      *)
(* request shows in the next query, but for the two cases FlagSticks names,*)
(* and at most one partition of a DOS label is active.                     *)
THEOREM FlagsStayTrue == FlagSpec => []FlagsTrue
<1>1. FlagInv => FlagsTrue
  <2> SUFFICES ASSUME FlagInv
               PROVE  OneActive
    BY DEF FlagsTrue, FlagInv
  <2>1. SUFFICES ASSUME label = "msdos"
                 PROVE  Cardinality({n \in DOMAIN parts : parts[n].boot}) <= 1
    BY DEF OneActive
  <2> DEFINE active == {n \in DOMAIN parts : parts[n].boot}
  <2>2. \A m, n \in active : m = n
    BY <2>1 DEF FlagInv, OneBoot
  <2>3. CASE active = {}
    BY <2>3, FS_EmptySet
  <2>4. CASE active # {}
    <3>1. PICK n : active = {n}
      BY <2>2, <2>4
    <3>2. QED
      BY <3>1, FS_Singleton
  <2>5. QED
    BY <2>3, <2>4
<1>2. QED
  BY <1>1, FlagInvHolds, PTL

(* A DOS table is read back with the partitions it had, each of its kind,  *)
(* unless an id was set that makes or unmakes an extended partition.       *)
THEOREM TableSurvives == FlagSpec => []Survives
<1>1. FlagInv => Survives
  BY DEF FlagInv, Kept, Survives
<1>2. QED
  BY <1>1, FlagInvHolds, PTL

(* A query reads no more than this.                                        *)
LEMMA SameFlag ==
    ASSUME NEW p, NEW q, NEW g,
           IdFlag(g) => IdOf(g, q.id) = IdOf(g, p.id),
           g = "hidden" => dos_type_id_is_hidden(q.id) = dos_type_id_is_hidden(p.id),
           g = "lba" => dos_type_id_is_lba(q.id) = dos_type_id_is_lba(p.id),
           g = "boot" => q.boot = p.boot
    PROVE  msdos_partition_get_flag(q, g) = msdos_partition_get_flag(p, g)
<1>1. CASE IdFlag(g)
  BY <1>1, GetFlagIs, Zenon
<1>2. CASE g = "hidden"
  BY <1>2, GetFlagIs, Zenon
<1>3. CASE g = "lba"
  BY <1>3, GetFlagIs, Zenon
<1>4. CASE g = "boot"
  BY <1>4, GetFlagIs, Zenon
<1>5. CASE ~ IdFlag(g) /\ g # "hidden" /\ g # "lba" /\ g # "boot"
  BY <1>5, GetFlagIs, Zenon
<1>6. QED
  BY <1>1, <1>2, <1>3, <1>4, <1>5, Zenon

(* The other flags of a DOS partition, one by one.                         *)
LEMMA DosRestKept ==
    ASSUME label = "msdos", FlagTypes, NEW n \in DOMAIN parts, NEW f, NEW state \in BOOLEAN, f \in Independent,
           msdos_partition_is_flag_available(parts[n], f),
           NEW qs, qs = msdos_partition_set_flag(parts, n, f, state), NEW m \in DOMAIN parts, NEW g, g # f
    PROVE  msdos_partition_get_flag(qs[m], g) = msdos_partition_get_flag(parts[m], g)
<1>1. DosSet(qs, n, f, state)
  BY SetFlagIs
<1>2. parts[m].id \in 1 .. 255 /\ parts[n].id \in 1 .. 255 /\ parts[m].boot \in BOOLEAN
  BY DEF FlagTypes, DosPart
<1>3. ~ IdFlag(f)
  BY IdMapping DEF IdFlag, Independent, flag_id_mapping
<1>4. CASE qs[m].id = parts[m].id
  <2>1. g = "boot" => qs[m].boot = parts[m].boot
    BY <1>1 DEF DosSet
  <2>2. /\ IdFlag(g) => IdOf(g, qs[m].id) = IdOf(g, parts[m].id)
        /\ g = "hidden" => dos_type_id_is_hidden(qs[m].id) = dos_type_id_is_hidden(parts[m].id)
        /\ g = "lba" => dos_type_id_is_lba(qs[m].id) = dos_type_id_is_lba(parts[m].id)
    BY <1>4
  <2>3. QED
    BY <2>1, <2>2, SameFlag
<1>5. CASE qs[m].id # parts[m].id
  <2>1. m = n /\ f # "boot"
    BY <1>1, <1>5 DEF DosSet
  <2>2. qs[m].boot = parts[m].boot
    BY <1>1, <2>1 DEF DosSet
  <2>3. /\ parts[m].id < 31 /\ parts[m].id # 18 /\ qs[m].id < 31 /\ qs[m].id # 18 /\ qs[m].id \in 1 .. 255
        /\ g = "hidden" => dos_type_id_is_hidden(qs[m].id) = dos_type_id_is_hidden(parts[m].id)
        /\ g = "lba" => dos_type_id_is_lba(qs[m].id) = dos_type_id_is_lba(parts[m].id)
    <3>1. CASE f = "hidden" /\ dos_type_id_supports_hidden(parts[n].id)
      <4>1. qs[n].id = dos_type_id_set_hidden(parts[n].id, state)
        BY <1>1, <3>1 DEF DosSet
      <4>2. QED
        BY <1>2, <2>1, <3>1, <4>1, HiddenIs, SMTT(30)
    <3>2. CASE f = "lba" /\ dos_type_id_supports_lba(parts[n].id)
      <4>1. qs[n].id = dos_type_id_set_lba(parts[n].id, state)
        BY <1>1, <3>2 DEF DosSet
      <4>2. QED
        BY <1>2, <2>1, <3>2, <4>1, SetLbaIs
    <3>3. QED
      BY <1>3, <2>1, <3>1, <3>2, Available
  <2>4. IdFlag(g) => ~ IdOf(g, parts[m].id) /\ ~ IdOf(g, qs[m].id)
    BY <1>2, <2>3, IdMapping, SMTT(30) DEF IdFlag, IdOf
  <2>5. IdFlag(g) => IdOf(g, qs[m].id) = IdOf(g, parts[m].id)
    BY <2>4 DEF IdOf
  <2>6. QED
    BY <2>2, <2>3, <2>5, SameFlag
<1>6. QED
  BY <1>4, <1>5

(* The other flags of a GPT partition.                                     *)
LEMMA GptRestKept ==
    ASSUME NEW p \in GptPart, NEW f, NEW state \in BOOLEAN, f \in Independent \ {"boot"},
           gpt_partition_is_flag_available(f), NEW q, q = gpt_partition_set_flag(p, f, state), NEW g, g # f
    PROVE  gpt_partition_get_flag(q, g) = gpt_partition_get_flag(p, g)
<1>1. GptSet(p, q, f, state)
  BY GptSetFlagIs
<1>2. f \in Attributes
  BY DEF gpt_partition_is_flag_available, Independent, Attributes, flag_uuid_mapping
<1>3. q.id = p.id /\ (g \in q.attrs <=> g \in p.attrs)
  BY <1>1, <1>2 DEF GptSet
<1>4. QED
  BY <1>3 DEF gpt_partition_get_flag

(* Setting hidden, lba, boot or an attribute changes no other flag of any  *)
(* partition, though on a DOS label they share one byte with the type.     *)
THEOREM OtherFlagsKept == FlagSpec => KeepsRest
<1> DEFINE A == (last' # last /\ last'.num # 0 /\ last'.flag \in Independent /\ (label = "gpt" => last'.flag # "boot"))
                => \A n \in DOMAIN parts, f \in Flags \ {last'.flag} :
                      ped_partition_get_flag(parts'[n], f) = ped_partition_get_flag(parts[n], f)
<1>1. FlagInv /\ [FlagNext]_flag_vars => [A]_flag_vars
  <2> SUFFICES ASSUME FlagInv, FlagNext, last' # last, last'.num # 0, last'.flag \in Independent,
                      label = "gpt" => last'.flag # "boot",
                      NEW m \in DOMAIN parts, NEW g \in Flags \ {last'.flag}
               PROVE  ped_partition_get_flag(parts'[m], g) = ped_partition_get_flag(parts[m], g)
    OBVIOUS
  <2>1. PICK n \in DOMAIN parts, f \in Flags, state \in BOOLEAN : ped_partition_set_flag(n, f, state)
    <3>1. last' # NoRequest
      BY DEF NoRequest
    <3>2. /\ \A n, fs : ~ mkpart(n, fs) /\ ~ MakeFs(n, fs)
          /\ \A n, id : ~ msdos_partition_set_type_id(n, id)
          /\ ~ Reopen
      BY <3>1, Zenon DEF mkpart, MakeFs, msdos_partition_set_type_id, Reopen
    <3>3. QED
      BY <3>2, Zenon DEF FlagNext
  <2>2. last'.flag = f
    BY <2>1 DEF ped_partition_set_flag
  <2>3. CASE label = "gpt"
    <3>1. gpt_partition_is_flag_available(f)
      BY <2>1, <2>3 DEF ped_partition_set_flag, ped_partition_is_flag_available
    <3>2. PICK q : q = gpt_partition_set_flag(parts[n], f, state)
      OBVIOUS
    <3>3. parts' = [parts EXCEPT ![n] = q]
      BY <2>1, <2>3, <3>2, Zenon DEF ped_partition_set_flag
    <3>4. parts \in [DOMAIN parts -> GptPart] /\ parts[n] \in GptPart
      BY <2>3 DEF FlagInv, FlagTypes
    <3>5. gpt_partition_get_flag(q, g) = gpt_partition_get_flag(parts[n], g)
      BY <2>2, <2>3, <3>1, <3>2, <3>4, GptRestKept
    <3>6. parts'[m] = IF m = n THEN q ELSE parts[m]
      BY <3>3, <3>4
    <3>7. QED
      BY <2>3, <3>5, <3>6 DEF ped_partition_get_flag
  <2>4. CASE label = "msdos"
    <3>1. msdos_partition_is_flag_available(parts[n], f) /\ parts' = msdos_partition_set_flag(parts, n, f, state)
      BY <2>1, <2>4 DEF ped_partition_set_flag, ped_partition_is_flag_available
    <3>2. msdos_partition_get_flag(parts'[m], g) = msdos_partition_get_flag(parts[m], g)
      BY <2>2, <2>4, <3>1, DosRestKept DEF FlagInv
    <3>3. QED
      BY <2>4, <3>2 DEF ped_partition_get_flag
  <2>5. QED
    BY <2>3, <2>4 DEF FlagInv, FlagTypes
<1>2. QED
  BY <1>1, FlagInvHolds, PTL DEF FlagSpec, KeepsRest
=============================================================================
