-------------------------- MODULE GptCommitProofs --------------------------
(***************************************************************************)
(* The safety of a commit, and the refinement of TableStore, for arrays,   *)
(* devices and tables of any size.                                         *)
(*                                                                         *)
(* The properties speak of what gpt_read finds; a step changes one sector. *)
(* The invariant in between says how far the running commit is: which of   *)
(* its writes are on the device (HeaderOn, ArrayOn, BackupOn), and what    *)
(* the copy is that the reader falls back to meanwhile (Guarded).          *)
(***************************************************************************)
EXTENDS GptCommit, TLAPS

Slots == 0 .. Ptes - 1          \* of the array
Low == first + Ptes + 2         \* backup headers are at Low or beyond

(***************************************************************************)
(* The inductive invariant.                                                *)
(***************************************************************************)

(* Every header on a device of n sectors, also a stale one, says where it  *)
(* and its array are, and leaves the arrays out of what it calls usable.   *)
Placed(dv, n) ==
    /\ dv \in [0 .. MaxLen - 1 -> Sector]
    /\ dv[1].kind = "header" =>
          /\ dv[1].my = 1 /\ dv[1].ptes = 2
          /\ dv[1].alt \in Low .. n - 1
          /\ first <= dv[1].last /\ dv[1].last < dv[1].alt - Ptes
    /\ \A s \in (0 .. MaxLen - 1) \ {1} : dv[s].kind = "header" =>
          /\ s \in Low .. n - 1
          /\ dv[s].my = s /\ dv[s].alt = 1 /\ dv[s].ptes = s - Ptes
          /\ first <= dv[s].last /\ dv[s].last < s - Ptes

(* What a well-placed table in memory is: gpt_write keeps its sectors      *)
(* apart, on the device, and outside of what partitions may use.           *)
Fitting(m, n) ==
    /\ m \in MemDisk
    /\ m.alt \in Low .. n - 1
    /\ first <= m.last /\ m.last < m.alt - Ptes

(* Only a table that was read from a good primary, and not repaired, has   *)
(* its backup elsewhere than in the last sector.                           *)
MemPlaced ==
    /\ mem = NULL => next = 0
    /\ mem # NULL => Fitting(mem, len)
    /\ mem # NULL /\ mem.alt # len - 1 =>
          wipe = <<>> /\ dev[1].kind = "header" /\ dev[1].alt = mem.alt

(* A commit that clears anything found no second copy to rely on, or gives *)
(* it up: a new label, or a repair.                                        *)
WipePlaced ==
    /\ wipe \in Seq(0 .. len - 1)
    /\ wipe # <<>> => next = 1 /\ ~ base.sound
    /\ \A i \in 1 .. Len(wipe) : wipe[i] \notin first .. base.used

Bases ==
    [old : Tables \cup {NULL}, new : Tables \cup {NULL}, sound : BOOLEAN,
     used : Int, faults : {0, 1}, cut : BOOLEAN]

Accounts ==
    /\ base \in Bases
    /\ base.faults = 1 /\ ~ base.sound => base.new = NULL
    /\ base.faults = 0 \/ base.sound => base.new \in Tables
    /\ base.sound => base.old \in Tables
    /\ next # 0 /\ (base.faults = 0 \/ base.sound) => base.new = mem.table
    /\ next # 0 /\ base.sound => ~ base.cut

PrimaryHeader(m) == generate_header(m, FALSE)
BackupHeader(m) == generate_header(m, TRUE)

(* The writes of gpt_write(m) before the k-th are on the device. *)
HeaderOn(dv, m, k) == k > 2 => dv[1] = PrimaryHeader(m)
ArrayOn(dv, m, k) == \A i \in Slots : k > 3 + i => dv[2 + i] = Pte(m.table[i])
BackupOn(dv, m, k) ==
    /\ k > 3 + Ptes => dv[m.alt] = BackupHeader(m)
    /\ \A i \in Slots : k > 4 + Ptes + i => dv[m.alt - Ptes + i] = Pte(m.table[i])
AllOn(dv, m, k) ==
    (k > 1 => dv[0] = Pmbr) /\ HeaderOn(dv, m, k) /\ ArrayOn(dv, m, k) /\ BackupOn(dv, m, k)

(* A commit that met no fault has done everything so far. *)
Steady == next # 0 /\ base.faults = 0 => AllOn(dev, mem, next)

(* The array at the start is good for a header with table t; so is the one *)
(* before the header in sector s.                                          *)
ArrayIs(dv, t) == \A i \in Slots : dv[2 + i] = Pte(t[i])
CopyAt(dv, s, t) ==
    /\ dv[s].kind = "header" /\ dv[s].crc = t
    /\ \A i \in Slots : dv[s - Ptes + i] = Pte(t[i])

(* A sound commit that met no fault: the old primary is there until its    *)
(* header is replaced, and the old backup until the new primary is         *)
(* complete.                                                               *)
Covered ==
    /\ next <= 2 => dev[1].crc = base.old
    /\ next <= 3 => ArrayIs(dev, base.old)
    /\ next > 3 + Ptes \/ CopyAt(dev, len - 1, base.old)

(* After one lost write the primary, or the backup, is on its way to be    *)
(* complete; in the second case a primary that looks good holds the new    *)
(* table.                                                                  *)
Recovering ==
    \/ HeaderOn(dev, mem, next) /\ ArrayOn(dev, mem, next)
    \/ next > 2 /\ BackupOn(dev, mem, next) /\ (dev[1].crc = base.new \/ ArrayOn(dev, mem, next))

Guarded ==
    next # 0 /\ base.sound =>
        /\ dev[0] = Pmbr /\ dev[1].kind = "header" /\ mem.alt = len - 1
        /\ base.faults = 0 => Covered
        /\ base.faults = 1 => Recovering

(* Between commits: what the last one left. *)
Settled ==
    next = 0 =>
        /\ base.faults = 0 =>
              /\ dev[0] = Pmbr
              /\ dev[1].kind = "header" /\ dev[1].crc = base.new
              /\ ArrayIs(dev, base.new)
              /\ CopyAt(dev, dev[1].alt, base.new)
        /\ base.sound => Stored(dev, len) \in {base.old, base.new}
        /\ base.sound /\ ~ base.cut => Stored(dev, len) = base.new

IInv ==
    /\ len \in Len0 .. MaxLen /\ next \in 0 .. NWrites
    /\ Placed(dev, len)
    /\ MemPlaced
    /\ WipePlaced
    /\ Accounts
    /\ Steady
    /\ Guarded
    /\ Settled

(***************************************************************************)
(* Sectors and writes.                                                     *)
(***************************************************************************)

(* The sizes are natural numbers and a device is long enough. *)
LEMMA Sizes ==
    /\ Ptes \in Nat /\ Ptes > 0 /\ Len0 \in Nat /\ MaxLen \in Nat /\ Len0 <= MaxLen
    /\ first = 2 + Ptes /\ Low = 4 + 2 * Ptes /\ Low < Len0
    /\ NWrites = 3 + 2 * Ptes
  BY GptCommitAssumption DEF first, Low, NWrites

(* The kinds of sectors are told apart, and so is what an array holds. *)
LEMMA Kinds ==
    /\ Zero \in Sector /\ Zero.kind # "header"
    /\ Pmbr \in Sector /\ Pmbr.kind # "header"
    /\ \A c \in Chunks : Pte(c) \in Sector /\ Pte(c).kind # "header"
    /\ \A c, d \in Chunks : Pte(c) = Pte(d) => c = d
<1>1. \A c, d \in Chunks : Pte(c) = Pte(d) => c = d
  <2> TAKE c, d \in Chunks
  <2>1. Pte(c).chunk = c /\ Pte(d).chunk = d
    BY DEF Pte
  <2>2. QED
    BY <2>1
<1>2. \A c \in Chunks : Pte(c) \in Sector /\ Pte(c).kind # "header"
  BY DEF Pte, Sector
<1>3. QED
  BY <1>1, <1>2 DEF Zero, Pmbr, Sector

(* The headers of a well-placed table. *)
LEMMA Headers ==
    ASSUME NEW n \in Len0 .. MaxLen, NEW m, Fitting(m, n)
    PROVE  LET p == PrimaryHeader(m)
               b == BackupHeader(m)
           IN  /\ p \in Sector /\ p.kind = "header" /\ p.my = 1 /\ p.alt = m.alt
               /\ p.ptes = 2 /\ p.last = m.last /\ p.crc = m.table
               /\ b \in Sector /\ b.kind = "header" /\ b.my = m.alt /\ b.alt = 1
               /\ b.ptes = m.alt - Ptes /\ b.last = m.last /\ b.crc = m.table
<1>1. /\ m.table \in Tables /\ m.alt \in Int /\ m.last \in Int
      /\ m.alt - Ptes \in Int
  BY Sizes DEF Fitting, MemDisk
<1>2. QED
  BY <1>1 DEF PrimaryHeader, BackupHeader, generate_header, Header, Sector

(* The writes of gpt_write, one by one. *)
LEMMA Writes ==
    ASSUME NEW m \in MemDisk
    PROVE  /\ gpt_write(m)[1] = Put(0, Pmbr)
           /\ gpt_write(m)[2] = Put(1, PrimaryHeader(m))
           /\ \A i \in Slots : gpt_write(m)[3 + i] = Put(2 + i, Pte(m.table[i]))
           /\ gpt_write(m)[3 + Ptes] = Put(m.alt, BackupHeader(m))
           /\ \A i \in Slots : gpt_write(m)[4 + Ptes + i]
                                  = Put(m.alt - Ptes + i, Pte(m.table[i]))
<1> DEFINE W(k) ==
        CASE k = 1 -> Put(0, Pmbr)
          [] k = 2 -> Put(1, PrimaryHeader(m))
          [] k \in 3 .. 2 + Ptes -> Put(2 + k - 3, Pte(m.table[k - 3]))
          [] k = 3 + Ptes -> Put(m.alt, BackupHeader(m))
          [] OTHER -> Put(m.alt - Ptes + k - (4 + Ptes), Pte(m.table[k - (4 + Ptes)]))
<1>1. \A k \in 1 .. NWrites : gpt_write(m)[k] = W(k)
  BY DEF gpt_write, PrimaryHeader, BackupHeader
<1> m.alt \in Int
  BY DEF MemDisk
<1>2. /\ 1 \in 1 .. NWrites /\ 2 \in 1 .. NWrites /\ 3 + Ptes \in 1 .. NWrites
      /\ \A i \in Slots : 3 + i \in 1 .. NWrites /\ 4 + Ptes + i \in 1 .. NWrites
  BY Sizes DEF Slots
<1>3. W(1) = Put(0, Pmbr) /\ W(2) = Put(1, PrimaryHeader(m))
  BY Sizes DEF Put
<1>4. W(3 + Ptes) = Put(m.alt, BackupHeader(m))
  BY Sizes
<1>5. ASSUME NEW i \in Slots
      PROVE  /\ W(3 + i) = Put(2 + i, Pte(m.table[i]))
             /\ W(4 + Ptes + i) = Put(m.alt - Ptes + i, Pte(m.table[i]))
  <2>1. /\ 3 + i # 1 /\ 3 + i # 2 /\ 3 + i \in 3 .. 2 + Ptes
        /\ 2 + (3 + i) - 3 = 2 + i /\ (3 + i) - 3 = i
    BY Sizes DEF Slots
  <2>2. /\ 4 + Ptes + i # 1 /\ 4 + Ptes + i # 2 /\ 4 + Ptes + i \notin 3 .. 2 + Ptes
        /\ 4 + Ptes + i # 3 + Ptes
        /\ (4 + Ptes + i) - (4 + Ptes) = i
    BY Sizes DEF Slots
  <2>3. W(3 + i) = Put(2 + i, Pte(m.table[i]))
    BY <2>1, Sizes DEF Put, Slots
  <2>4. W(4 + Ptes + i) = Put(m.alt - Ptes + i, Pte(m.table[i]))
    BY <2>2, Sizes DEF Slots
  <2>5. QED
    BY <2>3, <2>4
<1> HIDE DEF W
<1>6. QED
  BY <1>1, <1>2, <1>3, <1>4, <1>5

(* Every index of gpt_write is one of these. *)
LEMMA Indices ==
    ASSUME NEW k \in 1 .. NWrites
    PROVE  \/ k = 1 \/ k = 2 \/ k = 3 + Ptes
           \/ \E i \in Slots : k = 3 + i
           \/ \E i \in Slots : k = 4 + Ptes + i
<1>1. CASE k \in 3 .. 2 + Ptes
  <2>1. k - 3 \in Slots /\ k = 3 + (k - 3)
    BY <1>1, Sizes DEF Slots
  <2>2. QED
    BY <2>1
<1>2. CASE k > 3 + Ptes
  <2>1. k - (4 + Ptes) \in Slots /\ k = 4 + Ptes + (k - (4 + Ptes))
    BY <1>2, Sizes DEF Slots
  <2>2. QED
    BY <2>1
<1>3. QED
  BY <1>1, <1>2, Sizes

(***************************************************************************)
(* Reading.                                                                *)
(***************************************************************************)

(* What a header holds. *)
LEMMA HeaderFields ==
    ASSUME NEW x \in Sector, x.kind = "header"
    PROVE  /\ x.crc \in Tables /\ x # NULL
           /\ x.my \in Int /\ x.alt \in Int /\ x.ptes \in Int /\ x.last \in Int
  BY NullAssumption DEF Sector, Zero, Pmbr

(* The primary is good when the array at the start is that of its header. *)
LEMMA PrimaryIff ==
    ASSUME NEW n \in Len0 .. MaxLen, NEW dv, Placed(dv, n)
    PROVE  Primary(dv) <=> dv[1].kind = "header" /\ ArrayIs(dv, dv[1].crc)
<1>1. CASE dv[1].kind = "header"
  <2>1. /\ dv[1].my = 1 /\ dv[1].ptes = 2 /\ dv[1].alt # 1 /\ first <= dv[1].last
    BY <1>1, Sizes DEF Placed
  <2>2. check_PE_array_CRC(dv, dv[1]) <=> ArrayIs(dv, dv[1].crc)
    BY <2>1 DEF check_PE_array_CRC, ArrayIs, Slots
  <2>3. QED
    BY <1>1, <2>1, <2>2 DEF Primary, header_is_valid
<1>2. QED
  BY <1>1 DEF Primary, header_is_valid

(* A header further on is good when the array before it is. *)
LEMMA CopyIff ==
    ASSUME NEW n \in Len0 .. MaxLen, NEW dv, Placed(dv, n), NEW s \in Low .. MaxLen - 1
    PROVE  header_is_valid(dv, s) <=> CopyAt(dv, s, dv[s].crc)
<1>1. s \in (0 .. MaxLen - 1) \ {1}
  BY Sizes
<1>2. CASE dv[s].kind = "header"
  <2>1. /\ dv[s].my = s /\ dv[s].ptes = s - Ptes /\ dv[s].alt = 1 /\ first <= dv[s].last
    BY <1>1, <1>2 DEF Placed
  <2>2. check_PE_array_CRC(dv, dv[s]) <=> \A i \in Slots : dv[s - Ptes + i] = Pte(dv[s].crc[i])
    BY <2>1 DEF check_PE_array_CRC, Slots
  <2>3. QED
    BY <1>1, <1>2, <2>1, <2>2 DEF header_is_valid, CopyAt
<1>3. QED
  BY <1>2 DEF header_is_valid, CopyAt

(* gpt_read believes a good primary. *)
LEMMA StoredPrimary ==
    ASSUME NEW n \in Len0 .. MaxLen, NEW dv, Placed(dv, n),
           dv[0] = Pmbr, dv[1].kind = "header", ArrayIs(dv, dv[1].crc)
    PROVE  /\ Primary(dv) /\ Chosen(dv, n) = dv[1]
           /\ Stored(dv, n) = dv[1].crc /\ Stored(dv, n) \in Tables
<1>1. Primary(dv) /\ gpt_probe(dv)
  BY PrimaryIff DEF gpt_probe
<1>2. dv[1] \in Sector
  BY Sizes DEF Placed
<1>3. Chosen(dv, n) = dv[1]
  BY <1>1 DEF Chosen
<1>4. QED
  BY <1>1, <1>2, <1>3, HeaderFields DEF Stored

(* Without one it believes a good backup in the last sector. *)
LEMMA StoredBackup ==
    ASSUME NEW n \in Len0 .. MaxLen, NEW dv, Placed(dv, n), NEW t,
           dv[0] = Pmbr, dv[1].kind = "header", ~ ArrayIs(dv, dv[1].crc),
           CopyAt(dv, n - 1, t)
    PROVE  Stored(dv, n) = t /\ t \in Tables
<1>1. ~ Primary(dv) /\ gpt_probe(dv)
  BY PrimaryIff DEF gpt_probe
<1>2. n - 1 \in Low .. MaxLen - 1 /\ n - 1 \in 0 .. MaxLen - 1
  BY Sizes
<1>3. dv[n - 1].kind = "header" /\ dv[n - 1].crc = t /\ dv[n - 1] \in Sector
  BY <1>2 DEF CopyAt, Placed
<1>4. Backup(dv, n)
  BY <1>1, <1>2, <1>3, CopyIff DEF Backup, AlternateLBA
<1>5. Chosen(dv, n) = dv[n - 1]
  BY <1>1, <1>4 DEF Chosen
<1>6. QED
  BY <1>3, <1>5, HeaderFields DEF Stored

(* Conversely, what gpt_read believes is one of the two. *)
LEMMA ChosenIs ==
    ASSUME NEW n \in Len0 .. MaxLen, NEW dv, Placed(dv, n), Chosen(dv, n) # NULL
    PROVE  /\ dv[0] = Pmbr /\ dv[1].kind = "header"
           /\ \/ /\ Primary(dv) /\ Chosen(dv, n) = dv[1] /\ ArrayIs(dv, dv[1].crc)
                 /\ AlternateLBA(dv, n) = dv[1].alt
              \/ /\ ~ Primary(dv) /\ Chosen(dv, n) = dv[n - 1] /\ dv[n - 1].kind = "header"
                 /\ AlternateLBA(dv, n) = n - 1
<1>1. gpt_probe(dv) /\ (Primary(dv) \/ Backup(dv, n))
  BY DEF Chosen
<1>2. CASE Primary(dv)
  <2>1. Chosen(dv, n) = dv[1]
    BY <1>1, <1>2 DEF Chosen
  <2>2. QED
    BY <1>1, <1>2, <2>1, PrimaryIff DEF gpt_probe, AlternateLBA
<1>3. CASE ~ Primary(dv)
  <2>1. Chosen(dv, n) = dv[n - 1] /\ Backup(dv, n)
    BY <1>1, <1>3 DEF Chosen
  <2>2. AlternateLBA(dv, n) = n - 1
    BY <1>3 DEF AlternateLBA
  <2>3. QED
    BY <1>1, <1>3, <2>1, <2>2 DEF gpt_probe, Backup, header_is_valid
<1>4. QED
  BY <1>2, <1>3

(* What a redundant device holds. *)
LEMMA RedundantIs ==
    ASSUME NEW n \in Len0 .. MaxLen, NEW dv, Placed(dv, n), Redundant(dv, n)
    PROVE  /\ dv[0] = Pmbr /\ dv[1].kind = "header" /\ dv[1].alt = n - 1
           /\ ArrayIs(dv, dv[1].crc) /\ CopyAt(dv, n - 1, dv[1].crc)
           /\ Stored(dv, n) = dv[1].crc /\ dv[1].crc \in Tables
<1>1. dv[0] = Pmbr /\ dv[1].kind = "header" /\ ArrayIs(dv, dv[1].crc)
  BY PrimaryIff DEF Redundant, gpt_probe
<1>2. n - 1 \in Low .. MaxLen - 1 /\ header_is_valid(dv, n - 1)
  BY Sizes DEF Redundant, Backup, AlternateLBA
<1>3. CopyAt(dv, n - 1, dv[1].crc)
  BY <1>2, CopyIff DEF Redundant
<1>4. QED
  BY <1>1, <1>3, StoredPrimary DEF Redundant

(***************************************************************************)
(* Writing.                                                                *)
(***************************************************************************)

(* Where the k-th write of gpt_write goes and what it puts there. *)
LEMMA WriteCases ==
    ASSUME NEW n \in Len0 .. MaxLen, NEW m, Fitting(m, n), NEW k \in 1 .. NWrites,
           NEW p, p = gpt_write(m)[k].at, NEW v, v = gpt_write(m)[k].what
    PROVE  \/ k = 1 /\ p = 0 /\ v = Pmbr
           \/ k = 2 /\ p = 1 /\ v = PrimaryHeader(m)
           \/ \E i \in Slots : k = 3 + i /\ p = 2 + i /\ v = Pte(m.table[i])
           \/ k = 3 + Ptes /\ p = m.alt /\ v = BackupHeader(m)
           \/ \E i \in Slots : k = 4 + Ptes + i /\ p = m.alt - Ptes + i /\ v = Pte(m.table[i])
<1>1. m \in MemDisk
  BY DEF Fitting
<1>2. \A a, b : Put(a, b).at = a /\ Put(a, b).what = b
  BY DEF Put
<1>3. k = 1 => p = 0 /\ v = Pmbr
  BY <1>1, <1>2, Writes
<1>4. k = 2 => p = 1 /\ v = PrimaryHeader(m)
  BY <1>1, <1>2, Writes
<1>5. k = 3 + Ptes => p = m.alt /\ v = BackupHeader(m)
  BY <1>1, <1>2, Writes
<1>6. ASSUME NEW i \in Slots, k = 3 + i PROVE p = 2 + i /\ v = Pte(m.table[i])
  <2>1. gpt_write(m)[k] = Put(2 + i, Pte(m.table[i]))
    BY <1>1, <1>6, Writes
  <2>2. QED
    BY <2>1, <1>2
<1>7. ASSUME NEW i \in Slots, k = 4 + Ptes + i
      PROVE p = m.alt - Ptes + i /\ v = Pte(m.table[i])
  <2>1. gpt_write(m)[k] = Put(m.alt - Ptes + i, Pte(m.table[i]))
    BY <1>1, <1>7, Writes
  <2>2. QED
    BY <2>1, <1>2
<1>8. QED
  BY <1>3, <1>4, <1>5, <1>6, <1>7, Indices

(* What one sector more of gpt_write does to a device. *)
Effect(dv, m, k, dw) ==
    /\ dv[0] = Pmbr \/ k = 1 => dw[0] = Pmbr
    /\ dw[1] = IF k = 2 THEN PrimaryHeader(m) ELSE dv[1]
    /\ \A i \in Slots : dw[2 + i] = IF k = 3 + i THEN Pte(m.table[i]) ELSE dv[2 + i]
    /\ k <= 2 + Ptes => \A s \in 2 + Ptes .. MaxLen - 1 : dw[s] = dv[s]
    /\ BackupOn(dv, m, k) => BackupOn(dw, m, k + 1)

(* A device stays well-placed and changes in one place. *)
LEMMA OneWrite ==
    ASSUME NEW n \in Len0 .. MaxLen, NEW dv, Placed(dv, n), NEW m, Fitting(m, n),
           NEW k \in 1 .. NWrites, NEW dw,
           dw = [dv EXCEPT ![gpt_write(m)[k].at] = gpt_write(m)[k].what]
    PROVE  Placed(dw, n) /\ Effect(dv, m, k, dw)
<1> DEFINE p == gpt_write(m)[k].at
           v == gpt_write(m)[k].what
<1>1. /\ m.alt \in Low .. n - 1 /\ m.alt \in Int /\ m.last \in Int
      /\ \A i \in Slots : m.table[i] \in Chunks /\ i \in Nat /\ i < Ptes
  BY Sizes DEF Fitting, MemDisk, Tables, Slots
<1>2. \/ k = 1 /\ p = 0 /\ v = Pmbr
      \/ k = 2 /\ p = 1 /\ v = PrimaryHeader(m)
      \/ \E i \in Slots : k = 3 + i /\ p = 2 + i /\ v = Pte(m.table[i])
      \/ k = 3 + Ptes /\ p = m.alt /\ v = BackupHeader(m)
      \/ \E i \in Slots : k = 4 + Ptes + i /\ p = m.alt - Ptes + i /\ v = Pte(m.table[i])
  BY WriteCases
<1>3. /\ p \in 0 .. n - 1 /\ p \in 0 .. MaxLen - 1 /\ v \in Sector
      /\ v.kind = "header" =>
            \/ p = 1 /\ v = PrimaryHeader(m)
            \/ p = m.alt /\ v = BackupHeader(m)
  <2> HIDE DEF p, v
  <2>1. CASE k = 1 /\ p = 0 /\ v = Pmbr
    BY <2>1, Sizes, Kinds
  <2>2. CASE k = 2 /\ p = 1 /\ v = PrimaryHeader(m)
    BY <2>2, Sizes, Headers
  <2>3. ASSUME NEW i \in Slots, p = 2 + i \/ p = m.alt - Ptes + i, v = Pte(m.table[i])
        PROVE  p \in 0 .. n - 1 /\ p \in 0 .. MaxLen - 1 /\ v \in Sector /\ v.kind # "header"
    BY <2>3, <1>1, Sizes, Kinds
  <2>4. CASE k = 3 + Ptes /\ p = m.alt /\ v = BackupHeader(m)
    BY <2>4, <1>1, Sizes, Headers
  <2>5. QED
    BY <1>2, <2>1, <2>2, <2>3, <2>4
<1>4. /\ dw \in [0 .. MaxLen - 1 -> Sector]
      /\ \A s \in 0 .. MaxLen - 1 : dw[s] = IF s = p THEN v ELSE dv[s]
  BY <1>3, Sizes DEF Placed
<1> HIDE DEF p, v
<1>5. Placed(dw, n)
  <2>1. ASSUME dw[1].kind = "header"
        PROVE  /\ dw[1].my = 1 /\ dw[1].ptes = 2
               /\ dw[1].alt \in Low .. n - 1
               /\ first <= dw[1].last /\ dw[1].last < dw[1].alt - Ptes
    <3>1. CASE p = 1
      <4>1. p # m.alt /\ 1 \in 0 .. MaxLen - 1
        BY <1>1, <3>1, Sizes
      <4>2. dw[1] = PrimaryHeader(m)
        BY <1>3, <1>4, <2>1, <3>1, <4>1
      <4>3. QED
        BY <1>1, <4>2, Headers DEF Fitting
    <3>2. CASE p # 1
      <4>1. 1 \in 0 .. MaxLen - 1
        BY Sizes
      <4>2. dw[1] = dv[1]
        BY <1>4, <3>2, <4>1
      <4>3. QED
        BY <2>1, <4>2 DEF Placed
    <3>3. QED
      BY <3>1, <3>2
  <2>2. ASSUME NEW s \in (0 .. MaxLen - 1) \ {1}, dw[s].kind = "header"
        PROVE  /\ s \in Low .. n - 1
               /\ dw[s].my = s /\ dw[s].alt = 1 /\ dw[s].ptes = s - Ptes
               /\ first <= dw[s].last /\ dw[s].last < s - Ptes
    <3>1. CASE p = s
      <4>1. s = m.alt /\ dw[s] = BackupHeader(m)
        BY <1>1, <1>3, <1>4, <2>2, <3>1, Sizes
      <4>2. QED
        BY <1>1, <4>1, Headers DEF Fitting
    <3>2. CASE p # s
      BY <1>4, <2>2, <3>2, Sizes DEF Placed
    <3>3. QED
      BY <3>1, <3>2
  <2>3. QED
    BY <1>4, <2>1, <2>2 DEF Placed
<1>6. /\ k = 1 <=> p = 0
      /\ k = 2 <=> p = 1
      /\ \A i \in Slots : k = 3 + i <=> p = 2 + i
      /\ k <= 2 + Ptes <=> p < 2 + Ptes
      /\ k = 3 + Ptes <=> p = m.alt
      /\ \A i \in Slots : k = 4 + Ptes + i <=> p = m.alt - Ptes + i
      /\ k = 1 => v = Pmbr
      /\ k = 2 => v = PrimaryHeader(m)
      /\ \A i \in Slots : k = 3 + i \/ k = 4 + Ptes + i => v = Pte(m.table[i])
      /\ k = 3 + Ptes => v = BackupHeader(m)
  <2>1. CASE k \in {1, 2, 3 + Ptes}
    BY <2>1, <1>1, <1>2, Sizes
  <2>2. CASE \E i \in Slots : k = 3 + i /\ p = 2 + i /\ v = Pte(m.table[i])
    BY <2>2, <1>1, Sizes
  <2>3. CASE \E i \in Slots : k = 4 + Ptes + i /\ p = m.alt - Ptes + i /\ v = Pte(m.table[i])
    BY <2>3, <1>1, Sizes
  <2>4. QED
    BY <1>2, <2>1, <2>2, <2>3
<1>7. dv[0] = Pmbr \/ k = 1 => dw[0] = Pmbr
  <2>1. 0 \in 0 .. MaxLen - 1
    BY Sizes
  <2>2. (k = 1 <=> p = 0) /\ (k = 1 => v = Pmbr)
    BY <1>6
  <2> HIDE DEF p, v
  <2>3. QED
    BY <2>1, <2>2, <1>4
<1>8. dw[1] = IF k = 2 THEN PrimaryHeader(m) ELSE dv[1]
  <2>1. 1 \in 0 .. MaxLen - 1
    BY Sizes
  <2>2. (k = 2 <=> p = 1) /\ (k = 2 => v = PrimaryHeader(m))
    BY <1>6
  <2> HIDE DEF p, v
  <2>3. QED
    BY <2>1, <2>2, <1>4
<1>9. ASSUME NEW i \in Slots
      PROVE  dw[2 + i] = IF k = 3 + i THEN Pte(m.table[i]) ELSE dv[2 + i]
  <2>1. 2 + i \in 0 .. MaxLen - 1
    BY <1>1, Sizes
  <2>2. QED
    BY <2>1, <1>4, <1>6
<1>10. ASSUME k <= 2 + Ptes, NEW s \in 2 + Ptes .. MaxLen - 1 PROVE dw[s] = dv[s]
  BY <1>4, <1>6, <1>10, Sizes
<1>11. ASSUME BackupOn(dv, m, k) PROVE BackupOn(dw, m, k + 1)
  <2>1. ASSUME k + 1 > 3 + Ptes PROVE dw[m.alt] = BackupHeader(m)
    <3>1. m.alt \in 0 .. MaxLen - 1 /\ (k = 3 + Ptes \/ k > 3 + Ptes)
      BY <1>1, <2>1, Sizes
    <3>2. QED
      BY <3>1, <1>4, <1>6, <1>11 DEF BackupOn
  <2>2. ASSUME NEW i \in Slots, k + 1 > 4 + Ptes + i
        PROVE  dw[m.alt - Ptes + i] = Pte(m.table[i])
    <3>1. m.alt - Ptes + i \in 0 .. MaxLen - 1 /\ (k = 4 + Ptes + i \/ k > 4 + Ptes + i)
      BY <1>1, <2>2, Sizes
    <3>2. QED
      BY <3>1, <1>4, <1>6, <1>11 DEF BackupOn
  <2>3. QED
    BY <2>1, <2>2 DEF BackupOn
<1>12. QED
  BY <1>5, <1>7, <1>8, <1>9, <1>10, <1>11 DEF Effect

(* So the part of the writes that is done grows by one. *)
LEMMA OnMore ==
    ASSUME NEW n \in Len0 .. MaxLen, NEW dv, Placed(dv, n), NEW m, Fitting(m, n),
           NEW k \in 1 .. NWrites, NEW dw,
           dw = [dv EXCEPT ![gpt_write(m)[k].at] = gpt_write(m)[k].what]
    PROVE  /\ HeaderOn(dv, m, k) => HeaderOn(dw, m, k + 1)
           /\ ArrayOn(dv, m, k) => ArrayOn(dw, m, k + 1)
           /\ AllOn(dv, m, k) => AllOn(dw, m, k + 1)
<1> k \in Int
  BY Sizes
<1>1. Effect(dv, m, k, dw)
  BY OneWrite
<1>2. HeaderOn(dv, m, k) => HeaderOn(dw, m, k + 1)
  BY <1>1 DEF HeaderOn, Effect
<1>3. ArrayOn(dv, m, k) => ArrayOn(dw, m, k + 1)
  <2> SUFFICES ASSUME ArrayOn(dv, m, k), NEW i \in Slots, k + 1 > 3 + i
               PROVE  dw[2 + i] = Pte(m.table[i])
    BY DEF ArrayOn
  <2>1. dw[2 + i] = IF k = 3 + i THEN Pte(m.table[i]) ELSE dv[2 + i]
    BY <1>1 DEF Effect
  <2>2. k = 3 + i \/ k > 3 + i
    BY Sizes DEF Slots
  <2>3. QED
    BY <2>1, <2>2 DEF ArrayOn
<1>4. BackupOn(dv, m, k) => BackupOn(dw, m, k + 1)
  BY <1>1 DEF Effect
<1>5. QED
  BY <1>1, <1>2, <1>3, <1>4 DEF AllOn, Effect

(* When all writes are done both copies are good. *)
LEMMA AllDone ==
    ASSUME NEW n \in Len0 .. MaxLen, NEW dv, NEW m, Fitting(m, n)
    PROVE  /\ HeaderOn(dv, m, NWrites + 1) =>
                 dv[1].kind = "header" /\ dv[1].crc = m.table /\ dv[1].alt = m.alt
           /\ ArrayOn(dv, m, NWrites + 1) => ArrayIs(dv, m.table)
           /\ BackupOn(dv, m, NWrites + 1) => CopyAt(dv, m.alt, m.table)
<1>1. /\ NWrites + 1 > 2 /\ NWrites + 1 > 3 + Ptes
      /\ \A i \in Slots : NWrites + 1 > 3 + i /\ NWrites + 1 > 4 + Ptes + i
  BY Sizes DEF Slots
<1>2. QED
  BY <1>1, Headers DEF HeaderOn, ArrayOn, BackupOn, ArrayIs, CopyAt

(* No two writes go to the same sector. *)
LEMMA WritesApart ==
    ASSUME NEW n \in Len0 .. MaxLen, NEW m, Fitting(m, n),
           NEW k \in 1 .. NWrites, NEW l \in 1 .. NWrites,
           gpt_write(m)[k].at = gpt_write(m)[l].at
    PROVE  k = l
<1> DEFINE p == gpt_write(m)[k].at
           q == gpt_write(m)[l].at
<1>1. m.alt \in Low .. n - 1 /\ m.alt \in Int
  BY Sizes DEF Fitting, MemDisk
<1>2. \/ k = 1 /\ p = 0
      \/ k = 2 /\ p = 1
      \/ \E i \in Slots : k = 3 + i /\ p = 2 + i
      \/ k = 3 + Ptes /\ p = m.alt
      \/ \E i \in Slots : k = 4 + Ptes + i /\ p = m.alt - Ptes + i
  BY WriteCases
<1>3. \/ l = 1 /\ q = 0
      \/ l = 2 /\ q = 1
      \/ \E i \in Slots : l = 3 + i /\ q = 2 + i
      \/ l = 3 + Ptes /\ q = m.alt
      \/ \E i \in Slots : l = 4 + Ptes + i /\ q = m.alt - Ptes + i
  BY WriteCases
<1>4. p = q
  OBVIOUS
<1> HIDE DEF p, q
<1>5. QED
  BY <1>1, <1>2, <1>3, <1>4, Sizes DEF Slots

(***************************************************************************)
(* The initial states: a complete table.                                   *)
(***************************************************************************)
LEMMA InitIInv == Init => IInv
<1> SUFFICES ASSUME Init PROVE IInv
  OBVIOUS
<1>1. PICK t \in Tables, alt \in first + Ptes + 2 .. Len0 - 1, last \in first + 1 .. Len0 - 1 :
        LET m == [table |-> t, alt |-> alt, last |-> last]
        IN  /\ last < alt - Ptes
            /\ dev = [s \in 0 .. MaxLen - 1 |->
                        IF \E k \in 1 .. NWrites : gpt_write(m)[k].at = s
                        THEN gpt_write(m)[CHOOSE k \in 1 .. NWrites :
                                            gpt_write(m)[k].at = s].what
                        ELSE Zero]
            /\ len = Len0
            /\ mem = NULL
            /\ wipe = <<>> /\ next = 0
            /\ base = Base(NULL, t, FALSE, last)
  BY DEF Init
<1> DEFINE m == [table |-> t, alt |-> alt, last |-> last]
           at(k) == gpt_write(m)[k].at
           what(k) == gpt_write(m)[k].what
<1>2. Len0 \in Len0 .. MaxLen /\ Fitting(m, Len0) /\ m.alt = alt /\ m.table = t
      /\ m.alt \in Low .. Len0 - 1 /\ len = Len0
  BY <1>1, Sizes DEF Fitting, MemDisk, Low
<1>3. dev = [s \in 0 .. MaxLen - 1 |->
                IF \E k \in 1 .. NWrites : at(k) = s
                THEN what(CHOOSE k \in 1 .. NWrites : at(k) = s) ELSE Zero]
  BY <1>1
<1>4. \A k, l \in 1 .. NWrites : at(k) = at(l) => k = l
  BY <1>2, WritesApart
<1>5. \A k \in 1 .. NWrites :
         \/ k = 1 /\ at(k) = 0 /\ what(k) = Pmbr
         \/ k = 2 /\ at(k) = 1 /\ what(k) = PrimaryHeader(m)
         \/ \E i \in Slots : k = 3 + i /\ at(k) = 2 + i /\ what(k) = Pte(m.table[i])
         \/ k = 3 + Ptes /\ at(k) = m.alt /\ what(k) = BackupHeader(m)
         \/ \E i \in Slots : k = 4 + Ptes + i /\ at(k) = m.alt - Ptes + i
                                               /\ what(k) = Pte(m.table[i])
  BY <1>2, WriteCases
<1>6. \A i \in Slots : m.table[i] \in Chunks /\ i \in Nat /\ i < Ptes
  BY <1>2, Sizes DEF Slots, Tables
<1> HIDE DEF m, at, what
<1>7. \A k \in 1 .. NWrites : at(k) \in 0 .. MaxLen - 1 => dev[at(k)] = what(k)
  BY <1>3, <1>4
<1>8. /\ dev[0] = Pmbr /\ dev[1] = PrimaryHeader(m)
      /\ \A i \in Slots : dev[2 + i] = Pte(m.table[i])
      /\ dev[m.alt] = BackupHeader(m)
      /\ \A i \in Slots : dev[m.alt - Ptes + i] = Pte(m.table[i])
  <2>1. dev[0] = Pmbr
    <3>1. 1 \in 1 .. NWrites /\ at(1) = 0 /\ what(1) = Pmbr /\ 0 \in 0 .. MaxLen - 1
      BY <1>5, <1>6, Sizes
    <3>2. QED
      BY <3>1, <1>7
  <2>2. dev[1] = PrimaryHeader(m)
    <3>1. 2 \in 1 .. NWrites /\ at(2) = 1 /\ what(2) = PrimaryHeader(m) /\ 1 \in 0 .. MaxLen - 1
      BY <1>5, <1>6, Sizes
    <3>2. QED
      BY <3>1, <1>7
  <2>3. ASSUME NEW i \in Slots PROVE dev[2 + i] = Pte(m.table[i])
    <3>1. /\ 3 + i \in 1 .. NWrites /\ at(3 + i) = 2 + i /\ what(3 + i) = Pte(m.table[i])
          /\ 2 + i \in 0 .. MaxLen - 1
      BY <1>5, <1>6, Sizes
    <3>2. QED
      BY <3>1, <1>7
  <2>4. dev[m.alt] = BackupHeader(m)
    <3>1. /\ 3 + Ptes \in 1 .. NWrites /\ at(3 + Ptes) = m.alt /\ what(3 + Ptes) = BackupHeader(m)
          /\ m.alt \in 0 .. MaxLen - 1
      BY <1>2, <1>5, <1>6, Sizes
    <3>2. QED
      BY <3>1, <1>7
  <2>5. ASSUME NEW i \in Slots PROVE dev[m.alt - Ptes + i] = Pte(m.table[i])
    <3>1. /\ 4 + Ptes + i \in 1 .. NWrites /\ at(4 + Ptes + i) = m.alt - Ptes + i
          /\ what(4 + Ptes + i) = Pte(m.table[i]) /\ m.alt - Ptes + i \in 0 .. MaxLen - 1
      BY <1>2, <1>5, <1>6, Sizes
    <3>2. QED
      BY <3>1, <1>7
  <2>6. QED
    BY <2>1, <2>2, <2>3, <2>4, <2>5
<1>9. \A s \in 0 .. MaxLen - 1 :
         \/ dev[s] = Zero
         \/ \E k \in 1 .. NWrites : at(k) = s /\ dev[s] = what(k)
  BY <1>3
<1>10. \A k \in 1 .. NWrites : what(k) \in Sector
          /\ (what(k).kind = "header" => at(k) = 1 \/ at(k) = m.alt)
  BY <1>2, <1>5, <1>6, Kinds, Headers
<1>11. Placed(dev, len)
  <2>1. dev \in [0 .. MaxLen - 1 -> Sector]
    <3>1. \A s \in 0 .. MaxLen - 1 : dev[s] \in Sector
      BY <1>9, <1>10, Kinds
    <3>2. QED
      BY <3>1, <1>3
  <2>2. /\ dev[1].my = 1 /\ dev[1].ptes = 2 /\ dev[1].alt \in Low .. len - 1
        /\ first <= dev[1].last /\ dev[1].last < dev[1].alt - Ptes
    <3>1. /\ PrimaryHeader(m).my = 1 /\ PrimaryHeader(m).ptes = 2
          /\ PrimaryHeader(m).alt = m.alt /\ PrimaryHeader(m).last = m.last
      BY <1>2, Headers
    <3>2. QED
      BY <1>2, <1>8, <3>1 DEF Fitting
  <2>3. ASSUME NEW s \in (0 .. MaxLen - 1) \ {1}, dev[s].kind = "header"
        PROVE  /\ s \in Low .. len - 1
               /\ dev[s].my = s /\ dev[s].alt = 1 /\ dev[s].ptes = s - Ptes
               /\ first <= dev[s].last /\ dev[s].last < s - Ptes
    <3>1. s = m.alt
      BY <1>9, <1>10, <2>3, Kinds
    <3>2. QED
      BY <1>1, <1>2, <1>8, <3>1, Headers, SMTT(30) DEF Fitting
  <2>4. QED
    BY <2>1, <2>2, <2>3 DEF Placed
<1>12. /\ dev[1].kind = "header" /\ dev[1].crc = t /\ dev[1].alt = m.alt
       /\ ArrayIs(dev, t) /\ CopyAt(dev, m.alt, t)
  <2>1. /\ PrimaryHeader(m).kind = "header" /\ PrimaryHeader(m).crc = t
        /\ PrimaryHeader(m).alt = m.alt
        /\ BackupHeader(m).kind = "header" /\ BackupHeader(m).crc = t
    BY <1>2, Headers
  <2>2. QED
    BY <1>2, <1>8, <2>1 DEF ArrayIs, CopyAt
<1>13. /\ len \in Len0 .. MaxLen /\ next \in 0 .. NWrites
       /\ mem = NULL /\ next = 0 /\ wipe = <<>> /\ base.sound = FALSE /\ base.faults = 0
       /\ base.new = t /\ base.cut = FALSE /\ base \in Bases
  <2>1. /\ base = Base(NULL, t, FALSE, last)
        /\ mem = NULL /\ next = 0 /\ wipe = <<>> /\ len = Len0
    BY <1>1
  <2>2. last \in Int
    OBVIOUS
  <2>3. QED
    BY <2>1, <2>2, Sizes DEF Base, Bases
<1>14. MemPlaced /\ WipePlaced /\ Steady /\ Guarded
  BY <1>13 DEF MemPlaced, WipePlaced, Steady, Guarded
<1>15. Accounts
  BY <1>13 DEF Accounts
<1>16. Settled
  BY <1>8, <1>12, <1>13 DEF Settled
<1>17. QED
  BY <1>11, <1>13, <1>14, <1>15, <1>16 DEF IInv

(***************************************************************************)
(* The steps.                                                              *)
(***************************************************************************)

(* A commit is running exactly when it has a next write. *)
LEMMA IdleIs == IInv => (Idle <=> next = 0)
  BY DEF IInv, WipePlaced, Idle

(* What the reader finds during a sound commit without faults: the new     *)
(* table as soon as the new primary is complete, the old one before.       *)
LEMMA StoredSoFar ==
    ASSUME IInv, next # 0, base.sound, base.faults = 0
    PROVE  Stored(dev, len) = IF dev[1].crc = base.new /\ ArrayIs(dev, base.new)
                              THEN base.new ELSE base.old
<1>1. /\ len \in Len0 .. MaxLen /\ next \in 0 .. NWrites /\ Placed(dev, len)
      /\ dev[0] = Pmbr /\ dev[1].kind = "header"
      /\ Covered /\ Fitting(mem, len) /\ base.new = mem.table
      /\ HeaderOn(dev, mem, next) /\ ArrayOn(dev, mem, next)
  BY DEF IInv, Guarded, MemPlaced, Accounts, Steady, AllOn
<1>2. next > 2 => dev[1].crc = base.new
  BY <1>1, Headers DEF HeaderOn
<1>3. next > 3 + Ptes => ArrayIs(dev, base.new)
  BY <1>1, Sizes DEF ArrayOn, ArrayIs, Slots
<1>4. ArrayIs(dev, dev[1].crc) => Stored(dev, len) = dev[1].crc
  BY <1>1, StoredPrimary
<1>5. ASSUME ~ ArrayIs(dev, dev[1].crc), CopyAt(dev, len - 1, base.old)
      PROVE  Stored(dev, len) = base.old
  BY <1>1, <1>5, StoredBackup
<1>6. next <= 2 \/ next > 2
  BY <1>1, Sizes
<1>7. CASE next <= 2
  <2>1. dev[1].crc = base.old /\ ArrayIs(dev, dev[1].crc)
    BY <1>1, <1>7, Sizes DEF Covered
  <2>2. QED
    BY <1>4, <2>1
<1>8. CASE next > 2
  BY <1>1, <1>2, <1>3, <1>4, <1>5, <1>8 DEF Covered
<1>9. QED
  BY <1>6, <1>7, <1>8

(* A table in memory is no null pointer. *)
LEMMA FittingNotNull == \A m, n : Fitting(m, n) => m # NULL
  BY NullAssumption DEF Fitting

(* What a sequence over a set has for elements. *)
LEMMA Elements ==
    ASSUME NEW T, NEW S, S \subseteq T, NEW q \in Seq(S)
    PROVE  q \in Seq(T) /\ \A i \in 1 .. Len(q) : q[i] \in S
<1>1. Len(q) \in Nat /\ q \in [1 .. Len(q) -> S]
  OBVIOUS
<1>2. \A i \in 1 .. Len(q) : q[i] \in S /\ q[i] \in T
  BY <1>1
<1>3. QED
  BY <1>1, <1>2

(* What ped_disk_clobber clears: the sectors of the header and the array   *)
(* at the start, and those of the array and the header at the end.         *)
Ends(n) == (0 .. 1 + Ptes) \cup (n - 1 - Ptes .. n - 1)

(* ped_disk_clobber keeps to both ends of the device. *)
LEMMA ClobberAtEnds ==
    ASSUME NEW n \in Len0 .. MaxLen, NEW dv, NEW S, Ends(n) \subseteq S
    PROVE  ped_disk_clobber(dv, n) \in Seq(S)
<1> DEFINE from == IF gpt_probe(dv) THEN 1 ELSE 0
           c    == IF n < from + NClobber THEN n - from ELSE NClobber
           t    == n - (IF NClobber < n THEN NClobber ELSE 1)
           tail == IF t < from THEN from ELSE t
           a    == [i \in 1 .. c |-> from + i - 1]
           b    == [i \in 1 .. n - tail |-> tail + i - 1]
<1>1. ped_disk_clobber(dv, n) = a \o b
  BY DEF ped_disk_clobber
<1>2. /\ from \in {0, 1} /\ n \in Nat /\ n > 4 + 2 * Ptes /\ Ptes \in Nat
      /\ NClobber \in Nat /\ NClobber > 0 /\ NClobber <= Ptes + 1
  BY Sizes, GptCommitAssumption
<1> HIDE DEF from
<1>3. c \in Nat /\ c <= NClobber
  BY <1>2
<1>4. tail \in Nat /\ tail < n /\ n - 1 - Ptes <= tail
  BY <1>2
<1> HIDE DEF c, tail
<1>5. a \in Seq(S)
  <2>1. \A i \in 1 .. c : from + i - 1 \in S
    BY <1>2, <1>3 DEF Ends
  <2>2. QED
    BY <1>3, <2>1
<1>6. b \in Seq(S)
  <2>1. \A i \in 1 .. n - tail : tail + i - 1 \in S
    BY <1>2, <1>4 DEF Ends
  <2>2. n - tail \in Nat
    BY <1>2, <1>4
  <2>3. QED
    BY <2>1, <2>2
<1> HIDE DEF a, b
<1>7. QED
  BY <1>1, <1>5, <1>6

(* gpt_read gives a table whose writes stay apart, repaired or not.        *)
LEMMA ReadIInv ==
    ASSUME IInv, NEW fb \in BOOLEAN, NEW fs \in BOOLEAN, Read(fb, fs)
    PROVE  IInv'
<1> DEFINE h     == Chosen(dev, len)
           alt   == AlternateLBA(dev, len)
           moved == /\ Primary(dev) /\ Backup(dev, len)
                    /\ alt # len - 1 /\ alt # h.last + 1 + Ptes
                    /\ fb
           alt1  == IF moved THEN len - 1 ELSE alt
           grown == h.last < LastUsable /\ fs
<1>1. /\ Idle /\ mem = NULL /\ h # NULL
      /\ first < h.last /\ h.last <= len /\ first < LastUsable
      /\ mem' = parse_header(h, alt1, fs)
      /\ wipe' = (IF moved THEN <<alt>> ELSE <<>>)
                    \o (IF grown THEN <<alt1>> ELSE <<>>)
                    \o (IF moved \/ grown THEN ped_disk_clobber(dev, len) ELSE <<>>)
      /\ next' = (IF moved \/ grown THEN 1 ELSE 0)
      /\ base' = (IF moved \/ grown
                  THEN Base(IF Primary(dev) THEN h.crc ELSE NULL, h.crc, FALSE, h.last)
                  ELSE base)
      /\ dev' = dev /\ len' = len
  BY DEF Read
<1>2. /\ len \in Len0 .. MaxLen /\ Placed(dev, len) /\ next = 0
  BY <1>1, IdleIs DEF IInv
<1>3. /\ dev[0] = Pmbr /\ dev[1].kind = "header"
      /\ \/ /\ Primary(dev) /\ h = dev[1] /\ ArrayIs(dev, dev[1].crc) /\ alt = dev[1].alt
         \/ /\ ~ Primary(dev) /\ h = dev[len - 1] /\ dev[len - 1].kind = "header"
            /\ alt = len - 1
  BY <1>1, <1>2, ChosenIs
<1>4. /\ h \in Sector /\ h.kind = "header"
      /\ alt \in Low .. len - 1 /\ h.last < alt - Ptes
  <2>1. 1 \in 0 .. MaxLen - 1 /\ len - 1 \in (0 .. MaxLen - 1) \ {1}
    BY <1>2, Sizes
  <2>2. QED
    BY <1>2, <1>3, <2>1 DEF Placed
<1>5. h.crc \in Tables /\ h.last \in Int
  BY <1>4, HeaderFields
<1> HIDE DEF h, alt
<1>6. alt1 \in Low .. len - 1 /\ alt <= alt1 /\ (moved => alt1 = len - 1)
  BY <1>2, <1>4, Sizes
<1> HIDE DEF moved, alt1, grown
<1>7. DEFINE S == {s \in 0 .. len - 1 : s \notin first .. h.last}
<1>8. /\ mem'.table = h.crc
      /\ mem'.alt = (IF grown THEN len - 1 ELSE alt1)
      /\ mem'.last = (IF grown THEN LastUsable ELSE h.last)
      /\ Fitting(mem', len)
  <2>1. mem' = [table |-> h.crc,
                alt   |-> IF grown THEN len - 1 ELSE alt1,
                last  |-> IF grown THEN LastUsable ELSE h.last]
    BY <1>1 DEF parse_header, grown
  <2>2. QED
    BY <2>1, <1>1, <1>2, <1>4, <1>5, <1>6, Sizes DEF Fitting, MemDisk, LastUsable
<1>9. alt \in S /\ alt1 \in S /\ Ends(len) \subseteq S
  <2>1. /\ alt \in Int /\ alt1 \in Int /\ len \in Nat /\ alt < len /\ alt1 < len
        /\ alt >= 0 /\ alt1 >= 0 /\ h.last < alt /\ h.last < alt1
        /\ h.last < len - 1 - Ptes /\ len > 4 + 2 * Ptes
    BY <1>2, <1>4, <1>5, <1>6, Sizes
  <2>2. QED
    BY <1>5, <2>1, Sizes DEF Ends
<1>10. /\ wipe' \in Seq(0 .. len' - 1)
       /\ \A i \in 1 .. Len(wipe') : wipe'[i] \in S
       /\ wipe' # <<>> => moved \/ grown
  <2>1. <<alt>> \in Seq(S) /\ <<alt1>> \in Seq(S) /\ <<>> \in Seq(S)
    BY <1>9
  <2>2. ped_disk_clobber(dev, len) \in Seq(S)
    BY <1>2, <1>9, ClobberAtEnds
  <2> DEFINE a == IF moved THEN <<alt>> ELSE <<>>
             b == IF grown THEN <<alt1>> ELSE <<>>
             c == IF moved \/ grown THEN ped_disk_clobber(dev, len) ELSE <<>>
  <2>3. a \in Seq(S) /\ b \in Seq(S) /\ c \in Seq(S) /\ wipe' = a \o b \o c
    BY <1>1, <2>1, <2>2
  <2>4. ~ (moved \/ grown) => a = <<>> /\ b = <<>> /\ c = <<>>
    OBVIOUS
  <2> HIDE DEF a, b, c, S
  <2>5. wipe' \in Seq(S) /\ (a = <<>> /\ b = <<>> /\ c = <<>> => wipe' = <<>>)
    BY <2>3
  <2>6. S \subseteq 0 .. len' - 1
    BY <1>1 DEF S
  <2>7. wipe' \in Seq(0 .. len' - 1) /\ \A i \in 1 .. Len(wipe') : wipe'[i] \in S
    BY <2>5, <2>6, Elements
  <2>8. wipe' # <<>> => moved \/ grown
    BY <2>4, <2>5
  <2>9. QED
    BY <2>7, <2>8
<1>11. MemPlaced'
  <2>1. mem' # NULL /\ Fitting(mem', len')
    BY <1>1, <1>8, FittingNotNull
  <2>2. ASSUME mem'.alt # len - 1
        PROVE  wipe' = <<>> /\ dev[1].alt = mem'.alt
    <3>1. ~ moved /\ ~ grown /\ alt1 = alt
      BY <1>6, <1>8, <2>2 DEF alt1
    <3>2. alt = dev[1].alt
      BY <1>3, <1>8, <2>2, <3>1
    <3>3. QED
      BY <1>8, <1>10, <3>1, <3>2
  <2>3. QED
    BY <1>1, <1>3, <2>1, <2>2 DEF MemPlaced
<1>12. CASE ~ (moved \/ grown)
  <2>1. next' = 0 /\ base' = base /\ wipe' = <<>>
    BY <1>1, <1>10, <1>12
  <2>2. WipePlaced'
    BY <2>1 DEF WipePlaced
  <2>3. Accounts'
    BY <1>2, <2>1 DEF IInv, Accounts
  <2>4. Steady' /\ Guarded'
    BY <2>1 DEF Steady, Guarded
  <2>5. Settled'
    BY <1>1, <1>2, <2>1 DEF IInv, Settled
  <2>6. QED
    BY <1>1, <1>2, <1>11, <2>1, <2>2, <2>3, <2>4, <2>5, Sizes DEF IInv
<1>13. CASE moved \/ grown
  <2>1. next' = 1 /\ base' = Base(IF Primary(dev) THEN h.crc ELSE NULL, h.crc, FALSE, h.last)
    BY <1>1, <1>13
  <2>2. /\ base' \in Bases /\ base'.faults = 0 /\ ~ base'.sound /\ base'.new = h.crc
        /\ base'.used = h.last
    BY <1>5, <2>1 DEF Base, Bases
  <2>3. Accounts'
    BY <1>5, <1>8, <2>2 DEF Accounts
  <2>4. WipePlaced'
    BY <1>10, <2>1, <2>2 DEF WipePlaced
  <2>5. Steady'
    BY <2>1, Sizes DEF Steady, AllOn, HeaderOn, ArrayOn, BackupOn, Slots
  <2>6. Guarded'
    BY <2>2 DEF Guarded
  <2>7. Settled'
    BY <2>1 DEF Settled
  <2>8. QED
    BY <1>1, <1>2, <1>11, <2>1, <2>3, <2>4, <2>5, <2>6, <2>7, Sizes DEF IInv
<1>14. QED
  BY <1>12, <1>13

(* A commit of an edited table begins its account.                         *)
LEMMA CommitIInv ==
    ASSUME IInv, NEW t \in Tables, Commit(t)
    PROVE  IInv'
<1>1. /\ next = 0 /\ wipe = <<>> /\ mem # NULL /\ Fitting(mem, len)
      /\ mem' = [mem EXCEPT !.table = t] /\ next' = 1
      /\ base' = Base(IF Redundant(dev, len) THEN Stored(dev, len) ELSE NULL, t,
                      Redundant(dev, len), mem.last)
      /\ dev' = dev /\ len' = len /\ wipe' = wipe
      /\ len \in Len0 .. MaxLen /\ Placed(dev, len)
  BY DEF Commit, Idle, IInv, MemPlaced
<1>2. mem'.table = t /\ mem'.alt = mem.alt /\ Fitting(mem', len)
  BY <1>1 DEF Fitting, MemDisk
<1>3. MemPlaced'
  BY <1>1, <1>2, FittingNotNull DEF IInv, MemPlaced
<1>4. Redundant(dev, len) \in BOOLEAN
  BY DEF Redundant, gpt_probe
<1>5. ASSUME Redundant(dev, len)
      PROVE  /\ dev[0] = Pmbr /\ dev[1].kind = "header" /\ dev[1].alt = len - 1
             /\ ArrayIs(dev, dev[1].crc) /\ CopyAt(dev, len - 1, dev[1].crc)
             /\ Stored(dev, len) = dev[1].crc /\ dev[1].crc \in Tables
             /\ mem.alt = len - 1
  BY <1>1, <1>5, RedundantIs DEF IInv, MemPlaced
<1>6. /\ base' \in Bases
      /\ base'.faults = 0 /\ ~ base'.cut /\ base'.new = t
      /\ base'.sound => Redundant(dev, len) /\ base'.old = dev[1].crc
  BY <1>1, <1>4, <1>5 DEF Base, Bases, Fitting, MemDisk
<1>7. Accounts' /\ WipePlaced'
  BY <1>1, <1>2, <1>5, <1>6 DEF Accounts, WipePlaced
<1>8. Steady'
  BY <1>1, Sizes, SMTT(30) DEF Steady, AllOn, HeaderOn, ArrayOn, BackupOn, Slots
<1>9. base'.sound => Covered'
  BY <1>1, <1>5, <1>6 DEF Covered
<1>10. Guarded'
  BY <1>1, <1>2, <1>5, <1>6, <1>9 DEF Guarded
<1>11. QED
  BY <1>1, <1>3, <1>7, <1>8, <1>10, Sizes DEF IInv, Settled

(* The commit of a new label clears what ped_disk_clobber clears.          *)
LEMMA CommitFreshIInv ==
    ASSUME IInv, NEW t \in Tables, CommitFresh(t)
    PROVE  IInv'
<1>1. /\ mem' = [table |-> t, alt |-> len - 1, last |-> LastUsable]
      /\ wipe' = ped_disk_clobber(dev, len) /\ next' = 1
      /\ dev' = dev /\ len' = len
      /\ len \in Len0 .. MaxLen /\ Placed(dev, len)
  BY DEF CommitFresh, IInv
<1>2. mem'.table = t /\ mem'.alt = len - 1 /\ Fitting(mem', len)
  BY <1>1, Sizes DEF Fitting, MemDisk, LastUsable
<1>3. MemPlaced'
  BY <1>1, <1>2, FittingNotNull DEF MemPlaced
<1>4. base' = [old |-> NULL, new |-> t, sound |-> FALSE, used |-> LastUsable,
               faults |-> 0, cut |-> FALSE]
  BY DEF CommitFresh, Base
<1>5. /\ base' \in Bases
      /\ ~ base'.sound /\ base'.faults = 0 /\ base'.new = t /\ base'.used = LastUsable
  BY <1>1, <1>4, Sizes DEF Bases, LastUsable
<1>6. Accounts'
  BY <1>2, <1>5 DEF Accounts
<1>7. WipePlaced'
  <2> DEFINE S == {s \in 0 .. len - 1 : s \notin first .. LastUsable}
  <2>1. Ends(len) \subseteq S
    BY <1>1, Sizes DEF Ends, LastUsable
  <2>2. wipe' \in Seq(S)
    BY <1>1, <2>1, ClobberAtEnds
  <2>3. S \subseteq 0 .. len' - 1 /\ \A s \in S : s \notin first .. LastUsable
    BY <1>1
  <2> HIDE DEF S
  <2>4. wipe' \in Seq(0 .. len' - 1) /\ \A i \in 1 .. Len(wipe') : wipe'[i] \in S
    BY <2>2, <2>3, Elements
  <2>5. \A i \in 1 .. Len(wipe') : wipe'[i] \notin first .. base'.used
    BY <1>5, <2>3, <2>4
  <2>6. QED
    BY <1>1, <1>5, <2>4, <2>5 DEF WipePlaced
<1>8. Steady' /\ Guarded'
  BY <1>1, <1>5, Sizes DEF Steady, AllOn, HeaderOn, ArrayOn, BackupOn, Slots, Guarded
<1>9. QED
  BY <1>1, <1>3, <1>6, <1>7, <1>8, Sizes DEF IInv, Settled

(* ped_disk_clobber clears one sector.                                     *)
LEMMA ClearIInv ==
    ASSUME IInv, Clear
    PROVE  IInv'
<1> DEFINE s == Head(wipe)
<1>1. /\ wipe # <<>> /\ dev' = [dev EXCEPT ![s] = Zero] /\ wipe' = Tail(wipe)
      /\ len' = len /\ mem' = mem /\ next' = next /\ base' = base
      /\ len \in Len0 .. MaxLen /\ Placed(dev, len) /\ wipe \in Seq(0 .. len - 1)
      /\ next = 1
  BY DEF Clear, IInv, WipePlaced
<1>2. /\ s = wipe[1] /\ s \in 0 .. len - 1 /\ wipe' \in Seq(0 .. len - 1)
      /\ Len(wipe) > 0 /\ Len(wipe') = Len(wipe) - 1
      /\ \A i \in 1 .. Len(wipe') : i + 1 \in 1 .. Len(wipe) /\ wipe'[i] = wipe[i + 1]
  BY <1>1
<1>3. mem # NULL /\ mem.alt = len - 1 /\ Fitting(mem, len)
  BY <1>1 DEF IInv, MemPlaced
<1> HIDE DEF s
<1>4. /\ dev' \in [0 .. MaxLen - 1 -> Sector]
      /\ \A x \in 0 .. MaxLen - 1 : dev'[x] = IF x = s THEN Zero ELSE dev[x]
  BY <1>1, <1>2, Kinds, Sizes DEF Placed
<1>5. Placed(dev', len')
  <2>1. 1 \in 0 .. MaxLen - 1
    BY Sizes
  <2>2. \A x \in 0 .. MaxLen - 1 : dev'[x].kind = "header" => dev'[x] = dev[x]
    BY <1>4, Kinds
  <2>3. QED
    BY <1>1, <1>4, <2>1, <2>2 DEF Placed
<1>6. MemPlaced'
  BY <1>1, <1>3 DEF MemPlaced
<1>7. WipePlaced'
  BY <1>1, <1>2 DEF IInv, WipePlaced
<1>8. Accounts'
  BY <1>1 DEF IInv, Accounts
<1>9. Steady'
  BY <1>1, Sizes DEF Steady, AllOn, HeaderOn, ArrayOn, BackupOn, Slots
<1>10. Guarded' /\ Settled'
  BY <1>1 DEF IInv, WipePlaced, Guarded, Settled
<1>11. QED
  BY <1>1, <1>5, <1>6, <1>7, <1>8, <1>9, <1>10 DEF IInv

(* What a fault leaves in the books. *)
LEMMA FaultIs ==
    ASSUME IInv, NEW cut \in BOOLEAN, Fault(cut)
    PROVE  /\ base' \in Bases
           /\ base'.faults = 1
           /\ ~ base'.sound => base'.new = NULL
           /\ base'.sound => /\ base.sound /\ base.faults = 0
                             /\ base'.old = base.old /\ base'.new = base.new
                             /\ base'.cut = cut
<1>1. base \in Bases
  BY DEF IInv, Accounts
<1>2. CASE base.sound /\ base.faults = 0
  <2>1. base' = [base EXCEPT !.faults = 1, !.cut = cut]
    BY <1>2 DEF Fault
  <2>2. QED
    BY <1>1, <1>2, <2>1 DEF Bases
<1>3. CASE ~ (base.sound /\ base.faults = 0)
  <2>1. base' = Forgotten
    BY <1>3 DEF Fault
  <2>2. QED
    BY <2>1 DEF Forgotten, Bases
<1>4. QED
  BY <1>2, <1>3

(* A power loss ends the commit and is counted.                            *)
LEMMA PowerLossIInv ==
    ASSUME IInv, PowerLoss
    PROVE  IInv'
<1>1. /\ mem' = NULL /\ wipe' = <<>> /\ next' = 0 /\ dev' = dev /\ len' = len
      /\ Fault(TRUE) /\ next # 0
  BY IdleIs DEF PowerLoss
<1>2. /\ base' \in Bases
      /\ base'.faults = 1
      /\ ~ base'.sound => base'.new = NULL
      /\ base'.sound => /\ base.sound /\ base.faults = 0
                        /\ base'.old = base.old /\ base'.new = base.new
                        /\ base'.cut
  BY <1>1, FaultIs
<1>3. Accounts'
  BY <1>1, <1>2 DEF IInv, Accounts
<1>4. MemPlaced' /\ WipePlaced' /\ Steady' /\ Guarded'
  BY <1>1 DEF MemPlaced, WipePlaced, Steady, Guarded
<1>5. Settled'
  BY <1>1, <1>2, StoredSoFar DEF Settled
<1>6. QED
  BY <1>1, <1>3, <1>4, <1>5, Sizes DEF IInv

(* Leaving forgets what is in memory only.                                 *)
LEMMA QuitIInv ==
    ASSUME IInv, Quit
    PROVE  IInv'
<1>1. /\ mem' = NULL /\ next = 0
      /\ UNCHANGED <<dev, len, wipe, next, base>>
  BY IdleIs DEF Quit
<1>2. QED
  BY <1>1 DEF IInv, MemPlaced, WipePlaced, Accounts, Steady, Guarded, Settled

(* Nothing is out of place on a longer device. *)
LEMMA PlacedMore ==
    ASSUME NEW n \in Len0 .. MaxLen, NEW k \in n .. MaxLen, NEW dv, Placed(dv, n)
    PROVE  k \in Len0 .. MaxLen /\ Placed(dv, k)
  BY Sizes DEF Placed

(* A device that grows shows the same table while its primary is good, and *)
(* that is so after a commit without faults.                               *)
LEMMA GrownSame ==
    ASSUME IInv, next = 0, NEW n \in len .. MaxLen, base.faults = 0 \/ Primary(dev)
    PROVE  Placed(dev, n) /\ Stored(dev, n) = Stored(dev, len) /\ n \in Len0 .. MaxLen
<1>1. /\ len \in Len0 .. MaxLen /\ Placed(dev, len)
      /\ base.faults = 0 => Primary(dev)
  BY PrimaryIff DEF IInv, Settled
<1>2. n \in Len0 .. MaxLen /\ Placed(dev, n)
  BY <1>1, PlacedMore
<1>3. Primary(dev)
  BY <1>1
<1>4. CASE gpt_probe(dev)
  <2>1. Chosen(dev, n) = dev[1] /\ Chosen(dev, len) = dev[1]
    BY <1>3, <1>4 DEF Chosen
  <2>2. QED
    BY <1>2, <2>1 DEF Stored
<1>5. CASE ~ gpt_probe(dev)
  <2>1. Chosen(dev, n) = NULL /\ Chosen(dev, len) = NULL
    BY <1>5 DEF Chosen
  <2>2. QED
    BY <1>2, <2>1 DEF Stored
<1>6. QED
  BY <1>4, <1>5

(* A device that grew has its backup before the last sector.               *)
LEMMA GrowIInv ==
    ASSUME IInv, Grow
    PROVE  IInv'
<1>1. /\ mem = NULL /\ next = 0 /\ len' \in len + 1 .. MaxLen
      /\ dev' = dev /\ mem' = mem /\ wipe' = wipe /\ next' = next
      /\ base' = (IF base.faults = 0 \/ Primary(dev) THEN base ELSE Forgotten)
      /\ len \in Len0 .. MaxLen /\ Placed(dev, len)
  BY DEF Grow, IInv, MemPlaced
<1>2. len' \in len .. MaxLen /\ len' \in Len0 .. MaxLen /\ Placed(dev, len')
  <2>1. len' \in len .. MaxLen
    BY <1>1, Sizes
  <2>2. QED
    BY <1>1, <2>1, PlacedMore
<1>3. WipePlaced' /\ MemPlaced' /\ Steady' /\ Guarded'
  <2>1. wipe = <<>>
    BY <1>1 DEF IInv, WipePlaced
  <2>2. QED
    BY <1>1, <2>1 DEF MemPlaced, WipePlaced, Steady, Guarded
<1>4. CASE base.faults = 0 \/ Primary(dev)
  <2>1. base' = base /\ Stored(dev, len') = Stored(dev, len)
    BY <1>1, <1>2, <1>4, GrownSame
  <2>2. Accounts' /\ Settled'
    BY <1>1, <2>1 DEF IInv, Accounts, Settled
  <2>3. QED
    BY <1>1, <1>2, <1>3, <2>2 DEF IInv
<1>5. CASE ~ (base.faults = 0 \/ Primary(dev))
  <2>1. /\ base' \in Bases
        /\ ~ base'.sound /\ base'.faults = 1 /\ base'.new = NULL
    BY <1>1, <1>5 DEF Forgotten, Bases
  <2>2. Accounts' /\ Settled'
    BY <2>1 DEF Accounts, Settled
  <2>3. QED
    BY <1>1, <1>2, <1>3, <2>2 DEF IInv
<1>6. QED
  BY <1>4, <1>5

(* One array, one table. *)
LEMMA OneTable ==
    ASSUME NEW n \in Len0 .. MaxLen, NEW dv, Placed(dv, n),
           NEW t \in Tables, NEW u \in Tables, ArrayIs(dv, t), ArrayIs(dv, u)
    PROVE  t = u
<1>1. \A i \in 0 .. Ptes - 1 : t[i] \in Chunks /\ u[i] \in Chunks /\ Pte(t[i]) = Pte(u[i])
  BY DEF ArrayIs, Slots, Tables
<1>2. \A i \in 0 .. Ptes - 1 : t[i] = u[i]
  BY <1>1, Kinds
<1>3. t = [i \in 0 .. Ptes - 1 |-> t[i]] /\ u = [i \in 0 .. Ptes - 1 |-> u[i]]
  BY DEF Tables
<1>4. [i \in 0 .. Ptes - 1 |-> t[i]] = [i \in 0 .. Ptes - 1 |-> u[i]]
  BY <1>2, Zenon
<1>5. QED
  BY <1>3, <1>4

(* A commit that lost one write is read as its table in the end. *)
LEMMA LostOne ==
    ASSUME NEW n \in Len0 .. MaxLen, NEW dv, Placed(dv, n), NEW m, Fitting(m, n),
           m.alt = n - 1, dv[0] = Pmbr, dv[1].kind = "header",
           \/ HeaderOn(dv, m, NWrites + 1) /\ ArrayOn(dv, m, NWrites + 1)
           \/ /\ BackupOn(dv, m, NWrites + 1)
              /\ dv[1].crc = m.table \/ ArrayOn(dv, m, NWrites + 1)
    PROVE  Stored(dv, n) = m.table
<1>1. dv[1].crc \in Tables /\ m.table \in Tables
  <2>1. dv[1] \in Sector
    BY Sizes DEF Placed
  <2>2. QED
    BY <2>1, HeaderFields DEF Fitting, MemDisk
<1>2. CASE ArrayIs(dv, dv[1].crc)
  <2>1. Stored(dv, n) = dv[1].crc
    BY <1>2, StoredPrimary
  <2>2. dv[1].crc = m.table
    BY <1>1, <1>2, AllDone, OneTable
  <2>3. QED
    BY <2>1, <2>2
<1>3. CASE ~ ArrayIs(dv, dv[1].crc)
  <2>1. CopyAt(dv, n - 1, m.table)
    BY <1>3, AllDone
  <2>2. QED
    BY <1>3, <2>1, StoredBackup
<1>4. QED
  BY <1>2, <1>3

(* The copy that a sound commit falls back to outlives the next write. *)
LEMMA CoveredNext ==
    ASSUME NEW n \in Len0 .. MaxLen, NEW dv, NEW m, Fitting(m, n), NEW old \in Tables,
           NEW k \in 1 .. NWrites, NEW dw, Effect(dv, m, k, dw)
    PROVE  /\ k + 1 <= 2 => dw[1] = dv[1]
           /\ ArrayIs(dv, old) /\ (k <= 2 \/ old = m.table) => ArrayIs(dw, old)
           /\ k + 1 <= 3 + Ptes /\ CopyAt(dv, n - 1, old) => CopyAt(dw, n - 1, old)
<1>1. k + 1 <= 2 => dw[1] = dv[1]
  BY Sizes DEF Effect
<1>2. ASSUME ArrayIs(dv, old), k <= 2 \/ old = m.table PROVE ArrayIs(dw, old)
  <2> SUFFICES ASSUME NEW i \in Slots PROVE dw[2 + i] = Pte(old[i])
    BY DEF ArrayIs
  <2>1. dw[2 + i] = (IF k = 3 + i THEN Pte(m.table[i]) ELSE dv[2 + i]) /\ dv[2 + i] = Pte(old[i])
    BY <1>2 DEF Effect, ArrayIs
  <2>2. k <= 2 => k # 3 + i
    BY Sizes DEF Slots
  <2>3. QED
    BY <1>2, <2>1, <2>2
<1>3. ASSUME k + 1 <= 3 + Ptes, CopyAt(dv, n - 1, old) PROVE CopyAt(dw, n - 1, old)
  <2>1. \A s \in 2 + Ptes .. MaxLen - 1 : dw[s] = dv[s]
    BY <1>3, Sizes DEF Effect
  <2>2. n - 1 \in 2 + Ptes .. MaxLen - 1
        /\ \A i \in Slots : (n - 1) - Ptes + i \in 2 + Ptes .. MaxLen - 1
    BY Sizes DEF Slots
  <2>3. QED
    BY <1>3, <2>1, <2>2 DEF CopyAt
<1>4. QED
  BY <1>1, <1>2, <1>3

(* gpt_write writes one sector.                                            *)
LEMMA WriteIInv ==
    ASSUME IInv, Write
    PROVE  IInv'
<1>1. /\ wipe = <<>> /\ next # 0 /\ len' = len /\ mem' = mem /\ wipe' = wipe /\ base' = base
      /\ dev' = [dev EXCEPT ![gpt_write(mem)[next].at] = gpt_write(mem)[next].what]
      /\ next' = IF next = NWrites THEN 0 ELSE next + 1
  BY DEF Write, Advance
<1>2. /\ len \in Len0 .. MaxLen /\ next \in 1 .. NWrites /\ Placed(dev, len)
      /\ mem # NULL /\ Fitting(mem, len)
  BY <1>1, Sizes DEF IInv, MemPlaced
<1>3. Placed(dev', len) /\ Effect(dev, mem, next, dev')
  BY <1>1, <1>2, OneWrite
<1>4. /\ HeaderOn(dev, mem, next) => HeaderOn(dev', mem, next + 1)
      /\ ArrayOn(dev, mem, next) => ArrayOn(dev', mem, next + 1)
      /\ BackupOn(dev, mem, next) => BackupOn(dev', mem, next + 1)
      /\ AllOn(dev, mem, next) => AllOn(dev', mem, next + 1)
  <2>1. BackupOn(dev, mem, next) => BackupOn(dev', mem, next + 1)
    BY <1>3 DEF Effect
  <2>2. QED
    BY <1>1, <1>2, <2>1, OnMore
<1>5. dev'[1] = IF next = 2 THEN PrimaryHeader(mem) ELSE dev[1]
  BY <1>3 DEF Effect
<1>6. PrimaryHeader(mem).kind = "header" /\ PrimaryHeader(mem).alt = mem.alt
  BY <1>2, Headers
<1>7. MemPlaced'
  BY <1>1, <1>2, <1>5, <1>6 DEF IInv, MemPlaced
<1>8. WipePlaced' /\ Accounts'
  BY <1>1 DEF IInv, WipePlaced, Accounts
<1>9. ASSUME base.sound
      PROVE  /\ dev[0] = Pmbr /\ dev'[0] = Pmbr /\ dev'[1].kind = "header"
             /\ mem.alt = len - 1 /\ base.old \in Tables /\ base.new = mem.table
             /\ base.faults = 0 => Covered
             /\ base.faults = 1 => Recovering
             /\ base.faults \in {0, 1}
  BY <1>1, <1>3, <1>5, <1>6, <1>9 DEF IInv, Guarded, Accounts, Bases, Effect
<1>10. CASE next # NWrites
  <2>1. next' = next + 1 /\ next' \in 0 .. NWrites /\ next' # 0
    BY <1>1, <1>2, <1>10, Sizes
  <2>2. Steady'
    BY <1>1, <1>4, <2>1 DEF IInv, Steady
  <2>3. ASSUME base.sound, base.faults = 0 PROVE Covered'
    <3>1. /\ next + 1 <= 2 => dev'[1] = dev[1]
          /\ ArrayIs(dev, base.old) /\ (next <= 2 \/ base.old = mem.table) => ArrayIs(dev', base.old)
          /\ next + 1 <= 3 + Ptes /\ CopyAt(dev, len - 1, base.old) => CopyAt(dev', len - 1, base.old)
      BY <1>2, <1>3, <1>9, <2>3, CoveredNext
    <3>2. next + 1 <= 2 => dev'[1].crc = base.old
      BY <1>2, <1>9, <2>3, <3>1, Sizes DEF Covered
    <3>3. next + 1 <= 3 => ArrayIs(dev', base.old)
      BY <1>2, <1>9, <2>3, <3>1, Sizes DEF Covered
    <3>4. next + 1 > 3 + Ptes \/ CopyAt(dev', len - 1, base.old)
      BY <1>2, <1>9, <2>3, <3>1, Sizes DEF Covered
    <3>5. QED
      BY <1>1, <2>1, <3>2, <3>3, <3>4 DEF Covered
  <2>4. ASSUME base.sound, base.faults = 1 PROVE Recovering'
    <3>1. next > 2 => next + 1 > 2 /\ dev'[1] = dev[1]
      BY <1>2, <1>5, Sizes
    <3>2. QED
      BY <1>1, <1>4, <1>9, <2>1, <2>4, <3>1 DEF Recovering
  <2>5. Guarded'
    BY <1>1, <1>9, <2>1, <2>3, <2>4 DEF Guarded
  <2>6. Settled'
    BY <2>1 DEF Settled
  <2>7. QED
    BY <1>1, <1>2, <1>3, <1>7, <1>8, <2>1, <2>2, <2>5, <2>6 DEF IInv
<1>11. CASE next = NWrites
  <2>1. next' = 0 /\ next + 1 = NWrites + 1
    BY <1>1, <1>11
  <2>2. Steady' /\ Guarded'
    BY <2>1 DEF Steady, Guarded
  <2>3. ASSUME base.faults = 0
        PROVE  /\ dev'[0] = Pmbr
               /\ dev'[1].kind = "header" /\ dev'[1].crc = base.new
               /\ ArrayIs(dev', base.new)
               /\ CopyAt(dev', dev'[1].alt, base.new)
    <3>1. AllOn(dev', mem, NWrites + 1) /\ base.new = mem.table
      BY <1>1, <1>4, <2>1, <2>3 DEF IInv, Steady, Accounts
    <3>2. dev'[0] = Pmbr
      BY <3>1, Sizes DEF AllOn
    <3>3. QED
      BY <1>2, <3>1, <3>2, AllDone DEF AllOn
  <2>4. ASSUME base.sound PROVE Stored(dev', len) = base.new
    <3>1. CASE base.faults = 0
      BY <1>2, <1>3, <2>3, <3>1, StoredPrimary
    <3>2. CASE base.faults = 1
      <4>1. \/ HeaderOn(dev', mem, NWrites + 1) /\ ArrayOn(dev', mem, NWrites + 1)
            \/ /\ BackupOn(dev', mem, NWrites + 1)
               /\ dev'[1].crc = mem.table \/ ArrayOn(dev', mem, NWrites + 1)
        <5>1. next # 2
          BY <1>11, Sizes
        <5>2. QED
          BY <1>4, <1>5, <1>9, <2>1, <2>4, <3>2, <5>1 DEF Recovering
      <4>2. QED
        BY <1>2, <1>3, <1>9, <2>4, <4>1, LostOne
    <3>3. QED
      BY <1>9, <2>4, <3>1, <3>2
  <2>5. Settled'
    BY <1>1, <2>1, <2>3, <2>4 DEF Settled
  <2>6. QED
    BY <1>1, <1>2, <1>3, <1>7, <1>8, <2>1, <2>2, <2>5, Sizes DEF IInv
<1>12. QED
  BY <1>10, <1>11

(* The call of ped_device_write that the k-th write belongs to ends there  *)
(* or further on.                                                          *)
LEMMA CallEnds ==
    ASSUME NEW k \in 1 .. NWrites
    PROVE  \/ k = 1 /\ CallEnd(k) = 1
           \/ k = 2 /\ CallEnd(k) = 2
           \/ k \in 3 .. 2 + Ptes /\ CallEnd(k) = 2 + Ptes
           \/ k = 3 + Ptes /\ CallEnd(k) = 3 + Ptes
           \/ k > 3 + Ptes /\ CallEnd(k) = NWrites
<1>1. CASE k \in 3 .. 2 + Ptes
  BY <1>1, Sizes DEF CallEnd
<1>2. CASE k > 3 + Ptes
  BY <1>2, Sizes DEF CallEnd
<1>3. CASE k \in {1, 2, 3 + Ptes}
  BY <1>3, Sizes DEF CallEnd
<1>4. QED
  BY <1>1, <1>2, <1>3, Sizes

(* A sound commit that loses its first write is left with the primary or   *)
(* with the backup to complete.                                            *)
LEMMA LoseWriteIInv ==
    ASSUME IInv, LoseWrite
    PROVE  IInv'
<1> DEFINE e == CallEnd(next)
<1>1. /\ wipe = <<>> /\ next # 0 /\ len' = len /\ mem' = mem /\ wipe' = wipe /\ dev' = dev
      /\ next' = (IF e = NWrites THEN 0 ELSE e + 1)
      /\ Fault(FALSE)
  BY DEF LoseWrite, Advance
<1>2. /\ len \in Len0 .. MaxLen /\ next \in 1 .. NWrites /\ Placed(dev, len)
      /\ mem # NULL /\ Fitting(mem, len)
  BY <1>1, Sizes DEF IInv, MemPlaced
<1>3. \/ next = 1 /\ next' = 2
      \/ next = 2 /\ next' = 3
      \/ next \in 3 .. 2 + Ptes /\ next' = 3 + Ptes
      \/ next = 3 + Ptes /\ next' = 4 + Ptes
      \/ next > 3 + Ptes /\ next' = 0
  BY <1>1, <1>2, CallEnds, Sizes
<1> HIDE DEF e
<1>4. next' \in 0 .. NWrites
  BY <1>3, Sizes
<1>5. /\ base' \in Bases
      /\ base'.faults = 1
      /\ ~ base'.sound => base'.new = NULL
      /\ base'.sound => /\ base.sound /\ base.faults = 0
                        /\ base'.old = base.old /\ base'.new = base.new
                        /\ ~ base'.cut
  BY <1>1, FaultIs
<1>6. base.sound => base.old \in Tables /\ base.new \in Tables /\ base.new = mem.table
  BY <1>1 DEF IInv, Accounts
<1>7. Accounts'
  <2>1. base'.sound => /\ base'.old \in Tables /\ base'.new \in Tables
                       /\ base'.new = mem'.table
    BY <1>1, <1>5, <1>6
  <2>2. QED
    BY <1>5, <2>1 DEF Accounts
<1>8. MemPlaced'
  BY <1>1, <1>2, <1>3 DEF IInv, MemPlaced
<1>9. WipePlaced'
  BY <1>1 DEF IInv, WipePlaced
<1>10. Steady'
  BY <1>5 DEF Steady
<1>11. ASSUME base'.sound
       PROVE  /\ dev[0] = Pmbr /\ dev[1].kind = "header" /\ mem.alt = len - 1
              /\ HeaderOn(dev, mem, next) /\ ArrayOn(dev, mem, next) /\ BackupOn(dev, mem, next)
  BY <1>1, <1>5, <1>11 DEF IInv, Guarded, Steady, AllOn
<1>12. PrimaryHeader(mem).crc = mem.table
  BY <1>2, Headers
<1>13. ASSUME base'.sound, next' # 0 PROVE Recovering'
  <2> USE <1>1, <1>5, <1>11, <1>13
  <2>1. CASE next = 1 /\ next' = 2
    BY <2>1, Sizes DEF Recovering, HeaderOn, ArrayOn, Slots
  <2>2. CASE next = 2 /\ next' = 3
    BY <2>2, Sizes DEF Recovering, BackupOn, ArrayOn, Slots
  <2>3. CASE next \in 3 .. 2 + Ptes /\ next' = 3 + Ptes
    <3>1. dev[1].crc = base'.new
      BY <2>3, <1>6, <1>12 DEF HeaderOn
    <3>2. QED
      BY <2>3, <3>1, Sizes DEF Recovering, BackupOn, Slots
  <2>4. CASE next = 3 + Ptes /\ next' = 4 + Ptes
    BY <2>4, Sizes, SMTT(30) DEF Recovering, HeaderOn, ArrayOn, Slots
  <2>5. QED
    BY <1>3, <2>1, <2>2, <2>3, <2>4
<1>14. Guarded'
  BY <1>1, <1>5, <1>11, <1>13 DEF Guarded
<1>15. Settled'
  <2>1. ASSUME next' = 0, base'.sound PROVE Stored(dev, len) = base.new
    <3>1. next > 3 + Ptes
      BY <1>3, <2>1, Sizes
    <3>2. dev[1].crc = base.new
      BY <1>2, <1>5, <1>6, <1>11, <1>12, <2>1, <3>1, Sizes DEF HeaderOn
    <3>3. ArrayIs(dev, base.new)
      BY <1>2, <1>5, <1>6, <1>11, <2>1, <3>1, Sizes DEF ArrayOn, ArrayIs, Slots
    <3>4. QED
      BY <1>1, <1>5, <2>1, <3>2, <3>3, StoredSoFar
  <2>2. QED
    BY <1>1, <1>5, <2>1 DEF Settled
<1>16. QED
  BY <1>1, <1>2, <1>4, <1>7, <1>8, <1>9, <1>10, <1>14, <1>15 DEF IInv

(* Every step keeps the invariant. *)
LEMMA NextIInv == IInv /\ [Next]_vars => IInv'
<1> SUFFICES ASSUME IInv, [Next]_vars PROVE IInv'
  OBVIOUS
<1>1. CASE \E fix_backup, fix_size \in BOOLEAN : Read(fix_backup, fix_size)
  BY <1>1, ReadIInv
<1>2. CASE \E t \in Tables : Commit(t) \/ CommitFresh(t)
  BY <1>2, CommitIInv, CommitFreshIInv
<1>3. CASE Clear
  BY <1>3, ClearIInv
<1>4. CASE Write
  BY <1>4, WriteIInv
<1>5. CASE LoseWrite
  BY <1>5, LoseWriteIInv
<1>6. CASE PowerLoss
  BY <1>6, PowerLossIInv
<1>7. CASE Quit
  BY <1>7, QuitIInv
<1>8. CASE Grow
  BY <1>8, GrowIInv
<1>9. CASE UNCHANGED vars
  BY <1>9 DEF vars, IInv, MemPlaced, WipePlaced, Accounts, Steady, Guarded, Covered,
              Recovering, Settled
<1>10. QED
  BY <1>1, <1>2, <1>3, <1>4, <1>5, <1>6, <1>7, <1>8, <1>9 DEF Next

(* The invariant holds of every behaviour. *)
THEOREM Invariance == Spec => []IInv
  BY InitIInv, NextIInv, PTL DEF Spec

(***************************************************************************)
(* What the runs check, for every device.                                  *)
(***************************************************************************)

(* No sector that a commit clears or writes is beyond the device or inside *)
(* of what partitions may use: gpt_write, ped_disk_clobber and the repair  *)
(* of gpt_read, whatever was read and however the device has grown.        *)
THEOREM Placement == Spec => []WritesPlaced
<1>1. IInv => TypeOK
  <2> SUFFICES ASSUME IInv PROVE TypeOK
    OBVIOUS
  <2>1. \A i \in DOMAIN wipe : wipe[i] \in 0 .. len - 1
    BY DEF IInv, WipePlaced
  <2>2. mem = NULL => Idle
    BY IdleIs DEF IInv, MemPlaced
  <2>3. mem # NULL => /\ mem.table \in Tables
                      /\ mem.alt \in first .. len - 1 /\ mem.last \in first .. len - 1
    <3> SUFFICES ASSUME mem # NULL
                 PROVE  /\ mem.table \in Tables
                        /\ mem.alt \in first .. len - 1 /\ mem.last \in first .. len - 1
      OBVIOUS
    <3>1. Fitting(mem, len) /\ len \in Len0 .. MaxLen
      BY DEF IInv, MemPlaced
    <3>2. mem.table \in Tables /\ mem.alt \in Int /\ mem.last \in Int
      BY <3>1 DEF Fitting, MemDisk
    <3>3. QED
      BY <3>1, <3>2, Sizes DEF Fitting
  <2>4. QED
    BY <2>1, <2>2, <2>3 DEF TypeOK, IInv
<1>2. IInv => DataUntouched
  <2>0. IInv => \A i \in DOMAIN wipe : wipe[i] \notin first .. base.used
    BY DEF IInv, WipePlaced
  <2> SUFFICES ASSUME IInv, mem # NULL, NEW k \in 1 .. NWrites
               PROVE  /\ gpt_write(mem)[k].at \notin first .. mem.last
                      /\ gpt_write(mem)[k].at < len
    BY <2>0 DEF DataUntouched
  <2> DEFINE p == gpt_write(mem)[k].at
             v == gpt_write(mem)[k].what
  <2>1. Fitting(mem, len) /\ len \in Len0 .. MaxLen
    BY DEF IInv, MemPlaced
  <2>2. /\ mem.alt \in Low .. len - 1 /\ mem.alt \in Int /\ mem.last \in Int
        /\ mem.last < mem.alt - Ptes
    BY <2>1 DEF Fitting, MemDisk
  <2>3. \/ p = 0
        \/ p = 1
        \/ \E i \in Slots : p = 2 + i
        \/ p = mem.alt
        \/ \E i \in Slots : p = mem.alt - Ptes + i
    BY <2>1, WriteCases
  <2> HIDE DEF p
  <2>4. p \notin first .. mem.last /\ p < len
    BY <2>1, <2>2, <2>3, Sizes DEF Slots
  <2>5. QED
    BY <2>4 DEF p
<1>3. QED
  BY <1>1, <1>2, Invariance, PTL DEF WritesPlaced

(* What is promised of a table, and what the reader finds. *)
Facts ==
    /\ Idle <=> next = 0
    /\ Promised <=> (base.sound /\ (next = 0 \/ base.faults = 0))
                    \/ (next = 0 /\ base.faults = 0)
    /\ base.faults \in {0, 1} /\ base.sound \in BOOLEAN
    /\ next = 0 /\ base.faults = 0 => Stored(dev, len) = base.new
    /\ next = 0 /\ base.sound /\ ~ base.cut => Stored(dev, len) = base.new
    /\ next # 0 /\ base.sound /\ base.faults = 0 =>
          Stored(dev, len) = IF dev[1].crc = base.new /\ ArrayIs(dev, base.new)
                             THEN base.new ELSE base.old
    /\ Sound => Stored(dev, len) \in {base.old, base.new}
    /\ Promised => Stored(dev, len) \in Tables
    /\ base.sound => base.old \in Tables /\ base.new \in Tables

(* The invariant says all that the properties ask for.                     *)
LEMMA FactsBefore == IInv => Facts
<1> SUFFICES ASSUME IInv PROVE Facts
  OBVIOUS
<1>1. Idle <=> next = 0
  BY IdleIs
<1>2. /\ base.faults \in {0, 1} /\ base.sound \in BOOLEAN
      /\ base.sound => base.old \in Tables /\ base.new \in Tables
      /\ base.faults = 0 => base.new \in Tables
  BY DEF IInv, Accounts, Bases
<1>3. Sound <=> base.sound /\ (next = 0 \/ base.faults = 0)
  BY <1>1, <1>2 DEF Sound
<1>4. Promised <=> (base.sound /\ (next = 0 \/ base.faults = 0))
                   \/ (next = 0 /\ base.faults = 0)
  BY <1>1, <1>3 DEF Promised
<1>5. ASSUME next = 0, base.faults = 0 PROVE Stored(dev, len) = base.new
  <2>1. /\ len \in Len0 .. MaxLen /\ Placed(dev, len) /\ dev[0] = Pmbr
        /\ dev[1].kind = "header" /\ dev[1].crc = base.new /\ ArrayIs(dev, base.new)
    BY <1>5 DEF IInv, Settled
  <2>2. QED
    BY <2>1, StoredPrimary
<1>6. /\ next = 0 /\ base.sound /\ ~ base.cut => Stored(dev, len) = base.new
      /\ next = 0 /\ base.sound => Stored(dev, len) \in {base.old, base.new}
  BY DEF IInv, Settled
<1>7. next # 0 /\ base.sound /\ base.faults = 0 =>
          Stored(dev, len) = IF dev[1].crc = base.new /\ ArrayIs(dev, base.new)
                             THEN base.new ELSE base.old
  BY StoredSoFar
<1>8. Sound => Stored(dev, len) \in {base.old, base.new}
  BY <1>3, <1>6, <1>7
<1>9. Promised => Stored(dev, len) \in Tables
  BY <1>2, <1>3, <1>4, <1>5, <1>8
<1>10. QED
  BY <1>1, <1>2, <1>4, <1>5, <1>6, <1>7, <1>8, <1>9 DEF Facts

(* The same of the state after a step. *)
LEMMA FactsAfter == IInv' => Facts'
  BY FactsBefore, PTL

(* A commit to a redundant device is atomic for the reader, a commit that  *)
(* met no fault stores both copies, and one refused write is survived:     *)
(* gpt_write and gpt_read, for every array and every device.               *)
THEOREM Safety == Spec => []CommitSafe
<1>1. IInv => CrashSafe /\ LostWriteSurvived
  <2> SUFFICES ASSUME IInv PROVE CrashSafe /\ LostWriteSurvived
    OBVIOUS
  <2>1. CrashSafe
    BY FactsBefore DEF Facts, CrashSafe
  <2>2. LostWriteSurvived
    BY FactsBefore DEF Facts, LostWriteSurvived, Sound
  <2>3. QED
    BY <2>1, <2>2
<1>2. IInv => CommitStores
  <2> SUFFICES ASSUME IInv, Idle, base.faults = 0
               PROVE  /\ Stored(dev, len) = base.new
                      /\ Backup(dev, len) /\ dev[dev[1].alt].crc = base.new
    BY DEF CommitStores
  <2>1. next = 0 /\ Stored(dev, len) = base.new
    BY FactsBefore DEF Facts
  <2>2. /\ len \in Len0 .. MaxLen /\ Placed(dev, len)
        /\ dev[1].kind = "header" /\ dev[1].crc = base.new
        /\ ArrayIs(dev, base.new) /\ CopyAt(dev, dev[1].alt, base.new)
    BY <2>1 DEF IInv, Settled
  <2>3. dev[1].alt \in Low .. len - 1 /\ dev[1].alt \in Low .. MaxLen - 1
    BY <2>2, Sizes DEF Placed
  <2>4. Primary(dev)
    BY <2>2, PrimaryIff
  <2>5. dev[dev[1].alt].crc = base.new
    BY <2>2 DEF CopyAt
  <2>6. header_is_valid(dev, dev[1].alt)
    BY <2>2, <2>3, <2>5, CopyIff
  <2>7. QED
    BY <2>1, <2>4, <2>5, <2>6 DEF Backup, AlternateLBA
<1>3. QED
  BY <1>1, <1>2, Invariance, PTL DEF CommitSafe

(***************************************************************************)
(* The refinement of TableStore.                                           *)
(***************************************************************************)

(* The two variables of the register that are not read off directly. *)
StoreVal == IF Promised THEN Stored(dev, len) ELSE NULL
StoreTarget == IF Idle THEN NULL ELSE base.new

(* A step of the commit is one of the register, or it does not show. *)
StoreStep == [Store!StoreNext]_(Store!store_vars)

SameStore ==
    /\ StoreVal' = StoreVal /\ StoreTarget' = StoreTarget
    /\ Idle' = Idle /\ base'.sound = base.sound /\ (base'.faults > 0) = (base.faults > 0)

(* A step that changes nothing of the register is allowed.                 *)
LEMMA StuttersStore == SameStore => StoreStep
  BY DEF SameStore, StoreStep, StoreVal, StoreTarget, Store!store_vars

(* A commit begins. *)
LEMMA BeginsStore ==
    ASSUME IInv, IInv', next = 0, next' # 0, base'.faults = 0, base'.new \in Tables,
           dev' = dev, len' = len
    PROVE  StoreStep
<1>1. Facts /\ Facts'
  BY FactsBefore, FactsAfter
<1>2. Idle /\ ~ Idle' /\ base'.sound \in BOOLEAN
  BY <1>1 DEF Facts
<1>3. StoreTarget' = base'.new
  BY <1>2 DEF StoreTarget
<1>4. CASE base'.sound
  <2>1. Promised' /\ Stored(dev, len)' \in Tables /\ Stored(dev, len)' = Stored(dev, len)
    BY <1>1, <1>4 DEF Facts
  <2>2. StoreVal' \in Tables /\ (StoreVal # NULL => StoreVal' = StoreVal)
    BY <2>1 DEF StoreVal
  <2>3. Store!Begin(base'.new)
    BY <1>2, <1>3, <1>4, <2>2 DEF Store!Begin, StoreVal, StoreTarget
  <2>4. QED
    BY <2>3 DEF StoreStep, Store!StoreNext
<1>5. CASE ~ base'.sound
  <2>1. ~ Promised'
    BY <1>1, <1>5 DEF Facts
  <2>2. StoreVal' = NULL
    BY <2>1 DEF StoreVal
  <2>3. Store!Begin(base'.new)
    BY <1>2, <1>3, <1>5, <2>2 DEF Store!Begin, StoreVal, StoreTarget
  <2>4. QED
    BY <2>3 DEF StoreStep, Store!StoreNext
<1>6. QED
  BY <1>4, <1>5

(* What a fault does to the promise. *)
LEMMA FaultKeeps ==
    ASSUME IInv, NEW cut \in BOOLEAN, Fault(cut)
    PROVE  /\ base'.faults = 1
           /\ base.sound /\ base.faults = 0 => base'.sound /\ base'.new = base.new
           /\ ~ (base.sound /\ base.faults = 0) => ~ base'.sound /\ base'.new = NULL
<1>1. base \in Bases
  BY DEF IInv, Accounts
<1>2. CASE base.sound /\ base.faults = 0
  BY <1>1, <1>2 DEF Fault
<1>3. CASE ~ (base.sound /\ base.faults = 0)
  BY <1>3 DEF Fault, Forgotten
<1>4. QED
  BY <1>2, <1>3

(* A commit is cut short: by a loss of power, or by losing the last write. *)
LEMMA CrashesStore ==
    ASSUME IInv, IInv', next # 0, next' = 0, NEW cut \in BOOLEAN, Fault(cut),
           dev' = dev, len' = len
    PROVE  StoreStep
<1>1. Facts /\ Facts'
  BY FactsBefore, FactsAfter
<1>2. /\ base'.faults = 1
      /\ base.sound /\ base.faults = 0 => base'.sound
      /\ ~ (base.sound /\ base.faults = 0) => ~ base'.sound
  BY FaultKeeps
<1>3. ~ Idle /\ Idle' /\ base.sound \in BOOLEAN /\ base'.sound \in BOOLEAN
  BY <1>1 DEF Facts
<1>4. StoreTarget' = NULL
  BY <1>3 DEF StoreTarget
<1>5. CASE base.sound /\ base.faults = 0
  <2>1. Promised /\ Promised' /\ Stored(dev, len)' = Stored(dev, len)
    BY <1>1, <1>2, <1>5 DEF Facts
  <2>2. StoreVal' = StoreVal
    BY <2>1 DEF StoreVal
  <2>3. base'.sound = base.sound
    BY <1>2, <1>3, <1>5
  <2>4. Store!Crash
    BY <1>2, <1>3, <1>4, <1>5, <2>2, <2>3 DEF Store!Crash, StoreVal, StoreTarget
  <2>5. QED
    BY <2>4 DEF StoreStep, Store!StoreNext
<1>6. CASE ~ (base.sound /\ base.faults = 0)
  <2>1. ~ Promised' /\ ~ (base.sound /\ ~ (base.faults > 0))
    BY <1>1, <1>2, <1>6 DEF Facts
  <2>2. StoreVal' = NULL
    BY <2>1 DEF StoreVal
  <2>3. Store!Crash
    BY <1>2, <1>3, <1>4, <1>6, <2>1, <2>2 DEF Store!Crash, StoreVal, StoreTarget, Idle
  <2>4. QED
    BY <2>3 DEF StoreStep, Store!StoreNext
<1>7. QED
  BY <1>5, <1>6

(* A write is lost on the way. *)
LEMMA RefusesStore ==
    ASSUME IInv, IInv', next # 0, next' # 0, Fault(FALSE)
    PROVE  StoreStep
<1>1. Facts /\ Facts'
  BY FactsBefore, FactsAfter
<1>2. /\ base'.faults = 1
      /\ base.sound /\ base.faults = 0 => base'.sound /\ base'.new = base.new
      /\ ~ (base.sound /\ base.faults = 0) => ~ base'.sound /\ base'.new = NULL
  BY FaultKeeps
<1>3. /\ ~ Idle /\ ~ Idle' /\ base.sound \in BOOLEAN /\ base'.sound \in BOOLEAN
      /\ ~ Promised' /\ base.faults \in {0, 1}
  BY <1>1, <1>2 DEF Facts
<1>4. StoreVal' = NULL /\ StoreTarget' = base'.new /\ StoreTarget = base.new
  BY <1>3 DEF StoreVal, StoreTarget
<1>5. Store!Refused
  <2>1. CASE base.sound /\ base.faults = 0
    <3>1. base'.sound = base.sound
      BY <1>2, <1>3, <2>1
    <3>2. QED
      BY <1>2, <1>3, <1>4, <2>1, <3>1 DEF Store!Refused, StoreVal, StoreTarget, Idle
  <2>2. CASE ~ (base.sound /\ base.faults = 0)
    BY <1>2, <1>3, <1>4, <2>2 DEF Store!Refused, StoreVal, StoreTarget, Idle
  <2>3. QED
    BY <2>1, <2>2
<1>6. QED
  BY <1>5 DEF StoreStep, Store!StoreNext

(* One write more: the table changes for a reader at most once, from the   *)
(* old to the new.                                                         *)
LEMMA WritesStore ==
    ASSUME IInv, IInv', Write
    PROVE  StoreStep
<1>1. Facts /\ Facts'
  BY FactsBefore, FactsAfter
<1>2. /\ next # 0 /\ base' = base /\ mem' = mem /\ len' = len
      /\ dev' = [dev EXCEPT ![gpt_write(mem)[next].at] = gpt_write(mem)[next].what]
      /\ next' = IF next = NWrites THEN 0 ELSE next + 1
  BY DEF Write, Advance
<1>3. /\ len \in Len0 .. MaxLen /\ next \in 1 .. NWrites /\ Placed(dev, len)
      /\ Fitting(mem, len) /\ ~ Idle /\ StoreTarget = base.new
      /\ base.sound => base.new = mem.table /\ ~ base.cut
      /\ base.faults = 1 /\ ~ base.sound => base.new = NULL
  BY <1>1, <1>2, Sizes DEF IInv, MemPlaced, Facts, Accounts, StoreTarget
<1>4. CASE next' = 0
  <2>1. Idle' /\ StoreTarget' = NULL
    BY <1>1, <1>4 DEF Facts, StoreTarget
  <2>2. StoreVal' = base.new
    BY <1>1, <1>2, <1>3, <1>4 DEF Facts, StoreVal
  <2>3. Store!End
    BY <1>2, <1>3, <2>1, <2>2 DEF Store!End, StoreVal, StoreTarget
  <2>4. QED
    BY <2>3 DEF StoreStep, Store!StoreNext
<1>5. CASE next' # 0
  <2>1. ~ Idle' /\ StoreTarget' = StoreTarget
    BY <1>1, <1>2, <1>3, <1>5 DEF Facts, StoreTarget
  <2>2. CASE ~ (base.sound /\ base.faults = 0)
    <3>1. ~ Promised /\ ~ Promised'
      BY <1>1, <1>2, <1>5, <2>2 DEF Facts
    <3>2. SameStore
      BY <1>2, <1>3, <2>1, <3>1 DEF SameStore, StoreVal, Idle
    <3>3. QED
      BY <3>2, StuttersStore
  <2>3. CASE base.sound /\ base.faults = 0
    <3>1. /\ Promised /\ Promised' /\ base.old \in Tables /\ base.new \in Tables
          /\ base.new = mem.table
      BY <1>1, <1>2, <1>3, <1>5, <2>3 DEF Facts
    <3>2. /\ StoreVal = IF dev[1].crc = base.new /\ ArrayIs(dev, base.new)
                        THEN base.new ELSE base.old
          /\ StoreVal' = IF dev'[1].crc = base.new /\ ArrayIs(dev', base.new)
                         THEN base.new ELSE base.old
      BY <1>1, <1>2, <1>5, <2>3, <3>1 DEF Facts, StoreVal
    <3>3. Effect(dev, mem, next, dev')
      BY <1>2, <1>3, OneWrite
    <3>4. dev[1].crc = base.new => dev'[1].crc = base.new
      BY <1>3, <3>1, <3>3, Headers DEF Effect
    <3>5. ArrayIs(dev, base.new) => ArrayIs(dev', base.new)
      BY <1>3, <3>1, <3>3, CoveredNext
    <3>6. CASE StoreVal' = StoreVal
      <4>1. SameStore
        BY <1>2, <1>3, <2>1, <3>6 DEF SameStore, Idle
      <4>2. QED
        BY <4>1, StuttersStore
    <3>7. CASE StoreVal' = base.new /\ StoreVal # NULL
      <4>1. Store!Switch
        BY <1>2, <1>3, <2>1, <3>7 DEF Store!Switch, StoreVal, StoreTarget
      <4>2. QED
        BY <4>1 DEF StoreStep, Store!StoreNext
    <3>8. base.old # NULL /\ base.new # NULL
      BY <3>1, NullAssumption
    <3>9. QED
      BY <3>2, <3>4, <3>5, <3>6, <3>7, <3>8
  <2>4. QED
    BY <2>2, <2>3
<1>6. QED
  BY <1>4, <1>5

(* Steps that only set the program's own memory do not show. *)
LEMMA QuietStore ==
    ASSUME IInv, IInv', next' = next, base' = base,
           Stored(dev, len)' = Stored(dev, len) \/ ~ Promised
    PROVE  StoreStep
<1>1. Facts /\ Facts'
  BY FactsBefore, FactsAfter
<1>2. (Idle <=> Idle') /\ (Promised <=> Promised')
  BY <1>1 DEF Facts
<1>3. StoreVal' = StoreVal /\ StoreTarget' = StoreTarget
  BY <1>2 DEF StoreVal, StoreTarget
<1>4. SameStore
  BY <1>2, <1>3 DEF SameStore, Idle
<1>5. QED
  BY <1>4, StuttersStore

(* Every step of the commits is a step of the register. *)
LEMMA NextStore ==
    ASSUME IInv, IInv', [Next]_vars
    PROVE  StoreStep
<1>1. Facts /\ Facts'
  BY FactsBefore, FactsAfter
<1>2. base'.faults = 0 => base'.new \in Tables
  BY DEF IInv, Accounts
<1>3. ASSUME NEW fb \in BOOLEAN, NEW fs \in BOOLEAN, Read(fb, fs)
      PROVE  StoreStep
  <2>1. /\ next = 0 /\ dev' = dev /\ len' = len
        /\ \/ next' = 0 /\ base' = base
           \/ next' = 1 /\ base'.faults = 0
    BY <1>1, <1>3 DEF Read, Facts, Base
  <2>2. QED
    BY <1>2, <2>1, QuietStore, BeginsStore
<1>4. ASSUME NEW t \in Tables, Commit(t)
      PROVE  StoreStep
  <2>1. next = 0 /\ dev' = dev /\ len' = len /\ next' = 1 /\ base'.faults = 0
    BY <1>1, <1>4 DEF Commit, Facts, Base
  <2>2. QED
    BY <1>2, <2>1, BeginsStore
<1>5. ASSUME NEW t \in Tables, CommitFresh(t)
      PROVE  StoreStep
  <2>1. next = 0 /\ dev' = dev /\ len' = len /\ next' = 1 /\ base'.faults = 0
    BY <1>1, <1>5 DEF CommitFresh, Facts, Base
  <2>2. QED
    BY <1>2, <2>1, BeginsStore
<1>6. CASE Clear
  <2>1. wipe # <<>> /\ next' = next /\ base' = base /\ next # 0
    BY <1>6 DEF Clear, IInv, WipePlaced
  <2>2. ~ base.sound
    BY <2>1 DEF IInv, WipePlaced
  <2>3. ~ Promised
    BY <1>1, <2>1, <2>2 DEF Facts
  <2>4. QED
    BY <2>1, <2>3, QuietStore
<1>7. CASE Write
  BY <1>7, WritesStore
<1>8. CASE LoseWrite
  <2>1. next # 0 /\ Fault(FALSE) /\ dev' = dev /\ len' = len
    BY <1>8 DEF LoseWrite
  <2>2. FALSE \in BOOLEAN
    OBVIOUS
  <2>3. CASE next' = 0
    BY <2>1, <2>2, <2>3, CrashesStore
  <2>4. CASE next' # 0
    BY <2>1, <2>4, RefusesStore
  <2>5. QED
    BY <2>3, <2>4
<1>9. CASE PowerLoss
  <2>1. next # 0 /\ next' = 0 /\ Fault(TRUE) /\ dev' = dev /\ len' = len
    BY <1>1, <1>9 DEF PowerLoss, Facts
  <2>2. TRUE \in BOOLEAN
    OBVIOUS
  <2>3. QED
    BY <2>1, <2>2, CrashesStore
<1>10. CASE Quit
  BY <1>10, QuietStore DEF Quit
<1>11. CASE Grow
  <2>1. /\ next = 0 /\ next' = next /\ dev' = dev /\ len' \in len + 1 .. MaxLen
        /\ base' = (IF base.faults = 0 \/ Primary(dev) THEN base ELSE Forgotten)
        /\ len \in Len0 .. MaxLen
    BY <1>11 DEF Grow, IInv, MemPlaced
  <2>2. CASE base.faults = 0 \/ Primary(dev)
    <3>1. len' \in len .. MaxLen
      BY <2>1, Sizes
    <3>2. Stored(dev, len') = Stored(dev, len)
      BY <2>1, <2>2, <3>1, GrownSame
    <3>3. QED
      BY <2>1, <2>2, <3>2, QuietStore
  <2>3. CASE ~ (base.faults = 0 \/ Primary(dev))
    <3>1. /\ base'.sound = FALSE /\ base'.faults = 1 /\ base.faults = 1
      BY <1>1, <2>1, <2>3 DEF Forgotten, Facts
    <3>2. Idle /\ Idle' /\ ~ Promised'
      BY <1>1, <2>1, <3>1 DEF Facts
    <3>3. StoreVal' = NULL /\ StoreTarget' = NULL /\ StoreTarget = NULL
      BY <3>2 DEF StoreVal, StoreTarget
    <3>4. Store!Grow
      BY <3>1, <3>2, <3>3 DEF Store!Grow, StoreVal, StoreTarget, Idle
    <3>5. QED
      BY <3>4 DEF StoreStep, Store!StoreNext
  <2>4. QED
    BY <2>2, <2>3
<1>12. CASE UNCHANGED vars
  BY <1>12, QuietStore DEF vars
<1>13. QED
  BY <1>3, <1>4, <1>5, <1>6, <1>7, <1>8, <1>9, <1>10, <1>11, <1>12 DEF Next

(* The two copies and the order of gpt_write make one register of the      *)
(* table: GptCommit implements TableStore.                                 *)
THEOREM Refinement == Spec => AtomicTable
<1>1. Init => Store!StoreInit
  <2> SUFFICES ASSUME Init PROVE Store!StoreInit
    OBVIOUS
  <2>1. next = 0 /\ base.faults = 0 /\ base.sound = FALSE
    BY DEF Init, Base
  <2>2. Facts
    BY InitIInv, FactsBefore
  <2>3. Idle /\ Promised /\ Stored(dev, len) \in Tables
    BY <2>1, <2>2 DEF Facts
  <2>4. QED
    BY <2>1, <2>3 DEF Store!StoreInit
<1>2. IInv /\ IInv' /\ [Next]_vars => StoreStep
  BY NextStore
<1>3. QED
  BY <1>1, <1>2, Invariance, PTL DEF Spec, AtomicTable, Store!StoreSpec, StoreStep

=============================================================================
