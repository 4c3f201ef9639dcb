-------------------------- MODULE UserInputProofs --------------------------
(***************************************************************************)
(* The region do_mkpart asks for, for every device, every unit, whatever   *)
(* is typed and however the disk is divided: it is in the ranges that were *)
(* typed, on the device and in order, and ends right before a location     *)
(* that was typed in IEC units.                                            *)
(*                                                                         *)
(* Reading yields a location and a range around it (ParseIs), snapping     *)
(* keeps both ends in their ranges and in order (SnapIs); the invariant    *)
(* carries the ranges from the one to the other.                           *)
(***************************************************************************)
EXTENDS UserInput, TLAPS

Device == 0 .. DevLength - 1

(* A location and the range that is accepted for it.                       *)
Around(p) ==
    /\ p.sector \in Device /\ p.range.start \in Device /\ p.range.end \in Device
    /\ ped_geometry_test_sector_inside(p.range, p.sector)

Exactly(sector) == [start |-> sector, end |-> sector]

(***************************************************************************)
(* Units.                                                                  *)
(***************************************************************************)

(* What \div is, for a positive divisor.                                   *)
LEMMA Div ==
    ASSUME NEW a \in Nat, NEW b \in Nat \ {0}
    PROVE  /\ a \div b \in Nat /\ b * (a \div b) <= a /\ a < b * (a \div b) + b
           /\ b <= a => a \div b # 0
  BY SMT

(* A product of counts is a count.                                         *)
LEMMA Times ==
    ASSUME NEW a \in Nat, NEW b \in Nat
    PROVE  /\ a * b \in Nat
           /\ a # 0 /\ b # 0 => a * b # 0
  BY SMT

(* The device has a length and its sectors a size.                         *)
LEMMA Counts == DevLength \in Nat \ {0} /\ SectorSize \in Nat \ {0}
  BY UserInputAssumption

(* Every unit has a size.                                                  *)
LEMMA SizeIs ==
    ASSUME NEW u \in Units
    PROVE  ped_unit_get_size(u) \in Nat \ {0}
<1>1. CASE u \in {"s", "chs"}
  <2>1. ped_unit_get_size(u) = SectorSize
    BY <1>1 DEF ped_unit_get_size
  <2>2. QED
    BY <2>1, UserInputAssumption
<1>2. CASE u = "cyl"
  <2>1. ped_unit_get_size(u) = Heads * Sectors * SectorSize
    BY <1>2, Zenon DEF ped_unit_get_size
  <2>2. Heads * Sectors \in Nat \ {0}
    BY UserInputAssumption, Times
  <2>3. Heads * Sectors * SectorSize \in Nat \ {0}
    BY <2>2, UserInputAssumption, Times
  <2>4. QED
    BY <2>1, <2>3
<1>3. CASE u = "%"
  <2>1. ped_unit_get_size(u) = (DevLength * SectorSize) \div Hundred
    BY <1>3, Zenon DEF ped_unit_get_size
  <2>2. DevLength * SectorSize \in Nat
    BY UserInputAssumption, Times
  <2>3. QED
    BY <2>1, <2>2, UserInputAssumption, Div
<1>4. CASE u \notin {"s", "chs", "cyl", "%"}
  <2>1. u \in DOMAIN Bytes
    BY <1>4 DEF Units
  <2>2. ped_unit_get_size(u) = Bytes[u]
    BY <1>4, Zenon DEF ped_unit_get_size
  <2>3. QED
    BY <2>1, <2>2, UserInputAssumption
<1>5. QED
  BY <1>1, <1>2, <1>3, <1>4

(* The unit a text is read in.                                             *)
LEMMA UnitIs ==
    ASSUME NEW text \in NumberText, NEW u \in Defaults
    PROVE  /\ parse_unit_suffix(text.suffix, u) \in Units
           /\ text.suffix # "" => parse_unit_suffix(text.suffix, u) = text.suffix
<1>1. text.suffix \in Units \cup {""} /\ u \in Units \cup {"compact"} /\ "kB" \in Units
  BY UserInputAssumption DEF NumberText, Units
<1>2. QED
  BY <1>1 DEF parse_unit_suffix

(* Rounding to a number of digits.                                         *)
LEMMA RoundIs ==
    ASSUME NEW n \in Nat, NEW step \in Nat \ {0}
    PROVE  RoundTo(n, step) \in Nat
<1>1. step \div 2 \in Nat
  BY Div
<1>2. (n + step \div 2) \div step \in Nat
  BY <1>1, Div
<1>3. QED
  BY <1>2, Times DEF RoundTo

(* What is printed can be typed.                                           *)
LEMMA FormatIs ==
    ASSUME NEW byte \in Nat, NEW u \in Defaults
    PROVE  ped_unit_format_custom_byte(byte, u) \in NumberText
<1> DEFINE custom == IF u # "compact" THEN u
                     ELSE IF byte >= 10 * Bytes["kB"] THEN "kB" ELSE "B"
           size == ped_unit_get_size(custom)
           step == IF 100 * byte < 995 * size THEN 1
                   ELSE IF 10 * byte < 995 * size THEN 10 ELSE 100
           plain == 100 * (byte \div size)
           round == RoundTo((200 * byte + size) \div (2 * size), step)
<1>1. custom \in Units
  BY UserInputAssumption DEF Units
<1>2. size \in Nat \ {0}
  BY <1>1, SizeIs
<1>3. step \in Nat \ {0}
  OBVIOUS
<1> HIDE DEF custom, size, step
<1>4. plain \in Nat
  BY <1>2, Div
<1>5. round \in Nat
  <2>1. 2 * size \in Nat \ {0} /\ 200 * byte + size \in Nat
    BY <1>2
  <2>2. (200 * byte + size) \div (2 * size) \in Nat
    BY <2>1, Div
  <2>3. QED
    BY <1>3, <2>2, RoundIs
<1> HIDE DEF plain, round
<1>6. ped_unit_format_custom_byte(byte, u) =
        IF u \in {"chs", "cyl", "s", "B"}
        THEN [num |-> plain, neg |-> FALSE, suffix |-> custom]
        ELSE [num |-> round, neg |-> FALSE, suffix |-> custom]
  BY Zenon DEF ped_unit_format_custom_byte, plain, round, custom, size, step
<1>7. [num |-> plain, neg |-> FALSE, suffix |-> custom] \in NumberText
  BY <1>1, <1>4 DEF NumberText
<1>8. [num |-> round, neg |-> FALSE, suffix |-> custom] \in NumberText
  BY <1>1, <1>5 DEF NumberText
<1>9. QED
  BY <1>6, <1>7, <1>8

(***************************************************************************)
(* Reading.                                                                *)
(***************************************************************************)

(* Clipping moves a sector onto the device and keeps the order.            *)
LEMMA ClipIs ==
    ASSUME NEW a \in Int
    PROVE  /\ clip(a) \in Device
           /\ \A b \in Int : a <= b => clip(a) <= clip(b)
<1>1. DevLength \in Nat \ {0}
  BY Counts
<1>2. clip(a) \in Device
  BY <1>1 DEF clip, Device
<1>3. ASSUME NEW b \in Int, a <= b PROVE clip(a) <= clip(b)
  BY <1>1, <1>3 DEF clip
<1>4. QED
  BY <1>2, <1>3

(* The range around a centre on the device or near it.                     *)
LEMMA RangeIs ==
    ASSUME NEW sector \in Int, NEW radius \in Nat,
           geometry_from_centre_radius(sector, radius) # NULL
    PROVE  /\ Around([sector |-> clip(sector),
                      range |-> geometry_from_centre_radius(sector, radius)])
           /\ radius = 0 =>
                 geometry_from_centre_radius(sector, radius) = Exactly(clip(sector))
<1> DEFINE s == clip(sector - radius)
           e == clip(sector + radius)
           range == geometry_from_centre_radius(sector, radius)
<1>1. range = [start |-> s, end |-> e]
  BY DEF geometry_from_centre_radius
<1>2. /\ clip(sector) \in Device /\ s \in Device /\ e \in Device
      /\ s <= clip(sector) /\ clip(sector) <= e
  BY ClipIs
<1>3. radius = 0 => s = clip(sector) /\ e = clip(sector)
  OBVIOUS
<1> HIDE DEF s, e
<1>4. QED
  BY <1>1, <1>2, <1>3 DEF Around, Exactly, ped_geometry_test_sector_inside

(* The radius is a number of sectors, none in IEC units.                   *)
LEMMA RadiusIs ==
    ASSUME NEW u \in Units
    PROVE  Radius(u) \in Nat /\ (u \in IEC => Radius(u) = 0)
<1> DEFINE sectors == (ped_unit_get_size(u) + SectorSize - 1) \div SectorSize
<1>1. ped_unit_get_size(u) + SectorSize - 1 \in Nat
  <2>1. ped_unit_get_size(u) \in Nat \ {0}
    BY SizeIs
  <2>2. QED
    BY <2>1, Counts
<1>2. sectors \in Nat
  BY <1>1, Counts, Div
<1>3. sectors \div 2 \in Nat
  BY <1>2, Div
<1>4. QED
  BY <1>3 DEF Radius

(* A text that is accepted names a location and a range around it: the     *)
(* location alone in IEC units.                                            *)
LEMMA ParseIs ==
    ASSUME NEW text \in NumberText, NEW u \in Defaults, ped_unit_parse_custom(text, u) # NULL
    PROVE  /\ Around(ped_unit_parse_custom(text, u))
           /\ ends_with_iec_unit(text) =>
                 ped_unit_parse_custom(text, u).range
                     = Exactly(ped_unit_parse_custom(text, u).sector)
<1> DEFINE in == parse_unit_suffix(text.suffix, u)
           size == ped_unit_get_size(in)
           distance == (text.num * size) \div (100 * SectorSize)
           sector == IF text.neg THEN DevLength - distance ELSE distance
           range == geometry_from_centre_radius(sector, Radius(in))
           p == ped_unit_parse_custom(text, u)
<1>1. in \in Units /\ (text.suffix # "" => in = text.suffix)
  BY UnitIs
<1>2. text.num \in Nat
  BY DEF NumberText
<1>3. sector \in Int
  <2>1. size \in Nat
    BY <1>1, SizeIs
  <2> HIDE DEF in, size
  <2>2. text.num * size \in Nat /\ 100 * SectorSize \in Nat \ {0}
    BY <1>2, <2>1, Times, Counts
  <2>3. distance \in Nat
    BY <2>2, Div
  <2> HIDE DEF distance
  <2>4. QED
    BY <2>3, Counts
<1>4. Radius(in) \in Nat /\ (in \in IEC => Radius(in) = 0)
  BY <1>1, RadiusIs
<1>5. p = IF in = "chs" THEN parse_chs(text.num \div 100)
          ELSE IF (~text.neg /\ text.num > 0 /\ text.num < 100) \/ range = NULL THEN NULL
          ELSE [sector |-> clip(sector), range |-> range]
  BY DEF ped_unit_parse_custom
<1> HIDE DEF in, sector
<1>6. CASE in = "chs"
  <2> DEFINE at == text.num \div 100
  <2>1. at \in Nat
    BY <1>2, Div
  <2> HIDE DEF at
  <2>2. p = parse_chs(at)
    BY <1>5, <1>6 DEF at
  <2>3. ~ (at >= DevLength) /\ p = [sector |-> at, range |-> Exactly(at)]
    BY <2>2 DEF parse_chs, Exactly
  <2>4. at \in Device
    BY <2>1, <2>3, Counts DEF Device
  <2>5. Around([sector |-> at, range |-> Exactly(at)])
    BY <2>1, <2>4 DEF Around, Exactly, ped_geometry_test_sector_inside
  <2>6. QED
    BY <2>3, <2>5
<1>7. CASE in # "chs"
  <2>1. range # NULL /\ p = [sector |-> clip(sector), range |-> range]
    BY <1>5, <1>7
  <2>2. Around(p) /\ (Radius(in) = 0 => range = Exactly(clip(sector)))
    BY <1>3, <1>4, <2>1, RangeIs
  <2>3. text.suffix \in IEC => in \in IEC
    BY <1>1 DEF IEC
  <2>4. QED
    BY <1>4, <2>1, <2>2, <2>3 DEF ends_with_iec_unit
<1>8. QED
  BY <1>6, <1>7

(***************************************************************************)
(* Snapping.                                                               *)
(***************************************************************************)

(* A preferred place is in the range, and a wish tells which one it is.    *)
LEMMA PreferIs ==
    ASSUME NEW s \in Int, NEW what \in Int, NEW range, NEW allow \in SUBSET {"up", "down"},
           NEW part, part.start \in Int, part.end \in Int,
           ped_geometry_test_sector_inside(range, s),
           NEW w, w = prefer_snap(s, what, range, allow, part)
    PROVE  /\ ped_geometry_test_sector_inside(range, w.to)
           /\ w.want \in allow \cup {"still"}
           /\ w.want = "still" => w.to = s
           /\ w.want = "up" => w.to = part.end + 1 + what
           /\ w.want = "down" => w.to = part.start + what
<1> DEFINE up == part.end + 1 + what
           down == part.start + what
           Fits(m) == ped_geometry_test_sector_inside(range, IF m = "up" THEN up ELSE down)
           can == {m \in allow : Fits(m)}
           updist == up - s
           downdist == s - down
           nearer == downdist < updist \/ (downdist = updist /\ what = 0)
           want == CASE can = {} -> "still"
                     [] can = {"up"} -> "up"
                     [] can = {"down"} -> "down"
                     [] OTHER -> IF nearer THEN "down" ELSE "up"
           dist == CASE want = "up" -> updist [] want = "down" -> downdist [] OTHER -> 0
           to == CASE want = "up" -> up [] want = "down" -> down [] OTHER -> s
<1>1. w = [want |-> want, dist |-> dist, to |-> to]
  BY Zenon DEF prefer_snap
<1>2. can \subseteq allow /\ can \subseteq {"up", "down"} /\ \A m \in can : Fits(m)
  OBVIOUS
<1> HIDE DEF can, nearer
<1>3. can = {} \/ can = {"up"} \/ can = {"down"} \/ ("up" \in can /\ "down" \in can)
  BY <1>2
<1>4. want \in can \/ (can = {} /\ want = "still")
  <2>1. CASE can = {}
    <3>1. want = "still"
      BY <2>1, Zenon
    <3>2. QED
      BY <2>1, <3>1
  <2>2. CASE can = {"up"}
    <3>1. can # {} /\ can # {"down"}
      BY <2>2
    <3>2. want = "up"
      BY <2>2, <3>1, Zenon
    <3>3. QED
      BY <2>2, <3>2
  <2>3. CASE can = {"down"}
    <3>1. can # {} /\ can # {"up"}
      BY <2>3
    <3>2. want = "down"
      BY <2>3, <3>1, Zenon
    <3>3. QED
      BY <2>3, <3>2
  <2>4. CASE "up" \in can /\ "down" \in can
    <3>1. can # {} /\ can # {"up"} /\ can # {"down"}
      BY <2>4
    <3>2. want = IF nearer THEN "down" ELSE "up"
      BY <3>1, Zenon
    <3>3. QED
      BY <2>4, <3>2
  <2>5. QED
    BY <1>3, <2>1, <2>2, <2>3, <2>4
<1> HIDE DEF want
<1>5. want = "up" => to = up
  BY Zenon
<1>6. want = "down" => to = down
  <2>1. "down" # "up"
    OBVIOUS
  <2>2. QED
    BY <2>1, Zenon
<1>7. want = "still" => to = s
  <2>1. "still" # "up" /\ "still" # "down"
    OBVIOUS
  <2>2. QED
    BY <2>1, Zenon
<1> HIDE DEF to, up, down, dist
<1>8. w.want = want /\ w.to = to
  BY <1>1
<1>9. want \in can => Fits(want) /\ want \in {"up", "down"} /\ want \in allow
  BY <1>2
<1>10. ped_geometry_test_sector_inside(range, to)
  <2>1. CASE want = "up"
    BY <1>4, <1>5, <1>9, <2>1
  <2>2. CASE want = "down"
    BY <1>4, <1>6, <1>9, <2>2
  <2>3. CASE want = "still"
    BY <1>7, <2>3
  <2>4. QED
    BY <1>4, <1>9, <2>1, <2>2, <2>3
<1>11. QED
  BY <1>4, <1>5, <1>6, <1>7, <1>8, <1>9, <1>10 DEF up, down

(* A sector of the device is in one of the regions.                        *)
LEMMA ByIs ==
    ASSUME tiles \in Layouts, NEW sector \in Device
    PROVE  By(sector) \in DOMAIN tiles /\ ped_geometry_test_sector_inside(tiles[By(sector)], sector)
<1>1. \E i \in DOMAIN tiles : ped_geometry_test_sector_inside(tiles[i], sector)
  BY UserInputAssumption DEF Tiled, Device
<1>2. QED
  BY <1>1 DEF By

(* Regions are on the device, and two of them are one or lie apart.        *)
LEMMA TilesAre ==
    ASSUME tiles \in Layouts, NEW i \in DOMAIN tiles, NEW j \in DOMAIN tiles
    PROVE  /\ tiles[i].start \in Device /\ tiles[i].end \in Device /\ tiles[i].start <= tiles[i].end
           /\ \/ tiles[i] = tiles[j]
              \/ tiles[i].end < tiles[j].start
              \/ tiles[j].end < tiles[i].start
<1>1. Tiled(tiles)
  BY UserInputAssumption
<1>2. \A k \in DOMAIN tiles :
        tiles[k].start \in Device /\ tiles[k].end \in Device /\ tiles[k].start <= tiles[k].end
  BY <1>1 DEF Tiled, Device
<1>3. ped_geometry_test_overlap(tiles[i], tiles[j]) => i = j
  BY <1>1 DEF Tiled
<1>4. /\ tiles[i].start \in Int /\ tiles[i].end \in Int
      /\ tiles[j].start \in Int /\ tiles[j].end \in Int
  BY <1>2 DEF Device
<1>5. QED
  BY <1>2, <1>3, <1>4 DEF ped_geometry_test_overlap

(* Snapping keeps both ends in their ranges, on the device and in order.   *)
LEMMA SnapIs ==
    ASSUME tiles \in Layouts, NEW s \in Device, NEW e \in Device, s <= e,
           NEW rs, ped_geometry_test_sector_inside(rs, s),
           NEW re, ped_geometry_test_sector_inside(re, e),
           NEW n, n = snap_to_boundaries(s, e, rs, re)
    PROVE  /\ ped_geometry_test_sector_inside(rs, n.start)
           /\ ped_geometry_test_sector_inside(re, n.end)
           /\ n.start \in Int /\ n.end \in Int
           /\ 0 <= n.start /\ n.start <= n.end /\ n.end < DevLength
<1> DEFINE sp == tiles[By(s)]
           ep == tiles[By(e)]
           same == sp = ep
           sallow == IF same THEN {"down"} ELSE {"up", "down"}
           eallow == IF same THEN {"up"} ELSE {"up", "down"}
           sw == prefer_snap(s, 0, rs, sallow, sp)
           ew == prefer_snap(e, -1, re, eallow, ep)
           sd == prefer_snap(s, 0, rs, {"down"}, sp)
           eu == prefer_snap(e, -1, re, {"up"}, ep)
           crossing == sp.end + 1 = ep.start /\ sw.want = "up" /\ ew.want = "down"
           back == ew.dist < sw.dist
           sw2 == IF crossing /\ back THEN sd ELSE sw
           ew2 == IF crossing /\ ~back THEN eu ELSE ew
<1>1. n = [start |-> sw2.to, end |-> ew2.to]
  BY Zenon DEF snap_to_boundaries
<1>2. /\ sp.start \in Device /\ sp.end \in Device /\ ep.start \in Device /\ ep.end \in Device
      /\ sp.start <= s /\ s <= sp.end /\ ep.start <= e /\ e <= ep.end
      /\ same \/ sp.end < ep.start \/ ep.end < sp.start
  BY ByIs, TilesAre DEF ped_geometry_test_sector_inside
<1>3. /\ sallow \in SUBSET {"up", "down"} /\ eallow \in SUBSET {"up", "down"}
      /\ "up" \in sallow => ~same
      /\ "down" \in eallow => ~same
  OBVIOUS
<1>4. /\ s \in Int /\ sp.start \in Int /\ sp.end \in Int
      /\ e \in Int /\ ep.start \in Int /\ ep.end \in Int
      /\ 0 <= s /\ 0 <= sp.start /\ e < DevLength /\ ep.end < DevLength /\ DevLength \in Int
  BY <1>2, Counts DEF Device
<1> HIDE DEF sp, ep, same, sallow, eallow
<1>5. /\ ped_geometry_test_sector_inside(rs, sw.to)
      /\ sw.want \in sallow \cup {"still"}
      /\ sw.want = "still" => sw.to = s
      /\ sw.want = "up" => sw.to = sp.end + 1
      /\ sw.want = "down" => sw.to = sp.start
  <2>1. /\ ped_geometry_test_sector_inside(rs, sw.to)
        /\ sw.want \in sallow \cup {"still"}
        /\ sw.want = "still" => sw.to = s
        /\ sw.want = "up" => sw.to = sp.end + 1 + 0
        /\ sw.want = "down" => sw.to = sp.start + 0
    BY <1>3, <1>4, PreferIs
  <2> HIDE DEF sw
  <2>2. QED
    BY <1>4, <2>1
<1>6. /\ ped_geometry_test_sector_inside(re, ew.to)
      /\ ew.want \in eallow \cup {"still"}
      /\ ew.want = "still" => ew.to = e
      /\ ew.want = "up" => ew.to = ep.end
      /\ ew.want = "down" => ew.to = ep.start - 1
  <2>1. /\ ped_geometry_test_sector_inside(re, ew.to)
        /\ ew.want \in eallow \cup {"still"}
        /\ ew.want = "still" => ew.to = e
        /\ ew.want = "up" => ew.to = ep.end + 1 + (-1)
        /\ ew.want = "down" => ew.to = ep.start + (-1)
    BY <1>3, <1>4, PreferIs
  <2> HIDE DEF ew
  <2>2. QED
    BY <1>4, <2>1
<1>7. ped_geometry_test_sector_inside(rs, sd.to) /\ sd.to \in {s, sp.start}
  <2>1. /\ ped_geometry_test_sector_inside(rs, sd.to)
        /\ sd.want \in {"down"} \cup {"still"}
        /\ sd.want = "still" => sd.to = s
        /\ sd.want = "down" => sd.to = sp.start + 0
    BY <1>4, PreferIs
  <2> HIDE DEF sd
  <2>2. QED
    BY <1>4, <2>1
<1>8. ped_geometry_test_sector_inside(re, eu.to) /\ eu.to \in {e, ep.end}
  <2>1. /\ ped_geometry_test_sector_inside(re, eu.to)
        /\ eu.want \in {"up"} \cup {"still"}
        /\ eu.want = "still" => eu.to = e
        /\ eu.want = "up" => eu.to = ep.end + 1 + (-1)
    BY <1>4, PreferIs
  <2> HIDE DEF eu
  <2>2. QED
    BY <1>4, <2>1
<1> HIDE DEF sw, ew, sd, eu, back
<1>9. /\ IF sw.want = "up" THEN sw.to = sp.end + 1 /\ ~same ELSE sw.to \in {s, sp.start}
      /\ IF ew.want = "down" THEN ew.to = ep.start - 1 /\ ~same ELSE ew.to \in {e, ep.end}
  BY <1>3, <1>5, <1>6
<1>10. n.start = sw2.to /\ n.end = ew2.to
  BY <1>1
<1>11. /\ ped_geometry_test_sector_inside(rs, n.start)
       /\ ped_geometry_test_sector_inside(re, n.end)
  BY <1>5, <1>6, <1>7, <1>8, <1>10
<1>12. /\ n.start \in {s, sp.start} \/ (n.start = sp.end + 1 /\ ~same)
       /\ n.end \in {e, ep.end} \/ (n.end = ep.start - 1 /\ ~same)
       /\ \/ n.start \in {s, sp.start}
          \/ n.end \in {e, ep.end}
          \/ sp.end + 1 # ep.start
  BY <1>7, <1>8, <1>9, <1>10
<1> HIDE DEF sw2, ew2, crossing
<1>13. n.start \in Int /\ n.end \in Int /\ 0 <= n.start /\ n.end < DevLength
  BY <1>2, <1>4, <1>12
<1>14. ~same => sp.end < ep.start
  BY <1>2, <1>4
<1>15. n.start <= n.end
  BY <1>2, <1>4, <1>12, <1>14
<1>16. QED
  BY <1>11, <1>13, <1>15

(***************************************************************************)
(* The inductive invariant.                                                *)
(***************************************************************************)

(* The end typed is in its range, which is the sector before the location  *)
(* when that was typed in IEC units and is not the start.                  *)
EndTyped ==
    /\ end \in Int /\ end <= DevLength - 1
    /\ range_end.start \in Int /\ range_end.end \in Int
    /\ ped_geometry_test_sector_inside(range_end, end)
    /\ ends_with_iec_unit(typed) =>
          \E next \in {ped_unit_parse_custom(typed, unit).sector} :
             next \in Device /\ (start # next => range_end = Exactly(next - 1))

Chosen == unit \in Defaults /\ tiles \in Layouts
Region == retyped = NULL \/ \E i \in DOMAIN tiles : retyped = tiles[i]
StartTyped == Around([sector |-> start, range |-> range_start])
Placed == start <= end /\ new = snap_to_boundaries(start, end, range_start, range_end)

InputInv ==
    /\ Chosen /\ Region
    /\ stage \in {"end", "snap", "done"} => StartTyped
    /\ stage \in {"snap", "done"} => EndTyped
    /\ stage = "done" => Placed

(* Nothing is typed at first.                                              *)
LEMMA InputInitInv == InputInit => InputInv
  BY DEF InputInit, InputInv, Chosen, Region

(* A start that is read is on the device and in its range.                 *)
LEMMA StartKeeps ==
    ASSUME InputInv, NEW text \in NumberText, TypeStart(text),
           retyped' = retyped \/ \E i \in DOMAIN tiles : retyped' = tiles[i]
    PROVE  InputInv'
<1>1. Chosen' /\ Region' /\ unit \in Defaults
  BY DEF InputInv, Chosen, Region, TypeStart
<1>2. CASE stage' = "error"
  BY <1>1, <1>2 DEF InputInv
<1>3. CASE stage' # "error"
  <2> DEFINE p == ped_unit_parse_custom(text, unit)
  <2>1. p # NULL /\ stage' = "end" /\ start' = p.sector /\ range_start' = p.range
    BY <1>3 DEF TypeStart
  <2>2. Around(p)
    BY <1>1, <2>1, ParseIs
  <2> HIDE DEF p
  <2>3. StartTyped'
    BY <2>1, <2>2 DEF StartTyped, Around
  <2>4. QED
    BY <1>1, <2>1, <2>3 DEF InputInv
<1>4. QED
  BY <1>2, <1>3

(* So is an end, before it is moved and after.                             *)
LEMMA EndKeeps ==
    ASSUME InputInv, NEW text \in NumberText, TypeEnd(text)
    PROVE  InputInv'
<1>1. Chosen' /\ Region' /\ unit \in Defaults
  BY DEF InputInv, Chosen, Region, TypeEnd
<1>2. CASE stage' = "error"
  BY <1>1, <1>2 DEF InputInv
<1>3. CASE stage' # "error"
  <2> DEFINE p == ped_unit_parse_custom(text, unit)
             moved == adjust_end_if_iec(start, p.sector, p.range, text)
             back == /\ start # p.sector
                     /\ ends_with_iec_unit(text) \/ (~has_unit_suffix(text) /\ unit \in IEC)
  <2>1. /\ p # NULL /\ stage' = "snap" /\ typed' = text /\ unit' = unit
        /\ end' = moved.end /\ range_end' = moved.range
        /\ start' = start /\ range_start' = range_start /\ stage = "end"
    BY <1>3 DEF TypeEnd
  <2>2. Around(p) /\ (ends_with_iec_unit(text) => p.range = Exactly(p.sector))
    BY <1>1, <2>1, ParseIs
  <2>3. p.sector \in Int /\ p.range.start \in Int /\ p.range.end \in Int
        /\ p.sector \in Device /\ p.sector <= DevLength - 1
        /\ p.range.start <= p.sector /\ p.sector <= p.range.end /\ DevLength \in Int
    BY <2>2, Counts DEF Around, Device, ped_geometry_test_sector_inside
  <2>4. moved = IF back THEN [end |-> p.sector - 1,
                              range |-> [start |-> p.range.start - 1, end |-> p.range.end - 1]]
                ELSE [end |-> p.sector, range |-> p.range]
    BY DEF adjust_end_if_iec
  <2>5. ped_unit_parse_custom(typed', unit') = p
    BY <2>1
  <2> HIDE DEF p, moved
  <2>6. ASSUME back PROVE EndTyped'
    <3>1. /\ end' = p.sector - 1
          /\ range_end' = [start |-> p.range.start - 1, end |-> p.range.end - 1]
      BY <2>1, <2>4, <2>6
    <3> HIDE DEF back
    <3>2. ends_with_iec_unit(text) => range_end' = Exactly(p.sector - 1)
      BY <2>2, <3>1 DEF Exactly
    <3>3. /\ end' \in Int /\ end' <= DevLength - 1
          /\ range_end'.start \in Int /\ range_end'.end \in Int
          /\ ped_geometry_test_sector_inside(range_end', end')
      BY <2>3, <3>1 DEF ped_geometry_test_sector_inside
    <3>4. QED
      BY <2>1, <2>3, <2>5, <3>2, <3>3 DEF EndTyped
  <2>7. ASSUME ~back PROVE EndTyped'
    <3>1. end' = p.sector /\ range_end' = p.range
      BY <2>1, <2>4, <2>7
    <3>2. ends_with_iec_unit(text) => start = p.sector
      BY <2>7
    <3> HIDE DEF back
    <3>3. /\ end' \in Int /\ end' <= DevLength - 1
          /\ range_end'.start \in Int /\ range_end'.end \in Int
          /\ ped_geometry_test_sector_inside(range_end', end')
      BY <2>3, <3>1 DEF ped_geometry_test_sector_inside
    <3>4. QED
      BY <2>1, <2>3, <2>5, <3>2, <3>3 DEF EndTyped
  <2>8. StartTyped'
    BY <2>1 DEF InputInv, StartTyped
  <2>9. QED
    BY <1>1, <2>1, <2>6, <2>7, <2>8 DEF InputInv
<1>4. QED
  BY <1>2, <1>3

(* What print shows of a region is a text that can be typed.               *)
LEMMA PrintedIs ==
    ASSUME Chosen, NEW i \in DOMAIN tiles
    PROVE  PrintedStart(tiles[i]) \in NumberText /\ PrintedEnd(tiles[i]) \in NumberText
<1>1. tiles[i].start \in Nat /\ tiles[i].end \in Nat
  BY TilesAre DEF Chosen, Device
<1>2. SectorSize \in Nat \ {0}
  BY Counts
<1>3. tiles[i].start * SectorSize \in Nat
  BY <1>1, <1>2, Times
<1>4. (tiles[i].end + 1) * SectorSize - 1 \in Nat
  <2>1. tiles[i].end + 1 \in Nat \ {0}
    BY <1>1
  <2>2. (tiles[i].end + 1) * SectorSize \in Nat \ {0}
    BY <1>2, <2>1, Times
  <2>3. QED
    BY <2>2
<1>5. QED
  BY <1>3, <1>4, FormatIs DEF Chosen, PrintedStart, PrintedEnd, ped_unit_format

(* Every step keeps the invariant.                                         *)
LEMMA InputNextInv == InputInv /\ [InputNext]_input_vars => InputInv'
<1> SUFFICES ASSUME InputInv, [InputNext]_input_vars
             PROVE  InputInv'
  OBVIOUS
<1>1. Chosen /\ Region
  BY DEF InputInv
<1>2. ASSUME NEW text \in Texts, TypeStart(text), UNCHANGED retyped
      PROVE  InputInv'
  BY <1>2, UserInputAssumption, StartKeeps
<1>3. ASSUME NEW i \in DOMAIN tiles, TypeStart(PrintedStart(tiles[i])), retyped' = tiles[i]
      PROVE  InputInv'
  BY <1>1, <1>3, PrintedIs, StartKeeps
<1>4. ASSUME NEW text \in Texts, TypeEnd(text)
      PROVE  InputInv'
  BY <1>4, UserInputAssumption, EndKeeps
<1>5. ASSUME retyped # NULL, TypeEnd(PrintedEnd(retyped))
      PROVE  InputInv'
  <2>1. PICK i \in DOMAIN tiles : retyped = tiles[i]
    BY <1>1, <1>5 DEF Region
  <2>2. QED
    BY <1>1, <1>5, <2>1, PrintedIs, EndKeeps
<1>6. CASE NewPartition
  <2>1. Chosen' /\ Region'
    BY <1>1, <1>6 DEF NewPartition, Chosen, Region
  <2>2. StartTyped' /\ EndTyped'
    BY <1>6 DEF NewPartition, InputInv, StartTyped, EndTyped
  <2>3. stage' = "done" => Placed'
    BY <1>6 DEF NewPartition, Placed, snap_to_boundaries, By
  <2>4. QED
    BY <2>1, <2>2, <2>3 DEF InputInv
<1>7. CASE Again
  BY <1>1, <1>7 DEF Again, InputInv, Chosen, Region
<1>8. CASE UNCHANGED input_vars
  <2>1. Chosen' /\ Region' /\ stage' = stage
    BY <1>1, <1>8 DEF input_vars, Chosen, Region
  <2>2. (StartTyped => StartTyped') /\ (EndTyped => EndTyped')
    BY <1>8 DEF input_vars, StartTyped, EndTyped
  <2>3. Placed => Placed'
    BY <1>8 DEF input_vars, Placed, snap_to_boundaries, By
  <2>4. QED
    BY <2>1, <2>2, <2>3 DEF InputInv
<1>9. QED
  BY <1>2, <1>3, <1>4, <1>5, <1>6, <1>7, <1>8 DEF InputNext, Type

(* The invariant says where the region is.                                 *)
LEMMA InvPlaced == InputInv => PlacedAsTyped
<1> SUFFICES ASSUME InputInv, stage = "done"
             PROVE  PlacedAsTyped
  BY DEF PlacedAsTyped, SnapOrdered, IecAbuts
<1>1. Chosen /\ StartTyped /\ EndTyped /\ Placed
  BY DEF InputInv
<1>2. /\ start \in Device /\ end \in Device /\ start <= end
      /\ ped_geometry_test_sector_inside(range_start, start)
      /\ ped_geometry_test_sector_inside(range_end, end)
  <2>1. start \in Device /\ ped_geometry_test_sector_inside(range_start, start)
    BY <1>1 DEF StartTyped, Around
  <2>2. /\ end \in Int /\ end <= DevLength - 1 /\ start <= end
        /\ ped_geometry_test_sector_inside(range_end, end)
    BY <1>1 DEF EndTyped, Placed
  <2>3. QED
    BY <2>1, <2>2, Counts DEF Device
<1>3. /\ ped_geometry_test_sector_inside(range_start, new.start)
      /\ ped_geometry_test_sector_inside(range_end, new.end)
      /\ new.start \in Int /\ new.end \in Int
      /\ 0 <= new.start /\ new.start <= new.end /\ new.end < DevLength
  BY <1>1, <1>2, SnapIs DEF Chosen, Placed
<1>4. SnapOrdered
  BY <1>3 DEF SnapOrdered
<1>5. IecAbuts
  <2> SUFFICES ASSUME ends_with_iec_unit(typed),
                      NEW next, next = ped_unit_parse_custom(typed, unit).sector, start # next
               PROVE  new.end + 1 = next
    BY DEF IecAbuts
  <2>1. next \in Device /\ range_end = Exactly(next - 1)
    BY <1>1 DEF EndTyped
  <2>2. next \in Int /\ range_end.start = next - 1 /\ range_end.end = next - 1
    BY <2>1, Counts DEF Device, Exactly
  <2>3. QED
    BY <1>3, <2>2 DEF ped_geometry_test_sector_inside
<1>6. QED
  BY <1>4, <1>5 DEF PlacedAsTyped

(* For every device, every table of units, every layout of regions and      *)
(* whatever is typed: the region that do_mkpart asks for lies in the ranges *)
(* that were typed, on the device and in order, and one that was given an   *)
(* end in IEC units ends in the sector before it.                           *)
THEOREM PlacedWhereTyped == InputSpec => []PlacedAsTyped
<1>1. QED
  BY InputInitInv, InputNextInv, InvPlaced, PTL DEF InputSpec
=============================================================================
