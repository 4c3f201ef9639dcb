--------------------------- MODULE DosGeomProofs ---------------------------
(***************************************************************************)
(* The geometry of a DOS label, for every geometry a BIOS can report and   *)
(* partitions anywhere: cylinder, head and sector name one sector, two     *)
(* such notations give the geometry back when their equations are          *)
(* independent, and so reading finds the geometry a table was written      *)
(* under and writing keeps to it.                                          *)
(***************************************************************************)
EXTENDS DosGeom, TLAPS

(***************************************************************************)
(* Division.                                                               *)
(***************************************************************************)

(* What \div and % are, for a positive divisor.                            *)
LEMMA DivMod ==
    ASSUME NEW a \in Int, NEW b \in Nat \ {0}
    PROVE  a \div b \in Int /\ a % b \in 0 .. b - 1 /\ a = b * (a \div b) + (a % b)
  BY SMT

(* Multiplication of integers.                                             *)
LEMMA Ring ==
    ASSUME NEW a \in Int, NEW b \in Int, NEW c \in Int
    PROVE  /\ a * b \in Int /\ a * b = b * a
           /\ a * (b + c) = a * b + a * c /\ a * (b - c) = a * b - a * c
           /\ a * (b * c) = (a * b) * c
           /\ a * (-b) = -(a * b)
           /\ a * 1 = a /\ a * 0 = 0
  BY SMT

(* Multiplying by a positive number keeps the order.                       *)
LEMMA Monotone ==
    ASSUME NEW a \in Nat \ {0}, NEW b \in Int, NEW c \in Int
    PROVE  /\ b < c => a * b + a <= a * c
           /\ a * b = a * c => b = c
  BY SMT

(* Quotient and remainder are unique.                                      *)
LEMMA DivIs ==
    ASSUME NEW a \in Int, NEW b \in Nat \ {0}, NEW q \in Int, NEW r \in 0 .. b - 1, a = b * q + r
    PROVE  a \div b = q /\ a % b = r
<1> DEFINE u == a \div b
           v == a % b
<1>1. u \in Int /\ v \in 0 .. b - 1 /\ a = b * u + v
  BY DivMod
<1> HIDE DEF u, v
<1>2. b * q \in Int /\ b * u \in Int
  BY <1>1, Ring
<1>3. ~ (u < q)
  <2>1. u < q => b * u + b <= b * q
    BY <1>1, Monotone
  <2>2. QED
    BY <1>1, <1>2, <2>1
<1>4. ~ (q < u)
  <2>1. q < u => b * q + b <= b * u
    BY <1>1, Monotone
  <2>2. QED
    BY <1>1, <1>2, <2>1
<1>5. u = q
  BY <1>1, <1>3, <1>4
<1>6. v = r
  BY <1>1, <1>2, <1>5
<1>7. QED
  BY <1>5, <1>6 DEF u, v

(* C's division of a multiple gives the factor back.                       *)
LEMMA QuotIs ==
    ASSUME NEW b \in Int, b # 0, NEW q \in Nat \ {0}
    PROVE  Quot(b * q, b) = q
<1>1. b * q \in Int /\ (-b) * q = -(b * q)
  BY SMT
<1>2. CASE b > 0
  <2>1. b * q > 0
    BY <1>2, SMT
  <2>2. (b * q) \div b = q
    BY <1>1, <1>2, DivIs
  <2>3. QED
    BY <1>1, <1>2, <2>1, <2>2 DEF Quot
<1>3. CASE b < 0
  <2>1. b * q < 0
    BY <1>3, SMT
  <2>2. -b \in Nat \ {0} /\ -(b * q) \in Int /\ -(b * q) = (-b) * q + 0 /\ 0 \in 0 .. (-b) - 1
    BY <1>1, <1>3
  <2>3. (-(b * q)) \div (-b) = q
    BY <2>2, DivIs
  <2>4. QED
    BY <1>1, <1>3, <2>1, <2>3 DEF Quot
<1>4. QED
  BY <1>2, <1>3

(***************************************************************************)
(* The two notations.                                                      *)
(***************************************************************************)
Geometry == [heads : 1 .. 255, sectors : 1 .. 63]

(* Sector x as cylinder c, head h and sector s, with n heads of m sectors.  *)
Notes(x, n, m, c, h, s) == c = x \div (n * m) /\ h = (x \div m) % n /\ s = x % m

(* Dividing twice is dividing by the product.                              *)
LEMMA Notation ==
    ASSUME NEW x \in Nat, NEW n \in Nat \ {0}, NEW m \in Nat \ {0}, NEW c, NEW h, NEW s, Notes(x, n, m, c, h, s)
    PROVE  c \in Nat /\ h \in 0 .. n - 1 /\ s \in 0 .. m - 1 /\ x = (c * n + h) * m + s
<1> USE DEF Notes
<1>1. PICK q \in Int : q = x \div m /\ s \in 0 .. m - 1 /\ x = m * q + s
  BY DivMod
<1>2. PICK d \in Int : d = q \div n /\ h \in 0 .. n - 1 /\ q = n * d + h
  BY <1>1, DivMod
<1>3. PICK k \in Nat \ {0} : k = n * m
  BY SMT
<1>4. h * m + s \in 0 .. k - 1
  <2>1. (h + 1) * m <= n * m
    <3>1. h + 1 <= n
      BY <1>2
    <3>2. QED
      BY <1>2, <3>1, SMT
  <2>2. (h + 1) * m = h * m + m /\ h * m >= 0 /\ h * m \in Int
    BY <1>2, SMT
  <2>3. QED
    BY <1>1, <1>3, <2>1, <2>2
<1>5. m * q = k * d + h * m
  <2>1. m * q = m * (n * d) + m * h
    BY <1>2, Ring
  <2>2. m * (n * d) = (n * m) * d /\ m * h = h * m
    BY <1>2, SMT
  <2>3. QED
    BY <1>3, <2>1, <2>2
<1>6. k * d \in Int /\ h * m \in Int /\ m * q \in Int
  BY <1>1, <1>2, <1>3, Ring
<1>7. x = k * d + (h * m + s)
  BY <1>1, <1>4, <1>5, <1>6
<1>8. c = d
  <2>1. c = x \div k
    BY <1>3
  <2>2. PICK r \in 0 .. k - 1 : r = h * m + s
    BY <1>4
  <2>3. x = k * d + r
    BY <1>7, <2>2
  <2>4. x \div k = d
    BY <1>2, <1>3, <2>3, DivIs, SMTT(40)
  <2>5. QED
    BY <2>1, <2>4
<1>9. (d * n + h) * m = m * q
  <2>1. d * n + h = q
    BY <1>2, Ring
  <2>2. q * m = m * q
    BY <1>1, Ring
  <2>3. QED
    BY <2>1, <2>2
<1>10. d >= 0
  <2>1. d < 0 => k * d + k <= k * 0
    BY <1>2, <1>3, Monotone
  <2>2. k * 0 = 0
    BY <1>3, Ring
  <2>3. QED
    BY <1>2, <1>3, <1>4, <1>6, <1>7, <2>1, <2>2
<1>11. QED
  BY <1>1, <1>2, <1>6, <1>8, <1>9, <1>10

(* The packed cylinder and sector come apart again.                        *)
LEMMA RawChsIs ==
    ASSUME NEW c \in 0 .. 1023, NEW h, NEW s \in 0 .. 62, NEW chs, chs = RawChs(c, h, s)
    PROVE  chs_get_cylinder(chs) = c /\ chs.head = h /\ chs_get_sector(chs) = s
<1> DEFINE q == c \div 256
           r == c % 256
<1>1. q \in Int /\ r \in 0 .. 255 /\ c = 256 * q + r
  BY DivMod
<1> HIDE DEF q, r
<1>2. chs.cylinder = r /\ chs.head = h /\ chs.sector = s + 1 + q * 64
  BY DEF RawChs, q, r
<1>3. chs.sector = 64 * q + (s + 1) /\ s + 1 \in 0 .. 63 /\ chs.sector \in Int
  BY <1>1, <1>2
<1>4. chs.sector \div 64 = q /\ chs.sector % 64 = s + 1
  BY <1>1, <1>3, DivIs
<1>5. QED
  BY <1>1, <1>2, <1>4 DEF chs_get_cylinder, chs_get_sector

(* What sector_to_chs writes names the sector, or is past the last         *)
(* cylinder that can.                                                      *)
LEMMA ChsIs ==
    ASSUME NEW g \in Geometry, NEW x \in Nat, NEW chs, chs = sector_to_chs(g, x)
    PROVE  /\ chs_get_cylinder(chs) \in Nat /\ chs.head \in 0 .. g.heads - 1 /\ chs_get_sector(chs) \in 0 .. g.sectors - 1
           /\ chs_get_cylinder(chs) <= 1021 =>
                /\ chs_get_cylinder(chs) = x \div (g.heads * g.sectors)
                /\ x = (chs_get_cylinder(chs) * g.heads + chs.head) * g.sectors + chs_get_sector(chs)
           /\ x \div (g.heads * g.sectors) <= 1021 => chs_get_cylinder(chs) <= 1021
<1>1. PICK n \in 1 .. 255, m \in 1 .. 63 : n = g.heads /\ m = g.sectors
  BY DEF Geometry
<1>1a. n \in Nat \ {0} /\ m \in Nat \ {0}
  OBVIOUS
<1>2. PICK c, h, s : c = x \div (n * m) /\ h = (x \div m) % n /\ s = x % m
  OBVIOUS
<1>3. c \in Nat /\ h \in 0 .. n - 1 /\ s \in 0 .. m - 1 /\ x = (c * n + h) * m + s
  <2>1. Notes(x, n, m, c, h, s)
    BY <1>2 DEF Notes
  <2>2. QED
    BY <1>1a, <2>1, Notation
<1>4. CASE c > 1021
  <2>1. chs = RawChs(1023, n - 1, m - 1)
    BY <1>1, <1>2, <1>4 DEF sector_to_chs, MAX_CHS_CYLINDER
  <2>2. chs.cylinder = 255 /\ chs.head = n - 1 /\ chs.sector = 64 * 3 + m /\ chs.sector \in Int /\ m \in 0 .. 63
    BY <2>1 DEF RawChs
  <2>3. chs.sector \div 64 = 3 /\ chs.sector % 64 = m
    BY <2>2, DivIs
  <2>4. chs_get_cylinder(chs) = 1023 /\ chs_get_sector(chs) = m - 1
    BY <2>2, <2>3 DEF chs_get_cylinder, chs_get_sector
  <2>5. QED
    BY <1>1, <1>2, <1>4, <2>2, <2>4
<1>5. CASE c <= 1021
  <2>1. chs = RawChs(c, h, s)
    BY <1>1, <1>2, <1>3, <1>5 DEF sector_to_chs, MAX_CHS_CYLINDER
  <2>2. s \in 0 .. 62 /\ c \in 0 .. 1023
    BY <1>1, <1>3, <1>5
  <2>3. chs_get_cylinder(chs) = c /\ chs.head = h /\ chs_get_sector(chs) = s
    BY <2>1, <2>2, RawChsIs, ZenonT(40)
  <2>4. QED
    BY <1>1, <1>2, <1>3, <1>5, <2>3
<1>6. QED
  BY <1>3, <1>4, <1>5

(* A sector written as cylinder, head and sector reads back, or not at all. *)
LEMMA Written ==
    ASSUME NEW g \in Geometry, NEW x \in Nat
    PROVE  chs_to_sector(g, sector_to_chs(g, x)) \in {0, x}
<1>1. PICK chs : chs = sector_to_chs(g, x)
  OBVIOUS
<1>2. /\ chs_get_cylinder(chs) \in Nat /\ chs_get_sector(chs) \in 0 .. g.sectors - 1 /\ g.sectors \in 1 .. 63
      /\ chs_get_cylinder(chs) <= 1021 =>
           x = (chs_get_cylinder(chs) * g.heads + chs.head) * g.sectors + chs_get_sector(chs)
  BY <1>1, ChsIs DEF Geometry
<1>3. chs_to_sector(g, chs) \in {0, x}
  BY <1>2 DEF chs_to_sector, MAX_CHS_CYLINDER, chs_get_head
<1>4. QED
  BY <1>1, <1>3

(***************************************************************************)
(* Two equations.                                                          *)
(***************************************************************************)

(* A cylinder has at most 16065 sectors.                                   *)
LEMMA CylinderIs ==
    ASSUME NEW n \in 1 .. 255, NEW m \in 1 .. 63, NEW k \in Nat, k = n * m
    PROVE  k \in 1 .. 255 * 63 /\ k \in Nat \ {0}
<1>1. n * m >= m /\ n * m <= 255 * m
  BY SMT
<1>2. k >= 1 /\ k <= 255 * 63
  BY <1>1
<1>3. 255 * 63 \in Nat
  BY SMT
<1>4. k \in Nat \ {0}
  BY <1>2
<1>5. k \in 1 .. 255 * 63
  BY <1>2, <1>3
<1>6. QED
  BY <1>4, <1>5

(* Cylinder c and head h begin at a, and C and H at A, with n heads of m     *)
(* sectors and k sectors to a cylinder.                                    *)
Begin(n, m, k, c, h, a, C, H, A) ==
    /\ n \in 1 .. 255 /\ m \in 1 .. 63 /\ k \in Nat
    /\ c \in Nat /\ h \in Nat /\ C \in Nat /\ H \in Nat /\ a \in Nat /\ A \in Nat
    /\ k = n * m /\ a = (c * n + h) * m /\ A = (C * n + H) * m

(* Cramer's rule gives the geometry back, unless the equations are         *)
(* dependent.                                                              *)
LEMMA SolveGives ==
    ASSUME NEW n, NEW m, NEW k, NEW c, NEW h, NEW a, NEW C, NEW H, NEW A,
           Begin(n, m, k, c, h, a, C, H, A),
           NEW e, Fits([heads |-> n, sectors |-> m], e)
    PROVE  Solve(e, c, h, a, C, H, A) = IF c * H = C * h THEN NoChs ELSE [heads |-> n, sectors |-> m]
<1>0. /\ n \in 1 .. 255 /\ m \in 1 .. 63 /\ k \in Nat
      /\ c \in Nat /\ h \in Nat /\ C \in Nat /\ H \in Nat /\ a \in Nat /\ A \in Nat
  BY DEF Begin
<1> USE <1>0
<1>1. n \in Nat /\ m \in Nat /\ m \in Nat \ {0} /\ m >= 1 /\ m <= 63
  BY <1>0
<1>3. PICK D \in Int : D = c * H - C * h /\ (D = 0 <=> c * H = C * h)
  <2>1. c * H \in Nat /\ C * h \in Nat
    BY <1>0, SMT
  <2>2. QED
    BY <2>1
<1>4. a - c * k = h * m /\ A - C * k = H * m /\ a * H - A * h = D * k
  <2>1. a - c * k = h * m /\ A - C * k = H * m /\ a * H - A * h = (c * H - C * h) * k
    BY SMT DEF Begin
  <2>2. QED
    BY <1>3, <2>1
<1>5. k = n * m
  BY DEF Begin
<1>7. CASE D = 0
  BY <1>3, <1>7 DEF Solve
<1>8. CASE D # 0
  <2>1. k \in 1 .. 255 * 63 /\ k \in Nat \ {0}
    BY <1>5, CylinderIs
  <2>2. Quot(a * H - A * h, D) = k
    <3>1. Quot(D * k, D) = k
      BY <1>8, <2>1, QuotIs
    <3>2. QED
      BY <1>4, <3>1
  <2>3. (IF h > 0 THEN Quot(a - c * k, h) ELSE Quot(A - C * k, H)) = m
    <3>1. CASE h > 0
      <4>1. Quot(h * m, h) = m
        BY <1>1, <3>1, QuotIs
      <4>2. QED
        BY <1>4, <3>1, <4>1
    <3>2. CASE h = 0
      <4>1. H # 0
        BY <1>3, <1>8, <3>2, SMT
      <4>2. Quot(H * m, H) = m
        BY <1>1, <4>1, QuotIs
      <4>3. QED
        BY <1>4, <3>2, <4>2
    <3>3. QED
      BY <3>1, <3>2
  <2>4. k \div m = n
    <3>1. k = m * n + 0 /\ k \in Int /\ m \in Nat \ {0} /\ n \in Int /\ 0 \in 0 .. m - 1
      <4>1. n * m = m * n /\ m * n \in Int
        BY Ring
      <4>2. QED
        BY <1>5, <4>1
    <3>2. QED
      BY <3>1, DivIs
  <2>6. D * k = a * H - A * h /\ k * D = D * k
    BY <1>4, Ring
  <2>7. Solve(e, c, h, a, C, H, A) = [heads |-> n, sectors |-> m]
    <3> DEFINE cs == IF D = 0 THEN 0 ELSE Quot(a * H - A * h, D)
               hs == IF h > 0 THEN Quot(a - c * cs, h) ELSE Quot(A - C * cs, H)
    <3>1. cs = k
      BY <1>8, <2>2
    <3>2. hs = m
      BY <2>3, <3>1
    <3>3. Solve(e, c, h, a, C, H, A) =
             IF D # 0 /\ cs * D = a * H - A * h /\ cs \in 1 .. 255 * 63 /\ hs \in 1 .. 63
                /\ [heads |-> cs \div hs, sectors |-> hs].heads \in 1 .. 255
                /\ Fits([heads |-> cs \div hs, sectors |-> hs], e)
             THEN [heads |-> cs \div hs, sectors |-> hs] ELSE NoChs
      BY <1>3, ZenonT(60) DEF Solve
    <3> HIDE DEF cs, hs
    <3>4. QED
      BY <1>8, <2>1, <2>4, <2>6, <3>1, <3>2, <3>3
  <2>8. QED
    BY <1>3, <1>8, <2>7
<1>9. QED
  BY <1>7, <1>8

(* Entry e's start is cylinder c, head h and sector s under g, its end C, H *)
(* and S.                                                                  *)
Reads(g, e, c, h, s, C, H, S) ==
    /\ c \in Nat /\ h \in Nat /\ s \in Nat /\ C \in Nat /\ H \in Nat /\ S \in Nat
    /\ c = chs_get_cylinder(e.chs_start) /\ h = e.chs_start.head /\ s = chs_get_sector(e.chs_start)
    /\ C = chs_get_cylinder(e.chs_end) /\ H = e.chs_end.head /\ S = chs_get_sector(e.chs_end)
    /\ e.start = (c * g.heads + h) * g.sectors + s
    /\ e.end = (C * g.heads + H) * g.sectors + S

(* Such an entry gives g.                                                  *)
LEMMA SolveIs ==
    ASSUME NEW g \in Geometry, NEW e, NEW c, NEW h, NEW s, NEW C, NEW H, NEW S, Reads(g, e, c, h, s, C, H, S)
    PROVE  Solve(e, c, h, e.start - s, C, H, e.end - S) = IF c * H = C * h THEN NoChs ELSE g
<1>0. /\ c \in Nat /\ h \in Nat /\ s \in Nat /\ C \in Nat /\ H \in Nat /\ S \in Nat
      /\ c = chs_get_cylinder(e.chs_start) /\ h = e.chs_start.head /\ s = chs_get_sector(e.chs_start)
      /\ C = chs_get_cylinder(e.chs_end) /\ H = e.chs_end.head /\ S = chs_get_sector(e.chs_end)
      /\ e.start = (c * g.heads + h) * g.sectors + s
      /\ e.end = (C * g.heads + H) * g.sectors + S
  BY DEF Reads
<1> USE <1>0
<1>1. PICK n \in 1 .. 255, m \in 1 .. 63 : n = g.heads /\ m = g.sectors /\ g = [heads |-> n, sectors |-> m]
  BY DEF Geometry
<1>2. PICK k \in Nat, a \in Nat, A \in Nat : k = n * m /\ a = (c * n + h) * m /\ A = (C * n + H) * m
  <2>1. n * m \in Nat /\ (c * n + h) * m \in Nat /\ (C * n + H) * m \in Nat
    BY SMT
  <2>2. QED
    BY <2>1
<1>3. Begin(n, m, k, c, h, a, C, H, A)
  BY <1>2 DEF Begin
<1>4. e.start = a + s /\ e.end = A + S
  BY <1>1, <1>2
<1>5. e.start - s = a /\ e.end - S = A
  BY <1>4
<1>6. Fits([heads |-> n, sectors |-> m], e)
  <2>1. ((C + 0) * n + H) * m + S = e.end /\ ((c + 0) * n + h) * m + s = e.start
    BY <1>1
  <2>2. QED
    BY <2>1 DEF Fits
<1>7. Solve(e, c, h, a, C, H, A) = IF c * H = C * h THEN NoChs ELSE [heads |-> n, sectors |-> m]
  BY <1>3, <1>6, SolveGives
<1>8. QED
  BY <1>1, <1>5, <1>7, Zenon

(***************************************************************************)
(* Inferring.                                                              *)
(***************************************************************************)

(* An entry whose notation was written under g.                            *)
Under(g, e) ==
    /\ e.start \in Nat /\ e.end \in Nat /\ e.start <= e.end
    /\ e.chs_start = sector_to_chs(g, e.start)
    /\ e.chs_end = sector_to_chs(g, e.end)

(* Dividing by one keeps it too.                                           *)
LEMMA Ordered ==
    ASSUME NEW x \in Nat, NEW y \in Nat, x <= y, NEW k \in Nat \ {0}
    PROVE  x \div k <= y \div k
<1> DEFINE q == x \div k
           r == x % k
           u == y \div k
           v == y % k
<1>1. q \in Int /\ r \in 0 .. k - 1 /\ x = k * q + r
  BY DivMod
<1>2. u \in Int /\ v \in 0 .. k - 1 /\ y = k * u + v
  BY DivMod
<1> HIDE DEF q, r, u, v
<1>3. k * q \in Int /\ k * u \in Int
  BY <1>1, <1>2, Ring
<1>4. u < q => k * u + k <= k * q
  BY <1>1, <1>2, Monotone
<1>5. q <= u
  BY <1>1, <1>2, <1>3, <1>4
<1>6. QED
  BY <1>5 DEF q, u

(* Cylinder c, head h and sector s, with n heads of m sectors.             *)
At(n, m, c, h, s) == (c * n + h) * m + s

(* Not past the last sector cylinder c has under any geometry.             *)
Within(x, c) == x <= (c + 1) * 255 * 63

(* The last sector of a cylinder.                                          *)
LEMMA InCylinder ==
    ASSUME NEW n \in 1 .. 255, NEW m \in 1 .. 63, NEW c \in Nat, NEW h \in 0 .. n - 1, NEW s \in 0 .. m - 1
    PROVE  Within(At(n, m, c, h, s), c)
<1>1. PICK u \in Nat : u = c * n + h /\ u + 1 <= (c + 1) * n
  <2>1. c * n \in Nat /\ (c + 1) * n = c * n + n
    BY SMT
  <2>2. QED
    BY <2>1
<1>2. PICK v \in Nat : v = (c + 1) * n /\ v <= (c + 1) * 255
  <2>1. (c + 1) * n \in Nat /\ (c + 1) * n <= (c + 1) * 255
    BY SMT
  <2>2. QED
    BY <2>1
<1>3. u * m + m <= v * m
  <2>1. u + 1 <= v
    BY <1>1, <1>2, Zenon
  <2>2. (u + 1) * m <= v * m
    BY <2>1, SMT
  <2>3. (u + 1) * m = u * m + m
    BY SMT
  <2>4. QED
    BY <2>2, <2>3, Zenon
<1>4. v * m <= v * 63 /\ v * 63 <= (c + 1) * 255 * 63
  <2>1. v * m <= v * 63
    BY SMT
  <2>2. QED
    BY <1>2, <2>1
<1>5. u * m + s <= (c + 1) * 255 * 63
  <2>1. u * m \in Nat /\ v * m \in Nat
    BY SMT
  <2>2. QED
    BY <1>3, <1>4, <2>1
<1>6. QED
  BY <1>1, <1>5 DEF At, Within

(* An entry written under g gives g, if it gives anything.                 *)
LEMMA ProbeIs ==
    ASSUME NEW g \in Geometry, NEW p, Under(g, p.orig)
    PROVE  probe_partition_for_geom(p) = IF Determines(p.orig) THEN g ELSE NoChs
<1> DEFINE e == p.orig
<1>1. PICK n \in 1 .. 255, m \in 1 .. 63, k \in Nat \ {0} : n = g.heads /\ m = g.sectors /\ k = n * m
  <2>1. PICK n \in 1 .. 255, m \in 1 .. 63 : n = g.heads /\ m = g.sectors
    BY DEF Geometry
  <2>2. PICK k \in Nat : k = n * m
    BY SMT
  <2>3. k \in Nat \ {0}
    BY <2>2, CylinderIs
  <2>4. QED
    BY <2>1, <2>2, <2>3
<1>2. PICK c, h, s : c = chs_get_cylinder(e.chs_start) /\ h = e.chs_start.head /\ s = chs_get_sector(e.chs_start)
  OBVIOUS
<1>3. PICK C, H, S : C = chs_get_cylinder(e.chs_end) /\ H = e.chs_end.head /\ S = chs_get_sector(e.chs_end)
  OBVIOUS
<1>4. PICK x \in Nat, y \in Nat : x = e.start /\ y = e.end /\ x <= y
  BY DEF Under
<1>5. /\ c \in Nat /\ h \in 0 .. n - 1 /\ s \in 0 .. m - 1
      /\ c <= 1021 => c = x \div k /\ x = (c * n + h) * m + s
      /\ x \div k <= 1021 => c <= 1021
  <2>1. PICK chs : chs = e.chs_start /\ chs = sector_to_chs(g, x)
    BY <1>4 DEF Under
  <2>2. QED
    BY <1>1, <1>2, <2>1, ChsIs
<1>6. /\ C \in Nat /\ H \in 0 .. n - 1 /\ S \in 0 .. m - 1
      /\ C <= 1021 => C = y \div k /\ y = (C * n + H) * m + S
  <2>1. PICK chs : chs = e.chs_end /\ chs = sector_to_chs(g, y)
    BY <1>4 DEF Under
  <2>2. QED
    BY <1>1, <1>3, <2>1, ChsIs
<1>7. CASE C > 1021 \/ C = 0
  <2>1. ~ Determines(e)
    BY <1>3, <1>6, <1>7 DEF Determines, MAX_CHS_CYLINDER
  <2>2. probe_partition_for_geom(p) = NoChs
    BY <1>3, <1>6, <1>7 DEF probe_partition_for_geom, MAX_CHS_CYLINDER
  <2>3. QED
    BY <2>1, <2>2
<1>8. CASE C \in 1 .. 1021
  <2>1. C = y \div k /\ y = (C * n + H) * m + S
    BY <1>6, <1>8
  <2>2. x \div k <= C
    BY <1>4, <2>1, Ordered
  <2>3. c <= C /\ x = (c * n + h) * m + s
    <3>1. x \div k \in Int
      BY DivMod
    <3>2. c <= 1021
      BY <1>5, <1>8, <2>2, <3>1
    <3>3. QED
      BY <1>5, <2>2, <3>2
  <2>4. y <= (C + 1) * 255 * 63
    <3>1. C \in Nat /\ H \in 0 .. n - 1 /\ S \in 0 .. m - 1
      BY <1>6
    <3>2. Within(At(n, m, C, H, S), C)
      BY <3>1, InCylinder
    <3>3. Within(y, C)
      BY <2>1, <3>2 DEF At
    <3>4. QED
      BY <3>3 DEF Within
  <2>5. probe_partition_for_geom(p) = Solve(e, c, h, e.start - s, C, H, e.end - S)
    <3>1. ~ (h > 254) /\ ~ (H > 254) /\ ~ (c > C) /\ ~ (C > 1021) /\ C # 0
      BY <1>5, <1>6, <1>8, <2>3
    <3>2. ~ (y > (C + 1) * 255 * 63)
      <4>1. (C + 1) * 255 * 63 \in Int
        BY <1>8
      <4>2. QED
        BY <2>4, <4>1
    <3>3. QED
      BY <1>2, <1>3, <1>4, <3>1, <3>2, ZenonT(60) DEF probe_partition_for_geom, MAX_CHS_CYLINDER
  <2>6. Solve(e, c, h, e.start - s, C, H, e.end - S) = IF c * H = C * h THEN NoChs ELSE g
    <3>1. /\ e.start = (c * g.heads + h) * g.sectors + s
          /\ e.end = (C * g.heads + H) * g.sectors + S
      BY <1>1, <1>4, <2>1, <2>3
    <3>2. h \in Nat /\ s \in Nat /\ H \in Nat /\ S \in Nat
      BY <1>5, <1>6
    <3>3. Reads(g, e, c, h, s, C, H, S)
      BY <1>2, <1>3, <1>5, <1>6, <3>1, <3>2 DEF Reads
    <3>4. QED
      BY <3>3, SolveIs
  <2>7. Determines(e) <=> c * H # C * h
    <3>1. C \in 1 .. MAX_CHS_CYLINDER
      BY <1>8 DEF MAX_CHS_CYLINDER
    <3>2. QED
      BY <1>2, <1>3, <3>1, Zenon DEF Determines
  <2>8. QED
    BY <2>5, <2>6, <2>7
<1>9. QED
  BY <1>6, <1>7, <1>8

(* The first of two that was found.                                        *)
First(x, y) == IF x # NoChs THEN x ELSE y

(* Of two candidates the first that was found is taken.                    *)
LEMMA FirstIs ==
    ASSUME NEW s, DOMAIN s = 1 .. 2, NEW else
    PROVE  FirstFound(s, else) = First(s[1], First(s[2], else))
<1> DEFINE Is(i) == s[i] # NoChs /\ \A j \in DOMAIN s : s[j] # NoChs => i <= j
           least == CHOOSE i \in DOMAIN s : Is(i)
<1>1. FirstFound(s, else) = IF \A i \in DOMAIN s : s[i] = NoChs THEN else ELSE s[least]
  BY DEF FirstFound
<1>2. CASE s[1] # NoChs
  <2>1. \E i \in DOMAIN s : Is(i)
    <3>1. 1 \in DOMAIN s /\ Is(1)
      BY <1>2
    <3>2. QED
      BY <3>1
  <2>2. least \in DOMAIN s /\ Is(least)
    BY <2>1
  <2> HIDE DEF least
  <2>3. least = 1
    BY <1>2, <2>2
  <2>4. QED
    BY <1>1, <1>2, <2>3 DEF First
<1>3. CASE s[1] = NoChs /\ s[2] # NoChs
  <2>1. \E i \in DOMAIN s : Is(i)
    <3>1. 2 \in DOMAIN s /\ Is(2)
      <4>1. \A j \in DOMAIN s : j = 1 \/ j = 2
        OBVIOUS
      <4>2. QED
        BY <1>3, <4>1
    <3>2. QED
      BY <3>1
  <2>2. least \in DOMAIN s /\ Is(least)
    BY <2>1
  <2> HIDE DEF least
  <2>3. least = 2
    BY <1>3, <2>2
  <2>4. QED
    BY <1>1, <1>3, <2>3 DEF First
<1>4. CASE s[1] = NoChs /\ s[2] = NoChs
  <2>1. \A i \in DOMAIN s : s[i] = NoChs
    BY <1>4
  <2>2. QED
    BY <1>1, <1>4, <2>1 DEF First
<1>5. QED
  BY <1>2, <1>3, <1>4

(* What the active partition says, and what a disk of two partitions says. *)
Active(p) ==
    IF ~ p.boot THEN NoChs
    ELSE IF probe_filesystem_for_geom(p) # NoChs THEN probe_filesystem_for_geom(p) ELSE probe_partition_for_geom(p)

Found(ps) ==
    First(Active(ps[1]), First(Active(ps[2]),
        First(probe_partition_for_geom(ps[1]), First(probe_partition_for_geom(ps[2]),
            First(probe_filesystem_for_geom(ps[1]), probe_filesystem_for_geom(ps[2]))))))

(* The device's geometry stays only when nothing was found.                *)
LEMMA DiskProbeIs ==
    ASSUME NEW ps, DOMAIN ps = 1 .. 2
    PROVE  disk_probe_bios_geometry(ps) = First(Found(ps), bios_geom)
<1> DEFINE boot == [i \in DOMAIN ps |-> Active(ps[i])]
           entry == [i \in DOMAIN ps |-> probe_partition_for_geom(ps[i])]
           fs == [i \in DOMAIN ps |-> probe_filesystem_for_geom(ps[i])]
<1>1. disk_probe_bios_geometry(ps) = FirstFound(boot, FirstFound(entry, FirstFound(fs, bios_geom)))
  BY Zenon DEF disk_probe_bios_geometry, Active
<1>2. /\ DOMAIN boot = 1 .. 2 /\ boot[1] = Active(ps[1]) /\ boot[2] = Active(ps[2])
      /\ DOMAIN entry = 1 .. 2 /\ entry[1] = probe_partition_for_geom(ps[1]) /\ entry[2] = probe_partition_for_geom(ps[2])
      /\ DOMAIN fs = 1 .. 2 /\ fs[1] = probe_filesystem_for_geom(ps[1]) /\ fs[2] = probe_filesystem_for_geom(ps[2])
  OBVIOUS
<1> HIDE DEF boot, entry, fs
<1>3. FirstFound(fs, bios_geom) = First(fs[1], First(fs[2], bios_geom))
  BY <1>2, FirstIs
<1>4. PICK u : u = FirstFound(fs, bios_geom)
  OBVIOUS
<1>5. FirstFound(entry, u) = First(entry[1], First(entry[2], u))
  BY <1>2, FirstIs
<1>6. PICK v : v = FirstFound(entry, u)
  OBVIOUS
<1>7. FirstFound(boot, v) = First(boot[1], First(boot[2], v))
  BY <1>2, FirstIs
<1>8. QED
  BY <1>1, <1>2, <1>3, <1>4, <1>5, <1>6, <1>7 DEF Found, First

(* On a table written under g nothing else is found, and only what says     *)
(* nothing is overlooked.                                                  *)
Agrees(g, p) == Under(g, p.orig) /\ p.fs \in {NoChs, g}

(* What one such partition says is g or nothing.                           *)
LEMMA OneIs ==
    ASSUME NEW g \in Geometry, NEW p, Agrees(g, p)
    PROVE  /\ g # NoChs
           /\ probe_filesystem_for_geom(p) = p.fs
           /\ probe_partition_for_geom(p) \in {NoChs, g}
           /\ Active(p) \in {NoChs, g}
           /\ probe_partition_for_geom(p) = NoChs => ~ Determines(p.orig)
<1>1. g # NoChs
  BY DEF Geometry, NoChs
<1>2. probe_filesystem_for_geom(p) = p.fs
  BY DEF probe_filesystem_for_geom, Agrees, Geometry, NoChs
<1>3. probe_partition_for_geom(p) = IF Determines(p.orig) THEN g ELSE NoChs
  BY ProbeIs DEF Agrees
<1>4. probe_partition_for_geom(p) \in {NoChs, g} /\ (probe_partition_for_geom(p) = NoChs => ~ Determines(p.orig))
  BY <1>1, <1>3
<1>5. Active(p) \in {NoChs, g}
  BY <1>2, <1>4 DEF Active, Agrees
<1>6. QED
  BY <1>1, <1>2, <1>4, <1>5

(* And so is what both say together.                                       *)
LEMMA FoundIs ==
    ASSUME NEW g \in Geometry, NEW ps, Agrees(g, ps[1]), Agrees(g, ps[2])
    PROVE  /\ Found(ps) \in {NoChs, g}
           /\ Found(ps) = NoChs => \A i \in 1 .. 2 : ~ Determines(ps[i].orig) /\ ps[i].fs = NoChs
<1>1. \A i \in 1 .. 2 :
        /\ probe_filesystem_for_geom(ps[i]) = ps[i].fs /\ ps[i].fs \in {NoChs, g}
        /\ probe_partition_for_geom(ps[i]) \in {NoChs, g}
        /\ Active(ps[i]) \in {NoChs, g}
        /\ probe_partition_for_geom(ps[i]) = NoChs => ~ Determines(ps[i].orig)
  <2>1. ASSUME NEW i \in 1 .. 2
        PROVE  Agrees(g, ps[i])
    OBVIOUS
  <2>2. QED
    BY <2>1, OneIs DEF Agrees
<1>2. Found(ps) \in {NoChs, g}
  BY <1>1 DEF Found, First
<1>3. ASSUME Found(ps) = NoChs
      PROVE  \A i \in 1 .. 2 : probe_partition_for_geom(ps[i]) = NoChs /\ probe_filesystem_for_geom(ps[i]) = NoChs
  <2>1. /\ probe_partition_for_geom(ps[1]) = NoChs /\ probe_partition_for_geom(ps[2]) = NoChs
        /\ probe_filesystem_for_geom(ps[1]) = NoChs /\ probe_filesystem_for_geom(ps[2]) = NoChs
    BY <1>3 DEF Found, First
  <2>2. QED
    BY <2>1
<1>4. QED
  BY <1>1, <1>2, <1>3

(***************************************************************************)
(* Writing.                                                                *)
(***************************************************************************)

(* The geometry an entry gives, or the file system of an extended partition. *)
Own(p) ==
    IF probe_partition_for_geom(p) = NoChs /\ p.type = "extended" THEN probe_filesystem_for_geom(p)
    ELSE probe_partition_for_geom(p)

(* A logical partition lies in an extended one.                            *)
Nested(ps) ==
    /\ DOMAIN ps = 1 .. 2
    /\ \A i \in 1 .. 2 : ps[i].type = "logical" => \E j \in 1 .. 2 : ps[j].type = "extended"

(* Under the geometry of the table every partition is written with it.      *)
LEMMA WrittenWith ==
    ASSUME NEW g \in Geometry, bios_geom = g, NEW ps, Nested(ps),
           \A j \in 1 .. 2 : Agrees(g, ps[j]), NEW i \in 1 .. 2
    PROVE  partition_probe_bios_geometry(ps, i) = g
<1>1. ASSUME NEW j \in 1 .. 2
      PROVE  Own(ps[j]) \in {NoChs, g}
  <2>1. Agrees(g, ps[j])
    OBVIOUS
  <2>2. QED
    BY <2>1, OneIs DEF Own, Agrees
<1>2. PICK x : x = Extended(ps)
  OBVIOUS
<1>3. ps[i].type = "logical" => x \in 1 .. 2
  BY <1>2 DEF Extended, Nested
<1>4. partition_probe_bios_geometry(ps, i) =
        IF Own(ps[i]) # NoChs THEN Own(ps[i])
        ELSE IF ps[i].type = "logical" /\ Own(ps[x]) # NoChs THEN Own(ps[x]) ELSE bios_geom
  BY <1>2, Zenon DEF partition_probe_bios_geometry, Own
<1>5. QED
  BY <1>1, <1>3, <1>4

(* A partition as the program holds it.                                    *)
Part(p) == p = [start |-> p.start, end |-> p.end, boot |-> p.boot, type |-> p.type, fs |-> p.fs, orig |-> p.orig]

Parts(ps) == ps = [i \in 1 .. 2 |-> ps[i]] /\ \A i \in 1 .. 2 : Part(ps[i])

(* What moves and what stays.                                              *)
Moves(f, ps, i, start, end) ==
    /\ Parts(ps) /\ ps[i].start = start /\ ps[i].end = end
    /\ \A j \in 1 .. 2 \ {i} : ps[j].start = f[j].start /\ ps[j].end = f[j].end
    /\ \A j \in 1 .. 2 : ps[j].orig = f[j].orig /\ ps[j].type = f[j].type /\ ps[j].fs = f[j].fs

(* Resizing changes the span of one partition.                             *)
LEMMA MovesIs ==
    ASSUME NEW f, Parts(f), NEW i \in 1 .. 2, NEW start, NEW end,
           NEW ps, ps = [f EXCEPT ![i] = [f[i] EXCEPT !.start = start, !.end = end]]
    PROVE  Moves(f, ps, i, start, end)
<1>1. PICK p : p = f[i] /\ Part(p)
  BY DEF Parts
<1>2. PICK q : q = [p EXCEPT !.start = start, !.end = end]
  OBVIOUS
<1>3. q = [start |-> start, end |-> end, boot |-> p.boot, type |-> p.type, fs |-> p.fs, orig |-> p.orig]
  BY <1>1, <1>2 DEF Part
<1>4. q.start = start /\ q.end = end /\ q.type = p.type /\ q.fs = p.fs /\ q.orig = p.orig /\ Part(q)
  BY <1>3 DEF Part
<1>5. ps = [f EXCEPT ![i] = q] /\ DOMAIN f = 1 .. 2 /\ \A j \in 1 .. 2 : Part(f[j])
  BY <1>1, <1>2 DEF Parts
<1>6. ps[i] = q /\ ps = [j \in 1 .. 2 |-> ps[j]] /\ \A j \in 1 .. 2 \ {i} : ps[j] = f[j]
  BY <1>5
<1>7. \A j \in 1 .. 2 : Part(ps[j]) /\ ps[j].orig = f[j].orig /\ ps[j].type = f[j].type /\ ps[j].fs = f[j].fs
  BY <1>1, <1>4, <1>5, <1>6
<1>8. Parts(ps)
  BY <1>6, <1>7 DEF Parts
<1>9. QED
  BY <1>4, <1>6, <1>7, <1>8 DEF Moves

Laid(p) == p.start \in Nat /\ p.end \in Nat /\ p.start <= p.end

(* An entry as it is written: the partition's span, and both boundaries in  *)
(* the notation of g when the entry it came from had them so.              *)
LEMMA FillIs ==
    ASSUME NEW ps, NEW i \in 1 .. 2, Laid(ps[i]), NEW e, e = fill_raw_part(ps, i)
    PROVE  /\ Laid(e) /\ e.type = ps[i].type /\ e.fs = ps[i].fs
           /\ \A g \in Geometry :
                (bios_geom = g /\ Nested(ps) /\ \A j \in 1 .. 2 : Agrees(g, ps[j])) => Under(g, e)
<1>1. PICK gg : gg = partition_probe_bios_geometry(ps, i)
  OBVIOUS
<1>2. e = [start |-> ps[i].start, end |-> ps[i].end, boot |-> ps[i].boot, type |-> ps[i].type, fs |-> ps[i].fs,
           chs_start |-> IF ps[i].orig.start = ps[i].start THEN ps[i].orig.chs_start ELSE sector_to_chs(gg, ps[i].start),
           chs_end |-> IF ps[i].orig.end = ps[i].end THEN ps[i].orig.chs_end ELSE sector_to_chs(gg, ps[i].end)]
  BY <1>1, Zenon DEF fill_raw_part
<1>3. /\ e.start = ps[i].start /\ e.end = ps[i].end /\ e.type = ps[i].type /\ e.fs = ps[i].fs
      /\ e.chs_start = IF ps[i].orig.start = ps[i].start THEN ps[i].orig.chs_start ELSE sector_to_chs(gg, ps[i].start)
      /\ e.chs_end = IF ps[i].orig.end = ps[i].end THEN ps[i].orig.chs_end ELSE sector_to_chs(gg, ps[i].end)
  BY <1>2
<1>4. ASSUME NEW g \in Geometry, bios_geom = g, Nested(ps), \A j \in 1 .. 2 : Agrees(g, ps[j])
      PROVE  Under(g, e)
  <2>1. gg = g
    BY <1>1, <1>4, WrittenWith
  <2>2. Under(g, ps[i].orig)
    BY <1>4 DEF Agrees
  <2>3. e.chs_start = sector_to_chs(g, e.start)
    BY <1>3, <2>1, <2>2 DEF Under
  <2>4. e.chs_end = sector_to_chs(g, e.end)
    BY <1>3, <2>1, <2>2 DEF Under
  <2>5. QED
    BY <1>3, <2>3, <2>4 DEF Under, Laid
<1>5. Laid(e)
  BY <1>3 DEF Laid
<1>6. QED
  BY <1>3, <1>4, <1>5

(***************************************************************************)
(* The invariant.                                                          *)
(***************************************************************************)

(* The partitions msdos_read makes of the table.                           *)
Parsed == [i \in DOMAIN table |-> raw_part_parse(table[i])]

TableLaid == Nested(table) /\ \A i \in 1 .. 2 : Laid(table[i])

(* The table is wholly written under the geometry it is said to be.        *)
TableUnder == written # NoChs => \A i \in 1 .. 2 : Under(written, table[i]) /\ table[i].fs \in {NoChs, written}

PartsLaid == Nested(chs_parts) /\ Parts(chs_parts) /\ \A i \in 1 .. 2 : Laid(chs_parts[i])

(* What each partition remembers of its entry is still in that notation.   *)
PartsUnder == written # NoChs => \A i \in 1 .. 2 : Agrees(written, chs_parts[i])

(* A second pass begins with the geometry the first one found.             *)
Pass ==
    /\ chs_pc = "read" => \/ passes = 0
                          \/ passes = 1 /\ bios_geom = Found(Parsed) /\ bios_geom # NoChs
    /\ chs_pc = "open" => passes \in 1 .. 2 /\ PartsLaid /\ PartsUnder
    /\ chs_pc \in {"read", "open"}

GeomInv ==
    /\ written \in Geometry \cup {NoChs}
    /\ TableLaid
    /\ TableUnder
    /\ Pass
    /\ Recovered

(* Each partition is what its entry says.                                  *)
LEMMA ParsedIs ==
    ASSUME TableLaid, TableUnder
    PROVE  /\ Nested(Parsed) /\ Parts(Parsed) /\ \A i \in 1 .. 2 : Laid(Parsed[i])
           /\ written # NoChs => \A i \in 1 .. 2 : Agrees(written, Parsed[i])
<1>1. DOMAIN table = 1 .. 2
  BY DEF TableLaid, Nested
<1>2. Parsed = [i \in 1 .. 2 |-> Parsed[i]]
  BY <1>1 DEF Parsed
<1>3. \A i \in 1 .. 2 : Parsed[i] = [start |-> table[i].start, end |-> table[i].end, boot |-> table[i].boot,
                                     type |-> table[i].type, fs |-> table[i].fs, orig |-> table[i]]
  BY <1>1 DEF Parsed, raw_part_parse
<1>4. \A i \in 1 .. 2 : /\ Parsed[i].start = table[i].start /\ Parsed[i].end = table[i].end
                        /\ Parsed[i].type = table[i].type /\ Parsed[i].fs = table[i].fs /\ Parsed[i].orig = table[i]
  BY <1>3
<1>5. Nested(Parsed)
  BY <1>2, <1>4 DEF TableLaid, Nested
<1>6. Parts(Parsed)
  BY <1>2, <1>3, <1>4 DEF Parts, Part
<1>7. \A i \in 1 .. 2 : Laid(Parsed[i])
  BY <1>4 DEF TableLaid, Laid
<1>8. written # NoChs => \A i \in 1 .. 2 : Agrees(written, Parsed[i])
  BY <1>4 DEF TableUnder, Agrees
<1>9. QED
  BY <1>5, <1>6, <1>7, <1>8

(* What a BIOS can report.                                                 *)
LEMMA GeometriesAre == Geometries \subseteq Geometry
  BY GeometriesAssumption DEF Geometry

(* A table written by one program is wholly under its geometry.            *)
LEMMA GeomInitInv == GeomInit => GeomInv
<1> SUFFICES ASSUME GeomInit
             PROVE  GeomInv
  OBVIOUS
<1>1. written \in Geometry /\ chs_pc = "read" /\ passes = 0
  BY GeometriesAre DEF GeomInit
<1>2. PICK a, b, c, d \in Points, boot \in BOOLEAN, fs \in {NoChs, written} :
         /\ a < b /\ c < d
         /\ \/ b <= c /\ table = <<Entry(written, a, b - 1, FALSE, "normal", NoChs),
                                   Entry(written, c, d - 1, boot, "normal", fs)>>
            \/ /\ a < c /\ d <= b /\ ~ boot
               /\ table = <<Entry(written, a, b - 1, FALSE, "extended", NoChs),
                            Entry(written, c, d - 1, FALSE, "logical", fs)>>
  BY Zenon DEF GeomInit
<1>3. a \in Nat /\ b - 1 \in Nat /\ a <= b - 1 /\ c \in Nat /\ d - 1 \in Nat /\ c <= d - 1
  BY <1>2, GeometriesAssumption
<1>4. ASSUME NEW x \in Nat, NEW y \in Nat, x <= y, NEW f, NEW t, NEW g,
             NEW e, e = Entry(written, x, y, f, t, g)
      PROVE  Laid(e) /\ Under(written, e) /\ e.type = t /\ e.fs = g
  <2>1. /\ e.start = x /\ e.end = y /\ e.type = t /\ e.fs = g
        /\ e.chs_start = sector_to_chs(written, x) /\ e.chs_end = sector_to_chs(written, y)
    BY <1>4 DEF Entry
  <2>2. QED
    BY <1>4, <2>1 DEF Laid, Under
<1>5. \E e1, e2, f1, f2, t1, t2 :
         /\ table = <<e1, e2>>
         /\ e1 = Entry(written, a, b - 1, f1, t1, NoChs) /\ e2 = Entry(written, c, d - 1, f2, t2, fs)
         /\ (t1 = "normal" /\ t2 = "normal") \/ (t1 = "extended" /\ t2 = "logical")
  <2>1. CASE table = <<Entry(written, a, b - 1, FALSE, "normal", NoChs), Entry(written, c, d - 1, boot, "normal", fs)>>
    BY <2>1, Zenon
  <2>2. CASE table = <<Entry(written, a, b - 1, FALSE, "extended", NoChs), Entry(written, c, d - 1, FALSE, "logical", fs)>>
    BY <2>2, Zenon
  <2>3. QED
    BY <1>2, <2>1, <2>2
<1>6. PICK e1, e2, f1, f2, t1, t2 :
         /\ table = <<e1, e2>>
         /\ e1 = Entry(written, a, b - 1, f1, t1, NoChs) /\ e2 = Entry(written, c, d - 1, f2, t2, fs)
         /\ (t1 = "normal" /\ t2 = "normal") \/ (t1 = "extended" /\ t2 = "logical")
  BY <1>5
<1>6a. DOMAIN table = 1 .. 2 /\ table[1] = e1 /\ table[2] = e2
  BY <1>6
<1>6b. /\ Laid(table[1]) /\ Under(written, table[1]) /\ table[1].type = t1 /\ table[1].fs = NoChs
      /\ Laid(table[2]) /\ Under(written, table[2]) /\ table[2].type = t2 /\ table[2].fs = fs
  <2>1. Laid(e1) /\ Under(written, e1) /\ e1.type = t1 /\ e1.fs = NoChs
    BY <1>3, <1>4, <1>6
  <2>2. Laid(e2) /\ Under(written, e2) /\ e2.type = t2 /\ e2.fs = fs
    BY <1>3, <1>4, <1>6
  <2>3. QED
    BY <1>6a, <2>1, <2>2
<1>7. TableLaid
  BY <1>6, <1>6a, <1>6b DEF TableLaid, Nested
<1>8. TableUnder
  BY <1>2, <1>6b DEF TableUnder
<1>9. Pass /\ Recovered
  BY <1>1 DEF Pass, Recovered
<1>10. QED
  BY <1>1, <1>7, <1>8, <1>9 DEF GeomInv

(* Reading: the geometry is kept when it agrees with the table, or          *)
(* nothing contradicts it; otherwise the second pass finds the same.        *)
LEMMA ReadKeeps ==
    ASSUME GeomInv, msdos_read
    PROVE  GeomInv'
<1> DEFINE ps == Parsed
           g == IF disk_check_bios_geometry(ps, bios_geom) THEN bios_geom ELSE disk_probe_bios_geometry(ps)
<1>1. /\ Nested(ps) /\ Parts(ps) /\ \A i \in 1 .. 2 : Laid(ps[i])
      /\ written # NoChs => \A i \in 1 .. 2 : Agrees(written, ps[i])
  BY ParsedIs DEF GeomInv
<1>2. /\ chs_pc = "read" /\ chs_parts' = ps /\ bios_geom' = g /\ chs_pc' = IF g = bios_geom THEN "open" ELSE "read"
      /\ passes' = passes + 1 /\ written' = written /\ table' = table
  BY Zenon DEF msdos_read, Parsed
<1>3. disk_probe_bios_geometry(ps) = First(Found(ps), bios_geom)
  BY <1>1, DiskProbeIs DEF Nested
<1>4. written # NoChs =>
        /\ Found(ps) \in {NoChs, written}
        /\ Found(ps) = NoChs => \A i \in 1 .. 2 : ~ Determines(ps[i].orig) /\ ps[i].fs = NoChs
  BY <1>1, FoundIs DEF GeomInv
<1>5. \/ g = bios_geom /\ disk_check_bios_geometry(ps, bios_geom)
      \/ g = bios_geom /\ Found(ps) = NoChs
      \/ g = Found(ps) /\ Found(ps) # NoChs
  BY <1>3 DEF First
<1>6. passes = 0 \/ (passes = 1 /\ bios_geom = Found(ps) /\ bios_geom # NoChs)
  BY <1>2 DEF GeomInv, Pass
<1>7. Parsed' = ps
  BY <1>2 DEF Parsed
<1>8. DOMAIN ps = 1 .. 2
  BY <1>1 DEF Nested
<1> HIDE DEF ps, g
<1>9. TableLaid' /\ TableUnder' /\ written' \in Geometry \cup {NoChs}
  BY <1>2 DEF GeomInv, TableLaid, TableUnder
<1>10. PartsLaid'
  BY <1>1, <1>2 DEF PartsLaid
<1>11. PartsUnder'
  BY <1>1, <1>2 DEF PartsUnder
<1>12. CASE g = bios_geom
  <2>1. chs_pc' = "open" /\ passes' \in 1 .. 2
    BY <1>2, <1>6, <1>12
  <2>2. Pass'
    BY <1>10, <1>11, <2>1 DEF Pass
  <2>3. written # NoChs => \/ g = written
                           \/ disk_check_bios_geometry(ps, g)
                           \/ \A i \in DOMAIN ps : ~ Determines(ps[i].orig) /\ ps[i].fs = NoChs
    BY <1>4, <1>5, <1>8, <1>12
  <2>4. Recovered'
    BY <1>2, <2>1, <2>3 DEF Recovered
  <2>5. QED
    BY <1>9, <2>2, <2>4 DEF GeomInv
<1>13. CASE g # bios_geom
  <2>1. chs_pc' = "read" /\ passes' = 1 /\ g = Found(ps) /\ g # NoChs
    BY <1>2, <1>5, <1>6, <1>13
  <2>2. Pass'
    BY <1>2, <1>7, <2>1 DEF Pass
  <2>3. Recovered'
    BY <2>1 DEF Recovered
  <2>4. QED
    BY <1>9, <2>2, <2>3 DEF GeomInv
<1>14. QED
  BY <1>12, <1>13

(* Writing: under the table's geometry every boundary, moved or not, is     *)
(* noted in it; under another the table is no longer said to be.            *)
LEMMA ResizeKeeps ==
    ASSUME GeomInv, NEW i \in DOMAIN chs_parts, NEW a \in Points, NEW b \in Points, Resize(i, a, b - 1)
    PROVE  GeomInv'
<1> DEFINE ps == [chs_parts EXCEPT ![i] = [chs_parts[i] EXCEPT !.start = a, !.end = b - 1]]
<1>1. /\ chs_pc = "open" /\ a < b - 1
      /\ table' = [j \in DOMAIN ps |-> fill_raw_part(ps, j)] /\ chs_parts' = ps
      /\ written' = IF bios_geom = written THEN written ELSE NoChs
      /\ bios_geom' = bios_geom /\ chs_pc' = chs_pc /\ passes' = passes
  BY DEF Resize
<1>2. PartsLaid /\ PartsUnder /\ passes \in 1 .. 2
  BY <1>1 DEF GeomInv, Pass
<1>3. i \in 1 .. 2 /\ Parts(chs_parts)
  BY <1>2 DEF PartsLaid, Nested
<1>4. Moves(chs_parts, ps, i, a, b - 1)
  BY <1>3, MovesIs
<1>5. a \in Nat /\ b - 1 \in Nat /\ a <= b - 1
  BY <1>1, GeometriesAssumption
<1> HIDE DEF ps
<1>6. Parts(ps) /\ DOMAIN ps = 1 .. 2
  BY <1>4 DEF Moves, Parts
<1>7. \A j \in 1 .. 2 : Laid(ps[j])
  BY <1>2, <1>4, <1>5 DEF Moves, PartsLaid, Laid
<1>8. Nested(ps)
  BY <1>2, <1>4, <1>6 DEF Moves, PartsLaid, Nested
<1>9. written # NoChs => \A j \in 1 .. 2 : Agrees(written, ps[j])
  BY <1>2, <1>4 DEF Moves, PartsUnder, Agrees
<1>10. ASSUME NEW j \in 1 .. 2
       PROVE  /\ Laid(table'[j]) /\ table'[j].type = ps[j].type /\ table'[j].fs = ps[j].fs
              /\ written' # NoChs => Under(written', table'[j])
  <2>1. PICK e : e = fill_raw_part(ps, j)
    OBVIOUS
  <2>2. table'[j] = e
    BY <1>1, <1>6, <2>1
  <2>3. /\ Laid(e) /\ e.type = ps[j].type /\ e.fs = ps[j].fs
        /\ \A g \in Geometry :
             (bios_geom = g /\ Nested(ps) /\ \A k \in 1 .. 2 : Agrees(g, ps[k])) => Under(g, e)
    BY <1>7, <2>1, FillIs
  <2>4. ASSUME written' # NoChs
        PROVE  Under(written', e)
    <3>1. written' = written /\ bios_geom = written /\ written \in Geometry
      BY <1>1, <2>4 DEF GeomInv
    <3>2. QED
      BY <1>8, <1>9, <2>3, <2>4, <3>1
  <2>5. QED
    BY <2>2, <2>3, <2>4
<1>11. DOMAIN table' = 1 .. 2
  BY <1>1, <1>6
<1>12. TableLaid'
  BY <1>8, <1>10, <1>11 DEF TableLaid, Nested
<1>13. written' \in {written, NoChs} /\ (written' # NoChs => bios_geom' = written')
  BY <1>1
<1>14. TableUnder'
  BY <1>9, <1>10, <1>13 DEF TableUnder, Agrees
<1>15. PartsLaid'
  BY <1>1, <1>6, <1>7, <1>8 DEF PartsLaid
<1>16. PartsUnder'
  BY <1>1, <1>9, <1>13 DEF PartsUnder
<1>17. Pass'
  BY <1>1, <1>2, <1>15, <1>16 DEF Pass
<1>18. Recovered'
  BY <1>1, <1>2, <1>13 DEF Recovered
<1>19. QED
  BY <1>12, <1>13, <1>14, <1>17, <1>18 DEF GeomInv

(* Another program takes up the table as it is.                            *)
LEMMA OpenKeeps ==
    ASSUME GeomInv, NEW g \in Geometries, OpenAgain(g)
    PROVE  GeomInv'
<1>1. chs_pc' = "read" /\ passes' = 0 /\ written' = written /\ table' = table
  BY DEF OpenAgain
<1>2. TableLaid' /\ TableUnder' /\ written' \in Geometry \cup {NoChs}
  BY <1>1 DEF GeomInv, TableLaid, TableUnder
<1>3. Pass' /\ Recovered'
  BY <1>1 DEF Pass, Recovered
<1>4. QED
  BY <1>2, <1>3 DEF GeomInv

(* Every step keeps the invariant.                                         *)
LEMMA GeomNextInv == GeomInv /\ [GeomNext]_geom_vars => GeomInv'
<1> SUFFICES ASSUME GeomInv, [GeomNext]_geom_vars
             PROVE  GeomInv'
  OBVIOUS
<1>1. CASE msdos_read
  BY <1>1, ReadKeeps
<1>2. ASSUME NEW i \in DOMAIN chs_parts, NEW a \in Points, NEW b \in Points, Resize(i, a, b - 1)
      PROVE  GeomInv'
  BY <1>2, ResizeKeeps
<1>3. ASSUME NEW g \in Geometries, OpenAgain(g)
      PROVE  GeomInv'
  BY <1>3, OpenKeeps
<1>4. CASE UNCHANGED geom_vars
  BY <1>4 DEF geom_vars, GeomInv, TableLaid, TableUnder, Pass, PartsLaid, PartsUnder, Parsed, Recovered
<1>5. QED
  BY <1>1, <1>2, <1>3, <1>4 DEF GeomNext

(* Both notations of every entry stay in step.                             *)
LEMMA InvInStep == GeomInv => InStep
<1> SUFFICES ASSUME GeomInv, written # NoChs, NEW i \in DOMAIN table
             PROVE  /\ chs_to_sector(written, table[i].chs_start) \in {0, table[i].start}
                    /\ chs_to_sector(written, table[i].chs_end) \in {0, table[i].end}
  BY DEF InStep
<1>1. written \in Geometry /\ Under(written, table[i])
  BY DEF GeomInv, TableLaid, Nested, TableUnder
<1>2. QED
  BY <1>1, Written DEF Under

(* For every set of geometries a BIOS can report and of places a partition  *)
(* can have: msdos_read ends after two passes at most with a geometry the   *)
(* table does not contradict, and what is written after it keeps to it.     *)
THEOREM GeometryStays == GeomSpec => []GeometryKept
<1>1. GeomInv => GeometryKept
  BY InvInStep DEF GeomInv, GeometryKept
<1>2. QED
  BY <1>1, GeomInitInv, GeomNextInv, PTL DEF GeomSpec
=============================================================================
