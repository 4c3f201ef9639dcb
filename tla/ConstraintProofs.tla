-------------------------- MODULE ConstraintProofs --------------------------
(***************************************************************************)
(* The arithmetic of cs/natmath.c and cs/geom.c, for sectors, grains and  *)
(* regions of any size:                                                    *)
(*   - extended_euclid terminates (EuclidDefined) with the greatest common *)
(*     divisor and its cofactors (EuclidRight);                            *)
(*   - an intersection of two alignments holds exactly the sectors that    *)
(*     are in both (IntersectAlignments);                                  *)
(*   - align_up, align_down and align_nearest find an aligned sector of a  *)
(*     region when it has one, the nearest one (UpIs, DownIs, NearestIs).  *)
(*                                                                         *)
(* The constraint solver, for every device, every set of alignments whose  *)
(* grains divide one int, every limit on the length and any number of      *)
(* constraints:                                                            *)
(*   - a combined constraint has exactly the solutions that its parts have *)
(*     in common (IntersectExact);                                         *)
(*   - the solver works on initialised regions only, what it returns is a  *)
(*     solution, and with room to spare it is the nearest (SolveRight).    *)
(***************************************************************************)
EXTENDS ConstraintSolver, WellFoundedInduction, TLAPS

(***************************************************************************)
(* Induction over the natural numbers, as a statement about sets.          *)
(***************************************************************************)

(* A set of natural numbers has a least element. *)
LEMMA Least ==
    ASSUME NEW S, S \subseteq Nat, S # {}
    PROVE  \E m \in S : \A n \in S : m <= n
<1> DEFINE Less == {p \in Nat \X Nat : p[1] < p[2]}
<1>1. IsWellFoundedOn(Less, Nat)
  BY NatLessThanWellFounded DEF OpToRel
<1>2. PICK m \in S : \A n \in S : <<n, m>> \notin Less
  BY <1>1, WFMin
<1>3. \A n \in S : ~ (n < m)
  BY <1>2
<1>4. QED
  BY <1>3

(* What holds of 0, and of n + 1 when it holds of n, holds of all. *)
LEMMA Induction ==
    ASSUME NEW S, S \subseteq Nat, 0 \in S, \A n \in S : n + 1 \in S
    PROVE  S = Nat
<1> SUFFICES ASSUME Nat \ S # {} PROVE FALSE
  OBVIOUS
<1>1. PICK m \in Nat \ S : \A n \in Nat \ S : m <= n
  BY Least
<1>2. m - 1 \in Nat /\ m - 1 \in S
  BY <1>1
<1>3. QED
  BY <1>1, <1>2

(***************************************************************************)
(* Division.                                                               *)
(***************************************************************************)

(* What TLA+'s \div and % are, for a positive divisor.                     *)
LEMMA DivMod ==
    ASSUME NEW a \in Int, NEW b \in Nat \ {0}
    PROVE  /\ a \div b \in Int /\ a % b \in 0 .. b - 1
           /\ a = b * (a \div b) + (a % b)
  BY SMT

(* The product is what it is in the rules of a ring. *)
LEMMA Ring ==
    ASSUME NEW a \in Int, NEW b \in Int, NEW c \in Int
    PROVE  /\ a * b \in Int /\ a * b = b * a
           /\ a * (b + c) = a * b + a * c /\ a * (b - c) = a * b - a * c
           /\ a * (b * c) = (a * b) * c
           /\ a * (-b) = -(a * b)
           /\ a * 1 = a /\ a * 0 = 0
  BY SMT

(* Multiplication by a positive number keeps < and reflects =.             *)
LEMMA Monotone ==
    ASSUME NEW a \in Nat \ {0}, NEW b \in Int, NEW c \in Int
    PROVE  /\ b < c => a * b + a <= a * c
           /\ a * b = a * c => b = c
  BY SMT

(* C divides towards zero. *)
LEMMA CDivMod ==
    ASSUME NEW a \in Int, NEW b \in Int, b # 0
    PROVE  /\ CDiv(a, b) \in Int /\ CMod(a, b) \in Int
           /\ a = b * CDiv(a, b) + CMod(a, b)
           /\ llabs(CMod(a, b)) < llabs(b)
           /\ a >= 0 => CMod(a, b) >= 0
           /\ a < 0 => CMod(a, b) <= 0
<1> DEFINE m == llabs(a)
           n == llabs(b)
           q == m \div n
           r == m % n
<1>1. m = (IF a < 0 THEN -a ELSE a) /\ n = (IF b < 0 THEN -b ELSE b)
  BY DEF llabs
<1>2. /\ CDiv(a, b) = IF (a < 0) = (b < 0) THEN q ELSE -q
      /\ CMod(a, b) = IF a < 0 THEN -r ELSE r
  <2>1. CDiv(a, b) = IF (a < 0) = (b < 0) THEN q ELSE -q
    BY DEF CDiv, llabs
  <2>2. CMod(a, b) = IF a < 0 THEN -r ELSE r
    BY DEF CMod, llabs
  <2>3. QED
    BY <2>1, <2>2
<1> HIDE DEF m, n
<1>3. m \in Nat /\ n \in Nat \ {0}
  BY <1>1
<1>4. q \in Int /\ r \in 0 .. n - 1 /\ m = n * q + r
  BY <1>3, DivMod
<1> HIDE DEF q, r
<1>5. (-n) * q = -(n * q) /\ (-n) * (-q) = n * q /\ n * (-q) = -(n * q)
  BY <1>3, <1>4
<1>6. CDiv(a, b) \in Int /\ CMod(a, b) \in Int /\ a = b * CDiv(a, b) + CMod(a, b)
  BY <1>1, <1>2, <1>3, <1>4, <1>5
<1>7. /\ llabs(CMod(a, b)) < n
      /\ a >= 0 => CMod(a, b) >= 0
      /\ a < 0 => CMod(a, b) <= 0
  BY <1>2, <1>3, <1>4 DEF llabs
<1>8. QED
  BY <1>6, <1>7 DEF n

(***************************************************************************)
(* extended_euclid terminates: the second argument becomes smaller.        *)
(***************************************************************************)

Bezout == [gcd : Int, x : Int, y : Int]

(* One call, when the recursive calls give what g holds. *)
Call(g, p) ==
    IF p[2] = 0 THEN [gcd |-> p[1], x |-> 1, y |-> 0]
    ELSE LET tmp == g[<<p[2], CMod(p[1], p[2])>>]
         IN  [gcd |-> tmp.gcd, x |-> tmp.y, y |-> tmp.x - CDiv(p[1], p[2]) * tmp.y]

Below(n) == {p \in Int \X Int : llabs(p[2]) <= n}

(* The calls whose second argument is at most n are answered by g. *)
Answers(g, n) == g \in [Below(n) -> Bezout] /\ \A p \in Below(n) : g[p] = Call(g, p)

(* A call has an answer when the one it makes has. *)
LEMMA CallIs ==
    ASSUME NEW g, NEW p \in Int \X Int, p[2] # 0 => g[<<p[2], CMod(p[1], p[2])>>] \in Bezout
    PROVE  Call(g, p) \in Bezout
<1>1. CASE p[2] = 0
  BY <1>1 DEF Call, Bezout
<1>2. CASE p[2] # 0
  <2>1. CDiv(p[1], p[2]) \in Int
    BY <1>2, CDivMod
  <2> DEFINE tmp == g[<<p[2], CMod(p[1], p[2])>>]
  <2>2. tmp.gcd \in Int /\ tmp.x \in Int /\ tmp.y \in Int
    BY <1>2 DEF Bezout
  <2>3. tmp.x - CDiv(p[1], p[2]) * tmp.y \in Int
    BY <2>1, <2>2
  <2>4. QED
    BY <1>2, <2>2, <2>3 DEF Call, Bezout
<1>3. QED
  BY <1>1, <1>2

(* The call that a call makes is smaller. *)
LEMMA Smaller ==
    ASSUME NEW n \in Nat, NEW p \in Below(n), p[2] # 0
    PROVE  /\ <<p[2], CMod(p[1], p[2])>> \in Int \X Int
           /\ n # 0 /\ <<p[2], CMod(p[1], p[2])>> \in Below(n - 1)
<1>1. p[1] \in Int /\ p[2] \in Int /\ llabs(p[2]) <= n
  BY DEF Below
<1>2. CMod(p[1], p[2]) \in Int /\ llabs(CMod(p[1], p[2])) < llabs(p[2])
  BY <1>1, CDivMod
<1>3. llabs(p[2]) \in Int /\ llabs(CMod(p[1], p[2])) \in Nat
  BY <1>1, <1>2 DEF llabs
<1>4. n # 0 /\ llabs(CMod(p[1], p[2])) <= n - 1
  BY <1>1, <1>2, <1>3
<1>5. QED
  BY <1>1, <1>2, <1>4 DEF Below

(* A larger bound on the second argument allows more calls.                *)
LEMMA BelowMore ==
    ASSUME NEW m \in Nat, NEW n \in Nat, m <= n
    PROVE  Below(m) \subseteq Below(n)
  BY DEF Below, llabs

(* Every call with a bounded second argument has an answer.                *)
LEMMA AnswersExist == \A n \in Nat : \E g : Answers(g, n)
<1> DEFINE S == {n \in Nat : \E g : Answers(g, n)}
<1>1. 0 \in S
  <2> DEFINE g == [p \in Below(0) |-> [gcd |-> p[1], x |-> 1, y |-> 0]]
  <2>1. \A p \in Below(0) : p[1] \in Int /\ p[2] = 0
    BY DEF Below, llabs
  <2>2. g \in [Below(0) -> Bezout] /\ \A p \in Below(0) : g[p] = Call(g, p)
    BY <2>1 DEF Call, Bezout
  <2>3. QED
    BY <2>2 DEF Answers
<1>2. ASSUME NEW n \in S PROVE n + 1 \in S
  <2>1. PICK g : Answers(g, n)
    OBVIOUS
  <2> DEFINE h == [p \in Below(n + 1) |-> Call(g, p)]
  <2>2. ASSUME NEW p \in Below(n + 1) PROVE h[p] \in Bezout /\ h[p] = Call(h, p)
    <3>1. h[p] = Call(g, p)
      OBVIOUS
    <3>2. CASE p[2] = 0
      BY <3>1, <3>2, CallIs DEF Call, Below
    <3>3. CASE p[2] # 0
      <4> DEFINE r == <<p[2], CMod(p[1], p[2])>>
      <4>1. r \in Below(n)
        BY <3>3, Smaller
      <4>2. r \in Below(n + 1) /\ g[r] \in Bezout /\ g[r] = Call(g, r)
        BY <2>1, <4>1, BelowMore DEF Answers
      <4>3. h[r] = g[r]
        BY <4>2
      <4>4. QED
        BY <3>1, <3>3, <4>2, <4>3, CallIs DEF Call, Below
    <3>4. QED
      BY <3>2, <3>3
  <2>3. Answers(h, n + 1)
    BY <2>2 DEF Answers
  <2>4. QED
    BY <2>3
<1>3. S = Nat
  BY <1>1, <1>2, Induction
<1>4. QED
  BY <1>3

(* Two sets of answers agree. *)
LEMMA AnswersAgree ==
    ASSUME NEW n \in Nat, NEW g, Answers(g, n), NEW m \in Nat, NEW h, Answers(h, m)
    PROVE  \A p \in Below(n) \cap Below(m) : g[p] = h[p]
<1> DEFINE S == {k \in Nat : \A p \in Below(n) \cap Below(m) \cap Below(k) : g[p] = h[p]}
<1>1. 0 \in S
  <2>1. \A p \in Below(0) : p[2] = 0
    BY DEF Below, llabs
  <2>2. QED
    BY <2>1 DEF Answers, Call
<1>2. ASSUME NEW k \in S PROVE k + 1 \in S
  <2>1. ASSUME NEW p \in Below(n) \cap Below(m) \cap Below(k + 1) PROVE g[p] = h[p]
    <3>1. g[p] = Call(g, p) /\ h[p] = Call(h, p)
      BY DEF Answers
    <3>2. CASE p[2] = 0
      BY <3>1, <3>2 DEF Call
    <3>3. CASE p[2] # 0
      <4> DEFINE r == <<p[2], CMod(p[1], p[2])>>
      <4>1. r \in Below(n) /\ r \in Below(m) /\ r \in Below(k)
        <5>1. \A a, b \in Nat : a <= b => Below(a) \subseteq Below(b)
          BY BelowMore
        <5>2. r \in Below(n - 1) /\ r \in Below(m - 1) /\ r \in Below((k + 1) - 1) /\ n # 0 /\ m # 0
          BY <3>3, Smaller
        <5>3. QED
          BY <5>1, <5>2
      <4>2. g[r] = h[r]
        BY <4>1
      <4>3. QED
        BY <3>1, <3>3, <4>2 DEF Call
    <3>4. QED
      BY <3>2, <3>3
  <2>2. QED
    BY <2>1
<1>3. S = Nat
  BY <1>1, <1>2, Induction
<1>4. ASSUME NEW p \in Below(n) \cap Below(m) PROVE g[p] = h[p]
  <2>1. n \in S /\ p \in Below(n)
    BY <1>3
  <2>2. QED
    BY <2>1
<1>5. QED
  BY <1>4

(* The recursive definition has a meaning. *)
THEOREM EuclidDefined ==
    /\ extended_euclid \in [Int \X Int -> Bezout]
    /\ \A p \in Int \X Int : extended_euclid[p] = Call(extended_euclid, p)
<1> DEFINE best(n) == CHOOSE g : Answers(g, n)
           f == [p \in Int \X Int |-> best(llabs(p[2]))[p]]
<1>1. \A n \in Nat : Answers(best(n), n)
  BY AnswersExist
<1> HIDE DEF best
<1>2. ASSUME NEW p \in Int \X Int PROVE f[p] \in Bezout /\ f[p] = Call(f, p)
  <2> DEFINE n == llabs(p[2])
  <2>1. n \in Nat /\ p \in Below(n)
    BY DEF llabs, Below
  <2>2. f[p] = best(n)[p] /\ best(n)[p] \in Bezout /\ best(n)[p] = Call(best(n), p)
    BY <1>1, <2>1 DEF Answers
  <2>3. CASE p[2] = 0
    BY <2>2, <2>3 DEF Call
  <2>4. CASE p[2] # 0
    <3> DEFINE r == <<p[2], CMod(p[1], p[2])>>
               m == llabs(r[2])
    <3>1. r \in Int \X Int /\ n # 0 /\ r \in Below(n - 1)
      BY <2>1, <2>4, Smaller
    <3>2. m \in Nat /\ r \in Below(m) /\ r \in Below(n)
      BY <2>1, <3>1 DEF llabs, Below
    <3>3. best(m)[r] = best(n)[r]
      BY <1>1, <2>1, <3>2, AnswersAgree
    <3>4. f[r] = best(n)[r]
      BY <3>1, <3>3
    <3>5. QED
      BY <2>2, <2>4, <3>4 DEF Call
  <2>5. QED
    BY <2>3, <2>4
<1>3. f = [p \in Int \X Int |-> Call(f, p)]
  BY <1>2
<1> HIDE DEF f
<1>4. extended_euclid = [p \in Int \X Int |-> Call(extended_euclid, p)]
  BY <1>3 DEF extended_euclid, Call
<1> DEFINE S == {n \in Nat : \A p \in Below(n) : extended_euclid[p] \in Bezout}
<1>5. \A p \in Int \X Int : extended_euclid[p] = Call(extended_euclid, p)
  BY <1>4
<1>6. 0 \in S
  <2>1. \A p \in Below(0) : p[2] = 0 /\ p \in Int \X Int
    BY DEF Below, llabs
  <2>2. QED
    BY <1>5, <2>1, CallIs
<1>7. ASSUME NEW n \in S PROVE n + 1 \in S
  <2>1. ASSUME NEW p \in Below(n + 1) PROVE extended_euclid[p] \in Bezout
    <3>1. p \in Int \X Int /\ (p[2] # 0 => <<p[2], CMod(p[1], p[2])>> \in Below((n + 1) - 1))
      BY Smaller DEF Below
    <3>2. QED
      BY <1>5, <3>1, CallIs
  <2>2. QED
    BY <2>1
<1>8. S = Nat
  BY <1>6, <1>7, Induction
<1>9. \A p \in Int \X Int : llabs(p[2]) \in Nat /\ p \in Below(llabs(p[2]))
  BY DEF Below, llabs
<1>10. QED
  BY <1>4, <1>5, <1>8, <1>9

(***************************************************************************)
(* What extended_euclid returns.                                           *)
(***************************************************************************)

Divides(d, n) == \E k \in Int : n = d * k

(* The greatest common divisor, and its cofactors. *)
Cofactors(a, b, e) ==
    /\ e \in Bezout
    /\ e.gcd = e.x * a + e.y * b
    /\ Divides(e.gcd, a) /\ Divides(e.gcd, b)
    /\ a > 0 /\ b >= 0 => e.gcd > 0

(* A call keeps them.                                                      *)
LEMMA CofactorsCall ==
    ASSUME NEW a \in Int, NEW b \in Int, b # 0,
           Cofactors(b, CMod(a, b), extended_euclid[<<b, CMod(a, b)>>])
    PROVE  Cofactors(a, b, extended_euclid[<<a, b>>])
<1>1. PICK q \in Int, r \in Int :
        /\ q = CDiv(a, b) /\ r = CMod(a, b) /\ a = b * q + r /\ (a >= 0 => r >= 0)
  BY CDivMod
<1>2. PICK f \in Bezout : f = extended_euclid[<<b, CMod(a, b)>>]
  BY DEF Cofactors
<1>3. extended_euclid[<<a, b>>] = [gcd |-> f.gcd, x |-> f.y, y |-> f.x - q * f.y]
  BY <1>1, <1>2, EuclidDefined DEF Call
<1>4. PICK d \in Int, x \in Int, y \in Int : d = f.gcd /\ x = f.x /\ y = f.y
  BY DEF Bezout
<1>5. /\ d = x * b + y * r /\ Divides(d, b) /\ Divides(d, r)
      /\ b > 0 /\ r >= 0 => d > 0
  BY <1>1, <1>2, <1>4 DEF Cofactors
<1>6. d = y * a + (x - q * y) * b /\ Divides(d, a)
  <2>1. y * a = y * (b * q) + y * r /\ y * (b * q) = (q * y) * b
    BY <1>1, SMT
  <2>2. (x - q * y) * b = x * b - (q * y) * b
    BY SMT
  <2>3. PICK k \in Int, l \in Int : b = d * k /\ r = d * l
    BY <1>5 DEF Divides
  <2>4. (d * k) * q = d * (k * q) /\ d * (k * q + l) = d * (k * q) + d * l
    BY SMT
  <2>5. a = d * (k * q + l) /\ k * q + l \in Int
    BY <1>1, <2>3, <2>4
  <2>6. d = y * a + (x - q * y) * b
    BY <1>5, <2>1, <2>2
  <2>7. QED
    BY <2>5, <2>6 DEF Divides
<1>7. extended_euclid[<<a, b>>] = [gcd |-> d, x |-> y, y |-> x - q * y] /\ x - q * y \in Int
  BY <1>3, <1>4
<1>8. /\ extended_euclid[<<a, b>>] \in Bezout /\ extended_euclid[<<a, b>>].gcd = d
      /\ extended_euclid[<<a, b>>].x = y /\ extended_euclid[<<a, b>>].y = x - q * y
  BY <1>7 DEF Bezout
<1>9. a > 0 /\ b >= 0 => d > 0
  BY <1>1, <1>5
<1>10. QED
  BY <1>5, <1>6, <1>8, <1>9 DEF Cofactors

(* extended_euclid returns the greatest common divisor and its cofactors.  *)
THEOREM EuclidRight ==
    ASSUME NEW a \in Int, NEW b \in Int
    PROVE  Cofactors(a, b, extended_euclid[<<a, b>>])
<1> DEFINE S == {n \in Nat : \A p \in Below(n) : Cofactors(p[1], p[2], extended_euclid[p])}
<1>1. ASSUME NEW p \in Int \X Int, p[2] = 0
      PROVE  Cofactors(p[1], p[2], extended_euclid[p])
  <2>1. extended_euclid[p] = [gcd |-> p[1], x |-> 1, y |-> 0]
    BY <1>1, EuclidDefined DEF Call
  <2>2. p[1] = p[1] * 1 /\ p[2] = p[1] * 0
    BY <1>1
  <2>3. QED
    BY <1>1, <2>1, <2>2 DEF Cofactors, Bezout, Divides
<1>2. 0 \in S
  <2>1. \A p \in Below(0) : p \in Int \X Int /\ p[2] = 0
    BY DEF Below, llabs
  <2>2. QED
    BY <1>1, <2>1
<1>3. ASSUME NEW n \in S PROVE n + 1 \in S
  <2>1. ASSUME NEW p \in Below(n + 1), p[2] # 0
        PROVE  Cofactors(p[1], p[2], extended_euclid[p])
    <3>1. p[1] \in Int /\ p[2] \in Int /\ p = <<p[1], p[2]>>
      BY DEF Below
    <3>2. Cofactors(p[2], CMod(p[1], p[2]), extended_euclid[<<p[2], CMod(p[1], p[2])>>])
      BY <2>1, Smaller
    <3>3. QED
      BY <2>1, <3>1, <3>2, CofactorsCall
  <2>2. \A p \in Below(n + 1) : p \in Int \X Int
    BY DEF Below
  <2>3. QED
    BY <1>1, <2>1, <2>2
<1>4. S = Nat
  BY <1>2, <1>3, Induction
<1>5. llabs(b) \in Nat /\ <<a, b>> \in Below(llabs(b))
  BY DEF llabs, Below
<1>6. QED
  BY <1>4, <1>5

(***************************************************************************)
(* Rounding.                                                               *)
(***************************************************************************)

(* Sums, differences and negatives of multiples are multiples.             *)
LEMMA Multiples ==
    ASSUME NEW b \in Int, NEW m \in Int, NEW n \in Int, Divides(b, m), Divides(b, n)
    PROVE  Divides(b, m + n) /\ Divides(b, m - n) /\ Divides(b, -m)
<1>1. PICK k \in Int, l \in Int : m = b * k /\ n = b * l
  BY DEF Divides
<1>2. b * (k + l) = b * k + b * l /\ b * (k - l) = b * k - b * l /\ b * (-k) = -(b * k)
  BY SMT
<1>3. m + n = b * (k + l) /\ m - n = b * (k - l) /\ -m = b * (-k)
  BY <1>1, <1>2
<1>4. k + l \in Int /\ k - l \in Int /\ -k \in Int
  OBVIOUS
<1>5. QED
  BY <1>3, <1>4 DEF Divides

(* A number divides itself and 0.                                          *)
LEMMA Itself == ASSUME NEW b \in Int PROVE Divides(b, b) /\ Divides(b, 0)
<1>1. b = b * 1 /\ 0 = b * 0
  OBVIOUS
<1>2. QED
  BY <1>1 DEF Divides

(* Multiples are a whole number of grains apart. *)
LEMMA Spaced ==
    ASSUME NEW b \in Nat \ {0}, NEW m \in Int, NEW n \in Int, Divides(b, m), Divides(b, n)
    PROVE  m < n => m + b <= n
<1>1. PICK k \in Int, l \in Int : m = b * k /\ n = b * l
  BY DEF Divides
<1>2. CASE k < l
  BY <1>1, <1>2, Monotone
<1>3. CASE k >= l
  <2>1. b * l <= b * k
    BY <1>3, SMT
  <2>2. QED
    BY <1>1, <2>1
<1>4. QED
  BY <1>2, <1>3

(* ped_round_down_to: a multiple at most one grain below. A negative sector *)
(* that is a multiple is rounded down to the next one all the same.        *)
LEMMA RoundDown ==
    ASSUME NEW a \in Int, NEW b \in Nat \ {0}
    PROVE  /\ ped_round_down_to(a, b) \in Int /\ Divides(b, ped_round_down_to(a, b))
           /\ a - b <= ped_round_down_to(a, b) /\ ped_round_down_to(a, b) <= a
           /\ a >= 0 => a - b < ped_round_down_to(a, b)
<1>1. b \in Int /\ b # 0 /\ CDiv(a, b) \in Int /\ CMod(a, b) \in Int
  BY CDivMod
<1> DEFINE q == CDiv(a, b)
           r == CMod(a, b)
<1>2. /\ a = b * q + r /\ llabs(r) < llabs(b)
      /\ (a >= 0 => r >= 0) /\ (a < 0 => r <= 0)
  BY <1>1, CDivMod
<1>3. q \in Int /\ r \in Int
  BY <1>1
<1> HIDE DEF q, r
<1>4. -b < r /\ r < b
  BY <1>3, <1>2 DEF llabs
<1>5. Divides(b, b * q) /\ b * q \in Int
  BY <1>3 DEF Divides
<1>6. CASE a < 0
  <2>1. ped_round_down_to(a, b) = a - (r + b)
    BY <1>6 DEF ped_round_down_to, abs_mod, r
  <2>2. r <= 0
    BY <1>2, <1>6
  <2>3. a - (r + b) = b * q - b
    BY <1>3, <1>2, <1>5
  <2>4. Divides(b, b * q - b)
    BY <1>5, Multiples, Itself
  <2>5. QED
    BY <1>3, <1>4, <1>5, <1>6, <2>1, <2>2, <2>3, <2>4
<1>7. CASE a >= 0
  <2>1. ped_round_down_to(a, b) = a - r
    BY <1>7 DEF ped_round_down_to, abs_mod, r
  <2>2. a - r = b * q
    BY <1>3, <1>2, <1>5
  <2>3. QED
    BY <1>3, <1>2, <1>4, <1>5, <1>7, <2>1, <2>2
<1>8. QED
  BY <1>6, <1>7

(* ped_round_up_to: the first multiple from the sector on.                 *)
LEMMA RoundUp ==
    ASSUME NEW a \in Int, NEW b \in Nat \ {0}
    PROVE  /\ ped_round_up_to(a, b) \in Int /\ Divides(b, ped_round_up_to(a, b))
           /\ a <= ped_round_up_to(a, b) /\ ped_round_up_to(a, b) < a + b
<1>1. b \in Int /\ b # 0 /\ CDiv(a, b) \in Int /\ CMod(a, b) \in Int
  BY CDivMod
<1> DEFINE q == CDiv(a, b)
           r == CMod(a, b)
<1>2. /\ a = b * q + r /\ llabs(r) < llabs(b)
      /\ (a >= 0 => r >= 0) /\ (a < 0 => r <= 0)
  BY <1>1, CDivMod
<1>3. q \in Int /\ r \in Int
  BY <1>1
<1> HIDE DEF q, r
<1>4. -b < r /\ r < b
  BY <1>3, <1>2 DEF llabs
<1>5. Divides(b, b * q) /\ b * q \in Int
  BY <1>3 DEF Divides
<1>6. CASE r = 0
  <2>1. ped_round_up_to(a, b) = a /\ a = b * q
    BY <1>3, <1>2, <1>5, <1>6 DEF ped_round_up_to, r
  <2>2. QED
    BY <1>5, <2>1
<1>7. CASE r # 0 /\ a >= 0
  <2>1. ped_round_up_to(a, b) = (a - r) + b
    BY <1>7 DEF ped_round_up_to, ped_round_down_to, abs_mod, r
  <2>2. (a - r) + b = b * q + b /\ Divides(b, b * q + b)
    BY <1>3, <1>2, <1>5, Multiples, Itself
  <2>3. QED
    BY <1>3, <1>2, <1>4, <1>5, <1>7, <2>1, <2>2
<1>8. CASE r # 0 /\ a < 0
  <2>1. ped_round_up_to(a, b) = (a - (r + b)) + b
    BY <1>8 DEF ped_round_up_to, ped_round_down_to, abs_mod, r
  <2>2. r <= 0
    BY <1>2, <1>8
  <2>3. (a - (r + b)) + b = b * q
    BY <1>3, <1>2, <1>5
  <2>4. QED
    BY <1>3, <1>4, <1>5, <1>8, <2>1, <2>2, <2>3
<1>9. QED
  BY <1>6, <1>7, <1>8

(***************************************************************************)
(* Alignments.                                                             *)
(***************************************************************************)

(* The sectors of an alignment. *)
On(align, s) == Divides(align.grain, s - align.offset)

(* What ped_alignment_new returns. *)
Normal == {align \in PedAlignment : align.grain # 0 => align.offset \in 0 .. align.grain}

(* The fields of an alignment; no alignment is the null pointer.           *)
LEMMA AlignmentIs ==
    ASSUME NEW align \in PedAlignment
    PROVE  align.offset \in Int /\ align.grain \in Nat /\ align # NULL
  BY NullAssumption DEF PedAlignment

(* A grain of 0 has one multiple.                                          *)
LEMMA DividesZero == \A n \in Int : Divides(0, n) <=> n = 0
<1>1. \A k \in Int : 0 * k = 0
  OBVIOUS
<1>2. QED
  BY <1>1 DEF Divides

(* ped_alignment_is_aligned, without a region.                             *)
LEMMA AlignedIs ==
    ASSUME NEW align \in PedAlignment, NEW s \in Int
    PROVE  ped_alignment_is_aligned(align, NULL, s) <=> On(align, s)
<1>1. align.offset \in Int /\ align.grain \in Nat /\ align # NULL
  BY AlignmentIs
<1>2. CASE align.grain = 0
  BY <1>1, <1>2, DividesZero DEF ped_alignment_is_aligned, On
<1>3. CASE align.grain # 0
  <2>1. PICK b \in Nat \ {0}, n \in Int : b = align.grain /\ n = s - align.offset
    BY <1>1, <1>3
  <2>2. ped_alignment_is_aligned(align, NULL, s) <=> CMod(n, b) = 0
    BY <1>1, <1>3, <2>1 DEF ped_alignment_is_aligned
  <2> DEFINE q == CDiv(n, b)
             r == CMod(n, b)
  <2>3. q \in Int /\ r \in Int /\ n = b * q + r /\ llabs(r) < llabs(b)
    BY CDivMod
  <2> HIDE DEF q, r
  <2>4. -b < r /\ r < b /\ b * q \in Int
    BY <2>3 DEF llabs
  <2>5. r = 0 => Divides(b, n)
    BY <2>3, <2>4 DEF Divides
  <2>6. ASSUME Divides(b, n) PROVE r = 0
    <3>1. Divides(b, b * q) /\ r = n - b * q
      BY <2>3, <2>4 DEF Divides
    <3>2. Divides(b, r)
      BY <2>4, <2>6, <3>1, Multiples
    <3>3. ~ (r < 0) /\ ~ (0 < r)
      BY <2>3, <2>4, <3>2, Itself, Spaced
    <3>4. QED
      BY <2>3, <3>3
  <2>7. QED
    BY <2>1, <2>2, <2>5, <2>6 DEF On, r
<1>4. QED
  BY <1>2, <1>3

(* Offsets are reduced, the sectors are the same. *)
LEMMA NewAlignment ==
    ASSUME NEW offset \in Int, NEW grain \in Nat
    PROVE  /\ ped_alignment_new(offset, grain) \in Normal
           /\ ped_alignment_new(offset, grain).grain = grain
           /\ \A s \in Int : On(ped_alignment_new(offset, grain), s) <=> Divides(grain, s - offset)
<1>1. CASE grain = 0
  <2>1. ped_alignment_new(offset, grain) = [offset |-> offset, grain |-> grain]
    BY <1>1 DEF ped_alignment_new
  <2>2. QED
    BY <1>1, <2>1 DEF Normal, PedAlignment, On
<1>2. CASE grain # 0
  <2>1. ped_alignment_new(offset, grain) = [offset |-> abs_mod(offset, grain), grain |-> grain]
    BY <1>2 DEF ped_alignment_new
  <2>2. abs_mod(offset, grain) \in Int
    <3>1. CMod(offset, grain) \in Int
      BY <1>2, CDivMod
    <3>2. QED
      BY <3>1 DEF abs_mod
  <2> DEFINE m == abs_mod(offset, grain)
             d == ped_round_down_to(offset, grain)
  <2>3. d = offset - m /\ m \in Int
    BY <2>2 DEF ped_round_down_to
  <2>4. d \in Int /\ Divides(grain, d) /\ offset - grain <= d /\ d <= offset
    BY <1>2, RoundDown
  <2> HIDE DEF m, d
  <2>5. m \in 0 .. grain
    BY <2>3, <2>4
  <2>6. ASSUME NEW s \in Int PROVE Divides(grain, s - m) <=> Divides(grain, s - offset)
    <3>1. PICK u \in Int, v \in Int : u = s - m /\ v = s - offset
      BY <2>3
    <3>2. u = v + d /\ v = u - d
      BY <2>3, <2>4, <3>1
    <3>3. Divides(grain, v) => Divides(grain, u)
      BY <2>4, <3>2, Multiples
    <3>4. Divides(grain, u) => Divides(grain, v)
      BY <2>4, <3>2, Multiples
    <3>5. QED
      BY <3>1, <3>3, <3>4
  <2>7. QED
    BY <1>2, <2>1, <2>5, <2>6 DEF Normal, PedAlignment, On, m
<1>3. QED
  BY <1>1, <1>2

(* Moving by whole grains stays in an alignment, and gets to all of it. *)
LEMMA Shifted ==
    ASSUME NEW align \in PedAlignment, NEW s \in Int, NEW m \in Int,
           Divides(align.grain, m), On(align, s)
    PROVE  On(align, s + m) /\ On(align, s - m)
<1>1. align.offset \in Int /\ align.grain \in Int /\ s - align.offset \in Int
  BY AlignmentIs
<1>2. /\ (s + m) - align.offset = (s - align.offset) + m
      /\ (s - m) - align.offset = (s - align.offset) - m
  BY <1>1
<1>3. QED
  BY <1>1, <1>2, Multiples DEF On

(* Two sectors of an alignment are a grain apart.                          *)
LEMMA Apart ==
    ASSUME NEW align \in PedAlignment, align.grain # 0, NEW s \in Int, NEW t \in Int,
           On(align, s), On(align, t)
    PROVE  s < t => s + align.grain <= t
<1>1. align.offset \in Int /\ align.grain \in Nat \ {0}
  BY AlignmentIs
<1>2. PICK m \in Int, n \in Int : m = s - align.offset /\ n = t - align.offset
  BY <1>1
<1>3. m < n => m + align.grain <= n
  BY <1>1, <1>2, Spaced DEF On
<1>4. QED
  BY <1>1, <1>2, <1>3

(***************************************************************************)
(* Intersections.                                                          *)
(***************************************************************************)

(* A division without remainder. *)
LEMMA CDivExact ==
    ASSUME NEW g \in Int, g # 0, NEW m \in Int
    PROVE  CDiv(g * m, g) = m
<1> DEFINE n == g * m
           q == CDiv(n, g)
           r == CMod(n, g)
<1>1. n \in Int
  OBVIOUS
<1>2. q \in Int /\ r \in Int /\ n = g * q + r /\ llabs(r) < llabs(g)
  BY <1>1, CDivMod
<1> HIDE DEF q, r
<1>3. PICK k \in Int : k = m - q
  BY <1>2
<1>4. r = g * k
  <2>1. g * (m - q) = g * m - g * q
    BY <1>2
  <2>2. QED
    BY <1>2, <1>3, <2>1
<1>5. k = 0
  <2>1. CASE g > 0
    <3>1. -g < g * k /\ g * k < g
      BY <1>2, <1>4, <2>1 DEF llabs
    <3>2. g * k < g * 1 /\ g * (-1) < g * k
      BY <3>1
    <3>3. ~ (k < 0) /\ ~ (0 < k)
      BY <2>1, <3>1, SMT
    <3>4. QED
      BY <3>3
  <2>2. CASE g < 0
    <3>1. PICK h \in Nat \ {0} : h = -g
      BY <2>2
    <3>2. g * k = -(h * k)
      BY <3>1
    <3>3. -h < h * k /\ h * k < h
      BY <1>2, <1>4, <2>2, <3>1, <3>2 DEF llabs
    <3>4. ~ (k < 0) /\ ~ (0 < k)
      BY <3>3, SMT
    <3>5. QED
      BY <3>4
  <2>3. QED
    BY <2>1, <2>2
<1>6. m = q
  BY <1>2, <1>3, <1>5
<1>7. QED
  BY <1>6 DEF q

(* The grain is 0 or divides n. *)
Fits(align, n) == align.grain = 0 \/ Divides(align.grain, n)

(* r stands for the sectors that are both in a and in b, and its grain     *)
(* divides what theirs divide.                                             *)
Common(a, b, r) ==
    /\ r \in Normal \cup {NULL}
    /\ \A s \in Int : On(a, s) /\ On(b, s) <=> r # NULL /\ On(r, s)
    /\ \A n \in Nat \ {0} : Fits(a, n) /\ Fits(b, n) /\ r # NULL => Fits(r, n)

(* The offset and the grain that the cofactors give: the sectors of both.  *)
LEMMA EuclidMeets ==
    ASSUME NEW a \in PedAlignment, NEW b \in PedAlignment, a.grain # 0
    PROVE  Common(a, b, Euclid(a, b, extended_euclid[<<a.grain, b.grain>>]))
<1>1. PICK A \in Nat \ {0}, B \in Nat, p \in Int, q \in Int :
        A = a.grain /\ B = b.grain /\ p = a.offset /\ q = b.offset
  BY AlignmentIs
<1>2. PICK e \in Bezout : e = extended_euclid[<<A, B>>]
  BY EuclidDefined
<1>3. PICK g \in Int, x \in Int, y \in Int : g = e.gcd /\ x = e.x /\ y = e.y
  BY DEF Bezout
<1>4. g > 0 /\ g = x * A + y * B /\ Divides(g, A) /\ Divides(g, B)
  <2>1. Cofactors(A, B, e)
    BY <1>2, EuclidRight
  <2>2. QED
    BY <1>3, <2>1 DEF Cofactors
<1>5. PICK A1 \in Int, B1 \in Int : A = g * A1 /\ B = g * B1
  BY <1>4 DEF Divides
<1>6. A1 > 0 /\ B1 >= 0
  BY <1>4, <1>5, SMT
<1>7. PICK L \in Nat : L = CDiv(A * B, g) /\ L = A * B1 /\ L = B * A1
  <2>1. A * B = g * (A * B1) /\ A * B1 = B * A1
    BY <1>5, SMT
  <2>2. A * B1 \in Int /\ A * B1 >= 0
    BY <1>6, SMT
  <2>3. CDiv(g * (A * B1), g) = A * B1
    BY <1>4, <2>2, CDivExact
  <2>4. QED
    BY <2>1, <2>2, <2>3
<1>8. PICK d \in Int : d = CDiv(q - p, g)
  BY <1>4, CDivMod
<1>9. PICK n \in Int : n = p + x * d * A
  OBVIOUS
<1> DEFINE r == Euclid(a, b, extended_euclid[<<a.grain, b.grain>>])
<1>10. r = IF n # q - y * d * B THEN NULL ELSE ped_alignment_new(n, L)
  BY <1>1, <1>2, <1>3, <1>7, <1>8, <1>9 DEF Euclid, Meeting
<1> SUFFICES Common(a, b, r)
  OBVIOUS
<1> HIDE DEF r
<1>11. n = q - y * d * B <=> g * d = q - p
  <2>1. x * d * A + y * d * B = (x * A + y * B) * d
    BY SMT
  <2>2. x * d * A + y * d * B = g * d
    BY <1>4, <2>1
  <2>3. QED
    BY <1>9, <2>2
<1>12. \A s \in Int : On(a, s) /\ On(b, s) => g * d = q - p
  <2> SUFFICES ASSUME NEW s \in Int, On(a, s), On(b, s) PROVE g * d = q - p
    OBVIOUS
  <2>1. PICK k \in Int, l \in Int : s - p = A * k /\ s - q = B * l
    BY <1>1 DEF On, Divides
  <2>2. q - p = A * k - B * l
    BY <2>1
  <2>3. A * k - B * l = g * (A1 * k - B1 * l)
    BY <1>5, SMT
  <2>4. PICK m \in Int : m = A1 * k - B1 * l
    OBVIOUS
  <2>5. q - p = g * m
    BY <2>2, <2>3, <2>4
  <2>6. CDiv(g * m, g) = m
    BY <1>4, CDivExact
  <2>7. QED
    BY <1>8, <2>5, <2>6
<1>13. CASE g * d # q - p
  BY <1>10, <1>11, <1>12, <1>13 DEF Common
<1>14. CASE g * d = q - p
  <2>1. n = q - y * d * B /\ r = ped_alignment_new(n, L)
    BY <1>10, <1>11, <1>14
  <2>2. r \in Normal /\ \A s \in Int : On(r, s) <=> Divides(L, s - n)
    BY <2>1, NewAlignment
  <2>3. r # NULL
    BY <2>2, AlignmentIs DEF Normal
  <2>4. ASSUME NEW s \in Int, Divides(L, s - n) PROVE On(a, s) /\ On(b, s)
    <3>1. PICK k \in Int : s - n = L * k
      BY <2>4 DEF Divides
    <3>2. s - p = A * (x * d + B1 * k)
      <4>1. L * k = (A * B1) * k
        BY <1>7
      <4>2. A * (x * d + B1 * k) = x * d * A + (A * B1) * k
        BY SMT
      <4>3. QED
        BY <1>9, <3>1, <4>1, <4>2
    <3>3. s - q = B * (A1 * k - y * d)
      <4>1. L * k = (B * A1) * k
        BY <1>7
      <4>2. B * (A1 * k - y * d) = (B * A1) * k - y * d * B
        BY SMT
      <4>3. QED
        BY <2>1, <3>1, <4>1, <4>2
    <3>4. x * d + B1 * k \in Int /\ A1 * k - y * d \in Int
      OBVIOUS
    <3>5. QED
      BY <1>1, <3>2, <3>3, <3>4 DEF On, Divides
  <2>5. ASSUME NEW s \in Int, On(a, s), On(b, s) PROVE Divides(L, s - n)
    <3>1. PICK k \in Int, l \in Int : s - p = A * k /\ s - q = B * l
      BY <1>1, <2>5 DEF On, Divides
    <3>2. PICK t \in Int, u \in Int, v \in Int : t = s - n /\ u = k - x * d /\ v = l + y * d
      OBVIOUS
    <3>3. t = A * u
      <4>1. A * (k - x * d) = A * k - x * d * A
        BY SMT
      <4>2. QED
        BY <1>9, <3>1, <3>2, <4>1
    <3>4. t = B * v
      <4>1. B * (l + y * d) = B * l + y * d * B
        BY SMT
      <4>2. QED
        BY <2>1, <3>1, <3>2, <4>1
    <3>5. PICK w \in Int : w = x * v + y * u
      OBVIOUS
    <3>6. g * t = g * (L * w)
      <4>1. g * t = x * A * t + y * B * t
        BY <1>4, SMT
      <4>2. x * A * t = x * A * (B * v) /\ y * B * t = y * B * (A * u)
        BY <3>3, <3>4
      <4>3. x * A * (B * v) + y * B * (A * u) = (A * B) * (x * v + y * u)
        BY SMT
      <4>4. A * B = g * L
        BY <1>5, <1>7, SMT
      <4>5. (g * L) * w = g * (L * w)
        BY SMT
      <4>6. QED
        BY <3>5, <4>1, <4>2, <4>3, <4>4, <4>5
    <3>7. t = L * w
      <4>1. L * w \in Int /\ g \in Nat \ {0}
        BY <1>4
      <4>2. QED
        BY <3>6, <4>1, Monotone
    <3>8. QED
      BY <3>2, <3>7 DEF Divides
  <2>6. ASSUME NEW m \in Nat \ {0}, Fits(a, m), Fits(b, m) PROVE Fits(r, m)
    <3>1. r.grain = L
      BY <2>1, NewAlignment
    <3>2. CASE B = 0
      <4>1. L = 0
        BY <1>6, <1>7, <3>2
      <4>2. QED
        BY <3>1, <4>1 DEF Fits
    <3>3. CASE B # 0
      <4>1. PICK k \in Int, l \in Int : m = A * k /\ m = B * l
        BY <1>1, <2>6, <3>3 DEF Fits, Divides
      <4>2. PICK w \in Int : w = x * l + y * k
        OBVIOUS
      <4>3. g * m = g * (L * w)
        <5>1. g * m = x * A * m + y * B * m
          BY <1>4, SMT
        <5>2. x * A * m = x * A * (B * l) /\ y * B * m = y * B * (A * k)
          BY <4>1
        <5>3. x * A * (B * l) + y * B * (A * k) = (A * B) * (x * l + y * k)
          BY SMT
        <5>4. A * B = g * L
          BY <1>5, <1>7, SMT
        <5>5. (g * L) * w = g * (L * w)
          BY SMT
        <5>6. QED
          BY <4>2, <5>1, <5>2, <5>3, <5>4, <5>5
      <4>4. L * w \in Int /\ g \in Nat \ {0} /\ m \in Int
        BY <1>4
      <4>5. m = L * w
        BY <4>3, <4>4, Monotone
      <4>6. QED
        BY <3>1, <4>5 DEF Fits, Divides
    <3>4. QED
      BY <3>2, <3>3
  <2>7. QED
    BY <2>2, <2>3, <2>4, <2>5, <2>6 DEF Common
<1>15. QED
  BY <1>13, <1>14

(* A number below the divisor is its own remainder.                        *)
LEMMA SmallMod == ASSUME NEW b \in Nat \ {0}, NEW c \in 0 .. b - 1 PROVE c % b = c
<1>1. c \div b \in Int /\ c % b \in 0 .. b - 1 /\ c = b * (c \div b) + (c % b)
  BY DivMod
<1>2. PICK k \in Int, r \in Int : r \in 0 .. b - 1 /\ k = c \div b /\ r = c % b /\ c = b * k + r
  BY <1>1
<1>3. Divides(b, b * k) /\ b * k \in Int /\ Divides(b, 0)
  <2>1. k \in Int
    BY <1>2
  <2>2. Divides(b, b * k) /\ b * k \in Int
    BY <2>1 DEF Divides
  <2>3. QED
    BY <2>2, Itself
<1>4. ~ (b * k < 0) /\ ~ (0 < b * k)
  BY <1>2, <1>3, Spaced
<1>5. QED
  BY <1>2, <1>3, <1>4

(* Arguments that fit are passed as they are. *)
LEMMA AsIntFits == \A n \in 0 .. IntMax : AsInt(n) = n
<1> SUFFICES ASSUME NEW n \in 0 .. IntMax PROVE AsInt(n) = n
  OBVIOUS
<1>1. PICK m \in Nat \ {0}, c \in Nat : m = 2 * (IntMax + 1) /\ c = n + IntMax + 1 /\ c < m
  BY IntMaxAssumption
<1>2. c % m = c
  BY <1>1, SmallMod
<1>3. QED
  BY <1>1, <1>2, IntMaxAssumption DEF AsInt

(* ped_alignment_intersect, for grains that extended_euclid can take. *)
THEOREM IntersectAlignments ==
    ASSUME NEW a \in Normal, NEW b \in Normal, a.grain <= IntMax, b.grain <= IntMax
    PROVE  Common(a, b, ped_alignment_intersect(a, b))
<1>1. /\ a \in PedAlignment /\ b \in PedAlignment /\ a # NULL /\ b # NULL
      /\ a.grain \in 0 .. IntMax /\ b.grain \in 0 .. IntMax
      /\ a.offset \in Int /\ b.offset \in Int
  BY AlignmentIs, IntMaxAssumption DEF Normal
<1>2. ASSUME NEW c \in Normal, NEW d \in Normal, c \in PedAlignment, d \in PedAlignment,
             c.grain \in 0 .. IntMax, d.grain \in 0 .. IntMax, c.grain >= d.grain
      PROVE  Common(c, d, IntersectCoarser(c, d))
  <2>1. c.offset \in Int /\ d.offset \in Int /\ c # NULL
    BY <1>2, AlignmentIs
  <2>2. CASE c.grain = 0
    <3>1. d.grain = 0
      BY <1>2, <2>2
    <3>2. \A s \in Int : (On(c, s) <=> s = c.offset) /\ (On(d, s) <=> s = d.offset)
      BY <2>1, <2>2, <3>1, DividesZero DEF On
    <3>3. CASE c.offset = d.offset
      <4>1. IntersectCoarser(c, d) = c
        BY <2>2, <3>1, <3>3 DEF IntersectCoarser
      <4>2. QED
        BY <2>1, <3>2, <3>3, <4>1 DEF Common
    <3>4. CASE c.offset # d.offset
      <4>1. IntersectCoarser(c, d) = NULL
        BY <2>2, <3>1, <3>4 DEF IntersectCoarser
      <4>2. QED
        BY <3>2, <3>4, <4>1 DEF Common
    <3>5. QED
      BY <3>3, <3>4
  <2>3. CASE c.grain # 0
    <3>1. IntersectCoarser(c, d) = Euclid(c, d, extended_euclid[<<c.grain, d.grain>>])
      BY <1>2, <2>3, AsIntFits DEF IntersectCoarser
    <3>2. QED
      BY <1>2, <2>3, <3>1, EuclidMeets
  <2>4. QED
    BY <2>2, <2>3
<1>3. CASE a.grain < b.grain
  <2>1. ped_alignment_intersect(a, b) = IntersectCoarser(b, a)
    BY <1>1, <1>3 DEF ped_alignment_intersect
  <2>2. Common(b, a, IntersectCoarser(b, a))
    BY <1>1, <1>2, <1>3
  <2>3. QED
    BY <2>1, <2>2 DEF Common
<1>4. CASE ~ (a.grain < b.grain)
  <2>1. ped_alignment_intersect(a, b) = IntersectCoarser(a, b)
    BY <1>1, <1>4 DEF ped_alignment_intersect
  <2>2. QED
    BY <1>1, <1>2, <1>4, <2>1
<1>5. QED
  BY <1>3, <1>4

(***************************************************************************)
(* Aligning.                                                               *)
(***************************************************************************)

SectorsOf(geom) == geom.start .. geom.end
OnDevice(geom) == geom \in PedGeometry /\ geom.start >= 0

(* r is a sector of the alignment in a region, when there is one.          *)
Found(align, geom, r) ==
    \/ r = NoSector /\ \A x \in SectorsOf(geom) : ~ On(align, x)
    \/ r \in SectorsOf(geom) /\ On(align, r)

(* The fields of a region of the device; it is not the null pointer.       *)
LEMMA GeometryIs ==
    ASSUME NEW geom, OnDevice(geom)
    PROVE  geom.start \in Nat /\ geom.end \in Int /\ geom # NULL /\ SectorsOf(geom) \subseteq Nat
<1>1. geom.start \in Nat /\ geom.end \in Int /\ geom # NULL
  BY NullAssumption DEF OnDevice, PedGeometry
<1>2. QED
  BY <1>1 DEF SectorsOf

(* closest_inside_geometry, first half: up into the region by whole grains. *)
LEMMA RaiseIs ==
    ASSUME NEW align \in PedAlignment, align.grain # 0, NEW geom, OnDevice(geom),
           NEW t \in Int, On(align, t)
    PROVE  LET u == Raise(geom, align.grain, t)
           IN  /\ u \in Int /\ On(align, u) /\ geom.start <= u
               /\ geom.start <= t => u = t
               /\ t < geom.start => u < geom.start + align.grain
<1>1. geom.start \in Int /\ align.grain \in Nat \ {0}
  BY AlignmentIs, GeometryIs
<1>2. CASE geom.start <= t
  BY <1>1, <1>2 DEF Raise
<1>3. CASE t < geom.start
  <2>1. PICK n \in Int : n = geom.start - t
    BY <1>1
  <2> DEFINE m == ped_round_up_to(n, align.grain)
  <2>2. m \in Int /\ Divides(align.grain, m) /\ n <= m /\ m < n + align.grain
    BY <1>1, RoundUp
  <2>3. Raise(geom, align.grain, t) = t + m
    BY <1>3, <2>1 DEF Raise
  <2> HIDE DEF m
  <2>4. On(align, t + m)
    BY <2>2, Shifted
  <2>5. QED
    BY <1>1, <1>3, <2>1, <2>2, <2>3, <2>4
<1>4. QED
  BY <1>1, <1>2, <1>3

(* closest_inside_geometry, second half: down into it by whole grains.     *)
LEMMA LowerIs ==
    ASSUME NEW align \in PedAlignment, align.grain # 0, NEW geom, OnDevice(geom),
           NEW t \in Int, On(align, t)
    PROVE  LET u == Lower(geom, align.grain, t)
           IN  /\ u \in Int /\ On(align, u) /\ u <= geom.end
               /\ t <= geom.end => u = t
               /\ geom.end < t => geom.end < u + align.grain
<1>1. geom.end \in Int /\ align.grain \in Nat \ {0}
  BY AlignmentIs, GeometryIs
<1>2. CASE t <= geom.end
  BY <1>1, <1>2 DEF Lower
<1>3. CASE geom.end < t
  <2>1. PICK n \in Int : n = t - geom.end
    BY <1>1
  <2> DEFINE m == ped_round_up_to(n, align.grain)
  <2>2. m \in Int /\ Divides(align.grain, m) /\ n <= m /\ m < n + align.grain
    BY <1>1, RoundUp
  <2>3. Lower(geom, align.grain, t) = t - m
    BY <1>1, <1>3, <2>1 DEF Lower
  <2> HIDE DEF m
  <2>4. On(align, t - m)
    BY <2>2, Shifted
  <2>5. QED
    BY <1>1, <1>3, <2>1, <2>2, <2>3, <2>4
<1>4. QED
  BY <1>1, <1>2, <1>3

(* Without a grain there is one sector. *)
LEMMA OneSector ==
    ASSUME NEW align \in PedAlignment, align.grain = 0
    PROVE  \A x \in Int : On(align, x) <=> x = align.offset
  BY AlignmentIs, DividesZero DEF On

(* closest_inside_geometry, of a sector of the alignment. *)
LEMMA ClosestInside ==
    ASSUME NEW align \in PedAlignment, NEW geom, OnDevice(geom),
           NEW t \in Int, On(align, t)
    PROVE  LET r == closest_inside_geometry(align, geom, t)
           IN  /\ Found(align, geom, r)
               /\ t \in SectorsOf(geom) => r = t
               /\ \A x \in SectorsOf(geom) : On(align, x) =>
                     (t <= geom.start => r <= x) /\ (geom.end <= t => x <= r)
<1> DEFINE r == closest_inside_geometry(align, geom, t)
<1>1. /\ geom.start \in Nat /\ geom.end \in Int /\ geom # NULL
      /\ align.grain \in Nat /\ align # NULL /\ align.offset \in Int
  BY AlignmentIs, GeometryIs
<1>2. CASE align.grain = 0
  <2>1. t = align.offset /\ \A x \in SectorsOf(geom) : On(align, x) => x = t
    BY <1>1, <1>2, OneSector DEF SectorsOf
  <2>2. r = IF geom.start <= t /\ t <= geom.end THEN t ELSE NoSector
    BY <1>1, <1>2, <2>1
    DEF closest_inside_geometry, IfInside, ped_geometry_test_sector_inside, ped_alignment_is_aligned
  <2> HIDE DEF r
  <2>3. CASE geom.start <= t /\ t <= geom.end
    <3>1. r = t
      BY <2>2, <2>3
    <3>2. t \in SectorsOf(geom)
      BY <1>1, <2>3 DEF SectorsOf
    <3>3. \A x \in SectorsOf(geom) : On(align, x) => x = r
      BY <2>1, <3>1
    <3>4. \A x \in SectorsOf(geom) : On(align, x) => r <= x /\ x <= r
      BY <3>1, <3>3
    <3>5. QED
      BY <3>1, <3>2, <3>4 DEF Found, r
  <2>4. CASE ~ (geom.start <= t /\ t <= geom.end)
    <3>1. r = NoSector /\ t \notin SectorsOf(geom)
      BY <1>1, <2>2, <2>4 DEF SectorsOf
    <3>2. \A x \in SectorsOf(geom) : ~ On(align, x)
      BY <2>1, <3>1
    <3>3. QED
      BY <3>1, <3>2 DEF Found, r
  <2>5. QED
    BY <2>3, <2>4
<1>3. CASE align.grain # 0
  <2>1. PICK g \in Nat \ {0}, s \in Nat, e \in Int :
          g = align.grain /\ s = geom.start /\ e = geom.end
    BY <1>1, <1>3
  <2> DEFINE u == Raise(geom, align.grain, t)
             w == Lower(geom, align.grain, u)
  <2>2. /\ u \in Int /\ On(align, u) /\ s <= u
        /\ s <= t => u = t
        /\ t < s => u < s + g
    BY <1>3, <2>1, RaiseIs
  <2> HIDE DEF u
  <2>3. /\ w \in Int /\ On(align, w) /\ w <= e
        /\ u <= e => w = u
        /\ e < u => e < w + g
    BY <1>3, <2>1, <2>2, LowerIs
  <2> HIDE DEF w
  <2>4. r = IF s <= w /\ w <= e THEN w ELSE NoSector
    BY <1>1, <1>3, <2>1
    DEF closest_inside_geometry, IfInside, ped_geometry_test_sector_inside, u, w
  <2> HIDE DEF r
  <2>5. SectorsOf(geom) = s .. e
    BY <2>1 DEF SectorsOf
  <2>6. ASSUME NEW x \in s .. e, On(align, x)
        PROVE  /\ x < u => x + g <= u
               /\ w < x => w + g <= x
    BY <1>3, <2>1, <2>2, <2>3, <2>6, Apart
  <2>7. CASE t < s /\ u <= e
    <3>1. r = u /\ u \in s .. e
      BY <2>2, <2>3, <2>4, <2>7
    <3>2. ASSUME NEW x \in s .. e, On(align, x) PROVE r <= x /\ (e <= t => x <= r)
      <4>1. x < u => x + g <= u
        BY <2>6, <3>2
      <4>2. QED
        BY <2>2, <2>7, <3>1, <4>1
    <3>3. t \notin s .. e
      BY <2>7
    <3>4. QED
      BY <2>1, <2>2, <2>5, <3>1, <3>2, <3>3 DEF Found, r
  <2>8. CASE t < s /\ e < u
    <3>1. \A x \in s .. e : ~ On(align, x)
      <4> SUFFICES ASSUME NEW x \in s .. e, On(align, x) PROVE FALSE
        OBVIOUS
      <4>1. x < u => x + g <= u
        BY <2>6
      <4>2. QED
        BY <2>2, <2>8, <4>1
    <3>2. r = NoSector
      BY <2>3, <2>4, <3>1
    <3>3. t \notin s .. e
      BY <2>8
    <3>4. QED
      BY <2>1, <2>5, <3>1, <3>2, <3>3 DEF Found, r
  <2>9. CASE s <= t /\ t <= e
    <3>1. r = t /\ t \in s .. e
      BY <2>2, <2>3, <2>4, <2>9
    <3>2. ASSUME NEW x \in s .. e, On(align, x) PROVE (t <= s => r <= x) /\ (e <= t => x <= r)
      BY <2>9, <3>1
    <3>3. QED
      BY <2>1, <2>5, <3>1, <3>2 DEF Found, r
  <2>10. CASE s <= t /\ e < t
    <3>1. u = t /\ e < w + g
      BY <2>2, <2>3, <2>10
    <3>2. ASSUME NEW x \in s .. e, On(align, x) PROVE x <= w
      <4>1. w < x => w + g <= x
        BY <2>6, <3>2
      <4>2. QED
        BY <2>3, <3>1, <4>1
    <3>3. t \notin s .. e
      BY <2>10
    <3>4. CASE s <= w
      <4>1. r = w /\ w \in s .. e
        BY <2>3, <2>4, <3>4
      <4>2. \A x \in s .. e : On(align, x) => (t <= s => r <= x) /\ x <= r
        BY <2>10, <3>2, <4>1
      <4>3. QED
        BY <2>1, <2>3, <2>5, <3>3, <4>1, <4>2 DEF Found, r
    <3>5. CASE w < s
      <4>1. r = NoSector
        BY <2>3, <2>4, <3>5
      <4>2. \A x \in s .. e : ~ On(align, x)
        BY <2>3, <3>2, <3>5
      <4>3. QED
        BY <2>1, <2>5, <3>3, <4>1, <4>2 DEF Found, r
    <3>6. QED
      BY <2>3, <3>4, <3>5
  <2>11. QED
    BY <2>2, <2>7, <2>8, <2>9, <2>10
<1>4. QED
  BY <1>2, <1>3

(* ped_alignment_align_up: the first sector of the alignment from s on; at *)
(* or behind the end of the region it is the last one there is.            *)
LEMMA UpIs ==
    ASSUME NEW align \in PedAlignment, NEW geom, OnDevice(geom), NEW s \in Int
    PROVE  LET r == ped_alignment_align_up(align, geom, s)
           IN  /\ Found(align, geom, r)
               /\ \A x \in SectorsOf(geom) : On(align, x) =>
                     /\ s <= x => s <= r /\ r <= x
                     /\ geom.end <= s => x <= r
<1> DEFINE r == ped_alignment_align_up(align, geom, s)
<1>1. /\ geom.start \in Nat /\ geom.end \in Int /\ geom # NULL /\ SectorsOf(geom) \subseteq Nat
      /\ align.grain \in Nat /\ align.offset \in Int
  BY AlignmentIs, GeometryIs
<1>2. CASE align.grain = 0
  <2>1. r = closest_inside_geometry(align, geom, align.offset)
    BY <1>1, <1>2 DEF ped_alignment_align_up, InsideGeometry
  <2>2. On(align, align.offset) /\ \A x \in SectorsOf(geom) : On(align, x) => x = align.offset
    BY <1>1, <1>2, OneSector
  <2> HIDE DEF r
  <2>3. Found(align, geom, r) /\ (align.offset \in SectorsOf(geom) => r = align.offset)
    BY <1>1, <2>1, <2>2, ClosestInside
  <2>4. ASSUME NEW x \in SectorsOf(geom), On(align, x) PROVE r = x
    BY <2>2, <2>3, <2>4
  <2>5. ASSUME NEW x \in SectorsOf(geom), On(align, x)
        PROVE (s <= x => s <= r /\ r <= x) /\ (geom.end <= s => x <= r)
    BY <1>1, <2>4, <2>5
  <2>6. QED
    BY <2>3, <2>5 DEF r
<1>3. CASE align.grain # 0
  <2>1. PICK g \in Nat \ {0}, n \in Int : g = align.grain /\ n = s - align.offset
    BY <1>1, <1>3
  <2> DEFINE m == ped_round_up_to(n, g)
             t == m + align.offset
  <2>2. m \in Int /\ Divides(g, m) /\ n <= m /\ m < n + g
    BY <2>1, RoundUp
  <2>3. r = closest_inside_geometry(align, geom, t)
    BY <1>1, <1>3, <2>1 DEF ped_alignment_align_up, InsideGeometry
  <2> HIDE DEF m
  <2>4. t \in Int /\ t - align.offset = m /\ s <= t /\ t < s + g
    BY <1>1, <2>1, <2>2
  <2> HIDE DEF t, r
  <2>5. On(align, t)
    BY <2>1, <2>2, <2>4 DEF On
  <2>6. /\ Found(align, geom, r)
        /\ t \in SectorsOf(geom) => r = t
        /\ \A x \in SectorsOf(geom) : On(align, x) =>
              (t <= geom.start => r <= x) /\ (geom.end <= t => x <= r)
    BY <2>3, <2>4, <2>5, ClosestInside
  <2>7. ASSUME NEW x \in SectorsOf(geom), On(align, x)
        PROVE (s <= x => s <= r /\ r <= x) /\ (geom.end <= s => x <= r)
    <3>1. x \in Nat /\ geom.start <= x /\ x <= geom.end
      BY <1>1, <2>7 DEF SectorsOf
    <3>2. x < t => x + g <= t
      BY <1>3, <2>1, <2>4, <2>5, <2>7, <3>1, Apart
    <3>3. r \in SectorsOf(geom) /\ r \in Nat /\ geom.start <= r /\ r <= geom.end
      BY <1>1, <2>6, <2>7 DEF Found, SectorsOf
    <3>4. geom.end <= s => x <= r
      BY <1>1, <2>4, <2>6, <2>7
    <3>5. CASE s <= x
      <4>1. t <= x
        BY <2>1, <2>4, <3>1, <3>2, <3>5
      <4>2. CASE geom.start <= t
        <5>1. t \in SectorsOf(geom)
          BY <1>1, <2>4, <3>1, <4>1, <4>2 DEF SectorsOf
        <5>2. QED
          BY <2>4, <2>6, <3>4, <4>1, <5>1
      <4>3. CASE t < geom.start
        <5>1. r <= x
          BY <1>1, <2>4, <2>6, <2>7, <4>3
        <5>2. s <= r
          BY <1>1, <2>4, <3>3, <4>3
        <5>3. QED
          BY <3>4, <5>1, <5>2
      <4>4. QED
        BY <1>1, <2>4, <4>2, <4>3
    <3>6. QED
      BY <3>4, <3>5
  <2>8. QED
    BY <2>6, <2>7 DEF r
<1>4. QED
  BY <1>2, <1>3

(* ped_alignment_align_down: the last sector of the alignment up to s; at  *)
(* or before the start of the region it is the first one there is.         *)
LEMMA DownIs ==
    ASSUME NEW align \in Normal, NEW geom, OnDevice(geom), NEW s \in Nat
    PROVE  LET r == ped_alignment_align_down(align, geom, s)
           IN  /\ Found(align, geom, r)
               /\ \A x \in SectorsOf(geom) : On(align, x) =>
                     /\ x <= s => x <= r /\ r <= s
                     /\ s <= geom.start => r <= x
<1> DEFINE r == ped_alignment_align_down(align, geom, s)
<1>1. /\ geom.start \in Nat /\ geom.end \in Int /\ geom # NULL /\ SectorsOf(geom) \subseteq Nat
      /\ align \in PedAlignment /\ align.grain \in Nat /\ align.offset \in Int
  BY AlignmentIs, GeometryIs DEF Normal
<1>2. CASE align.grain = 0
  <2>1. r = closest_inside_geometry(align, geom, align.offset)
    BY <1>1, <1>2 DEF ped_alignment_align_down, InsideGeometry
  <2>2. On(align, align.offset) /\ \A x \in SectorsOf(geom) : On(align, x) => x = align.offset
    BY <1>1, <1>2, OneSector
  <2> HIDE DEF r
  <2>3. Found(align, geom, r) /\ (align.offset \in SectorsOf(geom) => r = align.offset)
    BY <1>1, <2>1, <2>2, ClosestInside
  <2>4. ASSUME NEW x \in SectorsOf(geom), On(align, x) PROVE r = x
    BY <2>2, <2>3, <2>4
  <2>5. ASSUME NEW x \in SectorsOf(geom), On(align, x)
        PROVE (x <= s => x <= r /\ r <= s) /\ (s <= geom.start => r <= x)
    BY <1>1, <2>4, <2>5
  <2>6. QED
    BY <2>3, <2>5 DEF r
<1>3. CASE align.grain # 0
  <2>1. PICK g \in Nat \ {0}, n \in Int : g = align.grain /\ n = s - align.offset
    BY <1>1, <1>3
  <2> DEFINE m == ped_round_down_to(n, g)
             t == m + align.offset
  <2>2. m \in Int /\ Divides(g, m) /\ m <= n /\ (n >= 0 => n - g < m)
    BY <2>1, RoundDown
  <2>3. r = closest_inside_geometry(align, geom, t)
    BY <1>1, <1>3, <2>1 DEF ped_alignment_align_down, InsideGeometry
  <2> HIDE DEF m
  <2>4. t \in Int /\ t - align.offset = m /\ t <= s /\ (align.offset <= s => s < t + g)
    BY <1>1, <2>1, <2>2
  <2> HIDE DEF t, r
  <2>5. On(align, t)
    BY <2>1, <2>2, <2>4 DEF On
  <2>6. /\ Found(align, geom, r)
        /\ t \in SectorsOf(geom) => r = t
        /\ \A x \in SectorsOf(geom) : On(align, x) =>
              (t <= geom.start => r <= x) /\ (geom.end <= t => x <= r)
    BY <2>3, <2>4, <2>5, <1>1, ClosestInside
  <2>7. ASSUME NEW x \in SectorsOf(geom), On(align, x)
        PROVE (x <= s => x <= r /\ r <= s) /\ (s <= geom.start => r <= x)
    <3>1. x \in Nat /\ geom.start <= x /\ x <= geom.end
      BY <1>1, <2>7 DEF SectorsOf
    <3>2. t < x => t + g <= x
      <4>1. align \in PedAlignment /\ t \in Int /\ x \in Int
        BY <1>1, <2>4, <3>1
      <4>2. t < x => t + align.grain <= x
        BY <1>3, <2>5, <2>7, <4>1, Apart
      <4>3. QED
        BY <2>1, <4>2
    <3>3. r \in SectorsOf(geom) /\ r \in Nat /\ geom.start <= r /\ r <= geom.end
      BY <1>1, <2>6, <2>7 DEF Found, SectorsOf
    <3>4. s <= geom.start => r <= x
      BY <1>1, <2>4, <2>6, <2>7
    <3>5. CASE x <= s /\ align.offset <= s
      <4>1. x <= t
        BY <2>1, <2>4, <3>1, <3>2, <3>5
      <4>2. CASE t <= geom.end
        <5>1. t \in SectorsOf(geom)
          BY <1>1, <2>4, <3>1, <4>1, <4>2 DEF SectorsOf
        <5>2. QED
          BY <2>4, <2>6, <3>4, <4>1, <5>1
      <4>3. CASE geom.end < t
        <5>1. x <= r
          BY <1>1, <2>4, <2>6, <2>7, <4>3
        <5>2. r <= s
          BY <1>1, <2>4, <3>3, <4>3
        <5>3. QED
          BY <3>4, <5>1, <5>2
      <4>4. QED
        BY <1>1, <2>4, <4>2, <4>3
    <3>6. CASE x <= s /\ s < align.offset
      <4>1. On(align, align.offset) /\ align.offset \in 0 .. g
        <5>1. align.offset - align.offset = g * 0 /\ 0 \in Int
          BY <1>1, <2>1
        <5>2. QED
          BY <1>3, <2>1, <5>1 DEF On, Divides, Normal
      <4>2. x + g <= align.offset /\ t + g <= align.offset
        <5>1. align \in PedAlignment /\ t \in Int /\ x \in Int /\ align.offset \in Int
          BY <1>1, <2>4, <3>1
        <5>2. x < align.offset /\ t < align.offset
          BY <1>1, <2>4, <3>1, <3>6
        <5>3. x + align.grain <= align.offset
          BY <1>3, <2>7, <4>1, <5>1, <5>2, Apart
        <5>4. t + align.grain <= align.offset
          BY <1>3, <2>5, <4>1, <5>1, <5>2, Apart
        <5>5. QED
          BY <2>1, <5>3, <5>4
      <4>3. x = 0 /\ t <= 0 /\ geom.start = 0
        BY <1>1, <2>1, <2>4, <3>1, <4>1, <4>2
      <4>4. r <= x
        BY <2>6, <2>7, <4>3
      <4>5. QED
        BY <3>3, <3>6, <4>3, <4>4
    <3>7. QED
      BY <1>1, <3>1, <3>4, <3>5, <3>6
  <2>8. QED
    BY <2>6, <2>7 DEF r
<1>4. QED
  BY <1>2, <1>3

(* ped_alignment_align_nearest. *)
THEOREM NearestIs ==
    ASSUME NEW align \in Normal, NEW geom, OnDevice(geom), NEW s \in Nat
    PROVE  LET r == ped_alignment_align_nearest(align, geom, s)
           IN  /\ Found(align, geom, r)
               /\ \A x \in SectorsOf(geom) : On(align, x) => llabs(s - r) <= llabs(s - x)
<1> DEFINE r == ped_alignment_align_nearest(align, geom, s)
           u == ped_alignment_align_up(align, geom, s)
           d == ped_alignment_align_down(align, geom, s)
<1>1. /\ geom.start \in Nat /\ geom.end \in Int /\ geom # NULL /\ SectorsOf(geom) \subseteq Nat
      /\ align \in PedAlignment
  BY GeometryIs DEF Normal
<1>2. /\ Found(align, geom, u)
      /\ \A x \in SectorsOf(geom) : On(align, x) => (s <= x => s <= u /\ u <= x)
  BY <1>1, UpIs
<1>3. /\ Found(align, geom, d)
      /\ \A x \in SectorsOf(geom) : On(align, x) => (x <= s => x <= d /\ d <= s)
  BY <1>1, DownIs
<1>4. r = closest(s, u, d)
  BY DEF ped_alignment_align_nearest
<1> HIDE DEF r, u, d
<1>5. CASE \A x \in SectorsOf(geom) : ~ On(align, x)
  <2>1. u = NoSector /\ d = NoSector
    BY <1>2, <1>3, <1>5 DEF Found
  <2>2. r = NoSector
    BY <1>4, <2>1 DEF closest
  <2>3. QED
    BY <1>5, <2>2 DEF Found, r
<1>6. CASE \E x \in SectorsOf(geom) : On(align, x)
  <2>1. /\ u \in SectorsOf(geom) /\ On(align, u)
        /\ d \in SectorsOf(geom) /\ On(align, d)
    BY <1>2, <1>3, <1>6 DEF Found
  <2>2. u \in Nat /\ d \in Nat /\ u # NoSector /\ d # NoSector
    BY <1>1, <2>1 DEF NoSector
  <2>3. r = IF llabs(s - u) < llabs(s - d) THEN u ELSE d
    BY <1>4, <2>2 DEF closest
  <2>4. r \in SectorsOf(geom) /\ On(align, r)
    BY <2>1, <2>3
  <2>5. ASSUME NEW x \in SectorsOf(geom), On(align, x) PROVE llabs(s - r) <= llabs(s - x)
    <3>1. x \in Nat
      BY <1>1
    <3>2. (s <= x => s <= u /\ u <= x) /\ (x <= s => x <= d /\ d <= s)
      BY <1>2, <1>3, <2>5
    <3>3. QED
      BY <2>2, <2>3, <3>1, <3>2 DEF llabs
  <2>6. QED
    BY <2>4, <2>5 DEF Found, r
<1>7. QED
  BY <1>5, <1>6

(***************************************************************************)
(* The solver.                                                             *)
(***************************************************************************)
InDevice(geom) == OnDevice(geom) /\ geom.end < DevLength

Wellformed(c) ==
    /\ c \in PedConstraint
    /\ c.start_align \in Normal /\ c.end_align \in Normal
    /\ InDevice(c.start_range) /\ InDevice(c.end_range)
    /\ c.min_size \in Nat \ {0} /\ c.max_size \in Nat \ {0}

AlignsFit(c, n) == Fits(c.start_align, n) /\ Fits(c.end_align, n)

(* The grains divide one number that an int holds: extended_euclid takes   *)
(* int, and with grains that it cuts off the intersection is garbage.      *)
GrainsFit == \E n \in 1 .. IntMax : \A align \in Aligns : Fits(align, n)

---------------------------------------------------------------------------

(* ped_geometry_intersect: the sectors that are in both regions. *)
LEMMA IntersectGeometries ==
    ASSUME NEW a, NEW b, OnDevice(a), OnDevice(b)
    PROVE  LET r == ped_geometry_intersect(a, b)
           IN  /\ r # NULL => OnDevice(r) /\ r.end <= a.end /\ r.end <= b.end
               /\ \A s \in Int : s \in SectorsOf(a) /\ s \in SectorsOf(b)
                                   <=> r # NULL /\ s \in SectorsOf(r)
<1>1. PICK p \in Nat, q \in Int : p = a.start /\ q = a.end /\ a # NULL
  BY GeometryIs
<1>2. PICK u \in Nat, v \in Int : u = b.start /\ v = b.end /\ b # NULL
  BY GeometryIs
<1>3. PICK m \in Nat : m = IF p > u THEN p ELSE u
  OBVIOUS
<1>4. PICK n \in Int : n = IF q < v THEN q ELSE v
  OBVIOUS
<1> DEFINE r == ped_geometry_intersect(a, b)
<1>5. r = IF m > n THEN NULL ELSE [start |-> m, end |-> n]
  <2>1. r = IF m > n THEN NULL ELSE Geom(m, n - m + 1)
    BY <1>1, <1>2, <1>3, <1>4 DEF ped_geometry_intersect
  <2>2. m + (n - m + 1) - 1 = n /\ (m > n <=> n - m + 1 < 1)
    OBVIOUS
  <2>3. QED
    BY <2>1, <2>2 DEF Geom
<1> HIDE DEF r
<1>6. CASE m > n
  <2>1. \A s \in Int : ~ (s \in p .. q /\ s \in u .. v)
    BY <1>3, <1>4, <1>6
  <2>2. r = NULL
    BY <1>5, <1>6
  <2>3. QED
    BY <1>1, <1>2, <2>1, <2>2 DEF SectorsOf, r
<1>7. CASE ~ (m > n)
  <2>1. r = [start |-> m, end |-> n]
    BY <1>5, <1>7
  <2>2. r \in PedGeometry /\ r.start = m /\ r.end = n
    BY <2>1 DEF PedGeometry
  <2>3. r # NULL
    BY <2>2, NullAssumption
  <2>4. \A s \in Int : s \in p .. q /\ s \in u .. v <=> s \in m .. n
    BY <1>3, <1>4
  <2>5. n <= q /\ n <= v
    BY <1>4
  <2>6. QED
    BY <1>1, <1>2, <2>2, <2>3, <2>4, <2>5 DEF SectorsOf, OnDevice, r
<1>8. QED
  BY <1>6, <1>7

(* A grain that divides a positive int is one. *)
LEMMA FitsSmall ==
    ASSUME NEW align \in PedAlignment, NEW n \in 1 .. IntMax, Fits(align, n)
    PROVE  align.grain <= IntMax
<1>1. PICK g \in Nat : g = align.grain
  BY AlignmentIs
<1>2. CASE g = 0
  BY <1>1, <1>2, IntMaxAssumption
<1>3. CASE g # 0
  <2>1. PICK k \in Int : n = g * k
    BY <1>1, <1>3 DEF Fits, Divides
  <2>2. k >= 1
    <3>1. g * k > 0
      BY <2>1, IntMaxAssumption
    <3>2. QED
      BY <1>3, <3>1, SMT
  <2>3. g * k >= g
    BY <2>2, SMT
  <2>4. QED
    BY <1>1, <2>1, <2>3, IntMaxAssumption
<1>4. QED
  BY <1>2, <1>3

(* The copy of an alignment stands for the same sectors. *)
LEMMA DupIs ==
    ASSUME NEW align \in PedAlignment
    PROVE  /\ Dup(align) \in Normal /\ Dup(align).grain = align.grain
           /\ \A s \in Int : On(Dup(align), s) <=> On(align, s)
<1>1. align.offset \in Int /\ align.grain \in Nat /\ align # NULL
  BY AlignmentIs
<1>2. Dup(align) = ped_alignment_new(align.offset, align.grain)
  BY <1>1 DEF Dup
<1>3. QED
  BY <1>1, <1>2, NewAlignment DEF On

(* ped_constraint_new: a constraint of what it is given.                   *)
LEMMA NewConstraint ==
    ASSUME NEW s \in PedAlignment, NEW e \in PedAlignment,
           NEW sr, NEW er, InDevice(sr), InDevice(er),
           NEW min \in Nat \ {0}, NEW max \in Nat \ {0}
    PROVE  LET c == ped_constraint_new(s, e, sr, er, min, max)
           IN  /\ Wellformed(c)
               /\ c.start_range = sr /\ c.end_range = er
               /\ c.min_size = min /\ c.max_size = max
               /\ \A n : AlignsFit(c, n) <=> Fits(s, n) /\ Fits(e, n)
               /\ \A x \in Int : /\ On(c.start_align, x) <=> On(s, x)
                                 /\ On(c.end_align, x) <=> On(e, x)
<1> DEFINE c == ped_constraint_new(s, e, sr, er, min, max)
<1>1. c = [start_align |-> Dup(s), end_align |-> Dup(e),
           start_range |-> sr, end_range |-> er, min_size |-> min, max_size |-> max]
  BY DEF ped_constraint_new
<1> HIDE DEF c
<1>2. /\ c.start_align = Dup(s) /\ c.end_align = Dup(e)
      /\ c.start_range = sr /\ c.end_range = er
      /\ c.min_size = min /\ c.max_size = max
  BY <1>1
<1>3. Dup(s) \in Normal /\ Dup(e) \in Normal /\ Dup(s).grain = s.grain /\ Dup(e).grain = e.grain
  BY DupIs
<1>4. Wellformed(c)
  <2>1. sr \in PedGeometry /\ er \in PedGeometry
    BY DEF InDevice, OnDevice
  <2>2. Dup(s) \in PedAlignment /\ Dup(e) \in PedAlignment
    BY <1>3 DEF Normal
  <2>3. c \in PedConstraint
    BY <1>1, <2>1, <2>2 DEF PedConstraint
  <2>4. QED
    BY <1>2, <1>3, <2>3 DEF Wellformed
<1>5. \A n : AlignsFit(c, n) <=> Fits(s, n) /\ Fits(e, n)
  BY <1>2, <1>3 DEF AlignsFit, Fits
<1>6. \A x \in Int : (On(c.start_align, x) <=> On(s, x)) /\ (On(c.end_align, x) <=> On(e, x))
  BY <1>2, DupIs
<1>7. QED
  BY <1>2, <1>4, <1>5, <1>6 DEF c

(* The regions of the device.                                              *)
LEMMA RegionIs ==
    ASSUME NEW g \in Regions
    PROVE  /\ g.start \in Nat /\ g.end \in Nat /\ g.start <= g.end /\ g.end < DevLength
           /\ g # NULL /\ InDevice(g)
           /\ g = [start |-> g.start, end |-> g.end]
<1>1. g \in [start : 0 .. DevLength - 1, end : 0 .. DevLength - 1] /\ g.start <= g.end
  BY DEF Regions
<1>2. g.start \in 0 .. DevLength - 1 /\ g.end \in 0 .. DevLength - 1
  BY <1>1
<1>3. g \in PedGeometry
  BY <1>1, DevLengthAssumption DEF PedGeometry
<1>4. QED
  BY <1>1, <1>2, <1>3, NullAssumption, DevLengthAssumption DEF InDevice, OnDevice

(* What the solutions of a constraint are. *)
LEMMA SolutionIs ==
    ASSUME NEW c, Wellformed(c), NEW g \in Regions
    PROVE  g \in Solutions(c) <=>
               /\ On(c.start_align, g.start) /\ On(c.end_align, g.end)
               /\ g.start \in SectorsOf(c.start_range) /\ g.end \in SectorsOf(c.end_range)
               /\ c.min_size <= g.end - g.start + 1 /\ g.end - g.start + 1 <= c.max_size
<1>1. c # NULL
  BY NullConstraint DEF Wellformed
<1>2. g.start \in Int /\ g.end \in Int
  BY RegionIs
<1>3. c.start_align \in PedAlignment /\ c.end_align \in PedAlignment
  BY DEF Wellformed, Normal
<1>4. /\ ped_alignment_is_aligned(c.start_align, NULL, g.start) <=> On(c.start_align, g.start)
      /\ ped_alignment_is_aligned(c.end_align, NULL, g.end) <=> On(c.end_align, g.end)
  BY <1>2, <1>3, AlignedIs
<1>5. OnDevice(c.start_range) /\ OnDevice(c.end_range)
  BY DEF Wellformed, InDevice
<1>6. /\ c.start_range.start \in Int /\ c.start_range.end \in Int
      /\ c.end_range.start \in Int /\ c.end_range.end \in Int
  BY <1>5, GeometryIs
<1>7. /\ ped_geometry_test_sector_inside(c.start_range, g.start)
           <=> g.start \in SectorsOf(c.start_range)
      /\ ped_geometry_test_sector_inside(c.end_range, g.end)
           <=> g.end \in SectorsOf(c.end_range)
  BY <1>2, <1>6 DEF ped_geometry_test_sector_inside, SectorsOf
<1>8. c.min_size \in Nat /\ c.max_size \in Nat
  BY DEF Wellformed
<1>9. /\ Length(g) >= c.min_size <=> c.min_size <= g.end - g.start + 1
      /\ Length(g) <= c.max_size <=> g.end - g.start + 1 <= c.max_size
  BY <1>2, <1>8 DEF Length
<1>10. QED
  BY <1>1, <1>4, <1>7, <1>9 DEF Solutions, ped_constraint_is_solution

(* ped_constraint_intersect: the solutions that both constraints have. *)
LEMMA IntersectConstraints ==
    ASSUME NEW a, NEW b, Wellformed(a), Wellformed(b),
           NEW n \in 1 .. IntMax, AlignsFit(a, n), AlignsFit(b, n)
    PROVE  LET c == ped_constraint_intersect(a, b)
           IN  /\ c # NULL => Wellformed(c) /\ AlignsFit(c, n)
               /\ Solutions(c) = Solutions(a) \cap Solutions(b)
<1>1. /\ a.start_align \in Normal /\ a.end_align \in Normal
      /\ b.start_align \in Normal /\ b.end_align \in Normal
  BY DEF Wellformed
<1>2. /\ a.start_align \in PedAlignment /\ a.end_align \in PedAlignment
      /\ b.start_align \in PedAlignment /\ b.end_align \in PedAlignment
  BY <1>1 DEF Normal
<1>3. /\ Fits(a.start_align, n) /\ Fits(a.end_align, n)
      /\ Fits(b.start_align, n) /\ Fits(b.end_align, n)
  BY DEF AlignsFit
<1>4. /\ a.start_align.grain <= IntMax /\ a.end_align.grain <= IntMax
      /\ b.start_align.grain <= IntMax /\ b.end_align.grain <= IntMax
  BY <1>2, <1>3, FitsSmall
<1>5. PICK sa : sa = ped_alignment_intersect(a.start_align, b.start_align)
  OBVIOUS
<1>6. Common(a.start_align, b.start_align, sa)
  BY <1>1, <1>4, <1>5, IntersectAlignments
<1>7. PICK ea : ea = ped_alignment_intersect(a.end_align, b.end_align)
  OBVIOUS
<1>8. Common(a.end_align, b.end_align, ea)
  BY <1>1, <1>4, <1>7, IntersectAlignments
<1>9. /\ InDevice(a.start_range) /\ InDevice(a.end_range)
      /\ InDevice(b.start_range) /\ InDevice(b.end_range)
  BY DEF Wellformed
<1>10. PICK sr : sr = ped_geometry_intersect(a.start_range, b.start_range)
  OBVIOUS
<1>11. PICK er : er = ped_geometry_intersect(a.end_range, b.end_range)
  OBVIOUS
<1>12. /\ sr # NULL => InDevice(sr)
       /\ \A s \in Int : s \in SectorsOf(a.start_range) /\ s \in SectorsOf(b.start_range)
                             <=> sr # NULL /\ s \in SectorsOf(sr)
  <2>1. /\ OnDevice(a.start_range) /\ OnDevice(b.start_range)
        /\ a.start_range.end \in Int /\ a.start_range.end < DevLength
    BY <1>9, GeometryIs DEF InDevice
  <2>2. sr # NULL => OnDevice(sr) /\ sr.end <= a.start_range.end
    BY <1>10, <2>1, IntersectGeometries
  <2>3. sr # NULL => InDevice(sr)
    BY <2>1, <2>2, GeometryIs, DevLengthAssumption DEF InDevice
  <2>4. QED
    BY <1>10, <2>1, <2>3, IntersectGeometries
<1>13. /\ er # NULL => InDevice(er)
       /\ \A s \in Int : s \in SectorsOf(a.end_range) /\ s \in SectorsOf(b.end_range)
                             <=> er # NULL /\ s \in SectorsOf(er)
  <2>1. /\ OnDevice(a.end_range) /\ OnDevice(b.end_range)
        /\ a.end_range.end \in Int /\ a.end_range.end < DevLength
    BY <1>9, GeometryIs DEF InDevice
  <2>2. er # NULL => OnDevice(er) /\ er.end <= a.end_range.end
    BY <1>11, <2>1, IntersectGeometries
  <2>3. er # NULL => InDevice(er)
    BY <2>1, <2>2, GeometryIs, DevLengthAssumption DEF InDevice
  <2>4. QED
    BY <1>11, <2>1, <2>3, IntersectGeometries
<1>14. PICK min \in Nat \ {0} : min = IF a.min_size > b.min_size THEN a.min_size ELSE b.min_size
  BY DEF Wellformed
<1>15. PICK max \in Nat \ {0} : max = IF a.max_size < b.max_size THEN a.max_size ELSE b.max_size
  BY DEF Wellformed
<1> DEFINE c == ped_constraint_intersect(a, b)
<1>16. c = IF NULL \in {sa, ea, sr, er} THEN NULL
           ELSE ped_constraint_new(sa, ea, sr, er, min, max)
  <2>1. a # NULL /\ b # NULL
    BY NullConstraint DEF Wellformed
  <2>2. QED
    BY <1>5, <1>7, <1>10, <1>11, <1>14, <1>15, <2>1 DEF ped_constraint_intersect, IfAll
<1> HIDE DEF c
<1>17. \A g \in Regions :
         g \in Solutions(a) /\ g \in Solutions(b) <=>
            /\ sa # NULL /\ On(sa, g.start)
            /\ ea # NULL /\ On(ea, g.end)
            /\ sr # NULL /\ g.start \in SectorsOf(sr)
            /\ er # NULL /\ g.end \in SectorsOf(er)
            /\ min <= g.end - g.start + 1 /\ g.end - g.start + 1 <= max
  <2> SUFFICES ASSUME NEW g \in Regions
               PROVE  g \in Solutions(a) /\ g \in Solutions(b) <=>
                        /\ sa # NULL /\ On(sa, g.start)
                        /\ ea # NULL /\ On(ea, g.end)
                        /\ sr # NULL /\ g.start \in SectorsOf(sr)
                        /\ er # NULL /\ g.end \in SectorsOf(er)
                        /\ min <= g.end - g.start + 1 /\ g.end - g.start + 1 <= max
    OBVIOUS
  <2>1. PICK s \in Int, e \in Int, k \in Int : s = g.start /\ e = g.end /\ k = e - s + 1
    BY RegionIs
  <2>2. On(a.start_align, s) /\ On(b.start_align, s) <=> sa # NULL /\ On(sa, s)
    BY <1>6 DEF Common
  <2>3. On(a.end_align, e) /\ On(b.end_align, e) <=> ea # NULL /\ On(ea, e)
    BY <1>8 DEF Common
  <2>4. a.min_size <= k /\ b.min_size <= k <=> min <= k
    BY <1>14 DEF Wellformed
  <2>5. k <= a.max_size /\ k <= b.max_size <=> k <= max
    BY <1>15 DEF Wellformed
  <2>6. g \in Solutions(a) <=>
           /\ On(a.start_align, s) /\ On(a.end_align, e)
           /\ s \in SectorsOf(a.start_range) /\ e \in SectorsOf(a.end_range)
           /\ a.min_size <= k /\ k <= a.max_size
    BY <2>1, SolutionIs
  <2>7. g \in Solutions(b) <=>
           /\ On(b.start_align, s) /\ On(b.end_align, e)
           /\ s \in SectorsOf(b.start_range) /\ e \in SectorsOf(b.end_range)
           /\ b.min_size <= k /\ k <= b.max_size
    BY <2>1, SolutionIs
  <2>8. QED
    BY <1>12, <1>13, <2>1, <2>2, <2>3, <2>4, <2>5, <2>6, <2>7, Zenon
<1>18. Solutions(a) \subseteq Regions /\ Solutions(c) \subseteq Regions
  BY DEF Solutions
<1>19. CASE NULL \in {sa, ea, sr, er}
  <2>1. c = NULL
    BY <1>16, <1>19
  <2>2. Solutions(c) = {}
    BY <2>1 DEF Solutions
  <2>3. \A g \in Regions : ~ (g \in Solutions(a) /\ g \in Solutions(b))
    BY <1>17, <1>19
  <2>4. QED
    BY <1>18, <2>1, <2>2, <2>3 DEF c
<1>20. CASE NULL \notin {sa, ea, sr, er}
  <2>1. c = ped_constraint_new(sa, ea, sr, er, min, max)
    BY <1>16, <1>20
  <2>2. sa # NULL /\ ea # NULL /\ sr # NULL /\ er # NULL
    BY <1>20
  <2>3. sa \in PedAlignment /\ ea \in PedAlignment
    BY <1>6, <1>8, <2>2 DEF Common, Normal
  <2>4. InDevice(sr) /\ InDevice(er)
    BY <1>12, <1>13, <2>2
  <2>5. /\ Wellformed(c)
        /\ c.start_range = sr /\ c.end_range = er
        /\ c.min_size = min /\ c.max_size = max
        /\ \A m : AlignsFit(c, m) <=> Fits(sa, m) /\ Fits(ea, m)
        /\ \A x \in Int : /\ On(c.start_align, x) <=> On(sa, x)
                          /\ On(c.end_align, x) <=> On(ea, x)
    BY <2>1, <2>3, <2>4, NewConstraint
  <2>6. Fits(sa, n) /\ Fits(ea, n)
    <3>1. n \in Nat \ {0}
      BY IntMaxAssumption
    <3>2. QED
      BY <1>3, <1>6, <1>8, <2>2, <3>1 DEF Common
  <2>7. ASSUME NEW g \in Regions
        PROVE  g \in Solutions(c) <=> g \in Solutions(a) /\ g \in Solutions(b)
    <3>1. PICK s \in Int, e \in Int, k \in Int : s = g.start /\ e = g.end /\ k = e - s + 1
      BY RegionIs
    <3>2. g \in Solutions(c) <=>
             /\ On(c.start_align, s) /\ On(c.end_align, e)
             /\ s \in SectorsOf(c.start_range) /\ e \in SectorsOf(c.end_range)
             /\ c.min_size <= k /\ k <= c.max_size
      BY <2>5, <3>1, SolutionIs
    <3>3. g \in Solutions(a) /\ g \in Solutions(b) <=>
             /\ On(sa, s) /\ On(ea, e)
             /\ s \in SectorsOf(sr) /\ e \in SectorsOf(er)
             /\ min <= k /\ k <= max
      BY <1>17, <2>2, <3>1
    <3>4. QED
      BY <2>5, <3>2, <3>3
  <2>8. Solutions(c) = Solutions(a) \cap Solutions(b)
    BY <1>18, <2>7
  <2>9. QED
    BY <2>5, <2>6, <2>8 DEF c
<1>21. QED
  BY <1>19, <1>20

---------------------------------------------------------------------------
(* The constraints that callers build. *)

(* ped_geometry_new of a region that is not empty and ends on the device.  *)
LEMMA GeomInDevice ==
    ASSUME NEW s \in Nat, NEW e \in Nat, NEW length \in Int,
           s <= e, e < DevLength, length = e - s + 1
    PROVE  InDevice(Geom(s, length))
<1>1. ~ (length < 1) /\ s + length - 1 = e
  OBVIOUS
<1>2. Geom(s, length) = [start |-> s, end |-> e]
  BY <1>1 DEF Geom
<1>3. QED
  BY <1>2 DEF InDevice, OnDevice, PedGeometry

(* The device is a region of itself.                                       *)
LEMMA FullDevIs == FullDev \in Regions /\ InDevice(FullDev)
<1>1. FullDev = [start |-> 0, end |-> DevLength - 1]
  BY DEF FullDev
<1>2. FullDev \in Regions
  BY <1>1, DevLengthAssumption DEF Regions
<1>3. QED
  BY <1>2, RegionIs

(* Any sector is aligned to ped_alignment_any. *)
LEMMA AnyAlignment ==
    /\ ped_alignment_any \in PedAlignment
    /\ \A s \in Int : On(ped_alignment_any, s)
    /\ \A n \in Nat \ {0} : Fits(ped_alignment_any, n)
<1>1. ped_alignment_any.offset = 0 /\ ped_alignment_any.grain = 1
  BY DEF ped_alignment_any
<1>2. \A s \in Int : Divides(1, s - 0)
  <2>1. \A s \in Int : s - 0 = 1 * s
    OBVIOUS
  <2>2. QED
    BY <2>1 DEF Divides
<1>3. \A n \in Int : Divides(1, n)
  <2>1. \A n \in Int : n = 1 * n
    OBVIOUS
  <2>2. QED
    BY <2>1 DEF Divides
<1>4. QED
  BY <1>1, <1>2, <1>3 DEF ped_alignment_any, PedAlignment, On, Fits

(* ped_constraint_any has every region of the device for a solution. *)
LEMMA AnyConstraint ==
    ASSUME NEW n \in Nat \ {0}
    PROVE  /\ Wellformed(ped_constraint_any) /\ AlignsFit(ped_constraint_any, n)
           /\ Solutions(ped_constraint_any) = Regions
<1> DEFINE c == ped_constraint_any
<1>1. /\ Wellformed(c)
      /\ c.start_range = FullDev /\ c.end_range = FullDev
      /\ c.min_size = 1 /\ c.max_size = DevLength
      /\ \A m : AlignsFit(c, m) <=> Fits(ped_alignment_any, m)
      /\ \A x \in Int : /\ On(c.start_align, x) <=> On(ped_alignment_any, x)
                        /\ On(c.end_align, x) <=> On(ped_alignment_any, x)
  BY AnyAlignment, FullDevIs, DevLengthAssumption, NewConstraint DEF ped_constraint_any
<1>2. AlignsFit(c, n)
  BY <1>1, AnyAlignment
<1> HIDE DEF c
<1>3. ASSUME NEW g \in Regions PROVE g \in Solutions(c)
  <2>1. PICK s \in Nat, e \in Nat : s = g.start /\ e = g.end /\ s <= e /\ e < DevLength
    BY RegionIs
  <2>2. SectorsOf(FullDev) = 0 .. DevLength - 1
    BY DEF SectorsOf, FullDev
  <2>3. /\ s \in SectorsOf(FullDev) /\ e \in SectorsOf(FullDev)
        /\ 1 <= e - s + 1 /\ e - s + 1 <= DevLength
    BY <2>1, <2>2, DevLengthAssumption
  <2>4. On(c.start_align, s) /\ On(c.end_align, e)
    BY <1>1, AnyAlignment
  <2>5. QED
    BY <1>1, <2>1, <2>3, <2>4, SolutionIs
<1>4. Solutions(c) = Regions
  BY <1>3 DEF Solutions
<1>5. QED
  BY <1>1, <1>2, <1>4 DEF c

(* ped_constraint_exact builds a constraint that the solver accepts.       *)
LEMMA ExactConstraint ==
    ASSUME NEW g \in Regions, NEW n \in Nat \ {0}
    PROVE  Wellformed(ped_constraint_exact(g)) /\ AlignsFit(ped_constraint_exact(g), n)
<1>1. PICK s \in Nat, e \in Nat : s = g.start /\ e = g.end /\ s <= e /\ e < DevLength
  BY RegionIs
<1>2. InDevice(Geom(s, 1)) /\ InDevice(Geom(e, 1))
  <2>1. s < DevLength /\ e < DevLength
    BY <1>1, DevLengthAssumption
  <2>2. \A x \in Nat : x < DevLength => InDevice(Geom(x, 1))
    BY GeomInDevice
  <2>3. QED
    BY <2>1, <2>2
<1>3. PICK sa \in PedAlignment, ea \in PedAlignment :
        /\ sa = ped_alignment_new(s, 0) /\ ea = ped_alignment_new(e, 0)
        /\ sa.grain = 0 /\ ea.grain = 0
  BY NewAlignment DEF Normal
<1>4. ped_constraint_exact(g)
        = ped_constraint_new(sa, ea, Geom(s, 1), Geom(e, 1), 1, DevLength)
  BY <1>1, <1>3 DEF ped_constraint_exact
<1>5. Fits(sa, n) /\ Fits(ea, n)
  BY <1>3 DEF Fits
<1>6. QED
  BY <1>2, <1>3, <1>4, <1>5, DevLengthAssumption, NewConstraint

(* ped_constraint_new_from_max does.                                       *)
LEMMA MaxConstraint ==
    ASSUME NEW g \in Regions, NEW n \in Nat \ {0}
    PROVE  Wellformed(ped_constraint_new_from_max(g))
           /\ AlignsFit(ped_constraint_new_from_max(g), n)
<1>1. PICK s \in Nat, e \in Nat : s = g.start /\ e = g.end /\ s <= e /\ e < DevLength
  BY RegionIs
<1>2. Length(g) \in Nat \ {0} /\ InDevice(g)
  BY <1>1, RegionIs DEF Length
<1>3. QED
  BY <1>2, AnyAlignment, NewConstraint DEF ped_constraint_new_from_max

(* ped_constraint_new_from_min_max does, when min lies in max.             *)
LEMMA MinMaxConstraint ==
    ASSUME NEW g \in Regions, NEW h \in Regions, NEW n \in Nat \ {0},
           ped_geometry_test_inside(h, g)
    PROVE  Wellformed(ped_constraint_new_from_min_max(g, h))
           /\ AlignsFit(ped_constraint_new_from_min_max(g, h), n)
<1>1. PICK s \in Nat, e \in Nat : s = g.start /\ e = g.end /\ s <= e /\ e < DevLength
  BY RegionIs
<1>2. PICK u \in Nat, v \in Nat : u = h.start /\ v = h.end /\ u <= v /\ v < DevLength
  BY RegionIs
<1>3. u <= s /\ e <= v
  BY <1>1, <1>2 DEF ped_geometry_test_inside
<1>4. Length(g) \in Nat \ {0} /\ Length(h) \in Nat \ {0}
  BY <1>1, <1>2 DEF Length
<1>5. InDevice(Geom(u, s - u + 1)) /\ InDevice(Geom(e, v - e + 1))
  <2>1. u <= s /\ s < DevLength /\ e <= v /\ v < DevLength
    BY <1>1, <1>2, <1>3, DevLengthAssumption
  <2>2. InDevice(Geom(u, s - u + 1))
    <3>1. PICK k \in Int : k = s - u + 1
      OBVIOUS
    <3>2. InDevice(Geom(u, k))
      BY <2>1, <3>1, GeomInDevice
    <3>3. QED
      BY <3>1, <3>2
  <2>3. InDevice(Geom(e, v - e + 1))
    <3>1. PICK k \in Int : k = v - e + 1
      OBVIOUS
    <3>2. InDevice(Geom(e, k))
      BY <2>1, <3>1, GeomInDevice
    <3>3. QED
      BY <3>1, <3>2
  <2>4. QED
    BY <2>2, <2>3
<1>6. QED
  BY <1>1, <1>2, <1>4, <1>5, AnyAlignment, NewConstraint DEF ped_constraint_new_from_min_max

---------------------------------------------------------------------------
(* The invariant.  n stands for the number that the grains divide.         *)

SolverInv(n) ==
    /\ con # NULL => Wellformed(con) /\ AlignsFit(con, n)
    /\ IntersectExact
    /\ wish # NULL => wish \in Regions /\ res = ped_constraint_solve_nearest(con, wish)

(* The invariant holds at first: any region satisfies ped_constraint_any.  *)
LEMMA InitSolves == ASSUME NEW n \in 1 .. IntMax, SolveInit PROVE SolverInv(n)
<1>1. n \in Nat \ {0}
  BY IntMaxAssumption
<1>2. QED
  BY <1>1, AnyConstraint DEF SolveInit, SolverInv, IntersectExact

(* One more part. *)
LEMMA NarrowKeeps ==
    ASSUME NEW n \in 1 .. IntMax, SolverInv(n),
           NEW c, Wellformed(c), AlignsFit(c, n), Narrow(c)
    PROVE  SolverInv(n)'
<1>1. /\ wish = NULL /\ wish' = NULL
      /\ con' = ped_constraint_intersect(con, c)
      /\ sols' = sols \cap Solutions(c)
  BY DEF Narrow
<1>2. Solutions(con) = sols
  BY DEF SolverInv, IntersectExact
<1>3. CASE con = NULL
  <2>1. con' = NULL
    BY <1>1, <1>3 DEF ped_constraint_intersect
  <2>2. Solutions(con) = {} /\ Solutions(con)' = {}
    BY <1>3, <2>1 DEF Solutions
  <2>3. QED
    BY <1>1, <1>2, <2>1, <2>2 DEF SolverInv, IntersectExact
<1>4. CASE con # NULL
  <2>1. PICK d : d = ped_constraint_intersect(con, c)
    OBVIOUS
  <2>2. (d # NULL => Wellformed(d) /\ AlignsFit(d, n)) /\ Solutions(d) = sols \cap Solutions(c)
    BY <1>2, <1>4, <2>1, IntersectConstraints DEF SolverInv
  <2>3. con' = d /\ sols' = Solutions(d)
    BY <1>1, <2>1, <2>2
  <2>4. IntersectExact'
    BY <2>3 DEF IntersectExact, Solutions
  <2>5. QED
    BY <1>1, <2>2, <2>3, <2>4 DEF SolverInv
<1>5. QED
  BY <1>3, <1>4

(* Every call of the callers keeps the invariant.                          *)
LEMMA NextSolves ==
    ASSUME NEW n \in 1 .. IntMax, \A align \in Aligns : Fits(align, n),
           SolverInv(n), [SolveNext]_solver_vars
    PROVE  SolverInv(n)'
<1>1. n \in Nat \ {0}
  BY IntMaxAssumption
<1>2. CASE NarrowToAlignment
  <2>1. PICK s \in Aligns, e \in Aligns, min \in Sizes, max \in Sizes :
          Narrow(ped_constraint_new(s, e, FullDev, FullDev, min, max))
    BY <1>2 DEF NarrowToAlignment
  <2>2. /\ s \in PedAlignment /\ e \in PedAlignment
        /\ min \in Nat \ {0} /\ max \in Nat \ {0}
    BY SolverAssumption
  <2>3. QED
    BY <2>1, <2>2, FullDevIs, NewConstraint, NarrowKeeps
<1>3. CASE NarrowToExact
  BY <1>1, <1>3, ExactConstraint, NarrowKeeps DEF NarrowToExact
<1>4. CASE NarrowToMax
  BY <1>1, <1>4, MaxConstraint, NarrowKeeps DEF NarrowToMax
<1>5. CASE NarrowToMin
  <2>1. PICK g \in Regions : Narrow(ped_constraint_new_from_min(g))
    BY <1>5 DEF NarrowToMin
  <2>2. ped_geometry_test_inside(FullDev, g)
    BY RegionIs, DevLengthAssumption DEF ped_geometry_test_inside, FullDev
  <2>3. QED
    BY <1>1, <2>1, <2>2, FullDevIs, MinMaxConstraint, NarrowKeeps
    DEF ped_constraint_new_from_min
<1>6. CASE NarrowToMinMax
  BY <1>1, <1>6, MinMaxConstraint, NarrowKeeps DEF NarrowToMinMax
<1>7. ASSUME NEW g \in Regions, wish' = g, UNCHANGED <<con, sols, narrowed>>,
             res' = ped_constraint_solve_nearest(con, g)
      PROVE  SolverInv(n)'
  BY <1>7 DEF SolverInv, IntersectExact, Solutions
<1>8. CASE SolveNearest
  BY <1>7, <1>8 DEF SolveNearest
<1>9. CASE SolveMax
  <2>1. /\ wish' = FullDev /\ UNCHANGED <<con, sols, narrowed>>
        /\ res' = ped_constraint_solve_max(con)
    BY <1>9 DEF SolveMax
  <2>2. ped_constraint_solve_max(con) = ped_constraint_solve_nearest(con, FullDev)
    BY DEF ped_constraint_solve_max, ped_constraint_solve_nearest
  <2>3. QED
    BY <1>7, <2>1, <2>2, FullDevIs
<1>10. CASE UNCHANGED solver_vars
  BY <1>10 DEF SolverInv, IntersectExact, Solutions, solver_vars
<1>11. QED
  BY <1>2, <1>3, <1>4, <1>5, <1>6, <1>8, <1>9, <1>10 DEF SolveNext

(* A region satisfies the combined constraint if and only if it satisfies  *)
(* each of its parts (ped_constraint_intersect, ped_alignment_intersect    *)
(* with extended_euclid, ped_geometry_intersect).                          *)
THEOREM Exactness == ASSUME GrainsFit PROVE SolveSpec => []IntersectExact
<1>1. PICK n \in 1 .. IntMax : \A align \in Aligns : Fits(align, n)
  BY DEF GrainsFit
<1>2. SolveInit => SolverInv(n)
  BY InitSolves
<1>3. SolverInv(n) /\ [SolveNext]_solver_vars => SolverInv(n)'
  BY <1>1, NextSolves
<1>4. SolverInv(n) => IntersectExact
  BY DEF SolverInv
<1>5. QED
  BY <1>2, <1>3, <1>4, PTL DEF SolveSpec

---------------------------------------------------------------------------
(* Solving.                                                                *)

(* The parts of a constraint that the solver accepts.                      *)
LEMMA ConstraintIs ==
    ASSUME NEW c, Wellformed(c)
    PROVE  /\ c # NULL
           /\ c.start_align \in Normal /\ c.end_align \in Normal
           /\ c.start_align \in PedAlignment /\ c.end_align \in PedAlignment
           /\ OnDevice(c.start_range) /\ OnDevice(c.end_range)
           /\ SectorsOf(c.start_range) \subseteq 0 .. DevLength - 1
           /\ SectorsOf(c.end_range) \subseteq 0 .. DevLength - 1
           /\ c.min_size \in Nat \ {0} /\ c.max_size \in Nat \ {0}
<1>1. /\ c.start_align \in Normal /\ c.end_align \in Normal
      /\ InDevice(c.start_range) /\ InDevice(c.end_range)
      /\ c.min_size \in Nat \ {0} /\ c.max_size \in Nat \ {0}
      /\ c # NULL
  BY NullConstraint DEF Wellformed
<1>2. ASSUME NEW r, InDevice(r) PROVE OnDevice(r) /\ SectorsOf(r) \subseteq 0 .. DevLength - 1
  <2>1. OnDevice(r) /\ r.end < DevLength
    BY <1>2 DEF InDevice
  <2>2. r.start \in Nat /\ r.end \in Int
    BY <2>1, GeometryIs
  <2>3. QED
    BY <2>1, <2>2, DevLengthAssumption DEF SectorsOf
<1>3. QED
  BY <1>1, <1>2 DEF Normal

(* first_end_soln and last_end_soln: the ends of any solution are between. *)
LEMMA EndsAre ==
    ASSUME NEW c, Wellformed(c)
    PROVE  /\ Found(c.end_align, c.end_range, first_end_soln(c))
           /\ Found(c.end_align, c.end_range, last_end_soln(c))
           /\ \A x \in SectorsOf(c.end_range) : On(c.end_align, x) =>
                  first_end_soln(c) <= x /\ x <= last_end_soln(c)
<1>1. /\ c.end_align \in Normal /\ c.end_align \in PedAlignment /\ OnDevice(c.end_range)
      /\ c.end_range.start \in Nat /\ c.end_range.end \in Int
  BY ConstraintIs, GeometryIs
<1>2. /\ Found(c.end_align, c.end_range, first_end_soln(c))
      /\ \A x \in SectorsOf(c.end_range) : On(c.end_align, x) => first_end_soln(c) <= x
  BY <1>1, DownIs DEF first_end_soln
<1>3. /\ Found(c.end_align, c.end_range, last_end_soln(c))
      /\ \A x \in SectorsOf(c.end_range) : On(c.end_align, x) => x <= last_end_soln(c)
  BY <1>1, UpIs DEF last_end_soln
<1>4. QED
  BY <1>2, <1>3

(* constraint_get_canonical_start_range: the starts that leave room for an *)
(* aligned end.                                                            *)
LEMMA StartRangeIs ==
    ASSUME NEW c, Wellformed(c)
    PROVE  LET first == first_end_soln(c)
               last  == last_end_soln(c)
               r     == constraint_get_canonical_start_range(c)
           IN  /\ r # NULL => OnDevice(r) /\ HasEndSoln(c, first, last)
               /\ HasEndSoln(c, first, last) => MinStart(c, first) <= MaxStart(c, last)
               /\ \A s \in Int : r # NULL /\ s \in SectorsOf(r) <=>
                     /\ HasEndSoln(c, first, last) /\ s \in SectorsOf(c.start_range)
                     /\ first - c.max_size + 1 <= s /\ s <= last - c.min_size + 1
<1> DEFINE first == first_end_soln(c)
           last  == last_end_soln(c)
           r     == constraint_get_canonical_start_range(c)
<1>1. PICK min \in Nat \ {0}, max \in Nat \ {0} : min = c.min_size /\ max = c.max_size
  BY ConstraintIs
<1>2. r = StartRange(c, first, last)
  BY DEF constraint_get_canonical_start_range
<1>3. /\ first # NoSector => first \in Nat
      /\ last # NoSector => last \in Nat
  <2>1. SectorsOf(c.end_range) \subseteq Nat
    BY ConstraintIs, GeometryIs
  <2>2. QED
    BY <2>1, EndsAre DEF Found
<1> HIDE DEF first, last, r
<1>4. CASE ~ HasEndSoln(c, first, last)
  <2>1. r = NULL
    BY <1>2, <1>4 DEF StartRange
  <2>2. QED
    BY <1>4, <2>1 DEF first, last, r
<1>5. CASE HasEndSoln(c, first, last)
  <2>1. /\ first \in Nat /\ last \in Nat /\ min <= max /\ first <= last /\ last >= min
    BY <1>1, <1>3, <1>5 DEF HasEndSoln
  <2>2. PICK m \in Nat : m = MinStart(c, first) /\ m = IF first - max + 1 < 0 THEN 0 ELSE first - max + 1
    BY <1>1, <2>1 DEF MinStart
  <2>3. PICK n \in Nat : n = MaxStart(c, last) /\ n = last - min + 1
    BY <1>1, <2>1 DEF MaxStart
  <2>4. m <= n
    BY <2>1, <2>2, <2>3
  <2>5. PICK q : q = [start |-> m, end |-> n] /\ Geom(m, n - m + 1) = q
    <3>1. ~ (n - m + 1 < 1) /\ m + (n - m + 1) - 1 = n
      BY <2>4
    <3>2. QED
      BY <3>1 DEF Geom
  <2>6. OnDevice(q) /\ q.start = m /\ q.end = n /\ SectorsOf(q) = m .. n
    BY <2>5 DEF OnDevice, PedGeometry, SectorsOf
  <2>7. r = ped_geometry_intersect(q, c.start_range)
    <3>1. ~ (n < 0)
      OBVIOUS
    <3>2. QED
      BY <1>2, <1>5, <2>2, <2>3, <2>5, <3>1 DEF StartRange
  <2>8. OnDevice(c.start_range) /\ SectorsOf(c.start_range) \subseteq Nat
    BY ConstraintIs, GeometryIs
  <2>9. /\ r # NULL => OnDevice(r)
        /\ \A s \in Int : s \in SectorsOf(q) /\ s \in SectorsOf(c.start_range)
                              <=> r # NULL /\ s \in SectorsOf(r)
    BY <2>6, <2>7, <2>8, IntersectGeometries
  <2>10. \A s \in Nat : s \in m .. n <=> first - max + 1 <= s /\ s <= last - min + 1
    BY <2>1, <2>2, <2>3
  <2>11. \A s \in Int : r # NULL /\ s \in SectorsOf(r) <=>
                     /\ s \in SectorsOf(c.start_range)
                     /\ first - max + 1 <= s /\ s <= last - min + 1
    BY <2>6, <2>8, <2>9, <2>10
  <2>12. QED
    BY <1>1, <1>5, <2>2, <2>3, <2>4, <2>9, <2>11 DEF first, last, r
<1>6. QED
  BY <1>4, <1>5

(* constraint_get_end_range: the ends that make a region from s as long as *)
(* the constraint wants it.                                                *)
LEMMA EndRangeIs ==
    ASSUME NEW c, Wellformed(c), c.min_size <= c.max_size, NEW s \in Nat
    PROVE  LET r == constraint_get_end_range(c, s)
           IN  /\ r # NULL => OnDevice(r)
               /\ s + c.min_size <= DevLength => s + c.min_size - 1 <= LastMinMaxEnd(c, s)
               /\ \A e \in Int : r # NULL /\ e \in SectorsOf(r) <=>
                     /\ e \in SectorsOf(c.end_range)
                     /\ s + c.min_size - 1 <= e /\ e <= s + c.max_size - 1
<1>1. PICK min \in Nat \ {0}, max \in Nat \ {0} :
        min = c.min_size /\ max = c.max_size /\ min <= max
  BY ConstraintIs
<1>2. PICK first \in Nat : first = s + min - 1
  OBVIOUS
<1>3. PICK last \in Int : /\ last = LastMinMaxEnd(c, s)
                          /\ last = IF s + max - 1 > DevLength - 1 THEN DevLength - 1
                                                                   ELSE s + max - 1
  BY <1>1, DevLengthAssumption DEF LastMinMaxEnd
<1>4. /\ OnDevice(c.end_range) /\ SectorsOf(c.end_range) \subseteq 0 .. DevLength - 1
  BY ConstraintIs
<1>5. s + min <= DevLength => first <= last
  BY <1>1, <1>2, <1>3, DevLengthAssumption
<1> DEFINE r == constraint_get_end_range(c, s)
<1>6. r = IF first > DevLength - 1 THEN NULL
          ELSE ped_geometry_intersect(Geom(first, last - first + 1), c.end_range)
  BY <1>1, <1>2, <1>3 DEF constraint_get_end_range
<1> HIDE DEF r
<1>7. CASE first > DevLength - 1
  <2>1. r = NULL /\ \A e \in SectorsOf(c.end_range) : ~ (s + min - 1 <= e)
    BY <1>2, <1>4, <1>6, <1>7, DevLengthAssumption
  <2>2. QED
    BY <1>1, <1>2, <1>3, <1>5, <2>1 DEF r
<1>8. CASE ~ (first > DevLength - 1)
  <2>1. first <= last
    BY <1>1, <1>2, <1>3, <1>8, DevLengthAssumption
  <2>2. PICK q : q = [start |-> first, end |-> last] /\ Geom(first, last - first + 1) = q
    <3>1. ~ (last - first + 1 < 1) /\ first + (last - first + 1) - 1 = last
      BY <2>1
    <3>2. QED
      BY <3>1 DEF Geom
  <2>3. OnDevice(q) /\ SectorsOf(q) = first .. last
    BY <2>2 DEF OnDevice, PedGeometry, SectorsOf
  <2>4. r = ped_geometry_intersect(q, c.end_range)
    BY <1>6, <1>8, <2>2
  <2>5. /\ r # NULL => OnDevice(r)
        /\ \A e \in Int : e \in SectorsOf(q) /\ e \in SectorsOf(c.end_range)
                              <=> r # NULL /\ e \in SectorsOf(r)
    BY <1>4, <2>3, <2>4, IntersectGeometries
  <2>6. \A e \in 0 .. DevLength - 1 :
          e \in first .. last <=> s + min - 1 <= e /\ e <= s + max - 1
    BY <1>2, <1>3, DevLengthAssumption
  <2>7. \A e \in Int : r # NULL /\ e \in SectorsOf(r) <=>
            /\ e \in SectorsOf(c.end_range)
            /\ s + min - 1 <= e /\ e <= s + max - 1
    BY <1>4, <2>3, <2>5, <2>6
  <2>8. QED
    BY <1>1, <1>2, <1>3, <1>5, <2>5, <2>7 DEF r
<1>9. QED
  BY <1>7, <1>8

(* The nearest aligned sector of a range that may be empty (NULL). *)
LEMMA NearestInIs ==
    ASSUME NEW align \in Normal, NEW range, range # NULL => OnDevice(range), NEW s \in Nat
    PROVE  LET r == NearestIn(align, range, s)
           IN  \/ /\ r = NoSector
                  /\ \A x \in Int : ~ (range # NULL /\ x \in SectorsOf(range) /\ On(align, x))
               \/ /\ range # NULL /\ r \in SectorsOf(range) /\ r \in Nat /\ On(align, r)
                  /\ \A x \in SectorsOf(range) : On(align, x) => llabs(s - r) <= llabs(s - x)
<1> DEFINE r == NearestIn(align, range, s)
<1>1. CASE range = NULL
  BY <1>1 DEF NearestIn
<1>2. CASE range # NULL
  <2>1. r = ped_alignment_align_nearest(align, range, s)
    BY <1>2 DEF NearestIn
  <2>2. /\ Found(align, range, r)
        /\ \A x \in SectorsOf(range) : On(align, x) => llabs(s - r) <= llabs(s - x)
    BY <1>2, <2>1, NearestIs
  <2>3. SectorsOf(range) \subseteq Nat
    BY <1>2, GeometryIs
  <2> HIDE DEF r
  <2>4. CASE r = NoSector /\ \A x \in SectorsOf(range) : ~ On(align, x)
    BY <2>4 DEF r
  <2>5. CASE r \in SectorsOf(range) /\ On(align, r)
    <3>1. r \in Nat
      BY <2>3, <2>5
    <3>2. QED
      BY <1>2, <2>2, <2>5, <3>1 DEF r
  <2>6. QED
    BY <2>2, <2>4, <2>5 DEF Found
<1>3. QED
  BY <1>1, <1>2

(* The starts that constraint_get_nearest_start_soln chooses from, and the *)
(* ends that constraint_get_nearest_end_soln chooses from.                 *)
Starts(c) ==
    {s \in SectorsOf(c.start_range) :
        /\ On(c.start_align, s)
        /\ HasEndSoln(c, first_end_soln(c), last_end_soln(c))
        /\ first_end_soln(c) - c.max_size + 1 <= s
        /\ s <= last_end_soln(c) - c.min_size + 1}

Ends(c, s) ==
    {e \in SectorsOf(c.end_range) :
        /\ On(c.end_align, e)
        /\ s + c.min_size - 1 <= e /\ e <= s + c.max_size - 1}

(* constraint_get_nearest_start_soln: the nearest of Starts.               *)
LEMMA NearestStart ==
    ASSUME NEW c, Wellformed(c), NEW s \in Nat
    PROVE  LET r == constraint_get_nearest_start_soln(c, s)
           IN  \/ r = NoSector /\ Starts(c) = {}
               \/ r \in Starts(c) /\ \A x \in Starts(c) : llabs(s - r) <= llabs(s - x)
<1> DEFINE range == constraint_get_canonical_start_range(c)
           r == constraint_get_nearest_start_soln(c, s)
<1>1. c.start_align \in Normal /\ SectorsOf(c.start_range) \subseteq Int
  BY ConstraintIs, DevLengthAssumption
<1>2. /\ range # NULL => OnDevice(range)
      /\ \A x \in Int : range # NULL /\ x \in SectorsOf(range) <=>
            /\ HasEndSoln(c, first_end_soln(c), last_end_soln(c))
            /\ x \in SectorsOf(c.start_range)
            /\ first_end_soln(c) - c.max_size + 1 <= x
            /\ x <= last_end_soln(c) - c.min_size + 1
  BY StartRangeIs
<1>3. r = NearestIn(c.start_align, range, s)
  BY DEF constraint_get_nearest_start_soln
<1> HIDE DEF range, r
<1>4. \A x \in Int : x \in Starts(c) <=>
        range # NULL /\ x \in SectorsOf(range) /\ On(c.start_align, x)
  BY <1>2 DEF Starts
<1>5. Starts(c) \subseteq Int
  BY <1>1 DEF Starts
<1>6. \/ /\ r = NoSector
         /\ \A x \in Int : ~ (range # NULL /\ x \in SectorsOf(range) /\ On(c.start_align, x))
      \/ /\ range # NULL /\ r \in SectorsOf(range) /\ r \in Nat /\ On(c.start_align, r)
         /\ \A x \in SectorsOf(range) : On(c.start_align, x) => llabs(s - r) <= llabs(s - x)
  BY <1>1, <1>2, <1>3, NearestInIs
<1>7. CASE /\ r = NoSector
           /\ \A x \in Int : ~ (range # NULL /\ x \in SectorsOf(range) /\ On(c.start_align, x))
  BY <1>4, <1>5, <1>7 DEF r
<1>8. CASE /\ range # NULL /\ r \in SectorsOf(range) /\ r \in Nat /\ On(c.start_align, r)
           /\ \A x \in SectorsOf(range) : On(c.start_align, x) => llabs(s - r) <= llabs(s - x)
  <2>1. r \in Starts(c)
    BY <1>4, <1>8
  <2>2. \A x \in Starts(c) : llabs(s - r) <= llabs(s - x)
    BY <1>4, <1>5, <1>8
  <2>3. QED
    BY <2>1, <2>2 DEF r
<1>9. QED
  BY <1>6, <1>7, <1>8

(* constraint_get_nearest_end_soln: the nearest of Ends.                   *)
LEMMA NearestEnd ==
    ASSUME NEW c, Wellformed(c), c.min_size <= c.max_size, NEW s \in Nat, NEW e \in Nat
    PROVE  LET r == constraint_get_nearest_end_soln(c, s, e)
           IN  \/ r = NoSector /\ Ends(c, s) = {}
               \/ r \in Ends(c, s) /\ \A x \in Ends(c, s) : llabs(e - r) <= llabs(e - x)
<1> DEFINE range == constraint_get_end_range(c, s)
           r == constraint_get_nearest_end_soln(c, s, e)
<1>1. c.end_align \in Normal /\ SectorsOf(c.end_range) \subseteq Int
  BY ConstraintIs, DevLengthAssumption
<1>2. /\ range # NULL => OnDevice(range)
      /\ \A x \in Int : range # NULL /\ x \in SectorsOf(range) <=>
            /\ x \in SectorsOf(c.end_range)
            /\ s + c.min_size - 1 <= x /\ x <= s + c.max_size - 1
  BY EndRangeIs
<1>3. r = NearestIn(c.end_align, range, e)
  BY DEF constraint_get_nearest_end_soln
<1> HIDE DEF range, r
<1>4. \A x \in Int : x \in Ends(c, s) <=>
        range # NULL /\ x \in SectorsOf(range) /\ On(c.end_align, x)
  BY <1>2 DEF Ends
<1>5. Ends(c, s) \subseteq Int
  BY <1>1 DEF Ends
<1>6. \/ /\ r = NoSector
         /\ \A x \in Int : ~ (range # NULL /\ x \in SectorsOf(range) /\ On(c.end_align, x))
      \/ /\ range # NULL /\ r \in SectorsOf(range) /\ r \in Nat /\ On(c.end_align, r)
         /\ \A x \in SectorsOf(range) : On(c.end_align, x) => llabs(e - r) <= llabs(e - x)
  BY <1>1, <1>2, <1>3, NearestInIs
<1>7. CASE /\ r = NoSector
           /\ \A x \in Int : ~ (range # NULL /\ x \in SectorsOf(range) /\ On(c.end_align, x))
  BY <1>4, <1>5, <1>7 DEF r
<1>8. CASE /\ range # NULL /\ r \in SectorsOf(range) /\ r \in Nat /\ On(c.end_align, r)
           /\ \A x \in SectorsOf(range) : On(c.end_align, x) => llabs(e - r) <= llabs(e - x)
  <2>1. r \in Ends(c, s)
    BY <1>4, <1>8
  <2>2. \A x \in Ends(c, s) : llabs(e - r) <= llabs(e - x)
    BY <1>4, <1>5, <1>8
  <2>3. QED
    BY <2>1, <2>2 DEF r
<1>9. QED
  BY <1>6, <1>7, <1>8

(* A start of Starts with an end of Ends is a solution.                    *)
LEMMA PairSolves ==
    ASSUME NEW c, Wellformed(c), NEW s \in Starts(c), NEW e \in Ends(c, s)
    PROVE  /\ Geom(s, e - s + 1) = [start |-> s, end |-> e]
           /\ [start |-> s, end |-> e] \in Solutions(c)
<1>1. /\ s \in SectorsOf(c.start_range) /\ e \in SectorsOf(c.end_range)
      /\ On(c.start_align, s) /\ On(c.end_align, e)
      /\ s + c.min_size - 1 <= e /\ e <= s + c.max_size - 1
  BY DEF Starts, Ends
<1>2. PICK min \in Nat \ {0}, max \in Nat \ {0} : min = c.min_size /\ max = c.max_size
  BY ConstraintIs
<1>3. /\ SectorsOf(c.start_range) \subseteq 0 .. DevLength - 1
      /\ SectorsOf(c.end_range) \subseteq 0 .. DevLength - 1
  BY ConstraintIs
<1>4. /\ s \in 0 .. DevLength - 1 /\ e \in 0 .. DevLength - 1
      /\ s + min - 1 <= e /\ e <= s + max - 1
  BY <1>1, <1>2, <1>3
<1>5. /\ s \in Int /\ e \in Int /\ s <= e /\ ~ (e - s + 1 < 1) /\ s + (e - s + 1) - 1 = e
      /\ min <= e - s + 1 /\ e - s + 1 <= max
  BY <1>4, DevLengthAssumption
<1>6. Geom(s, e - s + 1) = [start |-> s, end |-> e]
  BY <1>5 DEF Geom
<1>7. PICK g : g = [start |-> s, end |-> e]
  OBVIOUS
<1>8. g \in Regions /\ g.start = s /\ g.end = e
  BY <1>4, <1>5, <1>7 DEF Regions
<1>9. g \in Solutions(c)
  BY <1>1, <1>2, <1>5, <1>8, SolutionIs
<1>10. QED
  BY <1>6, <1>7, <1>9

(* Every solution is made of them, but for one that ends at min_size - 1.  *)
LEMMA SolutionPairs ==
    ASSUME NEW c, Wellformed(c), last_end_soln(c) # c.min_size - 1, NEW g \in Solutions(c)
    PROVE  g.start \in Starts(c) /\ g.end \in Ends(c, g.start)
<1>1. g \in Regions
  BY DEF Solutions
<1>2. PICK s \in Nat, e \in Nat : s = g.start /\ e = g.end
  BY <1>1, RegionIs
<1>3. PICK min \in Nat \ {0}, max \in Nat \ {0} : min = c.min_size /\ max = c.max_size
  BY ConstraintIs
<1>4. /\ On(c.start_align, s) /\ On(c.end_align, e)
      /\ s \in SectorsOf(c.start_range) /\ e \in SectorsOf(c.end_range)
      /\ min <= e - s + 1 /\ e - s + 1 <= max
  BY <1>1, <1>2, <1>3, SolutionIs
<1>5. PICK first \in Nat, last \in Nat :
        /\ first = first_end_soln(c) /\ last = last_end_soln(c)
        /\ first # NoSector /\ last # NoSector
        /\ first <= e /\ e <= last
  <2>1. SectorsOf(c.end_range) \subseteq Nat
    BY ConstraintIs, GeometryIs
  <2>2. /\ Found(c.end_align, c.end_range, first_end_soln(c))
        /\ Found(c.end_align, c.end_range, last_end_soln(c))
        /\ first_end_soln(c) <= e /\ e <= last_end_soln(c)
    BY <1>4, EndsAre
  <2>3. first_end_soln(c) \in Nat /\ last_end_soln(c) \in Nat
    BY <1>4, <2>1, <2>2 DEF Found
  <2>4. NoSector \notin Nat
    BY DEF NoSector
  <2>5. QED
    BY <2>2, <2>3, <2>4
<1>6. min <= max /\ first <= last /\ last >= min
  BY <1>3, <1>4, <1>5
<1>7. HasEndSoln(c, first, last)
  BY <1>3, <1>5, <1>6 DEF HasEndSoln
<1>8. /\ first - max + 1 <= s /\ s <= last - min + 1
      /\ s + min - 1 <= e /\ e <= s + max - 1
  BY <1>4, <1>5
<1>9. QED
  BY <1>2, <1>3, <1>4, <1>5, <1>7, <1>8 DEF Starts, Ends

(* An alignment has a sector within a grain of any sector. *)
LEMMA AlignedFrom ==
    ASSUME NEW align \in PedAlignment, align.grain # 0, NEW s \in Int
    PROVE  \E t \in Int : On(align, t) /\ s <= t /\ t < s + align.grain
<1>1. PICK g \in Nat \ {0}, o \in Int : g = align.grain /\ o = align.offset
  BY AlignmentIs
<1>2. PICK n \in Int : n = s - o
  OBVIOUS
<1>3. PICK m \in Int : Divides(g, m) /\ n <= m /\ m < n + g
  BY RoundUp
<1>4. PICK t \in Int : t = m + o /\ t - o = m
  OBVIOUS
<1>5. On(align, t)
  BY <1>1, <1>3, <1>4 DEF On
<1>6. QED
  BY <1>1, <1>2, <1>3, <1>4, <1>5

(* With room to spare every such start has an end.                         *)
LEMMA EndInReach ==
    ASSUME NEW c, Wellformed(c), Roomy(c), NEW s \in Starts(c)
    PROVE  Ends(c, s) # {}
<1>1. PICK min \in Nat \ {0}, max \in Nat \ {0} : min = c.min_size /\ max = c.max_size
  BY ConstraintIs
<1>2. PICK grain \in Nat \ {0} : grain = c.end_align.grain /\ max - min >= grain - 1
  <2>1. c.end_align.grain \in Nat
    BY ConstraintIs, AlignmentIs
  <2>2. QED
    BY <1>1, <2>1 DEF Roomy
<1>3. c.end_align \in PedAlignment /\ c.end_align.grain # 0
  BY <1>2, ConstraintIs
<1>4. PICK p \in Nat, q \in Int : p = c.end_range.start /\ q = c.end_range.end
  BY ConstraintIs, GeometryIs
<1>5. SectorsOf(c.end_range) = p .. q
  BY <1>4 DEF SectorsOf
<1>6. PICK first \in p .. q, last \in p .. q :
        /\ first = first_end_soln(c) /\ last = last_end_soln(c)
        /\ On(c.end_align, first) /\ On(c.end_align, last)
  <2>1. first_end_soln(c) # NoSector /\ last_end_soln(c) # NoSector
    BY DEF Starts, HasEndSoln
  <2>2. QED
    BY <1>5, <2>1, EndsAre DEF Found
<1>7. s \in Int /\ first - max + 1 <= s /\ s <= last - min + 1
  <2>1. SectorsOf(c.start_range) \subseteq Int
    BY ConstraintIs, DevLengthAssumption
  <2>2. QED
    BY <1>1, <1>6, <2>1 DEF Starts
<1>8. ASSUME NEW e \in p .. q, On(c.end_align, e), s + min - 1 <= e, e <= s + max - 1
      PROVE  e \in Ends(c, s)
  BY <1>1, <1>5, <1>8 DEF Ends
<1>9. CASE s + min - 1 <= first
  <2>1. first <= s + max - 1
    BY <1>6, <1>7
  <2>2. QED
    BY <1>6, <1>8, <1>9, <2>1
<1>10. CASE first < s + min - 1
  <2>1. PICK lo \in Int : lo = s + min - 1
    BY <1>7
  <2>2. PICK e \in Int : On(c.end_align, e) /\ lo <= e /\ e < lo + grain
    BY <1>2, <1>3, <2>1, AlignedFrom
  <2>3. e <= last
    <3>1. last \in Int
      BY <1>6
    <3>2. last < e => last + c.end_align.grain <= e
      BY <1>3, <1>6, <2>2, <3>1, Apart
    <3>3. last < e => last + grain <= e
      BY <1>2, <3>2
    <3>4. lo <= last
      BY <1>7, <2>1, <3>1
    <3>5. QED
      BY <2>2, <3>1, <3>3, <3>4
  <2>4. e \in p .. q
    BY <1>6, <1>10, <2>1, <2>2, <2>3
  <2>5. s + min - 1 <= e /\ e <= s + max - 1
    BY <1>2, <1>7, <2>1, <2>2
  <2>6. QED
    BY <1>8, <2>2, <2>4, <2>5
<1>11. QED
  BY <1>6, <1>7, <1>9, <1>10

(* ped_constraint_solve_nearest: the nearest of Starts and, for that       *)
(* start, the nearest of Ends.                                             *)
LEMMA SolvedIs ==
    ASSUME NEW c, Wellformed(c), NEW w \in Regions
    PROVE  LET r == ped_constraint_solve_nearest(c, w)
           IN  \/ r = NULL /\ Starts(c) = {}
               \/ r = NULL /\ \E s \in Starts(c) : Ends(c, s) = {}
               \/ \E s \in Starts(c) : \E e \in Ends(c, s) :
                     /\ r = [start |-> s, end |-> e] /\ r # NULL
                     /\ \A x \in Starts(c) : llabs(w.start - s) <= llabs(w.start - x)
                     /\ \A x \in Ends(c, s) : llabs(w.end - e) <= llabs(w.end - x)
<1> DEFINE r == ped_constraint_solve_nearest(c, w)
           start == constraint_get_nearest_start_soln(c, w.start)
<1>1. r = SolveFrom(c, w, start)
  BY ConstraintIs DEF ped_constraint_solve_nearest
<1>2. w.start \in Nat /\ w.end \in Nat
  BY RegionIs
<1>3. \/ start = NoSector /\ Starts(c) = {}
      \/ start \in Starts(c)
         /\ \A x \in Starts(c) : llabs(w.start - start) <= llabs(w.start - x)
  BY <1>2, NearestStart
<1> HIDE DEF r, start
<1>4. CASE start = NoSector /\ Starts(c) = {}
  <2>1. r = NULL
    BY <1>1, <1>4 DEF SolveFrom, FromTo
  <2>2. QED
    BY <1>4, <2>1 DEF r
<1>5. CASE start \in Starts(c)
           /\ \A x \in Starts(c) : llabs(w.start - start) <= llabs(w.start - x)
  <2>1. start \in Nat
    <3>1. SectorsOf(c.start_range) \subseteq Nat
      BY ConstraintIs, GeometryIs
    <3>2. QED
      BY <1>5, <3>1 DEF Starts
  <2>2. start # NoSector
    BY <2>1 DEF NoSector
  <2>3. c.min_size <= c.max_size
    BY <1>5 DEF Starts, HasEndSoln
  <2> DEFINE end == constraint_get_nearest_end_soln(c, start, w.end)
  <2>4. \/ end = NoSector /\ Ends(c, start) = {}
        \/ end \in Ends(c, start)
           /\ \A x \in Ends(c, start) : llabs(w.end - end) <= llabs(w.end - x)
    BY <1>2, <2>1, <2>3, NearestEnd
  <2>5. r = FromTo(start, end)
    BY <1>1, <2>2 DEF SolveFrom
  <2> HIDE DEF end
  <2>6. CASE end = NoSector /\ Ends(c, start) = {}
    <3>1. r = NULL
      BY <2>5, <2>6 DEF FromTo
    <3>2. QED
      BY <1>5, <2>6, <3>1 DEF r
  <2>7. CASE end \in Ends(c, start)
             /\ \A x \in Ends(c, start) : llabs(w.end - end) <= llabs(w.end - x)
    <3>1. end # NoSector
      <4>1. SectorsOf(c.end_range) \subseteq Nat
        BY ConstraintIs, GeometryIs
      <4>2. end \in Nat
        BY <2>7, <4>1 DEF Ends
      <4>3. QED
        BY <4>2 DEF NoSector
    <3>2. /\ Geom(start, end - start + 1) = [start |-> start, end |-> end]
          /\ [start |-> start, end |-> end] \in Solutions(c)
      BY <1>5, <2>7, PairSolves
    <3>3. r = [start |-> start, end |-> end]
      BY <2>2, <2>5, <3>1, <3>2 DEF FromTo
    <3>4. r # NULL
      BY <3>2, <3>3, RegionIs DEF Solutions
    <3>5. QED
      BY <1>5, <2>7, <3>3, <3>4 DEF r
  <2>8. QED
    BY <2>4, <2>6, <2>7
<1>6. QED
  BY <1>3, <1>4, <1>5

(* Distances are symmetric.                                                *)
LEMMA Distance == \A m, n \in Int : llabs(m - n) = llabs(n - m) /\ llabs(m - n) \in Nat
  BY DEF llabs

(* In every state of the invariant the solver is right. *)
LEMMA SolverInvRight == ASSUME NEW n \in Nat, SolverInv(n) PROVE SolveRight
<1>1. CASE wish = NULL
  BY <1>1 DEF SolveRight, UncheckedInitSucceeds, SolveSound, RoomySolveNearest
<1>2. CASE con = NULL
  <2>1. wish # NULL => res = NULL
    BY <1>2 DEF SolverInv, ped_constraint_solve_nearest
  <2>2. QED
    BY <1>2, <2>1 DEF SolveRight, UncheckedInitSucceeds, SolveSound, RoomySolveNearest
<1>3. CASE wish # NULL /\ con # NULL
  <2>1. /\ Wellformed(con) /\ wish \in Regions /\ Solutions(con) = sols
        /\ res = ped_constraint_solve_nearest(con, wish)
    BY <1>3 DEF SolverInv, IntersectExact
  <2>2. wish.start \in Nat /\ wish.end \in Nat
    BY <2>1, RegionIs
  <2>3. UncheckedInitSucceeds
    <3>1. LET first == first_end_soln(con)
              last  == last_end_soln(con)
          IN  (HasEndSoln(con, first, last) /\ MaxStart(con, last) >= 0)
                => MinStart(con, first) <= MaxStart(con, last)
      BY <2>1, StartRangeIs
    <3>2. LET s == constraint_get_nearest_start_soln(con, wish.start)
          IN  (s # NoSector /\ s + con.min_size <= DevLength)
                => s + con.min_size - 1 <= LastMinMaxEnd(con, s)
      <4> DEFINE s == constraint_get_nearest_start_soln(con, wish.start)
      <4>1. s # NoSector => s \in Starts(con)
        BY <2>1, <2>2, NearestStart
      <4> HIDE DEF s
      <4>2. SUFFICES ASSUME s # NoSector
                     PROVE  s + con.min_size <= DevLength
                              => s + con.min_size - 1 <= LastMinMaxEnd(con, s)
        BY DEF s
      <4>3. s \in Nat /\ con.min_size <= con.max_size
        <5>1. SectorsOf(con.start_range) \subseteq Nat
          BY <2>1, ConstraintIs, GeometryIs
        <5>2. QED
          BY <4>1, <4>2, <5>1 DEF Starts, HasEndSoln
      <4>4. QED
        BY <2>1, <4>3, EndRangeIs
    <3>3. QED
      BY <3>1, <3>2 DEF UncheckedInitSucceeds
  <2>4. \/ res = NULL /\ Starts(con) = {}
        \/ res = NULL /\ \E s \in Starts(con) : Ends(con, s) = {}
        \/ \E s \in Starts(con) : \E e \in Ends(con, s) :
              /\ res = [start |-> s, end |-> e] /\ res # NULL
              /\ \A x \in Starts(con) : llabs(wish.start - s) <= llabs(wish.start - x)
              /\ \A x \in Ends(con, s) : llabs(wish.end - e) <= llabs(wish.end - x)
    BY <2>1, SolvedIs
  <2>5. SolveSound
    <3>1. SUFFICES ASSUME res # NULL PROVE res \in sols
      BY DEF SolveSound
    <3>2. PICK s \in Starts(con) : \E e \in Ends(con, s) : res = [start |-> s, end |-> e]
      BY <2>4, <3>1
    <3>3. PICK e \in Ends(con, s) : res = [start |-> s, end |-> e]
      BY <3>2
    <3>4. QED
      BY <2>1, <3>3, PairSolves
  <2>6. RoomySolveNearest
    <3>1. SUFFICES ASSUME Roomy(con)
                   PROVE  /\ res = NULL => sols = {}
                          /\ res # NULL => \A g \in sols :
                              /\ llabs(g.start - wish.start) >= llabs(res.start - wish.start)
                              /\ g.start = res.start =>
                                   llabs(g.end - wish.end) >= llabs(res.end - wish.end)
      BY DEF RoomySolveNearest
    <3>2. last_end_soln(con) # con.min_size - 1
      BY <3>1 DEF Roomy
    <3>3. ASSUME NEW g \in sols
          PROVE  g.start \in Starts(con) /\ g.end \in Ends(con, g.start)
      BY <2>1, <3>2, SolutionPairs
    <3>4. \A s \in Starts(con) : Ends(con, s) # {}
      BY <2>1, <3>1, EndInReach
    <3>5. res = NULL => sols = {}
      <4>1. res = NULL => Starts(con) = {}
        BY <2>4, <3>4
      <4>2. QED
        BY <3>3, <4>1
    <3>6. ASSUME res # NULL, NEW g \in sols
          PROVE  /\ llabs(g.start - wish.start) >= llabs(res.start - wish.start)
                 /\ g.start = res.start =>
                      llabs(g.end - wish.end) >= llabs(res.end - wish.end)
      <4>0. PICK s \in Starts(con) : \E e \in Ends(con, s) :
              /\ res = [start |-> s, end |-> e]
              /\ \A x \in Starts(con) : llabs(wish.start - s) <= llabs(wish.start - x)
              /\ \A x \in Ends(con, s) : llabs(wish.end - e) <= llabs(wish.end - x)
        BY <2>4, <3>6
      <4>1. PICK e \in Ends(con, s) :
              /\ res = [start |-> s, end |-> e]
              /\ \A x \in Starts(con) : llabs(wish.start - s) <= llabs(wish.start - x)
              /\ \A x \in Ends(con, s) : llabs(wish.end - e) <= llabs(wish.end - x)
        BY <4>0
      <4>2. res.start = s /\ res.end = e
        BY <4>1
      <4>3. SectorsOf(con.start_range) \subseteq Int /\ SectorsOf(con.end_range) \subseteq Int
        BY <2>1, ConstraintIs, DevLengthAssumption
      <4>4. s \in Int /\ e \in Int
        BY <4>3 DEF Starts, Ends
      <4>5. PICK a \in Int, b \in Int : a = g.start /\ b = g.end
        BY <3>3, <4>3 DEF Starts, Ends
      <4>6. PICK u \in Int, v \in Int : u = wish.start /\ v = wish.end
        BY <2>2
      <4>7. llabs(u - s) <= llabs(u - a)
        BY <3>3, <4>1, <4>5, <4>6
      <4>8. a = s => llabs(v - e) <= llabs(v - b)
        BY <3>3, <4>1, <4>5, <4>6
      <4>9. llabs(a - u) >= llabs(s - u)
        BY <4>4, <4>7, Distance
      <4>10. a = s => llabs(b - v) >= llabs(e - v)
        BY <4>4, <4>8, Distance
      <4>11. QED
        BY <4>2, <4>5, <4>6, <4>9, <4>10
    <3>7. QED
      BY <3>5, <3>6
  <2>7. QED
    BY <2>3, <2>5, <2>6 DEF SolveRight
<1>4. QED
  BY <1>1, <1>2, <1>3

(* No call of ped_constraint_solve_nearest or ped_constraint_solve_max     *)
(* works on an uninitialised region, what they return is a solution, and   *)
(* with room to spare it is the nearest one there is.                      *)
THEOREM Solving == ASSUME GrainsFit PROVE SolveSpec => []SolveRight
<1>1. PICK n \in 1 .. IntMax : \A align \in Aligns : Fits(align, n)
  BY DEF GrainsFit
<1>2. n \in Nat
  BY IntMaxAssumption
<1>3. SolveInit => SolverInv(n)
  BY InitSolves
<1>4. SolverInv(n) /\ [SolveNext]_solver_vars => SolverInv(n)'
  BY <1>1, NextSolves
<1>5. SolverInv(n) => SolveRight
  BY <1>2, SolverInvRight
<1>6. QED
  BY <1>3, <1>4, <1>5, PTL DEF SolveSpec

=============================================================================
