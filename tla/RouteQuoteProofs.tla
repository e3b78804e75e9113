---------------------------- MODULE RouteQuoteProofs ---------------------------
(***************************************************************************)
(* What a sent transaction promises, for any pools, offers, fees and       *)
(* moves.  The invariant is short: a sent quote is the one its reads give, *)
(* and the reads stay.  The rest is arithmetic: no formula of SwapMath     *)
(* gives less for more, and rounding down never turns a loss into a gain.  *)
(***************************************************************************)
EXTENDS RouteQuote, SequenceTheorems, WellFoundedInduction, TLAPS

-----------------------------------------------------------------------------
(* Products and quotients of natural numbers.                              *)

LEMMA Product ==
  ASSUME NEW a \in Nat, NEW b \in Nat, NEW c \in Nat, NEW d \in Nat, a =< c, b =< d
  PROVE  a * b \in Nat /\ a * b =< c * d
  <1>1. a * b \in Nat
    OBVIOUS
  <1>2. a * b =< c * b
    OBVIOUS
  <1>3. c * b =< c * d
    OBVIOUS
  <1>. QED
    BY <1>1, <1>2, <1>3

LEMMA Quotient ==
  ASSUME NEW n \in Nat, NEW d \in Nat \ {0}
  PROVE  /\ n \div d \in Nat
         /\ (n \div d) * d =< n
         /\ n < (n \div d + 1) * d
  OBVIOUS

(* The quotient is the largest number whose product does not exceed n.     *)
LEMMA LargestQuotient ==
  ASSUME NEW n \in Nat, NEW d \in Nat \ {0}, NEW q \in Nat, q * d =< n
  PROVE  q =< n \div d
  <1>. DEFINE p == n \div d
  <1>1. p \in Nat /\ n < (p + 1) * d
    BY Quotient
  <1>. HIDE DEF p
  <1>2. ASSUME p < q PROVE FALSE
    <2>1. p + 1 =< q /\ p + 1 \in Nat
      BY <1>1, <1>2
    <2>2. (p + 1) * d =< q * d
      BY <2>1, Product
    <2>3. (p + 1) * d \in Nat /\ q * d \in Nat
      BY <2>1
    <2>. QED
      BY <1>1, <2>2, <2>3
  <1>3. q =< p
    BY <1>1, <1>2
  <1>. QED
    BY <1>3 DEF p

LEMMA QuotientMonotone ==
  ASSUME NEW n \in Nat, NEW m \in Nat, NEW d \in Nat \ {0}, n =< m
  PROVE  n \div d =< m \div d
  <1>. DEFINE p == n \div d
  <1>1. p \in Nat /\ p * d =< n
    BY Quotient
  <1>. HIDE DEF p
  <1>2. p * d =< m
    <2>1. p * d \in Nat
      BY <1>1
    <2>. QED
      BY <1>1, <2>1
  <1>3. p =< m \div d
    BY <1>1, <1>2, LargestQuotient
  <1>. QED
    BY <1>3 DEF p

(* n/d of an amount is at most the amount if n =< d.                       *)
LEMMA Part ==
  ASSUME NEW a \in Nat, NEW n \in Nat, NEW d \in Nat \ {0}, n =< d
  PROVE  (a * n) \div d \in 0 .. a
  <1>. DEFINE p == (a * n) \div d
  <1>1. a * n \in Nat /\ a * n =< a * d /\ a * d \in Nat
    BY Product
  <1>2. p \in Nat /\ p * d =< a * n
    BY <1>1, Quotient
  <1>. HIDE DEF p
  <1>3. ASSUME a < p PROVE FALSE
    <2>1. a + 1 =< p
      BY <1>2, <1>3
    <2>2. (a + 1) * d =< p * d
      BY <1>2, <2>1, Product
    <2>3. (a + 1) * d = a * d + d
      OBVIOUS
    <2>4. p * d \in Nat
      BY <1>2
    <2>. QED
      BY <1>1, <1>2, <2>2, <2>3, <2>4
  <1>. QED
    BY <1>2, <1>3 DEF p

LEMMA PartMonotone ==
  ASSUME NEW a \in Nat, NEW b \in Nat, NEW n \in Nat, NEW d \in Nat \ {0}, a =< b
  PROVE  (a * n) \div d =< (b * n) \div d
  <1>1. a * n \in Nat /\ b * n \in Nat /\ a * n =< b * n
    BY Product
  <1>. QED
    BY <1>1, QuotientMonotone

-----------------------------------------------------------------------------
(* The constant product.                                                   *)

LEMMA CurveProps ==
  ASSUME NEW ri \in Nat, NEW ro \in Nat, NEW e \in Nat \ {0}
  PROVE  /\ Curve(ri, ro, e) \in 0 .. ro
         /\ Curve(ri, ro, e) * (ri + e) =< ro * e
  <1>1. ri + e \in Nat \ {0} /\ e =< ri + e /\ ro * e \in Nat
    OBVIOUS
  <1>. QED
    BY <1>1, Quotient, Part DEF Curve

LEMMA CurveMonotone ==
  ASSUME NEW ri \in Nat, NEW ro \in Nat, NEW e \in Nat \ {0}, NEW f \in Nat, e =< f
  PROVE  Curve(ri, ro, e) =< Curve(ri, ro, f)
  <1>. DEFINE q == Curve(ri, ro, e)
              g == f - e
  <1>1. q \in 0 .. ro /\ q * (ri + e) =< ro * e
    BY CurveProps
  <1>2. g \in Nat /\ f = e + g
    OBVIOUS
  <1>. HIDE DEF q, g
  <1>3. q * g =< ro * g
    BY <1>1, <1>2, Product
  <1>4. q * (ri + e + g) = q * (ri + e) + q * g /\ ro * (e + g) = ro * e + ro * g
    BY <1>1, <1>2
  <1>5. /\ q * (ri + e) \in Nat /\ q * g \in Nat /\ ro * e \in Nat /\ ro * g \in Nat
        /\ ri + e + g \in Nat \ {0}
    BY <1>1, <1>2
  <1>6. q * (ri + e + g) =< ro * (e + g)
    BY <1>1, <1>3, <1>4, <1>5
  <1>7. ri + e + g = ri + f /\ e + g = f /\ ro * f \in Nat
    BY <1>2
  <1>8. q * (ri + f) =< ro * f /\ ri + f \in Nat \ {0} /\ q \in Nat
    BY <1>1, <1>5, <1>6, <1>7
  <1>9. q =< (ro * f) \div (ri + f)
    BY <1>7, <1>8, LargestQuotient
  <1>. QED
    BY <1>9 DEF Curve, q

LEMMA Denominators == Bps \in Nat \ {0} /\ Ppm \in Nat \ {0}
  BY SMT DEF Bps, Ppm

(* What a leg gives for a of the ri it holds, of its ro: None or a number; *)
(* nothing for nothing; never more than the curve through some e =< a.     *)
Sound(out, ri, ro, a) ==
  /\ out \in Nat \cup {None}
  /\ a = 0 => out = 0
  /\ out > 0 => \E e \in 1 .. a : out * (ri + e) =< ro * e

LEMMA EstimateSound ==
  ASSUME NEW ri \in Nat, NEW ro \in Nat, NEW a \in Nat, NEW bps \in Nat
  PROVE  Sound(CheckedEstimate(ri, ro, a, bps), ri, ro, a)
  <1>. DEFINE e == AddedFee(a, bps)
  <1>1. e \in 0 .. a
    BY Part, Denominators DEF AddedFee
  <1>2. CASE a = 0
    BY <1>2 DEF CheckedEstimate, Sound
  <1>3. CASE a # 0 /\ e = 0
    BY <1>3 DEF CheckedEstimate, Sound, None
  <1>4. CASE a # 0 /\ e # 0
    <2>. HIDE DEF e
    <2>. DEFINE q == Curve(ri, ro, e)
    <2>1. q \in 0 .. ro /\ q * (ri + e) =< ro * e
      BY <1>1, <1>4, CurveProps
    <2>2. CheckedEstimate(ri, ro, a, bps) = IF q = 0 THEN None ELSE q
      BY <1>4 DEF CheckedEstimate, NonZero, e
    <2>. HIDE DEF q
    <2>. QED
      BY <1>1, <1>4, <2>1, <2>2 DEF Sound, None
  <1>. QED
    BY <1>2, <1>3, <1>4

LEMMA CpSound ==
  ASSUME NEW ri \in Nat, NEW ro \in Nat, NEW a \in Nat, NEW rate \in 0 .. Ppm
  PROVE  Sound(CheckedCp(ri, ro, a, rate), ri, ro, a)
  <1>. DEFINE e == TakenFee(a, rate)
  <1>1. e \in 0 .. a
    <2>1. Ppm - rate \in Nat /\ Ppm - rate =< Ppm
      BY Denominators
    <2>. QED
      BY <2>1, Part, Denominators DEF TakenFee
  <1>2. CASE a = 0 \/ ro = 0
    BY <1>2 DEF CheckedCp, Sound
  <1>3. CASE a # 0 /\ ro # 0 /\ e = 0
    BY <1>3 DEF CheckedCp, Sound, None
  <1>4. CASE a # 0 /\ ro # 0 /\ e # 0
    <2>. HIDE DEF e
    <2>. DEFINE q == Curve(ri, ro, e)
    <2>1. q \in 0 .. ro /\ q * (ri + e) =< ro * e
      BY <1>1, <1>4, CurveProps
    <2>2. ~(rate > Ppm)
      BY Denominators
    <2>3. CheckedCp(ri, ro, a, rate) = IF q = 0 THEN None ELSE q
      BY <1>4, <2>2 DEF CheckedCp, NonZero, e
    <2>. HIDE DEF q
    <2>. QED
      BY <1>1, <1>4, <2>1, <2>3 DEF Sound, None
  <1>. QED
    BY <1>2, <1>3, <1>4

LEMMA EstimateMonotone ==
  ASSUME NEW ri \in Nat, NEW ro \in Nat, NEW a \in Nat, NEW b \in Nat, NEW bps \in Nat,
         a =< b, CheckedEstimate(ri, ro, a, bps) > 0
  PROVE  CheckedEstimate(ri, ro, a, bps) =< CheckedEstimate(ri, ro, b, bps)
  <1>. DEFINE e == AddedFee(a, bps)
              f == AddedFee(b, bps)
  <1>1. e \in Nat /\ f \in Nat /\ e =< f
    <2>1. Bps \in Nat /\ Bps + bps \in Nat \ {0} /\ Bps =< Bps + bps
      BY Denominators
    <2>2. e \in 0 .. a /\ f \in 0 .. b
      BY <2>1, Part DEF AddedFee
    <2>3. e =< f
      BY <2>1, PartMonotone DEF AddedFee
    <2>. QED
      BY <2>2, <2>3
  <1>2. a # 0 /\ e # 0
    BY DEF CheckedEstimate, None
  <1>. HIDE DEF e, f
  <1>. DEFINE q == Curve(ri, ro, e)
              r == Curve(ri, ro, f)
  <1>3. q \in Nat /\ r \in Nat /\ q =< r
    <2>1. e \in Nat \ {0} /\ f \in Nat \ {0}
      BY <1>1, <1>2
    <2>2. q \in 0 .. ro /\ r \in 0 .. ro
      BY <2>1, CurveProps
    <2>3. q =< r
      BY <1>1, <2>1, CurveMonotone
    <2>. QED
      BY <2>2, <2>3
  <1>4. CheckedEstimate(ri, ro, a, bps) = IF q = 0 THEN None ELSE q
    BY <1>2 DEF CheckedEstimate, NonZero, e
  <1>5. CheckedEstimate(ri, ro, b, bps) = IF r = 0 THEN None ELSE r
    BY <1>1, <1>2 DEF CheckedEstimate, NonZero, f
  <1>. HIDE DEF q, r
  <1>. QED
    BY <1>3, <1>4, <1>5 DEF None

LEMMA CpMonotone ==
  ASSUME NEW ri \in Nat, NEW ro \in Nat, NEW a \in Nat, NEW b \in Nat, NEW rate \in 0 .. Ppm,
         a =< b, CheckedCp(ri, ro, a, rate) > 0
  PROVE  CheckedCp(ri, ro, a, rate) =< CheckedCp(ri, ro, b, rate)
  <1>. DEFINE e == TakenFee(a, rate)
              f == TakenFee(b, rate)
  <1>1. e \in Nat /\ f \in Nat /\ e =< f
    <2>1. Ppm - rate \in Nat /\ Ppm - rate =< Ppm
      BY Denominators
    <2>2. e \in 0 .. a /\ f \in 0 .. b
      BY <2>1, Part, Denominators DEF TakenFee
    <2>3. e =< f
      BY <2>1, PartMonotone, Denominators DEF TakenFee
    <2>. QED
      BY <2>2, <2>3
  <1>2. a # 0 /\ ro # 0 /\ e # 0 /\ ~(rate > Ppm)
    BY Denominators DEF CheckedCp, None
  <1>. HIDE DEF e, f
  <1>. DEFINE q == Curve(ri, ro, e)
              r == Curve(ri, ro, f)
  <1>3. q \in Nat /\ r \in Nat /\ q =< r
    <2>1. e \in Nat \ {0} /\ f \in Nat \ {0}
      BY <1>1, <1>2
    <2>2. q \in 0 .. ro /\ r \in 0 .. ro
      BY <2>1, CurveProps
    <2>3. q =< r
      BY <1>1, <2>1, CurveMonotone
    <2>. QED
      BY <2>2, <2>3
  <1>4. CheckedCp(ri, ro, a, rate) = IF q = 0 THEN None ELSE q
    BY <1>2 DEF CheckedCp, NonZero, e
  <1>5. CheckedCp(ri, ro, b, rate) = IF r = 0 THEN None ELSE r
    BY <1>1, <1>2 DEF CheckedCp, NonZero, f
  <1>. HIDE DEF q, r
  <1>. QED
    BY <1>3, <1>4, <1>5 DEF None

-----------------------------------------------------------------------------
(* DLMM: induction along the bins.                                         *)

LEMMA LeastElement ==
  ASSUME NEW T, T \subseteq Nat, T # {}
  PROVE  \E n \in T : \A m \in T : n =< m
  <1>. DEFINE R == OpToRel(<, Nat)
  <1>1. IsWellFoundedOn(R, Nat)
    BY NatLessThanWellFounded
  <1>2. \A x, y \in Nat : y < x => <<y, x>> \in R
    <2>1. R = {ss \in Nat \X Nat : ss[1] < ss[2]}
      BY DEF OpToRel
    <2>. HIDE DEF R
    <2>. SUFFICES ASSUME NEW x \in Nat, NEW y \in Nat, y < x PROVE <<y, x>> \in R
      OBVIOUS
    <2>2. <<y, x>> \in Nat \X Nat /\ <<y, x>>[1] = y /\ <<y, x>>[2] = x
      OBVIOUS
    <2>. QED
      BY <2>1, <2>2
  <1>. HIDE DEF R
  <1>3. PICK x \in T : \A y \in T : <<y, x>> \notin R
    BY <1>1, WFMin
  <1>4. \A y \in T : x =< y
    <2>. TAKE y \in T
    <2>1. x \in Nat /\ y \in Nat
      OBVIOUS
    <2>2. ~(y < x)
      BY <1>2, <1>3, <2>1
    <2>. QED
      BY <2>1, <2>2
  <1>. QED
    BY <1>4

(* Stated for a set instead of a predicate, and only up to a bound.        *)
LEMMA BoundedInduction ==
  ASSUME NEW m \in Nat, NEW S,
         0 \in S, \A n \in 0 .. m - 1 : n \in S => n + 1 \in S
  PROVE  0 .. m \subseteq S
  <1>. SUFFICES ASSUME (0 .. m) \ S # {} PROVE FALSE
    OBVIOUS
  <1>. DEFINE Out == (0 .. m) \ S
  <1>1. Out \subseteq Nat /\ Out # {}
    OBVIOUS
  <1>. HIDE DEF Out
  <1>2. PICK n \in Out : \A k \in Out : n =< k
    BY <1>1, LeastElement
  <1>. USE DEF Out
  <1>3. n \in 1 .. m /\ n - 1 \in 0 .. m - 1 /\ n - 1 + 1 = n
    BY <1>2
  <1>4. n - 1 \in S
    BY <1>2, <1>3
  <1>. QED
    BY <1>2, <1>3, <1>4

(* What is left and what has come out after the first n bins.              *)
Fill(bins, a, xToY, bps) ==
  CHOOSE fill : fill = [n \in 0 .. Len(bins) |->
    IF n = 0 THEN [left |-> (a * (Bps - bps)) \div Bps, out |-> 0]
    ELSE LET bin == InOrder(bins, xToY)[n]
         IN  Filled(fill[n - 1], In(bin, xToY), Gives(bin, xToY))]

Start(a, bps) == [left |-> (a * (Bps - bps)) \div Bps, out |-> 0]
Pass(t, bins, n, xToY) ==
  Filled(t, In(InOrder(bins, xToY)[n], xToY), Gives(InOrder(bins, xToY)[n], xToY))

LEMMA FillDef ==
  ASSUME NEW bins, NEW a, NEW xToY, NEW bps, Len(bins) \in Nat
  PROVE  /\ DlmmFill(bins, a, xToY, bps) = Fill(bins, a, xToY, bps)[Len(bins)]
         /\ Fill(bins, a, xToY, bps)[0] = Start(a, bps)
         /\ \A n \in 1 .. Len(bins) :
              Fill(bins, a, xToY, bps)[n] = Pass(Fill(bins, a, xToY, bps)[n - 1], bins, n, xToY)
  <1>. DEFINE m == Len(bins)
              start == Start(a, bps)
              Step(t, n) == Pass(t, bins, n, xToY)
              Upto(k, f) == f = [n \in 0 .. k |-> IF n = 0 THEN start ELSE Step(f[n - 1], n)]
              S == {k \in Nat : \E f : Upto(k, f)}
              fill == Fill(bins, a, xToY, bps)
  <1>. HIDE DEF Step, start
  <1>1. 0 .. m \subseteq S
    <2>1. 0 \in S
      <3>1. Upto(0, [n \in 0 .. 0 |-> start])
        OBVIOUS
      <3>. QED
        BY <3>1
    <2>2. ASSUME NEW k \in 0 .. m - 1, k \in S
          PROVE  k + 1 \in S
      <3>1. PICK f : Upto(k, f)
        BY <2>2
      <3>. DEFINE g == [n \in 0 .. k + 1 |-> IF n = k + 1 THEN Step(f[k], n) ELSE f[n]]
      <3>2. k \in Nat
        OBVIOUS
      <3>3. \A n \in 0 .. k : g[n] = f[n]
        BY <3>2
      <3>4. \A n \in 0 .. k + 1 : g[n] = IF n = 0 THEN start ELSE Step(g[n - 1], n)
        <4>. TAKE n \in 0 .. k + 1
        <4>1. CASE n = k + 1
          BY <3>2, <3>3, <4>1
        <4>2. CASE n \in 0 .. k
          BY <3>1, <3>2, <3>3, <4>2
        <4>. QED
          BY <3>2, <4>1, <4>2
      <3>5. Upto(k + 1, g)
        BY <3>4
      <3>. HIDE DEF g, Upto
      <3>6. \E h : Upto(k + 1, h)
        BY <3>5
      <3>. QED
        BY <3>2, <3>6
    <2>. HIDE DEF S
    <2>. QED
      BY <2>1, <2>2, BoundedInduction
  <1>2. \E f : Upto(m, f)
    BY <1>1
  <1>3. Upto(m, fill)
    BY <1>2, Zenon DEF Fill, Step, start, Start, Pass
  <1>4. DlmmFill(bins, a, xToY, bps) = fill[m]
    BY Zenon DEF DlmmFill, Fill
  <1>. HIDE DEF m, fill
  <1>5. m \in Nat
    BY DEF m
  <1>6. \A n \in 0 .. m : fill[n] = IF n = 0 THEN start ELSE Step(fill[n - 1], n)
    BY <1>3
  <1>. QED
    BY <1>4, <1>5, <1>6 DEF Step, start, m, fill

LEMMA BinsTyped ==
  ASSUME NEW bins \in Seq([x : Nat, y : Nat]), NEW xToY \in BOOLEAN, NEW n \in 1 .. Len(bins)
  PROVE  /\ In(InOrder(bins, xToY)[n], xToY) \in Nat
         /\ Gives(InOrder(bins, xToY)[n], xToY) \in Nat
  <1>. DEFINE k == IF xToY THEN Len(bins) + 1 - n ELSE n
  <1>1. k \in 1 .. Len(bins) /\ Len(bins) \in Nat
    BY LenProperties
  <1>. HIDE DEF k
  <1>2. bins[k] \in [x : Nat, y : Nat]
    BY <1>1, ElementOfSeq
  <1>3. InOrder(bins, xToY)[n] = bins[k]
    BY DEF InOrder, k
  <1>. QED
    BY <1>2, <1>3 DEF In, Gives

(* More left before a bin is more left, and more taken out, after it; and  *)
(* nothing left is nothing taken.                                          *)
State == [left : Nat, out : Nat]

LEMMA FilledTyped ==
  ASSUME NEW s \in State, NEW in \in Nat, NEW gives \in Nat
  PROVE  /\ Filled(s, in, gives) \in State
         /\ Filled(s, in, gives).left =< s.left
         /\ s.left = 0 => Filled(s, in, gives).out = s.out
  <1>. DEFINE take == IF s.left =< in THEN s.left ELSE in
              got == (gives * take) \div in
  <1>1. /\ take \in Nat /\ take =< s.left /\ take =< in
        /\ s.left \in Nat /\ s.out \in Nat
    BY DEF State
  <1>. HIDE DEF take
  <1>2. CASE 0 \in {in, gives}
    BY <1>1, <1>2 DEF Filled
  <1>3. CASE 0 \notin {in, gives}
    <2>1. in \in Nat \ {0}
      BY <1>3
    <2>2. got \in 0 .. gives
      BY <1>1, <2>1, Part
    <2>3. take = 0 => got = 0
      BY <2>1, <1>1
    <2>. HIDE DEF got
    <2>4. Filled(s, in, gives) = [left |-> s.left - take, out |-> s.out + got]
      BY <1>3 DEF Filled, take, got
    <2>. QED
      BY <1>1, <2>2, <2>3, <2>4 DEF State
  <1>. QED
    BY <1>2, <1>3

LEMMA FilledMonotone ==
  ASSUME NEW s \in State, NEW t \in State, NEW in \in Nat, NEW gives \in Nat,
         s.left =< t.left, s.out =< t.out
  PROVE  /\ Filled(s, in, gives).left =< Filled(t, in, gives).left
         /\ Filled(s, in, gives).out =< Filled(t, in, gives).out
  <1>. DEFINE takeS == IF s.left =< in THEN s.left ELSE in
              takeT == IF t.left =< in THEN t.left ELSE in
              gotS == (gives * takeS) \div in
              gotT == (gives * takeT) \div in
  <1>1. /\ takeS \in Nat /\ takeT \in Nat /\ takeS =< takeT
        /\ s.left - takeS =< t.left - takeT
        /\ s.left \in Nat /\ s.out \in Nat /\ t.left \in Nat /\ t.out \in Nat
        /\ takeS =< in /\ takeT =< in
    BY DEF State
  <1>. HIDE DEF takeS, takeT
  <1>2. CASE 0 \in {in, gives}
    BY <1>2 DEF Filled
  <1>3. CASE 0 \notin {in, gives}
    <2>1. in \in Nat \ {0}
      BY <1>3
    <2>2. gives * takeS \in Nat /\ gives * takeT \in Nat /\ gives * takeS =< gives * takeT
      BY <1>1, Product
    <2>3. gotS =< gotT
      BY <2>1, <2>2, QuotientMonotone
    <2>4. gotS \in 0 .. gives /\ gotT \in 0 .. gives
      BY <1>1, <2>1, Part
    <2>. HIDE DEF gotS, gotT
    <2>5. /\ Filled(s, in, gives) = [left |-> s.left - takeS, out |-> s.out + gotS]
          /\ Filled(t, in, gives) = [left |-> t.left - takeT, out |-> t.out + gotT]
      BY <1>3 DEF Filled, takeS, takeT, gotS, gotT
    <2>6. s.out + gotS =< t.out + gotT
      BY <1>1, <2>3, <2>4
    <2>. QED
      BY <1>1, <2>5, <2>6
  <1>. QED
    BY <1>2, <1>3

LEMMA PassTyped ==
  ASSUME NEW bins \in Seq([x : Nat, y : Nat]), NEW xToY \in BOOLEAN, NEW n \in 1 .. Len(bins),
         NEW s \in State
  PROVE  /\ Pass(s, bins, n, xToY) \in State
         /\ Pass(s, bins, n, xToY).left =< s.left
         /\ s.left = 0 => Pass(s, bins, n, xToY).out = s.out
  BY BinsTyped, FilledTyped DEF Pass

LEMMA PassMonotone ==
  ASSUME NEW bins \in Seq([x : Nat, y : Nat]), NEW xToY \in BOOLEAN, NEW n \in 1 .. Len(bins),
         NEW s \in State, NEW t \in State, s.left =< t.left, s.out =< t.out
  PROVE  /\ Pass(s, bins, n, xToY).left =< Pass(t, bins, n, xToY).left
         /\ Pass(s, bins, n, xToY).out =< Pass(t, bins, n, xToY).out
  BY BinsTyped, FilledMonotone DEF Pass

LEMMA StartTyped ==
  ASSUME NEW a \in Nat, NEW bps \in 0 .. Bps
  PROVE  Start(a, bps) \in State /\ Start(a, bps).left =< a /\ Start(a, bps).out = 0
  <1>. DEFINE left == (a * (Bps - bps)) \div Bps
  <1>1. Bps - bps \in Nat /\ Bps - bps =< Bps
    BY Denominators
  <1>2. left \in 0 .. a
    BY <1>1, Part, Denominators
  <1>. HIDE DEF left
  <1>3. Start(a, bps) = [left |-> left, out |-> 0]
    BY DEF Start, left
  <1>. QED
    BY <1>2, <1>3 DEF State

LEMMA StartMonotone ==
  ASSUME NEW a \in Nat, NEW b \in Nat, NEW bps \in 0 .. Bps, a =< b
  PROVE  Start(a, bps).left =< Start(b, bps).left
  <1>1. Bps - bps \in Nat
    BY Denominators
  <1>. QED
    BY <1>1, PartMonotone, Denominators DEF Start

LEMMA FillTyped ==
  ASSUME NEW bins \in Seq([x : Nat, y : Nat]), NEW a \in Nat, NEW xToY \in BOOLEAN,
         NEW bps \in 0 .. Bps
  PROVE  /\ DlmmFill(bins, a, xToY, bps) \in State
         /\ DlmmFill(bins, a, xToY, bps).left =< a
         /\ a = 0 => DlmmFill(bins, a, xToY, bps).out = 0
  <1>. DEFINE m == Len(bins)
              fill == Fill(bins, a, xToY, bps)
              S == {n \in 0 .. m : /\ fill[n] \in State /\ fill[n].left =< a
                                   /\ a = 0 => fill[n].out = 0}
  <1>1. m \in Nat
    BY LenProperties
  <1>2. /\ DlmmFill(bins, a, xToY, bps) = fill[m]
        /\ fill[0] = Start(a, bps)
        /\ \A n \in 1 .. m : fill[n] = Pass(fill[n - 1], bins, n, xToY)
    BY <1>1, FillDef
  <1>. HIDE DEF fill
  <1>3. fill[0] \in State /\ fill[0].left =< a /\ fill[0].out = 0
    BY <1>2, StartTyped
  <1>4. ASSUME NEW n \in 0 .. m - 1, n \in S
        PROVE  n + 1 \in S
    <2>1. n + 1 \in 1 .. m /\ n + 1 - 1 = n /\ n + 1 \in 0 .. m
      BY <1>1
    <2>2. fill[n + 1] = Pass(fill[n], bins, n + 1, xToY)
      BY <1>2, <2>1
    <2>3. fill[n] \in State /\ fill[n].left =< a /\ (a = 0 => fill[n].out = 0)
      BY <1>4
    <2>4. /\ fill[n + 1] \in State /\ fill[n + 1].left =< fill[n].left
          /\ fill[n].left = 0 => fill[n + 1].out = fill[n].out
      BY <2>1, <2>2, <2>3, PassTyped
    <2>5. fill[n].left \in Nat /\ fill[n + 1].left \in Nat
      BY <2>3, <2>4 DEF State
    <2>6. fill[n + 1].left =< a /\ (a = 0 => fill[n + 1].out = 0)
      <3>. DEFINE l == fill[n].left
                  k == fill[n + 1].left
      <3>1. l \in Nat /\ k \in Nat /\ l =< a /\ k =< l
        BY <2>3, <2>4, <2>5
      <3>2. a = 0 => fill[n].out = 0
        BY <2>3
      <3>3. l = 0 => fill[n + 1].out = fill[n].out
        BY <2>4
      <3>. HIDE DEF l, k
      <3>4. k =< a /\ (a = 0 => l = 0)
        BY <3>1
      <3>5. k =< a => fill[n + 1].left =< a
        BY DEF k
      <3>6. a = 0 => fill[n + 1].out = 0
        BY <3>2, <3>3, <3>4
      <3>. QED
        BY <3>4, <3>5, <3>6
    <2>. QED
      BY <2>1, <2>4, <2>6
  <1>5. 0 \in S
    BY <1>1, <1>3
  <1>6. m \in S
    <2>. HIDE DEF S, m
    <2>1. 0 .. m \subseteq S
      BY <1>1, <1>4, <1>5, BoundedInduction
    <2>. QED
      BY <1>1, <2>1
  <1>. QED
    BY <1>2, <1>6

LEMMA FillMonotone ==
  ASSUME NEW bins \in Seq([x : Nat, y : Nat]), NEW a \in Nat, NEW b \in Nat,
         NEW xToY \in BOOLEAN, NEW bps \in 0 .. Bps, a =< b
  PROVE  DlmmOut(bins, a, xToY, bps) =< DlmmOut(bins, b, xToY, bps)
  <1>. DEFINE m == Len(bins)
              f == Fill(bins, a, xToY, bps)
              g == Fill(bins, b, xToY, bps)
              S == {n \in 0 .. m : /\ f[n] \in State /\ g[n] \in State
                                   /\ f[n].left =< g[n].left /\ f[n].out =< g[n].out}
  <1>1. m \in Nat
    BY LenProperties
  <1>2. /\ DlmmFill(bins, a, xToY, bps) = f[m]
        /\ f[0] = Start(a, bps)
        /\ \A n \in 1 .. m : f[n] = Pass(f[n - 1], bins, n, xToY)
    BY <1>1, FillDef
  <1>3. /\ DlmmFill(bins, b, xToY, bps) = g[m]
        /\ g[0] = Start(b, bps)
        /\ \A n \in 1 .. m : g[n] = Pass(g[n - 1], bins, n, xToY)
    BY <1>1, FillDef
  <1>. HIDE DEF f, g
  <1>4. /\ f[0] \in State /\ g[0] \in State
        /\ f[0].left =< g[0].left /\ f[0].out =< g[0].out
    BY <1>2, <1>3, StartTyped, StartMonotone
  <1>5. ASSUME NEW n \in 0 .. m - 1, n \in S
        PROVE  n + 1 \in S
    <2>1. n + 1 \in 1 .. m /\ n + 1 - 1 = n /\ n + 1 \in 0 .. m
      BY <1>1
    <2>2. /\ f[n + 1] = Pass(f[n], bins, n + 1, xToY)
          /\ g[n + 1] = Pass(g[n], bins, n + 1, xToY)
      BY <1>2, <1>3, <2>1
    <2>3. /\ f[n] \in State /\ g[n] \in State
          /\ f[n].left =< g[n].left /\ f[n].out =< g[n].out
      BY <1>5
    <2>4. f[n + 1] \in State /\ g[n + 1] \in State
      BY <2>1, <2>2, <2>3, PassTyped
    <2>5. f[n + 1].left =< g[n + 1].left /\ f[n + 1].out =< g[n + 1].out
      BY <2>1, <2>2, <2>3, PassMonotone
    <2>. QED
      BY <2>1, <2>4, <2>5
  <1>6. 0 \in S
    BY <1>1, <1>4
  <1>7. m \in S
    <2>. HIDE DEF S, m
    <2>1. 0 .. m \subseteq S
      BY <1>1, <1>5, <1>6, BoundedInduction
    <2>. QED
      BY <1>1, <2>1
  <1>. QED
    BY <1>2, <1>3, <1>7 DEF DlmmOut

-----------------------------------------------------------------------------
(* The state: what is read is a pool, and a quote that was sent is the one *)
(* the reads give.                                                         *)
Bins == Seq([x : Nat, y : Nat])
Reads == [sol : Nat \cup {Unread}, meme : Nat \cup {Unread}, bins : Bins]
Promises == {"sent", "landed", "reverted"}

Typed ==
  /\ builder \in Builders
  /\ offer \in Offers
  /\ pool \in [Leg -> Pool]
  /\ cached \in [Leg -> Pool]
  /\ read \in [Leg -> Reads]
  /\ outcome \in {"open", "refused"} \cup Promises

Promised ==
  /\ outcome \in Promises => Ready /\ quote \in TheQuote /\ Fresh(quote)
  /\ outcome = "landed" => Served /\ net = Sold - Spent
  /\ outcome = "reverted" => ~Served

LEMMA BuilderTyped ==
  ASSUME NEW b \in Builders
  PROVE  /\ b.buy \in Venue /\ b.sell \in Venue
         /\ b.cap \in {"none", "third", "third of the sale", "least"}
         /\ b.guess => b.sell = "dlmm"
  <1>. DEFINE Ok(c) == /\ c.buy \in Venue /\ c.sell \in Venue
                       /\ c.cap \in {"none", "third", "third of the sale", "least"}
                       /\ c.guess => c.sell = "dlmm"
  <1>1. Ok(PumpToDlmm) /\ Ok(DlmmToPump) /\ Ok(CpmmToOrca) /\ Ok(OrcaToCpmm)
    BY DEF PumpToDlmm, DlmmToPump, CpmmToOrca, OrcaToCpmm, Plain, Venue
  <1>2. Ok(PumpToCpmm) /\ Ok(CpmmToPump) /\ Ok(DlmmToOrca) /\ Ok(OrcaToDlmm)
    BY DEF PumpToCpmm, CpmmToPump, DlmmToOrca, OrcaToDlmm, Plain, Venue
  <1>3. Ok(PumpToOrca) /\ Ok(OrcaToPump) /\ Ok(CpmmToDlmm) /\ Ok(DlmmToCpmm)
    BY DEF PumpToOrca, OrcaToPump, CpmmToDlmm, DlmmToCpmm, Plain, Venue
  <1>. HIDE DEF Ok
  <1>4. Ok(b)
    BY <1>1, <1>2, <1>3 DEF Builders
  <1>. QED
    BY <1>4 DEF Ok

LEMMA VenueTyped ==
  ASSUME Typed, NEW leg \in Leg
  PROVE  Venued(leg) \in Venue
  <1>1. leg = "buy" \/ leg = "sell"
    BY DEF Leg
  <1>2. builder.buy \in Venue /\ builder.sell \in Venue
    BY BuilderTyped DEF Typed
  <1>. QED
    BY <1>1, <1>2 DEF Venued

LEMMA OfferTyped ==
  ASSUME Typed
  PROVE  /\ offer.inv \in Nat \ {0} /\ offer.net \in Int
         /\ offer.solX \in BOOLEAN /\ offer.fee \in 0 .. Bps
         /\ \A leg \in Leg : XToY(leg) \in BOOLEAN
  <1>1. offer \in Offer
    BY QuoteConstants DEF Typed
  <1>. QED
    BY <1>1 DEF Offer, XToY

LEMMA PoolTyped ==
  ASSUME NEW p \in Pool
  PROVE  p.sol \in Nat /\ p.meme \in Nat /\ p.bins \in Bins
  BY DEF Pool, Bins

-----------------------------------------------------------------------------
(* One leg.                                                                *)
Enters(leg, p) == IF leg = "buy" THEN p.sol ELSE p.meme
Leaves(leg, p) == IF leg = "buy" THEN p.meme ELSE p.sol

LEMMA Rate == CpmmRate \in 0 .. Ppm
  <1>1. CpmmRate \in Nat /\ CpmmRate =< Ppm
    BY SMT DEF CpmmRate, Ppm
  <1>. QED
    BY <1>1, Denominators

LEMMA LegSound ==
  ASSUME Typed, NEW leg \in Leg, NEW p \in Pool, NEW a \in Nat, Constant(leg)
  PROVE  Sound(LegOut(leg, p, a), Enters(leg, p), Leaves(leg, p), a)
  <1>. DEFINE ri == Enters(leg, p)
              ro == Leaves(leg, p)
  <1>1. ri \in Nat /\ ro \in Nat
    BY PoolTyped DEF Enters, Leaves
  <1>. HIDE DEF ri, ro
  <1>2. Venued(leg) \in {"pump", "cpmm", "orca"}
    BY VenueTyped DEF Constant, Venue
  <1>3. /\ Sound(CheckedEstimate(ri, ro, a, PumpFee), ri, ro, a)
        /\ Sound(CheckedCp(ri, ro, a, CpmmRate), ri, ro, a)
        /\ Sound(CheckedCp(ri, ro, a, OrcaRate), ri, ro, a)
    <2>1. CpmmRate \in 0 .. Ppm
      BY Rate
    <2>. QED
      BY <1>1, <2>1, EstimateSound, CpSound, QuoteConstants
  <1>4. /\ Venued(leg) = "pump" => LegOut(leg, p, a) = CheckedEstimate(ri, ro, a, PumpFee)
        /\ Venued(leg) = "cpmm" => LegOut(leg, p, a) = CheckedCp(ri, ro, a, CpmmRate)
        /\ Venued(leg) = "orca" => LegOut(leg, p, a) = CheckedCp(ri, ro, a, OrcaRate)
    BY DEF LegOut, ri, ro, Enters, Leaves
  <1>5. Sound(LegOut(leg, p, a), ri, ro, a)
    BY <1>2, <1>3, <1>4
  <1>. QED
    BY <1>5 DEF ri, ro

LEMMA LegTyped ==
  ASSUME Typed, NEW leg \in Leg, NEW p \in Pool, NEW a \in Nat
  PROVE  /\ LegOut(leg, p, a) \in Nat \cup {None}
         /\ a = 0 => LegOut(leg, p, a) = 0
  <1>1. CASE Constant(leg)
    BY <1>1, LegSound DEF Sound
  <1>2. CASE ~Constant(leg)
    <2>1. LegOut(leg, p, a) = DlmmFill(p.bins, a, XToY(leg), offer.fee).out
      BY <1>2 DEF Constant, LegOut, DlmmOut
    <2>2. /\ DlmmFill(p.bins, a, XToY(leg), offer.fee) \in State
          /\ a = 0 => DlmmFill(p.bins, a, XToY(leg), offer.fee).out = 0
      BY FillTyped, PoolTyped, OfferTyped DEF Bins
    <2>. QED
      BY <2>1, <2>2 DEF State
  <1>. QED
    BY <1>1, <1>2

LEMMA LegMonotone ==
  ASSUME Typed, NEW leg \in Leg, NEW p \in Pool, NEW a \in Nat, NEW b \in Nat, a =< b,
         LegOut(leg, p, a) > 0
  PROVE  LegOut(leg, p, a) =< LegOut(leg, p, b)
  <1>. DEFINE ri == Enters(leg, p)
              ro == Leaves(leg, p)
  <1>1. ri \in Nat /\ ro \in Nat
    BY PoolTyped DEF Enters, Leaves
  <1>. HIDE DEF ri, ro
  <1>2. /\ CheckedEstimate(ri, ro, a, PumpFee) > 0
           => CheckedEstimate(ri, ro, a, PumpFee) =< CheckedEstimate(ri, ro, b, PumpFee)
        /\ \A rate \in {CpmmRate, OrcaRate} :
             CheckedCp(ri, ro, a, rate) > 0
             => CheckedCp(ri, ro, a, rate) =< CheckedCp(ri, ro, b, rate)
    <2>1. CpmmRate \in 0 .. Ppm
      BY Rate
    <2>. QED
      BY <1>1, <2>1, EstimateMonotone, CpMonotone, QuoteConstants
  <1>3. DlmmOut(p.bins, a, XToY(leg), offer.fee) =< DlmmOut(p.bins, b, XToY(leg), offer.fee)
    BY FillMonotone, PoolTyped, OfferTyped DEF Bins
  <1>4. ASSUME NEW c
        PROVE  /\ Venued(leg) = "pump" => LegOut(leg, p, c) = CheckedEstimate(ri, ro, c, PumpFee)
               /\ Venued(leg) = "cpmm" => LegOut(leg, p, c) = CheckedCp(ri, ro, c, CpmmRate)
               /\ Venued(leg) = "orca" => LegOut(leg, p, c) = CheckedCp(ri, ro, c, OrcaRate)
               /\ Venued(leg) = "dlmm"
                  => LegOut(leg, p, c) = DlmmOut(p.bins, c, XToY(leg), offer.fee)
    BY DEF LegOut, ri, ro, Enters, Leaves
  <1>5. CASE Venued(leg) = "pump"
    BY <1>2, <1>4, <1>5
  <1>6. CASE Venued(leg) = "cpmm"
    BY <1>2, <1>4, <1>6
  <1>7. CASE Venued(leg) = "orca"
    BY <1>2, <1>4, <1>7
  <1>8. CASE Venued(leg) = "dlmm"
    BY <1>3, <1>4, <1>8
  <1>. QED
    BY <1>5, <1>6, <1>7, <1>8, VenueTyped DEF Venue

(* A leg met as it was read gives what the client's formula says.          *)
LEMMA MetAsRead ==
  ASSUME NEW leg \in Leg, NEW a, AsRead(leg)
  PROVE  LegOut(leg, pool[leg], a) = LegOut(leg, read[leg], a)
  <1>1. CASE Constant(leg)
    BY <1>1 DEF Constant, AsRead
  <1>2. CASE ~Constant(leg)
    <2>1. pool[leg].bins = read[leg].bins
      BY <1>2 DEF Constant, AsRead
    <2>. QED
      BY <1>2, <2>1 DEF Constant, LegOut
  <1>. QED
    BY <1>1, <1>2

LEMMA UntakenTyped ==
  ASSUME Typed, NEW leg \in Leg, NEW a \in Nat
  PROVE  /\ Untaken(leg, a) \in 0 .. a
         /\ Constant(leg) => Untaken(leg, a) = 0
  <1>1. pool[leg] \in Pool
    BY DEF Typed
  <1>2. /\ DlmmFill(pool[leg].bins, a, XToY(leg), offer.fee) \in State
        /\ DlmmFill(pool[leg].bins, a, XToY(leg), offer.fee).left =< a
    BY <1>1, FillTyped, PoolTyped, OfferTyped DEF Bins
  <1>3. DlmmFill(pool[leg].bins, a, XToY(leg), offer.fee).left \in 0 .. a
    BY <1>2 DEF State
  <1>. QED
    BY <1>3 DEF Untaken, Constant

-----------------------------------------------------------------------------
(* The quote.                                                              *)

LEMMA ReadyTyped ==
  ASSUME Typed, Ready
  PROVE  \A leg \in Leg : read[leg] \in Pool
  <1>. TAKE leg \in Leg
  <1>1. read[leg] \in Reads
    BY DEF Typed
  <1>2. read[leg].sol # Unread /\ read[leg].meme # Unread
    BY DEF Ready
  <1>. QED
    BY <1>1, <1>2 DEF Reads, Pool, Bins

LEMMA Third ==
  ASSUME NEW x \in Nat
  PROVE  x \div 3 \in Nat
  BY Quotient

LEMMA CappedTyped ==
  ASSUME Typed, Ready
  PROVE  Capped \in 0 .. offer.inv
  <1>. DEFINE inv == offer.inv
              c(leg) == read[leg].sol \div 3
  <1>1. inv \in Nat \ {0}
    BY OfferTyped
  <1>2. c("buy") \in Nat /\ c("sell") \in Nat
    <2>1. read["buy"].sol \in Nat /\ read["sell"].sol \in Nat
      BY ReadyTyped, PoolTyped DEF Leg
    <2>. QED
      BY <2>1, Third
  <1>3. builder.cap \in {"none", "third", "third of the sale", "least"}
    BY BuilderTyped DEF Typed
  <1>4. Capped \in {inv, 1, c("buy"), c("sell")} /\ Capped =< inv
    <2>. HIDE DEF inv
    <2>1. CASE builder.cap = "none"
      BY <1>1, <2>1 DEF Capped, inv
    <2>2. CASE builder.cap = "third"
      BY <1>1, <1>2, <2>2 DEF Capped, Least, inv
    <2>3. CASE builder.cap = "third of the sale"
      <3>1. Capped = IF read["sell"].sol > 0 THEN Least(inv, c("sell")) ELSE inv
        BY <2>3 DEF Capped, inv
      <3>. QED
        BY <1>1, <1>2, <3>1 DEF Least
    <2>4. CASE builder.cap = "least"
      BY <1>1, <1>2, <2>4 DEF Capped, Least, inv
    <2>. QED
      BY <1>3, <2>1, <2>2, <2>3, <2>4
  <1>. HIDE DEF inv, c
  <1>5. Capped \in 0 .. inv
    BY <1>1, <1>2, <1>4
  <1>. QED
    BY <1>5 DEF inv

LEMMA SlippedTyped ==
  ASSUME NEW out \in Nat, NEW a \in Nat, NEW reserve \in Nat
  PROVE  Slipped(out, a, reserve, Slippage) \in 0 .. out
  <1>. DEFINE h == HalfSteps(a, reserve)
              twice == 2 * Bps
              kept == twice - Slippage * h
  <1>1. h \in {2, 3, 5}
    BY DEF HalfSteps
  <1>2. twice \in Nat \ {0}
    BY Denominators
  <1>. HIDE DEF h, twice
  <1>3. Slippage * h \in Nat
    <2>1. Slippage \in Nat /\ h \in Nat
      BY <1>1, QuoteConstants
    <2>. QED
      BY <2>1
  <1>4. kept \in Int /\ kept =< twice
    BY <1>2, <1>3
  <1>5. Slipped(out, a, reserve, Slippage)
          = IF kept < 0 THEN 0 ELSE (out * kept) \div twice
    BY DEF Slipped, h, twice
  <1>. HIDE DEF kept
  <1>6. CASE kept < 0
    BY <1>5, <1>6
  <1>7. CASE ~(kept < 0)
    <2>1. kept \in Nat
      BY <1>4, <1>7
    <2>. QED
      BY <1>2, <1>4, <1>5, <1>7, <2>1, Part
  <1>. QED
    BY <1>6, <1>7

(* What a quote is.                                                        *)
Estimate == LegOut("buy", read["buy"], Capped)
Floor == Slipped(Estimate, Capped, read["buy"].sol, Slippage)
Sale == LegOut("sell", read["sell"], Floor)

LEMMA QuoteIs ==
  ASSUME NEW q \in TheQuote
  PROVE  /\ Estimate # None /\ Sale # None
         /\ q.inv = Capped /\ q.floor = Floor
         /\ q.guessed = (builder.guess /\ Sale = 0)
         /\ q.sol = IF q.guessed THEN Floor \div 2 ELSE Sale
  <1>1. /\ Estimate # None /\ Sale # None
        /\ q = [inv |-> Capped, floor |-> Floor, guessed |-> builder.guess /\ Sale = 0,
                sol |-> IF builder.guess /\ Sale = 0 THEN Floor \div 2 ELSE Sale]
    BY DEF TheQuote, Estimate, Floor, Sale, SecondLeg
  <1>. QED
    BY <1>1

(* The freshness check bounds the sale; the sale of nothing is nothing, so *)
(* the floor is positive, and with it the estimate and the amount.         *)
LEMMA QuoteFacts ==
  ASSUME Typed, Ready, NEW q \in TheQuote, Fresh(q)
  PROVE  /\ q.inv \in 1 .. offer.inv
         /\ LegOut("buy", read["buy"], q.inv) \in Nat
         /\ q.floor \in 1 .. LegOut("buy", read["buy"], q.inv)
         /\ q.sol \in Nat /\ q.sol - offer.inv >= Threshold + Cu
         /\ ~q.guessed => q.sol = LegOut("sell", read["sell"], q.floor)
  <1>. DEFINE est == Estimate
              floor == Floor
              sale == Sale
              cap == Capped
              inv == offer.inv
  <1>1. /\ inv \in Nat \ {0} /\ Cu \in Nat /\ Threshold \in Nat \ {0}
        /\ cap \in 0 .. inv
    BY OfferTyped, CappedTyped, QuoteConstants
  <1>2. /\ est # None /\ sale # None
        /\ q.inv = cap /\ q.floor = floor
        /\ q.sol = IF q.guessed THEN floor \div 2 ELSE sale
    BY QuoteIs
  <1>3. read["buy"] \in Pool /\ read["sell"] \in Pool /\ read["buy"].sol \in Nat
    BY ReadyTyped, PoolTyped DEF Leg
  <1>4. est \in Nat /\ (cap = 0 => est = 0)
    <2>1. cap \in Nat
      BY <1>1
    <2>. QED
      BY <1>2, <1>3, <2>1, LegTyped DEF Leg, Estimate
  <1>5. floor \in 0 .. est
    <2>1. cap \in Nat
      BY <1>1
    <2>. QED
      BY <1>3, <1>4, <2>1, SlippedTyped DEF Floor
  <1>6. sale \in Nat /\ (floor = 0 => sale = 0)
    <2>1. floor \in Nat
      BY <1>5
    <2>. QED
      BY <1>2, <1>3, <2>1, LegTyped DEF Leg, Sale
  <1>7. floor \div 2 \in Nat /\ (floor = 0 => floor \div 2 = 0)
    <2>1. floor \in Nat
      BY <1>5
    <2>. HIDE DEF floor
    <2>2. floor \div 2 \in Nat
      BY <2>1, Quotient
    <2>. QED
      BY <2>2
  <1>8. q.sol - inv - Cu >= Threshold
    BY DEF Fresh, FreshNet
  <1>9. /\ est = LegOut("buy", read["buy"], q.inv)
        /\ ~q.guessed => q.sol = LegOut("sell", read["sell"], q.floor)
    BY <1>2 DEF Estimate, Sale
  <1>. HIDE DEF est, floor, sale, cap, inv
  <1>10. q.sol \in Nat /\ (floor = 0 => q.sol = 0)
    BY <1>2, <1>6, <1>7
  <1>11. q.sol - inv >= Threshold + Cu /\ floor # 0
    BY <1>1, <1>8, <1>10
  <1>12. floor \in 1 .. est /\ cap \in 1 .. inv
    BY <1>1, <1>4, <1>5, <1>11
  <1>. QED
    BY <1>2, <1>4, <1>9, <1>10, <1>11, <1>12 DEF inv

-----------------------------------------------------------------------------
(* The invariant.  The reads change only while the outcome is open, and    *)
(* the pools only while it is open or sent.                                *)

LEMMA QuoteStays ==
  ASSUME UNCHANGED <<builder, offer, read>>
  PROVE  TheQuote' = TheQuote
  BY DEF TheQuote, Capped, LegOut, XToY, Venued, SecondLeg

LEMMA FreshStays ==
  ASSUME UNCHANGED <<builder, offer, read, quote>>
  PROVE  Fresh(quote)' = Fresh(quote) /\ Ready' = Ready
  BY DEF Fresh, FreshNet, Ready

LEMMA LegStays ==
  ASSUME UNCHANGED <<builder, offer, pool, quote>>
  PROVE  Served' = Served /\ Sold' = Sold /\ Spent' = Spent
  BY DEF Served, Sold, Spent, Bought, BuyFloor, Untaken, LegOut, XToY, Venued

LEMMA InitInv ==
  ASSUME Init
  PROVE  Typed /\ Promised
  <1>1. \A v \in Venue : Pools[v] \subseteq Pool
    BY QuoteConstants
  <1>2. UNION {Pools[v] : v \in Venue} \subseteq Pool
    BY <1>1
  <1>3. pool \in [Leg -> Pool] /\ cached \in [Leg -> Pool]
    BY <1>2 DEF Init
  <1>4. NotRead \in Reads
    BY DEF NotRead, Reads, Bins, Unread
  <1>5. read \in [Leg -> Reads]
    BY <1>4 DEF Init
  <1>. QED
    BY <1>3, <1>5 DEF Init, Typed, Promised, Promises

LEMMA PoolsTyped ==
  ASSUME Typed, NEW leg \in Leg
  PROVE  Pools[Venued(leg)] \subseteq Pool
  BY VenueTyped, QuoteConstants

LEMMA TypedStays ==
  ASSUME Typed, [Next]_vars
  PROVE  Typed'
  <1>. USE DEF Typed
  <1>1. ASSUME NEW leg \in Leg, Move(leg)
        PROVE  Typed'
    <2>1. PICK p \in Pools[Venued(leg)] : pool' = [pool EXCEPT ![leg] = p]
      BY <1>1 DEF Move
    <2>2. p \in Pool
      BY PoolsTyped
    <2>3. pool' \in [Leg -> Pool]
      BY <2>1, <2>2
    <2>. QED
      BY <1>1, <2>3 DEF Move
  <1>2. ASSUME NEW leg \in Leg, Learn(leg)
        PROVE  Typed'
    BY <1>2 DEF Learn
  <1>3. ASSUME NEW leg \in Leg, ReadBins(leg)
        PROVE  Typed'
    <2>. DEFINE r == [cached[leg] EXCEPT !.bins = pool[leg].bins]
    <2>1. cached[leg] \in Pool /\ pool[leg] \in Pool
      OBVIOUS
    <2>2. r \in Reads
      BY <2>1 DEF Pool, Reads, Bins
    <2>. HIDE DEF r
    <2>3. read' = [read EXCEPT ![leg] = r]
      BY <1>3 DEF ReadBins, r
    <2>4. read' \in [Leg -> Reads]
      BY <2>2, <2>3
    <2>. QED
      BY <1>3, <2>4 DEF ReadBins
  <1>4. ASSUME NEW leg \in Leg, FromCache(leg)
        PROVE  Typed'
    <2>1. cached[leg] \in Reads
      BY DEF Pool, Reads, Bins
    <2>2. read' \in [Leg -> Reads]
      BY <1>4, <2>1 DEF FromCache
    <2>. QED
      BY <1>4, <2>2 DEF FromCache
  <1>5. ASSUME NEW leg \in Leg, NEW side \in {"sol", "meme"}, ReadVault(leg, side)
        PROVE  Typed'
    <2>. DEFINE r == [read[leg] EXCEPT ![side] = pool[leg][side]]
    <2>1. read[leg] \in Reads /\ pool[leg] \in Pool
      OBVIOUS
    <2>2. r \in Reads
      <3>1. CASE side = "sol"
        BY <2>1, <3>1 DEF Pool, Reads
      <3>2. CASE side = "meme"
        BY <2>1, <3>2 DEF Pool, Reads
      <3>. QED
        BY <3>1, <3>2
    <2>. HIDE DEF r
    <2>3. read' = [read EXCEPT ![leg] = r]
      BY <1>5 DEF ReadVault, r
    <2>4. read' \in [Leg -> Reads]
      BY <2>2, <2>3
    <2>. QED
      BY <1>5, <2>4 DEF ReadVault
  <1>6. CASE Fail \/ Send \/ Refuse \/ Land
    BY <1>6 DEF Fail, Send, Refuse, Land, Promises
  <1>7. CASE UNCHANGED vars
    BY <1>7 DEF vars
  <1>. QED
    BY <1>1, <1>2, <1>3, <1>4, <1>5, <1>6, <1>7 DEF Next

LEMMA PromisedStays ==
  ASSUME Typed, Promised, [Next]_vars
  PROVE  Promised'
  <1>1. ASSUME UNCHANGED <<builder, offer, read, quote, outcome, net>>,
               outcome \in {"landed", "reverted"} => UNCHANGED pool
        PROVE  Promised'
    <2>1. /\ TheQuote' = TheQuote /\ Fresh(quote)' = Fresh(quote) /\ Ready' = Ready
          /\ outcome \in {"landed", "reverted"}
             => Served' = Served /\ Sold' = Sold /\ Spent' = Spent
      BY <1>1, QuoteStays, FreshStays, LegStays
    <2>. QED
      BY <1>1, <2>1 DEF Promised, Promises
  <1>2. ASSUME outcome' \in {"open", "refused"}
        PROVE  Promised'
    BY <1>2 DEF Promised, Promises
  <1>3. ASSUME NEW leg \in Leg, Move(leg) \/ Learn(leg)
        PROVE  Promised'
    BY <1>1, <1>3 DEF Move, Learn, Pending
  <1>4. ASSUME NEW leg \in Leg, ReadBins(leg) \/ FromCache(leg)
        PROVE  Promised'
    BY <1>2, <1>4 DEF ReadBins, FromCache, Reading
  <1>5. ASSUME NEW leg \in Leg, NEW side \in {"sol", "meme"}, ReadVault(leg, side)
        PROVE  Promised'
    BY <1>2, <1>5 DEF ReadVault, Reading
  <1>6. CASE Fail \/ Refuse
    BY <1>2, <1>6 DEF Fail, Refuse
  <1>7. CASE Send
    <2>1. PICK q \in TheQuote : Fresh(q) /\ quote' = q
      BY <1>7 DEF Send
    <2>2. TheQuote' = TheQuote /\ Ready /\ Ready' = Ready
      BY <1>7, QuoteStays DEF Send, Ready
    <2>3. Fresh(quote)'
      BY <1>7, <2>1 DEF Send, Fresh, FreshNet
    <2>4. outcome' = "sent"
      BY <1>7 DEF Send
    <2>. QED
      BY <2>1, <2>2, <2>3, <2>4 DEF Promised
  <1>8. CASE Land
    <2>1. /\ outcome = "sent" /\ net' = IF Served THEN Sold - Spent ELSE 0
          /\ outcome' = IF Served THEN "landed" ELSE "reverted"
      BY <1>8 DEF Land
    <2>2. TheQuote' = TheQuote /\ Fresh(quote)' = Fresh(quote) /\ Ready' = Ready
      BY <1>8, QuoteStays, FreshStays DEF Land
    <2>3. Served' = Served /\ Sold' = Sold /\ Spent' = Spent /\ quote' = quote
      BY <1>8, LegStays DEF Land
    <2>. QED
      BY <2>1, <2>2, <2>3 DEF Promised, Promises
  <1>9. CASE UNCHANGED vars
    BY <1>1, <1>9 DEF vars
  <1>. QED
    BY <1>3, <1>4, <1>5, <1>6, <1>7, <1>8, <1>9 DEF Next

(* route builders and handler: a quote that was sent is the one its reads  *)
(* give, and the outcome the one the pools gave it.                        *)
THEOREM PromisesKept == Spec => [](Typed /\ Promised)
  <1>1. Init => Typed /\ Promised
    BY InitInv
  <1>2. Typed /\ Promised /\ [Next]_vars => (Typed /\ Promised)'
    BY TypedStays, PromisedStays
  <1>. QED
    BY <1>1, <1>2, PTL DEF Spec

-----------------------------------------------------------------------------
(* What follows of a sent quote.                                           *)
LEMMA SentFacts ==
  ASSUME Typed, Promised, outcome \in Promises
  PROVE  /\ quote.inv \in 1 .. offer.inv
         /\ LegOut("buy", read["buy"], quote.inv) \in Nat
         /\ quote.floor \in 1 .. LegOut("buy", read["buy"], quote.inv)
         /\ quote.sol \in Nat /\ quote.sol - offer.inv >= Threshold + Cu
         /\ ~quote.guessed => quote.sol = LegOut("sell", read["sell"], quote.floor)
  BY QuoteFacts DEF Promised

(* Executor: nothing is sent that the router or an exchange refuses for    *)
(* being zero (build_*_route_transaction and its freshness check).         *)
THEOREM NothingEmptyIsSent == Spec => []EmptyNeverSent
  <1>1. Typed /\ Promised => EmptyNeverSent
    <2>. SUFFICES ASSUME Typed, Promised, outcome \in Promises
                  PROVE  quote.inv > 0 /\ quote.floor > 0 /\ quote.sol > 0
      BY DEF EmptyNeverSent, Promises
    <2>1. offer.inv \in Nat \ {0} /\ Cu \in Nat /\ Threshold \in Nat
      BY OfferTyped, QuoteConstants
    <2>2. /\ quote.inv \in 1 .. offer.inv
          /\ LegOut("buy", read["buy"], quote.inv) \in Nat
          /\ quote.floor \in 1 .. LegOut("buy", read["buy"], quote.inv)
          /\ quote.sol \in Nat /\ quote.sol - offer.inv >= Threshold + Cu
      BY SentFacts
    <2>. QED
      BY <2>1, <2>2
  <1>. QED
    BY <1>1, PromisesKept, PTL

(* The floor of the quote is positive, so what reaches the exchange is it. *)
LEMMA FloorReaches ==
  ASSUME Typed, Promised, outcome \in Promises, Constant("buy")
  PROVE  BuyFloor = quote.floor /\ Spent = quote.inv
  <1>. DEFINE inv == quote.inv
              floor == quote.floor
              est == LegOut("buy", read["buy"], quote.inv)
              top == offer.inv
  <1>1. /\ top \in Nat \ {0} /\ inv \in 1 .. top
        /\ est \in Nat /\ floor \in 1 .. est
    BY SentFacts, OfferTyped
  <1>2. Venued("buy") # "dlmm"
    BY DEF Constant
  <1>. HIDE DEF inv, floor, est, top
  <1>3. inv \in Nat /\ floor # 0
    BY <1>1
  <1>4. Untaken("buy", inv) = 0
    BY <1>3, UntakenTyped DEF Leg
  <1>5. Spent = inv - Untaken("buy", inv)
    BY DEF Spent, inv
  <1>6. Spent = inv
    BY <1>3, <1>4, <1>5
  <1>7. BuyFloor = IF Venued("buy") = "dlmm" \/ floor = 0 THEN 1 ELSE floor
    BY DEF BuyFloor, floor
  <1>. QED
    BY <1>2, <1>3, <1>6, <1>7 DEF inv, floor

(* More bought than the floor, sold on the pool the sale was quoted on,    *)
(* brings at least the quoted sale.                                        *)
LEMMA SoldAsQuoted ==
  ASSUME Typed, Promised, outcome \in Promises, ~quote.guessed, AsRead("sell"),
         Bought \in Nat, quote.floor =< Bought
  PROVE  Sold \in Nat /\ quote.sol =< Sold
  <1>. DEFINE floor == quote.floor
              est == LegOut("buy", read["buy"], quote.inv)
              top == offer.inv
              sol == quote.sol
              least == Threshold + Cu
  <1>1. /\ est \in Nat /\ floor \in 1 .. est
        /\ sol \in Nat /\ sol - top >= least
    BY SentFacts
  <1>2. top \in Nat \ {0} /\ least \in Nat
    BY OfferTyped, QuoteConstants
  <1>3. Ready
    BY DEF Promised
  <1>4. read["sell"] \in Pool
    BY <1>3, ReadyTyped DEF Leg
  <1>5. sol = LegOut("sell", read["sell"], floor)
    BY SentFacts
  <1>6. Sold = LegOut("sell", read["sell"], Bought)
    BY MetAsRead DEF Leg, Sold
  <1>. HIDE DEF floor, est, top, sol, least
  <1>7. sol > 0 /\ floor \in Nat /\ floor =< Bought
    BY <1>1, <1>2 DEF floor
  <1>. DEFINE sold == LegOut("sell", read["sell"], Bought)
              asked == LegOut("sell", read["sell"], floor)
  <1>8. asked =< sold
    BY <1>4, <1>5, <1>7, LegMonotone DEF Leg
  <1>9. sold \in Nat \cup {None}
    BY <1>4, LegTyped DEF Leg
  <1>. HIDE DEF sold, asked
  <1>10. sol = asked /\ Sold = sold
    BY <1>5, <1>6 DEF sold, asked
  <1>11. sold \in Nat /\ sol =< sold
    BY <1>1, <1>7, <1>8, <1>9, <1>10 DEF None
  <1>. QED
    BY <1>10, <1>11 DEF sol

LEMMA BoughtTyped ==
  ASSUME Typed, Promised, outcome \in Promises
  PROVE  Bought \in Nat \cup {None}
  <1>. DEFINE inv == quote.inv
              top == offer.inv
  <1>1. top \in Nat \ {0} /\ inv \in 1 .. top
    BY SentFacts, OfferTyped
  <1>2. pool["buy"] \in Pool
    BY DEF Typed, Leg
  <1>3. Bought = LegOut("buy", pool["buy"], inv)
    BY DEF Bought
  <1>. HIDE DEF inv, top
  <1>4. inv \in Nat
    BY <1>1
  <1>. QED
    BY <1>2, <1>3, <1>4, LegTyped DEF Leg

(* The net of a sale of what was quoted, if no more than the quoted amount *)
(* was spent.                                                              *)
LEMMA NetAsQuoted ==
  ASSUME Typed, Promised, outcome \in Promises,
         Sold \in Nat, quote.sol =< Sold, Spent \in Nat, Spent =< quote.inv
  PROVE  Sold - Spent >= Threshold + Cu /\ Threshold + Cu >= 1 /\ Sold >= 1
  <1>. DEFINE inv == quote.inv
              top == offer.inv
              sol == quote.sol
              s == Sold
              x == Spent
  <1>1. /\ top \in Nat \ {0} /\ inv \in 1 .. top
        /\ sol \in Nat /\ sol - top >= Threshold + Cu
        /\ s \in Nat /\ sol =< s /\ x \in Nat /\ x =< inv
        /\ Threshold \in Nat \ {0} /\ Cu \in Nat
    BY SentFacts, OfferTyped, QuoteConstants
  <1>. HIDE DEF inv, top, sol, s, x
  <1>2. s - x >= Threshold + Cu /\ Threshold + Cu >= 1 /\ s >= 1
    BY <1>1
  <1>. QED
    BY <1>2 DEF s, x

(* "conservative second leg" (build_*_route_transaction): however the      *)
(* first pool moved, the floor of its leg carries the quoted sale, for the *)
(* sale gives no less for more.                                            *)
THEOREM SecondLegConserves == Spec => []ConservativeSecondLeg
  <1>1. Typed /\ Promised => ConservativeSecondLeg
    <2>. SUFFICES ASSUME Typed, Promised, outcome = "landed", ~quote.guessed,
                         Constant("buy"), AsRead("sell")
                  PROVE  net >= Threshold + Cu
      BY DEF ConservativeSecondLeg
    <2>1. outcome \in Promises
      BY DEF Promises
    <2>2. Served /\ net = Sold - Spent
      BY DEF Promised
    <2>3. BuyFloor = quote.floor /\ Spent = quote.inv
      BY <2>1, FloorReaches
    <2>4. quote.floor \in Nat /\ quote.floor > 0 /\ quote.inv \in Nat
      <3>. DEFINE est == LegOut("buy", read["buy"], quote.inv)
                  top == offer.inv
      <3>1. /\ top \in Nat \ {0} /\ quote.inv \in 1 .. top
            /\ est \in Nat /\ quote.floor \in 1 .. est
        BY <2>1, SentFacts, OfferTyped
      <3>. HIDE DEF est, top
      <3>. QED
        BY <3>1
    <2>5. Bought \in Nat \cup {None} /\ Bought >= quote.floor
      BY <2>1, <2>2, <2>3, BoughtTyped DEF Served
    <2>6. Bought \in Nat /\ quote.floor =< Bought
      <3>. DEFINE b == Bought
                  f == quote.floor
      <3>1. b \in Nat \cup {None} /\ b >= f /\ f \in Nat
        BY <2>4, <2>5
      <3>. HIDE DEF b, f
      <3>2. b \in Nat /\ f =< b
        BY <3>1 DEF None
      <3>. QED
        BY <3>2 DEF b, f
    <2>7. Sold \in Nat /\ quote.sol =< Sold
      BY <2>1, <2>6, SoldAsQuoted
    <2>8. Sold - Spent >= Threshold + Cu
      BY <2>1, <2>3, <2>4, <2>7, NetAsQuoted
    <2>. QED
      BY <2>2, <2>8
  <1>. QED
    BY <1>1, PromisesKept, PTL

(* Builder and handler: on the pools as they were read, the router's legs  *)
(* bring what the freshness check asked for, or tokens are left over.      *)
THEOREM QuoteHonoured == Spec => []HonouredAsRead
  <1>1. Typed /\ Promised => HonouredAsRead
    <2>. SUFFICES ASSUME Typed, Promised, Done, ~quote.guessed, AsRead("buy"), AsRead("sell")
                  PROVE  \/ outcome = "landed" /\ net >= Threshold + Cu
                         \/ outcome = "reverted" /\ Untaken("sell", Bought) > 0
      BY DEF HonouredAsRead
    <2>1. outcome \in Promises
      BY DEF Done, Promises
    <2>. DEFINE est == LegOut("buy", read["buy"], quote.inv)
                floor == quote.floor
                inv == quote.inv
                top == offer.inv
                b == Bought
                s == Sold
                x == Spent
                asked == Threshold + Cu
                leftB == Untaken("buy", inv)
                leftS == Untaken("sell", b)
    <2>2. /\ top \in Nat \ {0} /\ inv \in 1 .. top
          /\ est \in Nat /\ floor \in 1 .. est
      BY <2>1, SentFacts, OfferTyped
    <2>3. b = est
      BY MetAsRead DEF Bought, Leg
    <2>4. x = inv - leftB /\ BuyFloor \in {1, floor}
      BY DEF Spent, BuyFloor
    <2>. HIDE DEF est, floor, inv, top, b, s, x, asked, leftB, leftS
    <2>5. leftB \in 0 .. inv
      <3>1. inv \in Nat
        BY <2>2
      <3>. QED
        BY <3>1, UntakenTyped DEF leftB, Leg
    <2>6. x \in Nat /\ x =< inv /\ b \in Nat /\ floor =< b /\ b >= BuyFloor /\ inv > 0
      BY <2>2, <2>3, <2>4, <2>5
    <2>7. leftS \in Nat
      BY <2>6, UntakenTyped DEF leftS, Leg
    <2>8. Sold \in Nat /\ quote.sol =< Sold
      BY <2>1, <2>6, SoldAsQuoted DEF b, floor
    <2>9. s - x >= asked /\ asked >= 1 /\ s >= 1 /\ s \in Nat
      BY <2>1, <2>6, <2>8, NetAsQuoted DEF s, x, asked, inv
    <2>10. asked \in Nat
      BY QuoteConstants DEF asked
    <2>11. s - x >= 1
      BY <2>6, <2>9, <2>10
    <2>12. leftS = 0 => Served
      BY <2>6, <2>9, <2>11 DEF Served, b, s, x, inv, leftS
    <2>13. CASE outcome = "landed"
      <3>1. net = s - x
        BY <2>13 DEF Promised, s, x
      <3>. QED
        BY <2>9, <2>13, <3>1 DEF asked
    <2>14. CASE outcome = "reverted"
      <3>1. ~Served
        BY <2>14 DEF Promised
      <3>2. leftS > 0
        BY <2>7, <2>12, <3>1
      <3>. QED
        BY <2>14, <3>2 DEF leftS, b
    <2>. QED
      BY <2>13, <2>14 DEF Done
  <1>. QED
    BY <1>1, PromisesKept, PTL

(* If both prices are equal or the first is the dearer, what comes back    *)
(* through two curves is at most what went in: f out of the first pool for *)
(* e of SOL, h of it into the second for s.                                *)
LEMMA NoGain ==
  ASSUME NEW S1 \in Nat, NEW M1 \in Nat, NEW S2 \in Nat, NEW M2 \in Nat,
         NEW e \in Nat \ {0}, NEW f \in Nat \ {0}, NEW h \in 1 .. f, NEW s \in Nat,
         f * (S1 + e) =< M1 * e,
         s * (M2 + h) =< S2 * h,
         S2 * M1 =< S1 * M2
  PROVE  s =< e
  <1>1. h * S1 =< M1 * e
    <2>1. h * S1 =< f * (S1 + e) /\ h * S1 \in Nat /\ f * (S1 + e) \in Nat /\ M1 * e \in Nat
      <3>1. h \in Nat /\ h =< f /\ S1 =< S1 + e /\ S1 + e \in Nat
        OBVIOUS
      <3>. QED
        BY <3>1, Product
    <2>. QED
      BY <2>1
  <1>2. h * S1 + h * e =< M1 * e
    <2>1. h \in Nat /\ h =< f /\ S1 + e \in Nat
      OBVIOUS
    <2>2. h * (S1 + e) =< f * (S1 + e) /\ h * (S1 + e) \in Nat
      BY <2>1, Product
    <2>3. f * (S1 + e) \in Nat /\ M1 * e \in Nat
      BY <2>1
    <2>4. h * (S1 + e) =< M1 * e
      BY <2>2, <2>3
    <2>5. h * (S1 + e) = h * S1 + h * e
      BY <2>1
    <2>. QED
      BY <2>4, <2>5
  <1>3. s * M2 + s * h =< S2 * h
    <2>1. s * (M2 + h) = s * M2 + s * h
      OBVIOUS
    <2>. QED
      BY <2>1
  <1>. DEFINE P == S1 * M2
              Q == S2 * h
              R == S2 * M1
  <1>4. h \in Nat /\ P \in Nat /\ Q \in Nat /\ R \in Nat /\ R =< P
    OBVIOUS
  <1>5. s * P =< Q * S1
    <2>1. s * M2 =< Q /\ s * M2 \in Nat
      <3>1. s * h \in Nat /\ s * M2 \in Nat
        BY <1>4
      <3>. QED
        BY <1>3, <3>1
    <2>. HIDE DEF Q
    <2>2. (s * M2) * S1 =< Q * S1
      BY <1>4, <2>1, Product
    <2>3. (s * M2) * S1 = s * P
      OBVIOUS
    <2>. QED
      BY <2>2, <2>3
  <1>6. Q * S1 + Q * e =< R * e
    <2>1. h * S1 + h * e \in Nat /\ M1 * e \in Nat
      BY <1>4
    <2>2. S2 * (h * S1 + h * e) =< S2 * (M1 * e)
      BY <1>2, <2>1, Product
    <2>3. S2 * (h * S1 + h * e) = Q * S1 + Q * e /\ S2 * (M1 * e) = R * e
      BY <1>4
    <2>. QED
      BY <2>2, <2>3
  <1>7. R * e =< P * e
    BY <1>4, Product
  <1>8. Q = 0 => s = 0
    <2>1. s * h =< Q /\ s * h \in Nat
      <3>1. s * h \in Nat /\ s * M2 \in Nat
        BY <1>4
      <3>. QED
        BY <1>3, <3>1
    <2>. HIDE DEF Q
    <2>2. s * 1 =< s * h
      BY <1>4, Product
    <2>. QED
      BY <2>1, <2>2
  <1>. HIDE DEF P, Q, R
  <1>9. s * P + Q * e =< P * e
    <2>1. s * P \in Nat /\ Q * S1 \in Nat /\ Q * e \in Nat /\ R * e \in Nat /\ P * e \in Nat
      BY <1>4
    <2>. QED
      BY <1>5, <1>6, <1>7, <2>1
  <1>10. CASE P = 0
    <2>1. Q * e =< 0
      <3>1. s * P = 0 /\ P * e = 0 /\ Q * e \in Nat
        BY <1>4, <1>10
      <3>. QED
        BY <1>9, <3>1
    <2>2. Q * 1 =< Q * e
      BY <1>4, Product
    <2>3. Q = 0
      BY <1>4, <2>1, <2>2
    <2>. QED
      BY <1>8, <2>3
  <1>11. CASE P # 0
    <2>. SUFFICES ASSUME e + 1 =< s PROVE FALSE
      OBVIOUS
    <2>1. (e + 1) * P =< s * P
      BY <1>4, Product
    <2>2. (e + 1) * P = P * e + P
      BY <1>4
    <2>3. s * P \in Nat /\ Q * e \in Nat /\ P * e \in Nat
      BY <1>4
    <2>. QED
      BY <1>4, <1>9, <1>11, <2>1, <2>2, <2>3
  <1>. QED
    BY <1>10, <1>11

(* Builder: no mix of fees, caps, slippage and roundings makes a profit of *)
(* two equal prices, whatever is read (simulator::checked_cp_swap_output,  *)
(* checked_estimate_swap_output).                                          *)
THEOREM ProfitNeedsSpread == Spec => []ProfitFromSpread
  <1>1. Typed /\ Promised => ProfitFromSpread
    <2>. SUFFICES ASSUME Typed, Promised, outcome \in Promises,
                         Constant("buy"), Constant("sell")
                  PROVE  read["sell"].sol * read["buy"].meme
                           > read["buy"].sol * read["sell"].meme
      BY DEF ProfitFromSpread, Promises
    <2>1. Ready /\ quote \in TheQuote
      BY DEF Promised
    <2>2. read["buy"] \in Pool /\ read["sell"] \in Pool
      BY <2>1, ReadyTyped DEF Leg
    <2>3. ~quote.guessed
      <3>1. ~builder.guess
        BY BuilderTyped DEF Typed, Constant, Venued
      <3>. QED
        BY <2>1, <3>1, QuoteIs
    <2>. DEFINE S1 == read["buy"].sol
                M1 == read["buy"].meme
                S2 == read["sell"].sol
                M2 == read["sell"].meme
                est == LegOut("buy", read["buy"], quote.inv)
                sale == LegOut("sell", read["sell"], quote.floor)
                inv == quote.inv
                floor == quote.floor
                top == offer.inv
    <2>4. S1 \in Nat /\ M1 \in Nat /\ S2 \in Nat /\ M2 \in Nat
      BY <2>2, PoolTyped
    <2>5. /\ top \in Nat \ {0} /\ inv \in 1 .. top
          /\ est \in Nat /\ floor \in 1 .. est
          /\ sale \in Nat /\ sale - top >= Threshold + Cu
      BY <2>3, SentFacts, OfferTyped
    <2>6. Threshold + Cu \in Nat \ {0}
      BY QuoteConstants
    <2>7. inv \in Nat => Sound(est, S1, M1, inv)
      BY <2>2, LegSound DEF Enters, Leaves, Leg
    <2>8. floor \in Nat => Sound(sale, M2, S2, floor)
      BY <2>2, LegSound DEF Enters, Leaves, Leg
    <2>. HIDE DEF S1, M1, S2, M2, est, sale, inv, floor, top
    <2>9. inv \in Nat /\ floor \in Nat /\ est > 0 /\ sale > top
      BY <2>5, <2>6
    <2>10. PICK e \in 1 .. inv : est * (S1 + e) =< M1 * e
      BY <2>7, <2>9 DEF Sound
    <2>11. sale > 0
      BY <2>5, <2>9
    <2>12. PICK h \in 1 .. floor : sale * (M2 + h) =< S2 * h
      BY <2>8, <2>9, <2>11 DEF Sound
    <2>13. ASSUME S2 * M1 =< S1 * M2 PROVE FALSE
      <3>1. e \in Nat \ {0} /\ est \in Nat \ {0} /\ h \in 1 .. est
        BY <2>5, <2>9
      <3>2. sale =< e
        BY <2>4, <2>5, <2>10, <2>12, <2>13, <3>1, NoGain
      <3>. QED
        BY <2>5, <2>9, <3>2
    <2>14. S2 * M1 > S1 * M2
      <3>1. S2 * M1 \in Nat /\ S1 * M2 \in Nat
        BY <2>4
      <3>. QED
        BY <2>13, <3>1
    <2>. QED
      BY <2>14 DEF S1, M1, S2, M2
  <1>. QED
    BY <1>1, PromisesKept, PTL
=============================================================================
