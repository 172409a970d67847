----------------------------- MODULE AmmProofs -----------------------------
(***************************************************************************)
(* No trade, deposit or withdrawal takes value from the LP shares that     *)
(* stay, for every curve that quotes at least WAD, every fee and every     *)
(* scale; no provider is diluted by another one coming or going; and no    *)
(* trade decides an average that readers may trust.                        *)
(***************************************************************************)
EXTENDS Amm, FixedPointProofs, FiniteSetTheorems

Quantities == [pt : Int, sy : Int, yt : Int]

\* The books: never more than the pool holds, and empty until it is seeded.
Books ==
  /\ totalPt \in Nat /\ totalSy \in Nat /\ totalLp \in Nat
  /\ pool \in Quantities
  /\ totalPt <= pool.pt /\ totalSy <= pool.sy
  /\ totalLp = 0 => totalPt = 0 /\ totalSy = 0
  /\ rate \in SyRates

\* Value(x) and pro-rata parts in terms of what a step did to the reserves.
ValueKept(x) == Value(x)' * totalLp >= Value(x) * totalLp'
ProRata ==
  totalPt' * totalLp >= totalPt * totalLp' /\ totalSy' * totalLp >= totalSy * totalLp'

LEMMA TokensAre ==
  ASSUME NEW p \in Int, NEW s \in Int, NEW y \in Int
  PROVE  /\ Tokens(p, s, y) \in Quantities
         /\ Tokens(p, s, y).pt = p /\ Tokens(p, s, y).sy = s
  BY DEF Tokens, Quantities

LEMMA PlusMinus ==
  ASSUME NEW a \in Quantities, NEW b \in Quantities
  PROVE  /\ Plus(a, b) \in Quantities /\ Minus(a, b) \in Quantities
         /\ Plus(a, b).pt = a.pt + b.pt /\ Plus(a, b).sy = a.sy + b.sy
         /\ Minus(a, b).pt = a.pt - b.pt /\ Minus(a, b).sy = a.sy - b.sy
  BY DEF Plus, Minus, Quantities

\* What a call does to the pool's own PT and SY.
LEMMA FlashMoves ==
  ASSUME pool \in Quantities, NEW h \in Holders,
         NEW given \in Quantities, NEW made \in Quantities,
         NEW burned \in Quantities, NEW got \in Quantities,
         Flash(h, given, made, burned, got)
  PROVE  /\ pool' \in Quantities
         /\ pool'.pt = pool.pt + given.pt + made.pt - (burned.pt + got.pt)
         /\ pool'.sy = pool.sy + given.sy + made.sy - (burned.sy + got.sy)
  <1> DEFINE inflow == Plus(Plus(pool, given), made)
             outflow == Plus(burned, got)
  <1>1. pool' = Minus(inflow, outflow)  BY DEF Flash
  <1>2. /\ Plus(pool, given) \in Quantities
        /\ Plus(pool, given).pt = pool.pt + given.pt
        /\ Plus(pool, given).sy = pool.sy + given.sy
    BY PlusMinus
  <1>3. /\ inflow \in Quantities
        /\ inflow.pt = pool.pt + given.pt + made.pt
        /\ inflow.sy = pool.sy + given.sy + made.sy
    BY <1>2, PlusMinus
  <1>4. /\ outflow \in Quantities
        /\ outflow.pt = burned.pt + got.pt /\ outflow.sy = burned.sy + got.sy
    BY PlusMinus
  <1> HIDE DEF inflow, outflow
  <1>5. /\ pool' \in Quantities
        /\ pool'.pt = inflow.pt - outflow.pt /\ pool'.sy = inflow.sy - outflow.sy
    BY <1>1, <1>3, <1>4, PlusMinus
  <1>6. \A q \in {pool, given, made, burned, got} : q.pt \in Int /\ q.sy \in Int
    BY DEF Quantities
  <1>7. QED  BY <1>3, <1>4, <1>5, <1>6

LEMMA ExchangeMoves ==
  ASSUME pool \in Quantities, NEW h \in Holders,
         NEW given \in Quantities, NEW got \in Quantities,
         Exchange(h, given, got)
  PROVE  /\ pool' \in Quantities
         /\ pool'.pt = pool.pt + given.pt - got.pt
         /\ pool'.sy = pool.sy + given.sy - got.sy
  <1>1. Nothing \in Quantities /\ Nothing.pt = 0 /\ Nothing.sy = 0
    BY TokensAre DEF Nothing
  <1>2. Flash(h, given, Nothing, Nothing, got)  BY DEF Exchange
  <1>3. /\ pool' \in Quantities
        /\ pool'.pt = pool.pt + given.pt + Nothing.pt - (Nothing.pt + got.pt)
        /\ pool'.sy = pool.sy + given.sy + Nothing.sy - (Nothing.sy + got.sy)
    BY <1>1, <1>2, FlashMoves
  <1>4. pool.pt \in Int /\ pool.sy \in Int /\ given.pt \in Int /\ given.sy \in Int
        /\ got.pt \in Int /\ got.sy \in Int
    BY DEF Quantities
  <1>5. QED  BY <1>1, <1>3, <1>4

LEMMA Scales ==
  /\ WAD \in Nat \ {0} /\ Bps \in Nat \ {0} /\ FeeBps \in Nat
  /\ \A x \in Prices : x \in Nat \ {0}
  /\ \A k \in SyRates : k \in Nat \ {0}
  /\ \A n \in Amounts : n \in Nat
  BY WadAssumption, AmmAssumption

\* The pool pays at most the price, and asks at least the price.
LEMMA QuotePaysAtMost ==
  ASSUME NEW n \in Nat, NEW x \in Prices
  PROVE  SyForPtIn(n, x) \in Int /\ SyForPtIn(n, x) * x <= n * WAD
  <1>1. x \in Nat \ {0} /\ WAD \in Nat \ {0} /\ Bps \in Nat \ {0} /\ FeeBps \in Nat
    BY Scales
  <1> DEFINE gross == MulDivFloor(n, WAD, x)
             fee == MulDivFloor(gross, FeeBps, Bps)
  <1>2. gross \in Nat /\ gross * x <= n * WAD  BY <1>1, FloorBounds
  <1> HIDE DEF gross
  <1>3. fee \in Nat  BY <1>1, <1>2, FloorBounds
  <1>4. SyForPtIn(n, x) = gross - fee  BY DEF SyForPtIn, gross
  <1> HIDE DEF fee
  <1>5. (gross - fee) * x = gross * x - fee * x /\ fee * x \in Nat  BY <1>1, <1>2, <1>3, SMT
  <1>6. gross * x \in Nat /\ n * WAD \in Nat  BY <1>1, <1>2, ProductInNat
  <1>7. QED  BY <1>2, <1>3, <1>4, <1>5, <1>6

LEMMA QuoteAsksAtLeast ==
  ASSUME NEW n \in Nat, NEW x \in Prices
  PROVE  SyForPtOut(n, x) \in Nat /\ SyForPtOut(n, x) * x >= n * WAD
  <1>1. x \in Nat \ {0} /\ WAD \in Nat \ {0} /\ Bps \in Nat \ {0} /\ FeeBps \in Nat
    BY Scales
  <1> DEFINE gross == MulDivCeil(n, WAD, x)
             fee == MulDivCeil(gross, FeeBps, Bps)
  <1>2. gross \in Nat /\ gross * x >= n * WAD  BY <1>1, CeilBounds
  <1> HIDE DEF gross
  <1>3. fee \in Nat  BY <1>1, <1>2, CeilBounds
  <1>4. SyForPtOut(n, x) = gross + fee  BY DEF SyForPtOut, gross
  <1> HIDE DEF fee
  <1>5. (gross + fee) * x = gross * x + fee * x /\ fee * x \in Nat  BY <1>1, <1>2, <1>3, SMT
  <1>6. gross * x \in Nat /\ n * WAD \in Nat  BY <1>1, <1>2, ProductInNat
  <1>7. QED  BY <1>2, <1>3, <1>4, <1>5, <1>6

\* A trade at price x that brings the pool at least a of PT and b of SY, worth
\* together no less than nothing at x.
LEMMA TradeKeepsValue ==
  ASSUME Books, NEW x \in Prices, NEW a \in Int, NEW b \in Int,
         b * x + a * WAD >= 0,
         pool' \in Quantities,
         pool'.pt >= pool.pt + a, pool'.sy >= pool.sy + b,
         pool.pt + a >= 0, pool.sy + b >= 0,
         totalLp > 0, totalLp' = totalLp, rate' = rate, Reconcile
  PROVE  Books' /\ ValueKept(x) /\ totalLp' = totalLp
  <1>1. x \in Nat \ {0} /\ WAD \in Nat \ {0}  BY Scales
  <1>2. /\ pool.pt \in Int /\ pool.sy \in Int /\ pool'.pt \in Int /\ pool'.sy \in Int
        /\ totalPt' = pool'.pt /\ totalSy' = pool'.sy
    BY DEF Books, Quantities, Reconcile
  <1>3. totalPt' \in Nat /\ totalSy' \in Nat  BY <1>2
  <1>4. totalPt' >= totalPt + a /\ totalSy' >= totalSy + b  BY <1>2 DEF Books
  <1>5. Books'  BY <1>2, <1>3 DEF Books
  <1>6. Value(x)' >= Value(x)
    <2> DEFINE q == totalPt' p == totalPt t == totalSy' s == totalSy
    <2>1. q \in Int /\ p \in Int /\ t \in Int /\ s \in Int
      BY <1>3 DEF Books
    <2>2. q >= p + a /\ t >= s + b  BY <1>4
    <2>3. Value(x)' = t * x + q * WAD /\ Value(x) = s * x + p * WAD  BY DEF Value
    <2> HIDE DEF q, p, t, s
    <2>4. t * x >= (s + b) * x
      BY <1>1, <2>1, <2>2, SMT
    <2>5. q * WAD >= (p + a) * WAD
      BY <1>1, <2>1, <2>2, SMT
    <2>6. (s + b) * x = s * x + b * x /\ (p + a) * WAD = p * WAD + a * WAD
      BY <1>1, <2>1, SMT
    <2>7. /\ t * x \in Int /\ s * x \in Int /\ b * x \in Int
          /\ q * WAD \in Int /\ p * WAD \in Int /\ a * WAD \in Int
      BY <1>1, <2>1, SMT
    <2>8. QED  BY <2>3, <2>4, <2>5, <2>6, <2>7
  <1>7. Value(x)' \in Int /\ Value(x) \in Int
    BY <1>1, <1>3, SMT DEF Value, Books
  <1>8. Value(x)' * totalLp >= Value(x) * totalLp
    <2> DEFINE v == Value(x)' u == Value(x)
    <2>1. v \in Int /\ u \in Int /\ v >= u /\ totalLp \in Nat  BY <1>6, <1>7 DEF Books
    <2> HIDE DEF v, u
    <2>2. v * totalLp >= u * totalLp  BY <2>1, SMT
    <2>3. QED  BY <2>2 DEF v, u
  <1>9. QED  BY <1>5, <1>8 DEF ValueKept

\* Reserves that keep their ratio to the LP supply keep their value at any x.
LEMMA ProRataKeepsValue ==
  ASSUME Books, Books', ProRata, NEW x \in Prices
  PROVE  ValueKept(x)
  <1>1. x \in Nat /\ WAD \in Nat  BY Scales
  <1> DEFINE q == totalPt' p == totalPt t == totalSy' s == totalSy
             m == totalLp' l == totalLp
  <1>2. /\ q \in Nat /\ p \in Nat /\ t \in Nat /\ s \in Nat /\ m \in Nat /\ l \in Nat
        /\ q * l >= p * m /\ t * l >= s * m
    BY DEF Books, ProRata
  <1>3. ValueKept(x) <=> (t * x + q * WAD) * l >= (s * x + p * WAD) * m
    BY DEF ValueKept, Value
  <1> HIDE DEF q, p, t, s, m, l
  <1>4. (t * l) * x >= (s * m) * x /\ (q * l) * WAD >= (p * m) * WAD
    <2>1. q * l \in Nat /\ p * m \in Nat /\ t * l \in Nat /\ s * m \in Nat
      BY <1>2, ProductInNat
    <2>2. QED  BY <1>1, <1>2, <2>1, ProductMonotone
  <1>5. (t * x + q * WAD) * l = (t * l) * x + (q * l) * WAD  BY <1>1, <1>2, SMT
  <1>6. (s * x + p * WAD) * m = (s * m) * x + (p * m) * WAD  BY <1>1, <1>2, SMT
  <1>7. /\ (t * l) * x \in Nat /\ (s * m) * x \in Nat
        /\ (q * l) * WAD \in Nat /\ (p * m) * WAD \in Nat
    BY <1>1, <1>2, ProductInNat
  <1>8. QED  BY <1>3, <1>4, <1>5, <1>6, <1>7

LEMMA SwapPtForSyStep ==
  ASSUME Books, NEW h \in Holders, NEW n \in Amounts, NEW x \in Prices, NEW r \in LnRates,
         SwapPtForSy(h, n, x, r)
  PROVE  Books' /\ ValueKept(x) /\ totalLp' = totalLp
  <1>1. n \in Nat /\ x \in Nat \ {0} /\ WAD \in Nat  BY Scales
  <1> DEFINE out == SyForPtIn(n, x)
  <1>2. out \in Int /\ out * x <= n * WAD  BY <1>1, QuotePaysAtMost
  <1>3. /\ out < totalSy /\ totalLp > 0 /\ totalLp' = totalLp /\ rate' = rate /\ Reconcile
        /\ Exchange(h, Tokens(n, 0, 0), Tokens(0, out, 0))
    BY DEF SwapPtForSy, CurveBuys, Settle, Trading, Seeded
  <1> HIDE DEF out
  <1>4. /\ Tokens(n, 0, 0) \in Quantities /\ Tokens(n, 0, 0).pt = n /\ Tokens(n, 0, 0).sy = 0
        /\ Tokens(0, out, 0) \in Quantities /\ Tokens(0, out, 0).pt = 0
        /\ Tokens(0, out, 0).sy = out
    BY <1>1, <1>2, TokensAre
  <1>5. /\ pool' \in Quantities
        /\ pool'.pt = pool.pt + Tokens(n, 0, 0).pt - Tokens(0, out, 0).pt
        /\ pool'.sy = pool.sy + Tokens(n, 0, 0).sy - Tokens(0, out, 0).sy
    BY <1>3, <1>4, ExchangeMoves DEF Books
  <1>6. pool.pt \in Int /\ pool.sy \in Int /\ totalSy <= pool.sy /\ totalPt <= pool.pt
        /\ totalPt \in Nat /\ totalSy \in Nat
    BY DEF Books, Quantities
  <1>7. pool'.pt >= pool.pt + n /\ pool'.sy >= pool.sy + (-out)
    BY <1>1, <1>2, <1>4, <1>5, <1>6
  <1>8. (-out) * x + n * WAD >= 0
    <2>1. (-out) * x = -(out * x) /\ out * x \in Int /\ n * WAD \in Int
      BY <1>1, <1>2, SMT
    <2>2. QED  BY <1>2, <2>1
  <1>9. pool.pt + n >= 0 /\ pool.sy + (-out) >= 0  BY <1>1, <1>2, <1>3, <1>6
  <1>10. -out \in Int /\ n \in Int  BY <1>1, <1>2
  <1>11. QED  BY <1>3, <1>5, <1>7, <1>8, <1>9, <1>10, TradeKeepsValue

LEMMA SwapSyForPtStep ==
  ASSUME Books, NEW h \in Holders, NEW s \in Amounts, NEW out \in 1..totalPt,
         NEW x \in Prices, NEW r \in LnRates,
         SwapSyForPt(h, s, out, x, r)
  PROVE  Books' /\ ValueKept(x) /\ totalLp' = totalLp
  <1>1. s \in Nat /\ out \in Nat /\ x \in Nat \ {0} /\ WAD \in Nat  BY Scales DEF Books
  <1>2. SyForPtOut(out, x) \in Nat /\ SyForPtOut(out, x) * x >= out * WAD
    BY <1>1, QuoteAsksAtLeast
  <1>3. /\ out < totalPt /\ SyForPtOut(out, x) <= s
        /\ totalLp > 0 /\ totalLp' = totalLp /\ rate' = rate /\ Reconcile
        /\ Exchange(h, Tokens(0, s, 0), Tokens(out, 0, 0))
    BY DEF SwapSyForPt, CurveSells, Settle, Trading, Seeded
  <1>4. /\ Tokens(0, s, 0) \in Quantities /\ Tokens(0, s, 0).pt = 0 /\ Tokens(0, s, 0).sy = s
        /\ Tokens(out, 0, 0) \in Quantities /\ Tokens(out, 0, 0).pt = out
        /\ Tokens(out, 0, 0).sy = 0
    BY <1>1, TokensAre
  <1>5. /\ pool' \in Quantities
        /\ pool'.pt = pool.pt + Tokens(0, s, 0).pt - Tokens(out, 0, 0).pt
        /\ pool'.sy = pool.sy + Tokens(0, s, 0).sy - Tokens(out, 0, 0).sy
    BY <1>3, <1>4, ExchangeMoves DEF Books
  <1>6. pool.pt \in Int /\ pool.sy \in Int /\ totalSy <= pool.sy /\ totalPt <= pool.pt
        /\ totalPt \in Nat /\ totalSy \in Nat
    BY DEF Books, Quantities
  <1>7. pool'.pt >= pool.pt + (-out) /\ pool'.sy >= pool.sy + s
    BY <1>1, <1>4, <1>5, <1>6
  <1>8. s * x + (-out) * WAD >= 0
    <2>1. SyForPtOut(out, x) * x <= s * x  BY <1>1, <1>2, <1>3, ProductMonotone
    <2>2. (-out) * WAD = -(out * WAD) /\ out * WAD \in Int /\ s * x \in Int
          /\ SyForPtOut(out, x) * x \in Int
      BY <1>1, <1>2, SMT
    <2>3. QED  BY <1>2, <2>1, <2>2
  <1>9. pool.pt + (-out) >= 0 /\ pool.sy + s >= 0  BY <1>1, <1>3, <1>6
  <1>10. -out \in Int /\ s \in Int  BY <1>1
  <1>11. QED  BY <1>3, <1>5, <1>7, <1>8, <1>9, <1>10, TradeKeepsValue

LEMMA SwapSyForYtStep ==
  ASSUME Books, NEW h \in Holders, NEW s \in Amounts, NEW out \in Amounts,
         NEW x \in Prices, NEW r \in LnRates,
         SwapSyForYt(h, s, out, x, r)
  PROVE  Books' /\ ValueKept(x) /\ totalLp' = totalLp
  <1>1. /\ s \in Nat /\ out \in Nat /\ x \in Nat \ {0} /\ WAD \in Nat \ {0}
        /\ rate \in Nat \ {0}
    BY Scales DEF Books
  <1> DEFINE funded == SyForPtIn(out, x)
             split  == SharesIn(out)
             face   == Minted(split)
  <1>2. funded \in Int /\ funded * x <= out * WAD  BY <1>1, QuotePaysAtMost
  <1>3. split \in Nat  BY <1>1, CeilBounds DEF SharesIn
  <1> HIDE DEF split
  <1>4. face \in Nat  BY <1>1, <1>3, FloorBounds DEF Minted
  <1>5. /\ funded < totalSy /\ split <= s + funded /\ out <= face
        /\ totalLp > 0 /\ totalLp' = totalLp /\ rate' = rate /\ Reconcile
        /\ Flash(h, Tokens(0, s, 0), Tokens(face, 0, face), Tokens(0, split, 0),
                 Tokens(0, 0, out))
    BY DEF SwapSyForYt, CurveBuys, AffordsFlash, Settle, Trading, Seeded, split
  <1> HIDE DEF funded, face
  <1>6. /\ Tokens(0, s, 0) \in Quantities /\ Tokens(0, s, 0).pt = 0 /\ Tokens(0, s, 0).sy = s
        /\ Tokens(face, 0, face) \in Quantities /\ Tokens(face, 0, face).pt = face
        /\ Tokens(face, 0, face).sy = 0
        /\ Tokens(0, split, 0) \in Quantities /\ Tokens(0, split, 0).pt = 0
        /\ Tokens(0, split, 0).sy = split
        /\ Tokens(0, 0, out) \in Quantities /\ Tokens(0, 0, out).pt = 0
        /\ Tokens(0, 0, out).sy = 0
    BY <1>1, <1>3, <1>4, TokensAre
  <1>7. /\ pool' \in Quantities
        /\ pool'.pt = pool.pt + Tokens(0, s, 0).pt + Tokens(face, 0, face).pt
                        - (Tokens(0, split, 0).pt + Tokens(0, 0, out).pt)
        /\ pool'.sy = pool.sy + Tokens(0, s, 0).sy + Tokens(face, 0, face).sy
                        - (Tokens(0, split, 0).sy + Tokens(0, 0, out).sy)
    BY <1>5, <1>6, FlashMoves DEF Books
  <1>8. pool.pt \in Int /\ pool.sy \in Int /\ totalSy <= pool.sy /\ totalPt <= pool.pt
        /\ totalPt \in Nat /\ totalSy \in Nat
    BY DEF Books, Quantities
  <1>9. pool'.pt = pool.pt + face /\ pool'.sy = pool.sy + s - split
    BY <1>1, <1>3, <1>4, <1>6, <1>7, <1>8
  <1>10. pool'.pt >= pool.pt + out /\ pool'.sy >= pool.sy + (-funded)
    BY <1>1, <1>2, <1>3, <1>4, <1>5, <1>8, <1>9
  <1>11. (-funded) * x + out * WAD >= 0
    <2>1. (-funded) * x = -(funded * x) /\ funded * x \in Int /\ out * WAD \in Int
      BY <1>1, <1>2, SMT
    <2>2. QED  BY <1>2, <2>1
  <1>12. pool.pt + out >= 0 /\ pool.sy + (-funded) >= 0  BY <1>1, <1>2, <1>5, <1>8
  <1>13. -funded \in Int /\ out \in Int  BY <1>1, <1>2
  <1>14. QED  BY <1>5, <1>7, <1>10, <1>11, <1>12, <1>13, TradeKeepsValue

LEMMA SwapYtForSyStep ==
  ASSUME Books, NEW h \in Holders, NEW n \in Amounts, NEW x \in Prices, NEW r \in LnRates,
         SwapYtForSy(h, n, x, r)
  PROVE  Books' /\ ValueKept(x) /\ totalLp' = totalLp
  <1>1. /\ n \in Nat /\ x \in Nat \ {0} /\ WAD \in Nat \ {0} /\ rate \in Nat \ {0}
    BY Scales DEF Books
  <1> DEFINE cost == SyForPtOut(n, x)
             paid == Paid(n)
             budget == SharesOut(n)
  <1>2. cost \in Nat /\ cost * x >= n * WAD  BY <1>1, QuoteAsksAtLeast
  <1>3. paid \in Nat /\ budget \in Nat  BY <1>1, FloorBounds DEF Paid, SharesOut
  <1>4. /\ n < totalPt /\ paid >= budget
        /\ totalLp > 0 /\ totalLp' = totalLp /\ rate' = rate /\ Reconcile
        /\ Flash(h, Tokens(0, 0, n), Tokens(0, paid, 0), Tokens(n, 0, n),
                 Tokens(0, budget - cost, 0))
    BY DEF SwapYtForSy, Settle, Trading, Seeded
  <1> HIDE DEF cost, paid, budget
  <1> DEFINE out == budget - cost
  <1>5. out \in Int  BY <1>2, <1>3
  <1> HIDE DEF out
  <1>6. /\ Tokens(0, 0, n) \in Quantities /\ Tokens(0, 0, n).pt = 0 /\ Tokens(0, 0, n).sy = 0
        /\ Tokens(0, paid, 0) \in Quantities /\ Tokens(0, paid, 0).pt = 0
        /\ Tokens(0, paid, 0).sy = paid
        /\ Tokens(n, 0, n) \in Quantities /\ Tokens(n, 0, n).pt = n /\ Tokens(n, 0, n).sy = 0
        /\ Tokens(0, out, 0) \in Quantities /\ Tokens(0, out, 0).pt = 0
        /\ Tokens(0, out, 0).sy = out
    BY <1>1, <1>3, <1>5, TokensAre
  <1>7. Flash(h, Tokens(0, 0, n), Tokens(0, paid, 0), Tokens(n, 0, n), Tokens(0, out, 0))
    BY <1>4 DEF out
  <1>8. /\ pool' \in Quantities
        /\ pool'.pt = pool.pt + Tokens(0, 0, n).pt + Tokens(0, paid, 0).pt
                        - (Tokens(n, 0, n).pt + Tokens(0, out, 0).pt)
        /\ pool'.sy = pool.sy + Tokens(0, 0, n).sy + Tokens(0, paid, 0).sy
                        - (Tokens(n, 0, n).sy + Tokens(0, out, 0).sy)
    BY <1>6, <1>7, FlashMoves DEF Books
  <1>9. pool.pt \in Int /\ pool.sy \in Int /\ totalSy <= pool.sy /\ totalPt <= pool.pt
        /\ totalPt \in Nat /\ totalSy \in Nat
    BY DEF Books, Quantities
  <1>10. pool'.pt = pool.pt - n /\ pool'.sy = pool.sy + paid - out
    BY <1>1, <1>3, <1>5, <1>6, <1>8, <1>9
  <1>11. pool'.pt >= pool.pt + (-n) /\ pool'.sy >= pool.sy + cost
    BY <1>1, <1>2, <1>3, <1>4, <1>9, <1>10 DEF out
  <1>12. cost * x + (-n) * WAD >= 0
    <2>1. (-n) * WAD = -(n * WAD) /\ n * WAD \in Int /\ cost * x \in Int
      BY <1>1, <1>2, SMT
    <2>2. QED  BY <1>2, <2>1
  <1>13. pool.pt + (-n) >= 0 /\ pool.sy + cost >= 0  BY <1>1, <1>2, <1>4, <1>9
  <1>14. -n \in Int /\ cost \in Int  BY <1>1, <1>2
  <1>15. QED  BY <1>4, <1>8, <1>11, <1>12, <1>13, <1>14, TradeKeepsValue

LEMMA IsqrtInNat ==
  ASSUME NEW n \in Nat
  PROVE  Isqrt(n) \in Nat
  <1>1. IsFiniteSet(1..n)  BY FS_Interval
  <1>2. IsFiniteSet({r \in 1..n : r * r <= n})  BY <1>1, FS_Subset
  <1>3. QED  BY <1>2, FS_CardinalityType DEF Isqrt

LEMMA FirstLiquidityStep ==
  ASSUME Books, NEW h \in Holders, NEW p \in Amounts, NEW s \in Amounts, NEW r \in LnRates,
         AddFirstLiquidity(h, p, s, r)
  PROVE  Books' /\ ProRata /\ totalLp = 0
  <1>1. p \in Nat /\ s \in Nat /\ MinLiq \in Nat  BY Scales, AmmAssumption
  <1>2. p * s \in Nat  BY <1>1, ProductInNat
  <1>3. Isqrt(p * s) \in Nat  BY <1>2, IsqrtInNat
  <1>4. /\ totalLp = 0 /\ Isqrt(p * s) > MinLiq /\ totalLp' = Isqrt(p * s)
        /\ Exchange(h, Tokens(p, s, 0), Nothing) /\ Reconcile /\ rate' = rate
    BY DEF AddFirstLiquidity
  <1>5. totalPt = 0 /\ totalSy = 0  BY <1>4 DEF Books
  <1>6. /\ Tokens(p, s, 0) \in Quantities /\ Tokens(p, s, 0).pt = p /\ Tokens(p, s, 0).sy = s
        /\ Nothing \in Quantities /\ Nothing.pt = 0 /\ Nothing.sy = 0
    BY <1>1, TokensAre DEF Nothing
  <1>7. /\ pool' \in Quantities
        /\ pool'.pt = pool.pt + Tokens(p, s, 0).pt - Nothing.pt
        /\ pool'.sy = pool.sy + Tokens(p, s, 0).sy - Nothing.sy
    BY <1>4, <1>6, ExchangeMoves DEF Books
  <1>8. pool.pt \in Int /\ pool.sy \in Int /\ pool.pt >= 0 /\ pool.sy >= 0
    BY <1>5 DEF Books, Quantities
  <1>9. pool'.pt \in Nat /\ pool'.sy \in Nat  BY <1>1, <1>6, <1>7, <1>8
  <1>10. totalPt' = pool'.pt /\ totalSy' = pool'.sy  BY <1>4 DEF Reconcile
  <1>11. totalLp' \in Nat /\ totalLp' # 0  BY <1>1, <1>3, <1>4
  <1>12. Books'  BY <1>4, <1>7, <1>9, <1>10, <1>11 DEF Books
  <1>13. ProRata
    <2>1. totalPt' \in Nat /\ totalSy' \in Nat  BY <1>9, <1>10
    <2>2. \A z \in Nat : z * 0 = 0 /\ 0 * z = 0  OBVIOUS
    <2>3. QED  BY <1>4, <1>5, <1>11, <2>1, <2>2 DEF ProRata
  <1>14. QED  BY <1>4, <1>12, <1>13

LEMMA AddLiquidityStep ==
  ASSUME Books, NEW h \in Holders, NEW p \in Amounts, NEW s \in Amounts,
         AddLiquidity(h, p, s)
  PROVE  Books' /\ ProRata
  <1>1. p \in Nat /\ s \in Nat /\ totalPt \in Nat \ {0} /\ totalSy \in Nat \ {0}
        /\ totalLp \in Nat \ {0}
    BY Scales DEF Books, AddLiquidity
  <1> DEFINE minted == Least(MulDivFloor(p, totalLp, totalPt), MulDivFloor(s, totalLp, totalSy))
             a == UsedFor(totalPt, minted)
             b == UsedFor(totalSy, minted)
  <1>2. minted \in Nat  BY <1>1, FloorBounds DEF Least
  <1>3. /\ totalLp' = totalLp + minted /\ Reconcile /\ rate' = rate
        /\ Exchange(h, Tokens(a, b, 0), Nothing)
    BY DEF AddLiquidity
  <1> HIDE DEF minted
  <1>4. /\ a \in Nat /\ a * totalLp >= totalPt * minted
        /\ b \in Nat /\ b * totalLp >= totalSy * minted
    BY <1>1, <1>2, CeilBounds DEF UsedFor
  <1> HIDE DEF a, b
  <1>5. /\ Tokens(a, b, 0) \in Quantities /\ Tokens(a, b, 0).pt = a /\ Tokens(a, b, 0).sy = b
        /\ Nothing \in Quantities /\ Nothing.pt = 0 /\ Nothing.sy = 0
    BY <1>4, TokensAre DEF Nothing
  <1>6. /\ pool' \in Quantities
        /\ pool'.pt = pool.pt + Tokens(a, b, 0).pt - Nothing.pt
        /\ pool'.sy = pool.sy + Tokens(a, b, 0).sy - Nothing.sy
    BY <1>3, <1>5, ExchangeMoves DEF Books
  <1>7. pool.pt \in Int /\ pool.sy \in Int /\ totalPt <= pool.pt /\ totalSy <= pool.sy
    BY DEF Books, Quantities
  <1>8. /\ totalPt' = pool'.pt /\ totalSy' = pool'.sy
        /\ totalPt' >= totalPt + a /\ totalSy' >= totalSy + b
        /\ totalPt' \in Nat /\ totalSy' \in Nat
    BY <1>1, <1>3, <1>4, <1>5, <1>6, <1>7 DEF Reconcile
  <1>9. totalLp' \in Nat /\ totalLp' # 0  BY <1>1, <1>2, <1>3
  <1>10. Books'  BY <1>3, <1>6, <1>8, <1>9 DEF Books
  <1>11. \A t, u, used \in Nat :
           u >= t + used /\ used * totalLp >= t * minted =>
             u * totalLp >= t * (totalLp + minted)
    <2> SUFFICES ASSUME NEW t \in Nat, NEW u \in Nat, NEW used \in Nat,
                        u >= t + used, used * totalLp >= t * minted
                 PROVE  u * totalLp >= t * (totalLp + minted)
      OBVIOUS
    <2>1. u * totalLp >= (t + used) * totalLp  BY <1>1, ProductMonotone
    <2>2. /\ (t + used) * totalLp = t * totalLp + used * totalLp
          /\ t * (totalLp + minted) = t * totalLp + t * minted
      BY <1>1, <1>2, SMT
    <2>3. /\ u * totalLp \in Nat /\ t * totalLp \in Nat /\ used * totalLp \in Nat
          /\ t * minted \in Nat
      BY <1>1, <1>2, ProductInNat
    <2>4. QED  BY <2>1, <2>2, <2>3
  <1>12. totalPt' * totalLp >= totalPt * (totalLp + minted)
    BY <1>1, <1>4, <1>8, <1>11
  <1>13. totalSy' * totalLp >= totalSy * (totalLp + minted)
    BY <1>1, <1>4, <1>8, <1>11
  <1>14. QED  BY <1>3, <1>10, <1>12, <1>13 DEF ProRata

LEMMA RemoveLiquidityStep ==
  ASSUME Books, NEW h \in Holders, NEW n \in Amounts, RemoveLiquidity(h, n)
  PROVE  Books' /\ ProRata
  <1>1. n \in Nat /\ totalPt \in Nat /\ totalSy \in Nat /\ totalLp \in Nat \ {0}
        /\ n < totalLp
    BY Scales DEF Books, RemoveLiquidity, Seeded, MayLeave
  <1> DEFINE a == ShareOf(totalPt, n)
             b == ShareOf(totalSy, n)
  <1>2. /\ totalLp' = totalLp - n /\ Reconcile /\ rate' = rate
        /\ Exchange(h, Nothing, Tokens(a, b, 0))
    BY DEF RemoveLiquidity
  <1>3. /\ a \in Nat /\ a * totalLp <= totalPt * n
        /\ b \in Nat /\ b * totalLp <= totalSy * n
    BY <1>1, FloorBounds DEF ShareOf
  <1> HIDE DEF a, b
  <1>4. \A t, out \in Nat : out * totalLp <= t * n => out <= t
    <2> SUFFICES ASSUME NEW t \in Nat, NEW out \in Nat, out * totalLp <= t * n
                 PROVE  out <= t
      OBVIOUS
    <2>1. n * t <= totalLp * t  BY <1>1, ProductMonotone
    <2>2. n * t = t * n /\ totalLp * t = t * totalLp  BY <1>1, SMT
    <2>3. out * totalLp \in Nat /\ t * n \in Nat /\ t * totalLp \in Nat
      BY <1>1, ProductInNat
    <2>4. out * totalLp <= t * totalLp  BY <2>1, <2>2, <2>3
    <2>5. QED  BY <1>1, <2>4, CancelFactor
  <1>5. a <= totalPt /\ b <= totalSy  BY <1>1, <1>3, <1>4
  <1>6. /\ Tokens(a, b, 0) \in Quantities /\ Tokens(a, b, 0).pt = a /\ Tokens(a, b, 0).sy = b
        /\ Nothing \in Quantities /\ Nothing.pt = 0 /\ Nothing.sy = 0
    BY <1>3, TokensAre DEF Nothing
  <1>7. /\ pool' \in Quantities
        /\ pool'.pt = pool.pt + Nothing.pt - Tokens(a, b, 0).pt
        /\ pool'.sy = pool.sy + Nothing.sy - Tokens(a, b, 0).sy
    BY <1>2, <1>6, ExchangeMoves DEF Books
  <1>8. pool.pt \in Int /\ pool.sy \in Int /\ totalPt <= pool.pt /\ totalSy <= pool.sy
    BY DEF Books, Quantities
  <1>9. /\ totalPt' = pool'.pt /\ totalSy' = pool'.sy
        /\ totalPt' >= totalPt - a /\ totalSy' >= totalSy - b
        /\ totalPt' \in Nat /\ totalSy' \in Nat
    BY <1>1, <1>2, <1>3, <1>5, <1>6, <1>7, <1>8 DEF Reconcile
  <1>10. totalLp' \in Nat /\ totalLp' # 0  BY <1>1, <1>2
  <1>11. Books'  BY <1>2, <1>7, <1>9, <1>10 DEF Books
  <1>12. \A t, u, out \in Nat :
           out <= t /\ u >= t - out /\ out * totalLp <= t * n =>
             u * totalLp >= t * (totalLp - n)
    <2> SUFFICES ASSUME NEW t \in Nat, NEW u \in Nat, NEW out \in Nat,
                        out <= t, u >= t - out, out * totalLp <= t * n
                 PROVE  u * totalLp >= t * (totalLp - n)
      OBVIOUS
    <2>1. t - out \in Nat /\ t - out <= u  OBVIOUS
    <2>2. (t - out) * totalLp <= u * totalLp  BY <1>1, <2>1, ProductMonotone
    <2>3. /\ (t - out) * totalLp = t * totalLp - out * totalLp
          /\ t * (totalLp - n) = t * totalLp - t * n
      BY <1>1, SMT
    <2>4. /\ u * totalLp \in Nat /\ t * totalLp \in Nat /\ out * totalLp \in Nat
          /\ t * n \in Nat
      BY <1>1, ProductInNat
    <2>5. QED  BY <2>2, <2>3, <2>4
  <1>13. totalPt' * totalLp >= totalPt * (totalLp - n)
    BY <1>1, <1>3, <1>5, <1>9, <1>12
  <1>14. totalSy' * totalLp >= totalSy * (totalLp - n)
    BY <1>1, <1>3, <1>5, <1>9, <1>12
  <1>15. QED  BY <1>2, <1>11, <1>13, <1>14 DEF ProRata

LEMMA QuietStep ==
  ASSUME Books,
         \/ \E h \in Holders : Donate(h, Tokens(1, 1, 0))
         \/ \E k \in SyRates : SyAccrues(k)
         \/ Tick \/ UNCHANGED vars
  PROVE  Books' /\ UNCHANGED <<totalPt, totalSy, totalLp>>
  <1>1. ASSUME NEW h \in Holders, Donate(h, Tokens(1, 1, 0))
        PROVE  Books' /\ UNCHANGED <<totalPt, totalSy, totalLp>>
    <2>1. /\ Exchange(h, Tokens(1, 1, 0), Nothing)
          /\ UNCHANGED <<totalPt, totalSy, totalLp, rate>>
      BY <1>1 DEF Donate
    <2>2. /\ Tokens(1, 1, 0) \in Quantities /\ Tokens(1, 1, 0).pt = 1 /\ Tokens(1, 1, 0).sy = 1
          /\ Nothing \in Quantities /\ Nothing.pt = 0 /\ Nothing.sy = 0
      BY TokensAre DEF Nothing
    <2>3. /\ pool' \in Quantities
          /\ pool'.pt = pool.pt + Tokens(1, 1, 0).pt - Nothing.pt
          /\ pool'.sy = pool.sy + Tokens(1, 1, 0).sy - Nothing.sy
      BY <2>1, <2>2, ExchangeMoves DEF Books
    <2>4. pool.pt \in Int /\ pool.sy \in Int  BY DEF Books, Quantities
    <2>5. pool'.pt >= pool.pt /\ pool'.sy >= pool.sy  BY <2>2, <2>3, <2>4
    <2>6. pool'.pt \in Int /\ pool'.sy \in Int  BY <2>3 DEF Quantities
    <2>7. totalPt <= pool'.pt /\ totalSy <= pool'.sy  BY <2>4, <2>5, <2>6 DEF Books
    <2>8. QED  BY <2>1, <2>3, <2>7 DEF Books
  <1>2. CASE \E k \in SyRates : SyAccrues(k)  BY <1>2 DEF SyAccrues, Books
  <1>3. CASE Tick  BY <1>3 DEF Tick, Books
  <1>4. CASE UNCHANGED vars  BY <1>4 DEF vars, Books
  <1>5. QED  BY <1>1, <1>2, <1>3, <1>4

LEMMA Step ==
  ASSUME Books, [Next]_vars
  PROVE  /\ Books'
         /\ \E x \in Prices : ValueKept(x)
         /\ totalLp # 0 /\ totalLp' # totalLp => ProRata
  <1>1. ASSUME \/ \E h \in Holders, n, m \in Amounts, r \in LnRates :
                    AddFirstLiquidity(h, n, m, r)
               \/ \E h \in Holders, n, m \in Amounts : AddLiquidity(h, n, m)
               \/ \E h \in Holders, n \in Amounts : RemoveLiquidity(h, n)
        PROVE  Books' /\ ProRata /\ \E x \in Prices : ValueKept(x)
    <2>1. Books' /\ ProRata
      BY <1>1, FirstLiquidityStep, AddLiquidityStep, RemoveLiquidityStep
    <2>2. PICK x \in Prices : TRUE  BY AmmAssumption
    <2>3. QED  BY <2>1, <2>2, ProRataKeepsValue
  <1>2. ASSUME NEW h \in Holders, NEW n \in Amounts, NEW x \in Prices, NEW r \in LnRates,
               \/ SwapPtForSy(h, n, x, r)
               \/ SwapYtForSy(h, n, x, r)
               \/ \E out \in 1..totalPt : SwapSyForPt(h, n, out, x, r)
               \/ \E out \in Amounts : SwapSyForYt(h, n, out, x, r)
        PROVE  Books' /\ ValueKept(x) /\ totalLp' = totalLp
    BY <1>2, SwapPtForSyStep, SwapSyForPtStep, SwapSyForYtStep, SwapYtForSyStep
  <1>3. ASSUME \/ \E h \in Holders : Donate(h, Tokens(1, 1, 0))
               \/ \E k \in SyRates : SyAccrues(k)
               \/ Tick \/ UNCHANGED vars
        PROVE  Books' /\ totalLp' = totalLp /\ \E x \in Prices : ValueKept(x)
    <2>1. Books' /\ UNCHANGED <<totalPt, totalSy, totalLp>>  BY <1>3, QuietStep
    <2>2. PICK x \in Prices : TRUE  BY AmmAssumption
    <2>3. Value(x)' = Value(x)  BY <2>1 DEF Value
    <2>4. Value(x) * totalLp \in Int
      <3>1. x \in Nat /\ WAD \in Nat  BY Scales
      <3>2. QED  BY <3>1, SMT DEF Value, Books
    <2>5. ValueKept(x)  BY <2>1, <2>3, <2>4 DEF ValueKept
    <2>6. QED  BY <2>1, <2>2, <2>5
  <1>4. QED  BY <1>1, <1>2, <1>3 DEF Next

LEMMA InitBooks == Init => Books
  <1>1. Tokens(0, 0, 0) \in Quantities /\ Tokens(0, 0, 0).pt = 0 /\ Tokens(0, 0, 0).sy = 0
    BY TokensAre
  <1>2. QED  BY <1>1 DEF Init, Books, Tokens

\* Whatever the curve quotes, whatever the fee: at the price it traded at, no
\* call makes an LP share worth less (apply_exact_*, swap_*, add_liquidity,
\* remove_liquidity).
THEOREM LpShareIsSafe == Spec => LpShareNeverLoses
  <1>1. Books /\ [Next]_vars => Books'  BY Step
  <1>2. Books /\ [Next]_vars =>
          [\E x \in Prices : Value(x)' * totalLp >= Value(x) * totalLp']_vars
    BY Step DEF ValueKept
  <1>3. QED  BY InitBooks, <1>1, <1>2, PTL DEF Spec, LpShareNeverLoses

\* Providers come and go without diluting those who stay, in either reserve
\* (add_liquidity, remove_liquidity).
THEOREM ProvidersAreNotDiluted == Spec => LiquidityIsProRata
  <1>1. Books /\ [Next]_vars => Books'  BY Step
  <1>2. Books /\ [Next]_vars =>
          [totalLp # 0 /\ totalLp' # totalLp =>
             /\ totalPt' * totalLp >= totalPt * totalLp'
             /\ totalSy' * totalLp >= totalSy * totalLp']_vars
    BY Step DEF ProRata
  <1>3. QED  BY InitBooks, <1>1, <1>2, PTL DEF Spec, LiquidityIsProRata

----------------------------------------------------------------------------
\* The average.

\* The observations: natural numbers, and none later than the clock.
Observations ==
  /\ now \in Nat /\ lastObs \in Nat /\ lastObs <= now
  /\ twap \in Nat /\ lastLnRate \in Nat /\ warmupUntil \in Nat

\* What an observation may do to an average t, of a rate r, after a time e.
MovesWithin(t2, t, r, e) == Abs(t2 - t) * Window <= Abs(r - t) * e + 2 * Window

\* A move bounded at scale WAD by a weight is bounded at the window's scale by
\* the time the weight stands for.
LEMMA WeightIsTime ==
  ASSUME NEW m \in Nat, NEW d \in Nat, NEW k \in Nat, NEW w \in Nat, NEW e \in Nat,
         w * Window <= e * WAD,
         m * WAD <= d * w + k * WAD
  PROVE  m * Window <= d * e + k * Window
  <1>1. Window \in Nat \ {0} /\ WAD \in Nat \ {0}  BY TwapAssumption, WadAssumption
  <1> DEFINE W == Window
             S == WAD
  <1>2. W \in Nat \ {0} /\ S \in Nat \ {0} /\ w * W <= e * S /\ m * S <= d * w + k * S
    BY <1>1
  <1> HIDE DEF W, S
  <1>3. m * S \in Nat /\ d * w + k * S \in Nat /\ w * W \in Nat /\ e * S \in Nat
    BY <1>2, ProductInNat
  <1>4. (m * S) * W <= (d * w + k * S) * W  BY <1>2, <1>3, ProductMonotone
  <1>5. (w * W) * d <= (e * S) * d  BY <1>2, <1>3, ProductMonotone
  <1>6. (m * W) * S = (m * S) * W  BY <1>2, SMT
  <1>7. (d * w + k * S) * W = (w * W) * d + (k * W) * S  BY <1>2, SMT
  <1>8. (e * S) * d = (d * e) * S  BY <1>2, SMT
  <1>9. (d * e + k * W) * S = (d * e) * S + (k * W) * S  BY <1>2, SMT
  <1>10. m * W \in Nat /\ d * e \in Nat /\ k * W \in Nat  BY <1>2, ProductInNat
  <1>11. (k * W) * S \in Nat /\ (d * e) * S \in Nat /\ (w * W) * d \in Nat
    BY <1>2, <1>3, <1>10, ProductInNat
  <1>12. (m * W) * S <= (d * e) * S + (k * W) * S
    <2>1. (m * S) * W <= (w * W) * d + (k * W) * S  BY <1>4, <1>7
    <2>2. (w * W) * d <= (d * e) * S  BY <1>5, <1>8
    <2>3. (m * S) * W \in Nat  BY <1>2, <1>3, ProductInNat
    <2>4. (m * S) * W <= (d * e) * S + (k * W) * S  BY <2>1, <2>2, <2>3, <1>11
    <2>5. QED  BY <2>4, <1>6
  <1>13. d * e + k * W \in Nat  BY <1>10
  <1>14. (m * W) * S <= (d * e + k * W) * S  BY <1>9, <1>12
  <1>15. m * W <= d * e + k * W  BY <1>2, <1>10, <1>13, <1>14, CancelFactor
  <1>16. QED  BY <1>15 DEF W

\* Blending inside the window (sync_twap's weighted branch).
LEMMA BlendMoves ==
  ASSUME NEW t \in Nat, NEW r \in Nat, NEW e \in Nat, e < Window
  PROVE  LET t2 == MulDivFloor(t, WAD - Weight(e), WAD) + MulDivFloor(r, Weight(e), WAD)
         IN  t2 \in Nat /\ MovesWithin(t2, t, r, e)
  <1>1. Window \in Nat \ {0} /\ WAD \in Nat \ {0}  BY TwapAssumption, WadAssumption
  <1> DEFINE w == Weight(e)
             S == WAD
  <1>2. S \in Nat \ {0}  BY <1>1
  <1>3. w \in Nat /\ w * Window <= e * S  BY <1>1, FloorBounds DEF Weight
  <1>4. w <= S
    <2>1. e * S <= Window * S  BY <1>1, ProductMonotone
    <2>2. Window * S = S * Window  BY <1>1, SMT
    <2> HIDE DEF w, S
    <2>3. w * Window \in Nat /\ e * S \in Nat /\ S * Window \in Nat  BY <1>1, <1>2, <1>3, ProductInNat
    <2>4. w * Window <= S * Window  BY <1>3, <2>1, <2>2, <2>3
    <2>5. QED  BY <1>1, <1>2, <1>3, <2>4, CancelFactor
  <1>5. S - w \in Nat
    <2> HIDE DEF w, S
    <2>1. QED  BY <1>2, <1>3, <1>4
  <1> DEFINE a == MulDivFloor(t, S - w, S)
             b == MulDivFloor(r, w, S)
             t2 == a + b
  <1> HIDE DEF w, S
  <1>6. a \in Nat /\ a * S <= t * (S - w) /\ t * (S - w) < a * S + S
    BY <1>2, <1>5, FloorBounds
  <1>7. b \in Nat /\ b * S <= r * w /\ r * w < b * S + S  BY <1>2, <1>3, FloorBounds
  <1> HIDE DEF a, b
  <1>8. t2 \in Nat  BY <1>6, <1>7
  <1>9. t2 * S = a * S + b * S  BY <1>2, <1>6, <1>7, SMT
  <1> HIDE DEF t2
  <1>10. t * (S - w) = t * S - t * w  BY <1>2, <1>3, SMT
  <1>11. /\ a * S \in Nat /\ b * S \in Nat /\ t * S \in Nat /\ t * w \in Nat
         /\ r * w \in Nat /\ t2 * S \in Nat
    BY <1>2, <1>3, <1>6, <1>7, <1>8, ProductInNat
  <1>12. /\ t2 * S <= t * S - t * w + r * w
         /\ t * S - t * w + r * w < t2 * S + 2 * S
    BY <1>2, <1>6, <1>7, <1>9, <1>10, <1>11
  <1>13. ASSUME r >= t PROVE MovesWithin(t2, t, r, e)
    <2> DEFINE d == r - t
    <2>1. d \in Nat  BY <1>13
    <2>2. Abs(r - t) = d  BY <1>13 DEF Abs
    <2>3. d * w = r * w - t * w  BY <1>3, SMT
    <2> HIDE DEF d
    <2>4. d * w \in Nat /\ d * e \in Nat  BY <2>1, <1>3, ProductInNat
    <2>5. t2 * S <= t * S + d * w /\ t * S < t2 * S + 2 * S
      BY <1>2, <1>11, <1>12, <2>3, <2>4
    <2>6. CASE t2 >= t
      <3> DEFINE m == t2 - t
      <3>1. m \in Nat /\ Abs(t2 - t) = m  BY <1>8, <2>6 DEF Abs
      <3>2. m * S = t2 * S - t * S  BY <1>2, <1>8, SMT
      <3> HIDE DEF m
      <3>3. m * S <= d * w + 0 * S  BY <1>2, <1>11, <2>4, <2>5, <3>2
      <3>4. m * Window <= d * e + 0 * Window  BY <1>3, <2>1, <3>1, <3>3, WeightIsTime DEF S
      <3>5. m * Window \in Nat  BY <1>1, <3>1, ProductInNat
      <3>6. m * Window <= d * e + 2 * Window  BY <1>1, <2>4, <3>4, <3>5
      <3>7. QED  BY <2>2, <3>1, <3>6 DEF MovesWithin
    <2>7. CASE t2 < t
      <3>1. t * S < (t2 + 2) * S  BY <1>2, <1>8, <1>11, <2>5, SMT
      <3>2. t < t2 + 2
        <4>1. SUFFICES ASSUME t2 + 2 <= t PROVE FALSE  BY <1>8
        <4>2. (t2 + 2) * S <= t * S  BY <1>2, <1>8, <4>1, ProductMonotone
        <4>3. (t2 + 2) * S \in Nat  BY <1>2, <1>8, ProductInNat
        <4>4. QED  BY <1>11, <3>1, <4>2, <4>3
      <3>3. Abs(t2 - t) = 1  BY <1>8, <2>7, <3>2 DEF Abs
      <3>4. 1 * Window <= d * e + 2 * Window  BY <1>1, <2>4
      <3>5. QED  BY <2>2, <3>3, <3>4 DEF MovesWithin
    <2>8. QED  BY <1>8, <2>6, <2>7
  <1>14. ASSUME r < t PROVE MovesWithin(t2, t, r, e)
    <2> DEFINE d == t - r
    <2>1. d \in Nat  BY <1>14
    <2>2. Abs(r - t) = d  BY <1>14 DEF Abs
    <2>3. d * w = t * w - r * w  BY <1>3, SMT
    <2> HIDE DEF d
    <2>4. d * w \in Nat /\ d * e \in Nat  BY <2>1, <1>3, ProductInNat
    <2>5. t2 * S <= t * S /\ t * S < t2 * S + d * w + 2 * S
      BY <1>2, <1>11, <1>12, <2>3, <2>4
    <2>6. t2 <= t  BY <1>2, <1>8, <2>5, CancelFactor
    <2> DEFINE m == t - t2
    <2>7. m \in Nat /\ Abs(t2 - t) = m  BY <1>8, <2>6 DEF Abs
    <2>8. m * S = t * S - t2 * S  BY <1>2, <1>8, SMT
    <2> HIDE DEF m
    <2>9. m * S <= d * w + 2 * S  BY <1>2, <1>11, <2>4, <2>5, <2>8
    <2>10. m * Window <= d * e + 2 * Window  BY <1>3, <2>1, <2>7, <2>9, WeightIsTime DEF S
    <2>11. QED  BY <2>2, <2>7, <2>10 DEF MovesWithin
  <1>15. MovesWithin(t2, t, r, e)  BY <1>13, <1>14
  <1>16. QED  BY <1>8, <1>15 DEF t2, a, b, w, S

\* What a step may do to the average, as TrustedTwapMovesSlowly says it.
Slowly ==
  ~WarmingUp' /\ totalLp > 0 =>
    MovesWithin(twap', twap, lastLnRate', Least(now - lastObs, Window - 1))

LEMMA UnmovedIsSlow ==
  ASSUME Observations, twap' = twap, lastLnRate' \in Nat
  PROVE  Slowly
  <1> DEFINE e == Least(now - lastObs, Window - 1)
             d == Abs(lastLnRate' - twap)
  <1>1. Window \in Nat \ {0}  BY TwapAssumption
  <1>2. e \in Nat  BY <1>1 DEF Least, Observations
  <1>3. d \in Nat
    <2>1. \A n \in Int : Abs(n) \in Nat  BY DEF Abs
    <2>2. lastLnRate' - twap \in Int  BY DEF Observations
    <2>3. QED  BY <2>1, <2>2
  <1>4. Abs(twap' - twap) = 0  BY DEF Abs, Observations
  <1> HIDE DEF e, d
  <1>5. d * e \in Nat  BY <1>2, <1>3, ProductInNat
  <1>6. 0 * Window <= d * e + 2 * Window  BY <1>1, <1>5
  <1>7. QED  BY <1>4, <1>6 DEF Slowly, MovesWithin, d, e

LEMMA ObserveIsSlow ==
  ASSUME Observations, NEW r \in LnRates, Observe(r), now' = now
  PROVE  Observations' /\ Slowly
  <1> DEFINE e == now - lastObs
  <1>1. Window \in Nat \ {0} /\ r \in Nat  BY TwapAssumption
  <1>2. e \in Nat /\ lastLnRate' = r  BY DEF Observations, Observe
  <1>3. CASE UNCHANGED <<twap, lastObs, warmupUntil>>
    <2>1. Observations'  BY <1>1, <1>2, <1>3 DEF Observations
    <2>2. QED  BY <1>1, <1>2, <1>3, <2>1, UnmovedIsSlow
  <1>4. CASE twap' = r /\ lastObs' = now /\ warmupUntil' = AfterGap
    <2>1. Observations'  BY <1>1, <1>2, <1>4 DEF Observations, AfterGap
    <2>2. WarmingUp'  BY <1>1, <1>4 DEF WarmingUp, AfterGap, Observations
    <2>3. QED  BY <2>1, <2>2 DEF Slowly
  <1>5. ASSUME e < Window,
               twap' = MulDivFloor(twap, WAD - Weight(e), WAD) + MulDivFloor(r, Weight(e), WAD),
               lastObs' = now, UNCHANGED warmupUntil
        PROVE  Observations' /\ Slowly
    <2>1. Least(e, Window - 1) = e  BY <1>1, <1>2, <1>5 DEF Least
    <2>2. twap \in Nat  BY DEF Observations
    <2> HIDE DEF e
    <2>3. twap' \in Nat /\ MovesWithin(twap', twap, r, e)
      BY <1>1, <1>2, <1>5, <2>2, BlendMoves
    <2>4. Observations'  BY <1>1, <1>2, <1>5, <2>3 DEF Observations
    <2>5. Slowly  BY <1>2, <2>1, <2>3 DEF Slowly, e
    <2>6. QED  BY <2>4, <2>5
  <1>6. QED  BY <1>3, <1>4, <1>5 DEF Observe

LEMMA TwapStep ==
  ASSUME Books, Observations, [Next]_vars
  PROVE  Observations' /\ Slowly
  <1>1. ASSUME NEW h \in Holders, NEW n \in Amounts, NEW m \in Amounts, NEW r \in LnRates,
               AddFirstLiquidity(h, n, m, r)
        PROVE  Observations' /\ Slowly
    <2>1. r \in Nat  BY TwapAssumption
    <2>2. Observations'  BY <1>1, <2>1 DEF AddFirstLiquidity, OpenAt, Observations
    <2>3. ~(totalLp > 0)  BY <1>1 DEF AddFirstLiquidity
    <2>4. QED  BY <2>2, <2>3 DEF Slowly
  <1>2. ASSUME NEW r \in LnRates, Observe(r), now' = now
        PROVE  Observations' /\ Slowly
    BY <1>2, ObserveIsSlow
  <1>3. ASSUME NEW h \in Holders, NEW n \in Amounts, NEW x \in Prices, NEW r \in LnRates,
               \/ SwapPtForSy(h, n, x, r)
               \/ SwapYtForSy(h, n, x, r)
               \/ \E out \in 1..totalPt : SwapSyForPt(h, n, out, x, r)
               \/ \E out \in Amounts : SwapSyForYt(h, n, out, x, r)
        PROVE  Observations' /\ Slowly
    <2>1. Settle(r)  BY <1>3 DEF SwapPtForSy, SwapYtForSy, SwapSyForPt, SwapSyForYt
    <2>2. Observe(r) /\ now' = now  BY <2>1 DEF Settle
    <2>3. QED  BY <1>2, <2>2
  <1>4. ASSUME UNCHANGED twapVars, now' = now \/ now' = now + 1
        PROVE  Observations' /\ Slowly
    <2>1. Observations'  BY <1>4 DEF twapVars, Observations
    <2>2. twap' = twap /\ lastLnRate' \in Nat  BY <1>4 DEF twapVars, Observations
    <2>3. QED  BY <2>1, <2>2, UnmovedIsSlow
  <1>5. ASSUME \/ \E h \in Holders, n, m \in Amounts : AddLiquidity(h, n, m)
               \/ \E h \in Holders, n \in Amounts : RemoveLiquidity(h, n)
               \/ \E h \in Holders : Donate(h, Tokens(1, 1, 0))
               \/ \E k \in SyRates : SyAccrues(k)
               \/ Tick
               \/ UNCHANGED vars
        PROVE  Observations' /\ Slowly
    <2>1. UNCHANGED twapVars /\ (now' = now \/ now' = now + 1)
      BY <1>5 DEF AddLiquidity, RemoveLiquidity, Donate, SyAccrues, Tick, vars
    <2>2. QED  BY <1>4, <2>1
  <1>6. QED  BY <1>1, <1>3, <1>5 DEF Next

LEMMA InitObservations == Init => Observations
  BY TwapAssumption DEF Init, TwapInit, Observations

\* While readers may trust the average, no trade at any rate moves it by more
\* than the elapsed part of the window: an idle gap that lets one trade decide
\* it raises the flag again (sync_twap, twap_warming_up).
THEOREM TrustedAverageMovesSlowly == Spec => TrustedTwapMovesSlowly
  <1>1. Books /\ Observations /\ [Next]_vars => Books' /\ Observations'  BY Step, TwapStep
  <1>2. Books /\ Observations /\ [Next]_vars =>
          [~WarmingUp' /\ totalLp > 0 =>
             Abs(twap' - twap) * Window
               <= Abs(lastLnRate' - twap) * Least(now - lastObs, Window - 1) + 2 * Window]_vars
    BY TwapStep DEF Slowly, MovesWithin
  <1>3. QED  BY InitBooks, InitObservations, <1>1, <1>2, PTL DEF Spec, TrustedTwapMovesSlowly
=============================================================================
