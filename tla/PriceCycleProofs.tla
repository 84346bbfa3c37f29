-------------------------- MODULE PriceCycleProofs --------------------------
(***************************************************************************)
(* The price simulation, for every position, price and width: its targets  *)
(* are on the right side of the program's thresholds, and its nudges do    *)
(* not lose the liquidation.                                               *)
(*                                                                         *)
(* A target is a thousandth off the price at which the debt is a given     *)
(* part of the limit.  TargetPasses and TargetStops say that this is more  *)
(* than all divisions lose, and less than what lies between thresholds.    *)
(* The nudges are a walk of prices, each computed from one of the last     *)
(* two, that stays within a band (Held).                                   *)
(***************************************************************************)
EXTENDS PriceCycle, CushionProofs

-----------------------------------------------------------------------------
(* Targets.                                                                *)

(* C units at the price P are worth V, at T they are worth v; F is the     *)
(* limit of q percent of V, b the price at which D is the part m of it.    *)
(* Below b by a thousandth, the debt is past that part of the limit.       *)
LEMMA TargetPasses ==
  ASSUME NEW C \in Nat, NEW P \in Nat, NEW U \in Nat \ {0}, NEW D \in Nat, NEW W \in Nat,
         NEW q \in Nat \ {0}, NEW m \in Nat, NEW V \in Nat, NEW F \in Nat,
         NEW b \in Nat, NEW T \in Nat, NEW v \in Nat,
         C * P <= (V + 1) * U, v * U <= C * T, V * q <= 100 * F + 99,
         b * (F * m) <= (P * D) * W, 1000 * T <= 999 * b,
         V >= 1000000, m >= 1000000
  PROVE  v * (q * m + 100) <= 100 * (D * W)
<1> DEFINE N == F * m
           dw == D * W
           X == C * T
           Y == C * P
           cb == C * b
           h == q * m
           V1 == V + 1
<1>1. N \in Nat /\ dw \in Nat /\ X \in Nat /\ Y \in Nat /\ cb \in Nat /\ h \in Nat
  BY ProductInNat
<1>2. 1000 * X <= 999 * cb
  <2>1. (1000 * T) * C <= (999 * b) * C
    BY MulMonotone
  <2>2. (1000 * T) * C = 1000 * X /\ (999 * b) * C = 999 * cb
    BY Distribute
  <2> QED
    BY <2>1, <2>2
<1>3. cb * N <= Y * dw
  <2>1. b * N \in Nat /\ (P * D) * W \in Nat
    BY <1>1, ProductInNat
  <2>2. (b * N) * C <= ((P * D) * W) * C
    BY <2>1, MulMonotone
  <2>3. (b * N) * C = cb * N
    BY <1>1, Distribute
  <2>4. ((P * D) * W) * C = Y * dw
    <3>1. (P * D) * W = P * dw
      BY Distribute
    <3>2. (P * dw) * C = C * (P * dw) /\ (C * P) * dw = C * (P * dw)
      BY <1>1, Distribute
    <3> QED
      BY <3>1, <3>2
  <2> QED
    BY <2>2, <2>3, <2>4
<1>4. 1000 * (v * N) <= 999 * (V1 * dw)
  <2>1. (v * U) * N <= X * N
    BY <1>1, ProductInNat, MulMonotone
  <2>2. (1000 * X) * N <= (999 * cb) * N
    BY <1>1, <1>2, MulMonotone
  <2>3. Y * dw <= (V1 * U) * dw
    BY <1>1, ProductInNat, MulMonotone
  <2>4. (v * U) * N = (v * N) * U /\ (V1 * U) * dw = (V1 * dw) * U
    BY <1>1, Distribute
  <2>5. (1000 * X) * N = 1000 * (X * N) /\ (999 * cb) * N = 999 * (cb * N)
    BY <1>1, Distribute
  <2> DEFINE vn == v * N
             vd == V1 * dw
  <2>6. vn \in Nat /\ vd \in Nat
    BY <1>1, ProductInNat
  <2>7. X * N \in Nat /\ cb * N \in Nat /\ Y * dw \in Nat /\ vn * U \in Nat /\ vd * U \in Nat
    BY <1>1, <2>6, ProductInNat
  <2> HIDE DEF vn, vd
  <2>8. 1000 * (vn * U) <= 999 * (vd * U)
    BY <1>3, <2>1, <2>2, <2>3, <2>4, <2>5, <2>7 DEF vn, vd
  <2>9. (1000 * vn) * U <= (999 * vd) * U
    BY <2>6, <2>8, Distribute
  <2>10. 1000 * vn <= 999 * vd
    BY <2>6, <2>9, MulCancel
  <2> QED
    BY <2>10 DEF vn, vd
<1>5. (h + 100) * (999 * V1) <= 100000 * N
  <2> DEFINE hV == h * V
  <2>1. hV \in Nat
    BY <1>1, ProductInNat
  <2>2. hV <= 100 * N + 99 * m
    <3>1. (V * q) * m <= (100 * F + 99) * m
      BY ProductInNat, MulMonotone
    <3>2. (V * q) * m = hV
      BY Distribute
    <3>3. (100 * F + 99) * m = (100 * F) * m + 99 * m /\ (100 * F) * m = 100 * N
      BY Distribute
    <3> QED
      BY <3>1, <3>2, <3>3
  <2>3. h >= m
    <3>1. 1 * m <= q * m
      BY MulMonotone
    <3> QED
      BY <3>1
  <2>4. hV >= 1000000 * V
    <3>1. 1000000 * V <= h * V
      BY <1>1, <2>3, MulMonotone
    <3> QED
      BY <3>1
  <2>5. hV >= 1000000 * h
    <3>1. 1000000 * h <= V * h
      BY <1>1, MulMonotone
    <3> QED
      BY <1>1, <3>1, Distribute
  <2>6. (h + 100) * (999 * V1) = 999 * hV + 99900 * V + 999 * h + 99900
    <3>1. (h + 100) * (999 * V1) = h * (999 * V1) + 100 * (999 * V1)
      BY <1>1, Distribute
    <3>2. h * (999 * V1) = 999 * (h * V1) /\ h * V1 = hV + h
      BY <1>1, Distribute
    <3> QED
      BY <1>1, <2>1, <3>1, <3>2
  <2> HIDE DEF hV, h, N
  <2> QED
    BY <1>1, <2>1, <2>2, <2>3, <2>4, <2>5, <2>6
<1>6. (v * (h + 100)) * (999 * V1) <= (100 * dw) * (999 * V1)
  <2> DEFINE vn == v * N
             vd == V1 * dw
  <2>1. vn \in Nat /\ vd \in Nat /\ (h + 100) * (999 * V1) \in Nat
    BY <1>1, ProductInNat
  <2>2. ((h + 100) * (999 * V1)) * v <= (100000 * N) * v
    BY <1>1, <1>5, <2>1, MulMonotone
  <2>3. ((h + 100) * (999 * V1)) * v = (v * (h + 100)) * (999 * V1)
    BY <1>1, Distribute
  <2>4. (100000 * N) * v = 100000 * vn
    BY <1>1, Distribute
  <2>5. (100 * dw) * (999 * V1) = 99900 * vd
    <3>1. (100 * dw) * (999 * V1) = 100 * (dw * (999 * V1))
      BY <1>1, Distribute
    <3>2. dw * (999 * V1) = (999 * V1) * dw /\ (999 * V1) * dw = 999 * vd
      BY <1>1, Distribute
    <3> QED
      BY <2>1, <3>1, <3>2
  <2>6. 1000 * vn <= 999 * vd
    BY <1>4
  <2> HIDE DEF vn, vd, h, N, dw, V1
  <2> QED
    BY <2>1, <2>2, <2>3, <2>4, <2>5, <2>6
<1>7. v * (h + 100) \in Nat /\ 999 * V1 \in Nat \ {0} /\ 100 * dw \in Nat
  BY <1>1, ProductInNat
<1> HIDE DEF h, dw, V1
<1>8. v * (h + 100) <= 100 * dw
  BY <1>6, <1>7, MulCancel
<1> QED
  BY <1>8 DEF h, dw

(* Within two thousandths of b, it is past by less than a hundredth.       *)
LEMMA TargetStops ==
  ASSUME NEW C \in Nat, NEW P \in Nat, NEW U \in Nat \ {0}, NEW D \in Nat, NEW W \in Nat \ {0},
         NEW q \in Nat, NEW m \in Nat, NEW V \in Nat \ {0}, NEW F \in Nat,
         NEW b \in Nat, NEW T \in Nat, NEW v \in Nat,
         V * U <= C * P, C * T <= (v + 1) * U, 100 * F <= V * q,
         (P * D) * W <= (b + 1) * (F * m), 998 * (b + 1) <= 1000 * T,
         q <= 100, m <= W, D >= 1000000
  PROVE  v >= 1000 /\ 10000 * (D * W) <= 101 * ((q * m) * v)
<1> DEFINE N == F * m
           dw == D * W
           X == C * T
           Y == C * P
           h == q * m
           v1 == v + 1
<1>1. N \in Nat /\ dw \in Nat /\ X \in Nat /\ Y \in Nat /\ h \in Nat /\ v1 \in Nat
  BY ProductInNat
<1>2. 998 * (P * dw) <= 1000 * (T * N)
  <2>1. (998 * (b + 1)) * N <= (1000 * T) * N
    BY <1>1, MulMonotone
  <2>2. (998 * (b + 1)) * N = 998 * ((b + 1) * N) /\ (1000 * T) * N = 1000 * (T * N)
    BY <1>1, Distribute
  <2>3. (P * D) * W = P * dw
    BY Distribute
  <2>4. P * dw \in Nat /\ T * N \in Nat /\ (b + 1) * N \in Nat
    BY <1>1, ProductInNat
  <2> HIDE DEF N, dw
  <2> QED
    BY <2>1, <2>2, <2>3, <2>4 DEF N
<1>3. 998 * (Y * dw) <= 10 * ((X * h) * V)
  <2> DEFINE pd == P * dw
             tn == T * N
             tvh == (T * V) * h
  <2>1. pd \in Nat /\ tn \in Nat /\ tvh \in Nat
    BY <1>1, ProductInNat
  <2>2. 100 * tn <= tvh
    <3>1. (100 * F) * m <= (V * q) * m
      BY ProductInNat, MulMonotone
    <3>2. (100 * F) * m = 100 * N /\ (V * q) * m = V * h
      BY Distribute
    <3>3. (100 * N) * T <= (V * h) * T
      BY <1>1, <3>1, <3>2, ProductInNat, MulMonotone
    <3>4. (100 * N) * T = 100 * tn /\ (V * h) * T = tvh
      BY <1>1, Distribute
    <3> QED
      BY <3>3, <3>4
  <2> HIDE DEF tn, pd, tvh
  <2>3. 998 * pd <= 10 * tvh
    BY <1>2, <2>1, <2>2 DEF pd, tn
  <2>4. (998 * pd) * C <= (10 * tvh) * C
    BY <2>1, <2>3, MulMonotone
  <2>5. (998 * pd) * C = 998 * (pd * C) /\ (10 * tvh) * C = 10 * (tvh * C)
    BY <2>1, Distribute
  <2>6. pd * C = Y * dw
    <3>1. (P * dw) * C = (C * P) * dw
      BY <1>1, Distribute
    <3> QED
      BY <3>1 DEF pd
  <2>7. tvh * C = (X * h) * V
    <3>1. ((T * V) * h) * C = C * ((T * V) * h)
      BY <1>1, ProductInNat, Distribute
    <3>2. C * ((T * V) * h) = (C * T) * (V * h) /\ (C * T) * (V * h) = (X * h) * V
      BY <1>1, Distribute
    <3> QED
      BY <3>1, <3>2 DEF tvh
  <2> QED
    BY <2>4, <2>5, <2>6, <2>7
<1>4. 998 * dw <= 10 * (v1 * h)
  <2>1. (V * U) * dw <= Y * dw
    BY <1>1, ProductInNat, MulMonotone
  <2>2. (V * U) * dw = (U * dw) * V
    BY <1>1, Distribute
  <2>3. X * h <= (v1 * U) * h
    BY <1>1, ProductInNat, MulMonotone
  <2>4. (X * h) * V <= ((v1 * U) * h) * V
    BY <1>1, <2>3, ProductInNat, MulMonotone
  <2>5. (v1 * U) * h = (v1 * h) * U
    BY <1>1, Distribute
  <2> DEFINE ud == U * dw
             uvh == (v1 * h) * U
  <2>6. ud \in Nat /\ uvh \in Nat /\ v1 * h \in Nat
    BY <1>1, ProductInNat
  <2>7. ud * V \in Nat /\ uvh * V \in Nat /\ Y * dw \in Nat /\ (X * h) * V \in Nat
    BY <1>1, <2>6, ProductInNat
  <2> HIDE DEF ud, uvh
  <2>8. 998 * (ud * V) <= 10 * (uvh * V)
    BY <1>3, <2>1, <2>2, <2>4, <2>5, <2>7 DEF ud, uvh
  <2>9. (998 * ud) * V <= (10 * uvh) * V
    BY <2>6, <2>8, Distribute
  <2>10. 998 * ud <= 10 * uvh
    BY <2>6, <2>9, MulCancel
  <2>11. (998 * dw) * U <= (10 * (v1 * h)) * U
    <3>1. (998 * dw) * U = 998 * ud
      BY <1>1, Distribute DEF ud
    <3>2. (10 * (v1 * h)) * U = 10 * uvh
      BY <1>1, <2>6, Distribute DEF uvh
    <3> QED
      BY <2>10, <3>1, <3>2
  <2> QED
    BY <1>1, <2>6, <2>11, MulCancel
<1>5. v >= 1000
  <2>1. h <= 100 * W
    <3>1. q * m <= 100 * m
      BY MulMonotone
    <3> QED
      BY <3>1
  <2>2. h * v1 <= (100 * W) * v1
    BY <1>1, <2>1, MulMonotone
  <2>3. h * v1 = v1 * h /\ (100 * W) * v1 = 100 * (v1 * W)
    BY <1>1, Distribute
  <2>4. v1 * h \in Nat /\ v1 * W \in Nat
    BY <1>1, ProductInNat
  <2> HIDE DEF h, v1, dw
  <2>5. 998 * dw <= 1000 * (v1 * W)
    BY <1>1, <1>4, <2>2, <2>3, <2>4
  <2>6. (998 * D) * W <= (1000 * v1) * W
    BY <1>1, <2>5, Distribute DEF dw
  <2>7. 998 * D <= 1000 * v1
    BY <1>1, <2>6, MulCancel
  <2> QED
    BY <2>7 DEF v1
<1>6. 10000 * dw <= 101 * (h * v)
  <2>1. v1 * h = h * v + h
    BY <1>1, Distribute
  <2>2. 1000 * h <= v * h
    BY <1>1, <1>5, MulMonotone
  <2>3. v * h = h * v /\ h * v \in Nat
    BY <1>1, Distribute, ProductInNat
  <2> HIDE DEF h, v1, dw
  <2> QED
    BY <1>1, <1>4, <2>1, <2>2, <2>3
<1> QED
  BY <1>5, <1>6

-----------------------------------------------------------------------------
(* What the program makes of a price.                                      *)

(* The part h of a deposit's value v, in percents and in WADs, is passed   *)
(* by a debt D, or is not passed by more than a hundredth; it is a step    *)
(* below another part.                                                     *)
Passed(v, D, h) == v * (h + 100) <= 100 * (D * WAD)

Stopped(v, D, h) == 10000 * (D * WAD) <= 101 * (h * v)

StepBelow(h, k) == 101 * h + 11 * WAD <= 100 * k

(* The part m of the ratio of pct percents of a value to it, as computed.  *)
ThresholdOf(v, pct, m) == Scaled(MulDiv(FloorDiv(v * pct, 100), WAD, v), m)

(* A debt past its part of the limit is over the threshold ...             *)
LEMMA PassedIsOver ==
  ASSUME NEW v \in Nat \ {0}, NEW D \in Nat, NEW pct \in Nat, NEW m \in Nat,
         Passed(v, D, pct * m),
         NEW ltv \in MulDiv(D, WAD, v),
         NEW threshold \in ThresholdOf(v, pct, m)
  PROVE  ltv \in Nat /\ threshold \in Nat /\ ltv > threshold
<1> DEFINE h == pct * m
           dw == D * WAD
<1>1. WAD \in Nat \ {0} /\ h \in Nat /\ dw \in Nat
  BY MultipliersAreNat, ProductInNat
<1>2. ltv \in Nat /\ dw < (ltv + 1) * v
  BY <1>1, MulDivBounds
<1>3. threshold \in Nat /\ 100 * threshold <= h
  BY ScaledBounds DEF ThresholdOf
<1>4. v * (h + 100) <= 100 * dw
  BY DEF Passed
<1>5. (h + 100) * v < (100 * (ltv + 1)) * v
  <2>1. (h + 100) * v = v * (h + 100) /\ (100 * (ltv + 1)) * v = 100 * ((ltv + 1) * v)
    BY <1>1, <1>2, Distribute
  <2>2. (ltv + 1) * v \in Nat
    BY <1>2, ProductInNat
  <2> HIDE DEF h, dw
  <2> QED
    BY <1>1, <1>2, <1>4, <2>1, <2>2 DEF h, dw
<1>6. ~(100 * (ltv + 1) <= h + 100)
  <2> SUFFICES ASSUME 100 * (ltv + 1) <= h + 100 PROVE FALSE
    OBVIOUS
  <2>1. (100 * (ltv + 1)) * v <= (h + 100) * v
    BY <1>1, <1>2, MulMonotone
  <2>2. (100 * (ltv + 1)) * v \in Nat /\ (h + 100) * v \in Nat
    BY <1>1, <1>2, ProductInNat
  <2> QED
    BY <1>5, <2>1, <2>2
<1> HIDE DEF h, dw
<1> QED
  BY <1>1, <1>2, <1>3, <1>6

(* ... and one past it by less than a hundredth is under the next one.     *)
LEMMA StoppedIsUnder ==
  ASSUME NEW v \in Nat, v >= 1000, NEW D \in Nat, NEW h \in Nat,
         Stopped(v, D, h),
         NEW pct \in Nat, NEW m \in Nat, m <= WAD, WAD >= 1000000,
         StepBelow(h, pct * m),
         NEW ltv \in MulDiv(D, WAD, v),
         NEW threshold \in ThresholdOf(v, pct, m)
  PROVE  ltv \in Nat /\ threshold \in Nat /\ ltv < threshold
<1> DEFINE W == WAD
           k == pct * m
           dw == D * W
           wv == W * v
<1>1. W \in Nat \ {0} /\ k \in Nat /\ dw \in Nat /\ wv \in Nat
  BY MultipliersAreNat, ProductInNat
<1>2. ltv \in Nat /\ ltv * v <= dw
  BY <1>1, MulDivBounds
<1>3. /\ threshold \in Nat
      /\ k * wv <= 100 * ((threshold + 1) * wv) + 100 * (m * v) + 100 * (m * W)
  BY ScaledBounds DEF ThresholdOf
<1>4. 10000 * dw <= 101 * (h * v)
  BY DEF Stopped
<1>5. 10000 * ltv <= 101 * h
  <2>1. (10000 * ltv) * v = 10000 * (ltv * v) /\ (101 * h) * v = 101 * (h * v)
    BY <1>2, Distribute
  <2>2. ltv * v \in Nat /\ h * v \in Nat
    BY <1>2, ProductInNat
  <2> HIDE DEF dw
  <2>3. (10000 * ltv) * v <= (101 * h) * v
    BY <1>1, <1>2, <1>4, <2>1, <2>2 DEF dw
  <2> QED
    BY <1>2, <2>3, MulCancel
<1>6. 10 * k <= 1000 * (threshold + 1) + 1000 + W
  <2>1. m * v <= wv
    BY <1>1, MulMonotone
  <2>2. 1000 * (m * W) <= W * wv
    <3>1. m * W <= W * W
      BY <1>1, MulMonotone
    <3>2. (1000 * W) * W <= (v * W) * W
      <4>1. 1000 * W <= v * W
        BY <1>1, MulMonotone
      <4> QED
        BY <1>1, <4>1, ProductInNat, MulMonotone
    <3>3. (1000 * W) * W = 1000 * (W * W) /\ (v * W) * W = W * wv
      BY <1>1, Distribute
    <3> DEFINE sq == W * W
               mw == m * W
               big == W * wv
    <3>4. sq \in Nat /\ mw \in Nat /\ big \in Nat
      BY <1>1, ProductInNat
    <3>5. mw <= sq /\ 1000 * sq <= big
      BY <3>1, <3>2, <3>3
    <3> HIDE DEF sq, mw, big
    <3>6. 1000 * mw <= big
      BY <3>4, <3>5
    <3> QED
      BY <3>6 DEF mw, big
  <2> DEFINE kw == k * wv
             tw == (threshold + 1) * wv
             mv == m * v
             mW == m * W
             ww == W * wv
  <2>3. kw \in Nat /\ tw \in Nat /\ mv \in Nat /\ mW \in Nat /\ ww \in Nat
    BY <1>1, <1>3, ProductInNat
  <2>4. kw <= 100 * tw + 100 * mv + 100 * mW /\ mv <= wv /\ 1000 * mW <= ww
    BY <1>3, <2>1, <2>2
  <2> HIDE DEF kw, tw, mv, mW, ww, wv
  <2>5. 10 * kw <= 1000 * tw + 1000 * wv + ww
    BY <1>1, <2>3, <2>4
  <2>6. (10 * k) * wv <= (1000 * (threshold + 1) + 1000 + W) * wv
    <3>1. (10 * k) * wv = 10 * kw
      BY <1>1, Distribute DEF kw
    <3>2. (1000 * (threshold + 1) + 1000 + W) * wv
            = (1000 * (threshold + 1) + 1000) * wv + W * wv
      BY <1>1, <1>3, Distribute
    <3>3. (1000 * (threshold + 1) + 1000) * wv = (1000 * (threshold + 1)) * wv + 1000 * wv
      BY <1>1, <1>3, Distribute
    <3>4. (1000 * (threshold + 1)) * wv = 1000 * tw
      BY <1>1, <1>3, Distribute DEF tw
    <3> QED
      BY <2>5, <3>1, <3>2, <3>3, <3>4 DEF ww
  <2>7. wv # 0
    BY <1>1 DEF wv
  <2>8. wv \in Nat \ {0} /\ 10 * k \in Nat /\ 1000 * (threshold + 1) + 1000 + W \in Nat
    BY <1>1, <1>3, <2>7
  <2> HIDE DEF k, W
  <2> QED
    BY <2>6, <2>8, MulCancel
<1> HIDE DEF k
<1>7. 101 * h + 11 * W <= 100 * k /\ W >= 1000000
  BY DEF k, StepBelow
<1> QED
  BY <1>1, <1>2, <1>3, <1>5, <1>6, <1>7

(* What the stages need of the constants: values in WADs fit, an amount    *)
(* computed from one fits in a u64 ...                                     *)
IntegersOfStages ==
  /\ WAD >= 25000000000000
  /\ TOKEN_PRECISION <= WAD /\ WAD * WAD <= U128_MAX
  /\ 2000 * (U128_MAX * TOKEN_PRECISION) <= U64_MAX * (WAD * WAD)

(* ... and a step of a thousandth fits between the thresholds.             *)
RoomForSteps ==
  /\ IntegersOfStages
  /\ WithdrawingMultiplier > 0
  /\ InsuringMultiplier >= 1000000 /\ LiquidationMultiplier >= 1000000
  /\ StepBelow(LtvPct * WithdrawingMultiplier, LtvPct * InsuringMultiplier)
  /\ StepBelow(LtvPct * InsuringMultiplier, LiquidationPct * LiquidationMultiplier)
  /\ 101 * (LiquidationPct * LiquidationMultiplier) <= 8500 * WAD

(* An amount worth no more than a deposit that the program can compute     *)
(* fits in a u64, at a price that the simulation sets.                     *)
LEMMA AmountFits ==
  ASSUME RoomForSteps, NEW v \in Nat, v * WAD <= U128_MAX,
         NEW x \in Nat, x <= v, NEW price \in Nat, price >= MIN_PRICE_SF
  PROVE  UNION {U64(amount) : amount \in MulDiv(x, TOKEN_PRECISION, price)} # {}
<1> DEFINE W == WAD
           t == TOKEN_PRECISION
           n == x * t
           a == FloorDiv(n, price)
<1>1. /\ W \in Nat \ {0} /\ t \in Nat \ {0} /\ U64_MAX \in Nat /\ U128_MAX \in Nat
      /\ W >= 25000000000000 /\ t <= W
      /\ 2000 * (U128_MAX * t) <= U64_MAX * (W * W)
  BY ScaleAssumption, WidthAssumption DEF RoomForSteps, IntegersOfStages
<1>2. 2000 * price >= W
  <2> DEFINE least == W \div 1000
  <2>1. least \in Nat /\ 1000 * least > W - 1000 /\ price >= least
    <3> HIDE DEF W
    <3>1. least \in Nat /\ 1000 * least > W - 1000
      BY <1>1
    <3> QED
      BY <3>1 DEF MIN_PRICE_SF, W
  <2> HIDE DEF least, W
  <2> QED
    BY <1>1, <2>1
<1> HIDE DEF W, t
<1>3. n \in Nat /\ n <= U128_MAX
  <2>1. x * t <= v * t /\ t * v <= W * v
    BY <1>1, MulMonotone
  <2>2. t * v = v * t /\ W * v = v * W
    BY <1>1, Distribute
  <2>3. x * t \in Nat /\ v * t \in Nat /\ v * W \in Nat
    BY <1>1, ProductInNat
  <2> QED
    BY <1>1, <2>1, <2>2, <2>3 DEF W
<1>4. a \in Nat /\ a * price <= n
  <2>1. price \in Nat \ {0}
    BY <1>1, <1>2
  <2> QED
    BY <1>3, <2>1, DivBounds
<1> DEFINE ww == W * W
           vw == v * W
<1>5. (2000 * n) * W <= U64_MAX * ww
  <2>1. n * W <= U128_MAX * t
    <3>1. n * W = (x * W) * t
      BY <1>1, Distribute
    <3>2. x * W <= U128_MAX
      <4>1. x * W <= v * W
        BY <1>1, MulMonotone
      <4> QED
        BY <1>1, <4>1, ProductInNat DEF W
    <3> QED
      BY <1>1, <3>1, <3>2, ProductInNat, MulMonotone
  <2>2. (2000 * n) * W = 2000 * (n * W)
    BY <1>1, <1>3, Distribute
  <2>3. n * W \in Nat /\ U128_MAX * t \in Nat
    BY <1>1, <1>3, ProductInNat
  <2> HIDE DEF n
  <2> QED
    BY <1>1, <2>1, <2>2, <2>3
<1>6. 2000 * n <= U64_MAX * W
  <2>1. U64_MAX * ww = (U64_MAX * W) * W
    BY <1>1, Distribute
  <2>2. 2000 * n \in Nat /\ U64_MAX * W \in Nat
    BY <1>1, <1>3, ProductInNat
  <2> HIDE DEF n
  <2> QED
    BY <1>1, <1>5, <2>1, <2>2, MulCancel
<1>7. a <= U64_MAX
  <2>1. W * a <= (2000 * price) * a
    BY <1>1, <1>2, <1>4, MulMonotone
  <2>2. (2000 * price) * a = 2000 * (a * price) /\ W * a = a * W
    BY <1>1, <1>4, Distribute
  <2>3. a * price \in Nat /\ a * W \in Nat /\ U64_MAX * W \in Nat
    BY <1>1, <1>4, ProductInNat
  <2> HIDE DEF a, n
  <2>4. a * W <= U64_MAX * W
    BY <1>3, <1>4, <1>6, <2>1, <2>2, <2>3
  <2> QED
    BY <1>1, <1>4, <2>4, MulCancel
<1>8. price # 0
  BY <1>1, <1>2
<1>9. a \in MulDiv(x, t, price)
  BY <1>3, <1>8 DEF MulDiv, U128
<1>10. a \in U64(a)
  BY <1>1, <1>4, <1>7 DEF U64
<1> QED
  BY <1>9, <1>10 DEF t

(* A deposit's value at a price, and what market and program make of it.   *)
ValueAt(p, price) == FloorDiv(collateral[p] * price, UnitsPerToken)

LEMMA AtPrice ==
  ASSUME NEW p, NEW price
  PROVE  /\ MarketAt(price)!DepositedValue(p) = ValueAt(p, price)
         /\ FetchRisk(p, price).debt = debt[p]
         /\ FetchRisk(p, price).deposited = ValueAt(p, price)
         /\ FetchRisk(p, price).allowed = FloorDiv(ValueAt(p, price) * LtvPct, 100)
         /\ FetchRisk(p, price).unhealthy = FloorDiv(ValueAt(p, price) * LiquidationPct, 100)
<1>1. MarketAt(price)!DepositedValue(p) = ValueAt(p, price)
  BY DEF MarketAt!DepositedValue, MarketAt!FloorDiv, ValueAt, FloorDiv
<1>2. MarketAt(price)!AllowedBorrow(p) = FloorDiv(ValueAt(p, price) * LtvPct, 100)
  BY <1>1 DEF MarketAt!AllowedBorrow, MarketAt!FloorDiv, FloorDiv
<1>3. MarketAt(price)!UnhealthyBorrow(p) = FloorDiv(ValueAt(p, price) * LiquidationPct, 100)
  BY <1>1 DEF MarketAt!UnhealthyBorrow, MarketAt!FloorDiv, FloorDiv
<1> QED
  BY <1>1, <1>2, <1>3 DEF FetchRisk

UnsafeAt(p, price) ==
  LET value == ValueAt(p, price)
  IN  \E ltv \in CurrentLtv(debt[p], value),
         insuring \in InsuringLtv(FloorDiv(value * LtvPct, 100), value) : ltv > insuring

LiquidatableAt(p, price) ==
  LET value == ValueAt(p, price)
  IN  \E ltv \in CurrentLtv(debt[p], value),
         threshold \in LiquidationLtv(FloorDiv(value * LiquidationPct, 100), value) :
           ltv >= threshold

LEMMA ProgramAtPrice ==
  ASSUME NEW p, NEW price
  PROVE  /\ ProgramAt(price)!UnsafePosition(p) <=> UnsafeAt(p, price)
         /\ ProgramAt(price)!Liquidatable(p) <=> LiquidatableAt(p, price)
<1>1. ProgramAt(price)!DepositedValue(p) = ValueAt(p, price)
  BY DEF ProgramAt!DepositedValue, ProgramAt!FloorDiv, ValueAt, FloorDiv
<1>2. ProgramAt(price)!AllowedBorrow(p) = FloorDiv(ValueAt(p, price) * LtvPct, 100)
  BY <1>1 DEF ProgramAt!AllowedBorrow, ProgramAt!FloorDiv, FloorDiv
<1>3. ProgramAt(price)!UnhealthyBorrow(p) = FloorDiv(ValueAt(p, price) * LiquidationPct, 100)
  BY <1>1 DEF ProgramAt!UnhealthyBorrow, ProgramAt!FloorDiv, FloorDiv
<1>4. \A a, b, d : ProgramAt(price)!MulDiv(a, b, d) = MulDiv(a, b, d)
  BY DEF ProgramAt!MulDiv, MulDiv, ProgramAt!FloorDiv, FloorDiv, ProgramAt!U128, U128
<1>5. \A a, b : ProgramAt(price)!CurrentLtv(a, b) = CurrentLtv(a, b)
  BY <1>4 DEF ProgramAt!CurrentLtv, CurrentLtv
<1>6. \A a, b : /\ ProgramAt(price)!InsuringLtv(a, b) = InsuringLtv(a, b)
                /\ ProgramAt(price)!LiquidationLtv(a, b) = LiquidationLtv(a, b)
  BY <1>4 DEF ProgramAt!InsuringLtv, InsuringLtv, ProgramAt!LiquidationLtv, LiquidationLtv,
              ProgramAt!Scaled, Scaled
<1>7. ProgramAt(price)!UnsafePosition(p) <=> UnsafeAt(p, price)
  BY <1>1, <1>2, <1>5, <1>6 DEF ProgramAt!UnsafePosition, UnsafeAt
<1>8. ProgramAt(price)!Liquidatable(p) <=> LiquidatableAt(p, price)
  BY <1>1, <1>3, <1>5, <1>6 DEF ProgramAt!Liquidatable, LiquidatableAt
<1> QED
  BY <1>7, <1>8

(* Prices that the simulation does not clamp.                              *)
LEMMA LeastPrice ==
  ASSUME RoomForSteps
  PROVE  MIN_PRICE_SF \in Nat /\ MIN_PRICE_SF >= 25000000000
<1> DEFINE w == WAD
<1>1. w \in Nat /\ w >= 25000000000000
  BY ScaleAssumption, WidthAssumption DEF RoomForSteps, IntegersOfStages
<1> HIDE DEF w
<1>2. w \div 1000 \in Nat /\ w \div 1000 >= 25000000000
  BY <1>1
<1> QED
  BY <1>2 DEF MIN_PRICE_SF, w

LEMMA TopPrice ==
  ASSUME NEW price \in Nat
  PROVE  PartOf(price, 200000) = 20 * price
BY DEF PartOf

LEMMA TargetBelow ==
  ASSUME RoomForSteps, NEW b \in Nat, NEW P \in Nat \ {0}, NEW T,
         T = ClampPrice(Below(b), P), MIN_PRICE_SF < T, T < PartOf(P, 200000)
  PROVE  /\ T \in Nat /\ 1000 * T <= 999 * b /\ 998 * (b + 1) <= 1000 * T
         /\ b + 1 <= 25 * P
<1> DEFINE e == b \div 1000
<1>1. e \in Nat /\ 1000 * e <= b /\ b < 1000 * (e + 1)
  OBVIOUS
<1>2. MIN_PRICE_SF \in Nat /\ MIN_PRICE_SF >= 25000000000 /\ PartOf(P, 200000) = 20 * P
  BY LeastPrice, TopPrice
<1>3. Below(b) \in Nat /\ T = Below(b)
  BY <1>1, <1>2 DEF ClampPrice, Below, Epsilon
<1>4. T = b - (e + 1) /\ b > e + 1
  BY <1>2, <1>3 DEF Below, Epsilon
<1> HIDE DEF e
<1> QED
  BY <1>1, <1>2, <1>3, <1>4

LEMMA TargetAbove ==
  ASSUME RoomForSteps, NEW b \in Nat, NEW P \in Nat \ {0}, NEW T,
         T = ClampPrice(Above(b), P), MIN_PRICE_SF < T, T < PartOf(P, 200000)
  PROVE  T \in Nat /\ 998 * (b + 1) <= 1000 * T /\ b + 1 <= 25 * P
<1> DEFINE e == b \div 1000
<1>1. e \in Nat /\ 1000 * e <= b /\ b < 1000 * (e + 1)
  OBVIOUS
<1>2. MIN_PRICE_SF \in Nat /\ PartOf(P, 200000) = 20 * P
  BY LeastPrice, TopPrice
<1>3. Above(b) = b + e + 1
  BY <1>1 DEF Above, Epsilon
<1>4. T = Above(b)
  BY <1>1, <1>2, <1>3 DEF ClampPrice
<1> HIDE DEF e
<1> QED
  BY <1>1, <1>2, <1>3, <1>4

-----------------------------------------------------------------------------
(* From a position to its targets.                                         *)

LEMMA FloorBounds ==
  ASSUME NEW n \in Nat, NEW d \in Nat \ {0}
  PROVE  /\ FloorDiv(n, d) \in Nat
         /\ FloorDiv(n, d) * d <= n
         /\ n <= (FloorDiv(n, d) + 1) * d
  BY DEF FloorDiv

LEMMA ValueBounds ==
  ASSUME CushionInv, NEW p \in Positions, NEW price \in Nat
  PROVE  /\ ValueAt(p, price) \in Nat
         /\ ValueAt(p, price) * UnitsPerToken <= collateral[p] * price
         /\ collateral[p] * price <= (ValueAt(p, price) + 1) * UnitsPerToken
<1>1. collateral[p] \in Nat /\ UnitsPerToken \in Nat \ {0}
  BY MarketAssumption DEF CushionInv, PositionInv
<1>2. collateral[p] * price \in Nat
  BY <1>1, ProductInNat
<1> QED
  BY <1>1, <1>2, FloorBounds DEF ValueAt

(* What is known of a limit and of the price at which the debt is a part   *)
(* of it.                                                                  *)
AtBoundary(V, q, m, P, D, F, b) ==
  /\ F \in Nat \ {0} /\ 100 * F <= V * q /\ V * q <= 100 * F + 99
  /\ b \in Nat
  /\ b * (F * m) <= (P * D) * WAD
  /\ (P * D) * WAD <= (b + 1) * (F * m)
  /\ V \in Nat \ {0} /\ q \in Nat \ {0}

LEMMA BoundaryBounds ==
  ASSUME NEW V \in Nat, NEW q \in Nat, NEW m \in Nat \ {0},
         NEW P \in Nat, NEW D \in Nat, NEW F, F = FloorDiv(V * q, 100), F # 0
  PROVE  AtBoundary(V, q, m, P, D, F, Boundary(P, D, F, m))
<1> DEFINE b == Boundary(P, D, F, m)
           N == F * m
           pdw == (P * D) * WAD
           n == V * q
<1>1. n \in Nat
  BY ProductInNat
<1>2. F \in Nat \ {0} /\ 100 * F <= n /\ n <= 100 * F + 99
  <2> HIDE DEF n
  <2>1. n \div 100 \in Nat /\ 100 * (n \div 100) <= n /\ n <= 100 * (n \div 100) + 99
    BY <1>1
  <2> QED
    BY <2>1 DEF FloorDiv, n
<1>3. pdw \in Nat
  BY MultipliersAreNat, ProductInNat
<1>4. N \in Nat \ {0}
  <2>1. N \in Nat
    BY <1>2, ProductInNat
  <2>2. 1 * m <= F * m
    BY <1>2, MulMonotone
  <2> QED
    BY <2>1, <2>2
<1> HIDE DEF N, pdw
<1>5. FloorDiv(pdw, N) \in Nat /\ FloorDiv(pdw, N) * N <= pdw /\ pdw <= (FloorDiv(pdw, N) + 1) * N
  BY <1>3, <1>4, FloorBounds
<1>6. b = FloorDiv(pdw, N)
  BY DEF Boundary, FloorDiv, pdw, N
<1>7. V # 0 /\ q # 0
  <2>1. n # 0
    BY <1>2
  <2> QED
    BY <2>1
<1> HIDE DEF b, n
<1> QED
  BY <1>2, <1>5, <1>6, <1>7 DEF N, pdw, n, b, AtBoundary

(* A deposit against which the target is no more than twenty times the     *)
(* price is not small.                                                     *)
LEMMA DepositIsLarge ==
  ASSUME NEW V \in Nat, NEW q \in Nat, q <= 100, NEW W \in Nat \ {0}, NEW m \in Nat, m <= W,
         NEW P \in Nat \ {0}, NEW D \in Nat, D >= 25000000, NEW F \in Nat, NEW b \in Nat,
         100 * F <= V * q, (P * D) * W <= (b + 1) * (F * m), b + 1 <= 25 * P
  PROVE  V >= 1000000
<1> DEFINE N == F * m
           pw == P * W
<1>1. N \in Nat /\ F * W \in Nat /\ pw \in Nat \ {0}
  BY ProductInNat
<1>2. (b + 1) * N <= (25 * P) * N
  BY <1>1, MulMonotone
<1>3. N * P <= (F * W) * P
  <2>1. m * F <= W * F
    BY MulMonotone
  <2> QED
    BY <1>1, <2>1, ProductInNat, MulMonotone, Distribute
<1>4. D * pw <= (25 * F) * pw
  <2>1. (25 * P) * N = 25 * (N * P)
    BY <1>1, Distribute
  <2>2. (F * W) * P = F * pw
    BY Distribute
  <2>3. (P * D) * W = D * pw /\ (25 * F) * pw = 25 * (F * pw)
    BY <1>1, Distribute
  <2>4. N * P \in Nat /\ F * pw \in Nat /\ D * pw \in Nat /\ (b + 1) * N \in Nat
    BY <1>1, ProductInNat
  <2> HIDE DEF N, pw
  <2> QED
    BY <1>2, <1>3, <2>1, <2>2, <2>3, <2>4 DEF N
<1>5. D <= 25 * F
  BY <1>1, <1>4, MulCancel
<1>6. V * q <= 100 * V
  <2>1. q * V <= 100 * V
    BY MulMonotone
  <2> QED
    BY <2>1, Distribute
<1> QED
  BY <1>5, <1>6, ProductInNat

(* What a target below its boundary does to a position.                    *)
LEMMA BelowTarget ==
  ASSUME CushionInv, RoomForSteps, NEW p \in Positions, NEW q \in Nat, q <= 100,
         NEW m \in Nat, m >= 1000000, m <= WAD,
         NEW F, F = FloorDiv(ValueAt(p, reservePrice) * q, 100), F # 0, NEW T,
         T = ClampPrice(Below(Boundary(reservePrice, debt[p], F, m)), reservePrice),
         Promised(p, T)
  PROVE  /\ T \in Nat /\ ValueAt(p, T) \in Nat /\ ValueAt(p, T) >= 1000
         /\ Passed(ValueAt(p, T), debt[p], q * m)
         /\ Stopped(ValueAt(p, T), debt[p], q * m)
<1> DEFINE P == reservePrice
           V == ValueAt(p, P)
           b == Boundary(P, debt[p], F, m)
           D == debt[p]
           W == WAD
           C == collateral[p]
           U == UnitsPerToken
           v == ValueAt(p, T)
<1>1. P \in Nat \ {0} /\ D \in Nat /\ C \in Nat /\ U \in Nat \ {0} /\ W \in Nat \ {0}
  BY MarketAssumption, MultipliersAreNat DEF CushionInv, PositionInv, MarketInv
<1>2. D >= 25000000
  <2>1. W >= 25000000000000 /\ D >= W \div 1000000
    BY DEF RoomForSteps, IntegersOfStages, Promised
  <2> HIDE DEF W, D
  <2>2. W \div 1000000 \in Nat /\ W \div 1000000 >= 25000000
    BY <1>1, <2>1
  <2> QED
    BY <1>1, <2>1, <2>2
<1>3. V \in Nat /\ V * U <= C * P /\ C * P <= (V + 1) * U
  BY <1>1, ValueBounds
<1>4. /\ F \in Nat \ {0} /\ 100 * F <= V * q /\ V * q <= 100 * F + 99
      /\ b \in Nat /\ b * (F * m) <= (P * D) * W /\ (P * D) * W <= (b + 1) * (F * m)
      /\ V \in Nat \ {0} /\ q \in Nat \ {0}
  <2>1. m \in Nat \ {0} /\ F = FloorDiv(V * q, 100) /\ b = Boundary(P, D, F, m)
    OBVIOUS
  <2>2. V \in Nat /\ P \in Nat /\ D \in Nat
    BY <1>1, <1>3
  <2> HIDE DEF b, V, D, P, W
  <2>3. AtBoundary(V, q, m, P, D, F, Boundary(P, D, F, m))
    BY <2>1, <2>2, BoundaryBounds
  <2> QED
    BY <2>1, <2>3 DEF W, AtBoundary
<1> HIDE DEF b, V
<1>5. T \in Nat /\ 1000 * T <= 999 * b /\ 998 * (b + 1) <= 1000 * T /\ b + 1 <= 25 * P
  BY <1>1, <1>4, TargetBelow DEF Promised, b
<1>6. v \in Nat /\ v * U <= C * T /\ C * T <= (v + 1) * U
  BY <1>5, ValueBounds
<1> HIDE DEF v, C, D, U, P, W
<1>7. m <= W /\ q <= 100
  BY DEF W
<1>8. V >= 1000000
  BY <1>1, <1>2, <1>4, <1>5, <1>7, DepositIsLarge
<1>9. v * (q * m + 100) <= 100 * (D * W)
  BY <1>1, <1>3, <1>4, <1>5, <1>6, <1>8, TargetPasses
<1>10. v >= 1000 /\ 10000 * (D * W) <= 101 * ((q * m) * v)
  <2>1. D >= 1000000
    BY <1>1, <1>2
  <2> QED
    BY <1>1, <1>3, <1>4, <1>5, <1>6, <1>7, <2>1, TargetStops
<1> QED
  BY <1>5, <1>6, <1>9, <1>10 DEF v, D, W, Passed, Stopped

(* And one above it.                                                       *)
LEMMA AboveTarget ==
  ASSUME CushionInv, RoomForSteps, NEW p \in Positions, NEW q \in Nat, q <= 100,
         NEW m \in Nat \ {0}, m <= WAD,
         NEW F, F = FloorDiv(ValueAt(p, reservePrice) * q, 100), F # 0, NEW T,
         T = ClampPrice(Above(Boundary(reservePrice, debt[p], F, m)), reservePrice),
         Promised(p, T)
  PROVE  /\ T \in Nat /\ ValueAt(p, T) \in Nat /\ ValueAt(p, T) >= 1000
         /\ Stopped(ValueAt(p, T), debt[p], q * m)
<1> DEFINE P == reservePrice
           V == ValueAt(p, P)
           b == Boundary(P, debt[p], F, m)
           D == debt[p]
           W == WAD
           C == collateral[p]
           U == UnitsPerToken
           v == ValueAt(p, T)
<1>1. P \in Nat \ {0} /\ D \in Nat /\ C \in Nat /\ U \in Nat \ {0} /\ W \in Nat \ {0}
  BY MarketAssumption, MultipliersAreNat DEF CushionInv, PositionInv, MarketInv
<1>2. D >= 1000000
  <2>1. W >= 25000000000000 /\ D >= W \div 1000000
    BY DEF RoomForSteps, IntegersOfStages, Promised
  <2> HIDE DEF W, D
  <2>2. W \div 1000000 \in Nat /\ W \div 1000000 >= 25000000
    BY <1>1, <2>1
  <2> QED
    BY <1>1, <2>1, <2>2
<1>3. V \in Nat /\ V * U <= C * P /\ C * P <= (V + 1) * U
  BY <1>1, ValueBounds
<1>4. /\ F \in Nat \ {0} /\ 100 * F <= V * q
      /\ b \in Nat /\ (P * D) * W <= (b + 1) * (F * m)
      /\ V \in Nat \ {0}
  <2>1. F = FloorDiv(V * q, 100) /\ b = Boundary(P, D, F, m)
    OBVIOUS
  <2>2. V \in Nat /\ P \in Nat /\ D \in Nat
    BY <1>1, <1>3
  <2> HIDE DEF b, V, D, P, W
  <2>3. AtBoundary(V, q, m, P, D, F, Boundary(P, D, F, m))
    BY <2>1, <2>2, BoundaryBounds
  <2> QED
    BY <2>1, <2>3 DEF W, AtBoundary
<1> HIDE DEF b, V
<1>5. T \in Nat /\ 998 * (b + 1) <= 1000 * T
  BY <1>1, <1>4, TargetAbove DEF Promised, b
<1>6. v \in Nat /\ C * T <= (v + 1) * U
  BY <1>5, ValueBounds
<1> HIDE DEF v, C, D, U, P, W
<1>7. m <= W /\ q <= 100
  BY DEF W
<1>8. v >= 1000 /\ 10000 * (D * W) <= 101 * ((q * m) * v)
  BY <1>1, <1>2, <1>3, <1>4, <1>5, <1>6, <1>7, TargetStops
<1> QED
  BY <1>5, <1>6, <1>8 DEF v, D, W, Passed, Stopped

-----------------------------------------------------------------------------
(* What the program can compute.                                           *)

LEMMA Computes ==
  ASSUME NEW a \in Nat, NEW b \in Nat, NEW d \in Nat \ {0}, a * b <= U128_MAX
  PROVE  FloorDiv(a * b, d) \in MulDiv(a, b, d)
<1>1. a * b \in Nat
  BY ProductInNat
<1> QED
  BY <1>1 DEF MulDiv, U128

(* A part of what fits fits, and is no more than it.                       *)
Fits(v) == v * WAD <= U128_MAX

PartOfWhole(x, r, v, d) ==
  /\ MulDiv(x, r, d) # {}
  /\ \A y \in MulDiv(x, r, d) : y \in Nat /\ y * d <= v * WAD

LEMMA PartComputes ==
  ASSUME NEW x \in Nat, NEW v \in Nat, x <= v, NEW r \in Nat, r <= WAD, Fits(v),
         NEW d \in Nat \ {0}
  PROVE  PartOfWhole(x, r, v, d)
<1>1. WAD \in Nat
  BY MultipliersAreNat
<1>2. x * r <= v * WAD
  <2>1. x * r <= v * r
    BY MulMonotone
  <2>2. r * v <= WAD * v
    BY <1>1, MulMonotone
  <2>3. r * v = v * r /\ WAD * v = v * WAD
    BY <1>1, Distribute
  <2>4. x * r \in Nat /\ v * r \in Nat /\ v * WAD \in Nat
    BY <1>1, ProductInNat
  <2> QED
    BY <2>1, <2>2, <2>3, <2>4
<1>3. x * r \in Nat /\ v * WAD \in Nat /\ U128_MAX \in Nat
  BY <1>1, ProductInNat, WidthAssumption
<1>4. FloorDiv(x * r, d) \in MulDiv(x, r, d)
  BY <1>2, <1>3, Computes DEF Fits
<1>5. ASSUME NEW y \in MulDiv(x, r, d)
      PROVE  y \in Nat /\ y * d <= v * WAD
  <2>1. y \in Nat /\ y * d <= x * r
    BY MulDivBounds
  <2>2. y * d \in Nat
    BY <2>1, ProductInNat
  <2> QED
    BY <1>2, <1>3, <2>1, <2>2
<1> QED
  BY <1>4, <1>5 DEF PartOfWhole

LEMMA ThresholdComputes ==
  ASSUME WAD * WAD <= U128_MAX, NEW v \in Nat \ {0}, Fits(v),
         NEW pct \in Nat, pct <= 100, NEW m \in Nat, m <= WAD
  PROVE  ThresholdOf(v, pct, m) # {}
<1> DEFINE A == FloorDiv(v * pct, 100)
<1>1. WAD \in Nat \ {0}
  BY MultipliersAreNat
<1>2. A \in Nat /\ A <= v
  <2> DEFINE n == v * pct
  <2>1. n \in Nat /\ n <= 100 * v
    <3>1. pct * v <= 100 * v
      BY MulMonotone
    <3> QED
      BY <3>1, Distribute, ProductInNat
  <2> HIDE DEF n
  <2>2. n \div 100 \in Nat /\ n \div 100 <= v
    BY <2>1
  <2> QED
    BY <2>2 DEF FloorDiv, n
<1> HIDE DEF A
<1>3. PartOfWhole(A, WAD, v, v)
  BY <1>1, <1>2, PartComputes
<1>4. PICK r \in MulDiv(A, WAD, v) : r \in Nat /\ r * v <= v * WAD
  BY <1>3 DEF PartOfWhole
<1>5. r <= WAD
  <2>1. v * WAD = WAD * v
    BY <1>1, Distribute
  <2> QED
    BY <1>1, <1>4, <2>1, MulCancel
<1>6. Fits(WAD)
  BY DEF Fits
<1>7. PartOfWhole(r, m, WAD, WAD)
  BY <1>1, <1>4, <1>5, <1>6, PartComputes
<1> QED
  BY <1>4, <1>7 DEF Scaled, A, PartOfWhole, ThresholdOf

(* A position with equity, at a price the simulation sets: its ratios and  *)
(* the amounts of its two interventions can be computed.                   *)
Computable(p, price) ==
  /\ price \in Nat /\ price >= MIN_PRICE_SF
  /\ ValueAt(p, price) \in Nat \ {0} /\ Fits(ValueAt(p, price))
  /\ debt[p] \in Nat /\ debt[p] <= ValueAt(p, price)

LEMMA RatiosCompute ==
  ASSUME RoomForSteps, NEW p, NEW price, Computable(p, price)
  PROVE  /\ CurrentLtv(debt[p], ValueAt(p, price)) # {}
         /\ CurrentLtv(debt[p], ValueAt(p, price)) = MulDiv(debt[p], WAD, ValueAt(p, price))
         /\ InsuringLtv(FloorDiv(ValueAt(p, price) * LtvPct, 100), ValueAt(p, price)) # {}
         /\ LiquidationLtv(FloorDiv(ValueAt(p, price) * LiquidationPct, 100),
                           ValueAt(p, price)) # {}
<1> DEFINE v == ValueAt(p, price)
           D == debt[p]
<1>1. v \in Nat \ {0} /\ Fits(v) /\ D \in Nat /\ D <= v /\ WAD * WAD <= U128_MAX
  BY DEF Computable, RoomForSteps, IntegersOfStages
<1>2. /\ LtvPct \in Nat /\ LtvPct <= 100 /\ LiquidationPct \in Nat /\ LiquidationPct <= 100
      /\ InsuringMultiplier \in Nat /\ InsuringMultiplier <= WAD
      /\ LiquidationMultiplier \in Nat /\ LiquidationMultiplier <= WAD /\ WAD \in Nat
  BY MarketAssumption, MultipliersAreNat, ThresholdAssumption
<1> HIDE DEF v, D
<1>3. PartOfWhole(D, WAD, v, v)
  BY <1>1, <1>2, PartComputes
<1>4. CurrentLtv(D, v) = MulDiv(D, WAD, v)
  BY <1>1 DEF CurrentLtv
<1>5. InsuringLtv(FloorDiv(v * LtvPct, 100), v) # {}
  BY <1>1, <1>2, ThresholdComputes DEF InsuringLtv, ThresholdOf
<1>6. LiquidationLtv(FloorDiv(v * LiquidationPct, 100), v) # {}
  BY <1>1, <1>2, ThresholdComputes DEF LiquidationLtv, ThresholdOf
<1> QED
  BY <1>3, <1>4, <1>5, <1>6 DEF v, D, PartOfWhole

LEMMA AmountsCompute ==
  ASSUME RoomForSteps, NEW p, NEW price, Computable(p, price)
  PROVE  /\ AmountToInject(ValueAt(p, price), debt[p], price) # {}
         /\ AmountToWithdrawAfterRepay(debt[p], ValueAt(p, price), price) # {}
<1> DEFINE v == ValueAt(p, price)
           D == debt[p]
<1>1. /\ v \in Nat \ {0} /\ Fits(v) /\ D \in Nat /\ D <= v
      /\ price \in Nat /\ price >= MIN_PRICE_SF
  BY DEF Computable
<1>2. WAD \in Nat \ {0} /\ LiquidationProfit \in Nat /\ LiquidationProfit <= WAD
  BY MultipliersAreNat, ThresholdAssumption
<1> HIDE DEF v, D
<1>3. v - D \in Nat /\ v - D <= v
  BY <1>1
<1>4. AmountToInject(v, D, price) # {}
  <2>1. PartOfWhole(D, WAD, v, v)
    BY <1>1, <1>2, PartComputes
  <2>2. PICK ratio \in MulDiv(D, WAD, v) : ratio \in Nat /\ ratio * v <= v * WAD
    BY <2>1 DEF PartOfWhole
  <2>3. ratio <= WAD
    <3>1. v * WAD = WAD * v
      BY <1>1, <1>2, Distribute
    <3> QED
      BY <1>1, <1>2, <2>2, <3>1, MulCancel
  <2>4. PartOfWhole(v - D, ratio, v, 2 * WAD)
    <3>1. 2 * WAD \in Nat \ {0}
      BY <1>2
    <3> QED
      BY <1>1, <1>3, <2>2, <2>3, <3>1, PartComputes
  <2>5. PICK value \in MulDiv(v - D, ratio, 2 * WAD) :
          value \in Nat /\ value * (2 * WAD) <= v * WAD
    BY <2>4 DEF PartOfWhole
  <2>6. value <= v
    <3>1. value * (2 * WAD) = (2 * value) * WAD
      BY <1>2, <2>5, Distribute
    <3>2. 2 * value <= v
      BY <1>1, <1>2, <2>5, <3>1, MulCancel
    <3> QED
      BY <1>1, <2>5, <3>2
  <2>7. value \in ValueToInject(v, D)
    BY <1>1, <2>2, <2>5 DEF ValueToInject
  <2>8. UNION {U64(amount) : amount \in MulDiv(value, TOKEN_PRECISION, price)} # {}
    BY <1>1, <2>5, <2>6, AmountFits DEF Fits
  <2> QED
    BY <2>7, <2>8 DEF AmountToInject
<1>5. AmountToWithdrawAfterRepay(D, v, price) # {}
  <2>0. PartOfWhole(v - D, LiquidationProfit, v, WAD)
    BY <1>1, <1>2, <1>3, PartComputes
  <2>1. PICK profit \in MulDiv(v - D, LiquidationProfit, WAD) : TRUE
    BY <2>0 DEF PartOfWhole
  <2>2. profit \in Nat /\ profit * WAD <= (v - D) * LiquidationProfit
    BY <1>2, <1>3, MulDivBounds
  <2>3. profit <= v - D
    <3>1. LiquidationProfit * (v - D) <= WAD * (v - D)
      BY <1>2, <1>3, MulMonotone
    <3>2. LiquidationProfit * (v - D) = (v - D) * LiquidationProfit /\ WAD * (v - D) = (v - D) * WAD
      BY <1>2, <1>3, Distribute
    <3>3. profit * WAD \in Nat /\ (v - D) * LiquidationProfit \in Nat /\ (v - D) * WAD \in Nat
      BY <1>2, <1>3, <2>2, ProductInNat
    <3>4. profit * WAD <= (v - D) * WAD
      BY <2>2, <3>1, <3>2, <3>3
    <3> QED
      BY <1>2, <1>3, <2>2, <3>4, MulCancel
  <2>4. D + profit \in Nat /\ D + profit <= v
    BY <1>1, <2>2, <2>3
  <2>5. UNION {U64(amount) : amount \in MulDiv(D + profit, TOKEN_PRECISION, price)} # {}
    BY <1>1, <2>4, AmountFits DEF Fits
  <2> QED
    BY <1>1, <2>1, <2>5 DEF AmountToWithdrawAfterRepay
<1> QED
  BY <1>4, <1>5 DEF v, D

-----------------------------------------------------------------------------
(* The stages.                                                             *)

LEMMA TargetsOfStages ==
  ASSUME NEW p, NEW price
  PROVE  /\ price \in Targets("inject", p)
              => LET F == FloorDiv(ValueAt(p, reservePrice) * LtvPct, 100)
                 IN  /\ F # 0
                     /\ price = ClampPrice(Below(Boundary(reservePrice, debt[p], F,
                                                          InsuringMultiplier)), reservePrice)
         /\ price \in Targets("withdraw", p)
              => LET F == FloorDiv(ValueAt(p, reservePrice) * LtvPct, 100)
                 IN  /\ F # 0
                     /\ price = ClampPrice(Above(Boundary(reservePrice, debt[p], F,
                                                          WithdrawingMultiplier)), reservePrice)
         /\ price \in Targets("liquidate", p)
              => LET F == FloorDiv(ValueAt(p, reservePrice) * LiquidationPct, 100)
                 IN  /\ F # 0
                     /\ price = ClampPrice(Below(Boundary(reservePrice, debt[p], F,
                                                          LiquidationMultiplier)), reservePrice)
<1> DEFINE risk == FetchRisk(p, reservePrice)
<1>1. /\ risk.debt = debt[p]
      /\ risk.allowed = FloorDiv(ValueAt(p, reservePrice) * LtvPct, 100)
      /\ risk.unhealthy = FloorDiv(ValueAt(p, reservePrice) * LiquidationPct, 100)
  BY AtPrice
<1> HIDE DEF risk
<1>2. \A kind : Targets(kind, p) = ComputeTargetPrice(kind, reservePrice, risk)
  BY DEF Targets, risk
<1>3. /\ Limit("inject", risk) = risk.allowed /\ Limit("withdraw", risk) = risk.allowed
      /\ Limit("liquidate", risk) = risk.unhealthy
      /\ Multiplier("inject") = InsuringMultiplier
      /\ Multiplier("withdraw") = WithdrawingMultiplier
      /\ Multiplier("liquidate") = LiquidationMultiplier
  BY DEF Limit, Multiplier
<1> QED
  BY <1>1, <1>2, <1>3 DEF ComputeTargetPrice

(* A debt no higher than a threshold leaves equity.                        *)
LEMMA EquityRemains ==
  ASSUME NEW v \in Nat, NEW D \in Nat, NEW h \in Nat, Stopped(v, D, h), 101 * h <= 8500 * WAD
  PROVE  100 * D <= 85 * v
<1> DEFINE W == WAD
<1>0. W \in Nat \ {0} /\ 10000 * (D * W) <= 101 * (h * v) /\ 101 * h <= 8500 * W
  BY MultipliersAreNat DEF Stopped
<1> HIDE DEF W
<1>1. (101 * h) * v <= (8500 * W) * v
  BY <1>0, MulMonotone
<1>2. (101 * h) * v = 101 * (h * v) /\ (8500 * W) * v = 8500 * (v * W)
  BY <1>0, Distribute
<1>3. D * W \in Nat /\ h * v \in Nat /\ v * W \in Nat
  BY <1>0, ProductInNat
<1>4. 10000 * (D * W) <= 8500 * (v * W)
  BY <1>0, <1>1, <1>2, <1>3
<1>5. (100 * D) * W <= (85 * v) * W
  <2>1. (100 * D) * W = 100 * (D * W) /\ (85 * v) * W = 85 * (v * W)
    BY <1>0, Distribute
  <2> QED
    BY <1>3, <1>4, <2>1
<1> QED
  BY <1>0, <1>5, MulCancel

LEMMA ThresholdsRemain ==
  ASSUME RoomForSteps
  PROVE  /\ LtvPct * WithdrawingMultiplier \in Nat
         /\ LtvPct * InsuringMultiplier \in Nat
         /\ LiquidationPct * LiquidationMultiplier \in Nat
         /\ 101 * (LtvPct * WithdrawingMultiplier) <= 8500 * WAD
         /\ 101 * (LtvPct * InsuringMultiplier) <= 8500 * WAD
         /\ 101 * (LiquidationPct * LiquidationMultiplier) <= 8500 * WAD
         /\ LtvPct \in Nat /\ LtvPct <= 100 /\ LiquidationPct \in Nat /\ LiquidationPct <= 100
<1> DEFINE a == LtvPct * WithdrawingMultiplier
           b == LtvPct * InsuringMultiplier
           c == LiquidationPct * LiquidationMultiplier
<1>1. a \in Nat /\ b \in Nat /\ c \in Nat /\ WAD \in Nat
  BY MultipliersAreNat, ProductInNat
<1>2. 101 * a + 11 * WAD <= 100 * b /\ 101 * b + 11 * WAD <= 100 * c /\ 101 * c <= 8500 * WAD
  BY DEF RoomForSteps, StepBelow
<1> HIDE DEF a, b, c
<1>3. 101 * a <= 8500 * WAD /\ 101 * b <= 8500 * WAD
  BY <1>1, <1>2
<1>4. LtvPct \in Nat /\ LtvPct <= 100 /\ LiquidationPct \in Nat /\ LiquidationPct <= 100
  BY MarketAssumption
<1> QED
  BY <1>1, <1>2, <1>3, <1>4 DEF a, b, c

LEMMA TargetComputes ==
  ASSUME RoomForSteps, CushionInv, NEW p \in Positions, NEW T \in Nat, Promised(p, T),
         ValueAt(p, T) \in Nat, ValueAt(p, T) >= 1000, 100 * debt[p] <= 85 * ValueAt(p, T)
  PROVE  Computable(p, T)
<1>1. debt[p] \in Nat
  BY DEF CushionInv, MarketInv
<1>2. MIN_PRICE_SF \in Nat /\ T > MIN_PRICE_SF
  BY LeastPrice DEF Promised
<1>3. ValueAt(p, T) * WAD <= U128_MAX
  BY AtPrice DEF Promised
<1> DEFINE v == ValueAt(p, T)
           D == debt[p]
<1>4. v \in Nat \ {0} /\ D <= v
  <2>1. v \in Nat /\ v >= 1000 /\ 100 * D <= 85 * v /\ D \in Nat
    BY <1>1
  <2> HIDE DEF v, D
  <2> QED
    BY <2>1
<1> HIDE DEF v, D
<1> QED
  BY <1>1, <1>2, <1>3, <1>4 DEF Computable, Fits, v, D

LEMMA InjectStage ==
  ASSUME RoomForSteps, CushionInv, NEW p \in Positions, NEW T \in PromisedTargets("inject", p)
  PROVE  CanInject(p, T) /\ ~ProgramAt(T)!Liquidatable(p)
<1> DEFINE F == FloorDiv(ValueAt(p, reservePrice) * LtvPct, 100)
           v == ValueAt(p, T)
           D == debt[p]
           h == LtvPct * InsuringMultiplier
<1>1. /\ Promised(p, T) /\ F # 0
      /\ T = ClampPrice(Below(Boundary(reservePrice, debt[p], F, InsuringMultiplier)), reservePrice)
  BY TargetsOfStages DEF PromisedTargets
<1>2. /\ InsuringMultiplier \in Nat /\ InsuringMultiplier >= 1000000 /\ InsuringMultiplier <= WAD
      /\ LiquidationMultiplier \in Nat /\ LiquidationMultiplier <= WAD /\ WAD \in Nat \ {0}
      /\ D \in Nat
  BY MultipliersAreNat, ThresholdAssumption DEF RoomForSteps, CushionInv, MarketInv
<1>3. /\ T \in Nat /\ v \in Nat /\ v >= 1000
      /\ Passed(v, D, h) /\ Stopped(v, D, h)
  BY <1>1, <1>2, ThresholdsRemain, BelowTarget
<1>4. h \in Nat /\ 100 * D <= 85 * v
  <2>1. h \in Nat /\ 101 * h <= 8500 * WAD
    BY ThresholdsRemain
  <2> HIDE DEF h, D, v
  <2>2. 100 * D <= 85 * v
    BY <1>2, <1>3, <2>1, EquityRemains
  <2> QED
    BY <2>1, <2>2
<1>5. Computable(p, T)
  BY <1>1, <1>3, <1>4, TargetComputes
<1>6. ASSUME NEW ltv \in CurrentLtv(D, v),
             NEW insuring \in InsuringLtv(FloorDiv(v * LtvPct, 100), v)
      PROVE  ltv > insuring
  <2>1. ltv \in MulDiv(D, WAD, v)
    BY <1>5, RatiosCompute
  <2>2. insuring \in ThresholdOf(v, LtvPct, InsuringMultiplier)
    BY DEF InsuringLtv, ThresholdOf
  <2>3. v \in Nat \ {0} /\ LtvPct \in Nat
    BY <1>3, MultipliersAreNat
  <2> HIDE DEF v, D
  <2> QED
    BY <1>2, <1>3, <2>1, <2>2, <2>3, PassedIsOver
<1>7. ASSUME NEW ltv \in CurrentLtv(D, v),
             NEW threshold \in LiquidationLtv(FloorDiv(v * LiquidationPct, 100), v)
      PROVE  ltv \in Nat /\ threshold \in Nat /\ ltv < threshold
  <2>1. ltv \in MulDiv(D, WAD, v)
    BY <1>5, RatiosCompute
  <2>2. threshold \in ThresholdOf(v, LiquidationPct, LiquidationMultiplier)
    BY DEF LiquidationLtv, ThresholdOf
  <2>3. /\ LiquidationPct \in Nat /\ WAD >= 1000000
        /\ StepBelow(h, LiquidationPct * LiquidationMultiplier)
    BY MultipliersAreNat, ScaleAssumption, WidthAssumption DEF RoomForSteps, IntegersOfStages
  <2> HIDE DEF v, D, h
  <2> QED
    BY <1>2, <1>3, <1>4, <2>1, <2>2, <2>3, StoppedIsUnder
<1>8. UnsafeAt(p, T)
  BY <1>5, <1>6, RatiosCompute DEF UnsafeAt
<1>9. ~LiquidatableAt(p, T)
  BY <1>7 DEF LiquidatableAt
<1>10. AmountToInject(MarketAt(T)!DepositedValue(p), debt[p], T) # {}
  BY <1>5, AmountsCompute, AtPrice
<1> QED
  BY <1>8, <1>9, <1>10, ProgramAtPrice DEF CanInject

LEMMA WithdrawStage ==
  ASSUME RoomForSteps, CushionInv, NEW p \in Positions, NEW T \in PromisedTargets("withdraw", p)
  PROVE  ~ProgramAt(T)!UnsafePosition(p)
<1> DEFINE F == FloorDiv(ValueAt(p, reservePrice) * LtvPct, 100)
           v == ValueAt(p, T)
           D == debt[p]
           h == LtvPct * WithdrawingMultiplier
<1>1. /\ Promised(p, T) /\ F # 0
      /\ T = ClampPrice(Above(Boundary(reservePrice, debt[p], F, WithdrawingMultiplier)),
                        reservePrice)
  BY TargetsOfStages DEF PromisedTargets
<1>2. /\ WithdrawingMultiplier \in Nat \ {0} /\ WithdrawingMultiplier <= WAD
      /\ InsuringMultiplier \in Nat /\ InsuringMultiplier <= WAD /\ WAD \in Nat \ {0}
      /\ D \in Nat
  BY MultipliersAreNat, ThresholdAssumption DEF RoomForSteps, CushionInv, MarketInv
<1>3. /\ T \in Nat /\ v \in Nat /\ v >= 1000
      /\ Stopped(v, D, h)
  BY <1>1, <1>2, ThresholdsRemain, AboveTarget
<1>4. h \in Nat /\ 100 * D <= 85 * v
  <2>1. h \in Nat /\ 101 * h <= 8500 * WAD
    BY ThresholdsRemain
  <2> HIDE DEF h, D, v
  <2>2. 100 * D <= 85 * v
    BY <1>2, <1>3, <2>1, EquityRemains
  <2> QED
    BY <2>1, <2>2
<1>5. Computable(p, T)
  BY <1>1, <1>3, <1>4, TargetComputes
<1>6. ASSUME NEW ltv \in CurrentLtv(D, v),
             NEW insuring \in InsuringLtv(FloorDiv(v * LtvPct, 100), v)
      PROVE  ltv \in Nat /\ insuring \in Nat /\ ltv < insuring
  <2>1. ltv \in MulDiv(D, WAD, v)
    BY <1>5, RatiosCompute
  <2>2. insuring \in ThresholdOf(v, LtvPct, InsuringMultiplier)
    BY DEF InsuringLtv, ThresholdOf
  <2>3. /\ LtvPct \in Nat /\ WAD >= 1000000
        /\ StepBelow(h, LtvPct * InsuringMultiplier)
    BY MultipliersAreNat, ScaleAssumption, WidthAssumption DEF RoomForSteps, IntegersOfStages
  <2> HIDE DEF v, D, h
  <2> QED
    BY <1>2, <1>3, <1>4, <2>1, <2>2, <2>3, StoppedIsUnder
<1>7. ~UnsafeAt(p, T)
  BY <1>6 DEF UnsafeAt
<1> QED
  BY <1>7, ProgramAtPrice

(* Enough is left of a deposit at the liquidate stage's target to nudge    *)
(* from, too.                                                              *)
LEMMA LiquidateTarget ==
  ASSUME RoomForSteps, CushionInv, NEW p \in Positions, NEW T \in PromisedTargets("liquidate", p)
  PROVE  /\ Promised(p, T) /\ Computable(p, T) /\ ValueAt(p, T) >= 1000
         /\ Passed(ValueAt(p, T), debt[p], LiquidationPct * LiquidationMultiplier)
         /\ 100 * debt[p] <= 85 * ValueAt(p, T)
<1> DEFINE F == FloorDiv(ValueAt(p, reservePrice) * LiquidationPct, 100)
           v == ValueAt(p, T)
           D == debt[p]
           h == LiquidationPct * LiquidationMultiplier
<1>1. /\ Promised(p, T) /\ F # 0
      /\ T = ClampPrice(Below(Boundary(reservePrice, debt[p], F, LiquidationMultiplier)),
                        reservePrice)
  BY TargetsOfStages DEF PromisedTargets
<1>2. /\ LiquidationMultiplier \in Nat /\ LiquidationMultiplier >= 1000000
      /\ LiquidationMultiplier <= WAD /\ WAD \in Nat \ {0} /\ D \in Nat
  BY MultipliersAreNat, ThresholdAssumption DEF RoomForSteps, CushionInv, MarketInv
<1>3. /\ T \in Nat /\ v \in Nat /\ v >= 1000
      /\ Passed(v, D, h) /\ Stopped(v, D, h)
  BY <1>1, <1>2, ThresholdsRemain, BelowTarget
<1>4. 100 * D <= 85 * v
  <2>1. h \in Nat /\ 101 * h <= 8500 * WAD
    BY ThresholdsRemain
  <2> HIDE DEF h, D, v
  <2> QED
    BY <1>2, <1>3, <2>1, EquityRemains
<1>5. Computable(p, T)
  BY <1>1, <1>3, <1>4, TargetComputes
<1> QED
  BY <1>1, <1>3, <1>4, <1>5

(* At a price where the debt is past its part of the limit that Cushion    *)
(* liquidates at, both of its transactions go through.                     *)
LEMMA PassedIsLiquidated ==
  ASSUME RoomForSteps, NEW p \in Positions, NEW price, Computable(p, price),
         Passed(ValueAt(p, price), debt[p], LiquidationPct * LiquidationMultiplier)
  PROVE  CanLiquidate(p, price)
<1> DEFINE v == ValueAt(p, price)
           D == debt[p]
<1>1. ASSUME NEW ltv \in CurrentLtv(D, v),
             NEW threshold \in LiquidationLtv(FloorDiv(v * LiquidationPct, 100), v)
      PROVE  ltv >= threshold
  <2>1. ltv \in MulDiv(D, WAD, v)
    BY RatiosCompute
  <2>2. threshold \in ThresholdOf(v, LiquidationPct, LiquidationMultiplier)
    BY DEF LiquidationLtv, ThresholdOf
  <2>3. v \in Nat \ {0} /\ D \in Nat /\ LiquidationPct \in Nat /\ LiquidationMultiplier \in Nat
    BY MultipliersAreNat DEF Computable
  <2> HIDE DEF v, D
  <2>4. ltv \in Nat /\ threshold \in Nat /\ ltv > threshold
    BY <2>1, <2>2, <2>3, PassedIsOver DEF v, D
  <2> QED
    BY <2>4
<1>2. LiquidatableAt(p, price)
  BY <1>1, RatiosCompute DEF LiquidatableAt
<1>3. AmountToWithdrawAfterRepay(debt[p], MarketAt(price)!DepositedValue(p), price) # {}
  BY AmountsCompute, AtPrice
<1> QED
  BY <1>2, <1>3, ProgramAtPrice DEF CanLiquidate

(* Whatever the position and the price it is at, and however the divisions *)
(* round, the stages' prices trigger what they are for and nothing else.   *)
THEOREM StagesHitTheirTriggers ==
  ASSUME RoomForSteps
  PROVE  CushionSpec => []StageTargetsTrigger
<1>1. ASSUME CushionInv, NEW p \in Positions
      PROVE  /\ \A T \in PromisedTargets("inject", p) :
                  CanInject(p, T) /\ ~ProgramAt(T)!Liquidatable(p)
             /\ \A T \in PromisedTargets("withdraw", p) : ~ProgramAt(T)!UnsafePosition(p)
             /\ \A T \in PromisedTargets("liquidate", p) : CanLiquidate(p, T)
  BY <1>1, InjectStage, WithdrawStage, LiquidateTarget, PassedIsLiquidated
<1>2. CushionInv => StageTargetsTrigger
  BY <1>1 DEF StageTargetsTrigger
<1> QED
  BY <1>2, CushionInvariant, PTL

-----------------------------------------------------------------------------
(* Nudges.                                                                 *)

LEMMA ScaleForSteps ==
  ASSUME RoomForSteps
  PROVE  WAD \in Nat \ {0} /\ WAD >= 25000000000000
BY MultipliersAreNat DEF RoomForSteps, IntegersOfStages

LEMMA LtvBounds ==
  ASSUME RoomForSteps
  PROVE  /\ LtvCap \in Nat /\ 100 * LtvCap <= 88 * WAD /\ LtvCap > 0
         /\ UnstableLtv \in Nat /\ 100 * UnstableLtv <= 92 * WAD
         /\ 10000 * UnstableLtv >= 9199 * WAD
         /\ PartOf(WAD, 200) \in Nat /\ PartOf(WAD, 200) > 0
<1> DEFINE w == WAD
<1>1. w \in Nat /\ w >= 25000000000000
  BY ScaleForSteps
<1> HIDE DEF w
<1>2. /\ (w * 8800) \div 10000 \in Nat /\ 100 * ((w * 8800) \div 10000) <= 88 * w
      /\ (w * 8800) \div 10000 > 0
  BY <1>1
<1>3. /\ (w * 9200) \div 10000 \in Nat /\ 100 * ((w * 9200) \div 10000) <= 92 * w
      /\ 10000 * ((w * 9200) \div 10000) >= 9199 * w
  BY <1>1
<1>4. (w * 200) \div 10000 \in Nat /\ (w * 200) \div 10000 > 0
  BY <1>1
<1> QED
  BY <1>2, <1>3, <1>4 DEF LtvCap, UnstableLtv, PartOf, w

(* A debt above 92% of what a deposit is worth ...                         *)
LEMMA HighRatio ==
  ASSUME NEW C \in Nat, NEW s \in Nat, NEW U \in Nat, NEW D \in Nat, D >= 25000000,
         NEW W \in Nat \ {0}, NEW v \in Nat, C * s <= (v + 1) * U, D <= v,
         NEW l \in Nat, l * v <= D * W, 10000 * l >= 9199 * W
  PROVE  919 * (C * s) <= 1000 * (D * U)
<1>1. 9199 * v <= 10000 * D
  <2>1. (9199 * W) * v <= (10000 * l) * v
    BY MulMonotone
  <2>2. (9199 * W) * v = 9199 * (v * W) /\ (10000 * l) * v = 10000 * (l * v)
    BY Distribute
  <2>3. l * v \in Nat /\ D * W \in Nat /\ v * W \in Nat
    BY ProductInNat
  <2>4. 9199 * (v * W) <= 10000 * (D * W)
    BY <2>1, <2>2, <2>3
  <2>5. (9199 * v) * W <= (10000 * D) * W
    <3>1. (9199 * v) * W = 9199 * (v * W) /\ (10000 * D) * W = 10000 * (D * W)
      BY Distribute
    <3> QED
      BY <2>3, <2>4, <3>1
  <2> QED
    BY <2>5, MulCancel
<1>2. 9190 * (v + 1) <= 10000 * D
  BY <1>1
<1>3. (9190 * (v + 1)) * U <= (10000 * D) * U
  BY <1>2, MulMonotone
<1>4. (9190 * (v + 1)) * U = 9190 * ((v + 1) * U) /\ (10000 * D) * U = 10000 * (D * U)
  BY Distribute
<1>5. (v + 1) * U \in Nat /\ D * U \in Nat /\ C * s \in Nat
  BY ProductInNat
<1> QED
  BY <1>3, <1>4, <1>5

(* ... and one below k% of it.                                             *)
LEMMA LowRatio ==
  ASSUME NEW C \in Nat, NEW s \in Nat, NEW U \in Nat, NEW D \in Nat, NEW W \in Nat \ {0},
         NEW v \in Nat \ {0}, v * U <= C * s, NEW l \in Nat, D * W < (l + 1) * v,
         NEW t \in Nat, l < t, NEW k \in Nat, 100 * t <= k * W
  PROVE  100 * (D * U) <= k * (C * s)
<1>1. (l + 1) * v <= t * v
  BY MulMonotone
<1>2. (100 * t) * v <= (k * W) * v
  BY ProductInNat, MulMonotone
<1>3. (100 * t) * v = 100 * (t * v) /\ (k * W) * v = (k * v) * W /\ (100 * D) * W = 100 * (D * W)
  BY Distribute
<1>4. (l + 1) * v \in Nat /\ t * v \in Nat /\ (k * v) * W \in Nat /\ D * W \in Nat /\ k * v \in Nat
  BY ProductInNat
<1>5. (100 * D) * W <= (k * v) * W
  BY <1>1, <1>2, <1>3, <1>4
<1>6. 100 * D <= k * v
  BY <1>4, <1>5, MulCancel
<1>7. (100 * D) * U <= (k * v) * U
  BY <1>4, <1>6, MulMonotone
<1>8. (v * U) * k <= (C * s) * k
  BY ProductInNat, MulMonotone
<1>9. /\ (100 * D) * U = 100 * (D * U) /\ (k * v) * U = (v * U) * k
      /\ (C * s) * k = k * (C * s)
  BY ProductInNat, Distribute
<1>10. D * U \in Nat /\ (v * U) * k \in Nat /\ k * (C * s) \in Nat
  BY ProductInNat
<1> QED
  BY <1>7, <1>8, <1>9, <1>10

(* A price of the walk keeps the debt below the deposit and is no higher   *)
(* than the target; two in a row are close.                                *)
InBand(p, price, T) ==
  /\ price \in Nat /\ MIN_PRICE_SF <= price /\ price <= T
  /\ 1000 * (debt[p] * UnitsPerToken) <= 998 * (collateral[p] * price)

Held(p, reserve, T) ==
  /\ InBand(p, reserve.price, T) /\ InBand(p, reserve.before, T)
  /\ 10000 * reserve.price >= 9399 * reserve.before
  /\ 100 * reserve.price <= 103 * reserve.before

(* What the walk keeps of its start.                                       *)
FromTarget(p, T) ==
  /\ T \in Nat /\ collateral[p] \in Nat /\ UnitsPerToken \in Nat \ {0}
  /\ debt[p] \in Nat /\ debt[p] >= 25000000
  /\ 100 * (debt[p] * UnitsPerToken) <= 85 * (collateral[p] * T)

LEMMA BandHasEquity ==
  ASSUME CushionInv, NEW p \in Positions, NEW T, FromTarget(p, T), NEW s, InBand(p, s, T)
  PROVE  /\ ValueAt(p, s) \in Nat \ {0} /\ debt[p] < ValueAt(p, s)
         /\ ValueAt(p, s) * UnitsPerToken <= collateral[p] * s
         /\ collateral[p] * s <= (ValueAt(p, s) + 1) * UnitsPerToken
<1> DEFINE v == ValueAt(p, s)
           D == debt[p]
           C == collateral[p]
           U == UnitsPerToken
<1>1. /\ v \in Nat /\ v * U <= C * s /\ C * s <= (v + 1) * U /\ s \in Nat
      /\ 1000 * (D * U) <= 998 * (C * s)
  BY ValueBounds DEF InBand
<1>2. C \in Nat /\ U \in Nat \ {0} /\ D \in Nat /\ D >= 25000000
  BY DEF FromTarget
<1> HIDE DEF v, D, C, U
<1>3. (1000 * D) * U <= (998 * (v + 1)) * U
  <2>1. (1000 * D) * U = 1000 * (D * U) /\ (998 * (v + 1)) * U = 998 * ((v + 1) * U)
    BY <1>1, <1>2, Distribute
  <2>2. D * U \in Nat /\ (v + 1) * U \in Nat /\ C * s \in Nat
    BY <1>1, <1>2, ProductInNat
  <2> QED
    BY <1>1, <2>1, <2>2
<1>4. 1000 * D <= 998 * (v + 1)
  BY <1>1, <1>2, <1>3, MulCancel
<1>5. v \in Nat \ {0} /\ D < v
  BY <1>1, <1>2, <1>4
<1> QED
  BY <1>1, <1>5 DEF v, D, C, U

(* The ways in which a price moves: by at most a twentieth, down only from *)
(* an LTV below a bound of 92% or 88%, up only from one above 91.99%.      *)
Stays(price, next) == next = price

Rises(price, next, ltv) ==
  10000 * ltv >= 9199 * WAD /\ next >= price /\ 100 * next <= 103 * price

Falls(price, next, ltv, k, least) ==
  /\ \E t \in Nat : ltv < t /\ 100 * t <= k * WAD
  /\ next <= price /\ 10000 * next >= least * price

LEMMA ClampKeeps ==
  ASSUME RoomForSteps, NEW price \in Nat, price >= MIN_PRICE_SF, NEW x \in Nat, x <= 2 * price
  PROVE  /\ ClampPrice(x, price) \in Nat /\ ClampPrice(x, price) >= MIN_PRICE_SF
         /\ ClampPrice(x, price) >= x
         /\ x <= price => ClampPrice(x, price) <= price
         /\ x >= price => ClampPrice(x, price) = x
<1>1. PartOf(price, 200000) = 20 * price /\ MIN_PRICE_SF \in Nat
  BY TopPrice, LeastPrice
<1> QED
  BY <1>1 DEF ClampPrice

LEMMA TargetLtv ==
  ASSUME RoomForSteps, NEW risk, risk.deposited \in Nat \ {0}, risk.unhealthy \in Nat
  PROVE  CappedTargetLtv(risk) \in Nat \ {0} /\ 100 * CappedTargetLtv(risk) <= 88 * WAD
<1> DEFINE h == risk.unhealthy * LiquidationMultiplier
           v == risk.deposited
<1>1. h \in Nat /\ v \in Nat \ {0}
  BY MultipliersAreNat, ProductInNat
<1> HIDE DEF h, v
<1>2. h \div v \in Nat
  BY <1>1
<1> DEFINE x == h \div v
<1> HIDE DEF x
<1>3. CappedTargetLtv(risk) = IF x + PartOf(WAD, 200) > LtvCap THEN LtvCap
                                                               ELSE x + PartOf(WAD, 200)
  BY DEF CappedTargetLtv, x, h, v
<1>4. x \in Nat
  BY <1>2 DEF x
<1>5. /\ LtvCap \in Nat /\ 100 * LtvCap <= 88 * WAD /\ LtvCap > 0
      /\ PartOf(WAD, 200) \in Nat /\ PartOf(WAD, 200) > 0 /\ WAD \in Nat
  BY LtvBounds, ScaleForSteps
<1> QED
  BY <1>3, <1>4, <1>5

LEMMA Moves ==
  ASSUME RoomForSteps, NEW price \in Nat, price >= MIN_PRICE_SF,
         NEW risk, risk.debt \in Nat, risk.deposited \in Nat \ {0}, risk.unhealthy \in Nat,
         risk.debt < risk.deposited
  PROVE  LET ltv == FloorDiv(risk.debt * WAD, risk.deposited)
             next == AdaptiveLiquidatePrice(price, risk)
         IN  /\ next \in Nat /\ next >= MIN_PRICE_SF
             /\ \/ Stays(price, next)
                \/ Rises(price, next, ltv)
                \/ Falls(price, next, ltv, 92, 9849)
                \/ Falls(price, next, ltv, 88, 9399)
<1> DEFINE ltv == FloorDiv(risk.debt * WAD, risk.deposited)
           next == AdaptiveLiquidatePrice(price, risk)
           t == CappedTargetLtv(risk)
           moved == Moved(price, risk)
           dw == risk.debt * WAD
<1>1. t \in Nat \ {0} /\ 100 * t <= 88 * WAD
  BY TargetLtv
<1>2. ltv \in Nat
  <2>1. dw \in Nat
    BY MultipliersAreNat, ProductInNat
  <2> HIDE DEF dw
  <2>2. FloorDiv(dw, risk.deposited) \in Nat
    BY <2>1, FloorBounds
  <2> QED
    BY <2>2 DEF dw
<1>3. MIN_PRICE_SF \in Nat /\ MIN_PRICE_SF >= 25000000000
  BY LeastPrice
<1>4. /\ UnstableLtv \in Nat /\ 100 * UnstableLtv <= 92 * WAD
      /\ 10000 * UnstableLtv >= 9199 * WAD /\ WAD \in Nat
  BY LtvBounds, ScaleForSteps
<1>5. next = price \/ next = ClampPrice(moved, price)
  BY DEF AdaptiveLiquidatePrice
<1>6. moved = LET raw == (price * ltv) \div t
              IN  CASE risk.deposited <= risk.debt -> PartOf(price, 10500)
                    [] risk.deposited > risk.debt /\ ltv >= UnstableLtv -> PartOf(price, 10300)
                    [] ltv < UnstableLtv /\ ltv >= t -> PartOf(price, 9850)
                    [] ltv < UnstableLtv /\ ltv < t ->
                         IF raw < PartOf(price, 9400) THEN PartOf(price, 9400) ELSE raw
  BY DEF Moved, FloorDiv
<1>7. ~(risk.deposited <= risk.debt) /\ risk.deposited > risk.debt
  OBVIOUS
<1> HIDE DEF ltv, t, moved, next
<1>8. CASE next = price
  BY <1>3, <1>8 DEF Stays, next, ltv
<1>9. CASE next = ClampPrice(moved, price) /\ ltv >= UnstableLtv
  <2>1. moved = PartOf(price, 10300)
    BY <1>2, <1>4, <1>6, <1>7, <1>9
  <2>2. moved \in Nat /\ moved >= price /\ 100 * moved <= 103 * price
    BY <1>3, <2>1 DEF PartOf
  <2>3. next \in Nat /\ next >= MIN_PRICE_SF /\ next = moved
    BY <1>9, <2>2, ClampKeeps
  <2>4. 10000 * ltv >= 9199 * WAD
    BY <1>2, <1>4, <1>9
  <2>5. Rises(price, next, ltv)
    BY <2>2, <2>3, <2>4 DEF Rises
  <2> QED
    BY <2>3, <2>5 DEF next, ltv
<1>10. CASE next = ClampPrice(moved, price) /\ ltv < UnstableLtv /\ ltv >= t
  <2>1. moved = PartOf(price, 9850)
    BY <1>1, <1>2, <1>4, <1>6, <1>7, <1>10
  <2>2. moved \in Nat /\ moved <= price /\ 10000 * moved >= 9849 * price
    BY <1>3, <2>1 DEF PartOf
  <2>3. next \in Nat /\ next >= MIN_PRICE_SF /\ next >= moved /\ next <= price
    BY <1>10, <2>2, ClampKeeps
  <2>4. Falls(price, next, ltv, 92, 9849)
    BY <1>4, <1>10, <2>2, <2>3 DEF Falls
  <2> QED
    BY <2>3, <2>4 DEF next, ltv
<1>11. CASE next = ClampPrice(moved, price) /\ ltv < UnstableLtv /\ ltv < t
  <2> DEFINE raw == (price * ltv) \div t
  <2>1. moved = IF raw < PartOf(price, 9400) THEN PartOf(price, 9400) ELSE raw
    BY <1>1, <1>2, <1>4, <1>6, <1>7, <1>11
  <2>2. raw \in Nat /\ raw <= price
    <3> DEFINE pl == price * ltv
    <3>1. pl \in Nat /\ pl <= price * t
      <4>1. ltv * price <= t * price
        BY <1>1, <1>2, <1>11, MulMonotone
      <4>2. ltv * price = price * ltv /\ t * price = price * t
        BY <1>1, <1>2, Distribute
      <4> QED
        BY <1>1, <1>2, <4>1, <4>2, ProductInNat
    <3> HIDE DEF pl
    <3>2. FloorDiv(pl, t) \in Nat /\ FloorDiv(pl, t) * t <= pl
      BY <1>1, <3>1, FloorBounds
    <3>3. FloorDiv(pl, t) * t <= price * t
      <4>1. price * t \in Nat /\ FloorDiv(pl, t) * t \in Nat
        BY <1>1, <3>2, ProductInNat
      <4> QED
        BY <3>1, <3>2, <4>1
    <3>4. FloorDiv(pl, t) <= price
      BY <1>1, <3>2, <3>3, MulCancel
    <3> QED
      BY <3>2, <3>4 DEF FloorDiv, pl
  <2> HIDE DEF raw
  <2>3. PartOf(price, 9400) \in Nat /\ PartOf(price, 9400) <= price
        /\ 10000 * PartOf(price, 9400) >= 9399 * price
    BY <1>3 DEF PartOf
  <2>4. moved \in Nat /\ moved <= price /\ 10000 * moved >= 9399 * price
    BY <2>1, <2>2, <2>3
  <2>5. next \in Nat /\ next >= MIN_PRICE_SF /\ next >= moved /\ next <= price
    BY <1>11, <2>4, ClampKeeps
  <2>6. Falls(price, next, ltv, 88, 9399)
    BY <1>1, <1>11, <2>4, <2>5 DEF Falls
  <2> QED
    BY <2>5, <2>6 DEF next, ltv
<1> QED
  BY <1>1, <1>2, <1>4, <1>5, <1>8, <1>9, <1>10, <1>11

(* A price x is at least y parts of another one, and so is what a deposit  *)
(* is worth at it.                                                         *)
LEMMA WorthKeepsOrder ==
  ASSUME NEW C \in Nat, NEW a \in Nat, NEW b \in Nat, NEW i \in Nat, NEW j \in Nat, i * a <= j * b
  PROVE  i * (C * a) <= j * (C * b)
<1>1. (i * a) * C <= (j * b) * C
  BY ProductInNat, MulMonotone
<1>2. (i * a) * C = i * (C * a) /\ (j * b) * C = j * (C * b)
  BY Distribute
<1> QED
  BY <1>1, <1>2

(* A debt of less than 92% of the deposit where it was seen does not catch *)
(* up with it by a step of the walk.                                       *)
LEMMA StillEquity ==
  ASSUME NEW C \in Nat, NEW du \in Nat, NEW s \in Nat, NEW a \in Nat, NEW x \in Nat,
         NEW k \in Nat, 100 * du <= k * (C * s), 10000 * a >= 9399 * s,
         \/ k = 92 /\ 10000 * x >= 9849 * a
         \/ k = 88 /\ 10000 * x >= 9399 * a
  PROVE  1000 * du <= 998 * (C * x)
<1> DEFINE cs == C * s
           ca == C * a
           cx == C * x
<1>1. cs \in Nat /\ ca \in Nat /\ cx \in Nat
  BY ProductInNat
<1>2. 9399 * cs <= 10000 * ca
  BY WorthKeepsOrder
<1>3. CASE k = 92 /\ 10000 * x >= 9849 * a
  <2>1. 9849 * ca <= 10000 * cx
    BY <1>3, WorthKeepsOrder
  <2> HIDE DEF cs, ca, cx
  <2>2. 100 * du <= 92 * cs
    BY <1>3 DEF cs
  <2>3. 1000 * du <= 998 * cx
    BY <1>1, <1>2, <2>1, <2>2
  <2> QED
    BY <2>3 DEF cx
<1>4. CASE k = 88 /\ 10000 * x >= 9399 * a
  <2>1. 9399 * ca <= 10000 * cx
    BY <1>4, WorthKeepsOrder
  <2> HIDE DEF cs, ca, cx
  <2>2. 100 * du <= 88 * cs
    BY <1>4 DEF cs
  <2>3. 1000 * du <= 998 * cx
    BY <1>1, <1>2, <2>1, <2>2
  <2> QED
    BY <2>3 DEF cx
<1> QED
  BY <1>3, <1>4

(* A debt of more than 91.9% of it leaves room for two rises to where it   *)
(* was 85%.                                                                *)
LEMMA StillBelowTarget ==
  ASSUME NEW C \in Nat \ {0}, NEW du \in Nat, NEW s \in Nat, NEW a \in Nat, NEW x \in Nat,
         NEW T \in Nat, 919 * (C * s) <= 1000 * du, 100 * du <= 85 * (C * T),
         100 * a <= 103 * s, 100 * x <= 103 * a
  PROVE  x <= T
<1> DEFINE cs == C * s
           ct == C * T
<1>1. cs \in Nat /\ ct \in Nat
  BY ProductInNat
<1>2. 919 * cs <= 850 * ct
  BY <1>1
<1>3. (919 * s) * C <= (850 * T) * C
  <2>1. (919 * s) * C = 919 * cs /\ (850 * T) * C = 850 * ct
    BY Distribute
  <2> QED
    BY <1>2, <2>1
<1>4. 919 * s <= 850 * T
  BY <1>3, MulCancel
<1> QED
  BY <1>4

LEMMA HeldStep ==
  ASSUME RoomForSteps, CushionInv, NEW p \in Positions, NEW T, FromTarget(p, T),
         NEW reserve, Held(p, reserve, T), NEW nudged \in NudgedFrom(p, reserve)
  PROVE  Held(p, nudged, T)
<1> DEFINE a == reserve.price
           D == debt[p]
           C == collateral[p]
           U == UnitsPerToken
           du == D * U
<1>1. PICK s \in {reserve.price, reserve.before} :
        nudged = [price |-> AdaptiveLiquidatePrice(a, FetchRisk(p, s)), before |-> a]
  BY DEF NudgedFrom
<1> DEFINE risk == FetchRisk(p, s)
           x == AdaptiveLiquidatePrice(a, risk)
           v == ValueAt(p, s)
           l == FloorDiv(D * WAD, v)
<1>2. /\ InBand(p, s, T) /\ InBand(p, a, T)
      /\ 10000 * a >= 9399 * s /\ 100 * a <= 103 * s
  BY <1>1 DEF Held, InBand
<1>3. /\ a \in Nat /\ a >= MIN_PRICE_SF /\ a <= T /\ s \in Nat /\ MIN_PRICE_SF \in Nat
      /\ MIN_PRICE_SF >= 25000000000 /\ 1000 * du <= 998 * (C * a)
  BY <1>2, LeastPrice DEF InBand
<1>4. /\ T \in Nat /\ C \in Nat /\ U \in Nat \ {0} /\ D \in Nat /\ D >= 25000000
      /\ 100 * du <= 85 * (C * T) /\ du \in Nat
  BY ProductInNat DEF FromTarget
<1>5. v \in Nat \ {0} /\ D < v /\ v * U <= C * s /\ C * s <= (v + 1) * U
  BY <1>2, BandHasEquity
<1>6. risk.debt = D /\ risk.deposited = v /\ risk.unhealthy = FloorDiv(v * LiquidationPct, 100)
  BY AtPrice
<1>7. risk.unhealthy \in Nat
  BY <1>5, <1>6, MultipliersAreNat, ProductInNat, FloorBounds
<1> HIDE DEF v, C, D, U, risk, a, du
<1>8. /\ x \in Nat /\ x >= MIN_PRICE_SF
      /\ \/ Stays(a, x)
         \/ Rises(a, x, l)
         \/ Falls(a, x, l, 92, 9849)
         \/ Falls(a, x, l, 88, 9399)
  BY <1>3, <1>4, <1>5, <1>6, <1>7, Moves
<1>9. l \in Nat /\ l * v <= D * WAD /\ D * WAD < (l + 1) * v
  <2> DEFINE dw == D * WAD
  <2>1. dw \in Nat
    BY <1>4, MultipliersAreNat, ProductInNat
  <2> HIDE DEF dw
  <2>2. dw \div v \in Nat /\ (dw \div v) * v <= dw /\ dw < ((dw \div v) + 1) * v
    BY <1>5, <2>1
  <2> QED
    BY <2>2 DEF dw, FloorDiv
<1> HIDE DEF l, x
<1>10. WAD \in Nat \ {0}
  BY MultipliersAreNat
<1>11. x <= T /\ 1000 * du <= 998 * (C * x) /\ 10000 * x >= 9399 * a /\ 100 * x <= 103 * a
  <2>1. CASE Stays(a, x)
    BY <1>3, <2>1 DEF Stays
  <2>2. CASE Rises(a, x, l)
    <3>1. 10000 * l >= 9199 * WAD /\ x >= a /\ 100 * x <= 103 * a
      BY <2>2 DEF Rises
    <3>2. 919 * (C * s) <= 1000 * du
      <4>1. D <= v /\ v \in Nat
        BY <1>4, <1>5
      <4> QED
        BY <1>3, <1>4, <1>5, <1>9, <1>10, <3>1, <4>1, HighRatio DEF du
    <3>3. C # 0
      <4>1. v * U # 0
        BY <1>4, <1>5
      <4>2. C = 0 => C * s = 0
        BY <1>3
      <4>3. v * U \in Nat
        BY <1>4, <1>5, ProductInNat
      <4> QED
        BY <1>5, <4>1, <4>2, <4>3
    <3>4. x <= T
      BY <1>2, <1>3, <1>4, <1>8, <3>1, <3>2, <3>3, StillBelowTarget
    <3>5. 1000 * du <= 998 * (C * x)
      <4>1. 998 * (C * a) <= 998 * (C * x)
        <5>1. 998 * a <= 998 * x
          BY <1>3, <1>8, <3>1
        <5> QED
          BY <1>3, <1>4, <1>8, <5>1, WorthKeepsOrder
      <4>2. C * a \in Nat /\ C * x \in Nat
        BY <1>3, <1>4, <1>8, ProductInNat
      <4> QED
        BY <1>3, <1>4, <4>1, <4>2
    <3> QED
      BY <1>3, <1>8, <3>1, <3>4, <3>5
  <2>3. ASSUME NEW k \in {88, 92}, NEW least \in {9399, 9849}, Falls(a, x, l, k, least),
               k = 92 => least = 9849
        PROVE  /\ x <= T /\ 1000 * du <= 998 * (C * x) /\ 10000 * x >= 9399 * a
               /\ 100 * x <= 103 * a
    <3>1. PICK t \in Nat : l < t /\ 100 * t <= k * WAD
      BY <2>3 DEF Falls
    <3>2. x <= a /\ 10000 * x >= least * a /\ 10000 * x >= 9399 * a
      BY <1>3, <1>8, <2>3 DEF Falls
    <3>3. 100 * du <= k * (C * s)
      BY <1>3, <1>4, <1>5, <1>9, <1>10, <3>1, LowRatio DEF du
    <3>4. 1000 * du <= 998 * (C * x)
      <4>1. (k = 92 /\ 10000 * x >= 9849 * a) \/ (k = 88 /\ 10000 * x >= 9399 * a)
        BY <2>3, <3>2
      <4> QED
        BY <1>2, <1>3, <1>4, <1>8, <3>3, <4>1, StillEquity
    <3> QED
      BY <1>3, <1>4, <1>8, <3>2, <3>4
  <2> QED
    BY <1>8, <2>1, <2>2, <2>3
<1>12. InBand(p, x, T)
  BY <1>8, <1>11 DEF InBand, du, D, C, U
<1>13. nudged.price = x /\ nudged.before = a
  BY <1>1 DEF x, risk
<1> QED
  BY <1>2, <1>11, <1>12, <1>13 DEF Held

LEMMA HeldAtTarget ==
  ASSUME RoomForSteps, CushionInv, NEW p \in Positions, NEW T \in PromisedTargets("liquidate", p)
  PROVE  FromTarget(p, T) /\ Held(p, [price |-> T, before |-> T], T)
<1> DEFINE D == debt[p]
           C == collateral[p]
           U == UnitsPerToken
           v == ValueAt(p, T)
           W == WAD
<1>1. Promised(p, T) /\ Computable(p, T) /\ 100 * D <= 85 * v
  BY LiquidateTarget
<1>2. /\ D \in Nat /\ C \in Nat /\ U \in Nat \ {0} /\ T \in Nat /\ v \in Nat /\ v * U <= C * T
      /\ W \in Nat \ {0}
  BY <1>1, ValueBounds, MarketAssumption, MultipliersAreNat
     DEF CushionInv, PositionInv, MarketInv, Computable
<1>3. D >= 25000000
  <2>1. W >= 25000000000000 /\ D >= W \div 1000000
    BY <1>1 DEF RoomForSteps, IntegersOfStages, Promised
  <2> HIDE DEF W, D
  <2>2. W \div 1000000 \in Nat /\ W \div 1000000 >= 25000000
    BY <1>2, <2>1
  <2> QED
    BY <1>2, <2>1, <2>2
<1>4. MIN_PRICE_SF <= T /\ MIN_PRICE_SF \in Nat
  BY <1>1, <1>2, LeastPrice DEF Promised
<1> HIDE DEF D, C, U, v, W
<1>5. 100 * (D * U) <= 85 * (C * T) /\ D * U \in Nat /\ C * T \in Nat
  <2>1. (100 * D) * U <= (85 * v) * U
    BY <1>1, <1>2, MulMonotone
  <2>2. (100 * D) * U = 100 * (D * U) /\ (85 * v) * U = 85 * (v * U)
    BY <1>2, Distribute
  <2>3. D * U \in Nat /\ v * U \in Nat /\ C * T \in Nat
    BY <1>2, ProductInNat
  <2> QED
    BY <1>2, <2>1, <2>2, <2>3
<1>6. FromTarget(p, T)
  BY <1>2, <1>3, <1>5 DEF FromTarget, D, C, U
<1>7. 1000 * (D * U) <= 998 * (C * T)
  BY <1>5
<1>8. InBand(p, T, T)
  BY <1>2, <1>4, <1>7 DEF InBand, D, C, U
<1>9. 10000 * T >= 9399 * T /\ 100 * T <= 103 * T
  BY <1>2
<1> QED
  BY <1>6, <1>8, <1>9 DEF Held

(* What a price of the walk does: it is no higher than the target, so the  *)
(* debt is past the limit there too.                                       *)
LEMMA BandIsLiquidated ==
  ASSUME RoomForSteps, CushionInv, NEW p \in Positions, NEW T \in PromisedTargets("liquidate", p),
         NEW price, InBand(p, price, T)
  PROVE  CanLiquidate(p, price)
<1> DEFINE D == debt[p]
           C == collateral[p]
           U == UnitsPerToken
           v == ValueAt(p, T)
           w == ValueAt(p, price)
           h == LiquidationPct * LiquidationMultiplier
<1>1. Computable(p, T) /\ Passed(v, D, h)
  BY LiquidateTarget
<1>2. FromTarget(p, T)
  BY HeldAtTarget
<1>3. w \in Nat \ {0} /\ D < w /\ w * U <= C * price
  BY <1>2, BandHasEquity
<1>4. /\ price \in Nat /\ price <= T /\ price >= MIN_PRICE_SF /\ T \in Nat /\ C \in Nat
      /\ U \in Nat \ {0} /\ D \in Nat /\ v \in Nat /\ Fits(v) /\ C * T <= (v + 1) * U
      /\ WAD \in Nat /\ h \in Nat /\ MIN_PRICE_SF \in Nat /\ U128_MAX \in Nat
  BY <1>1, <1>2, ValueBounds, MultipliersAreNat, ProductInNat, LeastPrice, WidthAssumption
     DEF InBand, Computable, FromTarget
<1>5. w <= v
  <2>1. w = FloorDiv(C * price, U) /\ v = FloorDiv(C * T, U)
    BY DEF ValueAt
  <2> HIDE DEF w, v, C, U
  <2>2. C * price <= C * T /\ C * price \in Nat /\ C * T \in Nat
    <3>1. price * C <= T * C
      BY <1>4, MulMonotone
    <3> QED
      BY <1>4, <3>1, Distribute, ProductInNat
  <2> DEFINE i == C * price
             j == C * T
  <2>3. i \in Nat /\ j \in Nat /\ i <= j
    BY <2>2
  <2> HIDE DEF i, j
  <2>4. i \div U <= j \div U
    BY <1>4, <2>3
  <2> QED
    BY <2>1, <2>4 DEF FloorDiv, i, j
<1> HIDE DEF w, v, D, C, U, h
<1>6. Fits(w)
  <2>1. w * WAD <= v * WAD
    BY <1>3, <1>4, <1>5, MulMonotone
  <2>2. w * WAD \in Nat /\ v * WAD \in Nat
    BY <1>3, <1>4, ProductInNat
  <2> QED
    BY <1>4, <2>1, <2>2 DEF Fits
<1>7. Passed(w, D, h)
  <2>1. w * (h + 100) <= v * (h + 100)
    BY <1>3, <1>4, <1>5, MulMonotone
  <2>2. w * (h + 100) \in Nat /\ v * (h + 100) \in Nat /\ D * WAD \in Nat
    BY <1>3, <1>4, ProductInNat
  <2> QED
    BY <1>1, <2>1, <2>2 DEF Passed
<1>8. Computable(p, price)
  <2>1. D <= w /\ w \in Nat
    BY <1>3, <1>4
  <2> QED
    BY <1>3, <1>4, <1>6, <2>1 DEF Computable, Fits, w, D
<1> QED
  BY <1>7, <1>8, PassedIsLiquidated DEF w, D, h

-----------------------------------------------------------------------------
(* The walk.                                                               *)

(* The first nudge may go by values of any price from which the stage came *)
(* down.  They show an LTV no higher than at the target, so it does not    *)
(* lift the price; and from the target it can fall by one step.            *)
LEMMA FirstStep ==
  ASSUME RoomForSteps, CushionInv, NEW p \in Positions, NEW T \in PromisedTargets("liquidate", p),
         NEW s \in Nat, T <= s
  PROVE  Held(p, [price |-> AdaptiveLiquidatePrice(T, FetchRisk(p, s)), before |-> T], T)
<1> DEFINE D == debt[p]
           C == collateral[p]
           U == UnitsPerToken
           du == D * U
           risk == FetchRisk(p, s)
           x == AdaptiveLiquidatePrice(T, risk)
           v == ValueAt(p, s)
           l == FloorDiv(D * WAD, v)
<1>1. FromTarget(p, T) /\ InBand(p, T, T)
  BY HeldAtTarget DEF Held
<1>2. /\ T \in Nat /\ C \in Nat /\ U \in Nat \ {0} /\ D \in Nat /\ D >= 25000000
      /\ 100 * du <= 85 * (C * T) /\ du \in Nat /\ MIN_PRICE_SF <= T /\ MIN_PRICE_SF \in Nat
  BY <1>1, ProductInNat, LeastPrice DEF FromTarget, InBand
<1> HIDE DEF D, C, U, du
<1>3. C * T <= C * s /\ C * T \in Nat /\ C * s \in Nat /\ C * s # 0
  <2>1. 1 * (C * T) <= 1 * (C * s)
    BY <1>2, WorthKeepsOrder
  <2>2. C * T \in Nat /\ C * s \in Nat
    BY <1>2, ProductInNat
  <2>3. du >= 1
    <3>1. D * U # 0 /\ D * U \in Nat
      BY <1>2, ProductInNat
    <3> QED
      BY <3>1 DEF du
  <2> QED
    BY <1>2, <2>1, <2>2, <2>3
<1>4. FromTarget(p, s) /\ InBand(p, s, s)
  <2>1. 100 * du <= 85 * (C * s) /\ 1000 * du <= 998 * (C * s) /\ MIN_PRICE_SF <= s /\ s <= s
    BY <1>2, <1>3
  <2> QED
    BY <1>2, <2>1 DEF FromTarget, InBand, D, C, U, du
<1>5. v \in Nat \ {0} /\ D < v /\ v * U <= C * s /\ C * s <= (v + 1) * U
  BY <1>4, BandHasEquity DEF D, C, U
<1>6. risk.debt = D /\ risk.deposited = v /\ risk.unhealthy = FloorDiv(v * LiquidationPct, 100)
  BY AtPrice DEF D
<1>7. risk.unhealthy \in Nat
  BY <1>5, <1>6, MultipliersAreNat, ProductInNat, FloorBounds
<1> HIDE DEF v, risk
<1>8. /\ x \in Nat /\ x >= MIN_PRICE_SF
      /\ \/ Stays(T, x)
         \/ Rises(T, x, l)
         \/ Falls(T, x, l, 92, 9849)
         \/ Falls(T, x, l, 88, 9399)
  BY <1>2, <1>5, <1>6, <1>7, Moves
<1>9. WAD \in Nat \ {0} /\ l \in Nat /\ l * v <= D * WAD
  <2> DEFINE dw == D * WAD
  <2>1. dw \in Nat /\ WAD \in Nat \ {0}
    BY <1>2, MultipliersAreNat, ProductInNat
  <2> HIDE DEF dw
  <2>2. FloorDiv(dw, v) \in Nat /\ FloorDiv(dw, v) * v <= dw
    BY <1>5, <2>1, FloorBounds
  <2> QED
    BY <2>1, <2>2 DEF dw
<1> HIDE DEF l, x
<1>10. ~Rises(T, x, l)
  <2> SUFFICES ASSUME Rises(T, x, l)
               PROVE  FALSE
    OBVIOUS
  <2>1. 10000 * l >= 9199 * WAD
    BY DEF Rises
  <2>2. D <= v /\ v \in Nat
    BY <1>2, <1>5
  <2>3. 919 * (C * s) <= 1000 * du
    BY <1>2, <1>5, <1>9, <2>1, <2>2, HighRatio DEF du
  <2> QED
    BY <1>2, <1>3, <2>3
<1>11. x <= T /\ 10000 * x >= 9399 * T
  BY <1>2, <1>8, <1>10 DEF Stays, Falls
<1>12. 1000 * du <= 998 * (C * x)
  <2>1. 100 * du <= 88 * (C * T)
    BY <1>2, <1>3
  <2>2. 10000 * T >= 9399 * T
    BY <1>2
  <2> QED
    BY <1>2, <1>8, <1>11, <2>1, <2>2, StillEquity
<1>13. InBand(p, x, T)
  BY <1>8, <1>11, <1>12 DEF InBand, du, D, C, U
<1>14. 100 * x <= 103 * T
  BY <1>2, <1>8, <1>11
<1>15. Held(p, [price |-> x, before |-> T], T)
  BY <1>1, <1>11, <1>13, <1>14 DEF Held
<1> QED
  BY <1>15 DEF x, risk

(* A reserve of the walk: where it starts, or held.                        *)
OnWalk(p, T, reserve) == reserve = PromisedStart(T) \/ Held(p, reserve, T)

LEMMA WalkStep ==
  ASSUME RoomForSteps, CushionInv, NEW p \in Positions, NEW T \in PromisedTargets("liquidate", p),
         NEW reserve, OnWalk(p, T, reserve), NEW nudged \in NudgedFrom(p, reserve)
  PROVE  Held(p, nudged, T)
<1>1. FromTarget(p, T) /\ Held(p, [price |-> T, before |-> T], T)
  BY HeldAtTarget
<1>2. CASE Held(p, reserve, T)
  BY <1>1, <1>2, HeldStep
<1>3. CASE reserve = PromisedStart(T) /\ T <= reservePrice
  <2>1. reserve = [price |-> T, before |-> reservePrice]
    BY <1>3 DEF PromisedStart, LiquidateStart
  <2>2. PICK s \in {T, reservePrice} :
          nudged = [price |-> AdaptiveLiquidatePrice(T, FetchRisk(p, s)), before |-> T]
    BY <2>1 DEF NudgedFrom
  <2>3. T \in Nat /\ reservePrice \in Nat
    BY <1>1, MarketAssumption DEF FromTarget, CushionInv, MarketInv
  <2>4. T <= s /\ s \in Nat
    BY <1>3, <2>2, <2>3
  <2> QED
    BY <2>2, <2>4, FirstStep
<1>4. CASE reserve = PromisedStart(T) /\ ~(T <= reservePrice)
  <2>1. reserve = [price |-> T, before |-> T]
    BY <1>4 DEF PromisedStart, LiquidateStart
  <2> QED
    BY <1>1, <2>1, HeldStep
<1> QED
  BY <1>2, <1>3, <1>4 DEF OnWalk

Grown(p, seen) ==
  LET next == UNION {NudgedFrom(p, reserve) : reserve \in seen.last}
  IN  [shown |-> seen.shown \cup next, last |-> next \ seen.shown]

Walks(p, start, walk, n) ==
  walk = [k \in 0 .. n |->
            IF k = 0 THEN [shown |-> {start}, last |-> {start}] ELSE Grown(p, walk[k - 1])]

LEMMA WalkIsChosen ==
  ASSUME NEW p, NEW start
  PROVE  LiquidatePrices(p, start)
           = {reserve.price :
                reserve \in (CHOOSE walk : Walks(p, start, walk, LiquidateMaxAdjustments))
                              [LiquidateMaxAdjustments].shown}
BY DEF LiquidatePrices, Walks, Grown

LEMMA WalksExist ==
  ASSUME NEW p, NEW start, NEW e \in Nat
  PROVE  \E walk : Walks(p, start, walk, e)
<1> DEFINE Bad == {n \in Nat : ~ \E walk : Walks(p, start, walk, n)}
           first == [shown |-> {start}, last |-> {start}]
<1> SUFFICES ASSUME Bad # {}
             PROVE  FALSE
  OBVIOUS
<1>1. PICK n \in Bad : \A k \in Bad : n <= k
  BY LeastMember
<1>2. CASE n = 0
  <2>1. Walks(p, start, [i \in 0 .. 0 |-> first], 0)
    BY DEF Walks
  <2> QED
    BY <1>1, <1>2, <2>1
<1>3. CASE n # 0
  <2>1. n - 1 \in Nat /\ n - 1 \notin Bad
    BY <1>1, <1>3
  <2>2. PICK walk : Walks(p, start, walk, n - 1)
    BY <2>1
  <2> DEFINE next == [i \in 0 .. n |-> IF i = n THEN Grown(p, walk[n - 1]) ELSE walk[i]]
  <2>3. \A i \in 0 .. n : i # n => i \in 0 .. n - 1
    BY <1>3
  <2>4. ASSUME NEW i \in 0 .. n
        PROVE  next[i] = IF i = 0 THEN first ELSE Grown(p, next[i - 1])
    <3>1. i # 0 => i - 1 \in 0 .. n - 1 /\ next[i - 1] = walk[i - 1]
      BY <1>3, <2>1
    <3>2. CASE i = n
      <4>1. next[i] = Grown(p, walk[n - 1])
        BY <3>2
      <4> HIDE DEF next, first
      <4> QED
        BY <1>3, <3>1, <3>2, <4>1
    <3>3. CASE i # n
      <4>1. next[i] = walk[i] /\ i \in 0 .. n - 1
        BY <2>3, <3>3
      <4>2. walk[i] = IF i = 0 THEN first ELSE Grown(p, walk[i - 1])
        BY <2>2, <4>1 DEF Walks
      <4> HIDE DEF next, first
      <4> QED
        BY <3>1, <4>1, <4>2
    <3> QED
      BY <3>2, <3>3
  <2>5. next = [i \in 0 .. n |-> next[i]]
    OBVIOUS
  <2> HIDE DEF next
  <2>6. Walks(p, start, next, n)
    BY <2>4, <2>5 DEF Walks
  <2> QED
    BY <1>1, <2>6
<1> QED
  BY <1>2, <1>3

(* Every reserve of the walk after the first is held.                      *)
LEMMA WalkIsHeld ==
  ASSUME RoomForSteps, CushionInv, NEW p \in Positions, NEW T \in PromisedTargets("liquidate", p),
         NEW e \in Nat, NEW walk, Walks(p, PromisedStart(T), walk, e)
  PROVE  \A reserve \in walk[e].shown : OnWalk(p, T, reserve)
<1> DEFINE AllHeld(n) == \A reserve \in walk[n].shown \cup walk[n].last : OnWalk(p, T, reserve)
           Bad == {n \in 0 .. e : ~AllHeld(n)}
<1>1. SUFFICES ASSUME Bad # {}
             PROVE  FALSE
  OBVIOUS
<1>2. Bad \in SUBSET Nat
  OBVIOUS
<1>3. \A S \in SUBSET Nat : S # {} => \E n \in S : \A k \in S : n <= k
  BY LeastMember
<1> HIDE DEF Bad
<1>4. PICK n \in Bad : \A k \in Bad : n <= k
  BY <1>1, <1>2, <1>3
<1> USE DEF Bad
<1>5. n \in 0 .. e /\ ~AllHeld(n)
  BY <1>4
<1>6. CASE n = 0
  <2>1. walk[0].shown = {PromisedStart(T)} /\ walk[0].last = {PromisedStart(T)}
    BY <1>5, <1>6 DEF Walks
  <2> QED
    BY <1>5, <1>6, <2>1 DEF OnWalk
<1>7. CASE n # 0
  <2>1. n - 1 \in 0 .. e /\ n - 1 \notin Bad
    BY <1>4, <1>5, <1>7
  <2>2. AllHeld(n - 1)
    BY <2>1
  <2>3. walk[n] = Grown(p, walk[n - 1])
    BY <1>5, <1>7 DEF Walks
  <2>4. ASSUME NEW reserve \in walk[n - 1].last, NEW nudged \in NudgedFrom(p, reserve)
        PROVE  OnWalk(p, T, nudged)
    BY <2>2, WalkStep DEF OnWalk
  <2> QED
    BY <1>5, <2>2, <2>3, <2>4 DEF Grown
<1> QED
  BY <1>6, <1>7

(* However the reads and the refreshes interleave over all adjustments, no *)
(* nudge takes the position out of the reach of a liquidation, from any    *)
(* price above the target on; and from any below it once the first refresh *)
(* has landed.                                                             *)
THEOREM NudgesDoNotLoseIt ==
  ASSUME RoomForSteps
  PROVE  CushionSpec => []NudgesKeepLiquidatable
<1>1. ASSUME CushionInv, NEW p \in Positions, NEW T \in PromisedTargets("liquidate", p),
             NEW price \in LiquidatePrices(p, PromisedStart(T))
      PROVE  CanLiquidate(p, price)
  <2> DEFINE walk == CHOOSE walk : Walks(p, PromisedStart(T), walk, LiquidateMaxAdjustments)
  <2>1. LiquidateMaxAdjustments \in Nat
    BY DEF LiquidateMaxAdjustments
  <2>2. Walks(p, PromisedStart(T), walk, LiquidateMaxAdjustments)
    BY <2>1, WalksExist
  <2>3. PICK reserve \in walk[LiquidateMaxAdjustments].shown : price = reserve.price
    BY <1>1, WalkIsChosen
  <2> HIDE DEF walk
  <2>4. OnWalk(p, T, reserve)
    BY <1>1, <2>1, <2>2, <2>3, WalkIsHeld
  <2>5. InBand(p, T, T)
    BY <1>1, HeldAtTarget DEF Held
  <2>6. InBand(p, price, T)
    BY <2>3, <2>4, <2>5 DEF OnWalk, Held, PromisedStart, LiquidateStart
  <2> QED
    BY <1>1, <2>6, BandIsLiquidated
<1>2. CushionInv => NudgesKeepLiquidatable
  BY <1>1 DEF NudgesKeepLiquidatable
<1> QED
  BY <1>2, CushionInvariant, PTL

-----------------------------------------------------------------------------
(* The constants of the deployment.                                        *)

(* bootstrapKlendMock.ts gives the SOL reserve 75% and 85%.                *)
ReserveOfStages == LtvPct \in 2 .. 75 /\ LiquidationPct \in 85 .. 90

LEMMA RoomOfStages ==
  ASSUME FractionsOfConsts, WithdrawingMultiplier > 0, ReserveOfStages, IntegersOfStages
  PROVE  RoomForSteps
<1> DEFINE W == WAD
           i == InsuringMultiplier
           x == WithdrawingMultiplier
           l == LiquidationMultiplier
           lw == LtvPct * W
           qw == LiquidationPct * W
           li == LtvPct * i
           lx == LtvPct * x
           ql == LiquidationPct * l
<1>1. /\ W \in Nat \ {0} /\ i \in Nat /\ x \in Nat /\ l \in Nat /\ W >= 25000000000000
      /\ 100 * i = 85 * W /\ 300 * x <= 223 * W /\ 100 * l = 93 * W
      /\ LtvPct \in Nat /\ LtvPct >= 2 /\ LtvPct <= 75
      /\ LiquidationPct \in Nat /\ LiquidationPct >= 85 /\ LiquidationPct <= 90
  BY MultipliersAreNat DEF FractionsOfConsts, ReserveOfStages, IntegersOfStages
<1>2. lw \in Nat /\ qw \in Nat /\ li \in Nat /\ lx \in Nat /\ ql \in Nat
  BY <1>1, ProductInNat
<1>3. 2 * W <= lw /\ lw <= 75 * W /\ 85 * W <= qw /\ qw <= 90 * W
  BY <1>1, MulMonotone
<1>4. 100 * li = 85 * lw /\ 100 * ql = 93 * qw
  <2>1. (100 * i) * LtvPct = 100 * li /\ (85 * W) * LtvPct = 85 * lw
    BY <1>1, Distribute
  <2>2. (100 * l) * LiquidationPct = 100 * ql /\ (93 * W) * LiquidationPct = 93 * qw
    BY <1>1, Distribute
  <2> HIDE DEF i, l, W, li, ql, lw, qw
  <2> QED
    BY <1>1, <2>1, <2>2
<1>5. 300 * lx <= 223 * lw
  <2>1. (300 * x) * LtvPct <= (223 * W) * LtvPct
    BY <1>1, MulMonotone
  <2>2. (300 * x) * LtvPct = 300 * lx /\ (223 * W) * LtvPct = 223 * lw
    BY <1>1, Distribute
  <2> QED
    BY <2>1, <2>2
<1> HIDE DEF W, i, x, l, lw, qw, li, lx, ql
<1>6. /\ 101 * lx + 11 * W <= 100 * li
      /\ 101 * li + 11 * W <= 100 * ql
      /\ 101 * ql <= 8500 * W
      /\ i >= 1000000 /\ l >= 1000000
  BY <1>1, <1>2, <1>3, <1>4, <1>5
<1>7. StepBelow(lx, li) /\ StepBelow(li, ql)
  BY <1>6 DEF StepBelow, W
<1>8. 101 * ql <= 8500 * W /\ i >= 1000000 /\ l >= 1000000 /\ x > 0
  BY <1>6 DEF x
<1> QED
  BY <1>7, <1>8 DEF RoomForSteps, W, i, x, l, li, lx, ql

(* So with the deployed thresholds the simulation does what it is for at   *)
(* every price and debt.                                                   *)
THEOREM ConstsDriveTheKeeper ==
  ASSUME FractionsOfConsts, WithdrawingMultiplier > 0, ReserveOfStages, IntegersOfStages
  PROVE  CushionSpec => [](StageTargetsTrigger /\ NudgesKeepLiquidatable)
<1>1. RoomForSteps
  BY RoomOfStages
<1>2. CushionSpec => []StageTargetsTrigger
  BY <1>1, StagesHitTheirTriggers
<1>3. CushionSpec => []NudgesKeepLiquidatable
  BY <1>1, NudgesDoNotLoseIt
<1> QED
  BY <1>2, <1>3, PTL

=============================================================================
