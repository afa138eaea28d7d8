---------------------------- MODULE VegasProofs ----------------------------
(***************************************************************************)
(* Module Vegas for every segment size, band, set of round trip times and  *)
(* window: what its arithmetic never does.                                 *)
(***************************************************************************)
EXTENDS Vegas, TLAPS

(* What the assumption says of the constants, one by one.                  *)
LEMMA ConstantFacts ==
  /\ SegmentSize \in Nat /\ SegmentSize >= 1
  /\ Alpha \in Nat /\ Alpha >= 1 /\ Beta \in Nat /\ Alpha <= Beta
  /\ Gamma \in Nat
  /\ MaxSamples \in Nat /\ MaxSamples > 2
  /\ MaxWindow \in Nat /\ Word \in Nat
  /\ 2 * SegmentSize <= MaxWindow /\ 4 * MaxWindow < Word
  /\ \A rtt \in Rtt : rtt \in Nat /\ rtt >= 1 /\ rtt # TimeMax
  BY VegasAssumption DEF TimeMax

-----------------------------------------------------------------------------
(***************************************************************************)
(* Bytes and segments.                                                     *)
(***************************************************************************)
LEMMA Products ==
  /\ \A k \in Nat : k * SegmentSize \in Nat
  /\ \A k \in Nat : (k + 1) * SegmentSize = k * SegmentSize + SegmentSize
  /\ \A j, k \in Nat : j <= k => j * SegmentSize <= k * SegmentSize
  /\ \A j, k \in Nat : (j + k) * SegmentSize = j * SegmentSize + k * SegmentSize
  /\ 1 * SegmentSize = SegmentSize
  <1>1. SegmentSize \in Nat
    BY ConstantFacts
  <1>2. ASSUME NEW j \in Nat, NEW k \in Nat, j <= k
        PROVE  j * SegmentSize <= k * SegmentSize
    <2>1. PICK d \in Nat : k = j + d
      <3>1. k - j \in Nat /\ k = j + (k - j)
        BY <1>2
      <3> QED
        BY <3>1
    <2>2. k * SegmentSize = j * SegmentSize + d * SegmentSize
      BY <1>1, <2>1
    <2>3. j * SegmentSize \in Nat /\ d * SegmentSize \in Nat
      BY <1>1
    <2> QED
      BY <2>2, <2>3
  <1> QED
    BY <1>1, <1>2

(* Division by the segment size rounds down.                               *)
LEMMA Rounding ==
  ASSUME NEW a \in Nat
  PROVE  /\ SegmentsOf(a) \in Nat
         /\ SegmentsOf(a) * SegmentSize <= a
         /\ a < (SegmentsOf(a) + 1) * SegmentSize
  BY ConstantFacts DEF SegmentsOf

(* It is the only number that does.                                        *)
LEMMA RoundingUnique ==
  ASSUME NEW a \in Nat, NEW q \in Nat,
         q * SegmentSize <= a, a < (q + 1) * SegmentSize
  PROVE  SegmentsOf(a) = q
  <1> DEFINE r == SegmentsOf(a)
  <1>1. r \in Nat /\ r * SegmentSize <= a /\ a < (r + 1) * SegmentSize
    BY Rounding
  <1> HIDE DEF r
  <1>2. ASSUME NEW j \in Nat, NEW k \in Nat, j < k,
               a < (j + 1) * SegmentSize, k * SegmentSize <= a
        PROVE  FALSE
    <2>1. j + 1 \in Nat /\ j + 1 <= k
      BY <1>2
    <2>2. (j + 1) * SegmentSize <= k * SegmentSize
      BY <2>1, Products
    <2>3. (j + 1) * SegmentSize \in Nat /\ k * SegmentSize \in Nat
      BY <2>1, Products
    <2> QED
      BY <1>2, <2>2, <2>3
  <1>3. ~(r < q) /\ ~(q < r)
    BY <1>1, <1>2
  <1> QED
    BY <1>1, <1>3 DEF r

(* Whole segments of a window: sums, order and small windows.              *)
LEMMA SegmentFacts ==
  /\ \A a \in Nat : SegmentsOf(a) \in Nat
  /\ \A k \in Nat : SegmentsOf(k * SegmentSize) = k
  /\ \A a, k \in Nat : SegmentsOf(a + k * SegmentSize) = SegmentsOf(a) + k
  /\ \A a, b \in Nat : a <= b => SegmentsOf(a) <= SegmentsOf(b)
  /\ \A a \in Nat : a >= SegmentSize => SegmentsOf(a) >= 1
  /\ \A a \in Nat : a >= 2 * SegmentSize => SegmentsOf(a) >= 2
  <1>1. \A a \in Nat : SegmentsOf(a) \in Nat
    BY Rounding
  <1>2. ASSUME NEW k \in Nat
        PROVE  SegmentsOf(k * SegmentSize) = k
    <2>1. k * SegmentSize \in Nat /\ k * SegmentSize < (k + 1) * SegmentSize
      BY Products, ConstantFacts
    <2> QED
      BY <2>1, RoundingUnique
  <1>3. ASSUME NEW a \in Nat, NEW k \in Nat
        PROVE  SegmentsOf(a + k * SegmentSize) = SegmentsOf(a) + k
    <2> DEFINE r == SegmentsOf(a)
               p == r * SegmentSize
               q == k * SegmentSize
    <2>1. r \in Nat /\ p <= a /\ a < (r + 1) * SegmentSize
      BY Rounding
    <2>2. /\ p \in Nat /\ q \in Nat /\ (r + k) * SegmentSize = p + q
          /\ (r + 1) * SegmentSize = p + SegmentSize
          /\ ((r + k) + 1) * SegmentSize = (p + q) + SegmentSize
      <3> HIDE DEF r
      <3>1. r + k \in Nat
        BY <2>1
      <3> QED
        BY <2>1, <3>1, Products
    <2> HIDE DEF r, p, q
    <2>3. /\ a + q \in Nat /\ r + k \in Nat
          /\ (r + k) * SegmentSize <= a + q
          /\ a + q < ((r + k) + 1) * SegmentSize
      BY <2>1, <2>2, ConstantFacts
    <2>4. SegmentsOf(a + q) = r + k
      BY <2>3, RoundingUnique
    <2> QED
      BY <2>4 DEF r, q
  <1>4. ASSUME NEW a \in Nat, NEW b \in Nat, a <= b
        PROVE  SegmentsOf(a) <= SegmentsOf(b)
    <2> DEFINE r == SegmentsOf(a)
               t == SegmentsOf(b)
    <2>1. /\ r \in Nat /\ t \in Nat /\ r * SegmentSize <= a
          /\ b < (t + 1) * SegmentSize
      BY Rounding
    <2> HIDE DEF r, t
    <2>2. ASSUME t + 1 <= r
          PROVE  FALSE
      <3>1. t + 1 \in Nat
        BY <2>1
      <3>2. /\ (t + 1) * SegmentSize <= r * SegmentSize
            /\ (t + 1) * SegmentSize \in Nat /\ r * SegmentSize \in Nat
        BY <2>1, <2>2, <3>1, Products
      <3> QED
        BY <1>4, <2>1, <3>2
    <2>3. r <= t
      BY <2>1, <2>2
    <2> QED
      BY <2>3 DEF r, t
  <1>5. SegmentsOf(SegmentSize) = 1 /\ SegmentsOf(2 * SegmentSize) = 2
    <2>1. SegmentsOf(1 * SegmentSize) = 1 /\ SegmentsOf(2 * SegmentSize) = 2
      BY <1>2
    <2> QED
      BY <2>1, Products
  <1>6. SegmentSize \in Nat /\ 2 * SegmentSize \in Nat
    BY ConstantFacts
  <1>7. \A a \in Nat : a >= SegmentSize => SegmentsOf(a) >= 1
    BY <1>4, <1>5, <1>6
  <1>8. \A a \in Nat : a >= 2 * SegmentSize => SegmentsOf(a) >= 2
    BY <1>4, <1>5, <1>6
  <1> QED
    BY <1>1, <1>2, <1>3, <1>4, <1>7, <1>8

-----------------------------------------------------------------------------
(***************************************************************************)
(* The invariant.  Besides what the runs check: the window is within its   *)
(* bound, which is what bounds alpha; a round trip time of this round is   *)
(* also one of all rounds; and a round of Vegas in slow start has grown    *)
(* the window once per sample but the one of the ACK at hand.              *)
(***************************************************************************)
Paired == minRtt # TimeMax => baseRtt # TimeMax /\ baseRtt <= minRtt

Sampled == cntRtt > 0 => minRtt # TimeMax

Grown ==
  doingVegasNow =>
    /\ segCwnd >= startWnd
    /\ cWnd < ssThresh /\ cntRtt > (IF acked > 0 THEN 1 ELSE 0) =>
         segCwnd > startWnd

Inv ==
  /\ TypeOK
  /\ NeverCollapses
  /\ cWnd <= MaxWindow
  /\ Paired /\ Sampled
  /\ BandIsSane
  /\ Grown

(* The types, one by one.                                                  *)
LEMMA TypeFacts ==
  ASSUME TypeOK
  PROVE  /\ cWnd \in Nat /\ ssThresh \in Nat /\ alpha \in Nat /\ beta \in Nat
         /\ cntRtt \in Nat /\ flight \in Nat /\ toGo \in Nat /\ acked \in Nat
         /\ startWnd \in Nat
         /\ baseRtt \in Rtt \cup {TimeMax} /\ minRtt \in Rtt \cup {TimeMax}
         /\ prevThroughput \in Throughput /\ currentThroughput \in Throughput
         /\ doingVegasNow \in BOOLEAN
  BY DEF TypeOK

(* The window counts between one segment and its bound.                    *)
LEMMA WindowFacts ==
  ASSUME Inv
  PROVE  /\ segCwnd \in Nat /\ segCwnd >= 1
         /\ segCwnd <= SegmentsOf(MaxWindow) /\ SegmentsOf(MaxWindow) \in Nat
         /\ segCwnd * SegmentSize \in Nat /\ segCwnd * SegmentSize <= cWnd
         /\ segCwnd < Word
         /\ cWnd >= ssThresh => segCwnd >= 2
  <1>1. /\ cWnd \in Nat /\ ssThresh \in Nat /\ cWnd >= SegmentSize
        /\ ssThresh >= 2 * SegmentSize /\ cWnd <= MaxWindow
    BY TypeFacts DEF Inv, NeverCollapses
  <1>2. MaxWindow \in Nat /\ SegmentSize \in Nat /\ SegmentSize >= 1
        /\ Word \in Nat /\ MaxWindow < Word
    BY ConstantFacts
  <1>3. segCwnd \in Nat /\ segCwnd * SegmentSize <= cWnd
    BY <1>1, Rounding DEF segCwnd
  <1>4. segCwnd * SegmentSize \in Nat
    BY <1>3, Products
  <1>5. segCwnd >= 1 /\ segCwnd <= SegmentsOf(MaxWindow)
        /\ SegmentsOf(MaxWindow) \in Nat
    BY <1>1, <1>2, SegmentFacts DEF segCwnd
  <1>6. segCwnd <= segCwnd * SegmentSize
    <2> DEFINE k == segCwnd
    <2>1. k \in Nat
      BY <1>3
    <2> HIDE DEF k
    <2>2. PICK d \in Nat : SegmentSize = 1 + d
      <3>1. SegmentSize - 1 \in Nat /\ SegmentSize = 1 + (SegmentSize - 1)
        BY <1>2
      <3> QED
        BY <3>1
    <2>3. k * SegmentSize = k + k * d /\ k * d \in Nat
      BY <2>1, <2>2
    <2>4. k <= k * SegmentSize
      BY <2>1, <2>3
    <2> QED
      BY <2>4 DEF k
  <1>7. segCwnd < Word
    <2> DEFINE p == segCwnd * SegmentSize
    <2>1. p \in Nat /\ p <= cWnd /\ segCwnd <= p
      BY <1>3, <1>4, <1>6
    <2> HIDE DEF p
    <2> QED
      BY <1>1, <1>2, <1>3, <2>1
  <1>8. cWnd >= ssThresh => segCwnd >= 2
    <2>1. ASSUME cWnd >= ssThresh
          PROVE  segCwnd >= 2
      <3>1. cWnd >= 2 * SegmentSize
        BY <1>1, <1>2, <2>1
      <3> QED
        BY <1>1, <3>1, SegmentFacts DEF segCwnd
    <2> QED
      BY <2>1
  <1> QED
    BY <1>3, <1>4, <1>5, <1>7, <1>8

(* The slow start threshold the socket is given.                           *)
LEMMA ThresholdFacts ==
  ASSUME TypeOK, NEW wnd \in Nat, wnd >= SegmentSize, wnd <= MaxWindow
  PROVE  GetSsThresh(wnd) \in Nat /\ GetSsThresh(wnd) >= 2 * SegmentSize
  <1>1. ssThresh \in Nat /\ SegmentSize \in Nat
    BY TypeFacts, ConstantFacts
  <1>2. (wnd - SegmentSize) % Word = wnd - SegmentSize
    <2>1. wnd - SegmentSize \in 0 .. Word - 1
      BY ConstantFacts
    <2> QED
      BY <2>1, ConstantFacts
  <1>3. wnd - SegmentSize \in Nat
    BY <1>1
  <1> QED
    BY <1>1, <1>2, <1>3 DEF GetSsThresh, Larger, Smaller

(* Nor is the target negative.                                             *)
LEMMA TargetFacts ==
  ASSUME Inv, cntRtt > 2
  PROVE  /\ TargetCwnd \subseteq Nat
         /\ minRtt \in Rtt /\ minRtt \in Nat \ {0}
  <1>1. /\ minRtt \in Rtt /\ minRtt \in Nat /\ minRtt >= 1
        /\ baseRtt \in Rtt /\ baseRtt \in Nat
    <2>1. minRtt # TimeMax
      BY TypeFacts DEF Inv, Sampled
    <2>2. baseRtt # TimeMax
      BY <2>1 DEF Inv, Paired
    <2>3. minRtt \in Rtt /\ baseRtt \in Rtt
      BY <2>1, <2>2, TypeFacts DEF Inv
    <2> QED
      BY <2>3, ConstantFacts
  <1>2. segCwnd \in Nat
    BY WindowFacts
  <1> DEFINE exact == (segCwnd * baseRtt) \div minRtt
  <1>3. exact \in Nat
    <2> DEFINE p == segCwnd * baseRtt
    <2>1. p \in Nat
      BY <1>1, <1>2
    <2> HIDE DEF p
    <2>2. p \div minRtt \in Nat
      BY <1>1, <2>1
    <2> QED
      BY <2>2 DEF p
  <1>4. \A target \in TargetCwnd : target = exact \/ (exact > 0 /\ target = exact - 1)
    BY DEF TargetCwnd
  <1> HIDE DEF exact
  <1>5. TargetCwnd \subseteq Nat
    BY <1>3, <1>4
  <1> QED
    BY <1>1, <1>5

-----------------------------------------------------------------------------
(***************************************************************************)
(* A round of Vegas, whatever its branch: how it adjusts the window.       *)
(***************************************************************************)
Sane(segs, thresh, move) ==
  /\ segs \in Nat /\ thresh \in Nat /\ move \in {-1, 0, 1}
  /\ segs >= 1 /\ thresh >= 2 * SegmentSize
  /\ move = -1 => alpha > 1
  /\ move = 1 => alpha < SegmentsOf(MaxWindow)
  /\ cWnd >= ssThresh => segs - segCwnd \in {-1, 0, 1}
  /\ cWnd < ssThresh /\ (\A target \in TargetCwnd : segCwnd - target <= Gamma) =>
       segs = segCwnd

(* Every branch of a round moves window and band within these limits.      *)
LEMMA RoundFacts ==
  ASSUME Inv, VegasRound
  PROVE  \E segs, thresh, move : Adjust(segs, thresh, move) /\ Sane(segs, thresh, move)
  <1> DEFINE now == <<segCwnd, minRtt>>
  <1>1. PICK target \in TargetCwnd :
          \/ cWnd < ssThresh /\ segCwnd - target > Gamma /\ LeaveSlowStart(target)
          \/ cWnd < ssThresh /\ segCwnd - target <= Gamma /\ StayInSlowStart
          \/ cWnd >= ssThresh /\ LinearMode(segCwnd - target, now)
    BY DEF VegasRound
  <1>2. target \in Nat
    BY TargetFacts DEF VegasRound
  <1>3. /\ segCwnd \in Nat /\ segCwnd >= 1 /\ segCwnd <= SegmentsOf(MaxWindow)
        /\ SegmentsOf(MaxWindow) \in Nat /\ segCwnd < Word
        /\ cWnd >= ssThresh => segCwnd >= 2
    BY WindowFacts
  <1>4. /\ cWnd \in Nat /\ ssThresh \in Nat /\ alpha \in Nat /\ beta \in Nat
        /\ cWnd >= SegmentSize /\ cWnd <= MaxWindow
        /\ ssThresh >= 2 * SegmentSize
    BY TypeFacts DEF Inv, NeverCollapses
  <1>5. (segCwnd - 1) % Word = segCwnd - 1 /\ segCwnd - 1 \in Nat
    <2> DEFINE k == segCwnd
    <2>1. k \in Nat /\ k >= 1 /\ k < Word /\ Word \in Nat
      BY <1>3, ConstantFacts
    <2> HIDE DEF k
    <2>2. k - 1 \in Nat /\ k - 1 \in 0 .. Word - 1
      BY <2>1
    <2>3. (k - 1) % Word = k - 1
      BY <2>1, <2>2
    <2> QED
      BY <2>2, <2>3 DEF k
  <1>6. GetSsThresh(cWnd) \in Nat /\ GetSsThresh(cWnd) >= 2 * SegmentSize
    BY <1>4, ThresholdFacts DEF Inv
  <1>7. CASE cWnd < ssThresh /\ segCwnd - target > Gamma /\ LeaveSlowStart(target)
    <2> DEFINE segs == Smaller(segCwnd, target + 1)
               p == segs * SegmentSize
    <2>1. segs \in Nat /\ segs >= 1 /\ segs <= segCwnd
      BY <1>2, <1>3 DEF Smaller
    <2>2. p \in Nat /\ p >= SegmentSize /\ p <= MaxWindow
      <3> HIDE DEF segs
      <3>1. /\ 1 * SegmentSize <= segs * SegmentSize
            /\ segs * SegmentSize <= segCwnd * SegmentSize
            /\ segs * SegmentSize \in Nat /\ 1 * SegmentSize = SegmentSize
        BY <1>3, <2>1, Products
      <3>2. segCwnd * SegmentSize <= cWnd /\ segCwnd * SegmentSize \in Nat
        BY WindowFacts
      <3> DEFINE a == segs * SegmentSize
                 b == segCwnd * SegmentSize
                 o == 1 * SegmentSize
      <3>3. /\ a \in Nat /\ b \in Nat /\ o = SegmentSize /\ o <= a /\ a <= b
            /\ b <= cWnd
        BY <3>1, <3>2
      <3> HIDE DEF a, b, o
      <3>4. a \in Nat /\ a >= SegmentSize /\ a <= MaxWindow
        BY <1>4, <3>3, ConstantFacts
      <3> QED
        BY <3>4 DEF a
    <2> HIDE DEF p
    <2>3. GetSsThresh(p) \in Nat /\ GetSsThresh(p) >= 2 * SegmentSize
      BY <2>2, ThresholdFacts DEF Inv
    <2>4. Adjust(segs, GetSsThresh(p), 0)
      BY <1>7 DEF LeaveSlowStart, p
    <2>5. ~(\A t \in TargetCwnd : segCwnd - t <= Gamma)
      <3>1. segCwnd - target > Gamma
        BY <1>7
      <3> QED
        BY <1>2, <1>3, <3>1, ConstantFacts
    <2> HIDE DEF segs
    <2>6. Sane(segs, GetSsThresh(p), 0)
      BY <1>4, <1>7, <2>1, <2>3, <2>5 DEF Sane
    <2> QED
      BY <2>4, <2>6
  <1>8. CASE cWnd < ssThresh /\ StayInSlowStart
    <2>1. Sane(segCwnd, ssThresh, 0)
      BY <1>3, <1>4, <1>8 DEF Sane
    <2>2. Adjust(segCwnd, ssThresh, 0)
      BY <1>8 DEF StayInSlowStart
    <2> QED
      BY <2>1, <2>2
  <1>9. CASE cWnd >= ssThresh /\ LinearMode(segCwnd - target, now)
    <2> DEFINE diff == segCwnd - target
    <2>1. ~(cWnd < ssThresh) /\ segCwnd >= 2
      BY <1>3, <1>4, <1>9
    <2>2. /\ Sane(segCwnd, ssThresh, 0) /\ Sane(segCwnd + 1, ssThresh, 0)
          /\ alpha > 1 => Sane(segCwnd - 1, ssThresh, -1)
          /\ Sane(segCwnd - 1, GetSsThresh(cWnd), 0)
          /\ alpha > 1 => Sane(segCwnd - 1, GetSsThresh(cWnd), -1)
          /\ alpha < SegmentsOf(MaxWindow) => Sane(segCwnd + 1, ssThresh, 1)
      BY <1>3, <1>4, <1>6, <2>1 DEF Sane
    <2>3. CASE diff > alpha /\ diff <= beta /\ WithinBand(now)
      <3>1. alpha < SegmentsOf(MaxWindow)
        BY <1>2, <1>3, <1>4, <2>3
      <3> QED
        BY <2>2, <2>3, <3>1 DEF WithinBand
    <2>4. CASE diff <= alpha /\ BelowBand(now)
      BY <1>5, <2>2, <2>4 DEF BelowBand
    <2>5. CASE diff > alpha /\ diff > beta /\ AboveBand
      <3>1. Adjust(segCwnd - 1, GetSsThresh(cWnd), IF alpha > 1 THEN -1 ELSE 0)
        BY <1>5, <2>5 DEF AboveBand
      <3>2. CASE alpha > 1
        <4>1. Adjust(segCwnd - 1, GetSsThresh(cWnd), -1)
          BY <3>1, <3>2
        <4> QED
          BY <2>2, <3>2, <4>1
      <3>3. CASE ~(alpha > 1)
        <4>1. Adjust(segCwnd - 1, GetSsThresh(cWnd), 0)
          BY <3>1, <3>3
        <4> QED
          BY <2>2, <4>1
      <3> QED
        BY <3>2, <3>3
    <2> QED
      BY <1>9, <2>3, <2>4, <2>5 DEF LinearMode
  <1> QED
    BY <1>1, <1>7, <1>8, <1>9

(* What the adjustment leaves.                                             *)
LEMMA AdjustFacts ==
  ASSUME Inv, NEW segs, NEW thresh, NEW move,
         Adjust(segs, thresh, move), Sane(segs, thresh, move)
  PROVE  /\ cWnd' \in Nat /\ cWnd' >= SegmentSize /\ SegmentsOf(cWnd') = segs
         /\ ssThresh' \in Nat /\ ssThresh' >= 2 * SegmentSize
         /\ alpha' \in Nat /\ beta' \in Nat /\ BandIsSane'
  <1>1. /\ cWnd' = segs * SegmentSize
        /\ ssThresh' = Larger(thresh, (3 * cWnd') \div 4)
        /\ alpha' = alpha + move /\ beta' = beta + move
    BY DEF Adjust
  <1>2. /\ segs \in Nat /\ thresh \in Nat /\ move \in {-1, 0, 1} /\ segs >= 1
        /\ thresh >= 2 * SegmentSize
        /\ move = -1 => alpha > 1
        /\ move = 1 => alpha < SegmentsOf(MaxWindow)
    BY DEF Sane
  <1>3. cWnd' \in Nat /\ SegmentsOf(cWnd') = segs
    BY <1>1, <1>2, Products, SegmentFacts
  <1>4. cWnd' >= SegmentSize
    <2>1. 1 * SegmentSize <= segs * SegmentSize /\ 1 * SegmentSize = SegmentSize
      BY <1>2, Products
    <2> QED
      BY <1>1, <2>1
  <1>5. ssThresh' \in Nat /\ ssThresh' >= 2 * SegmentSize
    <2> DEFINE q == (3 * cWnd') \div 4
    <2>1. q \in Int
      BY <1>3
    <2>2. ssThresh' = Larger(thresh, q)
      BY <1>1
    <2> HIDE DEF q
    <2> QED
      BY <1>2, <2>1, <2>2, ConstantFacts DEF Larger
  <1>6. /\ alpha \in Nat /\ beta \in Nat /\ beta - alpha = Beta - Alpha
        /\ alpha >= 1 /\ alpha <= Larger(Alpha, SegmentsOf(MaxWindow))
    BY TypeFacts DEF Inv, BandIsSane
  <1>7. SegmentsOf(MaxWindow) \in Nat
    BY ConstantFacts, SegmentFacts
  <1>8. alpha' \in Nat /\ beta' \in Nat
    BY <1>1, <1>2, <1>6, ConstantFacts
  <1>9. BandIsSane'
    BY <1>1, <1>2, <1>6, <1>7, ConstantFacts DEF BandIsSane, Larger
  <1> QED
    BY <1>3, <1>4, <1>5, <1>8, <1>9

(* Slow start adds a segment at least, unless it reaches the threshold.    *)
LEMMA SlowStartFacts ==
  ASSUME Inv, acked > 0, cWnd < ssThresh, NEW w \in SlowStart
  PROVE  /\ w \in Nat /\ w >= cWnd /\ SegmentsOf(w) >= segCwnd
         /\ w < ssThresh => SegmentsOf(w) > segCwnd
  <1>1. /\ cWnd \in Nat /\ ssThresh \in Nat /\ acked \in Nat
        /\ segCwnd = SegmentsOf(cWnd) /\ segCwnd \in Nat
    BY TypeFacts, WindowFacts DEF Inv, segCwnd
  <1>2. ASSUME NEW k \in Nat, k >= 1
        PROVE  /\ cWnd + k * SegmentSize \in Nat
               /\ cWnd + k * SegmentSize >= cWnd
               /\ SegmentsOf(cWnd + k * SegmentSize) > segCwnd
    <2>1. SegmentsOf(cWnd + k * SegmentSize) = SegmentsOf(cWnd) + k
      BY <1>1, SegmentFacts
    <2>2. k * SegmentSize \in Nat
      BY Products
    <2> QED
      BY <1>1, <1>2, <2>1, <2>2
  <1>3. CASE w \in {cWnd + k * SegmentSize : k \in 1 .. acked}
    <2>1. PICK k \in 1 .. acked : w = cWnd + k * SegmentSize
      BY <1>3
    <2>2. k \in Nat /\ k >= 1
      BY <1>1
    <2>3. w \in Nat /\ w >= cWnd /\ SegmentsOf(w) > segCwnd
      BY <1>2, <2>1, <2>2
    <2>4. SegmentsOf(w) \in Nat
      BY <2>3, SegmentFacts
    <2> QED
      BY <1>1, <2>3, <2>4
  <1>4. CASE w = Smaller(cWnd + acked * SegmentSize, ssThresh)
    <2> DEFINE a == cWnd + acked * SegmentSize
    <2>1. a \in Nat /\ a >= cWnd /\ SegmentsOf(a) > segCwnd
      BY <1>1, <1>2
    <2>2. w = Smaller(a, ssThresh)
      BY <1>4
    <2> HIDE DEF a
    <2>3. w = ssThresh \/ w = a
      BY <2>2 DEF Smaller
    <2>4. w \in Nat /\ w >= cWnd
      BY <1>1, <2>1, <2>3
    <2>5. SegmentsOf(w) >= segCwnd
      BY <1>1, <2>4, SegmentFacts
    <2>6. w < ssThresh => SegmentsOf(w) > segCwnd
      BY <1>1, <2>1, <2>3
    <2> QED
      BY <2>4, <2>5, <2>6
  <1> QED
    BY <1>3, <1>4 DEF SlowStart

(* NewReno never shrinks the window.                                       *)
LEMMA NewRenoFacts ==
  ASSUME Inv, acked > 0, NEW w \in NewReno
  PROVE  w \in Nat /\ w >= SegmentSize
  <1>1. /\ cWnd \in Nat /\ SegmentSize \in Nat /\ cWnd >= SegmentSize
    BY TypeFacts, ConstantFacts DEF Inv, NeverCollapses
  <1> DEFINE slow == IF cWnd < ssThresh THEN SlowStart ELSE {cWnd}
  <1>2. \A v \in slow : v \in Nat /\ v >= cWnd
    BY <1>1, SlowStartFacts
  <1> HIDE DEF slow
  <1>3. w \in slow \/ \E v \in slow, b \in 0 .. SegmentSize : w = v + b
    BY DEF NewReno, slow
  <1> QED
    BY <1>1, <1>2, <1>3

-----------------------------------------------------------------------------
(***************************************************************************)
(* The steps.                                                              *)
(***************************************************************************)
LEMMA InvInit == Init => Inv
  <1> SUFFICES ASSUME Init
               PROVE  Inv
    OBVIOUS
  <1>1. /\ SegmentSize \in Nat /\ SegmentSize >= 1 /\ MaxWindow \in Nat
        /\ Word \in Nat /\ 2 * SegmentSize <= MaxWindow /\ 4 * MaxWindow < Word
        /\ Alpha \in Nat /\ Alpha >= 1 /\ Beta \in Nat /\ Alpha <= Beta
    BY ConstantFacts
  <1>2. Word - 1 \in Nat /\ Word - 1 >= 2 * SegmentSize
    BY <1>1
  <1>3. TypeOK
    <2>1. /\ prevThroughput \in Throughput /\ currentThroughput \in Throughput
      BY <1>1 DEF Init, Indeterminate, Zero, Throughput
    <2> QED
      BY <1>1, <1>2, <2>1 DEF Init, TypeOK, Unlimited
  <1>4. NeverCollapses /\ cWnd <= MaxWindow
    BY <1>1, <1>2 DEF Init, NeverCollapses, Unlimited
  <1>5. Paired /\ Sampled
    BY DEF Init, Paired, Sampled
  <1>6. BandIsSane
    <2>1. SegmentsOf(MaxWindow) \in Nat
      BY <1>1, SegmentFacts
    <2> QED
      BY <1>1, <2>1 DEF Init, BandIsSane, Larger
  <1>7. Grown
    <2>1. segCwnd = 1
      <3>1. SegmentsOf(1 * SegmentSize) = 1 /\ 1 * SegmentSize = SegmentSize
        BY SegmentFacts, Products
      <3> QED
        BY <3>1 DEF Init, segCwnd
    <2> QED
      BY <2>1 DEF Init, Grown
  <1> QED
    BY <1>3, <1>4, <1>5, <1>6, <1>7 DEF Inv

(* A segment is sent.                                                      *)
LEMMA InvSend ==
  ASSUME Inv, Send
  PROVE  Inv'
  <1>1. /\ flight' = flight + 1
        /\ UNCHANGED <<cWnd, ssThresh, alpha, beta, baseRtt, minRtt, cntRtt,
                       prevThroughput, currentThroughput, doingVegasNow, toGo,
                       acked, startWnd>>
    BY DEF Send, samples, throughputs
  <1>2. TypeOK'
    BY <1>1 DEF Inv, TypeOK
  <1>3. (NeverCollapses /\ cWnd <= MaxWindow /\ Paired /\ Sampled)'
    BY <1>1 DEF Inv, NeverCollapses, Paired, Sampled
  <1>4. BandIsSane' /\ Grown'
    BY <1>1 DEF Inv, BandIsSane, Grown, segCwnd
  <1> QED
    BY <1>2, <1>3, <1>4 DEF Inv

(* An ACK, with a sample or without.                                       *)
LEMMA InvPktsAcked ==
  ASSUME Inv, NEW n \in 1 .. MaxAcked, PktsAcked(n)
  PROVE  Inv'
  <1>1. /\ acked = 0 /\ acked' = n /\ n <= flight /\ flight' = flight - n
        /\ toGo' = Larger(toGo - n, 0)
        /\ UNCHANGED <<cWnd, ssThresh, alpha, beta, prevThroughput,
                       currentThroughput, doingVegasNow, startWnd>>
    BY DEF PktsAcked, throughputs
  <1>2. /\ n \in Nat /\ n >= 1
        /\ cntRtt \in Nat /\ flight \in Nat /\ toGo \in Nat
        /\ baseRtt \in Rtt \cup {TimeMax} /\ minRtt \in Rtt \cup {TimeMax}
    BY TypeFacts, VegasAssumption DEF Inv
  <1>3. /\ cntRtt' \in Nat /\ cntRtt' <= cntRtt + 1
        /\ baseRtt' \in Rtt \cup {TimeMax} /\ minRtt' \in Rtt \cup {TimeMax}
        /\ Paired' /\ Sampled'
    <2>1. CASE UNCHANGED samples
      BY <1>2, <2>1 DEF samples, Inv, Paired, Sampled
    <2>2. ASSUME NEW rtt \in Rtt, Sample(rtt)
          PROVE  /\ cntRtt' \in Nat /\ cntRtt' <= cntRtt + 1
                 /\ baseRtt' \in Rtt \cup {TimeMax} /\ minRtt' \in Rtt \cup {TimeMax}
                 /\ Paired' /\ Sampled'
      <3>1. /\ minRtt' = Earlier(minRtt, rtt) /\ baseRtt' = Earlier(baseRtt, rtt)
            /\ cntRtt' = Smaller(cntRtt + 1, MaxSamples)
        BY <2>2 DEF Sample
      <3>2. \A r \in Rtt : r \in Nat /\ r # TimeMax
        BY ConstantFacts
      <3>3. minRtt # TimeMax => baseRtt # TimeMax /\ baseRtt <= minRtt
        BY DEF Inv, Paired
      <3>4. /\ minRtt' \in Rtt /\ baseRtt' \in Rtt /\ baseRtt' <= minRtt'
        <4>1. CASE minRtt = TimeMax /\ baseRtt = TimeMax
          BY <1>2, <3>1, <3>2, <4>1 DEF Earlier
        <4>2. CASE minRtt = TimeMax /\ baseRtt # TimeMax
          BY <1>2, <3>1, <3>2, <4>2 DEF Earlier, Smaller
        <4>3. CASE minRtt # TimeMax
          BY <1>2, <3>1, <3>2, <3>3, <4>3 DEF Earlier, Smaller
        <4> QED
          BY <4>1, <4>2, <4>3
      <3>5. cntRtt' \in Nat /\ cntRtt' <= cntRtt + 1
        BY <1>2, <3>1, ConstantFacts DEF Smaller
      <3> QED
        BY <3>2, <3>4, <3>5 DEF Paired, Sampled
    <2> QED
      BY <2>1, <2>2 DEF PktsAcked
  <1>4. flight' \in Nat /\ toGo' \in Nat
    BY <1>1, <1>2 DEF Larger
  <1>5. TypeOK'
    BY <1>1, <1>2, <1>3, <1>4 DEF Inv, TypeOK
  <1>6. NeverCollapses' /\ cWnd' <= MaxWindow /\ BandIsSane'
    BY <1>1 DEF Inv, NeverCollapses, BandIsSane
  <1>7. Grown'
    <2>1. cntRtt' > 1 => cntRtt > 0
      BY <1>2, <1>3
    <2>2. acked' > 0 /\ ~(acked > 0)
      BY <1>1, <1>2
    <2> QED
      BY <1>1, <2>1, <2>2 DEF Inv, Grown, segCwnd
  <1> QED
    BY <1>3, <1>5, <1>6, <1>7 DEF Inv

(* The window after an ACK.                                                *)
LEMMA InvNotVegas ==
  ASSUME Inv, IncreaseWindow, NotVegas
  PROVE  Inv'
  <1>1. /\ ~doingVegasNow /\ cWnd' \in NewReno /\ acked > 0 /\ acked' = 0
        /\ cWnd' <= MaxWindow
        /\ UNCHANGED <<ssThresh, alpha, beta, baseRtt, minRtt, cntRtt,
                       prevThroughput, currentThroughput, doingVegasNow, toGo,
                       flight, startWnd>>
    BY DEF IncreaseWindow, NotVegas, samples, throughputs
  <1>2. cWnd' \in Nat /\ cWnd' >= SegmentSize
    BY <1>1, NewRenoFacts
  <1>3. TypeOK'
    BY <1>1, <1>2 DEF Inv, TypeOK
  <1>4. (NeverCollapses /\ cWnd <= MaxWindow /\ Paired /\ Sampled)'
    BY <1>1, <1>2 DEF Inv, NeverCollapses, Paired, Sampled
  <1>5. BandIsSane' /\ Grown'
    BY <1>1 DEF Inv, BandIsSane, Grown
  <1> QED
    BY <1>3, <1>4, <1>5 DEF Inv

(* An ACK within a round.                                                  *)
LEMMA InvWithinRound ==
  ASSUME Inv, IncreaseWindow, WithinRound
  PROVE  Inv'
  <1>1. /\ doingVegasNow /\ acked > 0 /\ acked' = 0 /\ cWnd' <= MaxWindow
        /\ IF cWnd < ssThresh THEN cWnd' \in SlowStart ELSE cWnd' = cWnd
        /\ UNCHANGED <<ssThresh, alpha, beta, baseRtt, minRtt, cntRtt,
                       prevThroughput, currentThroughput, doingVegasNow, toGo,
                       flight, startWnd>>
    BY DEF IncreaseWindow, WithinRound, samples, throughputs
  <1>2. /\ cWnd \in Nat /\ ssThresh \in Nat /\ cWnd >= SegmentSize
        /\ SegmentSize \in Nat /\ startWnd \in Nat /\ segCwnd \in Nat
        /\ segCwnd >= startWnd
    BY <1>1, TypeFacts, WindowFacts, ConstantFacts DEF Inv, NeverCollapses, Grown
  <1>3. /\ cWnd' \in Nat /\ cWnd' >= cWnd /\ SegmentsOf(cWnd') >= segCwnd
        /\ cWnd' < ssThresh => SegmentsOf(cWnd') > segCwnd
    <2>1. CASE cWnd < ssThresh
      BY <1>1, <2>1, SlowStartFacts
    <2>2. CASE ~(cWnd < ssThresh)
      BY <1>1, <1>2, <2>2 DEF segCwnd
    <2> QED
      BY <2>1, <2>2
  <1>4. SegmentsOf(cWnd') \in Nat
    BY <1>3, SegmentFacts
  <1>5. TypeOK'
    BY <1>1, <1>3 DEF Inv, TypeOK
  <1>6. (NeverCollapses /\ cWnd <= MaxWindow /\ Paired /\ Sampled)'
    BY <1>1, <1>2, <1>3 DEF Inv, NeverCollapses, Paired, Sampled
  <1>7. BandIsSane'
    BY <1>1 DEF Inv, BandIsSane
  <1>8. Grown'
    BY <1>1, <1>2, <1>3, <1>4 DEF Grown, segCwnd
  <1> QED
    BY <1>5, <1>6, <1>7, <1>8 DEF Inv

(* The ACK that ends a round.                                              *)
LEMMA InvEndOfRound ==
  ASSUME Inv, IncreaseWindow, EndOfRound
  PROVE  Inv'
  <1>1. /\ acked > 0 /\ acked' = 0 /\ cWnd' <= MaxWindow /\ toGo' = flight
        /\ cntRtt' = 0 /\ minRtt' = TimeMax
        /\ prevThroughput' = currentThroughput'
        /\ startWnd' = SegmentsOf(cWnd')
        /\ UNCHANGED <<baseRtt, flight, doingVegasNow>>
    BY DEF IncreaseWindow, EndOfRound
  <1>2. /\ cWnd' \in Nat /\ cWnd' >= SegmentSize
        /\ ssThresh' \in Nat /\ ssThresh' >= 2 * SegmentSize
        /\ alpha' \in Nat /\ beta' \in Nat /\ BandIsSane'
        /\ currentThroughput' \in Throughput
    <2>1. CASE VegasRound
      <3>1. PICK segs, thresh, move :
              Adjust(segs, thresh, move) /\ Sane(segs, thresh, move)
        BY <2>1, RoundFacts
      <3>2. currentThroughput' \in Throughput
        <4>1. currentThroughput' = <<segCwnd, minRtt>> /\ cntRtt > 2
          BY <2>1 DEF VegasRound
        <4>2. segCwnd \in Nat /\ minRtt \in Nat \ {0}
          BY <4>1, TargetFacts, WindowFacts
        <4> QED
          BY <4>1, <4>2 DEF Throughput
      <3> QED
        BY <3>1, <3>2, AdjustFacts
    <2>2. CASE RenoRound
      <3>1. /\ cWnd' \in NewReno
            /\ UNCHANGED <<ssThresh, alpha, beta, currentThroughput>>
        BY <2>2 DEF RenoRound
      <3>2. cWnd' \in Nat /\ cWnd' >= SegmentSize
        BY <1>1, <3>1, NewRenoFacts
      <3>3. BandIsSane'
        BY <3>1 DEF Inv, BandIsSane
      <3> QED
        BY <3>1, <3>2, <3>3, TypeFacts DEF Inv, NeverCollapses
    <2> QED
      BY <2>1, <2>2 DEF EndOfRound
  <1>3. SegmentsOf(cWnd') \in Nat
    BY <1>2, SegmentFacts
  <1>4. TypeOK'
    BY <1>1, <1>2, <1>3 DEF Inv, TypeOK
  <1>5. (NeverCollapses /\ cWnd <= MaxWindow /\ Paired /\ Sampled)'
    BY <1>1, <1>2 DEF NeverCollapses, Paired, Sampled
  <1>6. Grown'
    BY <1>1, <1>3 DEF Grown, segCwnd
  <1> QED
    BY <1>2, <1>4, <1>5, <1>6 DEF Inv

(* The loss is repaired: Vegas starts afresh.                              *)
LEMMA InvCongestionStateOpen ==
  ASSUME Inv, CongestionStateOpen
  PROVE  Inv'
  <1>1. /\ cWnd' \in {cWnd, ssThresh} /\ cWnd' <= MaxWindow
        /\ doingVegasNow' = TRUE /\ toGo' = flight /\ cntRtt' = 0
        /\ minRtt' = TimeMax /\ prevThroughput' = Zero /\ currentThroughput' = Zero
        /\ startWnd' = SegmentsOf(cWnd') /\ acked' = 0
        /\ UNCHANGED <<ssThresh, alpha, beta, baseRtt, flight>>
    BY DEF CongestionStateOpen, EnableVegas
  <1>2. /\ cWnd \in Nat /\ ssThresh \in Nat /\ SegmentSize \in Nat
        /\ cWnd >= SegmentSize /\ ssThresh >= 2 * SegmentSize
    BY TypeFacts, ConstantFacts DEF Inv, NeverCollapses
  <1>3. cWnd' \in Nat /\ cWnd' >= SegmentSize
    BY <1>1, <1>2
  <1>4. SegmentsOf(cWnd') \in Nat
    BY <1>3, SegmentFacts
  <1>5. Zero \in Throughput
    BY DEF Zero, Throughput
  <1>6. TypeOK'
    BY <1>1, <1>3, <1>4, <1>5 DEF Inv, TypeOK
  <1>7. (NeverCollapses /\ cWnd <= MaxWindow /\ Paired /\ Sampled)'
    BY <1>1, <1>2, <1>3 DEF NeverCollapses, Paired, Sampled
  <1>8. BandIsSane' /\ Grown'
    BY <1>1, <1>4 DEF Inv, BandIsSane, Grown, segCwnd
  <1> QED
    BY <1>6, <1>7, <1>8 DEF Inv

(* A loss: Vegas is off.                                                   *)
LEMMA InvCongestionStateLoss ==
  ASSUME Inv, CongestionStateLoss
  PROVE  Inv'
  <1>1. /\ doingVegasNow' = FALSE /\ acked' = 0
        /\ \/ /\ ssThresh' = GetSsThresh(cWnd)
              /\ cWnd' \in {SegmentSize, ssThresh'} /\ cWnd' <= MaxWindow
           \/ UNCHANGED <<cWnd, ssThresh>>
        /\ UNCHANGED <<alpha, beta, baseRtt, minRtt, cntRtt, prevThroughput,
                       currentThroughput, flight, toGo, startWnd>>
    BY DEF CongestionStateLoss, samples, throughputs
  <1>2. cWnd \in Nat /\ cWnd >= SegmentSize /\ cWnd <= MaxWindow
    BY TypeFacts DEF Inv, NeverCollapses
  <1>3. ssThresh' \in Nat /\ ssThresh' >= 2 * SegmentSize
    BY <1>1, <1>2, TypeFacts, ThresholdFacts DEF Inv, NeverCollapses
  <1>4. cWnd' \in Nat /\ cWnd' >= SegmentSize /\ cWnd' <= MaxWindow
    BY <1>1, <1>2, <1>3, ConstantFacts
  <1>5. TypeOK'
    <2>1. /\ acked' \in Nat /\ doingVegasNow' \in BOOLEAN
          /\ UNCHANGED <<alpha, beta, baseRtt, minRtt, cntRtt, prevThroughput,
                         currentThroughput, flight, toGo, startWnd>>
      BY <1>1
    <2>2. cWnd' \in Nat /\ ssThresh' \in Nat
      BY <1>3, <1>4
    <2> QED
      BY <2>1, <2>2, TypeFacts DEF Inv, TypeOK
  <1>6. (NeverCollapses /\ cWnd <= MaxWindow /\ Paired /\ Sampled)'
    BY <1>1, <1>3, <1>4 DEF Inv, NeverCollapses, Paired, Sampled
  <1>7. BandIsSane' /\ Grown'
    BY <1>1 DEF Inv, BandIsSane, Grown
  <1> QED
    BY <1>5, <1>6, <1>7 DEF Inv

(* One case per action.                                                    *)
LEMMA InvNext == Inv /\ [Next]_vars => Inv'
  <1> SUFFICES ASSUME Inv, [Next]_vars
               PROVE  Inv'
    OBVIOUS
  <1>1. CASE UNCHANGED vars
    <2>1. UNCHANGED <<cWnd, ssThresh, alpha, beta, baseRtt, minRtt, cntRtt,
                      prevThroughput, currentThroughput, doingVegasNow, flight,
                      toGo, acked, startWnd>>
      BY <1>1 DEF vars, samples, throughputs
    <2>2. TypeOK'
      BY <2>1 DEF Inv, TypeOK
    <2>3. (NeverCollapses /\ cWnd <= MaxWindow /\ Paired /\ Sampled)'
      BY <2>1 DEF Inv, NeverCollapses, Paired, Sampled
    <2>4. BandIsSane' /\ Grown'
      BY <2>1 DEF Inv, BandIsSane, Grown, segCwnd
    <2> QED
      BY <2>2, <2>3, <2>4 DEF Inv
  <1>2. CASE Send
    BY <1>2, InvSend
  <1>3. ASSUME NEW n \in 1 .. MaxAcked, PktsAcked(n)
        PROVE  Inv'
    BY <1>3, InvPktsAcked
  <1>4. CASE IncreaseWindow
    BY <1>4, InvNotVegas, InvWithinRound, InvEndOfRound DEF IncreaseWindow
  <1>5. CASE CongestionStateOpen
    BY <1>5, InvCongestionStateOpen
  <1>6. CASE CongestionStateLoss
    BY <1>6, InvCongestionStateLoss
  <1> QED
    BY <1>1, <1>2, <1>3, <1>4, <1>5, <1>6 DEF Next

(* The invariant holds in every reachable state.                           *)
LEMMA InvAlways == Spec => []Inv
  BY InvInit, InvNext, PTL DEF Spec

-----------------------------------------------------------------------------
(* Every variable keeps its type.                                          *)
THEOREM VegasTypeCorrect == Spec => []TypeOK
  BY InvAlways, PTL DEF Inv

(* The window never falls below a segment nor the slow start threshold     *)
(* below two, although IncreaseWindow takes a segment off without a look   *)
(* and GetSsThresh subtracts one from an unsigned number.                  *)
THEOREM WindowNeverCollapses == Spec => []NeverCollapses
  BY InvAlways, PTL DEF Inv

(* The assertion of IncreaseWindow holds: with any sample in the round,    *)
(* minRtt is a time and not below baseRtt, whatever losses and restarts    *)
(* of Vegas came between (PktsAcked, EnableVegas).                         *)
THEOREM VegasSamplesAreSound == Spec => []SamplesAreSound
  <1>1. Inv => SamplesAreSound
    BY DEF Inv, Paired, Sampled, SamplesAreSound
  <1> QED
    BY <1>1, InvAlways, PTL

(* alpha and beta keep their distance, alpha is a packet at least and at   *)
(* most what the window or its first value allows (IncreaseWindow).        *)
THEOREM VegasBandIsSane == Spec => []BandIsSane
  BY InvAlways, PTL DEF Inv

(* Past slow start a round of Vegas moves the window by one segment at the *)
(* most, whatever the samples and a forked socket's uninitialised          *)
(* throughput are (IncreaseWindow).                                        *)
THEOREM WindowMovesLinearly == Spec => LinearSteps
  <1>1. Inv /\ [Next]_vars =>
          [IncreaseWindow /\ doingVegasNow /\ toGo = 0 /\ cntRtt > 2 /\ cWnd >= ssThresh
             => SegmentsOf(cWnd') - SegmentsOf(cWnd) \in -1 .. 1]_vars
    <2> SUFFICES ASSUME Inv, IncreaseWindow, doingVegasNow, toGo = 0, cntRtt > 2,
                        cWnd >= ssThresh
                 PROVE  SegmentsOf(cWnd') - SegmentsOf(cWnd) \in -1 .. 1
      OBVIOUS
    <2>1. VegasRound
      <3>1. toGo \in Nat /\ cntRtt \in Nat
        BY TypeFacts DEF Inv
      <3> QED
        BY <3>1 DEF IncreaseWindow, NotVegas, WithinRound, EndOfRound, RenoRound
    <2>2. PICK segs, thresh, move :
            Adjust(segs, thresh, move) /\ Sane(segs, thresh, move)
      BY <2>1, RoundFacts
    <2>3. SegmentsOf(cWnd') = segs
      BY <2>2, AdjustFacts
    <2>4. segs - segCwnd \in {-1, 0, 1}
      BY <2>2 DEF Sane
    <2> QED
      BY <2>3, <2>4 DEF segCwnd
  <1> QED
    BY <1>1, InvAlways, PTL DEF Spec, LinearSteps

(* A round of slow start grows the window, although what its last ACK      *)
(* added is overwritten (IncreaseWindow).                                  *)
THEOREM SlowStartNeverStalls == Spec => SlowStartGrows
  <1>1. Inv /\ [Next]_vars =>
          [IncreaseWindow /\ doingVegasNow /\ toGo = 0 /\ cntRtt > 2 /\ cWnd < ssThresh
           /\ (\A target \in TargetCwnd : segCwnd - target <= Gamma)
             => SegmentsOf(cWnd') > startWnd]_vars
    <2> SUFFICES ASSUME Inv, IncreaseWindow, doingVegasNow, toGo = 0, cntRtt > 2,
                        cWnd < ssThresh,
                        \A target \in TargetCwnd : segCwnd - target <= Gamma
                 PROVE  SegmentsOf(cWnd') > startWnd
      OBVIOUS
    <2>1. VegasRound /\ acked > 0
      <3>1. toGo \in Nat /\ cntRtt \in Nat
        BY TypeFacts DEF Inv
      <3> QED
        BY <3>1 DEF IncreaseWindow, NotVegas, WithinRound, EndOfRound, RenoRound
    <2>2. PICK segs, thresh, move :
            Adjust(segs, thresh, move) /\ Sane(segs, thresh, move)
      BY <2>1, RoundFacts
    <2>3. SegmentsOf(cWnd') = segs
      BY <2>2, AdjustFacts
    <2>4. segs = segCwnd
      BY <2>2 DEF Sane
    <2>5. segCwnd > startWnd
      <3>1. cntRtt > 1
        BY TypeFacts DEF Inv
      <3> QED
        BY <2>1, <3>1 DEF Inv, Grown
    <2> QED
      BY <2>3, <2>4, <2>5
  <1> QED
    BY <1>1, InvAlways, PTL DEF Spec, SlowStartGrows
=============================================================================
