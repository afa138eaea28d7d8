-------------------------------- MODULE Vegas --------------------------------
(***************************************************************************)
(* The tweaked TCP Vegas (tcp-vegas-tweaked.cc): a congestion window that  *)
(* is set once per round trip from the round trip times of that round, and *)
(* thresholds alpha and beta that move with the throughput.                *)
(*                                                                         *)
(* The socket calls PktsAcked and then IncreaseWindow for an ACK, and      *)
(* CongestionStateSet when it notices or has repaired a loss.  Sequence    *)
(* numbers are kept relative to the last one acknowledged.                 *)
(***************************************************************************)
EXTENDS Integers

CONSTANTS
  SegmentSize,   \* m_segmentSize, in bytes
  Alpha, Beta, Gamma,
  Rtt,           \* the round trip times a sample may show
  Word,          \* the modulus of uint32_t arithmetic
  MaxWindow,     \* bound on the window, in bytes
  MaxFlight,     \* bound on the segments in flight
  MaxAcked,      \* bound on the segments one ACK covers
  MaxSamples     \* bound on m_cntRtt

ASSUME VegasAssumption ==
  /\ {SegmentSize, Alpha, Beta, MaxAcked} \subseteq Nat \ {0}
  /\ {Gamma, MaxFlight} \subseteq Nat
  /\ MaxSamples \in Nat /\ MaxSamples > 2
  /\ Alpha <= Beta
  /\ Rtt \subseteq Nat \ {0}
  /\ MaxWindow \in Nat /\ Word \in Nat
  /\ 2 * SegmentSize <= MaxWindow /\ 4 * MaxWindow < Word

VARIABLES
  cWnd, ssThresh,  \* of TcpSocketState, in bytes
  alpha, beta,     \* m_alpha, m_beta
  baseRtt, minRtt, \* m_baseRtt, m_minRtt
  cntRtt,          \* m_cntRtt
  prevThroughput, currentThroughput, \* a pair: segments, and the time for them
  doingVegasNow,   \* m_doingVegasNow
  flight,          \* m_nextTxSequence - m_lastAckedSeq, in segments
  toGo,            \* m_begSndNxt - m_lastAckedSeq, in segments, or 0 if negative
  acked,           \* the segments IncreaseWindow is about to be told of
  startWnd         \* the window in segments when the round began

samples == <<baseRtt, minRtt, cntRtt>>
throughputs == <<prevThroughput, currentThroughput>>
vars == <<cWnd, ssThresh, alpha, beta, samples, throughputs, doingVegasNow,
          flight, toGo, acked, startWnd>>

TimeMax == -1 \* Time::Max()
Unlimited == Word - 1
Throughput == Nat \X (Nat \ {0})

TypeOK ==
  /\ {cWnd, ssThresh, alpha, beta, cntRtt, flight, toGo, acked, startWnd} \subseteq Nat
  /\ {baseRtt, minRtt} \subseteq Rtt \cup {TimeMax}
  /\ {prevThroughput, currentThroughput} \subseteq Throughput
  /\ doingVegasNow \in BOOLEAN

Zero == <<0, 1>>
Faster(p, q) == p[1] * q[2] > q[1] * p[2]

(* What the copy constructor leaves uninitialised may compare as anything. *)
Indeterminate == {Zero, <<Word, 1>>}

(* A new socket, or one forked from it by the copy constructor.            *)
Init ==
  /\ cWnd = SegmentSize /\ ssThresh = Unlimited
  /\ alpha = Alpha /\ beta = Beta
  /\ baseRtt = TimeMax /\ minRtt = TimeMax /\ cntRtt = 0
  /\ prevThroughput \in Indeterminate /\ currentThroughput \in Indeterminate
  /\ doingVegasNow = TRUE
  /\ flight = 0 /\ toGo = 0 /\ acked = 0 /\ startWnd = 1

-----------------------------------------------------------------------------
Larger(a, b)  == IF a > b THEN a ELSE b
Smaller(a, b) == IF a < b THEN a ELSE b

SegmentsOf(bytes) == bytes \div SegmentSize

(* Mutant: nothing keeps the threshold above the window.                   *)
GetSsThreshUnfloored(wnd) == Smaller(ssThresh, (wnd - SegmentSize) % Word)

(* GetSsThresh, at a window of wnd bytes.                                  *)
GetSsThresh(wnd) ==
  Larger(Smaller(ssThresh, (wnd - SegmentSize) % Word), 2 * SegmentSize)

Earlier(a, b) == IF a = TimeMax THEN b ELSE Smaller(a, b)

Send ==
  /\ flight < MaxFlight
  /\ flight' = flight + 1
  /\ UNCHANGED <<cWnd, ssThresh, alpha, beta, samples, throughputs,
                 doingVegasNow, toGo, acked, startWnd>>

(* The count saturates: it is only asked whether it is above two.          *)
Sample(rtt) ==
  /\ minRtt' = Earlier(minRtt, rtt)
  /\ baseRtt' = Earlier(baseRtt, rtt)
  /\ cntRtt' = Smaller(cntRtt + 1, MaxSamples)

(* An ACK for n segments, at least one: ACKs of less than a segment are    *)
(* not modelled.  No sample is taken from a retransmitted one.             *)
PktsAcked(n) ==
  /\ acked = 0
  /\ n <= flight
  /\ \/ \E rtt \in Rtt : Sample(rtt)
     \/ UNCHANGED samples
  /\ flight' = flight - n
  /\ toGo' = Larger(toGo - n, 0)
  /\ acked' = n
  /\ UNCHANGED <<cWnd, ssThresh, alpha, beta, throughputs, doingVegasNow,
                 startWnd>>

-----------------------------------------------------------------------------
(***************************************************************************)
(* The base class TcpNewReno, as far as the window after it can tell: slow *)
(* start adds up to the acknowledged segments, perhaps only up to the      *)
(* threshold; congestion avoidance some bytes, a segment at the most.      *)
(***************************************************************************)
SlowStart ==
  {cWnd + k * SegmentSize : k \in 1 .. acked}
    \cup {Smaller(cWnd + acked * SegmentSize, ssThresh)}

NewReno ==
  LET slow == IF cWnd < ssThresh THEN SlowStart ELSE {cWnd}
  IN  slow \cup {w + b : w \in {w \in slow : w >= ssThresh}, b \in 0 .. SegmentSize}

(***************************************************************************)
(* IncreaseWindow, per branch.  Each gives the new window in segments, the *)
(* slow start threshold it leaves, and how far alpha and beta move.        *)
(***************************************************************************)
segCwnd == SegmentsOf(cWnd)

(* Truncation of a floating point product: where the quotient is whole,    *)
(* rounding may bring it just below.                                       *)
TargetCwnd ==
  LET exact == (segCwnd * baseRtt) \div minRtt
      whole == (segCwnd * baseRtt) % minRtt = 0 /\ baseRtt # minRtt
  IN  {exact} \cup (IF whole /\ exact > 0 THEN {exact - 1} ELSE {})

Adjust(segs, thresh, move) ==
  /\ cWnd' = segs * SegmentSize
  /\ ssThresh' = Larger(thresh, (3 * cWnd') \div 4)
  /\ alpha' = alpha + move
  /\ beta' = beta + move

(* Too fast for slow start: down to the target, and on in linear mode.     *)
LeaveSlowStart(target) ==
  LET segs == Smaller(segCwnd, target + 1)
  IN  Adjust(segs, GetSsThresh(segs * SegmentSize), 0)

(* What SlowStart adds here is overwritten at once.                        *)
StayInSlowStart == Adjust(segCwnd, ssThresh, 0)

(* alpha < diff <= beta                                                    *)
WithinBand(now) ==
  IF Faster(now, prevThroughput) THEN Adjust(segCwnd + 1, ssThresh, 1)
                                 ELSE Adjust(segCwnd, ssThresh, 0)

(* diff <= alpha                                                           *)
BelowBand(now) ==
  \/ /\ alpha <= 1 \/ Faster(now, prevThroughput)
     /\ Adjust(segCwnd + 1, ssThresh, 0)
  \/ /\ alpha > 1 /\ Faster(prevThroughput, now)
     /\ Adjust((segCwnd - 1) % Word, ssThresh, -1)
  \/ /\ alpha > 1 /\ ~Faster(now, prevThroughput) /\ ~Faster(prevThroughput, now)
     /\ Adjust(segCwnd, ssThresh, 0)

(* Mutant: the thresholds go down without a look at where they are.        *)
AboveBandUnchecked ==
  Adjust((segCwnd - 1) % Word, GetSsThresh(cWnd), -1)

(* Mutant: the whole excess is given up in one round.                      *)
AboveBandAtOnce ==
  Adjust((segCwnd - (beta - alpha)) % Word, GetSsThresh(cWnd),
         IF alpha > 1 THEN -1 ELSE 0)

(* diff > beta                                                             *)
AboveBand ==
  Adjust((segCwnd - 1) % Word, GetSsThresh(cWnd), IF alpha > 1 THEN -1 ELSE 0)

LinearMode(diff, now) ==
  \/ diff > alpha /\ diff <= beta /\ WithinBand(now)
  \/ diff <= alpha /\ BelowBand(now)
  \/ diff > alpha /\ diff > beta /\ AboveBand

(* Enough samples: the window follows the backlog diff.                    *)
VegasRound ==
  LET now == <<segCwnd, minRtt>>
  IN  /\ cntRtt > 2
      /\ \E target \in TargetCwnd :
           LET diff == segCwnd - target
           IN  \/ cWnd < ssThresh /\ diff > Gamma /\ LeaveSlowStart(target)
               \/ cWnd < ssThresh /\ diff <= Gamma /\ StayInSlowStart
               \/ cWnd >= ssThresh /\ LinearMode(diff, now)
      /\ currentThroughput' = now

(* Too few samples: as NewReno.  The throughput is that of an older round. *)
RenoRound ==
  /\ cntRtt <= 2
  /\ cWnd' \in NewReno
  /\ UNCHANGED <<ssThresh, alpha, beta, currentThroughput>>

(* Everything sent before the last round's end is acknowledged.            *)
EndOfRound ==
  /\ doingVegasNow /\ toGo = 0
  /\ VegasRound \/ RenoRound
  /\ toGo' = flight
  /\ cntRtt' = 0 /\ minRtt' = TimeMax
  /\ prevThroughput' = currentThroughput'
  /\ startWnd' = SegmentsOf(cWnd')
  /\ UNCHANGED baseRtt

(* Mutant: the window waits for the end of the round.                      *)
WithinRoundIdle ==
  /\ doingVegasNow /\ toGo > 0
  /\ UNCHANGED <<cWnd, ssThresh, alpha, beta, samples, throughputs, toGo, startWnd>>

WithinRound ==
  /\ doingVegasNow /\ toGo > 0
  /\ IF cWnd < ssThresh THEN cWnd' \in SlowStart ELSE UNCHANGED cWnd
  /\ UNCHANGED <<ssThresh, alpha, beta, samples, throughputs, toGo, startWnd>>

NotVegas ==
  /\ ~doingVegasNow
  /\ cWnd' \in NewReno
  /\ UNCHANGED <<ssThresh, alpha, beta, samples, throughputs, toGo, startWnd>>

IncreaseWindow ==
  /\ acked > 0
  /\ NotVegas \/ WithinRound \/ EndOfRound
  /\ cWnd' <= MaxWindow
  /\ acked' = 0
  /\ UNCHANGED <<flight, doingVegasNow>>

-----------------------------------------------------------------------------
(* Mutant: the round ends where the last ACK found it.                     *)
EnableVegasOldEdge ==
  /\ doingVegasNow' = TRUE
  /\ toGo' = flight - acked
  /\ cntRtt' = 0 /\ minRtt' = TimeMax
  /\ prevThroughput' = Zero /\ currentThroughput' = Zero
  /\ startWnd' = SegmentsOf(cWnd')

(* Mutant: the samples of before the loss are still counted.               *)
EnableVegasCountKept ==
  /\ doingVegasNow' = TRUE
  /\ toGo' = flight
  /\ minRtt' = TimeMax
  /\ prevThroughput' = Zero /\ currentThroughput' = Zero
  /\ startWnd' = SegmentsOf(cWnd')
  /\ UNCHANGED cntRtt

EnableVegas ==
  /\ doingVegasNow' = TRUE
  /\ toGo' = flight
  /\ cntRtt' = 0 /\ minRtt' = TimeMax
  /\ prevThroughput' = Zero /\ currentThroughput' = Zero
  /\ startWnd' = SegmentsOf(cWnd')

(* CA_OPEN: the loss is repaired, and the window is at the threshold after *)
(* fast recovery, or wherever slow start has brought it after a timeout.   *)
CongestionStateOpen ==
  /\ cWnd' \in {cWnd, ssThresh} /\ cWnd' <= MaxWindow
  /\ EnableVegas
  /\ acked' = 0
  /\ UNCHANGED <<ssThresh, alpha, beta, baseRtt, flight>>

(* Any other state: at a loss the socket asks GetSsThresh, and goes on     *)
(* from there or from one segment; a first duplicate ACK (CA_DISORDER)     *)
(* leaves window and threshold as they are.                                *)
CongestionStateLoss ==
  /\ doingVegasNow' = FALSE
  /\ \/ /\ ssThresh' = GetSsThresh(cWnd)
        /\ cWnd' \in {SegmentSize, ssThresh'} /\ cWnd' <= MaxWindow
     \/ UNCHANGED <<cWnd, ssThresh>>
  /\ acked' = 0
  /\ UNCHANGED <<alpha, beta, samples, throughputs, flight, toGo, startWnd>>

Next ==
  \/ Send
  \/ \E n \in 1 .. MaxAcked : PktsAcked(n)
  \/ IncreaseWindow
  \/ CongestionStateOpen
  \/ CongestionStateLoss

Spec == Init /\ [][Next]_vars

-----------------------------------------------------------------------------
(***************************************************************************)
(* Properties.                                                             *)
(***************************************************************************)

(* The window never falls below a segment, where the next step down and    *)
(* GetSsThresh would wrap around to a huge one.  Nothing in IncreaseWindow *)
(* looks at this: only slow start thresholds of two segments and more keep *)
(* a smaller window out of linear mode.                                    *)
NeverCollapses == cWnd >= SegmentSize /\ ssThresh >= 2 * SegmentSize

(* The assertion of IncreaseWindow, segCwnd >= targetCwnd: with any sample *)
(* in the round, minRtt is a time, and not below baseRtt, whatever losses  *)
(* and restarts of Vegas came between.                                     *)
SamplesAreSound ==
  cntRtt > 0 => minRtt # TimeMax /\ baseRtt # TimeMax /\ baseRtt <= minRtt

(* alpha and beta move together, and alpha stays a number of packets that  *)
(* can be in the network: at least one, and never above the window's bound *)
(* though nothing compares the two.                                        *)
BandIsSane ==
  /\ beta - alpha = Beta - Alpha
  /\ alpha >= 1
  /\ alpha <= Larger(Alpha, SegmentsOf(MaxWindow))

(* While Vegas is on and past slow start, the window moves by at most one  *)
(* segment per round, whatever the samples say and whatever a forked       *)
(* socket's uninitialised throughput makes of them.                        *)
LinearSteps ==
  [][IncreaseWindow /\ doingVegasNow /\ toGo = 0 /\ cntRtt > 2 /\ cWnd >= ssThresh
       => SegmentsOf(cWnd') - SegmentsOf(cWnd) \in -1 .. 1]_vars

(* A round of slow start grows the window, though what its last ACK added  *)
(* is overwritten by the window the round computed.                        *)
SlowStartGrows ==
  [][IncreaseWindow /\ doingVegasNow /\ toGo = 0 /\ cntRtt > 2 /\ cWnd < ssThresh
     /\ (\A target \in TargetCwnd : segCwnd - target <= Gamma)
       => SegmentsOf(cWnd') > startWnd]_vars
=============================================================================
