-------------------------------- MODULE Meters --------------------------------
(***************************************************************************)
(* The meter scales of internal/rig/cal.go: what a raw reading of the      *)
(* radio, 0 to 255, is shown as.  Each meter has a table of points and is  *)
(* linear between them and level beyond; a value between two points is an  *)
(* exact fraction here, a float64 in the code, which is exact wherever the *)
(* rounding looks.                                                         *)
(***************************************************************************)
EXTENDS Integers, Sequences

\* The tables: raw reading, value.
ALCCal == << <<0, 0>>, <<64, 100>> >>
PowerCal == << <<0, 0>>, <<148, 50>>, <<255, 100>> >>
\* in hundredths
SWRCal == << <<12, 100>>, <<39, 135>>, <<65, 150>>, <<89, 200>>, <<242, 500>> >>
SMeterCal ==
    << <<0, -60>>, <<17, -54>>, <<25, -48>>, <<34, -42>>, <<51, -36>>, <<68, -30>>,
       <<85, -24>>, <<102, -18>>, <<119, -12>>, <<136, -6>>, <<160, 0>>, <<255, 60>> >>

Fraction(num, den) == [num |-> num, den |-> den]

\* On the line through two points.
Between(p, q, raw) ==
    Fraction(p[2] * (q[1] - p[1]) + (q[2] - p[2]) * (raw - p[1]), q[1] - p[1])

Interp(points, raw) ==
    IF raw <= points[1][1] THEN Fraction(points[1][2], 1)
    ELSE IF raw > points[Len(points)][1] THEN Fraction(points[Len(points)][2], 1)
    ELSE LET i == CHOOSE j \in 2..Len(points) : points[j - 1][1] < raw /\ raw <= points[j][1]
         IN  Between(points[i - 1], points[i], raw)

\* int(x + 0.5) of what is not negative; int(x) goes towards zero.
Nearest(x) == (2 * x.num + x.den) \div (2 * x.den)
TowardsZero(x) == IF x.num >= 0 THEN x.num \div x.den ELSE -((-x.num) \div x.den)

SWRRatio(raw) == Interp(SWRCal, raw)
ALCPercent(raw) == Nearest(Interp(ALCCal, raw))
PowerMeterPercent(raw) == Nearest(Interp(PowerCal, raw))
SMeterDb(raw) == TowardsZero(Interp(SMeterCal, raw))

\* What an operator says: S0 to S9, and so many tens of dB over it.
SUnit(db) ==
    IF db >= 0 THEN [s |-> 9, over |-> ((db + 5) \div 10) * 10]
    ELSE LET s == 9 - ((-db + 3) \div 6) IN [s |-> IF s < 0 THEN 0 ELSE s, over |-> 0]
-----------------------------------------------------------------------------
(* What TLC evaluates, for every reading the radio can give.               *)

Raw == 0..255

\* a <= b of two fractions.
AtMost(a, b) == a.num * b.den <= b.num * a.den
Whole(n) == Fraction(n, 1)

\* A scale goes through its points, never goes down, and stays between the two
\* points a reading lies between: it is not raw/255 (cal.go:7-9).
FollowsItsTable(points) ==
    /\ \A i \in DOMAIN points :
          LET y == Interp(points, points[i][1])
          IN  AtMost(y, Whole(points[i][2])) /\ AtMost(Whole(points[i][2]), y)
    /\ \A raw \in Raw : AtMost(Interp(points, raw), Interp(points, raw + 1))

ScalesFollowTheirTables ==
    \A points \in {ALCCal, PowerCal, SWRCal, SMeterCal} : FollowsItsTable(points)

\* Raw 64 is full scale for the ALC, 255 for the power (cal.go:37-52).
FullScale ==
    /\ ALCPercent(64) = 100 /\ \A raw \in Raw : ALCPercent(raw) = 100 => raw >= 64
    /\ PowerMeterPercent(255) = 100 /\ PowerMeterPercent(148) = 50
    /\ \A raw \in Raw : PowerMeterPercent(raw) = 100 => raw >= 253

\* The signal report never goes down as the signal goes up, S9 is raw 160, and
\* every report there is can be had (cal.go:56-61, 71-87).
Report(raw) == LET u == SUnit(SMeterDb(raw)) IN u.s * 100 + u.over
ReportFollowsSignal ==
    /\ \A raw \in Raw : Report(raw) <= Report(raw + 1)
    /\ SMeterDb(160) = 0 /\ Report(159) = 900 /\ Report(160) = 900
    /\ {Report(raw) : raw \in Raw} =
          {100 * s : s \in 0..9} \cup {900 + 10 * k : k \in 1..6}
=============================================================================
