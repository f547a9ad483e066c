------------------------------ MODULE Detectors ------------------------------
(***************************************************************************)
(* The statistical detectors of the ensemble, scoring the last value of a  *)
(* sliding window against the values before it.  Each compares a z-value   *)
(* with a threshold; z-values are ratios here (squared where the code      *)
(* takes a square root), so that every comparison is exact.                *)
(***************************************************************************)
EXTENDS Integers, SequencesExt

CONSTANTS
  Values,           \* what a metric may report
  WindowSize,       \* DETECTION_WINDOW_SIZE
  Sigma,            \* threshold of zscore, ewma and seasonal
  MadHalves,        \* threshold of mad, in halves
  Span, Period

ASSUME DetectorsAssumption ==
  /\ Values \subseteq Int
  /\ WindowSize \in Nat \ {0} /\ Sigma \in Nat \ {0} /\ MadHalves \in Nat \ {0}
  /\ Span \in Nat \ {0, 1} /\ Period \in Nat \ {0, 1}

VARIABLE window     \* the values of one metric, oldest first

WindowInit == window = <<>>

Abs(x) == IF x < 0 THEN -x ELSE x
Total(f, S) == MapThenSumSet(LAMBDA i : f[i], S)

-----------------------------------------------------------------------------
(* A measure is z or its square as num / den; no spread means z = 0. *)

Measure(num, den) == IF den = 0 THEN [num |-> 0, den |-> 1]
                                ELSE [num |-> num, den |-> den]

StandardErrorVariant(r, S, deviation) ==
  LET m == Cardinality(S)
      squares == [i \in S |-> r[i] * r[i]]
  IN  Measure(deviation * deviation * m * m * (m - 1),
              m * Total(squares, S) - Total(r, S) * Total(r, S))

(* The square of deviation / std(sample, ddof=1), for a sample r over S. *)
SquaredZ(r, S, deviation) ==
  LET m == Cardinality(S)
      squares == [i \in S |-> r[i] * r[i]]
  IN  Measure(deviation * deviation * m * (m - 1),
              m * Total(squares, S) - Total(r, S) * Total(r, S))

(* Quiet: too little history. *)
Quiet == Measure(0, 1)

ZScore(h, c) ==
  LET n == Len(h)  scaled == [i \in 1 .. n |-> n * h[i]]
  IN  IF n < 2 THEN Quiet ELSE SquaredZ(scaled, 1 .. n, n * c - Total(h, 1 .. n))

(* The k-th smallest of a sequence, and twice its median. *)
Ranked(s, k) == CHOOSE v \in ToSet(s) :
  /\ Cardinality({i \in DOMAIN s : s[i] < v}) < k
  /\ Cardinality({i \in DOMAIN s : s[i] <= v}) >= k

TwiceMedian(s) == Ranked(s, (Len(s) + 1) \div 2) + Ranked(s, Len(s) \div 2 + 1)

Mad(h, c) ==
  LET twice == TwiceMedian(h)
      away == [i \in DOMAIN h |-> Abs(2 * h[i] - twice)]
  IN  IF Len(h) < 3 THEN Quiet
      ELSE Measure(6745 * Abs(4 * c - 2 * twice), 10000 * TwiceMedian(away))

(* (Span + 1)^k *)
Unit[k \in 0 .. WindowSize] == IF k = 0 THEN 1 ELSE (Span + 1) * Unit[k - 1]

EwmaFromZeroVariant(h) ==
  LET e[i \in 1 .. Len(h)] ==
        IF i = 1 THEN 0
        ELSE 2 * h[i] * Unit[i - 2] + (Span - 1) * e[i - 1]
  IN  e

(* ewma[i] times Unit[i - 1] *)
Ewma(h) ==
  LET e[i \in 1 .. Len(h)] ==
        IF i = 1 THEN h[1]
        ELSE 2 * h[i] * Unit[i - 2] + (Span - 1) * e[i - 1]
  IN  e

EwmaDrift(h, c) ==
  LET n == Len(h)
      unit == Unit[n - 1]
      expected == [i \in 1 .. n |-> Ewma(h)[i] * Unit[n - i]]
      residual == [i \in 1 .. n |-> h[i] * unit - expected[i]]
  IN  IF n < Span THEN Quiet
      ELSE SquaredZ(residual, n - Span + 1 .. n, c * unit - expected[n])

Phase(h, i, period) == {j \in DOMAIN h : (j - i) % period = 0}

(* A moving sum around i; beyond the ends np.convolve pads with zeros. *)
MovingSum(h, i, width) ==
  Total(h, {j \in DOMAIN h : Abs(j - i) <= width \div 2})

Seasonal(h, c) ==
  LET n == Len(h)
      period == Min({Period, Max({2, n \div 3})})
      half == period \div 2
      width == Max({3, IF half % 2 = 1 THEN half ELSE half + 1})
      classes == (n \div period) * (n \div period + 1)
      detrended == [i \in 1 .. n |-> width * h[i] - MovingSum(h, i, width)]
      mean == [i \in 1 .. n |->
                 LET same == Phase(h, i, period)
                 IN  (classes \div Cardinality(same)) * Total(detrended, same)]
      residual == [i \in 1 .. n |-> classes * detrended[i] - mean[i]]
      expected == classes * MovingSum(h, n, width) + mean[n]
  IN  IF n < 2 * period THEN Quiet
      ELSE SquaredZ(residual, 1 .. n, classes * width * c - expected)

-----------------------------------------------------------------------------
(* Verdicts *)

Detectors == {"zscore", "mad", "ewma", "seasonal"}

Z(d, h, c) ==
  CASE d = "zscore" -> ZScore(h, c)
    [] d = "mad" -> Mad(h, c)
    [] d = "ewma" -> EwmaDrift(h, c)
    [] d = "seasonal" -> Seasonal(h, c)

IsAnomaly(d, h, c) ==
  LET z == Z(d, h, c)
  IN  IF d = "mad" THEN 2 * z.num > MadHalves * z.den
                   ELSE z.num > Sigma * Sigma * z.den

(* Whether the score, z / (2 * threshold), is at least tenths / 10. *)
Scores(d, h, c, tenths) ==
  LET z == Z(d, h, c)
  IN  IF d = "mad" THEN 10 * z.num >= tenths * MadHalves * z.den
      ELSE 25 * z.num >= tenths * tenths * Sigma * Sigma * z.den

Severity(d, h, c) ==
  IF ~IsAnomaly(d, h, c) THEN "low"
  ELSE IF Scores(d, h, c, 9) THEN "critical"
  ELSE IF Scores(d, h, c, 7) THEN "high"
  ELSE IF Scores(d, h, c, 5) THEN "medium"
  ELSE "low"

(* A value arrives; the window keeps the last WindowSize. *)
Ingest(v) ==
  LET w == Append(window, v)
  IN  window' = IF Len(w) > WindowSize THEN Tail(w) ELSE w

WindowNext == \E v \in Values : Ingest(v)

WindowSpec == WindowInit /\ [][WindowNext]_window

-----------------------------------------------------------------------------
(* Properties *)

WindowTypeOK == window \in Seq(Values) /\ Len(window) <= WindowSize

Scored == window # <<>>
History == Front(window)
Current == Last(window)
Copies == Cardinality({i \in DOMAIN History : History[i] = Current})

(* A shift of a metric to a new level is absorbed by zscore, mad and ewma: *)
(* once the new value has its share of the history they do not report it   *)
(* again, so none of the three alerts for ever on a lasting shift.  The    *)
(* share is about 1 / (1 + Sigma^2) for zscore.py:17, half of it for       *)
(* mad.py:29-33, and for ewma.py:36-43 the last Span values.  The seasonal *)
(* detector is excluded: it can report even a series that never changes,   *)
(* because seasonal.py:31 pads its trend with zeros.                       *)
LevelIsAbsorbed == Scored =>
  LET n == Len(History)  k == Copies IN
  /\ IsAnomaly("zscore", History, Current)
       => k * n * Sigma * Sigma < (n - k) * (n - 1)
  /\ IsAnomaly("mad", History, Current) => 2 * k <= n
  /\ IsAnomaly("ewma", History, Current)
       => \E i \in n - Span + 1 .. n : History[i] # Current

(* An anomaly and its severity do not depend on the sign or on the origin  *)
(* a metric is reported in: the detectors see differences alone.  The      *)
(* seasonal detector is left out of the shift, the zeros that pad its      *)
(* trend (seasonal.py:31) tie it to the origin.  Nothing is said of the    *)
(* scale: zscore.py:18, mad.py:28 and ewma.py:43 take a spread below 1e-12 *)
(* for none, whatever the unit, and the model knows only a spread of zero. *)
SameInSignAndOrigin == Scored =>
  LET Mapped(op(_)) == [i \in DOMAIN window |-> op(window[i])]
      Same(d, w) == Severity(d, Front(w), Last(w)) = Severity(d, History, Current)
  IN  /\ \A d \in Detectors : Same(d, Mapped(LAMBDA v : -v))
      /\ \A d \in Detectors \ {"seasonal"} : Same(d, Mapped(LAMBDA v : v + 1))

=============================================================================
