-------------------------- MODULE TimeSeriesProofs --------------------------
(***************************************************************************)
(* Proofs that TMS_Value interpolates in the segment of the time asked     *)
(* for (module TimeSeries), for any times and any numbers of points.       *)
(*                                                                         *)
(* The search keeps the segment of a time before the last point between    *)
(* low and high: it never gets past the last point, so that the value      *)
(* after the points is not looked at, and it never comes to nothing.       *)
(***************************************************************************)
EXTENDS TimeSeries, TLAPS

Increasing == \A i, j \in 0 .. (size - 1) : i < j => points[i] < points[j]

(* What the search knows of the time it looks for.                         *)
Enclosed ==
  pc = "search" /\ time # End =>
    /\ Start <= time /\ time < End
    /\ low <= high
    /\ points[low] <= time
    /\ high < size - 1 => time < points[high + 1]

Inv == TypeOK /\ Increasing /\ Enclosed /\ SegmentHolds

-----------------------------------------------------------------------------
(* The middle of a range lies in it.                                       *)
LEMMA MiddleInRange ==
  ASSUME NEW a \in Int, NEW b \in Int, a <= b
  PROVE  /\ a + (b - a) \div 2 \in Int
         /\ a <= a + (b - a) \div 2
         /\ a + (b - a) \div 2 <= b
BY SMT

(* A series has at least two points, and their times are integers.         *)
LEMMA Points ==
  ASSUME TypeOK
  PROVE  /\ size \in Nat /\ size >= 2
         /\ \A i \in 0 .. (size - 1) : points[i] \in Int
         /\ time \in Int
<1>1. size \in Nat \ {0, 1}
  BY TimeSeriesAssumption DEF TypeOK
<1>2. \A i \in 0 .. (size - 1) : points[i] \in Times
  BY DEF TypeOK
<1>3. time \in Times
  BY DEF TypeOK
<1>4. Times \subseteq Int
  BY TimeSeriesAssumption
<1>5. \A i \in 0 .. (size - 1) : points[i] \in Int
  BY <1>2, <1>4
<1>6. size \in Nat /\ size >= 2
  BY <1>1
<1>7. time \in Int
  BY <1>3, <1>4
<1> QED
  BY <1>5, <1>6, <1>7

LEMMA InitInv == Init => Inv
<1> SUFFICES ASSUME Init PROVE Inv
  OBVIOUS
<1>1. size \in Nat \ {0, 1}
  BY TimeSeriesAssumption DEF Init
<1>2. TypeOK
  BY <1>1 DEF Init, TypeOK
<1> QED
  BY <1>2 DEF Init, Inv, Increasing, Enclosed, SegmentHolds

-----------------------------------------------------------------------------
(* A call outside of the points leaves the marker alone.                   *)
LEMMA OutsideInv ==
  ASSUME Inv, NEW t \in Times, Before(t) \/ After(t)
  PROVE  Inv'
BY DEF Inv, TypeOK, Increasing, Enclosed, SegmentHolds, Before, After, series, End

(* A call near the marker: the segment is the marker's or the one before.  *)
LEMMA NearInv ==
  ASSUME Inv, NEW t \in Times, Near(t)
  PROVE  Inv'
<1> USE DEF Inv
<1>1. /\ size \in Nat /\ size >= 2
      /\ \A i \in 0 .. (size - 1) : points[i] \in Int
      /\ marker \in 0 .. (size - 1)
      /\ t \in Int
  BY Points, TimeSeriesAssumption DEF TypeOK
<1>2. marker' \in 0 .. (size - 1)
  BY <1>1 DEF Near
<1>3. TypeOK' /\ Increasing' /\ Enclosed'
  BY <1>2 DEF TypeOK, Increasing, Enclosed, Near, series
<1>4. ASSUME t # End
      PROVE  /\ marker' < size - 1
             /\ points[marker'] <= t /\ t <= points[marker' + 1]
  <2>1. CASE marker > 0 /\ t < points[marker]
    BY <1>1, <2>1 DEF Near, Lo
  <2>2. CASE marker = 0
    <3>1. Hi = points[1]
      BY <1>1, <2>2 DEF Hi
    <3> QED
      BY <1>1, <2>2, <3>1 DEF Near, Start
  <2>3. CASE marker > 0 /\ ~(t < points[marker])
    <3>1. marker < size - 1
      BY <1>1, <1>4, <2>3 DEF Near, End
    <3>2. Hi = points[marker + 1]
      BY <3>1 DEF Hi
    <3> QED
      BY <1>1, <2>3, <3>1, <3>2 DEF Near
  <2> QED
    BY <1>1, <2>1, <2>2, <2>3
<1>5. SegmentHolds'
  BY <1>4 DEF SegmentHolds, Near, series, End
<1> QED
  BY <1>3, <1>5

(* A search begins with all points.                                        *)
LEMMA FarInv ==
  ASSUME Inv, NEW t \in Times, Far(t)
  PROVE  Inv'
<1> USE DEF Inv
<1>1. /\ size \in Nat /\ size >= 2
      /\ \A i \in 0 .. (size - 1) : points[i] \in Int
      /\ t \in Int
  BY Points, TimeSeriesAssumption
<1>2. TypeOK' /\ Increasing'
  BY <1>1 DEF TypeOK, Increasing, Far, series
<1>3. Enclosed'
  BY <1>1 DEF Enclosed, Far, series, Start, End
<1>4. SegmentHolds'
  BY DEF SegmentHolds, Far
<1> QED
  BY <1>2, <1>3, <1>4

-----------------------------------------------------------------------------
(* The middle of a search that has not come to an end is a point.          *)
LEMMA MidIsPoint ==
  ASSUME TypeOK, low <= high
  PROVE  /\ Mid \in 0 .. (size - 1)
         /\ low <= Mid /\ Mid <= high
<1>1. size \in Nat /\ low \in 0 .. size /\ high \in -1 .. (size - 1)
  BY Points DEF TypeOK
<1>2. Mid \in Int /\ low <= Mid /\ Mid <= high
  BY <1>1, MiddleInRange DEF Mid
<1> QED
  BY <1>1, <1>2

(* The segment in the middle is the one looked for.                        *)
LEMMA FoundInv ==
  ASSUME Inv, NEW less \in BOOLEAN, Found(less)
  PROVE  Inv'
<1> USE DEF Inv
<1>1. /\ size \in Nat /\ size >= 2
      /\ \A i \in 0 .. (size - 1) : points[i] \in Int
      /\ time \in Int
  BY Points
<1>2. Mid \in 0 .. (size - 1)
  BY MidIsPoint DEF Found
<1>3. TypeOK' /\ Increasing' /\ Enclosed'
  BY <1>2 DEF TypeOK, Increasing, Enclosed, Found, series
<1>4. ASSUME time # End
      PROVE  Mid < size - 1 /\ points[Mid] <= time /\ time <= points[Mid + 1]
  <2>1. points[Mid] <= time
    BY <1>1, <1>2 DEF Found, IsBefore
  <2>2. Mid # size - 1
    BY <1>1, <1>4, <2>1 DEF Found, Enclosed, End
  <2> QED
    BY <1>1, <1>2, <2>1, <2>2 DEF Found, IsBefore
<1>5. SegmentHolds'
  BY <1>4 DEF SegmentHolds, Found, series, End
<1> QED
  BY <1>3, <1>5

(* The time is in the lower part of the range.                             *)
LEMMA LowerInv ==
  ASSUME Inv, Lower
  PROVE  Inv'
<1> USE DEF Inv
<1>1. /\ size \in Nat /\ size >= 2
      /\ \A i \in 0 .. (size - 1) : points[i] \in Int
      /\ time \in Int
  BY Points
<1>2. Mid \in 0 .. (size - 1) /\ low <= Mid /\ Mid <= high
  BY MidIsPoint DEF Lower
<1>3. TypeOK' /\ Increasing' /\ SegmentHolds'
  BY <1>1, <1>2 DEF TypeOK, Increasing, SegmentHolds, Lower, series
<1>4. ASSUME time # End
      PROVE  low <= Mid - 1
  <2>1. Mid # low
    BY <1>1, <1>2, <1>4 DEF Lower, Enclosed
  <2> QED
    BY <1>1, <1>2, <2>1 DEF TypeOK
<1>5. Enclosed'
  BY <1>1, <1>2, <1>4 DEF Enclosed, Lower, series, Start, End
<1> QED
  BY <1>3, <1>5

(* The time is in the upper part of the range.                             *)
LEMMA HigherInv ==
  ASSUME Inv, NEW less \in BOOLEAN, Higher(less)
  PROVE  Inv'
<1> USE DEF Inv
<1>1. /\ size \in Nat /\ size >= 2
      /\ \A i \in 0 .. (size - 1) : points[i] \in Int
      /\ time \in Int
  BY Points
<1>2. Mid \in 0 .. (size - 1) /\ low <= Mid /\ Mid <= high
  BY MidIsPoint DEF Higher
<1>3. TypeOK' /\ Increasing' /\ SegmentHolds'
  BY <1>1, <1>2 DEF TypeOK, Increasing, SegmentHolds, Higher, series
<1>4. ASSUME time # End
      PROVE  Mid + 1 <= high /\ points[Mid + 1] <= time
  <2>1. high \in Int /\ time < End
    BY <1>4 DEF TypeOK, Enclosed, Higher
  <2>2. points[Mid] <= time
    BY <1>1, <1>2 DEF Higher, IsBefore
  <2>3. Mid < size - 1
    BY <1>1, <1>2, <2>1, <2>2 DEF End
  <2>4. points[Mid + 1] <= time
    BY <1>1, <1>2, <2>3 DEF Higher, IsBefore
  <2>5. Mid # high
    BY <1>1, <1>2, <1>4, <2>3, <2>4 DEF Enclosed, Higher
  <2> QED
    BY <1>1, <1>2, <2>1, <2>4, <2>5
<1>5. Enclosed'
  BY <1>1, <1>2, <1>4 DEF Enclosed, Higher, series, Start, End
<1> QED
  BY <1>3, <1>5

(* Only a search for the time of the last point finds nothing.             *)
LEMMA NotFoundInv ==
  ASSUME Inv, NotFound
  PROVE  Inv'
<1> USE DEF Inv
<1>1. size \in Nat /\ size >= 2
  BY Points
<1>2. time = End
  BY <1>1 DEF NotFound, Enclosed, TypeOK
<1>3. TypeOK' /\ Increasing' /\ Enclosed'
  BY <1>1 DEF TypeOK, Increasing, Enclosed, NotFound, series
<1>4. SegmentHolds'
  BY <1>2 DEF SegmentHolds, NotFound, series, End
<1> QED
  BY <1>3, <1>4

-----------------------------------------------------------------------------
LEMMA StepInv == Inv /\ [Next]_vars => Inv'
<1> SUFFICES ASSUME Inv, [Next]_vars PROVE Inv'
  OBVIOUS
<1>1. CASE TMS_Value
  BY <1>1, OutsideInv, NearInv, FarInv DEF TMS_Value
<1>2. CASE Search
  BY <1>2, LowerInv, FoundInv, HigherInv, NotFoundInv DEF Search
<1>3. CASE UNCHANGED vars
  BY <1>3 DEF vars, Inv, TypeOK, Increasing, Enclosed, SegmentHolds, Start, End
<1> QED
  BY <1>1, <1>2, <1>3 DEF Next

(* TMS_Value interpolates in the segment of the time asked for, for any    *)
(* series and any sequence of calls, except at the time of the last point. *)
THEOREM SegmentFound == Spec => []SegmentHolds
<1>1. Inv => SegmentHolds
  BY DEF Inv
<1> QED
  BY InitInv, StepInv, <1>1, PTL DEF Spec

(* Type correctness: the marker stays an index of the points, and low and  *)
(* high stay at most one step outside of them.                             *)
THEOREM TimeSeriesTypeCorrect == Spec => []TypeOK
<1>1. Inv => TypeOK
  BY DEF Inv
<1> QED
  BY InitInv, StepInv, <1>1, PTL DEF Spec
=============================================================================
