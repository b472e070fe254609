----------------------------- MODULE TimeSeries -----------------------------
(***************************************************************************)
(* Time series (tms.c): a list of points in the order of their times, and  *)
(* TMS_Value, which looks for the segment that a time falls into.  It      *)
(* keeps the index of the segment of the last call in ts->marker and tries *)
(* the segments next to it before findmarker searches all of them.         *)
(*                                                                         *)
(* Only times are kept: which two points are interpolated is what can go   *)
(* wrong.  There is no point at index size, yet both functions compare     *)
(* with its time; what they find there is arbitrary.                       *)
(***************************************************************************)
EXTENDS Integers

CONSTANTS Times,   \* times of points and times asked for
          Sizes    \* numbers of points

ASSUME TimeSeriesAssumption == Times \subseteq Int /\ Sizes \subseteq Nat \ {0, 1}

VARIABLES
  size,    \* ts->size
  points,  \* ts->points[.][0]
  marker,  \* ts->marker
  time,    \* the time asked for
  branch,  \* the value is that of the "first" or of the "last" point or is
           \* interpolated in the "segment" from marker to marker + 1
  pc,      \* "value" between two calls, "search" in findmarker
  low, high

series == <<size, points>>
vars == <<size, points, marker, time, branch, pc, low, high>>

Start == points[0]
End == points[size - 1]

(* TMS_Create asserts that times increase.                                 *)
Init ==
  /\ size \in Sizes
  /\ points \in [0 .. (size - 1) -> Times]
  /\ \A i, j \in 0 .. (size - 1) : i < j => points[i] < points[j]
  /\ marker = 0
  /\ time \in Times
  /\ branch = "none"
  /\ pc = "value"
  /\ low = 0
  /\ high = 0

-----------------------------------------------------------------------------
(* TMS_Value.                                                              *)

Lo == points[IF marker > 0 THEN marker - 1 ELSE marker]
Hi == points[IF marker < size - 1 THEN marker + 1 ELSE marker]

Before(t) ==
  /\ pc = "value"
  /\ t < Start
  /\ time' = t
  /\ branch' = "first"
  /\ UNCHANGED <<series, marker, pc, low, high>>

After(t) ==
  /\ pc = "value"
  /\ t > End
  /\ time' = t
  /\ branch' = "last"
  /\ UNCHANGED <<series, marker, pc, low, high>>

(* Mutant: the marker does not go back.                                    *)
NearKept(t) ==
  /\ pc = "value"
  /\ Start <= t /\ t <= End
  /\ Lo <= t /\ t <= Hi
  /\ time' = t
  /\ branch' = "segment"
  /\ UNCHANGED <<series, marker, pc, low, high>>

(* The time is in a segment next to the marker, which goes back by one or  *)
(* stays.  It never goes forward by one: Hi is the time of the next point. *)
Near(t) ==
  /\ pc = "value"
  /\ Start <= t /\ t <= End
  /\ Lo <= t /\ t <= Hi
  /\ time' = t
  /\ branch' = "segment"
  /\ marker' = IF marker > 0 /\ t < points[marker] THEN marker - 1 ELSE marker
  /\ UNCHANGED <<series, pc, low, high>>

Far(t) ==
  /\ pc = "value"
  /\ Start <= t /\ t <= End
  /\ t < Lo \/ t > Hi
  /\ time' = t
  /\ pc' = "search"
  /\ low' = 0
  /\ high' = size - 1
  /\ UNCHANGED <<series, marker, branch>>

-----------------------------------------------------------------------------
(* The loop of findmarker.                                                 *)

Mid == low + (high - low) \div 2

(* Whether the time is less than that of point i; less is the outcome for  *)
(* the point that does not exist.                                          *)
IsBefore(i, less) == IF i < size THEN time < points[i] ELSE less

Found(less) ==
  /\ pc = "search"
  /\ low <= high
  /\ ~IsBefore(Mid, less) /\ IsBefore(Mid + 1, less)
  /\ marker' = Mid
  /\ branch' = "segment"
  /\ pc' = "value"
  /\ UNCHANGED <<series, time, low, high>>

Lower ==
  /\ pc = "search"
  /\ low <= high
  /\ time < points[Mid]
  /\ high' = Mid - 1
  /\ UNCHANGED <<series, marker, time, branch, pc, low>>

(* Mutant: the search goes on from the middle itself.                      *)
HigherFromMid(less) ==
  /\ pc = "search"
  /\ low <= high
  /\ ~IsBefore(Mid, less) /\ ~IsBefore(Mid + 1, less)
  /\ low' = Mid
  /\ UNCHANGED <<series, marker, time, branch, pc, high>>

Higher(less) ==
  /\ pc = "search"
  /\ low <= high
  /\ ~IsBefore(Mid, less) /\ ~IsBefore(Mid + 1, less)
  /\ low' = Mid + 1
  /\ UNCHANGED <<series, marker, time, branch, pc, high>>

NotFound ==
  /\ pc = "search"
  /\ low > high
  /\ marker' = 0
  /\ branch' = "segment"
  /\ pc' = "value"
  /\ UNCHANGED <<series, time, low, high>>

-----------------------------------------------------------------------------
TMS_Value == \E t \in Times : Before(t) \/ After(t) \/ Near(t) \/ Far(t)

Search ==
  \/ Lower
  \/ \E less \in BOOLEAN : Found(less) \/ Higher(less)
  \/ NotFound

Next == TMS_Value \/ Search

Spec == Init /\ [][Next]_vars

(* A call that has begun goes on.                                          *)
FairSpec == Spec /\ WF_vars(Search)

-----------------------------------------------------------------------------
(* Properties.                                                             *)

TypeOK ==
  /\ size \in Sizes
  /\ points \in [0 .. (size - 1) -> Times]
  /\ marker \in 0 .. (size - 1)
  /\ time \in Times
  /\ branch \in {"none", "first", "last", "segment"}
  /\ pc \in {"value", "search"}
  /\ low \in 0 .. size /\ high \in -1 .. (size - 1)

(* TMS_Value interpolates between the two points around the time, whatever *)
(* the calls before it have left in the marker.                            *)
(*                                                                         *)
(* The time of the last point has to be left out.  The code is wrong       *)
(* there: a search for it compares with what follows the points in memory  *)
(* and ends at the first segment, which is then extrapolated, or at the    *)
(* last point, after which there is none (NotFound and Found with Mid =    *)
(* size - 1).  Calls for other times recover from both.                    *)
SegmentHolds ==
  pc = "value" /\ branch = "segment" /\ time # End =>
    /\ marker < size - 1
    /\ points[marker] <= time /\ time <= points[marker + 1]

(* Every call of TMS_Value returns.                                        *)
SearchEnds == pc = "search" ~> pc = "value"
=============================================================================
