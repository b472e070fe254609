\* Series of two to five points, times at, between and outside of them.
CONSTANTS
  Times = {0, 1, 2, 3, 4, 5, 6}
  Sizes = {2, 3, 4, 5}
SPECIFICATION FairSpec
INVARIANT SegmentHolds
PROPERTY SearchEnds
