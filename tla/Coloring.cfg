CONSTANT ncpu = 4
SPECIFICATION Spec
INVARIANTS TypeOK ProperColoring NoWastedColor
PROPERTY ColoringEnds
\* the loop of processor_coloring ends
CHECK_DEADLOCK FALSE
