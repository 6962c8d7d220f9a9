SPECIFICATION MCSpec
CONSTANTS
  a = a  b = b  c = c  d = d  e = e
  Graphs <- MCGraphs
INVARIANT NodesAreEarned
PROPERTIES WhatIsOverStays GraphEnds
CHECK_DEADLOCK FALSE
