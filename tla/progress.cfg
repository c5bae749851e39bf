\* uint32_t of six bits, a bar of ten units.  The clock stops at ClockMax.
CONSTANTS
  U32 = 64
  U16 = 16
  Scale = 10
  Bases <- MCBases
  Totals <- MCTotals
  ClockMax = 130
SPECIFICATION Spec
INVARIANTS
  BarWithinScale
  FullAtTheEnd
PROPERTIES
  BarNeverGoesBack
