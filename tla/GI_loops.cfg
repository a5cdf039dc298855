SPECIFICATION Spec
CONSTANTS
  Free = {1, 2, 3, 4}
  Line = {5, 6, 7, 8, 9, 10}
  MaxFreeArcs = 7
  MaxLineArcs = 8
INVARIANT TypeOK
INVARIANT SemiCorrect
INVARIANT DomCorrect
INVARIANT ImproperIffIrreducible
INVARIANT LoopsNatural
INVARIANT LoopsNest
INVARIANT OuterEncloses
CHECK_DEADLOCK FALSE
