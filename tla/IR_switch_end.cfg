SPECIFICATION Spec
CONSTANTS
  Kinds = {"expr", "switch", "case"}
  Exprs = {"plain"}
  LastActs = {}
  Labels = {}
  Vals = {"1"}
  MaxSize = 3
  MaxDepth = 2
  MaxFuncs = 1
INVARIANT NoUnterminatedBlock
CHECK_DEADLOCK FALSE
