SPECIFICATION Spec
CONSTANTS
  Kinds = {"expr", "decl", "use", "if", "while", "for", "compound", "break", "continue"}
  Exprs = {"or", "cond"}
  LastActs = {"const"}
  Labels = {}
  Vals = {}
  MaxSize = 4
  MaxDepth = 2
  MaxFuncs = 1
INVARIANTS SelectedOpen AllocDominatesUse DeclaredOutsideLoops
CHECK_DEADLOCK FALSE
