SPECIFICATION Spec
CONSTANTS
  M = M
  hdr = hdr
  main = main
  Files = {main, hdr}
  Root = main
  Missing = {}
  Macros = {M}
  Predefined = {M}
  Kinds = {"text", "quote", "define", "undef", "ifdef", "else", "endif", "include"}
  Malformed = {}
  Tails = {"split"}
  Memory = {}
  LineNums = {}
  MaxDepth = 1
  MaxLines = 7
  WellFormed = TRUE
PROPERTY KeepsGroups
CHECK_DEADLOCK FALSE
