SPECIFICATION Spec
CONSTANTS
  Kinds = {"expr", "if", "ifelse", "while", "do", "for", "break", "continue", "return", "badswitch", "switch", "case", "default", "goto", "label"}
  Exprs = {"plain"}
  LastActs = {"plain"}
  Labels = {"L", "M"}
  Vals = {"1"}
  MaxSize = 4
  MaxDepth = 2
  MaxFuncs = 2
INVARIANTS TypeOK ControlsMatchFrames FlowMatchesC BlocksAccounted ScopesBalanced
PROPERTY SealedStaysSealed
CHECK_DEADLOCK FALSE
