SPECIFICATION FairSpec
CONSTANTS
  M = M
  lost = lost
  hdr = hdr
  main = main
  Files = {main, hdr, lost}
  Root = main
  Missing = {lost}
  Macros = {M}
  Predefined = {}
  Kinds = {"text", "close", "quote", "include", "define", "undef", "ifdef", "ifndef", "else", "endif", "line", "error", "warning", "unknown", "null"}
  Malformed = {"undef", "else", "ifdef"}
  Tails = {"open", "split", "bad"}
  Memory = {3}
  LineNums = {7}
  MaxDepth = 2
  MaxLines = 4
  WellFormed = FALSE
INVARIANTS TypeOK SkipExplained LineTracksSource AlignedOutput LocNearby RefusedAtSeams
PROPERTY Terminates
CHECK_DEADLOCK FALSE
