\* Widths of 2, 3 and 4 bits stand for 8, 32 and 64; every operation of the
\* middle node, literals around the first powers of two.
SPECIFICATION Spec
CONSTANTS
  W8 = 2
  W32 = 3
  W64 = 4
  Tys = {"I8", "I32", "U32", "U64"}
  Casts = {"I8", "U32", "U64"}
  Literals = {1, 2}
  FirstOps = {"ADD", "SUB", "MUL", "DIV", "REM", "SHL", "SHR", "XOR", "AND", "LT"}
  LastOps = {"LT", "REM"}
INVARIANT TypeOK
PROPERTY RewritingKeepsValue
PROPERTY Settles
CHECK_DEADLOCK FALSE
