\* Multiplications by a literal on either side.
SPECIFICATION Spec
CONSTANTS
  W8 = 2
  W32 = 3
  W64 = 4
  Tys = {"I32"}
  Casts = {"I32"}
  Literals = {1, 2}
  FirstOps = {"MUL"}
  LastOps = {"ADD"}
PROPERTY MulByPowerOf2
CHECK_DEADLOCK FALSE
