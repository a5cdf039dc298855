SPECIFICATION Spec
CONSTANTS
  W8 = 2
  W32 = 8
  W64 = 16
  Programs <- Units
  VarTypes <- Types0
  Initial <- Initial0
  FuncTypes <- Functions0
  Result <- Result0
INVARIANT TypeOK
INVARIANT LegalCode
INVARIANT DeclaredAsC
PROPERTY ActsAsC
CHECK_DEADLOCK FALSE
