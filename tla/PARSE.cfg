SPECIFICATION Spec
CONSTANTS
  Programs <- Units
INVARIANT TypeOK
INVARIANT ParsedAsWritten
INVARIANT LookaheadFresh
