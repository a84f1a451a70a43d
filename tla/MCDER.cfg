CONSTANTS
  Thrown = Thrown
  Prims <- MCPrims
  Pairs <- MCPairs
  MaxSubjects = 2
SPECIFICATION Spec
INVARIANT TypeOK
INVARIANT PrimitivesDecode
INVARIANT SubjectsDecode
