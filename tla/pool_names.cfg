SPECIFICATION Spec
CONSTANTS
  Threads = {t1, t2}
  Names <- SharedNames
  MaxNodes = 6
  Null = Null
SYMMETRY ThreadSymmetry
INVARIANTS TypeOK RightQueue DeclaredStays GetReturnsQueue
