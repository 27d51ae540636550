SPECIFICATION Spec
CONSTANTS
  Threads = {t1, t2}
  Names <- NestedNames
  MaxNodes = 6
  Null = Null
SYMMETRY ThreadSymmetry
INVARIANT DeclaredFound
