SPECIFICATION Spec
CONSTANTS
  a = a
  b = b
  s1 = s1
  s2 = s2
  Empty = Empty
  None = None
  Names = {a, b}
  Sessions = {s1, s2}
  Modes = {"socket", "http"}
  Tries = 2
SYMMETRY Symmetric
INVARIANTS
  TypeOK
  ActsAsSignedIn
  ActsAsShown
  SignedOutForgets
