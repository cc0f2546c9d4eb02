CONSTANTS
  Families = {f1, f2}
  Tokens = {t1, t2, t3}
  Handlers = {h1, h2}
  MaxResets = 1
  None = None
SPECIFICATION Spec
SYMMETRY Symmetry
INVARIANTS
  OneLiveToken
  RevokedFamilyIsOver
PROPERTIES
  NoRevival
