SPECIFICATION Spec
CONSTANTS
  VPages <- MCVPages
  Tabled <- MCTabled
  Frames = {f1, f2}
INVARIANT NoStaleTranslation
