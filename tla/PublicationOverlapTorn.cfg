\* Two invocations at the same time: is what is at OUTPUT a whole bundle?
CONSTANTS
  r1 = r1
  r2 = r2
  Runs = {r1, r2}
  Prior = Prior
  NoFile = NoFile
  Overlap = TRUE
SYMMETRY RunSymmetry
SPECIFICATION Spec
INVARIANT
  OutputWhole
