\* Invocations one after the other, each of which may be killed anywhere.
CONSTANTS
  r1 = r1
  r2 = r2
  r3 = r3
  Runs = {r1, r2, r3}
  Prior = Prior
  NoFile = NoFile
  Overlap = FALSE
SPECIFICATION Spec
INVARIANTS
  OutputWhole
PROPERTIES
  NothingStalePublished
  NoReplacementWithoutConsent
  SuccessIsOwnBundle
  ImplementsSlot
