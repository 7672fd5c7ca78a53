SPECIFICATION Spec
CONSTANTS
  Areas <- MCAreas
  Codes <- MCCodes
INVARIANT SiblingsFound
