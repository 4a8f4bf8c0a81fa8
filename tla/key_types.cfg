SPECIFICATION Spec
CONSTANTS
  KeyObjs = {o1, o2}
  Kinds <- ProperKinds
  CardKinds <- ProperKinds
  Challenges = {}
  Data = {0, 7, 48}
  Stray = {}
  Writes = {}
  None = None
PROPERTY EveryKeyWorks
SYMMETRY Symmetry
