SPECIFICATION Spec
CONSTANTS
  KeyObjs = {o1, o2}
  Kinds <- AllKinds
  CardKinds <- ProperKinds
  Challenges = {2, 16}
  Data = {0, 7, 48}
  Stray = {4, 20}
  Writes = {1, 44, 52}
  None = None
INVARIANTS TypeOK SessionFits RefusedInTime WholeKeySent
PROPERTIES TestedKeysWork OnlyShortAnswersShortenIv OnlyWritesTooLong
SYMMETRY Symmetry
