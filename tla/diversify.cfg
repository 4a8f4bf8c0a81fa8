SPECIFICATION Spec
CONSTANTS
  Lists = {l1, l2}
  BaseKeys = {k1, k2}
  Zero = Zero
  Mark = Mark
  Bytes = {Zero, Mark}
  Block = 2
  Full = 4
  MaxLen = 5
  MaxCalls = 3
  Datas <- SmallDatas
INVARIANTS PaddedOnce UniqueKeys SameKeyFromFreshLists
SYMMETRY Symmetry
CHECK_DEADLOCK FALSE
