SPECIFICATION Spec
CONSTANTS
  Zero = Zero
  Mark = Mark
  Byte = Byte
  Others = {Byte}
  Noise = Noise
  None = None
  Block = 4
  HostBlock = 8
  CrcLen = 2
  MaxLen = 4
  Datas <- SmallDatas
  Paddings = {"zeros", "mark"}
INVARIANTS NeverWrong AcceptedExactly
CHECK_DEADLOCK FALSE
