SPECIFICATION FairSpec
CONSTANTS
  FileIds = {1, 2}
  Byte = 2
  Sizes = {0, 1, 4, 7, 8}
  Modes = {1}
  PermissionSets <- SomePermissions
  Offsets = {0, 4, 8}
  Lists = {"a"}
  Lengths = {3}
  Datas <- NamedDatas
  Contents <- NamedContents
  Zero = Zero
  Standard = 0
  OtherTypes = {1}
  Chunk = 3
  MaxFrameSize = 11
  None = None
INVARIANTS TypeOK ReadSoFar
PROPERTIES Completes IsFileStore
