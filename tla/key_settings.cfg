SPECIFICATION Spec
CONSTANTS
  KeyTypes = {0, 128}
  KeyCounts = {14, 15}
  Policies = {0, 16, 240}
  Toggled = {8, 15}
  None = None
INVARIANTS TypeOK ProperListArrives
PROPERTY FlagsReported
