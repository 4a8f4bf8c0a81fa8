SPECIFICATION Spec
CONSTANTS
  Apps = {picc, app}
  Picc = picc
  KeyIds = {0, 1}
  KeyObjs = {o1, o2}
  Secrets = {zeros, other}
  AesKeys = {}
  TripleKeys = {}
  Factory = zeros
  Payloads = {p}
  FileModes = {"ENCRYPTED"}
  None = None
  Calls = {"authenticate", "select_application", "get_file_ids"}
  LongAnswers = {}
  MacsPlain = {}
  MaxCalls = 3
  MaxFaults = 1
  MaxChunks = 1
INVARIANTS PlainAnswerIsData
SYMMETRY Symmetry
