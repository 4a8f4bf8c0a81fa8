SPECIFICATION Spec
CONSTANTS
  Apps = {picc, app}
  Picc = picc
  KeyIds = {0, 1}
  KeyObjs = {o1, o2}
  Secrets = {zeros, other}
  AesKeys = {}
  TripleKeys = {}
  Factory = zeros
  Payloads = {p}
  FileModes = {"ENCRYPTED"}
  None = None
  Calls = {"authenticate", "get_real_uid", "get_key_setting", "select_application", "change_key", "delete_file"}
  LongAnswers = {"get_key_setting"}
  MacsPlain = {"delete_file", "format_card", "read_file_data"}
  MaxCalls = 4
  MaxFaults = 2
  MaxChunks = 1
INVARIANTS AuthAgreement SessionAgreement Protocol RightKeyProves
PROPERTIES NothingMissed EncryptedResyncs
SYMMETRY Symmetry
