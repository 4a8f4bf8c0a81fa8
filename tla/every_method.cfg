SPECIFICATION Spec
CONSTANTS
  Apps = {picc, app}
  Picc = picc
  KeyIds = {0, 1}
  KeyObjs = {o1}
  Secrets = {zeros}
  AesKeys = {}
  TripleKeys = {}
  Factory = zeros
  Payloads = {p}
  FileModes = {"PLAIN", "CMAC", "ENCRYPTED"}
  None = None
  Calls = {"authenticate", "get_real_uid", "get_card_version", "format_card", "get_key_setting", "get_key_version", "change_key_settings", "change_key", "change_default_key", "get_application_ids", "select_application", "create_application", "delete_application", "get_file_ids", "get_file_settings", "read_file_data", "create_standard_file", "write_file_data", "delete_file"}
  LongAnswers = {"get_application_ids"}
  MacsPlain = {"delete_file"}
  MaxCalls = 4
  MaxFaults = 1
  MaxChunks = 2
INVARIANTS TypeOK InStep BelievedApp
PROPERTY GapHasCause
SYMMETRY Symmetry
