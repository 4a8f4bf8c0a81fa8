SPECIFICATION FairSpec
CONSTANTS
  Apps = {picc, app}
  Picc = picc
  KeyIds = {0, 1}
  KeyObjs = {o1, o2, o3}
  Secrets = {zeros, other, aes}
  AesKeys = {o3, aes}
  TripleKeys = {}
  Factory = zeros
  Payloads = {p, q}
  FileModes = {"CMAC", "ENCRYPTED"}
  None = None
  Calls = {"authenticate", "select_application", "read_file_data", "change_key", "delete_file"}
  LongAnswers = {"read_file_data"}
  MacsPlain = {"delete_file"}
  MaxCalls = 3
  MaxFaults = 1
  MaxChunks = 2
INVARIANTS AnswerAuthentic ChangeKeyAgrees
PROPERTIES EveryCallReturns RightKeyChanged
