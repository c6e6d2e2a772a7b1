SPECIFICATION Spec
CONSTANTS
  Texts = {"", "a", "b", "c", "q", "r", "0", "1", "7", "other"}
  Uris <- MessageUris
  Methods = {"GET"}
  Tokens = {"t"}
  NoToken = "none"
  RequestCalls <- MessageRequestCalls
  ResponseCalls <- MessageResponseCalls
  MaxOptions = 3
  Asks = {0, 17}
  Payloads = {16, 20}
  Codes = {"2.05"}
INVARIANTS BlockUnlimited
CHECK_DEADLOCK FALSE
