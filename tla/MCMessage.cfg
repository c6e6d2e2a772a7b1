SPECIFICATION Spec
CONSTANTS
  Texts = {"", "a", "b", "c", "q", "r", "0", "1", "7", "other"}
  Uris <- MessageUris
  Methods = {"GET"}
  Tokens = {"t", "u"}
  NoToken = "none"
  RequestCalls <- MessageRequestCalls
  ResponseCalls <- MessageResponseCalls
  MaxOptions = 3
  Asks = {16, 17}
  Payloads = {16, 20}
  Codes = {"2.05"}
INVARIANTS TypeOK RequestArrives AnswerArrives
PROPERTIES PayloadFitsBlock
CHECK_DEADLOCK FALSE
