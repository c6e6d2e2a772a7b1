\* Two GETs through one global context, one after the other or at the same time.
SPECIFICATION FairSpec
CONSTANTS
  get1 = get1
  get2 = get2
  put = put
  log = log
  temp = temp
  Reqs = {get1, get2}
  Uris = {log, temp}
  UriOf <- ProxyUris
  Method <- ProxyMethods
  Headers <- ProxyHeaders
  Blocks <- ProxyBlocks
  Binary = {}
  Codes = {"changed", "content", "empty", "not_found", "other"}
  Window = 2
  NoReq = NoReq
  MaxBlock = 3
  MaxBody = 3
INVARIANTS TypeOK ReplyIsItsOwn RepliedOnce
PROPERTIES Answered
CHECK_DEADLOCK FALSE
