\* Two GETs at the same time, one of which is never answered.
SPECIFICATION FairSpec
CONSTANTS
  get1 = get1
  get2 = get2
  put = put
  log = log
  temp = temp
  Reqs = {get1, get2}
  Uris = {log, temp}
  UriOf <- ProxyUris
  Method <- ProxyMethods
  Headers <- ProxyHeaders
  Blocks <- ProxyBlocks
  Binary = {}
  Codes = {"content"}
  Window = 2
  NoReq = NoReq
  MaxBlock = 3
  MaxBody = 3
PROPERTY AnsweredAlways
CHECK_DEADLOCK FALSE
