\* A response 2.01 (Created).
SPECIFICATION Spec
CONSTANTS
  get1 = get1
  get2 = get2
  put = put
  log = log
  temp = temp
  Reqs = {put}
  Uris = {log, temp}
  UriOf <- ProxyUris
  Method <- ProxyMethods
  Headers <- ProxyHeaders
  Blocks <- ProxyBlocks
  Binary = {}
  Codes = {"created"}
  Window = 2
  NoReq = NoReq
  MaxBlock = 3
  MaxBody = 3
INVARIANT RepliedOnceAlways
CHECK_DEADLOCK FALSE
