SPECIFICATION Spec
CONSTANTS
  lower = lower
  upper = upper
  text = text
  xml = xml
  any = any
  Uris = {lower, upper}
  Fold <- ResourceFold
  MediaTypes = {text, xml}
  AnyType = any
  Etags = {1, 2}
  NoEtag = 0
  Sizes = {7, 8}
  Attrs <- ResourceAttrs
  Queries <- ResourceQueries
  NoRes = NoRes
  LinkLen <- ResourceLinkLen
  LinkMax = 6
  WkcMax = 8
  MaxReps <- ResourceMaxReps
INVARIANTS FilesysWildcard
CHECK_DEADLOCK FALSE
