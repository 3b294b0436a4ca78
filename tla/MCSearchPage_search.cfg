\* Three rows, two of one key, on pages of one or two, two requests at a time.
CONSTANTS
  Row = {1, 2, 3}
  Key <- TwoShareAKey
  Limits = {1, 2}
  MaxResultRows = 2
  Call = {c1, c2}
  MaxOffset = 3
  Faults = {"answer", "delete"}
SPECIFICATION FairSpec
INVARIANT TypeOK
 
INVARIANT NothingTwice
PROPERTY SearchButtonReturns
