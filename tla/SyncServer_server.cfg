SPECIFICATION Spec
CONSTANTS
  Reqs = {r1, r2}
  Accounts = {a1}
  Blobs = {b1, b2}
  NoBlob = NoBlob
  NoReq = NoReq
  MaxTokenHashes = 2
  MaxMints = 4
  MaxLogins = 1
  MaxFaults = 2
SYMMETRY Symmetry
INVARIANTS AccountsDurable TokensStayValid
PROPERTY ImplementsBlobStore
CHECK_DEADLOCK FALSE
