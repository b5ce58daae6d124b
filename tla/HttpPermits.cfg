\* Three calls, two permits, servers that hang, every way a call can end.
CONSTANTS
  api = api  cdn = cdn  pub = pub  priv = priv
  None = None
  c1 = c1  c2 = c2  c3 = c3
  Calls = {c1, c2, c3}
  Names = {api, cdn}
  Addresses = {pub, priv}
  Public = {pub}
  URLs <- OneURL
  Requests <- PlainRequests
  Resolutions <- Lookups
  Sizes = {0, 3}
  MaxConcurrent = 2
  MaxRedirects = 1
  DefaultCap = 2
  Ceiling = 3
SPECIFICATION FairSpec
INVARIANTS
  PermitsConserved
PROPERTIES
  EveryCallEnds
