\* One call: every kind of redirect and every body around the caps.
CONSTANTS
  api = api  cdn = cdn  pub = pub  priv = priv
  None = None
  c1 = c1  c2 = c2  c3 = c3
  Calls = {c1}
  Names = {api, cdn}
  Addresses = {pub, priv}
  Public = {pub}
  URLs <- AllURLs
  Requests <- AllRequests
  Resolutions <- Lookups
  Sizes = {0, 1, 2, 3, 4}
  MaxConcurrent = 0
  MaxRedirects = 3
  DefaultCap = 2
  Ceiling = 3
SPECIFICATION Spec
INVARIANTS
  DestinationsAllowed
  SecretsStayOnOrigin
  BodiesWithinLimit
  RefusalsAreJustified
