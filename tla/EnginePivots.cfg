\* Pivoting: cycles, repeats, two levels, fewer entities than candidates, one permit.
\* Sources registered, refused, unavailable or never needed; shared and foreign evidence.
CONSTANTS
  dns = dns  ipinfo = ipinfo  feed = feed  nokey = nokey
  dom = dom  ip1 = ip1  ip2 = ip2  ip3 = ip3  lan = lan
  o1 = o1  o2 = o2  o3 = o3  o4 = o4
  resolves = resolves  hosts = hosts  weak = weak
  Sources <- AllSources
  Indicators <- AllIndicators
  Observations <- AllObservations
  Edges <- AllEdges
  Findings <- AllFindings
  Submissions <- Registrations
  Targets = {dom, lan, ip1}
  Supports <- PerType
  OnPivots = {ipinfo, nokey}
  Ready = {dns, ipinfo, feed}
  Investigable <- PublicIndicators
  Collections <- PivotCollections
  RequestsOf <- NoRequests
  MaxConcurrent = 0
  MaxRequests = 0
  MaxDepth = 2
  MaxEntities = 2
  MaxCandidates = 3
  DepthCap = 3
SPECIFICATION Spec
INVARIANTS
  NoRepeatedRun
  PivotLimits
  PivotsAreReported
  EveryApplicableRuns
  EverySourceAccounted
  ClaimsAreBacked
  OwnClaimsAreKept
PROPERTIES
  ImplementsLedger
