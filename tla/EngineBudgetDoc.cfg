\* A run of two requests under a budget of one.
CONSTANTS
  dns = dns  ipinfo = ipinfo  feed = feed  nokey = nokey
  dom = dom  ip1 = ip1  ip2 = ip2  ip3 = ip3  lan = lan
  o1 = o1  o2 = o2  o3 = o3  o4 = o4
  resolves = resolves  hosts = hosts  weak = weak
  Sources <- AllSources
  Indicators <- AllIndicators
  Observations <- AllObservations
  Edges <- AllEdges
  Findings <- AllFindings
  Submissions <- Registration
  Targets = {ip1}
  Supports <- PerType
  OnPivots = {ipinfo}
  Ready = {dns, ipinfo, feed}
  Investigable <- PublicIndicators
  Collections <- CoreCollections
  RequestsOf <- Lookups
  MaxConcurrent = 1
  MaxRequests = 1
  MaxDepth = 1
  MaxEntities = 1
  MaxCandidates = 2
  DepthCap = 3
SPECIFICATION Spec
INVARIANTS
  BudgetExhaustedDidNotRun
