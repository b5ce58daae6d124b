\* Interleavings: two concurrent runs, three requests, a deadline at any moment.
CONSTANTS
  dns = dns  ipinfo = ipinfo  feed = feed  nokey = nokey
  dom = dom  ip1 = ip1  ip2 = ip2  ip3 = ip3  lan = lan
  o1 = o1  o2 = o2  o3 = o3  o4 = o4
  resolves = resolves  hosts = hosts  weak = weak
  Sources <- AllSources
  Indicators <- AllIndicators
  Observations <- AllObservations
  Edges <- AllEdges
  Findings <- AllFindings
  Submissions <- Registration
  Targets = {dom}
  Supports <- PerType
  OnPivots = {ipinfo}
  Ready = {dns, ipinfo, feed}
  Investigable <- PublicIndicators
  Collections <- CoreCollections
  RequestsOf <- Lookups
  MaxConcurrent = 2
  MaxRequests = 3
  MaxDepth = 1
  MaxEntities = 1
  MaxCandidates = 2
  DepthCap = 3
SPECIFICATION FairSpec
INVARIANTS
  TypeOK
  OneStatusPerRun
  PermitsConserved
  EvidenceMatchesStatuses
  DeadlineVerdict
PROPERTIES
  Termination
