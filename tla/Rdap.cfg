\* Four runs of two investigations, half the requests that they need, registries
\* of every shape.
CONSTANTS
  r1 = r1  r2 = r2  r3 = r3  r4 = r4
  v4 = v4  v6 = v6  a1 = a1  a2 = a2  b1 = b1  c1 = c1  c2 = c2
  wide = wide  narrow = narrow  six = six
  good = good  other = other  insecure = insecure
  None = None
  Runs <- AllRuns
  Families = {v4, v6}
  Cases = {c1, c2}
  FamilyOf <- Family
  AddressOf <- Address
  CaseOf <- Investigation
  Blocks = {wide, narrow, six}
  Covers <- Containment
  PrefixLength <- Lengths
  URLs = {good, other, insecure}
  Acceptable = {good, other}
  Documents <- AllDocuments
  MaxRequests = 2
  MaxServices = 2
  MaxPrefixes = 2
  MaxURLs = 1
SPECIFICATION FairSpec
INVARIANTS
  OneFetchAtATime
  DenialsAreOwn
  MostSpecificService
PROPERTIES
  EveryRunEnds
