\* Four queries and requests, of which others may take some; lookups end in any
\* way and order.
CONSTANTS
  Plan <- MainPlan
  Answers <- AllAnswers
  MaxRequests = 4
  MaxRecords = 2
SPECIFICATION FairSpec
INVARIANTS
  FailuresAreNoted
  UnknownIsNotAbsent
  EvidenceIsObserved
PROPERTIES
  CollectEnds
