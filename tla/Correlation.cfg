\* Disagreeing origins and networks, contradictory claims, shared and surplus certificates.
CONSTANTS
  Target <- Example
  Under <- Subdomains
  Rank <- NameRank
  Scenarios <- AllScenarios
  MaxLinks = 2
  LinksPerName = 2
  MaxGroups = 1
SPECIFICATION Spec
INVARIANTS
  OrderIsIrrelevant
  DisagreementsAreReal
  NothingIsLostUnsaid
