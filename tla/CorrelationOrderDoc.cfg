\* The order in which statuses are recorded shows in the text of a gap.
CONSTANTS
  Target <- Example
  Under <- Subdomains
  Rank <- NameRank
  Scenarios <- AllScenarios
  MaxLinks = 2
  LinksPerName = 2
  MaxGroups = 1
SPECIFICATION Spec
INVARIANTS
  StatusOrderIsIrrelevant
