\* An SPF record beyond the records that are kept.
CONSTANTS
  Plan <- MailPlan
  Answers <- AllAnswers
  MaxRequests = 3
  MaxRecords = 2
SPECIFICATION Spec
INVARIANTS
  SpfMissingMeansNone
