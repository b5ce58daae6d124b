\* One run of each collector of an answer, for every answer that is good but for two places.
CONSTANTS
  MaxEngines = 5  MaxVotes = 5  MaxReputation = 3  Width = 8
  MaxReports = 5  MaxItems = 2  MaxCount = 5  MaxSignatures = 1
  Queried = 5  Bits = 3  MaxPrefixes = 2  MaxStatuses = 2  MaxEvents = 2
  MaxEntities = 3  MaxDepth = 2  MaxProperties = 3
  Target <- Example
  MaxEntries = 4  MaxNameLines = 3  MaxNames = 3  MaxCertificates = 2
  MaxRelationships = 3  MaxValidity = 5  Now = 4
  MaxOrigins = 2  MaxASNs = 2  MaxDescriptions = 2
  MaxTerms = 2  MaxLookups = 1  MaxTags = 3
  Indicators <- AllIndicators
  Replies <- AllReplies
  Names <- NameTexts
  MaxRequests = 3
SPECIFICATION Spec
INVARIANTS
  NothingVanishes
  ClaimsAreEarned
  LogIsAccounted
  OriginsAreExplained
  PolicyIsWhatReceiversApply
