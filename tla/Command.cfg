\* Targets at the edge of every range and limit; two runs and others share a path.
CONSTANTS
  MaxInput = 20  MaxName = 13  MaxLabel = 5
  Runs = {"first", "second"}
  Invocations <- AllInvocations
  MaxTimeout = 3  MaxSourceTimeout = 2  MaxKey = 2
SPECIFICATION Spec
INVARIANTS
  ExitCodesAreTrue
  OnlyPublicTargetsAreSent
  KeysGoToTheirProviders
PROPERTIES
  NothingIsOverwritten
