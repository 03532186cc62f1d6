SPECIFICATION Spec
CONSTANTS
  HostPids = {1, 4, 8, 12}
  HighestPid = 4
  Binaries = {"ls", "ps"}
  Hashes = {"h1", "h2"}
  MaxSweeps = 2
  Given = Given
  IdleTime = 2
  Width = 4
  MaxConfigured = 20
  Limits = {0, 1, 2}
  Second = 4
  LeastWait = 2
  MaxGap = 5
  MaxEvents = 4
  MaxTokens = 9
  MaxText = 5
  MaxRules = 3
  MaxScans = 5
  MaxWords = 3
  MaxCalls = 3
  MaxName = 3
  MaxInstances = 3
INVARIANTS
  MessagesDoAsTheySay ReportsAreTrue HiddenAreFound DriftIsReported VerdictsHaveEvidence OmittedIsDefault
  ProfileFitsTheHost LimitsHold MatchesAreWarranted IndicatorsAreNoticed OneFailureCostsNoOther
  PurlsTellApart InstalledIsListed
