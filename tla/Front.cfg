CONSTANTS
  Requests = {r1, r2}
  Nobody = Nobody
  Kids = {k1, k2}
  NoKid = NoKid
  Scenarios <- MCScenarios
SPECIFICATION FairSpec
INVARIANTS
  FetchOnlyStale
  FailClosed
  Trail
  StrictMeansEverywhere
  AckedIsDurable
  FanoutReachesAll
  SchemaFirst
PROPERTIES
  EveryCallAnswered
  RetiredKeyRefused
  PublishedKeyAccepted
CHECK_DEADLOCK FALSE
