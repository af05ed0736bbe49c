SPECIFICATION Spec
CONSTANTS
  Domains = {contacts, reports}
  ParamGroups = {led}
  MaxLevel = 1
  MaxCalls = 5
INVARIANTS
  BitsFollowAggregates
  NetworkAsReported
  AdvertisedIsStatus
CHECK_DEADLOCK FALSE
