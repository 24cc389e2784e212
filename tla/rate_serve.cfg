SPECIFICATION LimitSpec
CONSTANTS
  Providers = {cli, api}
  Own = cli
  MaxBus = 2
  MaxMishaps = 1
INVARIANTS RoutingFollowsStore
PROPERTIES LimitKept LimitsLift
