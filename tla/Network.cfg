CONSTANTS
  NoGateway = none
  NoAddr = none
  NoLease = NoLease
  LinkLocalAddr = link_local
  LINK_LOCAL_TIMEOUT = 2
  MaxQueries = 2
  MaxSockets = 2
  MaxId = 2
  Addrs <- MCAddrs
  Leases <- MCLeases
  Hosts <- MCHosts
  InvalidHosts <- MCInvalidHosts
SPECIFICATION Spec
INVARIANTS
  ClientMatchesStack
  StaleAddressIsBounded
  ResolverFollowsDhcp
  QueriesOwnTheirSlots
PROPERTIES
  LeaseIsApplied
