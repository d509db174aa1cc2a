SPECIFICATION DhcpSpec
CONSTANTS
  Station = {s1, s2, s3}
  Octets = 8
  Ips <- MCIps
  Ranges <- MCRanges
  MAX_LEASE = 3
  MAX_STATION_NUM = 3
  LEASE_TIMER = 2
  MaxSettings = 3
CONSTRAINT Explored
SYMMETRY Symmetric
INVARIANTS
  DhcpTypeOK
  PoolExact
  InUseIsLeased
