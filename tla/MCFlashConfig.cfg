SPECIFICATION Spec
CONSTANTS
  FFFF = 65535
  AAAA = 43690
  H5555 = 21845
  H0 = 0
  Half <- MCHalf
  Ips <- MCIps
  Ports = {1}
  Channels = {2}
  DefIp <- MCDefIp
  DefPort = 3
INVARIANTS NoTornConfig ConfigDurable
