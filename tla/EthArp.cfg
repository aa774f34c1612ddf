SPECIFICATION FairSpec
CONSTANTS
  Hosts = {h1, h2, h3}
  Far = {f}
  Gw = h1
  Macs = {m1, m2}
  None = None
  ARP_TABLE_SIZE = 2
  ARP_MAXAGE = 3
  ARP_AGE_REREQUEST_USED = 1
  ARP_MAXPENDING = 2
INVARIANTS OneEntryPerHost WaitsOnItsHop SentWhereHeard Rerequested
PROPERTY PendingEnds
