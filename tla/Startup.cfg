SPECIFICATION FairSpec
CONSTANTS
  Environments <- MCEnvironments
  Host <- MCHost
  Names <- MCNames
  PrivateHosts <- MCPrivate
  LoopbackHosts <- MCLoopback
  HostRank <- MCHostRank
  DefaultSeeds <- MCDefaultSeeds
  DEFAULT_P2P_PORT = 7
  AutoPort = 8
  Transient <- MCTransient
  Advertisements <- MCAdvertisements
  Gossip <- MCGossip
  QueueLimit = 2
  TARGET_OUTBOUND_PEERS = 2
  MAX_SHARED_PEERS = 2
INVARIANTS SlotsSound TransientsNeverShared
PROPERTIES  SeedsDialled
CHECK_DEADLOCK FALSE
