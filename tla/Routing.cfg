CONSTANTS
  MaxAddress = 3
  OwnAddress = 0
  PhysAddress = {0, 11, 13}
  Broadcast = 255
  LinkStateTTL = 3
  NeighbourTTL = 3
  Period = 2
  Modulus = 4
  MaxLag = 2
  LinkStatesHeard <- MCLinkStates
  PingResponsesHeard <- MCPingResponses
SPECIFICATION FairSpec
INVARIANTS TypeOK OwnLinksAreLive
PROPERTIES
  InstallsShortestRoutes RecentAfterUpdate LinkStatesExpire NeighboursExpire
  SilentNodeGoesOffline DeadHopIsReplaced KeepsAnnouncing
