SPECIFICATION FairSpec
CONSTANTS
  transports = transports
  mainnetHead = mainnetHead
  otherHead = otherHead
  mainnet = mainnet
  other = other
  Protocols <- AllProtocols
  Transports = transports
  HeadProtocols <- AllHeadProtocols
  TopicOf <- Topics
  Topic = mainnet
  Cids = {h1, h2}
  Undef = Undef
  Nothing = Nothing
INVARIANTS TypeOK VerdictMatchesError VerdictMatchesFindings AnnouncedWasServed OkIsAnnounced
PROPERTY OnlyAnswersHang
CHECK_DEADLOCK FALSE
