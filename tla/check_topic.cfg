SPECIFICATION Spec
CONSTANTS
  transports = transports
  mainnetHead = mainnetHead
  otherHead = otherHead
  mainnet = mainnet
  other = other
  Protocols <- AllProtocols
  Transports = transports
  HeadProtocols <- AllHeadProtocols
  TopicOf <- Topics
  Topic = mainnet
  Cids = {h1, h2}
  Undef = Undef
  Nothing = Nothing
INVARIANT MismatchIsMismatch
CHECK_DEADLOCK FALSE
