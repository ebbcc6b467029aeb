SPECIFICATION FairSpec
CONSTANTS
  Providers <- TwoProviders
  Listings <- AllListings
  LaterListings <- OneListing
  MaxLength = 3
  Epochs = {10, 11}
  Day = 2
  Week = 4
  MaxTicks = 1
  NoPiece = NoPiece
INVARIANTS TypeOK CountsAreOfAListing PiecesAreLatest TotalsMatchCounts NoProducerLeaks
PROPERTY RefreshEnds
CHECK_DEADLOCK FALSE
