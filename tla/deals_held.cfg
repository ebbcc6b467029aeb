SPECIFICATION Spec
CONSTANTS
  Providers <- TwoProviders
  Listings <- AllListings
  LaterListings <- OneListing
  MaxLength = 3
  Epochs = {10, 11}
  Day = 2
  Week = 4
  MaxTicks = 1
  NoPiece = NoPiece
INVARIANT PiecesAreHeld
CHECK_DEADLOCK FALSE
