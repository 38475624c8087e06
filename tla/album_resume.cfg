SPECIFICATION Spec
CONSTANTS
  Chosen <- AlbumChosen
  Files = {"one", "two"}
  Offer <- AlbumOffer
  Programs = {"gallery"}
  KindOf <- AlbumKindOf
  Container <- AlbumContainer
  Broken <- Nothing
  Intents <- Default
  NoFile = "none"
  MaxStops = 1
INVARIANT KindIsComplete
CHECK_DEADLOCK FALSE
