SPECIFICATION Spec
CONSTANTS
  Chosen <- MixedChosen
  Files = {"clip", "picture"}
  Offer <- MixedOffer
  Programs = {"gallery"}
  KindOf <- MixedKindOf
  Container <- MixedContainer
  Broken <- MixedBroken
  Intents <- MixedIntents
  NoFile = "none"
  MaxStops = 3
INVARIANTS NothingLost KindsAreSettled OnlyValidated
PROPERTIES PromiseKept RunsEnd
CHECK_DEADLOCK FALSE
