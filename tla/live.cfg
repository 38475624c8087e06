\* Five recordings: a sliding window, byte ranges, a master with two sidecars,
\* the two kinds of a DASH manifest, and PARTs with a file each.
SPECIFICATION FairSpec
CONSTANTS
  None = None
  Settings <- FiveRecordings
  Units = 2
  MaxNesting = 2
INVARIANTS RecordedInOrder ProtectionHolds AdvertisedIsRecorded BudgetHolds
PROPERTY Ends
CHECK_DEADLOCK FALSE
