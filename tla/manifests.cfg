\* The readers of HLS masters and DASH manifests, one at a time.
SPECIFICATION ReadingSpec
CONSTANTS
  None = None
  Unbound = Unbound
  Manifests <- AllManifests
  Variants <- SomeVariants
  Renditions <- SomeRenditions
  Tagged <- SomeTagged
  MaxLines = 4
  MaxPeriods = 4
  Seconds = {1, 3}
  Templates <- SomeTemplates
  SegmentDuration = 2
  StartNumber = 1
  MaxSegments = 5
INVARIANTS SelectionHolds WindowsAreResolved TemplateIsFilled
PROPERTIES ChoiceIsStable PeriodsAccumulate DerivedIsFinal
CHECK_DEADLOCK FALSE
