SPECIFICATION Spec
CONSTANTS
  MaxClicks = 4
INVARIANTS
  FlagsTellWhatIsInFlight
  ScreenIsCurrentUnlessOverlapped
  StaleBannerIsExplained
CHECK_DEADLOCK FALSE
