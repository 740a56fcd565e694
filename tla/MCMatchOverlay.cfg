\* Four commands in three seconds, and the clock thread for ever after.
CONSTANTS
  Fonts <- TwoFonts
  Deltas <- ScoreDeltas
  Durations <- BannerDurations
  Periods = {0, 2}
  PeriodLength = 1
  Width = 2
  MaxConfigs = 2
  MaxCommands = 4
  MaxTime = 3
  ClockPeriod = 2
SPECIFICATION OverlayLiveSpec
CHECK_DEADLOCK FALSE
PROPERTIES
  BannerLastsItsTime
  PictureConverges
