\* Every cleanup step may throw; the app does not retry StartWifiDirect.
CONSTANTS
  c1 = c1
  c2 = c2
  NoConfig = NoConfig
  Configs <- MCConfigs
  Matches <- MCMatches
  EmptyMatch = 0
  MayThrow = {"FinalizeRecording", "StopStreaming", "TeardownWifiDirect"}
  AppRetriesStart = FALSE
SPECIFICATION FairSpec
INVARIANTS
  RecordingHasRecorder
  ShutdownReleases
PROPERTIES
  StopWifiCleans
  ImplementsLifecycle
  KeepsWifiContract
  ShutdownCompletes
