SPECIFICATION Spec
CONSTANTS
  MaxPending = 2
  MaxGiven = 5
  MaxStarts = 2
  MaxBuffer = 4
  MaxBytes = 5
  MaxRequests = 4
  CameraConfigs <- MCCameraConfigs
  StreamUrls <- MCStreamUrls
  DeviceLists <- MCDeviceLists
  MaxAsked = 5
INVARIANT StopSurvivesChoosing
CHECK_DEADLOCK FALSE
