SPECIFICATION Spec
CONSTANTS
  Players = {p1, p2}
  Inputs = {i1}
  Streams = {s1, s2}
  Backends = {"jack", "pulse", "alsa", "noaudio"}
  MaxStatusCalls = 2
  MaxCmds = 1
  Reopens = FALSE
  NBuffers = 3
  MaxCaptureOps = 2
  OpensUnclosed = FALSE
  NSurfaces = 2
  Pictures = {a, b}
  MaxFrames = 3
  ChangesSize = FALSE
INVARIANTS
  StreamsMatchResources
  BrowserKnowsOfPlaying
  CameraIsShared
  FramesGoRound
PROPERTIES
  MediaCallsReturn
CHECK_DEADLOCK FALSE
