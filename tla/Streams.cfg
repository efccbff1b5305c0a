SPECIFICATION Spec
CONSTANTS
  a = a
  b = b
  Node = {a, b}
  Sends <- OneWay
  Window = 1
  MaxFrames = 2
  MaxEndpoints = 8
  MaxFaults = 2
  Faults = {"crash", "cut"}
INVARIANTS StreamIsPrefix NoProtocolError PeerConnIsLive ParkedIsWatched NoDanglingHandler CutSevers
PROPERTIES NoSilentLoss
CHECK_DEADLOCK FALSE
