SPECIFICATION RecvSpec
CONSTANTS
  TcpHead = 1
  RtpHead = 1
  RecvCap = 5
  MAXBIGFRAMELEN = 8
  JsonBlock = 6
  FrameSizes = {1, 3, 7}
  MaxRecvFrames = 1
INVARIANTS
  FramesHandedOn
CHECK_DEADLOCK FALSE
