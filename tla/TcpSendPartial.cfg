SPECIFICATION Spec
CONSTANTS
  TcpHead = 1
  RtpHead = 1
  RecvCap = 5
  MAXBIGFRAMELEN = 8
  JsonBlock = 6
  FrameSizes = {1, 3, 7}
  MaxRecvFrames = 0
  OutHead = 2
  OutShapes <- MCOutShapes
  MaxIov = 3
  MaxOutFrames = 2
  ADDRHEAD = 1
  tLen = 6
  AllocSizes = {1, 2, 4}
  MaxPages = 0
  MaxLive = 0
  wnums = 2
  Clients = {0, 1, 2}
  ENums = 2
  MaxConns = 0
  MaxInbox = 0
  seq_max_NUM = 5
  UdpSsrcs = {1, 2}
  sess_cache_LEN = 2
  NoSeqYet = 4
  UdpSeqs = {0, 1, 3, 4}
  MaxPackets = 0
  MaxUdpInbox = 0
INVARIANTS
  WireWhole
CHECK_DEADLOCK FALSE
