SPECIFICATION CalmSpec
CONSTANTS
  TcpHead = 1
  RtpHead = 1
  RecvCap = 5
  MAXBIGFRAMELEN = 8
  JsonBlock = 6
  FrameSizes = {1, 3, 7, 8, 9}
  MaxRecvFrames = 3
  OutHead = 2
  OutShapes <- MCOutShapes
  MaxIov = 3
  MaxOutFrames = 3
  ADDRHEAD = 1
  tLen = 6
  AllocSizes = {1, 2, 4}
  MaxPages = 3
  MaxLive = 4
  wnums = 2
  Clients = {0, 1, 2}
  ENums = 2
  MaxConns = 3
  MaxInbox = 1
  seq_max_NUM = 5
  UdpSsrcs = {1, 2}
  sess_cache_LEN = 2
  NoSeqYet = 4
  UdpSeqs = {0, 1, 3, 4}
  MaxPackets = 4
  MaxUdpInbox = 2
INVARIANTS
  RecvTypeOK
  BacklogIntact
  DeliveredInOrder
  CalmPeerServed
  OutTypeOK
  WireInOrder
  HandedBackOnce
  SmoothSend
  PoolTypeOK
  BlocksApart
  PagesOnce
  ConnTypeOK
  EntriesApart
  OwnClient
  UdpTypeOK
  PacketInOnePlace
  NothingBehind
CHECK_DEADLOCK FALSE
