SPECIFICATION UdpSpec
CONSTANTS
  seq_max_NUM = 5
  UdpSsrcs = {1, 2}
  sess_cache_LEN = 2
  NoSeqYet = 4
  UdpSeqs = {0, 1, 3, 4}
  MaxPackets = 4
  MaxUdpInbox = 2
PROPERTIES
  CacheReleasedFirst
CHECK_DEADLOCK FALSE
