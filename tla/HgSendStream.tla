---------------------------- MODULE HgSendStream ----------------------------
(***************************************************************************)
(* The sending side of one media type of one UDP session                   *)
(* (net/protocol/huage_sendstream.cpp).  A frame, a chain of nodes, is cut *)
(* into packets; each packet is sent and remembered, without a copy, in    *)
(* the slot seq % sess_cache_LEN of a cache, from which the peer's requests *)
(* for a lost packet are answered.  The memory of a frame is given back,   *)
(* through the free handle of its last node, when the slot of its last     *)
(* packet is overwritten.                                                  *)
(*                                                                         *)
(* A session belongs to one worker, whose handlers run to the end one      *)
(* after the other: a request is answered between two frames, never within *)
(* one.  A packet is known by its number in the order of sending; its      *)
(* sequence number is that number modulo seq_max_NUM.                      *)
(***************************************************************************)
EXTENDS SeqNum, HgBuf, FiniteSets

CONSTANTS sess_cache_LEN,
          MaxCopy,      \* MAX_RTP_PACKET_SIZE - RTP_PACKET_HEAD_SIZE
          Shapes,       \* frames, as the sequence of the lengths of their nodes
          MaxFrames     \* bound: frames sent in a behaviour

ASSUME StreamAssumption ==
  /\ sess_cache_LEN \in Nat \ {0} /\ MaxCopy \in Nat \ {0} /\ MaxFrames \in Nat
  /\ Shapes \subseteq Seq(Nat \ {0}) \ {<<>>}

VARIABLES
  curSeq,     \* cur*SndPacketSeqs of the session: the last number given
  maxSeq,     \* curSend*MaxSeq: the newest number sent
  cache,      \* send*Cache
  sent,       \* history: the number of packets sent
  frames,     \* history: the number of frames begun
  nodes,      \* what is left of the nodes of the frame being sent
  framesize,  \* the size of that frame
  sendsize,   \* how much of it was sent
  released,   \* history: how often the free handle of a frame was called
  wire        \* the last thing given to sendmsg

vars == <<curSeq, maxSeq, cache, sent, frames, nodes, framesize, sendsize,
          released, wire>>

Slots  == 0 .. sess_cache_LEN - 1
Frames == 1 .. MaxFrames

\* data: a packet, alloc: the frame to free; 0 is the null pointer.
EmptySlot == [data |-> 0, frame |-> 0, alloc |-> 0]

\* A session is zeroed memory (a large malloc, caches cleared by memset).
Init ==
  /\ curSeq = 0 /\ maxSeq = 0 /\ sent = 0
  /\ cache = [i \in Slots |-> EmptySlot]
  /\ frames = 0 /\ nodes = <<>> /\ framesize = 0 /\ sendsize = 0
  /\ released = [f \in Frames |-> 0]
  /\ wire = [kind |-> "none"]

\* mfc->size - RTP_PACKET_HEAD_SIZE: the bytes of all nodes.
Size(shape) == BytesTo(shape)[Len(shape)]

\* SendData is called with a frame.
StartFrame(shape) ==
  /\ nodes = <<>> /\ frames < MaxFrames
  /\ frames' = frames + 1
  /\ nodes' = shape
  /\ framesize' = Size(shape) /\ sendsize' = 0
  /\ UNCHANGED <<curSeq, maxSeq, cache, sent, released, wire>>

\* Wrong: the end of a frame is not seen when it fills its last packet.
Tail0Strict(n) == IF sendsize = 0
                  THEN IF n > framesize THEN 0 ELSE 2
                  ELSE IF n > framesize - sendsize THEN 3 ELSE 1

\* 0: the only packet of a frame, 2: its first, 3: its last, 1: another.
Tail0(n) == IF sendsize = 0
            THEN IF n >= framesize THEN 0 ELSE 2
            ELSE IF n >= framesize - sendsize THEN 3 ELSE 1

\* Wrong: the window does not follow when the numbers start over.
RememberStuck(seq, slot) ==
  LET old == cache[seq % sess_cache_LEN].alloc
  IN /\ released' = IF old = 0 THEN released
                    ELSE [released EXCEPT ![old] = @ + 1]
     /\ cache' = [cache EXCEPT ![seq % sess_cache_LEN] = slot]
     /\ maxSeq' = IF seq > maxSeq THEN seq ELSE maxSeq

\* Wrong: the slot is overwritten and what it held is not freed.
RememberLeaks(seq, slot) ==
  /\ cache' = [cache EXCEPT ![seq % sess_cache_LEN] = slot]
  /\ maxSeq' = IF uint16Sub(seq, maxSeq) > 0 THEN seq ELSE maxSeq
  /\ UNCHANGED released

\* Wrong: what is freed is the frame that comes, not the one that was held.
RememberFreesNew(seq, slot) ==
  /\ released' = IF slot.alloc = 0 THEN released
                 ELSE [released EXCEPT ![slot.alloc] = @ + 1]
  /\ cache' = [cache EXCEPT ![seq % sess_cache_LEN] = slot]
  /\ maxSeq' = IF uint16Sub(seq, maxSeq) > 0 THEN seq ELSE maxSeq

\* clearPacketWrBufer: what the slot held is freed, then overwritten.
Remember(seq, slot) ==
  LET old == cache[seq % sess_cache_LEN].alloc
  IN /\ released' = IF old = 0 THEN released
                    ELSE [released EXCEPT ![old] = @ + 1]
     /\ cache' = [cache EXCEPT ![seq % sess_cache_LEN] = slot]
     /\ maxSeq' = IF uint16Sub(seq, maxSeq) > 0 THEN seq ELSE maxSeq

\* Wrong: the number is taken after the packet was remembered.
SendPacketLate ==
  LET n    == IF MaxCopy < Head(nodes) THEN MaxCopy ELSE Head(nodes)
      tail == Tail0(n)
  IN /\ nodes # <<>>
     /\ curSeq' = uint16Add(curSeq, 1)
     /\ sent' = sent + 1
     /\ wire' = [kind |-> "post", pkt |-> sent + 1, tail |-> tail]
     /\ Remember(curSeq, [data |-> sent + 1, frame |-> frames,
                          alloc |-> IF tail \in {0, 3} THEN frames ELSE 0])
     /\ nodes' = IF n = Head(nodes) THEN Tail(nodes)
                                    ELSE [nodes EXCEPT ![1] = @ - n]
     /\ sendsize' = sendsize + n
     /\ UNCHANGED <<frames, framesize>>

\* Wrong: a node that was sent stays.
SendPacketStays ==
  LET n    == IF MaxCopy < Head(nodes) THEN MaxCopy ELSE Head(nodes)
      tail == Tail0(n)
      seq  == uint16Add(curSeq, 1)
  IN /\ nodes # <<>>
     /\ curSeq' = seq
     /\ sent' = sent + 1
     /\ wire' = [kind |-> "post", pkt |-> sent + 1, tail |-> tail]
     /\ Remember(seq, [data |-> sent + 1, frame |-> frames,
                       alloc |-> IF tail \in {0, 3} THEN frames ELSE 0])
     /\ nodes' = [nodes EXCEPT ![1] = @ - n]
     /\ sendsize' = sendsize + n
     /\ UNCHANGED <<frames, framesize>>

\* One iteration of the inner loop of SendData, with the THPOOLSend it calls.
SendPacket ==
  LET n    == IF MaxCopy < Head(nodes) THEN MaxCopy ELSE Head(nodes)
      tail == Tail0(n)
      seq  == uint16Add(curSeq, 1)
  IN /\ nodes # <<>>
     /\ curSeq' = seq
     /\ sent' = sent + 1
     /\ wire' = [kind |-> "post", pkt |-> sent + 1, tail |-> tail]
     /\ Remember(seq, [data |-> sent + 1, frame |-> frames,
                       alloc |-> IF tail \in {0, 3} THEN frames ELSE 0])
     /\ nodes' = IF n = Head(nodes) THEN Tail(nodes)
                                    ELSE [nodes EXCEPT ![1] = @ - n]
     /\ sendsize' = sendsize + n
     /\ UNCHANGED <<frames, framesize>>

\* THPOOLSend for RTP_CMD_RES_REPOST: the peer asks for the packet p again.
\* A request that is not answered changes nothing (the command written to
\* the head of an empty slot is overwritten with the slot).
Repost(p) ==
  LET seq  == p % seq_max_NUM
      diff == uint16Sub(maxSeq, seq)
      slot == cache[seq % sess_cache_LEN]
  IN /\ nodes = <<>>
     /\ diff <= sess_cache_LEN /\ diff >= 0
     /\ slot.data # 0
     /\ wire' = [kind |-> "repost", asked |-> p, pkt |-> slot.data,
                 frame |-> slot.frame]
     /\ UNCHANGED <<curSeq, maxSeq, cache, sent, frames, nodes, framesize,
                    sendsize, released>>

\* A peer asks for packets that were sent, not older than one round.
Lost == {p \in 1 .. sent : sent - p < seq_max_NUM}

Next == \/ \E shape \in Shapes : StartFrame(shape)
        \/ SendPacket
        \/ \E p \in Lost : Repost(p)

Spec == Init /\ [][Next]_vars

-----------------------------------------------------------------------------
\* Type correctness of a send stream.
TypeOK ==
  /\ curSeq \in SeqNums /\ maxSeq \in SeqNums /\ sent \in Nat
  /\ cache \in [Slots -> [data : Nat, frame : 0 .. MaxFrames, alloc : 0 .. MaxFrames]]
  /\ frames \in 0 .. MaxFrames /\ framesize \in Nat /\ sendsize \in Nat
  /\ nodes \in Seq(Nat \ {0})
  /\ released \in [Frames -> Nat]
  /\ wire \in [kind : {"none"}]
              \cup [kind : {"post"}, pkt : Nat \ {0}, tail : 0 .. 3]
              \cup [kind : {"repost"}, asked : Nat \ {0}, pkt : Nat \ {0},
                    frame : Frames]

\* A frame that was sent is held by one slot of the cache, or was given back
\* once: it is neither leaked nor freed twice, whatever the sizes of its
\* nodes and packets and wherever the numbers start over
\* (huage_sendstream.cpp:156-180, 297-301).
HeldOnce ==
  \A f \in 1 .. frames :
    released[f] + Cardinality({i \in Slots : cache[i].alloc = f})
      = IF f = frames /\ nodes # <<>> THEN 0 ELSE 1

\* The last packet of a frame, and no earlier one, is marked as its end
\* (huage_sendstream.cpp:245-259).
FramesDelimited ==
  wire.kind = "post" =>
    /\ nodes = <<>> => wire.tail \in {0, 3}
    /\ nodes # <<>> /\ sendsize > 0 => wire.tail \in {1, 2}

\* The window of requests that are answered ends at the last packet sent,
\* also when the numbers start over (huage_sendstream.cpp:176-179).
WindowFollows == maxSeq = sent % seq_max_NUM

\* What is sent again was not freed before (huage_sendstream.cpp:92-111).
ResendsLiveData == wire.kind = "repost" => released[wire.frame] = 0

\* Until the numbers start over, what is sent again was not freed before.
ResendsFirstRound == sent < seq_max_NUM => ResendsLiveData

\* Until the numbers start over, a request for one of the last
\* sess_cache_LEN packets is answered with that packet
\* (huage_sendstream.cpp:92-96).
AnswersRecent ==
  wire.kind = "repost" /\ sent < seq_max_NUM /\ sent - wire.asked < sess_cache_LEN
    => wire.pkt = wire.asked

\* From the number the stream has reached, uint16Sub measures what uint16Add
\* adds, also where the numbers start over, as long as it is not more than
\* half a round (tools.c:351-374).
SubUndoesAdd ==
  \A d \in SeqNums :
    uint16Sub(uint16Add(curSeq, d), curSeq)
      = IF d <= seq_max_NUM \div 2 THEN d ELSE -1

\* Of that number and any other one is ahead, and not the other of it
\* (tools.c:351-369).
OneIsAhead ==
  \A n \in SeqNums \ {curSeq} :
    (uint16Sub(n, curSeq) = -1) # (uint16Sub(curSeq, n) = -1)
=============================================================================
