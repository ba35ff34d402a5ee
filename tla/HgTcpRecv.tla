----------------------------- MODULE HgTcpRecv -----------------------------
(***************************************************************************)
(* The receiving side of one TCP connection: TCPRecvmsg of                 *)
(* net/common/hg_tcpabstract.cpp, as edge-triggered epoll calls it.  Bytes *)
(* are received into the connection's circle tcpbuf, where a frame begins  *)
(* with a TCP head (its size) and an RTP head, and are moved from there to *)
(* the frame being put together, which goes to a worker when it is whole.  *)
(* That a head was read is kept in hfde->status from event to event; the   *)
(* frame and the count of bytes still to come are locals of the handler.   *)
(*                                                                         *)
(* Bytes are stream positions (see HgBuf).  A frame of the peer is a       *)
(* record [beg, size]: its TCP head is at beg, its size counts the RTP     *)
(* head and what follows.  The blocks a frame is kept in are left out: the *)
(* frame is the sequence of its bytes.  One action is one round of the     *)
(* loop of TCPRecvmsg, with one recv.                                      *)
(***************************************************************************)
EXTENDS HgBuf, SequencesExt

CONSTANTS TcpHead,      \* TCP_PACKET_HEAD_SIZE
          RtpHead,      \* RTP_PACKET_HEAD_SIZE
          RecvCap,      \* RECV_BUFFER_LEN
          MAXBIGFRAMELEN, \* the largest size the handler accepts
          JsonBlock,    \* the size of jsonblock, an array on the stack
          FrameSizes,   \* the sizes that heads may carry
          MaxRecvFrames \* bound: frames the peer sends

\* A peer's frames have their RTP head, and the circle takes both heads.
ASSUME TcpRecvAssumption ==
  /\ TcpHead \in Nat \ {0} /\ RtpHead \in Nat \ {0} /\ RecvCap \in Nat \ {0}
  /\ TcpHead + RtpHead <= RecvCap
  /\ MAXBIGFRAMELEN \in Nat /\ JsonBlock \in Nat
  /\ FrameSizes \subseteq Nat /\ \A n \in FrameSizes : n >= RtpHead
  /\ MaxRecvFrames \in Nat

VARIABLES
  sentFrames, \* the frames the peer has written, in order
  arrived,    \* how many of their bytes have reached the socket
  got,        \* how many of these were received
  edge,       \* epoll has an event for the socket
  recvPc,     \* "wait" in epoll, "loop" in TCPRecvmsg; astray: see below
  sockbuf,    \* tcpbuf
  hashead,    \* bit 1 of hfde->status: a head was read
  frame,      \* the locals hctrecvframe, bodysize and framerest
  recvd,      \* history: the bytes of the frames given to RecvData
  whole       \* history: each frame came at once, to a socket at rest

recvVars == <<sentFrames, arrived, got, edge, recvPc, sockbuf, hashead, frame,
              recvd, whole>>

HeadsLen    == TcpHead + RtpHead
FrameEnd(f) == f.beg + TcpHead + f.size

\* The number of bytes the peer has written.
SentBytes == IF sentFrames = <<>> THEN 0 ELSE FrameEnd(Last(sentFrames))

\* hctrecvframe is nullptr.
NoFrame == [none |-> TRUE, size |-> 0, bytes |-> <<>>]

AtRest == recvPc = "wait" /\ ~edge

\* A size the handler does not accept, and one whose frame is longer, without
\* its RTP head, than the array it is copied to.
Refused(n)  == n <= 0 \/ n > MAXBIGFRAMELEN
Overruns(n) == n - RtpHead > JsonBlock

\* InitEvent, for an accepted connection.
RecvInit ==
  /\ sentFrames = <<>> /\ arrived = 0 /\ got = 0 /\ edge = FALSE
  /\ recvPc = "wait" /\ sockbuf = NewBuf(RecvCap)
  /\ hashead = FALSE /\ frame = NoFrame
  /\ recvd = <<>> /\ whole = TRUE

-----------------------------------------------------------------------------
(* The peer and the network.                                               *)

PeerSend(n) ==
  /\ Len(sentFrames) < MaxRecvFrames
  /\ sentFrames' = Append(sentFrames, [beg |-> SentBytes, size |-> n])
  /\ UNCHANGED <<arrived, got, edge, recvPc, sockbuf, hashead, frame, recvd, whole>>

\* Bytes reach the socket: epoll tells of it once, also if the handler is at
\* work.
Arrive(n) ==
  /\ arrived' = arrived + n /\ arrived' <= SentBytes
  /\ edge' = TRUE
  /\ whole' = (whole /\ AtRest
               /\ \E i \in DOMAIN sentFrames : /\ arrived  = sentFrames[i].beg
                                               /\ arrived' = FrameEnd(sentFrames[i]))
  /\ UNCHANGED <<sentFrames, got, recvPc, sockbuf, hashead, frame, recvd>>

-----------------------------------------------------------------------------
(* TCPRecvmsg                                                              *)

Event ==
  /\ recvPc = "wait" /\ edge
  /\ edge' = FALSE /\ recvPc' = "loop"
  /\ UNCHANGED <<sentFrames, arrived, got, sockbuf, hashead, frame, recvd, whole>>

\* Wrong: a circle whose end has passed its start is filled to the end of its
\* memory.
RecvRoomToEnd(b) == RecvCap - b.end

\* How much recv may take: from end to start or to the end of the memory.
RecvRoom(b) == IF b.start > b.end THEN b.start - b.end ELSE RecvCap - b.end

\* The frames whose heads are exactly the next bytes.
HeadsAt(b) == {i \in DOMAIN sentFrames :
                 \A k \in 0 .. HeadsLen - 1 :
                   ByteAt(b, k, RecvCap) = sentFrames[i].beg + k}

\* The frame f with the bytes the circle b has for it.
Filled(f, b) ==
  LET n == Lesser(b.len, f.size - Len(f.bytes))
  IN  [f EXCEPT !.bytes = @ \o [k \in 1 .. n |-> ByteAt(b, k - 1, RecvCap)]]

\* Wrong: the RTP head, which belongs to the frame, is skipped as well.
ReadHeadsSkipsBoth(b) == Skip(b, HeadsLen, RecvCap)

\* Hg_Buf_ReadN reads both heads and skips the first.
ReadHeads(b) == Skip(b, TcpHead, RecvCap)

\* Wrong: the handler returns after each recv.
EndRoundEarly(short, f) == recvPc' = "wait" /\ frame' = NoFrame

\* The end of a round, when nothing is left to be done in it: the handler
\* returns, and forgets its locals, if recv gave less than it could take.
EndRound(short, f) ==
  IF short THEN recvPc' = "wait" /\ frame' = NoFrame
           ELSE frame' = f /\ UNCHANGED recvPc

\* The frame f takes the bytes of b.  When whole it is copied to jsonblock, goes
\* to RecvData, and the status is cleared.  A copy past the end of jsonblock
\* writes over the handler's stack: it may go unnoticed, or the handler is
\* astray, "overrun", and its part of the model stops.
TakeBytes(f, b, short) ==
  LET g == Filled(f, b)
  IN /\ sockbuf' = Skip(b, Len(g.bytes) - Len(f.bytes), RecvCap)
     /\ \/ /\ Len(g.bytes) = g.size
           /\ recvd' = Append(recvd, g.bytes)
           /\ hashead' = FALSE
           /\ EndRound(short, g)
        \/ /\ Len(g.bytes) = g.size /\ Overruns(g.size)
           /\ recvPc' = "overrun" /\ frame' = g /\ hashead' = TRUE
           /\ UNCHANGED recvd
        \/ /\ Len(g.bytes) # g.size
           /\ hashead' = TRUE
           /\ UNCHANGED recvd
           /\ EndRound(short, g)

\* A round after recv: b is the circle with the bytes received.  A size that is
\* refused makes the handler return, its TCP head gone from the circle and the
\* rest left there, to be read as a head in a later event.  What other bytes
\* than a head say of a size the model cannot tell: the handler is astray,
\* "corrupt", and its part of the model stops.
ParseRound(b, short) ==
  \/ /\ ~hashead /\ ~CanRead(b, HeadsLen)        \* continue: recv again
     /\ sockbuf' = b
     /\ UNCHANGED <<recvPc, hashead, frame, recvd>>
  \/ /\ ~hashead /\ CanRead(b, HeadsLen)
     /\ \/ \E i \in HeadsAt(b) :
             /\ ~Refused(sentFrames[i].size)
             /\ TakeBytes([none |-> FALSE, size |-> sentFrames[i].size, bytes |-> <<>>],
                          ReadHeads(b), short)
        \/ \E i \in HeadsAt(b) :                \* return, with more to receive
             /\ Refused(sentFrames[i].size)
             /\ recvPc' = "wait" /\ sockbuf' = ReadHeads(b) /\ frame' = NoFrame
             /\ UNCHANGED <<hashead, recvd>>
        \/ /\ HeadsAt(b) = {}                    \* what it reads is no head
           /\ recvPc' = "corrupt" /\ sockbuf' = ReadHeads(b)
           /\ UNCHANGED <<hashead, frame, recvd>>
  \/ /\ hashead /\ frame.none                    \* a head from another event
     /\ sockbuf' = b
     /\ EndRound(short, frame)
     /\ UNCHANGED <<hashead, recvd>>
  \/ /\ hashead /\ ~frame.none
     /\ TakeBytes(frame, b, short)

\* One round of the loop whose recv gives something.
RecvRound ==
  LET len == RecvRoom(sockbuf)
      n   == Lesser(len, arrived - got)
  IN /\ recvPc = "loop" /\ n > 0
     /\ got' = got + n
     /\ ParseRound(AppendBytes(sockbuf, got, n, RecvCap), n < len)
     /\ UNCHANGED <<sentFrames, arrived, edge, whole>>

\* EAGAIN.
RecvNothing ==
  /\ recvPc = "loop" /\ got = arrived
  /\ recvPc' = "wait" /\ frame' = NoFrame
  /\ UNCHANGED <<sentFrames, arrived, got, edge, sockbuf, hashead, recvd, whole>>

RecvNext == \/ \E n \in FrameSizes : PeerSend(n)
            \/ \E n \in 1 .. SentBytes - arrived : Arrive(n)
            \/ Event \/ RecvRound \/ RecvNothing

RecvSpec == RecvInit /\ [][RecvNext]_recvVars

-----------------------------------------------------------------------------
(* Properties                                                              *)

\* A handler of a later event has no frame to go on with.
Stuck == hashead /\ frame.none

\* Type correctness of the receiving side.
RecvTypeOK ==
  /\ sentFrames \in Seq([beg : Nat, size : FrameSizes])
  /\ arrived \in Nat /\ got \in 0 .. arrived /\ edge \in BOOLEAN
  /\ recvPc \in {"wait", "loop", "corrupt", "overrun"}
  /\ ~Stuck => sockbuf \in Buffers(RecvCap)
  /\ hashead \in BOOLEAN /\ whole \in BOOLEAN
  /\ frame \in [none : BOOLEAN, size : Nat, bytes : Seq(Nat)]
  /\ recvd \in Seq(Seq(Nat))

\* What recv writes never lies over bytes that wait in the circle: each round
\* may fill it, and parses at most one frame (hg_tcpabstract.cpp:128-155).
BacklogIntact == ~Stuck => RingHolds(sockbuf, got - sockbuf.len, RecvCap)

\* The frames given to the workers are the first frames the peer sent, byte
\* for byte, however they were cut up on the way, wherever the circle wrapped
\* and if they are larger than it; the handler goes astray only at a frame
\* whose size it refuses, or that jsonblock cannot take, and not before it has
\* handed on the ones in front (hg_tcpabstract.cpp:125-264).
DeliveredInOrder ==
  /\ Len(recvd) <= Len(sentFrames)
  /\ \A i \in DOMAIN recvd :
       recvd[i] = [k \in 1 .. sentFrames[i].size |->
                     sentFrames[i].beg + TcpHead + k - 1]
  /\ recvPc \in {"corrupt", "overrun"} => Len(recvd) < Len(sentFrames)
  /\ recvPc = "corrupt" => Refused(sentFrames[Len(recvd) + 1].size)
  /\ recvPc = "overrun" => Overruns(sentFrames[Len(recvd) + 1].size)

\* How many frames have arrived to their last byte.
WholeFrames == {i \in DOMAIN sentFrames : FrameEnd(sentFrames[i]) <= arrived}

\* Frames of sizes the handler takes and jsonblock has room for.
Bearable == \A i \in DOMAIN sentFrames : /\ ~Refused(sentFrames[i].size)
                                         /\ ~Overruns(sentFrames[i].size)

\* A peer whose frames come one at a time, each at once, and are no larger than
\* the handler can bear, gets each handled before the socket rests again, also
\* where one recv does not take all of it or a head is cut by the end of the
\* memory (hg_tcpabstract.cpp:125-264).
CalmPeerServed ==
  whole /\ AtRest /\ Bearable =>
    Len(recvd) = Cardinality(WholeFrames) /\ sockbuf.len = 0

\* "7 bit代表是否有头0标识没有，1标识有" (hgfdevent.h: the status tells, from one
\* event to the next, whether a head was read): when the socket rests, every
\* frame that has arrived was handled, whole.
FramesHandedOn == AtRest => Len(recvd) = Cardinality(WholeFrames)
=============================================================================
