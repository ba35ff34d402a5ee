----------------------------- MODULE HgTcpSend -----------------------------
(***************************************************************************)
(* The sending side of one TCP session: SendData, PreSendArr, SendDatapre, *)
(* ClearSndChain of net/common/hg_tcpabstract.cpp, called by SendDataQueue *)
(* on the session's worker.  A frame is pushed to the session's chain: a   *)
(* head of its own, then the frame's blocks.  The first nodes of the chain *)
(* go to one sendmsg; a node whose bytes were sent is freed, and with the  *)
(* last block of a frame the frame's memory goes back to who made it.      *)
(*                                                                         *)
(* A byte is its position in the stream of all bytes handed to SendData; a *)
(* node is [frame, beg, len, last], the bytes still to be sent of a block. *)
(* The socket is not registered for EPOLLOUT (AddFdEvt with 0), so nothing *)
(* but the next frame makes the session send again.                        *)
(***************************************************************************)
EXTENDS HgBuf, SequencesExt, FiniteSets

CONSTANTS OutHead,      \* TCP_PACKET_HEAD_SIZE + RTP_PACKET_HEAD_SIZE
          OutShapes,    \* frames, as the sequence of the lengths of their blocks
          MaxIov,       \* "total" of PreSendArr
          MaxOutFrames  \* bound: frames sent

ASSUME TcpSendAssumption ==
  /\ OutHead \in Nat \ {0} /\ MaxIov \in Nat \ {0} /\ MaxOutFrames \in Nat
  /\ OutShapes \subseteq Seq(Nat \ {0}) \ {<<>>}

VARIABLES
  outPc,      \* "idle", "send" within SendData, or "crash"
  outFrames,  \* history: the shapes of the frames handed to SendData
  chain,      \* the session's chain of nodes
  connected,  \* sess->tcpfd is not null
  wire,       \* history: the bytes the socket took
  handed,     \* history: how often the memory of each frame was given back
  heads,      \* heads that were allocated and not freed
  smooth      \* history: each sendmsg took all it was given

outVars == <<outPc, outFrames, chain, connected, wire, handed, heads, smooth>>

\* The bytes a frame has on the wire, and the first i frames have.
BytesOf(shape) == OutHead + BytesTo(shape)[Len(shape)]
HandedBytes(i) == BytesTo([k \in DOMAIN outFrames |-> BytesOf(outFrames[k])])[i]

OutInit ==
  /\ outPc = "idle" /\ outFrames = <<>> /\ chain = <<>> /\ connected = TRUE
  /\ wire = <<>> /\ handed = [f \in 1 .. MaxOutFrames |-> 0]
  /\ heads = 0 /\ smooth = TRUE

-----------------------------------------------------------------------------
\* CreateBuffer and PushFramCach: the head and the blocks of a frame.
FrameNodes(f, shape) ==
  LET beg == HandedBytes(f - 1)
  IN  <<[frame |-> f, beg |-> beg, len |-> OutHead, kind |-> "head"]>>
      \o [i \in 1 .. Len(shape) |->
            [frame |-> f, beg |-> beg + OutHead + BytesTo(shape)[i - 1], len |-> shape[i],
             kind |-> IF i = Len(shape) THEN "last" ELSE "block"]]

\* SendData: without a socket the null entry is read.
PushFrame(shape) ==
  /\ outPc = "idle" /\ Len(outFrames) < MaxOutFrames
  /\ outFrames' = Append(outFrames, shape)
  /\ IF connected
     THEN /\ chain' = chain \o FrameNodes(Len(outFrames) + 1, shape)
          /\ heads' = heads + 1
          /\ outPc' = "send"
     ELSE outPc' = "crash" /\ UNCHANGED <<chain, heads>>
  /\ UNCHANGED <<connected, wire, handed, smooth>>

\* Wrong: one node less.
IovShort == SubSeq(chain, 1, IF Len(chain) < MaxIov THEN Len(chain) ELSE MaxIov - 1)

\* What one sendmsg is given.
Iov == SubSeq(chain, 1, IF Len(chain) < MaxIov THEN Len(chain) ELSE MaxIov)

NodeBytes(nd) == [k \in 1 .. nd.len |-> nd.beg + k - 1]
IovBytes      == FlattenSeq([i \in 1 .. Len(Iov) |-> NodeBytes(Iov[i])])

\* The loop of SendDatapre after n bytes were sent.  A node's length is set
\* to 0 before it is taken from the rest, so the rest stays n: each node not
\* longer than n counts as sent, up to the first that is longer.
Marked(n) ==
  [i \in 1 .. Len(chain) |->
     LET nd     == chain[i]
         before == i <= Len(Iov) /\ \A j \in 1 .. i - 1 : chain[j].len <= n
     IN  IF ~before THEN nd
         ELSE IF nd.len <= n THEN [nd EXCEPT !.len = 0]
         ELSE [nd EXCEPT !.len = @ - n, !.beg = @ + n]]

\* Wrong: each node counts as a head.
FreeNodesAsHeads(S) ==
  /\ heads' = heads - Cardinality(S)
  /\ handed' = [f \in DOMAIN handed |->
                  handed[f] + Cardinality({nd \in S : nd.kind = "last" /\ nd.frame = f})]

\* The free handles of nodes: DestroyHeads, or the handle of the frame.
FreeNodes(S) ==
  /\ heads' = heads - Cardinality({nd \in S : nd.kind = "head"})
  /\ handed' = [f \in DOMAIN handed |->
                  handed[f] + Cardinality({nd \in S : nd.kind = "last" /\ nd.frame = f})]

\* Wrong: the nodes stay in the chain as they were.
ClearSndChainStays(nodes, all) ==
  /\ FreeNodes({nd \in ToSet(nodes) : all \/ nd.len = 0})
  /\ UNCHANGED chain

\* Wrong: the nodes that were sent stay, and are freed again.
ClearSndChainKeeps(nodes, all) ==
  /\ FreeNodes({nd \in ToSet(nodes) : all \/ nd.len = 0})
  /\ chain' = SelectSeq(nodes, LAMBDA nd : nd.len = 0)

\* ClearSndChain: the chain is empty afterwards, also of what was not sent.
ClearSndChain(nodes, all) ==
  /\ FreeNodes({nd \in ToSet(nodes) : all \/ nd.len = 0})
  /\ chain' = <<>>

\* The socket takes n bytes.
SendSome(n) ==
  /\ outPc = "send"
  /\ wire' = wire \o SubSeq(IovBytes, 1, n)
  /\ smooth' = (smooth /\ n = Len(IovBytes))
  /\ ClearSndChain(Marked(n), FALSE)
  /\ outPc' = "idle"
  /\ UNCHANGED <<outFrames, connected>>

\* EAGAIN.
SendAgain ==
  /\ outPc = "send"
  /\ smooth' = FALSE
  /\ ClearSndChain(chain, FALSE)
  /\ outPc' = "idle"
  /\ UNCHANGED <<outFrames, connected, wire>>

\* Another error: the socket is closed and its entry given back.
SendError ==
  /\ outPc = "send"
  /\ connected' = FALSE /\ smooth' = FALSE
  /\ ClearSndChain(chain, TRUE)
  /\ outPc' = "idle"
  /\ UNCHANGED <<outFrames, wire>>

OutNext == \/ \E shape \in OutShapes : PushFrame(shape)
           \/ \E n \in 1 .. Len(IovBytes) : SendSome(n)
           \/ SendAgain \/ SendError

OutSpec == OutInit /\ [][OutNext]_outVars

-----------------------------------------------------------------------------
(* Properties                                                              *)

\* Type correctness of the sending side.
OutTypeOK ==
  /\ outPc \in {"idle", "send", "crash"}
  /\ outFrames \in Seq(OutShapes)
  /\ chain \in Seq([frame : 1 .. MaxOutFrames, beg : Nat, len : Nat,
                    kind : {"head", "block", "last"}])
  /\ connected \in BOOLEAN /\ smooth \in BOOLEAN
  /\ wire \in Seq(Nat) /\ heads \in Nat
  /\ handed \in [1 .. MaxOutFrames -> Nat]

\* No byte is sent twice or before an earlier one, after partial sends,
\* EAGAIN and errors too (hg_tcpabstract.cpp:428-523).
WireInOrder == \A i \in 1 .. Len(wire) - 1 : wire[i] < wire[i + 1]

\* The memory of a frame is given back at most once, whatever the socket
\* took of it (hg_tcpabstract.cpp:428-455).
HandedBackOnce == \A f \in DOMAIN handed : handed[f] <= 1

\* As long as the socket takes everything, frames that fit in one sendmsg go
\* out whole, and their heads and their memory are given back
\* (hg_tcpabstract.cpp:349-371, 428-500).
SmoothSend ==
  smooth /\ outPc = "idle" /\ (\A i \in DOMAIN outFrames : Len(outFrames[i]) < MaxIov)
    => /\ wire = [k \in 1 .. HandedBytes(Len(outFrames)) |-> k - 1]
       /\ \A i \in DOMAIN outFrames : handed[i] = 1
       /\ heads = 0

\* "有时候如果后面很慢数据必须缓存起来否则就没了，这时候就用大缓冲区" (hgmain.h: if
\* what comes next is slow, data must be kept or it is gone, hence the big
\* buffer of each TCP connection): the peer gets every byte up to the last
\* one sent.
WireWhole == \A i \in DOMAIN wire : wire[i] = i - 1
=============================================================================
