---------------------------- MODULE HgChannelInv ----------------------------
(***************************************************************************)
(* The properties of a channel, the inductive invariant they follow from,  *)
(* and the abstract specification it implements.                           *)
(***************************************************************************)
EXTENDS HgChannel

\* Type correctness of the channel and its worker.
TypeOK ==
  /\ msgs \in Seq([from : Threads, psize : BodyLens, beg : Nat])
  /\ lock \in BOOLEAN
  /\ wr \in [Threads -> {"idle", "copy", "post"}]
  /\ rest \in Nat /\ freen \in Nat /\ made \in Nat /\ eventSem \in Nat
  /\ hct \in Seq(Buffers(BlockCap))
  /\ pc \in {"wait", "lock", "move", "head", "body", "handler", "corrupt"}
  /\ tcpbuf \in Buffers(RingCap)
  /\ head \in 0 .. Len(msgs)
  /\ delivered \in Seq(Nat)

-----------------------------------------------------------------------------
(* What must be true of it.                                                *)

\* The worker never takes other bytes for a head or a body than the head and
\* the body of one message: blocks split anywhere, circles wrapped anywhere
\* and heads read before their body has come (Handlemsg puts the head back)
\* never shift the parser (hg_channel.cpp:152-227, hg_buf.cpp:16-114).
NoCorruption == pc # "corrupt"

\* When the worker sleeps with no post to come, there is nothing to do: the
\* semaphore counts writes and not bytes, and a Drive that stops at a full
\* circle, or in the middle of a message, leaves work that only a later post
\* can resume (hg_channel.cpp:92-107, 135-141, 208-222).
NoLostWakeup ==
  (pc = "wait" /\ eventSem = 0 /\ \A t \in Threads : wr[t] = "idle")
     => /\ Len(delivered) = Len(msgs)
        /\ hct = <<>> /\ tcpbuf.len = 0

\* No block is lost between the chain and the free list, nor is in both.
BlocksConserved == made = Len(hct) + freen

-----------------------------------------------------------------------------
(* The inductive invariant.                                                *)

\* The spin lock is held exactly by a writer in its copy loop or by the
\* worker in its move loop, and by one of them.
LockInv ==
  /\ \A t \in Threads : wr[t] = "copy" => lock /\ pc # "move" /\ rest > 0
  /\ \A t, u \in Threads : wr[t] = "copy" /\ wr[u] = "copy" => t = u
  /\ pc = "move" => lock
  /\ lock => pc = "move" \/ \E t \in Threads : wr[t] = "copy"
  /\ rest > 0 => \E t \in Threads : wr[t] = "copy"
  /\ wr[Worker] # "idle" => pc = "handler"

\* The messages lie one after the other in the stream.
MsgsInv ==
  /\ Len(msgs) > 0 => msgs[1].beg = 0
  /\ \A i \in 1 .. Len(msgs) - 1 : msgs[i + 1].beg = MsgEnd(i)
  /\ \A i, j \in 1 .. Len(msgs) : i < j => MsgEnd(i) <= msgs[j].beg

\* The stream position up to which the worker has read.
Consumed == IF delivered = <<>> THEN 0 ELSE MsgEnd(Len(delivered))
ReadPos  == IF pc = "body" THEN Consumed + HeadLen ELSE Consumed

\* The worker is at the boundary of a message, or just after its head.
ParserInv ==
  /\ pc # "corrupt"
  /\ Len(delivered) <= Len(msgs)
  /\ \A i \in 1 .. Len(delivered) : delivered[i] = i
  /\ pc = "body" => head = Len(delivered) + 1
  /\ pc # "body" => head = 0

\* The circle, then the chain, hold what was copied and not yet read, and
\* the head that may have to be put back is still in the circle.
StreamInv ==
  /\ RingHolds(tcpbuf, ReadPos, RingCap)
  /\ pc = "body" => /\ tcpbuf.len + HeadLen <= RingCap
                    /\ RingHolds(PutBack(tcpbuf, HeadLen, RingCap), Consumed, RingCap)
  /\ ChainHolds(hct, ReadPos + tcpbuf.len, Written - rest, BlockCap)

\* The writers that have not posted yet, and the messages not yet handled.
Posting == {t \in Threads : wr[t] # "idle"}
Pending == Len(msgs) - Len(delivered)

\* The whole of the first message not yet handled is in the circle.
NextIsComplete ==
  /\ Pending > 0
  /\ ReadPos + tcpbuf.len >= MsgEnd(Len(delivered) + 1)

\* Every message not yet handled has its post, in the semaphore or to come.
\* From SemWait until it has handled one more, the worker may be one post
\* short; once it has moved, that one message is complete in the circle.
WakeupInv ==
  LET posts == eventSem + Cardinality(Posting)
  IN /\ Pending <= posts + 1
     /\ pc \in {"wait", "handler"} => Pending <= posts
     /\ pc \in {"head", "body"} => Pending <= posts \/ NextIsComplete

IInv == /\ TypeOK /\ LockInv /\ MsgsInv /\ ParserInv /\ StreamInv /\ WakeupInv
        /\ BlocksConserved

-----------------------------------------------------------------------------
(* The channel implements the FIFO of ChannelFifo: a message is sent when  *)
(* its writer takes the lock and taken when its handler is called.         *)
Fifo == INSTANCE ChannelFifo
          WITH Senders <- Threads,
               sent    <- [i \in DOMAIN msgs |-> msgs[i].from],
               taken   <- delivered

\* Messages are handled once each, in the order of acceptance.
ImplementsFifo == Fifo!Spec

\* Every accepted message is handled in the end.
ImplementsFairFifo == Fifo!FairSpec
=============================================================================
