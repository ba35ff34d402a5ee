----------------------------- MODULE HgUdpRecv -----------------------------
(***************************************************************************)
(* The receiving side of UDP on one worker: RecvData of                    *)
(* net/common/hg_udpabstract.cpp, THPOOLRecv, writeTocache and FreeByChan  *)
(* of net/protocol/huage_recvstream.cpp, and the worker's table of         *)
(* sessions (net/protocol/hgsession.cpp).  The loop thread copies each     *)
(* packet into memory of its own pool and sends it to the worker; only the *)
(* loop may give the memory back, so the worker queues it for the loop's   *)
(* pipe.  A login's packet is queued by a message of the worker to itself. *)
(*                                                                         *)
(* All ssrcs of the worker share one session: sessGetFreeSess resets the   *)
(* head of the free list and hands it out, but leaves it in the list.      *)
(* FindUseful, which should take packets out of the cache, has no body.    *)
(* The pipe's queue is never emptied: epoll does not report that the read  *)
(* end it is given may be written, and recv fails on it.                   *)
(*                                                                         *)
(* One kind of payload is modelled; the other two have the same cache and  *)
(* counter again.  Left out: curMaxSeq, which only FindUseful would use,   *)
(* and the addresses.  Packets are numbered as they come.                  *)
(***************************************************************************)
EXTENDS SeqNum, SequencesExt, FiniteSets

CONSTANTS UdpSsrcs,       \* the ssrcs of this worker
          sess_cache_LEN, \* the slots of a cache
          NoSeqYet,       \* 0xff, "no packet was seen"
          UdpSeqs,        \* bound: the sequence numbers packets carry
          MaxPackets,     \* bound: packets received
          MaxUdpInbox     \* bound: packets that wait for the worker

ASSUME UdpRecvAssumption ==
  /\ sess_cache_LEN \in Nat \ {0} /\ NoSeqYet \in SeqNums /\ UdpSeqs \subseteq SeqNums
  /\ MaxPackets \in Nat /\ MaxUdpInbox \in Nat

VARIABLES
  packets,    \* history: the packets received
  udpInbox,   \* the messages to the worker, in order
  udpBucket,  \* bucksmap: the ssrcs that have the session
  loggedIn,   \* its status is SESSLOGIN
  curPacketSeqs, \* the first sequence number seen
  recvCache,  \* of each slot of its cache: a packet, or 0
  pipeQueue,  \* the packets queued for the pipe
  udpPc       \* "run" or "crash"

udpVars == <<packets, udpInbox, udpBucket, loggedIn, curPacketSeqs,
             recvCache, pipeQueue, udpPc>>
sessVars == <<udpBucket, loggedIn, curPacketSeqs, recvCache>>

Slots == 0 .. sess_cache_LEN - 1
EmptyCache == [i \in Slots |-> 0]

\* "login", another command sent as a first packet, a first packet with no
\* more than a head; a packet of a stream, and a request to send one again.
Kinds == {"login", "other", "short", "post", "request"}
FirstKinds == {"login", "other", "short"}

\* sessInit sets neither counter nor cache: sessGetFreeSess does.
UdpInit ==
  /\ packets = <<>> /\ udpInbox = <<>> /\ udpBucket = {} /\ loggedIn = FALSE
  /\ curPacketSeqs = NoSeqYet /\ recvCache = EmptyCache
  /\ pipeQueue = <<>> /\ udpPc = "run"

-----------------------------------------------------------------------------
\* The loop: UDPRecvmsg and RecvData.  Only the sequence numbers of a stream
\* matter.
PacketArrives(ssrc, kind, seq) ==
  /\ Len(packets) < MaxPackets
  /\ Cardinality({i \in DOMAIN udpInbox : ~udpInbox[i].free}) < MaxUdpInbox
  /\ packets' = Append(packets, [ssrc |-> ssrc, kind |-> kind, seq |-> seq])
  /\ udpInbox' = Append(udpInbox, [free |-> FALSE, id |-> Len(packets) + 1])
  /\ UNCHANGED <<sessVars, pipeQueue, udpPc>>

\* The next message to the worker.
NextMessage(free) ==
  /\ udpPc = "run" /\ udpInbox # <<>> /\ Head(udpInbox).free = free
Id  == Head(udpInbox).id
Pkt == packets[Id]

\* FreeByChan and FreeChain: the packet of a login, whose chain is it alone.
HandleFree ==
  /\ NextMessage(TRUE)
  /\ pipeQueue' = Append(pipeQueue, Id)
  /\ udpInbox' = Tail(udpInbox)
  /\ UNCHANGED <<packets, sessVars, udpPc>>

\* Wrong: the cache is not emptied.
ResetKeepsCache == curPacketSeqs' = NoSeqYet /\ UNCHANGED recvCache

\* What sessGetFreeSess does to what the session had received.
Reset == recvCache' = EmptyCache /\ curPacketSeqs' = NoSeqYet

\* Wrong: the packet that is queued for the worker is given back at once too.
LoginPacketTwice(id) ==
  /\ udpInbox' = Append(Tail(udpInbox), [free |-> TRUE, id |-> id])
  /\ pipeQueue' = Append(pipeQueue, id)

\* The memory of a first packet: WritePipeFree of RecvCallback0, which a packet
\* without a body does not come to.
LoginPacket(id) ==
  /\ udpInbox' = IF packets[id].kind = "short" THEN Tail(udpInbox)
                 ELSE Append(Tail(udpInbox), [free |-> TRUE, id |-> id])
  /\ UNCHANGED pipeQueue

\* A first packet: ActiveSess, asyncLogin.
HandleFirst ==
  /\ NextMessage(FALSE) /\ Pkt.kind \in FirstKinds
  /\ udpBucket' = udpBucket \cup {Pkt.ssrc}
  /\ IF Pkt.ssrc \in udpBucket
     THEN loggedIn' = (loggedIn \/ Pkt.kind = "login") /\ UNCHANGED <<recvCache, curPacketSeqs>>
     ELSE loggedIn' = (Pkt.kind = "login") /\ Reset
  /\ LoginPacket(Id)
  /\ UNCHANGED <<packets, udpPc>>

\* A packet of an ssrc that has no session: sessAttachAddr writes to it.
HandleUnknown ==
  /\ NextMessage(FALSE) /\ Pkt.kind \notin FirstKinds /\ Pkt.ssrc \notin udpBucket
  /\ udpPc' = "crash" /\ udpInbox' = Tail(udpInbox)
  /\ UNCHANGED <<packets, sessVars, pipeQueue>>

Known == NextMessage(FALSE) /\ Pkt.kind \notin FirstKinds /\ Pkt.ssrc \in udpBucket

\* verify_auth fails, or the packet asks for one that was lost (what
\* directSendMsg answers is in HgSendStream): clearPacket2.
HandleBack ==
  /\ Known /\ (~loggedIn \/ Pkt.kind = "request")
  /\ pipeQueue' = Append(pipeQueue, Id)
  /\ udpInbox' = Tail(udpInbox)
  /\ UNCHANGED <<packets, sessVars, udpPc>>

\* Wrong: a packet from before the first one is taken too.
NotBehindAny(cur, seq) == TRUE

\* The test before writeTocache.
NotBehind(cur, seq) == uint16Sub(cur, seq) <= 0

\* Wrong: the number after the first packet's, not reduced.
CurAfterNext(cur, seq) == IF cur = NoSeqYet THEN seq + 1 ELSE cur

\* The number the stream is to be played from, once seq has come.
CurAfter(cur, seq) == IF cur = NoSeqYet THEN seq ELSE cur

\* writeTocache: a filled slot keeps what it has, and the new packet is
\* forgotten.
WriteTocache(id) ==
  LET slot == packets[id].seq % sess_cache_LEN
  IN  IF recvCache[slot] = 0
      THEN recvCache' = [recvCache EXCEPT ![slot] = id]
      ELSE UNCHANGED recvCache

\* A packet of a stream; one that is behind the first is forgotten.
HandlePost ==
  /\ Known /\ loggedIn /\ Pkt.kind = "post"
  /\ curPacketSeqs' = CurAfter(curPacketSeqs, Pkt.seq)
  /\ IF NotBehind(curPacketSeqs', Pkt.seq) THEN WriteTocache(Id)
                                            ELSE UNCHANGED recvCache
  /\ udpInbox' = Tail(udpInbox)
  /\ UNCHANGED <<packets, udpBucket, loggedIn, pipeQueue, udpPc>>

UdpNext ==
  \/ \E ssrc \in UdpSsrcs :
       \/ \E kind \in Kinds \ {"post"} : PacketArrives(ssrc, kind, 0)
       \/ \E seq \in UdpSeqs : PacketArrives(ssrc, "post", seq)
  \/ HandleFree \/ HandleFirst \/ HandleUnknown \/ HandleBack \/ HandlePost

UdpSpec == UdpInit /\ [][UdpNext]_udpVars

-----------------------------------------------------------------------------
(* Properties                                                              *)

\* Type correctness of the receiving side of UDP.
UdpTypeOK ==
  /\ packets \in Seq([ssrc : UdpSsrcs, kind : Kinds, seq : SeqNums])
  /\ udpInbox \in Seq([free : BOOLEAN, id : DOMAIN packets])
  /\ udpBucket \subseteq UdpSsrcs /\ loggedIn \in BOOLEAN
  /\ curPacketSeqs \in SeqNums
  /\ recvCache \in [Slots -> {0} \cup DOMAIN packets]
  /\ pipeQueue \in Seq(DOMAIN packets) /\ udpPc \in {"run", "crash"}

\* A packet's memory is in one place at most - a message, a slot of the cache,
\* the queue of what goes back to the loop - and there once: nothing that was
\* given back is still used, or is given back again
\* (huage_recvstream.cpp:104-180, 419-462).
PacketInOnePlace ==
  \A id \in DOMAIN packets :
    Cardinality({i \in DOMAIN udpInbox : udpInbox[i].id = id})
      + Cardinality({i \in Slots : recvCache[i] = id})
      + Cardinality({i \in DOMAIN pipeQueue : pipeQueue[i] = id}) <= 1

\* Nothing in the cache is older than the number the stream is to be played
\* from, whoever logged in again between, as long as no packet carries the
\* number that stands for "no packet yet" (huage_recvstream.cpp:152-158).
NothingBehind ==
  (\A i \in DOMAIN packets : packets[i].seq # NoSeqYet) =>
    \A i \in Slots : recvCache[i] # 0 =>
      /\ curPacketSeqs # NoSeqYet
      /\ uint16Sub(curPacketSeqs, packets[recvCache[i]].seq) <= 0

\* "所有修改recvcache，sendcacke的地方都要先释放" (huage_recvstream.cpp: every place
\* that changes the receive cache must release first): a packet that leaves the
\* cache is given back.
CacheReleasedFirst ==
  [][\A i \in Slots : recvCache[i] # 0 /\ recvCache'[i] # recvCache[i] =>
       \/ Contains(pipeQueue', recvCache[i])
       \/ \E j \in DOMAIN udpInbox' : udpInbox'[j].id = recvCache[i]]_udpVars
=============================================================================
