-------------------------- MODULE HgUdpRecv_proofs --------------------------
(* The memory of UDP packets, for any number of ssrcs, slots and packets:  *)
(* a packet is in one place at most, so none is given back twice and none  *)
(* that was given back is still used.                                      *)
EXTENDS HgUdpRecv, FiniteSetTheorems, SequenceTheorems, TLAPS

\* A message about one of n packets.
Messages(n) == [free : BOOLEAN, id : 1 .. n]

\* The n packets are at most once in the inbox q, the cache c and the queue p.
Places(q, c, p, n) ==
  /\ q \in Seq(Messages(n)) /\ c \in [Slots -> 0 .. n] /\ p \in Seq(1 .. n)
  /\ \A i, j \in 1 .. Len(q) : q[i].id = q[j].id => i = j
  /\ \A i, j \in Slots : c[i] = c[j] /\ c[i] # 0 => i = j
  /\ \A i, j \in 1 .. Len(p) : p[i] = p[j] => i = j
  /\ \A i \in 1 .. Len(q), j \in Slots : q[i].id # c[j]
  /\ \A i \in 1 .. Len(q), j \in 1 .. Len(p) : q[i].id # p[j]
  /\ \A i \in Slots, j \in 1 .. Len(p) : c[i] # p[j]

\* Packet id is nowhere.
Nowhere(id, q, c, p) ==
  /\ \A i \in 1 .. Len(q) : q[i].id # id
  /\ \A i \in Slots : c[i] # id
  /\ \A i \in 1 .. Len(p) : p[i] # id

\* What was received, and the number the stream is to be played from.
StreamInv ==
  /\ packets \in Seq([ssrc : UdpSsrcs, kind : Kinds, seq : SeqNums])
  /\ udpBucket \subseteq UdpSsrcs /\ loggedIn \in BOOLEAN
  /\ curPacketSeqs \in SeqNums /\ udpPc \in {"run", "crash"}

UdpInv == StreamInv /\ Places(udpInbox, recvCache, pipeQueue, Len(packets))

-----------------------------------------------------------------------------
(* Moving a packet                                                         *)

\* What is in a place is the number of a packet.
LEMMA PlacedNumbers ==
  ASSUME NEW q, NEW c, NEW p, NEW n \in Nat, Places(q, c, p, n)
  PROVE  /\ q \in Seq(Messages(n)) /\ c \in [Slots -> 0 .. n] /\ p \in Seq(1 .. n)
         /\ Len(q) \in Nat /\ Len(p) \in Nat
         /\ \A i \in 1 .. Len(q) : q[i] \in Messages(n) /\ q[i].id \in 1 .. n
         /\ \A i \in Slots : c[i] \in 0 .. n
         /\ \A i \in 1 .. Len(p) : p[i] \in 1 .. n
<1>0. q \in Seq(Messages(n)) /\ c \in [Slots -> 0 .. n] /\ p \in Seq(1 .. n)
  BY DEF Places
<1>1. ASSUME NEW i \in 1 .. Len(q) PROVE q[i] \in Messages(n) /\ q[i].id \in 1 .. n
  <2>1. q[i] \in Messages(n)
    BY <1>0, ElementOfSeq
  <2> QED
    BY <2>1 DEF Messages
<1>2. \A i \in 1 .. Len(p) : p[i] \in 1 .. n
  BY <1>0, ElementOfSeq
<1>3. \A i \in Slots : c[i] \in 0 .. n
  BY <1>0
<1>4. Len(q) \in Nat /\ Len(p) \in Nat
  BY <1>0, LenProperties
<1> QED
  BY <1>0, <1>1, <1>2, <1>3, <1>4

\* The packet of the message that is taken is nowhere else.
LEMMA TakeMessage ==
  ASSUME NEW q, NEW c, NEW p, NEW n \in Nat, Places(q, c, p, n), q # <<>>
  PROVE  /\ Places(Tail(q), c, p, n)
         /\ Head(q) \in Messages(n) /\ Head(q).id \in 1 .. n
         /\ Nowhere(Head(q).id, Tail(q), c, p)
<1> DEFINE t == Tail(q)
           h == Head(q)
<1>0. q \in Seq(Messages(n)) /\ c \in [Slots -> 0 .. n] /\ p \in Seq(1 .. n)
  BY DEF Places
<1>1. /\ Len(q) \in Nat /\ 1 \in 1 .. Len(q) /\ h = q[1]
      /\ t \in Seq(Messages(n)) /\ Len(t) = Len(q) - 1
      /\ \A i \in 1 .. Len(t) : t[i] = q[i + 1] /\ i + 1 \in 1 .. Len(q) /\ i + 1 # 1
  <2>1. Len(q) \in Nat \ {0}
    BY <1>0, EmptySeq
  <2>2. /\ t \in Seq(Messages(n)) /\ Len(t) = Len(q) - 1
        /\ \A i \in 1 .. Len(t) : t[i] = q[i + 1]
    BY <1>0, HeadTailProperties
  <2>3. h = q[1]
    OBVIOUS
  <2> HIDE DEF t, h
  <2>4. \A i \in 1 .. Len(t) : i + 1 \in 1 .. Len(q) /\ i + 1 # 1
    BY <2>1, <2>2
  <2> QED
    BY <2>1, <2>2, <2>3, <2>4
<1>2. h \in Messages(n) /\ h.id \in 1 .. n
  <2>1. h \in Messages(n)
    BY <1>0, HeadTailProperties
  <2> QED
    BY <2>1 DEF Messages
<1> HIDE DEF t, h
<1>3. ASSUME NEW i \in 1 .. Len(t), NEW j \in 1 .. Len(t), t[i].id = t[j].id
      PROVE  i = j
  <2>1. /\ t[i] = q[i + 1] /\ t[j] = q[j + 1]
        /\ i + 1 \in 1 .. Len(q) /\ j + 1 \in 1 .. Len(q)
    BY <1>1
  <2>2. i + 1 = j + 1
    BY <1>3, <2>1 DEF Places
  <2> QED
    BY <2>2
<1>4. Places(t, c, p, n)
  <2>1. ASSUME NEW i \in 1 .. Len(t)
        PROVE  /\ \A j \in Slots : t[i].id # c[j]
               /\ \A j \in 1 .. Len(p) : t[i].id # p[j]
    <3>1. PICK k \in 1 .. Len(q) : t[i] = q[k]
      BY <1>1
    <3> QED
      BY <3>1 DEF Places
  <2> QED
    BY <1>0, <1>1, <1>3, <2>1 DEF Places
<1>5. Nowhere(h.id, t, c, p)
  <2>1. ASSUME NEW i \in 1 .. Len(t) PROVE t[i].id # h.id
    <3>1. i + 1 \in 1 .. Len(q) /\ i + 1 # 1 /\ t[i] = q[i + 1]
      BY <1>1
    <3>2. q[i + 1].id # q[1].id
      BY <1>1, <3>1 DEF Places
    <3> QED
      BY <1>1, <3>1, <3>2
  <2>2. /\ \A j \in Slots : q[1].id # c[j]
        /\ \A j \in 1 .. Len(p) : q[1].id # p[j]
    BY <1>1 DEF Places
  <2> QED
    BY <1>1, <2>1, <2>2 DEF Nowhere
<1> QED
  BY <1>2, <1>4, <1>5 DEF t, h

\* A packet that is nowhere goes to the end of the inbox.
LEMMA ToInbox ==
  ASSUME NEW q, NEW c, NEW p, NEW n \in Nat, Places(q, c, p, n),
         NEW m \in Messages(n), Nowhere(m.id, q, c, p)
  PROVE  Places(Append(q, m), c, p, n)
<1> DEFINE r == Append(q, m)
<1>0. q \in Seq(Messages(n)) /\ c \in [Slots -> 0 .. n] /\ p \in Seq(1 .. n)
  BY DEF Places
<1>1. /\ Len(q) \in Nat /\ r \in Seq(Messages(n)) /\ Len(r) = Len(q) + 1
      /\ r[Len(q) + 1] = m /\ \A i \in 1 .. Len(q) : r[i] = q[i]
  BY <1>0
<1> HIDE DEF r
<1>2. \A i \in 1 .. Len(r) : i \in 1 .. Len(q) \/ i = Len(q) + 1
  BY <1>1
<1>3. ASSUME NEW i \in 1 .. Len(r), NEW j \in 1 .. Len(r), r[i].id = r[j].id
      PROVE  i = j
  BY <1>1, <1>2, <1>3 DEF Places, Nowhere
<1>4. ASSUME NEW i \in 1 .. Len(r)
      PROVE  (\A j \in Slots : r[i].id # c[j]) /\ (\A j \in 1 .. Len(p) : r[i].id # p[j])
  <2>1. CASE i \in 1 .. Len(q)
    <3>1. r[i] = q[i]
      BY <1>1, <2>1
    <3> QED
      BY <2>1, <3>1 DEF Places
  <2>2. CASE i = Len(q) + 1
    <3>1. r[i] = m
      BY <1>1, <2>2
    <3> QED
      BY <3>1 DEF Nowhere
  <2> QED
    BY <1>2, <2>1, <2>2
<1>5. Places(r, c, p, n)
  BY <1>0, <1>1, <1>3, <1>4 DEF Places
<1> QED
  BY <1>5 DEF r

\* A packet that is nowhere is queued for the pipe.
LEMMA ToPipe ==
  ASSUME NEW q, NEW c, NEW p, NEW n \in Nat, Places(q, c, p, n),
         NEW id \in 1 .. n, Nowhere(id, q, c, p)
  PROVE  Places(q, c, Append(p, id), n)
<1> DEFINE r == Append(p, id)
<1>0. q \in Seq(Messages(n)) /\ c \in [Slots -> 0 .. n] /\ p \in Seq(1 .. n)
  BY DEF Places
<1>1. /\ Len(p) \in Nat /\ r \in Seq(1 .. n) /\ Len(r) = Len(p) + 1
      /\ r[Len(p) + 1] = id /\ \A i \in 1 .. Len(p) : r[i] = p[i]
  BY <1>0
<1> HIDE DEF r
<1>2. \A i \in 1 .. Len(r) : i \in 1 .. Len(p) \/ i = Len(p) + 1
  BY <1>1
<1>3. ASSUME NEW i \in 1 .. Len(r), NEW j \in 1 .. Len(r), r[i] = r[j]
      PROVE  i = j
  <2>1. CASE i \in 1 .. Len(p) /\ j \in 1 .. Len(p)
    <3>1. p[i] = p[j]
      BY <1>1, <1>3, <2>1
    <3> QED
      BY <2>1, <3>1 DEF Places
  <2>2. CASE i \in 1 .. Len(p) /\ j = Len(p) + 1
    <3>1. p[i] = id
      BY <1>1, <1>3, <2>2
    <3> QED
      BY <2>2, <3>1 DEF Nowhere
  <2>3. CASE i = Len(p) + 1 /\ j \in 1 .. Len(p)
    <3>1. p[j] = id
      BY <1>1, <1>3, <2>3
    <3> QED
      BY <2>3, <3>1 DEF Nowhere
  <2> QED
    BY <1>2, <2>1, <2>2, <2>3
<1>4. ASSUME NEW j \in 1 .. Len(r)
      PROVE  (\A i \in 1 .. Len(q) : q[i].id # r[j]) /\ (\A i \in Slots : c[i] # r[j])
  <2>1. CASE j \in 1 .. Len(p)
    <3>1. r[j] = p[j]
      BY <1>1, <2>1
    <3> QED
      BY <2>1, <3>1 DEF Places
  <2>2. CASE j = Len(p) + 1
    <3>1. r[j] = id
      BY <1>1, <2>2
    <3> QED
      BY <3>1 DEF Nowhere
  <2> QED
    BY <1>2, <2>1, <2>2
<1>5. Places(q, c, r, n)
  BY <1>0, <1>1, <1>3, <1>4 DEF Places
<1> QED
  BY <1>5 DEF r

\* A packet that is nowhere goes to a slot of the cache.
LEMMA ToCache ==
  ASSUME NEW q, NEW c, NEW p, NEW n \in Nat, Places(q, c, p, n),
         NEW id \in 1 .. n, Nowhere(id, q, c, p), NEW slot
  PROVE  Places(q, [c EXCEPT ![slot] = id], p, n)
<1> DEFINE d == [c EXCEPT ![slot] = id]
<1>0. q \in Seq(Messages(n)) /\ c \in [Slots -> 0 .. n] /\ p \in Seq(1 .. n)
  BY DEF Places
<1>1. /\ d \in [Slots -> 0 .. n]
      /\ \A i \in Slots : d[i] = IF i = slot THEN id ELSE c[i]
  <2>1. id \in 0 .. n
    OBVIOUS
  <2>2. ASSUME NEW S, NEW T, NEW g \in [S -> T], NEW y, NEW z \in T
        PROVE  /\ [g EXCEPT ![y] = z] \in [S -> T]
               /\ \A i \in S : [g EXCEPT ![y] = z][i] = IF i = y THEN z ELSE g[i]
    OBVIOUS
  <2> QED
    BY <1>0, <2>1, <2>2
<1> HIDE DEF d
<1>2. ASSUME NEW i \in Slots, NEW j \in Slots, d[i] = d[j], d[i] # 0
      PROVE  i = j
  BY <1>1, <1>2 DEF Places, Nowhere
<1>3. /\ \A i \in 1 .. Len(q), j \in Slots : q[i].id # d[j]
      /\ \A i \in Slots, j \in 1 .. Len(p) : d[i] # p[j]
  BY <1>1 DEF Places, Nowhere
<1>4. Places(q, d, p, n)
  BY <1>0, <1>1, <1>2, <1>3 DEF Places
<1> QED
  BY <1>4 DEF d

\* The cache is emptied.
LEMMA CacheEmptied ==
  ASSUME NEW q, NEW c, NEW p, NEW n \in Nat, Places(q, c, p, n)
  PROVE  Places(q, EmptyCache, p, n)
<1>1. /\ q \in Seq(Messages(n)) /\ p \in Seq(1 .. n)
      /\ \A i \in 1 .. Len(q) : q[i].id \in 1 .. n
      /\ \A i \in 1 .. Len(p) : p[i] \in 1 .. n
  BY PlacedNumbers
<1>2. EmptyCache \in [Slots -> 0 .. n] /\ \A i \in Slots : EmptyCache[i] = 0
  BY DEF EmptyCache
<1>3. /\ \A i \in 1 .. Len(q), j \in Slots : q[i].id # EmptyCache[j]
      /\ \A i \in Slots, j \in 1 .. Len(p) : EmptyCache[i] # p[j]
  <2>1. 0 \notin 1 .. n
    OBVIOUS
  <2> QED
    BY <1>1, <1>2, <2>1
<1>4. \A i, j \in Slots : EmptyCache[i] = EmptyCache[j] /\ EmptyCache[i] # 0 => i = j
  BY <1>2
<1> QED
  BY <1>1, <1>2, <1>3, <1>4 DEF Places

\* One more packet is received, and is nowhere yet.
LEMMA OneMore ==
  ASSUME NEW q, NEW c, NEW p, NEW n \in Nat, Places(q, c, p, n)
  PROVE  Places(q, c, p, n + 1) /\ Nowhere(n + 1, q, c, p)
<1>0. q \in Seq(Messages(n)) /\ c \in [Slots -> 0 .. n] /\ p \in Seq(1 .. n)
  BY DEF Places
<1>1. Messages(n) \subseteq Messages(n + 1) /\ 1 .. n \subseteq 1 .. n + 1
  BY DEF Messages
<1>2. q \in Seq(Messages(n + 1)) /\ p \in Seq(1 .. n + 1)
  BY <1>0, <1>1, SeqMonotonic
<1>3. c \in [Slots -> 0 .. n + 1]
  BY <1>0
<1>4. /\ \A i \in 1 .. Len(q) : q[i].id \in 1 .. n
      /\ \A i \in Slots : c[i] \in 0 .. n
      /\ \A i \in 1 .. Len(p) : p[i] \in 1 .. n
  BY PlacedNumbers
<1>6. Nowhere(n + 1, q, c, p)
  <2>1. n + 1 \notin 1 .. n /\ n + 1 \notin 0 .. n
    OBVIOUS
  <2> QED
    BY <1>4, <2>1 DEF Nowhere
<1> QED
  BY <1>2, <1>3, <1>6 DEF Places

-----------------------------------------------------------------------------
(* The steps                                                               *)

\* What every step starts from.
LEMMA UdpNumbers ==
  ASSUME UdpInv
  PROVE  /\ Len(packets) \in Nat /\ DOMAIN packets = 1 .. Len(packets)
         /\ packets \in Seq([ssrc : UdpSsrcs, kind : Kinds, seq : SeqNums])
         /\ \A id \in 1 .. Len(packets) :
              /\ packets[id] \in [ssrc : UdpSsrcs, kind : Kinds, seq : SeqNums]
              /\ packets[id].ssrc \in UdpSsrcs /\ packets[id].seq \in SeqNums
         /\ Places(udpInbox, recvCache, pipeQueue, Len(packets))
<1>1. /\ packets \in Seq([ssrc : UdpSsrcs, kind : Kinds, seq : SeqNums])
      /\ Places(udpInbox, recvCache, pipeQueue, Len(packets))
  BY DEF UdpInv, StreamInv
<1>2. Len(packets) \in Nat /\ DOMAIN packets = 1 .. Len(packets)
  BY <1>1, LenProperties
<1>3. ASSUME NEW id \in 1 .. Len(packets)
      PROVE  /\ packets[id] \in [ssrc : UdpSsrcs, kind : Kinds, seq : SeqNums]
             /\ packets[id].ssrc \in UdpSsrcs /\ packets[id].seq \in SeqNums
  <2>1. packets[id] \in [ssrc : UdpSsrcs, kind : Kinds, seq : SeqNums]
    BY <1>1, ElementOfSeq
  <2> QED
    BY <2>1
<1> QED
  BY <1>1, <1>2, <1>3

\* A packet is received.
LEMMA ArriveKeeps ==
  ASSUME UdpInv, NEW ssrc \in UdpSsrcs, NEW kind \in Kinds, NEW seq \in SeqNums,
         PacketArrives(ssrc, kind, seq)
  PROVE  UdpInv'
<1> DEFINE n == Len(packets)
           pk == [ssrc |-> ssrc, kind |-> kind, seq |-> seq]
           m == [free |-> FALSE, id |-> n + 1]
<1>1. n \in Nat /\ packets \in Seq([ssrc : UdpSsrcs, kind : Kinds, seq : SeqNums])
  BY UdpNumbers
<1>2. /\ packets' = Append(packets, pk)
      /\ udpInbox' = Append(udpInbox, m)
      /\ udpBucket' = udpBucket /\ loggedIn' = loggedIn
      /\ curPacketSeqs' = curPacketSeqs /\ recvCache' = recvCache
      /\ pipeQueue' = pipeQueue /\ udpPc' = udpPc
  BY DEF PacketArrives, sessVars
<1>3. pk \in [ssrc : UdpSsrcs, kind : Kinds, seq : SeqNums]
  OBVIOUS
<1> HIDE DEF pk
<1>4. /\ packets' \in Seq([ssrc : UdpSsrcs, kind : Kinds, seq : SeqNums])
      /\ Len(packets') = n + 1
  BY <1>1, <1>2, <1>3
<1>5. StreamInv'
  BY <1>2, <1>4 DEF UdpInv, StreamInv
<1>6. Places(udpInbox, recvCache, pipeQueue, n + 1) /\ Nowhere(n + 1, udpInbox, recvCache, pipeQueue)
  <2>1. Places(udpInbox, recvCache, pipeQueue, n)
    BY UdpNumbers
  <2> HIDE DEF n
  <2> QED
    BY <1>1, <2>1, OneMore
<1>7. m \in Messages(n + 1) /\ m.id = n + 1 /\ n + 1 \in Nat
  BY <1>1 DEF Messages
<1>8. Places(Append(udpInbox, m), recvCache, pipeQueue, n + 1)
  <2> HIDE DEF m, n
  <2> QED
    BY <1>6, <1>7, ToInbox
<1>9. Places(udpInbox, recvCache, pipeQueue, Len(packets))'
  BY <1>2, <1>4, <1>8
<1> QED
  BY <1>5, <1>9 DEF UdpInv

\* The message that the worker takes.
LEMMA NextTaken ==
  ASSUME UdpInv, NEW free, NextMessage(free)
  PROVE  /\ Id \in 1 .. Len(packets)
         /\ Pkt.ssrc \in UdpSsrcs /\ Pkt.seq \in SeqNums
         /\ [free |-> TRUE, id |-> Id] \in Messages(Len(packets))
         /\ Places(Tail(udpInbox), recvCache, pipeQueue, Len(packets))
         /\ Nowhere(Id, Tail(udpInbox), recvCache, pipeQueue)
<1>1. /\ Len(packets) \in Nat /\ udpInbox # <<>>
      /\ Places(udpInbox, recvCache, pipeQueue, Len(packets))
  BY UdpNumbers DEF NextMessage
<1>2. /\ Places(Tail(udpInbox), recvCache, pipeQueue, Len(packets))
      /\ Head(udpInbox).id \in 1 .. Len(packets)
      /\ Nowhere(Head(udpInbox).id, Tail(udpInbox), recvCache, pipeQueue)
  BY <1>1, TakeMessage
<1>3. Pkt.ssrc \in UdpSsrcs /\ Pkt.seq \in SeqNums
  BY <1>2, UdpNumbers DEF Pkt, Id
<1>4. [free |-> TRUE, id |-> Id] \in Messages(Len(packets))
  BY <1>2 DEF Messages, Id
<1> QED
  BY <1>2, <1>3, <1>4 DEF Id

\* The worker gives a packet to the pipe: a login's packet, one of a session that
\* is not logged in, a request (huage_recvstream.cpp:104-180, 419-462).
LEMMA BackKeeps ==
  ASSUME UdpInv, HandleFree \/ HandleBack
  PROVE  UdpInv'
<1> DEFINE n == Len(packets)
<1>1. PICK free \in BOOLEAN : NextMessage(free)
  BY DEF HandleFree, HandleBack, Known
<1>2. /\ pipeQueue' = Append(pipeQueue, Id) /\ udpInbox' = Tail(udpInbox)
      /\ packets' = packets /\ udpPc' = udpPc
      /\ udpBucket' = udpBucket /\ loggedIn' = loggedIn
      /\ curPacketSeqs' = curPacketSeqs /\ recvCache' = recvCache
  BY DEF HandleFree, HandleBack, sessVars
<1>3. StreamInv'
  BY <1>2 DEF UdpInv, StreamInv
<1>4. n \in Nat
  BY UdpNumbers
<1>5. /\ Id \in 1 .. n /\ Places(Tail(udpInbox), recvCache, pipeQueue, n)
      /\ Nowhere(Id, Tail(udpInbox), recvCache, pipeQueue)
  BY <1>1, NextTaken
<1>6. Places(Tail(udpInbox), recvCache, Append(pipeQueue, Id), n)
  <2> HIDE DEF n
  <2> QED
    BY <1>4, <1>5, ToPipe
<1>7. Places(udpInbox, recvCache, pipeQueue, Len(packets))'
  BY <1>2, <1>6
<1> QED
  BY <1>3, <1>7 DEF UdpInv

\* A first packet, which may empty the cache (hgsession.cpp:39-73).
LEMMA FirstKeeps ==
  ASSUME UdpInv, HandleFirst
  PROVE  UdpInv'
<1> DEFINE n == Len(packets)
           m == [free |-> TRUE, id |-> Id]
<1>1. NextMessage(FALSE) /\ n \in Nat
  BY UdpNumbers DEF HandleFirst
<1>2. /\ Id \in 1 .. n /\ Pkt.ssrc \in UdpSsrcs /\ m \in Messages(n)
      /\ Places(Tail(udpInbox), recvCache, pipeQueue, n)
      /\ Nowhere(Id, Tail(udpInbox), recvCache, pipeQueue)
  BY <1>1, NextTaken
<1>3. /\ packets' = packets /\ udpPc' = udpPc /\ pipeQueue' = pipeQueue
      /\ udpBucket' = udpBucket \cup {Pkt.ssrc}
      /\ udpInbox' \in {Tail(udpInbox), Append(Tail(udpInbox), m)}
  BY DEF HandleFirst, LoginPacket
<1>4. \/ recvCache' = recvCache /\ curPacketSeqs' = curPacketSeqs
      \/ recvCache' = EmptyCache /\ curPacketSeqs' = NoSeqYet
  BY DEF HandleFirst, Reset
<1>5. loggedIn' \in BOOLEAN
  BY DEF HandleFirst, UdpInv, StreamInv
<1>6. StreamInv'
  <2>1. curPacketSeqs' \in SeqNums
    BY <1>4, UdpRecvAssumption DEF UdpInv, StreamInv
  <2>2. udpBucket' \subseteq UdpSsrcs
    BY <1>2, <1>3 DEF UdpInv, StreamInv
  <2> QED
    BY <1>3, <1>5, <2>1, <2>2 DEF UdpInv, StreamInv
<1>7. Places(udpInbox', recvCache, pipeQueue, n)
  <2>1. m.id = Id
    OBVIOUS
  <2> HIDE DEF n, m
  <2>2. Places(Append(Tail(udpInbox), m), recvCache, pipeQueue, n)
    BY <1>1, <1>2, <2>1, ToInbox
  <2> QED
    BY <1>2, <1>3, <2>2
<1>8. Places(udpInbox', EmptyCache, pipeQueue, n)
  <2> HIDE DEF n
  <2> QED
    BY <1>1, <1>7, CacheEmptied
<1>9. Places(udpInbox, recvCache, pipeQueue, Len(packets))'
  BY <1>3, <1>4, <1>7, <1>8
<1> QED
  BY <1>6, <1>9 DEF UdpInv

\* A packet of a stream is cached or forgotten, one of an ssrc without session is
\* the last (huage_recvstream.cpp:119-168).
LEMMA PostKeeps ==
  ASSUME UdpInv, HandlePost \/ HandleUnknown
  PROVE  UdpInv'
<1> DEFINE n == Len(packets)
           slot == packets[Id].seq % sess_cache_LEN
<1>1. NextMessage(FALSE) /\ n \in Nat
  BY UdpNumbers DEF HandlePost, HandleUnknown, Known
<1>2. /\ Id \in 1 .. n /\ Pkt.seq \in SeqNums
      /\ Places(Tail(udpInbox), recvCache, pipeQueue, n)
      /\ Nowhere(Id, Tail(udpInbox), recvCache, pipeQueue)
  BY <1>1, NextTaken
<1>3. /\ packets' = packets /\ pipeQueue' = pipeQueue /\ udpInbox' = Tail(udpInbox)
      /\ udpBucket' = udpBucket /\ loggedIn' = loggedIn
      /\ curPacketSeqs' \in {curPacketSeqs, Pkt.seq}
      /\ recvCache' \in {recvCache, [recvCache EXCEPT ![slot] = Id]}
      /\ udpPc' \in {udpPc, "crash"}
  BY DEF HandlePost, HandleUnknown, CurAfter, WriteTocache, sessVars
<1> HIDE DEF slot
<1>4. StreamInv'
  BY <1>2, <1>3 DEF UdpInv, StreamInv
<1>5. Places(Tail(udpInbox), [recvCache EXCEPT ![slot] = Id], pipeQueue, n)
  <2> HIDE DEF n
  <2> QED
    BY <1>1, <1>2, ToCache
<1>6. Places(udpInbox, recvCache, pipeQueue, Len(packets))'
  BY <1>2, <1>3, <1>5
<1> QED
  BY <1>4, <1>6 DEF UdpInv

\* Nothing was received yet.
LEMMA UdpStarts == UdpInit => UdpInv
<1> SUFFICES ASSUME UdpInit PROVE UdpInv
  OBVIOUS
<1>1. /\ packets = <<>> /\ udpInbox = <<>> /\ pipeQueue = <<>>
      /\ recvCache = EmptyCache /\ Len(packets) = 0
      /\ Len(udpInbox) = 0 /\ Len(pipeQueue) = 0
  BY DEF UdpInit
<1>2. EmptyCache \in [Slots -> 0 .. 0] /\ \A i \in Slots : EmptyCache[i] = 0
  BY DEF EmptyCache
<1>3. Places(udpInbox, recvCache, pipeQueue, 0)
  BY <1>1, <1>2, EmptySeq DEF Places
<1>4. StreamInv
  <2>1. loggedIn \in BOOLEAN /\ udpPc \in {"run", "crash"} /\ udpBucket \subseteq UdpSsrcs
    BY DEF UdpInit
  <2>2. curPacketSeqs \in SeqNums
    BY UdpRecvAssumption DEF UdpInit
  <2> QED
    BY <1>1, <2>1, <2>2, EmptySeq DEF StreamInv
<1> QED
  BY <1>1, <1>3, <1>4 DEF UdpInv

\* Every step keeps packets where they belong.
LEMMA UdpStep ==
  ASSUME UdpInv, [UdpNext]_udpVars
  PROVE  UdpInv'
<1>1. ASSUME NEW ssrc \in UdpSsrcs, NEW kind \in Kinds, PacketArrives(ssrc, kind, 0)
      PROVE  UdpInv'
  <2>1. 0 \in SeqNums
    BY UdpRecvAssumption, SeqAssumption DEF SeqNums
  <2> QED
    BY <1>1, <2>1, ArriveKeeps
<1>2. ASSUME NEW ssrc \in UdpSsrcs, NEW seq \in UdpSeqs, PacketArrives(ssrc, "post", seq)
      PROVE  UdpInv'
  <2>1. seq \in SeqNums /\ "post" \in Kinds
    BY UdpRecvAssumption DEF Kinds
  <2> QED
    BY <1>2, <2>1, ArriveKeeps
<1>3. CASE UNCHANGED udpVars
  <2>1. /\ packets' = packets /\ udpInbox' = udpInbox /\ udpBucket' = udpBucket
        /\ loggedIn' = loggedIn /\ curPacketSeqs' = curPacketSeqs
        /\ recvCache' = recvCache /\ pipeQueue' = pipeQueue /\ udpPc' = udpPc
    BY <1>3 DEF udpVars
  <2> QED
    BY <2>1 DEF UdpInv, StreamInv
<1>4. CASE HandleFree \/ HandleBack
  BY <1>4, BackKeeps
<1>5. CASE HandleFirst
  BY <1>5, FirstKeeps
<1>6. CASE HandlePost \/ HandleUnknown
  BY <1>6, PostKeeps
<1> QED
  BY <1>1, <1>2, <1>3, <1>4, <1>5, <1>6 DEF UdpNext

\* The invariant of the receiving side of UDP (huage_recvstream.cpp:104-180,
\* 419-462; hg_udpabstract.cpp:140-255).
THEOREM UdpInvariant == UdpSpec => []UdpInv
  BY UdpStarts, UdpStep, PTL DEF UdpSpec

\* Every variable of the receiving side of UDP keeps its type
\* (hgsession.cpp:10-73).
THEOREM UdpTypes == UdpSpec => []UdpTypeOK
<1>1. UdpInv => UdpTypeOK
  <2> SUFFICES ASSUME UdpInv PROVE UdpTypeOK
    OBVIOUS
  <2>1. DOMAIN packets = 1 .. Len(packets) /\ Len(packets) \in Nat
    BY UdpNumbers
  <2>2. /\ udpInbox \in Seq([free : BOOLEAN, id : 1 .. Len(packets)])
        /\ recvCache \in [Slots -> 0 .. Len(packets)]
        /\ pipeQueue \in Seq(1 .. Len(packets))
    BY DEF UdpInv, Places, Messages
  <2>3. 0 .. Len(packets) = {0} \cup 1 .. Len(packets)
    BY <2>1
  <2> QED
    BY <2>1, <2>2, <2>3 DEF UdpTypeOK, UdpInv, StreamInv
<1> QED
  BY <1>1, UdpInvariant, PTL

\* A set with at most one element.
LEMMA AtMostOne ==
  ASSUME NEW S, \A x, y \in S : x = y
  PROVE  Cardinality(S) \in {0, 1} /\ (S = {} => Cardinality(S) = 0)
<1>1. CASE S = {}
  BY <1>1, FS_EmptySet
<1>2. CASE S # {}
  <2>1. PICK x \in S : S = {x}
    BY <1>2
  <2> QED
    BY <1>2, <2>1, FS_Singleton
<1> QED
  BY <1>1, <1>2

\* A packet's memory is in one place at most, and there once: nothing that was
\* given back is still used, or is given back again
\* (huage_recvstream.cpp:104-180, 419-462).
THEOREM UdpPacketInOnePlace == UdpSpec => []PacketInOnePlace
<1>1. UdpInv => PacketInOnePlace
  <2> SUFFICES ASSUME UdpInv, NEW id \in DOMAIN packets
               PROVE  Cardinality({i \in DOMAIN udpInbox : udpInbox[i].id = id})
                        + Cardinality({i \in Slots : recvCache[i] = id})
                        + Cardinality({i \in DOMAIN pipeQueue : pipeQueue[i] = id}) <= 1
    BY DEF PacketInOnePlace
  <2> DEFINE A == {i \in DOMAIN udpInbox : udpInbox[i].id = id}
             B == {i \in Slots : recvCache[i] = id}
             C == {i \in DOMAIN pipeQueue : pipeQueue[i] = id}
  <2>1. /\ Places(udpInbox, recvCache, pipeQueue, Len(packets))
        /\ id \in 1 .. Len(packets) /\ id # 0
    BY UdpNumbers
  <2>2. DOMAIN udpInbox = 1 .. Len(udpInbox) /\ DOMAIN pipeQueue = 1 .. Len(pipeQueue)
    BY <2>1, LenProperties DEF Places
  <2>3. /\ \A x, y \in A : x = y
        /\ \A x, y \in B : x = y
        /\ \A x, y \in C : x = y
    BY <2>1, <2>2 DEF Places
  <2>4. \/ A = {} /\ B = {}
        \/ A = {} /\ C = {}
        \/ B = {} /\ C = {}
    BY <2>1, <2>2 DEF Places
  <2> HIDE DEF A, B, C
  <2>5. /\ Cardinality(A) \in {0, 1} /\ (A = {} => Cardinality(A) = 0)
        /\ Cardinality(B) \in {0, 1} /\ (B = {} => Cardinality(B) = 0)
        /\ Cardinality(C) \in {0, 1} /\ (C = {} => Cardinality(C) = 0)
    BY <2>3, AtMostOne
  <2>6. Cardinality(A) + Cardinality(B) + Cardinality(C) <= 1
    BY <2>4, <2>5
  <2> QED
    BY <2>6 DEF A, B, C
<1> QED
  BY <1>1, UdpInvariant, PTL

-----------------------------------------------------------------------------
(* What is cached is not behind                                            *)

\* The packets of a cache are not behind the number cur.
AllAhead(pk, c, cur) ==
  \A i \in Slots : c[i] # 0 => cur # NoSeqYet /\ uint16Sub(cur, pk[c[i]].seq) <= 0

\* Each step keeps them so: the first packet sets the number, and only an
\* empty cache is without (huage_recvstream.cpp:143-180, hgsession.cpp:39-73).
LEMMA AheadStep ==
  ASSUME UdpInv, NothingBehind, [UdpNext]_udpVars,
         \A i \in DOMAIN packets' : packets'[i].seq # NoSeqYet
  PROVE  AllAhead(packets', recvCache', curPacketSeqs')
<1> DEFINE n == Len(packets)
<1>1. /\ n \in Nat /\ DOMAIN packets = 1 .. n
      /\ packets \in Seq([ssrc : UdpSsrcs, kind : Kinds, seq : SeqNums])
      /\ recvCache \in [Slots -> 0 .. n]
  BY UdpNumbers DEF Places
<1>2. /\ \A i \in 1 .. n : packets'[i] = packets[i]
      /\ 1 .. n \subseteq DOMAIN packets'
  <2>1. CASE packets' = packets
    BY <1>1, <2>1
  <2>2. ASSUME NEW ssrc \in UdpSsrcs, NEW kind \in Kinds, NEW seq \in SeqNums,
               PacketArrives(ssrc, kind, seq)
        PROVE  /\ \A i \in 1 .. n : packets'[i] = packets[i]
               /\ 1 .. n \subseteq DOMAIN packets'
    <3> DEFINE pk == [ssrc |-> ssrc, kind |-> kind, seq |-> seq]
    <3>1. packets' = Append(packets, pk)
      BY <2>2 DEF PacketArrives
    <3>2. pk \in [ssrc : UdpSsrcs, kind : Kinds, seq : SeqNums]
      OBVIOUS
    <3> HIDE DEF pk
    <3>3. /\ \A i \in 1 .. Len(packets) : packets'[i] = packets[i]
          /\ DOMAIN packets' = 1 .. Len(packets) + 1
      BY <1>1, <3>1, <3>2, AppendProperties, LenProperties
    <3> QED
      BY <1>1, <3>3
  <2>3. 0 \in SeqNums /\ UdpSeqs \subseteq SeqNums /\ "post" \in Kinds
    BY UdpRecvAssumption, SeqAssumption DEF SeqNums, Kinds
  <2> QED
    BY <2>1, <2>2, <2>3
       DEF UdpNext, HandleFree, HandleFirst, HandleUnknown, HandleBack, HandlePost, udpVars
<1>3. AllAhead(packets, recvCache, curPacketSeqs)
  <2>1. \A i \in DOMAIN packets : packets[i].seq # NoSeqYet
    BY <1>1, <1>2
  <2> QED
    BY <2>1 DEF NothingBehind, AllAhead
<1>4. AllAhead(packets', recvCache, curPacketSeqs)
  BY <1>1, <1>2, <1>3 DEF AllAhead
<1>5. CASE recvCache' = recvCache /\ curPacketSeqs' = curPacketSeqs
  BY <1>4, <1>5
<1>6. CASE recvCache' = EmptyCache
  BY <1>6 DEF AllAhead, EmptyCache
<1>7. CASE HandlePost
  <2> DEFINE seq == packets[Id].seq
  <2>1. /\ Id \in 1 .. n /\ packets' = packets
        /\ curPacketSeqs' = CurAfter(curPacketSeqs, seq)
    BY <1>7, NextTaken DEF HandlePost, Known, Pkt
  <2>2. seq # NoSeqYet
    BY <1>1, <2>1
  <2>3. /\ curPacketSeqs' # NoSeqYet
        /\ curPacketSeqs # NoSeqYet => curPacketSeqs' = curPacketSeqs
    BY <2>1, <2>2 DEF CurAfter
  <2>4. \/ recvCache' = recvCache
        \/ /\ NotBehind(curPacketSeqs', seq)
           /\ recvCache' = [recvCache EXCEPT ![seq % sess_cache_LEN] = Id]
    BY <1>7 DEF HandlePost, WriteTocache, Pkt
  <2> HIDE DEF seq
  <2>5. ASSUME NEW i \in Slots, recvCache'[i] # 0
        PROVE  uint16Sub(curPacketSeqs', packets[recvCache'[i]].seq) <= 0
    <3>1. CASE recvCache'[i] = recvCache[i]
      <4>1. curPacketSeqs # NoSeqYet /\ uint16Sub(curPacketSeqs, packets[recvCache[i]].seq) <= 0
        BY <1>3, <2>5, <3>1 DEF AllAhead
      <4> QED
        BY <2>3, <3>1, <4>1
    <3>2. CASE recvCache'[i] = Id /\ NotBehind(curPacketSeqs', seq)
      BY <3>2 DEF NotBehind, seq
    <3> QED
      BY <1>1, <2>4, <3>1, <3>2
  <2> QED
    BY <2>1, <2>3, <2>5 DEF AllAhead
<1> QED
  BY <1>5, <1>6, <1>7
     DEF UdpNext, PacketArrives, HandleFree, HandleFirst, HandleUnknown, HandleBack,
         Reset, sessVars, udpVars

\* Nothing in the cache is older than the number the stream is to be played
\* from, whoever logged in again between, as long as no packet carries the
\* number that stands for "no packet yet" (huage_recvstream.cpp:152-158).
THEOREM UdpNothingBehind == UdpSpec => []NothingBehind
<1>1. UdpInit => NothingBehind
  BY DEF UdpInit, EmptyCache, NothingBehind
<1>2. UdpInv /\ NothingBehind /\ [UdpNext]_udpVars => NothingBehind'
  BY AheadStep DEF AllAhead, NothingBehind
<1> QED
  BY <1>1, <1>2, UdpInvariant, PTL DEF UdpSpec
=============================================================================
