-------------------------- MODULE HgTcpRecv_proofs --------------------------
(* The frames of one TCP connection.  Receiving, for all sizes of the      *)
(* circle and of the heads, and for frames of any size that has room for   *)
(* the RTP head, however the bytes arrive: what recv writes never lies     *)
(* over what waits; the frames handed on are the first that the peer sent, *)
(* byte for byte, until the handler meets a size it refuses or a frame     *)
(* that jsonblock cannot take; and a peer without such frames that come    *)
(* one at a time has none left waiting.  Sending, for all shapes of frames *)
(* and sizes of the list given to sendmsg: the peer gets bytes of the      *)
(* frames in their order, each frame is given back once, and a socket that *)
(* takes what it is given gets every byte.                                 *)
EXTENDS HgTcpRecv, HgTcpSend, HgBuf_proofs, FiniteSetTheorems

\* The bytes q are those of the stream from position x on.
Chunk(q, x) == q \in Seq(Nat) /\ \A k \in 1 .. Len(q) : q[k] = x + k - 1

\* Where the frame after the first n begins.
NextBegin(n) == IF n = Len(sentFrames) THEN SentBytes ELSE sentFrames[n + 1].beg

\* The peer's frames lie in the stream one after the other.
FramesInv ==
  /\ sentFrames \in Seq([beg : Nat, size : FrameSizes])
  /\ sentFrames # <<>> => sentFrames[1].beg = 0
  /\ \A i \in 1 .. Len(sentFrames) - 1 : sentFrames[i + 1].beg = FrameEnd(sentFrames[i])
  /\ \A i, j \in 1 .. Len(sentFrames) : i < j => sentFrames[i].beg < sentFrames[j].beg

\* What is received has arrived, and what has arrived was sent.
ArrivalInv ==
  /\ arrived \in Nat /\ got \in Nat /\ got <= arrived /\ arrived <= SentBytes
  /\ edge \in BOOLEAN /\ whole \in BOOLEAN

\* What was handed on is a prefix of what was sent.
DeliveredInv ==
  /\ recvd \in Seq(Seq(Nat)) /\ Len(recvd) <= Len(sentFrames)
  /\ \A i \in 1 .. Len(recvd) : /\ Len(recvd[i]) = sentFrames[i].size
                                /\ Chunk(recvd[i], sentFrames[i].beg + TcpHead)

\* The head of the frame was read, and the bytes it has are its first ones.
InFrame(f, n, pos) ==
  /\ n < Len(sentFrames)
  /\ f.size = sentFrames[n + 1].size /\ Len(f.bytes) < f.size
  /\ Chunk(f.bytes, sentFrames[n + 1].beg + TcpHead)
  /\ pos = sentFrames[n + 1].beg + TcpHead + Len(f.bytes)

\* The TCP head of the frame was consumed and its size refused.
PastRefused(n, pos) ==
  /\ n < Len(sentFrames) /\ Refused(sentFrames[n + 1].size)
  /\ pos = sentFrames[n + 1].beg + TcpHead

\* The handler goes astray at a frame that it refuses or that is too long.
AstrayInv ==
  /\ recvPc \in {"corrupt", "overrun"} => Len(recvd) < Len(sentFrames)
  /\ recvPc = "corrupt" => ~hashead /\ Refused(sentFrames[Len(recvd) + 1].size)
  /\ recvPc = "overrun" => hashead /\ Overruns(sentFrames[Len(recvd) + 1].size)

\* The circle is never full when recv is called, and begins where the frame
\* goes on, where the next one begins, or behind a head that was refused.
CircleInv ==
  /\ sockbuf \in Buffers(RecvCap) /\ sockbuf.len < RecvCap /\ sockbuf.len <= got
  /\ RingHolds(sockbuf, got - sockbuf.len, RecvCap)
  /\ hashead /\ recvPc # "overrun" => InFrame(frame, Len(recvd), got - sockbuf.len)
  /\ ~hashead /\ recvPc # "corrupt" => \/ got - sockbuf.len = NextBegin(Len(recvd))
                                      \/ PastRefused(Len(recvd), got - sockbuf.len)

\* The handler's state, and where the circle's ends are, whatever it holds.
HandlerInv ==
  /\ recvPc \in {"wait", "loop", "corrupt", "overrun"} /\ hashead \in BOOLEAN
  /\ sockbuf.start \in 0 .. RecvCap - 1 /\ sockbuf.end \in 0 .. RecvCap - 1
  /\ frame \in [none : BOOLEAN, size : Nat, bytes : Seq(Nat)]

RecvInv == /\ FramesInv /\ ArrivalInv /\ DeliveredInv /\ HandlerInv /\ AstrayInv
           /\ ~Stuck => CircleInv

-----------------------------------------------------------------------------
(* The circle of a socket                                                  *)

\* Of a circle with ln bytes from st to en, n more behind en fill other cells.
CellsApart(cap, st, ln, en, n) ==
  /\ en \in Nat /\ en < cap /\ en + n <= cap /\ ln + n <= cap
  /\ Wrap(en + n, cap) = Wrap(st + (ln + n), cap)
  /\ Wrap(en + n, cap) \in 0 .. cap - 1
  /\ \A k \in 0 .. ln - 1 :
       /\ Wrap(st + k, cap) \in 0 .. cap - 1
       /\ ~ (Wrap(st + k, cap) >= en /\ Wrap(st + k, cap) < en + n)
  /\ \A k \in ln .. ln + n - 1 :
       /\ Wrap(st + k, cap) \in 0 .. cap - 1
       /\ Wrap(st + k, cap) >= en /\ Wrap(st + k, cap) < en + n
       /\ Wrap(st + k, cap) - en = k - ln

\* What recv may take has room up to the end of the memory or to the start.
LEMMA RecvCells ==
  ASSUME NEW cap \in Nat \ {0}, NEW st \in 0 .. cap - 1, NEW ln \in 0 .. cap - 1,
         NEW en, en = Wrap(st + ln, cap), NEW n \in Nat \ {0},
         n <= (IF st > en THEN st - en ELSE cap - en)
  PROVE  CellsApart(cap, st, ln, en, n)
<1>0. cap \in Nat /\ cap > 0 /\ st \in Nat /\ st < cap /\ ln \in Nat /\ ln < cap /\ n >= 1
  OBVIOUS
<1>1. CASE st + ln < cap
  <2>1. en = st + ln /\ n <= cap - en
    BY <1>0, <1>1 DEF Wrap
  <2>2. /\ en \in Nat /\ en < cap /\ en + n <= cap /\ ln + n <= cap
        /\ en + n = st + (ln + n)
    BY <1>0, <1>1, <2>1
  <2>3. Wrap(en + n, cap) \in 0 .. cap - 1
    BY <1>0, <2>2 DEF Wrap
  <2>4. ASSUME NEW k \in 0 .. ln + n - 1 PROVE Wrap(st + k, cap) = st + k
    BY <1>0, <2>1, <2>2 DEF Wrap
  <2>5. \A k \in 0 .. ln - 1 : Wrap(st + k, cap) = st + k /\ st + k < en
    BY <1>0, <2>1, <2>4
  <2>6. \A k \in ln .. ln + n - 1 : Wrap(st + k, cap) = st + k /\ st + k >= en
    BY <1>0, <2>1, <2>4
  <2> HIDE DEF Wrap
  <2> QED
    BY <1>0, <2>1, <2>2, <2>3, <2>5, <2>6 DEF CellsApart
<1>2. CASE st + ln >= cap
  <2>1. en = st + ln - cap /\ en < st /\ n <= st - en
    BY <1>0, <1>2 DEF Wrap
  <2>2. /\ en \in Nat /\ en < cap /\ en + n <= st /\ en + n < cap /\ ln + n <= cap
        /\ st + (ln + n) >= cap /\ en + n = st + (ln + n) - cap
    BY <1>0, <1>2, <2>1
  <2>3. Wrap(en + n, cap) = en + n /\ Wrap(st + (ln + n), cap) = en + n
    BY <1>0, <2>2 DEF Wrap
  <2>4. ASSUME NEW k \in 0 .. ln - 1
        PROVE  \/ Wrap(st + k, cap) = st + k /\ st + k < cap /\ st + k >= en + n
               \/ /\ Wrap(st + k, cap) = st + k - cap
                  /\ 0 <= st + k - cap /\ st + k - cap < en
    BY <1>0, <2>1, <2>2 DEF Wrap
  <2>5. ASSUME NEW k \in ln .. ln + n - 1
        PROVE  Wrap(st + k, cap) = st + k - cap /\ st + k - cap = en + (k - ln)
    BY <1>0, <1>2, <2>1, <2>2 DEF Wrap
  <2>6. \A k \in 0 .. ln - 1 :
          /\ Wrap(st + k, cap) \in 0 .. cap - 1
          /\ ~ (Wrap(st + k, cap) >= en /\ Wrap(st + k, cap) < en + n)
    BY <1>0, <2>1, <2>2, <2>4
  <2>7. \A k \in ln .. ln + n - 1 :
          /\ Wrap(st + k, cap) \in 0 .. cap - 1
          /\ Wrap(st + k, cap) >= en /\ Wrap(st + k, cap) < en + n
          /\ Wrap(st + k, cap) - en = k - ln
    BY <1>0, <2>1, <2>2, <2>5
  <2> QED
    BY <1>0, <2>2, <2>3, <2>6, <2>7 DEF CellsApart
<1> QED
  BY <1>0, <1>1, <1>2

\* recv appends to what waits, if the circle is not full
\* (hg_tcpabstract.cpp:128-155).
LEMMA RecvHolds ==
  ASSUME NEW b \in Buffers(RecvCap), NEW pos \in Nat,
         RingHolds(b, pos, RecvCap), b.len < RecvCap,
         NEW n \in Nat \ {0}, n <= RecvRoom(b)
  PROVE  LET r == AppendBytes(b, pos + b.len, n, RecvCap)
         IN  /\ r \in Buffers(RecvCap) /\ r.len = b.len + n
             /\ RingHolds(r, pos, RecvCap)
<1> DEFINE r == AppendBytes(b, pos + b.len, n, RecvCap)
           st == b.start
           ln == b.len
           en == b.end
           cap == RecvCap
<1>0. cap \in Nat \ {0}
  BY TcpRecvAssumption
<1>1. /\ st \in 0 .. cap - 1 /\ ln \in 0 .. cap - 1
      /\ b.mem \in [0 .. cap - 1 -> Nat \cup {NoByte}]
  BY <1>0, BufferFields DEF Buffers
<1>2. en = Wrap(st + ln, cap) /\ \A k \in 0 .. ln - 1 : b.mem[Wrap(st + k, cap)] = pos + k
  BY DEF RingHolds, ByteAt
<1>3. n <= (IF st > en THEN st - en ELSE cap - en)
  BY DEF RecvRoom
<1>4. /\ r.start = st /\ r.end = Wrap(en + n, cap) /\ r.len = ln + n
      /\ r.mem = [c \in 0 .. cap - 1 |-> IF c >= en /\ c < en + n
                                         THEN pos + ln + (c - en) ELSE b.mem[c]]
      /\ r = [start |-> r.start, end |-> r.end, len |-> r.len, mem |-> r.mem]
  BY DEF AppendBytes
<1> HIDE DEF r, st, ln, en, cap
<1>5. /\ en \in Nat /\ en < cap /\ en + n <= cap /\ ln + n <= cap
      /\ Wrap(en + n, cap) = Wrap(st + (ln + n), cap)
      /\ Wrap(en + n, cap) \in 0 .. cap - 1
      /\ \A k \in 0 .. ln - 1 :
           /\ Wrap(st + k, cap) \in 0 .. cap - 1
           /\ ~ (Wrap(st + k, cap) >= en /\ Wrap(st + k, cap) < en + n)
      /\ \A k \in ln .. ln + n - 1 :
           /\ Wrap(st + k, cap) \in 0 .. cap - 1
           /\ Wrap(st + k, cap) >= en /\ Wrap(st + k, cap) < en + n
           /\ Wrap(st + k, cap) - en = k - ln
  <2>1. CellsApart(cap, st, ln, en, n)
    BY <1>0, <1>1, <1>2, <1>3, RecvCells
  <2> QED
    BY <2>1 DEF CellsApart
<1>6. r.mem \in [0 .. cap - 1 -> Nat \cup {NoByte}]
  <2>1. \A c \in 0 .. cap - 1 : r.mem[c] \in Nat \cup {NoByte}
    <3> SUFFICES ASSUME NEW c \in 0 .. cap - 1 PROVE r.mem[c] \in Nat \cup {NoByte}
      OBVIOUS
    <3>1. CASE c >= en /\ c < en + n
      <4>1. r.mem[c] = pos + ln + (c - en)
        BY <1>4, <3>1
      <4>2. pos + ln + (c - en) \in Nat
        BY <1>0, <1>1, <1>5, <3>1
      <4> QED
        BY <4>1, <4>2
    <3>2. CASE ~ (c >= en /\ c < en + n)
      BY <1>1, <1>4, <3>2
    <3> QED
      BY <3>1, <3>2
  <2>2. r.mem = [c \in 0 .. cap - 1 |-> r.mem[c]]
    BY <1>4
  <2> QED
    BY <2>1, <2>2
<1>7. r.start \in 0 .. cap - 1 /\ r.end \in 0 .. cap - 1 /\ r.len \in 0 .. cap
  BY <1>0, <1>1, <1>4, <1>5
<1>8. r \in Buffers(cap)
  BY <1>4, <1>6, <1>7 DEF Buffers
<1>9. \A k \in 0 .. r.len - 1 : r.mem[Wrap(st + k, cap)] = pos + k
  <2> SUFFICES ASSUME NEW k \in 0 .. r.len - 1
               PROVE  r.mem[Wrap(st + k, cap)] = pos + k
    OBVIOUS
  <2>1. CASE k < ln
    <3>1. k \in 0 .. ln - 1
      BY <1>1, <2>1
    <3>2. r.mem[Wrap(st + k, cap)] = b.mem[Wrap(st + k, cap)]
      BY <1>4, <1>5, <3>1
    <3> QED
      BY <1>2, <3>1, <3>2
  <2>2. CASE k >= ln
    <3>1. k \in ln .. ln + n - 1
      BY <1>1, <1>4, <2>2
    <3>2. r.mem[Wrap(st + k, cap)] = pos + ln + (k - ln)
      BY <1>4, <1>5, <3>1
    <3>3. pos + ln + (k - ln) = pos + k
      BY <1>1, <3>1
    <3> QED
      BY <3>2, <3>3
  <2> QED
    BY <1>1, <2>1, <2>2
<1>10. RingHolds(r, pos, cap)
  BY <1>4, <1>5, <1>9 DEF RingHolds, ByteAt
<1> QED
  BY <1>4, <1>8, <1>10 DEF r, ln, cap

-----------------------------------------------------------------------------
(* The peer's frames                                                       *)

\* The numbers of a frame.
LEMMA FrameNumbers ==
  ASSUME FramesInv, NEW i \in 1 .. Len(sentFrames)
  PROVE  /\ sentFrames[i].beg \in Nat /\ sentFrames[i].size \in Nat
         /\ sentFrames[i].size >= RtpHead /\ sentFrames[i].size >= 1
         /\ FrameEnd(sentFrames[i]) \in Nat
         /\ FrameEnd(sentFrames[i]) > sentFrames[i].beg
<1>1. sentFrames[i] \in [beg : Nat, size : FrameSizes]
  <2>1. sentFrames \in Seq([beg : Nat, size : FrameSizes])
    BY DEF FramesInv
  <2> QED
    BY <2>1, ElementOfSeq
<1>2. sentFrames[i].beg \in Nat /\ sentFrames[i].size \in FrameSizes
  BY <1>1
<1>3. /\ sentFrames[i].size \in Nat /\ sentFrames[i].size >= RtpHead
      /\ RtpHead \in Nat \ {0} /\ TcpHead \in Nat \ {0}
  BY <1>2, TcpRecvAssumption
<1> DEFINE be == sentFrames[i].beg
           si == sentFrames[i].size
<1>4. be \in Nat /\ si \in Nat /\ si >= RtpHead
  BY <1>2, <1>3
<1>5. FrameEnd(sentFrames[i]) = be + TcpHead + si
  BY DEF FrameEnd
<1> HIDE DEF be, si
<1>6. si >= 1 /\ be + TcpHead + si \in Nat /\ be + TcpHead + si > be
  BY <1>3, <1>4
<1> QED
  BY <1>4, <1>5, <1>6 DEF be, si

\* What was sent ends with the last frame.
LEMMA SentNumbers ==
  ASSUME FramesInv
  PROVE  /\ Len(sentFrames) \in Nat /\ SentBytes \in Nat
         /\ sentFrames = <<>> => SentBytes = 0 /\ Len(sentFrames) = 0
         /\ sentFrames # <<>> =>
              /\ Len(sentFrames) \in 1 .. Len(sentFrames)
              /\ SentBytes = FrameEnd(sentFrames[Len(sentFrames)])
<1>1. sentFrames \in Seq([beg : Nat, size : FrameSizes])
  BY DEF FramesInv
<1>2. Len(sentFrames) \in Nat /\ (sentFrames = <<>> => Len(sentFrames) = 0)
  BY <1>1
<1>3. sentFrames # <<>> => Len(sentFrames) \in 1 .. Len(sentFrames)
  BY <1>1
<1>4. sentFrames # <<>> => SentBytes = FrameEnd(sentFrames[Len(sentFrames)])
  BY DEF SentBytes, Last
<1>5. sentFrames # <<>> => SentBytes \in Nat
  BY <1>3, <1>4, FrameNumbers
<1>6. sentFrames = <<>> => SentBytes = 0
  BY DEF SentBytes
<1> QED
  BY <1>2, <1>3, <1>4, <1>5, <1>6

\* The next frame begins where one ends.
LEMMA NextFollows ==
  ASSUME FramesInv, NEW n \in Nat, n < Len(sentFrames)
  PROVE  NextBegin(n + 1) = FrameEnd(sentFrames[n + 1])
<1>0. Len(sentFrames) \in Nat
  BY SentNumbers
<1>1. CASE n + 1 = Len(sentFrames)
  <2>1. sentFrames # <<>>
    BY <1>0, <1>1
  <2> QED
    BY <1>1, <2>1, SentNumbers DEF NextBegin
<1>2. CASE n + 1 # Len(sentFrames)
  <2>1. n + 1 \in 1 .. Len(sentFrames) - 1
    BY <1>0, <1>2
  <2> QED
    BY <1>2, <2>1 DEF NextBegin, FramesInv
<1> QED
  BY <1>1, <1>2

-----------------------------------------------------------------------------
(* The bytes of a frame                                                    *)

\* Bytes that go on where a sequence ends.
LEMMA ChunkGlue ==
  ASSUME NEW x \in Nat, NEW q, Chunk(q, x), NEW t \in Seq(Nat),
         \A k \in 1 .. Len(t) : t[k] = x + Len(q) + k - 1
  PROVE  Chunk(q \o t, x) /\ Len(q \o t) = Len(q) + Len(t)
<1>1. q \in Seq(Nat) /\ \A k \in 1 .. Len(q) : q[k] = x + k - 1
  BY DEF Chunk
<1>2. /\ q \o t \in Seq(Nat)
      /\ Len(q \o t) = Len(q) + Len(t)
      /\ \A i \in 1 .. Len(q) + Len(t) :
           (q \o t)[i] = IF i <= Len(q) THEN q[i] ELSE t[i - Len(q)]
  BY <1>1, ConcatProperties
<1>3. Len(q) \in Nat /\ Len(t) \in Nat
  BY <1>1, LenProperties
<1>4. ASSUME NEW i \in 1 .. Len(q) + Len(t) PROVE (q \o t)[i] = x + i - 1
  <2>1. CASE i <= Len(q)
    <3>1. i \in 1 .. Len(q)
      BY <1>3, <2>1
    <3> QED
      BY <1>1, <1>2, <2>1, <3>1
  <2>2. CASE ~ (i <= Len(q))
    <3>1. i - Len(q) \in 1 .. Len(t)
      BY <1>3, <2>2
    <3>2. t[i - Len(q)] = x + Len(q) + (i - Len(q)) - 1
      BY <3>1
    <3>3. x + Len(q) + (i - Len(q)) - 1 = x + i - 1
      BY <1>3
    <3> QED
      BY <1>2, <2>2, <3>2, <3>3
  <2> QED
    BY <2>1, <2>2
<1> QED
  BY <1>2, <1>4 DEF Chunk

\* A frame takes the next bytes of the circle, as many as it lacks
\* (hg_tcpabstract.cpp:215-242).
LEMMA FilledHolds ==
  ASSUME NEW f \in [none : BOOLEAN, size : Nat, bytes : Seq(Nat)],
         NEW x \in Nat, Chunk(f.bytes, x), Len(f.bytes) < f.size,
         NEW b \in Buffers(RecvCap), b.len >= 1,
         RingHolds(b, x + Len(f.bytes), RecvCap)
  PROVE  LET g == Filled(f, b)
             m == Len(g.bytes) - Len(f.bytes)
         IN  /\ g \in [none : BOOLEAN, size : Nat, bytes : Seq(Nat)]
             /\ g.size = f.size /\ g.none = f.none
             /\ Chunk(g.bytes, x) /\ Len(g.bytes) \in Nat /\ Len(g.bytes) <= g.size
             /\ m \in 1 .. b.len /\ m = Lesser(b.len, f.size - Len(f.bytes))
<1> DEFINE m == Lesser(b.len, f.size - Len(f.bytes))
           t == [k \in 1 .. m |-> ByteAt(b, k - 1, RecvCap)]
           g == Filled(f, b)
<1>0. RecvCap \in Nat \ {0}
  BY TcpRecvAssumption
<1>1. /\ f.none \in BOOLEAN /\ f.size \in Nat /\ f.bytes \in Seq(Nat)
      /\ Len(f.bytes) \in Nat /\ b.len \in Nat
  BY <1>0, BufferFields
<1>2. m \in Nat /\ m >= 1 /\ m <= b.len /\ Len(f.bytes) + m <= f.size
  BY <1>1 DEF Lesser
<1>3. g = [f EXCEPT !.bytes = f.bytes \o t]
  BY DEF Filled
<1> HIDE DEF m, g
<1>4. \A k \in 1 .. m : t[k] = x + Len(f.bytes) + k - 1 /\ t[k] \in Nat
  <2> SUFFICES ASSUME NEW k \in 1 .. m
               PROVE  t[k] = x + Len(f.bytes) + k - 1 /\ t[k] \in Nat
    OBVIOUS
  <2>1. k - 1 \in 0 .. b.len - 1
    BY <1>1, <1>2
  <2>2. t[k] = x + Len(f.bytes) + (k - 1)
    BY <2>1 DEF RingHolds
  <2>3. x + Len(f.bytes) + (k - 1) = x + Len(f.bytes) + k - 1
    BY <1>1, <2>1
  <2>4. x + Len(f.bytes) + (k - 1) \in Nat
    BY <1>1, <2>1
  <2> QED
    BY <2>2, <2>3, <2>4
<1>5. t \in Seq(Nat) /\ Len(t) = m
  <2>1. t \in [1 .. m -> Nat]
    BY <1>4
  <2>2. t \in Seq(Nat)
    BY <1>2, <2>1, SeqDef
  <2>3. Len(t) \in Nat /\ DOMAIN t = 1 .. Len(t) /\ DOMAIN t = 1 .. m
    BY <2>1, <2>2, LenProperties
  <2> QED
    BY <1>2, <2>2, <2>3
<1> HIDE DEF t
<1>6. /\ Chunk(f.bytes \o t, x) /\ Len(f.bytes \o t) = Len(f.bytes) + m
      /\ f.bytes \o t \in Seq(Nat)
  <2>1. \A k \in 1 .. Len(t) : t[k] = x + Len(f.bytes) + k - 1
    BY <1>4, <1>5
  <2>2. Chunk(f.bytes \o t, x) /\ Len(f.bytes \o t) = Len(f.bytes) + Len(t)
    BY <1>5, <2>1, ChunkGlue
  <2> QED
    BY <1>5, <2>2 DEF Chunk
<1>7. /\ g.bytes = f.bytes \o t /\ g.size = f.size /\ g.none = f.none
      /\ g \in [none : BOOLEAN, size : Nat, bytes : Seq(Nat)]
  BY <1>1, <1>3, <1>6
<1>8. /\ Len(g.bytes) \in Nat /\ Len(g.bytes) <= g.size
      /\ Len(g.bytes) - Len(f.bytes) \in 1 .. b.len
      /\ Len(g.bytes) - Len(f.bytes) = m
  BY <1>1, <1>2, <1>6, <1>7
<1> QED
  BY <1>6, <1>7, <1>8 DEF g, m

-----------------------------------------------------------------------------
(* The handler                                                             *)

\* Bytes go from the circle to the frame they belong to, and the frame is
\* handed on when it has them all (hg_tcpabstract.cpp:215-262).
LEMMA TakeKeeps ==
  ASSUME FramesInv, DeliveredInv,
         NEW f \in [none : BOOLEAN, size : Nat, bytes : Seq(Nat)],
         NEW b \in Buffers(RecvCap), b.len >= 1,
         NEW pos \in Nat, InFrame(f, Len(recvd), pos), RingHolds(b, pos, RecvCap),
         got' = pos + b.len, sentFrames' = sentFrames, recvPc = "loop",
         NEW short \in BOOLEAN, TakeBytes(f, b, short)
  PROVE  DeliveredInv' /\ HandlerInv' /\ AstrayInv' /\ (~Stuck' => CircleInv')
<1> DEFINE g == Filled(f, b)
           n == Len(recvd)
           F == sentFrames[n + 1]
           x == F.beg + TcpHead
           m == Len(g.bytes) - Len(f.bytes)
<1>0. /\ RecvCap \in Nat \ {0} /\ TcpHead \in Nat
      /\ recvd \in Seq(Seq(Nat)) /\ n \in Nat /\ Len(sentFrames) \in Nat
  <2>1. recvd \in Seq(Seq(Nat))
    BY DEF DeliveredInv
  <2>2. n \in Nat
    BY <2>1, LenProperties
  <2> QED
    BY <2>1, <2>2, TcpRecvAssumption, SentNumbers
<1>1. /\ n < Len(sentFrames) /\ f.size = F.size /\ Len(f.bytes) < f.size
      /\ Chunk(f.bytes, x) /\ pos = x + Len(f.bytes)
  <2>1. InFrame(f, n, pos)
    OBVIOUS
  <2> QED
    BY ONLY <2>1 DEF InFrame
<1>2. n + 1 \in 1 .. Len(sentFrames)
  BY <1>0, <1>1
<1>3. F.beg \in Nat /\ F.size \in Nat /\ F.size >= 1 /\ FrameEnd(F) = x + F.size /\ x \in Nat
  <2>1. F.beg \in Nat /\ F.size \in Nat /\ F.size >= 1
    BY <1>2, FrameNumbers
  <2>2. FrameEnd(F) = F.beg + TcpHead + F.size
    BY DEF FrameEnd
  <2> HIDE DEF F
  <2> QED
    BY <1>0, <2>1, <2>2
<1>4. Len(f.bytes) \in Nat /\ b.len \in Nat
  BY <1>0, BufferFields
<1> HIDE DEF F, x
<1>5. /\ g \in [none : BOOLEAN, size : Nat, bytes : Seq(Nat)]
      /\ g.size = f.size /\ g.none = f.none
      /\ Chunk(g.bytes, x) /\ Len(g.bytes) \in Nat /\ Len(g.bytes) <= g.size
      /\ m \in 1 .. b.len
  BY <1>1, <1>3, FilledHolds
<1>6. /\ sockbuf' = Skip(b, m, RecvCap)
      /\ \/ /\ Len(g.bytes) = g.size /\ recvd' = Append(recvd, g.bytes)
            /\ hashead' = FALSE /\ EndRound(short, g)
         \/ /\ Overruns(g.size) /\ recvPc' = "overrun" /\ frame' = g
            /\ hashead' = TRUE /\ recvd' = recvd
         \/ /\ Len(g.bytes) # g.size /\ hashead' = TRUE /\ recvd' = recvd
            /\ EndRound(short, g)
  BY DEF TakeBytes
<1> HIDE DEF g
<1>7. /\ sockbuf' \in Buffers(RecvCap) /\ sockbuf'.len = b.len - m
      /\ RingHolds(sockbuf', pos + m, RecvCap)
  <2>1. m \in 0 .. b.len
    BY <1>4, <1>5
  <2> QED
    BY <1>0, <1>6, <2>1, SkipHolds
<1>8. got' - sockbuf'.len = pos + m /\ pos + m = x + Len(g.bytes)
  <2> DEFINE lf == Len(f.bytes)
             lg == Len(g.bytes)
             bl == b.len
             sl == sockbuf'.len
  <2>1. lf \in Nat /\ lg \in Nat /\ bl \in Nat /\ x \in Nat
    BY <1>3, <1>4, <1>5
  <2>2. got' = pos + bl /\ pos = x + lf
    BY <1>1
  <2>3. sl = bl - (lg - lf)
    BY <1>7
  <2> HIDE DEF lf, lg, bl, sl
  <2>4. got' - sl = pos + (lg - lf) /\ pos + (lg - lf) = x + lg
    BY <2>1, <2>2, <2>3
  <2> QED
    BY <2>4 DEF lf, lg, sl
<1>9. /\ sockbuf'.len < RecvCap /\ sockbuf'.len <= got' /\ sockbuf'.len \in Nat
  <2>1. b.len \in 0 .. RecvCap
    BY <1>0, BufferFields
  <2>2. m \in 1 .. b.len /\ sockbuf'.len = b.len - m /\ got' = pos + b.len
    BY <1>5, <1>7
  <2> HIDE DEF m
  <2>3. b.len - m < RecvCap /\ b.len - m <= pos + b.len /\ b.len - m \in Nat
    BY <1>0, <1>4, <2>1, <2>2
  <2> QED
    BY <2>2, <2>3
<1>10. RingHolds(sockbuf', got' - sockbuf'.len, RecvCap)
  BY <1>7, <1>8
<1>11. HandlerInv'
  <2>1. recvPc' \in {"wait", "loop", "overrun"} /\ frame' \in {NoFrame, g}
    BY <1>6 DEF EndRound
  <2>2. NoFrame \in [none : BOOLEAN, size : Nat, bytes : Seq(Nat)]
    <3>1. <<>> \in Seq(Nat)
      BY EmptySeq
    <3> QED
      BY <3>1 DEF NoFrame
  <2>3. hashead' \in BOOLEAN
    BY <1>6
  <2>4. sockbuf'.start \in 0 .. RecvCap - 1 /\ sockbuf'.end \in 0 .. RecvCap - 1
    BY <1>0, <1>7, BufferFields
  <2> QED
    BY <1>5, <2>1, <2>2, <2>3, <2>4 DEF HandlerInv
<1>12. CASE /\ Len(g.bytes) = g.size /\ recvd' = Append(recvd, g.bytes)
            /\ hashead' = FALSE /\ EndRound(short, g)
  <2>1. g.bytes \in Seq(Nat)
    BY <1>5 DEF Chunk
  <2>2. /\ recvd' \in Seq(Seq(Nat)) /\ Len(recvd') = n + 1
        /\ \A i \in 1 .. n : recvd'[i] = recvd[i]
        /\ recvd'[n + 1] = g.bytes
    BY <1>0, <1>12, <2>1
  <2>3. ASSUME NEW i \in 1 .. n + 1
        PROVE  /\ Len(recvd'[i]) = sentFrames[i].size
               /\ Chunk(recvd'[i], sentFrames[i].beg + TcpHead)
    <3>1. CASE i \in 1 .. n
      BY <2>2, <3>1 DEF DeliveredInv
    <3>2. CASE i = n + 1
      BY <1>1, <1>5, <1>12, <2>2, <3>2 DEF F, x
    <3> QED
      BY <1>0, <3>1, <3>2
  <2>4. DeliveredInv'
    <3>1. Len(recvd') <= Len(sentFrames)
      BY <1>0, <1>1, <2>2
    <3> QED
      BY <2>2, <2>3, <3>1 DEF DeliveredInv, Chunk
  <2>5. CircleInv'
    <3>1. NextBegin(n + 1) = FrameEnd(F)
      BY <1>0, <1>1, NextFollows DEF F
    <3>2. got' - sockbuf'.len = NextBegin(n + 1)
      BY <1>1, <1>3, <1>5, <1>8, <1>12, <3>1
    <3>3. NextBegin(Len(recvd))' = NextBegin(n + 1)
      BY <2>2 DEF NextBegin, SentBytes
    <3> QED
      BY <1>7, <1>9, <1>10, <1>12, <3>2, <3>3 DEF CircleInv
  <2>6. AstrayInv'
    BY <1>12 DEF AstrayInv, EndRound
  <2> QED
    BY <1>11, <2>4, <2>5, <2>6
<1>13. CASE /\ Len(g.bytes) # g.size /\ hashead' = TRUE /\ recvd' = recvd
            /\ EndRound(short, g)
  <2>1. DeliveredInv'
    BY <1>13 DEF DeliveredInv, Chunk
  <2>2. ASSUME ~Stuck' PROVE CircleInv'
    <3>1. ~ frame'.none
      BY <1>13, <2>2 DEF Stuck
    <3>2. frame' = g
      BY <1>13, <3>1 DEF EndRound, NoFrame
    <3>3. InFrame(g, n, pos + m)
      <4>1. Len(g.bytes) < g.size
        BY <1>5, <1>13
      <4> QED
        BY <1>1, <1>5, <1>8, <4>1 DEF InFrame, F, x
    <3>4. InFrame(frame, Len(recvd), got - sockbuf.len)'
      BY <1>8, <1>13, <3>2, <3>3 DEF InFrame, Chunk
    <3> QED
      BY <1>7, <1>9, <1>10, <1>13, <3>4 DEF CircleInv
  <2>3. AstrayInv'
    BY <1>13 DEF AstrayInv, EndRound
  <2> QED
    BY <1>11, <2>1, <2>2, <2>3
<1>14. CASE /\ Overruns(g.size) /\ recvPc' = "overrun" /\ frame' = g
            /\ hashead' = TRUE /\ recvd' = recvd
  <2>1. DeliveredInv'
    BY <1>14 DEF DeliveredInv, Chunk
  <2>2. AstrayInv'
    BY <1>1, <1>5, <1>14 DEF AstrayInv, F
  <2>3. CircleInv'
    BY <1>7, <1>9, <1>10, <1>14 DEF CircleInv
  <2> QED
    BY <1>11, <2>1, <2>2, <2>3
<1> QED
  BY <1>6, <1>12, <1>13, <1>14

\* What recv gives: some of what has arrived, no more than there is room for,
\* written where the circle ends (hg_tcpabstract.cpp:128-155).
LEMMA RecvGives ==
  ASSUME RecvInv, RecvRound
  PROVE  \E n \in Nat \ {0} :
           LET b == AppendBytes(sockbuf, got, n, RecvCap)
           IN  /\ n <= RecvRoom(sockbuf)
               /\ got' = got + n /\ got' \in Nat /\ got' <= arrived
               /\ b.start \in 0 .. RecvCap - 1 /\ b.end \in 0 .. RecvCap - 1
               /\ \E short \in BOOLEAN : /\ short => got' = arrived
                                         /\ ParseRound(b, short)
<1> DEFINE len == RecvRoom(sockbuf)
           n == Lesser(len, arrived - got)
           b == AppendBytes(sockbuf, got, n, RecvCap)
<1>1. /\ sockbuf.start \in 0 .. RecvCap - 1 /\ sockbuf.end \in 0 .. RecvCap - 1
      /\ RecvCap \in Nat \ {0} /\ arrived \in Nat /\ got \in Nat /\ got <= arrived
  BY TcpRecvAssumption DEF RecvInv, HandlerInv, ArrivalInv
<1>2. len \in Nat /\ len <= RecvCap - sockbuf.end
  BY <1>1 DEF RecvRoom
<1>3. n > 0 /\ got' = got + n /\ ParseRound(b, n < len)
  BY DEF RecvRound
<1>4. b.start = sockbuf.start /\ b.end = Wrap(sockbuf.end + n, RecvCap)
  BY DEF AppendBytes
<1> HIDE DEF len, b
<1>5. /\ n \in Nat \ {0} /\ n <= len /\ n <= arrived - got
      /\ n < len => n = arrived - got
  BY <1>1, <1>2, <1>3 DEF Lesser
<1> HIDE DEF n
<1>6. got' \in Nat /\ got' <= arrived /\ (n < len => got' = arrived)
  BY <1>1, <1>3, <1>5
<1>7. b.end \in 0 .. RecvCap - 1
  BY <1>1, <1>2, <1>4, <1>5 DEF Wrap
<1>8. (n < len) \in BOOLEAN
  OBVIOUS
<1> QED
  BY <1>1, <1>3, <1>4, <1>5, <1>6, <1>7, <1>8 DEF len, b

\* Where a head is looked for the next frame begins, and no other
\* (hg_tcpabstract.cpp:156-190).
LEMMA HeadsOfNext ==
  ASSUME FramesInv, ArrivalInv, NEW n \in Nat, n <= Len(sentFrames),
         NEW b \in Buffers(RecvCap), CanRead(b, HeadsLen),
         NEW pos \in Nat, pos = NextBegin(n), RingHolds(b, pos, RecvCap),
         pos + b.len <= arrived
  PROVE  n < Len(sentFrames) /\ pos = sentFrames[n + 1].beg /\ HeadsAt(b) = {n + 1}
<1>0. /\ RecvCap \in Nat \ {0} /\ TcpHead \in Nat \ {0} /\ RtpHead \in Nat \ {0}
      /\ Len(sentFrames) \in Nat /\ SentBytes \in Nat
      /\ arrived \in Nat /\ arrived <= SentBytes
  BY TcpRecvAssumption, SentNumbers DEF ArrivalInv
<1>1. b.len \in Nat /\ b.len >= HeadsLen /\ HeadsLen \in Nat /\ HeadsLen >= 1
  BY <1>0, BufferFields DEF CanRead, HeadsLen
<1>2. n < Len(sentFrames)
  <2>1. pos # SentBytes
    BY <1>0, <1>1
  <2> QED
    BY <1>0, <2>1 DEF NextBegin
<1>3. pos = sentFrames[n + 1].beg /\ n + 1 \in 1 .. Len(sentFrames)
  BY <1>0, <1>2 DEF NextBegin
<1>4. DOMAIN sentFrames = 1 .. Len(sentFrames)
  BY LenProperties DEF FramesInv
<1>5. \A k \in 0 .. HeadsLen - 1 : ByteAt(b, k, RecvCap) = pos + k
  BY <1>1 DEF RingHolds
<1>6. n + 1 \in HeadsAt(b)
  BY <1>3, <1>4, <1>5 DEF HeadsAt
<1>7. ASSUME NEW i \in HeadsAt(b) PROVE i = n + 1
  <2>1. i \in 1 .. Len(sentFrames) /\ ByteAt(b, 0, RecvCap) = sentFrames[i].beg + 0
    BY <1>1, <1>4 DEF HeadsAt
  <2>2. sentFrames[i].beg = pos
    <3>1. ByteAt(b, 0, RecvCap) = pos + 0
      BY <1>1, <1>5
    <3>2. sentFrames[i].beg \in Nat
      BY <2>1, FrameNumbers
    <3> QED
      BY <2>1, <3>1, <3>2
  <2>3. ~ (sentFrames[i].beg < pos) /\ ~ (pos < sentFrames[i].beg)
    BY <2>2
  <2>4. ~ (i < n + 1) /\ ~ (n + 1 < i)
    BY <1>3, <2>1, <2>3 DEF FramesInv
  <2> QED
    BY <1>3, <2>1, <2>4
<1> QED
  BY <1>2, <1>3, <1>6, <1>7

\* Behind a head that was refused no frame begins (hg_tcpabstract.cpp:169-173).
LEMMA HeadsPastRefused ==
  ASSUME FramesInv, NEW n \in Nat, NEW pos \in Nat, PastRefused(n, pos),
         NEW b \in Buffers(RecvCap), CanRead(b, HeadsLen), RingHolds(b, pos, RecvCap)
  PROVE  HeadsAt(b) = {}
<1>0. /\ RecvCap \in Nat \ {0} /\ TcpHead \in Nat \ {0} /\ RtpHead \in Nat \ {0}
      /\ Len(sentFrames) \in Nat
  BY TcpRecvAssumption, SentNumbers
<1>1. b.len \in Nat /\ b.len >= HeadsLen /\ HeadsLen \in Nat /\ HeadsLen >= 1
  BY <1>0, BufferFields DEF CanRead, HeadsLen
<1>2. n < Len(sentFrames) /\ pos = sentFrames[n + 1].beg + TcpHead
  BY DEF PastRefused
<1>3. /\ n + 1 \in 1 .. Len(sentFrames) /\ sentFrames[n + 1].beg \in Nat
      /\ sentFrames[n + 1].size \in Nat /\ sentFrames[n + 1].size >= 1
  <2>1. n + 1 \in 1 .. Len(sentFrames)
    BY <1>0, <1>2
  <2> QED
    BY <2>1, FrameNumbers
<1>4. DOMAIN sentFrames = 1 .. Len(sentFrames)
  BY LenProperties DEF FramesInv
<1> SUFFICES ASSUME NEW i \in HeadsAt(b) PROVE FALSE
  OBVIOUS
<1>5. i \in 1 .. Len(sentFrames) /\ sentFrames[i].beg \in Nat /\ sentFrames[i].beg = pos
  <2>1. i \in 1 .. Len(sentFrames) /\ ByteAt(b, 0, RecvCap) = sentFrames[i].beg + 0
    BY <1>1, <1>4 DEF HeadsAt
  <2>2. ByteAt(b, 0, RecvCap) = pos + 0
    BY <1>1 DEF RingHolds
  <2>3. sentFrames[i].beg \in Nat
    BY <2>1, FrameNumbers
  <2> QED
    BY <2>1, <2>2, <2>3
<1>6. sentFrames[n + 1].beg < pos
  BY <1>0, <1>2, <1>3
<1>7. CASE i <= n + 1
  <2>1. i = n + 1 \/ sentFrames[i].beg < sentFrames[n + 1].beg
    BY <1>3, <1>5, <1>7 DEF FramesInv
  <2> QED
    BY <1>3, <1>5, <1>6, <2>1
<1>8. CASE n + 1 < i
  <2>1. n + 2 \in 1 .. Len(sentFrames) /\ n + 1 \in 1 .. Len(sentFrames) - 1
    BY <1>0, <1>3, <1>5, <1>8
  <2>2. sentFrames[n + 2].beg = FrameEnd(sentFrames[n + 1])
    <3>1. sentFrames[(n + 1) + 1].beg = FrameEnd(sentFrames[n + 1])
      BY <2>1 DEF FramesInv
    <3>2. (n + 1) + 1 = n + 2
      OBVIOUS
    <3> QED
      BY <3>1, <3>2
  <2>3. sentFrames[n + 2].beg > pos /\ sentFrames[n + 2].beg \in Nat
    <3>1. FrameEnd(sentFrames[n + 1]) = pos + sentFrames[n + 1].size
      BY <1>2 DEF FrameEnd
    <3> QED
      BY <1>3, <2>2, <3>1
  <2>4. i = n + 2 \/ sentFrames[n + 2].beg < sentFrames[i].beg
    BY <1>5, <1>8, <2>1 DEF FramesInv
  <2> QED
    BY <1>5, <2>3, <2>4
<1> QED
  BY <1>3, <1>5, <1>7, <1>8

\* A head is read and found to be none that the handler takes: it returns, or is
\* astray (hg_tcpabstract.cpp:168-173).
RefusedStep(b, pos) ==
  /\ ~hashead /\ b.len >= HeadsLen
  /\ Len(recvd) < Len(sentFrames) /\ Refused(sentFrames[Len(recvd) + 1].size)
  /\ sockbuf' = ReadHeads(b) /\ hashead' = hashead /\ recvd' = recvd
  /\ \/ /\ recvPc' = "wait" /\ frame' = NoFrame
        /\ pos = sentFrames[Len(recvd) + 1].beg
     \/ recvPc' = "corrupt" /\ frame' = frame

\* What a round may take is fewer bytes than two heads, which then wait, or it
\* goes to the frame whose head was read in this round or in an earlier one, or
\* a head is refused (hg_tcpabstract.cpp:125-264).
LEMMA RoundTakes ==
  ASSUME RecvInv, ~Stuck, RecvRound
  PROVE  \E pos \in Nat, b \in Buffers(RecvCap), short \in BOOLEAN :
           /\ RingHolds(b, pos, RecvCap) /\ b.len >= 1
           /\ got < got' /\ got' = pos + b.len
           /\ got' <= arrived /\ (short => got' = arrived)
           /\ \/ /\ ~hashead /\ b.len < HeadsLen
                 /\ pos = NextBegin(Len(recvd)) \/ PastRefused(Len(recvd), pos)
                 /\ sockbuf' = b /\ recvPc' = recvPc /\ hashead' = hashead
                 /\ frame' = frame /\ recvd' = recvd
              \/ RefusedStep(b, pos)
              \/ \E f \in [none : BOOLEAN, size : Nat, bytes : Seq(Nat)] :
                   /\ ~f.none /\ InFrame(f, Len(recvd), pos) /\ TakeBytes(f, b, short)
<1>0. /\ FramesInv /\ ArrivalInv /\ DeliveredInv /\ HandlerInv /\ RecvCap \in Nat \ {0}
      /\ TcpHead \in Nat \ {0} /\ RtpHead \in Nat \ {0} /\ HeadsLen <= RecvCap
  BY TcpRecvAssumption DEF RecvInv, HeadsLen
<1> DEFINE buf(n) == AppendBytes(sockbuf, got, n, RecvCap)
<1>2. PICK n \in Nat \ {0} :
        /\ n <= RecvRoom(sockbuf)
        /\ got' = got + n /\ got' \in Nat /\ got' <= arrived
        /\ buf(n).start \in 0 .. RecvCap - 1 /\ buf(n).end \in 0 .. RecvCap - 1
        /\ \E short \in BOOLEAN : (short => got' = arrived) /\ ParseRound(buf(n), short)
  BY RecvGives
<1>3. PICK short \in BOOLEAN : (short => got' = arrived) /\ ParseRound(buf(n), short)
  BY <1>2
<1> DEFINE b == buf(n)
           pos == got - sockbuf.len
           N == Len(recvd)
<1>4. /\ sockbuf \in Buffers(RecvCap) /\ sockbuf.len < RecvCap /\ sockbuf.len <= got
      /\ RingHolds(sockbuf, pos, RecvCap)
      /\ hashead => InFrame(frame, N, pos)
      /\ ~hashead => pos = NextBegin(N) \/ PastRefused(N, pos)
  <2>1. recvPc = "loop"
    BY DEF RecvRound
  <2> QED
    BY <2>1 DEF RecvInv, CircleInv
<1>5. sockbuf.len \in Nat /\ got \in Nat /\ pos \in Nat /\ got = pos + sockbuf.len
  BY <1>0, <1>4, BufferFields DEF ArrivalInv
<1>6. /\ b \in Buffers(RecvCap) /\ b.len = sockbuf.len + n
      /\ RingHolds(b, pos, RecvCap)
  BY <1>2, <1>4, <1>5, RecvHolds
<1>7. b.len >= 1 /\ b.len \in Nat /\ got' = pos + b.len /\ got < got'
  BY <1>2, <1>5, <1>6
<1>8. N \in Nat /\ N <= Len(sentFrames)
  BY <1>0, LenProperties DEF DeliveredInv
<1>9. ParseRound(b, short) /\ got' <= arrived /\ (short => got' = arrived)
  BY <1>2, <1>3
<1> HIDE DEF b, pos, N
<1>10. CASE ~hashead /\ ~CanRead(b, HeadsLen)
  <2>1. /\ sockbuf' = b /\ recvPc' = recvPc /\ hashead' = hashead
        /\ frame' = frame /\ recvd' = recvd
    BY <1>9, <1>10 DEF ParseRound
  <2>2. b.len < HeadsLen
    BY <1>0, <1>7, <1>10 DEF CanRead, HeadsLen
  <2> QED
    BY <1>4, <1>5, <1>6, <1>7, <1>9, <1>10, <2>1, <2>2 DEF N
<1>13. CASE ~hashead /\ CanRead(b, HeadsLen) /\ PastRefused(N, pos)
  <2>1. HeadsAt(b) = {}
    BY <1>0, <1>5, <1>6, <1>8, <1>13, HeadsPastRefused
  <2>2. recvPc' = "corrupt" /\ sockbuf' = ReadHeads(b) /\ hashead' = hashead
        /\ frame' = frame /\ recvd' = recvd
    BY <1>9, <1>13, <2>1 DEF ParseRound
  <2>3. b.len >= HeadsLen
    BY <1>13 DEF CanRead
  <2>4. RefusedStep(b, pos)
    BY <1>13, <2>2, <2>3 DEF RefusedStep, PastRefused, N
  <2> QED
    BY <1>5, <1>6, <1>7, <1>9, <2>4
<1>11. CASE ~hashead /\ CanRead(b, HeadsLen) /\ pos = NextBegin(N)
  <2>1. pos = NextBegin(N) /\ pos + b.len <= arrived
    BY <1>4, <1>7, <1>9, <1>11
  <2>2. N < Len(sentFrames) /\ pos = sentFrames[N + 1].beg /\ HeadsAt(b) = {N + 1}
    BY <1>0, <1>5, <1>6, <1>8, <1>11, <2>1, HeadsOfNext
  <2> DEFINE F == sentFrames[N + 1]
             f == [none |-> FALSE, size |-> F.size, bytes |-> <<>>]
             c == ReadHeads(b)
  <2>10. \/ TakeBytes(f, c, short)
        \/ /\ Refused(F.size) /\ recvPc' = "wait" /\ sockbuf' = c /\ frame' = NoFrame
           /\ hashead' = hashead /\ recvd' = recvd
    BY <1>9, <1>11, <2>2 DEF ParseRound
  <2>4. F.beg \in Nat /\ F.size \in Nat /\ F.size >= 1
    <3>1. N + 1 \in 1 .. Len(sentFrames)
      BY <1>0, <1>8, <2>2, SentNumbers
    <3> QED
      BY <1>0, <3>1, FrameNumbers
  <2>5. b.len >= TcpHead + RtpHead
    BY <1>11 DEF CanRead, HeadsLen
  <2>6. /\ c \in Buffers(RecvCap) /\ c.len = b.len - TcpHead
        /\ RingHolds(c, pos + TcpHead, RecvCap)
    <3>1. TcpHead \in 0 .. b.len
      BY <1>0, <1>7, <2>5
    <3> QED
      BY <1>0, <1>5, <1>6, <3>1, SkipHolds DEF ReadHeads
  <2>7. c.len >= 1 /\ pos + TcpHead \in Nat /\ got' = (pos + TcpHead) + c.len
    BY <1>0, <1>5, <1>7, <2>5, <2>6
  <2>8. f \in [none : BOOLEAN, size : Nat, bytes : Seq(Nat)] /\ ~f.none
    BY <2>4, EmptySeq
  <2>9. InFrame(f, N, pos + TcpHead)
    <3>1. Len(f.bytes) = 0 /\ f.bytes \in Seq(Nat) /\ f.size = F.size
      BY EmptySeq
    <3>2. Chunk(f.bytes, F.beg + TcpHead)
      BY <3>1 DEF Chunk
    <3>3. pos + TcpHead = F.beg + TcpHead + Len(f.bytes)
      BY <1>0, <2>2, <2>4, <3>1
    <3> QED
      BY <2>2, <2>4, <3>1, <3>2, <3>3 DEF InFrame
  <2>11. CASE TakeBytes(f, c, short)
    <3> HIDE DEF f, c, F
    <3> QED
      BY <1>7, <1>9, <2>11, <2>6, <2>7, <2>8, <2>9 DEF N
  <2>12. CASE /\ Refused(F.size) /\ recvPc' = "wait" /\ sockbuf' = c /\ frame' = NoFrame
              /\ hashead' = hashead /\ recvd' = recvd
    <3>1. b.len >= HeadsLen
      BY <1>11 DEF CanRead
    <3>2. RefusedStep(b, pos)
      BY <1>11, <2>2, <2>12, <3>1 DEF RefusedStep, N
    <3> QED
      BY <1>5, <1>6, <1>7, <1>9, <3>2
  <2> QED
    BY <2>10, <2>11, <2>12
<1>12. CASE hashead
  <2>1. ~ frame.none
    BY <1>12 DEF Stuck
  <2>2. TakeBytes(frame, b, short)
    BY <1>9, <1>12, <2>1 DEF ParseRound
  <2>3. frame \in [none : BOOLEAN, size : Nat, bytes : Seq(Nat)]
    BY <1>0 DEF HandlerInv
  <2> QED
    BY <1>4, <1>5, <1>6, <1>7, <1>9, <1>12, <2>1, <2>2, <2>3 DEF N
<1> QED
  BY <1>4, <1>10, <1>11, <1>12, <1>13

\* A round of the handler keeps everything (hg_tcpabstract.cpp:125-264).
LEMMA RoundKeeps ==
  ASSUME RecvInv, RecvRound
  PROVE  RecvInv'
<1>0. /\ FramesInv /\ ArrivalInv /\ DeliveredInv /\ HandlerInv /\ RecvCap \in Nat \ {0}
      /\ TcpHead \in Nat \ {0} /\ RtpHead \in Nat \ {0} /\ HeadsLen <= RecvCap
  BY TcpRecvAssumption DEF RecvInv, HeadsLen
<1>1. /\ recvPc = "loop" /\ sentFrames' = sentFrames /\ arrived' = arrived
      /\ edge' = edge /\ whole' = whole
  BY DEF RecvRound
<1> DEFINE buf(n) == AppendBytes(sockbuf, got, n, RecvCap)
<1>2. PICK n \in Nat \ {0} :
        /\ n <= RecvRoom(sockbuf)
        /\ got' = got + n /\ got' \in Nat /\ got' <= arrived
        /\ buf(n).start \in 0 .. RecvCap - 1 /\ buf(n).end \in 0 .. RecvCap - 1
        /\ \E short \in BOOLEAN : (short => got' = arrived) /\ ParseRound(buf(n), short)
  BY RecvGives
<1>4. FramesInv' /\ ArrivalInv'
  <2>1. FramesInv'
    BY <1>0, <1>1 DEF FramesInv, FrameEnd
  <2>2. SentBytes' = SentBytes
    BY <1>1 DEF SentBytes
  <2> QED
    BY <1>0, <1>1, <1>2, <2>1, <2>2 DEF ArrivalInv
<1>5. CASE Stuck
  <2> DEFINE b == buf(n)
  <2>0. PICK short \in BOOLEAN : ParseRound(b, short)
    BY <1>2
  <2>1. hashead /\ frame.none
    BY <1>5 DEF Stuck
  <2>2. sockbuf' = b /\ EndRound(short, frame) /\ hashead' = hashead /\ recvd' = recvd
    BY <2>0, <2>1 DEF ParseRound
  <2>3. frame' \in {NoFrame, frame} /\ recvPc' \in {"wait", "loop"}
    BY <1>1, <2>2 DEF EndRound
  <2>4. NoFrame \in [none : BOOLEAN, size : Nat, bytes : Seq(Nat)] /\ NoFrame.none
    BY EmptySeq DEF NoFrame
  <2>5. Stuck'
    BY <2>1, <2>2, <2>3, <2>4 DEF Stuck
  <2>6. HandlerInv'
    BY <1>0, <1>2, <2>2, <2>3, <2>4 DEF HandlerInv
  <2>7. DeliveredInv' /\ AstrayInv'
    BY <1>0, <1>1, <2>2, <2>3 DEF DeliveredInv, Chunk, AstrayInv
  <2> QED
    BY <1>4, <2>5, <2>6, <2>7 DEF RecvInv
<1>6. CASE ~Stuck
  <2>1. PICK pos \in Nat, b \in Buffers(RecvCap), short \in BOOLEAN :
          /\ RingHolds(b, pos, RecvCap) /\ b.len >= 1
          /\ got < got' /\ got' = pos + b.len
          /\ got' <= arrived /\ (short => got' = arrived)
          /\ \/ /\ ~hashead /\ b.len < HeadsLen
                /\ pos = NextBegin(Len(recvd)) \/ PastRefused(Len(recvd), pos)
                /\ sockbuf' = b /\ recvPc' = recvPc /\ hashead' = hashead
                /\ frame' = frame /\ recvd' = recvd
             \/ RefusedStep(b, pos)
             \/ \E f \in [none : BOOLEAN, size : Nat, bytes : Seq(Nat)] :
                  /\ ~f.none /\ InFrame(f, Len(recvd), pos) /\ TakeBytes(f, b, short)
    BY <1>6, RoundTakes
  <2>2. b.len \in Nat /\ b.start \in 0 .. RecvCap - 1 /\ b.end \in 0 .. RecvCap - 1
    BY <1>0, BufferFields
  <2>3. CASE /\ ~hashead /\ b.len < HeadsLen
             /\ pos = NextBegin(Len(recvd)) \/ PastRefused(Len(recvd), pos)
             /\ sockbuf' = b /\ recvPc' = recvPc /\ hashead' = hashead
             /\ frame' = frame /\ recvd' = recvd
    <3>1. b.len < RecvCap /\ b.len <= got' /\ got' - b.len = pos
      BY <1>0, <2>1, <2>2, <2>3 DEF HeadsLen
    <3>2. NextBegin(Len(recvd))' = NextBegin(Len(recvd))
      BY <1>1, <2>3 DEF NextBegin, SentBytes
    <3>3. CircleInv'
      BY <1>1, <2>1, <2>3, <3>1, <3>2 DEF CircleInv, PastRefused
    <3>4. DeliveredInv' /\ HandlerInv' /\ AstrayInv'
      BY <1>0, <1>1, <2>2, <2>3 DEF DeliveredInv, Chunk, HandlerInv, AstrayInv
    <3> QED
      BY <1>4, <3>3, <3>4 DEF RecvInv
  <2>4. ASSUME NEW f \in [none : BOOLEAN, size : Nat, bytes : Seq(Nat)],
               InFrame(f, Len(recvd), pos), TakeBytes(f, b, short)
        PROVE  RecvInv'
    <3>1. DeliveredInv' /\ HandlerInv' /\ AstrayInv' /\ (~Stuck' => CircleInv')
      BY <1>0, <1>1, <2>1, <2>4, TakeKeeps
    <3> QED
      BY <1>4, <3>1 DEF RecvInv
  <2>5. CASE RefusedStep(b, pos)
    <3> DEFINE n0 == Len(recvd)
               F == sentFrames[n0 + 1]
    <3>1. /\ ~hashead /\ b.len >= HeadsLen /\ n0 < Len(sentFrames) /\ Refused(F.size)
          /\ sockbuf' = ReadHeads(b) /\ hashead' = hashead /\ recvd' = recvd
          /\ \/ recvPc' = "wait" /\ frame' = NoFrame /\ pos = F.beg
             \/ recvPc' = "corrupt" /\ frame' = frame
      BY <2>5 DEF RefusedStep
    <3>2. b.len \in 0 .. RecvCap
      BY <1>0, BufferFields
    <3>3. TcpHead \in 0 .. b.len
      BY <1>0, <2>2, <3>1 DEF HeadsLen
    <3>4. /\ sockbuf' \in Buffers(RecvCap) /\ sockbuf'.len = b.len - TcpHead
          /\ RingHolds(sockbuf', pos + TcpHead, RecvCap)
      BY <1>0, <2>1, <3>1, <3>3, SkipHolds DEF ReadHeads
    <3>5. /\ sockbuf'.len < RecvCap /\ sockbuf'.len <= got'
          /\ got' - sockbuf'.len = pos + TcpHead
      <4>1. PICK l, h, p, c \in Nat : /\ l = b.len /\ h = TcpHead /\ p = pos /\ c = RecvCap
                                     /\ 0 < h /\ h <= l /\ l <= c
        BY <1>0, <3>2, <3>3
      <4>2. sockbuf'.len = l - h /\ got' = p + l
        BY <2>1, <3>4, <4>1
      <4>3. l - h < c /\ l - h <= p + l /\ (p + l) - (l - h) = p + h
        BY ONLY <4>1
      <4> QED
        BY <4>1, <4>2, <4>3
    <3>6. sockbuf'.start \in 0 .. RecvCap - 1 /\ sockbuf'.end \in 0 .. RecvCap - 1
      BY <1>0, <3>4, BufferFields
    <3>7. HandlerInv'
      <4>1. NoFrame \in [none : BOOLEAN, size : Nat, bytes : Seq(Nat)]
        BY EmptySeq DEF NoFrame
      <4> QED
        BY <1>0, <3>1, <3>6, <4>1 DEF HandlerInv
    <3>8. DeliveredInv' /\ AstrayInv'
      BY <1>0, <1>1, <3>1 DEF DeliveredInv, Chunk, AstrayInv
    <3>9. RingHolds(sockbuf, got - sockbuf.len, RecvCap)'
      BY <3>4, <3>5 DEF RingHolds, ByteAt
    <3>10. recvPc' = "wait" => PastRefused(Len(recvd), got - sockbuf.len)'
      BY <1>1, <3>1, <3>5 DEF PastRefused
    <3>11. CircleInv'
      BY <3>1, <3>4, <3>5, <3>9, <3>10 DEF CircleInv
    <3> QED
      BY <1>4, <3>7, <3>8, <3>11 DEF RecvInv
  <2> QED
    BY <2>1, <2>3, <2>4, <2>5
<1> QED
  BY <1>5, <1>6

-----------------------------------------------------------------------------
(* The connection                                                          *)

\* A new connection has nothing in its circle.
LEMMA RecvStarts == RecvInit => RecvInv
<1> SUFFICES ASSUME RecvInit PROVE RecvInv
  OBVIOUS
<1>0. RecvCap \in Nat \ {0}
  BY TcpRecvAssumption
<1>1. /\ sentFrames = <<>> /\ Len(sentFrames) = 0 /\ recvd = <<>> /\ Len(recvd) = 0
      /\ arrived = 0 /\ got = 0 /\ SentBytes = 0
  BY DEF RecvInit, SentBytes
<1>2. FramesInv /\ ArrivalInv /\ DeliveredInv
  <2>1. FramesInv
    BY <1>1, EmptySeq DEF FramesInv
  <2>2. edge \in BOOLEAN /\ whole \in BOOLEAN
    BY DEF RecvInit
  <2>3. ArrivalInv
    BY <1>1, <2>2 DEF ArrivalInv
  <2>4. DeliveredInv
    BY <1>1, EmptySeq DEF DeliveredInv
  <2> QED
    BY <2>1, <2>3, <2>4
<1>3. /\ sockbuf = NewBuf(RecvCap) /\ sockbuf \in Buffers(RecvCap)
      /\ sockbuf.len = 0 /\ sockbuf.start = 0 /\ sockbuf.end = 0
  BY <1>0 DEF RecvInit, NewBuf, Buffers
<1>4. HandlerInv
  <2>1. NoFrame \in [none : BOOLEAN, size : Nat, bytes : Seq(Nat)]
    BY EmptySeq DEF NoFrame
  <2>2. recvPc \in {"wait", "loop"} /\ hashead \in BOOLEAN /\ frame = NoFrame
    BY DEF RecvInit
  <2>3. sockbuf.start \in 0 .. RecvCap - 1 /\ sockbuf.end \in 0 .. RecvCap - 1
    BY <1>0, <1>3
  <2> QED
    BY <2>1, <2>2, <2>3 DEF HandlerInv
<1>5. CircleInv
  <2>1. RingHolds(sockbuf, 0, RecvCap)
    BY <1>0, <1>3 DEF RingHolds, Wrap
  <2>2. NextBegin(Len(recvd)) = 0 /\ ~hashead
    BY <1>1 DEF NextBegin, RecvInit
  <2> QED
    BY <1>0, <1>1, <1>3, <2>1, <2>2 DEF CircleInv
<1>6. AstrayInv
  BY DEF RecvInit, AstrayInv
<1> QED
  BY <1>2, <1>4, <1>5, <1>6 DEF RecvInv

\* One more frame of the peer changes nothing about where the others begin.
LEMMA SendFollows ==
  ASSUME FramesInv, NEW n \in FrameSizes, PeerSend(n),
         NEW N \in 0 .. Len(sentFrames)
  PROVE  N \in 0 .. Len(sentFrames') /\ NextBegin(N)' = NextBegin(N)
<1> DEFINE fr == [beg |-> SentBytes, size |-> n]
           L == Len(sentFrames)
<1>1. sentFrames \in Seq([beg : Nat, size : FrameSizes]) /\ L \in Nat /\ SentBytes \in Nat
  BY SentNumbers DEF FramesInv
<1>2. fr \in [beg : Nat, size : FrameSizes] /\ fr.beg = SentBytes
  BY <1>1
<1>3. /\ Len(sentFrames') = L + 1 /\ sentFrames'[L + 1] = fr
      /\ \A i \in 1 .. L : sentFrames'[i] = sentFrames[i]
  <2>1. sentFrames' = Append(sentFrames, fr)
    BY DEF PeerSend
  <2> HIDE DEF fr
  <2> QED
    BY <1>1, <1>2, <2>1
<1> HIDE DEF fr, L
<1>4. N \in 0 .. L /\ N # L + 1
  BY <1>1 DEF L
<1>5. CASE N = L
  <2>1. NextBegin(N)' = sentFrames'[L + 1].beg
    BY <1>3, <1>4, <1>5 DEF NextBegin
  <2> QED
    BY <1>1, <1>2, <1>3, <1>5, <2>1 DEF NextBegin, L
<1>6. CASE N # L
  <2>1. N + 1 \in 1 .. L
    BY <1>1, <1>4, <1>6
  <2>2. NextBegin(N)' = sentFrames'[N + 1].beg
    BY <1>3, <1>4 DEF NextBegin
  <2> QED
    BY <1>1, <1>3, <1>4, <1>6, <2>1, <2>2 DEF NextBegin, L
<1> QED
  BY <1>5, <1>6

\* One more frame of the peer goes on where the last one ends.
LEMMA SendKeeps ==
  ASSUME RecvInv, NEW n \in FrameSizes, PeerSend(n)
  PROVE  RecvInv'
<1> DEFINE fr == [beg |-> SentBytes, size |-> n]
           L == Len(sentFrames)
<1>0. FramesInv /\ ArrivalInv /\ DeliveredInv /\ HandlerInv /\ TcpHead \in Nat \ {0}
  BY TcpRecvAssumption DEF RecvInv
<1>1. sentFrames \in Seq([beg : Nat, size : FrameSizes]) /\ L \in Nat /\ SentBytes \in Nat
  BY <1>0, SentNumbers DEF FramesInv
<1>2. fr \in [beg : Nat, size : FrameSizes] /\ n \in Nat /\ fr.beg = SentBytes /\ fr.size = n
  BY <1>1, TcpRecvAssumption
<1>3. /\ sentFrames' = Append(sentFrames, fr)
      /\ sentFrames' \in Seq([beg : Nat, size : FrameSizes])
      /\ Len(sentFrames') = L + 1 /\ sentFrames'[L + 1] = fr
      /\ \A i \in 1 .. L : sentFrames'[i] = sentFrames[i]
  <2>1. sentFrames' = Append(sentFrames, fr)
    BY DEF PeerSend
  <2> HIDE DEF fr
  <2> QED
    BY <1>1, <1>2, <2>1
<1>4. /\ arrived' = arrived /\ got' = got /\ edge' = edge /\ recvPc' = recvPc
      /\ sockbuf' = sockbuf /\ hashead' = hashead /\ frame' = frame
      /\ recvd' = recvd /\ whole' = whole
  BY DEF PeerSend
<1> HIDE DEF fr, L
<1>5. \A i \in 1 .. L : sentFrames[i].beg < SentBytes
  <2> SUFFICES ASSUME NEW i \in 1 .. L PROVE sentFrames[i].beg < SentBytes
    OBVIOUS
  <2>1. L \in 1 .. L /\ SentBytes = FrameEnd(sentFrames[L])
    BY <1>0, <1>1, SentNumbers DEF L
  <2>2. FrameEnd(sentFrames[L]) > sentFrames[L].beg
    BY <1>0, <2>1, FrameNumbers DEF L
  <2>3. sentFrames[L].beg \in Nat /\ sentFrames[i].beg \in Nat
    BY <1>0, <2>1, FrameNumbers DEF L
  <2>4. i = L \/ sentFrames[i].beg < sentFrames[L].beg
    BY <1>0, <1>1, <2>1 DEF FramesInv, L
  <2> QED
    BY <1>1, <2>1, <2>2, <2>3, <2>4
<1>6. FramesInv'
  <2>1. sentFrames'[1].beg = 0
    <3>1. CASE L = 0
      <4>1. sentFrames = <<>>
        BY <1>1, <3>1 DEF L
      <4>2. SentBytes = 0
        BY <4>1 DEF SentBytes
      <4> QED
        BY <1>2, <1>3, <3>1, <4>2
    <3>2. CASE L # 0
      <4>1. 1 \in 1 .. L /\ sentFrames # <<>>
        BY <1>1, <3>2 DEF L
      <4> QED
        BY <1>0, <1>3, <4>1 DEF FramesInv
    <3> QED
      BY <3>1, <3>2
  <2>2. ASSUME NEW i \in 1 .. Len(sentFrames') - 1
        PROVE  sentFrames'[i + 1].beg = FrameEnd(sentFrames'[i])
    <3>1. i \in 1 .. L /\ sentFrames'[i] = sentFrames[i]
      BY <1>1, <1>3
    <3>2. CASE i = L
      <4>1. SentBytes = FrameEnd(sentFrames[L])
        BY <1>0, <3>1, <3>2, SentNumbers DEF L
      <4> QED
        BY <1>2, <1>3, <3>1, <3>2, <4>1
    <3>3. CASE i # L
      <4>1. i \in 1 .. L - 1 /\ i + 1 \in 1 .. L
        BY <1>1, <3>1, <3>3
      <4> QED
        BY <1>0, <1>3, <3>1, <4>1 DEF FramesInv, L
    <3> QED
      BY <3>2, <3>3
  <2>3. ASSUME NEW i \in 1 .. Len(sentFrames'), NEW j \in 1 .. Len(sentFrames'), i < j
        PROVE  sentFrames'[i].beg < sentFrames'[j].beg
    <3>1. i \in 1 .. L /\ sentFrames'[i] = sentFrames[i]
      BY <1>1, <1>3, <2>3
    <3>2. CASE j = L + 1
      BY <1>2, <1>3, <1>5, <3>1, <3>2
    <3>3. CASE j \in 1 .. L
      BY <1>0, <1>3, <2>3, <3>1, <3>3 DEF FramesInv, L
    <3> QED
      BY <1>1, <1>3, <3>2, <3>3
  <2> QED
    BY <1>3, <2>1, <2>2, <2>3 DEF FramesInv, FrameEnd
<1>7. ArrivalInv'
  <2>1. SentBytes' = FrameEnd(fr) /\ FrameEnd(fr) >= SentBytes
    <3>1. sentFrames' # <<>>
      BY <1>1, <1>3 
    <3>2. SentBytes' = FrameEnd(fr)
      BY <1>3, <3>1 DEF SentBytes, Last, FrameEnd
    <3>3. FrameEnd(fr) >= SentBytes
      BY <1>0, <1>1, <1>2 DEF FrameEnd
    <3> QED
      BY <3>2, <3>3
  <2>2. FrameEnd(fr) \in Nat
    BY <1>0, <1>1, <1>2 DEF FrameEnd
  <2> QED
    BY <1>0, <1>1, <1>4, <2>1, <2>2 DEF ArrivalInv
<1>8. DeliveredInv' /\ HandlerInv'
  <2>1. Len(recvd) \in Nat /\ Len(recvd) <= L
    BY <1>0, LenProperties DEF DeliveredInv, L
  <2>2. \A i \in 1 .. Len(recvd) : sentFrames'[i] = sentFrames[i]
    BY <1>1, <1>3, <2>1
  <2>3. Len(recvd) <= Len(sentFrames')
    BY <1>1, <1>3, <2>1
  <2>4. DeliveredInv'
    <3>1. recvd' \in Seq(Seq(Nat)) /\ Len(recvd') <= Len(sentFrames')
      BY <1>0, <1>4, <2>3 DEF DeliveredInv
    <3>2. ASSUME NEW i \in 1 .. Len(recvd)
          PROVE  /\ Len(recvd[i]) = sentFrames'[i].size
                 /\ Chunk(recvd[i], sentFrames'[i].beg + TcpHead)
      <4>1. sentFrames'[i] = sentFrames[i]
        BY <2>2
      <4>2. /\ Len(recvd[i]) = sentFrames[i].size
            /\ Chunk(recvd[i], sentFrames[i].beg + TcpHead)
        BY <1>0 DEF DeliveredInv
      <4> QED
        BY <4>1, <4>2
    <3>3. \A i \in 1 .. Len(recvd') : /\ Len(recvd'[i]) = sentFrames'[i].size
                                      /\ Chunk(recvd'[i], sentFrames'[i].beg + TcpHead)
      BY <1>4, <3>2
    <3> QED
      BY <3>1, <3>3 DEF DeliveredInv, Chunk
  <2>5. HandlerInv'
    BY <1>0, <1>4 DEF HandlerInv
  <2> QED
    BY <2>4, <2>5
<1>9. ASSUME ~Stuck' PROVE CircleInv'
  <2>1. CircleInv
    BY <1>4, <1>9 DEF RecvInv, Stuck
  <2> DEFINE N == Len(recvd)
  <2>2. N \in Nat /\ N <= L
    BY <1>0, LenProperties DEF DeliveredInv, L
  <2>3. NextBegin(N)' = NextBegin(N)
    <3>1. PICK K \in 0 .. Len(sentFrames) : K = N
      BY <1>1, <2>2 DEF L
    <3>2. NextBegin(K)' = NextBegin(K)
      BY <1>0, SendFollows
    <3> QED
      BY <1>4, <3>1, <3>2 DEF NextBegin
  <2>4. ASSUME hashead, recvPc # "overrun" PROVE InFrame(frame, N, got - sockbuf.len)'
    <3>1. InFrame(frame, N, got - sockbuf.len)
      BY <2>1, <2>4 DEF CircleInv
    <3>2. N < L /\ N + 1 \in 1 .. L /\ N < Len(sentFrames')
      BY <1>1, <1>3, <2>2, <3>1 DEF InFrame, L
    <3>3. sentFrames'[N + 1] = sentFrames[N + 1]
      BY <1>3, <3>2
    <3> QED
      BY <1>4, <3>1, <3>2, <3>3 DEF InFrame, Chunk
  <2>5. ASSUME PastRefused(N, got - sockbuf.len)
        PROVE  PastRefused(N, got - sockbuf.len)'
    <3>1. N < L
      BY <2>5 DEF PastRefused, L
    <3>2. N + 1 \in 1 .. L /\ N < Len(sentFrames')
      BY <1>1, <1>3, <2>2, <3>1
    <3>3. sentFrames'[N + 1] = sentFrames[N + 1]
      BY <1>3, <3>2
    <3> QED
      BY <1>4, <2>5, <3>2, <3>3 DEF PastRefused
  <2> QED
    BY <1>4, <2>1, <2>3, <2>4, <2>5 DEF CircleInv, RingHolds, ByteAt
<1>10. AstrayInv'
  <2>1. Len(recvd) \in Nat /\ Len(recvd) <= L
    BY <1>0, LenProperties DEF DeliveredInv, L
  <2>2. AstrayInv
    BY DEF RecvInv
  <2> SUFFICES ASSUME recvPc \in {"corrupt", "overrun"} PROVE AstrayInv'
    BY <1>4 DEF AstrayInv
  <2>3. Len(recvd) < L
    BY <2>2 DEF AstrayInv, L
  <2>4. Len(recvd) + 1 \in 1 .. L /\ Len(recvd) < Len(sentFrames')
    BY <1>1, <1>3, <2>1, <2>3
  <2>5. sentFrames'[Len(recvd) + 1] = sentFrames[Len(recvd) + 1]
    BY <1>3, <2>4
  <2> QED
    BY <1>4, <2>2, <2>4, <2>5 DEF AstrayInv
<1> QED
  BY <1>6, <1>7, <1>8, <1>9, <1>10 DEF RecvInv

\* What is left alone by what happens elsewhere: the circle keeps its bytes
\* while more arrive and while the handler starts or stops.
LEMMA RestKeeps ==
  ASSUME RecvInv,
         sentFrames' = sentFrames, got' = got, sockbuf' = sockbuf,
         hashead' = hashead, recvd' = recvd,
         \/ recvPc' = recvPc
         \/ recvPc \in {"wait", "loop"} /\ recvPc' \in {"wait", "loop"},
         frame' = frame \/ frame' = NoFrame
  PROVE  /\ FramesInv' /\ DeliveredInv' /\ HandlerInv' /\ AstrayInv'
         /\ (~Stuck' => CircleInv')
<1>0. FramesInv /\ DeliveredInv /\ HandlerInv /\ AstrayInv
  BY DEF RecvInv
<1>1. FramesInv'
  BY <1>0 DEF FramesInv, FrameEnd
<1>2. DeliveredInv'
  BY <1>0 DEF DeliveredInv, Chunk
<1>3. HandlerInv'
  <2>1. NoFrame \in [none : BOOLEAN, size : Nat, bytes : Seq(Nat)]
    BY EmptySeq DEF NoFrame
  <2>2. frame' \in [none : BOOLEAN, size : Nat, bytes : Seq(Nat)]
    BY <1>0, <2>1 DEF HandlerInv
  <2> QED
    BY <1>0, <2>2 DEF HandlerInv
<1>4. ASSUME ~Stuck' PROVE CircleInv'
  <2>1. hashead => frame' = frame
    BY <1>4 DEF Stuck, NoFrame
  <2>2. ~Stuck
    BY <1>4, <2>1 DEF Stuck
  <2>3. CircleInv
    BY <2>2 DEF RecvInv
  <2>4. hashead /\ recvPc' # "overrun" =>
          InFrame(frame, Len(recvd), got - sockbuf.len)'
    BY <2>1, <2>3 DEF CircleInv, InFrame, Chunk
  <2>5. NextBegin(Len(recvd))' = NextBegin(Len(recvd))
    BY DEF NextBegin, SentBytes
  <2> QED
    BY <2>3, <2>4, <2>5 DEF CircleInv, RingHolds, ByteAt, PastRefused
<1>5. AstrayInv'
  BY <1>0 DEF AstrayInv
<1> QED
  BY <1>1, <1>2, <1>3, <1>4, <1>5

\* Every step of the connection keeps the invariant.
LEMMA RecvStep ==
  ASSUME RecvInv, [RecvNext]_recvVars
  PROVE  RecvInv'
<1>0. ArrivalInv /\ HandlerInv
  BY DEF RecvInv
<1>1. CASE \E n \in FrameSizes : PeerSend(n)
  BY <1>1, SendKeeps
<1>2. ASSUME NEW n \in 1 .. SentBytes - arrived, Arrive(n)
      PROVE  RecvInv'
  <2>1. /\ FramesInv' /\ DeliveredInv' /\ HandlerInv' /\ AstrayInv'
        /\ (~Stuck' => CircleInv')
    BY <1>2, RestKeeps DEF Arrive
  <2>2. /\ arrived' = arrived + n /\ got' = got /\ edge' = TRUE
        /\ sentFrames' = sentFrames
    BY <1>2 DEF Arrive
  <2>3. whole' \in BOOLEAN
    BY <1>2 DEF Arrive
  <2>4. SentBytes \in Nat /\ SentBytes' = SentBytes
    BY <2>2, SentNumbers DEF SentBytes, RecvInv
  <2>5. arrived' \in Nat /\ got' \in Nat /\ got' <= arrived' /\ arrived' <= SentBytes'
    BY <1>0, <2>2, <2>4 DEF ArrivalInv
  <2>6. edge' \in BOOLEAN
    BY <2>2
  <2>7. ArrivalInv'
    BY <2>3, <2>5, <2>6 DEF ArrivalInv
  <2> QED
    BY <2>1, <2>7 DEF RecvInv
<1>3. CASE Event \/ RecvNothing
  <2>1. /\ sentFrames' = sentFrames /\ arrived' = arrived /\ got' = got
        /\ sockbuf' = sockbuf /\ hashead' = hashead /\ recvd' = recvd
        /\ whole' = whole /\ recvPc \in {"wait", "loop"} /\ recvPc' \in {"wait", "loop"}
        /\ (frame' = frame \/ frame' = NoFrame)
    BY <1>3 DEF Event, RecvNothing
  <2>2. edge' \in BOOLEAN
    BY <1>0, <1>3 DEF Event, RecvNothing, ArrivalInv
  <2>3. SentBytes' = SentBytes
    BY <2>1 DEF SentBytes
  <2>4. ArrivalInv'
    BY <1>0, <2>1, <2>2, <2>3 DEF ArrivalInv
  <2> QED
    BY <2>1, <2>4, RestKeeps DEF RecvInv
<1>4. CASE RecvRound
  BY <1>4, RoundKeeps
<1>5. CASE UNCHANGED recvVars
  <2>1. /\ sentFrames' = sentFrames /\ arrived' = arrived /\ got' = got
        /\ sockbuf' = sockbuf /\ hashead' = hashead /\ recvd' = recvd
        /\ whole' = whole /\ frame' = frame /\ edge' = edge /\ recvPc' = recvPc
    BY <1>5 DEF recvVars
  <2>3. ArrivalInv'
    BY <1>0, <2>1 DEF ArrivalInv, SentBytes
  <2> QED
    BY <2>1, <2>3, RestKeeps DEF RecvInv
<1> QED
  BY <1>1, <1>2, <1>3, <1>4, <1>5 DEF RecvNext

\* The invariant of a connection: frames are taken from the circle one after
\* the other, up to a head that is refused, and the circle is never full when
\* the handler calls recv, so that recv finds room behind what waits
\* (hg_tcpabstract.cpp:125-264).
THEOREM RecvInvariant == RecvSpec => []RecvInv
  BY RecvStarts, RecvStep, PTL DEF RecvSpec

\* Type correctness of the receiving side of a connection
\* (hg_tcpabstract.cpp:75-267).
THEOREM RecvTypes == RecvSpec => []RecvTypeOK
<1>1. RecvInv => RecvTypeOK
  <2> SUFFICES ASSUME RecvInv PROVE RecvTypeOK
    OBVIOUS
  <2>1. /\ sentFrames \in Seq([beg : Nat, size : FrameSizes])
        /\ arrived \in Nat /\ got \in 0 .. arrived
        /\ recvd \in Seq(Seq(Nat))
    BY DEF RecvInv, FramesInv, ArrivalInv, DeliveredInv
  <2>2. edge \in BOOLEAN /\ whole \in BOOLEAN
    BY DEF RecvInv, ArrivalInv
  <2>3. /\ recvPc \in {"wait", "loop", "corrupt", "overrun"} /\ hashead \in BOOLEAN
        /\ frame \in [none : BOOLEAN, size : Nat, bytes : Seq(Nat)]
    BY DEF RecvInv, HandlerInv
  <2>4. ~Stuck => sockbuf \in Buffers(RecvCap)
    BY DEF RecvInv, CircleInv
  <2> QED
    BY <2>1, <2>2, <2>3, <2>4 DEF RecvTypeOK
<1> QED
  BY <1>1, RecvInvariant, PTL

\* What recv writes never lies over bytes that wait in the circle
\* (hg_tcpabstract.cpp:128-155).
THEOREM RecvBacklogIntact == RecvSpec => []BacklogIntact
<1>1. RecvInv => BacklogIntact
  BY DEF RecvInv, CircleInv, BacklogIntact
<1> QED
  BY <1>1, RecvInvariant, PTL

\* The frames given to the workers are the first ones the peer sent, byte for
\* byte, however they arrive; what stops this is a frame whose size the handler
\* refuses or that is too long for jsonblock (hg_tcpabstract.cpp:125-264).
THEOREM RecvInOrder == RecvSpec => []DeliveredInOrder
<1>1. RecvInv => DeliveredInOrder
  <2> SUFFICES ASSUME RecvInv PROVE DeliveredInOrder
    OBVIOUS
  <2>1. DeliveredInv /\ AstrayInv
    BY DEF RecvInv
  <2>2. recvd \in Seq(Seq(Nat)) /\ Len(recvd) <= Len(sentFrames)
    BY <2>1 DEF DeliveredInv
  <2>3. ASSUME NEW i \in DOMAIN recvd
        PROVE  recvd[i] = [k \in 1 .. sentFrames[i].size |->
                             sentFrames[i].beg + TcpHead + k - 1]
    <3>1. i \in 1 .. Len(recvd)
      BY <2>2, <2>3, LenProperties
    <3>2. /\ Len(recvd[i]) = sentFrames[i].size /\ recvd[i] \in Seq(Nat)
          /\ \A k \in 1 .. Len(recvd[i]) :
               recvd[i][k] = sentFrames[i].beg + TcpHead + k - 1
      BY <2>1, <3>1 DEF DeliveredInv, Chunk
    <3>3. recvd[i] = [k \in 1 .. Len(recvd[i]) |-> recvd[i][k]]
      <4>1. recvd[i] \in [1 .. Len(recvd[i]) -> Nat]
        BY <3>2, LenProperties
      <4> QED
        BY <4>1
    <3> QED
      BY <3>2, <3>3
  <2> QED
    BY <2>1, <2>2, <2>3 DEF DeliveredInOrder, AstrayInv
<1> QED
  BY <1>1, RecvInvariant, PTL

-----------------------------------------------------------------------------
(* A peer whose frames come one at a time                                  *)

\* The first m frames have arrived and no byte more: all of them were handed
\* on and the circle is empty, or the handler is at the last of them, and goes
\* on until it is whole.
CalmAt(m) ==
  /\ arrived = NextBegin(m)
  /\ \/ Len(recvd) = m /\ ~edge /\ ~hashead /\ sockbuf.len = 0
     \/ /\ Len(recvd) + 1 = m /\ (edge <=> recvPc = "wait")
        /\ hashead => sockbuf.len = 0 /\ recvPc = "loop"
        /\ ~hashead => sockbuf.len < HeadsLen

\* With RecvInv inductive.
CalmInv == whole /\ Bearable =>
             /\ ~Stuck /\ recvPc \in {"wait", "loop"}
             /\ \E m \in 0 .. Len(sentFrames) : CalmAt(m)

\* Frames that begin later.
LEMMA NextApart ==
  ASSUME FramesInv, NEW m \in 0 .. Len(sentFrames), NEW n \in 0 .. Len(sentFrames),
         m < n
  PROVE  /\ NextBegin(m) \in Nat /\ NextBegin(n) \in Nat
         /\ NextBegin(m) < NextBegin(n)
<1> DEFINE L == Len(sentFrames)
<1>0. L \in Nat
  BY SentNumbers
<1>1. m + 1 \in 1 .. L /\ NextBegin(m) = sentFrames[m + 1].beg
  BY <1>0 DEF NextBegin
<1>2. NextBegin(m) \in Nat
  BY <1>1, FrameNumbers
<1>3. CASE n = L
  <2>1. L \in 1 .. L /\ sentFrames # <<>>
    BY <1>0, <1>1, SentNumbers
  <2>2. /\ FrameEnd(sentFrames[L]) \in Nat /\ sentFrames[L].beg \in Nat
        /\ sentFrames[L].beg < FrameEnd(sentFrames[L])
    BY <2>1, FrameNumbers
  <2>3. NextBegin(n) = FrameEnd(sentFrames[L])
    BY <1>3, <2>1, SentNumbers DEF NextBegin
  <2>4. m + 1 = L \/ sentFrames[m + 1].beg < sentFrames[L].beg
    BY <1>0, <1>1, <2>1 DEF FramesInv
  <2> QED
    BY <1>1, <1>2, <2>2, <2>3, <2>4
<1>4. CASE n # L
  <2>1. n + 1 \in 1 .. L /\ NextBegin(n) = sentFrames[n + 1].beg
    BY <1>0, <1>4 DEF NextBegin
  <2>2. NextBegin(n) \in Nat
    BY <2>1, FrameNumbers
  <2>3. sentFrames[m + 1].beg < sentFrames[n + 1].beg
    BY <1>0, <1>1, <2>1 DEF FramesInv
  <2> QED
    BY <1>1, <1>2, <2>1, <2>2, <2>3
<1> QED
  BY <1>3, <1>4

\* When all that has arrived belongs to one frame, the frame takes the circle
\* empty: it is whole and handed on, or recv has more to give
\* (hg_tcpabstract.cpp:215-262).
LEMMA CalmTakes ==
  ASSUME FramesInv, DeliveredInv,
         NEW f \in [none : BOOLEAN, size : Nat, bytes : Seq(Nat)], ~f.none,
         NEW b \in Buffers(RecvCap), b.len >= 1,
         NEW pos \in Nat, InFrame(f, Len(recvd), pos), RingHolds(b, pos, RecvCap),
         got' = pos + b.len, got' <= arrived, arrived = NextBegin(Len(recvd) + 1),
         recvPc = "loop",
         NEW short \in BOOLEAN, short => got' = arrived, TakeBytes(f, b, short),
         Bearable
  PROVE  /\ sockbuf'.len = 0 /\ recvPc' \in {"wait", "loop"}
         /\ \/ Len(recvd') = Len(recvd) + 1 /\ ~hashead'
            \/ /\ Len(recvd') = Len(recvd) /\ hashead'
               /\ ~frame'.none /\ recvPc' = "loop"
<1> DEFINE g == Filled(f, b)
           n == Len(recvd)
           F == sentFrames[n + 1]
           x == F.beg + TcpHead
<1>0. /\ RecvCap \in Nat \ {0} /\ TcpHead \in Nat \ {0}
      /\ recvd \in Seq(Seq(Nat)) /\ n \in Nat /\ Len(sentFrames) \in Nat
  BY TcpRecvAssumption, SentNumbers DEF DeliveredInv
<1>1. /\ n < Len(sentFrames) /\ f.size = F.size /\ Len(f.bytes) < f.size
      /\ Chunk(f.bytes, x) /\ pos = x + Len(f.bytes)
  <2>1. InFrame(f, n, pos)
    OBVIOUS
  <2> QED
    BY ONLY <2>1 DEF InFrame
<1>2. n + 1 \in 1 .. Len(sentFrames)
  BY <1>0, <1>1
<1>3. F.beg \in Nat /\ F.size \in Nat /\ arrived = x + F.size /\ x \in Nat
  <2>1. F.beg \in Nat /\ F.size \in Nat
    BY <1>2, FrameNumbers
  <2>2. NextBegin(n + 1) = FrameEnd(F)
    BY <1>0, <1>1, NextFollows
  <2>3. arrived = FrameEnd(F)
    BY <2>2
  <2>4. FrameEnd(F) = F.beg + TcpHead + F.size
    BY DEF FrameEnd
  <2>5. PICK a, h \in Nat : a = F.beg /\ h = TcpHead
    BY <1>0, <2>1
  <2>6. x = a + h /\ FrameEnd(F) = a + h + F.size
    BY <2>4, <2>5
  <2> HIDE DEF x, F
  <2> QED
    BY ONLY <2>1, <2>3, <2>5, <2>6
<1>4. Len(f.bytes) \in Nat /\ b.len \in Nat
  BY <1>0, <1>1, BufferFields DEF Chunk
<1>5. RingHolds(b, x + Len(f.bytes), RecvCap)
  BY <1>1
<1>6. /\ g.none = f.none /\ g.size = f.size /\ Len(g.bytes) \in Nat
      /\ Len(g.bytes) - Len(f.bytes) = Lesser(b.len, f.size - Len(f.bytes))
  BY <1>1, <1>3, <1>5, FilledHolds
<1> HIDE DEF x, F, g
<1>7. b.len <= f.size - Len(f.bytes)
  <2>1. x + Len(f.bytes) + b.len <= x + f.size
    BY <1>1, <1>3
  <2>2. f.size \in Nat
    BY <1>1, <1>3
  <2> QED
    BY <1>3, <1>4, <2>1, <2>2
<1>8. Len(g.bytes) - Len(f.bytes) = b.len
  BY <1>6, <1>7 DEF Lesser
<1>9. short => Len(g.bytes) = g.size
  <2> SUFFICES ASSUME short PROVE Len(g.bytes) = g.size
    OBVIOUS
  <2>1. PICK k, m, l, y \in Nat : k = Len(f.bytes) /\ m = Len(g.bytes) /\ l = b.len /\ y = x
    BY <1>1, <1>3, <1>4, <1>6
  <2>2. PICK z \in Nat : z = f.size /\ z = g.size /\ m - k = l
    BY <1>1, <1>3, <1>6, <1>8, <2>1
  <2>3. (y + k) + l = y + z
    BY <1>1, <1>3, <2>1, <2>2
  <2>4. \A i, j, c, d, e \in Nat : j - i = c /\ (d + i) + c = d + e => j = e
    OBVIOUS
  <2>5. m = z
    BY ONLY <2>2, <2>3, <2>4, k \in Nat, m \in Nat, l \in Nat, y \in Nat, z \in Nat
  <2> QED
    BY ONLY <2>1, <2>2, <2>5
<1>10. sockbuf'.len = 0
  <2>1. sockbuf' = Skip(b, Len(g.bytes) - Len(f.bytes), RecvCap)
    BY DEF TakeBytes, g
  <2>2. sockbuf'.len = b.len - b.len
    BY <1>8, <2>1 DEF Skip
  <2> QED
    BY <1>4, <2>2
<1>13. ~Overruns(g.size)
  <2>1. DOMAIN sentFrames = 1 .. Len(sentFrames)
    BY LenProperties DEF FramesInv
  <2> QED
    BY <1>1, <1>2, <1>6, <2>1 DEF Bearable, F
<1>11. CASE Len(g.bytes) = g.size
  <2>1. recvd' = Append(recvd, g.bytes) /\ hashead' = FALSE /\ EndRound(short, g)
    BY <1>11, <1>13 DEF TakeBytes, g
  <2>2. Len(recvd') = n + 1
    BY <1>0, <2>1
  <2>3. recvPc' \in {"wait", "loop"}
    BY <2>1 DEF EndRound
  <2> QED
    BY <1>10, <2>1, <2>2, <2>3
<1>12. CASE Len(g.bytes) # g.size
  <2>1. recvd' = recvd /\ hashead' = TRUE /\ EndRound(short, g)
    BY <1>12 DEF TakeBytes, g
  <2>2. frame' = g /\ recvPc' = "loop"
    BY <1>9, <1>12, <2>1 DEF EndRound
  <2> QED
    BY <1>6, <1>10, <2>1, <2>2
<1> QED
  BY <1>11, <1>12

\* A round for a frame that has arrived whole (hg_tcpabstract.cpp:125-264).
LEMMA CalmRound ==
  ASSUME RecvInv, CalmInv, RecvRound
  PROVE  CalmInv'
<1> SUFFICES ASSUME whole, Bearable
             PROVE  /\ ~Stuck' /\ recvPc' \in {"wait", "loop"}
                    /\ \E m \in 0 .. Len(sentFrames') : CalmAt(m)'
  BY DEF CalmInv, RecvRound, Bearable
<1>0. FramesInv /\ DeliveredInv /\ ArrivalInv
  BY DEF RecvInv
<1>1. /\ recvPc = "loop" /\ sentFrames' = sentFrames /\ arrived' = arrived
      /\ edge' = edge
  BY DEF RecvRound
<1>2. PICK m \in 0 .. Len(sentFrames) : CalmAt(m)
  BY DEF CalmInv
<1>3. ~Stuck /\ CircleInv
  BY DEF CalmInv, RecvInv
<1>4. PICK pos \in Nat, b \in Buffers(RecvCap), short \in BOOLEAN :
        /\ RingHolds(b, pos, RecvCap) /\ b.len >= 1 /\ got < got'
        /\ got' = pos + b.len /\ got' <= arrived /\ (short => got' = arrived)
        /\ \/ /\ ~hashead /\ b.len < HeadsLen
              /\ pos = NextBegin(Len(recvd)) \/ PastRefused(Len(recvd), pos)
              /\ sockbuf' = b /\ recvPc' = recvPc /\ hashead' = hashead
              /\ frame' = frame /\ recvd' = recvd
           \/ RefusedStep(b, pos)
           \/ \E f \in [none : BOOLEAN, size : Nat, bytes : Seq(Nat)] :
                /\ ~f.none /\ InFrame(f, Len(recvd), pos) /\ TakeBytes(f, b, short)
  BY <1>3, RoundTakes
<1>5. b.len \in Nat /\ got \in Nat /\ arrived \in Nat /\ got < arrived
  <2>1. b.len \in Nat
    BY TcpRecvAssumption, BufferFields
  <2>2. got \in Nat /\ arrived \in Nat
    BY <1>0 DEF ArrivalInv
  <2>3. got' \in Nat
    BY <1>4, <2>1
  <2> QED
    BY <1>4, <2>1, <2>2, <2>3
<1>10. ASSUME NEW n \in Nat, n < Len(sentFrames) PROVE ~Refused(sentFrames[n + 1].size)
  <2>1. n + 1 \in 1 .. Len(sentFrames)
    BY <1>0, <1>10, SentNumbers
  <2>2. DOMAIN sentFrames = 1 .. Len(sentFrames)
    BY <1>0, LenProperties DEF FramesInv
  <2> QED
    BY <2>1, <2>2 DEF Bearable
<1>11. Len(recvd) \in Nat
  BY <1>0, LenProperties DEF DeliveredInv
<1>12. ~PastRefused(Len(recvd), got - sockbuf.len) /\ ~RefusedStep(b, pos)
  BY <1>10, <1>11 DEF PastRefused, RefusedStep
<1>6. Len(recvd) + 1 = m /\ ~edge
  <2>1. CASE Len(recvd) = m /\ ~hashead /\ sockbuf.len = 0
    <3>1. got - 0 = arrived
      BY <1>1, <1>2, <1>3, <1>12, <2>1 DEF CircleInv, CalmAt
    <3> QED
      BY <1>5, <3>1
  <2> QED
    BY <1>1, <1>2, <2>1 DEF CalmAt
<1>7. NextBegin(m)' = NextBegin(m) /\ arrived = NextBegin(m)
  BY <1>1, <1>2 DEF NextBegin, SentBytes, CalmAt
<1>8. CASE /\ ~hashead /\ b.len < HeadsLen
           /\ sockbuf' = b /\ recvPc' = recvPc /\ hashead' = hashead
           /\ frame' = frame /\ recvd' = recvd
  <2>1. CalmAt(m)'
    BY <1>1, <1>6, <1>7, <1>8 DEF CalmAt
  <2>2. ~Stuck'
    BY <1>8 DEF Stuck
  <2> QED
    BY <1>1, <1>8, <2>1, <2>2
<1>9. ASSUME NEW f \in [none : BOOLEAN, size : Nat, bytes : Seq(Nat)], ~f.none,
             InFrame(f, Len(recvd), pos), TakeBytes(f, b, short)
      PROVE  /\ ~Stuck' /\ recvPc' \in {"wait", "loop"}
             /\ \E i \in 0 .. Len(sentFrames') : CalmAt(i)'
  <2>1. arrived = NextBegin(Len(recvd) + 1)
    BY <1>6, <1>7
  <2>2. /\ sockbuf'.len = 0 /\ recvPc' \in {"wait", "loop"}
        /\ \/ Len(recvd') = Len(recvd) + 1 /\ ~hashead'
           \/ /\ Len(recvd') = Len(recvd) /\ hashead'
              /\ ~frame'.none /\ recvPc' = "loop"
    BY <1>0, <1>1, <1>4, <1>9, <2>1, CalmTakes
  <2>3. CalmAt(m)'
    BY <1>1, <1>6, <1>7, <2>2 DEF CalmAt
  <2>4. ~Stuck'
    BY <2>2 DEF Stuck
  <2> QED
    BY <1>1, <2>2, <2>3, <2>4
<1> QED
  BY <1>4, <1>8, <1>9, <1>12

\* Not all of the frame was received: recv has something to give.
LEMMA CalmMore ==
  ASSUME RecvInv, ~Stuck, NEW m \in 0 .. Len(sentFrames), CalmAt(m),
         Len(recvd) + 1 = m, Bearable, recvPc = "loop"
  PROVE  got # arrived
<1> DEFINE n == Len(recvd)
           F == sentFrames[n + 1]
<1>0. /\ FramesInv /\ DeliveredInv /\ ArrivalInv /\ CircleInv
      /\ TcpHead \in Nat \ {0} /\ RtpHead \in Nat \ {0} /\ RecvCap \in Nat \ {0}
  BY TcpRecvAssumption DEF RecvInv
<1>1. n \in Nat /\ n < Len(sentFrames) /\ n + 1 \in 1 .. Len(sentFrames)
  <2>1. n \in Nat /\ Len(sentFrames) \in Nat
    BY <1>0, LenProperties, SentNumbers DEF DeliveredInv
  <2> QED
    BY <2>1
<1>2. /\ F.beg \in Nat /\ F.size \in Nat /\ F.size >= RtpHead
      /\ arrived = F.beg + TcpHead + F.size
  <2>1. F.beg \in Nat /\ F.size \in Nat /\ F.size >= RtpHead
    BY <1>0, <1>1, FrameNumbers
  <2>2. NextBegin(n + 1) = FrameEnd(F)
    BY <1>0, <1>1, NextFollows
  <2> QED
    BY <2>1, <2>2 DEF FrameEnd, CalmAt
<1>3. sockbuf.len \in Nat /\ got \in Nat
  BY <1>0, BufferFields DEF CircleInv, ArrivalInv
<1>4. CASE hashead
  <2>1. sockbuf.len = 0
    <3>1. Len(recvd) # m
      BY <1>1
    <3> QED
      BY <1>4, <3>1 DEF CalmAt
  <2>2. /\ frame.size = F.size /\ Len(frame.bytes) < frame.size
        /\ frame.bytes \in Seq(Nat) /\ got - 0 = F.beg + TcpHead + Len(frame.bytes)
    BY <1>0, <1>4, <2>1 DEF CircleInv, InFrame, Chunk
  <2>3. Len(frame.bytes) \in Nat
    BY <2>2
  <2>4. Len(frame.bytes) < F.size /\ got = F.beg + TcpHead + Len(frame.bytes)
    BY <1>3, <2>2
  <2> HIDE DEF F
  <2> QED
    BY <1>0, <1>2, <2>3, <2>4
<1>5. CASE ~hashead
  <2>1. sockbuf.len < TcpHead + RtpHead
    <3>1. Len(recvd) # m
      BY <1>1
    <3> QED
      BY <1>5, <3>1 DEF CalmAt, HeadsLen
  <2>4. ~PastRefused(n, got - sockbuf.len)
    <3>1. DOMAIN sentFrames = 1 .. Len(sentFrames)
      BY <1>0, LenProperties DEF FramesInv
    <3> QED
      BY <1>1, <3>1 DEF PastRefused, Bearable
  <2>2. got - sockbuf.len = F.beg
    BY <1>0, <1>1, <1>5, <2>4 DEF CircleInv, NextBegin
  <2> HIDE DEF F
  <2>3. got = F.beg + sockbuf.len
    BY <1>2, <1>3, <2>2
  <2> QED
    BY <1>0, <1>2, <1>3, <2>1, <2>3
<1> QED
  BY <1>4, <1>5

\* If all frames are bearable after one more is sent, they were before.
LEMMA SentBearable ==
  ASSUME FramesInv, NEW n \in FrameSizes, PeerSend(n), Bearable'
  PROVE  Bearable
<1>1. sentFrames \in Seq([beg : Nat, size : FrameSizes]) /\ SentBytes \in Nat
  BY SentNumbers DEF FramesInv
<1> DEFINE fr == [beg |-> SentBytes, size |-> n]
<1>2. fr \in [beg : Nat, size : FrameSizes] /\ sentFrames' = Append(sentFrames, fr)
  BY <1>1 DEF PeerSend
<1> HIDE DEF fr
<1>3. /\ \A i \in 1 .. Len(sentFrames) : sentFrames'[i] = sentFrames[i]
      /\ DOMAIN sentFrames = 1 .. Len(sentFrames)
      /\ DOMAIN sentFrames' = 1 .. Len(sentFrames) + 1 /\ Len(sentFrames) \in Nat
  BY <1>1, <1>2
<1>4. ASSUME NEW i \in DOMAIN sentFrames
      PROVE  ~Refused(sentFrames[i].size) /\ ~Overruns(sentFrames[i].size)
  <2>1. i \in DOMAIN sentFrames' /\ sentFrames'[i] = sentFrames[i]
    BY <1>3
  <2>2. ~Refused(sentFrames'[i].size) /\ ~Overruns(sentFrames'[i].size)
    BY <2>1 DEF Bearable
  <2> QED
    BY <2>1, <2>2
<1> QED
  BY <1>4 DEF Bearable

\* Every step of the connection keeps a calm peer calm.
LEMMA CalmStep ==
  ASSUME RecvInv, CalmInv, [RecvNext]_recvVars
  PROVE  CalmInv'
<1> USE DEF CalmInv
<1>0. /\ FramesInv /\ ArrivalInv /\ Len(sentFrames) \in Nat
      /\ TcpHead \in Nat \ {0} /\ RtpHead \in Nat \ {0}
  BY TcpRecvAssumption, SentNumbers DEF RecvInv
<1>1. ASSUME NEW n \in FrameSizes, PeerSend(n), whole', Bearable' PROVE CalmInv'
  <2>1. /\ arrived' = arrived /\ edge' = edge /\ recvPc' = recvPc
        /\ sockbuf' = sockbuf /\ hashead' = hashead /\ frame' = frame
        /\ recvd' = recvd /\ whole
    BY <1>1 DEF PeerSend
  <2>6. Bearable
    BY <1>0, <1>1, SentBearable
  <2>2. PICK m \in 0 .. Len(sentFrames) : CalmAt(m)
    BY <2>1, <2>6
  <2>3. m \in 0 .. Len(sentFrames') /\ NextBegin(m)' = NextBegin(m)
    BY <1>0, <1>1, SendFollows
  <2>4. CalmAt(m)'
    BY <2>1, <2>2, <2>3 DEF CalmAt
  <2>5. ~Stuck'
    BY <2>1, <2>6 DEF Stuck
  <2> QED
    BY <2>1, <2>3, <2>4, <2>5, <2>6
<1>2. ASSUME NEW n \in 1 .. SentBytes - arrived, Arrive(n), whole', Bearable' PROVE CalmInv'
  <2>1. /\ edge' = TRUE /\ recvPc' = "wait" /\ whole /\ recvPc = "wait" /\ ~edge
        /\ sentFrames' = sentFrames /\ sockbuf' = sockbuf /\ hashead' = hashead
        /\ frame' = frame /\ recvd' = recvd
    BY <1>2 DEF Arrive, AtRest
  <2>20. Bearable
    BY <2>1, <1>2 DEF Bearable
  <2>2. PICK m \in 0 .. Len(sentFrames) : CalmAt(m)
    BY <2>1, <2>20
  <2>3. /\ arrived = NextBegin(m) /\ Len(recvd) = m /\ ~hashead /\ sockbuf.len = 0
    BY <2>1, <2>2 DEF CalmAt
  <2>4. PICK i \in DOMAIN sentFrames : /\ arrived  = sentFrames[i].beg
                                       /\ arrived' = FrameEnd(sentFrames[i])
    BY <1>2 DEF Arrive
  <2>5. i \in 1 .. Len(sentFrames)
    BY <1>0, <2>4, LenProperties DEF FramesInv
  <2>6. /\ i - 1 \in 0 .. Len(sentFrames) /\ i - 1 # Len(sentFrames) /\ (i - 1) + 1 = i
        /\ NextBegin(i - 1) = arrived
    BY <1>0, <2>4, <2>5 DEF NextBegin
  <2>7. i - 1 = m
    <3>1. ~ (i - 1 < m)
      <4> SUFFICES ASSUME i - 1 < m PROVE FALSE
        OBVIOUS
      <4> QED
        BY <1>0, <2>3, <2>6, NextApart
    <3>2. ~ (m < i - 1)
      <4> SUFFICES ASSUME m < i - 1 PROVE FALSE
        OBVIOUS
      <4> QED
        BY <1>0, <2>3, <2>6, NextApart
    <3> QED
      BY <2>5, <3>1, <3>2
  <2>8. arrived' = NextBegin(i)
    <3>1. i - 1 \in Nat /\ i - 1 < Len(sentFrames)
      BY <1>0, <2>5
    <3> QED
      BY <1>0, <2>4, <2>6, <3>1, NextFollows
  <2>9. NextBegin(i)' = NextBegin(i) /\ i \in 0 .. Len(sentFrames')
    BY <2>1, <2>5 DEF NextBegin, SentBytes
  <2>10. Len(recvd') + 1 = i /\ sockbuf'.len < HeadsLen
    BY <1>0, <2>1, <2>3, <2>5, <2>7 DEF HeadsLen
  <2>11. CalmAt(i)'
    BY <2>1, <2>3, <2>8, <2>9, <2>10 DEF CalmAt
  <2>12. ~Stuck'
    BY <2>1, <2>3 DEF Stuck
  <2> QED
    BY <2>1, <2>9, <2>11, <2>12
<1>3. ASSUME Event, whole', Bearable' PROVE CalmInv'
  <2>1. /\ recvPc = "wait" /\ edge /\ edge' = FALSE /\ recvPc' = "loop"
        /\ sentFrames' = sentFrames /\ arrived' = arrived /\ sockbuf' = sockbuf
        /\ hashead' = hashead /\ frame' = frame /\ recvd' = recvd /\ whole
    BY <1>3 DEF Event
  <2>20. Bearable
    BY <2>1, <1>3 DEF Bearable
  <2>2. PICK m \in 0 .. Len(sentFrames) : CalmAt(m)
    BY <2>1, <2>20
  <2>3. NextBegin(m)' = NextBegin(m)
    BY <2>1 DEF NextBegin, SentBytes
  <2>4. CalmAt(m)'
    BY <2>1, <2>2, <2>3 DEF CalmAt
  <2>5. ~Stuck'
    BY <2>1, <2>20 DEF Stuck
  <2> QED
    BY <2>1, <2>4, <2>5, <2>20
<1>4. ASSUME RecvNothing, whole', Bearable' PROVE CalmInv'
  <2>1. /\ recvPc = "loop" /\ got = arrived /\ edge' = edge /\ recvPc' = "wait"
        /\ sentFrames' = sentFrames /\ arrived' = arrived /\ sockbuf' = sockbuf
        /\ hashead' = hashead /\ recvd' = recvd /\ whole
    BY <1>4 DEF RecvNothing
  <2>20. Bearable
    BY <2>1, <1>4 DEF Bearable
  <2>2. PICK m \in 0 .. Len(sentFrames) : CalmAt(m)
    BY <2>1, <2>20
  <2>3. NextBegin(m)' = NextBegin(m)
    BY <2>1 DEF NextBegin, SentBytes
  <2>4. Len(recvd) + 1 # m
    BY <2>1, <2>2, <2>20, CalmMore
  <2>5. CalmAt(m)' /\ ~hashead
    BY <2>1, <2>2, <2>3, <2>4 DEF CalmAt
  <2>6. ~Stuck'
    BY <2>1, <2>5 DEF Stuck
  <2> QED
    BY <2>1, <2>5, <2>6, <2>20
<1>5. ASSUME UNCHANGED recvVars, whole', Bearable' PROVE CalmInv'
  <2>1. /\ sentFrames' = sentFrames /\ arrived' = arrived /\ edge' = edge
        /\ recvPc' = recvPc /\ sockbuf' = sockbuf /\ hashead' = hashead
        /\ frame' = frame /\ recvd' = recvd /\ whole
    BY <1>5 DEF recvVars
  <2>20. Bearable
    BY <2>1, <1>5 DEF Bearable
  <2>2. PICK m \in 0 .. Len(sentFrames) : CalmAt(m)
    BY <2>1, <2>20
  <2>3. NextBegin(m)' = NextBegin(m)
    BY <2>1 DEF NextBegin, SentBytes
  <2>4. CalmAt(m)'
    BY <2>1, <2>2, <2>3 DEF CalmAt
  <2>5. ~Stuck'
    BY <2>1, <2>20 DEF Stuck
  <2> QED
    BY <2>1, <2>4, <2>5, <2>20
<1>6. CASE RecvRound
  BY <1>6, CalmRound
<1>7. whole' /\ Bearable' => CalmInv'
  BY <1>1, <1>2, <1>3, <1>4, <1>5, <1>6 DEF RecvNext
<1> QED
  BY <1>7

\* A peer whose frames come one at a time, each at once, gets each handled
\* before the socket rests again, for all sizes of circle and heads and all
\* sizes of frames the handler takes and jsonblock has room for, also larger
\* than the circle (hg_tcpabstract.cpp:125-264): a recv that does not take all of the frame
\* has filled the room it had, and is followed by another.
THEOREM CalmServed == RecvSpec => []CalmPeerServed
<1>1. RecvInit => CalmInv
  <2> SUFFICES ASSUME RecvInit PROVE CalmInv
    OBVIOUS
  <2>1. /\ Len(recvd) = 0 /\ Len(sentFrames) = 0 /\ arrived = 0 /\ SentBytes = 0
        /\ ~edge /\ ~hashead /\ sockbuf.len = 0
    BY DEF RecvInit, NewBuf, SentBytes
  <2>2. 0 \in 0 .. Len(sentFrames) /\ CalmAt(0)
    BY <2>1 DEF CalmAt, NextBegin
  <2> QED
    BY <2>1, <2>2 DEF CalmInv, Stuck, RecvInit
<1>2. RecvInv /\ CalmInv => CalmPeerServed
  <2> SUFFICES ASSUME RecvInv, CalmInv, whole, AtRest, Bearable
               PROVE  Len(recvd) = Cardinality(WholeFrames) /\ sockbuf.len = 0
    BY DEF CalmPeerServed
  <2>1. PICK m \in 0 .. Len(sentFrames) : CalmAt(m)
    BY DEF CalmInv
  <2>2. arrived = NextBegin(m) /\ Len(recvd) = m /\ sockbuf.len = 0
    BY <2>1 DEF CalmAt, AtRest
  <2>3. FramesInv /\ Len(sentFrames) \in Nat
    BY SentNumbers DEF RecvInv
  <2>4. ASSUME NEW i \in 1 .. Len(sentFrames)
        PROVE  FrameEnd(sentFrames[i]) <= arrived <=> i <= m
    <3>1. /\ i - 1 \in Nat /\ i - 1 < Len(sentFrames) /\ (i - 1) + 1 = i
          /\ i \in 0 .. Len(sentFrames)
      BY <2>3
    <3>2. FrameEnd(sentFrames[i]) = NextBegin(i) /\ FrameEnd(sentFrames[i]) \in Nat
      BY <2>3, <3>1, NextFollows, FrameNumbers
    <3>3. CASE i < m
      <4>1. NextBegin(i) < NextBegin(m) /\ NextBegin(m) \in Nat
        BY <2>3, <3>1, <3>3, NextApart
      <4> QED
        BY <2>2, <3>2, <3>3, <4>1
    <3>4. CASE m < i
      <4>1. NextBegin(m) < NextBegin(i) /\ NextBegin(m) \in Nat
        BY <2>3, <3>1, <3>4, NextApart
      <4> QED
        BY <2>2, <3>2, <3>4, <4>1
    <3>5. CASE i = m
      BY <2>2, <3>2, <3>5
    <3> QED
      BY <3>3, <3>4, <3>5
  <2>5. WholeFrames = 1 .. m
    <3>1. DOMAIN sentFrames = 1 .. Len(sentFrames)
      BY <2>3, LenProperties DEF FramesInv
    <3> QED
      BY <2>3, <2>4, <3>1 DEF WholeFrames
  <2>6. Cardinality(1 .. m) = m
    BY <2>3, FS_Interval
  <2> QED
    BY <2>2, <2>5, <2>6
<1> QED
  BY <1>1, <1>2, CalmStep, RecvStarts, RecvStep, PTL DEF RecvSpec

-----------------------------------------------------------------------------
(* The sending side: the bytes of frames and of chains                     *)

OutNodes == [frame : 1 .. MaxOutFrames, beg : Nat, len : Nat,
             kind : {"head", "block", "last"}]

\* HandedBytes of the frames q.
HandedOf(q, i) == BytesTo([k \in DOMAIN q |-> BytesOf(q[k])])[i]

\* FrameNodes for a frame that begins at b.
NodesAt(b, f, shape) ==
  <<[frame |-> f, beg |-> b, len |-> OutHead, kind |-> "head"]>>
    \o [i \in 1 .. Len(shape) |->
          [frame |-> f, beg |-> b + OutHead + BytesTo(shape)[i - 1], len |-> shape[i],
           kind |-> IF i = Len(shape) THEN "last" ELSE "block"]]

\* The bytes of the stream from b up to e.
Stretch(b, e) == [k \in 1 .. e - b |-> b + k - 1]

NodeEnd(nd) == nd.beg + nd.len

\* The nodes of c are one stretch.
Joined(c) ==
  /\ c \in Seq(OutNodes) /\ c # <<>>
  /\ \A i \in 1 .. Len(c) : c[i].len > 0
  /\ \A i \in 1 .. Len(c) - 1 : c[i + 1].beg = NodeEnd(c[i])

\* The blocks of a frame have at least one byte each.
LEMMA ShapeBytes ==
  ASSUME NEW shape \in OutShapes
  PROVE  /\ shape \in Seq(Nat \ {0}) /\ Len(shape) \in Nat \ {0}
         /\ BytesTo(shape)[0] = 0
         /\ \A i \in 0 .. Len(shape) : BytesTo(shape)[i] \in Nat
         /\ \A i \in 1 .. Len(shape) : /\ BytesTo(shape)[i] = BytesTo(shape)[i - 1] + shape[i]
                                       /\ shape[i] \in Nat \ {0}
         /\ BytesOf(shape) \in Nat \ {0}
<1>1. shape \in Seq(Nat \ {0}) /\ shape # <<>> /\ OutHead \in Nat \ {0}
  BY TcpSendAssumption
<1>2. Len(shape) \in Nat \ {0} /\ \A i \in 1 .. Len(shape) : shape[i] \in Nat \ {0}
  BY <1>1, EmptySeq, ElementOfSeq
<1>3. CountsTo(BytesTo(shape), shape, Len(shape))
  BY <1>1, BytesToCounts
<1>4. PICK f : f = BytesTo(shape)
  OBVIOUS
<1>5. f \in [0 .. Len(shape) -> Nat] /\ f[0] = 0
      /\ \A i \in 1 .. Len(shape) : f[i] = f[i - 1] + shape[i]
  BY <1>3, <1>4 DEF CountsTo
<1>6. BytesOf(shape) \in Nat \ {0}
  <2>1. Len(shape) \in 0 .. Len(shape)
    BY <1>2
  <2>2. f[Len(shape)] \in Nat /\ BytesOf(shape) = OutHead + f[Len(shape)]
    BY <1>4, <1>5, <2>1 DEF BytesOf
  <2> QED
    BY <1>1, <2>2
<1> QED
  BY <1>1, <1>2, <1>4, <1>5, <1>6

\* Each frame begins where the one before it ends.
LEMMA HandedSteps ==
  ASSUME NEW q \in Seq(OutShapes)
  PROVE  /\ HandedOf(q, 0) = 0
         /\ \A i \in 0 .. Len(q) : HandedOf(q, i) \in Nat
         /\ \A i \in 1 .. Len(q) : /\ HandedOf(q, i) = HandedOf(q, i - 1) + BytesOf(q[i])
                                   /\ BytesOf(q[i]) \in Nat \ {0} /\ q[i] \in OutShapes
<1>1. PICK r : r = [k \in DOMAIN q |-> BytesOf(q[k])]
  OBVIOUS
<1>2. \A i \in 1 .. Len(q) : q[i] \in OutShapes /\ BytesOf(q[i]) \in Nat \ {0}
  BY ElementOfSeq, ShapeBytes
<1>3. r \in Seq(Nat \ {0}) /\ Len(r) = Len(q) /\ \A i \in 1 .. Len(q) : r[i] = BytesOf(q[i])
  <2>1. DOMAIN q = 1 .. Len(q) /\ Len(q) \in Nat
    OBVIOUS
  <2> QED
    BY <1>1, <1>2, <2>1
<1>4. CountsTo(BytesTo(r), r, Len(r))
  BY <1>3, BytesToCounts
<1>5. PICK f : f = BytesTo(r)
  OBVIOUS
<1>6. f \in [0 .. Len(q) -> Nat] /\ f[0] = 0
      /\ \A i \in 1 .. Len(q) : f[i] = f[i - 1] + r[i]
  BY <1>3, <1>4, <1>5 DEF CountsTo
<1>7. \A i : HandedOf(q, i) = f[i]
  BY <1>1, <1>5 DEF HandedOf
<1>8. ASSUME NEW i \in 1 .. Len(q)
      PROVE  HandedOf(q, i) = HandedOf(q, i - 1) + BytesOf(q[i])
  <2>1. f[i] = f[i - 1] + r[i] /\ r[i] = BytesOf(q[i])
    BY <1>3, <1>6
  <2> QED
    BY <1>7, <2>1
<1>9. HandedOf(q, 0) = 0
  BY <1>6, <1>7
<1>10. ASSUME NEW i \in 0 .. Len(q) PROVE HandedOf(q, i) \in Nat
  BY <1>6, <1>7
<1> QED
  BY <1>2, <1>8, <1>9, <1>10

\* A further frame comes behind all others.
LEMMA HandedStays ==
  ASSUME NEW q \in Seq(OutShapes), NEW shape \in OutShapes, NEW i \in 0 .. Len(q)
  PROVE  HandedOf(Append(q, shape), i) = HandedOf(q, i)
<1>1. PICK p : p = Append(q, shape)
  OBVIOUS
<1>2. p \in Seq(OutShapes) /\ Len(p) = Len(q) + 1 /\ Len(q) \in Nat
      /\ \A k \in 1 .. Len(q) : p[k] = q[k]
  BY <1>1, AppendProperties
<1>3. PICK s, t : s = [k \in DOMAIN q |-> BytesOf(q[k])] /\ t = [k \in DOMAIN p |-> BytesOf(p[k])]
  OBVIOUS
<1>4. \A k \in 1 .. Len(q) : BytesOf(q[k]) \in Nat \ {0}
  BY ElementOfSeq, ShapeBytes
<1>5. \A k \in 1 .. Len(p) : BytesOf(p[k]) \in Nat \ {0}
  BY <1>2, ElementOfSeq, ShapeBytes
<1>6. DOMAIN q = 1 .. Len(q) /\ DOMAIN p = 1 .. Len(p)
  BY <1>2
<1>7. s \in Seq(Nat \ {0}) /\ Len(s) = Len(q) /\ \A k \in 1 .. Len(q) : s[k] = BytesOf(q[k])
  BY <1>2, <1>3, <1>4, <1>6
<1>8. t \in Seq(Nat \ {0}) /\ Len(t) = Len(p) /\ \A k \in 1 .. Len(p) : t[k] = BytesOf(p[k])
  BY <1>2, <1>3, <1>5, <1>6
<1>9. i \in Nat /\ i <= Len(s) /\ i <= Len(t) /\ i \in 0 .. Len(s)
  BY <1>2, <1>7, <1>8
<1>10. ASSUME NEW k \in 1 .. i PROVE s[k] = t[k]
  <2>1. k \in 1 .. Len(q) /\ k \in 1 .. Len(p)
    BY <1>2
  <2> QED
    BY <1>2, <1>7, <1>8, <2>1
<1>11. BytesTo(s)[i] = BytesTo(t)[i]
  BY <1>7, <1>8, <1>9, <1>10, BytesToSame
<1> QED
  BY <1>1, <1>3, <1>11 DEF HandedOf

\* A stretch and the node behind it.
LEMMA StretchGrows ==
  ASSUME NEW b \in Nat, NEW m \in Nat, NEW l \in Nat, b <= m
  PROVE  Stretch(b, m) \o [k \in 1 .. l |-> m + k - 1] = Stretch(b, m + l)
<1>1. PICK p, q, r : /\ p = Stretch(b, m) /\ q = [k \in 1 .. l |-> m + k - 1]
                     /\ r = Stretch(b, m + l)
  OBVIOUS
<1>a. PICK w \in Nat : w = m - b
  OBVIOUS
<1>2. p \in Seq(Nat) /\ Len(p) = w /\ \A k \in 1 .. w : p[k] = b + k - 1
  BY <1>1, <1>a DEF Stretch
<1>3. q \in Seq(Nat) /\ Len(q) = l /\ \A k \in 1 .. l : q[k] = m + k - 1
  BY <1>1
<1>4. r \in Seq(Nat) /\ Len(r) = w + l /\ \A k \in 1 .. w + l : r[k] = b + k - 1
  <2>1. m + l - b = w + l
    BY <1>a
  <2>2. r = [k \in 1 .. w + l |-> b + k - 1]
    BY <1>1, <2>1 DEF Stretch
  <2> QED
    BY <2>2
<1>5. PICK s : s = p \o q
  OBVIOUS
<1>6. s \in Seq(Nat) /\ Len(s) = w + l
      /\ \A k \in 1 .. w + l : s[k] = IF k <= w THEN p[k] ELSE q[k - w]
  <2>1. /\ s \in Seq(Nat) /\ Len(s) = Len(p) + Len(q)
        /\ \A k \in 1 .. Len(p) + Len(q) : s[k] = IF k <= Len(p) THEN p[k] ELSE q[k - Len(p)]
    BY <1>2, <1>3, <1>5, ConcatProperties
  <2> QED
    BY <1>2, <1>3, <2>1
<1>7. ASSUME NEW k \in 1 .. w + l PROVE s[k] = r[k]
  <2>1. CASE k <= w
    BY <1>2, <1>4, <1>6, <2>1
  <2>2. CASE k > w
    <3>1. k - w \in 1 .. l /\ m + (k - w) - 1 = b + k - 1 /\ ~(k <= w)
      BY <1>a, <2>2
    <3>2. s[k] = q[k - w]
      BY <1>6, <3>1
    <3>3. q[k - w] = m + (k - w) - 1
      BY <1>3, <3>1
    <3> QED
      BY <1>4, <3>1, <3>2, <3>3
  <2> QED
    BY <2>1, <2>2
<1>8. s = r
  BY <1>4, <1>6, <1>7, SeqEqual
<1> QED
  BY <1>1, <1>5, <1>8

\* The bytes of nodes that are joined are the stretch they stand for.
LEMMA FlatBytes ==
  ASSUME NEW c, Joined(c)
  PROVE  FlattenSeq([i \in 1 .. Len(c) |-> NodeBytes(c[i])])
           = Stretch(c[1].beg, NodeEnd(c[Len(c)]))
<1>1. PICK s, n, b : /\ s = [i \in 1 .. Len(c) |-> NodeBytes(c[i])]
                     /\ n = Len(c) /\ b = c[1].beg
  OBVIOUS
<1>2. n \in Nat \ {0} /\ \A i \in 1 .. n : c[i].beg \in Nat /\ c[i].len \in Nat \ {0}
  <2>1. c \in Seq(OutNodes) /\ c # <<>> /\ n = Len(c) /\ \A i \in 1 .. Len(c) : c[i].len > 0
    BY <1>1 DEF Joined
  <2>2. n \in Nat \ {0}
    BY <2>1, EmptySeq
  <2>3. \A i \in 1 .. n : c[i] \in OutNodes
    BY <2>1, ElementOfSeq
  <2>4. \A nd \in OutNodes : nd.beg \in Nat /\ nd.len \in Nat
    BY DEF OutNodes
  <2> QED
    BY <2>1, <2>2, <2>3, <2>4
<1>3. \A i \in 1 .. n - 1 : c[i + 1].beg = NodeEnd(c[i])
  BY <1>1 DEF Joined
<1>4. \A i \in 1 .. n : s[i] = NodeBytes(c[i])
  BY <1>1
<1>5. ASSUME NEW i \in 2 .. n
      PROVE  i - 1 \in 1 .. n /\ i \in 1 .. n /\ c[i].beg = NodeEnd(c[i - 1])
  <2>1. i - 1 \in 1 .. n - 1 /\ (i - 1) + 1 = i /\ i - 1 \in 1 .. n /\ i \in 1 .. n
    BY <1>2
  <2> QED
    BY <1>3, <2>1
<1>6. \A i \in 1 .. n : b <= c[i].beg
  <2> DEFINE Bad == {i \in 1 .. n : ~(b <= c[i].beg)}
  <2> SUFFICES ASSUME Bad # {} PROVE FALSE
    OBVIOUS
  <2>1. Bad \in SUBSET Nat
    BY <1>2
  <2>2. PICK i \in Bad : \A j \in Bad : i <= j
    <3> HIDE DEF Bad
    <3> QED
      BY <2>1, LeastOne
  <2>3. i \in 1 .. n /\ ~(b <= c[i].beg) /\ c[1].beg \in Nat /\ 1 \in 1 .. n
    BY <1>2
  <2>4. i \in 2 .. n /\ i - 1 < i /\ i \in Nat
    BY <1>1, <1>2, <2>3
  <2>5. i - 1 \in 1 .. n /\ c[i].beg = c[i - 1].beg + c[i - 1].len
    BY <1>5, <2>4 DEF NodeEnd
  <2>6. i - 1 \notin Bad
    <3> HIDE DEF Bad
    <3> QED
      BY <2>2, <2>4
  <2>7. b <= c[i - 1].beg
    BY <2>5, <2>6
  <2>8. c[i - 1].beg \in Nat /\ c[i - 1].len \in Nat /\ b \in Nat
    BY <1>1, <1>2, <2>3, <2>5
  <2>9. PICK x \in Nat, y \in Nat : x = c[i - 1].beg /\ y = c[i - 1].len
    BY <2>8
  <2>10. c[i].beg = x + y /\ b <= x
    BY <2>5, <2>7, <2>9
  <2>11. b <= c[i].beg
    BY <2>8, <2>10
  <2> QED
    BY <2>3, <2>11
<1>7. ASSUME NEW i \in 1 .. n
      PROVE  Stretch(b, c[i].beg) \o s[i] = Stretch(b, NodeEnd(c[i]))
  <2>1. PICK m \in Nat, l \in Nat : m = c[i].beg /\ l = c[i].len
    BY <1>2
  <2>2. b \in Nat /\ b <= m
    BY <1>1, <1>2, <1>6, <2>1
  <2>3. s[i] = [k \in 1 .. l |-> m + k - 1] /\ NodeEnd(c[i]) = m + l
    BY <1>4, <2>1 DEF NodeBytes, NodeEnd
  <2>4. Stretch(b, m) \o [k \in 1 .. l |-> m + k - 1] = Stretch(b, m + l)
    BY <2>2, StretchGrows
  <2> QED
    BY <2>1, <2>3, <2>4
<1> DEFINE Is(g) == g = [i \in 1 .. n |-> IF i = 1 THEN s[i] ELSE g[i - 1] \o s[i]]
           G == [i \in 1 .. n |-> Stretch(b, NodeEnd(c[i]))]
<1>8. Is(G)
  <2>1. ASSUME NEW i \in 1 .. n, i = 1
        PROVE  Stretch(b, NodeEnd(c[i])) = s[i]
    <3>1. PICK m \in Nat, l \in Nat : m = c[i].beg /\ l = c[i].len
      BY <1>2
    <3>2. s[i] = [k \in 1 .. l |-> m + k - 1] /\ NodeEnd(c[i]) = m + l /\ b = m
      BY <1>1, <1>4, <2>1, <3>1 DEF NodeBytes, NodeEnd
    <3>3. (m + l) - m = l
      BY <3>1
    <3> QED
      BY <3>2, <3>3 DEF Stretch
  <2>2. ASSUME NEW i \in 1 .. n, i # 1
        PROVE  Stretch(b, NodeEnd(c[i])) = G[i - 1] \o s[i]
    <3>1. i \in 2 .. n
      BY <1>2, <2>2
    <3>2. i - 1 \in 1 .. n /\ c[i].beg = NodeEnd(c[i - 1])
      BY <1>5, <3>1
    <3>3. G[i - 1] = Stretch(b, c[i].beg)
      BY <3>2
    <3> QED
      BY <1>7, <3>3
  <2> HIDE DEF G
  <2>3. \A i \in 1 .. n : Stretch(b, NodeEnd(c[i])) = IF i = 1 THEN s[i] ELSE G[i - 1] \o s[i]
    BY <2>1, <2>2
  <2>4. G = [i \in 1 .. n |-> IF i = 1 THEN s[i] ELSE G[i - 1] \o s[i]]
    BY <2>3 DEF G
  <2> QED
    BY <2>4
<1>9. ASSUME NEW g, Is(g) PROVE g[n] = G[n]
  <2> HIDE DEF G
  <2>1. \A i \in 1 .. n : /\ g[i] = IF i = 1 THEN s[i] ELSE g[i - 1] \o s[i]
                          /\ G[i] = IF i = 1 THEN s[i] ELSE G[i - 1] \o s[i]
    BY <1>8, <1>9
  <2> DEFINE Bad == {i \in 1 .. n : g[i] # G[i]}
  <2>2. Bad = {}
    <3> SUFFICES ASSUME Bad # {} PROVE FALSE
      OBVIOUS
    <3>1. Bad \in SUBSET Nat
      BY <1>2
    <3>2. PICK i \in Bad : \A j \in Bad : i <= j
      <4> HIDE DEF Bad
      <4> QED
        BY <3>1, LeastOne
    <3>3. i \in 1 .. n /\ g[i] # G[i]
      OBVIOUS
    <3>4. i # 1
      BY <2>1, <3>3
    <3>5. i - 1 \in 1 .. n /\ i - 1 < i /\ i \in Nat
      BY <1>2, <3>3, <3>4
    <3>6. i - 1 \notin Bad
      <4> HIDE DEF Bad
      <4> QED
        BY <3>2, <3>5
    <3>7. g[i - 1] = G[i - 1]
      BY <3>5, <3>6
    <3> QED
      BY <2>1, <3>3, <3>4, <3>7
  <2>3. n \in 1 .. n
    BY <1>2
  <2> QED
    BY <2>2, <2>3
<1>10. FlattenSeq(s) = (CHOOSE g : Is(g))[n]
  <2>1. Len(s) = n
    BY <1>1, <1>2
  <2>2. Len(s) # 0
    BY <1>2, <2>1
  <2> QED
    BY <2>1, <2>2 DEF FlattenSeq
<1>11. Is(CHOOSE g : Is(g))
  <2> HIDE DEF Is
  <2> QED
    BY <1>8
<1>12. (CHOOSE g : Is(g))[n] = G[n]
  <2> HIDE DEF Is, G
  <2> QED
    BY <1>9, <1>11
<1>13. G[n] = Stretch(b, NodeEnd(c[n]))
  BY <1>2
<1> QED
  BY <1>1, <1>10, <1>12, <1>13

\* The head and the blocks of a frame are joined, from where it begins to
\* where the next one does.
LEMMA NodesJoined ==
  ASSUME NEW b \in Nat, NEW f \in 1 .. MaxOutFrames, NEW shape \in OutShapes,
         NEW c, c = NodesAt(b, f, shape)
  PROVE  /\ Joined(c) /\ Len(c) = Len(shape) + 1
         /\ c[1].beg = b /\ NodeEnd(c[Len(c)]) = b + BytesOf(shape)
         /\ \A i \in 1 .. Len(c) : /\ c[i].frame = f
                                   /\ c[i].kind = "head" <=> i = 1
                                   /\ c[i].kind = "last" <=> i = Len(c)
<1>1. PICK n, sums : n = Len(shape) /\ sums = BytesTo(shape)
  OBVIOUS
<1>2. /\ n \in Nat \ {0} /\ OutHead \in Nat \ {0} /\ sums[0] = 0
      /\ \A i \in 0 .. n : sums[i] \in Nat
      /\ \A i \in 1 .. n : sums[i] = sums[i - 1] + shape[i] /\ shape[i] \in Nat \ {0}
      /\ BytesOf(shape) = OutHead + sums[n]
  BY <1>1, ShapeBytes, TcpSendAssumption DEF BytesOf
<1>3. PICK h, q : /\ h = <<[frame |-> f, beg |-> b, len |-> OutHead, kind |-> "head"]>>
                  /\ q = [i \in 1 .. n |->
                            [frame |-> f, beg |-> b + OutHead + sums[i - 1], len |-> shape[i],
                             kind |-> IF i = n THEN "last" ELSE "block"]]
  OBVIOUS
<1>4. c = h \o q
  BY <1>1, <1>3 DEF NodesAt
<1>5. h \in Seq(OutNodes) /\ Len(h) = 1
      /\ h[1] = [frame |-> f, beg |-> b, len |-> OutHead, kind |-> "head"]
  <2>1. [frame |-> f, beg |-> b, len |-> OutHead, kind |-> "head"] \in OutNodes
    BY <1>2 DEF OutNodes
  <2> QED
    BY <1>3, <2>1
<1>6. q \in Seq(OutNodes) /\ Len(q) = n
      /\ \A i \in 1 .. n : /\ q[i].frame = f /\ q[i].beg = b + OutHead + sums[i - 1]
                           /\ q[i].len = shape[i]
                           /\ q[i].kind = IF i = n THEN "last" ELSE "block"
  <2>1. \A i \in 1 .. n : q[i] = [frame |-> f, beg |-> b + OutHead + sums[i - 1],
                                  len |-> shape[i], kind |-> IF i = n THEN "last" ELSE "block"]
    BY <1>3
  <2>2. ASSUME NEW i \in 1 .. n PROVE q[i] \in OutNodes
    <3>1. i - 1 \in 0 .. n
      BY <1>2
    <3>2. PICK x : x = sums[i - 1]
      OBVIOUS
    <3>3. b + OutHead + x \in Nat /\ shape[i] \in Nat
      BY <1>2, <3>1, <3>2
    <3>4. q[i] = [frame |-> f, beg |-> b + OutHead + x,
                  len |-> shape[i], kind |-> IF i = n THEN "last" ELSE "block"]
      BY <2>1, <3>2
    <3> QED
      BY <3>3, <3>4 DEF OutNodes
  <2>3. q \in [1 .. n -> OutNodes]
    BY <1>3, <2>2
  <2>4. q \in Seq(OutNodes) /\ Len(q) = n
    BY <1>2, <2>3
  <2> QED
    BY <2>1, <2>4
<1>7. /\ c \in Seq(OutNodes) /\ Len(c) = n + 1
      /\ c[1] = [frame |-> f, beg |-> b, len |-> OutHead, kind |-> "head"]
      /\ \A i \in 2 .. n + 1 : c[i] = q[i - 1] /\ i - 1 \in 1 .. n
  <2>1. /\ c \in Seq(OutNodes) /\ Len(c) = Len(h) + Len(q)
        /\ \A i \in 1 .. Len(h) + Len(q) : c[i] = IF i <= Len(h) THEN h[i] ELSE q[i - Len(h)]
    <3>1. h \in Seq(OutNodes) /\ q \in Seq(OutNodes)
      BY <1>5, <1>6
    <3> QED
      BY ONLY <1>4, <3>1, ConcatProperties
  <2>2. Len(c) = n + 1 /\ \A i \in 1 .. n + 1 : c[i] = IF i <= 1 THEN h[i] ELSE q[i - 1]
    <3>1. Len(h) = 1 /\ Len(q) = n /\ n \in Nat /\ 1 + n = n + 1
      BY <1>2, <1>5, <1>6
    <3> QED
      BY ONLY <2>1, <3>1
  <2>3. c[1] = h[1]
    BY <1>2, <2>2
  <2>4. ASSUME NEW i \in 2 .. n + 1 PROVE c[i] = q[i - 1] /\ i - 1 \in 1 .. n
    BY <1>2, <2>2
  <2> QED
    BY <1>5, <2>1, <2>2, <2>3, <2>4
<1>8. ASSUME NEW i \in 1 .. n + 1
      PROVE  /\ c[i].frame = f /\ c[i].len \in Nat \ {0}
             /\ c[i].kind = "head" <=> i = 1
             /\ c[i].kind = "last" <=> i = n + 1
  <2>1. CASE i = 1
    BY <1>2, <1>7, <2>1
  <2>2. CASE i # 1
    <3>1. i \in 2 .. n + 1 /\ i - 1 \in 1 .. n
      BY <1>2, <2>2
    <3>2. c[i] = q[i - 1]
      BY <1>7, <3>1
    <3>3. /\ q[i - 1].frame = f /\ q[i - 1].len = shape[i - 1]
          /\ q[i - 1].kind = IF i - 1 = n THEN "last" ELSE "block"
      BY <1>6, <3>1
    <3>4. shape[i - 1] \in Nat \ {0} /\ (i - 1 = n <=> i = n + 1)
      BY <1>2, <3>1
    <3> QED
      BY <2>2, <3>2, <3>3, <3>4
  <2> QED
    BY <2>1, <2>2
<1>9. ASSUME NEW i \in 1 .. n + 1
      PROVE  NodeEnd(c[i]) = b + OutHead + sums[i - 1]
  <2>1. CASE i = 1
    BY <1>2, <1>7, <2>1 DEF NodeEnd
  <2>2. CASE i # 1
    <3>1. PICK j \in 1 .. n : j = i - 1 /\ i \in 2 .. n + 1
      BY <1>2, <2>2
    <3>2. c[i].beg = b + OutHead + sums[j - 1] /\ c[i].len = shape[j]
      BY <1>6, <1>7, <3>1
    <3>3. sums[j] = sums[j - 1] + shape[j] /\ sums[j - 1] \in Nat /\ shape[j] \in Nat
      <4>1. j - 1 \in 0 .. n
        BY <1>2
      <4> QED
        BY <1>2, <4>1
    <3> QED
      BY <1>2, <3>1, <3>2, <3>3 DEF NodeEnd
  <2> QED
    BY <2>1, <2>2
<1>10. ASSUME NEW i \in 1 .. Len(c) - 1 PROVE c[i + 1].beg = NodeEnd(c[i])
  <2>1. i \in 1 .. n /\ i + 1 \in 2 .. n + 1 /\ i \in 1 .. n + 1 /\ (i + 1) - 1 = i
    BY <1>2, <1>7
  <2>2. c[i + 1].beg = b + OutHead + sums[i - 1]
    BY <1>6, <1>7, <2>1
  <2> QED
    BY <1>9, <2>1, <2>2
<1>11. Joined(c)
  <2>1. c # <<>>
    BY <1>2, <1>7
  <2>2. \A i \in 1 .. Len(c) : c[i].len > 0
    BY <1>7, <1>8
  <2> QED
    BY <1>7, <1>10, <2>1, <2>2 DEF Joined
<1>12. c[1].beg = b /\ NodeEnd(c[Len(c)]) = b + BytesOf(shape)
  <2>1. n + 1 \in 1 .. n + 1 /\ (n + 1) - 1 = n
    BY <1>2
  <2>2. NodeEnd(c[n + 1]) = b + OutHead + sums[n]
    BY <1>9, <2>1
  <2>3. sums[n] \in Nat
    BY <1>2
  <2> QED
    BY <1>2, <1>7, <2>2, <2>3
<1> QED
  BY <1>1, <1>7, <1>8, <1>11, <1>12

\* A set of nodes that holds one at most has one member if it holds it.
LEMMA OneAtMost ==
  ASSUME NEW S, NEW x, S \subseteq {x}
  PROVE  Cardinality(S) = IF x \in S THEN 1 ELSE 0
<1>1. CASE S = {}
  BY <1>1, FS_EmptySet
<1>2. CASE S = {x}
  BY <1>2, FS_Singleton
<1> QED
  BY <1>1, <1>2

-----------------------------------------------------------------------------
(* The sending side: what holds between its steps                          *)

\* How many frames SendData has done with.
Done == Len(outFrames) - (IF outPc = "send" THEN 1 ELSE 0)

\* SendData has one frame in the chain, and leaves none.
ChainIs ==
  /\ Len(outFrames) <= MaxOutFrames
  /\ outPc = "send" => /\ outFrames # <<>> /\ connected /\ heads > 0
                       /\ chain = FrameNodes(Len(outFrames), outFrames[Len(outFrames)])
  /\ outPc # "send" => chain = <<>>
  /\ smooth => connected

\* The bytes on the wire are of the frames that are done with.
WireIs == WireInOrder /\ \A i \in DOMAIN wire : wire[i] < HandedBytes(Done)

\* So is the memory that was given back.
HandedIs ==
  \A f \in 1 .. MaxOutFrames : handed[f] <= 1 /\ (f > Done => handed[f] = 0)

\* What there is as long as the socket takes everything.
SmoothIs ==
  smooth /\ (\A i \in DOMAIN outFrames : Len(outFrames[i]) < MaxIov)
    => /\ wire = [k \in 1 .. HandedBytes(Done) |-> k - 1]
       /\ \A i \in 1 .. Done : handed[i] = 1
       /\ heads = IF outPc = "send" THEN 1 ELSE 0

OutInv == OutTypeOK /\ ChainIs /\ WireIs /\ HandedIs /\ SmoothIs

\* The chain in terms of the frames handed to SendData.
LEMMA ChainOfFrame ==
  ASSUME OutInv, outPc = "send"
  PROVE  \E F \in 1 .. MaxOutFrames, B \in Nat, shape \in OutShapes :
           /\ F = Len(outFrames) /\ Done = F - 1 /\ F - 1 \in 0 .. F
           /\ B = HandedBytes(F - 1) /\ HandedBytes(F) = B + BytesOf(shape)
           /\ shape = outFrames[F] /\ BytesOf(shape) \in Nat \ {0}
           /\ Joined(chain) /\ Len(chain) = Len(shape) + 1
           /\ chain[1].beg = B /\ NodeEnd(chain[Len(chain)]) = B + BytesOf(shape)
           /\ \A i \in 1 .. Len(chain) : /\ chain[i].frame = F
                                         /\ chain[i].kind = "head" <=> i = 1
                                         /\ chain[i].kind = "last" <=> i = Len(chain)
<1>1. outFrames \in Seq(OutShapes) /\ outFrames # <<>> /\ Len(outFrames) <= MaxOutFrames
      /\ chain = FrameNodes(Len(outFrames), outFrames[Len(outFrames)])
  BY DEF OutInv, OutTypeOK, ChainIs
<1>2. PICK F : F = Len(outFrames)
  OBVIOUS
<1>3. F \in Nat \ {0} /\ MaxOutFrames \in Nat
  BY <1>1, <1>2, EmptySeq, TcpSendAssumption
<1>4. F \in 1 .. MaxOutFrames /\ F - 1 \in 0 .. F /\ F \in 1 .. Len(outFrames) /\ Done = F - 1
  BY <1>1, <1>2, <1>3 DEF Done
<1>5. PICK shape, B : shape = outFrames[F] /\ B = HandedBytes(F - 1)
  OBVIOUS
<1>6. \A i : HandedBytes(i) = HandedOf(outFrames, i)
  BY DEF HandedBytes, HandedOf
<1>7. shape \in OutShapes /\ B \in Nat /\ HandedBytes(F) = B + BytesOf(shape)
      /\ BytesOf(shape) \in Nat \ {0}
  <2>1. HandedOf(outFrames, F) = HandedOf(outFrames, F - 1) + BytesOf(outFrames[F])
        /\ BytesOf(outFrames[F]) \in Nat \ {0} /\ outFrames[F] \in OutShapes
    BY <1>1, <1>4, HandedSteps
  <2>2. HandedOf(outFrames, F - 1) \in Nat
    BY <1>1, <1>2, <1>4, HandedSteps
  <2> QED
    BY <1>5, <1>6, <2>1, <2>2
<1>8. chain = NodesAt(B, F, shape)
  BY <1>1, <1>2, <1>5 DEF FrameNodes, NodesAt
<1>9. /\ Joined(chain) /\ Len(chain) = Len(shape) + 1
      /\ chain[1].beg = B /\ NodeEnd(chain[Len(chain)]) = B + BytesOf(shape)
      /\ \A i \in 1 .. Len(chain) : /\ chain[i].frame = F
                                    /\ chain[i].kind = "head" <=> i = 1
                                    /\ chain[i].kind = "last" <=> i = Len(chain)
  <2>1. PICK c : c = chain
    OBVIOUS
  <2>2. B \in Nat /\ F \in 1 .. MaxOutFrames /\ shape \in OutShapes /\ c = NodesAt(B, F, shape)
    BY <1>4, <1>7, <1>8, <2>1
  <2>3. /\ Joined(c) /\ Len(c) = Len(shape) + 1
        /\ c[1].beg = B /\ NodeEnd(c[Len(c)]) = B + BytesOf(shape)
        /\ \A i \in 1 .. Len(c) : /\ c[i].frame = F
                                  /\ c[i].kind = "head" <=> i = 1
                                  /\ c[i].kind = "last" <=> i = Len(c)
    BY <2>2, NodesJoined
  <2> QED
    BY <2>1, <2>3
<1> QED
  BY <1>2, <1>4, <1>5, <1>7, <1>9

\* ClearSndChain with the nodes of the frame in the chain, sent or not: its
\* head and its memory are freed once if at all, and both if all was sent.
LEMMA Cleared ==
  ASSUME OutInv, outPc = "send", NEW q, NEW all \in BOOLEAN, ClearSndChain(q, all),
         Len(q) = Len(chain), DOMAIN q = 1 .. Len(q),
         \A i \in 1 .. Len(q) : q[i].frame = chain[i].frame /\ q[i].kind = chain[i].kind
  PROVE  /\ chain' = <<>> /\ heads' \in Nat
         /\ handed' \in [1 .. MaxOutFrames -> Nat]
         /\ \A f \in 1 .. MaxOutFrames :
              /\ f # Len(outFrames) => handed'[f] = handed[f]
              /\ handed'[f] <= 1
         /\ (\A i \in 1 .. Len(q) : q[i].len = 0) =>
              heads' = heads - 1 /\ handed'[Len(outFrames)] = 1
<1>1. PICK F \in 1 .. MaxOutFrames, B \in Nat, shape \in OutShapes :
        /\ F = Len(outFrames) /\ Done = F - 1
        /\ Joined(chain) /\ Len(chain) = Len(shape) + 1
        /\ \A i \in 1 .. Len(chain) : /\ chain[i].frame = F
                                      /\ chain[i].kind = "head" <=> i = 1
                                      /\ chain[i].kind = "last" <=> i = Len(chain)
  BY ChainOfFrame
<1>2. PICK n : n = Len(q)
  OBVIOUS
<1>3. n \in Nat \ {0} /\ 1 \in 1 .. n /\ n \in 1 .. n /\ n = Len(chain)
  BY <1>1, <1>2, ShapeBytes
<1>4. \A i \in 1 .. n : /\ q[i].frame = F
                        /\ q[i].kind = "head" <=> i = 1
                        /\ q[i].kind = "last" <=> i = n
  BY <1>1, <1>2
<1>5. PICK S : S = {nd \in ToSet(q) : all \/ nd.len = 0}
  OBVIOUS
<1>6. /\ heads' = heads - Cardinality({nd \in S : nd.kind = "head"})
      /\ handed' = [f \in DOMAIN handed |->
                      handed[f] + Cardinality({nd \in S : nd.kind = "last" /\ nd.frame = f})]
      /\ chain' = <<>>
  BY <1>5 DEF ClearSndChain, FreeNodes
<1>7. \A nd \in S : \E i \in 1 .. n : nd = q[i]
  BY <1>2, <1>5 DEF ToSet
<1>8. heads \in Nat \ {0} /\ handed \in [1 .. MaxOutFrames -> Nat] /\ handed[F] = 0
      /\ \A f \in 1 .. MaxOutFrames : handed[f] <= 1
  <2>1. heads \in Nat /\ heads > 0 /\ handed \in [1 .. MaxOutFrames -> Nat]
    BY DEF OutInv, OutTypeOK, ChainIs
  <2>2. F > Done
    BY <1>1
  <2> QED
    BY <2>1, <2>2 DEF OutInv, HandedIs
<1>9. Cardinality({nd \in S : nd.kind = "head"}) = IF q[1] \in S THEN 1 ELSE 0
  <2>1. PICK T : T = {nd \in S : nd.kind = "head"}
    OBVIOUS
  <2>2. ASSUME NEW nd \in T PROVE nd = q[1]
    <3>1. PICK i \in 1 .. n : nd = q[i]
      BY <1>7, <2>1
    <3>2. q[i].kind = "head"
      BY <2>1, <3>1
    <3> QED
      BY <1>4, <3>1, <3>2
  <2>3. Cardinality(T) = IF q[1] \in T THEN 1 ELSE 0
    BY <2>2, OneAtMost
  <2>4. q[1] \in T <=> q[1] \in S
    BY <1>3, <1>4, <2>1
  <2> QED
    BY <2>1, <2>3, <2>4
<1>10. Cardinality({nd \in S : nd.kind = "last" /\ nd.frame = F}) = IF q[n] \in S THEN 1 ELSE 0
  <2>1. PICK T : T = {nd \in S : nd.kind = "last" /\ nd.frame = F}
    OBVIOUS
  <2>2. ASSUME NEW nd \in T PROVE nd = q[n]
    <3>1. PICK i \in 1 .. n : nd = q[i]
      BY <1>7, <2>1
    <3>2. q[i].kind = "last"
      BY <2>1, <3>1
    <3> QED
      BY <1>4, <3>1, <3>2
  <2>3. Cardinality(T) = IF q[n] \in T THEN 1 ELSE 0
    BY <2>2, OneAtMost
  <2>4. q[n] \in T <=> q[n] \in S
    <3>1. q[n].kind = "last" /\ q[n].frame = F
      BY <1>3, <1>4
    <3> QED
      BY <2>1, <3>1
  <2> QED
    BY <2>1, <2>3, <2>4
<1>11. ASSUME NEW f \in 1 .. MaxOutFrames, f # F
       PROVE  handed'[f] = handed[f]
  <2>1. {nd \in S : nd.kind = "last" /\ nd.frame = f} = {}
    <3>1. ASSUME NEW nd \in S PROVE nd.frame # f
      BY <1>4, <1>7, <1>11
    <3> QED
      BY <3>1
  <2>2. Cardinality({nd \in S : nd.kind = "last" /\ nd.frame = f}) = 0
    BY <2>1, FS_EmptySet
  <2>3. handed'[f] = handed[f] + 0 /\ handed[f] \in Nat
    BY <1>6, <1>8, <2>2
  <2> QED
    BY <2>3
<1>12. handed'[F] = IF q[n] \in S THEN 1 ELSE 0
  <2>1. handed'[F] = handed[F] + Cardinality({nd \in S : nd.kind = "last" /\ nd.frame = F})
    BY <1>6, <1>8
  <2> QED
    BY <1>8, <1>10, <2>1
<1>13. handed' \in [1 .. MaxOutFrames -> Nat]
  <2>1. \A f \in 1 .. MaxOutFrames : handed'[f] \in Nat
    BY <1>8, <1>11, <1>12
  <2>2. handed' = [f \in 1 .. MaxOutFrames |-> handed'[f]]
    BY <1>6, <1>8
  <2> QED
    BY <2>1, <2>2
<1>14. ASSUME \A i \in 1 .. Len(q) : q[i].len = 0
       PROVE  heads' = heads - 1 /\ handed'[F] = 1
  <2>1. q[1] \in S /\ q[n] \in S
    BY <1>2, <1>3, <1>5, <1>14 DEF ToSet
  <2> QED
    BY <1>6, <1>9, <1>12, <2>1
<1>15. heads' \in Nat
  BY <1>6, <1>8, <1>9
<1>16. \A f \in 1 .. MaxOutFrames : handed'[f] <= 1
  BY <1>8, <1>11, <1>12
<1> QED
  BY <1>1, <1>6, <1>11, <1>13, <1>14, <1>15, <1>16

\* One frame more, and what of it is on the wire.
LEMMA SendStarts == OutInit => OutInv
<1> SUFFICES ASSUME OutInit PROVE OutInv
  OBVIOUS
<1>1. /\ outPc = "idle" /\ outFrames = <<>> /\ chain = <<>> /\ connected = TRUE
      /\ wire = <<>> /\ handed = [f \in 1 .. MaxOutFrames |-> 0]
      /\ heads = 0 /\ smooth = TRUE
  BY DEF OutInit
<1>2. Len(outFrames) = 0 /\ Len(wire) = 0 /\ Done = 0 /\ MaxOutFrames \in Nat
  BY <1>1, TcpSendAssumption DEF Done
<1>3. HandedBytes(0) = 0
  <2>1. outFrames \in Seq(OutShapes)
    BY <1>1
  <2>2. HandedOf(outFrames, 0) = 0
    BY <2>1, HandedSteps
  <2> QED
    BY <2>2 DEF HandedBytes, HandedOf
<1>4. OutTypeOK
  BY <1>1 DEF OutTypeOK
<1>5. ChainIs
  BY <1>1, <1>2 DEF ChainIs
<1>6. WireIs
  BY <1>1, <1>2 DEF WireIs, WireInOrder
<1>7. HandedIs
  BY <1>1 DEF HandedIs
<1>8. SmoothIs
  <2>1. wire = [k \in 1 .. HandedBytes(Done) |-> k - 1]
    <3>1. [k \in 1 .. 0 |-> k - 1] = <<>>
      OBVIOUS
    <3> QED
      BY <1>1, <1>2, <1>3, <3>1
  <2> QED
    BY <1>1, <1>2, <2>1 DEF SmoothIs
<1> QED
  BY <1>4, <1>5, <1>6, <1>7, <1>8 DEF OutInv

\* The frame is put in the chain, or there is no socket.
LEMMA PushStep ==
  ASSUME OutInv, NEW shape \in OutShapes, PushFrame(shape)
  PROVE  OutInv'
<1>1. /\ outPc = "idle" /\ Len(outFrames) < MaxOutFrames
      /\ outFrames' = Append(outFrames, shape)
      /\ UNCHANGED <<connected, wire, handed, smooth>>
      /\ connected => /\ chain' = chain \o FrameNodes(Len(outFrames) + 1, shape)
                      /\ heads' = heads + 1 /\ outPc' = "send"
      /\ ~connected => outPc' = "crash" /\ UNCHANGED <<chain, heads>>
  BY DEF PushFrame
<1>2. /\ OutTypeOK /\ outFrames \in Seq(OutShapes) /\ chain = <<>> /\ MaxOutFrames \in Nat
      /\ connected \in BOOLEAN
  BY <1>1, TcpSendAssumption DEF OutInv, OutTypeOK, ChainIs
<1>3. PICK n \in Nat : n = Len(outFrames)
  BY <1>2
<1>4. /\ outFrames' \in Seq(OutShapes) /\ Len(outFrames') = n + 1 /\ outFrames' # <<>>
      /\ outFrames'[n + 1] = shape /\ \A i \in 1 .. n : outFrames'[i] = outFrames[i]
      /\ n + 1 \in 1 .. MaxOutFrames
  <2>1. /\ outFrames' \in Seq(OutShapes) /\ Len(outFrames') = n + 1
        /\ outFrames'[n + 1] = shape /\ \A i \in 1 .. n : outFrames'[i] = outFrames[i]
    BY <1>1, <1>2, <1>3, AppendProperties
  <2> QED
    BY <1>1, <1>2, <1>3, <2>1
<1>5. ASSUME NEW i \in 0 .. n PROVE HandedBytes(i)' = HandedBytes(i)
  <2>1. HandedOf(Append(outFrames, shape), i) = HandedOf(outFrames, i)
    BY <1>2, <1>3, HandedStays
  <2> QED
    BY <1>1, <2>1 DEF HandedBytes, HandedOf
<1>6. Done = n /\ n \in 0 .. n /\ (connected => Done' = n) /\ (~connected => Done' = n + 1)
  BY <1>1, <1>3, <1>4 DEF Done
<1>7. HandedBytes(n) \in Nat /\ HandedBytes(n + 1)' \in Nat /\ HandedBytes(n) <= HandedBytes(n + 1)'
  <2>1. PICK p : p = outFrames'
    OBVIOUS
  <2>2. n + 1 \in 1 .. Len(p) /\ n \in 0 .. Len(p) /\ (n + 1) - 1 = n /\ p \in Seq(OutShapes)
    BY <1>4, <2>1
  <2>3. HandedOf(p, n + 1) = HandedOf(p, n) + BytesOf(p[n + 1]) /\ BytesOf(p[n + 1]) \in Nat
        /\ HandedOf(p, n) \in Nat
    BY <2>2, HandedSteps
  <2>4. HandedBytes(n + 1)' = HandedOf(p, n + 1) /\ HandedBytes(n)' = HandedOf(p, n)
    BY <2>1 DEF HandedBytes, HandedOf
  <2> QED
    BY <1>5, <1>6, <2>3, <2>4
<1>8. FrameNodes(n + 1, shape)' = FrameNodes(n + 1, shape)
  <2>1. (n + 1) - 1 = n
    BY <1>3
  <2> QED
    BY <1>5, <1>6, <2>1 DEF FrameNodes
<1>9. connected => chain' = FrameNodes(n + 1, shape) /\ chain' \in Seq(OutNodes)
  <2>1. PICK c : c = FrameNodes(n + 1, shape)
    OBVIOUS
  <2>2. PICK B \in Nat : B = HandedBytes(n)
    BY <1>7
  <2>3. c = NodesAt(B, n + 1, shape)
    <3>1. (n + 1) - 1 = n
      BY <1>3
    <3> QED
      BY <2>1, <2>2, <3>1 DEF FrameNodes, NodesAt
  <2>4. Joined(c)
    BY <1>4, <2>3, NodesJoined
  <2>5. c \in Seq(OutNodes)
    BY <2>4 DEF Joined
  <2>6. <<>> \o c = c
    BY <2>5, ConcatEmptySeq
  <2> QED
    BY <1>1, <1>2, <1>3, <2>1, <2>5, <2>6
<1>10. OutTypeOK'
  <2>1. chain' \in Seq(OutNodes) /\ heads' \in Nat /\ outPc' \in {"idle", "send", "crash"}
    <3>1. heads \in Nat /\ <<>> \in Seq(OutNodes)
      BY <1>2 DEF OutTypeOK
    <3>2. CASE connected
      BY <1>1, <1>9, <3>1, <3>2
    <3>3. CASE ~connected
      BY <1>1, <1>2, <3>1, <3>3
    <3> QED
      BY <3>2, <3>3
  <2> QED
    BY <1>1, <1>2, <1>4, <2>1 DEF OutTypeOK, OutNodes
<1>11. ChainIs'
  <2>1. Len(outFrames') <= MaxOutFrames
    BY <1>2, <1>3, <1>4
  <2>2. CASE connected
    <3>1. heads' > 0 /\ outPc' = "send" /\ connected'
      BY <1>1, <1>2, <2>2 DEF OutTypeOK
    <3>2. chain' = FrameNodes(Len(outFrames), outFrames[Len(outFrames)])'
      BY <1>4, <1>8, <1>9, <2>2
    <3> QED
      BY <1>4, <2>1, <3>1, <3>2 DEF ChainIs
  <2>3. CASE ~connected
    BY <1>1, <1>2, <2>1, <2>3 DEF ChainIs, OutInv
  <2> QED
    BY <2>2, <2>3
<1>12. WireIs'
  <2>1. \A i \in DOMAIN wire : wire[i] < HandedBytes(n)
    BY <1>6 DEF OutInv, WireIs
  <2>2. ASSUME NEW i \in DOMAIN wire PROVE wire[i] < HandedBytes(Done)'
    <3>1. wire[i] \in Nat /\ wire[i] < HandedBytes(n)
      <4>1. wire \in Seq(Nat)
        BY <1>2 DEF OutTypeOK
      <4> QED
        BY <2>1, <2>2, <4>1
    <3>2. CASE connected
      BY <1>5, <1>6, <3>1, <3>2
    <3>3. CASE ~connected
      <4>1. HandedBytes(Done)' = HandedBytes(n + 1)'
        BY <1>6, <3>3
      <4>2. PICK x \in Nat, y \in Nat : x = HandedBytes(n) /\ y = HandedBytes(n + 1)'
        BY <1>7
      <4>3. x <= y /\ wire[i] < x
        BY <1>7, <3>1, <4>2
      <4> QED
        BY <3>1, <4>1, <4>2, <4>3
    <3> QED
      BY <3>2, <3>3
  <2> QED
    BY <1>1, <2>2 DEF OutInv, WireIs, WireInOrder
<1>13. HandedIs'
  <2>1. \A f \in 1 .. MaxOutFrames : handed[f] <= 1 /\ (f > n => handed[f] = 0)
    BY <1>6 DEF OutInv, HandedIs
  <2>2. ASSUME NEW f \in 1 .. MaxOutFrames, f > Done' PROVE f > n
    BY <1>2, <1>6, <2>2
  <2> QED
    BY <1>1, <2>1, <2>2 DEF HandedIs
<1>14. SmoothIs'
  <2> SUFFICES ASSUME smooth', \A i \in DOMAIN outFrames' : Len(outFrames'[i]) < MaxIov
               PROVE  /\ wire' = [k \in 1 .. HandedBytes(Done)' |-> k - 1]
                      /\ \A i \in 1 .. Done' : handed'[i] = 1
                      /\ heads' = IF outPc' = "send" THEN 1 ELSE 0
    BY DEF SmoothIs
  <2>1. smooth /\ connected
    BY <1>1 DEF OutInv, ChainIs
  <2>2. \A i \in DOMAIN outFrames : Len(outFrames[i]) < MaxIov
    <3>1. DOMAIN outFrames = 1 .. n /\ DOMAIN outFrames' = 1 .. n + 1
      BY <1>2, <1>3, <1>4
    <3>2. \A i \in 1 .. n : i \in 1 .. n + 1
      OBVIOUS
    <3> QED
      BY <1>4, <3>1, <3>2
  <2>3. /\ wire = [k \in 1 .. HandedBytes(n) |-> k - 1]
        /\ \A i \in 1 .. n : handed[i] = 1 /\ heads = 0
    BY <1>1, <1>6, <2>1, <2>2 DEF OutInv, SmoothIs
  <2>4. heads = 0
    BY <1>1, <2>1, <2>2 DEF OutInv, SmoothIs
  <2>5. HandedBytes(Done)' = HandedBytes(n)
    BY <1>5, <1>6, <2>1
  <2> QED
    BY <1>1, <1>6, <2>1, <2>3, <2>4, <2>5
<1> QED
  BY <1>10, <1>11, <1>12, <1>13, <1>14 DEF OutInv

\* What sendmsg is given: the bytes of the frame from its first on.
LEMMA IovIs ==
  ASSUME OutInv, outPc = "send"
  PROVE  \E B \in Nat, m \in Nat :
           /\ B = HandedBytes(Done) /\ IovBytes = Stretch(B, B + m)
           /\ B + m <= HandedBytes(Len(outFrames))
           /\ Len(outFrames[Len(outFrames)]) < MaxIov =>
                /\ B + m = HandedBytes(Len(outFrames)) /\ Iov = chain
                /\ \A i \in 1 .. Len(chain) : chain[i].len <= m
<1>1. PICK F \in 1 .. MaxOutFrames, B \in Nat, shape \in OutShapes :
        /\ F = Len(outFrames) /\ Done = F - 1
        /\ B = HandedBytes(F - 1) /\ HandedBytes(F) = B + BytesOf(shape)
        /\ shape = outFrames[F] /\ BytesOf(shape) \in Nat \ {0}
        /\ Joined(chain) /\ Len(chain) = Len(shape) + 1
        /\ chain[1].beg = B /\ NodeEnd(chain[Len(chain)]) = B + BytesOf(shape)
  BY ChainOfFrame
<1>2. PICK c : c = chain
  OBVIOUS
<1>3. c \in Seq(OutNodes) /\ c # <<>> /\ (\A i \in 1 .. Len(c) : c[i].len > 0)
      /\ \A i \in 1 .. Len(c) - 1 : c[i + 1].beg = NodeEnd(c[i])
  BY <1>1, <1>2 DEF Joined
<1>4. Len(c) \in Nat \ {0} /\ MaxIov \in Nat \ {0} /\ Len(shape) \in Nat
  BY <1>3, EmptySeq, TcpSendAssumption, ShapeBytes
<1>5. \A i \in 1 .. Len(c) : c[i].beg \in Nat /\ c[i].len \in Nat \ {0}
  <2>1. \A i \in 1 .. Len(c) : c[i] \in OutNodes
    BY <1>3, ElementOfSeq
  <2>2. \A nd \in OutNodes : nd.beg \in Nat /\ nd.len \in Nat
    BY DEF OutNodes
  <2> QED
    BY <1>3, <2>1, <2>2
<1>6. ASSUME NEW i \in 1 .. Len(c), NEW j \in 1 .. Len(c), i <= j
      PROVE  NodeEnd(c[i]) <= NodeEnd(c[j]) /\ B <= c[j].beg
  <2> DEFINE Bad == {k \in i .. Len(c) : ~(NodeEnd(c[i]) <= NodeEnd(c[k]))}
             Low == {k \in 1 .. Len(c) : ~(B <= c[k].beg)}
  <2>0. \A k \in 1 .. Len(c) : c[k].beg \in Nat /\ c[k].len \in Nat /\ NodeEnd(c[k]) \in Nat
                               /\ c[k].beg <= NodeEnd(c[k])
    BY <1>5 DEF NodeEnd
  <2>1. Bad = {}
    <3> SUFFICES ASSUME Bad # {} PROVE FALSE
      OBVIOUS
    <3>1. Bad \in SUBSET Nat
      BY <1>4
    <3>2. PICK k \in Bad : \A x \in Bad : k <= x
      <4> HIDE DEF Bad
      <4> QED
        BY <3>1, LeastOne
    <3>3. k \in i .. Len(c) /\ ~(NodeEnd(c[i]) <= NodeEnd(c[k])) /\ NodeEnd(c[i]) \in Nat
      BY <2>0
    <3>4. k # i
      BY <3>3
    <3>5. k - 1 \in i .. Len(c) /\ k - 1 < k /\ k \in Nat /\ k - 1 \in 1 .. Len(c) - 1
          /\ (k - 1) + 1 = k /\ k \in 1 .. Len(c) /\ k - 1 \in 1 .. Len(c)
      BY <1>4, <3>3, <3>4
    <3>6. k - 1 \notin Bad
      <4> HIDE DEF Bad
      <4> QED
        BY <3>2, <3>5
    <3>7. NodeEnd(c[i]) <= NodeEnd(c[k - 1]) /\ c[k].beg = NodeEnd(c[k - 1])
      BY <1>3, <3>5, <3>6
    <3>8. c[k].beg <= NodeEnd(c[k]) /\ NodeEnd(c[k]) \in Nat /\ c[k].beg \in Nat
      BY <2>0, <3>5
    <3> QED
      BY <3>3, <3>7, <3>8
  <2>2. Low = {}
    <3> SUFFICES ASSUME Low # {} PROVE FALSE
      OBVIOUS
    <3>1. Low \in SUBSET Nat
      BY <1>4
    <3>2. PICK k \in Low : \A x \in Low : k <= x
      <4> HIDE DEF Low
      <4> QED
        BY <3>1, LeastOne
    <3>3. k \in 1 .. Len(c) /\ ~(B <= c[k].beg) /\ c[1].beg = B
      BY <1>1, <1>2
    <3>4. k # 1
      BY <3>3
    <3>5. k - 1 < k /\ k \in Nat /\ k - 1 \in 1 .. Len(c) - 1
          /\ (k - 1) + 1 = k /\ k \in 1 .. Len(c) /\ k - 1 \in 1 .. Len(c)
      BY <1>4, <3>3, <3>4
    <3>6. k - 1 \notin Low
      <4> HIDE DEF Low
      <4> QED
        BY <3>2, <3>5
    <3>7. B <= c[k - 1].beg /\ c[k].beg = NodeEnd(c[k - 1])
      BY <1>3, <3>5, <3>6
    <3>8. c[k - 1].beg <= NodeEnd(c[k - 1]) /\ NodeEnd(c[k - 1]) \in Nat /\ c[k - 1].beg \in Nat
      BY <2>0, <3>5
    <3> QED
      BY <3>3, <3>7, <3>8
  <2>3. j \in i .. Len(c)
    BY <1>4, <1>6
  <2> QED
    BY <2>1, <2>2, <2>3
<1>7. PICK n \in 1 .. Len(c) : n = IF Len(c) < MaxIov THEN Len(c) ELSE MaxIov
  BY <1>4
<1>8. PICK d : d = SubSeq(c, 1, n)
  OBVIOUS
<1>9. Iov = d
  BY <1>2, <1>7, <1>8 DEF Iov
<1>10. /\ d \in Seq(OutNodes) /\ Len(d) = n /\ \A i \in 1 .. n : d[i] = c[i]
       /\ n = Len(c) => d = c
  <2>1. n \in Nat /\ 1 <= n /\ n <= Len(c)
    BY <1>4
  <2>2. d \in Seq(OutNodes) /\ Len(d) = n /\ \A i \in 1 .. n : d[i] = c[i]
    BY <1>3, <1>4, <1>8, <2>1
  <2>3. n = Len(c) => d = c
    BY <1>3, <2>2, SeqEqual
  <2> QED
    BY <2>2, <2>3
<1>11. Joined(d)
  <2>1. d # <<>> /\ \A i \in 1 .. n : i \in 1 .. Len(c)
    BY <1>4, <1>10
  <2>2. \A i \in 1 .. n - 1 : i \in 1 .. Len(c) - 1 /\ i \in 1 .. n /\ i + 1 \in 1 .. n
    BY <1>4
  <2>3. ASSUME NEW i \in 1 .. Len(d) - 1 PROVE d[i + 1].beg = NodeEnd(d[i])
    BY <1>3, <1>10, <2>2
  <2>4. \A i \in 1 .. Len(d) : d[i].len > 0
    BY <1>3, <1>10, <2>1
  <2> QED
    BY <1>10, <2>1, <2>3, <2>4 DEF Joined
<1>12. IovBytes = Stretch(B, NodeEnd(c[n]))
  <2>1. FlattenSeq([i \in 1 .. Len(d) |-> NodeBytes(d[i])]) = Stretch(d[1].beg, NodeEnd(d[Len(d)]))
    BY <1>11, FlatBytes
  <2>2. d[1].beg = B /\ NodeEnd(d[Len(d)]) = NodeEnd(c[n])
    <3>1. 1 \in 1 .. n /\ n \in 1 .. n
      BY <1>4
    <3> QED
      BY <1>1, <1>2, <1>10, <3>1
  <2> QED
    BY <1>9, <2>1, <2>2 DEF IovBytes
<1>13. /\ NodeEnd(c[n]) \in Nat /\ B <= NodeEnd(c[n])
       /\ NodeEnd(c[n]) <= B + BytesOf(shape)
       /\ \A i \in 1 .. n : c[i].len <= NodeEnd(c[n]) - B
  <2>1. n <= Len(c) /\ Len(c) \in 1 .. Len(c) /\ n \in Nat
    BY <1>4
  <2>2. NodeEnd(c[n]) <= NodeEnd(c[Len(c)]) /\ B <= c[n].beg
    BY <1>6, <2>1
  <2>3. PICK x \in Nat, y \in Nat : x = c[n].beg /\ y = c[n].len
    BY <1>5
  <2>4. NodeEnd(c[n]) = x + y
    BY <2>3 DEF NodeEnd
  <2>5. ASSUME NEW i \in 1 .. n PROVE c[i].len <= NodeEnd(c[n]) - B
    <3>1. i \in 1 .. Len(c) /\ i <= n
      BY <2>1
    <3>2. NodeEnd(c[i]) <= NodeEnd(c[n]) /\ B <= c[i].beg
      BY <1>6, <3>1
    <3>3. PICK u \in Nat, v \in Nat : u = c[i].beg /\ v = c[i].len
      BY <1>5, <3>1
    <3>4. u + v <= x + y /\ B <= u
      BY <2>4, <3>2, <3>3 DEF NodeEnd
    <3>5. v <= (x + y) - B
      BY <3>4
    <3> QED
      BY <2>4, <3>3, <3>5
  <2>6. x + y <= B + BytesOf(shape)
    BY <1>1, <1>2, <2>2, <2>4
  <2> QED
    BY <2>2, <2>3, <2>4, <2>5, <2>6
<1>14. PICK m \in Nat : B + m = NodeEnd(c[n]) /\ m = NodeEnd(c[n]) - B
  BY <1>13
<1>15. Len(shape) < MaxIov => n = Len(c)
  BY <1>1, <1>2, <1>4, <1>7
<1>16. ASSUME Len(shape) < MaxIov
       PROVE  /\ B + m = B + BytesOf(shape) /\ Iov = chain
              /\ \A i \in 1 .. Len(chain) : chain[i].len <= m
  BY <1>1, <1>2, <1>9, <1>10, <1>13, <1>14, <1>15, <1>16
<1> QED
  BY <1>1, <1>12, <1>13, <1>14, <1>16

\* What SendData leaves when it is done with a frame.
LEMMA SendEnds ==
  ASSUME OutInv, outPc = "send", outPc' = "idle", outFrames' = outFrames,
         NEW q, NEW all \in BOOLEAN, ClearSndChain(q, all),
         Len(q) = Len(chain), DOMAIN q = 1 .. Len(q),
         \A i \in 1 .. Len(q) : q[i].frame = chain[i].frame /\ q[i].kind = chain[i].kind,
         connected' \in BOOLEAN, smooth' \in BOOLEAN, smooth' => connected',
         wire' \in Seq(Nat), WireInOrder',
         \A i \in DOMAIN wire' : wire'[i] < HandedBytes(Len(outFrames)),
         smooth' /\ (\A i \in DOMAIN outFrames : Len(outFrames[i]) < MaxIov) =>
           /\ smooth /\ \A i \in 1 .. Len(q) : q[i].len = 0
           /\ wire' = [k \in 1 .. HandedBytes(Len(outFrames)) |-> k - 1]
  PROVE  OutInv'
<1>1. PICK F \in 1 .. MaxOutFrames : F = Len(outFrames) /\ Done = F - 1
  BY ChainOfFrame
<1>2. /\ chain' = <<>> /\ heads' \in Nat
      /\ handed' \in [1 .. MaxOutFrames -> Nat]
      /\ \A f \in 1 .. MaxOutFrames : /\ f # Len(outFrames) => handed'[f] = handed[f]
                                      /\ handed'[f] <= 1
      /\ (\A i \in 1 .. Len(q) : q[i].len = 0) =>
            heads' = heads - 1 /\ handed'[Len(outFrames)] = 1
  BY Cleared
<1>3. Done' = F
  BY <1>1 DEF Done
<1>4. \A i : HandedBytes(i)' = HandedBytes(i)
  BY DEF HandedBytes
<1>5. outFrames \in Seq(OutShapes) /\ F <= MaxOutFrames /\ MaxOutFrames \in Nat
  BY <1>1, TcpSendAssumption DEF OutInv, OutTypeOK
<1>6. OutTypeOK'
  <2>1. chain' \in Seq([frame : 1 .. MaxOutFrames, beg : Nat, len : Nat,
                        kind : {"head", "block", "last"}])
    BY <1>2
  <2> QED
    BY <1>2, <1>5, <2>1 DEF OutTypeOK
<1>7. ChainIs'
  BY <1>1, <1>2, <1>5 DEF ChainIs
<1>8. WireIs'
  BY <1>1, <1>3, <1>4 DEF WireIs
<1>9. HandedIs'
  <2>1. ASSUME NEW f \in 1 .. MaxOutFrames
        PROVE  handed'[f] <= 1 /\ (f > F => handed'[f] = 0)
    <3>1. f > F => f # F /\ f > F - 1
      BY <1>5
    <3>2. f > F - 1 => handed[f] = 0
      BY <1>1 DEF OutInv, HandedIs
    <3> QED
      BY <1>1, <1>2, <3>1, <3>2
  <2> QED
    BY <1>3, <2>1 DEF HandedIs
<1>10. SmoothIs'
  <2> SUFFICES ASSUME smooth', \A i \in DOMAIN outFrames' : Len(outFrames'[i]) < MaxIov
               PROVE  /\ wire' = [k \in 1 .. HandedBytes(Done)' |-> k - 1]
                      /\ \A i \in 1 .. Done' : handed'[i] = 1
                      /\ heads' = IF outPc' = "send" THEN 1 ELSE 0
    BY DEF SmoothIs
  <2>1. /\ smooth /\ \A i \in 1 .. Len(q) : q[i].len = 0
        /\ wire' = [k \in 1 .. HandedBytes(F) |-> k - 1]
        /\ \A i \in DOMAIN outFrames : Len(outFrames[i]) < MaxIov
    BY <1>1
  <2>2. (\A i \in 1 .. F - 1 : handed[i] = 1) /\ heads = 1
    BY <1>1, <2>1 DEF OutInv, SmoothIs
  <2>3. heads' = 0 /\ handed'[F] = 1
    BY <1>1, <1>2, <2>1, <2>2
  <2>4. ASSUME NEW i \in 1 .. F PROVE handed'[i] = 1
    <3>1. i # F => i \in 1 .. F - 1 /\ i \in 1 .. MaxOutFrames
      BY <1>5
    <3> QED
      BY <1>1, <1>2, <2>2, <2>3, <3>1
  <2> QED
    BY <1>3, <1>4, <2>1, <2>3, <2>4
<1> QED
  BY <1>6, <1>7, <1>8, <1>9, <1>10 DEF OutInv

\* The socket takes the next bytes of the frame.
LEMMA SomeStep ==
  ASSUME OutInv, NEW n \in 1 .. Len(IovBytes), SendSome(n)
  PROVE  OutInv'
<1>1. /\ outPc = "send" /\ outPc' = "idle" /\ outFrames' = outFrames /\ connected' = connected
      /\ wire' = wire \o SubSeq(IovBytes, 1, n)
      /\ smooth' = (smooth /\ n = Len(IovBytes))
      /\ ClearSndChain(Marked(n), FALSE)
  BY DEF SendSome
<1>2. PICK F \in 1 .. MaxOutFrames, shape \in OutShapes :
        F = Len(outFrames) /\ shape = outFrames[F] /\ Done = F - 1 /\ Joined(chain)
  BY <1>1, ChainOfFrame
<1>3. PICK B \in Nat, m \in Nat :
        /\ B = HandedBytes(F - 1) /\ IovBytes = Stretch(B, B + m)
        /\ B + m <= HandedBytes(F)
        /\ Len(shape) < MaxIov =>
             /\ B + m = HandedBytes(F) /\ Iov = chain
             /\ \A i \in 1 .. Len(chain) : chain[i].len <= m
  BY <1>1, <1>2, IovIs
<1>4. HandedBytes(F) \in Nat
  <2>1. HandedBytes(F) = HandedOf(outFrames, F)
    BY DEF HandedBytes, HandedOf
  <2>2. outFrames \in Seq(OutShapes) /\ F \in 0 .. Len(outFrames)
    BY <1>2, TcpSendAssumption DEF OutInv, OutTypeOK
  <2> QED
    BY <2>1, <2>2, HandedSteps
<1>5. PICK t, s : t = IovBytes /\ s = SubSeq(IovBytes, 1, n)
  OBVIOUS
<1>6. t \in Seq(Nat) /\ Len(t) = m /\ \A k \in 1 .. m : t[k] = B + k - 1
  <2>1. (B + m) - B = m
    OBVIOUS
  <2>2. t = [k \in 1 .. m |-> B + k - 1]
    BY <1>3, <1>5, <2>1 DEF Stretch
  <2> QED
    BY <2>2
<1>7. n \in 1 .. m /\ n \in Nat
  BY <1>5, <1>6
<1>8. s \in Seq(Nat) /\ Len(s) = n /\ \A k \in 1 .. n : s[k] = B + k - 1
  <2>1. s \in Seq(Nat) /\ Len(s) = n /\ \A k \in 1 .. n : s[k] = t[k]
    BY <1>5, <1>6, <1>7
  <2> QED
    BY <1>6, <1>7, <2>1
<1>9. PICK w, v : w = wire /\ v = wire'
  OBVIOUS
<1>a. PICK l \in Nat : l = Len(wire)
  BY DEF OutInv, OutTypeOK
<1>10. /\ w \in Seq(Nat) /\ Len(w) = l /\ DOMAIN w = 1 .. l
       /\ \A i \in 1 .. l : w[i] \in Nat /\ w[i] < B
       /\ \A i \in 1 .. l - 1 : w[i] < w[i + 1]
  <2>1. w \in Seq(Nat)
    BY <1>9 DEF OutInv, OutTypeOK
  <2>2. Len(w) = l /\ DOMAIN w = 1 .. l /\ \A i \in 1 .. l : w[i] \in Nat
    BY <1>9, <1>a, <2>1, ElementOfSeq
  <2>3. (\A i \in DOMAIN w : w[i] < B) /\ \A i \in 1 .. l - 1 : w[i] < w[i + 1]
    BY <1>2, <1>3, <1>9, <1>a DEF OutInv, WireIs, WireInOrder
  <2> QED
    BY <2>1, <2>2, <2>3
<1>11. /\ v \in Seq(Nat) /\ Len(v) = l + n
       /\ \A i \in 1 .. l : v[i] = w[i]
       /\ \A i \in l + 1 .. l + n : v[i] = B + (i - l) - 1
  <2>1. v = w \o s
    BY <1>1, <1>5, <1>9
  <2>2. /\ v \in Seq(Nat) /\ Len(v) = l + n
        /\ \A i \in 1 .. l + n : v[i] = IF i <= l THEN w[i] ELSE s[i - l]
    <3>1. w \in Seq(Nat) /\ s \in Seq(Nat) /\ Len(w) = l /\ Len(s) = n
      BY <1>8, <1>10
    <3> QED
      BY ONLY <2>1, <3>1, ConcatProperties
  <2>3. \A i \in 1 .. l : v[i] = w[i]
    BY <1>8, <1>10, <2>2
  <2>4. ASSUME NEW i \in l + 1 .. l + n PROVE v[i] = B + (i - l) - 1
    <3>1. i - l \in 1 .. n /\ i \in 1 .. l + n /\ ~(i <= l)
      BY <1>7, <1>10
    <3>2. v[i] = s[i - l]
      BY <1>8, <2>2, <3>1
    <3> QED
      BY <1>8, <3>1, <3>2
  <2>5. \A i \in l + 1 .. l + n : v[i] = B + (i - l) - 1
    BY ONLY <2>4
  <2> QED
    BY ONLY <2>2, <2>3, <2>5
<1>12. ASSUME NEW i \in 1 .. Len(v) PROVE v[i] < HandedBytes(F)
  <2>a. PICK h \in Nat : h = HandedBytes(F) /\ B + m <= h
    BY <1>3, <1>4
  <2>1. CASE i \in 1 .. l
    <3>1. v[i] \in Nat /\ v[i] < B
      BY <1>10, <1>11, <2>1
    <3>2. v[i] < h
      BY ONLY <3>1, <2>a, B \in Nat, m \in Nat, h \in Nat
    <3> QED
      BY <2>a, <3>2
  <2>2. CASE i \notin 1 .. l
    <3>1. i \in l + 1 .. l + n
      BY <1>7, <1>10, <1>11, <2>2
    <3>2. PICK j \in 1 .. n : j = i - l
      BY <1>7, <1>10, <3>1
    <3>3. v[i] = B + j - 1
      BY <1>11, <3>1, <3>2
    <3> QED
      BY <1>3, <1>4, <1>7, <3>3
  <2> QED
    BY <2>1, <2>2
<1>13. ASSUME NEW i \in 1 .. Len(v) - 1 PROVE v[i] < v[i + 1]
  <2>1. CASE i + 1 <= l
    <3>1. i \in 1 .. l - 1 /\ i \in 1 .. l /\ i + 1 \in 1 .. l
      BY <1>7, <1>10, <1>11, <2>1
    <3> QED
      BY <1>10, <1>11, <3>1
  <2>2. CASE i = l
    <3>1. i \in 1 .. l /\ i + 1 \in l + 1 .. l + n /\ (i + 1) - l = 1
      BY <1>7, <1>10, <1>11, <2>2
    <3>2. v[i] = w[i] /\ v[i + 1] = B + 1 - 1
      BY <1>11, <3>1
    <3> QED
      BY <1>10, <3>1, <3>2
  <2>3. CASE i > l
    <3>1. i \in l + 1 .. l + n /\ i + 1 \in l + 1 .. l + n
      BY <1>7, <1>10, <1>11, <2>3
    <3>2. PICK j \in Nat : j = i - l /\ (i + 1) - l = j + 1
      BY <1>10, <3>1
    <3>3. v[i] = B + j - 1 /\ v[i + 1] = B + (j + 1) - 1
      BY <1>11, <3>1, <3>2
    <3> QED
      BY <3>3
  <2>4. i + 1 <= l \/ i = l \/ i > l
    OBVIOUS
  <2> QED
    BY <2>1, <2>2, <2>3, <2>4
<1>14. /\ wire' \in Seq(Nat) /\ WireInOrder'
       /\ \A i \in DOMAIN wire' : wire'[i] < HandedBytes(F)
  <2>1. DOMAIN v = 1 .. Len(v)
    BY <1>11
  <2> QED
    BY <1>9, <1>11, <1>12, <1>13, <2>1 DEF WireInOrder
<1>15. PICK q : q = Marked(n)
  OBVIOUS
<1>16. /\ Len(q) = Len(chain) /\ DOMAIN q = 1 .. Len(q)
       /\ \A i \in 1 .. Len(q) : q[i].frame = chain[i].frame /\ q[i].kind = chain[i].kind
  <2>1. chain \in Seq(OutNodes) /\ Len(chain) \in Nat
    BY <1>2 DEF Joined
  <2>2. DOMAIN q = 1 .. Len(chain) /\ Len(q) = Len(chain)
    <3>1. DOMAIN q = 1 .. Len(chain) /\ q = [i \in DOMAIN q |-> q[i]]
      BY <1>15 DEF Marked
    <3>2. PICK S : S = {q[i] : i \in DOMAIN q}
      OBVIOUS
    <3>3. q \in [1 .. Len(chain) -> S]
      BY <3>1, <3>2
    <3> QED
      BY <2>1, <3>1, <3>3
  <2>3. \A i \in 1 .. Len(chain) : chain[i] \in OutNodes
    BY <2>1, ElementOfSeq
  <2>4. ASSUME NEW i \in 1 .. Len(chain)
        PROVE  q[i].frame = chain[i].frame /\ q[i].kind = chain[i].kind
    <3>1. \/ q[i] = chain[i] \/ q[i] = [chain[i] EXCEPT !.len = 0]
          \/ q[i] = [chain[i] EXCEPT !.len = @ - n, !.beg = @ + n]
      BY <1>15 DEF Marked
    <3>2. chain[i] \in OutNodes
      BY <2>3
    <3> QED
      BY <3>1, <3>2 DEF OutNodes
  <2> QED
    BY <2>2, <2>4
<1>17. ASSUME smooth', \A i \in DOMAIN outFrames : Len(outFrames[i]) < MaxIov
       PROVE  /\ smooth /\ \A i \in 1 .. Len(q) : q[i].len = 0
              /\ wire' = [k \in 1 .. HandedBytes(F) |-> k - 1]
  <2>1. smooth /\ n = m
    BY <1>1, <1>5, <1>6, <1>17
  <2>2. F \in DOMAIN outFrames
    BY <1>2 DEF OutInv, OutTypeOK
  <2>3. /\ B + m = HandedBytes(F) /\ Iov = chain
        /\ \A i \in 1 .. Len(chain) : chain[i].len <= m
    BY <1>2, <1>3, <1>17, <2>2
  <2>4. ASSUME NEW i \in 1 .. Len(q) PROVE q[i].len = 0
    <3>1. i \in 1 .. Len(chain) /\ i <= Len(Iov) /\ Len(chain) \in Nat
      BY <1>2, <1>16, <2>3 DEF Joined
    <3>2. \A j \in 1 .. i - 1 : j \in 1 .. Len(chain)
      BY <3>1
    <3>3. q[i] = [chain[i] EXCEPT !.len = 0]
      BY <1>15, <2>1, <2>3, <3>1, <3>2 DEF Marked
    <3>4. chain[i] \in OutNodes
      BY <1>2, <3>1, ElementOfSeq DEF Joined
    <3> QED
      BY <3>3, <3>4 DEF OutNodes
  <2>5. w = [k \in 1 .. B |-> k - 1]
    BY <1>2, <1>3, <1>9, <1>17, <2>1 DEF OutInv, SmoothIs
  <2>6. l = B /\ \A k \in 1 .. B : w[k] = k - 1
    BY <1>9, <1>a, <2>5
  <2>7. PICK u : u = [k \in 1 .. B + m |-> k - 1]
    OBVIOUS
  <2>8. u \in Seq(Nat) /\ Len(u) = B + m /\ \A k \in 1 .. B + m : u[k] = k - 1
    BY <2>7
  <2>9. ASSUME NEW k \in 1 .. B + m PROVE v[k] = u[k]
    <3>1. CASE k <= B
      BY <1>11, <2>6, <2>8, <3>1
    <3>2. CASE k > B
      <4>1. k \in l + 1 .. l + n /\ B + (k - l) - 1 = k - 1
        BY <2>1, <2>6, <3>2
      <4> QED
        BY <1>11, <2>8, <4>1
    <3> QED
      BY <3>1, <3>2
  <2>10. v = u
    BY <1>11, <2>1, <2>6, <2>8, <2>9, SeqEqual
  <2> QED
    BY <1>9, <2>1, <2>3, <2>4, <2>7, <2>10
<1>18. connected' \in BOOLEAN /\ smooth' \in BOOLEAN /\ (smooth' => connected')
  BY <1>1 DEF OutInv, OutTypeOK, ChainIs
<1> QED
  BY <1>1, <1>2, <1>14, <1>15, <1>16, <1>17, <1>18, SendEnds

\* EAGAIN and errors: nothing goes out, and the frame is given up.
LEMMA GiveUpStep ==
  ASSUME OutInv, SendAgain \/ SendError
  PROVE  OutInv'
<1>1. PICK all \in BOOLEAN :
        /\ outPc = "send" /\ outPc' = "idle" /\ outFrames' = outFrames /\ wire' = wire
        /\ connected' \in {connected, FALSE} /\ smooth' = FALSE /\ ClearSndChain(chain, all)
  BY DEF SendAgain, SendError
<1>2. PICK F \in 1 .. MaxOutFrames, B \in Nat, shape \in OutShapes :
        /\ F = Len(outFrames) /\ Done = F - 1 /\ Joined(chain)
        /\ B = HandedBytes(F - 1) /\ HandedBytes(F) = B + BytesOf(shape)
        /\ BytesOf(shape) \in Nat \ {0}
  BY <1>1, ChainOfFrame
<1>3. DOMAIN chain = 1 .. Len(chain)
  BY <1>2 DEF Joined
<1>4. /\ wire' \in Seq(Nat) /\ WireInOrder'
      /\ connected' \in BOOLEAN /\ smooth' \in BOOLEAN
  BY <1>1 DEF OutInv, OutTypeOK, WireIs, WireInOrder
<1>5. ASSUME NEW i \in DOMAIN wire' PROVE wire'[i] < HandedBytes(F)
  <2>1. wire \in Seq(Nat) /\ wire[i] < B
    BY <1>1, <1>2, <1>5 DEF OutInv, OutTypeOK, WireIs
  <2>2. wire[i] \in Nat
    BY <1>1, <2>1
  <2> QED
    BY <1>1, <1>2, <2>1, <2>2
<1> QED
  BY <1>1, <1>2, <1>3, <1>4, <1>5, SendEnds

LEMMA OutStutter ==
  ASSUME OutInv, UNCHANGED outVars
  PROVE  OutInv'
<1>1. /\ outPc' = outPc /\ outFrames' = outFrames /\ chain' = chain /\ connected' = connected
      /\ wire' = wire /\ handed' = handed /\ heads' = heads /\ smooth' = smooth
  BY DEF outVars
<1>2. Done' = Done /\ \A i : HandedBytes(i)' = HandedBytes(i)
  BY <1>1 DEF Done, HandedBytes
<1>3. \A f, shape : FrameNodes(f, shape)' = FrameNodes(f, shape)
  BY <1>2 DEF FrameNodes
<1>4. OutTypeOK'
  BY <1>1 DEF OutInv, OutTypeOK
<1>5. ChainIs'
  BY <1>1, <1>3 DEF OutInv, ChainIs
<1>6. WireIs' /\ HandedIs'
  BY <1>1, <1>2 DEF OutInv, WireIs, WireInOrder, HandedIs
<1>7. SmoothIs'
  BY <1>1, <1>2 DEF OutInv, SmoothIs
<1> QED
  BY <1>4, <1>5, <1>6, <1>7 DEF OutInv

\* The inductive invariant of the sending side, for all sizes of heads and
\* blocks, any number of nodes for one sendmsg, and whatever the socket takes.
THEOREM OutInvariant == OutSpec => []OutInv
<1>1. OutInv /\ [OutNext]_outVars => OutInv'
  <2> SUFFICES ASSUME OutInv, [OutNext]_outVars PROVE OutInv'
    OBVIOUS
  <2>1. CASE \E shape \in OutShapes : PushFrame(shape)
    BY <2>1, PushStep
  <2>2. CASE \E n \in 1 .. Len(IovBytes) : SendSome(n)
    BY <2>2, SomeStep
  <2>3. CASE SendAgain \/ SendError
    BY <2>3, GiveUpStep
  <2>4. CASE UNCHANGED outVars
    BY <2>4, OutStutter
  <2> QED
    BY <2>1, <2>2, <2>3, <2>4 DEF OutNext
<1> QED
  BY <1>1, SendStarts, PTL DEF OutSpec

\* Type correctness of the sending side.
THEOREM OutTypes == OutSpec => []OutTypeOK
<1>1. OutInv => OutTypeOK
  BY DEF OutInv
<1> QED
  BY <1>1, OutInvariant, PTL

\* No byte is sent twice or before an earlier one, after partial sends,
\* EAGAIN and errors too (hg_tcpabstract.cpp:428-523).
THEOREM BytesInOrder == OutSpec => []WireInOrder
<1>1. OutInv => WireInOrder
  BY DEF OutInv, WireIs
<1> QED
  BY <1>1, OutInvariant, PTL

\* The memory of a frame is given back at most once, whatever the socket took
\* of it (hg_tcpabstract.cpp:428-455).
THEOREM HandedBack == OutSpec => []HandedBackOnce
<1>1. OutInv => HandedBackOnce
  BY DEF OutInv, OutTypeOK, HandedIs, HandedBackOnce
<1> QED
  BY <1>1, OutInvariant, PTL

\* As long as the socket takes everything, frames that fit in one sendmsg go
\* out whole, and their heads and memory are given back
\* (hg_tcpabstract.cpp:349-371, 428-500).
THEOREM SmoothPeerGetsAll == OutSpec => []SmoothSend
<1>1. OutInv => SmoothSend
  <2> SUFFICES ASSUME OutInv, smooth, outPc = "idle",
                      \A i \in DOMAIN outFrames : Len(outFrames[i]) < MaxIov
               PROVE  /\ wire = [k \in 1 .. HandedBytes(Len(outFrames)) |-> k - 1]
                      /\ \A i \in DOMAIN outFrames : handed[i] = 1
                      /\ heads = 0
    BY DEF SmoothSend
  <2>1. outFrames \in Seq(OutShapes)
    BY DEF OutInv, OutTypeOK
  <2>2. Done = Len(outFrames) /\ DOMAIN outFrames = 1 .. Len(outFrames)
    BY <2>1 DEF Done
  <2> QED
    BY <2>2 DEF OutInv, SmoothIs
<1> QED
  BY <1>1, OutInvariant, PTL
=============================================================================
