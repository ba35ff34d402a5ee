------------------------ MODULE HgSendStream_proofs ------------------------
(* The numbers of a send stream, for every odd size of the round, every    *)
(* size of the cache and every sequence of frames.                         *)
EXTENDS HgSendStream, HgBuf_proofs, FiniteSetTheorems

-----------------------------------------------------------------------------
(* What uint16Sub and uint16Add compute                                    *)

\* An addition goes at most once past the end of the round.
LEMMA AddOnce ==
  ASSUME NEW a \in SeqNums, NEW d \in SeqNums
  PROVE  uint16Add(a, d) = IF a + d >= seq_max_NUM THEN a + d - seq_max_NUM
                                                    ELSE a + d
<1>1. seq_max_NUM \in Nat \ {0}
  BY SeqAssumption
<1>2. \A m, x \in Int : m > 0 /\ 0 <= x /\ x < m => x % m = x
  OBVIOUS
<1>3. \A m, x \in Int : m > 0 /\ m <= x /\ x < 2 * m => x % m = x - m
  OBVIOUS
<1> QED
  BY <1>1, <1>2, <1>3 DEF uint16Add, SeqNums

\* The half of an odd number, rounded down.
LEMMA Half == \E h \in Nat : seq_max_NUM = 2 * h + 1 /\ seq_max_NUM \div 2 = h
<1>1. \A m \in Nat : m % 2 = 1 => m = 2 * (m \div 2) + 1 /\ m \div 2 \in Nat
  OBVIOUS
<1> QED
  BY <1>1, SeqAssumption

\* The distance uint16Sub finds is the one uint16Add went.
LEMMA SubAdd ==
  ASSUME NEW a \in SeqNums, NEW d \in SeqNums
  PROVE  uint16Sub(uint16Add(a, d), a) = IF d <= seq_max_NUM \div 2 THEN d ELSE -1
<1>1. seq_max_NUM \in Nat /\ seq_max_NUM \div 2 \in Nat
  BY Half
<1> DEFINE half == seq_max_NUM \div 2
<1> HIDE DEF half
<1>2. uint16Sub(uint16Add(a, d), a)
        = LET b   == uint16Add(a, d)
              ret == IF b < a THEN b + seq_max_NUM - a ELSE b - a
          IN  IF ret > half THEN -1 ELSE ret
  BY DEF uint16Sub, half
<1>3. half \in Nat
  BY <1>1 DEF half
<1>4. uint16Sub(uint16Add(a, d), a) = IF d <= half THEN d ELSE -1
  BY <1>1, <1>2, <1>3, AddOnce DEF SeqNums
<1> QED
  BY <1>4 DEF half

\* Of two different numbers exactly one is ahead.
LEMMA Ahead ==
  ASSUME NEW a \in SeqNums, NEW b \in SeqNums, a # b
  PROVE  (uint16Sub(a, b) = -1) # (uint16Sub(b, a) = -1)
<1>1. PICK h \in Nat : seq_max_NUM = 2 * h + 1 /\ seq_max_NUM \div 2 = h
  BY Half
<1>2. CASE a < b
  <2>1. uint16Sub(a, b) = IF a + seq_max_NUM - b > h THEN -1 ELSE a + seq_max_NUM - b
    BY <1>1, <1>2 DEF uint16Sub
  <2>2. uint16Sub(b, a) = IF b - a > h THEN -1 ELSE b - a
    BY <1>1, <1>2 DEF uint16Sub, SeqNums
  <2> QED
    BY <1>1, <1>2, <2>1, <2>2 DEF SeqNums
<1>3. CASE b < a
  <2>1. uint16Sub(b, a) = IF b + seq_max_NUM - a > h THEN -1 ELSE b + seq_max_NUM - a
    BY <1>1, <1>3 DEF uint16Sub
  <2>2. uint16Sub(a, b) = IF a - b > h THEN -1 ELSE a - b
    BY <1>1, <1>3 DEF uint16Sub, SeqNums
  <2> QED
    BY <1>1, <1>3, <2>1, <2>2 DEF SeqNums
<1> QED
  BY <1>2, <1>3 DEF SeqNums

-----------------------------------------------------------------------------
(* The numbers of the packets                                              *)

\* The last number given, and the newest one sent, is the count of packets
\* modulo the size of the round.
NumbersInv ==
  /\ sent \in Nat
  /\ curSeq \in SeqNums
  /\ curSeq = sent % seq_max_NUM
  /\ maxSeq = curSeq

\* The next number.
LEMMA NextNumber ==
  ASSUME NEW n \in Nat
  PROVE  /\ n % seq_max_NUM \in SeqNums
         /\ uint16Add(n % seq_max_NUM, 1) = (n + 1) % seq_max_NUM
<1>1. seq_max_NUM \in Nat \ {0}
  BY SeqAssumption
<1>2. \A m \in Nat \ {0} : \A x \in Nat : x % m \in 0 .. m - 1
  OBVIOUS
<1>3. \A m \in Nat \ {0} : \A x \in Nat :
        x = m * (x \div m) + (x % m) /\ x \div m \in Nat
  OBVIOUS
<1>4. \A m \in Nat \ {0} : \A q, k \in Nat : k < m => (m * q + k) % m = k
  OBVIOUS
<1>5. \A m \in Nat \ {0} : m % m = 0 /\ \A x \in 0 .. m - 1 : x % m = x
  OBVIOUS
<1> DEFINE r == n % seq_max_NUM
           q == n \div seq_max_NUM
<1>6. r \in 0 .. seq_max_NUM - 1
  BY <1>1, <1>2
<1>7. (n + 1) % seq_max_NUM = IF r + 1 < seq_max_NUM THEN r + 1 ELSE 0
  <2>1. n = seq_max_NUM * q + r /\ q \in Nat
    BY <1>1, <1>3
  <2> HIDE DEF r, q
  <2>2. CASE r + 1 < seq_max_NUM
    <3>1. n + 1 = seq_max_NUM * q + (r + 1)
      BY <1>1, <1>6, <2>1
    <3>2. (seq_max_NUM * q + (r + 1)) % seq_max_NUM = r + 1
      BY <1>1, <1>4, <1>6, <2>1, <2>2
    <3> QED
      BY <1>1, <1>6, <2>2, <3>1, <3>2
  <2>3. CASE r + 1 = seq_max_NUM
    <3>1. n + 1 = seq_max_NUM * (q + 1) + 0
      BY <1>1, <1>6, <2>1, <2>3
    <3>2. (seq_max_NUM * (q + 1) + 0) % seq_max_NUM = 0
      BY <1>1, <1>4, <2>1
    <3> QED
      BY <1>1, <1>6, <2>3, <3>1, <3>2
  <2> QED
    BY <1>1, <1>6, <2>2, <2>3
<1> HIDE DEF r
<1>8. (r + 1) % seq_max_NUM = IF r + 1 < seq_max_NUM THEN r + 1 ELSE 0
  <2>1. CASE r + 1 < seq_max_NUM
    BY <1>1, <1>5, <1>6, <2>1
  <2>2. CASE r + 1 = seq_max_NUM
    BY <1>1, <1>5, <1>6, <2>2
  <2> QED
    BY <1>1, <1>6, <2>1, <2>2
<1>9. (r + 1) % seq_max_NUM = (n + 1) % seq_max_NUM
  BY <1>7, <1>8
<1> QED
  BY <1>6, <1>9 DEF r, uint16Add, SeqNums

\* The window moves to a number that is one ahead, also in a round of one.
LEMMA WindowMoves ==
  ASSUME NEW a \in SeqNums
  PROVE  (IF uint16Sub(uint16Add(a, 1), a) > 0 THEN uint16Add(a, 1) ELSE a)
           = uint16Add(a, 1)
<1>1. PICK h \in Nat : seq_max_NUM = 2 * h + 1 /\ seq_max_NUM \div 2 = h
  BY Half
<1>2. CASE h = 0
  <2>1. a = 0 /\ seq_max_NUM = 1
    BY <1>1, <1>2 DEF SeqNums
  <2>2. uint16Add(a, 1) = 0
    BY <2>1 DEF uint16Add
  <2> QED
    BY <2>1, <2>2
<1>3. CASE h # 0
  <2>1. 1 \in SeqNums
    BY <1>1, <1>3 DEF SeqNums
  <2>2. uint16Sub(uint16Add(a, 1), a) = 1
    BY <1>1, <1>3, <2>1, SubAdd
  <2> QED
    BY <2>2
<1> QED
  BY <1>2, <1>3

\* The numbers are right at the start.
LEMMA NumbersInit == Init => NumbersInv
<1>1. 0 \in SeqNums /\ 0 % seq_max_NUM = 0
  <2>1. seq_max_NUM \in Nat \ {0}
    BY SeqAssumption
  <2>2. \A m \in Nat \ {0} : 0 % m = 0
    OBVIOUS
  <2> QED
    BY <2>1, <2>2 DEF SeqNums
<1> QED
  BY <1>1 DEF Init, NumbersInv

\* A packet moves all of them by one; nothing else touches them.
LEMMA NumbersNext == NumbersInv /\ [Next]_vars => NumbersInv'
<1> SUFFICES ASSUME NumbersInv, [Next]_vars PROVE NumbersInv'
  OBVIOUS
<1>1. CASE \E shape \in Shapes : StartFrame(shape)
  BY <1>1 DEF NumbersInv, StartFrame
<1>2. CASE SendPacket
  <2>1. /\ curSeq' = uint16Add(curSeq, 1)
        /\ sent' = sent + 1
        /\ maxSeq' = IF uint16Sub(uint16Add(curSeq, 1), maxSeq) > 0
                     THEN uint16Add(curSeq, 1) ELSE maxSeq
    BY <1>2 DEF SendPacket, Remember
  <2>2. sent \in Nat /\ curSeq \in SeqNums /\ maxSeq = curSeq
    BY DEF NumbersInv
  <2>3. maxSeq' = curSeq'
    BY <2>1, <2>2, WindowMoves
  <2>4. curSeq' = (sent + 1) % seq_max_NUM
    BY <2>1, <2>2, NextNumber DEF NumbersInv
  <2>5. sent' \in Nat /\ curSeq' \in SeqNums
    BY <2>1, <2>2, <2>4, NextNumber
  <2> QED
    BY <2>1, <2>3, <2>4, <2>5 DEF NumbersInv
<1>3. CASE \E p \in Lost : Repost(p)
  BY <1>3 DEF NumbersInv, Repost
<1>4. CASE UNCHANGED vars
  BY <1>4 DEF NumbersInv, vars
<1> QED
  BY <1>1, <1>2, <1>3, <1>4 DEF Next

\* The invariant of the numbers.
LEMMA Numbers == Spec => []NumbersInv
  BY NumbersInit, NumbersNext, PTL DEF Spec

\* For every odd size of the round and every frame, the window of requests
\* that are answered ends at the last packet sent, also where the numbers
\* start over (huage_sendstream.cpp:176-179).
THEOREM WindowNeverStuck == Spec => []WindowFollows
<1>1. NumbersInv => WindowFollows
  BY DEF NumbersInv, WindowFollows
<1> QED
  BY <1>1, Numbers, PTL

\* For every odd size of the round, uint16Sub measures what uint16Add adds
\* (tools.c:351-374).
THEOREM SubMeasures == Spec => []SubUndoesAdd
<1>1. NumbersInv => SubUndoesAdd
  BY SubAdd DEF NumbersInv, SubUndoesAdd
<1> QED
  BY <1>1, Numbers, PTL

\* For every odd size of the round, of two different numbers exactly one is
\* ahead of the other (tools.c:351-369).
THEOREM AheadIsAnOrder == Spec => []OneIsAhead
<1>1. NumbersInv => OneIsAhead
  BY Ahead DEF NumbersInv, OneIsAhead
<1> QED
  BY <1>1, Numbers, PTL

-----------------------------------------------------------------------------
(* The bytes of a frame                                                    *)

\* Size is the last of the counts of the bytes of a frame.
LEMMA SizeCounts ==
  ASSUME NEW shape \in Seq(Nat \ {0})
  PROVE  \E f : CountsTo(f, shape, Len(shape)) /\ f[Len(shape)] = Size(shape)
BY BytesToCounts DEF Size

-----------------------------------------------------------------------------
(* Frames and the cache                                                    *)

\* pre counts the bytes sent after each of the nodes that are left.
Counts(pre) ==
  /\ pre \in [0 .. Len(nodes) -> Nat]
  /\ pre[0] = sendsize /\ pre[Len(nodes)] = framesize
  /\ \A i \in 1 .. Len(nodes) : pre[i] = pre[i - 1] + nodes[i]
  /\ \A i, j \in 0 .. Len(nodes) : i < j => pre[i] < pre[j]

\* What is left to send is in the nodes that are left.
FrameInv ==
  /\ \E pre : Counts(pre)
  /\ nodes # <<>> => frames \in Frames

\* Who holds a frame: HeldOnce, and nothing is known of frames to come.
HeldInv ==
  /\ HeldOnce
  /\ \A i \in Slots : /\ cache[i].alloc \in 0 .. frames
                      /\ cache[i].data # 0 => cache[i].frame \in 1 .. frames
  /\ \A f \in Frames : f > frames => released[f] = 0

\* The slot of a number.
SlotOf(n) == n % sess_cache_LEN

\* Until the numbers start over, the cache holds the last packets, each in its
\* slot; the frame of a packet in the cache was not given back, and the slot
\* that holds a frame is that of its last packet.
SlotsInv ==
  /\ \A i \in Slots : cache[i].data # 0 =>
       /\ cache[i].data <= sent /\ sent - cache[i].data < sess_cache_LEN
       /\ SlotOf(cache[i].data) = i
       /\ released[cache[i].frame] = 0
  /\ \A i \in Slots : /\ cache[i].alloc \in {0, cache[i].frame}
                      /\ cache[i].data = 0 => cache[i].alloc = 0
  /\ \A p \in 1 .. sent :
       sent - p < sess_cache_LEN => cache[SlotOf(p)].data = p
  /\ \A i, j \in Slots : cache[i].alloc # 0 /\ cache[i].data < cache[j].data
                         => cache[i].frame < cache[j].frame

StreamInv ==
  /\ NumbersInv /\ TypeOK /\ FrameInv /\ FramesDelimited /\ HeldInv
  /\ sent < seq_max_NUM => SlotsInv /\ ResendsLiveData
  /\ AnswersRecent

\* A number and the one m before it have the same slot.
LEMMA SameSlot ==
  ASSUME NEW m \in Nat \ {0}, NEW a \in Nat, a >= m
  PROVE  (a - m) % m = a % m
<1>1. a = m * (a \div m) + (a % m) /\ a \div m \in Nat /\ a % m \in 0 .. m - 1
  BY Remainders
<1>2. \A k \in Nat \ {0} : \A q, r \in Nat : r < k => (k * q + r) % k = r
  OBVIOUS
<1> DEFINE q == a \div m
           r == a % m
<1> HIDE DEF q, r
<1>3. a = m * q + r /\ q \in Nat /\ r \in Nat /\ r < m
  BY <1>1 DEF q, r
<1>4. q # 0
  <2>1. q = 0 => m * q = 0
    OBVIOUS
  <2> QED
    BY <1>3, <2>1
<1>5. PICK k \in Nat : q = k + 1
  <2>1. q - 1 \in Nat /\ q = (q - 1) + 1
    BY <1>3, <1>4
  <2> QED
    BY <2>1
<1>6. m * q = m * k + m /\ m * k \in Nat
  BY <1>5
<1>7. a - m = m * k + r
  BY <1>3, <1>6
<1>8. (m * k + r) % m = r
  BY <1>2, <1>3
<1> QED
  BY <1>7, <1>8 DEF r

\* The slots of numbers: those of numbers less than a round of the cache apart
\* are different, and those of numbers a round apart the same.
LEMMA SlotType ==
  ASSUME NEW n \in Nat
  PROVE  SlotOf(n) \in Slots
BY Remainders, StreamAssumption DEF SlotOf, Slots

LEMMA SlotsApart ==
  ASSUME NEW a \in Nat, NEW b \in Nat, a < b, b - a < sess_cache_LEN
  PROVE  SlotOf(a) # SlotOf(b)
BY OtherSlot, StreamAssumption DEF SlotOf

LEMMA SlotsRound ==
  ASSUME NEW a \in Nat, a >= sess_cache_LEN
  PROVE  SlotOf(a - sess_cache_LEN) = SlotOf(a)
BY SameSlot, StreamAssumption DEF SlotOf

\* The slots that hold a frame.
Holders(f) == {i \in Slots : cache[i].alloc = f}

\* How many slots hold a frame after one slot is overwritten.
LEMMA HeldCount ==
  ASSUME TypeOK, NEW s \in Slots, NEW slot, cache' = [cache EXCEPT ![s] = slot],
         NEW f \in Frames
  PROVE  /\ Cardinality(Holders(f)) \in Nat /\ Cardinality(Holders(f)') \in Nat
         /\ Cardinality(Holders(f)) = 0 => cache[s].alloc # f
         /\ Cardinality(Holders(f)') = Cardinality(Holders(f))
              - (IF cache[s].alloc = f THEN 1 ELSE 0) + (IF slot.alloc = f THEN 1 ELSE 0)
<1> DEFINE holds == {i \in Slots : cache[i].alloc = f}
           rest  == {i \in Slots \ {s} : cache[i].alloc = f}
<1>1. IsFiniteSet(Slots)
  <2>1. 0 \in Int /\ sess_cache_LEN - 1 \in Int
    BY StreamAssumption
  <2> QED
    BY <2>1, FS_Interval DEF Slots
<1>2. holds \subseteq Slots /\ rest \subseteq Slots /\ s \notin rest
  OBVIOUS
<1>3. IsFiniteSet(rest) /\ Cardinality(rest) \in Nat
  BY <1>1, <1>2, FS_Subset, FS_CardinalityType
<1>4. Cardinality(rest \cup {s}) = Cardinality(rest) + 1
  BY <1>2, <1>3, FS_AddElement
<1>5. holds = IF cache[s].alloc = f THEN rest \cup {s} ELSE rest
  OBVIOUS
<1>6. \A i \in Slots : cache'[i] = IF i = s THEN slot ELSE cache[i]
  BY DEF TypeOK
<1>7. holds' = IF slot.alloc = f THEN rest \cup {s} ELSE rest
  BY <1>6
<1>8. holds' = {i \in Slots : cache'[i].alloc = f}
  OBVIOUS
<1> DEFINE a == cache[s].alloc = f
           b == slot.alloc = f
<1> HIDE DEF holds, rest
<1>9. Cardinality(holds) = Cardinality(rest) + (IF a THEN 1 ELSE 0)
  <2>1. CASE a
    BY <1>4, <1>5, <2>1
  <2>2. CASE ~a
    BY <1>3, <1>5, <2>2
  <2> QED
    BY <2>1, <2>2
<1>10. Cardinality(holds') = Cardinality(rest) + (IF b THEN 1 ELSE 0)
  <2>1. CASE b
    BY <1>4, <1>7, <2>1
  <2>2. CASE ~b
    BY <1>3, <1>7, <2>2
  <2> QED
    BY <2>1, <2>2
<1>11. /\ Cardinality(holds) \in Nat /\ Cardinality(holds') \in Nat
       /\ Cardinality(holds) = 0 => ~a
       /\ Cardinality(holds') = Cardinality(holds) - (IF a THEN 1 ELSE 0) + (IF b THEN 1 ELSE 0)
  BY <1>3, <1>9, <1>10
<1> QED
  BY <1>11 DEF holds, Holders

\* A packet is cut from the first node that is left; it is marked as the end
\* of the frame if nothing is left after it.
LEMMA CutPacket ==
  ASSUME TypeOK, FrameInv, SendPacket
  PROVE  \E n \in Nat \ {0} :
           /\ nodes # <<>> /\ nodes' \in Seq(Nat \ {0}) /\ sendsize' = sendsize + n
           /\ (\E pre : Counts(pre))'
           /\ Tail0(n) \in 0 .. 3 /\ (Tail0(n) \in {0, 3} <=> nodes' = <<>>)
           /\ wire' = [kind |-> "post", pkt |-> sent + 1, tail |-> Tail0(n)]
           /\ Remember(uint16Add(curSeq, 1),
                [data |-> sent + 1, frame |-> frames,
                 alloc |-> IF nodes' = <<>> THEN frames ELSE 0])
<1> DEFINE h == Head(nodes)
           L == Len(nodes)
<1>1. PICK n : n = IF MaxCopy < h THEN MaxCopy ELSE h
  OBVIOUS
<1>2. /\ nodes # <<>> /\ sendsize' = sendsize + n
      /\ wire' = [kind |-> "post", pkt |-> sent + 1, tail |-> Tail0(n)]
      /\ Remember(uint16Add(curSeq, 1),
           [data |-> sent + 1, frame |-> frames,
            alloc |-> IF Tail0(n) \in {0, 3} THEN frames ELSE 0])
      /\ nodes' = IF n = h THEN Tail(nodes) ELSE [nodes EXCEPT ![1] = @ - n]
      /\ UNCHANGED <<frames, framesize>>
  BY <1>1 DEF SendPacket
<1>3. nodes \in Seq(Nat \ {0}) /\ sendsize \in Nat /\ framesize \in Nat
  BY DEF TypeOK
<1>4. /\ L \in Nat \ {0} /\ h = nodes[1] /\ h \in Nat \ {0}
      /\ nodes \in [1 .. L -> Nat \ {0}]
  <2>1. L # 0 /\ h \in Nat \ {0}
    BY <1>2, <1>3, EmptySeq, HeadTailProperties
  <2>2. h = nodes[1]
    BY <1>2, <1>3
  <2> QED
    BY <1>3, <2>1, <2>2, LenProperties
<1>5. n \in Nat \ {0} /\ n <= h
  BY <1>1, <1>4, StreamAssumption
<1>6. PICK pre : Counts(pre)
  BY DEF FrameInv
<1> HIDE DEF h, L
<1>7. /\ pre \in [0 .. L -> Nat] /\ pre[0] = sendsize /\ pre[L] = framesize
      /\ \A i \in 1 .. L : pre[i] = pre[i - 1] + nodes[i]
      /\ \A i, j \in 0 .. L : i < j => pre[i] < pre[j]
  BY <1>6 DEF Counts, L
<1>8. pre[1] = sendsize + h /\ pre[1] \in Nat /\ (L = 1 \/ pre[1] < framesize)
  <2>1. 1 \in 1 .. L /\ 1 \in 0 .. L /\ L \in 0 .. L
    BY <1>4
  <2>2. pre[1] = pre[1 - 1] + nodes[1]
    BY <1>7, <2>1
  <2>3. L # 1 => pre[1] < pre[L]
    BY <1>4, <1>7, <2>1
  <2> QED
    BY <1>4, <1>7, <2>1, <2>2, <2>3
<1>9. /\ nodes' \in Seq(Nat \ {0}) /\ (\E p : Counts(p))'
      /\ sendsize + n <= framesize /\ (sendsize + n = framesize <=> nodes' = <<>>)
  <2>1. CASE n = h
    <3>1. PICK d : d = Tail(nodes)
      OBVIOUS
    <3>2. /\ d \in Seq(Nat \ {0}) /\ Len(d) = L - 1 /\ \A i \in 1 .. L - 1 : d[i] = nodes[i + 1]
      BY <1>2, <1>3, <3>1, HeadTailProperties DEF L
    <3>a. d = <<>> <=> Len(d) = 0
      BY <3>2, EmptySeq
    <3>b. Len(d) = 0 <=> L = 1
      BY <1>4, <3>2
    <3>3. nodes' = d /\ (d = <<>> <=> L = 1)
      BY <1>2, <2>1, <3>1, <3>a, <3>b
    <3> DEFINE sums == [i \in 0 .. L - 1 |-> pre[i + 1]]
    <3>c. PICK p : p = sums
      OBVIOUS
    <3>4. p \in [0 .. L - 1 -> Nat]
      <4>1. \A i \in 0 .. L - 1 : i + 1 \in 0 .. L
        BY <1>4
      <4> QED
        BY <1>7, <3>c, <4>1
    <3>5. p[0] = sendsize + n /\ p[L - 1] = framesize
      <4>1. 0 \in 0 .. L - 1 /\ L - 1 \in 0 .. L - 1 /\ (L - 1) + 1 = L
        BY <1>4
      <4> QED
        BY <1>7, <1>8, <2>1, <3>c, <4>1
    <3>6. ASSUME NEW i \in 1 .. L - 1 PROVE p[i] = p[i - 1] + d[i]
      <4>1. i \in 0 .. L - 1 /\ i - 1 \in 0 .. L - 1 /\ i + 1 \in 1 .. L /\ (i - 1) + 1 = i
            /\ (i + 1) - 1 = i
        BY <1>4
      <4>2. pre[i + 1] = pre[(i + 1) - 1] + nodes[i + 1]
        BY <1>7, <4>1
      <4> QED
        BY <3>2, <3>c, <4>1, <4>2
    <3>7. ASSUME NEW i \in 0 .. L - 1, NEW j \in 0 .. L - 1, i < j PROVE p[i] < p[j]
      <4>1. i + 1 \in 0 .. L /\ j + 1 \in 0 .. L /\ i + 1 < j + 1
        BY <1>4, <3>7
      <4>2. pre[i + 1] < pre[j + 1]
        BY <1>7, <4>1
      <4> QED
        BY <3>c, <3>7, <4>2
    <3> HIDE DEF sums
    <3>8. Counts(p)'
      BY <1>2, <3>2, <3>3, <3>4, <3>5, <3>6, <3>7 DEF Counts
    <3>9. (\E q : Counts(q))'
      BY <3>8
    <3>10. sendsize + n <= framesize /\ (sendsize + n = framesize <=> L = 1)
      <4>1. PICK x \in Nat : x = pre[1]
        BY <1>8
      <4>2. x = sendsize + n /\ (L = 1 => x = framesize) /\ (L = 1 \/ x < framesize)
        BY <1>7, <1>8, <2>1, <4>1
      <4> QED
        BY <1>3, <4>2
    <3> QED
      BY <3>2, <3>3, <3>9, <3>10
  <2>2. CASE n # h
    <3>1. nodes' = [nodes EXCEPT ![1] = h - n] /\ 1 \in 1 .. L
      BY <1>2, <1>4, <2>2
    <3>2. h - n \in Nat \ {0}
      BY <1>4, <1>5, <2>2
    <3>3. /\ nodes' \in [1 .. L -> Nat \ {0}] /\ nodes'[1] = h - n
          /\ \A i \in 1 .. L : i # 1 => nodes'[i] = nodes[i]
      BY <1>4, <3>1, <3>2
    <3>4. nodes' \in Seq(Nat \ {0})
      BY <1>4, <3>3, IsASeq
    <3>5. Len(nodes') = L /\ nodes' # <<>>
      <4>1. DOMAIN nodes' = 1 .. L
        BY <3>3
      <4>2. Len(nodes') = L
        BY <1>4, <3>4, <4>1, LenProperties
      <4> QED
        BY <1>4, <3>4, <4>2, EmptySeq
    <3>a. PICK p : p = [pre EXCEPT ![0] = sendsize + n]
      OBVIOUS
    <3>6. /\ p \in [0 .. L -> Nat] /\ p[0] = sendsize + n
          /\ \A i \in 0 .. L : i # 0 => p[i] = pre[i]
      <4>1. sendsize + n \in Nat /\ 0 \in 0 .. L
        BY <1>3, <1>4, <1>5
      <4> QED
        BY <1>7, <3>a, <4>1
    <3>7. sendsize + n < pre[1] /\ 1 \in 0 .. L /\ L \in 0 .. L /\ L # 0
      BY <1>3, <1>4, <1>5, <1>8, <2>2
    <3>8. p[L] = framesize
      BY <1>7, <3>6, <3>7
    <3>9. ASSUME NEW i \in 1 .. L PROVE p[i] = p[i - 1] + nodes'[i]
      <4>1. i \in 0 .. L /\ i # 0 /\ i - 1 \in 0 .. L
        BY <1>4
      <4>2. CASE i = 1
        <5>1. p[1] = sendsize + h
          BY <1>8, <3>6, <3>7
        <5>2. p[1 - 1] = sendsize + n
          BY <3>6
        <5> QED
          BY <1>3, <1>4, <1>5, <3>3, <4>2, <5>1, <5>2
      <4>3. CASE i # 1
        <5>1. p[i] = pre[i] /\ p[i - 1] = pre[i - 1]
          BY <3>6, <4>1, <4>3
        <5> QED
          BY <1>7, <3>3, <4>3, <5>1
      <4> QED
        BY <4>2, <4>3
    <3>10. ASSUME NEW i \in 0 .. L, NEW j \in 0 .. L, i < j PROVE p[i] < p[j]
      <4>1. j # 0 /\ p[j] = pre[j] /\ pre[j] \in Nat
        BY <1>4, <1>7, <3>6, <3>10
      <4>2. CASE i # 0
        BY <1>7, <3>6, <3>10, <4>1, <4>2
      <4>3. CASE i = 0
        <5>1. j = 1 \/ pre[1] < pre[j]
          <6>1. j = 1 \/ 1 < j
            BY <1>4, <4>1
          <6> QED
            BY <1>7, <3>7, <6>1
        <5>2. pre[1] <= pre[j]
          <6>1. CASE j = 1
            BY <1>8, <6>1
          <6>2. CASE pre[1] < pre[j]
            BY <1>8, <4>1, <6>2
          <6> QED
            BY <5>1, <6>1, <6>2
        <5>3. sendsize + n < pre[j]
          BY <1>3, <1>5, <1>8, <3>7, <4>1, <5>2
        <5> QED
          BY <3>6, <4>1, <4>3, <5>3
      <4> QED
        BY <4>2, <4>3
    <3>11. Counts(p)'
      BY <1>2, <3>5, <3>6, <3>8, <3>9, <3>10 DEF Counts
    <3>12. (\E q : Counts(q))'
      BY <3>11
    <3>13. sendsize + n < framesize
      <4>1. pre[1] <= framesize
        BY <1>3, <1>7, <1>8
      <4> QED
        BY <1>3, <1>5, <1>8, <3>7, <4>1
    <3> QED
      BY <1>3, <1>5, <3>4, <3>5, <3>12, <3>13
  <2> QED
    BY <2>1, <2>2
<1>10. Tail0(n) \in 0 .. 3 /\ (Tail0(n) \in {0, 3} <=> nodes' = <<>>)
  <2>1. Tail0(n) \in {0, 3} <=> sendsize + n >= framesize
    BY <1>3, <1>5 DEF Tail0
  <2>2. Tail0(n) \in 0 .. 3
    BY DEF Tail0
  <2>3. sendsize + n >= framesize <=> nodes' = <<>>
    BY <1>3, <1>5, <1>9
  <2> QED
    BY <2>1, <2>2, <2>3
<1>11. (IF Tail0(n) \in {0, 3} THEN frames ELSE 0) = IF nodes' = <<>> THEN frames ELSE 0
  BY <1>10
<1>12. Remember(uint16Add(curSeq, 1),
         [data |-> sent + 1, frame |-> frames,
          alloc |-> IF nodes' = <<>> THEN frames ELSE 0])
  BY <1>2, <1>11
<1> QED
  BY <1>2, <1>5, <1>9, <1>10, <1>12

\* The packet takes a slot, and what the slot held is given back.
LEMMA TakeSlot ==
  ASSUME NumbersInv, TypeOK, FrameInv, SendPacket
  PROVE  \E s \in Slots, slot \in [data : Nat, frame : 0 .. MaxFrames, alloc : 0 .. MaxFrames] :
           /\ s = SlotOf(uint16Add(curSeq, 1))
           /\ slot.data = sent + 1 /\ slot.frame = frames
           /\ slot.alloc = IF nodes' = <<>> THEN frames ELSE 0
           /\ cache' = [cache EXCEPT ![s] = slot]
           /\ cache'[s] = slot /\ \A i \in Slots : i # s => cache'[i] = cache[i]
           /\ released' \in [Frames -> Nat]
           /\ \A f \in Frames : released'[f] = released[f] + (IF cache[s].alloc = f THEN 1 ELSE 0)
           /\ sent' = sent + 1 /\ frames' = frames /\ frames \in Frames /\ nodes # <<>>
<1>1. PICK slot : slot = [data |-> sent + 1, frame |-> frames,
                          alloc |-> IF nodes' = <<>> THEN frames ELSE 0]
  OBVIOUS
<1>2. PICK s : s = SlotOf(uint16Add(curSeq, 1))
  OBVIOUS
<1>3. Remember(uint16Add(curSeq, 1), slot) /\ nodes # <<>>
  BY <1>1, CutPacket
<1>4. /\ released' = IF cache[s].alloc = 0 THEN released
                     ELSE [released EXCEPT ![cache[s].alloc] = @ + 1]
      /\ cache' = [cache EXCEPT ![s] = slot]
  BY <1>2, <1>3 DEF Remember, SlotOf
<1>5. s \in Slots
  <2>1. sent \in Nat /\ curSeq = sent % seq_max_NUM
    BY DEF NumbersInv
  <2>2. uint16Add(curSeq, 1) \in Nat
    <3>1. uint16Add(curSeq, 1) = (sent + 1) % seq_max_NUM
      BY <2>1, NextNumber
    <3>2. (sent + 1) % seq_max_NUM \in SeqNums
      BY <2>1, NextNumber
    <3> QED
      BY <3>1, <3>2 DEF SeqNums
  <2> QED
    BY <1>2, <2>2, SlotType
<1>6. frames \in Frames /\ sent' = sent + 1 /\ frames' = frames /\ sent \in Nat
  BY <1>3 DEF FrameInv, SendPacket, NumbersInv
<1>7. slot \in [data : Nat, frame : 0 .. MaxFrames, alloc : 0 .. MaxFrames]
  BY <1>1, <1>6, StreamAssumption DEF Frames
<1>8. cache'[s] = slot /\ \A i \in Slots : i # s => cache'[i] = cache[i]
  BY <1>4, <1>5 DEF TypeOK
<1>9. /\ released' \in [Frames -> Nat]
      /\ \A f \in Frames : released'[f] = released[f] + (IF cache[s].alloc = f THEN 1 ELSE 0)
  <2>1. PICK a : a = cache[s].alloc
    OBVIOUS
  <2>2. a \in 0 .. MaxFrames /\ released \in [Frames -> Nat] /\ MaxFrames \in Nat
    BY <1>5, <2>1, StreamAssumption DEF TypeOK
  <2>3. CASE a = 0
    <3>1. released' = released /\ \A f \in Frames : a # f
      BY <1>4, <2>1, <2>2, <2>3 DEF Frames
    <3> QED
      BY <2>1, <2>2, <3>1
  <2>4. CASE a # 0
    <3>1. released' = [released EXCEPT ![a] = @ + 1] /\ a \in Frames
      BY <1>4, <2>1, <2>2, <2>4 DEF Frames
    <3>2. released[a] \in Nat
      BY <2>2, <3>1
    <3>3. released' \in [Frames -> Nat]
      BY <2>2, <3>1, <3>2
    <3>4. ASSUME NEW f \in Frames
          PROVE  released'[f] = released[f] + (IF a = f THEN 1 ELSE 0)
      BY <2>2, <3>1
    <3> QED
      BY <2>1, <3>3, <3>4
  <2> QED
    BY <2>3, <2>4
<1> QED
  BY <1>1, <1>2, <1>3, <1>4, <1>5, <1>6, <1>7, <1>8, <1>9

\* A packet is sent: types, and what is left of the frame.
LEMMA SendTypes ==
  ASSUME NumbersInv, NumbersInv', TypeOK, FrameInv, SendPacket
  PROVE  TypeOK' /\ FrameInv' /\ FramesDelimited'
<1>1. PICK n \in Nat \ {0} :
        /\ nodes # <<>> /\ nodes' \in Seq(Nat \ {0}) /\ sendsize' = sendsize + n
        /\ (\E pre : Counts(pre))'
        /\ Tail0(n) \in 0 .. 3 /\ (Tail0(n) \in {0, 3} <=> nodes' = <<>>)
        /\ wire' = [kind |-> "post", pkt |-> sent + 1, tail |-> Tail0(n)]
  BY CutPacket
<1>2. PICK s \in Slots, slot \in [data : Nat, frame : 0 .. MaxFrames, alloc : 0 .. MaxFrames] :
        /\ cache' = [cache EXCEPT ![s] = slot]
        /\ released' \in [Frames -> Nat]
        /\ frames' = frames /\ frames \in Frames
  BY TakeSlot
<1>3. framesize' = framesize
  BY DEF SendPacket
<1>4. wire'.kind = "post" /\ wire'.tail = Tail0(n)
  BY <1>1
<1>5. TypeOK'
  <2>1. cache' \in [Slots -> [data : Nat, frame : 0 .. MaxFrames, alloc : 0 .. MaxFrames]]
    BY <1>2 DEF TypeOK
  <2>2. wire' \in [kind : {"post"}, pkt : Nat \ {0}, tail : 0 .. 3]
    <3>1. sent + 1 \in Nat \ {0}
      BY DEF TypeOK
    <3> QED
      BY <1>1, <3>1
  <2>3. sendsize' \in Nat /\ framesize' \in Nat /\ frames' \in 0 .. MaxFrames
    BY <1>1, <1>2, <1>3 DEF TypeOK
  <2>4. curSeq' \in SeqNums /\ maxSeq' \in SeqNums /\ sent' \in Nat
    BY DEF NumbersInv
  <2> QED
    BY <1>1, <1>2, <2>1, <2>2, <2>3, <2>4 DEF TypeOK
<1>6. FrameInv'
  BY <1>1, <1>2 DEF FrameInv
<1>7. FramesDelimited'
  <2>1. nodes' = <<>> => wire'.tail \in {0, 3}
    BY <1>1, <1>4
  <2>2. nodes' # <<>> => wire'.tail \in {1, 2}
    <3>1. Tail0(n) \in 0 .. 3 /\ (nodes' # <<>> => Tail0(n) \notin {0, 3})
      BY <1>1
    <3>2. nodes' # <<>> => Tail0(n) \in {1, 2}
      BY <3>1
    <3> QED
      BY <1>4, <3>2
  <2> QED
    BY <2>1, <2>2 DEF FramesDelimited
<1> QED
  BY <1>5, <1>6, <1>7

\* A packet is sent: who holds the frames.
LEMMA SendHeld ==
  ASSUME NumbersInv, TypeOK, FrameInv, HeldInv, SendPacket
  PROVE  HeldInv'
<1>1. PICK s \in Slots, slot \in [data : Nat, frame : 0 .. MaxFrames, alloc : 0 .. MaxFrames] :
        /\ slot.data = sent + 1 /\ slot.frame = frames
        /\ slot.alloc = IF nodes' = <<>> THEN frames ELSE 0
        /\ cache' = [cache EXCEPT ![s] = slot]
        /\ cache'[s] = slot /\ \A i \in Slots : i # s => cache'[i] = cache[i]
        /\ \A f \in Frames : released'[f] = released[f] + (IF cache[s].alloc = f THEN 1 ELSE 0)
        /\ frames' = frames /\ frames \in Frames /\ nodes # <<>>
  BY TakeSlot
<1>2. frames \in 1 .. frames /\ frames \in Nat /\ frames <= MaxFrames /\ MaxFrames \in Nat
      /\ released \in [Frames -> Nat] /\ 1 .. frames \subseteq Frames
  BY <1>1, StreamAssumption DEF Frames, TypeOK
<1>3. ASSUME NEW f \in 1 .. frames
      PROVE  (released[f] + Cardinality({i \in Slots : cache[i].alloc = f})
                = IF f = frames /\ nodes # <<>> THEN 0 ELSE 1)'
  <2>a. PICK old : old = Cardinality(Holders(f))
    OBVIOUS
  <2>b. PICK new : new = Cardinality(Holders(f)')
    OBVIOUS
  <2>1. f \in Frames
    BY <1>2
  <2>2. /\ old \in Nat /\ new \in Nat /\ (old = 0 => cache[s].alloc # f)
        /\ new = old - (IF cache[s].alloc = f THEN 1 ELSE 0) + (IF slot.alloc = f THEN 1 ELSE 0)
    <3>1. cache' = [cache EXCEPT ![s] = slot]
      BY <1>1
    <3> QED
      BY <2>a, <2>b, <2>1, <3>1, HeldCount
  <2>3. released[f] + old = IF f = frames /\ nodes # <<>> THEN 0 ELSE 1
    BY <2>a DEF HeldInv, HeldOnce, Holders
  <2>4. released'[f] = released[f] + (IF cache[s].alloc = f THEN 1 ELSE 0) /\ released[f] \in Nat
    BY <1>1, <1>2, <2>1
  <2>5. released'[f] + new = released[f] + old + (IF slot.alloc = f THEN 1 ELSE 0)
    BY <2>2, <2>4
  <2>6. f \in Nat /\ f # 0
    BY <1>2
  <2>c. (Cardinality({i \in Slots : cache[i].alloc = f}))' = new
    BY <2>b DEF Holders
  <2>7. CASE f = frames
    <3>1. released[f] + old = 0
      BY <1>1, <2>3, <2>7
    <3>2. slot.alloc = f <=> nodes' = <<>>
      BY <1>1, <2>6, <2>7
    <3>3. released'[f] + new = IF nodes' # <<>> THEN 0 ELSE 1
      BY <2>5, <3>1, <3>2
    <3> QED
      BY <1>1, <2>c, <2>7, <3>3
  <2>8. CASE f # frames
    <3>1. released[f] + old = 1
      BY <2>3, <2>8
    <3>2. slot.alloc # f
      BY <1>1, <2>6, <2>8
    <3>3. released'[f] + new = 1
      BY <2>5, <3>1, <3>2
    <3> QED
      BY <1>1, <2>c, <2>8, <3>3
  <2> QED
    BY <2>7, <2>8
<1>4. ASSUME NEW i \in Slots
      PROVE  cache'[i].alloc \in 0 .. frames /\ (cache'[i].data # 0 => cache'[i].frame \in 1 .. frames)
  <2>1. CASE i = s
    BY <1>1, <1>2, <2>1
  <2>2. CASE i # s
    BY <1>1, <2>2 DEF HeldInv
  <2> QED
    BY <2>1, <2>2
<1>5. ASSUME NEW f \in Frames, f > frames PROVE released'[f] = 0
  <2>1. cache[s].alloc # f
    BY <1>2, <1>5 DEF HeldInv
  <2>2. released[f] = 0
    BY <1>5 DEF HeldInv
  <2> QED
    BY <1>1, <2>1, <2>2
<1> QED
  BY <1>1, <1>3, <1>4, <1>5 DEF HeldInv, HeldOnce

\* A frame that no slot holds.
LEMMA HeldByNone ==
  ASSUME TypeOK, NEW f
  PROVE  Cardinality(Holders(f)) = 0 <=> \A i \in Slots : cache[i].alloc # f
<1>1. IsFiniteSet(Slots)
  <2>1. 0 \in Int /\ sess_cache_LEN - 1 \in Int
    BY StreamAssumption
  <2> QED
    BY <2>1, FS_Interval DEF Slots
<1>2. Holders(f) \subseteq Slots
  BY DEF Holders
<1>3. IsFiniteSet(Holders(f))
  BY <1>1, <1>2, FS_Subset
<1>4. Cardinality(Holders(f)) = 0 <=> Holders(f) = {}
  BY <1>3, FS_EmptySet
<1> QED
  BY <1>4 DEF Holders

\* A packet is sent and the numbers do not start over: what the cache holds.
LEMMA SendSlots ==
  ASSUME NumbersInv, TypeOK, FrameInv, HeldInv, SlotsInv, SendPacket, sent + 1 < seq_max_NUM
  PROVE  SlotsInv'
<1>1. PICK s \in Slots, slot \in [data : Nat, frame : 0 .. MaxFrames, alloc : 0 .. MaxFrames] :
        /\ s = SlotOf(uint16Add(curSeq, 1))
        /\ slot.data = sent + 1 /\ slot.frame = frames
        /\ slot.alloc = IF nodes' = <<>> THEN frames ELSE 0
        /\ cache'[s] = slot /\ \A i \in Slots : i # s => cache'[i] = cache[i]
        /\ \A f \in Frames : released'[f] = released[f] + (IF cache[s].alloc = f THEN 1 ELSE 0)
        /\ sent' = sent + 1 /\ frames' = frames /\ frames \in Frames /\ nodes # <<>>
  BY TakeSlot
<1>2. /\ sess_cache_LEN \in Nat \ {0} /\ sent \in Nat /\ Slots = 0 .. sess_cache_LEN - 1
      /\ released \in [Frames -> Nat]
      /\ \A i \in Slots : cache[i].data \in Nat /\ cache[i].alloc \in 0 .. MaxFrames
  BY StreamAssumption DEF TypeOK, Slots
<1>a. PICK n \in Nat : n = sent + 1 /\ n = sent'
  BY <1>1, <1>2
<1>3. s = SlotOf(sent + 1)
  <2>1. uint16Add(curSeq, 1) = (sent + 1) % seq_max_NUM
    BY <1>2, NextNumber DEF NumbersInv
  <2>2. \A m \in Nat : \A x \in 0 .. m - 1 : x % m = x
    OBVIOUS
  <2>a. sent + 1 \in 0 .. seq_max_NUM - 1 /\ seq_max_NUM \in Nat
    BY <1>2, SeqAssumption
  <2>3. (sent + 1) % seq_max_NUM = sent + 1
    BY <2>2, <2>a
  <2> QED
    BY <1>1, <2>1, <2>3
<1>4. \A i \in Slots : cache[i].data # 0 =>
        /\ cache[i].data <= sent /\ sent - cache[i].data < sess_cache_LEN /\ SlotOf(cache[i].data) = i
        /\ released[cache[i].frame] = 0 /\ cache[i].frame \in Frames
        /\ cache[i].frame <= frames
  <2>1. \A f \in 1 .. frames : f \in Frames /\ f <= frames
    BY <1>1, StreamAssumption DEF Frames
  <2> QED
    BY <2>1 DEF SlotsInv, HeldInv
<1>5. \A i \in Slots : /\ cache[i].alloc \in {0, cache[i].frame}
                       /\ cache[i].data = 0 => cache[i].alloc = 0
  BY DEF SlotsInv
<1>6. ASSUME NEW i \in Slots, i # s, cache[i].data # 0
      PROVE  n - cache[i].data < sess_cache_LEN
  <2>1. PICK d \in Nat : d = cache[i].data
    BY <1>2
  <2>2. d < n /\ n - d <= sess_cache_LEN
    BY <1>2, <1>4, <1>6, <1>a, <2>1
  <2>3. SlotOf(d) = i /\ SlotOf(n) = s
    BY <1>3, <1>4, <1>6, <1>a, <2>1
  <2>4. ASSUME n - d = sess_cache_LEN PROVE FALSE
    <3>1. d = n - sess_cache_LEN /\ n >= sess_cache_LEN
      BY <1>2, <2>4
    <3>2. SlotOf(n - sess_cache_LEN) = SlotOf(n)
      BY <3>1, SlotsRound
    <3> QED
      BY <1>6, <2>3, <3>1, <3>2
  <2>5. n - d < sess_cache_LEN
    BY <1>2, <2>2, <2>4
  <2> QED
    BY <2>1, <2>5
<1>7. ASSUME NEW i \in Slots, i # s, cache[i].data # 0, cache[s].data # 0
      PROVE  cache[s].data < cache[i].data
  <2>1. PICK d \in Nat, e \in Nat : d = cache[s].data /\ e = cache[i].data
    BY <1>2
  <2>2. d <= sent /\ SlotOf(d) = s
    BY <1>4, <1>7, <2>1
  <2>3. SlotOf(d) = SlotOf(n) /\ d < n
    <3>1. SlotOf(d) = SlotOf(n)
      BY <1>3, <1>a, <2>2
    <3>2. d < n
      BY <1>2, <1>a, <2>2
    <3> QED
      BY <3>1, <3>2
  <2>4. ~(n - d < sess_cache_LEN)
    BY <2>3, SlotsApart
  <2>5. n - e < sess_cache_LEN
    BY <1>6, <1>7, <2>1
  <2>6. d < e
    BY <1>2, <2>4, <2>5
  <2> QED
    BY <2>1, <2>6
<1>8. /\ \A i \in Slots : cache[i].alloc # frames
      /\ released[frames] = 0
  <2>1. frames \in 1 .. frames /\ Cardinality(Holders(frames)) \in Nat
    <3>1. Cardinality(Holders(frames)) \in Nat
      <4>1. PICK x : x = [cache EXCEPT ![s] = slot]
        OBVIOUS
      <4>2. IsFiniteSet(Slots) /\ Holders(frames) \subseteq Slots
        <5>1. 0 \in Int /\ sess_cache_LEN - 1 \in Int
          BY StreamAssumption
        <5> QED
          BY <5>1, FS_Interval DEF Slots, Holders
      <4> QED
        BY <4>2, FS_Subset, FS_CardinalityType
    <3> QED
      BY <1>1, <3>1, StreamAssumption DEF Frames
  <2>2. released[frames] + Cardinality(Holders(frames)) = 0
    BY <1>1, <2>1 DEF HeldInv, HeldOnce, Holders
  <2>3. released[frames] \in Nat
    BY <1>1, <1>2
  <2>4. released[frames] = 0 /\ Cardinality(Holders(frames)) = 0
    BY <2>1, <2>2, <2>3
  <2> QED
    BY <2>4, HeldByNone
<1>9. ASSUME NEW i \in Slots, cache'[i].data # 0
      PROVE  /\ cache'[i].data <= n /\ n - cache'[i].data < sess_cache_LEN
             /\ SlotOf(cache'[i].data) = i
             /\ released'[cache'[i].frame] = 0
  <2>1. CASE i = s
    <3>1. cache'[i] = slot /\ released'[frames] = released[frames]
      BY <1>1, <1>2, <1>8, <2>1
    <3>2. slot.data = n /\ SlotOf(n) = i
      BY <1>1, <1>3, <1>a, <2>1
    <3>3. n - n < sess_cache_LEN
      BY <1>2
    <3> QED
      BY <1>1, <1>8, <3>1, <3>2, <3>3
  <2>2. CASE i # s
    <3>1. cache'[i] = cache[i] /\ cache[i].data # 0
      BY <1>1, <1>9, <2>2
    <3>2. cache[s].alloc # cache[i].frame
      <4>1. CASE cache[s].alloc = 0
        <5>1. cache[i].frame # 0
          BY <1>4, <3>1 DEF Frames
        <5> QED
          BY <4>1, <5>1
      <4>2. CASE cache[s].alloc # 0
        <5>1. cache[s].data # 0 /\ cache[s].alloc = cache[s].frame
          BY <1>5, <4>2
        <5>2. cache[s].frame < cache[i].frame
          BY <1>7, <2>2, <3>1, <4>2, <5>1 DEF SlotsInv
        <5>3. cache[s].frame \in Nat /\ cache[i].frame \in Nat
          BY <1>4, <3>1, <5>1 DEF Frames
        <5> QED
          BY <5>1, <5>2, <5>3
      <4> QED
        BY <4>1, <4>2
    <3>3. released'[cache[i].frame] = 0
      BY <1>1, <1>4, <3>1, <3>2
    <3>4. cache[i].data <= n
      BY <1>2, <1>4, <1>a, <3>1
    <3>5. n - cache[i].data < sess_cache_LEN /\ SlotOf(cache[i].data) = i
      BY <1>4, <1>6, <2>2, <3>1
    <3> QED
      BY <3>1, <3>3, <3>4, <3>5
  <2> QED
    BY <2>1, <2>2
<1>10. ASSUME NEW i \in Slots
       PROVE  /\ cache'[i].alloc \in {0, cache'[i].frame}
              /\ cache'[i].data = 0 => cache'[i].alloc = 0
  <2>1. CASE i = s
    BY <1>1, <1>2, <2>1
  <2>2. CASE i # s
    BY <1>1, <1>5, <2>2
  <2> QED
    BY <2>1, <2>2
<1>11. ASSUME NEW p \in 1 .. n, n - p < sess_cache_LEN
       PROVE  cache'[SlotOf(p)].data = p
  <2>1. CASE p = n
    BY <1>1, <1>3, <1>a, <2>1
  <2>2. CASE p # n
    <3>1. p \in 1 .. sent /\ sent - p < sess_cache_LEN /\ p \in Nat /\ p < n
      BY <1>2, <1>a, <1>11, <2>2
    <3>2. SlotOf(p) # SlotOf(n)
      BY <1>11, <3>1, SlotsApart
    <3>3. SlotOf(p) # s
      BY <1>3, <1>a, <3>2
    <3>4. SlotOf(p) \in Slots
      BY <3>1, SlotType
    <3>5. cache[SlotOf(p)].data = p
      BY <3>1 DEF SlotsInv
    <3> QED
      BY <1>1, <3>3, <3>4, <3>5
  <2> QED
    BY <2>1, <2>2
<1>12. ASSUME NEW i \in Slots, NEW j \in Slots,
              cache'[i].alloc # 0, cache'[i].data < cache'[j].data
       PROVE  cache'[i].frame < cache'[j].frame
  <2>1. cache'[j].data <= sent + 1 /\ cache'[j].data \in Nat
    BY <1>1, <1>2, <1>4
  <2>2. CASE i = s
    BY <1>1, <1>2, <1>12, <2>1, <2>2
  <2>3. CASE i # s /\ j = s
    <3>1. cache[i].alloc # 0 /\ cache[i].data # 0 /\ cache[i].alloc = cache[i].frame
      BY <1>1, <1>5, <1>12, <2>3
    <3>2. cache[i].frame <= frames /\ cache[i].frame # frames /\ cache[i].frame \in Nat
      BY <1>4, <1>8, <3>1 DEF Frames
    <3>3. cache[i].frame < frames
      BY <1>1, <3>2 DEF Frames
    <3> QED
      BY <1>1, <2>3, <3>3
  <2>4. CASE i # s /\ j # s
    <3>1. cache'[i] = cache[i] /\ cache'[j] = cache[j]
      BY <1>1, <2>4
    <3> QED
      BY <1>12, <3>1 DEF SlotsInv
  <2> QED
    BY <2>2, <2>3, <2>4
<1>13. /\ \A i \in Slots : cache'[i].data # 0 =>
            /\ cache'[i].data <= sent' /\ sent' - cache'[i].data < sess_cache_LEN
            /\ SlotOf(cache'[i].data) = i
            /\ released'[cache'[i].frame] = 0
       /\ \A p \in 1 .. sent' :
            sent' - p < sess_cache_LEN => cache'[SlotOf(p)].data = p
  <2>1. n = sent'
    BY <1>a
  <2> QED
    BY <1>9, <1>11, <2>1
<1> QED
  BY <1>10, <1>12, <1>13 DEF SlotsInv

\* A frame comes: none of its packets was sent, and nobody holds it.
LEMMA StartTypes ==
  ASSUME StreamInv, NEW shape \in Shapes, StartFrame(shape)
  PROVE  TypeOK' /\ FrameInv' /\ FramesDelimited' /\ HeldInv'
<1>1. /\ nodes = <<>> /\ frames < MaxFrames /\ frames' = frames + 1 /\ nodes' = shape
      /\ framesize' = Size(shape) /\ sendsize' = 0
      /\ UNCHANGED <<curSeq, maxSeq, cache, sent, released, wire>>
  BY DEF StartFrame
<1>2. shape \in Seq(Nat \ {0}) /\ shape # <<>>
  BY StreamAssumption
<1>3. PICK f : CountsTo(f, shape, Len(shape)) /\ f[Len(shape)] = Size(shape)
  BY <1>2, SizeCounts
<1>4. Size(shape) \in Nat
  <2>1. Len(shape) \in 0 .. Len(shape)
    BY <1>2
  <2> QED
    BY <1>3, <2>1 DEF CountsTo
<1>5. TypeOK /\ frames \in Nat /\ frames + 1 \in Frames /\ frames \in 0 .. MaxFrames
      /\ frames + 1 \in 0 .. MaxFrames
  BY <1>1, StreamAssumption DEF StreamInv, TypeOK, Frames
<1>6. TypeOK'
  BY <1>1, <1>2, <1>4, <1>5 DEF TypeOK
<1>7. FrameInv'
  <2>1. Counts(f)'
    BY <1>1, <1>3 DEF Counts, CountsTo
  <2>2. (\E pre : Counts(pre))'
    BY <2>1
  <2> QED
    BY <1>1, <1>5, <2>2 DEF FrameInv
<1>8. FramesDelimited'
  BY <1>1, <1>2 DEF FramesDelimited
<1>9. HeldInv'
  <2>1. /\ \A i \in Slots : /\ cache[i].alloc \in 0 .. frames
                            /\ cache[i].data # 0 => cache[i].frame \in 1 .. frames
        /\ \A g \in Frames : g > frames => released[g] = 0
        /\ HeldOnce
    BY DEF StreamInv, HeldInv
  <2>2. \A i \in Slots : /\ cache[i].alloc \in 0 .. frames + 1
                         /\ cache[i].data # 0 => cache[i].frame \in 1 .. frames + 1
    BY <1>5, <2>1
  <2>3. \A g \in Frames : g > frames + 1 => released[g] = 0
    BY <1>5, <2>1 DEF Frames
  <2>4. ASSUME NEW g \in 1 .. frames + 1
        PROVE  released[g] + Cardinality({i \in Slots : cache[i].alloc = g})
                 = IF g = frames + 1 THEN 0 ELSE 1
    <3>1. CASE g = frames + 1
      <4>1. released[frames + 1] = 0
        BY <1>5, <2>1
      <4>2. \A i \in Slots : cache[i].alloc # frames + 1
        BY <1>5, <2>1
      <4>3. Cardinality(Holders(frames + 1)) = 0
        BY <1>5, <4>2, HeldByNone
      <4> QED
        BY <3>1, <4>1, <4>3 DEF Holders
    <3>2. CASE g # frames + 1
      <4>1. g \in 1 .. frames
        BY <1>5, <3>2
      <4> QED
        BY <1>1, <2>1, <3>2, <4>1 DEF HeldOnce
    <3> QED
      BY <3>1, <3>2
  <2>5. HeldOnce'
    BY <1>1, <1>2, <2>4 DEF HeldOnce
  <2> QED
    BY <1>1, <2>2, <2>3, <2>5 DEF HeldInv
<1> QED
  BY <1>6, <1>7, <1>8, <1>9

\* A request is answered from the slot of its number.
LEMMA RepostStep ==
  ASSUME StreamInv, NEW p \in Lost, Repost(p)
  PROVE  /\ TypeOK' /\ FramesDelimited' /\ AnswersRecent'
         /\ sent < seq_max_NUM => ResendsLiveData'
<1>1. PICK seq : seq = p % seq_max_NUM
  OBVIOUS
<1>2. PICK slot : slot = cache[SlotOf(seq)]
  OBVIOUS
<1>3. /\ slot.data # 0
      /\ wire' = [kind |-> "repost", asked |-> p, pkt |-> slot.data, frame |-> slot.frame]
      /\ UNCHANGED <<curSeq, maxSeq, cache, sent, frames, nodes, framesize, sendsize, released>>
  BY <1>1, <1>2 DEF Repost, SlotOf
<1>4. TypeOK /\ HeldInv /\ sent \in Nat /\ p \in 1 .. sent
  BY DEF StreamInv, TypeOK, Lost
<1>5. seq \in Nat /\ SlotOf(seq) \in Slots
  <2>1. seq_max_NUM \in Nat \ {0}
    BY SeqAssumption
  <2>2. seq \in Nat
    BY <1>1, <1>4, <2>1, Remainders
  <2> QED
    BY <2>2, SlotType
<1>6. slot.data \in Nat \ {0} /\ slot.frame \in Frames
  <2>1. slot \in [data : Nat, frame : 0 .. MaxFrames, alloc : 0 .. MaxFrames]
    BY <1>2, <1>4, <1>5 DEF TypeOK
  <2>2. slot.frame \in 1 .. frames
    BY <1>2, <1>3, <1>4, <1>5 DEF HeldInv
  <2>3. frames \in 0 .. MaxFrames
    BY <1>4 DEF TypeOK
  <2> QED
    BY <1>3, <2>1, <2>2, <2>3, StreamAssumption DEF Frames
<1>7. TypeOK'
  <2>1. wire' \in [kind : {"repost"}, asked : Nat \ {0}, pkt : Nat \ {0}, frame : Frames]
    <3>1. p \in Nat \ {0}
      BY <1>4
    <3> QED
      BY <1>3, <1>6, <3>1
  <2> QED
    BY <1>3, <1>4, <2>1 DEF TypeOK
<1>8. wire'.kind = "repost" /\ wire'.asked = p /\ wire'.pkt = slot.data
      /\ wire'.frame = slot.frame
  BY <1>3
<1>9. ASSUME sent < seq_max_NUM PROVE SlotsInv /\ slot = cache[SlotOf(p)]
  <2>1. SlotsInv
    BY <1>9 DEF StreamInv
  <2>2. \A m \in Nat : \A x \in 0 .. m - 1 : x % m = x
    OBVIOUS
  <2>3. p \in 0 .. seq_max_NUM - 1 /\ seq_max_NUM \in Nat
    BY <1>4, <1>9, SeqAssumption
  <2>4. seq = p
    BY <1>1, <2>2, <2>3
  <2> QED
    BY <1>2, <2>1, <2>4
<1>10. AnswersRecent'
  <2>1. ASSUME sent < seq_max_NUM, sent - p < sess_cache_LEN
        PROVE  slot.data = p
    BY <1>4, <1>9, <2>1 DEF SlotsInv
  <2> QED
    BY <1>3, <1>8, <2>1 DEF AnswersRecent
<1>11. ASSUME sent < seq_max_NUM PROVE ResendsLiveData'
  <2>1. released[slot.frame] = 0
    BY <1>2, <1>3, <1>5, <1>9, <1>11 DEF SlotsInv
  <2> QED
    BY <1>3, <1>8, <2>1 DEF ResendsLiveData
<1> QED
  BY <1>7, <1>8, <1>10, <1>11 DEF FramesDelimited

\* The inductive invariant at the start.
LEMMA StreamInit == Init => StreamInv
<1> SUFFICES ASSUME Init PROVE StreamInv
  OBVIOUS
<1>1. NumbersInv
  BY NumbersInit
<1>2. nodes = <<>> /\ Len(nodes) = 0 /\ frames = 0 /\ sent = 0 /\ wire = [kind |-> "none"]
      /\ wire.kind = "none" /\ MaxFrames \in Nat
  BY EmptySeq, StreamAssumption DEF Init
<1>3. \A i \in Slots : cache[i].data = 0 /\ cache[i].alloc = 0 /\ cache[i].frame = 0
  BY DEF Init, EmptySlot
<1>4. TypeOK
  <2>1. cache \in [Slots -> [data : Nat, frame : 0 .. MaxFrames, alloc : 0 .. MaxFrames]]
    BY <1>2 DEF Init, EmptySlot
  <2>2. nodes \in Seq(Nat \ {0})
    BY <1>2, EmptySeq
  <2>3. curSeq \in SeqNums /\ maxSeq \in SeqNums
    BY <1>1 DEF NumbersInv
  <2> QED
    BY <1>2, <2>1, <2>2, <2>3 DEF Init, TypeOK
<1>5. FrameInv
  <2> DEFINE pre == [i \in 0 .. 0 |-> 0]
  <2>1. Counts(pre)
    BY <1>2 DEF Counts, Init
  <2> QED
    BY <1>2, <2>1 DEF FrameInv
<1>6. FramesDelimited /\ ResendsLiveData /\ AnswersRecent
  BY <1>2 DEF FramesDelimited, ResendsLiveData, AnswersRecent
<1>7. HeldInv
  BY <1>2, <1>3 DEF HeldInv, HeldOnce, Init
<1>8. SlotsInv
  BY <1>2, <1>3 DEF SlotsInv
<1> QED
  BY <1>1, <1>4, <1>5, <1>6, <1>7, <1>8 DEF StreamInv

\* ... and in every step.
LEMMA StreamNext == StreamInv /\ [Next]_vars => StreamInv'
<1> SUFFICES ASSUME StreamInv, [Next]_vars PROVE StreamInv'
  OBVIOUS
<1>1. NumbersInv'
  BY NumbersNext DEF StreamInv
<1>2. ASSUME NEW shape \in Shapes, StartFrame(shape) PROVE StreamInv'
  <2>1. UNCHANGED <<cache, sent, released, wire>>
    BY <1>2 DEF StartFrame
  <2>2. TypeOK' /\ FrameInv' /\ FramesDelimited' /\ HeldInv'
    BY <1>2, StartTypes
  <2>3. sent' < seq_max_NUM => SlotsInv' /\ ResendsLiveData'
    BY <2>1 DEF StreamInv, SlotsInv, ResendsLiveData
  <2>4. AnswersRecent'
    BY <2>1 DEF StreamInv, AnswersRecent
  <2> QED
    BY <1>1, <2>2, <2>3, <2>4 DEF StreamInv
<1>3. CASE SendPacket
  <2>1. wire'.kind = "post" /\ sent' = sent + 1
    BY <1>3 DEF SendPacket
  <2>2. TypeOK' /\ FrameInv' /\ FramesDelimited'
    BY <1>1, <1>3, SendTypes DEF StreamInv
  <2>3. HeldInv'
    BY <1>3, SendHeld DEF StreamInv
  <2>4. ASSUME sent' < seq_max_NUM PROVE SlotsInv'
    <3>1. sent + 1 < seq_max_NUM /\ sent < seq_max_NUM
      BY <2>1, <2>4, SeqAssumption DEF StreamInv, NumbersInv
    <3> QED
      BY <1>3, <3>1, SendSlots DEF StreamInv
  <2>5. AnswersRecent' /\ ResendsLiveData'
    BY <2>1 DEF AnswersRecent, ResendsLiveData
  <2> QED
    BY <1>1, <2>2, <2>3, <2>4, <2>5 DEF StreamInv
<1>4. ASSUME NEW p \in Lost, Repost(p) PROVE StreamInv'
  <2>1. UNCHANGED <<cache, sent, frames, nodes, framesize, sendsize, released>>
    BY <1>4 DEF Repost
  <2>2. /\ TypeOK' /\ FramesDelimited' /\ AnswersRecent'
        /\ sent < seq_max_NUM => ResendsLiveData'
    BY <1>4, RepostStep
  <2>3. FrameInv'
    <3>1. \A pre : Counts(pre) => Counts(pre)'
      BY <2>1 DEF Counts
    <3> QED
      BY <2>1, <3>1 DEF StreamInv, FrameInv
  <2>4. HeldInv'
    BY <2>1 DEF StreamInv, HeldInv, HeldOnce
  <2>5. sent' < seq_max_NUM => SlotsInv'
    BY <2>1 DEF StreamInv, SlotsInv
  <2> QED
    BY <1>1, <2>1, <2>2, <2>3, <2>4, <2>5 DEF StreamInv
<1>5. CASE UNCHANGED vars
  <2>1. UNCHANGED <<curSeq, maxSeq, cache, sent, frames, nodes, framesize, sendsize, released, wire>>
    BY <1>5 DEF vars
  <2>2. TypeOK' /\ FramesDelimited'
    BY <2>1 DEF StreamInv, TypeOK, FramesDelimited
  <2>3. FrameInv'
    <3>1. \A pre : Counts(pre) => Counts(pre)'
      BY <2>1 DEF Counts
    <3> QED
      BY <2>1, <3>1 DEF StreamInv, FrameInv
  <2>4. HeldInv'
    BY <2>1 DEF StreamInv, HeldInv, HeldOnce
  <2>5. sent' < seq_max_NUM => SlotsInv' /\ ResendsLiveData'
    BY <2>1 DEF StreamInv, SlotsInv, ResendsLiveData
  <2>6. AnswersRecent'
    BY <2>1 DEF StreamInv, AnswersRecent
  <2> QED
    BY <1>1, <2>2, <2>3, <2>4, <2>5, <2>6 DEF StreamInv
<1> QED
  BY <1>2, <1>3, <1>4, <1>5 DEF Next

\* The inductive invariant of a send stream.
LEMMA StreamInvariant == Spec => []StreamInv
  BY StreamInit, StreamNext, PTL DEF Spec

\* Every variable of a send stream keeps its type.
THEOREM StreamTypes == Spec => []TypeOK
<1>1. StreamInv => TypeOK
  BY DEF StreamInv
<1> QED
  BY <1>1, StreamInvariant, PTL

\* For all lengths of nodes and packets and every size of the cache, a frame
\* that was sent is held by one slot or was given back once
\* (huage_sendstream.cpp:156-180, 297-301).
THEOREM FreedOnce == Spec => []HeldOnce
<1>1. StreamInv => HeldOnce
  BY DEF StreamInv, HeldInv
<1> QED
  BY <1>1, StreamInvariant, PTL

\* For all lengths of nodes and packets, the last packet of a frame, and no
\* earlier one, is marked as its end (huage_sendstream.cpp:245-259).
THEOREM EndsMarked == Spec => []FramesDelimited
<1>1. StreamInv => FramesDelimited
  BY DEF StreamInv
<1> QED
  BY <1>1, StreamInvariant, PTL

\* Until the numbers start over, a request for one of the last packets, as
\* many as the cache has slots, is answered with that packet
\* (huage_sendstream.cpp:92-96).
THEOREM RecentAnswered == Spec => []AnswersRecent
<1>1. StreamInv => AnswersRecent
  BY DEF StreamInv
<1> QED
  BY <1>1, StreamInvariant, PTL

\* Until the numbers start over, what is sent again was not freed before
\* (huage_sendstream.cpp:92-111).
THEOREM FirstRoundAlive == Spec => []ResendsFirstRound
<1>1. StreamInv => ResendsFirstRound
  BY DEF StreamInv, ResendsFirstRound
<1> QED
  BY <1>1, StreamInvariant, PTL
=============================================================================
