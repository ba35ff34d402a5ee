---------------------------- MODULE HgBuf_proofs ----------------------------
(***************************************************************************)
(* What the operations on one buffer do to the stretch of the stream it    *)
(* holds.  The proofs about channels and sockets cite these lemmas and     *)
(* never look into a buffer again.                                         *)
(***************************************************************************)
EXTENDS HgBuf, SequenceTheorems, WellFoundedInduction, TLAPS

\* The types of the fields of a buffer, and of the byte it starts with.
LEMMA BufferFields ==
  ASSUME NEW cap \in Nat \ {0}, NEW b \in Buffers(cap)
  PROVE  /\ b.start \in 0 .. cap - 1 /\ b.end \in 0 .. cap - 1 /\ b.len \in 0 .. cap
         /\ b.len \in Nat /\ First(b) \in Int
<1>1. PICK st \in 0 .. cap - 1, en \in 0 .. cap - 1, ln \in 0 .. cap,
           m \in [0 .. cap - 1 -> Nat \cup {NoByte}] :
             b.start = st /\ b.end = en /\ b.len = ln /\ b.mem = m
  BY DEF Buffers
<1>2. m[st] \in Int
  BY DEF NoByte
<1> QED
  BY <1>1, <1>2 DEF First

\* Hg_GetSingleOrIdleBuf on a new block and the copy of n bytes to it.
LEMMA NewBlockHolds ==
  ASSUME NEW cap \in Nat \ {0}, NEW pos \in Nat, NEW n \in 1 .. cap
  PROVE  LET r == AppendBytes(NewBuf(cap), pos, n, cap)
         IN  /\ r \in Buffers(cap) /\ r.len = n
             /\ r.mem[r.start] = pos
             /\ BlockHolds(r, pos, cap)
  BY DEF AppendBytes, NewBuf, Buffers, BlockHolds, Wrap, NoByte

\* The copy of n more bytes to the right of a block that has room for them.
LEMMA AppendHolds ==
  ASSUME NEW cap \in Nat \ {0}, NEW b \in Buffers(cap), NEW pos \in Nat,
         BlockHolds(b, pos, cap), NEW n \in 1 .. RightRoom(b, cap)
  PROVE  LET r == AppendBytes(b, pos + b.len, n, cap)
         IN  /\ r \in Buffers(cap) /\ r.len = b.len + n
             /\ r.mem[r.start] = pos
             /\ BlockHolds(r, pos, cap)
<1> SUFFICES ASSUME NEW r, r = AppendBytes(b, pos + b.len, n, cap)
             PROVE  /\ r \in Buffers(cap) /\ r.len = b.len + n
                    /\ r.mem[r.start] = pos
                    /\ BlockHolds(r, pos, cap)
  OBVIOUS
<1>1. PICK st \in 0 .. cap - 1, en \in 0 .. cap - 1, ln \in 0 .. cap,
           m \in [0 .. cap - 1 -> Nat \cup {NoByte}] :
             b.start = st /\ b.end = en /\ b.len = ln /\ b.mem = m
  BY DEF Buffers
<1>2. n \in 1 .. cap /\ st + ln + n <= cap /\ en = st + ln /\ ln > 0
  BY <1>1 DEF RightRoom, BlockHolds, Wrap
<1>3. \A k \in 0 .. ln - 1 : m[st + k] = pos + k
  BY <1>1 DEF BlockHolds
<1>4. r = [start |-> st, end |-> Wrap(en + n, cap), len |-> ln + n,
           mem |-> [c \in 0 .. cap - 1 |->
                      IF c >= en /\ c < en + n THEN pos + ln + (c - en) ELSE m[c]]]
  BY <1>1 DEF AppendBytes
<1> DEFINE m2 == r.mem
<1>5. \A c \in 0 .. cap - 1 :
        m2[c] = IF c >= en /\ c < en + n THEN pos + ln + (c - en) ELSE m[c]
  BY <1>4
<1>6. m2 \in [0 .. cap - 1 -> Nat \cup {NoByte}]
  BY <1>2, <1>4
<1>7. Wrap(en + n, cap) \in 0 .. cap - 1 /\ Wrap(en + n, cap) = Wrap(st + (ln + n), cap)
  BY <1>2 DEF Wrap
<1>8. r \in Buffers(cap)
  BY <1>2, <1>4, <1>6, <1>7 DEF Buffers
<1> HIDE DEF m2
<1>9. ASSUME NEW k \in 0 .. ln + n - 1
      PROVE  m2[st + k] = pos + k
  <2>1. st + k \in 0 .. cap - 1
    BY <1>2
  <2>2. CASE k < ln
    <3>1. k \in 0 .. ln - 1 /\ ~(st + k >= en)
      BY <1>2, <2>2
    <3> QED
      BY <1>3, <1>5, <2>1, <3>1
  <2>3. CASE k >= ln
    <3>1. /\ st + k >= en /\ st + k < en + n
          /\ pos + ln + ((st + k) - en) = pos + k
      BY <1>2, <2>3
    <3> QED
      BY <1>5, <2>1, <3>1
  <2> QED
    BY <2>2, <2>3
<1>10. m2[st] = pos
  BY <1>2, <1>9
<1>11. r.start = st /\ r.len = ln + n /\ r.end = Wrap(en + n, cap) /\ r.mem = m2
  BY <1>4 DEF m2
<1>12. BlockHolds(r, pos, cap)
  <2>1. ASSUME NEW k \in 0 .. r.len - 1
        PROVE  r.mem[r.start + k] = pos + k
    <3>1. k \in 0 .. ln + n - 1
      BY <1>11
    <3>2. m2[st + k] = pos + k
      BY <1>9, <3>1
    <3> QED
      BY <1>11, <3>2
  <2>2. 0 < ln + n /\ st + (ln + n) <= cap
    BY <1>2
  <2>3. 0 < r.len /\ r.start + r.len <= cap
    BY <1>11, <2>2
  <2>4. r.end = Wrap(r.start + r.len, cap)
    BY <1>7, <1>11
  <2> QED
    BY <2>1, <2>3, <2>4 DEF BlockHolds
<1> QED
  BY <1>1, <1>8, <1>10, <1>11, <1>12

\* A block of which the first n bytes, not all, were moved away.
LEMMA SkipBlockHolds ==
  ASSUME NEW cap \in Nat \ {0}, NEW b \in Buffers(cap), NEW pos \in Nat,
         BlockHolds(b, pos, cap), NEW n \in 0 .. b.len - 1
  PROVE  LET r == Skip(b, n, cap)
         IN  /\ r \in Buffers(cap) /\ r.len = b.len - n
             /\ r.mem[r.start] = pos + n
             /\ BlockHolds(r, pos + n, cap)
<1> DEFINE r == Skip(b, n, cap)
<1>1. /\ r \in Buffers(cap) /\ r.len = b.len - n /\ r.start = b.start + n
      /\ r.mem = b.mem /\ r.end = b.end
  BY DEF Skip, Buffers, BlockHolds, Wrap
<1>2. \A k \in 0 .. r.len - 1 : r.mem[r.start + k] = pos + n + k
  <2> SUFFICES ASSUME NEW k \in 0 .. r.len - 1
               PROVE  r.mem[r.start + k] = pos + n + k
    OBVIOUS
  <2>1. n + k \in 0 .. b.len - 1 /\ r.start + k = b.start + (n + k)
    BY <1>1 DEF Buffers
  <2> QED
    BY <2>1, <1>1 DEF BlockHolds, Buffers
<1> QED
  BY <1>1, <1>2 DEF BlockHolds, Buffers

\* Hg_Buf_WriteN accepts as much as there is room for, and no more.
LEMMA AcceptedBound ==
  ASSUME NEW cap \in Nat \ {0}, NEW b \in Buffers(cap), NEW pos \in Nat,
         RingHolds(b, pos, cap), NEW n \in Nat
  PROVE  /\ Accepted(b, n, cap) \in 0 .. n
         /\ Accepted(b, n, cap) = Lesser(n, cap - b.len)
  BY DEF Accepted, Lesser, Room, RingHolds, Buffers, Wrap

\* Hg_Buf_WriteN from a block whose first byte is the one the circle lacks.
LEMMA WriteHolds ==
  ASSUME NEW cap \in Nat \ {0}, NEW b \in Buffers(cap), NEW pos \in Nat,
         RingHolds(b, pos, cap),
         NEW bcap \in Nat \ {0}, NEW s \in Buffers(bcap),
         BlockHolds(s, pos + b.len, bcap)
  PROVE  LET r == WriteN(b, s.mem, s.start, s.len, cap)
         IN  /\ r \in Buffers(cap)
             /\ r.len = b.len + Accepted(b, s.len, cap)
             /\ RingHolds(r, pos, cap)
<1> SUFFICES ASSUME NEW r, r = WriteN(b, s.mem, s.start, s.len, cap)
             PROVE  /\ r \in Buffers(cap)
                    /\ r.len = b.len + Accepted(b, s.len, cap)
                    /\ RingHolds(r, pos, cap)
  OBVIOUS
<1>1. PICK st \in 0 .. cap - 1, en \in 0 .. cap - 1, ln \in 0 .. cap,
           m \in [0 .. cap - 1 -> Nat \cup {NoByte}] :
             b.start = st /\ b.end = en /\ b.len = ln /\ b.mem = m
  BY DEF Buffers
<1>2. PICK sst \in 0 .. bcap - 1, sln \in 0 .. bcap,
           sm \in [0 .. bcap - 1 -> Nat \cup {NoByte}] :
             s.start = sst /\ s.len = sln /\ s.mem = sm
  BY DEF Buffers
<1>3. en = Wrap(st + ln, cap) /\ \A k \in 0 .. ln - 1 : m[Wrap(st + k, cap)] = pos + k
  BY <1>1 DEF RingHolds, ByteAt
<1>4. \A d \in 0 .. sln - 1 : sm[sst + d] = pos + ln + d
  BY <1>1, <1>2 DEF BlockHolds
<1>5. PICK total \in 0 .. sln : Accepted(b, s.len, cap) = total /\ total <= cap - ln
  <2>1. Accepted(b, s.len, cap) = Lesser(sln, cap - ln)
    <3>1. sln \in Nat
      OBVIOUS
    <3>2. Accepted(b, sln, cap) = Lesser(sln, cap - b.len)
      BY <3>1, AcceptedBound
    <3> QED
      BY <1>1, <1>2, <3>2
  <2>2. Lesser(sln, cap - ln) \in 0 .. sln /\ Lesser(sln, cap - ln) <= cap - ln
    BY DEF Lesser
  <2> QED
    BY <2>1, <2>2
<1> DEFINE D(c) == IF c >= en THEN c - en ELSE cap - en + c
           m2 == [c \in 0 .. cap - 1 |-> IF D(c) < total THEN sm[sst + D(c)] ELSE m[c]]
<1>6. r = [start |-> st, end |-> Wrap(en + total, cap), len |-> ln + total, mem |-> m2]
  BY <1>1, <1>2, <1>5 DEF WriteN, CellDistance
<1>7. \A c \in 0 .. cap - 1 : D(c) \in Nat
  OBVIOUS
<1>8. \A c \in 0 .. cap - 1 : m2[c] = IF D(c) < total THEN sm[sst + D(c)] ELSE m[c]
  OBVIOUS
<1>9. m2 = [c \in 0 .. cap - 1 |-> m2[c]]
  OBVIOUS
<1> HIDE DEF m2
<1>10. \A c \in 0 .. cap - 1 :
         m2[c] = IF D(c) < total THEN pos + ln + D(c) ELSE m[c]
  <2> HIDE DEF D
  <2> SUFFICES ASSUME NEW c \in 0 .. cap - 1
               PROVE  m2[c] = IF D(c) < total THEN pos + ln + D(c) ELSE m[c]
    OBVIOUS
  <2>1. D(c) < total => D(c) \in 0 .. sln - 1
    BY <1>7
  <2> QED
    BY <1>4, <1>8, <2>1
<1>11. m2 \in [0 .. cap - 1 -> Nat \cup {NoByte}]
  <2> HIDE DEF D
  <2>1. \A c \in 0 .. cap - 1 : m2[c] \in Nat \cup {NoByte}
    BY <1>7, <1>10
  <2> QED
    BY <1>9, <2>1
<1>12. /\ Wrap(en + total, cap) \in 0 .. cap - 1 /\ ln + total \in 0 .. cap
       /\ Wrap(en + total, cap) = Wrap(st + (ln + total), cap)
  BY <1>3, <1>5 DEF Wrap
<1>13. ASSUME NEW k \in 0 .. ln + total - 1
       PROVE  m2[Wrap(st + k, cap)] = pos + k
  <2>1. PICK c \in 0 .. cap - 1 : c = Wrap(st + k, cap)
    <3>1. k \in 0 .. cap - 1
      BY <1>5
    <3>2. Wrap(st + k, cap) \in 0 .. cap - 1
      BY <3>1 DEF Wrap
    <3> QED
      BY <3>2
  <2>2. CASE k < ln
    <3>1. ~(D(c) < total)
      BY <1>3, <1>5, <2>1, <2>2 DEF Wrap
    <3>2. k \in 0 .. ln - 1
      BY <2>2
    <3>3. m[c] = pos + k
      BY <1>3, <2>1, <3>2
    <3> HIDE DEF D
    <3> QED
      BY <1>10, <2>1, <3>1, <3>3
  <2>3. CASE k >= ln
    <3>1. D(c) = k - ln /\ D(c) < total
      BY <1>3, <1>5, <2>1, <2>3 DEF Wrap
    <3>2. pos + ln + (k - ln) = pos + k
      OBVIOUS
    <3> HIDE DEF D
    <3> QED
      BY <1>10, <2>1, <3>1, <3>2
  <2> QED
    BY <2>2, <2>3
<1>14. r \in Buffers(cap)
  BY <1>6, <1>11, <1>12 DEF Buffers
<1> QED
  BY <1>1, <1>5, <1>6, <1>12, <1>13, <1>14 DEF RingHolds, ByteAt

\* A position that wraps round once is a position of the circle.
LEMMA WrapBound ==
  ASSUME NEW cap \in Nat \ {0}, NEW s \in Nat, NEW n \in Nat, s < cap, n <= cap
  PROVE  Wrap(s + n, cap) \in 0 .. cap - 1
<1>1. CASE s + n >= cap
  BY <1>1 DEF Wrap
<1>2. CASE ~(s + n >= cap)
  BY <1>2 DEF Wrap
<1> QED
  BY <1>1, <1>2

\* Moving on by n and then by k inside one turn is moving on by n + k.
LEMMA WrapTwice ==
  ASSUME NEW cap \in Nat \ {0}, NEW st \in 0 .. cap - 1, NEW ln \in 0 .. cap,
         NEW n \in 0 .. ln, NEW k \in 0 .. ln - n
  PROVE  Wrap(Wrap(st + n, cap) + k, cap) = Wrap(st + (n + k), cap)
<1>1. /\ cap \in Int /\ st \in Int /\ n \in Int /\ k \in Int
      /\ 0 <= st /\ st < cap /\ 0 <= n /\ 0 <= k /\ n + k <= cap
  OBVIOUS
<1>2. CASE st + n >= cap
  <2>1. Wrap(st + n, cap) = st + n - cap /\ st + n - cap + k < cap
    BY <1>1, <1>2 DEF Wrap
  <2>2. Wrap(st + n - cap + k, cap) = st + n - cap + k
    BY <1>1, <2>1 DEF Wrap
  <2>3. st + (n + k) >= cap /\ Wrap(st + (n + k), cap) = st + (n + k) - cap
    BY <1>1, <1>2 DEF Wrap
  <2> QED
    BY <1>1, <2>1, <2>2, <2>3
<1>3. CASE ~(st + n >= cap)
  <2>1. Wrap(st + n, cap) = st + n
    BY <1>1, <1>3 DEF Wrap
  <2>2. st + n + k = st + (n + k)
    BY <1>1
  <2> QED
    BY <2>1, <2>2
<1> QED
  BY <1>2, <1>3

\* Hg_Buf_ReadN moves the start over the bytes it has read.
LEMMA SkipHolds ==
  ASSUME NEW cap \in Nat \ {0}, NEW b \in Buffers(cap), NEW pos \in Nat,
         RingHolds(b, pos, cap), NEW n \in 0 .. b.len
  PROVE  LET r == Skip(b, n, cap)
         IN  /\ r \in Buffers(cap) /\ r.len = b.len - n
             /\ RingHolds(r, pos + n, cap)
<1> DEFINE r == Skip(b, n, cap)
           st == b.start
           ln == b.len
<1>1. /\ st \in 0 .. cap - 1 /\ ln \in 0 .. cap /\ b.end \in 0 .. cap - 1
      /\ b.mem \in [0 .. cap - 1 -> Nat \cup {NoByte}]
      /\ b.end = Wrap(st + ln, cap)
      /\ \A k \in 0 .. ln - 1 : b.mem[Wrap(st + k, cap)] = pos + k
  BY DEF RingHolds, Buffers, ByteAt
<1>2. n \in 0 .. ln
  OBVIOUS
<1>3. r = [start |-> Wrap(st + n, cap), end |-> b.end, len |-> ln - n, mem |-> b.mem]
  BY DEF Skip
<1>4. /\ r.start = Wrap(st + n, cap) /\ r.len = ln - n
      /\ r.mem = b.mem /\ r.end = b.end
  BY <1>3
<1>5. Wrap(st + n, cap) \in 0 .. cap - 1 /\ ln - n \in 0 .. cap
  <2>1. st \in Nat /\ n \in Nat /\ n <= cap /\ st < cap
    BY <1>1, <1>2
  <2> QED
    BY <1>1, <1>2, <2>1, WrapBound
<1>6. r \in Buffers(cap)
  BY <1>1, <1>3, <1>5 DEF Buffers
<1> HIDE DEF r, st, ln
<1>7. r.end = Wrap(r.start + r.len, cap)
  <2>1. Wrap(Wrap(st + n, cap) + (ln - n), cap) = Wrap(st + (n + (ln - n)), cap)
    <3>1. ln - n \in 0 .. ln - n
      BY <1>1, <1>2
    <3> QED
      BY <1>1, <1>2, <3>1, WrapTwice
  <2>2. n + (ln - n) = ln
    BY <1>1, <1>2
  <2> QED
    BY <1>1, <1>4, <2>1, <2>2
<1>8. ASSUME NEW k \in 0 .. r.len - 1
      PROVE  ByteAt(r, k, cap) = pos + n + k
  <2>1. /\ k \in 0 .. ln - n /\ n + k \in 0 .. ln - 1
        /\ pos + (n + k) = pos + n + k
    BY <1>1, <1>2, <1>4
  <2>2. Wrap(Wrap(st + n, cap) + k, cap) = Wrap(st + (n + k), cap)
    BY <1>1, <1>2, <2>1, WrapTwice
  <2>3. b.mem[Wrap(st + (n + k), cap)] = pos + (n + k)
    BY <1>1, <2>1
  <2> QED
    BY <1>4, <2>1, <2>2, <2>3 DEF ByteAt
<1>9. r.len = b.len - n
  BY <1>4 DEF ln
<1> QED
  BY <1>6, <1>7, <1>8, <1>9 DEF RingHolds, r

\* Putting back what was just read restores the circle.
LEMMA PutBackSkip ==
  ASSUME NEW cap \in Nat \ {0}, NEW b \in Buffers(cap), NEW n \in 0 .. b.len
  PROVE  PutBack(Skip(b, n, cap), n, cap) = b
  BY DEF PutBack, Skip, Wrap, Buffers

\* A circle to which n bytes are put back is a circle if they have room.
LEMMA PutBackType ==
  ASSUME NEW cap \in Nat \ {0}, NEW b \in Buffers(cap), NEW n \in Nat,
         b.len + n <= cap
  PROVE  PutBack(b, n, cap) \in Buffers(cap)
  BY DEF PutBack, Wrap, Buffers

-----------------------------------------------------------------------------
(* Chains.                                                                 *)

\* A block at the right that goes on where the chain ends.
LEMMA ChainAppend ==
  ASSUME NEW cap \in Nat \ {0}, NEW chain \in Seq(Buffers(cap)),
         NEW from \in Nat, NEW to \in Nat, ChainHolds(chain, from, to, cap),
         NEW b \in Buffers(cap), BlockHolds(b, to, cap), First(b) = to
  PROVE  /\ Append(chain, b) \in Seq(Buffers(cap))
         /\ ChainHolds(Append(chain, b), from, to + b.len, cap)
<1> DEFINE n == Len(chain)
<1> SUFFICES ASSUME NEW c, c = Append(chain, b)
             PROVE  c \in Seq(Buffers(cap)) /\ ChainHolds(c, from, to + b.len, cap)
  OBVIOUS
<1>1. /\ c \in Seq(Buffers(cap)) /\ c # <<>> /\ Len(c) = n + 1
      /\ \A i \in 1 .. n : c[i] = chain[i]
      /\ c[n + 1] = b
      /\ n \in Nat /\ (chain = <<>> <=> n = 0)
  BY AppendProperties, EmptySeq, LenProperties
<1> HIDE DEF n
<1>2. /\ \A i \in 1 .. n : BlockHolds(chain[i], First(chain[i]), cap)
      /\ \A i \in 1 .. n - 1 : First(chain[i + 1]) = First(chain[i]) + chain[i].len
      /\ n = 0 => from = to
      /\ n # 0 => First(chain[1]) = from /\ First(chain[n]) + chain[n].len = to
  BY <1>1 DEF ChainHolds, n
<1>3. \A i \in 1 .. n + 1 : BlockHolds(c[i], First(c[i]), cap)
  <2> SUFFICES ASSUME NEW i \in 1 .. n + 1 PROVE BlockHolds(c[i], First(c[i]), cap)
    OBVIOUS
  <2>1. i \in 1 .. n \/ i = n + 1
    BY <1>1
  <2> QED
    BY <1>1, <1>2, <2>1
<1>4. \A i \in 1 .. n : First(c[i + 1]) = First(c[i]) + c[i].len
  <2> SUFFICES ASSUME NEW i \in 1 .. n PROVE First(c[i + 1]) = First(c[i]) + c[i].len
    OBVIOUS
  <2>1. CASE i = n
    BY <1>1, <1>2, <2>1
  <2>2. CASE i # n
    <3>1. i \in 1 .. n - 1 /\ i + 1 \in 1 .. n
      BY <1>1, <2>2
    <3> QED
      BY <1>1, <1>2, <3>1
  <2> QED
    BY <2>1, <2>2
<1>5. First(c[1]) = from /\ First(c[n + 1]) + c[n + 1].len = to + b.len
  <2>1. CASE n = 0
    BY <1>1, <1>2, <2>1
  <2>2. CASE n # 0
    <3>1. 1 \in 1 .. n
      BY <1>1, <2>2
    <3> QED
      BY <1>1, <1>2, <2>2, <3>1
  <2> QED
    BY <2>1, <2>2
<1>6. Len(c) - 1 = n
  BY <1>1
<1>7. ASSUME NEW i \in 1 .. n + 1
      PROVE  First(c[i]) + c[i].len <= to + b.len
  <2>1. b.len \in Nat
    BY BufferFields
  <2>2. CASE i = n + 1
    BY <1>1, <2>1, <2>2
  <2>3. CASE i # n + 1
    <3>1. i \in 1 .. n
      BY <1>1, <2>3
    <3>2. chain[i] \in Buffers(cap)
      BY <3>1, ElementOfSeq DEF n
    <3>3. First(chain[i]) \in Int /\ chain[i].len \in Nat
      BY <3>2, BufferFields
    <3>4. First(chain[i]) + chain[i].len <= to
      BY <3>1 DEF ChainHolds, n
    <3>5. c[i] = chain[i]
      BY <1>1, <3>1
    <3>6. \A x \in Int, l, k \in Nat : x + l <= to => x + l <= to + k
      OBVIOUS
    <3> QED
      BY <2>1, <3>3, <3>4, <3>5, <3>6
  <2> QED
    BY <2>2, <2>3
<1> QED
  BY <1>1, <1>3, <1>4, <1>5, <1>6, <1>7 DEF ChainHolds

\* n more bytes in the block at the right.
LEMMA ChainExtend ==
  ASSUME NEW cap \in Nat \ {0}, NEW chain \in Seq(Buffers(cap)), chain # <<>>,
         NEW from \in Nat, NEW to \in Nat, ChainHolds(chain, from, to, cap),
         NEW n \in Nat, NEW r \in Buffers(cap), r.len = chain[Len(chain)].len + n,
         First(r) = First(chain[Len(chain)]), BlockHolds(r, First(r), cap)
  PROVE  LET c == [chain EXCEPT ![Len(chain)] = r]
         IN  /\ c \in Seq(Buffers(cap)) /\ Len(c) = Len(chain)
             /\ ChainHolds(c, from, to + n, cap)
<1> DEFINE m == Len(chain)
<1> SUFFICES ASSUME NEW c, c = [chain EXCEPT ![m] = r]
             PROVE  /\ c \in Seq(Buffers(cap)) /\ Len(c) = m
                    /\ ChainHolds(c, from, to + n, cap)
  OBVIOUS
<1>1. m \in Nat \ {0} /\ m \in 1 .. m
  BY EmptySeq, LenProperties
<1>2. /\ c \in Seq(Buffers(cap)) /\ Len(c) = m
      /\ \A i \in 1 .. m : c[i] = IF i = m THEN r ELSE chain[i]
  BY <1>1, ExceptSeq
<1>3. c # <<>>
  BY <1>1, <1>2, EmptySeq
<1> HIDE DEF m
<1>4. /\ \A i \in 1 .. m : BlockHolds(chain[i], First(chain[i]), cap)
      /\ \A i \in 1 .. m - 1 : First(chain[i + 1]) = First(chain[i]) + chain[i].len
      /\ First(chain[1]) = from /\ First(chain[m]) + chain[m].len = to
  BY DEF ChainHolds, m
<1>5. r.len = chain[m].len + n /\ First(r) = First(chain[m])
  BY DEF m
<1>6. \A i \in 1 .. m : First(c[i]) = First(chain[i])
  BY <1>2, <1>5
<1>7. \A i \in 1 .. m : BlockHolds(c[i], First(c[i]), cap)
  BY <1>2, <1>4, <1>5, <1>6
<1>8. \A i \in 1 .. m - 1 : First(c[i + 1]) = First(c[i]) + c[i].len
  <2> SUFFICES ASSUME NEW i \in 1 .. m - 1 PROVE First(c[i + 1]) = First(c[i]) + c[i].len
    OBVIOUS
  <2>1. i \in 1 .. m /\ i # m /\ i + 1 \in 1 .. m
    BY <1>1
  <2> QED
    BY <1>2, <1>4, <1>6, <2>1
<1>9. First(c[1]) = from /\ First(c[m]) + c[m].len = to + n
  <2>1. 1 \in 1 .. m
    BY <1>1
  <2>2. chain[m].len \in Nat /\ First(chain[m]) \in Int
    <3>1. chain[m] \in Buffers(cap)
      BY <1>1, ElementOfSeq DEF m
    <3> QED
      BY <3>1, BufferFields
  <2>3. c[m].len = chain[m].len + n /\ First(c[m]) = First(chain[m])
    BY <1>1, <1>2, <1>5
  <2>4. First(c[1]) = from
    BY <1>4, <1>6, <2>1
  <2>5. First(chain[m]) + (chain[m].len + n) = to + n
    <3>1. First(chain[m]) + chain[m].len = to
      BY <1>4
    <3>2. \A p \in Int, l \in Nat : p + l = to => p + (l + n) = to + n
      OBVIOUS
    <3> QED
      BY <2>2, <3>1, <3>2
  <2> QED
    BY <2>3, <2>4, <2>5
<1>10. ASSUME NEW i \in 1 .. m
       PROVE  First(c[i]) + c[i].len <= to + n
  <2>1. chain[i] \in Buffers(cap)
    BY ElementOfSeq DEF m
  <2>2. First(chain[i]) \in Int /\ chain[i].len \in Nat
    BY <2>1, BufferFields
  <2>3. First(chain[i]) + chain[i].len <= to
    BY DEF ChainHolds, m
  <2>4. c[i].len <= chain[i].len + n /\ c[i].len \in Nat
    BY <1>2, <1>5, <2>2
  <2>5. First(c[i]) = First(chain[i])
    BY <1>6
  <2>6. \A x \in Int, l, k \in Nat : x + l <= to /\ k <= l + n => x + k <= to + n
    OBVIOUS
  <2> QED
    BY <2>2, <2>3, <2>4, <2>5, <2>6
<1> QED
  BY <1>2, <1>3, <1>7, <1>8, <1>9, <1>10 DEF ChainHolds

\* The left block is moved away.
LEMMA ChainTail ==
  ASSUME NEW cap \in Nat \ {0}, NEW chain \in Seq(Buffers(cap)), chain # <<>>,
         NEW from \in Nat, NEW to \in Nat, ChainHolds(chain, from, to, cap)
  PROVE  /\ Head(chain) \in Buffers(cap) /\ BlockHolds(Head(chain), from, cap)
         /\ Tail(chain) \in Seq(Buffers(cap)) /\ Len(Tail(chain)) = Len(chain) - 1
         /\ ChainHolds(Tail(chain), from + Head(chain).len, to, cap)
<1> DEFINE m == Len(chain)
<1> SUFFICES ASSUME NEW c, c = Tail(chain), NEW h, h = Head(chain)
             PROVE  /\ h \in Buffers(cap) /\ BlockHolds(h, from, cap)
                    /\ c \in Seq(Buffers(cap)) /\ Len(c) = m - 1
                    /\ ChainHolds(c, from + h.len, to, cap)
  OBVIOUS
<1>1. m \in Nat \ {0}
  BY EmptySeq, LenProperties
<1>2. /\ h \in Buffers(cap) /\ h = chain[1]
      /\ c \in Seq(Buffers(cap)) /\ Len(c) = m - 1
      /\ \A i \in 1 .. m - 1 : c[i] = chain[i + 1]
  BY HeadTailProperties
<1>3. c = <<>> <=> m = 1
  <2>1. c = <<>> => m = 1
    <3> HIDE DEF m
    <3>1. c = <<>> => Len(c) = 0
      OBVIOUS
    <3> QED
      BY <1>1, <1>2, <3>1
  <2>2. c # <<>> => m # 1
    BY <1>1, <1>2, EmptySeq
  <2> QED
    BY <2>1, <2>2
<1> HIDE DEF m
<1>4. /\ \A i \in 1 .. m : BlockHolds(chain[i], First(chain[i]), cap)
      /\ \A i \in 1 .. m - 1 : First(chain[i + 1]) = First(chain[i]) + chain[i].len
      /\ First(chain[1]) = from /\ First(chain[m]) + chain[m].len = to
  BY DEF ChainHolds, m
<1>5. BlockHolds(h, from, cap)
  BY <1>1, <1>2, <1>4
<1>6. \A i \in 1 .. Len(c) : BlockHolds(c[i], First(c[i]), cap)
  <2> SUFFICES ASSUME NEW i \in 1 .. m - 1 PROVE BlockHolds(c[i], First(c[i]), cap)
    BY <1>2
  <2>1. i + 1 \in 1 .. m
    BY <1>1
  <2> QED
    BY <1>2, <1>4, <2>1
<1>7. \A i \in 1 .. Len(c) - 1 : First(c[i + 1]) = First(c[i]) + c[i].len
  <2> SUFFICES ASSUME NEW i \in 1 .. m - 2 PROVE First(c[i + 1]) = First(c[i]) + c[i].len
    BY <1>1, <1>2
  <2>1. i \in 1 .. m - 1 /\ i + 1 \in 1 .. m - 1
    BY <1>1
  <2> QED
    BY <1>2, <1>4, <2>1
<1>8. CASE m = 1
  BY <1>2, <1>3, <1>4, <1>5, <1>6, <1>7, <1>8 DEF ChainHolds
<1>9. CASE m # 1
  <2>1. 1 \in 1 .. m - 1 /\ m - 1 \in 1 .. m - 1 /\ (m - 1) + 1 = m
    BY <1>1, <1>9
  <2>2. First(c[1]) = from + h.len /\ First(c[m - 1]) + c[m - 1].len = to
    BY <1>2, <1>4, <2>1
  <2> QED
    BY <1>2, <1>3, <1>5, <1>6, <1>7, <1>9, <2>2 DEF ChainHolds
<1> QED
  BY <1>8, <1>9

\* The first n bytes of the left block are moved away.
LEMMA ChainSkip ==
  ASSUME NEW cap \in Nat \ {0}, NEW chain \in Seq(Buffers(cap)), chain # <<>>,
         NEW from \in Nat, NEW to \in Nat, ChainHolds(chain, from, to, cap),
         NEW n \in 0 .. Head(chain).len - 1
  PROVE  LET c == [chain EXCEPT ![1] = Skip(chain[1], n, cap)]
         IN  /\ c \in Seq(Buffers(cap)) /\ Len(c) = Len(chain)
             /\ ChainHolds(c, from + n, to, cap)
<1> DEFINE m == Len(chain)
           b == chain[1]
<1>1. m \in Nat \ {0} /\ 1 \in 1 .. m /\ Head(chain) = b
  BY EmptySeq, LenProperties, HeadTailProperties
<1>2. b \in Buffers(cap) /\ BlockHolds(b, from, cap) /\ First(b) = from
  <2>1. b \in Buffers(cap)
    BY <1>1, ElementOfSeq
  <2> QED
    BY <1>1, <2>1 DEF ChainHolds
<1>3. n \in 0 .. b.len - 1 /\ b.len \in Nat
  BY <1>1, <1>2 DEF Buffers
<1> SUFFICES ASSUME NEW r, r = Skip(b, n, cap), NEW c, c = [chain EXCEPT ![1] = r]
             PROVE  /\ c \in Seq(Buffers(cap)) /\ Len(c) = m
                    /\ ChainHolds(c, from + n, to, cap)
  OBVIOUS
<1>4. /\ r \in Buffers(cap) /\ r.len = b.len - n /\ First(r) = from + n
      /\ BlockHolds(r, from + n, cap)
  BY <1>2, <1>3, SkipBlockHolds DEF First
<1>5. /\ c \in Seq(Buffers(cap)) /\ Len(c) = m
      /\ \A i \in 1 .. m : c[i] = IF i = 1 THEN r ELSE chain[i]
  BY <1>1, <1>4, ExceptSeq
<1>6. c # <<>>
  BY <1>1, <1>5, EmptySeq
<1>7. /\ \A i \in 1 .. m : BlockHolds(chain[i], First(chain[i]), cap)
      /\ \A i \in 1 .. m - 1 : First(chain[i + 1]) = First(chain[i]) + chain[i].len
      /\ First(chain[m]) + chain[m].len = to
  BY DEF ChainHolds
<1> HIDE DEF m, b
<1>8. \A i \in 1 .. m : BlockHolds(c[i], First(c[i]), cap)
  BY <1>4, <1>5, <1>7
<1>9. \A i \in 1 .. m : First(c[i]) + c[i].len = First(chain[i]) + chain[i].len
  <2>1. First(r) + r.len = First(b) + b.len
    BY <1>2, <1>3, <1>4
  <2> QED
    BY <1>5, <2>1 DEF b
<1>10. \A i \in 1 .. m - 1 : First(c[i + 1]) = First(c[i]) + c[i].len
  <2> SUFFICES ASSUME NEW i \in 1 .. m - 1 PROVE First(c[i + 1]) = First(c[i]) + c[i].len
    OBVIOUS
  <2>1. i \in 1 .. m /\ i + 1 \in 1 .. m /\ i + 1 # 1
    BY <1>1
  <2> QED
    BY <1>5, <1>7, <1>9, <2>1
<1>11. First(c[1]) = from + n /\ First(c[m]) + c[m].len = to
  <2>1. m \in 1 .. m
    BY <1>1
  <2> QED
    BY <1>1, <1>4, <1>5, <1>7, <1>9, <2>1
<1> QED
  BY <1>5, <1>6, <1>8, <1>10, <1>11 DEF ChainHolds

\* A chain ends where it begins, or further on.
LEMMA ChainEnds ==
  ASSUME NEW cap \in Nat \ {0}, NEW chain \in Seq(Buffers(cap)),
         NEW from \in Nat, NEW to \in Int, ChainHolds(chain, from, to, cap)
  PROVE  to \in Nat /\ from <= to
<1>1. CASE chain = <<>>
  BY <1>1 DEF ChainHolds
<1>2. CASE chain # <<>>
  <2>1. 1 \in 1 .. Len(chain) /\ chain[1] \in Buffers(cap)
    BY <1>2, EmptySeq, LenProperties, ElementOfSeq
  <2>2. chain[1].len \in Nat
    BY <2>1, BufferFields
  <2>3. First(chain[1]) = from /\ First(chain[1]) + chain[1].len <= to
    BY <1>2, <2>1 DEF ChainHolds
  <2>4. \A l \in Nat : from + l <= to => to \in Nat /\ from <= to
    OBVIOUS
  <2> QED
    BY <2>2, <2>3, <2>4
<1> QED
  BY <1>1, <1>2

-----------------------------------------------------------------------------
(* Numbers                                                                 *)

\* A set of numbers that is not empty has a least one.
LEMMA LeastOne ==
  ASSUME NEW S \in SUBSET Nat, S # {}
  PROVE  \E x \in S : \A y \in S : x <= y
<1> DEFINE R == {ss \in Nat \X Nat : ss[1] < ss[2]}
<1>1. IsWellFoundedOn(R, Nat)
  BY NatLessThanWellFounded DEF OpToRel
<1> HIDE DEF R
<1>2. PICK x \in S : \A y \in S : ~(<<y, x>> \in R)
  BY <1>1, WFMin
<1>3. \A y \in S : x <= y
  <2> SUFFICES ASSUME NEW y \in S, ~(x <= y) PROVE FALSE
    OBVIOUS
  <2>1. x \in Nat /\ y \in Nat /\ y < x
    OBVIOUS
  <2>2. <<y, x>> \in R
    BY <2>1 DEF R
  <2> QED
    BY <1>2, <2>2
<1> QED
  BY <1>3

\* What a sum of a number and a multiple leaves.
LEMMA Remainders ==
  ASSUME NEW m \in Nat \ {0}, NEW a \in Nat
  PROVE  a % m \in 0 .. m - 1 /\ a = m * (a \div m) + (a % m) /\ a \div m \in Nat
OBVIOUS

\* Numbers that are less than m apart have different slots among m.
LEMMA OtherSlot ==
  ASSUME NEW m \in Nat \ {0}, NEW a \in Nat, NEW b \in Nat, a < b, b - a < m
  PROVE  a % m # b % m
<1>1. /\ a = m * (a \div m) + (a % m) /\ a \div m \in Nat /\ a % m \in Nat
      /\ b = m * (b \div m) + (b % m) /\ b \div m \in Nat
  BY Remainders
<1> DEFINE p == a \div m
           q == b \div m
           r == a % m
<1> HIDE DEF p, q, r
<1> SUFFICES ASSUME b % m = r PROVE FALSE
  BY DEF r
<1>2. a = m * p + r /\ b = m * q + r /\ p \in Nat /\ q \in Nat /\ r \in Nat
  BY <1>1 DEF p, q, r
<1>3. CASE q <= p
  <2>1. PICK k \in Nat : p = q + k
    <3>1. p - q \in Nat /\ p = q + (p - q)
      BY <1>2, <1>3
    <3> QED
      BY <3>1
  <2>2. m * p = m * q + m * k /\ m * k >= 0
    BY <1>2, <2>1
  <2>3. m * p \in Nat /\ m * q \in Nat /\ m * k \in Nat
    BY <1>2, <2>1
  <2> QED
    BY <1>2, <2>2, <2>3
<1>4. CASE q > p
  <2>1. PICK k \in Nat : q = p + 1 + k
    <3>1. q - p - 1 \in Nat /\ q = p + 1 + (q - p - 1)
      BY <1>2, <1>4
    <3> QED
      BY <3>1
  <2>2. m * q = m * p + m + m * k /\ m * k >= 0
    BY <1>2, <2>1
  <2>3. m * p \in Nat /\ m * q \in Nat /\ m * k \in Nat
    BY <1>2, <2>1
  <2> QED
    BY <1>2, <2>2, <2>3
<1> QED
  BY <1>2, <1>3, <1>4

-----------------------------------------------------------------------------
(* The bytes of the nodes of a chain                                       *)

\* f counts the bytes of the first n nodes.
CountsTo(f, shape, n) ==
  /\ f \in [0 .. n -> Nat] /\ f[0] = 0
  /\ \A i \in 1 .. n : f[i] = f[i - 1] + shape[i]
  /\ \A i, j \in 0 .. n : i < j => f[i] < f[j]

\* There is such a count for any frame.
LEMMA CountExists ==
  ASSUME NEW shape \in Seq(Nat \ {0})
  PROVE  \E f : CountsTo(f, shape, Len(shape))
<1> DEFINE Bad == {n \in 0 .. Len(shape) : ~ \E f : CountsTo(f, shape, n)}
<1>1. Len(shape) \in Nat /\ \A i \in 1 .. Len(shape) : shape[i] \in Nat \ {0}
  BY ElementOfSeq
<1> SUFFICES ASSUME Bad # {} PROVE FALSE
  BY <1>1
<1>2. Bad \in SUBSET Nat
  BY <1>1
<1>3. PICK n \in Bad : \A m \in Bad : n <= m
  <2> HIDE DEF Bad
  <2> QED
    BY <1>2, LeastOne
<1>4. n \in 0 .. Len(shape) /\ n \in Nat
  BY <1>1
<1>5. CASE n = 0
  <2> DEFINE f == [i \in 0 .. 0 |-> 0]
  <2>1. CountsTo(f, shape, 0)
    BY DEF CountsTo
  <2> QED
    BY <1>5, <2>1
<1>6. CASE n # 0
  <2>1. n - 1 \in 0 .. Len(shape) /\ n \in 1 .. Len(shape) /\ n - 1 \in Nat
    BY <1>1, <1>4, <1>6
  <2>2. n - 1 \notin Bad
    <3> HIDE DEF Bad
    <3> QED
      BY <1>3, <1>4, <2>1
  <2>3. PICK f : CountsTo(f, shape, n - 1)
    BY <2>1, <2>2
  <2> DEFINE g == [i \in 0 .. n |-> IF i = n THEN f[n - 1] + shape[n] ELSE f[i]]
  <2>4. /\ f \in [0 .. n - 1 -> Nat] /\ f[0] = 0 /\ n - 1 \in 0 .. n - 1
        /\ \A i \in 1 .. n - 1 : f[i] = f[i - 1] + shape[i]
        /\ \A i, j \in 0 .. n - 1 : i < j => f[i] < f[j]
    BY <2>1, <2>3 DEF CountsTo
  <2>5. f[n - 1] \in Nat /\ shape[n] \in Nat \ {0}
    BY <1>1, <2>1, <2>4
  <2>6. /\ \A i \in 0 .. n - 1 : g[i] = f[i] /\ f[i] \in Nat
        /\ g[n] = f[n - 1] + shape[n]
    BY <1>4, <2>4
  <2>7. g \in [0 .. n -> Nat]
    BY <2>4, <2>5
  <2> HIDE DEF g
  <2>8. \A i \in 0 .. n : i = n \/ i \in 0 .. n - 1
    BY <1>4
  <2>9. g[0] = 0
    BY <2>1, <2>4, <2>6
  <2>10. ASSUME NEW i \in 1 .. n PROVE g[i] = g[i - 1] + shape[i]
    <3>1. CASE i = n
      BY <2>4, <2>6, <3>1
    <3>2. CASE i # n
      <4>1. i \in 1 .. n - 1 /\ i \in 0 .. n - 1 /\ i - 1 \in 0 .. n - 1
        BY <1>4, <3>2
      <4> QED
        BY <2>4, <2>6, <4>1
    <3> QED
      BY <3>1, <3>2
  <2>11. ASSUME NEW i \in 0 .. n, NEW j \in 0 .. n, i < j PROVE g[i] < g[j]
    <3>1. i \in 0 .. n - 1 /\ i <= n - 1
      BY <1>4, <2>11
    <3>2. CASE j = n
      <4>1. i = n - 1 \/ f[i] < f[n - 1]
        BY <2>4, <3>1
      <4>a. g[i] = f[i] /\ f[i] \in Nat
        BY <2>6, <3>1
      <4>b. f[i] = f[n - 1] \/ f[i] < f[n - 1]
        BY <4>1
      <4>2. g[i] \in Nat /\ g[i] <= f[n - 1]
        BY <2>5, <4>a, <4>b
      <4> QED
        BY <2>5, <2>6, <3>2, <4>2
    <3>3. CASE j # n
      <4>1. j \in 0 .. n - 1
        BY <2>8, <3>3
      <4> QED
        BY <2>4, <2>6, <2>11, <3>1, <4>1
    <3> QED
      BY <3>2, <3>3
  <2>12. CountsTo(g, shape, n)
    BY <2>7, <2>9, <2>10, <2>11 DEF CountsTo
  <2> QED
    BY <2>12
<1> QED
  BY <1>5, <1>6

\* BytesTo is this count.
LEMMA BytesToCounts ==
  ASSUME NEW shape \in Seq(Nat \ {0})
  PROVE  CountsTo(BytesTo(shape), shape, Len(shape))
<1> DEFINE n == Len(shape)
           Is(g) == g = [i \in 0 .. n |-> IF i = 0 THEN 0 ELSE g[i - 1] + shape[i]]
<1>1. n \in Nat
  OBVIOUS
<1>2. PICK f : CountsTo(f, shape, n)
  BY CountExists
<1>3. Is(f)
  <2>1. f \in [0 .. n -> Nat] /\ f[0] = 0 /\ \A i \in 1 .. n : f[i] = f[i - 1] + shape[i]
    BY <1>2 DEF CountsTo
  <2>2. \A i \in 0 .. n : i # 0 => i \in 1 .. n
    BY <1>1
  <2>3. \A i \in 0 .. n : f[i] = IF i = 0 THEN 0 ELSE f[i - 1] + shape[i]
    BY <2>1, <2>2
  <2> QED
    BY <2>1, <2>3
<1>4. ASSUME NEW g, Is(g) PROVE g = f
  <2> DEFINE Bad == {i \in 0 .. n : g[i] # f[i]}
  <2>1. \A i \in 0 .. n : /\ g[i] = IF i = 0 THEN 0 ELSE g[i - 1] + shape[i]
                          /\ f[i] = IF i = 0 THEN 0 ELSE f[i - 1] + shape[i]
    BY <1>3, <1>4
  <2>2. Bad = {}
    <3> SUFFICES ASSUME Bad # {} PROVE FALSE
      OBVIOUS
    <3>1. Bad \in SUBSET Nat
      BY <1>1
    <3>2. PICK i \in Bad : \A j \in Bad : i <= j
      <4> HIDE DEF Bad
      <4> QED
        BY <3>1, LeastOne
    <3>3. i \in 0 .. n /\ g[i] # f[i]
      OBVIOUS
    <3>4. i # 0
      BY <2>1, <3>3
    <3>5. i - 1 \in 0 .. n /\ i - 1 < i /\ i \in Nat
      BY <1>1, <3>3, <3>4
    <3>6. i - 1 \notin Bad
      <4> HIDE DEF Bad
      <4> QED
        BY <3>2, <3>5
    <3>7. g[i - 1] = f[i - 1]
      BY <3>5, <3>6
    <3> QED
      BY <2>1, <3>3, <3>4, <3>7
  <2>3. \A i \in 0 .. n : g[i] = f[i]
    BY <2>2
  <2>4. f = [i \in 0 .. n |-> f[i]] /\ g = [i \in 0 .. n |-> g[i]]
    BY <1>2, <1>4 DEF CountsTo
  <2> HIDE DEF Is
  <2>5. [i \in 0 .. n |-> f[i]] = [i \in 0 .. n |-> g[i]]
    BY <2>3
  <2> QED
    BY <2>4, <2>5
<1>5. BytesTo(shape) = CHOOSE g : Is(g)
  BY DEF BytesTo
<1>6. Is(CHOOSE g : Is(g))
  <2> HIDE DEF Is
  <2> QED
    BY <1>3
<1>7. (CHOOSE g : Is(g)) = f
  <2> HIDE DEF Is
  <2> QED
    BY <1>4, <1>6
<1> QED
  BY <1>2, <1>5, <1>7

\* The first nodes have the same bytes, whatever follows them.
LEMMA BytesToSame ==
  ASSUME NEW q \in Seq(Nat \ {0}), NEW r \in Seq(Nat \ {0}),
         NEW n \in 0 .. Len(q), n <= Len(r), \A i \in 1 .. n : q[i] = r[i]
  PROVE  BytesTo(q)[n] = BytesTo(r)[n]
<1>1. PICK f, g : f = BytesTo(q) /\ g = BytesTo(r)
  OBVIOUS
<1>2. Len(q) \in Nat /\ Len(r) \in Nat /\ n \in Nat
  OBVIOUS
<1>3. /\ f[0] = 0 /\ \A i \in 1 .. n : f[i] = f[i - 1] + q[i]
      /\ g[0] = 0 /\ \A i \in 1 .. n : g[i] = g[i - 1] + r[i]
  <2>1. CountsTo(f, q, Len(q)) /\ CountsTo(g, r, Len(r))
    BY <1>1, BytesToCounts
  <2>2. \A i \in 1 .. n : i \in 1 .. Len(q) /\ i \in 1 .. Len(r)
    BY <1>2
  <2> QED
    BY <2>1, <2>2 DEF CountsTo
<1> DEFINE Bad == {i \in 0 .. n : f[i] # g[i]}
<1>4. Bad = {}
  <2> SUFFICES ASSUME Bad # {} PROVE FALSE
    OBVIOUS
  <2>1. Bad \in SUBSET Nat
    BY <1>2
  <2>2. PICK i \in Bad : \A j \in Bad : i <= j
    <3> HIDE DEF Bad
    <3> QED
      BY <2>1, LeastOne
  <2>3. i \in 0 .. n /\ f[i] # g[i]
    OBVIOUS
  <2>4. i \in 1 .. n /\ i - 1 \in 0 .. n /\ i - 1 < i /\ i \in Nat
    BY <1>2, <1>3, <2>3
  <2>5. i - 1 \notin Bad
    <3> HIDE DEF Bad
    <3> QED
      BY <2>2, <2>4
  <2>6. f[i - 1] = g[i - 1]
    BY <2>4, <2>5
  <2> QED
    BY <1>3, <2>3, <2>4, <2>6
<1> QED
  BY <1>1, <1>2, <1>4
=============================================================================
