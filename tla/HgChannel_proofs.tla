-------------------------- MODULE HgChannel_proofs --------------------------
(***************************************************************************)
(* The invariant IInv of HgChannelInv is inductive, for any number of      *)
(* writers, any sizes of heads, bodies, blocks and circles that the        *)
(* assumption allows, and any number of messages.                          *)
(***************************************************************************)
EXTENDS HgChannelInv, HgBuf_proofs, FiniteSetTheorems

\* What the proofs use of the assumption on the constants.
LEMMA Sizes ==
  /\ HeadLen \in Nat \ {0} /\ BlockCap \in Nat \ {0} /\ RingCap \in Nat \ {0}
  /\ \A n \in BodyLens : n \in Nat \ {0} /\ HeadLen + n <= RingCap
  /\ Worker \notin Writers /\ IsFiniteSet(Threads)
  BY ChannelAssumption, FS_AddElement DEF Threads

\* The messages lie in the stream below Written, and the worker stands
\* at the beginning of the first message it has not handled.
LEMMA MsgFacts ==
  ASSUME TypeOK, MsgsInv, ParserInv
  PROVE  /\ Len(msgs) \in Nat /\ Len(delivered) \in 0 .. Len(msgs)
         /\ \A i \in 1 .. Len(msgs) :
              /\ msgs[i].beg \in Nat /\ msgs[i].psize \in BodyLens
              /\ msgs[i].psize \in Nat \ {0}
              /\ MsgEnd(i) \in Nat /\ MsgEnd(i) <= Written
         /\ Written \in Nat /\ Consumed \in Nat /\ ReadPos \in Nat
         /\ Len(delivered) < Len(msgs) => msgs[Len(delivered) + 1].beg = Consumed
         /\ Len(delivered) = Len(msgs) => Consumed = Written
<1>1. Len(msgs) \in Nat /\ Len(delivered) \in 0 .. Len(msgs)
  BY LenProperties DEF TypeOK, ParserInv
<1>2. ASSUME NEW i \in 1 .. Len(msgs)
      PROVE  /\ msgs[i].beg \in Nat /\ msgs[i].psize \in BodyLens
             /\ msgs[i].psize \in Nat \ {0} /\ MsgEnd(i) \in Nat
  <2>1. msgs[i] \in [from : Threads, psize : BodyLens, beg : Nat]
    BY ElementOfSeq DEF TypeOK
  <2>2. msgs[i].beg \in Nat /\ msgs[i].psize \in BodyLens
    BY <2>1
  <2> QED
    BY <2>2, Sizes DEF MsgEnd
<1>3. ASSUME NEW i \in 1 .. Len(msgs)
      PROVE  MsgEnd(i) <= Written
  <2>1. Written = MsgEnd(Len(msgs)) /\ Len(msgs) \in 1 .. Len(msgs)
    <3>1. msgs # <<>>
      OBVIOUS
    <3>2. Written = MsgEnd(Len(msgs))
      BY <3>1 DEF Written
    <3> QED
      BY <1>1, <3>2
  <2>2. CASE i = Len(msgs)
    BY <1>2, <2>1, <2>2
  <2>3. CASE i < Len(msgs)
    <3>1. MsgEnd(i) <= msgs[Len(msgs)].beg
      BY <2>1, <2>3 DEF MsgsInv
    <3>2. msgs[Len(msgs)].beg <= MsgEnd(Len(msgs))
      BY <1>2, <2>1, Sizes DEF MsgEnd
    <3> QED
      BY <1>2, <2>1, <3>1, <3>2
  <2> QED
    BY <1>1, <2>2, <2>3
<1>4. Written \in Nat
  BY <1>1, <1>2, EmptySeq, LenProperties DEF Written, TypeOK
<1>5. Consumed \in Nat
  BY <1>1, <1>2, EmptySeq, LenProperties DEF Consumed, TypeOK
<1>6. ReadPos \in Nat
  BY <1>5, Sizes DEF ReadPos
<1>7. Len(delivered) < Len(msgs) => msgs[Len(delivered) + 1].beg = Consumed
  BY <1>1, EmptySeq DEF MsgsInv, Consumed, TypeOK
<1>8. Len(delivered) = Len(msgs) => Consumed = Written
  BY <1>1, EmptySeq DEF Consumed, Written, TypeOK
<1> QED
  BY <1>1, <1>2, <1>3, <1>4, <1>5, <1>6, <1>7, <1>8

\* The messages keep their place in the stream when one is accepted.
LEMMA WriteLockFacts ==
  ASSUME TypeOK, MsgsInv, ParserInv, NEW t \in Threads, NEW n \in BodyLens,
         WriteLock(t, n)
  PROVE  /\ Len(msgs') = Len(msgs) + 1
         /\ \A i \in 1 .. Len(msgs) : msgs'[i] = msgs[i] /\ MsgEnd(i)' = MsgEnd(i)
         /\ msgs'[Len(msgs) + 1] = [from |-> t, psize |-> n, beg |-> Written]
         /\ Written' = Written + HeadLen + n
         /\ Consumed' = Consumed /\ ReadPos' = ReadPos
         /\ msgs' \in Seq([from : Threads, psize : BodyLens, beg : Nat])
<1> DEFINE m == [from |-> t, psize |-> n, beg |-> Written]
           S == [from : Threads, psize : BodyLens, beg : Nat]
<1>1. m \in S /\ msgs \in Seq(S) /\ msgs' = Append(msgs, m)
  BY MsgFacts DEF WriteLock, TypeOK
<1>2. /\ msgs' \in Seq(S) /\ msgs' # <<>> /\ Len(msgs') = Len(msgs) + 1
      /\ \A i \in 1 .. Len(msgs) : msgs'[i] = msgs[i]
      /\ msgs'[Len(msgs) + 1] = m
  <2> HIDE DEF m, S
  <2> QED
    BY <1>1, AppendProperties
<1>3. \A i \in 1 .. Len(msgs) : MsgEnd(i)' = MsgEnd(i)
  BY <1>2 DEF MsgEnd
<1>4. Written' = Written + HeadLen + n
  BY <1>2 DEF Written, MsgEnd
<1>5. Consumed' = Consumed /\ ReadPos' = ReadPos
  <2>1. delivered' = delivered /\ pc' = pc
    BY DEF WriteLock
  <2>2. delivered # <<>> => Len(delivered) \in 1 .. Len(msgs)
    BY MsgFacts, EmptySeq DEF TypeOK
  <2>3. Consumed' = Consumed
    BY <1>3, <2>1, <2>2 DEF Consumed
  <2> QED
    BY <2>1, <2>3 DEF ReadPos
<1> QED
  BY <1>2, <1>3, <1>4, <1>5
\* Appending and then assigning to the last element.
LEMMA AppendExcept ==
  ASSUME NEW S, NEW q \in Seq(S), NEW a \in S, NEW b \in S
  PROVE  [Append(q, a) EXCEPT ![Len(q) + 1] = b] = Append(q, b)
<1> DEFINE A == Append(q, a)
           B == Append(q, b)
           E == [A EXCEPT ![Len(q) + 1] = b]
<1>1. Len(q) \in Nat
  BY LenProperties
<1>2. /\ A \in Seq(S) /\ Len(A) = Len(q) + 1 /\ \A i \in 1 .. Len(q) : A[i] = q[i]
      /\ B \in Seq(S) /\ Len(B) = Len(q) + 1 /\ \A i \in 1 .. Len(q) : B[i] = q[i]
      /\ B[Len(q) + 1] = b
  BY AppendProperties
<1> HIDE DEF A, B
<1>3. Len(q) + 1 \in 1 .. Len(A)
  BY <1>1, <1>2
<1>4. /\ E \in Seq(S) /\ Len(E) = Len(q) + 1
      /\ \A i \in 1 .. Len(A) : E[i] = IF i = Len(q) + 1 THEN b ELSE A[i]
  BY <1>2, <1>3, ExceptSeq
<1> HIDE DEF E
<1>5. \A i \in 1 .. Len(q) + 1 : E[i] = B[i]
  BY <1>1, <1>2, <1>4
<1>6. E = B
  BY <1>2, <1>4, <1>5, SeqEqual
<1> QED
  BY <1>6 DEF E, A, B

-----------------------------------------------------------------------------
(* The lock, the messages, the blocks.                                     *)

\* One iteration of the copy loop: some bytes, the next ones of the stream,
\* go to the right end of the chain.
LEMMA WriteBlockFacts ==
  ASSUME TypeOK, LockInv, MsgsInv, ParserInv, StreamInv, BlocksConserved,
         NEW t \in Threads, WriteBlock(t)
  PROVE  /\ rest' \in 0 .. rest - 1
         /\ hct' \in Seq(Buffers(BlockCap))
         /\ ChainHolds(hct', ReadPos + tcpbuf.len, Written - rest', BlockCap)
         /\ freen' \in Nat /\ made' \in Nat /\ made' = Len(hct') + freen'
<1>1. /\ rest \in Nat \ {0} /\ freen \in Nat /\ made \in Nat
      /\ hct \in Seq(Buffers(BlockCap)) /\ made = Len(hct) + freen
  BY DEF WriteBlock, TypeOK, LockInv, BlocksConserved
<1> DEFINE from == ReadPos + tcpbuf.len
           to   == Written - rest
<1>2. from \in Nat /\ ChainHolds(hct, from, to, BlockCap)
  BY MsgFacts, Sizes, BufferFields DEF StreamInv, TypeOK
<1>3. to \in Nat
  <2>1. to \in Int
    BY <1>1, MsgFacts
  <2> HIDE DEF from, to
  <2> QED
    BY <1>1, <1>2, <2>1, Sizes, ChainEnds
<1>4. CASE NeedsBlock
  <2> DEFINE n == Lesser(BlockCap, rest)
             b == AppendBytes(NewBuf(BlockCap), to, n, BlockCap)
  <2>1. n \in 1 .. BlockCap /\ rest - n \in 0 .. rest - 1
    BY <1>1, Sizes DEF Lesser
  <2>2. /\ b \in Buffers(BlockCap) /\ b.len = n /\ First(b) = to
        /\ BlockHolds(b, to, BlockCap)
    BY <1>3, <2>1, Sizes, NewBlockHolds DEF First
  <2>3. NewBuf(BlockCap) \in Buffers(BlockCap)
    BY Sizes DEF NewBuf, Buffers
  <2>4. rest' = rest - n /\ hct' = [Append(hct, NewBuf(BlockCap)) EXCEPT ![Len(hct) + 1] = b]
    <3>1. RightRoom(NewBuf(BlockCap), BlockCap) = BlockCap
      BY Sizes DEF RightRoom, NewBuf
    <3>2. /\ Len(Append(hct, NewBuf(BlockCap))) = Len(hct) + 1
          /\ Append(hct, NewBuf(BlockCap))[Len(hct) + 1] = NewBuf(BlockCap)
      BY <1>1, <2>3, AppendProperties
    <3> QED
      BY <1>4, <3>1, <3>2 DEF WriteBlock
  <2> HIDE DEF n, b
  <2>5. hct' = Append(hct, b)
    BY <1>1, <2>2, <2>3, <2>4, AppendExcept
  <2>6. /\ Append(hct, b) \in Seq(Buffers(BlockCap))
        /\ ChainHolds(Append(hct, b), from, to + b.len, BlockCap)
    BY <1>1, <1>2, <1>3, <2>2, Sizes, ChainAppend
  <2>7. to + b.len = Written - rest'
    BY <1>1, <2>1, <2>2, <2>4, MsgFacts
  <2>8. freen' \in Nat /\ made' \in Nat /\ made' = Len(hct) + 1 + freen'
    BY <1>1, <1>4, LenProperties DEF WriteBlock, TakeBlock
  <2>9. Len(hct') = Len(hct) + 1
    BY <1>1, <2>2, <2>5, AppendProperties
  <2> QED
    BY <2>1, <2>4, <2>5, <2>6, <2>7, <2>8, <2>9
<1>5. CASE ~NeedsBlock
  <2> DEFINE m == Len(hct)
             q == hct[m]
             n == Lesser(RightRoom(q, BlockCap), rest)
             b == AppendBytes(q, to, n, BlockCap)
  <2>1. /\ hct # <<>> /\ ~(RightRoom(q, BlockCap) <= 0)
        /\ m \in 1 .. m /\ q \in Buffers(BlockCap)
    BY <1>1, <1>5, EmptySeq, LenProperties, ElementOfSeq DEF NeedsBlock
  <2>2. RightRoom(q, BlockCap) \in Nat \ {0}
    BY <2>1, Sizes, BufferFields DEF RightRoom
  <2>3. n \in 1 .. RightRoom(q, BlockCap) /\ rest - n \in 0 .. rest - 1 /\ n \in Nat
    BY <1>1, <2>2 DEF Lesser
  <2>4. /\ BlockHolds(q, First(q), BlockCap) /\ First(q) + q.len = to
        /\ First(q) \in Int /\ q.len \in Nat
    BY <1>2, <2>1, Sizes, BufferFields DEF ChainHolds
  <2>5. First(q) \in Nat
    BY <2>4 DEF BlockHolds
  <2>6. rest' = rest - n /\ hct' = [hct EXCEPT ![m] = b]
    BY <1>5 DEF WriteBlock
  <2> HIDE DEF n, b
  <2>7. /\ b \in Buffers(BlockCap) /\ b.len = q.len + n /\ First(b) = First(q)
        /\ BlockHolds(b, First(q), BlockCap)
    <3> DEFINE f == First(q)
    <3>1. b = AppendBytes(q, f + q.len, n, BlockCap)
      BY <2>4 DEF b
    <3>2. f \in Nat /\ BlockHolds(q, f, BlockCap)
      BY <2>4, <2>5
    <3> HIDE DEF f
    <3>3. /\ b \in Buffers(BlockCap) /\ b.len = q.len + n
          /\ b.mem[b.start] = f /\ BlockHolds(b, f, BlockCap)
      BY <2>1, <2>3, <3>1, <3>2, Sizes, AppendHolds
    <3> QED
      BY <3>3 DEF f, First
  <2> HIDE DEF q
  <2>8. /\ hct' \in Seq(Buffers(BlockCap)) /\ Len(hct') = Len(hct)
        /\ ChainHolds(hct', from, to + n, BlockCap)
    <3>1. hct[Len(hct)] = q
      BY DEF q
    <3> HIDE DEF from, to, m
    <3>2. hct' = [hct EXCEPT ![Len(hct)] = b]
      BY <2>6 DEF m
    <3>3. /\ hct \in Seq(Buffers(BlockCap)) /\ hct # <<>> /\ from \in Nat /\ to \in Nat
          /\ ChainHolds(hct, from, to, BlockCap) /\ n \in Nat
      BY <1>1, <1>2, <1>3, <2>1, <2>3
    <3>4. /\ b \in Buffers(BlockCap) /\ b.len = hct[Len(hct)].len + n
          /\ First(b) = First(hct[Len(hct)]) /\ BlockHolds(b, First(b), BlockCap)
      BY <2>7, <3>1
    <3>5. BlockCap \in Nat \ {0}
      BY Sizes
    <3> DEFINE c == [hct EXCEPT ![Len(hct)] = b]
    <3>6. /\ c \in Seq(Buffers(BlockCap)) /\ Len(c) = Len(hct)
          /\ ChainHolds(c, from, to + n, BlockCap)
      BY <3>3, <3>4, <3>5, ChainExtend
    <3> QED
      BY <3>2, <3>6
  <2>9. to + n = Written - rest'
    BY <1>1, <2>3, <2>6, MsgFacts
  <2>10. freen' = freen /\ made' = made
    BY <1>5 DEF WriteBlock
  <2> QED
    BY <1>1, <2>3, <2>6, <2>8, <2>9, <2>10
<1> QED
  BY <1>4, <1>5

\* Every step keeps the spin lock with the thread that is in its loop.
LEMMA LockStep ==
  ASSUME TypeOK, LockInv, MsgsInv, ParserInv, StreamInv, BlocksConserved,
         [Next]_vars
  PROVE  LockInv'
<1>0. /\ wr \in [Threads -> {"idle", "copy", "post"}] /\ rest \in Nat
      /\ Worker \in Threads
  BY DEF TypeOK, Threads
<1>1. ASSUME NEW t \in Threads, NEW n \in BodyLens, WriteLock(t, n)
      PROVE  LockInv'
  <2>1. HeadLen + n > 0
    BY Sizes
  <2>2. /\ wr[t] = "idle" /\ ~lock /\ lock' /\ rest' = HeadLen + n /\ pc' = pc
        /\ wr' = [wr EXCEPT ![t] = "copy"] /\ (t = Worker => pc = "handler")
    BY <1>1 DEF WriteLock
  <2>3. \A u \in Threads : wr[u] # "copy"
    BY <2>2 DEF LockInv
  <2>4. wr'[t] = "copy" /\ \A u \in Threads : u # t => wr'[u] = wr[u]
    BY <1>0, <2>2
  <2>5. pc # "move"
    BY <2>2 DEF LockInv
  <2>6. rest' > 0
    BY <2>1, <2>2
  <2> QED
    BY <1>0, <2>2, <2>3, <2>4, <2>5, <2>6 DEF LockInv
<1>2. ASSUME NEW t \in Threads, WriteBlock(t)
      PROVE  LockInv'
  <2>1. rest' \in 0 .. rest - 1 /\ rest' \in Nat
    BY <1>2, WriteBlockFacts
  <2>2. /\ wr[t] = "copy" /\ pc' = pc
        /\ IF rest' = 0 THEN lock' = FALSE /\ wr' = [wr EXCEPT ![t] = "post"]
                        ELSE lock' = lock /\ wr' = wr
    BY <1>2 DEF WriteBlock
  <2>3. lock /\ pc # "move" /\ \A u \in Threads : wr[u] = "copy" => u = t
    BY <2>2 DEF LockInv
  <2>4. CASE rest' = 0
    <3>1. \A u \in Threads : wr'[u] = IF u = t THEN "post" ELSE wr[u]
      BY <1>0, <2>2, <2>4
    <3>2. \A u \in Threads : wr'[u] # "copy"
      BY <2>3, <3>1
    <3>3. wr'[Worker] # "idle" => pc' = "handler"
      BY <1>0, <2>2, <3>1 DEF LockInv
    <3> QED
      BY <2>2, <2>3, <2>4, <3>2, <3>3 DEF LockInv
  <2>5. CASE rest' # 0
    <3>1. rest' > 0 /\ lock' = lock /\ wr' = wr
      BY <2>1, <2>2, <2>5
    <3> QED
      BY <2>2, <2>3, <3>1 DEF LockInv
  <2> QED
    BY <2>4, <2>5
<1>3. ASSUME NEW t \in Threads, Post(t)
      PROVE  LockInv'
  BY <1>0, <1>3 DEF Post, LockInv
<1>4. CASE SemWait
  BY <1>4 DEF SemWait, LockInv
<1>5. CASE DriveLock
  BY <1>5 DEF DriveLock, LockInv
<1>6. CASE MoveBlock
  <2>1. /\ pc = "move" /\ wr' = wr /\ rest' = rest
        /\ \/ lock' = lock /\ pc' = pc
           \/ lock' = FALSE /\ pc' = "head"
    BY <1>6 DEF MoveBlock
  <2> QED
    BY <2>1 DEF LockInv
<1>7. CASE MoveEnd
  BY <1>7 DEF MoveEnd, LockInv
<1>8. CASE ReadHead
  <2>1. /\ pc = "head" /\ pc' \in {"body", "corrupt"}
        /\ wr' = wr /\ rest' = rest /\ lock' = lock
    BY <1>8 DEF ReadHead
  <2> QED
    BY <2>1 DEF LockInv
<1>9. CASE ReadBody
  <2>1. /\ pc = "body" /\ pc' \in {"handler", "corrupt"}
        /\ wr' = wr /\ rest' = rest /\ lock' = lock
    BY <1>9 DEF ReadBody
  <2> QED
    BY <2>1 DEF LockInv
<1>10. CASE Return
  BY <1>10 DEF Return, LockInv
<1>11. CASE NoHead
  BY <1>11 DEF NoHead, LockInv
<1>12. CASE NoBody
  BY <1>12 DEF NoBody, LockInv
<1>13. CASE UNCHANGED vars
  BY <1>13 DEF vars, LockInv
<1> QED
  BY <1>1, <1>2, <1>3, <1>4, <1>5, <1>6, <1>7, <1>8, <1>9, <1>10, <1>11, <1>12,
     <1>13 DEF Next, WriteStep, WorkerStep

\* Every step keeps the messages one after the other.
LEMMA MsgsStep ==
  ASSUME TypeOK, MsgsInv, ParserInv, [Next]_vars
  PROVE  MsgsInv'
<1>1. ASSUME NEW t \in Threads, NEW n \in BodyLens, WriteLock(t, n)
      PROVE  MsgsInv'
  <2> DEFINE k == Len(msgs)
  <2>1. /\ Len(msgs') = k + 1 /\ k \in Nat
        /\ \A i \in 1 .. k : /\ msgs'[i].beg = msgs[i].beg /\ MsgEnd(i)' = MsgEnd(i)
                             /\ MsgEnd(i) <= Written /\ msgs[i].beg \in Nat
                             /\ MsgEnd(i) \in Nat
        /\ msgs'[k + 1].beg = Written
        /\ Written \in Nat
    <3>0. msgs'[k + 1] = [from |-> t, psize |-> n, beg |-> Written]
      BY <1>1, WriteLockFacts
    <3>1. /\ Len(msgs') = k + 1
          /\ \A i \in 1 .. k : msgs'[i] = msgs[i] /\ MsgEnd(i)' = MsgEnd(i)
      BY <1>1, WriteLockFacts
    <3>4. msgs'[k + 1].beg = Written
      BY <3>0
    <3>2. /\ k \in Nat /\ Written \in Nat
          /\ \A i \in 1 .. k : /\ MsgEnd(i) <= Written /\ msgs[i].beg \in Nat
                               /\ MsgEnd(i) \in Nat
      BY MsgFacts
    <3> QED
      BY <3>1, <3>2, <3>4
  <2>2. k > 0 => Written = MsgEnd(k)
    BY DEF Written
  <2>3. k = 0 => Written = 0
    BY EmptySeq DEF Written, TypeOK
  <2> HIDE DEF k
  <2>4. msgs'[1].beg = 0
    BY <2>1, <2>3 DEF MsgsInv, k
  <2>5. \A i \in 1 .. k : msgs'[i + 1].beg = MsgEnd(i)'
    <3> SUFFICES ASSUME NEW i \in 1 .. k PROVE msgs'[i + 1].beg = MsgEnd(i)'
      OBVIOUS
    <3>1. CASE i = k
      BY <2>1, <2>2, <3>1
    <3>2. CASE i # k
      <4>1. i \in 1 .. k - 1 /\ i + 1 \in 1 .. k
        BY <2>1, <3>2
      <4> QED
        BY <2>1, <4>1 DEF MsgsInv, k
    <3> QED
      BY <3>1, <3>2
  <2>6. \A i, j \in 1 .. k + 1 : i < j => MsgEnd(i)' <= msgs'[j].beg
    <3> SUFFICES ASSUME NEW i \in 1 .. k + 1, NEW j \in 1 .. k + 1, i < j
                 PROVE  MsgEnd(i)' <= msgs'[j].beg
      OBVIOUS
    <3>1. i \in 1 .. k
      BY <2>1
    <3>2. CASE j = k + 1
      BY <2>1, <3>1, <3>2
    <3>3. CASE j # k + 1
      <4>1. j \in 1 .. k
        BY <2>1, <3>3
      <4> QED
        BY <2>1, <3>1, <4>1 DEF MsgsInv, k
    <3> QED
      BY <3>2, <3>3
  <2> QED
    BY <2>1, <2>4, <2>5, <2>6 DEF MsgsInv
<1>2. CASE UNCHANGED msgs
  BY <1>2 DEF MsgsInv, MsgEnd
<1> QED
  BY <1>1, <1>2 DEF Next, WriteStep, WorkerStep, WriteBlock, Post, SemWait, DriveLock,
     MoveBlock, MoveEnd, ReadHead, ReadBody, Return, NoHead, NoBody, vars

-----------------------------------------------------------------------------
(* The semaphore, and the threads that will post it.                       *)

\* There are finitely many threads, so finitely many that have not posted.
LEMMA PostsType == ASSUME TypeOK PROVE Cardinality(Posting) \in Nat
  BY Sizes, FS_Subset, FS_CardinalityType DEF Posting

\* One thread more that has not posted yet.
LEMMA PostsEnter ==
  ASSUME TypeOK, NEW t \in Threads, wr[t] = "idle", wr' = [wr EXCEPT ![t] = "copy"]
  PROVE  Cardinality(Posting') = Cardinality(Posting) + 1
<1>1. IsFiniteSet(Posting)
  BY Sizes, FS_Subset DEF Posting
<1>2. Posting' = Posting \cup {t} /\ t \notin Posting
  BY DEF Posting, TypeOK
<1> QED
  BY <1>1, <1>2, FS_AddElement

\* One thread less.
LEMMA PostsLeave ==
  ASSUME TypeOK, NEW t \in Threads, wr[t] # "idle", wr' = [wr EXCEPT ![t] = "idle"]
  PROVE  Cardinality(Posting') = Cardinality(Posting) - 1
<1>1. IsFiniteSet(Posting)
  BY Sizes, FS_Subset DEF Posting
<1>2. Posting' = Posting \ {t} /\ t \in Posting
  BY DEF Posting, TypeOK
<1> QED
  BY <1>1, <1>2, FS_RemoveElement

\* The copy loop and its end change nothing in that.
LEMMA PostsStay ==
  ASSUME TypeOK, NEW t \in Threads, wr[t] = "copy", wr' = [wr EXCEPT ![t] = "post"]
  PROVE  Posting' = Posting
  BY DEF Posting, TypeOK

-----------------------------------------------------------------------------
(* What the circle and the chain hold, as numbers.                         *)

\* Where the circle and the chain begin and end in the stream.
LEMMA StreamFacts ==
  ASSUME TypeOK, MsgsInv, ParserInv, StreamInv
  PROVE  /\ tcpbuf.len \in 0 .. RingCap /\ ReadPos + tcpbuf.len \in Nat
         /\ Written - rest \in Nat /\ ReadPos + tcpbuf.len <= Written - rest
         /\ ReadPos + tcpbuf.len <= Written
         /\ hct = <<>> => ReadPos + tcpbuf.len = Written - rest
<1>1. tcpbuf.len \in 0 .. RingCap
  BY Sizes, BufferFields DEF TypeOK
<1>2. ReadPos \in Nat /\ Written \in Nat /\ rest \in Nat
  BY MsgFacts DEF TypeOK
<1> DEFINE from == ReadPos + tcpbuf.len
           to   == Written - rest
<1>3. from \in Nat /\ to \in Int /\ (to \in Nat => to <= Written)
  BY <1>1, <1>2, Sizes
<1>4. ChainHolds(hct, from, to, BlockCap) /\ hct \in Seq(Buffers(BlockCap))
  BY DEF StreamInv, TypeOK
<1>5. hct = <<>> => from = to
  BY <1>4 DEF ChainHolds
<1> HIDE DEF from, to
<1>6. to \in Nat /\ from <= to
  BY <1>3, <1>4, Sizes, ChainEnds
<1>7. from <= Written
  BY <1>2, <1>3, <1>6
<1> QED
  BY <1>1, <1>3, <1>5, <1>6, <1>7 DEF from, to

-----------------------------------------------------------------------------
(* What one step does to the types, the parser, the stream, the wake-up     *)
(* count and the blocks, action by action.                                  *)

Settled == TypeOK /\ ParserInv /\ StreamInv /\ WakeupInv /\ BlocksConserved

\* The lock is taken by a writer.
LEMMA WriteLockStep ==
  ASSUME IInv, NEW t \in Threads, NEW n \in BodyLens, WriteLock(t, n)
  PROVE  Settled'
<1> USE DEF IInv
<1>1. /\ wr[t] = "idle" /\ wr' = [wr EXCEPT ![t] = "copy"]
      /\ ~lock /\ lock' = TRUE /\ rest' = HeadLen + n
      /\ hct' = hct /\ freen' = freen /\ made' = made /\ eventSem' = eventSem
      /\ pc' = pc /\ tcpbuf' = tcpbuf /\ head' = head /\ delivered' = delivered
  BY DEF WriteLock
<1>2. /\ Len(msgs') = Len(msgs) + 1
      /\ \A i \in 1 .. Len(msgs) : msgs'[i] = msgs[i] /\ MsgEnd(i)' = MsgEnd(i)
      /\ Written' = Written + HeadLen + n
      /\ Consumed' = Consumed /\ ReadPos' = ReadPos
      /\ msgs' \in Seq([from : Threads, psize : BodyLens, beg : Nat])
  BY WriteLockFacts
<1>3. Len(msgs) \in Nat /\ Len(delivered) \in 0 .. Len(msgs) /\ Written \in Nat
  BY MsgFacts
<1>4. TypeOK'
  <2>1. HeadLen + n \in Nat
    BY Sizes
  <2>2. head' \in 0 .. Len(msgs')
    BY <1>1, <1>2, <1>3 DEF TypeOK
  <2> QED
    BY <1>1, <1>2, <2>1, <2>2 DEF TypeOK
<1>5. ParserInv'
  BY <1>1, <1>2, <1>3 DEF ParserInv
<1>6. StreamInv'
  <2>1. rest = 0
    BY <1>1 DEF LockInv, TypeOK
  <2>2. Written' - rest' = Written - rest
    BY <1>1, <1>2, <1>3, <2>1, Sizes
  <2> QED
    BY <1>1, <1>2, <2>2 DEF StreamInv
<1>7. WakeupInv'
  <2>1. Cardinality(Posting') = Cardinality(Posting) + 1 /\ Cardinality(Posting) \in Nat
    BY <1>1, PostsEnter, PostsType
  <2>2. Pending' = Pending + 1 /\ Pending \in Nat
    BY <1>1, <1>2, <1>3 DEF Pending
  <2>3. NextIsComplete => NextIsComplete'
    <3>1. ASSUME NextIsComplete
          PROVE  Len(delivered) + 1 \in 1 .. Len(msgs)
      BY <1>3, <3>1 DEF NextIsComplete, Pending
    <3> QED
      BY <1>1, <1>2, <2>2, <3>1 DEF NextIsComplete
  <2>4. eventSem \in Nat
    BY DEF TypeOK
  <2> QED
    BY <1>1, <2>1, <2>2, <2>3, <2>4 DEF WakeupInv
<1>8. BlocksConserved'
  BY <1>1 DEF BlocksConserved
<1> QED
  BY <1>4, <1>5, <1>6, <1>7, <1>8 DEF Settled

\* One iteration of the copy loop.
LEMMA WriteBlockStep ==
  ASSUME IInv, NEW t \in Threads, WriteBlock(t)
  PROVE  Settled'
<1> USE DEF IInv
<1>1. /\ wr[t] = "copy"
      /\ IF rest' = 0 THEN lock' = FALSE /\ wr' = [wr EXCEPT ![t] = "post"]
                      ELSE lock' = lock /\ wr' = wr
      /\ msgs' = msgs /\ eventSem' = eventSem
      /\ pc' = pc /\ tcpbuf' = tcpbuf /\ head' = head /\ delivered' = delivered
  BY DEF WriteBlock
<1>2. /\ rest' \in 0 .. rest - 1
      /\ hct' \in Seq(Buffers(BlockCap))
      /\ ChainHolds(hct', ReadPos + tcpbuf.len, Written - rest', BlockCap)
      /\ freen' \in Nat /\ made' \in Nat /\ made' = Len(hct') + freen'
  BY WriteBlockFacts
<1>3. /\ Consumed' = Consumed /\ ReadPos' = ReadPos /\ Written' = Written
      /\ Pending' = Pending
  BY <1>1 DEF Consumed, ReadPos, Written, Pending, MsgEnd
<1>4. TypeOK'
  <2>1. wr' \in [Threads -> {"idle", "copy", "post"}] /\ lock' \in BOOLEAN
    BY <1>1 DEF TypeOK
  <2> QED
    BY <1>1, <1>2, <2>1 DEF TypeOK
<1>5. ParserInv'
  BY <1>1 DEF ParserInv
<1>6. StreamInv'
  BY <1>1, <1>2, <1>3 DEF StreamInv
<1>7. WakeupInv'
  <2>1. Posting' = Posting
    BY <1>1, PostsStay DEF Posting
  <2>2. NextIsComplete' = NextIsComplete
    BY <1>1, <1>3 DEF NextIsComplete, MsgEnd
  <2> QED
    BY <1>1, <1>3, <2>1, <2>2 DEF WakeupInv
<1>8. BlocksConserved'
  BY <1>2 DEF BlocksConserved
<1> QED
  BY <1>4, <1>5, <1>6, <1>7, <1>8 DEF Settled

\* The semaphore is posted.
LEMMA PostStep ==
  ASSUME IInv, NEW t \in Threads, Post(t)
  PROVE  Settled'
<1> USE DEF IInv
<1>1. /\ wr[t] = "post" /\ wr' = [wr EXCEPT ![t] = "idle"] /\ eventSem' = eventSem + 1
      /\ msgs' = msgs /\ lock' = lock /\ rest' = rest /\ hct' = hct /\ freen' = freen
      /\ made' = made /\ pc' = pc /\ tcpbuf' = tcpbuf /\ head' = head
      /\ delivered' = delivered
  BY DEF Post
<1>2. TypeOK'
  BY <1>1 DEF TypeOK
<1>3. ParserInv' /\ BlocksConserved'
  BY <1>1 DEF ParserInv, BlocksConserved
<1>4. /\ Consumed' = Consumed /\ ReadPos' = ReadPos /\ Written' = Written
      /\ Pending' = Pending /\ (NextIsComplete' <=> NextIsComplete)
  BY <1>1 DEF Consumed, ReadPos, Written, Pending, NextIsComplete, MsgEnd
<1>5. StreamInv'
  BY <1>1, <1>4 DEF StreamInv
<1>6. WakeupInv'
  <2>1. /\ Cardinality(Posting') = Cardinality(Posting) - 1
        /\ Cardinality(Posting) \in Nat /\ eventSem \in Nat
    BY <1>1, PostsLeave, PostsType DEF TypeOK
  <2>2. eventSem' + Cardinality(Posting') = eventSem + Cardinality(Posting)
    BY <1>1, <2>1
  <2> QED
    BY <1>1, <1>4, <2>2 DEF WakeupInv
<1> QED
  BY <1>2, <1>3, <1>5, <1>6 DEF Settled

\* Where the first message not yet handled lies, if there is one.
LEMMA NextFacts ==
  ASSUME TypeOK, MsgsInv, ParserInv, Len(delivered) < Len(msgs)
  PROVE  LET i == Len(delivered) + 1
         IN  /\ i \in 1 .. Len(msgs) /\ msgs[i].beg = Consumed
             /\ msgs[i].psize \in Nat \ {0} /\ HeadLen + msgs[i].psize <= RingCap
             /\ MsgEnd(i) = Consumed + HeadLen + msgs[i].psize
             /\ MsgEnd(i) <= Written
<1> DEFINE i == Len(delivered) + 1
<1>1. i \in 1 .. Len(msgs) /\ msgs[i].beg = Consumed
  BY MsgFacts
<1>2. msgs[i].psize \in BodyLens /\ MsgEnd(i) <= Written
  BY <1>1, MsgFacts
<1> HIDE DEF i
<1>3. msgs[i].psize \in Nat \ {0} /\ HeadLen + msgs[i].psize <= RingCap
  BY <1>2, Sizes
<1>4. MsgEnd(i) = Consumed + HeadLen + msgs[i].psize
  BY <1>1 DEF MsgEnd
<1> QED
  BY <1>1, <1>2, <1>3, <1>4 DEF i

\* The steps of the worker that move no byte and handle no message.
LEMMA QuietStep ==
  ASSUME IInv, SemWait \/ DriveLock \/ MoveEnd \/ Return \/ NoHead
  PROVE  Settled'
<1> USE DEF IInv
<1>1. /\ pc \notin {"body"} /\ pc' \in {"wait", "lock", "move", "head"}
      /\ lock' \in BOOLEAN /\ eventSem' \in Nat
      /\ msgs' = msgs /\ wr' = wr /\ rest' = rest /\ hct' = hct /\ freen' = freen
      /\ made' = made /\ tcpbuf' = tcpbuf /\ head' = head /\ delivered' = delivered
  <2>1. lock \in BOOLEAN /\ eventSem \in Nat
    BY DEF TypeOK
  <2>2. CASE SemWait
    <3>1. eventSem' \in Nat
      BY <2>1, <2>2 DEF SemWait
    <3> QED
      BY <2>1, <2>2, <3>1 DEF SemWait
  <2>3. CASE DriveLock \/ MoveEnd \/ Return \/ NoHead
    BY <2>1, <2>3 DEF DriveLock, MoveEnd, Return, NoHead
  <2> QED
    BY <2>2, <2>3
<1>2. TypeOK'
  BY <1>1 DEF TypeOK
<1>3. ParserInv' /\ BlocksConserved'
  BY <1>1 DEF ParserInv, BlocksConserved
<1>4. /\ Consumed' = Consumed /\ ReadPos' = ReadPos /\ Written' = Written
      /\ Pending' = Pending /\ (NextIsComplete' <=> NextIsComplete)
      /\ Posting' = Posting
  BY <1>1 DEF Consumed, ReadPos, Written, Pending, NextIsComplete, MsgEnd, Posting
<1>5. StreamInv'
  BY <1>1, <1>4 DEF StreamInv
<1>6. /\ Cardinality(Posting) \in Nat /\ eventSem \in Nat /\ Pending \in Nat
      /\ Cardinality(Posting') = Cardinality(Posting)
  BY <1>4, PostsType, MsgFacts DEF TypeOK, Pending
<1>7. CASE SemWait
  <2>1. pc = "wait" /\ pc' = "lock" /\ eventSem' = eventSem - 1
    BY <1>7 DEF SemWait
  <2>2. Pending <= eventSem + Cardinality(Posting)
    BY <2>1 DEF WakeupInv
  <2>3. Pending' <= eventSem' + Cardinality(Posting') + 1
    BY <1>4, <1>6, <2>1, <2>2
  <2>4. WakeupInv'
    BY <2>1, <2>3 DEF WakeupInv
  <2> QED
    BY <1>2, <1>3, <1>5, <2>4 DEF Settled
<1>8. CASE DriveLock
  <2>1. WakeupInv'
    BY <1>4, <1>8 DEF DriveLock, WakeupInv
  <2> QED
    BY <1>2, <1>3, <1>5, <2>1 DEF Settled
<1>9. CASE MoveEnd
  <2>1. pc = "move" /\ pc' = "head" /\ eventSem' = eventSem /\ hct = <<>>
    BY <1>9 DEF MoveEnd
  <2>2. rest = 0
    BY <2>1 DEF LockInv, TypeOK
  <2>3. ReadPos + tcpbuf.len = Written
    BY <2>1, <2>2, StreamFacts, MsgFacts
  <2>4. Pending > 0 => NextIsComplete
    <3>1. Pending > 0 => Len(delivered) < Len(msgs)
      BY MsgFacts DEF Pending
    <3> QED
      BY <2>3, <3>1, NextFacts DEF NextIsComplete
  <2>5. Pending <= eventSem + Cardinality(Posting) + 1
    BY DEF WakeupInv
  <2>6. Pending <= eventSem + Cardinality(Posting) \/ NextIsComplete
    BY <1>6, <2>4, <2>5
  <2>7. WakeupInv'
    BY <1>4, <2>1, <2>5, <2>6 DEF WakeupInv
  <2> QED
    BY <1>2, <1>3, <1>5, <2>7 DEF Settled
<1>10. CASE Return
  <2>1. WakeupInv'
    BY <1>4, <1>10 DEF Return, WakeupInv
  <2> QED
    BY <1>2, <1>3, <1>5, <2>1 DEF Settled
<1>11. CASE NoHead
  <2>1. pc = "head" /\ pc' = "wait" /\ eventSem' = eventSem /\ ~CanRead(tcpbuf, HeadLen)
    BY <1>11 DEF NoHead
  <2>2. ~NextIsComplete
    <3> SUFFICES ASSUME NextIsComplete PROVE FALSE
      OBVIOUS
    <3>1. Len(delivered) < Len(msgs)
      BY MsgFacts DEF NextIsComplete, Pending
    <3> DEFINE p == msgs[Len(delivered) + 1].psize
    <3>2. Consumed + tcpbuf.len >= Consumed + HeadLen + p /\ p \in Nat \ {0}
      BY <2>1, <3>1, NextFacts DEF NextIsComplete, ReadPos
    <3>3. Consumed \in Nat /\ tcpbuf.len \in 0 .. RingCap
      BY MsgFacts, StreamFacts
    <3> HIDE DEF p
    <3>4. tcpbuf.len >= HeadLen /\ tcpbuf.len # 0
      BY <3>2, <3>3, Sizes
    <3> QED
      BY <2>1, <3>4 DEF CanRead
  <2>3. Pending <= eventSem + Cardinality(Posting)
    BY <2>1, <2>2 DEF WakeupInv
  <2>4. Pending <= eventSem + Cardinality(Posting) + 1
    BY DEF WakeupInv
  <2>5. WakeupInv'
    BY <1>4, <2>1, <2>3, <2>4 DEF WakeupInv
  <2> QED
    BY <1>2, <1>3, <1>5, <2>5 DEF Settled
<1> QED
  BY <1>7, <1>8, <1>9, <1>10, <1>11

\* One iteration of the move loop.
LEMMA MoveBlockStep ==
  ASSUME IInv, MoveBlock
  PROVE  Settled'
<1> USE DEF IInv
<1> DEFINE left  == Head(hct)
           total == Accepted(tcpbuf, left.len, RingCap)
           from  == ReadPos + tcpbuf.len
           to    == Written - rest
<1>1. /\ pc = "move" /\ hct # <<>>
      /\ tcpbuf' = WriteN(tcpbuf, left.mem, left.start, left.len, RingCap)
      /\ msgs' = msgs /\ wr' = wr /\ rest' = rest /\ made' = made
      /\ eventSem' = eventSem /\ head' = head /\ delivered' = delivered
      /\ \/ /\ total = left.len /\ hct' = Tail(hct) /\ freen' = freen + 1
            /\ lock' = lock /\ pc' = pc
         \/ /\ total < left.len
            /\ hct' = [hct EXCEPT ![1] = Skip(hct[1], total, BlockCap)]
            /\ lock' = FALSE /\ pc' = "head" /\ freen' = freen
  BY DEF MoveBlock
<1>2. /\ from \in Nat /\ to \in Nat /\ ChainHolds(hct, from, to, BlockCap)
      /\ hct \in Seq(Buffers(BlockCap)) /\ tcpbuf \in Buffers(RingCap)
      /\ ReadPos \in Nat /\ RingHolds(tcpbuf, ReadPos, RingCap)
      /\ tcpbuf.len \in 0 .. RingCap
  BY StreamFacts, MsgFacts DEF StreamInv, TypeOK
<1>3. /\ left \in Buffers(BlockCap) /\ BlockHolds(left, from, BlockCap)
      /\ Tail(hct) \in Seq(Buffers(BlockCap)) /\ Len(Tail(hct)) = Len(hct) - 1
      /\ ChainHolds(Tail(hct), from + left.len, to, BlockCap)
  <2> HIDE DEF from, to
  <2> QED
    BY <1>1, <1>2, Sizes, ChainTail
<1>4. left.len \in Nat
  BY <1>3, Sizes, BufferFields
<1>5. total \in 0 .. left.len /\ total = Lesser(left.len, RingCap - tcpbuf.len)
  <2> HIDE DEF left
  <2> QED
    BY <1>2, <1>4, Sizes, AcceptedBound
<1>6. /\ tcpbuf' \in Buffers(RingCap) /\ tcpbuf'.len = tcpbuf.len + total
      /\ RingHolds(tcpbuf', ReadPos, RingCap)
  <2> HIDE DEF left
  <2> QED
    BY <1>1, <1>2, <1>3, Sizes, WriteHolds
<1>7. /\ Consumed' = Consumed /\ ReadPos' = ReadPos /\ Written' = Written
      /\ Pending' = Pending /\ Posting' = Posting /\ pc' # "body"
      /\ MsgEnd(Len(delivered) + 1)' = MsgEnd(Len(delivered) + 1)
  BY <1>1 DEF Consumed, ReadPos, Written, Pending, MsgEnd, Posting
<1>8. ReadPos' + tcpbuf'.len = from + total /\ Written' - rest' = to
  BY <1>1, <1>2, <1>5, <1>6, <1>7
<1>9. ParserInv'
  BY <1>1 DEF ParserInv
<1>10. CASE total = left.len
  <2>1. /\ hct' = Tail(hct) /\ freen' = freen + 1 /\ lock' = lock /\ pc' = pc
    BY <1>1, <1>4, <1>10
  <2>2. TypeOK'
    BY <1>1, <1>3, <1>6, <2>1 DEF TypeOK
  <2>3. StreamInv'
    BY <1>3, <1>6, <1>7, <1>8, <1>10, <2>1 DEF StreamInv
  <2>4. WakeupInv'
    BY <1>1, <1>7, <2>1 DEF WakeupInv
  <2>5. BlocksConserved'
    BY <1>1, <1>2, <1>3, <2>1, LenProperties DEF BlocksConserved, TypeOK
  <2> QED
    BY <1>9, <2>2, <2>3, <2>4, <2>5 DEF Settled
<1>11. CASE total # left.len
  <2>1. total \in 0 .. left.len - 1
    BY <1>4, <1>5, <1>11
  <2>2. /\ hct' = [hct EXCEPT ![1] = Skip(hct[1], total, BlockCap)]
        /\ lock' = FALSE /\ pc' = "head" /\ freen' = freen
    BY <1>1, <1>11
  <2>3. /\ hct' \in Seq(Buffers(BlockCap)) /\ Len(hct') = Len(hct)
        /\ ChainHolds(hct', from + total, to, BlockCap)
    <3> DEFINE c == [hct EXCEPT ![1] = Skip(hct[1], total, BlockCap)]
    <3> HIDE DEF from, to, total
    <3>1. /\ c \in Seq(Buffers(BlockCap)) /\ Len(c) = Len(hct)
          /\ ChainHolds(c, from + total, to, BlockCap)
      BY <1>1, <1>2, <2>1, Sizes, ChainSkip
    <3> QED
      BY <2>2, <3>1
  <2>4. TypeOK'
    BY <1>1, <1>6, <2>2, <2>3 DEF TypeOK
  <2>5. StreamInv'
    BY <1>6, <1>7, <1>8, <2>3 DEF StreamInv
  <2>6. tcpbuf'.len = RingCap
    BY <1>2, <1>4, <1>5, <1>6, <1>11, Sizes DEF Lesser
  <2>7. Pending > 0 => NextIsComplete'
    <3> SUFFICES ASSUME Pending > 0 PROVE NextIsComplete'
      OBVIOUS
    <3>1. Len(delivered) < Len(msgs)
      BY MsgFacts DEF Pending
    <3>2. /\ MsgEnd(Len(delivered) + 1) = Consumed + HeadLen + msgs[Len(delivered) + 1].psize
          /\ msgs[Len(delivered) + 1].psize \in Nat
          /\ HeadLen + msgs[Len(delivered) + 1].psize <= RingCap
      BY <3>1, NextFacts
    <3>3. ReadPos = Consumed /\ Consumed \in Nat
      BY <1>1, MsgFacts DEF ReadPos
    <3>4. MsgEnd(Len(delivered) + 1) <= ReadPos + RingCap
      BY <3>2, <3>3, Sizes
    <3>5. ReadPos' + tcpbuf'.len >= MsgEnd(Len(delivered) + 1)'
      <4>1. \A x \in Nat, y \in Int : y <= x + RingCap => x + RingCap >= y
        BY Sizes
      <4>2. MsgEnd(Len(delivered) + 1) \in Int
        BY <3>2, <3>3, Sizes
      <4> QED
        BY <1>2, <1>7, <2>6, <3>4, <4>1, <4>2
    <3> QED
      BY <1>1, <1>7, <3>5 DEF NextIsComplete, MsgEnd
  <2>8. WakeupInv'
    <3>1. /\ Cardinality(Posting) \in Nat /\ eventSem \in Nat /\ Pending \in Nat
      BY PostsType, MsgFacts DEF TypeOK, Pending
    <3>2. Pending <= eventSem + Cardinality(Posting) + 1
      BY DEF WakeupInv
    <3>3. Pending <= eventSem + Cardinality(Posting) \/ NextIsComplete'
      BY <2>7, <3>1, <3>2
    <3> QED
      BY <1>1, <1>7, <2>2, <3>2, <3>3 DEF WakeupInv
  <2>9. BlocksConserved'
    BY <1>1, <2>2, <2>3 DEF BlocksConserved
  <2> QED
    BY <1>9, <2>4, <2>5, <2>8, <2>9 DEF Settled
<1> QED
  BY <1>10, <1>11

\* The head at the beginning of the circle is the next message's, and of no
\* other one.
LEMMA ReadHeadStep ==
  ASSUME IInv, ReadHead
  PROVE  Settled'
<1> USE DEF IInv
<1> DEFINE m == Len(delivered) + 1
<1>1. /\ pc = "head" /\ CanRead(tcpbuf, HeadLen)
      /\ tcpbuf' = Skip(tcpbuf, HeadLen, RingCap)
      /\ msgs' = msgs /\ lock' = lock /\ wr' = wr /\ rest' = rest /\ hct' = hct
      /\ freen' = freen /\ made' = made /\ eventSem' = eventSem
      /\ delivered' = delivered
      /\ \/ \E i \in HeadsHere : head' = i /\ pc' = "body"
         \/ HeadsHere = {} /\ pc' = "corrupt"
  BY DEF ReadHead
<1>2. /\ ReadPos = Consumed /\ Consumed \in Nat /\ Written \in Nat
      /\ tcpbuf \in Buffers(RingCap) /\ RingHolds(tcpbuf, Consumed, RingCap)
      /\ tcpbuf.len \in 0 .. RingCap
  BY <1>1, MsgFacts, StreamFacts DEF ReadPos, StreamInv, TypeOK
<1>3. HeadLen \in 1 .. tcpbuf.len /\ HeadLen \in Nat \ {0}
  BY <1>1, <1>2, Sizes DEF CanRead
<1>4. Len(delivered) < Len(msgs)
  <2>1. Consumed + tcpbuf.len <= Written
    BY <1>2, StreamFacts
  <2>2. Consumed < Written
    BY <1>2, <1>3, <2>1
  <2> QED
    BY <1>2, <2>2, MsgFacts
<1>5. /\ m \in 1 .. Len(msgs) /\ msgs[m].beg = Consumed /\ Len(delivered) \in Nat
      /\ MsgEnd(m) \in Nat /\ MsgEnd(m) > Consumed
  <2>1. Len(delivered) \in Nat
    BY MsgFacts
  <2>2. /\ m \in 1 .. Len(msgs) /\ msgs[m].beg = Consumed
        /\ msgs[m].psize \in Nat \ {0}
        /\ MsgEnd(m) = Consumed + HeadLen + msgs[m].psize
    BY <1>4, NextFacts
  <2> HIDE DEF m
  <2> QED
    BY <1>2, <1>3, <2>1, <2>2
<1>6. \A k \in 0 .. HeadLen - 1 : ByteAt(tcpbuf, k, RingCap) = Consumed + k
  <2>1. \A k \in 0 .. HeadLen - 1 : k \in 0 .. tcpbuf.len - 1
    BY <1>2, <1>3
  <2> QED
    BY <1>2, <2>1 DEF RingHolds
<1>7. m \in HeadsHere
  <2>1. m \in DOMAIN msgs
    BY <1>5 DEF TypeOK
  <2> QED
    BY <1>5, <1>6, <2>1 DEF HeadsHere
<1>8. ASSUME NEW i \in HeadsHere
      PROVE  i = m
  <2>1. i \in 1 .. Len(msgs) /\ i \in Int
    BY DEF HeadsHere, TypeOK
  <2>2. msgs[i].beg = Consumed
    <3>1. 0 \in 0 .. HeadLen - 1
      BY <1>3
    <3>2. ByteAt(tcpbuf, 0, RingCap) = msgs[i].beg + 0
      BY <3>1 DEF HeadsHere
    <3>3. msgs[i].beg \in Nat
      BY <2>1, MsgFacts
    <3> QED
      BY <1>2, <1>6, <3>1, <3>2, <3>3
  <2>3. CASE i < m
    <3>1. MsgEnd(i) <= msgs[m].beg
      BY <1>5, <2>1, <2>3 DEF MsgsInv
    <3>2. MsgEnd(i) = Consumed + HeadLen + msgs[i].psize /\ msgs[i].psize \in Nat \ {0}
      BY <2>1, <2>2, MsgFacts DEF MsgEnd
    <3> QED
      BY <1>2, <1>3, <1>5, <3>1, <3>2
  <2>4. CASE i > m
    <3>1. MsgEnd(m) <= msgs[i].beg
      BY <1>5, <2>1, <2>4 DEF MsgsInv
    <3> QED
      BY <1>2, <1>5, <2>2, <3>1
  <2> QED
    BY <1>5, <2>1, <2>3, <2>4
<1>9. head' = m /\ pc' = "body"
  BY <1>1, <1>7, <1>8
<1>10. /\ tcpbuf' \in Buffers(RingCap) /\ tcpbuf'.len = tcpbuf.len - HeadLen
       /\ RingHolds(tcpbuf', Consumed + HeadLen, RingCap)
  <2>1. HeadLen \in 0 .. tcpbuf.len
    BY <1>3
  <2> QED
    BY <1>1, <1>2, <2>1, Sizes, SkipHolds
<1>11. PutBack(tcpbuf', HeadLen, RingCap) = tcpbuf
  <2>1. HeadLen \in 0 .. tcpbuf.len
    BY <1>3
  <2> QED
    BY <1>1, <1>2, <2>1, Sizes, PutBackSkip
<1>12. /\ Consumed' = Consumed /\ ReadPos' = Consumed + HeadLen /\ Written' = Written
       /\ Pending' = Pending /\ Posting' = Posting
       /\ MsgEnd(m)' = MsgEnd(m)
  BY <1>1, <1>9 DEF Consumed, ReadPos, Written, Pending, MsgEnd, Posting
<1>13. ReadPos' + tcpbuf'.len = ReadPos + tcpbuf.len
  BY <1>2, <1>3, <1>10, <1>12
<1>14. TypeOK'
  BY <1>1, <1>5, <1>9, <1>10 DEF TypeOK
<1>15. ParserInv' /\ BlocksConserved'
  BY <1>1, <1>9 DEF ParserInv, BlocksConserved
<1>16. StreamInv'
  <2>1. tcpbuf'.len + HeadLen <= RingCap
    BY <1>2, <1>3, <1>10, Sizes
  <2>2. RingHolds(PutBack(tcpbuf', HeadLen, RingCap), Consumed', RingCap)
    BY <1>2, <1>11, <1>12
  <2>3. ChainHolds(hct', ReadPos' + tcpbuf'.len, Written' - rest', BlockCap)
    BY <1>1, <1>12, <1>13 DEF StreamInv
  <2> QED
    BY <1>10, <1>12, <2>1, <2>2, <2>3 DEF StreamInv
<1>17. WakeupInv'
  <2>1. NextIsComplete => NextIsComplete'
    BY <1>1, <1>12, <1>13 DEF NextIsComplete
  <2> QED
    BY <1>1, <1>9, <1>12, <2>1 DEF WakeupInv
<1> QED
  BY <1>14, <1>15, <1>16, <1>17 DEF Settled

\* The body that follows is that message's, so its handler is called.
LEMMA ReadBodyStep ==
  ASSUME IInv, ReadBody
  PROVE  Settled' /\ delivered' = Append(delivered, Len(delivered) + 1)
               /\ Len(delivered) < Len(msgs)
<1> USE DEF IInv
<1> DEFINE m == Len(delivered) + 1
           p == msgs[m].psize
<1>1. /\ pc = "body" /\ CanRead(tcpbuf, msgs[head].psize)
      /\ tcpbuf' = Skip(tcpbuf, msgs[head].psize, RingCap)
      /\ \/ BodyHere(head) /\ delivered' = Append(delivered, head) /\ pc' = "handler"
         \/ ~BodyHere(head) /\ pc' = "corrupt"
      /\ head' = 0
      /\ msgs' = msgs /\ lock' = lock /\ wr' = wr /\ rest' = rest /\ hct' = hct
      /\ freen' = freen /\ made' = made /\ eventSem' = eventSem
  BY DEF ReadBody
<1>2. head = m /\ m \in 1 .. Len(msgs) /\ Len(delivered) < Len(msgs) /\ Len(delivered) \in Nat
  <2>1. head = m /\ Len(delivered) \in Nat /\ Len(msgs) \in Nat
    BY <1>1, MsgFacts DEF ParserInv
  <2>2. head \in 0 .. Len(msgs)
    BY DEF TypeOK
  <2> QED
    BY <2>1, <2>2
<1>3. /\ msgs[m].beg = Consumed /\ p \in Nat \ {0}
      /\ MsgEnd(m) = Consumed + HeadLen + p
  BY <1>2, NextFacts
<1>4. /\ ReadPos = Consumed + HeadLen /\ Consumed \in Nat /\ ReadPos \in Nat
      /\ tcpbuf \in Buffers(RingCap) /\ RingHolds(tcpbuf, ReadPos, RingCap)
      /\ tcpbuf.len \in 0 .. RingCap
  BY <1>1, MsgFacts, StreamFacts DEF ReadPos, StreamInv, TypeOK
<1>5. p \in 1 .. tcpbuf.len /\ p \in 0 .. tcpbuf.len
  <2>1. tcpbuf.len >= p
    BY <1>1, <1>2 DEF CanRead
  <2> HIDE DEF p
  <2> QED
    BY <1>3, <1>4, <2>1
<1>6. BodyHere(head)
  <2>1. ASSUME NEW k \in 0 .. p - 1
        PROVE  ByteAt(tcpbuf, k, RingCap) = ReadPos + k
    <3>1. k \in 0 .. tcpbuf.len - 1
      <4> HIDE DEF p
      <4> QED
        BY <1>3, <1>4, <1>5
    <3> QED
      BY <1>4, <3>1 DEF RingHolds
  <2> QED
    BY <1>2, <1>3, <1>4, <2>1 DEF BodyHere
<1>7. delivered' = Append(delivered, m) /\ pc' = "handler"
  BY <1>1, <1>2, <1>6
<1>8. /\ delivered' \in Seq(Nat) /\ Len(delivered') = m /\ delivered' # <<>>
      /\ \A i \in 1 .. Len(delivered) : delivered'[i] = delivered[i]
      /\ delivered'[m] = m
  BY <1>2, <1>7, AppendProperties DEF TypeOK
<1>9. Consumed' = ReadPos + p /\ ReadPos' = ReadPos + p
  <2>1. Consumed' = MsgEnd(m)
    BY <1>1, <1>8 DEF Consumed, MsgEnd
  <2>2. Consumed' = ReadPos + p
    <3> HIDE DEF p
    <3> QED
      BY <1>3, <1>4, <2>1
  <2> QED
    BY <1>7, <2>2 DEF ReadPos
<1>10. /\ tcpbuf' \in Buffers(RingCap) /\ tcpbuf'.len = tcpbuf.len - p
       /\ RingHolds(tcpbuf', ReadPos + p, RingCap)
  <2>1. tcpbuf' = Skip(tcpbuf, p, RingCap)
    BY <1>1, <1>2
  <2> HIDE DEF p
  <2> QED
    BY <1>4, <1>5, <2>1, Sizes, SkipHolds
<1>11. ReadPos' + tcpbuf'.len = ReadPos + tcpbuf.len
  <2> HIDE DEF p
  <2> QED
    BY <1>3, <1>4, <1>5, <1>9, <1>10
<1>12. TypeOK'
  <2>1. head' \in 0 .. Len(msgs')
    BY <1>1, <1>2
  <2> QED
    BY <1>1, <1>7, <1>8, <1>10, <2>1 DEF TypeOK
<1>13. ParserInv'
  <2>1. \A i \in 1 .. m : delivered'[i] = i
    <3> SUFFICES ASSUME NEW i \in 1 .. m PROVE delivered'[i] = i
      OBVIOUS
    <3>1. CASE i = m
      BY <1>8, <3>1
    <3>2. CASE i # m
      <4>1. i \in 1 .. Len(delivered)
        BY <1>2, <3>2
      <4> QED
        BY <1>8, <4>1 DEF ParserInv
    <3> QED
      BY <3>1, <3>2
  <2>2. Len(delivered') <= Len(msgs')
    BY <1>1, <1>2, <1>8
  <2> QED
    BY <1>1, <1>7, <1>8, <2>1, <2>2 DEF ParserInv
<1>14. StreamInv'
  <2>1. Written' = Written
    BY <1>1 DEF Written, MsgEnd
  <2>2. ChainHolds(hct', ReadPos' + tcpbuf'.len, Written' - rest', BlockCap)
    BY <1>1, <1>11, <2>1 DEF StreamInv
  <2> QED
    BY <1>7, <1>9, <1>10, <2>2 DEF StreamInv
<1>15. WakeupInv'
  <2>1. Pending' = Pending - 1 /\ Pending \in Nat
    BY <1>1, <1>2, <1>8, MsgFacts DEF Pending
  <2>2. Posting' = Posting
    BY <1>1 DEF Posting
  <2>3. Cardinality(Posting) \in Nat /\ eventSem \in Nat
    BY PostsType DEF TypeOK
  <2>4. Pending <= eventSem + Cardinality(Posting) + 1
    BY DEF WakeupInv
  <2>5. Pending' <= eventSem' + Cardinality(Posting')
    BY <1>1, <2>1, <2>2, <2>3, <2>4
  <2>6. Pending' <= eventSem' + Cardinality(Posting') + 1
    BY <1>1, <2>1, <2>2, <2>3, <2>4
  <2> QED
    BY <1>7, <2>5, <2>6 DEF WakeupInv
<1>16. BlocksConserved'
  BY <1>1 DEF BlocksConserved
<1> QED
  BY <1>2, <1>7, <1>12, <1>13, <1>14, <1>15, <1>16 DEF Settled

\* The head is put back when its body has not come.
LEMMA NoBodyStep ==
  ASSUME IInv, NoBody
  PROVE  Settled'
<1> USE DEF IInv
<1> DEFINE m == Len(delivered) + 1
           p == msgs[m].psize
<1>1. /\ pc = "body" /\ ~CanRead(tcpbuf, msgs[head].psize)
      /\ tcpbuf' = PutBack(tcpbuf, HeadLen, RingCap)
      /\ head' = 0 /\ pc' = "wait"
      /\ msgs' = msgs /\ lock' = lock /\ wr' = wr /\ rest' = rest /\ hct' = hct
      /\ freen' = freen /\ made' = made /\ eventSem' = eventSem
      /\ delivered' = delivered
  BY DEF NoBody
<1>2. head = m
  BY <1>1 DEF ParserInv
<1>3. /\ ReadPos = Consumed + HeadLen /\ Consumed \in Nat /\ ReadPos \in Nat
      /\ tcpbuf \in Buffers(RingCap)
      /\ tcpbuf.len \in 0 .. RingCap /\ tcpbuf.len + HeadLen <= RingCap
      /\ RingHolds(PutBack(tcpbuf, HeadLen, RingCap), Consumed, RingCap)
  BY <1>1, MsgFacts, StreamFacts DEF ReadPos, StreamInv, TypeOK
<1>4. tcpbuf' \in Buffers(RingCap)
  BY <1>1, <1>3, Sizes, PutBackType
<1>5. tcpbuf'.len = tcpbuf.len + HeadLen
  BY <1>1 DEF PutBack
<1>6. Consumed' = Consumed /\ ReadPos' = Consumed /\ Written' = Written /\ Pending' = Pending
      /\ Posting' = Posting
  BY <1>1 DEF Consumed, ReadPos, Written, Pending, MsgEnd, Posting
<1>7. ReadPos' + tcpbuf'.len = ReadPos + tcpbuf.len
  BY <1>3, <1>5, <1>6, Sizes
<1>8. TypeOK'
  <2>1. head' \in 0 .. Len(msgs')
    BY <1>1, MsgFacts
  <2> QED
    BY <1>1, <1>4, <2>1 DEF TypeOK
<1>9. ParserInv' /\ BlocksConserved'
  BY <1>1 DEF ParserInv, BlocksConserved
<1>10. StreamInv'
  <2>1. ChainHolds(hct', ReadPos' + tcpbuf'.len, Written' - rest', BlockCap)
    BY <1>1, <1>6, <1>7 DEF StreamInv
  <2> QED
    BY <1>1, <1>3, <1>6, <2>1 DEF StreamInv
<1>11. ~NextIsComplete
  <2> SUFFICES ASSUME NextIsComplete PROVE FALSE
    OBVIOUS
  <2>1. Len(delivered) < Len(msgs)
    BY MsgFacts DEF NextIsComplete, Pending
  <2>2. ReadPos + tcpbuf.len >= Consumed + HeadLen + p /\ p \in Nat \ {0}
    BY <2>1, NextFacts DEF NextIsComplete
  <2>3. ~(tcpbuf.len >= p /\ tcpbuf.len # 0)
    BY <1>1, <1>2 DEF CanRead
  <2> HIDE DEF p
  <2> QED
    BY <1>3, <2>2, <2>3, Sizes
<1>12. WakeupInv'
  <2>1. Pending <= eventSem + Cardinality(Posting)
    BY <1>1, <1>11 DEF WakeupInv
  <2>2. Pending <= eventSem + Cardinality(Posting) + 1
    BY DEF WakeupInv
  <2> QED
    BY <1>1, <1>6, <2>1, <2>2 DEF WakeupInv
<1> QED
  BY <1>8, <1>9, <1>10, <1>12 DEF Settled

-----------------------------------------------------------------------------
(* The invariant.                                                          *)

\* The invariant holds at first.
LEMMA InitInv == Init => IInv
<1> SUFFICES ASSUME Init PROVE IInv
  OBVIOUS
<1> USE DEF Init
<1>1. tcpbuf \in Buffers(RingCap) /\ tcpbuf.len = 0 /\ tcpbuf.end = Wrap(tcpbuf.start + tcpbuf.len, RingCap)
  BY Sizes DEF NewBuf, Buffers, NoByte, Wrap
<1>2. Len(msgs) = 0 /\ Len(delivered) = 0
  OBVIOUS
<1>3. TypeOK
  <2>1. /\ msgs \in Seq([from : Threads, psize : BodyLens, beg : Nat])
        /\ hct \in Seq(Buffers(BlockCap)) /\ delivered \in Seq(Nat)
    BY EmptySeq
  <2>2. head \in 0 .. Len(msgs)
    BY <1>2
  <2> QED
    BY <1>1, <2>1, <2>2 DEF TypeOK
<1>4. LockInv
  <2>1. Worker \in Threads
    BY DEF Threads
  <2> QED
    BY <2>1 DEF LockInv
<1>5. MsgsInv /\ ParserInv
  BY <1>2 DEF MsgsInv, ParserInv
<1>6. ReadPos = 0 /\ Written = 0
  BY <1>2 DEF ReadPos, Consumed, Written
<1>7. StreamInv
  <2>1. RingHolds(tcpbuf, ReadPos, RingCap)
    BY <1>1, <1>6 DEF RingHolds
  <2>2. ReadPos + tcpbuf.len = Written - rest
    BY <1>1, <1>6
  <2>3. ChainHolds(hct, ReadPos + tcpbuf.len, Written - rest, BlockCap)
    BY <2>2 DEF ChainHolds
  <2> QED
    BY <2>1, <2>3 DEF StreamInv
<1>8. WakeupInv
  <2>1. Cardinality(Posting) \in Nat /\ Pending = 0
    BY <1>2, <1>3, PostsType DEF Pending
  <2> QED
    BY <2>1 DEF WakeupInv
<1>9. BlocksConserved
  BY DEF BlocksConserved
<1> QED
  BY <1>3, <1>4, <1>5, <1>7, <1>8, <1>9 DEF IInv

\* Every step keeps the invariant.
LEMMA NextInv == IInv /\ [Next]_vars => IInv'
<1> SUFFICES ASSUME IInv, [Next]_vars PROVE IInv'
  OBVIOUS
<1>1. LockInv' /\ MsgsInv'
  BY LockStep, MsgsStep DEF IInv
<1>2. ASSUME NEW t \in Threads, WriteStep(t)
      PROVE  Settled'
  BY <1>2, WriteBlockStep, PostStep DEF WriteStep
<1>3. ASSUME NEW t \in Threads, NEW n \in BodyLens, WriteLock(t, n)
      PROVE  Settled'
  BY <1>3, WriteLockStep
<1>4. ASSUME WorkerStep
      PROVE  Settled'
  <2>1. CASE SemWait \/ DriveLock \/ MoveEnd \/ Return \/ NoHead
    BY <2>1, QuietStep
  <2>2. CASE MoveBlock
    BY <2>2, MoveBlockStep
  <2>3. CASE ReadHead
    BY <2>3, ReadHeadStep
  <2>4. CASE ReadBody
    BY <2>4, ReadBodyStep
  <2>5. CASE NoBody
    BY <2>5, NoBodyStep
  <2> QED
    BY <1>4, <2>1, <2>2, <2>3, <2>4, <2>5 DEF WorkerStep
<1>5. ASSUME UNCHANGED vars
      PROVE  Settled'
  <2>1. /\ msgs' = msgs /\ lock' = lock /\ wr' = wr /\ rest' = rest /\ hct' = hct
        /\ freen' = freen /\ made' = made /\ eventSem' = eventSem /\ pc' = pc
        /\ tcpbuf' = tcpbuf /\ head' = head /\ delivered' = delivered
    BY <1>5 DEF vars
  <2>2. /\ Consumed' = Consumed /\ ReadPos' = ReadPos /\ Written' = Written
        /\ Pending' = Pending /\ (NextIsComplete' <=> NextIsComplete)
        /\ Posting' = Posting
    BY <2>1 DEF Consumed, ReadPos, Written, Pending, NextIsComplete, MsgEnd, Posting
  <2>3. TypeOK'
    BY <2>1 DEF IInv, TypeOK
  <2>4. ParserInv' /\ BlocksConserved'
    BY <2>1 DEF IInv, ParserInv, BlocksConserved
  <2>5. StreamInv'
    BY <2>1, <2>2 DEF IInv, StreamInv
  <2>6. WakeupInv'
    BY <2>1, <2>2 DEF IInv, WakeupInv
  <2> QED
    BY <2>3, <2>4, <2>5, <2>6 DEF Settled
<1>6. ASSUME Next
      PROVE  Settled'
  <2>1. \/ \E t \in Threads : WriteStep(t)
        \/ \E t \in Threads : \E n \in BodyLens : WriteLock(t, n)
        \/ WorkerStep
    BY <1>6 DEF Next
  <2> QED
    BY <1>2, <1>3, <1>4, <2>1
<1>7. Settled'
  BY <1>5, <1>6
<1> QED
  BY <1>1, <1>7 DEF IInv, Settled

\* The inductive invariant holds in every state of a channel.
THEOREM ChannelInvariant == Spec => []IInv
  BY InitInv, NextInv, PTL DEF Spec

\* Every variable of a channel keeps its type (hg_channel.h:11-28).
THEOREM ChannelTypes == Spec => []TypeOK
<1>1. IInv => TypeOK
  BY DEF IInv
<1> QED
  BY <1>1, ChannelInvariant, PTL

\* Whatever the sizes and the number of writers, the worker reads only whole
\* heads and whole bodies of messages, at their boundaries (hg_channel.cpp:152-227).
THEOREM ParserNeverCorrupted == Spec => []NoCorruption
<1>1. IInv => NoCorruption
  BY DEF IInv, ParserInv, NoCorruption
<1> QED
  BY <1>1, ChannelInvariant, PTL

\* Whatever the sizes and the number of writers, a worker that sleeps with
\* no post to come has handled every message (hg_channel.cpp:92-150).
THEOREM NoWakeupLost == Spec => []NoLostWakeup
<1>1. ASSUME IInv, pc = "wait", eventSem = 0, \A t \in Threads : wr[t] = "idle"
      PROVE  Len(delivered) = Len(msgs) /\ hct = <<>> /\ tcpbuf.len = 0
  <2> USE <1>1 DEF IInv
  <2>1. Posting = {} /\ Cardinality(Posting) = 0
    BY FS_EmptySet DEF Posting
  <2>2. Len(delivered) = Len(msgs)
    BY <2>1, MsgFacts DEF WakeupInv, Pending
  <2>3. ReadPos = Written /\ Written \in Nat
    BY <2>2, MsgFacts DEF ReadPos
  <2>4. rest \in Nat /\ tcpbuf.len \in Nat /\ ReadPos + tcpbuf.len <= Written - rest
    BY StreamFacts, Sizes DEF TypeOK
  <2>5. tcpbuf.len = 0 /\ rest = 0
    BY <2>3, <2>4
  <2>6. hct = <<>>
    <3> SUFFICES ASSUME hct # <<>> PROVE FALSE
      OBVIOUS
    <3>1. ChainHolds(hct, Written, Written, BlockCap) /\ hct \in Seq(Buffers(BlockCap))
      BY <2>3, <2>5 DEF StreamInv, TypeOK
    <3>2. 1 \in 1 .. Len(hct) /\ hct[1] \in Buffers(BlockCap)
      BY <3>1, EmptySeq, LenProperties, ElementOfSeq
    <3>3. First(hct[1]) = Written /\ First(hct[1]) + hct[1].len <= Written
      BY <3>1, <3>2 DEF ChainHolds
    <3>4. hct[1].len \in Nat /\ 0 < hct[1].len
      BY <3>1, <3>2, Sizes, BufferFields DEF ChainHolds, BlockHolds
    <3> QED
      BY <2>3, <3>3, <3>4
  <2> QED
    BY <2>2, <2>5, <2>6
<1>2. IInv => NoLostWakeup
  BY <1>1 DEF NoLostWakeup
<1> QED
  BY <1>2, ChannelInvariant, PTL

-----------------------------------------------------------------------------
(* The refinement.                                                         *)

Senders == [i \in DOMAIN msgs |-> msgs[i].from]

\* Messages are handled once each, in the order in which their writers got
\* the lock: the channel implements the FIFO of ChannelFifo.
THEOREM ChannelImplementsFifo == Spec => ImplementsFifo
<1>1. Init => Fifo!Init
  <2> SUFFICES ASSUME Init PROVE Senders = <<>> /\ delivered = <<>>
    BY DEF Fifo!Init, Senders
  <2> QED
    BY DEF Init, Senders
<1>2. ASSUME IInv, [Next]_vars
      PROVE  [Fifo!Next]_<<Senders, delivered>>
  <2> USE <1>2 DEF IInv
  <2>1. ASSUME NEW t \in Threads, NEW n \in BodyLens, WriteLock(t, n)
        PROVE  Fifo!Send(t)
    <3> DEFINE k == Len(msgs)
    <3>1. /\ k \in Nat /\ DOMAIN msgs = 1 .. k /\ k < MaxMsgs /\ delivered' = delivered
      <4>1. k < MaxMsgs /\ delivered' = delivered
        BY <2>1 DEF WriteLock
      <4>2. msgs \in Seq([from : Threads, psize : BodyLens, beg : Nat])
        BY DEF TypeOK
      <4>3. k \in Nat /\ DOMAIN msgs = 1 .. k
        BY <4>2, LenProperties
      <4> QED
        BY <4>1, <4>3
    <3>2. /\ Len(msgs') = k + 1 /\ DOMAIN msgs' = 1 .. k + 1
          /\ \A i \in 1 .. k : msgs'[i] = msgs[i]
      <4>1. /\ Len(msgs') = k + 1
            /\ \A i \in 1 .. k : msgs'[i] = msgs[i]
        BY <2>1, <3>1, WriteLockFacts
      <4>2. msgs' \in Seq([from : Threads, psize : BodyLens, beg : Nat])
        BY <2>1, WriteLockFacts
      <4>3. DOMAIN msgs' = 1 .. Len(msgs')
        BY <4>2, LenProperties
      <4> QED
        BY <4>1, <4>3
    <3>3. msgs'[k + 1] = [from |-> t, psize |-> n, beg |-> Written]
      BY <2>1, WriteLockFacts
    <3>4. msgs'[k + 1].from = t
      BY <3>3
    <3> HIDE DEF k
    <3>5. /\ Senders = [i \in 1 .. k |-> msgs[i].from]
          /\ Senders' = [i \in 1 .. k + 1 |-> msgs'[i].from]
      BY <3>1, <3>2 DEF Senders
    <3>6. Senders \in Seq(Threads) /\ Len(Senders) = k
      <4>1. \A i \in 1 .. k : msgs[i].from \in Threads
        <5>1. \A i \in 1 .. k : msgs[i] \in [from : Threads, psize : BodyLens, beg : Nat]
          BY ElementOfSeq DEF k, TypeOK
        <5> QED
          BY <5>1
      <4> QED
        BY <3>1, <3>5, <4>1
    <3>7. Senders' \in Seq(Threads) /\ Len(Senders') = k + 1
      <4>1. \A i \in 1 .. k + 1 : msgs'[i].from \in Threads
        <5>1. Len(msgs') = k + 1 /\ msgs' \in Seq([from : Threads, psize : BodyLens, beg : Nat])
          BY <2>1, <3>2, WriteLockFacts
        <5>2. \A i \in 1 .. k + 1 : msgs'[i] \in [from : Threads, psize : BodyLens, beg : Nat]
          BY <5>1, ElementOfSeq
        <5> QED
          BY <5>2
      <4> QED
        BY <3>1, <3>5, <4>1
    <3> DEFINE A == Append(Senders, t)
    <3>8. /\ A \in Seq(Threads) /\ Len(A) = k + 1 /\ A[k + 1] = t
          /\ \A i \in 1 .. k : A[i] = Senders[i]
      BY <3>6, AppendProperties
    <3> HIDE DEF A
    <3>9. \A i \in 1 .. k + 1 : Senders'[i] = A[i]
      <4> SUFFICES ASSUME NEW i \in 1 .. k + 1 PROVE Senders'[i] = A[i]
        OBVIOUS
      <4>1. Senders'[i] = msgs'[i].from
        BY <3>5
      <4>2. CASE i = k + 1
        BY <3>4, <3>8, <4>1, <4>2
      <4>3. CASE i # k + 1
        <5>1. i \in 1 .. k
          BY <3>1, <4>3
        <5> QED
          BY <3>2, <3>5, <3>8, <4>1, <5>1
      <4> QED
        BY <4>2, <4>3
    <3>10. Senders' = A
      BY <3>7, <3>8, <3>9, SeqEqual
    <3> QED
      BY <3>1, <3>6, <3>10 DEF Fifo!Send, A, Senders
  <2>2. ASSUME ReadBody
        PROVE  Fifo!Take
    <3>1. /\ delivered' = Append(delivered, Len(delivered) + 1)
          /\ Len(delivered) < Len(msgs) /\ msgs' = msgs
      BY <2>2, ReadBodyStep DEF ReadBody
    <3>2. Len(Senders) = Len(msgs)
      BY LenProperties DEF Senders, TypeOK
    <3> QED
      BY <3>1, <3>2 DEF Fifo!Take, Senders
  <2>3. CASE UNCHANGED <<msgs, delivered>>
    BY <2>3 DEF Senders
  <2>4. (\E t \in Threads : \E n \in BodyLens : WriteLock(t, n)) \/ ReadBody
          \/ UNCHANGED <<msgs, delivered>>
    BY DEF Next, WriteStep, WorkerStep, WriteBlock, Post, SemWait, DriveLock,
       MoveBlock, MoveEnd, ReadHead, Return, NoHead, NoBody, vars
  <2> QED
    BY <2>1, <2>2, <2>3, <2>4 DEF Fifo!Next
<1>3. IInv /\ [Next]_vars => [Fifo!Next]_Fifo!fifoVars
  BY <1>2 DEF Fifo!fifoVars, Senders
<1> QED
  BY <1>1, <1>3, ChannelInvariant, PTL DEF Spec, ImplementsFifo, Fifo!Spec
=============================================================================
