------------------------------- MODULE HgBuf -------------------------------
(***************************************************************************)
(* The byte buffer hg_Buf_Gen_t and the operations of                      *)
(* net/protocol/core/hg_buf.cpp on one buffer.  A buffer of capacity cap   *)
(* is the record [start, end, len, mem]; the code uses the same type for   *)
(* two disciplines: a circle (the tcpbuf of a channel or of a socket) and  *)
(* a block that is only appended to on its right (the nodes of a chain).   *)
(*                                                                         *)
(* A byte is represented by its position in the stream of all the bytes    *)
(* ever written, so a byte that is lost, repeated, moved or read from a    *)
(* cell that was never written is visible; what the byte encodes is not    *)
(* modelled.  NoByte is the content of a cell nothing was written to.      *)
(***************************************************************************)
EXTENDS Integers, Sequences

NoByte == -1

Lesser(m, n) == IF m <= n THEN m ELSE n

\* "if (i >= cap) i -= cap", the only form of wrapping the code uses.
Wrap(i, cap) == IF i >= cap THEN i - cap ELSE i

Buffers(cap) == [start : 0 .. cap - 1, end : 0 .. cap - 1, len : 0 .. cap,
                 mem : [0 .. cap - 1 -> Nat \cup {NoByte}]]

\* hg_Buf_Gen_t::init() followed by the assignment of data and cap.
NewBuf(cap) == [start |-> 0, end |-> 0, len |-> 0,
                mem |-> [c \in 0 .. cap - 1 |-> NoByte]]

-----------------------------------------------------------------------------
(* The circle: Hg_Buf_WriteN and Hg_Buf_ReadN.                             *)

\* How many bytes Hg_Buf_WriteN can still take.
Room(b, cap) == IF b.len = cap THEN 0
                ELSE IF b.start <= b.end THEN cap - b.end + b.start
                     ELSE b.start - b.end

\* The return value of Hg_Buf_WriteN(src, b, n).
Accepted(b, n, cap) == Lesser(n, Room(b, cap))

\* Which byte of the source goes to cell c (its distance from b.end).
CellDistance(b, c, cap) == IF c >= b.end THEN c - b.end ELSE cap - b.end + c

\* The buffer after Hg_Buf_WriteN(src + from, b, n).
WriteN(b, src, from, n, cap) ==
  LET total == Accepted(b, n, cap)
  IN  [start |-> b.start,
       end   |-> Wrap(b.end + total, cap),
       len   |-> b.len + total,
       mem   |-> [c \in 0 .. cap - 1 |->
                    IF CellDistance(b, c, cap) < total
                    THEN src[from + CellDistance(b, c, cap)]
                    ELSE b.mem[c]]]

\* Hg_Buf_ReadN(dist, b, n, skip) returns 0, i.e. there are n bytes to read.
CanRead(b, n) == b.len >= n /\ b.len # 0

\* The i-th byte Hg_Buf_ReadN copies to dist.
ByteAt(b, i, cap) == b.mem[Wrap(b.start + i, cap)]

\* Wrong: the start runs over the end of the memory.
SkipNoWrap(b, skip, cap) == [start |-> b.start + skip, end |-> b.end,
                             len |-> b.len - skip, mem |-> b.mem]

\* The buffer after a successful Hg_Buf_ReadN(dist, b, n, skip).
Skip(b, skip, cap) == [start |-> Wrap(b.start + skip, cap), end |-> b.end,
                       len |-> b.len - skip, mem |-> b.mem]

\* Wrong: what was read stays read.
PutBackForgotten(b, n, cap) == b

\* The buffer after the n bytes read last were put back (Handlemsg does it
\* with a head whose body has not come yet).
PutBack(b, n, cap) == [start |-> IF b.start >= n THEN b.start - n
                                 ELSE Wrap(cap - (n - b.start), cap),
                       end |-> b.end, len |-> b.len + n, mem |-> b.mem]

\* A circle that holds the stream from position pos on.
RingHolds(b, pos, cap) ==
  /\ b.end = Wrap(b.start + b.len, cap)
  /\ \A k \in 0 .. b.len - 1 : ByteAt(b, k, cap) = pos + k

-----------------------------------------------------------------------------
(* The block: Hg_GetSingleOrIdleBuf and the copy that follows it.          *)

\* tmpsize of Hg_GetSingleOrIdleBuf: the room at the right of a block.
RightRoom(b, cap) == cap - b.len - b.start

\* memcpy of n bytes, the stream positions pos, pos + 1, ..., at data + end.
AppendBytes(b, pos, n, cap) ==
  [start |-> b.start, end |-> Wrap(b.end + n, cap), len |-> b.len + n,
   mem |-> [c \in 0 .. cap - 1 |->
              IF c >= b.end /\ c < b.end + n THEN pos + (c - b.end)
              ELSE b.mem[c]]]

\* A block that holds the stream from position pos on.
BlockHolds(b, pos, cap) ==
  /\ 0 <= pos /\ 0 < b.len /\ b.start + b.len <= cap
  /\ b.end = Wrap(b.start + b.len, cap)
  /\ \A k \in 0 .. b.len - 1 : b.mem[b.start + k] = pos + k

First(b) == b.mem[b.start]

\* A chain of blocks that holds the stream from position from up to to.
ChainHolds(chain, from, to, cap) ==
  /\ \A i \in 1 .. Len(chain) : /\ BlockHolds(chain[i], First(chain[i]), cap)
                                /\ First(chain[i]) + chain[i].len <= to
  /\ \A i \in 1 .. Len(chain) - 1 :
       First(chain[i + 1]) = First(chain[i]) + chain[i].len
  /\ IF chain = <<>> THEN from = to
     ELSE /\ First(chain[1]) = from
          /\ First(chain[Len(chain)]) + chain[Len(chain)].len = to

-----------------------------------------------------------------------------
(* The lengths of the nodes of a chain.                                    *)

\* The bytes of the first i nodes, for each i.
BytesTo(lens) == LET sum[i \in 0 .. Len(lens)] ==
                       IF i = 0 THEN 0 ELSE sum[i - 1] + lens[i]
                 IN  sum
=============================================================================
