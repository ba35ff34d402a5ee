----------------------------- MODULE HgChannel -----------------------------
(***************************************************************************)
(* A channel (net/threads/hg_channel.cpp) and the worker that serves it    *)
(* (net/threads/hg_worker.cpp).  Every thread of the server hands work to  *)
(* a worker by WriteChan: under a spin lock the message (head and body) is *)
(* cut into the blocks of a chain, then the semaphore is posted.  The      *)
(* worker loops in Drive: it waits for the semaphore, moves what it can of *)
(* the chain to its circle tcpbuf under the lock, and calls the handler of *)
(* every complete message in the circle, on whose behalf it may itself     *)
(* write to its own channel.                                               *)
(*                                                                         *)
(* One action is one iteration of a loop of the code, or one blocking      *)
(* call.  Bytes are stream positions (see HgBuf); the message number i has *)
(* the bytes msgs[i].beg .. MsgEnd(i) - 1, its head the first HeadLen.     *)
(***************************************************************************)
EXTENDS HgBuf, Sequences, FiniteSets

CONSTANTS Writers,    \* the other threads that write to the channel
          Worker,     \* the thread that drives it
          HeadLen,    \* sizeof(hgtEvent)
          BodyLens,   \* the values of psize
          BlockCap,   \* MAX_BUF_BLOSIZE
          RingCap,    \* HGCHANNELLENMAX
          MaxMsgs     \* bound: messages written in a behaviour

ASSUME ChannelAssumption ==
  /\ IsFiniteSet(Writers) /\ Worker \notin Writers
  /\ HeadLen \in Nat \ {0} /\ BlockCap \in Nat \ {0} /\ RingCap \in Nat \ {0}
  /\ BodyLens \subseteq Nat \ {0}
  /\ \A n \in BodyLens : HeadLen + n <= RingCap
  /\ MaxMsgs \in Nat

VARIABLES
  msgs,       \* history: the messages in the order their writers got the lock
  lock,       \* the spin lock
  wr,         \* per thread, where it is in WriteChan
  rest,       \* the local "rest" of the writer that holds the lock, else 0
  hct,        \* the chain of blocks, left to right
  freen,      \* how many blocks are on the free list
  made,       \* how many blocks were taken from the pool
  eventSem,   \* the semaphore
  pc,         \* where the worker is in Drive and Handlemsg
  tcpbuf,     \* the worker's circle
  head,       \* the message whose head is in the local "head"
  delivered   \* history: the messages whose handler was called, in order

vars == <<msgs, lock, wr, rest, hct, freen, made, eventSem, pc, tcpbuf, head,
          delivered>>

Threads == Writers \cup {Worker}

MsgEnd(i) == msgs[i].beg + HeadLen + msgs[i].psize

\* The number of bytes of the messages accepted so far.
Written == IF msgs = <<>> THEN 0 ELSE MsgEnd(Len(msgs))

Init ==
  /\ msgs = <<>> /\ delivered = <<>>
  /\ lock = FALSE /\ rest = 0 /\ eventSem = 0
  /\ wr = [t \in Threads |-> "idle"]
  /\ hct = <<>> /\ freen = 0 /\ made = 0
  /\ pc = "wait" /\ head = 0
  /\ tcpbuf = NewBuf(RingCap)

-----------------------------------------------------------------------------
(* WriteChan                                                               *)

\* The thread takes the lock.  The worker writes to its own channel only
\* from a handler.
WriteLock(t, n) ==
  /\ wr[t] = "idle" /\ (t = Worker => pc = "handler")
  /\ Len(msgs) < MaxMsgs
  /\ ~lock /\ lock' = TRUE
  /\ msgs' = Append(msgs, [from |-> t, psize |-> n, beg |-> Written])
  /\ rest' = HeadLen + n
  /\ wr' = [wr EXCEPT ![t] = "copy"]
  /\ UNCHANGED <<hct, freen, made, eventSem, pc, tcpbuf, head, delivered>>

\* Hg_GetSingleOrIdleBuf takes a new block when the right one is full.
NeedsBlock == hct = <<>> \/ RightRoom(hct[Len(hct)], BlockCap) <= 0

\* Hg_SingleNewNode: from the free list if there is one, else from the pool.
TakeBlock == IF freen > 0 THEN freen' = freen - 1 /\ UNCHANGED made
                          ELSE made' = made + 1 /\ UNCHANGED freen

\* One iteration of the copy loop; the last one releases the lock.
WriteBlock(t) ==
  LET chain == IF NeedsBlock THEN Append(hct, NewBuf(BlockCap)) ELSE hct
      right == Len(chain)
      n     == Lesser(RightRoom(chain[right], BlockCap), rest)
  IN /\ wr[t] = "copy"
     /\ IF NeedsBlock THEN TakeBlock ELSE UNCHANGED <<freen, made>>
     /\ hct' = [chain EXCEPT
                  ![right] = AppendBytes(@, Written - rest, n, BlockCap)]
     /\ rest' = rest - n
     /\ IF rest' = 0 THEN lock' = FALSE /\ wr' = [wr EXCEPT ![t] = "post"]
                     ELSE UNCHANGED <<lock, wr>>
     /\ UNCHANGED <<msgs, eventSem, pc, tcpbuf, head, delivered>>

\* sem_post, after the lock was released.
Post(t) ==
  /\ wr[t] = "post"
  /\ eventSem' = eventSem + 1
  /\ wr' = [wr EXCEPT ![t] = "idle"]
  /\ UNCHANGED <<msgs, lock, rest, hct, freen, made, pc, tcpbuf, head, delivered>>

-----------------------------------------------------------------------------
(* Drive                                                                   *)

SemWait ==
  /\ pc = "wait" /\ eventSem > 0
  /\ eventSem' = eventSem - 1
  /\ pc' = "lock"
  /\ UNCHANGED <<msgs, lock, wr, rest, hct, freen, made, tcpbuf, head, delivered>>

DriveLock ==
  /\ pc = "lock" /\ ~lock
  /\ lock' = TRUE
  /\ pc' = "move"
  /\ UNCHANGED <<msgs, wr, rest, hct, freen, made, eventSem, tcpbuf, head, delivered>>

\* Wrong: a block that was moved does not go to the free list.
MoveBlockLeaks ==
  LET left  == Head(hct)
      total == Accepted(tcpbuf, left.len, RingCap)
  IN /\ pc = "move" /\ hct # <<>>
     /\ tcpbuf' = WriteN(tcpbuf, left.mem, left.start, left.len, RingCap)
     /\ IF total = left.len
        THEN hct' = Tail(hct) /\ UNCHANGED <<lock, pc>>
        ELSE /\ hct' = [hct EXCEPT ![1] = Skip(@, total, BlockCap)]
             /\ lock' = FALSE /\ pc' = "head"
     /\ UNCHANGED <<msgs, wr, rest, freen, made, eventSem, head, delivered>>

\* Wrong: one block per post.
MoveBlockOnce ==
  LET left  == Head(hct)
      total == Accepted(tcpbuf, left.len, RingCap)
  IN /\ pc = "move" /\ hct # <<>>
     /\ tcpbuf' = WriteN(tcpbuf, left.mem, left.start, left.len, RingCap)
     /\ IF total = left.len
        THEN hct' = Tail(hct) /\ freen' = freen + 1
        ELSE hct' = [hct EXCEPT ![1] = Skip(@, total, BlockCap)] /\ UNCHANGED freen
     /\ lock' = FALSE /\ pc' = "head"
     /\ UNCHANGED <<msgs, wr, rest, made, eventSem, head, delivered>>

\* The left block goes to the circle as far as there is room: all of it, and
\* it goes to the free list (Hg_SingleDelchainL), or a part, and the loop ends.
MoveBlock ==
  LET left  == Head(hct)
      total == Accepted(tcpbuf, left.len, RingCap)
  IN /\ pc = "move" /\ hct # <<>>
     /\ tcpbuf' = WriteN(tcpbuf, left.mem, left.start, left.len, RingCap)
     /\ \/ /\ total = left.len
           /\ hct' = Tail(hct)
           /\ freen' = freen + 1
           /\ UNCHANGED <<lock, pc>>
        \/ /\ total < left.len
           /\ hct' = [hct EXCEPT ![1] = Skip(@, total, BlockCap)]
           /\ lock' = FALSE /\ pc' = "head"
           /\ UNCHANGED freen
     /\ UNCHANGED <<msgs, wr, rest, made, eventSem, head, delivered>>

MoveEnd ==
  /\ pc = "move" /\ hct = <<>>
  /\ lock' = FALSE /\ pc' = "head"
  /\ UNCHANGED <<msgs, wr, rest, hct, freen, made, eventSem, tcpbuf, head, delivered>>

-----------------------------------------------------------------------------
(* Handlemsg                                                               *)

\* The messages whose head, whose body, is exactly the next bytes.
HeadsHere == {i \in DOMAIN msgs :
                \A k \in 0 .. HeadLen - 1 :
                  ByteAt(tcpbuf, k, RingCap) = msgs[i].beg + k}

BodyHere(i) == \A k \in 0 .. msgs[i].psize - 1 :
                 ByteAt(tcpbuf, k, RingCap) = msgs[i].beg + HeadLen + k

\* A head that is not the head of any message, or a body that is not its
\* body, sends the worker through a wild handler pointer: "corrupt".
ReadHead ==
  /\ pc = "head" /\ CanRead(tcpbuf, HeadLen)
  /\ tcpbuf' = Skip(tcpbuf, HeadLen, RingCap)
  /\ \/ \E i \in HeadsHere : head' = i /\ pc' = "body"
     \/ HeadsHere = {} /\ pc' = "corrupt" /\ UNCHANGED head
  /\ UNCHANGED <<msgs, lock, wr, rest, hct, freen, made, eventSem, delivered>>

\* Wrong: the head is put back although its body was handled.
ReadBodyTwice ==
  /\ pc = "body" /\ CanRead(tcpbuf, msgs[head].psize) /\ BodyHere(head)
  /\ tcpbuf' = PutBack(tcpbuf, HeadLen, RingCap)
  /\ delivered' = Append(delivered, head)
  /\ pc' = "handler" /\ head' = 0
  /\ UNCHANGED <<msgs, lock, wr, rest, hct, freen, made, eventSem>>

ReadBody ==
  /\ pc = "body" /\ CanRead(tcpbuf, msgs[head].psize)
  /\ tcpbuf' = Skip(tcpbuf, msgs[head].psize, RingCap)
  /\ \/ /\ BodyHere(head)
        /\ delivered' = Append(delivered, head)
        /\ pc' = "handler"
     \/ ~BodyHere(head) /\ pc' = "corrupt" /\ UNCHANGED delivered
  /\ head' = 0
  /\ UNCHANGED <<msgs, lock, wr, rest, hct, freen, made, eventSem>>

\* The handler returns; gethead = 0 again.
Return ==
  /\ pc = "handler" /\ wr[Worker] = "idle"
  /\ pc' = "head"
  /\ UNCHANGED <<msgs, lock, wr, rest, hct, freen, made, eventSem, tcpbuf, head, delivered>>

NoHead ==
  /\ pc = "head" /\ ~CanRead(tcpbuf, HeadLen)
  /\ pc' = "wait"
  /\ UNCHANGED <<msgs, lock, wr, rest, hct, freen, made, eventSem, tcpbuf, head, delivered>>

NoBody ==
  /\ pc = "body" /\ ~CanRead(tcpbuf, msgs[head].psize)
  /\ tcpbuf' = PutBack(tcpbuf, HeadLen, RingCap)
  /\ head' = 0
  /\ pc' = "wait"
  /\ UNCHANGED <<msgs, lock, wr, rest, hct, freen, made, eventSem, delivered>>

-----------------------------------------------------------------------------
WriteStep(t) == WriteBlock(t) \/ Post(t)

WorkerStep == \/ SemWait \/ DriveLock \/ MoveBlock \/ MoveEnd
              \/ ReadHead \/ ReadBody \/ Return \/ NoHead \/ NoBody

Next == \/ \E t \in Threads : WriteStep(t) \/ \E n \in BodyLens : WriteLock(t, n)
        \/ WorkerStep

Spec == Init /\ [][Next]_vars

\* Threads run: a started WriteChan and the worker go on.  Nobody has to
\* write, and the spin lock gives no turn to the one who waits for it.
Fairness == WF_vars(WorkerStep) /\ \A t \in Threads : WF_vars(WriteStep(t))

FairSpec == Spec /\ Fairness
=============================================================================
