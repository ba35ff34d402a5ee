# huageserver: a verification project

huageserver is a media server in C++.  Clients log in and enter rooms over TCP,
send audio and video over TCP or UDP, and receive the mixed audio of their room
and the video of those they are subscribed to.  This directory holds TLA+ models
of the server's core, the TLC configurations that check them on small instances,
and TLAPS proofs of theorems about them for all values of their constants.

Paths are relative to `src/src/` unless they begin with `src/`.

## 1. The system

### Threads and how they talk

| thread | loop | what it runs |
| --- | --- | --- |
| main | `main.cpp:104-106` | `hgapp->Channel.Drive`, network error reports |
| 2 workers | `net/threads/hg_worker.cpp:12-23` | `HgChannel::Drive` on their own channel |
| TCP loop, UDP loop | `net/common/hg_iocp.cpp:57-93` | epoll: accept, recv, the pipe |
| timer | `base/timer` | nothing is registered with it |

Everything that has an owner is handed to its owner as a message: a `hgtEvent`
(handler, context, size) and a body, written to the channel of the worker
`k % 2`, where `k` is a session's ssrc or a room's id.  Sessions, their caches
and their pools belong to the worker of their ssrc; rooms to the worker of their
id; sockets and the memory of received data to the epoll loop that owns them,
which is reached through a pipe (`hg_pipe.cpp`).  There are no other locks: what
is correct rests on the channel keeping messages whole and in order and on each
piece of memory being given back once, by a message to its owner.

### Components

| component | state | operations | what makes it correct |
| --- | --- | --- | --- |
| Channel, worker (`net/threads`) | chain of blocks, free list, spin lock, semaphore, circle `tcpbuf` | `WriteChan`, `Drive`, `Handlemsg` | messages whole, once, in order of acceptance; no sleep with work to do |
| Byte buffers, chains (`core/hg_buf.cpp`) | start, end, len, data | `Hg_Buf_WriteN`, `Hg_Buf_ReadN`, `Hg_GetSingleOrIdleBuf`, chain push and delete | no byte lost, repeated or moved, at full, empty and wrapped |
| Pool (`core/hg_pool.c`) | chain of pages in use, chain of free pages; per page the next free offset and the bytes in use | `myPoolAlloc`, `myPoolFree`, `myPoolDestroy` | blocks never overlap; a page is used again only when nothing of it is held |
| Sequence arithmetic (`core/tools.c`) | none | `uint16Sub`, `uint16Add`, ... | a circular order that agrees with addition |
| Session table (`protocol/hgsession.cpp`, `app/session.cpp`) | bucket per worker, free sessions, subscriptions | `ActiveSess`, `sessGetFreeSess`, login, subscribe | one session per ssrc, its state kept |
| Send stream (`protocol/huage_sendstream.cpp`) | sequence number, cache of 200 packets | `SendData`, `THPOOLSend`, answers to lost packets | each frame freed once; what is sent again is what was asked for |
| Receive stream (`protocol/huage_recvstream.cpp`) | receive cache, frame being put together | `THPOOLRecv`, `writeTocache`, free by channel | packets delivered in order, memory given back |
| UDP (`common/hg_udpabstract.cpp`) | socket, receive memory | receive, send, free through the pipe | each datagram's memory given back once |
| TCP (`common/hg_tcpabstract.cpp`) | receive circle and frame per socket, send chain per session | accept, receive frames, send with what the socket takes | frames cut at their boundaries; the byte stream is a sequence of whole frames |
| Netabstract (`common/hg_netabstract.cpp`) | none | `PreSendData`, `SendDataQueue`, `CreateFrameStr` | a frame goes to the worker of its receiver, then to TCP or UDP |
| Pipe (`common/hg_pipe.cpp`) | socket pair, message being read | `WritePipe`, `PipeRecvmsg` | as the channel |
| Epoll loop (`common/hg_iocp.cpp`) | registrations | `AddFdEvt`, `Loop` | each edge of a socket is handled to its end |
| Descriptor table (`protocol/hgfdevent.cpp`) | chain of free entries; per entry its descriptor, session and pool | `GetFreeFdEv`, `SetFreeFdEv` | an entry is free or serves one socket; the session behind it is that of the socket's client |
| Room (`app/room.cpp`) | users, mixing buffer of one second, play position, time stamps of its speakers, frame list | enter, `RoomMergeData`, `OutConsumeQueue`, free by channel | a frame is mixed into the slot of its time, each slot played once, frames reused only when given back by their receiver |
| Consumers (`app/*_consumer.cpp`) | reference counts of video frames | text commands, audio to the room, video to subscribers | a video frame freed when its last receiver has given it back |
| JSON, SDP, G.711, H.264 parsing, timer, `src/epoll_test`, `src/build` | | | vendored, generated, unused, or experiments of their own: not modelled |

### What is hard

- interleaving: any thread writes to a channel while its worker moves blocks away
  and, from inside a handler, writes to it too;
- partial work: a message may be half in the circle and half in the chain, its
  head read and put back; a socket takes a part of a frame;
- ownership across threads: frames of a room lie in the caches of sessions of
  the other worker until they are overwritten, and come back as messages;
- connections that fail while messages that name their entry still wait, and
  entries that are taken again by the other thread;
- bursts, pauses and late pieces of audio, against a play position that only the
  next piece moves;
- retransmission: late requests for packets whose memory may be gone;
- wrap-around of circles, of caches, of sequence numbers and of time stamps.

## 2. Modules

| module | models | role |
| --- | --- | --- |
| `HgBuf` | `core/hg_buf.cpp`, `hg_buf_comm.h` | operators: circles and the blocks of a chain |
| `HgChannel` | `threads/hg_channel.cpp`, `threads/hg_worker.cpp` | one channel, its writers and its worker |
| `ChannelFifo` | | what a channel promises |
| `HgChannelInv` | | properties, inductive invariant, refinement of `ChannelFifo` |
| `HgBuf_proofs`, `HgChannel_proofs` | | lemmas about buffers, sums of bytes and remainders, which the other proofs use as well; the theorems about the channel |
| `SeqNum` | `core/tools.c:346-373` | arithmetic of sequence numbers (its lemmas are in `HgSendStream_proofs`) |
| `HgSendStream`, `HgSendStream_proofs` | `protocol/huage_sendstream.cpp` | the sending side of one media type of one UDP session |
| `RoomFrames` | `app/room.cpp`, `app/audio_consumer.cpp`, `common/hg_netabstract.cpp` | rooms, sessions, their workers, and the messages between them |
| `RoomMix` | `app/room.cpp:199-275`, `480-571` | when a room mixes and plays what |
| `Room_proofs` | | the theorems about `RoomFrames` and `RoomMix` |
| `HgTcpRecv` | `common/hg_tcpabstract.cpp` (receiving) | frames out of one connection's byte stream |
| `HgTcpSend` | `common/hg_tcpabstract.cpp` (sending) | the send chain of one session, against a socket that takes what it likes |
| `HgTcpRecv_proofs` | | the theorems about both directions of TCP |
| `HgPool`, `HgPool_proofs` | `core/hg_pool.c` | one memory pool |
| `HgConn`, `HgConn_proofs` | `hg_tcpabstract.cpp`, `hg_iocp.cpp`, `hgfdevent.cpp`, `hg_netabstract.cpp`, `huage_recvstream.cpp` | the loop and the workers over the table of descriptors and the sessions |
| `HgUdpRecv`, `HgUdpRecv_proofs` | `hg_udpabstract.cpp`, `huage_recvstream.cpp`, `hgsession.cpp`, `hg_pipe.cpp` | the memory of UDP packets between the loop and one worker |
| `MCHgChannel`, `MCHgSendStream`, `MCRoomFrames` | | the small instances |
| `MCRooms`, `MCNet` | | several of the models side by side, for one run |

`MCRooms` and `MCNet` pick one of their models at the start of a behaviour and
leave the others at rest: the parts they put together share no variables, and
one run answers for all of them.

### HgBuf and HgChannel

A byte is known by its position in the stream of all bytes written to the
channel, so a buffer is a record `[start, end, len, mem]` whose `mem` maps cells
to positions; every byte that the code moves is moved in the model, and one that
lands in the wrong cell is seen.  A message is a head of `HeadLen` bytes and a
body of a length from `BodyLens`.

One action is one iteration of a loop or one blocking call:

| action | code |
| --- | --- |
| `WriteLock`, `WriteBlock`, `Post` | `WriteChan`: the lock; one round of the copy loop, the last of which unlocks; `sem_post` after the unlock |
| `SemWait`, `DriveLock`, `MoveBlock`, `MoveEnd` | `Drive`: the semaphore; the lock; one round of the loop that moves a block, or a part of it, to `tcpbuf`; its end |
| `ReadHead`, `ReadBody`, `Return`, `NoHead`, `NoBody` | `Handlemsg`: a head or a body is taken; a handler returns; there is not enough for a head; there is not enough for a body, and the head is put back |

While a handler runs (`pc = "handler"`) the worker may itself write to its own
channel.  The history variables are `msgs` (the order in which writers got the
lock) and `delivered`.  If the next `HeadLen` bytes are not the head of a message
the worker goes to `"corrupt"`, where the code would call a wild pointer.

### SeqNum and HgSendStream

`uint16Sub` and `uint16Add` are translated as they stand; `seq_max_NUM` is
a parameter and only assumed to be odd (it is 65535).

`HgSendStream` has one action for a call of `SendData` (`StartFrame`), one for an
iteration of its inner loop with the `InnerPushEvent`, `THPOOLSend` and
`clearPacketWrBufer` below it (`SendPacket`), and one for a request for a lost
packet (`Repost`).  All of these run on the session's worker, so a request comes
between two frames.  A packet is known by its number in the order of sending;
its sequence number is that number modulo `seq_max_NUM`.  The byte contents and
the heads of packets are left out.

### RoomFrames

A composition at the level of messages: two workers, whose channels are the
queues that `ChannelFifo` describes (`HgChannel` is proved to implement it),
rooms and sessions with their owners.  One action is one handler on one worker:

| action | code |
| --- | --- |
| `CreEnter`, `Audio` | the text command `createenterroom` and a piece of audio, on the session's worker |
| `HandleEnter` | `HandleCreEnterRoo` with `CreateRoom` and `EnterRoom`, on the room's worker |
| `HandleMerge`, `PlayFor`, `Played` | `RoomMergeData`: up to its loop; `OutConsumeQueue` for one user; the next slot or the end of the loop |
| `HandleSend` | `SendDataQueue` for UDP, with the overwritten cache slot and `WriteFree2`, on the session's worker |
| `HandleFree` | `FreeByChan2`, on the room's worker |

`PlayFor` is an action of its own because a room fills several frames within one
handler while the other worker already sends the first.  A frame is `[room, n]`;
`content` is what it holds and `mixed`, `wire` count, per room and session, what was
mixed and what was sent.  Left open: which slots a room plays (any number up to
`MaxPlay` for a piece of audio), the times of a session, which `EnterRoom` resets
(both are `RoomMix`'s), the audio itself, and the text messages to users.  Sessions
are logged in, and use UDP for audio (`HgSessBucket::audioproto` is `UDP_TCP`).

There is one session per worker.  That is what the session table supports:
`sessGetFreeSess` (`protocol/hgsession.cpp:39-73`) advances a local copy of the
free list and not the list, so all sessions of a worker are one object.

### RoomMix

Times count slots of the circle `hroomaudiobuf` (50 to a second).  A slot holds
the set of the pieces that were mixed into it in place of the sum of their
samples; `binsize` is its size field and may lag behind, as in the code, where a
slot is emptied by its size only.

| action | code |
| --- | --- |
| `Tick` | time passes |
| `EnterAgain` | `EnterRoom`: the session's stamp and time are set to 0 |
| `WrittenElsewhere` | `EnterRoom` or `RoomMergeData` of another room writes the stamp or the time |
| `Late`, `Merge` | `RoomMergeData` for one piece of audio: its time from its stamp and the session's last one; it is ignored, or mixed into its slot; then every slot up to now is played and emptied |

`Merge` is the whole handler.  `PlayUpTo` is its end: `Rounds` is the loop over the
slots to play and `PlaySlot` one round of it, with the counter that starts over as
`uint16Add` does.  When the loop would not end, the model stops with `spins`.

A session's stamp and time (`cpts`, `spts`) are fields of the session, and three
writers reach them: the room's own `RoomMergeData`, `EnterRoom` of the room, whenever
the session enters it, again or for the first time, and the worker of another room
while the session changes rooms and audio for the first is under way.  `era` counts,
for each session, the writes by the last two.  `OwnPiecesApart` is about the pieces
of one era: who enters again starts from the time 0, and its sound may then be mixed
with what it said before (`room.cpp:190-191`); the other properties hold across
eras, whatever is written.  The writes of another worker come between two pieces; the one
that comes between two lines of `RoomMergeData` is not in the model.

### HgTcpRecv and HgTcpSend

Both count bytes by their position in the stream, as `HgChannel` does, and the
receive circle is that of `HgBuf`.

`HgTcpRecv` has one action for one round of the loop of `TCPRecvmsg`, with one
`recv` and the parsing that follows (`RecvRound`, `RecvNothing`), and one for the
event that starts it (`Event`); the peer writes a frame (`PeerSend`), and any part
of what it wrote arrives (`Arrive`).  The socket is edge-triggered: what is left
unread waits for the next arrival.  That a head was read survives in
`hfde->status`, the frame that is being filled is a local and does not.

Two limits lie between the size in a head and the frame's worker.  A size over
`MAXBIGFRAMELEN` (2 MB) makes the handler return after the head left the circle
(`hg_tcpabstract.cpp:171-173`); the connection stays, and what follows the head is taken for a
head by a later event.  And each complete frame is copied, without its RTP head, to
`jsonblock`, 4096 bytes on the handler's stack, before `RecvData` (lines
225-242); nothing reads the copy, but a longer body overruns the array.  The model has both:
`Refused` sizes leave the circle behind the head, and bytes that are read as a size but are
none lead to `"corrupt"`; a frame that `Overruns` the array is handed on as
usual or leads to `"overrun"`, since the write is undefined behaviour.  In either
the model of the connection stops: what comes next depends on the bytes of a body, or on
what lies on the stack.  A frame of a size the handler accepts and of a body of at most 4096 bytes
never leads there.

`HgTcpSend` has a call of `SendData` (`PushFrame`) and the outcomes of its
`sendmsg`: a number of bytes (`SendSome`), `EAGAIN` (`SendAgain`) or an error
(`SendError`), each with `ClearSndChain` as it is called there.

### HgPool

A pool is a chain of pages, of each of which a prefix was given out; `Alloc` cuts
a block from the last page or takes another page, `Free` counts a block back and
moves a page of which nothing is in use to the free chain.  Callers free what
they hold, once, in any order.

### HgConn

The loop thread accepts connections, takes an entry from the chain of free ones and
passes each frame with the address of the entry to the worker of its ssrc; the
worker ties entry and session, sends through the session, and when a send fails
closes the socket, unties both and gives the entry back.

| action | code |
| --- | --- |
| `Connect`, `HangUp` | clients |
| `Accept`, `TakeEntry` | `TCPAccept`; `GetFreeFdEv` is cut between reading the head of the chain and writing it |
| `Receive` | a frame of a connection, up to its message |
| `Reply` | a message that something is to be sent to a client (`PreSendData`) |
| `HandleRecv` | `THPOOLRecv` with `ActiveSess` |
| `HandleSend`, `SendNoEntry` | `SendDataQueue`, to a socket that takes the frame, and to a session without entry |
| `SendFails`, `PushEntry`, `DestroyPool` | a send that fails: close, untie, and the reads and writes of `SetFreeFdEv` one by one |

Descriptors are numbers of which the kernel gives out the lowest free one.  A
descriptor that was closed while the loop was in `GetFreeFdEv` is not registered:
`AddFdEvt` passes over the error of `epoll_ctl` (`hg_iocp.cpp:46-55`).
Nothing locks the chain, so entries can be lost or given out twice; no document
speaks of it, and the history variable `calm` says that each entry so far was
given back while the loop was not in `GetFreeFdEv`, no other worker gave one
back, and no message named it.  What the run shows of the table is under `calm`.

### HgUdpRecv

A packet is copied to the loop's pool and is known by its number.  Its memory goes
from the message to the worker to a slot of the receive cache, or back: by
a message of the worker to itself for a login, then to the queue of the pipe.

| action | code |
| --- | --- |
| `PacketArrives` | `RecvData` |
| `HandleFirst`, `HandleUnknown` | `THPOOLRecv` for a login and for other packets of unknown ssrcs |
| `HandleBack`, `HandlePost` | a request to send again; a packet for the cache (`writeTocache`) |
| `HandleFree` | `FreeByChan`, `WritePipeFree` |

The session is shared by all ssrcs of the worker and reset by each that is new.
No action empties a slot (`FindUseful` has no body) or the queue of the pipe
(epoll knows its read end only).

## 3. What is checked

| run | question | bounds |
| --- | --- | --- |
| `channel` | types, inductive invariant, no corruption, no sleep with work to do, implements the FIFO, every accepted message is handled | 2 writers and the worker, head 2, bodies 1 and 2, blocks of 3, circle of 5, 4 messages |
| `sendstream` | frames freed once, ends marked, window follows; until the numbers start over, what is sent again is alive and what was asked for; the laws of the numbers | 4 slots, 13 numbers, frames of 1, 2, 3 and 6 packets in 1 or 2 nodes, 8 frames |
| `rooms` | frames: in one place, caches intact, sent as mixed. Mixing: slots are for one time, nothing lost or doubled, played in order | 2 workers, 2 rooms, 2 sessions, caches of 2 slots, up to 2 slots played for a piece of audio, 5 inputs; 3 slots, 31 numbers, 2 speakers, stamps 0 to 3, 5 ticks, 4 pieces and new eras, times 0 and 4 in another room |
| `net` | TCP: backlog intact, frames handed on in order, a calm peer served; bytes out in order, memory back once, smooth sends whole. Pool: blocks apart, pages in one chain. Connections: entries apart, own client. UDP: a packet in one place, nothing behind | receive: heads 1 and 1, circle 5, sizes 1, 3, 7, 8, 9 of which 8 overruns (`jsonblock` of 6) and 9 is refused, 3 frames; send: head 2, frames of 1 to 3 nodes, 3 nodes per `sendmsg`, 3 frames; pages of 6, blocks of 1, 2, 4 with a head of 1, 3 pages, 4 blocks held; 3 clients, 2 workers, 2 entries, 3 connections, inboxes of 1; 2 ssrcs, cache of 2, 5 numbers, 4 packets, 2 waiting |
| `sendstream_second_round` | see findings | 9 numbers |
| `room_settles`, `room_crash` | see findings | as `rooms`, 3 inputs |
| `room_loop` | see findings | 7 numbers, 1 speaker, 12 ticks |
| `tcp_recv_split`, `tcp_send_partial` | see findings | as `net`, with 1 and 2 frames |
| `conn_reuse` | see findings | 2 clients, 2 entries, 3 connections, inboxes of 2, without `calm` |
| `udp_cache` | see findings | as `net` |

Why these bounds are enough to meet the interesting cases:

- channel: with a head of 2, bodies of 1 and 2 and blocks of 3, heads and bodies
  are split by blocks at every place; a circle of 5 holds one message and
  a part of the next, so that the circle is full in the middle of a block, wraps at
  every position, and a head is read whose body has not come.  Four messages are
  more than the circle and one block hold together.  `TLC` meets every action in
  every phase, and the theorems are for all sizes;
- send stream: 13 numbers do not divide into 4 slots, as 65535 do not into 200,
  and start over several times within 8 frames.  Frames are shorter and longer than
  the cache, as video frames may be (up to `MAXBIGFRAMELEN`).  A law of the
  numbers that fails for some odd size fails for a small one, and the theorems
  about them are for every odd size;
- room frames: a request and four pieces of audio fill up to eight frames for
  caches of two slots, so frames are kept, overwritten, given back and filled
  again, also while the other room's frames lie in the same cache;
- room mixing: four pieces of two speakers fill a circle of three slots more than
  once; stamps and clock together produce pieces that are early, late, of the
  same time, too far ahead and after a pause; an era that begins between them
  makes later pieces early, late and of times where the session's own wait.  31
  numbers keep times within half a round, as the passing properties are about a
  room younger than that (half a round is 11 minutes); `room_loop` is about what follows;
- TCP: heads and frames are cut by the end of the circle at every place, a frame of 7
  is larger than the circle, frames of 1 have a head only, those of 8 and 9 are
  the first past each limit; a frame of three nodes
  with its head does not fit in one `sendmsg` of three;
- pool: a page takes one to three blocks; three pages and four blocks let a page
  become free in the front, the middle and the end of the chain, and be used again;
- connections: three connections on two entries use each entry again, with clients
  0 and 2 sharing a worker and its session;
- UDP: four packets for two slots, with a number on both sides of where they start
  over and the one that stands for "none yet".

Deadlock is not checked in any run: every model stops at its bound.

Fairness (`channel` only): weak fairness of the worker and of each writer
that is already in `WriteChan`, since running threads go on.  No fairness is
assumed for starting to write, none for the environment.  The spin lock gives no
turn to whoever waits for it, so in principle weak fairness would not let the
worker get it; with `MaxMsgs` messages writers stop in the end.  What the run
shows is that no wake-up and no byte is lost, not that the lock is fair.  The
other models have no liveness property: what a worker must do in the end it does
because its channel hands it every message, and what a client must get in the end
depends on networks.

### Findings

- `sendstream_second_round`: 65535 sequence numbers and 200 slots: after the
  numbers start over the cache frees frames whose earlier packets it still
  holds, and can send freed memory (`core/tools.c:346-348`).
- `room_settles`: requests for two rooms of different workers may be handled in
  the other order; then `rroom` and `roomid` of the session differ for good and
  `audio_consumer.cpp:29` drops all its audio.
- `room_crash`: audio that arrives before the request to enter was handled
  reads `id` of a null room (`audio_consumer.cpp:28-29`).
- `room_loop`: the loop over the slots to play counts modulo 65535 to a position
  that is not reduced; a room older than 65535 slots (22 minutes) keeps its worker
  in it for good (`room.cpp:548-563`).
- `tcp_recv_split`: a frame that arrives in two epoll events is lost, and all that
  follow on its connection: the bit that its head was read is kept, the frame is not
  (`hg_tcpabstract.cpp:187`).  Two frames that arrive together are another case:
  the second waits for the next event.
- `tcp_send_partial`: after a partial send or `EAGAIN` the rest of the chain is
  dropped, and the next frame follows in the middle of the one before
  (`hg_tcpabstract.cpp:446-454`).
- `conn_reuse`: a frame that waits while its connection fails ties its client's
  session to an entry that is free, or another's; what is sent to the client then
  goes to the socket of another (`hg_tcpabstract.cpp:409`).
- `udp_cache`: the second ssrc that logs in on a worker gets the session of the
  first and zeroes its receive cache; the packets in it are never given back
  (`hgsession.cpp:42`).

Two that no run is kept for: a request for the packet at distance
`sess_cache_LEN` is answered with the packet that overwrote it
(`huage_sendstream.cpp:92`, `<=`); and the second user who enters a room is not
listed in it (`room.cpp:193`, the key is the room's id), so that a room has one
listener in `rooms`.  With several rooms and sessions the frames of different
rooms still meet in one cache.

## 4. What is proved

The proof system checks, for all values of the constants that the named
assumptions admit.  Every safety property of the passing runs is the conclusion of
one of these theorems:

| theorem | statement |
| --- | --- |
| `ChannelInvariant` | `Spec => []IInv` |
| `ChannelTypes`, `ParserNeverCorrupted`, `NoWakeupLost` | `Spec => []TypeOK`, `[]NoCorruption`, `[]NoLostWakeup` |
| `ChannelImplementsFifo` | `Spec => ImplementsFifo` |
| `SubMeasures`, `AheadIsAnOrder` | `Spec => []SubUndoesAdd`, `[]OneIsAhead` for the send stream: the laws of sequence numbers, for every odd size |
| `WindowNeverStuck` | `Spec => []WindowFollows`: the window of the send stream ends at the last packet sent |
| `StreamTypes`, `FreedOnce`, `EndsMarked` | `Spec => []TypeOK`, `[]HeldOnce`, `[]FramesDelimited` for the send stream |
| `RecentAnswered`, `FirstRoundAlive` | `Spec => []AnswersRecent`, `[]ResendsFirstRound` |
| `RoomTypes`, `FramesConserved`, `CachesIntact` | `Spec => []TypeOK`, `[]FrameInOnePlace`, `[]CacheIntact` for the frames of rooms |
| `SentInOrder` | `Spec => SentAsMixed`, an action property |
| `MixTypes` | `MixSpec => []MixTypeOK` |
| `SlotsKept`, `PiecesPlayedOnce`, `PlayInOrder`, `OwnOrder`, `LoopEndsEarly` | `MixSpec /\ []FirstHalf => []SlotsTimely`, `[]NothingLostOrDoubled`, `[]PlayedInOrder`, `[]OwnPiecesApart`, `[]LoopEnds`, for stamps in the first half of their numbers |
| `PoolInvariant` | `PoolSpec => []PoolInv` |
| `PoolTypes`, `PoolBlocksApart`, `PoolPagesOnce` | `PoolSpec => []PoolTypeOK`, `[]BlocksApart`, `[]PagesOnce` |
| `RecvInvariant` | `RecvSpec => []RecvInv` |
| `RecvTypes`, `RecvBacklogIntact`, `RecvInOrder`, `CalmServed` | `RecvSpec => []RecvTypeOK`, `[]BacklogIntact`, `[]DeliveredInOrder`, `[]CalmPeerServed` |
| `OutInvariant` | `OutSpec => []OutInv` |
| `OutTypes`, `BytesInOrder`, `HandedBack`, `SmoothPeerGetsAll` | `OutSpec => []OutTypeOK`, `[]WireInOrder`, `[]HandedBackOnce`, `[]SmoothSend` |
| `ConnTypes`, `EntriesStayApart`, `OwnConnection` | `ConnSpec => []ConnTypeOK`, `[]EntriesApart`, `[]OwnClient` |
| `UdpInvariant` | `UdpSpec => []UdpInv` |
| `UdpTypes`, `UdpPacketInOnePlace`, `UdpNothingBehind` | `UdpSpec => []UdpTypeOK`, `[]PacketInOnePlace`, `[]NothingBehind` |

Assumptions of the channel (`ChannelAssumption`): finitely many writers, which are not the
worker; positive sizes; a head with its body fits in the circle, as the callers'
messages do with `HGCHANNELLENMAX`; bodies are not empty.

The inductive invariant `IInv` is needed because `NoCorruption` and
`NoLostWakeup` say nothing of where the bytes are.  Its parts:

- `LockInv`: the lock is held by the one writer that copies or by the worker that
  moves; this is why copying and moving never interleave.
- `MsgsInv`: messages lie in the stream one after the other.
- `ParserInv`: what was handled is a prefix of the messages, in order, and a head
  that was taken is that of the next message.
- `StreamInv`: the circle holds the positions from the one the worker reads next,
  the chain goes on where the circle ends, up to what writers have copied; and
  when a head was taken, its bytes are still in the circle, before `start`, so
  that putting it back restores them.
- `WakeupInv`: each message not handled has its post, in the semaphore or still
  to come from a writer.  From the moment the worker takes a post until it has
  handled one more message it may be one short; after moving, that one message
  is complete in the circle, because a circle that could not take all the
  chain is full, and a full circle holds at least one message.  It is here that
  "a message fits in the circle" is used.
- `BlocksConserved`: every block is in the chain or in the free list.

`HgBuf_proofs` has one lemma per operation of a buffer (what writing, skipping,
putting back, appending to a chain, taking its left block preserve), in terms of
`RingHolds` and `ChainHolds`; `HgChannel_proofs` has one lemma per action, which
cites these, `InitInv`, `NextInv`, and the theorems.  The refinement maps a
message to its sender when the lock is taken, and its number when the
handler is called; every other step is a stutter.

The sequence arithmetic is proved through the lemmas `AddOnce` (addition wraps at
most once), `SubAdd` and `Ahead` of `HgSendStream_proofs`.  `WindowFollows` is proved
with the invariant `NumbersInv`: the last sequence number is the count of packets
sent modulo `seq_max_NUM`, and the newest number of the window is that number.
`WindowMoves` is its step: the comparison by `uint16Sub` always lets the next
number through, which is `SubAdd` for a distance of one.

The rest of the send stream is proved with `StreamInv`, for caches of any size
and frames of any length.  `FrameInv` says
that what is left to send of a frame is the sum over its nodes that are left,
so that the last packet, which holds the frame for the cache, is the one at
the end of the last node.  `SlotsInv` is claimed until the numbers start over: then a
packet's slot follows from its number, the cache holds the last
`sess_cache_LEN` packets, and the slot that holds a frame is that of the frame's last
packet, so a frame is given back only when none of its packets is left.
`HeldInv` needs no such condition: a slot gives a frame back when it is
overwritten, and no two slots hold the same one.

The frames of rooms are proved for any number of workers, rooms and sessions
(`RoomInv`).  `PlacesInv` says where each frame is: in one message, in the list
of its room, or in one slot of one cache, and `used` counts those out of the list; each
of the handlers moves one frame from one kind of place to another, which has a
lemma each (`FramesFill`, `FramesSend`, `FramesFree`).  `Routed` says that a frame on
its way is in the channel of the session it was filled for, which is why the two workers
never have the same one.  `OrderInv` gives `SentAsMixed`: the frames of a room under way
to a session are exactly those with the numbers after the last one sent, in rising order.

The mixing of a room is proved for any numbers of slots, speakers and pieces
(`MixInv`): a piece for a time that is not over waits in the slot of that time, with
others of the same time only (`Waiting`); one whose time is over was played at that
time, and what was played has rising times (`Over`). `RoundsPlay` says what the loop
plays and empties, by induction over its rounds; `RealPtsAhead` that a piece is for
a time that is not over and past the session's last, whatever the session's stamp
and time are; that no piece of a new era was mixed before it began (`EraOwn`) gives
`OwnPiecesApart` within each.  Both compare times by `uint16Sub`, and hold in the
first half of the numbers only: the theorems assume `StampsNear` of the stamps, and
`[]FirstHalf` of the behaviour, that the room has played for at most half a round
(eleven minutes at 50 slots a second) and no session's time is further.  Every state
of the `rooms` run is such a state.  Without the assumption the properties are
false: where the numbers start over, a piece gets the time of the one before it, and
the loop never ends (`room_loop`).  `MixTypeOK` needs no assumption.

The pool is proved for every size of page and of head and every set of sizes that
fit in a page (`PoolAssumption`).  `BlocksApart` and `PagesOnce` do not speak of the
counter `s` of a page, which is all the code looks at; `PoolInv` says that it is
the number of bytes that callers hold of the page.  A block takes and gives back its
bytes and its head, and blocks of a page have no byte in common, so the counter is
0 exactly when no block of the page is held, and only then is the page put away
and its offset reset.

The receiving side of TCP is proved for a circle of any size that both heads fit in,
for every limit of sizes and size of `jsonblock`, and for frames that have their RTP
head (`TcpRecvAssumption`), also ones larger than the circle, refused, or too long
for `jsonblock`.  `DeliveredInOrder` holds for all of them: the frames handed on are
the first ones, and the handler goes astray only at the next one, if that is refused
or too long.  `CalmPeerServed`, that each frame is handled, is about frames that are
neither (`Bearable`).  The heart of `RecvInv` is `CircleInv`: the circle holds the
stream up to what was received, begins where the frame in hand goes on, where the
next one begins, or behind the head of one that was refused, and is not full when
`recv` is called.  Not full, because a round with a head in hand takes at least one
byte, and without one leaves less than two heads; a full circle would look like an
empty one to the code that computes how much `recv` may take.  The lemmas about
circles are those of `HgBuf_proofs` (`SkipHolds`), and `RecvHolds` for `recv`.
`CircleInv` is claimed as long as the handler has the frame whose head it read:
after the fault that `tcp_recv_split` shows, the circle is overwritten, but nothing
more is handed on, so `DeliveredInOrder` holds there as well. `AstrayInv` says at
which frame a handler is astray.

`CalmPeerServed` is proved with `CalmInv`, on top of `RecvInv`: a peer whose frames
come one at a time has, when the next one comes, nothing in the circle, and while one
is being handled, a round leaves either bytes in the socket and the handler in its loop,
or the whole frame handed on; that the last short `recv` ends the loop is harmless,
because it has then taken all there is (`CalmTakes`).

Sending over TCP is proved for frames of any nodes, any number of nodes to a
`sendmsg` and whatever the socket takes (`OutInv`).  `ChainIs` says that there
is one frame in the chain while it is being sent and none between, since
`ClearSndChain` drops what is left; so the bytes on the wire are of the frames before
(`WireIs`), and memory given back is theirs (`HandedIs`).  The chain is one
stretch of the stream (`Joined`), of which `sendmsg` takes a prefix.

The connections are proved for any number of workers, clients, entries and
descriptors (`ConnInv`).  `ConnTypeOK` and what is said of descriptors (`SockInv`)
hold always; the rest under `calm`.  The chain of free entries is followed
by pointers in the model as in the code; `IsChain` names the sequence of entries it
is, and `OneUse` says that an entry is in that sequence, in use by an open
socket, or about to be put back, and never two of these.  `TiedInv` and
`WaitingInv` tie a session, an entry, and the client at the other end of its socket;
with them a message that names an entry finds the connection it came from.
Where `calm` is lost, `conn_reuse` shows what becomes of `OwnClient`.

The receiving side of UDP is proved for any number of ssrcs, slots and packets
(`UdpRecvAssumption`).  `UdpInv` says of the inbox, the cache and the pipe's queue that
each holds different packets and no two share one; each step takes the head
of the inbox, which is then nowhere (`TakeMessage`), and puts it at the end of the inbox,
in a slot, in the queue or nowhere.  `NothingBehind` follows from the steps
themselves (`AheadStep`): the first packet of a session sets the number the stream is
to be played from, the others leave it alone, and a new ssrc empties the cache with
it.

Where a fact goes by induction over numbers (sums over the nodes of a frame,
the rounds of a loop, the chain of free entries), the proofs take the least
counterexample (`LeastOne` of `HgBuf_proofs`), as the theorems of the library
that take a predicate cannot be used.

Only model-checked are the liveness of `channel` (`ImplementsFairFifo`), since fairness
is out of the proof system's reach, and the properties of the runs that show
findings, which are false.

## 5. What is not modelled, and the plan

`PROJECT.json` lists every part with its status.  Not modelled, and why:

- the video consumer and its counts of receivers: a session subscribes to itself
  only (`comm_consumer.cpp:169`), and its video over UDP never leaves the receive
  cache, so a frame is counted and given back on one thread, in one call;
- the drain of the pipe: epoll is told of the read end only, which is never
  writable, and `recv` fails on it; `WritePipe` is a queue in `HgUdpRecv`;
- `MergeData`, `ReSend`, `sessFree`, `sessDelBucket`, logout: nothing calls them;
- the client's side of the network code, which the server never takes;
- the list of rooms, an `unordered_map` that two workers use without a lock: what a
  data race inside a library's container does cannot be enumerated;
- text messages to the users of a room, subscriptions, the layout of JSON texts and
  packet heads, the samples of audio;
- batches of epoll events: an event is handled in one step;
- start-up, the timer and the array queue, which the server does not use;
  vendored and generated code (the JSON library is two thirds of all
  lines), SDP, ADPCM, H.264 parsing, experiments, build products.

What the plan has left:

- mixing where the time numbers start over: what does hold there, beyond the types,
  and under which bound on the stamps;
- the channels of `RoomFrames`, `HgConn` and `HgUdpRecv` are queues because `HgChannel`
  implements `ChannelFifo`; the three could be stated over `ChannelFifo` itself, by
  instance, so that the composition is checked as well as its parts;
- that a session's worker hands on what `HgTcpRecv` delivers: receiving and `HgConn`
  share the entry and are modelled apart.
