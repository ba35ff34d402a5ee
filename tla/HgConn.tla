------------------------------- MODULE HgConn -------------------------------
(***************************************************************************)
(* TCP connections, their entries in the table of descriptors              *)
(* (net/protocol/hgfdevent.cpp), and the sessions that send through them   *)
(* (hg_tcpabstract.cpp, hg_iocp.cpp, hg_netabstract.cpp).  The loop thread *)
(* accepts connections, takes an entry for each from the chain of free     *)
(* ones, and passes what it receives to the worker of the client's ssrc.   *)
(* The worker ties entry and session together, and sends through the       *)
(* session.  When a send fails, the worker closes the socket and gives the *)
(* entry back, while the loop goes on; nothing locks the chain.            *)
(*                                                                         *)
(* A worker has one session: see hgsession.cpp:39-73, where                *)
(* sessGetFreeSess hands out the head of the free list without taking it.  *)
(* A client is its ssrc.  Frames have no content but whose they are.  The  *)
(* handler of a received frame and each step of the loop other than        *)
(* GetFreeFdEv are one action.                                             *)
(***************************************************************************)
EXTENDS Integers, SequencesExt, FiniteSets, FiniteSetsExt

CONSTANTS wnums,    \* the number of workers
          Clients,  \* ssrcs
          ENums,    \* entries of the table
          MaxConns, \* bound: connections made
          MaxInbox  \* bound: messages that wait for a worker

ASSUME ConnAssumption ==
  /\ wnums \in Nat \ {0} /\ Clients \subseteq Nat /\ ENums \in Nat
  /\ MaxConns \in Nat /\ MaxInbox \in Nat

VARIABLES
  peer,        \* the client of each connection made, in order
  backlog,     \* connections that were not accepted yet
  hungUp,      \* connections whose peer is gone
  sock,        \* the kernel's descriptors: the connection of each, 0 for none
  reg,         \* epoll: the entry each descriptor is registered with, or 0
  fdchainfree, \* the first free entry, or 0
  fnext,       \* of each entry: the next free one
  entryFd,     \* of each entry: fd
  entrySess,   \* of each entry: sess, as the number of its worker
  entryPool,   \* of each entry: its pool fragCache was not destroyed
  loopPc,      \* the loop: "wait", "take" within GetFreeFdEv, "crash"
  taking,      \* then the descriptor accepted and the entry read
  workPc,      \* of each worker: "run", "push", "destroy", "crash"
  freeing,     \* then the entry it gives back
  inbox,       \* of each worker: the messages that wait
  bucket,      \* of each worker: the ssrcs in bucksmap
  tcpfd,       \* of each worker's session: tcpfd, an entry or 0
  lastSend,    \* history: of the last frame sent, who it was for and who got it
  calm         \* history: entries were given back while nobody used them

connVars == <<peer, backlog, hungUp, sock, reg, fdchainfree, fnext, entryFd,
              entrySess, entryPool, loopPc, taking, workPc, freeing, inbox,
              bucket, tcpfd, lastSend, calm>>
tableVars == <<fdchainfree, fnext, entryFd, entrySess, entryPool>>
netVars   == <<peer, backlog, hungUp, sock, reg>>
workVars  == <<workPc, freeing, bucket, tcpfd, lastSend>>

Workers == 0 .. wnums - 1
NoSess  == wnums
Entries == 1 .. ENums
Fds     == 1 .. MaxConns
NoTake  == [fd |-> 0, entry |-> 0]

\* HgWorker::GetWorker.
WorkerOf(ssrc) == ssrc % wnums

\* fdEvChainInit, and the workers' sessions before anyone came.
ConnInit ==
  /\ peer = <<>> /\ backlog = <<>> /\ hungUp = {}
  /\ sock = [fd \in Fds |-> 0] /\ reg = [fd \in Fds |-> 0]
  /\ fdchainfree = (IF ENums = 0 THEN 0 ELSE 1)
  /\ fnext = [e \in Entries |-> IF e = ENums THEN 0 ELSE e + 1]
  /\ entryFd = [e \in Entries |-> 0] /\ entrySess = [e \in Entries |-> NoSess]
  /\ entryPool = [e \in Entries |-> FALSE]
  /\ loopPc = "wait" /\ taking = NoTake
  /\ workPc = [w \in Workers |-> "run"] /\ freeing = [w \in Workers |-> 0]
  /\ inbox = [w \in Workers |-> <<>>] /\ bucket = [w \in Workers |-> {}]
  /\ tcpfd = [w \in Workers |-> 0]
  /\ lastSend = [to |-> 0, got |-> 0] /\ calm = TRUE

NobodyFrees == \A w \in Workers : workPc[w] \notin {"push", "destroy"}

-----------------------------------------------------------------------------
(* Clients                                                                 *)

\* A client connects, perhaps while an older connection of his is still open.
Connect(c) ==
  /\ Len(peer) < MaxConns
  /\ peer' = Append(peer, c)
  /\ backlog' = Append(backlog, Len(peer) + 1)
  /\ UNCHANGED <<hungUp, sock, reg, tableVars, loopPc, taking, inbox, workVars, calm>>

\* A client is gone.  The loop's recv fails, and it does nothing about it.
HangUp(conn) ==
  /\ hungUp' = hungUp \cup {conn}
  /\ UNCHANGED <<peer, backlog, sock, reg, tableVars, loopPc, taking, inbox, workVars, calm>>

-----------------------------------------------------------------------------
(* The loop thread                                                         *)

\* TCPAccept: the lowest free descriptor, and GetFreeFdEv up to where the head
\* of the chain was read.
Accept ==
  /\ loopPc = "wait" /\ backlog # <<>>
  /\ LET fd == Min({f \in Fds : sock[f] = 0})
     IN  /\ sock' = [sock EXCEPT ![fd] = Head(backlog)]
         /\ taking' = [fd |-> fd, entry |-> fdchainfree]
  /\ backlog' = Tail(backlog)
  /\ loopPc' = IF fdchainfree = 0 THEN "crash" ELSE "take"
  /\ calm' = (calm /\ NobodyFrees)
  /\ UNCHANGED <<peer, hungUp, reg, tableVars, inbox, workVars>>

\* Wrong: the entry stays in the chain.
ChainAfterSame(e) == fdchainfree

\* Wrong: the entry that lies behind it, not the one that is linked to it.
ChainAfterNext(e) == e + 1

\* The head of the chain once e was taken.
ChainAfter(e) == fnext[e]

\* The rest of GetFreeFdEv, and of InitEvent.  AddFdEvt does nothing for a
\* descriptor that a worker has closed meanwhile.
TakeEntry ==
  LET e  == taking.entry
      fd == taking.fd
  IN /\ loopPc = "take"
     /\ fdchainfree' = ChainAfter(e)
     /\ entryFd'   = [entryFd EXCEPT ![e] = fd]
     /\ entrySess' = [entrySess EXCEPT ![e] = NoSess]
     /\ entryPool' = [entryPool EXCEPT ![e] = TRUE]
     /\ reg' = IF sock[fd] = 0 THEN reg ELSE [reg EXCEPT ![fd] = e]
     /\ loopPc' = "wait" /\ taking' = NoTake
     /\ UNCHANGED <<peer, backlog, hungUp, sock, fnext, inbox, workVars, calm>>

\* TCPRecvmsg gets a frame of the connection at fd, and RecvData hands it to
\* the worker of its ssrc.
Receive(fd) ==
  /\ loopPc = "wait" /\ reg[fd] # 0 /\ sock[fd] # 0 /\ sock[fd] \notin hungUp
  /\ LET ssrc == peer[sock[fd]]
         w    == WorkerOf(ssrc)
     IN /\ Len(inbox[w]) < MaxInbox
        /\ inbox' = [inbox EXCEPT ![w] =
                       Append(@, [kind |-> "recv", entry |-> reg[fd], ssrc |-> ssrc])]
  /\ UNCHANGED <<netVars, tableVars, loopPc, taking, workVars, calm>>

-----------------------------------------------------------------------------
(* The workers                                                             *)

\* Someone sends to a client who has logged in (PreSendData).
Reply(ssrc) ==
  LET w == WorkerOf(ssrc)
  IN /\ ssrc \in bucket[w] /\ Len(inbox[w]) < MaxInbox
     /\ inbox' = [inbox EXCEPT ![w] =
                    Append(@, [kind |-> "send", entry |-> 0, ssrc |-> ssrc])]
     /\ UNCHANGED <<netVars, tableVars, loopPc, taking, workVars, calm>>

\* The next message of worker w is of this kind.
TakeMessage(w, kind) ==
  /\ workPc[w] = "run" /\ inbox[w] # <<>> /\ Head(inbox[w]).kind = kind
  /\ inbox' = [inbox EXCEPT ![w] = Tail(@)]

\* THPOOLRecv: the first frame that comes through an entry ties it to the
\* session; ActiveSess resets the session for an ssrc it does not know.
HandleRecv(w) ==
  /\ TakeMessage(w, "recv")
  /\ LET m == Head(inbox[w])
     IN IF entrySess[m.entry] = NoSess
        THEN /\ bucket' = [bucket EXCEPT ![w] = @ \cup {m.ssrc}]
             /\ entrySess' = [entrySess EXCEPT ![m.entry] = w]
             /\ tcpfd' = [tcpfd EXCEPT ![w] = m.entry]
        ELSE UNCHANGED <<bucket, entrySess, tcpfd>>
  /\ UNCHANGED <<netVars, fdchainfree, fnext, entryFd, entryPool, loopPc, taking,
                 workPc, freeing, lastSend, calm>>

\* SendDataQueue and SendData to a socket that takes the frame.
HandleSend(w) ==
  /\ TakeMessage(w, "send") /\ tcpfd[w] # 0
  /\ LET conn == sock[entryFd[tcpfd[w]]]
     IN /\ conn # 0 /\ conn \notin hungUp
        /\ lastSend' = [to |-> Head(inbox[w]).ssrc, got |-> peer[conn]]
  /\ UNCHANGED <<netVars, tableVars, loopPc, taking, workPc, freeing, bucket,
                 tcpfd, calm>>

\* SendData reads isconnected of no entry.
SendNoEntry(w) ==
  /\ TakeMessage(w, "send") /\ tcpfd[w] = 0
  /\ workPc' = [workPc EXCEPT ![w] = "crash"]
  /\ UNCHANGED <<netVars, tableVars, loopPc, taking, freeing, bucket, tcpfd,
                 lastSend, calm>>

\* Wrong: the session keeps the entry.
UntieEntryOnly(e) ==
  entrySess' = [entrySess EXCEPT ![e] = NoSess] /\ UNCHANGED tcpfd

\* hfe->sess->tcpfd = nullptr; hfe->sess = nullptr.
Untie(e) ==
  /\ tcpfd' = [tcpfd EXCEPT ![entrySess[e]] = 0]
  /\ entrySess' = [entrySess EXCEPT ![e] = NoSess]

\* Nobody else is about to use e: the loop is not in GetFreeFdEv, no other
\* worker gives an entry back, no frame that came through e waits.
AtPeace(e) ==
  /\ loopPc # "take" /\ NobodyFrees
  /\ \A v \in Workers : \A i \in DOMAIN inbox'[v] : inbox'[v][i].entry # e

\* SendDatapre fails: the socket is closed, entry and session are untied, and
\* SetFreeFdEv has read the head of the chain.
SendFails(w) ==
  LET e  == tcpfd[w]
      fd == entryFd[e]
  IN /\ TakeMessage(w, "send") /\ e # 0
     /\ sock[fd] = 0 \/ sock[fd] \in hungUp
     /\ sock' = [sock EXCEPT ![fd] = 0] /\ reg' = [reg EXCEPT ![fd] = 0]
     /\ IF entrySess[e] = NoSess
        THEN /\ workPc' = [workPc EXCEPT ![w] = "crash"]
             /\ UNCHANGED <<tcpfd, entrySess, fnext, freeing>>
        ELSE /\ Untie(e)
             /\ fnext' = [fnext EXCEPT ![e] = fdchainfree]
             /\ freeing' = [freeing EXCEPT ![w] = e]
             /\ workPc' = [workPc EXCEPT ![w] = "push"]
     /\ calm' = (calm /\ AtPeace(e))
     /\ UNCHANGED <<peer, backlog, hungUp, fdchainfree, entryFd, entryPool, loopPc,
                    taking, bucket, lastSend>>

\* The entry becomes the head of the chain.
PushEntry(w) ==
  /\ workPc[w] = "push"
  /\ fdchainfree' = freeing[w]
  /\ workPc' = [workPc EXCEPT ![w] = "destroy"]
  /\ UNCHANGED <<netVars, fnext, entryFd, entrySess, entryPool, loopPc, taking,
                 freeing, inbox, bucket, tcpfd, lastSend, calm>>

\* myPoolDestroy of the pool the entry has now.
DestroyPool(w) ==
  /\ workPc[w] = "destroy"
  /\ entryPool' = [entryPool EXCEPT ![freeing[w]] = FALSE]
  /\ freeing' = [freeing EXCEPT ![w] = 0]
  /\ workPc' = [workPc EXCEPT ![w] = "run"]
  /\ UNCHANGED <<netVars, fdchainfree, fnext, entryFd, entrySess, loopPc, taking,
                 inbox, bucket, tcpfd, lastSend, calm>>

ConnNext ==
  \/ \E c \in Clients : Connect(c) \/ Reply(c)
  \/ \E conn \in DOMAIN peer : HangUp(conn)
  \/ Accept \/ TakeEntry
  \/ \E fd \in Fds : Receive(fd)
  \/ \E w \in Workers : \/ HandleRecv(w) \/ HandleSend(w) \/ SendNoEntry(w)
                        \/ SendFails(w) \/ PushEntry(w) \/ DestroyPool(w)

ConnSpec == ConnInit /\ [][ConnNext]_connVars

-----------------------------------------------------------------------------
(* Properties                                                              *)

\* Type correctness of connections, table and sessions.
ConnTypeOK ==
  /\ peer \in Seq(Clients) /\ backlog \in Seq(DOMAIN peer)
  /\ hungUp \subseteq DOMAIN peer
  /\ sock \in [Fds -> 0 .. MaxConns] /\ reg \in [Fds -> 0 .. ENums]
  /\ fdchainfree \in 0 .. ENums /\ fnext \in [Entries -> 0 .. ENums]
  /\ entryFd \in [Entries -> 0 .. MaxConns] /\ entrySess \in [Entries -> 0 .. wnums]
  /\ entryPool \in [Entries -> BOOLEAN]
  /\ loopPc \in {"wait", "take", "crash"} /\ taking \in [fd : 0 .. MaxConns, entry : 0 .. ENums]
  /\ workPc \in [Workers -> {"run", "push", "destroy", "crash"}]
  /\ freeing \in [Workers -> 0 .. ENums]
  /\ inbox \in [Workers -> Seq([kind : {"recv", "send"}, entry : 0 .. ENums, ssrc : Clients])]
  /\ bucket \in [Workers -> SUBSET Clients] /\ tcpfd \in [Workers -> 0 .. ENums]
  /\ calm \in BOOLEAN

\* The free entries, from the head of the chain on, none twice.
IsFreeChain(c) ==
  /\ \A i, j \in DOMAIN c : c[i] = c[j] => i = j
  /\ fdchainfree = IF c = <<>> THEN 0 ELSE c[1]
  /\ \A i \in DOMAIN c : fnext[c[i]] = IF i = Len(c) THEN 0 ELSE c[i + 1]

\* The open sockets an entry serves.
Served(e) == {fd \in Fds : reg[fd] = e /\ sock[fd] # 0}

\* An entry is free, once, or it serves one open socket, whose pool it holds:
\* after any number of connections that came and failed, as long as nobody
\* uses an entry while it is given back (hgfdevent.cpp:17-37).
EntriesApart ==
  calm /\ loopPc = "wait" /\ NobodyFrees =>
    \E c \in SeqOf(Entries, ENums) :
      /\ IsFreeChain(c)
      /\ \A e \in Entries :
           \/ Contains(c, e) /\ Served(e) = {}
           \/ ~Contains(c, e) /\ entryPool[e] /\ \E fd \in Fds : Served(e) = {fd}

\* The entry of a session that serves one client has an open connection of
\* this client and belongs to the session, whichever of his connections
\* failed or came back (hg_tcpabstract.cpp:409-414, 508-519).
OwnClient ==
  calm => \A w \in Workers : tcpfd[w] # 0 /\ Cardinality(bucket[w]) = 1 =>
            /\ entrySess[tcpfd[w]] = w
            /\ sock[entryFd[tcpfd[w]]] # 0
            /\ peer[sock[entryFd[tcpfd[w]]]] \in bucket[w]

\* "转发广播等---连接的sendstream" and "每个连接的大缓冲区---socket" (hgmain.h: what
\* is forwarded goes to the connection's send stream, each connection has its
\* buffer and socket): what is sent to a client, who has the session for
\* himself, is not written to the socket of another.
SendsToOwnClient ==
  (\A w \in Workers : Cardinality(bucket[w]) <= 1) => lastSend.to = lastSend.got
=============================================================================
