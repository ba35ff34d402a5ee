--------------------------- MODULE HgConn_proofs ---------------------------
(* TCP connections and the table of descriptors, for any number of workers, *)
(* clients, entries and connections: types in every state, and who uses an  *)
(* entry as long as nobody uses it while it is given back.                  *)
EXTENDS HgConn, FiniteSetTheorems, SequenceTheorems, TLAPS

\* What waits to be accepted are the last connections made; each of the
\* others has one descriptor or none.
Accepted == Len(peer) - Len(backlog)
SockInv ==
  /\ Len(peer) <= MaxConns /\ Accepted \in Nat
  /\ \A i \in 1 .. Len(backlog) : backlog[i] = Accepted + i
  /\ \A fd \in Fds : sock[fd] <= Accepted
  /\ \A f, g \in Fds : sock[f] = sock[g] /\ sock[f] # 0 => f = g

\* The loop has an entry and a descriptor in hand.
TakeInv == loopPc = "take" => taking.entry \in Entries /\ taking.fd \in Fds

\* Entry e serves the open socket it is registered with.
InUse(e) == entryFd[e] \in Fds /\ reg[entryFd[e]] = e /\ sock[entryFd[e]] # 0

\* A worker has linked e to the chain, but the head is not e yet.
Pushed(e) == \E w \in Workers : workPc[w] = "push" /\ freeing[w] = e

Among(c, e) == \E i \in 1 .. Len(c) : c[i] = e

\* c is the chain that begins with head: distinct entries, each linked to the
\* next one.
IsChain(c, head, next) ==
  /\ c \in Seq(Entries)
  /\ \A i, j \in 1 .. Len(c) : c[i] = c[j] => i = j
  /\ head = (IF c = <<>> THEN 0 ELSE c[1])
  /\ \A i \in 1 .. Len(c) : next[c[i]] = (IF i = Len(c) THEN 0 ELSE c[i + 1])

\* An entry is in the chain, in use, or about to be put back.
OneUse(c) ==
  /\ \A e \in Entries : \/ Among(c, e) /\ ~InUse(e) /\ ~Pushed(e)
                        \/ ~Among(c, e) /\ InUse(e) /\ ~Pushed(e)
                        \/ ~Among(c, e) /\ ~InUse(e) /\ Pushed(e)
  /\ \A w \in Workers : workPc[w] = "destroy" => Among(c, freeing[w])

ChainInv == \E c : IsChain(c, fdchainfree, fnext) /\ OneUse(c)

\* The entry that is registered is the one that has the descriptor.
RegInv ==
  /\ \A fd \in Fds : reg[fd] # 0 => sock[fd] # 0 /\ entryFd[reg[fd]] = fd
  /\ \A e \in Entries : InUse(e) => entryPool[e]

\* One at a time gives an entry back or takes one.
OneAtATime ==
  /\ \A v, w \in Workers : workPc[v] \in {"push", "destroy"}
                           /\ workPc[w] \in {"push", "destroy"} => v = w
  /\ loopPc = "take" => NobodyFrees
  /\ \A w \in Workers : workPc[w] \in {"push", "destroy"} => freeing[w] \in Entries
  /\ \A w \in Workers : workPc[w] = "push" => fnext[freeing[w]] = fdchainfree
  /\ loopPc = "take" => /\ taking.entry = fdchainfree
                        /\ sock[taking.fd] # 0 /\ reg[taking.fd] = 0

\* The client at the other end of the socket that e serves.
ClientOf(e) == peer[sock[entryFd[e]]]

\* A session's entry is in use and is the session's, a message's entry is in
\* use, and the client at the other end is known to the session, or has sent
\* the message.
TiedInv ==
  \A w \in Workers : tcpfd[w] # 0 =>
    InUse(tcpfd[w]) /\ entrySess[tcpfd[w]] = w /\ ClientOf(tcpfd[w]) \in bucket[w]
Fits(m) ==
  IF m.kind = "recv"
  THEN m.entry \in Entries /\ InUse(m.entry) /\ ClientOf(m.entry) = m.ssrc
  ELSE m.entry = 0
WaitingInv == \A w \in Workers : \A i \in 1 .. Len(inbox[w]) : Fits(inbox[w][i])

CalmInv == ChainInv /\ RegInv /\ OneAtATime /\ TiedInv /\ WaitingInv

ConnInv == ConnTypeOK /\ SockInv /\ TakeInv /\ (calm => CalmInv)

-----------------------------------------------------------------------------
(* Types, and the descriptors                                              *)

\* What holds whoever uses an entry while it is given back.
AlwaysInv == ConnTypeOK /\ SockInv /\ TakeInv

\* The connections and the queue of those to accept.
LEMMA Backlog ==
  ASSUME AlwaysInv
  PROVE  /\ Len(peer) \in Nat /\ Len(backlog) \in Nat
         /\ DOMAIN peer = 1 .. Len(peer)
         /\ Accepted \in Nat /\ Accepted <= Len(peer) /\ Len(peer) <= MaxConns
         /\ \A conn \in 1 .. Len(peer) : peer[conn] \in Clients
         /\ \A fd \in Fds : sock[fd] \in 0 .. Accepted /\ sock[fd] \in 0 .. Len(peer)
<1>1. peer \in Seq(Clients) /\ backlog \in Seq(DOMAIN peer)
  BY DEF AlwaysInv, ConnTypeOK
<1>2. Len(peer) \in Nat /\ Len(backlog) \in Nat /\ DOMAIN peer = 1 .. Len(peer)
  BY <1>1, LenProperties
<1>3. \A conn \in 1 .. Len(peer) : peer[conn] \in Clients
  BY <1>1, ElementOfSeq
<1>4. Accepted \in Nat /\ Accepted <= Len(peer) /\ Len(peer) <= MaxConns
  BY <1>2 DEF AlwaysInv, SockInv, Accepted
<1>5. ASSUME NEW fd \in Fds
      PROVE  sock[fd] \in 0 .. Accepted /\ sock[fd] \in 0 .. Len(peer)
  <2>1. sock[fd] \in 0 .. MaxConns /\ sock[fd] <= Accepted
    BY DEF AlwaysInv, ConnTypeOK, SockInv
  <2> QED
    BY <2>1, <1>2, <1>4
<1> QED
  BY <1>2, <1>3, <1>4, <1>5

\* A set of numbers that is not empty has a least one.
LEMMA LeastOne ==
  ASSUME NEW S \in SUBSET Nat, S # {}
  PROVE  Min(S) \in S
<1> DEFINE R == {ss \in Nat \X Nat : ss[1] < ss[2]}
<1>1. IsWellFoundedOn(R, Nat)
  BY NatLessThanWellFounded DEF OpToRel
<1> HIDE DEF R
<1>2. PICK x \in S : \A y \in S : ~(<<y, x>> \in R)
  BY <1>1, WFMin
<1>3. \A y \in S : x <= y
  <2> SUFFICES ASSUME NEW y \in S, ~(x <= y) PROVE FALSE
    OBVIOUS
  <2>1. x \in Nat /\ y \in Nat /\ y < x
    OBVIOUS
  <2>2. <<y, x>> \in R
    BY <2>1 DEF R
  <2> QED
    BY <1>2, <2>2
<1> QED
  BY <1>3 DEF Min

\* The numbers up to n are n.
LEMMA IntervalSize ==
  ASSUME NEW n \in Nat
  PROVE  IsFiniteSet(1 .. n) /\ Cardinality(1 .. n) = n
<1>1. 1 \in Int /\ n \in Int
  OBVIOUS
<1>2. IsFiniteSet(1 .. n)
  BY <1>1, FS_Interval
<1>3. Cardinality(1 .. n) = IF 1 > n THEN 0 ELSE n - 1 + 1
  BY <1>1, FS_Interval
<1> QED
  BY <1>2, <1>3

\* There is a descriptor for each connection that waits: those accepted have
\* one at most, and there are as many as connections that can be made.
LEMMA FreeDescriptor ==
  ASSUME AlwaysInv, backlog # <<>>
  PROVE  LET fd == Min({f \in Fds : sock[f] = 0})
         IN  fd \in Fds /\ sock[fd] = 0
<1>1. Len(backlog) \in Nat \ {0} /\ MaxConns \in Nat
  BY Backlog, EmptySeq, ConnAssumption DEF AlwaysInv, ConnTypeOK
<1>2. Accepted \in Nat /\ Accepted < MaxConns
  BY <1>1, Backlog DEF Accepted
<1>3. {f \in Fds : sock[f] = 0} # {}
  <2> SUFFICES ASSUME \A f \in Fds : sock[f] # 0 PROVE FALSE
    OBVIOUS
  <2>1. sock \in [1 .. MaxConns -> 1 .. Accepted]
    <3>1. sock \in [Fds -> 0 .. MaxConns]
      BY DEF AlwaysInv, ConnTypeOK
    <3>2. \A f \in Fds : sock[f] \in 1 .. Accepted
      BY Backlog
    <3> QED
      BY <3>1, <3>2 DEF Fds
  <2>2. \A f, g \in 1 .. MaxConns : sock[f] = sock[g] => f = g
    BY DEF AlwaysInv, SockInv, Fds
  <2>3. sock \in Injection(1 .. MaxConns, 1 .. Accepted)
    BY <2>1, <2>2 DEF Injection, IsInjective
  <2>4. /\ IsFiniteSet(1 .. Accepted) /\ Cardinality(1 .. Accepted) = Accepted
        /\ Cardinality(1 .. MaxConns) = MaxConns
    BY <1>1, <1>2, IntervalSize
  <2>5. Cardinality(1 .. MaxConns) <= Cardinality(1 .. Accepted)
    BY <2>3, <2>4, FS_Injection
  <2> QED
    BY <1>1, <1>2, <2>4, <2>5
<1>4. {f \in Fds : sock[f] = 0} \subseteq Nat
  BY <1>1 DEF Fds
<1>5. Min({f \in Fds : sock[f] = 0}) \in {f \in Fds : sock[f] = 0}
  BY <1>3, <1>4, LeastOne
<1> QED
  BY <1>5

\* One more connection waits.
LEMMA ConnectAlways ==
  ASSUME AlwaysInv, NEW client \in Clients, Connect(client)
  PROVE  /\ AlwaysInv' /\ Accepted' = Accepted
         /\ \A conn \in 1 .. Len(peer) : peer'[conn] = peer[conn]
<1> DEFINE n == Len(peer)
<1>0. /\ n \in Nat /\ Len(backlog) \in Nat /\ DOMAIN peer = 1 .. n
      /\ peer \in Seq(Clients) /\ backlog \in Seq(1 .. n) /\ hungUp \subseteq 1 .. n
      /\ n < MaxConns /\ MaxConns \in Nat
  BY Backlog, ConnAssumption DEF AlwaysInv, ConnTypeOK, Connect
<1>1. /\ peer' = Append(peer, client) /\ backlog' = Append(backlog, n + 1)
      /\ UNCHANGED <<hungUp, sock, reg, tableVars, loopPc, taking, inbox, workVars, calm>>
  BY DEF Connect
<1>2. /\ peer' \in Seq(Clients) /\ Len(peer') = n + 1 /\ DOMAIN peer' = 1 .. n + 1
      /\ \A conn \in 1 .. n : peer'[conn] = peer[conn]
  BY <1>0, <1>1, AppendProperties, LenProperties
<1> HIDE DEF n
<1>3. /\ backlog' \in Seq(1 .. n + 1) /\ Len(backlog') = Len(backlog) + 1
      /\ backlog'[Len(backlog) + 1] = n + 1
      /\ \A i \in 1 .. Len(backlog) : backlog'[i] = backlog[i]
  <2>1. 1 .. n \subseteq 1 .. n + 1 /\ n + 1 \in 1 .. n + 1
    BY <1>0
  <2>2. backlog \in Seq(1 .. n + 1)
    BY <1>0, <2>1, SeqMonotonic
  <2> QED
    BY <1>1, <2>1, <2>2, AppendProperties
<1>4. ConnTypeOK'
  <2>1. hungUp' \subseteq DOMAIN peer' /\ backlog' \in Seq(DOMAIN peer')
    BY <1>0, <1>1, <1>2, <1>3
  <2> QED
    BY <1>1, <1>2, <2>1 DEF AlwaysInv, ConnTypeOK, tableVars, workVars
<1>5. Accepted' = Accepted /\ Accepted \in Nat /\ Accepted = n - Len(backlog)
  BY <1>0, <1>2, <1>3, Backlog DEF Accepted, n
<1>6. SockInv'
  <2>1. \A i \in 1 .. Len(backlog) + 1 : backlog'[i] = Accepted + i
    <3>1. \A i \in 1 .. Len(backlog) : backlog[i] = Accepted + i
      BY DEF AlwaysInv, SockInv
    <3>2. backlog'[Len(backlog) + 1] = Accepted + (Len(backlog) + 1)
      BY <1>0, <1>3, <1>5
    <3>3. \A i \in 1 .. Len(backlog) + 1 : i \in 1 .. Len(backlog) \/ i = Len(backlog) + 1
      BY <1>0
    <3> QED
      BY <1>3, <3>1, <3>2, <3>3
  <2>2. Len(peer') <= MaxConns
    BY <1>0, <1>2
  <2>3. sock' = sock
    BY <1>1
  <2> QED
    BY <1>3, <1>5, <2>1, <2>2, <2>3 DEF AlwaysInv, SockInv
<1>7. TakeInv'
  BY <1>1 DEF AlwaysInv, TakeInv
<1> QED
  BY <1>2, <1>4, <1>5, <1>6, <1>7 DEF AlwaysInv, n

\* The loop accepts the first connection that waits.
LEMMA AcceptAlways ==
  ASSUME AlwaysInv, Accept
  PROVE  /\ AlwaysInv'
         /\ \E fd \in Fds : /\ sock[fd] = 0 /\ sock' = [sock EXCEPT ![fd] = Head(backlog)]
                            /\ Head(backlog) # 0
                            /\ taking' = [fd |-> fd, entry |-> fdchainfree]
<1> DEFINE fd == Min({f \in Fds : sock[f] = 0})
           conn == Head(backlog)
           n == Len(backlog)
<1>1. /\ backlog # <<>> /\ backlog' = Tail(backlog)
      /\ sock' = [sock EXCEPT ![fd] = conn]
      /\ taking' = [fd |-> fd, entry |-> fdchainfree]
      /\ loopPc' = IF fdchainfree = 0 THEN "crash" ELSE "take"
      /\ calm' = (calm /\ NobodyFrees)
      /\ UNCHANGED <<peer, hungUp, reg, tableVars, inbox, workVars>>
  BY DEF Accept
<1>2. fd \in Fds /\ sock[fd] = 0
  BY <1>1, FreeDescriptor
<1>3. /\ Accepted \in Nat /\ n \in Nat \ {0} /\ Len(peer) \in Nat
      /\ DOMAIN peer = 1 .. Len(peer) /\ Len(peer) <= MaxConns /\ Accepted = Len(peer) - n
      /\ \A f \in Fds : sock[f] \in 0 .. Accepted
  <2>1. n # 0
    BY <1>1, EmptySeq DEF AlwaysInv, ConnTypeOK
  <2> QED
    BY <2>1, Backlog DEF Accepted
<1>4. /\ backlog \in Seq(1 .. Len(peer)) /\ conn = backlog[1] /\ Len(Tail(backlog)) = n - 1
      /\ Tail(backlog) \in Seq(1 .. Len(peer))
      /\ \A i \in 1 .. n - 1 : Tail(backlog)[i] = backlog[i + 1]
  <2>1. backlog \in Seq(1 .. Len(peer))
    BY <1>3 DEF AlwaysInv, ConnTypeOK
  <2>2. conn = backlog[1]
    OBVIOUS
  <2> QED
    BY <1>1, <2>1, <2>2, HeadTailProperties
<1> HIDE DEF fd, n, conn
<1>5. conn = Accepted + 1 /\ Accepted' = Accepted + 1
  <2>1. 1 \in 1 .. Len(backlog)
    BY <1>3 DEF n
  <2>2. backlog[1] = Accepted + 1
    BY <2>1 DEF AlwaysInv, SockInv
  <2> QED
    BY <1>1, <1>3, <1>4, <2>2 DEF Accepted
<1>6. conn \in 1 .. MaxConns /\ conn \in Nat \ {0} /\ Accepted + 1 <= Len(peer)
  BY <1>3, <1>5, ConnAssumption
<1>7. /\ sock'[fd] = conn /\ \A f \in Fds : f # fd => sock'[f] = sock[f]
      /\ sock' \in [Fds -> 0 .. MaxConns]
  BY <1>1, <1>2, <1>6 DEF AlwaysInv, ConnTypeOK
<1>8. ConnTypeOK'
  <2>1. taking' \in [fd : 0 .. MaxConns, entry : 0 .. ENums] /\ loopPc' \in {"take", "crash"}
    BY <1>1, <1>2, ConnAssumption DEF AlwaysInv, ConnTypeOK, Fds
  <2>2. backlog' \in Seq(DOMAIN peer')
    BY <1>1, <1>3, <1>4
  <2>3. calm' \in BOOLEAN
    BY <1>1 DEF AlwaysInv, ConnTypeOK
  <2> QED
    BY <1>1, <1>7, <2>1, <2>2, <2>3 DEF AlwaysInv, ConnTypeOK, tableVars, workVars
<1>9. SockInv'
  <2>1. \A i \in 1 .. Len(backlog') : backlog'[i] = Accepted' + i
    <3> SUFFICES ASSUME NEW i \in 1 .. Len(backlog') PROVE backlog'[i] = Accepted' + i
      OBVIOUS
    <3>1. i \in 1 .. n - 1 /\ i + 1 \in 1 .. n
      BY <1>1, <1>3, <1>4
    <3>2. backlog[i + 1] = Accepted + (i + 1)
      BY <3>1 DEF AlwaysInv, SockInv, n
    <3> QED
      BY <1>1, <1>3, <1>4, <1>5, <3>1, <3>2
  <2>2. \A f \in Fds : sock'[f] <= Accepted'
    <3> SUFFICES ASSUME NEW f \in Fds PROVE sock'[f] <= Accepted'
      OBVIOUS
    <3>1. sock[f] \in 0 .. Accepted
      BY <1>3
    <3> QED
      BY <1>3, <1>5, <1>7, <3>1
  <2>3. ASSUME NEW f \in Fds, NEW g \in Fds, sock'[f] = sock'[g], sock'[f] # 0
        PROVE  f = g
    <3>1. sock[f] \in 0 .. Accepted /\ sock[g] \in 0 .. Accepted
      BY <1>3
    <3>2. sock[f] # conn /\ sock[g] # conn
      BY <1>3, <1>5, <3>1
    <3>3. CASE f = fd \/ g = fd
      BY <1>7, <2>3, <3>2, <3>3
    <3>4. CASE f # fd /\ g # fd
      BY <1>7, <2>3, <3>4 DEF AlwaysInv, SockInv
    <3> QED
      BY <3>3, <3>4
  <2>4. Len(peer') <= MaxConns /\ Accepted' \in Nat
    BY <1>1, <1>3, <1>5
  <2> QED
    BY <2>1, <2>2, <2>3, <2>4 DEF SockInv
<1>10. TakeInv'
  <2>1. loopPc' = "take" => fdchainfree # 0
    BY <1>1
  <2>2. fdchainfree \in 0 .. ENums
    BY DEF AlwaysInv, ConnTypeOK
  <2>3. taking'.entry = fdchainfree /\ taking'.fd = fd
    BY <1>1
  <2> QED
    BY <1>2, <2>1, <2>2, <2>3, ConnAssumption DEF TakeInv, Entries
<1> QED
  BY <1>1, <1>2, <1>6, <1>8, <1>9, <1>10 DEF AlwaysInv, conn

\* What a worker's inbox holds.
Messages == [kind : {"recv", "send"}, entry : 0 .. ENums, ssrc : Clients]

\* Sockets are closed, and no connection is made.
LEMMA SocketsKept ==
  ASSUME AlwaysInv, UNCHANGED <<peer, backlog>>,
         \A f \in Fds : sock'[f] = sock[f] \/ sock'[f] = 0
  PROVE  SockInv'
<1>1. Accepted' = Accepted /\ Accepted \in Nat
  BY Backlog DEF Accepted
<1>2. \A f \in Fds : sock'[f] <= Accepted'
  BY <1>1, Backlog
<1>3. ASSUME NEW f \in Fds, NEW g \in Fds, sock'[f] = sock'[g], sock'[f] # 0
      PROVE  f = g
  BY <1>3 DEF AlwaysInv, SockInv
<1> QED
  BY <1>1, <1>2, <1>3 DEF AlwaysInv, SockInv

\* A message comes to the end of an inbox.
LEMMA PutMessage ==
  ASSUME AlwaysInv, NEW w \in Workers, NEW m \in Messages,
         inbox' = [inbox EXCEPT ![w] = Append(@, m)]
  PROVE  /\ inbox' \in [Workers -> Seq(Messages)]
         /\ \A v \in Workers : v # w => inbox'[v] = inbox[v]
         /\ Len(inbox[w]) \in Nat /\ Len(inbox'[w]) = Len(inbox[w]) + 1
         /\ \A i \in 1 .. Len(inbox[w]) : inbox'[w][i] = inbox[w][i]
         /\ inbox'[w][Len(inbox[w]) + 1] = m
<1>1. inbox \in [Workers -> Seq(Messages)]
  BY DEF AlwaysInv, ConnTypeOK, Messages
<1>2. PICK q \in Seq(Messages) : q = inbox[w]
  BY <1>1
<1>3. /\ Append(q, m) \in Seq(Messages) /\ Len(Append(q, m)) = Len(q) + 1
      /\ \A i \in 1 .. Len(q) : Append(q, m)[i] = q[i]
      /\ Append(q, m)[Len(q) + 1] = m
  BY AppendProperties
<1>4. Len(q) \in Nat
  BY LenProperties
<1>5. inbox'[w] = Append(q, m) /\ \A v \in Workers : v # w => inbox'[v] = inbox[v]
  BY <1>1, <1>2
<1>6. inbox' \in [Workers -> Seq(Messages)]
  BY <1>1, <1>2, <1>3
<1> QED
  BY <1>2, <1>3, <1>4, <1>5, <1>6

\* The first message of an inbox is handled.
LEMMA GetMessage ==
  ASSUME AlwaysInv, NEW w \in Workers, NEW kind, TakeMessage(w, kind)
  PROVE  /\ inbox' \in [Workers -> Seq(Messages)]
         /\ \A v \in Workers : v # w => inbox'[v] = inbox[v]
         /\ Len(inbox[w]) \in Nat \ {0} /\ Len(inbox'[w]) = Len(inbox[w]) - 1
         /\ \A i \in 1 .. Len(inbox'[w]) : inbox'[w][i] = inbox[w][i + 1]
         /\ Head(inbox[w]) = inbox[w][1] /\ Head(inbox[w]) \in Messages
<1>1. inbox \in [Workers -> Seq(Messages)]
  BY DEF AlwaysInv, ConnTypeOK, Messages
<1>2. PICK q \in Seq(Messages) : q = inbox[w]
  BY <1>1
<1>3. q # <<>> /\ inbox' = [inbox EXCEPT ![w] = Tail(@)]
  BY <1>2 DEF TakeMessage
<1>4. /\ Head(q) \in Messages /\ Tail(q) \in Seq(Messages) /\ Len(Tail(q)) = Len(q) - 1
      /\ \A i \in 1 .. Len(Tail(q)) : Tail(q)[i] = q[i + 1]
  BY <1>3, HeadTailProperties
<1>5. Len(q) \in Nat \ {0} /\ Head(q) = q[1]
  BY <1>3, LenProperties, EmptySeq
<1>6. inbox'[w] = Tail(q) /\ \A v \in Workers : v # w => inbox'[v] = inbox[v]
  BY <1>1, <1>2, <1>3
<1>7. inbox' \in [Workers -> Seq(Messages)]
  BY <1>1, <1>2, <1>3, <1>4
<1> QED
  BY <1>2, <1>4, <1>5, <1>6, <1>7

\* The worker of an ssrc is one.
LEMMA WorkerOfClient ==
  ASSUME NEW ssrc \in Clients
  PROVE  WorkerOf(ssrc) \in Workers
<1>1. ssrc \in Nat /\ wnums \in Nat \ {0}
  BY ConnAssumption
<1> QED
  BY <1>1 DEF WorkerOf, Workers

LEMMA HangUpAlways ==
  ASSUME AlwaysInv, NEW conn \in DOMAIN peer, HangUp(conn)
  PROVE  AlwaysInv'
<1>1. /\ hungUp' = hungUp \cup {conn}
      /\ UNCHANGED <<peer, backlog, sock, reg, tableVars, loopPc, taking, inbox, workVars, calm>>
  BY DEF HangUp
<1>2. ConnTypeOK'
  BY <1>1 DEF AlwaysInv, ConnTypeOK, tableVars, workVars
<1>3. SockInv'
  BY <1>1, SocketsKept
<1> QED
  BY <1>1, <1>2, <1>3 DEF AlwaysInv, TakeInv

LEMMA TakeEntryAlways ==
  ASSUME AlwaysInv, TakeEntry
  PROVE  AlwaysInv'
<1> DEFINE e == taking.entry
           fd == taking.fd
<1>1. /\ loopPc = "take" /\ fdchainfree' = fnext[e]
      /\ entryFd' = [entryFd EXCEPT ![e] = fd]
      /\ entrySess' = [entrySess EXCEPT ![e] = NoSess]
      /\ entryPool' = [entryPool EXCEPT ![e] = TRUE]
      /\ reg' = IF sock[fd] = 0 THEN reg ELSE [reg EXCEPT ![fd] = e]
      /\ loopPc' = "wait" /\ taking' = NoTake
      /\ UNCHANGED <<peer, backlog, hungUp, sock, fnext, inbox, workVars, calm>>
  BY DEF TakeEntry, ChainAfter
<1>2. e \in Entries /\ fd \in Fds
  BY <1>1 DEF AlwaysInv, TakeInv
<1>3. fd \in 0 .. MaxConns /\ e \in 0 .. ENums /\ NoSess \in 0 .. wnums
      /\ NoTake \in [fd : 0 .. MaxConns, entry : 0 .. ENums]
  BY <1>2, ConnAssumption DEF Fds, Entries, NoSess, NoTake
<1> HIDE DEF e, fd
<1>4. ConnTypeOK'
  <2>1. reg' \in [Fds -> 0 .. ENums]
    BY <1>1, <1>3 DEF AlwaysInv, ConnTypeOK
  <2>2. entryFd' \in [Entries -> 0 .. MaxConns] /\ entrySess' \in [Entries -> 0 .. wnums]
        /\ entryPool' \in [Entries -> BOOLEAN]
    BY <1>1, <1>3 DEF AlwaysInv, ConnTypeOK
  <2>3. fdchainfree' \in 0 .. ENums
    BY <1>1, <1>2 DEF AlwaysInv, ConnTypeOK
  <2> QED
    BY <1>1, <1>3, <2>1, <2>2, <2>3 DEF AlwaysInv, ConnTypeOK, workVars
<1>5. SockInv'
  BY <1>1, SocketsKept
<1> QED
  BY <1>1, <1>4, <1>5 DEF AlwaysInv, TakeInv

LEMMA ReceiveAlways ==
  ASSUME AlwaysInv, NEW fd \in Fds, Receive(fd)
  PROVE  /\ AlwaysInv'
         /\ \E w \in Workers, m \in Messages :
              /\ m = [kind |-> "recv", entry |-> reg[fd], ssrc |-> peer[sock[fd]]]
              /\ inbox' = [inbox EXCEPT ![w] = Append(@, m)]
<1>1. PICK ssrc : ssrc = peer[sock[fd]]
  OBVIOUS
<1>2. PICK m : m = [kind |-> "recv", entry |-> reg[fd], ssrc |-> ssrc]
  OBVIOUS
<1>3. /\ sock[fd] # 0 /\ inbox' = [inbox EXCEPT ![WorkerOf(ssrc)] = Append(@, m)]
      /\ UNCHANGED <<netVars, tableVars, loopPc, taking, workVars, calm>>
  BY <1>1, <1>2 DEF Receive
<1>4. ssrc \in Clients
  BY <1>1, <1>3, Backlog
<1>5. WorkerOf(ssrc) \in Workers
  BY <1>4, WorkerOfClient
<1>6. m \in Messages
  BY <1>2, <1>4 DEF AlwaysInv, ConnTypeOK, Messages
<1>7. inbox' \in [Workers -> Seq(Messages)]
  BY <1>3, <1>5, <1>6, PutMessage
<1>8. ConnTypeOK'
  BY <1>3, <1>7 DEF AlwaysInv, ConnTypeOK, tableVars, netVars, workVars, Messages
<1>9. SockInv'
  BY <1>3, SocketsKept DEF netVars
<1>10. AlwaysInv'
  BY <1>3, <1>8, <1>9 DEF AlwaysInv, TakeInv
<1> QED
  BY <1>1, <1>2, <1>3, <1>5, <1>6, <1>10

LEMMA ReplyAlways ==
  ASSUME AlwaysInv, NEW ssrc \in Clients, Reply(ssrc)
  PROVE  /\ AlwaysInv'
         /\ \E w \in Workers, m \in Messages :
              /\ m = [kind |-> "send", entry |-> 0, ssrc |-> ssrc]
              /\ inbox' = [inbox EXCEPT ![w] = Append(@, m)]
<1>1. PICK m : m = [kind |-> "send", entry |-> 0, ssrc |-> ssrc]
  OBVIOUS
<1>2. /\ inbox' = [inbox EXCEPT ![WorkerOf(ssrc)] = Append(@, m)]
      /\ UNCHANGED <<netVars, tableVars, loopPc, taking, workVars, calm>>
  BY <1>1 DEF Reply
<1>3. WorkerOf(ssrc) \in Workers
  BY WorkerOfClient
<1>4. m \in Messages
  BY <1>1, ConnAssumption DEF Messages
<1>5. inbox' \in [Workers -> Seq(Messages)]
  BY <1>2, <1>3, <1>4, PutMessage
<1>6. ConnTypeOK'
  BY <1>2, <1>5 DEF AlwaysInv, ConnTypeOK, tableVars, netVars, workVars, Messages
<1>7. SockInv'
  BY <1>2, SocketsKept DEF netVars
<1>8. AlwaysInv'
  BY <1>2, <1>6, <1>7 DEF AlwaysInv, TakeInv
<1> QED
  BY <1>1, <1>2, <1>3, <1>4, <1>8

LEMMA HandleRecvAlways ==
  ASSUME AlwaysInv, NEW w \in Workers, HandleRecv(w)
  PROVE  AlwaysInv'
<1>1. PICK m : m = Head(inbox[w])
  OBVIOUS
<1>2. /\ TakeMessage(w, "recv")
      /\ IF entrySess[m.entry] = NoSess
         THEN /\ bucket' = [bucket EXCEPT ![w] = @ \cup {m.ssrc}]
              /\ entrySess' = [entrySess EXCEPT ![m.entry] = w]
              /\ tcpfd' = [tcpfd EXCEPT ![w] = m.entry]
         ELSE UNCHANGED <<bucket, entrySess, tcpfd>>
      /\ UNCHANGED <<netVars, fdchainfree, fnext, entryFd, entryPool, loopPc, taking,
                     workPc, freeing, lastSend, calm>>
  BY <1>1 DEF HandleRecv
<1>3. m \in Messages /\ inbox' \in [Workers -> Seq(Messages)]
  BY <1>1, <1>2, GetMessage
<1>4. m.entry \in 0 .. ENums /\ m.ssrc \in Clients /\ w \in 0 .. wnums
  BY <1>3, ConnAssumption DEF Messages, Workers
<1>5. /\ bucket' \in [Workers -> SUBSET Clients] /\ tcpfd' \in [Workers -> 0 .. ENums]
      /\ entrySess' \in [Entries -> 0 .. wnums]
  <2>1. CASE entrySess[m.entry] = NoSess
    <3>1. bucket' = [bucket EXCEPT ![w] = @ \cup {m.ssrc}]
      BY <1>2, <2>1
    <3>2. entrySess' = [entrySess EXCEPT ![m.entry] = w]
      BY <1>2, <2>1
    <3>3. tcpfd' = [tcpfd EXCEPT ![w] = m.entry]
      BY <1>2, <2>1
    <3>4. bucket[w] \cup {m.ssrc} \in SUBSET Clients
      BY <1>4 DEF AlwaysInv, ConnTypeOK
    <3>5. bucket' \in [Workers -> SUBSET Clients]
      BY <3>1, <3>4 DEF AlwaysInv, ConnTypeOK
    <3> QED
      BY <1>4, <3>2, <3>3, <3>5 DEF AlwaysInv, ConnTypeOK
  <2>2. CASE entrySess[m.entry] # NoSess
    BY <1>2, <2>2 DEF AlwaysInv, ConnTypeOK
  <2> QED
    BY <2>1, <2>2
<1>6. ConnTypeOK'
  BY <1>2, <1>3, <1>5 DEF AlwaysInv, ConnTypeOK, netVars, Messages
<1>7. SockInv'
  BY <1>2, SocketsKept DEF netVars
<1> QED
  BY <1>2, <1>6, <1>7 DEF AlwaysInv, TakeInv

LEMMA HandleSendAlways ==
  ASSUME AlwaysInv, NEW w \in Workers, HandleSend(w)
  PROVE  AlwaysInv'
<1>1. /\ TakeMessage(w, "send")
      /\ UNCHANGED <<netVars, tableVars, loopPc, taking, workPc, freeing, bucket,
                     tcpfd, calm>>
  BY DEF HandleSend
<1>2. inbox' \in [Workers -> Seq(Messages)]
  BY <1>1, GetMessage
<1>3. ConnTypeOK'
  BY <1>1, <1>2 DEF AlwaysInv, ConnTypeOK, netVars, tableVars, Messages
<1>4. SockInv'
  BY <1>1, SocketsKept DEF netVars
<1> QED
  BY <1>1, <1>3, <1>4 DEF AlwaysInv, TakeInv

LEMMA SendNoEntryAlways ==
  ASSUME AlwaysInv, NEW w \in Workers, SendNoEntry(w)
  PROVE  AlwaysInv'
<1>1. /\ TakeMessage(w, "send") /\ workPc' = [workPc EXCEPT ![w] = "crash"]
      /\ UNCHANGED <<netVars, tableVars, loopPc, taking, freeing, bucket, tcpfd,
                     lastSend, calm>>
  BY DEF SendNoEntry
<1>2. inbox' \in [Workers -> Seq(Messages)]
  BY <1>1, GetMessage
<1>3. ConnTypeOK'
  BY <1>1, <1>2 DEF AlwaysInv, ConnTypeOK, netVars, tableVars, Messages
<1>4. SockInv'
  BY <1>1, SocketsKept DEF netVars
<1> QED
  BY <1>1, <1>3, <1>4 DEF AlwaysInv, TakeInv

LEMMA SendFailsAlways ==
  ASSUME AlwaysInv, NEW w \in Workers, SendFails(w)
  PROVE  AlwaysInv'
<1>1. PICK e : e = tcpfd[w]
  OBVIOUS
<1>2. PICK fd : fd = entryFd[e]
  OBVIOUS
<1>3. /\ TakeMessage(w, "send") /\ e # 0
      /\ sock' = [sock EXCEPT ![fd] = 0] /\ reg' = [reg EXCEPT ![fd] = 0]
      /\ IF entrySess[e] = NoSess
         THEN /\ workPc' = [workPc EXCEPT ![w] = "crash"]
              /\ UNCHANGED <<tcpfd, entrySess, fnext, freeing>>
         ELSE /\ tcpfd' = [tcpfd EXCEPT ![entrySess[e]] = 0]
              /\ entrySess' = [entrySess EXCEPT ![e] = NoSess]
              /\ fnext' = [fnext EXCEPT ![e] = fdchainfree]
              /\ freeing' = [freeing EXCEPT ![w] = e]
              /\ workPc' = [workPc EXCEPT ![w] = "push"]
      /\ calm' = (calm /\ AtPeace(e))
      /\ UNCHANGED <<peer, backlog, hungUp, fdchainfree, entryFd, entryPool, loopPc,
                     taking, bucket, lastSend>>
  BY <1>1, <1>2 DEF SendFails, Untie
<1>4. e \in 0 .. ENums /\ inbox' \in [Workers -> Seq(Messages)]
      /\ 0 \in 0 .. ENums /\ 0 \in 0 .. MaxConns /\ NoSess \in 0 .. wnums
  <2>1. inbox' \in [Workers -> Seq(Messages)]
    BY <1>3, GetMessage
  <2>2. e \in 0 .. ENums
    BY <1>1 DEF AlwaysInv, ConnTypeOK
  <2> QED
    BY <2>1, <2>2, ConnAssumption DEF NoSess
<1>5. sock' \in [Fds -> 0 .. MaxConns] /\ reg' \in [Fds -> 0 .. ENums] /\ calm' \in BOOLEAN
  BY <1>3, <1>4 DEF AlwaysInv, ConnTypeOK
<1>6. /\ workPc' \in [Workers -> {"run", "push", "destroy", "crash"}]
      /\ freeing' \in [Workers -> 0 .. ENums] /\ fnext' \in [Entries -> 0 .. ENums]
      /\ entrySess' \in [Entries -> 0 .. wnums] /\ tcpfd' \in [Workers -> 0 .. ENums]
  <2>1. CASE entrySess[e] = NoSess
    BY <1>3, <2>1 DEF AlwaysInv, ConnTypeOK
  <2>2. CASE entrySess[e] # NoSess
    <3>1. tcpfd' = [tcpfd EXCEPT ![entrySess[e]] = 0]
      BY <1>3, <2>2
    <3>2. entrySess' = [entrySess EXCEPT ![e] = NoSess]
      BY <1>3, <2>2
    <3>3. fnext' = [fnext EXCEPT ![e] = fdchainfree]
      BY <1>3, <2>2
    <3>4. freeing' = [freeing EXCEPT ![w] = e]
      BY <1>3, <2>2
    <3>5. workPc' = [workPc EXCEPT ![w] = "push"]
      BY <1>3, <2>2
    <3> QED
      BY <1>4, <3>1, <3>2, <3>3, <3>4, <3>5 DEF AlwaysInv, ConnTypeOK
  <2> QED
    BY <2>1, <2>2
<1>7. ConnTypeOK'
  BY <1>3, <1>4, <1>5, <1>6 DEF AlwaysInv, ConnTypeOK, Messages
<1>8. SockInv'
  <2>1. \A f \in Fds : sock'[f] = sock[f] \/ sock'[f] = 0
    BY <1>3 DEF AlwaysInv, ConnTypeOK
  <2> QED
    BY <1>3, <2>1, SocketsKept
<1> QED
  BY <1>3, <1>7, <1>8 DEF AlwaysInv, TakeInv

LEMMA PushEntryAlways ==
  ASSUME AlwaysInv, NEW w \in Workers, PushEntry(w)
  PROVE  AlwaysInv'
<1>1. /\ fdchainfree' = freeing[w] /\ workPc' = [workPc EXCEPT ![w] = "destroy"]
      /\ UNCHANGED <<netVars, fnext, entryFd, entrySess, entryPool, loopPc, taking,
                     freeing, inbox, bucket, tcpfd, lastSend, calm>>
  BY DEF PushEntry
<1>2. ConnTypeOK'
  BY <1>1 DEF AlwaysInv, ConnTypeOK, netVars
<1>3. SockInv'
  BY <1>1, SocketsKept DEF netVars
<1> QED
  BY <1>1, <1>2, <1>3 DEF AlwaysInv, TakeInv

LEMMA DestroyPoolAlways ==
  ASSUME AlwaysInv, NEW w \in Workers, DestroyPool(w)
  PROVE  AlwaysInv'
<1>1. /\ entryPool' = [entryPool EXCEPT ![freeing[w]] = FALSE]
      /\ freeing' = [freeing EXCEPT ![w] = 0] /\ workPc' = [workPc EXCEPT ![w] = "run"]
      /\ UNCHANGED <<netVars, fdchainfree, fnext, entryFd, entrySess, loopPc, taking,
                     inbox, bucket, tcpfd, lastSend, calm>>
  BY DEF DestroyPool
<1>2. 0 \in 0 .. ENums
  BY ConnAssumption
<1>3. ConnTypeOK'
  BY <1>1, <1>2 DEF AlwaysInv, ConnTypeOK, netVars
<1>4. SockInv'
  BY <1>1, SocketsKept DEF netVars
<1> QED
  BY <1>1, <1>3, <1>4 DEF AlwaysInv, TakeInv

LEMMA InitAlways == ConnInit => AlwaysInv
<1> SUFFICES ASSUME ConnInit PROVE AlwaysInv
  OBVIOUS
<1>1. /\ peer = <<>> /\ backlog = <<>> /\ Len(peer) = 0 /\ Len(backlog) = 0
      /\ Accepted = 0 /\ DOMAIN peer = {} /\ MaxConns \in Nat /\ ENums \in Nat
  BY ConnAssumption DEF ConnInit, Accepted
<1>2. peer \in Seq(Clients) /\ backlog \in Seq(DOMAIN peer) /\ hungUp \subseteq DOMAIN peer
  BY <1>1, EmptySeq DEF ConnInit
<1>3. /\ sock \in [Fds -> 0 .. MaxConns] /\ reg \in [Fds -> 0 .. ENums]
      /\ entryFd \in [Entries -> 0 .. MaxConns] /\ entryPool \in [Entries -> BOOLEAN]
      /\ entrySess \in [Entries -> 0 .. wnums]
  BY <1>1, ConnAssumption DEF ConnInit, NoSess
<1>4. fdchainfree \in 0 .. ENums /\ fnext \in [Entries -> 0 .. ENums]
  BY <1>1 DEF ConnInit, Entries
<1>5. /\ loopPc \in {"wait", "take", "crash"}
      /\ taking \in [fd : 0 .. MaxConns, entry : 0 .. ENums]
      /\ workPc \in [Workers -> {"run", "push", "destroy", "crash"}]
      /\ freeing \in [Workers -> 0 .. ENums] /\ tcpfd \in [Workers -> 0 .. ENums]
      /\ bucket \in [Workers -> SUBSET Clients] /\ calm \in BOOLEAN
  BY <1>1 DEF ConnInit, NoTake
<1>6. inbox \in [Workers -> Seq(Messages)]
  <2>1. <<>> \in Seq(Messages)
    BY EmptySeq
  <2> QED
    BY <2>1 DEF ConnInit
<1>7. ConnTypeOK
  BY <1>2, <1>3, <1>4, <1>5, <1>6 DEF ConnTypeOK, Messages
<1>8. SockInv
  BY <1>1 DEF ConnInit, SockInv
<1>9. TakeInv
  BY DEF ConnInit, TakeInv
<1> QED
  BY <1>7, <1>8, <1>9 DEF AlwaysInv

LEMMA StutterAlways ==
  ASSUME AlwaysInv, UNCHANGED connVars
  PROVE  AlwaysInv'
<1>1. ConnTypeOK'
  BY DEF AlwaysInv, ConnTypeOK, connVars
<1>2. SockInv'
  BY SocketsKept DEF connVars
<1> QED
  BY <1>1, <1>2 DEF AlwaysInv, TakeInv, connVars

LEMMA NextAlways ==
  ASSUME AlwaysInv, [ConnNext]_connVars
  PROVE  AlwaysInv'
<1>1. ASSUME NEW c \in Clients, Connect(c) PROVE AlwaysInv'
  BY <1>1, ConnectAlways
<1>2. ASSUME NEW c \in Clients, Reply(c) PROVE AlwaysInv'
  BY <1>2, ReplyAlways
<1>3. ASSUME NEW conn \in DOMAIN peer, HangUp(conn) PROVE AlwaysInv'
  BY <1>3, HangUpAlways
<1>4. CASE Accept
  BY <1>4, AcceptAlways
<1>5. CASE TakeEntry
  BY <1>5, TakeEntryAlways
<1>6. ASSUME NEW fd \in Fds, Receive(fd) PROVE AlwaysInv'
  BY <1>6, ReceiveAlways
<1>7. ASSUME NEW w \in Workers, HandleRecv(w) PROVE AlwaysInv'
  BY <1>7, HandleRecvAlways
<1>8. ASSUME NEW w \in Workers, HandleSend(w) PROVE AlwaysInv'
  BY <1>8, HandleSendAlways
<1>9. ASSUME NEW w \in Workers, SendNoEntry(w) PROVE AlwaysInv'
  BY <1>9, SendNoEntryAlways
<1>10. ASSUME NEW w \in Workers, SendFails(w) PROVE AlwaysInv'
  BY <1>10, SendFailsAlways
<1>11. ASSUME NEW w \in Workers, PushEntry(w) PROVE AlwaysInv'
  BY <1>11, PushEntryAlways
<1>12. ASSUME NEW w \in Workers, DestroyPool(w) PROVE AlwaysInv'
  BY <1>12, DestroyPoolAlways
<1>13. CASE UNCHANGED connVars
  BY <1>13, StutterAlways
<1> QED
  BY <1>1, <1>2, <1>3, <1>4, <1>5, <1>6, <1>7, <1>8, <1>9, <1>10, <1>11, <1>12, <1>13
     DEF ConnNext

\* In every state connections, table and sessions have their types, whatever
\* the workers do to the chain while the loop uses it.
THEOREM ConnTypes == ConnSpec => []ConnTypeOK
<1>1. ConnInit => AlwaysInv
  BY InitAlways
<1>2. AlwaysInv /\ [ConnNext]_connVars => AlwaysInv'
  BY NextAlways
<1>3. AlwaysInv => ConnTypeOK
  BY DEF AlwaysInv
<1> QED
  BY <1>1, <1>2, <1>3, PTL DEF ConnSpec

-----------------------------------------------------------------------------
(* Who uses an entry                                                       *)

\* A session keeps its entry, if the entry goes on serving its client.
LEMMA TiedKept ==
  ASSUME AlwaysInv, TiedInv, UNCHANGED <<tcpfd, bucket>>,
         \A x \in Entries : InUse(x) =>
           InUse(x)' /\ ClientOf(x)' = ClientOf(x) /\ entrySess'[x] = entrySess[x]
  PROVE  TiedInv'
<1> SUFFICES ASSUME NEW w \in Workers, tcpfd'[w] # 0
             PROVE  (InUse(tcpfd[w]) /\ entrySess[tcpfd[w]] = w /\ ClientOf(tcpfd[w]) \in bucket[w])'
  BY DEF TiedInv
<1>1. PICK x : x = tcpfd[w]
  OBVIOUS
<1>2. x \in Entries
  BY <1>1 DEF AlwaysInv, ConnTypeOK, Entries
<1>3. InUse(x) /\ entrySess[x] = w /\ ClientOf(x) \in bucket[w]
  BY <1>1 DEF TiedInv
<1>4. InUse(x)' /\ entrySess'[x] = w /\ ClientOf(x)' \in bucket'[w]
  BY <1>2, <1>3
<1>5. x = tcpfd'[w]
  BY <1>1
<1> QED
  BY <1>4, <1>5 DEF InUse, ClientOf

\* The messages that wait are fit, if each one is new and fit or has waited
\* before, and the entries they name go on serving their clients.
LEMMA WaitingKept ==
  ASSUME AlwaysInv, WaitingInv,
         \A v \in Workers : \A i \in 1 .. Len(inbox'[v]) :
           \/ Fits(inbox'[v][i])
           \/ \E j \in 1 .. Len(inbox[v]) : inbox'[v][i] = inbox[v][j],
         \A x \in Entries : InUse(x) =>
           \/ InUse(x)' /\ ClientOf(x)' = ClientOf(x)
           \/ \A v \in Workers : \A i \in 1 .. Len(inbox'[v]) : inbox'[v][i].entry # x
  PROVE  WaitingInv'
<1> SUFFICES ASSUME NEW v \in Workers, NEW i \in 1 .. Len(inbox'[v])
             PROVE  Fits(inbox[v][i])'
  BY DEF WaitingInv
<1>1. PICK m : m = inbox'[v][i]
  OBVIOUS
<1>2. Fits(m)
  BY <1>1 DEF WaitingInv
<1>3. CASE m.kind = "recv"
  <2>1. m.entry \in Entries /\ InUse(m.entry) /\ ClientOf(m.entry) = m.ssrc
    BY <1>2, <1>3 DEF Fits
  <2>2. PICK x : x = m.entry
    OBVIOUS
  <2>3. InUse(x)' /\ ClientOf(x)' = ClientOf(x)
    BY <1>1, <2>1, <2>2
  <2>4. x \in Entries /\ InUse(x)' /\ ClientOf(x)' = m.ssrc
    BY <2>1, <2>2, <2>3
  <2>5. inbox'[v][i].entry = x /\ inbox'[v][i].ssrc = m.ssrc
    BY <1>1, <2>2
  <2> QED
    BY <2>4, <2>5, <1>1, <1>3 DEF Fits, InUse, ClientOf
<1>4. CASE m.kind # "recv"
  <2>1. m.entry = 0
    BY <1>2, <1>4 DEF Fits
  <2> QED
    BY <1>1, <1>4, <2>1 DEF Fits
<1> QED
  BY <1>3, <1>4

\* A step that touches no entry, no chain and no socket.
LEMMA UseKept ==
  ASSUME AlwaysInv, ChainInv, RegInv, OneAtATime,
         UNCHANGED <<reg, sock, entryFd, entryPool, fdchainfree, fnext, freeing, loopPc, taking>>,
         \A w \in Workers : \/ workPc'[w] = workPc[w]
                            \/ workPc[w] = "run" /\ workPc'[w] = "crash"
  PROVE  ChainInv' /\ RegInv' /\ OneAtATime' /\ \A x : InUse(x)' <=> InUse(x)
<1>1. \A x : InUse(x)' <=> InUse(x)
  BY DEF InUse
<1>2. \A w \in Workers : /\ workPc'[w] = "push" <=> workPc[w] = "push"
                         /\ workPc'[w] = "destroy" <=> workPc[w] = "destroy"
  OBVIOUS
<1>3. \A x : Pushed(x)' <=> Pushed(x)
  BY <1>2 DEF Pushed
<1>4. ChainInv'
  <2>1. PICK c : IsChain(c, fdchainfree, fnext) /\ OneUse(c)
    BY DEF ChainInv
  <2>2. IsChain(c, fdchainfree', fnext')
    BY <2>1
  <2>3. OneUse(c)'
    BY <2>1, <1>1, <1>2, <1>3 DEF OneUse
  <2> QED
    BY <2>2, <2>3 DEF ChainInv
<1>5. RegInv'
  BY <1>1 DEF RegInv
<1>6. OneAtATime'
  BY <1>2 DEF OneAtATime, NobodyFrees
<1> QED
  BY <1>1, <1>4, <1>5, <1>6

\* An entry in use serves the connection of a client.
LEMMA ClientKept ==
  ASSUME AlwaysInv, NEW x, InUse(x), entryFd'[x] = entryFd[x],
         sock'[entryFd[x]] = sock[entryFd[x]],
         \A conn \in 1 .. Len(peer) : peer'[conn] = peer[conn]
  PROVE  ClientOf(x)' = ClientOf(x)
<1>1. entryFd[x] \in Fds /\ sock[entryFd[x]] # 0
  BY DEF InUse
<1>2. sock[entryFd[x]] \in 1 .. Len(peer)
  BY <1>1, Backlog
<1> QED
  BY <1>2 DEF ClientOf

\* Nothing but peers, inboxes and what waits to be accepted.
LEMMA QuietStep ==
  ASSUME AlwaysInv, CalmInv,
         UNCHANGED <<sock, reg, tableVars, loopPc, taking, freeing, bucket, tcpfd>>,
         \A w \in Workers : \/ workPc'[w] = workPc[w]
                            \/ workPc[w] = "run" /\ workPc'[w] = "crash",
         \A conn \in 1 .. Len(peer) : peer'[conn] = peer[conn],
         \A v \in Workers : \A i \in 1 .. Len(inbox'[v]) :
           \/ Fits(inbox'[v][i])
           \/ \E j \in 1 .. Len(inbox[v]) : inbox'[v][i] = inbox[v][j]
  PROVE  CalmInv'
<1>1. ChainInv' /\ RegInv' /\ OneAtATime' /\ \A x : InUse(x)' <=> InUse(x)
  BY UseKept DEF CalmInv, tableVars
<1>2. ASSUME NEW x \in Entries, InUse(x)
      PROVE  InUse(x)' /\ ClientOf(x)' = ClientOf(x) /\ entrySess'[x] = entrySess[x]
  <2>1. InUse(x)'
    BY <1>1, <1>2
  <2>2. ClientOf(x)' = ClientOf(x)
    BY <1>2, ClientKept DEF tableVars
  <2> QED
    BY <2>1, <2>2 DEF tableVars
<1>3. TiedInv'
  BY <1>2, TiedKept DEF CalmInv
<1>4. WaitingInv'
  BY <1>2, WaitingKept DEF CalmInv
<1> QED
  BY <1>1, <1>3, <1>4 DEF CalmInv

LEMMA ConnectCalm ==
  ASSUME AlwaysInv, CalmInv, NEW client \in Clients, Connect(client)
  PROVE  CalmInv'
<1>1. UNCHANGED <<hungUp, sock, reg, tableVars, loopPc, taking, inbox, workVars, calm>>
  BY DEF Connect
<1>2. \A conn \in 1 .. Len(peer) : peer'[conn] = peer[conn]
  BY ConnectAlways
<1>3. inbox' = inbox /\ workPc' = workPc
  BY <1>1 DEF workVars
<1> QED
  BY <1>1, <1>2, <1>3, QuietStep DEF workVars

LEMMA HangUpCalm ==
  ASSUME AlwaysInv, CalmInv, NEW conn \in DOMAIN peer, HangUp(conn)
  PROVE  CalmInv'
<1>1. UNCHANGED <<peer, sock, reg, tableVars, loopPc, taking, inbox, workVars, calm>>
  BY DEF HangUp
<1>2. inbox' = inbox /\ workPc' = workPc /\ peer' = peer
  BY <1>1 DEF workVars
<1> QED
  BY <1>1, <1>2, QuietStep DEF workVars

\* A fit message comes to the end of an inbox.
LEMMA PutCalm ==
  ASSUME AlwaysInv, CalmInv, NEW w \in Workers, NEW m \in Messages, Fits(m),
         inbox' = [inbox EXCEPT ![w] = Append(@, m)],
         UNCHANGED <<netVars, tableVars, loopPc, taking, workVars>>
  PROVE  CalmInv'
<1>1. /\ \A v \in Workers : v # w => inbox'[v] = inbox[v]
      /\ Len(inbox[w]) \in Nat /\ Len(inbox'[w]) = Len(inbox[w]) + 1
      /\ \A i \in 1 .. Len(inbox[w]) : inbox'[w][i] = inbox[w][i]
      /\ inbox'[w][Len(inbox[w]) + 1] = m
  BY PutMessage
<1>2. ASSUME NEW v \in Workers, NEW i \in 1 .. Len(inbox'[v])
      PROVE  \/ Fits(inbox'[v][i])
             \/ \E j \in 1 .. Len(inbox[v]) : inbox'[v][i] = inbox[v][j]
  <2>1. CASE v # w
    BY <1>1, <2>1
  <2>2. CASE v = w /\ i = Len(inbox[w]) + 1
    BY <1>1, <2>2
  <2>3. CASE v = w /\ i # Len(inbox[w]) + 1
    <3>1. i \in 1 .. Len(inbox[w])
      BY <1>1, <1>2, <2>3
    <3> QED
      BY <1>1, <2>3, <3>1
  <2> QED
    BY <2>1, <2>2, <2>3
<1>3. workPc' = workPc /\ peer' = peer
  BY DEF workVars, netVars
<1> QED
  BY <1>2, <1>3, QuietStep DEF workVars, netVars

LEMMA ReceiveCalm ==
  ASSUME AlwaysInv, CalmInv, NEW fd \in Fds, Receive(fd)
  PROVE  CalmInv'
<1>1. PICK w \in Workers, m \in Messages :
        /\ m = [kind |-> "recv", entry |-> reg[fd], ssrc |-> peer[sock[fd]]]
        /\ inbox' = [inbox EXCEPT ![w] = Append(@, m)]
  BY ReceiveAlways
<1>2. reg[fd] # 0 /\ sock[fd] # 0 /\ UNCHANGED <<netVars, tableVars, loopPc, taking, workVars>>
  BY DEF Receive
<1>3. entryFd[reg[fd]] = fd /\ reg[fd] \in Entries
  BY <1>2 DEF CalmInv, RegInv, AlwaysInv, ConnTypeOK, Entries
<1>4. InUse(reg[fd]) /\ ClientOf(reg[fd]) = peer[sock[fd]]
  BY <1>2, <1>3 DEF InUse, ClientOf
<1>5. m.kind = "recv" /\ m.entry = reg[fd] /\ m.ssrc = peer[sock[fd]]
  BY <1>1
<1>6. Fits(m)
  BY <1>3, <1>4, <1>5 DEF Fits
<1> QED
  BY <1>1, <1>2, <1>6, PutCalm

LEMMA ReplyCalm ==
  ASSUME AlwaysInv, CalmInv, NEW ssrc \in Clients, Reply(ssrc)
  PROVE  CalmInv'
<1>1. PICK w \in Workers, m \in Messages :
        /\ m = [kind |-> "send", entry |-> 0, ssrc |-> ssrc]
        /\ inbox' = [inbox EXCEPT ![w] = Append(@, m)]
  BY ReplyAlways
<1>2. UNCHANGED <<netVars, tableVars, loopPc, taking, workVars>>
  BY DEF Reply
<1>3. Fits(m)
  BY <1>1 DEF Fits
<1> QED
  BY <1>1, <1>2, <1>3, PutCalm

\* What waits after a message was taken has waited before.
LEMMA StillWaiting ==
  ASSUME AlwaysInv, NEW w \in Workers, NEW kind, TakeMessage(w, kind)
  PROVE  \A v \in Workers : \A i \in 1 .. Len(inbox'[v]) :
           \E j \in 1 .. Len(inbox[v]) : inbox'[v][i] = inbox[v][j]
<1> SUFFICES ASSUME NEW v \in Workers, NEW i \in 1 .. Len(inbox'[v])
             PROVE  \E j \in 1 .. Len(inbox[v]) : inbox'[v][i] = inbox[v][j]
  OBVIOUS
<1>1. CASE v # w
  BY <1>1, GetMessage
<1>2. CASE v = w
  <2>1. Len(inbox[w]) \in Nat \ {0} /\ Len(inbox'[w]) = Len(inbox[w]) - 1
        /\ inbox'[w][i] = inbox[w][i + 1]
    BY <1>2, GetMessage
  <2>2. i + 1 \in 1 .. Len(inbox[w])
    BY <1>2, <2>1
  <2> QED
    BY <1>2, <2>1, <2>2
<1> QED
  BY <1>1, <1>2

LEMMA HandleSendCalm ==
  ASSUME AlwaysInv, CalmInv, NEW w \in Workers, HandleSend(w)
  PROVE  CalmInv'
<1>1. /\ TakeMessage(w, "send")
      /\ UNCHANGED <<netVars, tableVars, loopPc, taking, workPc, freeing, bucket, tcpfd>>
  BY DEF HandleSend
<1>2. workPc' = workPc /\ peer' = peer
  BY <1>1 DEF netVars
<1>3. \A v \in Workers : \A i \in 1 .. Len(inbox'[v]) :
        \E j \in 1 .. Len(inbox[v]) : inbox'[v][i] = inbox[v][j]
  BY <1>1, StillWaiting
<1> QED
  BY <1>1, <1>2, <1>3, QuietStep DEF netVars

LEMMA SendNoEntryCalm ==
  ASSUME AlwaysInv, CalmInv, NEW w \in Workers, SendNoEntry(w)
  PROVE  CalmInv'
<1>1. /\ TakeMessage(w, "send") /\ workPc' = [workPc EXCEPT ![w] = "crash"]
      /\ UNCHANGED <<netVars, tableVars, loopPc, taking, freeing, bucket, tcpfd>>
  BY DEF SendNoEntry
<1>2. \A v \in Workers : \/ workPc'[v] = workPc[v]
                         \/ workPc[v] = "run" /\ workPc'[v] = "crash"
  BY <1>1 DEF TakeMessage, AlwaysInv, ConnTypeOK
<1>3. \A v \in Workers : \A i \in 1 .. Len(inbox'[v]) :
        \E j \in 1 .. Len(inbox[v]) : inbox'[v][i] = inbox[v][j]
  BY <1>1, StillWaiting
<1>4. peer' = peer
  BY <1>1 DEF netVars
<1> QED
  BY <1>1, <1>2, <1>3, <1>4, QuietStep DEF netVars

\* The loop accepts: the descriptor was closed, so no entry serves it.
LEMMA AcceptCalm ==
  ASSUME AlwaysInv, CalmInv, Accept, calm'
  PROVE  CalmInv'
<1>1. PICK fd \in Fds :
        /\ sock[fd] = 0 /\ sock' = [sock EXCEPT ![fd] = Head(backlog)]
        /\ Head(backlog) # 0 /\ taking' = [fd |-> fd, entry |-> fdchainfree]
  BY AcceptAlways
<1>2. /\ loopPc = "wait" /\ NobodyFrees /\ loopPc' \in {"take", "crash"}
      /\ UNCHANGED <<peer, hungUp, reg, tableVars, inbox, workVars>>
  BY DEF Accept
<1>3. /\ sock'[fd] # 0 /\ \A f \in Fds : f # fd => sock'[f] = sock[f]
  BY <1>1 DEF AlwaysInv, ConnTypeOK
<1>4. reg[fd] = 0 /\ reg' = reg /\ entryFd' = entryFd /\ entryPool' = entryPool
  BY <1>1, <1>2 DEF CalmInv, RegInv, tableVars
<1>5. ASSUME NEW x \in Entries
      PROVE  /\ InUse(x)' <=> InUse(x)
             /\ InUse(x) => entryFd[x] # fd
  <2>1. x # 0
    BY ConnAssumption DEF Entries
  <2>2. CASE entryFd[x] = fd
    BY <1>4, <2>1, <2>2 DEF InUse
  <2>3. CASE entryFd[x] # fd
    BY <1>3, <1>4, <2>3 DEF InUse
  <2> QED
    BY <2>2, <2>3
<1>6. ASSUME NEW x \in Entries, InUse(x)
      PROVE  InUse(x)' /\ ClientOf(x)' = ClientOf(x) /\ entrySess'[x] = entrySess[x]
  <2>1. InUse(x)' /\ entryFd[x] # fd /\ entryFd[x] \in Fds
    BY <1>5, <1>6 DEF InUse
  <2>2. entryFd'[x] = entryFd[x] /\ sock'[entryFd[x]] = sock[entryFd[x]] /\ peer' = peer
    BY <1>2, <1>3, <1>4, <2>1
  <2>3. ClientOf(x)' = ClientOf(x)
    BY <1>6, <2>2, ClientKept
  <2> QED
    BY <1>2, <2>1, <2>3 DEF tableVars
<1>7. ChainInv'
  <2>1. PICK c : IsChain(c, fdchainfree, fnext) /\ OneUse(c)
    BY DEF CalmInv, ChainInv
  <2>2. IsChain(c, fdchainfree', fnext')
    BY <1>2, <2>1 DEF tableVars
  <2>3. \A x : Pushed(x)' <=> Pushed(x)
    BY <1>2 DEF Pushed, workVars
  <2>4. OneUse(c)'
    BY <1>2, <1>5, <2>1, <2>3 DEF OneUse, workVars
  <2> QED
    BY <2>2, <2>4 DEF ChainInv
<1>8. RegInv'
  <2>1. \A f \in Fds : reg'[f] # 0 => sock'[f] # 0 /\ entryFd'[reg'[f]] = f
    BY <1>3, <1>4 DEF CalmInv, RegInv
  <2>2. \A e \in Entries : InUse(e)' => entryPool'[e]
    BY <1>4, <1>5 DEF CalmInv, RegInv
  <2> QED
    BY <2>1, <2>2 DEF RegInv
<1>9. OneAtATime'
  <2>1. workPc' = workPc /\ freeing' = freeing /\ fnext' = fnext /\ fdchainfree' = fdchainfree
    BY <1>2 DEF workVars, tableVars
  <2>2. taking'.entry = fdchainfree' /\ sock'[taking'.fd] # 0 /\ reg'[taking'.fd] = 0
    BY <1>1, <1>3, <1>4, <2>1
  <2> QED
    BY <1>2, <2>1, <2>2 DEF CalmInv, OneAtATime, NobodyFrees
<1>10. TiedInv'
  BY <1>2, <1>6, TiedKept DEF CalmInv, workVars
<1>11. WaitingInv'
  BY <1>2, <1>6, WaitingKept DEF CalmInv
<1> QED
  BY <1>7, <1>8, <1>9, <1>10, <1>11 DEF CalmInv

\* What lies behind the head of a chain is the chain that begins there.
LEMMA ChainTail ==
  ASSUME NEW c, NEW head, NEW next, IsChain(c, head, next), head # 0
  PROVE  /\ IsChain(Tail(c), next[head], next) /\ Among(c, head)
         /\ \A x : Among(Tail(c), x) <=> Among(c, x) /\ x # head
<1>1. c \in Seq(Entries) /\ c # <<>> /\ head = c[1]
  BY DEF IsChain
<1>2. PICK d : d = Tail(c)
  OBVIOUS
<1>3. /\ d \in Seq(Entries) /\ Len(d) = Len(c) - 1
      /\ \A i \in 1 .. Len(d) : d[i] = c[i + 1]
  BY <1>1, <1>2, HeadTailProperties
<1>4. Len(c) \in Nat \ {0}
  BY <1>1, LenProperties, EmptySeq
<1>5. \A i, j \in 1 .. Len(c) : c[i] = c[j] => i = j
  BY DEF IsChain
<1>6. \A i, j \in 1 .. Len(d) : d[i] = d[j] => i = j
  <2> SUFFICES ASSUME NEW i \in 1 .. Len(d), NEW j \in 1 .. Len(d), d[i] = d[j] PROVE i = j
    OBVIOUS
  <2>1. i + 1 \in 1 .. Len(c) /\ j + 1 \in 1 .. Len(c) /\ i \in Int /\ j \in Int
    BY <1>3, <1>4
  <2>2. c[i + 1] = c[j + 1]
    BY <1>3
  <2>3. i + 1 = j + 1
    BY <1>5, <2>1, <2>2
  <2> QED
    BY <2>1, <2>3
<1>7. \A i \in 1 .. Len(c) : next[c[i]] = (IF i = Len(c) THEN 0 ELSE c[i + 1])
  BY DEF IsChain
<1>8. next[head] = IF d = <<>> THEN 0 ELSE d[1]
  <2>1. next[head] = IF 1 = Len(c) THEN 0 ELSE c[2]
    <3>1. 1 \in 1 .. Len(c)
      BY <1>4
    <3>2. next[c[1]] = IF 1 = Len(c) THEN 0 ELSE c[1 + 1]
      BY <1>7, <3>1
    <3> QED
      BY <1>1, <3>2
  <2>2. d = <<>> <=> Len(c) = 1
    BY <1>3, <1>4, EmptySeq
  <2>3. Len(c) # 1 => d[1] = c[2]
    BY <1>3, <1>4
  <2> QED
    BY <2>1, <2>2, <2>3
<1>9. \A i \in 1 .. Len(d) : next[d[i]] = (IF i = Len(d) THEN 0 ELSE d[i + 1])
  <2> SUFFICES ASSUME NEW i \in 1 .. Len(d)
               PROVE  next[d[i]] = (IF i = Len(d) THEN 0 ELSE d[i + 1])
    OBVIOUS
  <2>1. i + 1 \in 1 .. Len(c) /\ i \in Int /\ (i = Len(d) <=> i + 1 = Len(c))
    BY <1>3, <1>4
  <2>2. next[c[i + 1]] = IF i + 1 = Len(c) THEN 0 ELSE c[i + 2]
    BY <1>7, <2>1
  <2>3. i # Len(d) => d[i + 1] = c[i + 2]
    BY <1>3, <1>4
  <2> QED
    BY <1>3, <2>1, <2>2, <2>3
<1>10. IsChain(d, next[head], next)
  BY <1>3, <1>6, <1>8, <1>9 DEF IsChain
<1>11. Among(c, head)
  BY <1>1, <1>4 DEF Among
<1>12. ASSUME NEW x PROVE Among(d, x) <=> Among(c, x) /\ x # head
  <2>1. ASSUME Among(d, x) PROVE Among(c, x) /\ x # head
    <3>1. PICK i \in 1 .. Len(d) : d[i] = x
      BY <2>1 DEF Among
    <3>2. i + 1 \in 1 .. Len(c) /\ c[i + 1] = x /\ i + 1 # 1 /\ 1 \in 1 .. Len(c)
      BY <1>3, <1>4, <3>1
    <3>3. c[i + 1] # c[1]
      BY <1>5, <3>2
    <3> QED
      BY <1>1, <3>2, <3>3 DEF Among
  <2>2. ASSUME Among(c, x), x # head PROVE Among(d, x)
    <3>1. PICK i \in 1 .. Len(c) : c[i] = x
      BY <2>2 DEF Among
    <3>2. i # 1
      BY <1>1, <2>2, <3>1
    <3>3. i - 1 \in 1 .. Len(d) /\ (i - 1) + 1 = i
      BY <1>3, <1>4, <3>2
    <3>4. d[i - 1] = c[i]
      BY <1>3, <3>3
    <3> QED
      BY <3>1, <3>3, <3>4 DEF Among
  <2> QED
    BY <2>1, <2>2
<1> QED
  BY <1>2, <1>10, <1>11, <1>12

\* An entry that is linked to the head of a chain, and not in it, makes a
\* chain that begins with it.
LEMMA ChainPush ==
  ASSUME NEW c, NEW head, NEW next, NEW e \in Entries,
         IsChain(c, head, next), next[e] = head, ~Among(c, e)
  PROVE  \E d : /\ IsChain(d, e, next)
                /\ \A x : Among(d, x) <=> Among(c, x) \/ x = e
<1> DEFINE n == Len(c)
           d == [i \in 1 .. n + 1 |-> IF i = 1 THEN e ELSE c[i - 1]]
<1>1. c \in Seq(Entries) /\ n \in Nat /\ \A i \in 1 .. n : c[i] \in Entries
  BY ElementOfSeq, LenProperties DEF IsChain
<1>2. (n = 0 <=> c = <<>>) /\ \A i, j \in 1 .. n : c[i] = c[j] => i = j
  BY <1>1, EmptySeq DEF IsChain
<1> HIDE DEF n
<1>3. d \in [1 .. n + 1 -> Entries]
  <2> SUFFICES ASSUME NEW i \in 1 .. n + 1 PROVE (IF i = 1 THEN e ELSE c[i - 1]) \in Entries
    OBVIOUS
  <2>1. i # 1 => i - 1 \in 1 .. n
    BY <1>1
  <2> QED
    BY <1>1, <2>1
<1>4. d \in Seq(Entries) /\ Len(d) = n + 1 /\ d # <<>>
  <2>1. d \in Seq(Entries)
    BY <1>1, <1>3, IsASeq
  <2>2. DOMAIN d = 1 .. n + 1
    OBVIOUS
  <2>3. Len(d) = n + 1
    BY <1>1, <2>1, <2>2, LenProperties
  <2> QED
    BY <1>1, <2>1, <2>3, EmptySeq
<1>5. d[1] = e /\ \A i \in 1 .. n : d[i + 1] = c[i]
  BY <1>1
<1>6. \A i \in 1 .. n + 1 : i = 1 \/ \E j \in 1 .. n : i = j + 1
  <2> SUFFICES ASSUME NEW i \in 1 .. n + 1, i # 1 PROVE \E j \in 1 .. n : i = j + 1
    OBVIOUS
  <2>1. i - 1 \in 1 .. n /\ i = (i - 1) + 1
    BY <1>1
  <2> QED
    BY <2>1
<1> HIDE DEF d
<1>7. \A i \in 1 .. n : c[i] # e
  BY DEF Among, n
<1>8. \A i, j \in 1 .. Len(d) : d[i] = d[j] => i = j
  <2> SUFFICES ASSUME NEW i \in 1 .. n + 1, NEW j \in 1 .. n + 1, d[i] = d[j] PROVE i = j
    BY <1>4
  <2>1. CASE i = 1 \/ j = 1
    BY <1>5, <1>6, <1>7, <2>1
  <2>2. CASE i # 1 /\ j # 1
    <3>1. PICK k \in 1 .. n : i = k + 1
      BY <1>6, <2>2
    <3>2. PICK l \in 1 .. n : j = l + 1
      BY <1>6, <2>2
    <3>3. c[k] = c[l]
      BY <1>5, <3>1, <3>2
    <3>4. k = l
      BY <1>2, <3>3
    <3> QED
      BY <3>1, <3>2, <3>4
  <2> QED
    BY <2>1, <2>2
<1>9. e = IF d = <<>> THEN 0 ELSE d[1]
  BY <1>4, <1>5
<1>10. \A i \in 1 .. Len(d) : next[d[i]] = (IF i = Len(d) THEN 0 ELSE d[i + 1])
  <2> SUFFICES ASSUME NEW i \in 1 .. n + 1
               PROVE  next[d[i]] = (IF i = n + 1 THEN 0 ELSE d[i + 1])
    BY <1>4
  <2>1. CASE i = 1
    <3>1. next[d[i]] = IF c = <<>> THEN 0 ELSE c[1]
      BY <1>5, <2>1 DEF IsChain
    <3>2. n # 0 => 1 \in 1 .. n
      BY <1>1
    <3>3. n # 0 => d[2] = c[1]
      BY <1>5, <3>2
    <3>4. i = n + 1 <=> c = <<>>
      BY <1>1, <1>2, <2>1
    <3> QED
      BY <1>2, <2>1, <3>1, <3>3, <3>4
  <2>2. CASE i # 1
    <3>1. PICK k \in 1 .. n : i = k + 1
      BY <1>6, <2>2
    <3>2. next[c[k]] = IF k = n THEN 0 ELSE c[k + 1]
      BY DEF IsChain, n
    <3>3. k # n => k + 1 \in 1 .. n
      BY <1>1
    <3>4. k # n => d[i + 1] = c[k + 1]
      BY <1>5, <3>1, <3>3
    <3>5. k = n <=> i = n + 1
      BY <1>1, <3>1
    <3> QED
      BY <1>5, <3>1, <3>2, <3>4, <3>5
  <2> QED
    BY <2>1, <2>2
<1>11. IsChain(d, e, next)
  BY <1>4, <1>8, <1>9, <1>10 DEF IsChain
<1>12. ASSUME NEW x PROVE Among(d, x) <=> Among(c, x) \/ x = e
  <2>1. ASSUME Among(d, x) PROVE Among(c, x) \/ x = e
    <3>1. PICK i \in 1 .. n + 1 : d[i] = x
      BY <1>4, <2>1 DEF Among
    <3> QED
      BY <1>5, <1>6, <3>1 DEF Among, n
  <2>2. ASSUME Among(c, x) PROVE Among(d, x)
    <3>1. PICK i \in 1 .. n : c[i] = x
      BY <2>2 DEF Among, n
    <3>2. i + 1 \in 1 .. n + 1 /\ d[i + 1] = x
      BY <1>1, <1>5, <3>1
    <3> QED
      BY <1>4, <3>2 DEF Among
  <2>3. Among(d, e)
    <3>1. 1 \in 1 .. n + 1
      BY <1>1
    <3> QED
      BY <1>4, <1>5, <3>1 DEF Among
  <2> QED
    BY <2>1, <2>2, <2>3
<1> QED
  BY <1>11, <1>12

\* The loop has the head of the chain: it serves the descriptor accepted.
LEMMA TakeEntryCalm ==
  ASSUME AlwaysInv, CalmInv, TakeEntry
  PROVE  CalmInv'
<1>a. PICK e : e = taking.entry
  OBVIOUS
<1>b. PICK fd : fd = taking.fd
  OBVIOUS
<1>1. /\ loopPc = "take" /\ fdchainfree' = fnext[e]
      /\ entryFd' = [entryFd EXCEPT ![e] = fd]
      /\ entrySess' = [entrySess EXCEPT ![e] = NoSess]
      /\ entryPool' = [entryPool EXCEPT ![e] = TRUE]
      /\ reg' = IF sock[fd] = 0 THEN reg ELSE [reg EXCEPT ![fd] = e]
      /\ loopPc' = "wait"
      /\ UNCHANGED <<peer, sock, fnext, inbox, workVars>>
  BY <1>a, <1>b DEF TakeEntry, ChainAfter
<1>2. e \in Entries /\ fd \in Fds /\ e # 0
  BY <1>a, <1>b, <1>1, ConnAssumption DEF AlwaysInv, TakeInv, Entries
<1>3. NobodyFrees /\ e = fdchainfree /\ sock[fd] # 0 /\ reg[fd] = 0
  BY <1>a, <1>b, <1>1 DEF CalmInv, OneAtATime
<1>4. /\ entryFd'[e] = fd /\ entryPool'[e] /\ reg'[fd] = e
      /\ \A x \in Entries : x # e => /\ entryFd'[x] = entryFd[x]
                                     /\ entrySess'[x] = entrySess[x]
                                     /\ entryPool'[x] = entryPool[x]
      /\ \A f \in Fds : f # fd => reg'[f] = reg[f]
  BY <1>1, <1>2, <1>3 DEF AlwaysInv, ConnTypeOK
<1>5. PICK c : IsChain(c, fdchainfree, fnext) /\ OneUse(c)
  BY DEF CalmInv, ChainInv
<1>6. /\ IsChain(Tail(c), fdchainfree', fnext') /\ Among(c, e)
      /\ \A x : Among(Tail(c), x) <=> Among(c, x) /\ x # e
  BY <1>1, <1>2, <1>3, <1>5, ChainTail
<1>7. ~InUse(e) /\ ~Pushed(e)
  BY <1>2, <1>5, <1>6 DEF OneUse
<1>8. InUse(e)'
  BY <1>1, <1>2, <1>3, <1>4 DEF InUse
<1>9. ASSUME NEW x \in Entries, x # e
      PROVE  /\ InUse(x)' <=> InUse(x)
             /\ InUse(x) => ClientOf(x)' = ClientOf(x)
  <2>1. x # 0 /\ entryFd'[x] = entryFd[x] /\ sock' = sock
    BY <1>1, <1>4, <1>9, ConnAssumption DEF Entries
  <2>2. CASE entryFd[x] = fd
    BY <1>3, <1>4, <1>9, <2>1, <2>2 DEF InUse
  <2>3. CASE entryFd[x] # fd
    <3>1. InUse(x)' <=> InUse(x)
      BY <1>4, <2>1, <2>3 DEF InUse
    <3>2. ASSUME InUse(x) PROVE ClientOf(x)' = ClientOf(x)
      BY <1>1, <2>1, <3>2, ClientKept
    <3> QED
      BY <3>1, <3>2
  <2> QED
    BY <2>2, <2>3
<1>10. ASSUME NEW x \in Entries, InUse(x)
       PROVE  InUse(x)' /\ ClientOf(x)' = ClientOf(x) /\ entrySess'[x] = entrySess[x]
  BY <1>4, <1>7, <1>9, <1>10
<1>11. \A x : Pushed(x)' <=> Pushed(x)
  BY <1>1 DEF Pushed, workVars
<1>12. ChainInv'
  <2>1. OneUse(Tail(c))'
    <3>1. \A x \in Entries :
            \/ Among(Tail(c), x) /\ ~InUse(x)' /\ ~Pushed(x)'
            \/ ~Among(Tail(c), x) /\ InUse(x)' /\ ~Pushed(x)'
            \/ ~Among(Tail(c), x) /\ ~InUse(x)' /\ Pushed(x)'
      <4> SUFFICES ASSUME NEW x \in Entries
                   PROVE  \/ Among(Tail(c), x) /\ ~InUse(x)' /\ ~Pushed(x)'
                          \/ ~Among(Tail(c), x) /\ InUse(x)' /\ ~Pushed(x)'
                          \/ ~Among(Tail(c), x) /\ ~InUse(x)' /\ Pushed(x)'
        OBVIOUS
      <4>1. CASE x = e
        BY <1>6, <1>7, <1>8, <1>11, <4>1
      <4>2. CASE x # e
        BY <1>5, <1>6, <1>9, <1>11, <4>2 DEF OneUse
      <4> QED
        BY <4>1, <4>2
    <3>2. \A w \in Workers : workPc'[w] # "destroy"
      BY <1>1, <1>3 DEF NobodyFrees, workVars
    <3> QED
      BY <3>1, <3>2 DEF OneUse
  <2> QED
    BY <1>6, <2>1 DEF ChainInv
<1>13. RegInv'
  <2>1. ASSUME NEW f \in Fds, reg'[f] # 0
        PROVE  sock'[f] # 0 /\ entryFd'[reg'[f]] = f
    <3>1. CASE f = fd
      BY <1>1, <1>3, <1>4, <3>1
    <3>2. CASE f # fd
      <4>1. reg'[f] = reg[f] /\ reg[f] \in Entries /\ sock[f] # 0 /\ entryFd[reg[f]] = f
        BY <1>4, <2>1, <3>2 DEF CalmInv, RegInv, AlwaysInv, ConnTypeOK, Entries
      <4>2. InUse(reg[f])
        BY <4>1 DEF InUse
      <4> QED
        BY <1>1, <1>4, <1>7, <4>1, <4>2
    <3> QED
      BY <3>1, <3>2
  <2>2. \A x \in Entries : InUse(x)' => entryPool'[x]
    BY <1>4, <1>9 DEF CalmInv, RegInv
  <2> QED
    BY <2>1, <2>2 DEF RegInv
<1>14. OneAtATime'
  <2>1. workPc' = workPc /\ \A w \in Workers : workPc[w] \notin {"push", "destroy"}
    BY <1>1, <1>3 DEF NobodyFrees, workVars
  <2> QED
    BY <1>1, <2>1 DEF OneAtATime
<1>15. TiedInv'
  BY <1>1, <1>10, TiedKept DEF CalmInv, workVars
<1>16. WaitingInv'
  BY <1>1, <1>10, WaitingKept DEF CalmInv
<1> QED
  BY <1>12, <1>13, <1>14, <1>15, <1>16 DEF CalmInv

\* The first frame of a connection ties its entry to the session, which knows
\* the client from then on.
LEMMA HandleRecvCalm ==
  ASSUME AlwaysInv, CalmInv, NEW w \in Workers, HandleRecv(w)
  PROVE  CalmInv'
<1>1. PICK m : m = Head(inbox[w])
  OBVIOUS
<1>2. /\ TakeMessage(w, "recv")
      /\ IF entrySess[m.entry] = NoSess
         THEN /\ bucket' = [bucket EXCEPT ![w] = @ \cup {m.ssrc}]
              /\ entrySess' = [entrySess EXCEPT ![m.entry] = w]
              /\ tcpfd' = [tcpfd EXCEPT ![w] = m.entry]
         ELSE UNCHANGED <<bucket, entrySess, tcpfd>>
      /\ UNCHANGED <<netVars, fdchainfree, fnext, entryFd, entryPool, loopPc, taking,
                     workPc, freeing>>
  BY <1>1 DEF HandleRecv
<1>3. m \in Messages /\ m = inbox[w][1] /\ 1 \in 1 .. Len(inbox[w]) /\ m.kind = "recv"
  <2>1. TakeMessage(w, "recv")
    BY <1>2
  <2>2. Head(inbox[w]) = inbox[w][1] /\ m \in Messages /\ Len(inbox[w]) \in Nat \ {0}
    BY <1>1, <2>1, GetMessage
  <2>3. m.kind = "recv"
    BY <1>1, <2>1 DEF TakeMessage
  <2> QED
    BY <1>1, <2>2, <2>3
<1>4. Fits(m)
  BY <1>3 DEF CalmInv, WaitingInv
<1>5. m.entry \in Entries /\ InUse(m.entry) /\ ClientOf(m.entry) = m.ssrc
  BY <1>3, <1>4 DEF Fits
<1>6. ChainInv' /\ RegInv' /\ OneAtATime' /\ \A x : InUse(x)' <=> InUse(x)
  BY <1>2, UseKept DEF CalmInv, netVars
<1>7. ASSUME NEW x \in Entries, InUse(x)
      PROVE  InUse(x)' /\ ClientOf(x)' = ClientOf(x)
  BY <1>2, <1>6, <1>7, ClientKept DEF netVars
<1>8. TiedInv'
  <2>1. CASE entrySess[m.entry] = NoSess
    <3>1. bucket' = [bucket EXCEPT ![w] = @ \cup {m.ssrc}]
      BY <1>2, <2>1
    <3>2. entrySess' = [entrySess EXCEPT ![m.entry] = w]
      BY <1>2, <2>1
    <3>3. tcpfd' = [tcpfd EXCEPT ![w] = m.entry]
      BY <1>2, <2>1
    <3>4. /\ tcpfd'[w] = m.entry /\ entrySess'[m.entry] = w /\ m.ssrc \in bucket'[w]
          /\ \A v \in Workers : v # w => tcpfd'[v] = tcpfd[v] /\ bucket'[v] = bucket[v]
          /\ \A x \in Entries : x # m.entry => entrySess'[x] = entrySess[x]
      BY <1>5, <3>1, <3>2, <3>3 DEF AlwaysInv, ConnTypeOK
    <3>5. ASSUME NEW v \in Workers, tcpfd'[v] # 0
          PROVE  (InUse(tcpfd[v]) /\ entrySess[tcpfd[v]] = v /\ ClientOf(tcpfd[v]) \in bucket[v])'
      <4>1. PICK x : x = tcpfd'[v]
        OBVIOUS
      <4>2. InUse(x)' /\ entrySess'[x] = v /\ ClientOf(x)' \in bucket'[v]
        <5>1. CASE v = w
          BY <1>5, <1>7, <3>4, <4>1, <5>1
        <5>2. CASE v # w
          <6>1. x = tcpfd[v] /\ x \in Entries
            BY <3>4, <3>5, <4>1, <5>2 DEF AlwaysInv, ConnTypeOK, Entries
          <6>2. InUse(x) /\ entrySess[x] = v /\ ClientOf(x) \in bucket[v]
            BY <3>4, <3>5, <5>2, <6>1 DEF CalmInv, TiedInv
          <6>3. v # NoSess
            BY ConnAssumption DEF Workers, NoSess
          <6>4. x # m.entry
            BY <2>1, <6>2, <6>3
          <6> QED
            BY <1>7, <3>4, <5>2, <6>1, <6>2, <6>4
        <5> QED
          BY <5>1, <5>2
      <4> QED
        BY <4>1, <4>2 DEF InUse, ClientOf
    <3> QED
      BY <3>5 DEF TiedInv
  <2>2. CASE entrySess[m.entry] # NoSess
    <3>1. UNCHANGED <<bucket, entrySess, tcpfd>>
      BY <1>2, <2>2
    <3> QED
      BY <1>7, <3>1, TiedKept DEF CalmInv
  <2> QED
    BY <2>1, <2>2
<1>9. WaitingInv'
  <2>1. \A v \in Workers : \A i \in 1 .. Len(inbox'[v]) :
          \E j \in 1 .. Len(inbox[v]) : inbox'[v][i] = inbox[v][j]
    BY <1>2, StillWaiting
  <2> QED
    BY <1>7, <2>1, WaitingKept DEF CalmInv
<1> QED
  BY <1>6, <1>8, <1>9 DEF CalmInv

\* A send fails while the session's entry is in nobody else's hands: the entry
\* is linked to the head of the chain, and nobody uses it any more.
LEMMA SendFailsCalm ==
  ASSUME AlwaysInv, CalmInv, NEW w \in Workers, SendFails(w), calm'
  PROVE  CalmInv'
<1>1. PICK e : e = tcpfd[w]
  OBVIOUS
<1>2. PICK fd : fd = entryFd[e]
  OBVIOUS
<1>3. /\ TakeMessage(w, "send") /\ e # 0 /\ AtPeace(e)
      /\ sock' = [sock EXCEPT ![fd] = 0] /\ reg' = [reg EXCEPT ![fd] = 0]
      /\ UNCHANGED <<peer, backlog, hungUp, fdchainfree, entryFd, entryPool, loopPc,
                     taking, bucket>>
  BY <1>1, <1>2 DEF SendFails
<1>4. /\ e \in Entries /\ InUse(e) /\ entrySess[e] = w /\ entrySess[e] # NoSess
      /\ fd \in Fds /\ reg[fd] = e
  <2>1. e \in Entries
    BY <1>1, <1>3 DEF AlwaysInv, ConnTypeOK, Entries
  <2>2. InUse(e) /\ entrySess[e] = w
    BY <1>1, <1>3 DEF CalmInv, TiedInv
  <2> QED
    BY <1>2, <2>1, <2>2, ConnAssumption DEF InUse, NoSess, Workers
<1>5. /\ tcpfd' = [tcpfd EXCEPT ![w] = 0]
      /\ entrySess' = [entrySess EXCEPT ![e] = NoSess]
      /\ fnext' = [fnext EXCEPT ![e] = fdchainfree]
      /\ freeing' = [freeing EXCEPT ![w] = e]
      /\ workPc' = [workPc EXCEPT ![w] = "push"]
  BY <1>1, <1>4 DEF SendFails, Untie
<1>6. /\ sock'[fd] = 0 /\ reg'[fd] = 0 /\ tcpfd'[w] = 0 /\ fnext'[e] = fdchainfree
      /\ freeing'[w] = e /\ workPc'[w] = "push"
      /\ \A f \in Fds : f # fd => sock'[f] = sock[f] /\ reg'[f] = reg[f]
      /\ \A x \in Entries : x # e => entrySess'[x] = entrySess[x] /\ fnext'[x] = fnext[x]
      /\ \A v \in Workers : v # w => /\ tcpfd'[v] = tcpfd[v] /\ freeing'[v] = freeing[v]
                                     /\ workPc'[v] = workPc[v]
  BY <1>3, <1>4, <1>5 DEF AlwaysInv, ConnTypeOK
<1>7. /\ loopPc # "take" /\ \A v \in Workers : workPc[v] \notin {"push", "destroy"}
      /\ \A v \in Workers : \A i \in 1 .. Len(inbox'[v]) : inbox'[v][i].entry # e
  <2>1. loopPc # "take" /\ NobodyFrees
        /\ \A v \in Workers : \A i \in DOMAIN inbox'[v] : inbox'[v][i].entry # e
    BY <1>3 DEF AtPeace
  <2>2. inbox' \in [Workers -> Seq(Messages)]
    BY <1>3, GetMessage
  <2>3. \A v \in Workers : DOMAIN inbox'[v] = 1 .. Len(inbox'[v])
    BY <2>2, LenProperties
  <2> QED
    BY <2>1, <2>3 DEF NobodyFrees
<1>8. ~InUse(e)'
  BY <1>2, <1>3, <1>6 DEF InUse
<1>9. ASSUME NEW x \in Entries, x # e
      PROVE  /\ InUse(x)' <=> InUse(x)
             /\ InUse(x) => ClientOf(x)' = ClientOf(x)
  <2>1. x # 0 /\ entryFd' = entryFd
    BY <1>3, ConnAssumption DEF Entries
  <2>2. CASE entryFd[x] = fd
    BY <1>4, <1>6, <1>9, <2>1, <2>2 DEF InUse
  <2>3. CASE entryFd[x] # fd
    <3>1. InUse(x)' <=> InUse(x)
      BY <1>6, <2>1, <2>3 DEF InUse
    <3>2. ASSUME InUse(x) PROVE ClientOf(x)' = ClientOf(x)
      <4>1. entryFd[x] \in Fds
        BY <3>2 DEF InUse
      <4>2. sock'[entryFd[x]] = sock[entryFd[x]] /\ peer' = peer
        BY <1>3, <1>6, <2>3, <4>1
      <4> QED
        BY <2>1, <3>2, <4>2, ClientKept
    <3> QED
      BY <3>1, <3>2
  <2> QED
    BY <2>2, <2>3
<1>10. /\ Pushed(e)' /\ \A x : x # e => ~Pushed(x)'
       /\ \A x : ~Pushed(x)
  BY <1>6, <1>7 DEF Pushed
<1>11. PICK c : IsChain(c, fdchainfree, fnext) /\ OneUse(c)
  BY DEF CalmInv, ChainInv
<1>12. ~Among(c, e)
  BY <1>4, <1>11 DEF OneUse
<1>13. IsChain(c, fdchainfree', fnext')
  <2>1. \A i \in 1 .. Len(c) : c[i] \in Entries /\ c[i] # e
    BY <1>11, <1>12, ElementOfSeq DEF IsChain, Among
  <2> QED
    BY <1>3, <1>6, <1>11, <2>1 DEF IsChain
<1>14. OneUse(c)'
  <2>1. ASSUME NEW x \in Entries
        PROVE  \/ Among(c, x) /\ ~InUse(x)' /\ ~Pushed(x)'
               \/ ~Among(c, x) /\ InUse(x)' /\ ~Pushed(x)'
               \/ ~Among(c, x) /\ ~InUse(x)' /\ Pushed(x)'
    <3>1. CASE x = e
      BY <1>8, <1>10, <1>12, <3>1
    <3>2. CASE x # e
      BY <1>9, <1>10, <1>11, <3>2 DEF OneUse
    <3> QED
      BY <3>1, <3>2
  <2>2. \A v \in Workers : workPc'[v] # "destroy"
    BY <1>6, <1>7
  <2> QED
    BY <2>1, <2>2 DEF OneUse
<1>15. RegInv'
  <2>1. ASSUME NEW f \in Fds, reg'[f] # 0
        PROVE  sock'[f] # 0 /\ entryFd'[reg'[f]] = f
    <3>1. f # fd
      BY <1>6, <2>1
    <3> QED
      BY <1>3, <1>6, <2>1, <3>1 DEF CalmInv, RegInv
  <2>2. \A x \in Entries : InUse(x)' => entryPool'[x]
    BY <1>3, <1>8, <1>9 DEF CalmInv, RegInv
  <2> QED
    BY <2>1, <2>2 DEF RegInv
<1>16. OneAtATime'
  <2>1. \A v \in Workers : workPc'[v] \in {"push", "destroy"} => v = w
    BY <1>6, <1>7
  <2>2. freeing'[w] = e /\ e \in Entries /\ fnext'[e] = fdchainfree' /\ loopPc' # "take"
    BY <1>3, <1>4, <1>6, <1>7
  <2>3. /\ \A u, v \in Workers : workPc'[u] \in {"push", "destroy"}
                                 /\ workPc'[v] \in {"push", "destroy"} => u = v
        /\ \A v \in Workers : workPc'[v] \in {"push", "destroy"} => freeing'[v] \in Entries
        /\ \A v \in Workers : workPc'[v] = "push" => fnext'[freeing'[v]] = fdchainfree'
    BY <2>1, <2>2
  <2> QED
    BY <2>2, <2>3 DEF OneAtATime
<1>17. TiedInv'
  <2>1. ASSUME NEW v \in Workers, tcpfd'[v] # 0
        PROVE  (InUse(tcpfd[v]) /\ entrySess[tcpfd[v]] = v /\ ClientOf(tcpfd[v]) \in bucket[v])'
    <3>1. PICK x : x = tcpfd'[v]
      OBVIOUS
    <3>2. v # w /\ x = tcpfd[v]
      BY <1>6, <2>1, <3>1
    <3>3. x \in Entries /\ InUse(x) /\ entrySess[x] = v /\ ClientOf(x) \in bucket[v]
      BY <2>1, <3>1, <3>2 DEF CalmInv, TiedInv, AlwaysInv, ConnTypeOK, Entries
    <3>4. x # e
      BY <1>4, <3>2, <3>3
    <3>5. InUse(x)' /\ entrySess'[x] = v /\ ClientOf(x)' \in bucket'[v]
      BY <1>3, <1>6, <1>9, <3>3, <3>4
    <3> QED
      BY <3>1, <3>5 DEF InUse, ClientOf
  <2> QED
    BY <2>1 DEF TiedInv
<1>18. WaitingInv'
  <2>1. \A v \in Workers : \A i \in 1 .. Len(inbox'[v]) :
          \E j \in 1 .. Len(inbox[v]) : inbox'[v][i] = inbox[v][j]
    BY <1>3, StillWaiting
  <2>2. ASSUME NEW x \in Entries, InUse(x)
        PROVE  \/ InUse(x)' /\ ClientOf(x)' = ClientOf(x)
               \/ \A v \in Workers : \A i \in 1 .. Len(inbox'[v]) : inbox'[v][i].entry # x
    BY <1>7, <1>9, <2>2
  <2> QED
    BY <2>1, <2>2, WaitingKept DEF CalmInv
<1>19. ChainInv'
  BY <1>13, <1>14 DEF ChainInv
<1> QED
  BY <1>15, <1>16, <1>17, <1>18, <1>19 DEF CalmInv

\* The entry that was linked to the head becomes the head.
LEMMA PushEntryCalm ==
  ASSUME AlwaysInv, CalmInv, NEW w \in Workers, PushEntry(w)
  PROVE  CalmInv'
<1>1. PICK e : e = freeing[w]
  OBVIOUS
<1>2. /\ workPc[w] = "push" /\ fdchainfree' = e
      /\ workPc' = [workPc EXCEPT ![w] = "destroy"]
      /\ UNCHANGED <<netVars, fnext, entryFd, entrySess, entryPool, loopPc, taking,
                     freeing, inbox, bucket, tcpfd>>
  BY <1>1 DEF PushEntry
<1>3. workPc'[w] = "destroy" /\ \A v \in Workers : v # w => workPc'[v] = workPc[v]
  BY <1>2 DEF AlwaysInv, ConnTypeOK
<1>4. /\ e \in Entries /\ fnext[e] = fdchainfree /\ loopPc # "take" /\ Pushed(e)
      /\ \A v \in Workers : v # w => workPc[v] \notin {"push", "destroy"}
  BY <1>1, <1>2 DEF CalmInv, OneAtATime, NobodyFrees, Pushed
<1>5. PICK c : IsChain(c, fdchainfree, fnext) /\ OneUse(c)
  BY DEF CalmInv, ChainInv
<1>6. ~Among(c, e) /\ ~InUse(e)
  BY <1>4, <1>5 DEF OneUse
<1>7. PICK d : IsChain(d, e, fnext) /\ \A x : Among(d, x) <=> Among(c, x) \/ x = e
  BY <1>4, <1>5, <1>6, ChainPush
<1>8. \A x : InUse(x)' <=> InUse(x)
  BY <1>2 DEF InUse, netVars
<1>9. (\A x : ~Pushed(x)') /\ \A x : x # e => ~Pushed(x)
  BY <1>1, <1>3, <1>4 DEF Pushed
<1>10. ChainInv'
  <2>1. IsChain(d, fdchainfree', fnext')
    BY <1>2, <1>7
  <2>2. ASSUME NEW x \in Entries
        PROVE  \/ Among(d, x) /\ ~InUse(x)'
               \/ ~Among(d, x) /\ InUse(x)'
    <3>1. CASE x = e
      BY <1>6, <1>7, <1>8, <3>1
    <3>2. CASE x # e
      BY <1>5, <1>7, <1>8, <1>9, <3>2 DEF OneUse
    <3> QED
      BY <3>1, <3>2
  <2>3. \A v \in Workers : workPc'[v] = "destroy" => Among(d, freeing'[v])
    BY <1>1, <1>2, <1>3, <1>4, <1>7
  <2>4. OneUse(d)'
    BY <1>9, <2>2, <2>3 DEF OneUse
  <2> QED
    BY <2>1, <2>4 DEF ChainInv
<1>11. RegInv'
  BY <1>2, <1>8 DEF CalmInv, RegInv, netVars
<1>12. OneAtATime'
  <2>1. \A v \in Workers : workPc'[v] \in {"push", "destroy"} => v = w
    BY <1>3, <1>4
  <2>2. freeing'[w] \in Entries /\ workPc'[w] # "push" /\ loopPc' # "take"
    BY <1>1, <1>2, <1>3, <1>4
  <2>3. /\ \A u, v \in Workers : workPc'[u] \in {"push", "destroy"}
                                 /\ workPc'[v] \in {"push", "destroy"} => u = v
        /\ \A v \in Workers : workPc'[v] \in {"push", "destroy"} => freeing'[v] \in Entries
        /\ \A v \in Workers : workPc'[v] # "push"
    BY <2>1, <2>2
  <2> QED
    BY <2>2, <2>3 DEF OneAtATime
<1>13. ASSUME NEW x \in Entries, InUse(x)
       PROVE  InUse(x)' /\ ClientOf(x)' = ClientOf(x) /\ entrySess'[x] = entrySess[x]
  BY <1>2, <1>8, <1>13, ClientKept DEF netVars
<1>14. TiedInv'
  BY <1>2, <1>13, TiedKept DEF CalmInv
<1>15. WaitingInv'
  BY <1>2, <1>13, WaitingKept DEF CalmInv
<1> QED
  BY <1>10, <1>11, <1>12, <1>14, <1>15 DEF CalmInv

\* The pool that is destroyed is that of an entry in the chain.
LEMMA DestroyPoolCalm ==
  ASSUME AlwaysInv, CalmInv, NEW w \in Workers, DestroyPool(w)
  PROVE  CalmInv'
<1>1. PICK e : e = freeing[w]
  OBVIOUS
<1>2. /\ workPc[w] = "destroy" /\ entryPool' = [entryPool EXCEPT ![e] = FALSE]
      /\ freeing' = [freeing EXCEPT ![w] = 0]
      /\ workPc' = [workPc EXCEPT ![w] = "run"]
      /\ UNCHANGED <<netVars, fdchainfree, fnext, entryFd, entrySess, loopPc, taking,
                     inbox, bucket, tcpfd>>
  BY <1>1 DEF DestroyPool
<1>3. /\ workPc'[w] = "run"
      /\ \A v \in Workers : v # w => workPc'[v] = workPc[v] /\ freeing'[v] = freeing[v]
      /\ \A x \in Entries : x # e => entryPool'[x] = entryPool[x]
  BY <1>2 DEF AlwaysInv, ConnTypeOK
<1>4. \A v \in Workers : v # w => workPc[v] \notin {"push", "destroy"}
  BY <1>2 DEF CalmInv, OneAtATime
<1>5. loopPc # "take" /\ \A v \in Workers : workPc'[v] \notin {"push", "destroy"}
  BY <1>2, <1>3, <1>4 DEF CalmInv, OneAtATime, NobodyFrees
<1>6. PICK c : IsChain(c, fdchainfree, fnext) /\ OneUse(c)
  BY DEF CalmInv, ChainInv
<1>7. e \in Entries /\ ~InUse(e)
  BY <1>1, <1>2, <1>6 DEF OneUse, CalmInv, OneAtATime
<1>8. \A x : InUse(x)' <=> InUse(x)
  BY <1>2 DEF InUse, netVars
<1>9. \A x : ~Pushed(x)' /\ ~Pushed(x)
  BY <1>2, <1>4, <1>5 DEF Pushed
<1>10. ChainInv'
  <2>1. IsChain(c, fdchainfree', fnext')
    BY <1>2, <1>6
  <2>2. OneUse(c)'
    BY <1>5, <1>6, <1>8, <1>9 DEF OneUse
  <2> QED
    BY <2>1, <2>2 DEF ChainInv
<1>11. RegInv'
  <2>1. \A x \in Entries : InUse(x)' => entryPool'[x]
    BY <1>3, <1>7, <1>8 DEF CalmInv, RegInv
  <2> QED
    BY <1>2, <2>1 DEF CalmInv, RegInv, netVars
<1>12. OneAtATime'
  BY <1>2, <1>5 DEF OneAtATime
<1>13. ASSUME NEW x \in Entries, InUse(x)
       PROVE  InUse(x)' /\ ClientOf(x)' = ClientOf(x) /\ entrySess'[x] = entrySess[x]
  BY <1>2, <1>8, <1>13, ClientKept DEF netVars
<1>14. TiedInv'
  BY <1>2, <1>13, TiedKept DEF CalmInv
<1>15. WaitingInv'
  BY <1>2, <1>13, WaitingKept DEF CalmInv
<1> QED
  BY <1>10, <1>11, <1>12, <1>14, <1>15 DEF CalmInv

\* At first all entries are in the chain, in their order.
LEMMA InitCalm == ConnInit => CalmInv
<1> SUFFICES ASSUME ConnInit PROVE CalmInv
  OBVIOUS
<1> DEFINE c == [i \in 1 .. ENums |-> i]
<1>1. ENums \in Nat
  BY ConnAssumption
<1>2. c \in Seq(Entries) /\ Len(c) = ENums /\ (c = <<>> <=> ENums = 0)
      /\ \A i \in 1 .. ENums : c[i] = i
  <2>1. c \in [1 .. ENums -> Entries]
    BY DEF Entries
  <2>2. c \in Seq(Entries)
    BY <1>1, <2>1, IsASeq
  <2>3. DOMAIN c = 1 .. ENums
    OBVIOUS
  <2>4. Len(c) = ENums
    BY <1>1, <2>2, <2>3, LenProperties
  <2>5. c = <<>> <=> Len(c) = 0
    BY <2>2, EmptySeq
  <2> QED
    BY <2>2, <2>4, <2>5
<1> HIDE DEF c
<1>3. IsChain(c, fdchainfree, fnext)
  <2>1. fdchainfree = IF c = <<>> THEN 0 ELSE c[1]
    <3>1. ENums # 0 => c[1] = 1
      BY <1>1, <1>2
    <3> QED
      BY <1>2, <3>1 DEF ConnInit
  <2>2. ASSUME NEW i \in 1 .. ENums
        PROVE  fnext[c[i]] = IF i = ENums THEN 0 ELSE c[i + 1]
    <3>1. i # ENums => i + 1 \in 1 .. ENums
      BY <1>1
    <3>2. fnext[i] = IF i = ENums THEN 0 ELSE i + 1
      BY DEF ConnInit, Entries
    <3> QED
      BY <1>2, <3>1, <3>2
  <2> QED
    BY <1>2, <2>1, <2>2 DEF IsChain
<1>4. \A e \in Entries : Among(c, e) /\ ~InUse(e) /\ ~Pushed(e)
  BY <1>2, ConnAssumption DEF Among, InUse, Pushed, ConnInit, Entries, Fds
<1>5. ChainInv
  <2>1. OneUse(c)
    BY <1>4 DEF OneUse, ConnInit
  <2> QED
    BY <1>3, <2>1 DEF ChainInv
<1>6. RegInv
  BY <1>4 DEF RegInv, ConnInit
<1>7. OneAtATime
  BY DEF OneAtATime, ConnInit, NobodyFrees
<1>8. TiedInv
  BY DEF TiedInv, ConnInit
<1>9. WaitingInv
  <2>1. \A w \in Workers : Len(inbox[w]) = 0
    BY EmptySeq DEF ConnInit
  <2> QED
    BY <2>1 DEF WaitingInv
<1> QED
  BY <1>5, <1>6, <1>7, <1>8, <1>9 DEF CalmInv

\* Entries that nobody uses while they are given back stay so only if they
\* were so before.
LEMMA CalmBefore ==
  ASSUME AlwaysInv, [ConnNext]_connVars, calm'
  PROVE  calm
BY DEF ConnNext, connVars, Connect, Reply, HangUp, Accept, TakeEntry, Receive, HandleRecv,
       HandleSend, SendNoEntry, SendFails, PushEntry, DestroyPool

LEMMA NextCalm ==
  ASSUME AlwaysInv, CalmInv, [ConnNext]_connVars, calm'
  PROVE  CalmInv'
<1>1. ASSUME NEW c \in Clients, Connect(c) PROVE CalmInv'
  BY <1>1, ConnectCalm
<1>2. ASSUME NEW c \in Clients, Reply(c) PROVE CalmInv'
  BY <1>2, ReplyCalm
<1>3. ASSUME NEW conn \in DOMAIN peer, HangUp(conn) PROVE CalmInv'
  BY <1>3, HangUpCalm
<1>4. CASE Accept
  BY <1>4, AcceptCalm
<1>5. CASE TakeEntry
  BY <1>5, TakeEntryCalm
<1>6. ASSUME NEW fd \in Fds, Receive(fd) PROVE CalmInv'
  BY <1>6, ReceiveCalm
<1>7. ASSUME NEW w \in Workers, HandleRecv(w) PROVE CalmInv'
  BY <1>7, HandleRecvCalm
<1>8. ASSUME NEW w \in Workers, HandleSend(w) PROVE CalmInv'
  BY <1>8, HandleSendCalm
<1>9. ASSUME NEW w \in Workers, SendNoEntry(w) PROVE CalmInv'
  BY <1>9, SendNoEntryCalm
<1>10. ASSUME NEW w \in Workers, SendFails(w) PROVE CalmInv'
  BY <1>10, SendFailsCalm
<1>11. ASSUME NEW w \in Workers, PushEntry(w) PROVE CalmInv'
  BY <1>11, PushEntryCalm
<1>12. ASSUME NEW w \in Workers, DestroyPool(w) PROVE CalmInv'
  BY <1>12, DestroyPoolCalm
<1>13. CASE UNCHANGED connVars
  <2>1. inbox' = inbox /\ workPc' = workPc /\ peer' = peer
    BY <1>13 DEF connVars
  <2> QED
    BY <1>13, <2>1, QuietStep DEF connVars, tableVars
<1> QED
  BY <1>1, <1>2, <1>3, <1>4, <1>5, <1>6, <1>7, <1>8, <1>9, <1>10, <1>11, <1>12, <1>13
     DEF ConnNext

\* The inductive invariant.
LEMMA ConnInvariant == ConnSpec => []ConnInv
<1>1. ConnInit => ConnInv
  BY InitAlways, InitCalm DEF ConnInv, AlwaysInv
<1>2. ASSUME ConnInv, [ConnNext]_connVars PROVE ConnInv'
  <2>1. AlwaysInv'
    BY <1>2, NextAlways DEF ConnInv, AlwaysInv
  <2>2. ASSUME calm' PROVE CalmInv'
    <3>1. AlwaysInv /\ calm
      BY <1>2, <2>2, CalmBefore DEF ConnInv, AlwaysInv
    <3> QED
      BY <1>2, <2>2, <3>1, NextCalm DEF ConnInv
  <2> QED
    BY <2>1, <2>2 DEF ConnInv, AlwaysInv
<1> QED
  BY <1>1, <1>2, PTL DEF ConnSpec

-----------------------------------------------------------------------------
(* What a reader should know                                               *)

\* The entries of a chain are not more than all entries.
LEMMA ChainLength ==
  ASSUME NEW c, IsChain(c, fdchainfree, fnext)
  PROVE  c \in SeqOf(Entries, ENums)
<1> DEFINE n == Len(c)
<1>1. /\ c \in Seq(Entries) /\ n \in Nat /\ c \in [1 .. n -> Entries]
      /\ \A i, j \in 1 .. n : c[i] = c[j] => i = j
  BY LenProperties DEF IsChain
<1>2. c \in Injection(1 .. n, Entries)
  BY <1>1 DEF Injection, IsInjective
<1>3. /\ IsFiniteSet(Entries) /\ Cardinality(Entries) = ENums
      /\ Cardinality(1 .. n) = n
  BY <1>1, ConnAssumption, IntervalSize DEF Entries
<1>4. Cardinality(1 .. n) <= Cardinality(Entries)
  BY <1>2, <1>3, FS_Injection
<1>5. n \in 0 .. ENums
  BY <1>1, <1>3, <1>4, ConnAssumption
<1> QED
  BY <1>1, <1>5 DEF SeqOf

\* A free entry is in the chain once and serves no socket, and any other has
\* its pool and serves exactly one open socket, after any number of
\* connections that came and failed (GetFreeFdEv and SetFreeFdEv), if nobody
\* used an entry while it was given back.
THEOREM EntriesStayApart == ConnSpec => []EntriesApart
<1>1. ASSUME ConnInv PROVE EntriesApart
  <2> SUFFICES ASSUME calm, loopPc = "wait", NobodyFrees
               PROVE  \E c \in SeqOf(Entries, ENums) :
                        /\ IsFreeChain(c)
                        /\ \A e \in Entries :
                             \/ Contains(c, e) /\ Served(e) = {}
                             \/ ~Contains(c, e) /\ entryPool[e] /\ \E fd \in Fds : Served(e) = {fd}
    BY DEF EntriesApart
  <2>1. PICK c : IsChain(c, fdchainfree, fnext) /\ OneUse(c)
    BY <1>1 DEF ConnInv, CalmInv, ChainInv
  <2>2. c \in SeqOf(Entries, ENums)
    BY <2>1, ChainLength
  <2>3. c \in Seq(Entries) /\ DOMAIN c = 1 .. Len(c)
    BY <2>1, LenProperties DEF IsChain
  <2>4. IsFreeChain(c)
    BY <2>1, <2>3 DEF IsChain, IsFreeChain
  <2>5. \A e : Contains(c, e) <=> Among(c, e)
    BY <2>3 DEF Contains, Among
  <2>6. \A e : ~Pushed(e)
    BY DEF Pushed, NobodyFrees
  <2>7. ASSUME NEW e \in Entries, InUse(e)
        PROVE  entryPool[e] /\ \E fd \in Fds : Served(e) = {fd}
    <3>1. entryPool[e] /\ entryFd[e] \in Fds
      BY <1>1, <2>7 DEF ConnInv, CalmInv, RegInv, InUse
    <3>2. e # 0
      BY ConnAssumption DEF Entries
    <3>3. Served(e) = {entryFd[e]}
      BY <1>1, <2>7, <3>1, <3>2 DEF ConnInv, CalmInv, RegInv, InUse, Served
    <3> QED
      BY <3>1, <3>3
  <2>8. ASSUME NEW e \in Entries, ~InUse(e)
        PROVE  Served(e) = {}
    <3>1. e # 0
      BY ConnAssumption DEF Entries
    <3> QED
      BY <1>1, <2>8, <3>1 DEF ConnInv, CalmInv, RegInv, InUse, Served
  <2>9. \A e \in Entries : \/ Among(c, e) /\ ~InUse(e)
                           \/ ~Among(c, e) /\ InUse(e)
    BY <2>1, <2>6 DEF OneUse
  <2> QED
    BY <2>2, <2>4, <2>5, <2>7, <2>8, <2>9
<1> QED
  BY <1>1, ConnInvariant, PTL

\* The entry of a session that serves one client is the session's, and has an
\* open connection of this client (THPOOLRecv ties them, SendDatapre unties
\* them), if nobody used an entry while it was given back.
THEOREM OwnConnection == ConnSpec => []OwnClient
<1>1. ASSUME ConnInv PROVE OwnClient
  BY <1>1 DEF ConnInv, CalmInv, TiedInv, OwnClient, InUse, ClientOf
<1> QED
  BY <1>1, ConnInvariant, PTL
=============================================================================
