----------------------------- MODULE RoomFrames -----------------------------
(***************************************************************************)
(* Rooms and the frames they send (app/room.cpp, with the consumers of     *)
(* app/ that feed it).  A room belongs to the worker of its id, a session  *)
(* to the worker of its ssrc; they meet only by messages, over channels    *)
(* that keep what ChannelFifo promises.                                    *)
(*                                                                         *)
(* A session asks to enter a room; its audio goes to the room as messages; *)
(* the room mixes it and, for every user it has listed, fills a frame of   *)
(* its own and hands it to the worker of the user, which sends it in one   *)
(* packet and keeps it in the cache of the user's send stream.  When the   *)
(* slot is overwritten the frame goes back to the room as a message, and   *)
(* the room uses it again.                                                 *)
(*                                                                         *)
(* When a room plays (its time stamps) is left open here: a piece of audio *)
(* makes it play any number of slots up to MaxPlay.                        *)
(***************************************************************************)
EXTENDS Integers, Sequences, FiniteSets

CONSTANTS Workers, Rooms, Sess,
          OwnerR,          \* GetWorker(room->id)
          OwnerS,          \* GetWorker(sess->ssrc)
          NoRoom,          \* the null pointer, and the id of no room
          sess_cache_LEN,
          MaxPlay,         \* bound: slots played for one piece of audio
          MaxInputs        \* bound: requests to enter and pieces of audio

ASSUME RoomAssumption ==
  /\ OwnerR \in [Rooms -> Workers] /\ OwnerS \in [Sess -> Workers]
  /\ NoRoom \notin Rooms
  /\ sess_cache_LEN \in Nat \ {0} /\ MaxPlay \in Nat /\ MaxInputs \in Nat

VARIABLES
  chan,       \* the messages in each worker's channel
  playing,    \* per worker, where it is in OutConsumeQueue, if it is
  roomid,     \* sess->roomid, set by the session's worker
  rroom,      \* sess->rroom, set by the room's worker
  userList,   \* the users of a room
  informed,   \* the sessions whose flag "got the whole room" is set
  vptsmsg,    \* sess->lastvptsmsg
  free,       \* framefreea of a room: a stack of frames
  made,       \* the number of frames a room has allocated
  used,       \* frameusea of a room
  content,    \* what is in a frame: [sess, no]
  mixed,      \* history: the frames mixed by a room for a session
  sndseq,     \* the number of packets sent to a session
  cache,      \* its send cache: [frame, no], no = 0 for an empty slot
  wire,       \* history: the number of the last frame of a room sent to it
  inputs,     \* history: requests and pieces of audio so far
  crashed     \* the sessions for which a null room was used: the end

roomVars == <<userList, informed, free, made, used>>
sessVars == <<sndseq, cache, wire>>
vars == <<chan, playing, roomid, rroom, vptsmsg, content, mixed, inputs,
          crashed, roomVars, sessVars>>

Slots   == 0 .. sess_cache_LEN - 1
NoFrame == [room |-> NoRoom, n |-> 0]
Frames  == UNION {[room : {r}, n : 1 .. made[r]] : r \in Rooms}

NotPlaying == [room |-> NoRoom, left |-> 0, todo |-> {}]

Init ==
  /\ chan = [w \in Workers |-> <<>>]
  /\ playing = [w \in Workers |-> NotPlaying]
  /\ roomid = [s \in Sess |-> NoRoom] /\ rroom = [s \in Sess |-> NoRoom]
  /\ userList = [r \in Rooms |-> {}] /\ informed = {} /\ vptsmsg = {}
  /\ free = [r \in Rooms |-> <<>>]
  /\ made = [r \in Rooms |-> 0] /\ used = [r \in Rooms |-> 0]
  /\ content = <<>>
  /\ mixed = [r \in Rooms |-> [s \in Sess |-> 0]]
  /\ sndseq = [s \in Sess |-> 0]
  /\ cache = [s \in Sess |-> [i \in Slots |-> [frame |-> NoFrame, no |-> 0]]]
  /\ wire = [s \in Sess |-> [r \in Rooms |-> 0]]
  /\ inputs = 0 /\ crashed = {}

Idle(w) == playing[w] = NotPlaying /\ crashed = {}

\* The channels after the worker w took its next message and m went to v.
Taken(w)         == [chan EXCEPT ![w] = Tail(@)]
Posted(ch, v, m) == [ch EXCEPT ![v] = Append(@, m)]

Next1(w, type) == Idle(w) /\ chan[w] # <<>> /\ Head(chan[w]).type = type

-----------------------------------------------------------------------------
(* The worker of a session, for what its client sends.                     *)

\* CreEnterRoom, for a session that is logged in.
CreEnterRoom(s, r) == [type |-> "enter", sess |-> s, room |-> r]

\* RecvCallback0, "createenterroom".
CreEnter(s, r) ==
  /\ Idle(OwnerS[s]) /\ inputs < MaxInputs
  /\ roomid' = [roomid EXCEPT ![s] = r]
  /\ chan' = Posted(chan, OwnerR[r], CreEnterRoom(s, r))
  /\ inputs' = inputs + 1
  /\ UNCHANGED <<playing, rroom, vptsmsg, content, mixed, crashed, roomVars, sessVars>>

\* AudioConsumer::RecvCallback and PreRoomMergeData.  comp = 1 is a message
\* that travels with the audio.  Audio for a room that is not (yet, or any
\* more) the one the session asked for is dropped.
Audio(s, comp) ==
  LET r == rroom[s]
  IN /\ Idle(OwnerS[s]) /\ inputs < MaxInputs
     /\ IF r = NoRoom THEN crashed' = {s} /\ UNCHANGED chan
        ELSE /\ IF r # roomid[s] THEN UNCHANGED chan
                ELSE chan' = Posted(chan, OwnerR[r],
                               [type |-> "merge", sess |-> s, room |-> r, comp |-> comp])
             /\ UNCHANGED crashed
     /\ inputs' = inputs + 1
     /\ UNCHANGED <<playing, roomid, rroom, vptsmsg, content, mixed, roomVars, sessVars>>

-----------------------------------------------------------------------------
(* The worker of a room.                                                   *)

\* EnterRoom inserts the user under the id of the room, and a key that is
\* there keeps its value.  That it also sets cpts and spts of the session to 0
\* is RoomMix's EnterAgain: this module has no times.
EnterRoom(r, s) == IF userList[r] = {} THEN {s} ELSE userList[r]

\* HandleCreEnterRoo.  The texts that go to the users over TCP
\* are not modelled; that the flag is set for the listed ones is.
HandleEnter(w) ==
  LET m     == Head(chan[w])
      users == EnterRoom(m.room, m.sess)
  IN /\ Next1(w, "enter")
     /\ userList' = [userList EXCEPT ![m.room] = users]
     /\ rroom' = [rroom EXCEPT ![m.sess] = m.room]
     /\ informed' = informed \cup users
     /\ chan' = Taken(w)
     /\ UNCHANGED <<playing, roomid, vptsmsg, free, made, used, content, mixed,
                    inputs, crashed, sessVars>>

\* RoomMergeData, as far as its loop over the slots to play.
HandleMerge(w, plays) ==
  LET m == Head(chan[w])
  IN /\ Next1(w, "merge")
     /\ IF m.comp = 1
        THEN vptsmsg' = vptsmsg \cup {m.sess} /\ UNCHANGED playing
        ELSE /\ playing' = IF plays = 0 THEN playing
                           ELSE [playing EXCEPT ![w] =
                                   [room |-> m.room, left |-> plays,
                                    todo |-> userList[m.room]]]
             /\ UNCHANGED vptsmsg
     /\ chan' = Taken(w)
     /\ UNCHANGED <<roomid, rroom, content, mixed, inputs, crashed, roomVars, sessVars>>

\* The frame GetFreeFrame gives: the one given back last, or a new one.
FreeFrame(r) == IF free[r] # <<>> THEN Head(free[r])
                ELSE [room |-> r, n |-> made[r] + 1]

\* Mutants of Fill.  The frame stays in the list of those that are free
\* (framefreea = framefreea->next forgotten); frameusea is not counted up.
FillStays(r, s) ==
  LET f  == FreeFrame(r)
      no == mixed[r][s] + 1
  IN /\ IF free[r] # <<>> THEN UNCHANGED <<free, made>>
        ELSE made' = [made EXCEPT ![r] = @ + 1] /\ UNCHANGED free
     /\ used' = [used EXCEPT ![r] = @ + 1]
     /\ mixed' = [mixed EXCEPT ![r][s] = no]
     /\ content' = [g \in DOMAIN content \cup {f} |->
                      IF g = f THEN [sess |-> s, no |-> no] ELSE content[g]]
     /\ chan' = Posted(chan, OwnerS[s], [type |-> "send", sess |-> s, frame |-> f])

FillUncounted(r, s) ==
  LET f  == FreeFrame(r)
      no == mixed[r][s] + 1
  IN /\ IF free[r] # <<>> THEN free' = [free EXCEPT ![r] = Tail(@)] /\ UNCHANGED made
        ELSE made' = [made EXCEPT ![r] = @ + 1] /\ UNCHANGED free
     /\ UNCHANGED used
     /\ mixed' = [mixed EXCEPT ![r][s] = no]
     /\ content' = [g \in DOMAIN content \cup {f} |->
                      IF g = f THEN [sess |-> s, no |-> no] ELSE content[g]]
     /\ chan' = Posted(chan, OwnerS[s], [type |-> "send", sess |-> s, frame |-> f])

\* GetFreeFrame, WriteHeader and the body, PreSendData, for the user s.
\* WriteFree2 was set as the free handle when the frame was made.
Fill(r, s) ==
  LET f  == FreeFrame(r)
      no == mixed[r][s] + 1
  IN /\ IF free[r] # <<>> THEN free' = [free EXCEPT ![r] = Tail(@)] /\ UNCHANGED made
        ELSE made' = [made EXCEPT ![r] = @ + 1] /\ UNCHANGED free
     /\ used' = [used EXCEPT ![r] = @ + 1]
     /\ mixed' = [mixed EXCEPT ![r][s] = no]
     /\ content' = [g \in DOMAIN content \cup {f} |->
                      IF g = f THEN [sess |-> s, no |-> no] ELSE content[g]]
     /\ chan' = Posted(chan, OwnerS[s], [type |-> "send", sess |-> s, frame |-> f])

\* One user in the loop of OutConsumeQueue: first the message that travels
\* with the audio, if there is one, then the audio.
PlayFor(w, s) ==
  LET p == playing[w]
  IN /\ crashed = {} /\ s \in p.todo
     /\ Fill(p.room, s)
     /\ IF s \in vptsmsg
        THEN vptsmsg' = vptsmsg \ {s} /\ UNCHANGED playing
        ELSE /\ playing' = [playing EXCEPT ![w].todo = @ \ {s}]
             /\ UNCHANGED vptsmsg
     /\ UNCHANGED <<roomid, rroom, userList, informed, inputs, crashed, sessVars>>

\* OutConsumeQueue returns: the next slot, or the end of RoomMergeData.
Played(w) ==
  LET p == playing[w]
  IN /\ crashed = {} /\ p # NotPlaying /\ p.todo = {}
     /\ playing' = [playing EXCEPT ![w] =
                      IF p.left = 1 THEN NotPlaying
                      ELSE [p EXCEPT !.left = @ - 1, !.todo = userList[p.room]]]
     /\ UNCHANGED <<chan, roomid, rroom, vptsmsg, content, mixed, inputs, crashed,
                    roomVars, sessVars>>

\* FreeByChan2.
HandleFree(w) ==
  LET f == Head(chan[w]).frame
  IN /\ Next1(w, "free")
     /\ free' = [free EXCEPT ![f.room] = <<f>> \o @]
     /\ used' = [used EXCEPT ![f.room] = @ - 1]
     /\ chan' = Taken(w)
     /\ UNCHANGED <<playing, roomid, rroom, vptsmsg, userList, informed, made,
                    content, mixed, inputs, crashed, sessVars>>

-----------------------------------------------------------------------------
(* The worker of a session, for what the rooms send to its client.         *)

\* WriteFree2, which the cache of the session's worker calls.
WriteFree2(ch, f) == Posted(ch, OwnerR[f.room], [type |-> "free", frame |-> f])

\* Mutant of HandleSend: the frame just sent is given back, as if the cache
\* kept none.
HandleSendFreesNew(w) ==
  LET m    == Head(chan[w])
      s    == m.sess
      slot == (sndseq[s] + 1) % sess_cache_LEN
      no   == content[m.frame].no
  IN /\ Next1(w, "send")
     /\ sndseq' = [sndseq EXCEPT ![s] = @ + 1]
     /\ wire' = [wire EXCEPT ![s][m.frame.room] = no]
     /\ cache' = [cache EXCEPT ![s][slot] = [frame |-> m.frame, no |-> no]]
     /\ chan' = WriteFree2(Taken(w), m.frame)
     /\ UNCHANGED <<playing, roomid, rroom, vptsmsg, content, mixed, inputs, crashed,
                    roomVars>>

\* SendDataQueue for UDP: one packet.  clearPacketWrBufer gives the frame
\* that is overwritten back by WriteFree2, a message to its room.
HandleSend(w) ==
  LET m    == Head(chan[w])
      s    == m.sess
      slot == (sndseq[s] + 1) % sess_cache_LEN
      old  == cache[s][slot].frame
      no   == content[m.frame].no
  IN /\ Next1(w, "send")
     /\ sndseq' = [sndseq EXCEPT ![s] = @ + 1]
     /\ wire' = [wire EXCEPT ![s][m.frame.room] = no]
     /\ cache' = [cache EXCEPT ![s][slot] = [frame |-> m.frame, no |-> no]]
     /\ chan' = IF old = NoFrame THEN Taken(w) ELSE WriteFree2(Taken(w), old)
     /\ UNCHANGED <<playing, roomid, rroom, vptsmsg, content, mixed, inputs, crashed,
                    roomVars>>

Next ==
  \/ \E s \in Sess, r \in Rooms : CreEnter(s, r)
  \/ \E s \in Sess, comp \in {0, 1} : Audio(s, comp)
  \/ \E w \in Workers :
       \/ HandleEnter(w) \/ HandleFree(w) \/ HandleSend(w) \/ Played(w)
       \/ \E plays \in 0 .. MaxPlay : HandleMerge(w, plays)
       \/ \E s \in Sess : PlayFor(w, s)

Spec == Init /\ [][Next]_vars

-----------------------------------------------------------------------------
Messages == [type : {"enter"}, sess : Sess, room : Rooms]
            \cup [type : {"merge"}, sess : Sess, room : Rooms, comp : {0, 1}]
            \cup [type : {"send"}, sess : Sess, frame : Frames]
            \cup [type : {"free"}, frame : Frames]

\* Type correctness of rooms, sessions and the messages between them.
TypeOK ==
  /\ chan \in [Workers -> Seq(Messages)]
  /\ playing \in [Workers -> [room : Rooms \cup {NoRoom}, left : 0 .. MaxPlay,
                              todo : SUBSET Sess]]
  /\ roomid \in [Sess -> Rooms \cup {NoRoom}]
  /\ rroom \in [Sess -> Rooms \cup {NoRoom}]
  /\ userList \in [Rooms -> SUBSET Sess] /\ crashed \in SUBSET Sess
  /\ informed \in SUBSET Sess /\ vptsmsg \in SUBSET Sess
  /\ free \in [Rooms -> Seq(Frames)]
  /\ made \in [Rooms -> Nat] /\ used \in [Rooms -> Nat]
  /\ content \in [Frames -> [sess : Sess, no : Nat]]
  /\ mixed \in [Rooms -> [Sess -> Nat]] /\ wire \in [Sess -> [Rooms -> Nat]]
  /\ sndseq \in [Sess -> Nat] /\ inputs \in 0 .. MaxInputs
  /\ cache \in [Sess -> [Slots -> [frame : Frames \cup {NoFrame}, no : Nat]]]

\* The places where a frame may be.
InList(f)  == {i \in DOMAIN free[f.room] : free[f.room][i] = f}
InMsgs(f)  == {x \in UNION {{w} \X DOMAIN chan[w] : w \in Workers} :
                 /\ chan[x[1]][x[2]].type \in {"send", "free"}
                 /\ chan[x[1]][x[2]].frame = f}
InCache(f) == {x \in Sess \X Slots : cache[x[1]][x[2]].frame = f}

\* A frame is in its room's list, in one message, or in one slot of one
\* cache: no room fills a frame that a worker may still send, no frame is
\* given back twice or lost (room.cpp:276-297, 572-586, 618-626,
\* huage_sendstream.cpp:156-180); frameusea counts those that are out.
FrameInOnePlace ==
  \A f \in Frames :
    /\ Cardinality(InList(f)) + Cardinality(InMsgs(f)) + Cardinality(InCache(f)) = 1
    /\ used[f.room] = made[f.room] - Len(free[f.room])

\* What a cache would send again is still what was sent: no room has filled
\* the frame anew (room.cpp:376-416, huage_sendstream.cpp:92-111).
CacheIntact ==
  \A s \in Sess, i \in Slots :
    cache[s][i].no # 0 =>
      content[cache[s][i].frame] = [sess |-> s, no |-> cache[s][i].no]

\* What a room mixed for a session is sent to it frame by frame, none twice,
\* none left out, none for another (room.cpp:319-426).
SentAsMixed ==
  [][\A s \in Sess, r \in Rooms : wire'[s][r] \in {wire[s][r], wire[s][r] + 1}]_wire

Quiet == crashed = {} /\ \A w \in Workers : Idle(w) /\ chan[w] = <<>>

\* "防止异步产生不同步问题" (audio_consumer.cpp:29: keeps asynchronous
\* messages from getting things out of step): when nothing is under way, a
\* session is in the room it asked for last, so its audio is not dropped.
RoomSettles == Quiet => rroom = roomid

\* The same comment: the audio of a session that asked for a room finds one,
\* whatever was handled of the request (audio_consumer.cpp:28-31).
AudioFindsRoom == \A s \in crashed : roomid[s] = NoRoom
=============================================================================
