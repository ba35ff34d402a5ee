----------------------------- MODULE Room_proofs -----------------------------
(* The frames of rooms, for any number of workers, rooms and sessions and    *)
(* every size of the cache, and the mixing of a room, for any numbers of     *)
(* slots, sessions and pieces.  The two share no state.                      *)
EXTENDS RoomFrames, RoomMix, HgBuf_proofs, FiniteSetTheorems

\* The messages that carry a frame.
Carries(m) == m.type \in {"send", "free"}

\* The queue w of c without its first element; the frame g before those of
\* its room; e in the slot k of s.
Rest(c, w)                 == [c EXCEPT ![w] = Tail(@)]
Given(fr, g)               == [fr EXCEPT ![g.room] = <<g>> \o @]
Overwritten(ca, s, k, e) == [ca EXCEPT ![s][k] = e]

\* Frame f is in a message of ch, in a list of fr, in a slot of ca.
UnderWay(ch, f) == \E w \in Workers : \E i \in 1 .. Len(ch[w]) :
                     Carries(ch[w][i]) /\ ch[w][i].frame = f
Listed(fr, f)   == \E r \in Rooms : \E i \in 1 .. Len(fr[r]) : fr[r][i] = f
Kept(ca, f)     == \E s \in Sess, k \in Slots : ca[s][k].frame = f

\* What is in the frames that are under way stays: co before, d afterwards.
Untouched(ch, co, d) == \A f : UnderWay(ch, f) => d[f] = co[f]

\* No frame is twice in the messages, in the lists, in the slots.
MsgsApart(ch) ==
  \A v, w \in Workers : \A i \in 1 .. Len(ch[v]), j \in 1 .. Len(ch[w]) :
    Carries(ch[v][i]) /\ Carries(ch[w][j]) /\ ch[v][i].frame = ch[w][j].frame
      => v = w /\ i = j
ListsApart(fr) ==
  \A r \in Rooms :
    /\ \A i \in 1 .. Len(fr[r]) : fr[r][i].room = r
    /\ \A i, j \in 1 .. Len(fr[r]) : fr[r][i] = fr[r][j] => i = j
SlotsApart(ca) ==
  \A s, t \in Sess : \A i, j \in Slots :
    ca[s][i].frame = ca[t][j].frame /\ ca[s][i].frame # NoFrame => s = t /\ i = j

\* The entry e can be written to the slot k of s: its frame is in no slot.
CanWrite(E, ca, s, k, e) ==
  /\ ca \in [Sess -> [Slots -> E]] /\ s \in Sess /\ k \in Slots /\ e \in E
  /\ SlotsApart(ca) /\ e.frame # NoFrame /\ ~Kept(ca, e.frame)

\* Every frame is in exactly one of the three kinds of places.
OnePlace ==
  \A f \in Frames :
    \/ UnderWay(chan, f) /\ ~Listed(free, f) /\ ~Kept(cache, f)
    \/ ~UnderWay(chan, f) /\ Listed(free, f) /\ ~Kept(cache, f)
    \/ ~UnderWay(chan, f) /\ ~Listed(free, f) /\ Kept(cache, f)

PlacesInv ==
  /\ MsgsApart(chan) /\ ListsApart(free) /\ SlotsApart(cache) /\ OnePlace
  /\ \A r \in Rooms : used[r] = made[r] - Len(free[r])

\* A room that plays has slots left to play.
PlayingInv ==
  \A w \in Workers :
    \/ playing[w] = NotPlaying
    \/ playing[w].room \in Rooms /\ playing[w].left \in 1 .. MaxPlay

\* A message to send is in the channel of its session's worker and is of a
\* frame filled for that session (co: what is in the frames).
Routed(ch, co) ==
  \A w \in Workers : \A i \in 1 .. Len(ch[w]) :
    ch[w][i].type = "send" => /\ OwnerS[ch[w][i].sess] = w
                              /\ co[ch[w][i].frame].sess = ch[w][i].sess

CacheInv ==
  /\ CacheIntact
  /\ \A s \in Sess, k \in Slots : cache[s][k].frame = NoFrame <=> cache[s][k].no = 0

\* A message that carries a frame of r to s.
IsSend(m, s, r) == m.type = "send" /\ m.sess = s /\ m.frame.room = r

\* The frames of r under way to s are those mixed after the first lo, up to
\* hi, in the order of mixing.
InOrder(ch, co, lo, hi, s, r) ==
  LET q == ch[OwnerS[s]]
  IN /\ lo <= hi
     /\ \A i \in 1 .. Len(q) : IsSend(q[i], s, r) => co[q[i].frame].no \in lo + 1 .. hi
     /\ \A i, j \in 1 .. Len(q) :
          IsSend(q[i], s, r) /\ IsSend(q[j], s, r) /\ i < j
            => co[q[i].frame].no < co[q[j].frame].no
     /\ \A no \in lo + 1 .. hi :
          \E i \in 1 .. Len(q) : IsSend(q[i], s, r) /\ co[q[i].frame].no = no

OrderInv == \A s \in Sess, r \in Rooms : InOrder(chan, content, wire[s][r], mixed[r][s], s, r)

\* All that is said of the frames and of what carries them.
FramesInv == PlacesInv /\ Routed(chan, content) /\ CacheInv /\ OrderInv

RoomInv == TypeOK /\ PlayingInv /\ FramesInv

-----------------------------------------------------------------------------
(* Messages and frames                                                     *)

\* The frames that were made.
LEMMA FrameIs ==
  ASSUME made \in [Rooms -> Nat]
  PROVE  /\ \A f \in Frames : /\ f.room \in Rooms /\ f.n \in 1 .. made[f.room]
                              /\ f = [room |-> f.room, n |-> f.n]
         /\ \A r \in Rooms : \A n \in 1 .. made[r] : [room |-> r, n |-> n] \in Frames
         /\ NoFrame \notin Frames
<1>1. \A f \in Frames : /\ f.room \in Rooms /\ f.n \in 1 .. made[f.room]
                        /\ f = [room |-> f.room, n |-> f.n]
  BY DEF Frames
<1>2. \A r \in Rooms : \A n \in 1 .. made[r] : [room |-> r, n |-> n] \in Frames
  BY DEF Frames
<1>3. NoFrame \notin Frames
  <2>1. NoFrame.room = NoRoom
    BY DEF NoFrame
  <2> QED
    BY <1>1, <2>1, RoomAssumption
<1> QED
  BY <1>1, <1>2, <1>3

\* What a message of each kind has.
LEMMA MessageKinds ==
  ASSUME NEW m \in Messages
  PROVE  /\ m.type \in {"enter", "merge", "send", "free"}
         /\ m.type = "enter" => m.sess \in Sess /\ m.room \in Rooms
         /\ m.type = "merge" => m.sess \in Sess /\ m.room \in Rooms /\ m.comp \in {0, 1}
         /\ m.type = "send" => m.sess \in Sess /\ m.frame \in Frames
         /\ m.type = "free" => m.frame \in Frames
  BY DEF Messages

\* The messages that are left when the first one of w is taken.
LEMMA TakePlaces ==
  ASSUME NEW M, NEW ch \in [Workers -> Seq(M)], NEW w \in Workers, ch[w] # <<>>,
         NEW c, c = Rest(ch, w)
  PROVE  /\ c \in [Workers -> Seq(M)]
         /\ Len(ch[w]) \in Nat \ {0} /\ Head(ch[w]) = ch[w][1] /\ ch[w][1] \in M
         /\ Len(c[w]) = Len(ch[w]) - 1
         /\ \A i \in 1 .. Len(c[w]) : c[w][i] = ch[w][i + 1]
         /\ \A v \in Workers : v # w => c[v] = ch[v]
<1>1. ch[w] \in Seq(M)
  OBVIOUS
<1>2. /\ Tail(ch[w]) \in Seq(M) /\ Len(Tail(ch[w])) = Len(ch[w]) - 1
      /\ \A i \in 1 .. Len(Tail(ch[w])) : Tail(ch[w])[i] = ch[w][i + 1]
  BY <1>1, HeadTailProperties
<1>3. Len(ch[w]) \in Nat \ {0}
  BY <1>1, EmptySeq, LenProperties
<1>4. Head(ch[w]) = ch[w][1]
  OBVIOUS
<1>5. ch[w][1] \in M
  BY <1>1, <1>3, ElementOfSeq
<1>6. c[w] = Tail(ch[w]) /\ \A v \in Workers : v # w => c[v] = ch[v]
  BY DEF Rest
<1>7. c \in [Workers -> Seq(M)]
  BY <1>2 DEF Rest
<1> QED
  BY <1>2, <1>3, <1>4, <1>5, <1>6, <1>7

\* The messages there are when m is posted to v.
LEMMA PostPlaces ==
  ASSUME NEW M, NEW ch \in [Workers -> Seq(M)], NEW v \in Workers, NEW m \in M,
         NEW c, c = Posted(ch, v, m)
  PROVE  /\ c \in [Workers -> Seq(M)]
         /\ Len(ch[v]) \in Nat /\ Len(c[v]) = Len(ch[v]) + 1
         /\ c[v][Len(ch[v]) + 1] = m
         /\ \A i \in 1 .. Len(ch[v]) : c[v][i] = ch[v][i]
         /\ \A u \in Workers : u # v => c[u] = ch[u]
<1>1. ch[v] \in Seq(M)
  OBVIOUS
<1>2. /\ Append(ch[v], m) \in Seq(M) /\ Len(Append(ch[v], m)) = Len(ch[v]) + 1
      /\ Append(ch[v], m)[Len(ch[v]) + 1] = m
      /\ \A i \in 1 .. Len(ch[v]) : Append(ch[v], m)[i] = ch[v][i]
      /\ Len(ch[v]) \in Nat
  BY <1>1, AppendProperties, LenProperties
<1>3. c[v] = Append(ch[v], m) /\ \A u \in Workers : u # v => c[u] = ch[u]
  BY DEF Posted
<1>4. c \in [Workers -> Seq(M)]
  BY <1>2 DEF Posted
<1> QED
  BY <1>2, <1>3, <1>4

\* A frame that is taken with the first message is not under way any more.
LEMMA TakeApart ==
  ASSUME NEW M, NEW ch \in [Workers -> Seq(M)], NEW w \in Workers, ch[w] # <<>>,
         MsgsApart(ch), NEW c, c = Rest(ch, w)
  PROVE  /\ MsgsApart(c)
         /\ \A f : UnderWay(c, f) <=>
              UnderWay(ch, f) /\ ~(Carries(Head(ch[w])) /\ Head(ch[w]).frame = f)
<1>0. /\ c \in [Workers -> Seq(M)]
      /\ Len(ch[w]) \in Nat \ {0} /\ Head(ch[w]) = ch[w][1] /\ ch[w][1] \in M
      /\ Len(c[w]) = Len(ch[w]) - 1
      /\ \A i \in 1 .. Len(c[w]) : c[w][i] = ch[w][i + 1]
      /\ \A v \in Workers : v # w => c[v] = ch[v]
  BY TakePlaces
<1> DEFINE At(v, i) == IF v = w THEN i + 1 ELSE i
<1>1. \A v \in Workers : Len(ch[v]) \in Nat
  BY LenProperties
<1>2. \A v \in Workers : \A i \in 1 .. Len(c[v]) :
        At(v, i) \in 1 .. Len(ch[v]) /\ c[v][i] = ch[v][At(v, i)]
        /\ (v = w => At(v, i) # 1)
  BY <1>0, <1>1
<1>3. \A v \in Workers : \A i, j \in 1 .. Len(c[v]) : At(v, i) = At(v, j) => i = j
  BY <1>0, <1>1
<1>4. \A v \in Workers : \A k \in 1 .. Len(ch[v]) :
        v # w \/ k # 1 => \E i \in 1 .. Len(c[v]) : c[v][i] = ch[v][k]
  <2> SUFFICES ASSUME NEW v \in Workers, NEW k \in 1 .. Len(ch[v]), v # w \/ k # 1
               PROVE  \E i \in 1 .. Len(c[v]) : c[v][i] = ch[v][k]
    OBVIOUS
  <2>1. CASE v # w
    BY <1>0, <2>1
  <2>2. CASE v = w
    <3>1. k - 1 \in 1 .. Len(c[w]) /\ (k - 1) + 1 = k
      BY <1>0, <2>2
    <3> QED
      BY <1>0, <2>2, <3>1
  <2> QED
    BY <2>1, <2>2
<1> HIDE DEF At
<1>5. MsgsApart(c)
  <2>1. ASSUME NEW u \in Workers, NEW v \in Workers
        PROVE  \A i \in 1 .. Len(c[u]), j \in 1 .. Len(c[v]) :
                 Carries(c[u][i]) /\ Carries(c[v][j]) /\ c[u][i].frame = c[v][j].frame
                   => u = v /\ i = j
    <3> SUFFICES ASSUME NEW i \in 1 .. Len(c[u]), NEW j \in 1 .. Len(c[v]),
                        Carries(c[u][i]), Carries(c[v][j]), c[u][i].frame = c[v][j].frame
                 PROVE  u = v /\ i = j
      OBVIOUS
    <3>1. /\ At(u, i) \in 1 .. Len(ch[u]) /\ c[u][i] = ch[u][At(u, i)]
          /\ At(v, j) \in 1 .. Len(ch[v]) /\ c[v][j] = ch[v][At(v, j)]
      BY <1>2
    <3>2. u = v /\ At(u, i) = At(v, j)
      BY <3>1, SMTT(30) DEF MsgsApart
    <3> QED
      BY <3>2, <1>3
  <2> QED
    BY <2>1 DEF MsgsApart
<1>6. ASSUME NEW f, UnderWay(c, f)
      PROVE  UnderWay(ch, f) /\ ~(Carries(Head(ch[w])) /\ Head(ch[w]).frame = f)
  <2>1. PICK v \in Workers : \E i \in 1 .. Len(c[v]) : Carries(c[v][i]) /\ c[v][i].frame = f
    BY <1>6 DEF UnderWay
  <2>2. PICK i \in 1 .. Len(c[v]) : Carries(c[v][i]) /\ c[v][i].frame = f
    BY <2>1
  <2>3. UnderWay(ch, f)
    BY <1>2, <2>2 DEF UnderWay
  <2>4. ASSUME Carries(Head(ch[w])), Head(ch[w]).frame = f PROVE FALSE
    <3>1. 1 \in 1 .. Len(ch[w])
      BY <1>0
    <3>2. Carries(ch[w][1]) /\ ch[w][1].frame = f
      BY <1>0, <2>4
    <3>3. /\ At(v, i) \in 1 .. Len(ch[v])
          /\ Carries(ch[v][At(v, i)]) /\ ch[v][At(v, i)].frame = f
      BY <1>2, <2>2
    <3>4. w = v /\ 1 = At(v, i)
      BY <3>1, <3>2, <3>3 DEF MsgsApart
    <3> QED
      BY <1>2, <3>4
  <2> QED
    BY <2>3, <2>4
<1>7. ASSUME NEW f, UnderWay(ch, f), ~(Carries(Head(ch[w])) /\ Head(ch[w]).frame = f)
      PROVE  UnderWay(c, f)
  <2>1. PICK v \in Workers : \E k \in 1 .. Len(ch[v]) : Carries(ch[v][k]) /\ ch[v][k].frame = f
    BY <1>7 DEF UnderWay
  <2>2. PICK k \in 1 .. Len(ch[v]) : Carries(ch[v][k]) /\ ch[v][k].frame = f
    BY <2>1
  <2>3. v # w \/ k # 1
    BY <1>0, <1>7, <2>2
  <2> QED
    BY <1>4, <2>2, <2>3 DEF UnderWay
<1> QED
  BY <1>5, <1>6, <1>7

\* A frame that is posted is under way.
LEMMA PostApart ==
  ASSUME NEW M, NEW ch \in [Workers -> Seq(M)], NEW v \in Workers, NEW m \in M,
         MsgsApart(ch), Carries(m) => ~UnderWay(ch, m.frame),
         NEW c, c = Posted(ch, v, m)
  PROVE  /\ MsgsApart(c)
         /\ \A f : UnderWay(c, f) <=> UnderWay(ch, f) \/ (Carries(m) /\ m.frame = f)
<1>0. /\ c \in [Workers -> Seq(M)]
      /\ Len(ch[v]) \in Nat /\ Len(c[v]) = Len(ch[v]) + 1
      /\ c[v][Len(ch[v]) + 1] = m
      /\ \A i \in 1 .. Len(ch[v]) : c[v][i] = ch[v][i]
      /\ \A u \in Workers : u # v => c[u] = ch[u]
  <2>1. v \in Workers /\ m \in M /\ ch \in [Workers -> Seq(M)] /\ c = Posted(ch, v, m)
    OBVIOUS
  <2> QED
    BY <2>1, PostPlaces
<1> DEFINE New(u, i) == u = v /\ i = Len(ch[v]) + 1
<1>1. \A u \in Workers : Len(ch[u]) \in Nat
  BY LenProperties
<1>2. \A u \in Workers : \A i \in 1 .. Len(c[u]) :
        \/ New(u, i) /\ c[u][i] = m
        \/ i \in 1 .. Len(ch[u]) /\ c[u][i] = ch[u][i]
  BY <1>0, <1>1
<1>3. \A u \in Workers : \A i \in 1 .. Len(ch[u]) :
        i \in 1 .. Len(c[u]) /\ c[u][i] = ch[u][i]
  <2> SUFFICES ASSUME NEW u \in Workers, NEW i \in 1 .. Len(ch[u])
               PROVE  i \in 1 .. Len(c[u]) /\ c[u][i] = ch[u][i]
    OBVIOUS
  <2>1. CASE u = v
    BY <1>0, <2>1
  <2>2. CASE u # v
    BY <1>0, <2>2
  <2> QED
    BY <2>1, <2>2
<1>4. Len(ch[v]) + 1 \in 1 .. Len(c[v]) /\ c[v][Len(ch[v]) + 1] = m
  BY <1>0
<1>5. \A u, x : \A i, j : New(u, i) /\ New(x, j) => u = x /\ i = j
  OBVIOUS
<1> HIDE DEF New
<1>6. MsgsApart(c)
  <2> SUFFICES ASSUME NEW u \in Workers, NEW x \in Workers,
                      NEW i \in 1 .. Len(c[u]), NEW j \in 1 .. Len(c[x]),
                      Carries(c[u][i]), Carries(c[x][j]), c[u][i].frame = c[x][j].frame
               PROVE  u = x /\ i = j
    BY DEF MsgsApart
  <2>1. CASE New(u, i) /\ c[u][i] = m /\ New(x, j)
    BY <1>5, <2>1
  <2>2. CASE New(u, i) /\ c[u][i] = m /\ j \in 1 .. Len(ch[x]) /\ c[x][j] = ch[x][j]
    <3>1. UnderWay(ch, m.frame)
      BY <2>2 DEF UnderWay
    <3> QED
      BY <2>2, <3>1
  <2>3. CASE New(x, j) /\ c[x][j] = m /\ i \in 1 .. Len(ch[u]) /\ c[u][i] = ch[u][i]
    <3>1. UnderWay(ch, m.frame)
      BY <2>3 DEF UnderWay
    <3> QED
      BY <2>3, <3>1
  <2>4. CASE /\ i \in 1 .. Len(ch[u]) /\ c[u][i] = ch[u][i]
             /\ j \in 1 .. Len(ch[x]) /\ c[x][j] = ch[x][j]
    BY <2>4 DEF MsgsApart
  <2> QED
    BY <1>2, <2>1, <2>2, <2>3, <2>4
<1>7. ASSUME NEW f, UnderWay(c, f) PROVE UnderWay(ch, f) \/ (Carries(m) /\ m.frame = f)
  <2>1. PICK u \in Workers : \E i \in 1 .. Len(c[u]) : Carries(c[u][i]) /\ c[u][i].frame = f
    BY <1>7 DEF UnderWay
  <2>2. PICK i \in 1 .. Len(c[u]) : Carries(c[u][i]) /\ c[u][i].frame = f
    BY <2>1
  <2> QED
    BY <1>2, <2>2 DEF UnderWay
<1>8. ASSUME NEW f, UnderWay(ch, f) \/ (Carries(m) /\ m.frame = f) PROVE UnderWay(c, f)
  <2>1. CASE UnderWay(ch, f)
    BY <1>3, <2>1 DEF UnderWay
  <2>2. CASE Carries(m) /\ m.frame = f
    BY <1>4, <2>2 DEF UnderWay
  <2> QED
    BY <1>8, <2>1, <2>2
<1> QED
  BY <1>6, <1>7, <1>8

-----------------------------------------------------------------------------
(* Lists and caches                                                        *)

\* The frame that is taken from the list of a room is not listed any more.
LEMMA ListTake ==
  ASSUME NEW F, NEW fr \in [Rooms -> Seq(F)], NEW r \in Rooms, fr[r] # <<>>,
         ListsApart(fr), NEW c, c = Rest(fr, r)
  PROVE  /\ c \in [Rooms -> Seq(F)] /\ ListsApart(c)
         /\ Len(c[r]) = Len(fr[r]) - 1 /\ Len(fr[r]) \in Nat
         /\ \A q \in Rooms : q # r => c[q] = fr[q]
         /\ Head(fr[r]) \in F /\ Head(fr[r]).room = r /\ Listed(fr, Head(fr[r]))
         /\ \A f : Listed(c, f) <=> Listed(fr, f) /\ f # Head(fr[r])
<1>1. fr[r] \in Seq(F)
  OBVIOUS
<1>2. /\ Tail(fr[r]) \in Seq(F) /\ Len(Tail(fr[r])) = Len(fr[r]) - 1
      /\ \A i \in 1 .. Len(Tail(fr[r])) : Tail(fr[r])[i] = fr[r][i + 1]
  BY <1>1, HeadTailProperties
<1>3. Len(fr[r]) \in Nat \ {0}
  BY <1>1, EmptySeq, LenProperties
<1>4. Head(fr[r]) = fr[r][1]
  OBVIOUS
<1>5. fr[r][1] \in F
  BY <1>1, <1>3, ElementOfSeq
<1>6. c[r] = Tail(fr[r]) /\ \A q \in Rooms : q # r => c[q] = fr[q]
  BY DEF Rest
<1>7. c \in [Rooms -> Seq(F)]
  BY <1>2 DEF Rest
<1> DEFINE At(q, i) == IF q = r THEN i + 1 ELSE i
<1>8. \A q \in Rooms : Len(fr[q]) \in Nat
  BY LenProperties
<1>9. \A q \in Rooms : \A i \in 1 .. Len(c[q]) :
        At(q, i) \in 1 .. Len(fr[q]) /\ c[q][i] = fr[q][At(q, i)]
        /\ (q = r => At(q, i) # 1)
  BY <1>2, <1>3, <1>6, <1>8, SMTT(30)
<1>10. \A q \in Rooms : \A i, j \in 1 .. Len(c[q]) : At(q, i) = At(q, j) => i = j
  BY <1>2, <1>3, <1>6, <1>8
<1>11. \A q \in Rooms : \A k \in 1 .. Len(fr[q]) :
         q # r \/ k # 1 => \E i \in 1 .. Len(c[q]) : c[q][i] = fr[q][k]
  <2> SUFFICES ASSUME NEW q \in Rooms, NEW k \in 1 .. Len(fr[q]), q # r \/ k # 1
               PROVE  \E i \in 1 .. Len(c[q]) : c[q][i] = fr[q][k]
    OBVIOUS
  <2>1. CASE q # r
    BY <1>6, <2>1
  <2>2. CASE q = r
    <3>1. k - 1 \in 1 .. Len(c[r]) /\ (k - 1) + 1 = k
      BY <1>2, <1>3, <1>6, <2>2
    <3> QED
      BY <1>2, <1>6, <2>2, <3>1
  <2> QED
    BY <2>1, <2>2
<1> HIDE DEF At
<1>12. ListsApart(c)
  <2> SUFFICES ASSUME NEW q \in Rooms
               PROVE  /\ \A i \in 1 .. Len(c[q]) : c[q][i].room = q
                      /\ \A i, j \in 1 .. Len(c[q]) : c[q][i] = c[q][j] => i = j
    BY DEF ListsApart
  <2>1. \A i \in 1 .. Len(c[q]) : c[q][i].room = q
    BY <1>9 DEF ListsApart
  <2>2. ASSUME NEW i \in 1 .. Len(c[q]), NEW j \in 1 .. Len(c[q]), c[q][i] = c[q][j]
        PROVE  i = j
    <3>1. PICK a, b : a = At(q, i) /\ b = At(q, j)
      OBVIOUS
    <3>2. a \in 1 .. Len(fr[q]) /\ b \in 1 .. Len(fr[q]) /\ fr[q][a] = fr[q][b]
      BY <1>9, <2>2, <3>1
    <3>3. a = b
      BY <3>2 DEF ListsApart
    <3> QED
      BY <1>10, <3>1, <3>3
  <2> QED
    BY <2>1, <2>2
<1>13. 1 \in 1 .. Len(fr[r])
  BY <1>3
<1>14. Head(fr[r]).room = r /\ Listed(fr, Head(fr[r]))
  BY <1>4, <1>13 DEF ListsApart, Listed
<1>15. ASSUME NEW f, Listed(c, f) PROVE Listed(fr, f) /\ f # Head(fr[r])
  <2>1. PICK q \in Rooms : \E i \in 1 .. Len(c[q]) : c[q][i] = f
    BY <1>15 DEF Listed
  <2>2. PICK i \in 1 .. Len(c[q]) : c[q][i] = f
    BY <2>1
  <2>3. Listed(fr, f)
    BY <1>9, <2>2 DEF Listed
  <2>4. ASSUME f = fr[r][1] PROVE FALSE
    <3>1. q = r
      <4>1. At(q, i) \in 1 .. Len(fr[q]) /\ fr[q][At(q, i)] = f
        BY <1>9, <2>2
      <4>2. fr[q][At(q, i)].room = q /\ fr[r][1].room = r
        BY <4>1, <1>13 DEF ListsApart
      <4> QED
        BY <2>4, <4>1, <4>2
    <3>2. At(r, i) \in 1 .. Len(fr[r]) /\ fr[r][At(r, i)] = f /\ At(r, i) # 1
      BY <1>9, <2>2, <3>1
    <3> QED
      BY <1>13, <2>4, <3>2 DEF ListsApart
  <2> QED
    BY <1>4, <2>3, <2>4
<1>16. ASSUME NEW f, Listed(fr, f), f # Head(fr[r]) PROVE Listed(c, f)
  <2>1. PICK q \in Rooms : \E k \in 1 .. Len(fr[q]) : fr[q][k] = f
    BY <1>16 DEF Listed
  <2>2. PICK k \in 1 .. Len(fr[q]) : fr[q][k] = f
    BY <2>1
  <2>3. q # r \/ k # 1
    BY <1>4, <1>16, <2>2
  <2> QED
    BY <1>11, <2>2, <2>3 DEF Listed
<1> QED
  BY <1>2, <1>3, <1>4, <1>5, <1>6, <1>7, <1>12, <1>14, <1>15, <1>16

\* The frame that is given back to its room is listed.
LEMMA ListGive ==
  ASSUME NEW F, NEW fr \in [Rooms -> Seq(F)], NEW r \in Rooms,
         ListsApart(fr), NEW g \in F, g.room = r, ~Listed(fr, g),
         NEW c, c = Given(fr, g)
  PROVE  /\ c \in [Rooms -> Seq(F)] /\ ListsApart(c)
         /\ Len(c[r]) = Len(fr[r]) + 1 /\ Len(fr[r]) \in Nat
         /\ \A q \in Rooms : q # r => c[q] = fr[q]
         /\ \A f : Listed(c, f) <=> Listed(fr, f) \/ f = g
<1>1. fr[r] \in Seq(F) /\ Len(fr[r]) \in Nat
  BY LenProperties
<1>2. <<g>> \in Seq(F) /\ Len(<<g>>) = 1 /\ <<g>>[1] = g
  OBVIOUS
<1>3. c[r] = <<g>> \o fr[r] /\ \A q \in Rooms : q # r => c[q] = fr[q]
  BY DEF Given
<1>4. /\ c[r] \in Seq(F) /\ Len(c[r]) = 1 + Len(fr[r])
      /\ \A i \in 1 .. 1 + Len(fr[r]) :
           c[r][i] = IF i <= 1 THEN <<g>>[i] ELSE fr[r][i - 1]
  BY <1>1, <1>2, <1>3, ConcatProperties
<1>5. /\ c[r][1] = g
      /\ \A i \in 1 .. Len(c[r]) : i = 1 \/ (i - 1 \in 1 .. Len(fr[r]) /\ c[r][i] = fr[r][i - 1])
      /\ \A i \in 1 .. Len(fr[r]) : i + 1 \in 1 .. Len(c[r]) /\ c[r][i + 1] = fr[r][i]
  <2> DEFINE p == c[r]
             q == fr[r]
             a == <<g>>
  <2>1. /\ Len(q) \in Nat /\ Len(p) = 1 + Len(q) /\ a[1] = g
        /\ \A i \in 1 .. 1 + Len(q) : p[i] = IF i <= 1 THEN a[i] ELSE q[i - 1]
    BY <1>1, <1>2, <1>4
  <2> HIDE DEF p, q, a
  <2>2. p[1] = g
    BY <2>1
  <2>3. \A i \in 1 .. Len(p) : i = 1 \/ (i - 1 \in 1 .. Len(q) /\ p[i] = q[i - 1])
    BY <2>1
  <2>4. \A i \in 1 .. Len(q) : i + 1 \in 1 .. Len(p) /\ p[i + 1] = q[i]
    <3> SUFFICES ASSUME NEW i \in 1 .. Len(q)
                 PROVE  i + 1 \in 1 .. Len(p) /\ p[i + 1] = q[i]
      OBVIOUS
    <3>1. i + 1 \in 1 .. 1 + Len(q) /\ ~(i + 1 <= 1) /\ (i + 1) - 1 = i
      BY <2>1
    <3> QED
      BY <2>1, <3>1
  <2> QED
    BY <2>2, <2>3, <2>4 DEF p, q
<1>6. \A i \in 1 .. Len(fr[r]) : fr[r][i] # g
  BY DEF Listed
<1>7. c \in [Rooms -> Seq(F)]
  BY <1>3, <1>4 DEF Given
<1>8. ListsApart(c)
  <2> SUFFICES ASSUME NEW q \in Rooms
               PROVE  /\ \A i \in 1 .. Len(c[q]) : c[q][i].room = q
                      /\ \A i, j \in 1 .. Len(c[q]) : c[q][i] = c[q][j] => i = j
    BY DEF ListsApart
  <2>1. CASE q # r
    BY <1>3, <2>1 DEF ListsApart
  <2>2. CASE q = r
    <3>0. /\ \A i \in 1 .. Len(fr[r]) : fr[r][i].room = r
          /\ \A i, j \in 1 .. Len(fr[r]) : fr[r][i] = fr[r][j] => i = j
      BY DEF ListsApart
    <3>1. \A i \in 1 .. Len(c[r]) : c[r][i].room = r
      <4> SUFFICES ASSUME NEW i \in 1 .. Len(c[r]) PROVE c[r][i].room = r
        OBVIOUS
      <4>1. CASE i = 1
        BY <1>5, <4>1
      <4>2. CASE i # 1
        <5>1. i - 1 \in 1 .. Len(fr[r]) /\ c[r][i] = fr[r][i - 1]
          BY <1>5, <4>2
        <5> QED
          BY <3>0, <5>1
      <4> QED
        BY <4>1, <4>2
    <3>2. ASSUME NEW i \in 1 .. Len(c[r]), NEW j \in 1 .. Len(c[r]), c[r][i] = c[r][j]
          PROVE  i = j
      <4>1. CASE i = 1 /\ j = 1
        BY <4>1
      <4>2. CASE i = 1 /\ j # 1
        <5>1. j - 1 \in 1 .. Len(fr[r]) /\ c[r][j] = fr[r][j - 1] /\ c[r][i] = g
          BY <1>5, <4>2
        <5> QED
          BY <1>6, <3>2, <5>1
      <4>3. CASE i # 1 /\ j = 1
        <5>1. i - 1 \in 1 .. Len(fr[r]) /\ c[r][i] = fr[r][i - 1] /\ c[r][j] = g
          BY <1>5, <4>3
        <5> QED
          BY <1>6, <3>2, <5>1
      <4>4. CASE i # 1 /\ j # 1
        <5>1. /\ i - 1 \in 1 .. Len(fr[r]) /\ c[r][i] = fr[r][i - 1]
              /\ j - 1 \in 1 .. Len(fr[r]) /\ c[r][j] = fr[r][j - 1]
          BY <1>5, <4>4
        <5>2. i - 1 = j - 1
          BY <3>0, <3>2, <5>1
        <5> QED
          BY <5>2
      <4> QED
        BY <4>1, <4>2, <4>3, <4>4
    <3> QED
      BY <2>2, <3>1, <3>2
  <2> QED
    BY <2>1, <2>2
<1>9. 1 \in 1 .. Len(c[r])
  BY <1>1, <1>4
<1>10. ASSUME NEW f, Listed(c, f) PROVE Listed(fr, f) \/ f = g
  <2>1. PICK q \in Rooms : \E i \in 1 .. Len(c[q]) : c[q][i] = f
    BY <1>10 DEF Listed
  <2>2. PICK i \in 1 .. Len(c[q]) : c[q][i] = f
    BY <2>1
  <2>3. CASE q # r
    BY <1>3, <2>2, <2>3 DEF Listed
  <2>4. CASE q = r /\ i = 1
    BY <1>5, <2>2, <2>4
  <2>5. CASE q = r /\ i # 1
    <3>1. i - 1 \in 1 .. Len(fr[r]) /\ fr[r][i - 1] = f
      BY <1>5, <2>2, <2>5
    <3> QED
      BY <3>1 DEF Listed
  <2> QED
    BY <2>3, <2>4, <2>5
<1>11. ASSUME NEW f, Listed(fr, f) \/ f = g PROVE Listed(c, f)
  <2>1. CASE f = g
    BY <1>5, <1>9, <2>1 DEF Listed
  <2>2. CASE Listed(fr, f)
    <3>1. PICK q \in Rooms : \E k \in 1 .. Len(fr[q]) : fr[q][k] = f
      BY <2>2 DEF Listed
    <3>2. PICK k \in 1 .. Len(fr[q]) : fr[q][k] = f
      BY <3>1
    <3>3. CASE q = r
      BY <1>5, <3>2, <3>3 DEF Listed
    <3>4. CASE q # r
      BY <1>3, <3>2, <3>4 DEF Listed
    <3> QED
      BY <3>3, <3>4
  <2> QED
    BY <1>11, <2>1, <2>2
<1>12. Len(c[r]) = Len(fr[r]) + 1
  BY <1>1, <1>4
<1> QED
  BY <1>1, <1>3, <1>7, <1>8, <1>10, <1>11, <1>12

\* A slot that is overwritten keeps the new frame and no longer the old one.
LEMMA SlotTake ==
  ASSUME NEW E, NEW ca, NEW s, NEW k, NEW e, CanWrite(E, ca, s, k, e),
         NEW c, c = Overwritten(ca, s, k, e)
  PROVE  /\ c \in [Sess -> [Slots -> E]] /\ SlotsApart(c)
         /\ c[s][k] = e
         /\ \A t \in Sess, i \in Slots : t # s \/ i # k => c[t][i] = ca[t][i]
         /\ \A f : f # NoFrame =>
              (Kept(c, f) <=> f = e.frame \/ (Kept(ca, f) /\ f # ca[s][k].frame))
<1>0. /\ ca \in [Sess -> [Slots -> E]] /\ s \in Sess /\ k \in Slots /\ e \in E
      /\ SlotsApart(ca) /\ e.frame # NoFrame /\ ~Kept(ca, e.frame)
  BY DEF CanWrite
<1>1. c \in [Sess -> [Slots -> E]]
  BY <1>0 DEF Overwritten
<1>2. c[s][k] = e
  BY <1>0 DEF Overwritten
<1>3. \A t \in Sess, i \in Slots : t # s \/ i # k => c[t][i] = ca[t][i]
  BY <1>0 DEF Overwritten
<1>4. \A t \in Sess, i \in Slots : ca[t][i].frame # e.frame
  BY <1>0 DEF Kept
<1>5. SlotsApart(c)
  <2> SUFFICES ASSUME NEW t \in Sess, NEW i \in Slots, NEW u \in Sess, NEW j \in Slots,
                      c[t][i].frame = c[u][j].frame, c[t][i].frame # NoFrame
               PROVE  t = u /\ i = j
    BY DEF SlotsApart
  <2>1. CASE t = s /\ i = k
    BY <1>2, <1>3, <1>4, <2>1
  <2>2. CASE u = s /\ j = k
    BY <1>2, <1>3, <1>4, <2>2
  <2>3. CASE ~(t = s /\ i = k) /\ ~(u = s /\ j = k)
    BY <1>0, <1>3, <2>3 DEF SlotsApart
  <2> QED
    BY <2>1, <2>2, <2>3
<1>6. ASSUME NEW f, f # NoFrame, Kept(c, f)
      PROVE  f = e.frame \/ (Kept(ca, f) /\ f # ca[s][k].frame)
  <2>1. PICK t \in Sess, i \in Slots : c[t][i].frame = f
    BY <1>6 DEF Kept
  <2>2. CASE t = s /\ i = k
    BY <1>2, <2>1, <2>2
  <2>3. CASE ~(t = s /\ i = k)
    <3>1. ca[t][i].frame = f
      BY <1>3, <2>1, <2>3
    <3>2. ca[s][k].frame # f
      BY <1>0, <1>6, <2>3, <3>1 DEF SlotsApart
    <3> QED
      BY <3>1, <3>2 DEF Kept
  <2> QED
    BY <2>2, <2>3
<1>7. ASSUME NEW f, f # NoFrame, f = e.frame \/ (Kept(ca, f) /\ f # ca[s][k].frame)
      PROVE  Kept(c, f)
  <2>1. CASE f = e.frame
    BY <1>0, <1>2, <2>1 DEF Kept
  <2>2. CASE Kept(ca, f) /\ f # ca[s][k].frame
    <3>1. PICK t \in Sess, i \in Slots : ca[t][i].frame = f
      BY <2>2 DEF Kept
    <3> QED
      BY <1>3, <2>2, <3>1 DEF Kept
  <2> QED
    BY <1>7, <2>1, <2>2
<1> QED
  BY <1>1, <1>2, <1>3, <1>5, <1>6, <1>7

-----------------------------------------------------------------------------
(* The order of the frames on their way to a session                       *)

\* The first message that carries a frame of r to s carries the next one.
LEMMA OrderTake ==
  ASSUME NEW M, NEW ch \in [Workers -> Seq(M)], NEW w \in Workers, ch[w] # <<>>,
         NEW c, c = Rest(ch, w),
         NEW co, NEW lo \in Nat, NEW hi \in Nat, NEW s \in Sess, NEW r \in Rooms,
         InOrder(ch, co, lo, hi, s, r)
  PROVE  /\ w = OwnerS[s] /\ IsSend(Head(ch[w]), s, r)
              => co[Head(ch[w]).frame].no = lo + 1 /\ InOrder(c, co, lo + 1, hi, s, r)
         /\ ~(w = OwnerS[s] /\ IsSend(Head(ch[w]), s, r)) => InOrder(c, co, lo, hi, s, r)
<1> DEFINE q == ch[OwnerS[s]]
           p == c[OwnerS[s]]
           No(i) == co[q[i].frame].no
<1>0. OwnerS[s] \in Workers
  BY RoomAssumption
<1>1. /\ Len(ch[w]) \in Nat \ {0} /\ Head(ch[w]) = ch[w][1]
      /\ Len(c[w]) = Len(ch[w]) - 1
      /\ \A i \in 1 .. Len(c[w]) : c[w][i] = ch[w][i + 1]
      /\ \A v \in Workers : v # w => c[v] = ch[v]
  BY TakePlaces
<1>2. /\ lo <= hi
      /\ \A i \in 1 .. Len(q) : IsSend(q[i], s, r) => No(i) \in lo + 1 .. hi
      /\ \A i, j \in 1 .. Len(q) :
           IsSend(q[i], s, r) /\ IsSend(q[j], s, r) /\ i < j => No(i) < No(j)
      /\ \A no \in lo + 1 .. hi :
           \E i \in 1 .. Len(q) : IsSend(q[i], s, r) /\ No(i) = no
  BY DEF InOrder
<1>3. CASE w # OwnerS[s]
  <2>1. c[OwnerS[s]] = ch[OwnerS[s]]
    BY <1>0, <1>1, <1>3
  <2>2. InOrder(c, co, lo, hi, s, r)
    BY <2>1 DEF InOrder
  <2> QED
    BY <1>3, <2>2
<1>4. CASE w = OwnerS[s]
  <2>1. /\ Len(q) \in Nat \ {0} /\ 1 \in 1 .. Len(q) /\ Head(ch[w]) = q[1]
        /\ \A i \in 1 .. Len(p) : i + 1 \in 1 .. Len(q) /\ 1 < i + 1 /\ p[i] = q[i + 1]
        /\ \A k \in 1 .. Len(q) : k # 1 => k - 1 \in 1 .. Len(p) /\ p[k - 1] = q[k]
    BY <1>1, <1>4
  <2>2. \A i, j \in 1 .. Len(p) :
          IsSend(p[i], s, r) /\ IsSend(p[j], s, r) /\ i < j
            => co[p[i].frame].no < co[p[j].frame].no
    <3> SUFFICES ASSUME NEW i \in 1 .. Len(p), NEW j \in 1 .. Len(p),
                        IsSend(p[i], s, r), IsSend(p[j], s, r), i < j
                 PROVE  co[p[i].frame].no < co[p[j].frame].no
      OBVIOUS
    <3>1. /\ i + 1 \in 1 .. Len(q) /\ p[i] = q[i + 1]
          /\ j + 1 \in 1 .. Len(q) /\ p[j] = q[j + 1]
      BY <2>1
    <3>2. i + 1 < j + 1
      OBVIOUS
    <3>3. No(i + 1) < No(j + 1)
      BY <1>2, <3>1, <3>2
    <3> QED
      BY <3>1, <3>3
  <2>3. CASE IsSend(q[1], s, r)
    <3>1. No(1) = lo + 1
      <4>1. No(1) \in lo + 1 .. hi
        BY <1>2, <2>1, <2>3
      <4>2. lo + 1 \in lo + 1 .. hi
        BY <4>1
      <4>3. PICK i \in 1 .. Len(q) : IsSend(q[i], s, r) /\ No(i) = lo + 1
        BY <1>2, <4>2
      <4>4. i = 1 \/ 1 < i
        BY <2>1
      <4>5. CASE 1 < i
        <5>1. No(1) < No(i)
          BY <1>2, <2>1, <2>3, <4>3, <4>5
        <5> HIDE DEF No
        <5> QED
          BY <4>1, <4>3, <5>1
      <4> QED
        BY <4>3, <4>4, <4>5
    <3>2. lo + 1 <= hi
      <4>1. No(1) \in lo + 1 .. hi
        BY <1>2, <2>1, <2>3
      <4> HIDE DEF No
      <4> QED
        BY <4>1
    <3>3. \A i \in 1 .. Len(p) : IsSend(p[i], s, r) => co[p[i].frame].no \in lo + 1 + 1 .. hi
      <4> SUFFICES ASSUME NEW i \in 1 .. Len(p), IsSend(p[i], s, r)
                   PROVE  co[p[i].frame].no \in lo + 1 + 1 .. hi
        OBVIOUS
      <4>1. i + 1 \in 1 .. Len(q) /\ 1 < i + 1 /\ p[i] = q[i + 1]
        BY <2>1
      <4>2. No(1) < No(i + 1) /\ No(i + 1) \in lo + 1 .. hi
        BY <1>2, <2>1, <2>3, <4>1
      <4>3. co[p[i].frame].no = No(i + 1)
        BY <4>1
      <4> HIDE DEF No
      <4> QED
        BY <3>1, <4>2, <4>3
    <3>4. \A no \in lo + 1 + 1 .. hi :
            \E i \in 1 .. Len(p) : IsSend(p[i], s, r) /\ co[p[i].frame].no = no
      <4> SUFFICES ASSUME NEW no \in lo + 1 + 1 .. hi
                   PROVE  \E i \in 1 .. Len(p) : IsSend(p[i], s, r) /\ co[p[i].frame].no = no
        OBVIOUS
      <4>1. no \in lo + 1 .. hi /\ no # lo + 1
        OBVIOUS
      <4>2. PICK k \in 1 .. Len(q) : IsSend(q[k], s, r) /\ No(k) = no
        BY <1>2, <4>1
      <4>3. k # 1
        BY <3>1, <4>1, <4>2
      <4>4. k - 1 \in 1 .. Len(p) /\ p[k - 1] = q[k]
        BY <2>1, <4>3
      <4> QED
        BY <4>2, <4>4
    <3>5. InOrder(c, co, lo + 1, hi, s, r)
      BY <2>2, <3>2, <3>3, <3>4 DEF InOrder
    <3> QED
      BY <1>4, <2>1, <2>3, <3>1, <3>5
  <2>4. CASE ~IsSend(q[1], s, r)
    <3>1. \A i \in 1 .. Len(p) : IsSend(p[i], s, r) => co[p[i].frame].no \in lo + 1 .. hi
      <4> SUFFICES ASSUME NEW i \in 1 .. Len(p), IsSend(p[i], s, r)
                   PROVE  co[p[i].frame].no \in lo + 1 .. hi
        OBVIOUS
      <4>1. p[i] = q[i + 1] /\ i + 1 \in 1 .. Len(q)
        BY <2>1
      <4>2. PICK j \in 1 .. Len(q) : p[i] = q[j]
        BY <4>1
      <4> QED
        BY <1>2, <4>2
    <3>2. \A no \in lo + 1 .. hi :
            \E i \in 1 .. Len(p) : IsSend(p[i], s, r) /\ co[p[i].frame].no = no
      <4> SUFFICES ASSUME NEW no \in lo + 1 .. hi
                   PROVE  \E i \in 1 .. Len(p) : IsSend(p[i], s, r) /\ co[p[i].frame].no = no
        OBVIOUS
      <4>1. PICK k \in 1 .. Len(q) : IsSend(q[k], s, r) /\ No(k) = no
        BY <1>2
      <4>2. k - 1 \in 1 .. Len(p) /\ p[k - 1] = q[k]
        BY <2>1, <2>4, <4>1
      <4> QED
        BY <4>1, <4>2
    <3>3. InOrder(c, co, lo, hi, s, r)
      BY <1>2, <2>2, <3>1, <3>2 DEF InOrder
    <3> QED
      BY <1>4, <2>1, <2>4, <3>3
  <2> QED
    BY <2>3, <2>4
<1> QED
  BY <1>3, <1>4

\* A message that carries the frame just mixed comes after the others.  What
\* is in the frames under way (d: afterwards) stays.
LEMMA OrderPost ==
  ASSUME NEW M, NEW ch \in [Workers -> Seq(M)], NEW v \in Workers, NEW m \in M,
         NEW c, c = Posted(ch, v, m),
         NEW co, NEW d, NEW lo \in Nat, NEW hi \in Nat, NEW s \in Sess, NEW r \in Rooms,
         InOrder(ch, co, lo, hi, s, r), Untouched(ch, co, d)
  PROVE  /\ v = OwnerS[s] /\ IsSend(m, s, r) /\ d[m.frame].no = hi + 1
              => InOrder(c, d, lo, hi + 1, s, r)
         /\ ~(v = OwnerS[s] /\ IsSend(m, s, r)) => InOrder(c, d, lo, hi, s, r)
<1> DEFINE q == ch[OwnerS[s]]
           p == c[OwnerS[s]]
           n == Len(q)
           No(i) == d[q[i].frame].no
<1>0. OwnerS[s] \in Workers
  BY RoomAssumption
<1>1. /\ Len(ch[v]) \in Nat /\ Len(c[v]) = Len(ch[v]) + 1
      /\ c[v][Len(ch[v]) + 1] = m
      /\ \A i \in 1 .. Len(ch[v]) : c[v][i] = ch[v][i]
      /\ \A u \in Workers : u # v => c[u] = ch[u]
  BY PostPlaces
<1>2. InOrder(ch, d, lo, hi, s, r)
  <2>1. \A i \in 1 .. Len(q) : IsSend(q[i], s, r) => d[q[i].frame] = co[q[i].frame]
    BY <1>0 DEF Untouched, UnderWay, Carries, IsSend
  <2> QED
    BY <2>1 DEF InOrder
<1>3. /\ lo <= hi
      /\ \A i \in 1 .. Len(q) : IsSend(q[i], s, r) => No(i) \in lo + 1 .. hi
      /\ \A i, j \in 1 .. Len(q) :
           IsSend(q[i], s, r) /\ IsSend(q[j], s, r) /\ i < j => No(i) < No(j)
      /\ \A no \in lo + 1 .. hi :
           \E i \in 1 .. Len(q) : IsSend(q[i], s, r) /\ No(i) = no
  BY <1>2 DEF InOrder
<1>4. CASE v # OwnerS[s]
  <2>1. c[OwnerS[s]] = ch[OwnerS[s]]
    BY <1>0, <1>1, <1>4
  <2>2. InOrder(c, d, lo, hi, s, r)
    BY <1>2, <2>1 DEF InOrder
  <2> QED
    BY <1>4, <2>2
<1>5. CASE v = OwnerS[s]
  <2>1. /\ n \in Nat /\ n + 1 \in 1 .. Len(p) /\ p[n + 1] = m
        /\ \A i \in 1 .. n : i \in 1 .. Len(p) /\ p[i] = q[i]
        /\ \A i \in 1 .. Len(p) : i \in 1 .. n \/ i = n + 1
    BY <1>1, <1>5
  <2> HIDE DEF n
  <2>2. CASE ~IsSend(m, s, r)
    <3>1. \A i \in 1 .. Len(p) : IsSend(p[i], s, r) => i \in 1 .. n /\ p[i] = q[i]
      BY <2>1, <2>2
    <3>2. \A i \in 1 .. Len(p) : IsSend(p[i], s, r) => d[p[i].frame].no \in lo + 1 .. hi
      BY <1>3, <3>1 DEF n
    <3>3. \A i, j \in 1 .. Len(p) :
            IsSend(p[i], s, r) /\ IsSend(p[j], s, r) /\ i < j
              => d[p[i].frame].no < d[p[j].frame].no
      BY <1>3, <3>1, ZenonT(30) DEF n
    <3>4. \A no \in lo + 1 .. hi :
            \E i \in 1 .. Len(p) : IsSend(p[i], s, r) /\ d[p[i].frame].no = no
      <4> SUFFICES ASSUME NEW no \in lo + 1 .. hi
                   PROVE  \E i \in 1 .. Len(p) : IsSend(p[i], s, r) /\ d[p[i].frame].no = no
        OBVIOUS
      <4>1. PICK k \in 1 .. n : IsSend(q[k], s, r) /\ No(k) = no
        BY <1>3 DEF n
      <4> QED
        BY <2>1, <4>1
    <3>5. InOrder(c, d, lo, hi, s, r)
      BY <1>3, <3>2, <3>3, <3>4 DEF InOrder
    <3> QED
      BY <2>2, <3>5
  <2>3. CASE IsSend(m, s, r) /\ d[m.frame].no = hi + 1
    <3>1. \A i \in 1 .. Len(p) : IsSend(p[i], s, r) => d[p[i].frame].no \in lo + 1 .. hi + 1
      <4> SUFFICES ASSUME NEW i \in 1 .. Len(p), IsSend(p[i], s, r)
                   PROVE  d[p[i].frame].no \in lo + 1 .. hi + 1
        OBVIOUS
      <4>1. CASE i = n + 1
        <5>1. p[i] = m /\ lo <= hi /\ lo \in Nat /\ hi \in Nat
          BY <1>3, <2>1, <4>1
        <5>2. hi + 1 \in lo + 1 .. hi + 1
          BY <5>1
        <5> QED
          BY <2>3, <5>1, <5>2
      <4>2. CASE i \in 1 .. n
        <5>1. No(i) \in lo + 1 .. hi /\ d[p[i].frame].no = No(i)
          BY <1>3, <2>1, <4>2 DEF n
        <5> HIDE DEF No
        <5> QED
          BY <5>1
      <4> QED
        BY <2>1, <4>1, <4>2
    <3>2. \A i, j \in 1 .. Len(p) :
            IsSend(p[i], s, r) /\ IsSend(p[j], s, r) /\ i < j
              => d[p[i].frame].no < d[p[j].frame].no
      <4> SUFFICES ASSUME NEW i \in 1 .. Len(p), NEW j \in 1 .. Len(p),
                          IsSend(p[i], s, r), IsSend(p[j], s, r), i < j
                   PROVE  d[p[i].frame].no < d[p[j].frame].no
        OBVIOUS
      <4>1. i \in 1 .. n
        <5>1. /\ i \in 1 .. n \/ i = n + 1
              /\ j \in 1 .. n \/ j = n + 1
          BY <2>1
        <5> HIDE DEF p
        <5> QED
          BY <2>1, <5>1
      <4>2. No(i) \in lo + 1 .. hi /\ d[p[i].frame].no = No(i)
        BY <1>3, <2>1, <4>1 DEF n
      <4>3. CASE j = n + 1
        <5>1. d[p[j].frame].no = hi + 1
          BY <2>1, <2>3, <4>3
        <5> HIDE DEF No
        <5> QED
          BY <4>2, <5>1
      <4>4. CASE j \in 1 .. n
        BY <1>3, <2>1, <4>1, <4>4 DEF n
      <4> QED
        BY <2>1, <4>3, <4>4
    <3>3. \A no \in lo + 1 .. hi + 1 :
            \E i \in 1 .. Len(p) : IsSend(p[i], s, r) /\ d[p[i].frame].no = no
      <4> SUFFICES ASSUME NEW no \in lo + 1 .. hi + 1
                   PROVE  \E i \in 1 .. Len(p) : IsSend(p[i], s, r) /\ d[p[i].frame].no = no
        OBVIOUS
      <4>1. CASE no = hi + 1
        BY <2>1, <2>3, <4>1
      <4>2. CASE no # hi + 1
        <5>1. no \in lo + 1 .. hi
          BY <4>2
        <5>2. PICK k \in 1 .. n : IsSend(q[k], s, r) /\ No(k) = no
          BY <1>3, <5>1 DEF n
        <5> QED
          BY <2>1, <5>2
      <4> QED
        BY <4>1, <4>2
    <3>4. lo <= hi + 1
      BY <1>3, SMTT(30)
    <3>5. InOrder(c, d, lo, hi + 1, s, r)
      BY <3>1, <3>2, <3>3, <3>4 DEF InOrder
    <3> QED
      BY <1>5, <2>3, <3>5
  <2> QED
    BY <1>5, <2>2, <2>3
<1> QED
  BY <1>4, <1>5

\* A message that is taken leaves the others where they belong.
LEMMA RoutedTake ==
  ASSUME NEW M, NEW ch \in [Workers -> Seq(M)], NEW w \in Workers, ch[w] # <<>>,
         NEW c, c = Rest(ch, w), NEW co, Routed(ch, co)
  PROVE  Routed(c, co)
<1>1. /\ Len(ch[w]) \in Nat \ {0} /\ Len(c[w]) = Len(ch[w]) - 1
      /\ \A i \in 1 .. Len(c[w]) : c[w][i] = ch[w][i + 1]
      /\ \A v \in Workers : v # w => c[v] = ch[v]
  BY TakePlaces
<1> SUFFICES ASSUME NEW v \in Workers, NEW i \in 1 .. Len(c[v]), c[v][i].type = "send"
             PROVE  OwnerS[c[v][i].sess] = v /\ co[c[v][i].frame].sess = c[v][i].sess
  BY DEF Routed
<1>2. PICK k \in 1 .. Len(ch[v]) : c[v][i] = ch[v][k]
  <2>1. CASE v = w
    <3>1. i + 1 \in 1 .. Len(ch[w]) /\ c[w][i] = ch[w][i + 1]
      BY <1>1, <2>1
    <3> QED
      BY <2>1, <3>1
  <2>2. CASE v # w
    BY <1>1, <2>2
  <2> QED
    BY <2>1, <2>2
<1> QED
  BY <1>2 DEF Routed

\* So does a message that is posted to the right worker, if what is in the
\* frames under way stays.
LEMMA RoutedPost ==
  ASSUME NEW M, NEW ch \in [Workers -> Seq(M)], NEW v \in Workers, NEW m \in M,
         NEW c, c = Posted(ch, v, m), NEW co, NEW d, Routed(ch, co),
         Untouched(ch, co, d),
         m.type = "send" => OwnerS[m.sess] = v /\ d[m.frame].sess = m.sess
  PROVE  Routed(c, d)
<1>1. /\ Len(ch[v]) \in Nat /\ Len(c[v]) = Len(ch[v]) + 1
      /\ c[v][Len(ch[v]) + 1] = m
      /\ \A i \in 1 .. Len(ch[v]) : c[v][i] = ch[v][i]
      /\ \A u \in Workers : u # v => c[u] = ch[u]
  BY PostPlaces
<1> SUFFICES ASSUME NEW u \in Workers, NEW i \in 1 .. Len(c[u]), c[u][i].type = "send"
             PROVE  OwnerS[c[u][i].sess] = u /\ d[c[u][i].frame].sess = c[u][i].sess
  BY DEF Routed
<1>2. CASE u = v /\ i = Len(ch[v]) + 1
  BY <1>1, <1>2
<1>3. CASE ~(u = v /\ i = Len(ch[v]) + 1)
  <2>1. i \in 1 .. Len(ch[u]) /\ c[u][i] = ch[u][i]
    <3>1. CASE u = v
      BY <1>1, <1>3, <3>1
    <3>2. CASE u # v
      BY <1>1, <3>2
    <3> QED
      BY <3>1, <3>2
  <2>2. UnderWay(ch, ch[u][i].frame)
    BY <2>1 DEF UnderWay, Carries
  <2> QED
    BY <2>1, <2>2 DEF Routed, Untouched
<1> QED
  BY <1>2, <1>3

-----------------------------------------------------------------------------
(* What the steps do to the frames                                         *)

\* The frames and the messages there can be depend on how many were made.
LEMMA SameMade ==
  ASSUME made' = made
  PROVE  Frames' = Frames /\ Messages' = Messages
<1>1. Frames' = Frames
  BY DEF Frames
<1> QED
  BY <1>1 DEF Messages

\* The typed parts that the proofs about frames use.
LEMMA FrameTypes ==
  ASSUME TypeOK
  PROVE  /\ chan \in [Workers -> Seq(Messages)] /\ free \in [Rooms -> Seq(Frames)]
         /\ made \in [Rooms -> Nat] /\ content \in [Frames -> [sess : Sess, no : Nat]]
         /\ cache \in [Sess -> [Slots -> [frame : Frames \cup {NoFrame}, no : Nat]]]
         /\ \A s \in Sess, r \in Rooms : mixed[r][s] \in Nat /\ wire[s][r] \in Nat
         /\ NoFrame \notin Frames
<1>1. /\ chan \in [Workers -> Seq(Messages)] /\ free \in [Rooms -> Seq(Frames)]
      /\ made \in [Rooms -> Nat] /\ content \in [Frames -> [sess : Sess, no : Nat]]
      /\ cache \in [Sess -> [Slots -> [frame : Frames \cup {NoFrame}, no : Nat]]]
      /\ mixed \in [Rooms -> [Sess -> Nat]] /\ wire \in [Sess -> [Rooms -> Nat]]
  BY DEF TypeOK
<1>2. NoFrame \notin Frames
  BY <1>1, FrameIs
<1> QED
  BY <1>1, <1>2

\* A message that carries no frame is taken.
LEMMA TakeOther ==
  ASSUME RoomInv, NEW w \in Workers, chan[w] # <<>>, ~Carries(Head(chan[w])),
         chan' = Taken(w), UNCHANGED <<free, made, used, content, mixed, cache, wire>>
  PROVE  FramesInv' /\ chan' \in [Workers -> Seq(Messages')]
<1>0. /\ TypeOK /\ MsgsApart(chan) /\ OnePlace /\ Routed(chan, content)
      /\ chan \in [Workers -> Seq(Messages)] /\ chan' = Rest(chan, w)
      /\ Frames' = Frames /\ Messages' = Messages
      /\ \A s \in Sess, r \in Rooms : mixed[r][s] \in Nat /\ wire[s][r] \in Nat
  BY FrameTypes, SameMade DEF RoomInv, FramesInv, PlacesInv, Taken, Rest
<1>1. chan' \in [Workers -> Seq(Messages')]
  BY <1>0, TakePlaces
<1>2. MsgsApart(chan') /\ \A f : UnderWay(chan', f) <=> UnderWay(chan, f)
  BY <1>0, TakeApart
<1>3. OnePlace'
  <2>1. \A f : (Listed(free', f) <=> Listed(free, f)) /\ (Kept(cache', f) <=> Kept(cache, f))
    OBVIOUS
  <2> QED
    BY <1>0, <1>2, <2>1 DEF OnePlace
<1>4. PlacesInv'
  BY <1>2, <1>3 DEF RoomInv, FramesInv, PlacesInv, MsgsApart, ListsApart, SlotsApart
<1>5. Routed(chan, content)'
  <2>1. Routed(chan', content)
    BY <1>0, RoutedTake
  <2> QED
    BY <2>1 DEF Routed
<1>6. CacheInv'
  BY DEF RoomInv, FramesInv, CacheInv, CacheIntact
<1>7. ASSUME NEW s \in Sess, NEW r \in Rooms
      PROVE  InOrder(chan', content, wire[s][r], mixed[r][s], s, r)
  <2>1. InOrder(chan, content, wire[s][r], mixed[r][s], s, r)
    BY DEF RoomInv, FramesInv, OrderInv
  <2>2. ~IsSend(Head(chan[w]), s, r)
    BY DEF Carries, IsSend
  <2> QED
    BY <1>0, <2>1, <2>2, OrderTake
<1>8. OrderInv'
  BY <1>7 DEF OrderInv
<1> QED
  BY <1>1, <1>4, <1>5, <1>6, <1>8 DEF FramesInv

\* A message that carries no frame is posted.
LEMMA PostOther ==
  ASSUME RoomInv, NEW v \in Workers, NEW m \in Messages, ~Carries(m),
         chan' = Posted(chan, v, m),
         UNCHANGED <<free, made, used, content, mixed, cache, wire>>
  PROVE  FramesInv' /\ chan' \in [Workers -> Seq(Messages')]
<1>0. /\ TypeOK /\ MsgsApart(chan) /\ OnePlace /\ Routed(chan, content)
      /\ chan \in [Workers -> Seq(Messages)]
      /\ Frames' = Frames /\ Messages' = Messages
      /\ \A s \in Sess, r \in Rooms : mixed[r][s] \in Nat /\ wire[s][r] \in Nat
  BY FrameTypes, SameMade DEF RoomInv, FramesInv, PlacesInv
<1>u. Untouched(chan, content, content)
  BY DEF Untouched
<1>1. chan' \in [Workers -> Seq(Messages')]
  BY <1>0, PostPlaces
<1>2. MsgsApart(chan') /\ \A f : UnderWay(chan', f) <=> UnderWay(chan, f)
  BY <1>0, PostApart
<1>3. OnePlace'
  <2>1. \A f : (Listed(free', f) <=> Listed(free, f)) /\ (Kept(cache', f) <=> Kept(cache, f))
    OBVIOUS
  <2> QED
    BY <1>0, <1>2, <2>1 DEF OnePlace
<1>4. PlacesInv'
  BY <1>2, <1>3 DEF RoomInv, FramesInv, PlacesInv, MsgsApart, ListsApart, SlotsApart
<1>5. Routed(chan, content)'
  <2>1. m.type # "send"
    BY DEF Carries
  <2>2. Routed(chan', content)
    BY <1>0, <1>u, <2>1, RoutedPost
  <2> QED
    BY <2>2 DEF Routed
<1>6. CacheInv'
  BY DEF RoomInv, FramesInv, CacheInv, CacheIntact
<1>7. ASSUME NEW s \in Sess, NEW r \in Rooms
      PROVE  InOrder(chan', content, wire[s][r], mixed[r][s], s, r)
  <2>1. InOrder(chan, content, wire[s][r], mixed[r][s], s, r)
    BY DEF RoomInv, FramesInv, OrderInv
  <2>2. ~IsSend(m, s, r)
    BY DEF Carries, IsSend
  <2> QED
    BY <1>0, <1>u, <2>1, <2>2, OrderPost
<1>8. OrderInv'
  BY <1>7 DEF OrderInv
<1> QED
  BY <1>1, <1>4, <1>5, <1>6, <1>8 DEF FramesInv

\* FreeByChan2: the frame goes from its message to the list of its room.
LEMMA FramesFree ==
  ASSUME RoomInv, NEW w \in Workers, HandleFree(w)
  PROVE  FramesInv' /\ chan' \in [Workers -> Seq(Messages')]
         /\ free' \in [Rooms -> Seq(Frames')]
<1> DEFINE m == Head(chan[w])
           f == m.frame
<1>0. /\ TypeOK /\ MsgsApart(chan) /\ ListsApart(free) /\ SlotsApart(cache)
      /\ OnePlace /\ Routed(chan, content)
      /\ chan \in [Workers -> Seq(Messages)] /\ free \in [Rooms -> Seq(Frames)]
      /\ made \in [Rooms -> Nat]
      /\ \A s \in Sess, r \in Rooms : mixed[r][s] \in Nat /\ wire[s][r] \in Nat
  BY FrameTypes DEF RoomInv, FramesInv, PlacesInv
<1>b. chan[w] # <<>> /\ chan' = Rest(chan, w)
  BY DEF Taken, Rest, HandleFree, Next1
<1>c. /\ m.type = "free"
      /\ free' = Given(free, f)
      /\ used' = [used EXCEPT ![f.room] = @ - 1]
  BY DEF HandleFree, Next1, Given
<1>d. made' = made /\ content' = content /\ mixed' = mixed /\ cache' = cache /\ wire' = wire
  BY DEF HandleFree, sessVars
<1>e. chan \in [Workers -> Seq(Messages)] /\ MsgsApart(chan) /\ Routed(chan, content)
  BY <1>0
<1>f. free \in [Rooms -> Seq(Frames)] /\ ListsApart(free)
  BY <1>0
<1>a. Frames' = Frames /\ Messages' = Messages
  BY <1>d, SameMade
<1>1. /\ chan' \in [Workers -> Seq(Messages)] /\ m = chan[w][1] /\ m \in Messages
      /\ 1 \in 1 .. Len(chan[w])
  BY <1>0, <1>b, TakePlaces, SMTT(30)
<1>2. Carries(m) /\ f \in Frames /\ f.room \in Rooms
  <2>1. Carries(m) /\ f \in Frames
    BY <1>1, <1>c, MessageKinds DEF Carries
  <2> QED
    BY <1>0, <2>1, FrameIs
<1>3. UnderWay(chan, f) /\ ~Listed(free, f) /\ ~Kept(cache, f)
  <2>1. UnderWay(chan, f)
    BY <1>1, <1>2 DEF UnderWay
  <2> QED
    BY <1>0, <1>2, <2>1 DEF OnePlace
<1> HIDE DEF f, m
<1>4. MsgsApart(chan') /\ \A g : UnderWay(chan', g) <=> UnderWay(chan, g) /\ g # f
  <2>1. /\ MsgsApart(chan')
        /\ \A g : UnderWay(chan', g) <=> UnderWay(chan, g)
                    /\ ~(Carries(Head(chan[w])) /\ Head(chan[w]).frame = g)
    BY <1>b, <1>e, TakeApart
  <2> QED
    BY <1>2, <2>1 DEF m, f
<1>5. /\ free' \in [Rooms -> Seq(Frames)] /\ ListsApart(free')
      /\ Len(free'[f.room]) = Len(free[f.room]) + 1 /\ Len(free[f.room]) \in Nat
      /\ \A q \in Rooms : q # f.room => free'[q] = free[q]
      /\ \A g : Listed(free', g) <=> Listed(free, g) \/ g = f
  BY <1>f, <1>2, <1>3, <1>c, ListGive
<1>6. OnePlace'
  <2>1. \A g : Kept(cache', g) <=> Kept(cache, g)
    BY <1>d
  <2> QED
    BY <1>0, <1>a, <1>3, <1>4, <1>5, <2>1 DEF OnePlace
<1>7. ASSUME NEW r \in Rooms PROVE used'[r] = made'[r] - Len(free'[r])
  <2>1. used[r] = made[r] - Len(free[r]) /\ used \in [Rooms -> Nat] /\ made[r] \in Nat
    BY DEF RoomInv, TypeOK, FramesInv, PlacesInv
  <2>2. CASE r = f.room
    BY <1>c, <1>d, <1>2, <1>5, <2>1, <2>2
  <2>3. CASE r # f.room
    BY <1>c, <1>d, <1>5, <2>1, <2>3
  <2> QED
    BY <2>2, <2>3
<1>8. PlacesInv'
  <2>1. SlotsApart(cache')
    BY <1>0, <1>d
  <2> QED
    BY <1>4, <1>5, <1>6, <1>7, <2>1 DEF PlacesInv, MsgsApart, ListsApart, SlotsApart
<1>9. Routed(chan, content)'
  <2>1. Routed(chan', content)
    BY <1>b, <1>e, RoutedTake
  <2> QED
    BY <1>d, <2>1 DEF Routed
<1>10. CacheInv'
  BY <1>d DEF RoomInv, FramesInv, CacheInv, CacheIntact
<1>11. ASSUME NEW s \in Sess, NEW r \in Rooms
       PROVE  InOrder(chan', content, wire[s][r], mixed[r][s], s, r)
  <2>1. InOrder(chan, content, wire[s][r], mixed[r][s], s, r)
    BY DEF RoomInv, FramesInv, OrderInv
  <2>2. ~IsSend(Head(chan[w]), s, r)
    BY <1>c DEF IsSend, m
  <2> QED
    BY <1>b, <1>e, <1>0, <2>1, <2>2, OrderTake
<1>12. OrderInv'
  BY <1>d, <1>11 DEF OrderInv
<1> QED
  BY <1>a, <1>1, <1>5, <1>8, <1>9, <1>10, <1>12 DEF FramesInv

\* What is somewhere is a frame.
LEMMA PlacedFrames ==
  ASSUME TypeOK
  PROVE  /\ \A f : UnderWay(chan, f) => f \in Frames
         /\ \A f : Listed(free, f) => f \in Frames
         /\ \A f : Kept(cache, f) /\ f # NoFrame => f \in Frames
<1>0. /\ chan \in [Workers -> Seq(Messages)] /\ free \in [Rooms -> Seq(Frames)]
      /\ cache \in [Sess -> [Slots -> [frame : Frames \cup {NoFrame}, no : Nat]]]
  BY FrameTypes
<1>1. ASSUME NEW f, UnderWay(chan, f) PROVE f \in Frames
  <2>1. PICK w \in Workers : \E i \in 1 .. Len(chan[w]) :
          Carries(chan[w][i]) /\ chan[w][i].frame = f
    BY <1>1 DEF UnderWay
  <2>2. PICK i \in 1 .. Len(chan[w]) : Carries(chan[w][i]) /\ chan[w][i].frame = f
    BY <2>1
  <2>3. chan[w][i] \in Messages
    BY <1>0, ElementOfSeq
  <2> QED
    BY <2>2, <2>3, MessageKinds DEF Carries
<1>2. ASSUME NEW f, Listed(free, f) PROVE f \in Frames
  <2>1. PICK r \in Rooms : \E i \in 1 .. Len(free[r]) : free[r][i] = f
    BY <1>2 DEF Listed
  <2>2. PICK i \in 1 .. Len(free[r]) : free[r][i] = f
    BY <2>1
  <2>3. free[r][i] \in Frames
    BY <1>0, ElementOfSeq
  <2> QED
    BY <2>2, <2>3
<1>3. ASSUME NEW f, Kept(cache, f), f # NoFrame PROVE f \in Frames
  <2>1. PICK s \in Sess, k \in Slots : cache[s][k].frame = f
    BY <1>3 DEF Kept
  <2>2. cache[s][k] \in [frame : Frames \cup {NoFrame}, no : Nat]
    BY <1>0
  <2> QED
    BY <1>3, <2>1, <2>2
<1> QED
  BY <1>1, <1>2, <1>3

\* GetFreeFrame: the frame it gives was in the list of the room or is new;
\* it is nowhere else.
LEMMA FrameTaken ==
  ASSUME RoomInv, NEW r \in Rooms, NEW s \in Sess, Fill(r, s)
  PROVE  LET f == FreeFrame(r)
         IN /\ f.room = r /\ f # NoFrame /\ Frames' = Frames \cup {f}
            /\ ~UnderWay(chan, f) /\ ~Kept(cache, f)
            /\ made' \in [Rooms -> Nat] /\ free' \in [Rooms -> Seq(Frames')]
            /\ ListsApart(free')
            /\ \A g : Listed(free', g) <=> Listed(free, g) /\ g # f
            /\ \A q \in Rooms : used'[q] = made'[q] - Len(free'[q])
<1> DEFINE f == FreeFrame(r)
<1>0. /\ TypeOK /\ ListsApart(free) /\ OnePlace
      /\ made \in [Rooms -> Nat] /\ free \in [Rooms -> Seq(Frames)]
      /\ used \in [Rooms -> Nat] /\ NoFrame \notin Frames
      /\ \A q \in Rooms : used[q] = made[q] - Len(free[q])
  BY FrameTypes DEF RoomInv, FramesInv, PlacesInv, TypeOK
<1>u. used' = [used EXCEPT ![r] = @ + 1]
  BY DEF Fill
<1>1. CASE free[r] # <<>>
  <2>1. f = Head(free[r]) /\ free' = Rest(free, r) /\ made' = made
    BY <1>1 DEF Fill, FreeFrame, Rest
  <2> HIDE DEF f
  <2>a. free \in [Rooms -> Seq(Frames)] /\ free[r] # <<>> /\ ListsApart(free)
    BY <1>0, <1>1
  <2>b. free' = Rest(free, r)
    BY <2>1
  <2>2. /\ free' \in [Rooms -> Seq(Frames)] /\ ListsApart(free')
        /\ Len(free'[r]) = Len(free[r]) - 1 /\ Len(free[r]) \in Nat
        /\ \A q \in Rooms : q # r => free'[q] = free[q]
        /\ Head(free[r]) \in Frames /\ Head(free[r]).room = r
        /\ Listed(free, Head(free[r]))
        /\ \A g : Listed(free', g) <=> Listed(free, g) /\ g # Head(free[r])
    BY <2>a, <2>b, ListTake
  <2>3. Frames' = Frames /\ Frames = Frames \cup {f}
    BY <2>1, <2>2, SameMade
  <2>4. ~UnderWay(chan, f) /\ ~Kept(cache, f)
    BY <1>0, <2>1, <2>2 DEF OnePlace
  <2>5. ASSUME NEW q \in Rooms PROVE used'[q] = made'[q] - Len(free'[q])
    <3>1. used[q] = made[q] - Len(free[q]) /\ made[q] \in Nat
      BY <1>0
    <3>2. CASE q = r
      BY <1>0, <1>u, <2>1, <2>2, <3>1, <3>2
    <3>3. CASE q # r
      BY <1>0, <1>u, <2>1, <2>2, <3>1, <3>3
    <3> QED
      BY <3>2, <3>3
  <2>6. free' \in [Rooms -> Seq(Frames')] /\ Frames' = Frames \cup {f}
    BY <2>2, <2>3
  <2>7. made' \in [Rooms -> Nat] /\ f.room = r /\ f # NoFrame
    BY <1>0, <2>1, <2>2
  <2>8. \A g : Listed(free', g) <=> Listed(free, g) /\ g # f
    BY <2>1, <2>2
  <2> QED
    BY <2>2, <2>4, <2>5, <2>6, <2>7, <2>8 DEF f
<1>2. CASE free[r] = <<>>
  <2>1. /\ f = [room |-> r, n |-> made[r] + 1] /\ free' = free
        /\ made' = [made EXCEPT ![r] = @ + 1]
    BY <1>2 DEF Fill, FreeFrame
  <2>2. made[r] \in Nat /\ made' \in [Rooms -> Nat] /\ made'[r] = made[r] + 1
        /\ \A q \in Rooms : q # r => made'[q] = made[q]
    BY <1>0, <2>1
  <2>3. f.room = r /\ f.n = made[r] + 1
    BY <2>1
  <2> HIDE DEF f
  <2>4. f \notin Frames
    <3>1. f \in Frames => f.n \in 1 .. made[f.room]
      BY <1>0, FrameIs
    <3> QED
      BY <2>2, <2>3, <3>1
  <2>5. Frames' = Frames \cup {f}
    <3>1. ASSUME NEW g \in Frames PROVE g \in Frames'
      <4>1. g.room \in Rooms /\ g.n \in 1 .. made[g.room] /\ g = [room |-> g.room, n |-> g.n]
        BY <1>0, FrameIs
      <4>2. g.n \in 1 .. made'[g.room]
        BY <2>2, <4>1
      <4> QED
        BY <4>1, <4>2 DEF Frames
    <3>2. f \in Frames'
      <4>1. made[r] + 1 \in 1 .. made'[r]
        BY <2>2
      <4> QED
        BY <2>1, <4>1 DEF Frames
    <3>3. ASSUME NEW g \in Frames' PROVE g \in Frames \cup {f}
      <4>1. g.room \in Rooms /\ g.n \in 1 .. made'[g.room] /\ g = [room |-> g.room, n |-> g.n]
        BY DEF Frames
      <4>2. CASE g.room = r /\ g.n = made[r] + 1
        BY <2>1, <4>1, <4>2
      <4>3. CASE ~(g.room = r /\ g.n = made[r] + 1)
        <5>1. g.n \in 1 .. made[g.room]
          BY <2>2, <4>1, <4>3
        <5> QED
          BY <4>1, <5>1 DEF Frames
      <4> QED
        BY <4>2, <4>3
    <3> QED
      BY <3>1, <3>2, <3>3
  <2>6. f # NoFrame
    BY <2>3, RoomAssumption DEF NoFrame
  <2>7. ~UnderWay(chan, f) /\ ~Kept(cache, f) /\ ~Listed(free, f)
    BY <1>0, <2>4, <2>6, PlacedFrames
  <2>8. free' \in [Rooms -> Seq(Frames')]
    <3>1. Seq(Frames) \subseteq Seq(Frames')
      BY <2>5, SeqMonotonic
    <3> QED
      BY <1>0, <2>1, <3>1
  <2>9. ASSUME NEW q \in Rooms PROVE used'[q] = made'[q] - Len(free'[q])
    <3>1. used[q] = made[q] - Len(free[q]) /\ made[q] \in Nat /\ Len(free[q]) \in Nat
      BY <1>0, LenProperties
    <3>2. CASE q = r
      BY <1>0, <1>u, <2>1, <2>2, <3>1, <3>2
    <3>3. CASE q # r
      BY <1>0, <1>u, <2>1, <2>2, <3>1, <3>3
    <3> QED
      BY <3>2, <3>3
  <2>10. ListsApart(free') /\ \A g : Listed(free', g) <=> Listed(free, g) /\ g # f
    BY <1>0, <2>1, <2>7
  <2> QED
    BY <2>2, <2>3, <2>5, <2>6, <2>7, <2>8, <2>9, <2>10 DEF f
<1> QED
  BY <1>1, <1>2

\* The messages there can be grow with the frames.
LEMMA MoreMessages ==
  ASSUME NEW f, Frames' = Frames \cup {f}
  PROVE  Messages \subseteq Messages' /\ Seq(Messages) \subseteq Seq(Messages')
<1>1. Messages \subseteq Messages'
  BY DEF Messages
<1> QED
  BY <1>1, SeqMonotonic

\* What the room puts into the frame, and where it goes.
LEMMA FramesFill ==
  ASSUME RoomInv, NEW r \in Rooms, NEW s \in Sess, Fill(r, s),
         UNCHANGED <<cache, wire>>
  PROVE  /\ FramesInv' /\ chan' \in [Workers -> Seq(Messages')]
         /\ free' \in [Rooms -> Seq(Frames')] /\ made' \in [Rooms -> Nat]
         /\ content' \in [Frames' -> [sess : Sess, no : Nat]]
         /\ mixed' \in [Rooms -> [Sess -> Nat]]
         /\ Frames \subseteq Frames'
<1> DEFINE f  == FreeFrame(r)
           no == mixed[r][s] + 1
           m  == [type |-> "send", sess |-> s, frame |-> f]
           v  == OwnerS[s]
<1>0. /\ TypeOK /\ MsgsApart(chan) /\ OnePlace /\ Routed(chan, content)
      /\ chan \in [Workers -> Seq(Messages)] /\ NoFrame \notin Frames
      /\ content \in [Frames -> [sess : Sess, no : Nat]]
      /\ mixed \in [Rooms -> [Sess -> Nat]]
      /\ \A t \in Sess, q \in Rooms : mixed[q][t] \in Nat /\ wire[t][q] \in Nat
  BY FrameTypes DEF RoomInv, FramesInv, PlacesInv, TypeOK
<1>1. chan' = Posted(chan, v, m)
  BY DEF Fill
<1>m. mixed' = [mixed EXCEPT ![r][s] = no]
  BY DEF Fill
<1>n. content' = [g \in DOMAIN content \cup {f} |->
                   IF g = f THEN [sess |-> s, no |-> no] ELSE content[g]]
  BY DEF Fill
<1>2. /\ f.room = r /\ f # NoFrame /\ Frames' = Frames \cup {f}
      /\ ~UnderWay(chan, f) /\ ~Kept(cache, f)
      /\ made' \in [Rooms -> Nat] /\ free' \in [Rooms -> Seq(Frames')]
      /\ ListsApart(free')
      /\ \A g : Listed(free', g) <=> Listed(free, g) /\ g # f
      /\ \A q \in Rooms : used'[q] = made'[q] - Len(free'[q])
  BY FrameTaken
<1>3. v \in Workers /\ no \in Nat
  BY <1>0, RoomAssumption
<1>4. m.type = "send" /\ m.sess = s /\ m.frame = f
  OBVIOUS
<1> HIDE DEF f
<1>5. m \in Messages'
  BY <1>2 DEF Messages
<1> HIDE DEF m, v, no
<1>6. chan \in [Workers -> Seq(Messages')]
  BY <1>0, <1>2, MoreMessages
<1>c. /\ v \in Workers /\ m \in Messages' /\ chan \in [Workers -> Seq(Messages')]
      /\ chan' = Posted(chan, v, m)
  BY <1>1, <1>3, <1>5, <1>6
<1>d. MsgsApart(chan) /\ Routed(chan, content)
  BY <1>0
<1>7. Carries(m) /\ m.frame = f
  BY <1>4 DEF Carries
<1>8. MsgsApart(chan') /\ \A g : UnderWay(chan', g) <=> UnderWay(chan, g) \/ g = f
  <2>1. /\ MsgsApart(chan')
        /\ \A g : UnderWay(chan', g) <=> UnderWay(chan, g) \/ (Carries(m) /\ m.frame = g)
    BY <1>2, <1>7, <1>c, <1>d, PostApart
  <2> QED
    BY <1>7, <2>1
<1>9. chan' \in [Workers -> Seq(Messages')]
  BY <1>c, PostPlaces
<1>10. OnePlace'
  <2>1. \A g : Kept(cache', g) <=> Kept(cache, g)
    OBVIOUS
  <2> QED
    BY <1>0, <1>2, <1>8, <2>1 DEF OnePlace
<1>11. PlacesInv'
  <2>1. SlotsApart(cache')
    BY DEF RoomInv, FramesInv, PlacesInv
  <2> QED
    BY <1>2, <1>8, <1>10, <2>1 DEF PlacesInv
<1>12. /\ content' \in [Frames' -> [sess : Sess, no : Nat]]
       /\ content'[f] = [sess |-> s, no |-> no]
       /\ \A g \in Frames : g # f => content'[g] = content[g]
  <2>1. DOMAIN content = Frames
    BY <1>0
  <2>2. content' = [g \in Frames' |->
                      IF g = f THEN [sess |-> s, no |-> no] ELSE content[g]]
    BY <1>n, <1>2, <2>1
  <2>3. [sess |-> s, no |-> no] \in [sess : Sess, no : Nat]
    BY <1>3
  <2> QED
    BY <1>0, <1>2, <2>2, <2>3
<1>13. Untouched(chan, content, content')
  BY <1>0, <1>2, <1>12, PlacedFrames DEF Untouched
<1>14. Routed(chan', content')
  <2>1. content'[f].sess = s
    BY <1>12
  <2>2. m.type = "send" => OwnerS[m.sess] = v /\ content'[m.frame].sess = m.sess
    BY <1>4, <2>1 DEF v
  <2> QED
    BY <1>c, <1>d, <1>13, <2>2, RoutedPost
<1>15. CacheInv'
  <2>1. \A t \in Sess, k \in Slots :
          /\ cache[t][k].no # 0 =>
               content[cache[t][k].frame] = [sess |-> t, no |-> cache[t][k].no]
          /\ cache[t][k].frame = NoFrame <=> cache[t][k].no = 0
    BY DEF RoomInv, FramesInv, CacheInv, CacheIntact
  <2>2. ASSUME NEW t \in Sess, NEW k \in Slots, cache[t][k].no # 0
        PROVE  content'[cache[t][k].frame] = content[cache[t][k].frame]
    <3>1. Kept(cache, cache[t][k].frame)
      BY DEF Kept
    <3>2. cache[t][k].frame # NoFrame
      BY <2>1, <2>2
    <3> QED
      BY <1>0, <1>2, <1>12, <3>1, <3>2, PlacedFrames
  <2>3. cache' = cache
    OBVIOUS
  <2>4. CacheIntact'
    BY <2>1, <2>2, <2>3 DEF CacheIntact
  <2>5. \A t \in Sess, k \in Slots : cache'[t][k].frame = NoFrame <=> cache'[t][k].no = 0
    <3>1. \A t \in Sess, k \in Slots : cache[t][k].frame = NoFrame <=> cache[t][k].no = 0
      BY <2>1
    <3> QED
      BY <2>3, <3>1
  <2> QED
    BY <2>4, <2>5 DEF CacheInv
<1>16. mixed' \in [Rooms -> [Sess -> Nat]] /\ mixed'[r][s] = no
       /\ \A t \in Sess, q \in Rooms : t # s \/ q # r => mixed'[q][t] = mixed[q][t]
  BY <1>0, <1>m, <1>3
<1>17. ASSUME NEW t \in Sess, NEW q \in Rooms
       PROVE  InOrder(chan', content', wire'[t][q], mixed'[q][t], t, q)
  <2>1. InOrder(chan, content, wire[t][q], mixed[q][t], t, q)
    BY DEF RoomInv, FramesInv, OrderInv
  <2>3. /\ v = OwnerS[t] /\ IsSend(m, t, q) /\ content'[m.frame].no = mixed[q][t] + 1
             => InOrder(chan', content', wire[t][q], mixed[q][t] + 1, t, q)
        /\ ~(v = OwnerS[t] /\ IsSend(m, t, q))
             => InOrder(chan', content', wire[t][q], mixed[q][t], t, q)
    <3>1. mixed[q][t] \in Nat /\ wire[t][q] \in Nat
      BY <1>0
    <3> QED
      BY <1>c, <1>13, <2>1, <3>1, OrderPost
  <2>4. CASE t = s /\ q = r
    <3>1. IsSend(m, t, q) /\ v = OwnerS[t]
      BY <1>2, <1>4, <2>4 DEF IsSend, v
    <3>2. content'[m.frame].no = mixed[q][t] + 1
      BY <1>4, <1>12, <2>4 DEF no
    <3>3. mixed'[q][t] = mixed[q][t] + 1
      BY <1>16, <2>4 DEF no
    <3> QED
      BY <2>3, <3>1, <3>2, <3>3
  <2>5. CASE t # s \/ q # r
    <3>1. ~IsSend(m, t, q)
      BY <1>2, <1>4, <2>5 DEF IsSend
    <3> QED
      BY <1>16, <2>3, <2>5, <3>1
  <2> QED
    BY <2>4, <2>5
<1>18. OrderInv'
  BY <1>17 DEF OrderInv
<1>19. Routed(chan, content)'
  BY <1>14
<1> QED
  BY <1>2, <1>9, <1>11, <1>12, <1>15, <1>16, <1>18, <1>19 DEF FramesInv

\* The frame to be sent: it was filled for this session, after the one the
\* session was sent last.
LEMMA SendNext ==
  ASSUME RoomInv, NEW w \in Workers, HandleSend(w)
  PROVE  LET m == Head(chan[w])
         IN /\ m \in Messages /\ Carries(m) /\ m.type = "send"
            /\ m.sess \in Sess /\ m.frame \in Frames /\ m.frame.room \in Rooms
            /\ w = OwnerS[m.sess] /\ UnderWay(chan, m.frame)
            /\ content[m.frame] = [sess |-> m.sess, no |-> wire[m.sess][m.frame.room] + 1]
<1> DEFINE m == Head(chan[w])
           s == m.sess
           r == m.frame.room
<1>0. /\ chan \in [Workers -> Seq(Messages)] /\ made \in [Rooms -> Nat]
      /\ content \in [Frames -> [sess : Sess, no : Nat]] /\ Routed(chan, content)
      /\ \A t \in Sess, q \in Rooms : mixed[q][t] \in Nat /\ wire[t][q] \in Nat
  BY FrameTypes DEF RoomInv, FramesInv
<1>a. chan \in [Workers -> Seq(Messages)] /\ chan[w] # <<>>
  BY <1>0 DEF HandleSend, Next1
<1>b. m.type = "send"
  BY DEF HandleSend, Next1
<1>1. m = chan[w][1] /\ m \in Messages /\ 1 \in 1 .. Len(chan[w])
  <2>1. PICK c : c = Rest(chan, w)
    OBVIOUS
  <2> QED
    BY <1>a, <2>1, TakePlaces
<1>2. s \in Sess /\ m.frame \in Frames /\ r \in Rooms
  <2>1. s \in Sess /\ m.frame \in Frames
    BY <1>1, <1>b, MessageKinds
  <2> QED
    BY <1>0, <2>1, FrameIs
<1>3. w = OwnerS[s] /\ content[m.frame].sess = s
  BY <1>0, <1>1, <1>b DEF Routed
<1>4. Carries(m)
  BY <1>b DEF Carries
<1>5. UnderWay(chan, m.frame)
  BY <1>1, <1>4 DEF UnderWay
<1>6. IsSend(Head(chan[w]), s, r)
  BY <1>b DEF IsSend
<1> HIDE DEF m, s, r
<1>7. content[m.frame].no = wire[s][r] + 1
  <2>1. InOrder(chan, content, wire[s][r], mixed[r][s], s, r)
    BY <1>2 DEF RoomInv, FramesInv, OrderInv
  <2>2. wire[s][r] \in Nat /\ mixed[r][s] \in Nat
    BY <1>0, <1>2
  <2>3. content[Head(chan[w]).frame].no = wire[s][r] + 1
    <3>1. chan[w] # <<>> /\ chan \in [Workers -> Seq(Messages)]
      BY <1>a
    <3>2. PICK c : c = Rest(chan, w)
      OBVIOUS
    <3> DEFINE lo == wire[s][r]
               hi == mixed[r][s]
    <3>3. /\ lo \in Nat /\ hi \in Nat /\ s \in Sess /\ r \in Rooms
          /\ w = OwnerS[s] /\ InOrder(chan, content, lo, hi, s, r)
      BY <1>2, <1>3, <2>1, <2>2
    <3> HIDE DEF lo, hi
    <3>4. content[Head(chan[w]).frame].no = lo + 1
      BY <1>6, <3>1, <3>2, <3>3, OrderTake
    <3> QED
      BY <3>4 DEF lo
  <2> QED
    BY <2>3 DEF m
<1>8. content[m.frame] = [sess |-> s, no |-> wire[s][r] + 1]
  <2>1. content[m.frame] \in [sess : Sess, no : Nat]
    BY <1>0, <1>2
  <2> QED
    BY <1>3, <1>7, <2>1
<1> QED
  BY <1>1, <1>2, <1>3, <1>4, <1>5, <1>8, <1>b DEF m, s, r

\* The slot of the next packet.
LEMMA SlotOf ==
  ASSUME NEW n \in Nat
  PROVE  n % sess_cache_LEN \in Slots
<1>1. \A m \in Nat \ {0} : \A x \in Nat : x % m \in 0 .. m - 1
  OBVIOUS
<1> QED
  BY <1>1, RoomAssumption DEF Slots

\* SendDataQueue: the frame goes from its message into a slot, and the one
\* that was there into a message to its room.
LEMMA FramesSend ==
  ASSUME RoomInv, NEW w \in Workers, HandleSend(w)
  PROVE  /\ FramesInv' /\ chan' \in [Workers -> Seq(Messages')]
         /\ cache' \in [Sess -> [Slots -> [frame : Frames' \cup {NoFrame}, no : Nat]]]
         /\ wire' \in [Sess -> [Rooms -> Nat]]
<1> DEFINE m    == Head(chan[w])
           f    == m.frame
           s    == m.sess
           slot == (sndseq[s] + 1) % sess_cache_LEN
           old  == cache[s][slot].frame
           no   == content[f].no
           e    == [frame |-> f, no |-> no]
           c1   == Rest(chan, w)
           back == [type |-> "free", frame |-> old]
<1>t. /\ chan \in [Workers -> Seq(Messages)] /\ made \in [Rooms -> Nat]
      /\ free \in [Rooms -> Seq(Frames)]
      /\ cache \in [Sess -> [Slots -> [frame : Frames \cup {NoFrame}, no : Nat]]]
      /\ content \in [Frames -> [sess : Sess, no : Nat]] /\ NoFrame \notin Frames
      /\ \A t \in Sess, q \in Rooms : mixed[q][t] \in Nat /\ wire[t][q] \in Nat
      /\ sndseq \in [Sess -> Nat] /\ wire \in [Sess -> [Rooms -> Nat]]
  BY FrameTypes DEF RoomInv, TypeOK
<1>p. /\ MsgsApart(chan) /\ ListsApart(free) /\ SlotsApart(cache) /\ OnePlace
      /\ Routed(chan, content)
  BY DEF RoomInv, FramesInv, PlacesInv
<1>1. /\ m \in Messages /\ Carries(m) /\ m.type = "send"
      /\ s \in Sess /\ f \in Frames /\ f.room \in Rooms
      /\ w = OwnerS[s] /\ UnderWay(chan, f)
      /\ content[f] = [sess |-> s, no |-> wire[s][f.room] + 1]
  BY SendNext
<1>2. /\ chan' = IF old = NoFrame THEN c1 ELSE Posted(c1, OwnerR[old.room], back)
      /\ cache' = Overwritten(cache, s, slot, e)
  BY DEF HandleSend, Taken, WriteFree2, Rest, Overwritten
<1>3. wire' = [wire EXCEPT ![s][f.room] = no]
  BY DEF HandleSend
<1>4. made' = made /\ free' = free /\ used' = used /\ content' = content /\ mixed' = mixed
  BY DEF HandleSend, roomVars
<1>5. chan[w] # <<>>
  BY DEF HandleSend, Next1
<1>6. back.type = "free" /\ back.frame = old /\ e.frame = f /\ e.no = no
  OBVIOUS
<1>7. slot \in Slots
  <2>1. sndseq[s] + 1 \in Nat
    BY <1>t, <1>1
  <2> HIDE DEF s
  <2> QED
    BY <2>1, SlotOf
<1>8. no = wire[s][f.room] + 1 /\ no \in Nat /\ no # 0
  BY <1>t, <1>1
<1>9. old \in Frames \cup {NoFrame}
  <2>1. s \in Sess /\ slot \in Slots
    BY <1>1, <1>7
  <2> HIDE DEF s, slot
  <2>2. cache[s][slot] \in [frame : Frames \cup {NoFrame}, no : Nat]
    BY <1>t, <2>1
  <2> QED
    BY <2>2
<1>10. e \in [frame : Frames \cup {NoFrame}, no : Nat]
  BY <1>1, <1>8
<1>11. old # NoFrame => back \in Messages /\ OwnerR[old.room] \in Workers
  <2> SUFFICES ASSUME old # NoFrame PROVE back \in Messages /\ OwnerR[old.room] \in Workers
    OBVIOUS
  <2>1. old \in Frames
    BY <1>9
  <2>2. old.room \in Rooms
    BY <1>t, <2>1, FrameIs
  <2>3. back \in Messages
    BY <2>1 DEF Messages
  <2> QED
    BY <2>2, <2>3, RoomAssumption
<1> HIDE DEF f, s, slot, old, no, e, c1, back
<1>a. Frames' = Frames /\ Messages' = Messages
  BY <1>4, SameMade
<1>12. chan \in [Workers -> Seq(Messages)] /\ chan[w] # <<>> /\ c1 = Rest(chan, w)
  BY <1>t, <1>5 DEF c1
<1>13. c1 \in [Workers -> Seq(Messages)]
  BY <1>12, TakePlaces
<1>14. MsgsApart(c1) /\ \A g : UnderWay(c1, g) <=> UnderWay(chan, g) /\ g # f
  <2>1. MsgsApart(chan)
    BY <1>p
  <2>2. /\ MsgsApart(c1)
        /\ \A g : UnderWay(c1, g) <=> UnderWay(chan, g)
                    /\ ~(Carries(Head(chan[w])) /\ Head(chan[w]).frame = g)
    BY <1>12, <2>1, TakeApart
  <2> QED
    BY <1>1, <2>2 DEF f
<1>15. f # NoFrame /\ ~Kept(cache, f) /\ ~Listed(free, f)
  BY <1>t, <1>p, <1>1 DEF OnePlace
<1>16. /\ cache' \in [Sess -> [Slots -> [frame : Frames \cup {NoFrame}, no : Nat]]]
       /\ SlotsApart(cache') /\ cache'[s][slot] = e
       /\ \A t \in Sess, i \in Slots : t # s \/ i # slot => cache'[t][i] = cache[t][i]
       /\ \A g : g # NoFrame =>
            (Kept(cache', g) <=> g = f \/ (Kept(cache, g) /\ g # old))
  <2>1. /\ cache \in [Sess -> [Slots -> [frame : Frames \cup {NoFrame}, no : Nat]]]
        /\ SlotsApart(cache) /\ s \in Sess /\ e.frame # NoFrame /\ ~Kept(cache, e.frame)
    BY <1>t, <1>p, <1>1, <1>6, <1>15
  <2>2. cache' = Overwritten(cache, s, slot, e)
    BY <1>2
  <2>3. /\ cache' \in [Sess -> [Slots -> [frame : Frames \cup {NoFrame}, no : Nat]]]
        /\ SlotsApart(cache') /\ cache'[s][slot] = e
        /\ \A t \in Sess, i \in Slots : t # s \/ i # slot => cache'[t][i] = cache[t][i]
        /\ \A g : g # NoFrame =>
             (Kept(cache', g) <=> g = e.frame \/ (Kept(cache, g) /\ g # cache[s][slot].frame))
    <3> DEFINE E == [frame : Frames \cup {NoFrame}, no : Nat]
    <3>1. CanWrite(E, cache, s, slot, e)
      BY <1>7, <1>10, <2>1 DEF CanWrite
    <3> HIDE DEF E
    <3>2. /\ cache' \in [Sess -> [Slots -> E]]
          /\ SlotsApart(cache') /\ cache'[s][slot] = e
          /\ \A t \in Sess, i \in Slots : t # s \/ i # slot => cache'[t][i] = cache[t][i]
          /\ \A g : g # NoFrame =>
               (Kept(cache', g) <=> g = e.frame \/ (Kept(cache, g) /\ g # cache[s][slot].frame))
      BY <2>2, <3>1, SlotTake
    <3> QED
      BY <3>2 DEF E
  <2> QED
    BY <1>6, <2>3 DEF old
<1>17. old # NoFrame => Kept(cache, old) /\ ~UnderWay(chan, old) /\ ~Listed(free, old)
  <2> SUFFICES ASSUME old # NoFrame
               PROVE  Kept(cache, old) /\ ~UnderWay(chan, old) /\ ~Listed(free, old)
    OBVIOUS
  <2>1. Kept(cache, old)
    BY <1>1, <1>7 DEF Kept, old
  <2>2. old \in Frames
    BY <1>9
  <2> QED
    BY <1>p, <2>1, <2>2 DEF OnePlace
<1>18. /\ chan' \in [Workers -> Seq(Messages)] /\ MsgsApart(chan')
       /\ \A g : UnderWay(chan', g)
                   <=> (UnderWay(chan, g) /\ g # f) \/ (old # NoFrame /\ g = old)
  <2>1. CASE old = NoFrame
    BY <1>2, <1>13, <1>14, <2>1
  <2>2. CASE old # NoFrame
    <3>1. /\ chan' = Posted(c1, OwnerR[old.room], back)
          /\ back \in Messages /\ OwnerR[old.room] \in Workers
          /\ c1 \in [Workers -> Seq(Messages)]
      BY <1>2, <1>11, <1>13, <2>2
    <3>2. chan' \in [Workers -> Seq(Messages)]
      BY <3>1, PostPlaces
    <3>3. Carries(back) /\ back.frame = old
      BY <1>6 DEF Carries
    <3>4. MsgsApart(c1) /\ ~UnderWay(c1, back.frame)
      BY <1>14, <1>17, <2>2, <3>3
    <3>5. /\ MsgsApart(chan')
          /\ \A g : UnderWay(chan', g) <=> UnderWay(c1, g) \/ (Carries(back) /\ back.frame = g)
      BY <3>1, <3>4, PostApart
    <3> QED
      BY <1>14, <2>2, <3>2, <3>3, <3>5
  <2> QED
    BY <2>1, <2>2
<1>19. OnePlace'
  <2> SUFFICES ASSUME NEW g \in Frames
               PROVE  \/ UnderWay(chan', g) /\ ~Listed(free', g) /\ ~Kept(cache', g)
                      \/ ~UnderWay(chan', g) /\ Listed(free', g) /\ ~Kept(cache', g)
                      \/ ~UnderWay(chan', g) /\ ~Listed(free', g) /\ Kept(cache', g)
    BY <1>a DEF OnePlace
  <2>1. g # NoFrame
    BY <1>t
  <2>2. \/ UnderWay(chan, g) /\ ~Listed(free, g) /\ ~Kept(cache, g)
        \/ ~UnderWay(chan, g) /\ Listed(free, g) /\ ~Kept(cache, g)
        \/ ~UnderWay(chan, g) /\ ~Listed(free, g) /\ Kept(cache, g)
    BY <1>p DEF OnePlace
  <2>3. Listed(free', g) <=> Listed(free, g)
    BY <1>4
  <2>4. Kept(cache', g) <=> g = f \/ (Kept(cache, g) /\ g # old)
    BY <1>16, <2>1
  <2>5. UnderWay(chan', g) <=> (UnderWay(chan, g) /\ g # f) \/ g = old
    BY <1>18, <2>1
  <2>6. CASE g = f
    BY <1>1, <1>15, <1>17, <2>1, <2>3, <2>4, <2>5, <2>6
  <2>7. CASE g # f /\ g = old
    BY <1>17, <2>1, <2>3, <2>4, <2>5, <2>7
  <2>8. CASE g # f /\ g # old
    BY <2>2, <2>3, <2>4, <2>5, <2>8
  <2> QED
    BY <2>6, <2>7, <2>8
<1>20. PlacesInv'
  <2>1. \A r \in Rooms : used'[r] = made'[r] - Len(free'[r])
    BY <1>4 DEF RoomInv, FramesInv, PlacesInv
  <2>2. ListsApart(free')
    BY <1>4, <1>p
  <2> QED
    BY <1>16, <1>18, <1>19, <2>1, <2>2 DEF PlacesInv
<1>21. Routed(chan', content)
  <2>1. Routed(c1, content)
    BY <1>12, <1>p, RoutedTake
  <2>2. CASE old = NoFrame
    BY <1>2, <2>1, <2>2
  <2>3. CASE old # NoFrame
    <3>1. /\ chan' = Posted(c1, OwnerR[old.room], back)
          /\ back \in Messages /\ OwnerR[old.room] \in Workers
          /\ c1 \in [Workers -> Seq(Messages)] /\ back.type # "send"
      BY <1>2, <1>6, <1>11, <1>13, <2>3
    <3>2. Untouched(c1, content, content)
      BY DEF Untouched
    <3> QED
      BY <2>1, <3>1, <3>2, RoutedPost
  <2> QED
    BY <2>2, <2>3
<1>22. CacheInv'
  <2>1. \A t \in Sess, k \in Slots :
          /\ cache[t][k].no # 0 =>
               content[cache[t][k].frame] = [sess |-> t, no |-> cache[t][k].no]
          /\ cache[t][k].frame = NoFrame <=> cache[t][k].no = 0
    BY DEF RoomInv, FramesInv, CacheInv, CacheIntact
  <2>2. ASSUME NEW t \in Sess, NEW k \in Slots
        PROVE  /\ cache'[t][k].no # 0 =>
                    content'[cache'[t][k].frame] = [sess |-> t, no |-> cache'[t][k].no]
               /\ cache'[t][k].frame = NoFrame <=> cache'[t][k].no = 0
    <3>1. CASE t = s /\ k = slot
      BY <1>1, <1>4, <1>6, <1>8, <1>15, <1>16, <3>1
    <3>2. CASE ~(t = s /\ k = slot)
      BY <1>4, <1>16, <2>1, <3>2
    <3> QED
      BY <3>1, <3>2
  <2> QED
    BY <2>2 DEF CacheInv, CacheIntact
<1>23. /\ wire' \in [Sess -> [Rooms -> Nat]] /\ wire'[s][f.room] = wire[s][f.room] + 1
       /\ \A t \in Sess, q \in Rooms : t # s \/ q # f.room => wire'[t][q] = wire[t][q]
  BY <1>t, <1>1, <1>3, <1>8
<1>24. ASSUME NEW t \in Sess, NEW q \in Rooms
       PROVE  InOrder(chan', content, wire'[t][q], mixed[q][t], t, q)
  <2>1. /\ InOrder(chan, content, wire[t][q], mixed[q][t], t, q)
        /\ wire[t][q] \in Nat /\ mixed[q][t] \in Nat
    BY <1>t DEF RoomInv, FramesInv, OrderInv
  <2>2. /\ w = OwnerS[t] /\ IsSend(Head(chan[w]), t, q)
             => InOrder(c1, content, wire[t][q] + 1, mixed[q][t], t, q)
        /\ ~(w = OwnerS[t] /\ IsSend(Head(chan[w]), t, q))
             => InOrder(c1, content, wire[t][q], mixed[q][t], t, q)
    BY <1>12, <2>1, OrderTake
  <2>3. IsSend(Head(chan[w]), t, q) <=> t = s /\ q = f.room
    BY <1>1 DEF IsSend, s, f
  <2>4. InOrder(c1, content, wire'[t][q], mixed[q][t], t, q)
    <3>1. CASE t = s /\ q = f.room
      BY <1>1, <1>23, <2>2, <2>3, <3>1
    <3>2. CASE ~(t = s /\ q = f.room)
      BY <1>23, <2>2, <2>3, <3>2
    <3> QED
      BY <3>1, <3>2
  <2>5. CASE old = NoFrame
    BY <1>2, <2>4, <2>5
  <2>6. CASE old # NoFrame
    <3>1. /\ chan' = Posted(c1, OwnerR[old.room], back)
          /\ back \in Messages /\ OwnerR[old.room] \in Workers
          /\ c1 \in [Workers -> Seq(Messages)]
      BY <1>2, <1>11, <1>13, <2>6
    <3>2. Untouched(c1, content, content)
      BY DEF Untouched
    <3>3. ~IsSend(back, t, q)
      BY <1>6 DEF IsSend
    <3>4. wire'[t][q] \in Nat /\ mixed[q][t] \in Nat
      BY <1>23, <2>1
    <3> QED
      BY <2>4, <3>1, <3>2, <3>3, <3>4, OrderPost
  <2> QED
    BY <2>5, <2>6
<1>25. OrderInv'
  BY <1>4, <1>24 DEF OrderInv
<1>26. Routed(chan, content)'
  BY <1>4, <1>21
<1> QED
  BY <1>a, <1>16, <1>18, <1>20, <1>22, <1>23, <1>25, <1>26 DEF FramesInv

-----------------------------------------------------------------------------
(* Types                                                                   *)

\* A list has no more frames than were made, so that the count of those that
\* are out is never negative.
LEMMA UsedNat ==
  ASSUME NEW mk \in [Rooms -> Nat], NEW F, NEW fr \in [Rooms -> Seq(F)], ListsApart(fr),
         \A f \in F : f = [room |-> f.room, n |-> f.n] /\ f.n \in 1 .. mk[f.room],
         NEW r \in Rooms
  PROVE  mk[r] - Len(fr[r]) \in Nat
<1> DEFINE q == fr[r]
           n == mk[r]
           g == [i \in 1 .. Len(q) |-> q[i].n]
<1>1. n \in Nat /\ q \in Seq(F) /\ Len(q) \in Nat
  BY LenProperties
<1>2. \A i \in 1 .. Len(q) : q[i] = [room |-> r, n |-> q[i].n] /\ q[i].n \in 1 .. n
  <2> SUFFICES ASSUME NEW i \in 1 .. Len(q)
               PROVE  q[i] = [room |-> r, n |-> q[i].n] /\ q[i].n \in 1 .. n
    OBVIOUS
  <2>1. q[i] \in F
    BY <1>1, ElementOfSeq
  <2>2. q[i].room = r
    BY DEF ListsApart
  <2> QED
    BY <2>1, <2>2
<1>3. \A i, j \in 1 .. Len(q) : q[i] = q[j] => i = j
  BY DEF ListsApart
<1> HIDE DEF q, n
<1>4. g \in [1 .. Len(q) -> 1 .. n]
  BY <1>2
<1>5. \A i, j \in 1 .. Len(q) : g[i] = g[j] => i = j
  BY <1>2, <1>3, ZenonT(30)
<1> HIDE DEF g
<1>6. g \in Injection(1 .. Len(q), 1 .. n)
  BY <1>4, <1>5 DEF Injection, IsInjective
<1>7. /\ IsFiniteSet(1 .. n) /\ Cardinality(1 .. n) = n
      /\ Cardinality(1 .. Len(q)) = Len(q)
  <2>1. ASSUME NEW k \in Nat PROVE IsFiniteSet(1 .. k) /\ Cardinality(1 .. k) = k
    <3>1. 1 \in Int /\ k \in Int
      OBVIOUS
    <3>2. IsFiniteSet(1 .. k)
      BY <3>1, FS_Interval
    <3>3. Cardinality(1 .. k) = IF 1 > k THEN 0 ELSE k - 1 + 1
      BY <3>1, FS_Interval
    <3> QED
      BY <3>2, <3>3
  <2> QED
    BY <1>1, <2>1
<1>8. Cardinality(1 .. Len(q)) <= Cardinality(1 .. n)
  BY <1>6, <1>7, FS_Injection
<1>9. n - Len(q) \in Nat
  BY <1>1, <1>7, <1>8
<1> QED
  BY <1>9 DEF q, n

\* What is left of the types when those of the frames are known.
OtherTypes ==
  /\ playing \in [Workers -> [room : Rooms \cup {NoRoom}, left : 0 .. MaxPlay,
                              todo : SUBSET Sess]]
  /\ roomid \in [Sess -> Rooms \cup {NoRoom}]
  /\ rroom \in [Sess -> Rooms \cup {NoRoom}]
  /\ userList \in [Rooms -> SUBSET Sess] /\ crashed \in SUBSET Sess
  /\ informed \in SUBSET Sess /\ vptsmsg \in SUBSET Sess
  /\ used \in [Rooms -> Int]
  /\ sndseq \in [Sess -> Nat] /\ inputs \in 0 .. MaxInputs

\* The types of the frames and of what carries them.
FramesTyped ==
  /\ chan \in [Workers -> Seq(Messages)]
  /\ free \in [Rooms -> Seq(Frames)] /\ made \in [Rooms -> Nat]
  /\ content \in [Frames -> [sess : Sess, no : Nat]]
  /\ mixed \in [Rooms -> [Sess -> Nat]] /\ wire \in [Sess -> [Rooms -> Nat]]
  /\ cache \in [Sess -> [Slots -> [frame : Frames \cup {NoFrame}, no : Nat]]]

LEMMA TypesSplit == TypeOK => FramesTyped /\ OtherTypes
<1> SUFFICES ASSUME TypeOK PROVE FramesTyped /\ OtherTypes
  OBVIOUS
<1>1. FramesTyped
  BY DEF TypeOK, FramesTyped
<1>2. used \in [Rooms -> Int]
  BY DEF TypeOK
<1> QED
  BY <1>1, <1>2 DEF TypeOK, OtherTypes

LEMMA TypesJoin ==
  ASSUME FramesTyped', OtherTypes', FramesInv'
  PROVE  TypeOK'
<1>1. used' \in [Rooms -> Nat]
  <2>1. \A r \in Rooms : used'[r] = made'[r] - Len(free'[r])
    BY DEF FramesInv, PlacesInv
  <2>2. ListsApart(free') /\ made' \in [Rooms -> Nat] /\ free' \in [Rooms -> Seq(Frames')]
    BY DEF FramesInv, PlacesInv, FramesTyped
  <2>3. ASSUME NEW r \in Rooms PROVE made'[r] - Len(free'[r]) \in Nat
    <3>1. \A f \in Frames' : f = [room |-> f.room, n |-> f.n] /\ f.n \in 1 .. made'[f.room]
      BY DEF Frames
    <3> QED
      BY <2>2, <3>1, UsedNat
  <2>4. used' \in [Rooms -> Int]
    BY DEF OtherTypes
  <2> QED
    BY <2>1, <2>3, <2>4
<1> QED
  BY <1>1 DEF TypeOK, FramesTyped, OtherTypes

\* A room that plays has its user to play for.
LEMMA PlayingTypes ==
  ASSUME RoomInv, NEW w \in Workers
  PROVE  /\ playing[w].todo \subseteq Sess
         /\ playing[w] # NotPlaying =>
              playing[w].room \in Rooms /\ playing[w].left \in 1 .. MaxPlay
         /\ playing[w] = NotPlaying => playing[w].todo = {}
<1>1. playing[w] \in [room : Rooms \cup {NoRoom}, left : 0 .. MaxPlay, todo : SUBSET Sess]
  BY DEF RoomInv, TypeOK
<1>2. playing[w].todo \subseteq Sess
  BY <1>1
<1>3. playing[w] = NotPlaying => playing[w].todo = {}
  BY DEF NotPlaying
<1> QED
  BY <1>2, <1>3 DEF RoomInv, PlayingInv

\* What does not change keeps its types.
LEMMA FramesStay ==
  ASSUME RoomInv, UNCHANGED <<chan, free, made, used, content, mixed, cache, wire>>
  PROVE  FramesInv' /\ FramesTyped'
<1>1. FramesTyped /\ FramesInv
  BY TypesSplit DEF RoomInv
<1>2. Frames' = Frames /\ Messages' = Messages
  BY SameMade
<1>3. FramesTyped'
  BY <1>1, <1>2 DEF FramesTyped
<1>4. OnePlace' /\ PlacesInv'
  <2>1. PlacesInv
    BY <1>1 DEF FramesInv
  <2>2. \A f : /\ UnderWay(chan', f) <=> UnderWay(chan, f)
               /\ Listed(free', f) <=> Listed(free, f)
               /\ Kept(cache', f) <=> Kept(cache, f)
    OBVIOUS
  <2>3. OnePlace'
    BY <1>2, <2>1, <2>2 DEF PlacesInv, OnePlace
  <2>4. MsgsApart(chan') /\ ListsApart(free') /\ SlotsApart(cache')
    BY <2>1 DEF PlacesInv
  <2> QED
    BY <2>1, <2>3, <2>4 DEF PlacesInv
<1>5. Routed(chan', content')
  BY <1>1 DEF FramesInv
<1>6. CacheInv'
  BY <1>1 DEF FramesInv, CacheInv, CacheIntact
<1>7. OrderInv'
  BY <1>1 DEF FramesInv, OrderInv
<1> QED
  BY <1>3, <1>4, <1>5, <1>6, <1>7 DEF FramesInv

\* The types when only the channels change.
LEMMA TypedByChan ==
  ASSUME RoomInv, chan' \in [Workers -> Seq(Messages')],
         UNCHANGED <<free, made, content, mixed, cache, wire>>
  PROVE  FramesTyped'
<1>1. FramesTyped
  BY TypesSplit DEF RoomInv
<1>2. Frames' = Frames
  BY SameMade
<1> QED
  BY <1>1, <1>2 DEF FramesTyped

\* The first state.
LEMMA RoomInit == Init => RoomInv
<1> SUFFICES ASSUME Init PROVE RoomInv
  OBVIOUS
<1>1. Frames = {}
  BY DEF Init, Frames
<1>2. \A w \in Workers : Len(chan[w]) = 0 /\ chan[w] = <<>>
  BY DEF Init
<1>3. \A r \in Rooms : Len(free[r]) = 0 /\ free[r] = <<>> /\ made[r] = 0 /\ used[r] = 0
  BY DEF Init
<1>4. \A s \in Sess : \A k \in Slots : cache[s][k] = [frame |-> NoFrame, no |-> 0]
  BY DEF Init
<1>5. \A s \in Sess : \A r \in Rooms : wire[s][r] = 0 /\ mixed[r][s] = 0
  BY DEF Init
<1>6. TypeOK
  <2>1. content \in [Frames -> [sess : Sess, no : Nat]]
    BY <1>1 DEF Init
  <2>2. chan \in [Workers -> Seq(Messages)] /\ free \in [Rooms -> Seq(Frames)]
    BY DEF Init
  <2>3. NotPlaying \in [room : Rooms \cup {NoRoom}, left : 0 .. MaxPlay, todo : SUBSET Sess]
    BY RoomAssumption DEF NotPlaying
  <2>4. playing \in [Workers -> [room : Rooms \cup {NoRoom}, left : 0 .. MaxPlay,
                                 todo : SUBSET Sess]]
    BY <2>3 DEF Init
  <2>5. cache \in [Sess -> [Slots -> [frame : Frames \cup {NoFrame}, no : Nat]]]
    BY DEF Init
  <2>6. inputs \in 0 .. MaxInputs
    BY RoomAssumption DEF Init
  <2> QED
    BY <2>1, <2>2, <2>4, <2>5, <2>6 DEF Init, TypeOK
<1>7. PlayingInv
  BY DEF Init, PlayingInv
<1>8. PlacesInv
  <2>1. MsgsApart(chan)
    BY <1>2 DEF MsgsApart
  <2>2. ListsApart(free)
    BY <1>3 DEF ListsApart
  <2>3. SlotsApart(cache)
    BY <1>4 DEF SlotsApart
  <2>4. OnePlace
    BY <1>1 DEF OnePlace
  <2> QED
    BY <1>3, <2>1, <2>2, <2>3, <2>4 DEF PlacesInv
<1>9. Routed(chan, content)
  BY <1>2 DEF Routed
<1>10. CacheInv
  BY <1>4 DEF CacheInv, CacheIntact
<1>11. OrderInv
  <2> SUFFICES ASSUME NEW s \in Sess, NEW r \in Rooms
               PROVE  InOrder(chan, content, 0, 0, s, r)
    BY <1>5 DEF OrderInv
  <2>1. Len(chan[OwnerS[s]]) = 0
    BY <1>2, RoomAssumption
  <2> QED
    BY <2>1 DEF InOrder
<1> QED
  BY <1>6, <1>7, <1>8, <1>9, <1>10, <1>11 DEF RoomInv, FramesInv

-----------------------------------------------------------------------------
(* The invariant of rooms and frames                                       *)

\* CreEnterRoom and AudioConsumer post a request or a piece of audio.
LEMMA EnterStep ==
  ASSUME RoomInv, NEW s \in Sess, NEW r \in Rooms, CreEnter(s, r)
  PROVE  RoomInv'
<1> DEFINE m == CreEnterRoom(s, r)
<1>1. m \in Messages /\ ~Carries(m)
  BY DEF CreEnterRoom, Messages, Carries
<1>2. OwnerR[r] \in Workers /\ chan' = Posted(chan, OwnerR[r], m)
  BY RoomAssumption DEF CreEnter
<1>3. UNCHANGED <<free, made, used, content, mixed, cache, wire>>
  BY DEF CreEnter, roomVars, sessVars
<1> HIDE DEF m
<1>4. FramesInv' /\ chan' \in [Workers -> Seq(Messages')]
  BY <1>1, <1>2, <1>3, PostOther
<1>5. FramesTyped'
  BY <1>3, <1>4, TypedByChan
<1>6. OtherTypes'
  <2>1. OtherTypes /\ inputs \in Nat
    BY TypesSplit, RoomAssumption DEF RoomInv, OtherTypes
  <2>2. inputs' \in 0 .. MaxInputs
    BY <2>1, RoomAssumption DEF CreEnter, OtherTypes
  <2> QED
    BY <2>1, <2>2 DEF CreEnter, roomVars, sessVars, OtherTypes
<1>7. PlayingInv'
  BY DEF RoomInv, PlayingInv, CreEnter
<1> QED
  BY <1>4, <1>5, <1>6, <1>7, TypesJoin DEF RoomInv

LEMMA AudioStep ==
  ASSUME RoomInv, NEW s \in Sess, NEW comp \in {0, 1}, Audio(s, comp)
  PROVE  RoomInv'
<1> DEFINE r == rroom[s]
           m == [type |-> "merge", sess |-> s, room |-> r, comp |-> comp]
<1>1. UNCHANGED <<free, made, used, content, mixed, cache, wire>>
  BY DEF Audio, roomVars, sessVars
<1>2. \/ chan' = chan
      \/ r # NoRoom /\ chan' = Posted(chan, OwnerR[r], m)
  BY DEF Audio
<1>3. r \in Rooms \cup {NoRoom}
  BY DEF RoomInv, TypeOK
<1>4. FramesInv' /\ FramesTyped'
  <2>1. CASE chan' = chan
    BY <1>1, <2>1, FramesStay
  <2>2. CASE r # NoRoom /\ chan' = Posted(chan, OwnerR[r], m)
    <3>1. r \in Rooms /\ OwnerR[r] \in Workers
      BY <1>3, <2>2, RoomAssumption
    <3>2. m \in Messages /\ ~Carries(m)
      BY <3>1 DEF Messages, Carries
    <3> HIDE DEF m
    <3>3. FramesInv' /\ chan' \in [Workers -> Seq(Messages')]
      BY <1>1, <2>2, <3>1, <3>2, PostOther
    <3> QED
      BY <1>1, <3>3, TypedByChan
  <2> QED
    BY <1>2, <2>1, <2>2
<1>5. OtherTypes'
  <2>1. OtherTypes /\ inputs \in Nat
    BY TypesSplit, RoomAssumption DEF RoomInv, OtherTypes
  <2>2. inputs' \in 0 .. MaxInputs
    BY <2>1, RoomAssumption DEF Audio, OtherTypes
  <2>3. crashed' \in SUBSET Sess
    BY <2>1 DEF Audio, OtherTypes
  <2> QED
    BY <2>1, <2>2, <2>3 DEF Audio, roomVars, sessVars, OtherTypes
<1>6. PlayingInv'
  BY DEF RoomInv, PlayingInv, Audio
<1> QED
  BY <1>4, <1>5, <1>6, TypesJoin DEF RoomInv

\* The first message of a worker, by its kind.
LEMMA FirstMessage ==
  ASSUME RoomInv, NEW w \in Workers, NEW type, Next1(w, type)
  PROVE  /\ chan[w] # <<>> /\ Head(chan[w]) \in Messages /\ Head(chan[w]).type = type
<1>1. chan \in [Workers -> Seq(Messages)] /\ chan[w] # <<>> /\ Head(chan[w]).type = type
  BY DEF RoomInv, TypeOK, Next1
<1>2. PICK c : c = Rest(chan, w)
  OBVIOUS
<1>3. Head(chan[w]) = chan[w][1] /\ chan[w][1] \in Messages
  BY <1>1, <1>2, TakePlaces
<1> QED
  BY <1>1, <1>3

LEMMA HandleEnterStep ==
  ASSUME RoomInv, NEW w \in Workers, HandleEnter(w)
  PROVE  RoomInv'
<1> DEFINE m == Head(chan[w])
<1>1. chan[w] # <<>> /\ m \in Messages /\ m.type = "enter"
  BY FirstMessage DEF HandleEnter
<1>2. m.sess \in Sess /\ m.room \in Rooms /\ ~Carries(m)
  BY <1>1, MessageKinds DEF Carries
<1>3. UNCHANGED <<free, made, used, content, mixed, cache, wire>> /\ chan' = Taken(w)
  BY DEF HandleEnter, sessVars
<1>4. FramesInv' /\ chan' \in [Workers -> Seq(Messages')]
  BY <1>1, <1>2, <1>3, TakeOther
<1>5. FramesTyped'
  BY <1>3, <1>4, TypedByChan
<1>6. OtherTypes'
  <2>1. OtherTypes
    BY TypesSplit DEF RoomInv
  <2>2. EnterRoom(m.room, m.sess) \in SUBSET Sess
    BY <1>2, <2>1 DEF EnterRoom, OtherTypes
  <2>3. /\ userList' = [userList EXCEPT ![m.room] = EnterRoom(m.room, m.sess)]
        /\ rroom' = [rroom EXCEPT ![m.sess] = m.room]
        /\ informed' = informed \cup EnterRoom(m.room, m.sess)
    BY DEF HandleEnter
  <2>4. UNCHANGED <<playing, roomid, vptsmsg, used, inputs, crashed, sndseq>>
    BY DEF HandleEnter, sessVars
  <2> HIDE DEF m
  <2>5. /\ userList' \in [Rooms -> SUBSET Sess] /\ informed' \in SUBSET Sess
        /\ rroom' \in [Sess -> Rooms \cup {NoRoom}]
    BY <1>2, <2>1, <2>2, <2>3 DEF OtherTypes
  <2> QED
    BY <2>1, <2>4, <2>5 DEF OtherTypes
<1>7. PlayingInv'
  BY DEF RoomInv, PlayingInv, HandleEnter
<1> QED
  BY <1>4, <1>5, <1>6, <1>7, TypesJoin DEF RoomInv

LEMMA HandleMergeStep ==
  ASSUME RoomInv, NEW w \in Workers, NEW plays \in 0 .. MaxPlay, HandleMerge(w, plays)
  PROVE  RoomInv'
<1> DEFINE m == Head(chan[w])
<1>1. chan[w] # <<>> /\ m \in Messages /\ m.type = "merge"
  BY FirstMessage DEF HandleMerge
<1>2. m.sess \in Sess /\ m.room \in Rooms /\ ~Carries(m)
  BY <1>1, MessageKinds DEF Carries
<1>3. UNCHANGED <<free, made, used, content, mixed, cache, wire>> /\ chan' = Taken(w)
  BY DEF HandleMerge, sessVars, roomVars
<1>4. FramesInv' /\ chan' \in [Workers -> Seq(Messages')]
  BY <1>1, <1>2, <1>3, TakeOther
<1>5. FramesTyped'
  BY <1>3, <1>4, TypedByChan
<1>6. OtherTypes' /\ PlayingInv'
  <2>1. OtherTypes /\ PlayingInv
    BY TypesSplit DEF RoomInv
  <2>2. UNCHANGED <<roomid, rroom, userList, informed, used, inputs, crashed, sndseq>>
    BY DEF HandleMerge, roomVars, sessVars
  <2>3. \/ vptsmsg' = vptsmsg \cup {m.sess} /\ playing' = playing
        \/ vptsmsg' = vptsmsg /\ playing' = playing
        \/ /\ vptsmsg' = vptsmsg /\ plays # 0
           /\ playing' = [playing EXCEPT ![w] = [room |-> m.room, left |-> plays,
                                                 todo |-> userList[m.room]]]
    BY DEF HandleMerge
  <2> HIDE DEF m
  <2>4. vptsmsg' \in SUBSET Sess
    BY <1>2, <2>1, <2>3 DEF OtherTypes
  <2>5. plays # 0 => plays \in 1 .. MaxPlay /\ plays \in 0 .. MaxPlay
    BY RoomAssumption
  <2>6. CASE playing' = playing
    BY <2>1, <2>2, <2>4, <2>6 DEF OtherTypes, PlayingInv
  <2>7. CASE /\ plays # 0
             /\ playing' = [playing EXCEPT ![w] = [room |-> m.room, left |-> plays,
                                                   todo |-> userList[m.room]]]
    <3> DEFINE p == [room |-> m.room, left |-> plays, todo |-> userList[m.room]]
    <3>1. userList[m.room] \in SUBSET Sess
      BY <1>2, <2>1 DEF OtherTypes
    <3>2. /\ p \in [room : Rooms \cup {NoRoom}, left : 0 .. MaxPlay, todo : SUBSET Sess]
          /\ p.room \in Rooms /\ p.left \in 1 .. MaxPlay
      BY <1>2, <2>5, <2>7, <3>1
    <3> HIDE DEF p
    <3>3. playing' = [playing EXCEPT ![w] = p]
      BY <2>7 DEF p
    <3>4. playing' \in [Workers -> [room : Rooms \cup {NoRoom}, left : 0 .. MaxPlay,
                                    todo : SUBSET Sess]]
      BY <2>1, <3>2, <3>3 DEF OtherTypes
    <3>5. playing'[w] = p /\ \A v \in Workers : v # w => playing'[v] = playing[v]
      BY <2>1, <3>3 DEF OtherTypes
    <3>6. PlayingInv'
      BY <2>1, <3>2, <3>5 DEF PlayingInv, NotPlaying
    <3> QED
      BY <2>1, <2>2, <2>4, <3>4, <3>6 DEF OtherTypes
  <2> QED
    BY <2>3, <2>6, <2>7
<1> QED
  BY <1>4, <1>5, <1>6, TypesJoin DEF RoomInv

LEMMA HandleFreeStep ==
  ASSUME RoomInv, NEW w \in Workers, HandleFree(w)
  PROVE  RoomInv'
<1> DEFINE f == Head(chan[w]).frame
<1>1. FramesInv' /\ chan' \in [Workers -> Seq(Messages')] /\ free' \in [Rooms -> Seq(Frames')]
  BY FramesFree
<1>2. UNCHANGED <<playing, roomid, rroom, vptsmsg, userList, informed, made, content,
                  mixed, inputs, crashed, sndseq, cache, wire>>
  BY DEF HandleFree, sessVars
<1>3. FramesTyped /\ OtherTypes
  BY TypesSplit DEF RoomInv
<1>4. Frames' = Frames
  BY <1>2, SameMade
<1>5. FramesTyped'
  BY <1>1, <1>2, <1>3, <1>4 DEF FramesTyped
<1>6. OtherTypes'
  <2>1. used' = [used EXCEPT ![f.room] = @ - 1]
    BY DEF HandleFree
  <2>0. f.room \in Rooms
    <3>1. f \in Frames
      BY FirstMessage, MessageKinds DEF HandleFree
    <3>2. made \in [Rooms -> Nat]
      BY <1>3 DEF FramesTyped
    <3> QED
      BY <3>1, <3>2, FrameIs
  <2> HIDE DEF f
  <2>2. used' \in [Rooms -> Int]
    BY <1>3, <2>0, <2>1 DEF OtherTypes
  <2> QED
    BY <1>2, <1>3, <2>2 DEF OtherTypes
<1>7. PlayingInv'
  BY <1>2 DEF RoomInv, PlayingInv
<1> QED
  BY <1>1, <1>5, <1>6, <1>7, TypesJoin DEF RoomInv

LEMMA HandleSendStep ==
  ASSUME RoomInv, NEW w \in Workers, HandleSend(w)
  PROVE  RoomInv'
<1> DEFINE s == Head(chan[w]).sess
<1>1. /\ FramesInv' /\ chan' \in [Workers -> Seq(Messages')]
      /\ cache' \in [Sess -> [Slots -> [frame : Frames' \cup {NoFrame}, no : Nat]]]
      /\ wire' \in [Sess -> [Rooms -> Nat]]
  BY FramesSend
<1>2. UNCHANGED <<playing, roomid, rroom, vptsmsg, userList, informed, free, made, used,
                  content, mixed, inputs, crashed>>
  BY DEF HandleSend, roomVars
<1>3. FramesTyped /\ OtherTypes
  BY TypesSplit DEF RoomInv
<1>4. Frames' = Frames
  BY <1>2, SameMade
<1>5. FramesTyped'
  BY <1>1, <1>2, <1>3, <1>4 DEF FramesTyped
<1>6. OtherTypes'
  <2>1. sndseq' = [sndseq EXCEPT ![s] = @ + 1]
    BY DEF HandleSend
  <2>0. s \in Sess
    BY SendNext
  <2> HIDE DEF s
  <2>2. sndseq' \in [Sess -> Nat]
    BY <1>3, <2>0, <2>1 DEF OtherTypes
  <2> QED
    BY <1>2, <1>3, <2>2 DEF OtherTypes
<1>7. PlayingInv'
  BY <1>2 DEF RoomInv, PlayingInv
<1> QED
  BY <1>1, <1>5, <1>6, <1>7, TypesJoin DEF RoomInv

LEMMA PlayForStep ==
  ASSUME RoomInv, NEW w \in Workers, NEW s \in Sess, PlayFor(w, s)
  PROVE  RoomInv'
<1> DEFINE r == playing[w].room
<1>1. s \in playing[w].todo /\ Fill(r, s)
  BY DEF PlayFor
<1>2. r \in Rooms
  BY <1>1, PlayingTypes
<1>3. UNCHANGED <<roomid, rroom, userList, informed, inputs, crashed, sndseq, cache, wire>>
  BY DEF PlayFor, sessVars
<1> HIDE DEF r
<1>4. /\ FramesInv' /\ chan' \in [Workers -> Seq(Messages')]
      /\ free' \in [Rooms -> Seq(Frames')] /\ made' \in [Rooms -> Nat]
      /\ content' \in [Frames' -> [sess : Sess, no : Nat]]
      /\ mixed' \in [Rooms -> [Sess -> Nat]]
      /\ Frames \subseteq Frames'
  BY <1>1, <1>2, <1>3, FramesFill
<1>5. FramesTyped /\ OtherTypes /\ PlayingInv
  BY TypesSplit DEF RoomInv
<1>6. FramesTyped'
  <2>1. cache' \in [Sess -> [Slots -> [frame : Frames' \cup {NoFrame}, no : Nat]]]
    BY <1>3, <1>4, <1>5 DEF FramesTyped
  <2> QED
    BY <1>3, <1>4, <1>5, <2>1 DEF FramesTyped
<1>7. OtherTypes' /\ PlayingInv'
  <2>1. used' \in [Rooms -> Int]
    BY <1>1, <1>2, <1>5 DEF Fill, OtherTypes
  <2>2. vptsmsg' \in SUBSET Sess
    BY <1>5 DEF PlayFor, OtherTypes
  <2>3. playing' \in [Workers -> [room : Rooms \cup {NoRoom}, left : 0 .. MaxPlay,
                                  todo : SUBSET Sess]] /\ PlayingInv'
    <3>1. CASE playing' = playing
      BY <1>5, <3>1 DEF OtherTypes, PlayingInv
    <3>2. CASE playing' = [playing EXCEPT ![w].todo = @ \ {s}]
      <4>1. playing \in [Workers -> [room : Rooms \cup {NoRoom}, left : 0 .. MaxPlay,
                                     todo : SUBSET Sess]]
        BY <1>5 DEF OtherTypes
      <4>2. PICK p : p = [playing[w] EXCEPT !.todo = @ \ {s}]
        OBVIOUS
      <4>3. /\ p \in [room : Rooms \cup {NoRoom}, left : 0 .. MaxPlay, todo : SUBSET Sess]
            /\ p.room = playing[w].room /\ p.left = playing[w].left
        BY <4>1, <4>2
      <4>4. playing' = [playing EXCEPT ![w] = p]
        BY <3>2, <4>2
      <4>5. playing[w].room \in Rooms /\ playing[w].left \in 1 .. MaxPlay
        BY <1>1, PlayingTypes
      <4>6. playing' \in [Workers -> [room : Rooms \cup {NoRoom}, left : 0 .. MaxPlay,
                                      todo : SUBSET Sess]]
        BY <4>1, <4>3, <4>4
      <4>7. playing'[w] = p /\ \A v \in Workers : v # w => playing'[v] = playing[v]
        BY <4>1, <4>4
      <4>8. PlayingInv'
        BY <1>5, <4>3, <4>5, <4>7 DEF PlayingInv, NotPlaying
      <4> QED
        BY <4>6, <4>8
    <3> QED
      BY <3>1, <3>2 DEF PlayFor
  <2> QED
    BY <1>3, <1>5, <2>1, <2>2, <2>3 DEF OtherTypes
<1> QED
  BY <1>4, <1>6, <1>7, TypesJoin DEF RoomInv

LEMMA PlayedStep ==
  ASSUME RoomInv, NEW w \in Workers, Played(w)
  PROVE  RoomInv'
<1>1. UNCHANGED <<chan, roomid, rroom, vptsmsg, content, mixed, inputs, crashed,
                  userList, informed, free, made, used, sndseq, cache, wire>>
  BY DEF Played, roomVars, sessVars
<1>2. FramesInv' /\ FramesTyped'
  BY <1>1, FramesStay
<1>3. OtherTypes /\ PlayingInv
  BY TypesSplit DEF RoomInv
<1>4. playing' \in [Workers -> [room : Rooms \cup {NoRoom}, left : 0 .. MaxPlay,
                                todo : SUBSET Sess]] /\ PlayingInv'
  <2>1. playing \in [Workers -> [room : Rooms \cup {NoRoom}, left : 0 .. MaxPlay,
                                 todo : SUBSET Sess]] /\ userList \in [Rooms -> SUBSET Sess]
    BY <1>3 DEF OtherTypes
  <2>2. playing[w].room \in Rooms /\ playing[w].left \in 1 .. MaxPlay
    BY PlayingTypes DEF Played
  <2>3. PICK p : p = IF playing[w].left = 1 THEN NotPlaying
                     ELSE [playing[w] EXCEPT !.left = @ - 1,
                                             !.todo = userList[playing[w].room]]
    OBVIOUS
  <2>4. playing' = [playing EXCEPT ![w] = p]
    BY <2>3 DEF Played
  <2>5. /\ p \in [room : Rooms \cup {NoRoom}, left : 0 .. MaxPlay, todo : SUBSET Sess]
        /\ p = NotPlaying \/ (p.room \in Rooms /\ p.left \in 1 .. MaxPlay)
    <3>1. CASE playing[w].left = 1
      BY <2>3, <3>1, RoomAssumption DEF NotPlaying
    <3>2. CASE playing[w].left # 1
      <4>1. userList[playing[w].room] \in SUBSET Sess
        BY <2>1, <2>2
      <4>2. playing[w].left - 1 \in 1 .. MaxPlay /\ playing[w].left - 1 \in 0 .. MaxPlay
        BY <2>2, <3>2, RoomAssumption
      <4>3. playing[w] \in [room : Rooms \cup {NoRoom}, left : 0 .. MaxPlay, todo : SUBSET Sess]
        BY <2>1
      <4>4. p = [playing[w] EXCEPT !.left = playing[w].left - 1,
                                   !.todo = userList[playing[w].room]]
        BY <2>3, <3>2
      <4>5. /\ p.room = playing[w].room /\ p.left = playing[w].left - 1
            /\ p \in [room : Rooms \cup {NoRoom}, left : 0 .. MaxPlay, todo : SUBSET Sess]
        BY <4>1, <4>2, <4>3, <4>4
      <4> QED
        BY <2>2, <4>2, <4>5
    <3> QED
      BY <3>1, <3>2
  <2>6. playing' \in [Workers -> [room : Rooms \cup {NoRoom}, left : 0 .. MaxPlay,
                                  todo : SUBSET Sess]]
    BY <2>1, <2>4, <2>5
  <2>7. playing'[w] = p /\ \A v \in Workers : v # w => playing'[v] = playing[v]
    BY <2>1, <2>4
  <2>8. PlayingInv'
    BY <1>3, <2>5, <2>7 DEF PlayingInv, NotPlaying
  <2> QED
    BY <2>6, <2>8
<1>5. OtherTypes'
  BY <1>1, <1>3, <1>4 DEF OtherTypes
<1> QED
  BY <1>2, <1>4, <1>5, TypesJoin DEF RoomInv

\* Every step.
LEMMA RoomNext == RoomInv /\ [Next]_vars => RoomInv'
<1> SUFFICES ASSUME RoomInv, [Next]_vars PROVE RoomInv'
  OBVIOUS
<1>1. ASSUME NEW s \in Sess, NEW r \in Rooms, CreEnter(s, r) PROVE RoomInv'
  BY <1>1, EnterStep
<1>2. ASSUME NEW s \in Sess, NEW comp \in {0, 1}, Audio(s, comp) PROVE RoomInv'
  BY <1>2, AudioStep
<1>3. ASSUME NEW w \in Workers, HandleEnter(w) PROVE RoomInv'
  BY <1>3, HandleEnterStep
<1>4. ASSUME NEW w \in Workers, HandleFree(w) PROVE RoomInv'
  BY <1>4, HandleFreeStep
<1>5. ASSUME NEW w \in Workers, HandleSend(w) PROVE RoomInv'
  BY <1>5, HandleSendStep
<1>6. ASSUME NEW w \in Workers, Played(w) PROVE RoomInv'
  BY <1>6, PlayedStep
<1>7. ASSUME NEW w \in Workers, NEW plays \in 0 .. MaxPlay, HandleMerge(w, plays)
      PROVE  RoomInv'
  BY <1>7, HandleMergeStep
<1>8. ASSUME NEW w \in Workers, NEW s \in Sess, PlayFor(w, s) PROVE RoomInv'
  BY <1>8, PlayForStep
<1>9. CASE UNCHANGED vars
  <2>1. UNCHANGED <<chan, free, made, used, content, mixed, cache, wire>>
    BY <1>9 DEF vars, roomVars, sessVars
  <2>2. FramesInv' /\ FramesTyped'
    BY <2>1, FramesStay
  <2>3. OtherTypes' /\ PlayingInv'
    BY <1>9, TypesSplit DEF vars, roomVars, sessVars, RoomInv, OtherTypes, PlayingInv
  <2> QED
    BY <2>2, <2>3, TypesJoin DEF RoomInv
<1> QED
  BY <1>1, <1>2, <1>3, <1>4, <1>5, <1>6, <1>7, <1>8, <1>9 DEF Next

LEMMA RoomInvariant == Spec => []RoomInv
<1> QED
  BY RoomInit, RoomNext, PTL DEF Spec

\* Rooms, sessions and the messages between them have their types, whatever
\* the rooms, the users and the order of messages (room.cpp:153-635).
THEOREM RoomTypes == Spec => []TypeOK
<1>1. RoomInv => TypeOK
  BY DEF RoomInv
<1> QED
  BY <1>1, RoomInvariant, PTL

\* A set with one element or none.
LEMMA AtMostOne ==
  ASSUME NEW S, \A x, y \in S : x = y
  PROVE  /\ S = {} => Cardinality(S) = 0
         /\ S # {} => Cardinality(S) = 1
<1>1. S = {} => Cardinality(S) = 0
  BY FS_EmptySet
<1>2. ASSUME S # {} PROVE Cardinality(S) = 1
  <2>1. PICK x : x \in S
    BY <1>2
  <2>2. S = {x}
    BY <2>1
  <2> QED
    BY <2>2, FS_Singleton
<1> QED
  BY <1>1, <1>2

\* A frame is in one place: what the invariant says of the places counts as
\* many elements as FrameInOnePlace does.
LEMMA PlacesCounted == RoomInv => FrameInOnePlace
<1> SUFFICES ASSUME RoomInv, NEW f \in Frames
             PROVE  /\ Cardinality(InList(f)) + Cardinality(InMsgs(f))
                         + Cardinality(InCache(f)) = 1
                    /\ used[f.room] = made[f.room] - Len(free[f.room])
  BY DEF FrameInOnePlace
<1>0. /\ chan \in [Workers -> Seq(Messages)] /\ free \in [Rooms -> Seq(Frames)]
      /\ MsgsApart(chan) /\ ListsApart(free) /\ SlotsApart(cache) /\ OnePlace
      /\ f.room \in Rooms /\ f # NoFrame
      /\ \A r \in Rooms : used[r] = made[r] - Len(free[r])
  BY FrameIs, FrameTypes DEF RoomInv, FramesInv, PlacesInv
<1>1. /\ Listed(free, f) => Cardinality(InList(f)) = 1
      /\ ~Listed(free, f) => Cardinality(InList(f)) = 0
  <2>1. DOMAIN free[f.room] = 1 .. Len(free[f.room])
    <3>1. free[f.room] \in Seq(Frames)
      BY <1>0
    <3> QED
      BY <3>1, LenProperties
  <2>2. \A i, j \in InList(f) : i = j
    BY <1>0, <2>1 DEF InList, ListsApart
  <2>3. Listed(free, f) <=> InList(f) # {}
    <3>1. ASSUME Listed(free, f) PROVE InList(f) # {}
      <4>1. PICK r \in Rooms : \E i \in 1 .. Len(free[r]) : free[r][i] = f
        BY <3>1 DEF Listed
      <4>2. r = f.room
        BY <1>0, <4>1 DEF ListsApart
      <4> QED
        BY <2>1, <4>1, <4>2 DEF InList
    <3>2. ASSUME InList(f) # {} PROVE Listed(free, f)
      BY <1>0, <2>1, <3>2 DEF Listed, InList
    <3> QED
      BY <3>1, <3>2
  <2> QED
    BY <2>2, <2>3, AtMostOne
<1>2. /\ UnderWay(chan, f) => Cardinality(InMsgs(f)) = 1
      /\ ~UnderWay(chan, f) => Cardinality(InMsgs(f)) = 0
  <2>1. \A w \in Workers : DOMAIN chan[w] = 1 .. Len(chan[w])
    <3> SUFFICES ASSUME NEW w \in Workers PROVE DOMAIN chan[w] = 1 .. Len(chan[w])
      OBVIOUS
    <3>1. chan[w] \in Seq(Messages)
      BY <1>0
    <3> QED
      BY <3>1, LenProperties
  <2>2. ASSUME NEW x, NEW y, x \in InMsgs(f), y \in InMsgs(f) PROVE x = y
    <3>1. PICK v \in Workers : x \in {v} \X DOMAIN chan[v]
      BY <2>2 DEF InMsgs
    <3>2. PICK w \in Workers : y \in {w} \X DOMAIN chan[w]
      BY <2>2 DEF InMsgs
    <3>3. /\ x = <<v, x[2]>> /\ x[1] = v /\ x[2] \in 1 .. Len(chan[v])
          /\ y = <<w, y[2]>> /\ y[1] = w /\ y[2] \in 1 .. Len(chan[w])
      BY <2>1, <3>1, <3>2
    <3>4. /\ Carries(chan[v][x[2]]) /\ chan[v][x[2]].frame = f
          /\ Carries(chan[w][y[2]]) /\ chan[w][y[2]].frame = f
      BY <2>2, <3>3 DEF InMsgs, Carries
    <3>5. v = w /\ x[2] = y[2]
      BY <1>0, <3>3, <3>4, SMTT(30) DEF MsgsApart
    <3> QED
      BY <3>3, <3>5
  <2>3. UnderWay(chan, f) <=> InMsgs(f) # {}
    <3>1. ASSUME UnderWay(chan, f) PROVE InMsgs(f) # {}
      <4>1. PICK w \in Workers : \E i \in 1 .. Len(chan[w]) :
              Carries(chan[w][i]) /\ chan[w][i].frame = f
        BY <3>1 DEF UnderWay
      <4>2. PICK i \in 1 .. Len(chan[w]) : Carries(chan[w][i]) /\ chan[w][i].frame = f
        BY <4>1
      <4>3. <<w, i>> \in {w} \X DOMAIN chan[w]
        BY <2>1
      <4>4. <<w, i>> \in InMsgs(f)
        BY <4>2, <4>3 DEF InMsgs, Carries
      <4> QED
        BY <4>4
    <3>2. ASSUME InMsgs(f) # {} PROVE UnderWay(chan, f)
      <4>1. PICK x : x \in InMsgs(f)
        BY <3>2
      <4>2. PICK w \in Workers : x \in {w} \X DOMAIN chan[w]
        BY <4>1 DEF InMsgs
      <4>3. x[1] = w /\ x[2] \in 1 .. Len(chan[w])
        BY <2>1, <4>2
      <4> QED
        BY <4>1, <4>3 DEF InMsgs, UnderWay, Carries
    <3> QED
      BY <3>1, <3>2
  <2> QED
    BY <2>2, <2>3, AtMostOne
<1>3. /\ Kept(cache, f) => Cardinality(InCache(f)) = 1
      /\ ~Kept(cache, f) => Cardinality(InCache(f)) = 0
  <2>1. ASSUME NEW x, NEW y, x \in InCache(f), y \in InCache(f) PROVE x = y
    <3>1. /\ x \in Sess \X Slots /\ cache[x[1]][x[2]].frame = f
          /\ y \in Sess \X Slots /\ cache[y[1]][y[2]].frame = f
      BY <2>1 DEF InCache
    <3>2. /\ x = <<x[1], x[2]>> /\ x[1] \in Sess /\ x[2] \in Slots
          /\ y = <<y[1], y[2]>> /\ y[1] \in Sess /\ y[2] \in Slots
      BY <3>1
    <3>3. x[1] = y[1] /\ x[2] = y[2]
      BY <1>0, <3>1, <3>2 DEF SlotsApart
    <3> QED
      BY <3>2, <3>3
  <2>2. Kept(cache, f) <=> InCache(f) # {}
    <3>1. ASSUME Kept(cache, f) PROVE InCache(f) # {}
      <4>1. PICK s \in Sess, k \in Slots : cache[s][k].frame = f
        BY <3>1 DEF Kept
      <4>2. <<s, k>> \in InCache(f)
        BY <4>1 DEF InCache
      <4> QED
        BY <4>2
    <3>2. ASSUME InCache(f) # {} PROVE Kept(cache, f)
      <4>1. PICK x : x \in InCache(f)
        BY <3>2
      <4>2. x[1] \in Sess /\ x[2] \in Slots /\ cache[x[1]][x[2]].frame = f
        BY <4>1 DEF InCache
      <4> QED
        BY <4>2 DEF Kept
    <3> QED
      BY <3>1, <3>2
  <2> QED
    BY <2>1, <2>2, AtMostOne
<1>4. \/ UnderWay(chan, f) /\ ~Listed(free, f) /\ ~Kept(cache, f)
      \/ ~UnderWay(chan, f) /\ Listed(free, f) /\ ~Kept(cache, f)
      \/ ~UnderWay(chan, f) /\ ~Listed(free, f) /\ Kept(cache, f)
  BY <1>0 DEF OnePlace
<1>5. Cardinality(InList(f)) + Cardinality(InMsgs(f)) + Cardinality(InCache(f)) = 1
  BY <1>1, <1>2, <1>3, <1>4
<1> QED
  BY <1>0, <1>5

\* A frame of a room is in its list, in one message or in one slot of one
\* cache, and frameusea counts those that are out: no frame is filled while a
\* worker may still send it, given back twice or lost (room.cpp:276-297,
\* 572-586, 618-626, huage_sendstream.cpp:156-180).
THEOREM FramesConserved == Spec => []FrameInOnePlace
<1> QED
  BY RoomInvariant, PlacesCounted, PTL

\* What the cache of a session would send again is what was sent: the room
\* has not filled the frame anew (room.cpp:376-416, huage_sendstream.cpp:92-111).
THEOREM CachesIntact == Spec => []CacheIntact
<1>1. RoomInv => CacheIntact
  BY DEF RoomInv, FramesInv, CacheInv
<1> QED
  BY <1>1, RoomInvariant, PTL

\* A session is sent what each room mixed for it in order, none twice and
\* none left out (room.cpp:319-426).
THEOREM SentInOrder == Spec => SentAsMixed
<1>1. ASSUME RoomInv, [Next]_vars
      PROVE  [\A s \in Sess, r \in Rooms : wire'[s][r] \in {wire[s][r], wire[s][r] + 1}]_wire
  <2>1. ASSUME NEW w \in Workers, HandleSend(w)
        PROVE  \A s \in Sess, r \in Rooms : wire'[s][r] \in {wire[s][r], wire[s][r] + 1}
    <3> DEFINE m == Head(chan[w])
    <3>1. /\ m.sess \in Sess /\ m.frame.room \in Rooms
          /\ content[m.frame] = [sess |-> m.sess, no |-> wire[m.sess][m.frame.room] + 1]
      BY <1>1, <2>1, SendNext
    <3>2. wire' = [wire EXCEPT ![m.sess][m.frame.room] = content[m.frame].no]
      BY <2>1 DEF HandleSend
    <3>3. wire \in [Sess -> [Rooms -> Nat]]
      BY <1>1 DEF RoomInv, TypeOK
    <3> HIDE DEF m
    <3>4. content[m.frame].no = wire[m.sess][m.frame.room] + 1
      BY <3>1
    <3> QED
      BY <3>1, <3>2, <3>3, <3>4
  <2>2. ASSUME NEW s \in Sess, NEW r \in Rooms, CreEnter(s, r) PROVE wire' = wire
    BY <2>2 DEF CreEnter, sessVars
  <2>3. ASSUME NEW s \in Sess, NEW comp \in {0, 1}, Audio(s, comp) PROVE wire' = wire
    BY <2>3 DEF Audio, sessVars
  <2>4. ASSUME NEW w \in Workers, HandleEnter(w) \/ HandleFree(w) \/ Played(w)
        PROVE  wire' = wire
    BY <2>4 DEF HandleEnter, HandleFree, Played, sessVars
  <2>5. ASSUME NEW w \in Workers, NEW plays \in 0 .. MaxPlay, HandleMerge(w, plays)
        PROVE  wire' = wire
    BY <2>5 DEF HandleMerge, sessVars
  <2>6. ASSUME NEW w \in Workers, NEW s \in Sess, PlayFor(w, s) PROVE wire' = wire
    BY <2>6 DEF PlayFor, sessVars
  <2>7. CASE UNCHANGED vars
    BY <2>7 DEF vars, sessVars
  <2> QED
    BY <1>1, <2>1, <2>2, <2>3, <2>4, <2>5, <2>6, <2>7 DEF Next
<1> QED
  BY <1>1, RoomInvariant, PTL DEF Spec, SentAsMixed
-----------------------------------------------------------------------------
(* The mixing of a room: times and slots                                   *)

HalfRound == seq_max_NUM \div 2

\* 65535 is two halves and one.
LEMMA HalfRoundIs == HalfRound \in Nat /\ seq_max_NUM = 2 * HalfRound + 1
<1>1. \A m \in Nat : m % 2 = 1 => m = 2 * (m \div 2) + 1 /\ m \div 2 \in Nat
  OBVIOUS
<1> QED
  BY <1>1, SeqAssumption DEF HalfRound

\* Small numbers are what the remainder leaves of them.
LEMMA SmallRemainder ==
  ASSUME NEW m \in Nat \ {0}
  PROVE  /\ \A x \in 0 .. m - 1 : x % m = x
         /\ \A x \in 0 .. m - 1 : (x + m) % m = x
OBVIOUS

\* Within half a round the distance of two numbers is their difference.
LEMMA NearSub ==
  ASSUME NEW a \in 0 .. HalfRound, NEW b \in 0 .. HalfRound
  PROVE  U16(a) = a /\ uint16Sub(a, b) = IF a < b THEN -1 ELSE a - b
<1>1. PICK h \in Nat : h = HalfRound /\ seq_max_NUM = 2 * h + 1 /\ seq_max_NUM \div 2 = h
  BY HalfRoundIs DEF HalfRound
<1>2. U16(a) = a
  <2>1. seq_max_NUM + 1 \in Nat \ {0} /\ a \in 0 .. (seq_max_NUM + 1) - 1
    BY <1>1
  <2> QED
    BY <2>1, SmallRemainder DEF U16
<1>3. a \in 0 .. h /\ b \in 0 .. h
  BY <1>1
<1>4. uint16Sub(a, b) = IF a < b THEN -1 ELSE a - b
  BY <1>1, <1>3 DEF uint16Sub
<1> QED
  BY <1>2, <1>4

\* A sum that is less than a round.
LEMMA NearAdd ==
  ASSUME NEW a \in Nat, NEW d \in Nat, a + d < seq_max_NUM
  PROVE  uint16Add(a, d) = a + d
<1>1. seq_max_NUM \in Nat \ {0} /\ a + d \in 0 .. seq_max_NUM - 1
  BY SeqAssumption
<1> QED
  BY <1>1, SmallRemainder DEF uint16Add

\* Every sum is a number of the round.
LEMMA AddIn ==
  ASSUME NEW a \in Nat, NEW d \in Nat
  PROVE  uint16Add(a, d) \in SeqNums
<1>1. seq_max_NUM \in Nat \ {0}
  BY HalfRoundIs
<1> QED
  BY <1>1, Remainders DEF uint16Add, SeqNums

\* Every time has its slot, and in a second each slot one time.
LEMMA SlotOfTime ==
  ASSUME NEW t \in Nat
  PROVE  t % audioCaNum \in MixSlots
BY MixAssumption, Remainders DEF MixSlots

LEMMA OneTime ==
  ASSUME NEW from \in Nat, NEW a \in from .. from + audioCaNum - 1,
         NEW b \in from .. from + audioCaNum - 1, a % audioCaNum = b % audioCaNum
  PROVE  a = b
<1>1. PICK m \in Nat \ {0} : m = audioCaNum
  BY MixAssumption
<1>2. a \in Nat /\ b \in Nat /\ a - b < m /\ b - a < m
  BY <1>1
<1>3. ~ (a < b)
  BY <1>1, <1>2, OtherSlot
<1>4. ~ (b < a)
  BY <1>1, <1>2, OtherSlot
<1> QED
  BY <1>2, <1>3, <1>4

-----------------------------------------------------------------------------
(* The mixing of a room: the loop over the slots to play                   *)

\* The slots b from the time from on, after k rounds: the times that are not
\* over are emptied, and those that held something were played, in order.
Passed(k, p, from, b) ==
  /\ \A i \in MixSlots :
       p.bins[i] = IF \E t \in from .. from + k - 1 : t % audioCaNum = i
                   THEN 0 ELSE b.bins[i]
  /\ \A j \in 1 .. Len(p.out) :
       /\ p.out[j].at \in from .. from + k - 1
       /\ p.out[j].mix = b.mix[p.out[j].at % audioCaNum]
  /\ \A i, j \in 1 .. Len(p.out) : i < j => p.out[i].at < p.out[j].at
  /\ \A t \in from .. from + k - 1 :
       t < from + audioCaNum /\ b.bins[t % audioCaNum] = 1
         => \E j \in 1 .. Len(p.out) : p.out[j].at = t

RoundsAre(k, p, from, b, X) ==
  /\ p.bins \in [MixSlots -> {0, 1}]
  /\ p.out \in Seq([at : SeqNums, mix : X])
  /\ from + k < seq_max_NUM => Passed(k, p, from, b)

\* A round of the loop (room.cpp:555-569).
LEMMA RoundStep ==
  ASSUME NEW X, NEW from \in Nat, NEW b, b.bins \in [MixSlots -> {0, 1}],
         b.mix \in [MixSlots -> X], NEW k \in Nat, NEW p,
         RoundsAre(k, p, from, b, X)
  PROVE  RoundsAre(k + 1, PlaySlot(p, uint16Add(from, k), b.mix), from, b, X)
<1>1. PICK t, i : t = uint16Add(from, k) /\ i = t % audioCaNum
  OBVIOUS
<1>2. t \in SeqNums /\ t \in Nat /\ i \in MixSlots
  BY <1>1, AddIn, SlotOfTime DEF SeqNums
<1>3. PICK q : q = PlaySlot(p, t, b.mix)
  OBVIOUS
<1>4. PICK e : e = [at |-> t, mix |-> b.mix[i]]
  OBVIOUS
<1>5. PICK o, v : o = p.out /\ v = p.bins
  OBVIOUS
<1>6. /\ q.out = IF v[i] = 0 THEN o ELSE Append(o, e)
      /\ q.bins = [v EXCEPT ![i] = 0]
  BY <1>1, <1>3, <1>4, <1>5 DEF PlaySlot
<1>7. /\ v \in [MixSlots -> {0, 1}] /\ o \in Seq([at : SeqNums, mix : X])
      /\ e \in [at : SeqNums, mix : X] /\ e.at = t /\ e.mix = b.mix[i]
  BY <1>2, <1>4, <1>5 DEF RoundsAre
<1>8. PICK l \in Nat : l = Len(o)
  BY <1>7
<1>9. /\ q.bins \in [MixSlots -> {0, 1}]
      /\ \A j \in MixSlots : q.bins[j] = IF j = i THEN 0 ELSE v[j]
  BY <1>2, <1>6, <1>7
<1>10. /\ Append(o, e) \in Seq([at : SeqNums, mix : X]) /\ Len(Append(o, e)) = l + 1
       /\ \A j \in 1 .. l : Append(o, e)[j] = o[j]
       /\ Append(o, e)[l + 1] = e
  BY <1>7, <1>8, AppendProperties
<1>11. q.out \in Seq([at : SeqNums, mix : X])
  BY <1>6, <1>7, <1>10
<1>12. ASSUME from + (k + 1) < seq_max_NUM PROVE Passed(k + 1, q, from, b)
  <2>1. t = from + k
    <3>1. from + k < seq_max_NUM
      BY <1>12, SeqAssumption
    <3> QED
      BY <1>1, <3>1, NearAdd
  <2>2. Passed(k, p, from, b)
    <3>1. from + k < seq_max_NUM
      BY <1>12, SeqAssumption
    <3> QED
      BY <3>1 DEF RoundsAre
  <2>3. /\ \A j \in MixSlots :
             v[j] = IF \E u \in from .. from + k - 1 : u % audioCaNum = j
                    THEN 0 ELSE b.bins[j]
        /\ \A j \in 1 .. l : /\ o[j].at \in from .. from + k - 1
                             /\ o[j].mix = b.mix[o[j].at % audioCaNum]
        /\ \A g, j \in 1 .. l : g < j => o[g].at < o[j].at
        /\ \A u \in from .. from + k - 1 :
             u < from + audioCaNum /\ b.bins[u % audioCaNum] = 1
               => \E j \in 1 .. l : o[j].at = u
    BY <1>5, <1>8, <2>2 DEF Passed
  <2>4. \A u : u \in from .. from + (k + 1) - 1 <=> u \in from .. from + k - 1 \/ u = t
    BY <2>1
  <2>5. ASSUME NEW j \in MixSlots
        PROVE  q.bins[j] = IF \E u \in from .. from + (k + 1) - 1 : u % audioCaNum = j
                           THEN 0 ELSE b.bins[j]
    <3>1. CASE j = i
      <4>1. t \in from .. from + (k + 1) - 1
        BY <2>4
      <4> QED
        BY <1>1, <1>9, <3>1, <4>1
    <3>2. CASE j # i
      <4>1. (\E u \in from .. from + (k + 1) - 1 : u % audioCaNum = j)
              <=> (\E u \in from .. from + k - 1 : u % audioCaNum = j)
        BY <1>1, <2>4, <3>2
      <4> QED
        BY <1>9, <2>3, <3>2, <4>1
    <3> QED
      BY <3>1, <3>2
  <2>6. CASE v[i] = 0
    <3>1. q.out = o
      BY <1>6, <2>6
    <3>2. ASSUME NEW u \in from .. from + (k + 1) - 1,
                 u < from + audioCaNum, b.bins[u % audioCaNum] = 1
          PROVE  \E j \in 1 .. l : o[j].at = u
      <4>1. CASE u \in from .. from + k - 1
        BY <2>3, <3>2, <4>1
      <4>2. CASE u = t
        <5>1. PICK w \in from .. from + k - 1 : w % audioCaNum = i
          BY <1>1, <1>2, <2>3, <2>6, <3>2, <4>2
        <5>2. /\ w \in from .. from + audioCaNum - 1 /\ t \in from .. from + audioCaNum - 1
              /\ w # t
          BY <2>1, <3>2, <4>2, MixAssumption
        <5> QED
          BY <1>1, <5>1, <5>2, OneTime
      <4> QED
        BY <2>4, <4>1, <4>2
    <3>3. \A j \in 1 .. l : o[j].at \in from .. from + (k + 1) - 1
      BY <2>3, <2>4
    <3> QED
      BY <1>8, <2>3, <2>5, <3>1, <3>2, <3>3 DEF Passed
  <2>7. CASE v[i] # 0
    <3>1. q.out = Append(o, e)
      BY <1>6, <2>7
    <3>2. Len(q.out) = l + 1 /\ q.out[l + 1] = e /\ \A j \in 1 .. l : q.out[j] = o[j]
      BY <1>10, <3>1
    <3>3. ASSUME NEW j \in 1 .. l + 1
          PROVE  /\ q.out[j].at \in from .. from + (k + 1) - 1
                 /\ q.out[j].mix = b.mix[q.out[j].at % audioCaNum]
      <4>1. CASE j \in 1 .. l
        BY <2>3, <2>4, <3>2, <4>1
      <4>2. CASE j = l + 1
        BY <1>1, <1>7, <2>4, <3>2, <4>2
      <4> QED
        BY <4>1, <4>2
    <3>4. ASSUME NEW g \in 1 .. l + 1, NEW j \in 1 .. l + 1, g < j
          PROVE  q.out[g].at < q.out[j].at
      <4>1. g \in 1 .. l
        BY <3>4
      <4>2. CASE j \in 1 .. l
        BY <2>3, <3>2, <3>4, <4>1, <4>2
      <4>3. CASE j = l + 1
        <5>1. o[g].at \in from .. from + k - 1
          BY <2>3, <4>1
        <5>2. q.out[g] = o[g] /\ q.out[j].at = t
          BY <1>7, <3>2, <4>1, <4>3
        <5> QED
          BY <2>1, <5>1, <5>2
      <4> QED
        BY <4>2, <4>3
    <3>5. ASSUME NEW u \in from .. from + (k + 1) - 1,
                 u < from + audioCaNum, b.bins[u % audioCaNum] = 1
          PROVE  \E j \in 1 .. l + 1 : q.out[j].at = u
      <4>1. CASE u \in from .. from + k - 1
        <5>1. PICK j \in 1 .. l : o[j].at = u
          BY <2>3, <3>5, <4>1
        <5>2. j \in 1 .. l + 1 /\ q.out[j] = o[j]
          BY <3>2
        <5> QED
          BY <5>1, <5>2
      <4>2. CASE u = t
        <5>1. l + 1 \in 1 .. l + 1 /\ q.out[l + 1].at = t
          BY <1>7, <3>2
        <5> QED
          BY <4>2, <5>1
      <4> QED
        BY <2>4, <4>1, <4>2
    <3> QED
      BY <2>5, <3>2, <3>3, <3>4, <3>5 DEF Passed
  <2> QED
    BY <2>6, <2>7
<1> QED
  BY <1>1, <1>3, <1>9, <1>11, <1>12 DEF RoundsAre

\* g is the loop of Rounds.
IsLoop(g, n, from, b) ==
  g = [k \in 0 .. n |-> IF k = 0 THEN [out |-> <<>>, bins |-> b.bins]
                        ELSE PlaySlot(g[k - 1], uint16Add(from, k - 1), b.mix)]

\* There is such a loop, of any number of rounds.
LEMMA LoopExists ==
  ASSUME NEW n \in Nat, NEW from, NEW b
  PROVE  \E g : IsLoop(g, n, from, b)
<1> DEFINE Bad == {m \in 0 .. n : ~ \E g : IsLoop(g, m, from, b)}
<1> SUFFICES ASSUME Bad # {} PROVE FALSE
  OBVIOUS
<1>1. Bad \in SUBSET Nat
  OBVIOUS
<1>2. PICK m \in Bad : \A j \in Bad : m <= j
  <2> HIDE DEF Bad
  <2> QED
    BY <1>1, LeastOne
<1>3. m \in 0 .. n /\ m \in Nat
  OBVIOUS
<1>4. CASE m = 0
  <2> DEFINE f == [k \in 0 .. 0 |-> [out |-> <<>>, bins |-> b.bins]]
  <2>1. \A k \in 0 .. 0 : k = 0
    OBVIOUS
  <2>2. IsLoop(f, 0, from, b)
    BY <2>1 DEF IsLoop
  <2> QED
    BY <1>4, <2>2
<1>5. CASE m # 0
  <2>1. m - 1 \in 0 .. n /\ m - 1 < m /\ m - 1 \in Nat
    BY <1>3, <1>5
  <2>2. m - 1 \notin Bad
    <3> HIDE DEF Bad
    <3> QED
      BY <1>2, <1>3, <2>1
  <2>3. PICK f : IsLoop(f, m - 1, from, b)
    BY <2>1, <2>2
  <2> DEFINE Again(k) == PlaySlot(f[k - 1], uint16Add(from, k - 1), b.mix)
             g == [k \in 0 .. m |-> IF k = m THEN Again(m) ELSE f[k]]
             Start == [out |-> <<>>, bins |-> b.bins]
  <2>4. \A k \in 0 .. m - 1 : f[k] = IF k = 0 THEN Start ELSE Again(k)
    <3> HIDE DEF Start
    <3> QED
      BY <2>3 DEF IsLoop, Start
  <2>5. \A k \in 0 .. m : g[k] = IF k = m THEN Again(m) ELSE f[k]
    <3> HIDE DEF Again
    <3> QED
      OBVIOUS
  <2>6. g = [k \in 0 .. m |-> g[k]]
    OBVIOUS
  <2> HIDE DEF g, Start
  <2>7. ASSUME NEW k \in 0 .. m
        PROVE  g[k] = IF k = 0 THEN Start
                      ELSE PlaySlot(g[k - 1], uint16Add(from, k - 1), b.mix)
    <3>1. CASE k = 0
      BY <1>3, <1>5, <2>1, <2>4, <2>5, <3>1
    <3>2. CASE k # 0
      <4>1. k - 1 \in 0 .. m /\ k - 1 # m
        BY <1>3, <3>2
      <4>2. g[k - 1] = f[k - 1]
        BY <2>5, <4>1
      <4>3. g[k] = Again(k)
        <5>1. CASE k = m
          BY <2>5, <5>1
        <5>2. CASE k # m
          <6>1. k \in 0 .. m - 1
            BY <1>3, <5>2
          <6> QED
            BY <2>4, <2>5, <3>2, <5>2, <6>1
        <5> QED
          BY <5>1, <5>2
      <4> QED
        BY <3>2, <4>2, <4>3
    <3> QED
      BY <3>1, <3>2
  <2>8. IsLoop(g, m, from, b)
    BY <2>6, <2>7 DEF IsLoop, Start
  <2> QED
    BY <2>8
<1> QED
  BY <1>4, <1>5

\* What the loop plays and leaves (room.cpp:548-571).
LEMMA RoundsPlay ==
  ASSUME NEW X, NEW n \in Nat, NEW from \in Nat, NEW b,
         b.bins \in [MixSlots -> {0, 1}], b.mix \in [MixSlots -> X]
  PROVE  RoundsAre(n, Rounds(from, n, b), from, b, X)
<1>1. PICK g : g = CHOOSE f : IsLoop(f, n, from, b)
  OBVIOUS
<1>2. IsLoop(g, n, from, b)
  BY <1>1, LoopExists
<1>3. Rounds(from, n, b) = g[n]
  BY <1>1 DEF Rounds, IsLoop
<1>4. \A k \in 0 .. n : g[k] = IF k = 0 THEN [out |-> <<>>, bins |-> b.bins]
                               ELSE PlaySlot(g[k - 1], uint16Add(from, k - 1), b.mix)
  <2> DEFINE Start == [out |-> <<>>, bins |-> b.bins]
  <2> HIDE DEF Start
  <2> QED
    BY <1>2 DEF IsLoop, Start
<1> DEFINE Bad == {k \in 0 .. n : ~ RoundsAre(k, g[k], from, b, X)}
<1>5. Bad = {}
  <2> SUFFICES ASSUME Bad # {} PROVE FALSE
    OBVIOUS
  <2>1. Bad \in SUBSET Nat
    OBVIOUS
  <2>2. PICK k \in Bad : \A j \in Bad : k <= j
    <3> HIDE DEF Bad
    <3> QED
      BY <2>1, LeastOne
  <2>3. k \in 0 .. n /\ k \in Nat /\ ~ RoundsAre(k, g[k], from, b, X)
    OBVIOUS
  <2>4. CASE k = 0
    <3>1. PICK p : p = g[0]
      OBVIOUS
    <3>2. p.out = <<>> /\ p.bins = b.bins
      BY <1>4, <2>3, <2>4, <3>1
    <3>3. Len(p.out) = 0 /\ \A x : x \notin from .. from + 0 - 1
      BY <3>2
    <3>4. Passed(0, p, from, b)
      BY <3>2, <3>3 DEF Passed
    <3>5. p.out \in Seq([at : SeqNums, mix : X])
      BY <3>2
    <3>6. RoundsAre(0, p, from, b, X)
      BY <3>2, <3>4, <3>5 DEF RoundsAre
    <3> QED
      BY <2>3, <2>4, <3>1, <3>6
  <2>5. CASE k # 0
    <3>1. PICK j \in Nat : k = j + 1 /\ j \in 0 .. n /\ j < k
      <4>1. k - 1 \in Nat /\ k = (k - 1) + 1 /\ k - 1 \in 0 .. n /\ k - 1 < k
        BY <2>3, <2>5
      <4> QED
        BY <4>1
    <3>2. j \notin Bad
      <4> HIDE DEF Bad
      <4> QED
        BY <2>2, <2>3, <3>1
    <3>3. RoundsAre(j, g[j], from, b, X)
      BY <3>1, <3>2
    <3>4. g[k] = PlaySlot(g[j], uint16Add(from, j), b.mix)
      <4>1. k - 1 = j
        BY <3>1
      <4> QED
        BY <1>4, <2>3, <2>5, <4>1
    <3>5. RoundsAre(j + 1, g[k], from, b, X)
      BY <3>3, <3>4, RoundStep
    <3> QED
      BY <2>3, <3>1, <3>5
  <2> QED
    BY <2>4, <2>5
<1>6. n \in 0 .. n
  OBVIOUS
<1> QED
  BY <1>3, <1>5, <1>6
-----------------------------------------------------------------------------
(* The mixing of a room: what waits and what was played                    *)

Pieces == [of : Speakers, era : Nat, pts : TimeStamps, at : Nat]

\* Of the pieces ps, those from the time nx on wait in the slot of their time,
\* and what a slot holds is for one time of the next second.
Waiting(ps, bins, mix, nx) ==
  /\ \A i \in MixSlots : bins[i] = 1 =>
       \E t \in nx .. nx + audioCaNum - 1 :
         /\ t % audioCaNum = i
         /\ \A n \in mix[i] : ps[n].at = t
  /\ \A n \in 1 .. Len(ps) : ps[n].at >= nx =>
       bins[ps[n].at % audioCaNum] = 1 /\ n \in mix[ps[n].at % audioCaNum]

\* The others were played at their time, and what was played has rising times
\* before nx.
Over(ps, pl, nx) ==
  /\ \A k \in 1 .. Len(pl) : pl[k].at < nx
  /\ \A j, k \in 1 .. Len(pl) : j < k => pl[j].at < pl[k].at
  /\ \A n \in 1 .. Len(ps) : ps[n].at < nx =>
       \E k \in 1 .. Len(pl) : pl[k].at = ps[n].at /\ n \in pl[k].mix

\* A piece that is not before nx and fits waits with those of its time
\* (room.cpp:199-275).
LEMMA MixKeeps ==
  ASSUME NEW ps \in Seq(Pieces), NEW bins \in [MixSlots -> {0, 1}],
         NEW mix \in [MixSlots -> SUBSET (1 .. Len(ps))], NEW nx \in Nat, NEW pl,
         Waiting(ps, bins, mix, nx), Over(ps, pl, nx),
         NEW e \in Pieces, e.at \in nx .. nx + audioCaNum - 1
  PROVE  LET b == MixedIn(bins, mix, e.at % audioCaNum, Len(ps) + 1)
             q == Append(ps, e)
         IN  /\ b.bins \in [MixSlots -> {0, 1}]
             /\ b.mix \in [MixSlots -> SUBSET (1 .. Len(q))]
             /\ Waiting(q, b.bins, b.mix, nx) /\ Over(q, pl, nx)
<1>1. PICK L \in Nat : L = Len(ps)
  OBVIOUS
<1>2. PICK r, i : r = e.at /\ i = r % audioCaNum
  OBVIOUS
<1>3. r \in Nat /\ i \in MixSlots /\ r \in nx .. nx + audioCaNum - 1
  <2>1. r \in Nat
    BY <1>2 DEF Pieces
  <2> QED
    BY <1>2, <2>1, SlotOfTime
<1>4. PICK q : q = Append(ps, e)
  OBVIOUS
<1>5. /\ q \in Seq(Pieces) /\ Len(q) = L + 1 /\ q[L + 1].at = r
      /\ \A n \in 1 .. L : q[n] = ps[n] /\ ps[n].at \in Nat
  <2>1. \A n \in 1 .. L : ps[n].at \in Nat
    <3>1. \A n \in 1 .. L : ps[n] \in Pieces
      BY <1>1, ElementOfSeq
    <3> QED
      BY <3>1 DEF Pieces
  <2>2. q \in Seq(Pieces) /\ Len(q) = L + 1 /\ q[L + 1] = e /\ \A n \in 1 .. L : q[n] = ps[n]
    BY <1>1, <1>4, AppendProperties
  <2> QED
    BY <1>2, <2>1, <2>2
<1>6. PICK b : b = MixedIn(bins, mix, i, L + 1)
  OBVIOUS
<1>7. /\ b.bins \in [MixSlots -> {0, 1}]
      /\ \A j \in MixSlots : b.bins[j] = IF j = i THEN 1 ELSE bins[j]
      /\ \A j \in MixSlots : b.mix[j] = IF j # i THEN mix[j]
                                        ELSE IF bins[i] = 0 THEN {L + 1}
                                        ELSE mix[i] \cup {L + 1}
      /\ DOMAIN b.mix = MixSlots /\ b.mix = [j \in MixSlots |-> b.mix[j]]
  BY <1>3, <1>6 DEF MixedIn
<1>8. b.mix \in [MixSlots -> SUBSET (1 .. L + 1)]
  <2>1. ASSUME NEW j \in MixSlots PROVE b.mix[j] \subseteq 1 .. L + 1
    <3>1. mix[j] \subseteq 1 .. L
      BY <1>1
    <3>2. mix[j] \subseteq 1 .. L + 1 /\ L + 1 \in 1 .. L + 1
      BY <3>1
    <3> QED
      BY <1>7, <3>2
  <2> QED
    BY <1>7, <2>1
<1>9. /\ \A j \in MixSlots : bins[j] = 1 =>
           \E t \in nx .. nx + audioCaNum - 1 :
             t % audioCaNum = j /\ \A n \in mix[j] : ps[n].at = t
      /\ \A n \in 1 .. L : ps[n].at >= nx =>
           bins[ps[n].at % audioCaNum] = 1 /\ n \in mix[ps[n].at % audioCaNum]
  BY <1>1 DEF Waiting
<1>10. ASSUME NEW j \in MixSlots, b.bins[j] = 1
       PROVE  \E t \in nx .. nx + audioCaNum - 1 :
                t % audioCaNum = j /\ \A n \in b.mix[j] : q[n].at = t
  <2>1. \A n \in mix[j] : n \in 1 .. L
    BY <1>1
  <2>2. CASE bins[j] = 1
    <3>1. PICK t \in nx .. nx + audioCaNum - 1 :
            t % audioCaNum = j /\ \A n \in mix[j] : ps[n].at = t
      BY <1>9, <2>2
    <3>2. j = i => t = r
      BY <1>2, <1>3, <3>1, OneTime
    <3>3. ASSUME NEW n \in b.mix[j] PROVE q[n].at = t
      <4>1. n \in mix[j] \/ (j = i /\ n = L + 1)
        BY <1>7, <2>2
      <4> QED
        BY <1>5, <2>1, <3>1, <3>2, <4>1
    <3> QED
      BY <3>1, <3>3
  <2>3. CASE bins[j] # 1
    <3>1. j = i /\ bins[i] = 0
      BY <1>7, <1>10, <2>3
    <3>2. \A n \in b.mix[j] : q[n].at = r
      BY <1>5, <1>7, <3>1
    <3> QED
      BY <1>2, <1>3, <3>1, <3>2
  <2> QED
    BY <2>2, <2>3
<1>11. ASSUME NEW n \in 1 .. L + 1, q[n].at >= nx
       PROVE  b.bins[q[n].at % audioCaNum] = 1 /\ n \in b.mix[q[n].at % audioCaNum]
  <2>1. CASE n = L + 1
    BY <1>2, <1>3, <1>5, <1>7, <2>1
  <2>2. CASE n # L + 1
    <3>1. n \in 1 .. L /\ q[n] = ps[n] /\ ps[n].at \in Nat
      BY <1>5, <2>2
    <3>2. PICK j : j = ps[n].at % audioCaNum
      OBVIOUS
    <3>3. j \in MixSlots /\ bins[j] = 1 /\ n \in mix[j]
      BY <1>9, <1>11, <3>1, <3>2, SlotOfTime
    <3>4. b.bins[j] = 1 /\ n \in b.mix[j]
      BY <1>7, <3>3
    <3> QED
      BY <3>1, <3>2, <3>4
  <2> QED
    BY <2>1, <2>2
<1>12. Waiting(q, b.bins, b.mix, nx)
  BY <1>5, <1>10, <1>11 DEF Waiting
<1>13. Over(q, pl, nx)
  <2>1. ASSUME NEW n \in 1 .. L + 1, q[n].at < nx
        PROVE  \E k \in 1 .. Len(pl) : pl[k].at = q[n].at /\ n \in pl[k].mix
    <3>1. n # L + 1
      BY <1>3, <1>5, <2>1
    <3>2. n \in 1 .. L /\ q[n] = ps[n]
      BY <1>5, <3>1
    <3> QED
      BY <1>1, <2>1, <3>2 DEF Over
  <2> QED
    BY <1>5, <2>1 DEF Over
<1> QED
  BY <1>1, <1>2, <1>4, <1>5, <1>6, <1>7, <1>8, <1>12, <1>13

\* What is played is over, and what is left waits (room.cpp:545-571).
LEMMA PlayKeeps ==
  ASSUME NEW ps \in Seq(Pieces), NEW b, b.bins \in [MixSlots -> {0, 1}],
         b.mix \in [MixSlots -> SUBSET (1 .. Len(ps))], NEW nx \in Nat, NEW D \in Nat,
         nx < D, D < seq_max_NUM,
         NEW Y, NEW pl \in Seq([at : SeqNums, mix : SUBSET Y]), 1 .. Len(ps) \subseteq Y,
         Waiting(ps, b.bins, b.mix, nx), Over(ps, pl, nx)
  PROVE  LET p == Rounds(nx, D - nx, b)
         IN  Waiting(ps, p.bins, b.mix, D) /\ Over(ps, pl \o p.out, D)
<1>1. PICK d \in Nat : d = D - nx
  OBVIOUS
<1>2. PICK p : p = Rounds(nx, d, b)
  OBVIOUS
<1>3. /\ p.bins \in [MixSlots -> {0, 1}]
      /\ p.out \in Seq([at : SeqNums, mix : SUBSET Y])
      /\ Passed(d, p, nx, b)
  <2>1. RoundsAre(d, p, nx, b, SUBSET Y)
    <3>1. b.mix \in [MixSlots -> SUBSET Y]
      OBVIOUS
    <3> QED
      BY <1>2, <3>1, RoundsPlay
  <2>2. nx + d < seq_max_NUM
    BY <1>1
  <2> QED
    BY <2>1, <2>2 DEF RoundsAre
<1>4. nx .. nx + d - 1 = nx .. D - 1
  BY <1>1
<1>5. PICK L \in Nat : L = Len(ps)
  OBVIOUS
<1>6. \A n \in 1 .. L : ps[n].at \in Nat
  <2>1. \A n \in 1 .. L : ps[n] \in Pieces
    BY <1>5, ElementOfSeq
  <2> QED
    BY <2>1 DEF Pieces
<1>7. \A i \in MixSlots : b.bins[i] = 1 =>
        \E t \in nx .. nx + audioCaNum - 1 :
          t % audioCaNum = i /\ \A n \in b.mix[i] : ps[n].at = t
  BY DEF Waiting
<1>8. \A n \in 1 .. L : ps[n].at >= nx =>
        /\ b.bins[ps[n].at % audioCaNum] = 1 /\ n \in b.mix[ps[n].at % audioCaNum]
        /\ ps[n].at \in nx .. nx + audioCaNum - 1
  <2> SUFFICES ASSUME NEW n \in 1 .. L, ps[n].at >= nx
               PROVE  /\ b.bins[ps[n].at % audioCaNum] = 1
                      /\ n \in b.mix[ps[n].at % audioCaNum]
                      /\ ps[n].at \in nx .. nx + audioCaNum - 1
    OBVIOUS
  <2>1. PICK a, i : a = ps[n].at /\ i = a % audioCaNum
    OBVIOUS
  <2>2. a \in Nat /\ i \in MixSlots
    BY <1>6, <2>1, SlotOfTime
  <2>3. b.bins[i] = 1 /\ n \in b.mix[i]
    BY <1>5, <2>1 DEF Waiting
  <2>4. a \in nx .. nx + audioCaNum - 1
    BY <1>7, <2>1, <2>2, <2>3
  <2> QED
    BY <2>1, <2>3, <2>4
<1>9. \A i \in MixSlots :
        p.bins[i] = IF \E t \in nx .. D - 1 : t % audioCaNum = i THEN 0 ELSE b.bins[i]
  BY <1>3, <1>4 DEF Passed
<1>10. Waiting(ps, p.bins, b.mix, D)
  <2>1. ASSUME NEW i \in MixSlots, p.bins[i] = 1
        PROVE  \E t \in D .. D + audioCaNum - 1 :
                 t % audioCaNum = i /\ \A n \in b.mix[i] : ps[n].at = t
    <3>1. b.bins[i] = 1 /\ \A t \in nx .. D - 1 : t % audioCaNum # i
      BY <1>9, <2>1
    <3>2. PICK t \in nx .. nx + audioCaNum - 1 :
            t % audioCaNum = i /\ \A n \in b.mix[i] : ps[n].at = t
      BY <1>7, <3>1
    <3>3. t \notin nx .. D - 1
      BY <3>1, <3>2
    <3>4. t \in D .. D + audioCaNum - 1
      BY <3>3, MixAssumption
    <3> QED
      BY <3>2, <3>4
  <2>2. ASSUME NEW n \in 1 .. L, ps[n].at >= D
        PROVE  p.bins[ps[n].at % audioCaNum] = 1 /\ n \in b.mix[ps[n].at % audioCaNum]
    <3>1. PICK a, i : a = ps[n].at /\ i = a % audioCaNum
      OBVIOUS
    <3>2. a \in Nat /\ a >= D /\ i \in MixSlots
      BY <1>6, <2>2, <3>1, SlotOfTime
    <3>3. b.bins[i] = 1 /\ n \in b.mix[i] /\ a \in nx .. nx + audioCaNum - 1
      BY <1>8, <3>1, <3>2
    <3>4. ASSUME NEW t \in nx .. D - 1 PROVE t % audioCaNum # i
      <4>1. t \in nx .. nx + audioCaNum - 1 /\ t # a
        BY <3>2, <3>3, MixAssumption
      <4> QED
        BY <3>1, <3>3, <4>1, OneTime
    <3> QED
      BY <1>9, <3>1, <3>2, <3>3, <3>4
  <2> QED
    BY <1>5, <2>1, <2>2 DEF Waiting
<1>11. PICK o, w : o = p.out /\ w = pl \o o
  OBVIOUS
<1>12. PICK m \in Nat, l \in Nat : m = Len(pl) /\ l = Len(o)
  BY <1>3, <1>11
<1>13. /\ Len(w) = m + l
       /\ \A k \in 1 .. m : w[k] = pl[k]
       /\ \A k \in 1 .. l : w[m + k] = o[k]
       /\ \A k \in 1 .. m + l : k \in 1 .. m \/ \E j \in 1 .. l : k = m + j
  <2> DEFINE S == [at : SeqNums, mix : SUBSET Y]
  <2>2. o \in Seq(S)
    BY <1>3, <1>11
  <2> HIDE DEF S
  <2>3. /\ Len(w) = Len(pl) + Len(o)
        /\ \A k \in 1 .. Len(pl) + Len(o) : w[k] = IF k <= Len(pl) THEN pl[k]
                                                   ELSE o[k - Len(pl)]
    <3>1. pl \in Seq(S)
      BY DEF S
    <3> QED
      BY <1>11, <2>2, <3>1, ConcatProperties
  <2>4. Len(w) = m + l /\ \A k \in 1 .. m + l : w[k] = IF k <= m THEN pl[k] ELSE o[k - m]
    BY <1>12, <2>3
  <2>5. ASSUME NEW k \in 1 .. l PROVE w[m + k] = o[k]
    <3>1. m + k \in 1 .. m + l /\ ~(m + k <= m) /\ (m + k) - m = k
      OBVIOUS
    <3> QED
      BY <2>4, <3>1
  <2>6. ASSUME NEW k \in 1 .. m + l PROVE k \in 1 .. m \/ \E j \in 1 .. l : k = m + j
    <3>1. k \in 1 .. m \/ (k - m \in 1 .. l /\ k = m + (k - m))
      OBVIOUS
    <3> QED
      BY <3>1
  <2>7. \A k \in 1 .. m : w[k] = pl[k]
    BY <2>4
  <2> QED
    BY <2>4, <2>5, <2>6, <2>7
<1>14. /\ \A k \in 1 .. m : pl[k].at < nx /\ pl[k].at \in Nat
       /\ \A j, k \in 1 .. m : j < k => pl[j].at < pl[k].at
  <2>1. \A k \in 1 .. m : pl[k].at \in Nat
    <3>1. \A k \in 1 .. m : pl[k] \in [at : SeqNums, mix : SUBSET Y]
      BY <1>12, ElementOfSeq
    <3> QED
      BY <3>1 DEF SeqNums
  <2> QED
    BY <1>12, <2>1 DEF Over
<1>15. /\ \A k \in 1 .. l : /\ o[k].at \in nx .. D - 1
                            /\ o[k].mix = b.mix[o[k].at % audioCaNum]
       /\ \A j, k \in 1 .. l : j < k => o[j].at < o[k].at
       /\ \A t \in nx .. D - 1 : t < nx + audioCaNum /\ b.bins[t % audioCaNum] = 1
            => \E k \in 1 .. l : o[k].at = t
  BY <1>3, <1>4, <1>11, <1>12 DEF Passed
<1>16. ASSUME NEW k \in 1 .. m + l PROVE w[k].at < D
  <2>1. CASE k \in 1 .. m
    <3>1. PICK a : a = pl[k].at
      OBVIOUS
    <3>2. w[k].at = a /\ a < nx /\ a \in Nat
      BY <1>13, <1>14, <2>1, <3>1
    <3>3. a < D
      BY <3>2
    <3> QED
      BY <3>2, <3>3
  <2>2. CASE \E j \in 1 .. l : k = m + j
    <3>1. PICK j \in 1 .. l : k = m + j
      BY <2>2
    <3>2. w[k] = o[j] /\ o[j].at \in nx .. D - 1
      BY <1>13, <1>15, <3>1
    <3> QED
      BY <3>2
  <2> QED
    BY <1>13, <2>1, <2>2
<1>17. ASSUME NEW j \in 1 .. m + l, NEW k \in 1 .. m + l, j < k
       PROVE  w[j].at < w[k].at
  <2>1. CASE k \in 1 .. m
    <3>1. j \in 1 .. m
      BY <1>17, <2>1
    <3>2. pl[j].at < pl[k].at
      BY <1>14, <1>17, <2>1, <3>1
    <3>3. w[j] = pl[j] /\ w[k] = pl[k]
      BY <1>13, <2>1, <3>1
    <3> QED
      BY ONLY <3>2, <3>3
  <2>2. CASE j \in 1 .. m /\ \E g \in 1 .. l : k = m + g
    <3>1. PICK g \in 1 .. l : k = m + g
      BY <2>2
    <3>2. w[j].at < nx /\ w[j].at \in Nat /\ w[k].at \in nx .. D - 1
      BY <1>13, <1>14, <1>15, <2>2, <3>1
    <3> QED
      BY <3>2
  <2>3. CASE (\E f \in 1 .. l : j = m + f) /\ \E g \in 1 .. l : k = m + g
    <3>1. PICK f \in 1 .. l, g \in 1 .. l : j = m + f /\ k = m + g
      BY <2>3
    <3>2. f < g
      BY <1>17, <3>1
    <3> QED
      BY <1>13, <1>15, <3>1, <3>2
  <2>4. k \notin 1 .. m => \E g \in 1 .. l : k = m + g
    BY <1>13
  <2>5. j \notin 1 .. m => \E f \in 1 .. l : j = m + f
    BY <1>13
  <2>6. k \in 1 .. m \/ k \notin 1 .. m
    OBVIOUS
  <2>7. j \in 1 .. m \/ j \notin 1 .. m
    OBVIOUS
  <2> QED
    BY ONLY <2>1, <2>2, <2>3, <2>4, <2>5, <2>6, <2>7
<1>18. ASSUME NEW n \in 1 .. L, ps[n].at < D
       PROVE  \E k \in 1 .. m + l : w[k].at = ps[n].at /\ n \in w[k].mix
  <2>1. PICK a : a = ps[n].at
    OBVIOUS
  <2>2. a \in Nat /\ a < D
    BY <1>6, <1>18, <2>1
  <2>3. CASE a < nx
    <3>1. PICK k \in 1 .. m : pl[k].at = a /\ n \in pl[k].mix
      BY <1>5, <1>12, <2>1, <2>3 DEF Over
    <3>2. k \in 1 .. m + l /\ w[k] = pl[k]
      BY <1>13
    <3> QED
      BY <2>1, <3>1, <3>2
  <2>4. CASE a >= nx
    <3>1. /\ b.bins[a % audioCaNum] = 1 /\ n \in b.mix[a % audioCaNum]
          /\ a \in nx .. nx + audioCaNum - 1
      BY <1>8, <2>1, <2>4
    <3>2. a \in nx .. D - 1 /\ a < nx + audioCaNum
      BY <2>2, <2>4, <3>1, MixAssumption
    <3>3. PICK k \in 1 .. l : o[k].at = a
      BY <1>15, <3>1, <3>2
    <3>4. m + k \in 1 .. m + l /\ w[m + k] = o[k]
      BY <1>13
    <3>5. n \in o[k].mix
      BY <1>15, <3>1, <3>3
    <3> QED
      BY <2>1, <3>3, <3>4, <3>5
  <2> QED
    BY <2>2, <2>3, <2>4
<1>19. Over(ps, w, D)
  BY <1>5, <1>13, <1>16, <1>17, <1>18 DEF Over
<1> QED
  BY <1>1, <1>2, <1>10, <1>11, <1>19
-----------------------------------------------------------------------------
(* The mixing of a room: its steps                                         *)

\* The time the piece of s with the stamp f is for, and where the room plays.
DiffPts       == IF startplay = 0 THEN 0 ELSE clock - startplay
RealTime(s, f) == IF startplay = 0 THEN RealPts(f, f, 0, 0)
                                   ELSE RealPts(f, cpts[s], spts[s], DiffPts)
NextTime(s, f) == IF startplay = 0 THEN RealTime(s, f) ELSE nextptsplay

\* What Merge does, piece by piece: b are the slots with the piece mixed in, if
\* it fits; they are played up to the time D, if that is ahead.
MergeOf(s, f, D, r, nx, b) ==
  /\ D = DiffPts /\ r = RealTime(s, f) /\ nx = NextTime(s, f)
  /\ came < MaxInput /\ came' = came + 1 /\ clock' = clock /\ era' = era
  /\ f = 0 \/ uint16Sub(f, U16(cpts[s])) > 0
  /\ startplay' = IF startplay = 0 THEN clock ELSE startplay
  /\ spts' = [spts EXCEPT ![s] = r] /\ cpts' = [cpts EXCEPT ![s] = f]
  /\ \/ /\ Fits(r, nx)
        /\ pieces' = Append(pieces, [of |-> s, era |-> era[s], pts |-> f, at |-> r])
        /\ b = MixedIn(binsize, samptota, r % audioCaNum, Len(pieces) + 1)
     \/ pieces' = pieces /\ b = [bins |-> binsize, mix |-> samptota]
  /\ PlayUpTo(nx, D, b)

LEMMA MergeIs ==
  ASSUME NEW s \in Speakers, NEW f \in TimeStamps, NEW whole \in BOOLEAN,
         Merge(s, f, whole)
  PROVE  \E D, r, nx, b : MergeOf(s, f, D, r, nx, b)
<1>1. PICK D, r, nx : D = DiffPts /\ r = RealTime(s, f) /\ nx = NextTime(s, f)
  OBVIOUS
<1>2. PICK b, c : /\ b = [bins |-> binsize, mix |-> samptota]
                  /\ c = MixedIn(binsize, samptota, r % audioCaNum, Len(pieces) + 1)
  OBVIOUS
<1>3. /\ came < MaxInput /\ came' = came + 1 /\ clock' = clock /\ era' = era
      /\ f = 0 \/ uint16Sub(f, U16(cpts[s])) > 0
      /\ startplay' = IF startplay = 0 THEN clock ELSE startplay
      /\ spts' = [spts EXCEPT ![s] = r] /\ cpts' = [cpts EXCEPT ![s] = f]
      /\ IF whole /\ Fits(r, nx)
         THEN /\ pieces' = Append(pieces, [of |-> s, era |-> era[s], pts |-> f, at |-> r])
              /\ PlayUpTo(nx, D, c)
         ELSE pieces' = pieces /\ PlayUpTo(nx, D, b)
  <2>1. CASE startplay = 0
    <3>1. D = 0 /\ r = RealPts(f, f, 0, 0) /\ nx = r
      BY <1>1, <2>1 DEF DiffPts, RealTime, NextTime
    <3> QED
      BY <1>2, <2>1, <3>1 DEF Merge
  <2>2. CASE startplay # 0
    <3>1. /\ D = clock - startplay /\ r = RealPts(f, cpts[s], spts[s], D)
          /\ nx = nextptsplay
      BY <1>1, <2>2 DEF DiffPts, RealTime, NextTime
    <3> QED
      BY <1>2, <2>2, <3>1 DEF Merge
  <2> QED
    BY <2>1, <2>2
<1>4. CASE whole /\ Fits(r, nx)
  <2>1. MergeOf(s, f, D, r, nx, c)
    BY <1>1, <1>2, <1>3, <1>4 DEF MergeOf
  <2> QED
    BY <2>1
<1>5. CASE ~(whole /\ Fits(r, nx))
  <2>1. MergeOf(s, f, D, r, nx, b)
    BY <1>1, <1>2, <1>3, <1>5 DEF MergeOf
  <2> QED
    BY <2>1
<1> QED
  BY <1>4, <1>5

\* The numbers of a piece.
LEMMA RealPtsNat ==
  ASSUME NEW f \in SeqNums, NEW c \in SeqNums, NEW s \in Nat, NEW D \in Nat
  PROVE  RealPts(f, c, s, D) \in Nat
<1>1. seq_max_NUM \in Nat /\ seq_max_NUM + 1 \in Nat \ {0}
  BY SeqAssumption
<1>2. U16(s) \in Nat
  BY <1>1, Remainders DEF U16
<1>3. StampsAhead(f, c) \in Nat
  BY <1>1 DEF StampsAhead, SeqNums
<1>4. uint16Add(U16(s), StampsAhead(f, c)) \in Nat
  BY <1>2, <1>3, AddIn DEF SeqNums
<1> QED
  BY <1>4 DEF RealPts

\* The first piece is for the time 0.
LEMMA RealPtsFirst ==
  ASSUME NEW f \in SeqNums
  PROVE  RealPts(f, f, 0, 0) = 0
<1>1. 0 \in 0 .. HalfRound
  BY HalfRoundIs
<1>2. U16(0) = 0 /\ uint16Sub(0, 0) = 0
  BY <1>1, NearSub
<1>3. StampsAhead(f, f) = 0
  BY SeqAssumption DEF StampsAhead, SeqNums
<1>4. uint16Add(0, 0) = 0
  <2>1. 0 + 0 < seq_max_NUM
    BY HalfRoundIs
  <2> QED
    BY <2>1, NearAdd
<1> QED
  BY <1>2, <1>3, <1>4 DEF RealPts

\* Every step keeps the types.
LEMMA MixTypeMerge ==
  ASSUME MixTypeOK, NEW s \in Speakers, NEW f \in TimeStamps, NEW whole \in BOOLEAN,
         Merge(s, f, whole)
  PROVE  MixTypeOK'
<1>1. PICK D, r, nx, b : MergeOf(s, f, D, r, nx, b)
  BY MergeIs
<1>2. /\ clock \in 1 .. MaxClock /\ startplay \in 0 .. clock /\ nextptsplay \in SeqNums
      /\ spts \in [Speakers -> Nat] /\ cpts \in [Speakers -> TimeStamps \cup {0}]
      /\ binsize \in [MixSlots -> {0, 1}]
      /\ samptota \in [MixSlots -> SUBSET DOMAIN pieces]
      /\ era \in [Speakers -> 0 .. came]
      /\ pieces \in Seq(Pieces)
      /\ came \in Len(pieces) .. MaxInput
      /\ played \in Seq([at : SeqNums, mix : SUBSET DOMAIN pieces])
      /\ spins \in BOOLEAN /\ MaxClock \in Nat /\ MaxInput \in Nat
  BY MixAssumption DEF MixTypeOK, Pieces
<1>3. D \in Nat
  BY <1>1, <1>2 DEF MergeOf, DiffPts
<1>4. f \in SeqNums /\ cpts[s] \in SeqNums
  <2>1. 0 \in SeqNums
    BY HalfRoundIs DEF SeqNums
  <2> QED
    BY <1>2, <2>1, MixAssumption
<1>5. r \in Nat /\ nx \in SeqNums
  <2>1. CASE startplay = 0
    <3>1. r = 0 /\ nx = 0
      BY <1>1, <1>4, <2>1, RealPtsFirst DEF MergeOf, RealTime, NextTime
    <3> QED
      BY <3>1, HalfRoundIs DEF SeqNums
  <2>2. CASE startplay # 0
    <3>1. r = RealPts(f, cpts[s], spts[s], D) /\ nx = nextptsplay
      BY <1>1, <2>2 DEF MergeOf, RealTime, NextTime
    <3> QED
      BY <1>2, <1>3, <1>4, <3>1, RealPtsNat
  <2> QED
    BY <2>1, <2>2
<1>a. PICK q : q = pieces'
  OBVIOUS
<1>b. PICK L \in Nat : L = Len(pieces)
  BY <1>2
<1>6. q = pieces' /\ L = Len(pieces)
  BY <1>a, <1>b
<1>7. DOMAIN pieces = 1 .. L /\ r % audioCaNum \in MixSlots
  BY <1>2, <1>5, <1>6, SlotOfTime, LenProperties
<1>8. /\ q \in Seq(Pieces) /\ Len(q) \in {L, L + 1} /\ 1 .. L \subseteq DOMAIN q
      /\ b.bins \in [MixSlots -> {0, 1}]
      /\ b.mix \in [MixSlots -> SUBSET DOMAIN q]
  <2>1. CASE /\ pieces' = Append(pieces, [of |-> s, era |-> era[s], pts |-> f, at |-> r])
             /\ b = MixedIn(binsize, samptota, r % audioCaNum, Len(pieces) + 1)
    <3>1. [of |-> s, era |-> era[s], pts |-> f, at |-> r] \in Pieces
      BY <1>2, <1>5 DEF Pieces
    <3>2. q \in Seq(Pieces) /\ Len(q) = L + 1
      BY <1>2, <1>6, <2>1, <3>1, AppendProperties
    <3>3. DOMAIN q = 1 .. L + 1
      BY <3>2, LenProperties
    <3>4. 1 .. L \subseteq 1 .. L + 1 /\ L + 1 \in 1 .. L + 1
      OBVIOUS
    <3>5. PICK i, v, m : i = r % audioCaNum /\ v = binsize /\ m = samptota
      OBVIOUS
    <3>6. v \in [MixSlots -> {0, 1}] /\ m \in [MixSlots -> SUBSET (1 .. L)] /\ i \in MixSlots
      BY <1>2, <1>7, <3>5
    <3>7. /\ b.bins = [v EXCEPT ![i] = 1]
          /\ b.mix = [m EXCEPT ![i] = IF v[i] = 0 THEN {L + 1} ELSE @ \cup {L + 1}]
      BY <1>6, <2>1, <3>5 DEF MixedIn
    <3>8. b.bins \in [MixSlots -> {0, 1}]
      BY <3>6, <3>7
    <3>9. b.mix \in [MixSlots -> SUBSET (1 .. L + 1)]
      <4>1. m \in [MixSlots -> SUBSET (1 .. L + 1)]
        BY <3>4, <3>6
      <4>2. m[i] \cup {L + 1} \in SUBSET (1 .. L + 1) /\ {L + 1} \in SUBSET (1 .. L + 1)
        BY <3>4, <3>6, <4>1
      <4> QED
        BY <3>6, <3>7, <4>1, <4>2
    <3> QED
      BY <3>2, <3>3, <3>4, <3>8, <3>9
  <2>2. CASE pieces' = pieces /\ b = [bins |-> binsize, mix |-> samptota]
    BY <1>2, <1>6, <1>7, <2>2
  <2> QED
    BY <1>1, <2>1, <2>2 DEF MergeOf
<1>9. DOMAIN pieces \subseteq DOMAIN q
  BY <1>7, <1>8
<1>10. played \in Seq([at : SeqNums, mix : SUBSET DOMAIN q])
  <2>a. PICK w : w = played
    OBVIOUS
  <2>b. PICK l \in Nat : l = Len(played)
    BY <1>2
  <2>1. w = played /\ l = Len(played)
    BY <2>a, <2>b
  <2>2. w \in [1 .. l -> [at : SeqNums, mix : SUBSET DOMAIN pieces]]
    BY <1>2, <2>1, LenProperties
  <2>3. [at : SeqNums, mix : SUBSET DOMAIN pieces] \subseteq [at : SeqNums, mix : SUBSET DOMAIN q]
    BY <1>9
  <2> DEFINE S == [at : SeqNums, mix : SUBSET DOMAIN q]
  <2>4. w \in [1 .. l -> S]
    BY <2>2, <2>3
  <2>5. w \in Seq(S)
    <3> HIDE DEF S
    <3> QED
      BY ONLY <2>4, l \in Nat, SeqDef
  <2> QED
    BY <2>1, <2>5
<1>11. /\ samptota' = b.mix /\ nextptsplay' \in SeqNums /\ spins' \in BOOLEAN
       /\ binsize' \in [MixSlots -> {0, 1}]
       /\ played' \in Seq([at : SeqNums, mix : SUBSET DOMAIN q])
  <2>1. PlayUpTo(nx, D, b)
    BY <1>1 DEF MergeOf
  <2>2. PICK n, p : n = uint16Sub(U16(D), nx) /\ p = Rounds(nx, n, b)
    OBVIOUS
  <2>3. CASE n > 0 /\ D \in SeqNums /\ binsize' = p.bins /\ nextptsplay' = D
             /\ played' = played \o p.out /\ spins' = spins
    <3>1. n \in Nat
      <4>1. U16(D) \in Nat /\ nx \in Nat /\ seq_max_NUM \in Nat
        <5>1. seq_max_NUM \in Nat /\ seq_max_NUM + 1 \in Nat \ {0}
          BY SeqAssumption
        <5> QED
          BY <1>3, <1>5, <5>1, Remainders DEF U16, SeqNums
      <4>2. n \in Int
        BY <2>2, <4>1 DEF uint16Sub
      <4> QED
        BY <2>3, <4>2
    <3>2. RoundsAre(n, p, nx, b, SUBSET DOMAIN q)
      <4>1. nx \in Nat
        BY <1>5 DEF SeqNums
      <4> QED
        BY <1>8, <2>2, <3>1, <4>1, RoundsPlay
    <3>3. p.out \in Seq([at : SeqNums, mix : SUBSET DOMAIN q]) /\ p.bins \in [MixSlots -> {0, 1}]
      BY <3>2 DEF RoundsAre
    <3>4. played \o p.out \in Seq([at : SeqNums, mix : SUBSET DOMAIN q])
      BY <1>10, <3>3, ConcatProperties
    <3> QED
      BY <1>2, <2>1, <2>3, <3>3, <3>4 DEF PlayUpTo
  <2>4. CASE binsize' = b.bins /\ nextptsplay' = nx /\ played' = played
             /\ spins' \in BOOLEAN
    BY <1>5, <1>8, <1>10, <2>1, <2>4 DEF PlayUpTo
  <2> QED
    BY <1>2, <2>1, <2>2, <2>3, <2>4 DEF PlayUpTo, Play
<1>12. /\ clock' = clock /\ startplay' \in 0 .. clock /\ came' \in Len(q) .. MaxInput
       /\ spts' \in [Speakers -> Nat] /\ cpts' \in [Speakers -> TimeStamps \cup {0}]
       /\ era' \in [Speakers -> 0 .. came']
  <2>1. startplay' \in {startplay, clock} /\ came' = came + 1 /\ came < MaxInput /\ clock' = clock
    BY <1>1 DEF MergeOf
  <2>2. startplay' \in 0 .. clock /\ came' \in Len(q) .. MaxInput
    BY <1>2, <1>6, <1>8, <2>1
  <2>3. spts' \in [Speakers -> Nat] /\ cpts' \in [Speakers -> TimeStamps \cup {0}]
    BY <1>1, <1>2, <1>5 DEF MergeOf
  <2>4. era' \in [Speakers -> 0 .. came']
    <3>1. 0 .. came \subseteq 0 .. came'
      BY <1>2, <1>6, <2>1
    <3> QED
      BY <1>1, <1>2, <3>1 DEF MergeOf
  <2> QED
    BY <2>1, <2>2, <2>3, <2>4
<1> QED
  BY <1>2, <1>6, <1>8, <1>11, <1>12 DEF MixTypeOK, Pieces

LEMMA MixTypeStep ==
  ASSUME MixTypeOK, [MixNext]_mixVars
  PROVE  MixTypeOK'
<1>0. MaxClock \in Nat /\ MaxInput \in Nat
  BY MixAssumption
<1>1. CASE Tick
  <2>1. clock' \in 1 .. MaxClock /\ startplay' \in 0 .. clock'
    BY <1>0, <1>1 DEF MixTypeOK, Tick
  <2> QED
    BY <1>1, <2>1 DEF MixTypeOK, Tick
<1>2. ASSUME NEW s \in Speakers, NEW f \in TimeStamps, Late(s, f)
      PROVE  MixTypeOK'
  <2>1. came' \in Len(pieces) .. MaxInput /\ pieces' = pieces
    BY <1>0, <1>2 DEF MixTypeOK, Late
  <2>2. era' \in [Speakers -> 0 .. came']
    <3>1. 0 .. came \subseteq 0 .. came'
      BY <1>0, <1>2 DEF MixTypeOK, Late
    <3> QED
      BY <1>2, <3>1 DEF MixTypeOK, Late
  <2> QED
    BY <1>2, <2>1, <2>2 DEF MixTypeOK, Late
<1>3. ASSUME NEW s \in Speakers, NEW f \in TimeStamps, NEW whole \in BOOLEAN,
             Merge(s, f, whole)
      PROVE  MixTypeOK'
  BY <1>3, MixTypeMerge
<1>4. ASSUME NEW s \in Speakers, EnterAgain(s) \/ WrittenElsewhere(s)
      PROVE  MixTypeOK'
  <2>1. spts' \in [Speakers -> Nat] /\ cpts' \in [Speakers -> TimeStamps \cup {0}]
    <3>1. \A t \in OtherTimes : t \in Nat
      BY MixAssumption DEF SeqNums
    <3>2. CASE EnterAgain(s)
      BY <3>2 DEF EnterAgain, MixTypeOK
    <3>3. CASE WrittenElsewhere(s)
      BY <3>1, <3>3 DEF WrittenElsewhere, MixTypeOK
    <3> QED
      BY <1>4, <3>2, <3>3
  <2>2. BeginEra(s)
    BY <1>4 DEF EnterAgain, WrittenElsewhere
  <2>3. came' \in Len(pieces) .. MaxInput /\ pieces' = pieces /\ came' = came + 1
    BY <1>0, <2>2 DEF MixTypeOK, BeginEra
  <2>4. era' \in [Speakers -> 0 .. came']
    <3>1. \A x \in 0 .. came : x \in 0 .. came' /\ x + 1 \in 0 .. came'
      BY <1>0, <2>3 DEF MixTypeOK
    <3> QED
      BY <2>2, <3>1 DEF MixTypeOK, BeginEra
  <2> QED
    BY <2>1, <2>2, <2>3, <2>4 DEF MixTypeOK, BeginEra
<1>5. CASE UNCHANGED mixVars
  BY <1>5 DEF MixTypeOK, mixVars
<1> QED
  BY <1>1, <1>2, <1>3, <1>4, <1>5 DEF MixNext

LEMMA MixTypeInit == ASSUME MixInit PROVE MixTypeOK
<1>1. clock = 1 /\ startplay = 0 /\ nextptsplay = 0 /\ pieces = <<>> /\ came = 0
      /\ played = <<>> /\ spins = FALSE
  BY DEF MixInit
<1>2. 0 \in SeqNums /\ MaxInput \in Nat /\ MaxClock \in Nat \ {0}
  BY HalfRoundIs, MixAssumption DEF SeqNums
<1>3. pieces \in Seq([of : Speakers, era : Nat, pts : TimeStamps, at : Nat]) /\ Len(pieces) = 0
      /\ played \in Seq([at : SeqNums, mix : SUBSET DOMAIN pieces])
  BY <1>1
<1>4. /\ spts \in [Speakers -> Nat] /\ cpts \in [Speakers -> TimeStamps \cup {0}]
      /\ binsize \in [MixSlots -> {0, 1}]
      /\ samptota \in [MixSlots -> SUBSET DOMAIN pieces]
      /\ era \in [Speakers -> 0 .. came]
  BY <1>1 DEF MixInit
<1>5. came \in Len(pieces) .. MaxInput /\ clock \in 1 .. MaxClock /\ startplay \in 0 .. clock
  BY <1>1, <1>2, <1>3
<1> QED
  BY <1>1, <1>2, <1>3, <1>4, <1>5 DEF MixTypeOK

\* Type correctness of a room's mixing buffer, for all numbers of slots and
\* of time stamps, also where the time numbers start over (room.cpp:427-571).
THEOREM MixTypes == MixSpec => []MixTypeOK
<1>1. MixInit => MixTypeOK
  BY MixTypeInit
<1> QED
  BY <1>1, MixTypeStep, PTL DEF MixSpec
-----------------------------------------------------------------------------
(* The mixing of a room: what it plays                                     *)

\* The time stamps are less than half a round of the 16-bit numbers.
StampsNear == \A t \in TimeStamps : t <= HalfRound

\* The room has played for less than half a round, about eleven minutes, and
\* no session's time is further.  Where the numbers start over, RealPts and
\* the loop compare times of two rounds, and a room drops, mixes up or never
\* ends (LoopEnds is false there).
FirstHalf ==
  /\ startplay = 0 \/ clock - startplay <= HalfRound
  /\ \A s \in Speakers : spts[s] <= HalfRound

\* The room plays up to now, and nothing came before it started.
PosInv ==
  /\ ~spins
  /\ startplay # 0 => nextptsplay <= clock - startplay
  /\ startplay = 0 => nextptsplay = 0 /\ pieces = <<>>

\* The time of a session is the largest of its pieces of this era.
OwnInv ==
  /\ \A n \in DOMAIN pieces :
       /\ pieces[n].era <= era[pieces[n].of]
       /\ pieces[n].era = era[pieces[n].of] => pieces[n].at <= spts[pieces[n].of]
  /\ OwnPiecesApart

MixInv ==
  /\ MixTypeOK /\ PosInv /\ OwnInv
  /\ Waiting(pieces, binsize, samptota, nextptsplay)
  /\ Over(pieces, played, nextptsplay)

\* A piece is for a time that is not over, and past the session's last.
LEMMA RealPtsAhead ==
  ASSUME NEW f \in 0 .. HalfRound, NEW c \in 0 .. HalfRound,
         NEW s \in 0 .. HalfRound, NEW D \in 0 .. HalfRound,
         f = 0 \/ uint16Sub(f, U16(c)) > 0
  PROVE  /\ RealPts(f, c, s, D) \in Nat
         /\ RealPts(f, c, s, D) >= D /\ RealPts(f, c, s, D) >= s
         /\ f # 0 => RealPts(f, c, s, D) > s
<1>1. PICK h \in Nat : h = HalfRound /\ seq_max_NUM = 2 * h + 1
  BY HalfRoundIs
<1>2. f \in 0 .. h /\ c \in 0 .. h /\ s \in 0 .. h /\ D \in 0 .. h
  BY <1>1
<1>3. /\ U16(c) = c /\ uint16Sub(f, c) = IF f < c THEN -1 ELSE f - c
      /\ U16(s) = s /\ U16(D) = D /\ uint16Sub(s, D) = IF s < D THEN -1 ELSE s - D
  BY NearSub
<1>4. PICK r : r = RealPts(f, c, s, D)
  OBVIOUS
<1>5. f # 0 => f > c
  BY <1>2, <1>3
<1>6. CASE s < D
  <2>1. r = D
    BY <1>2, <1>3, <1>4, <1>6 DEF RealPts
  <2> QED
    BY <1>2, <1>4, <1>6, <2>1
<1>7. CASE ~(s < D)
  <2>1. r = uint16Add(s, StampsAhead(f, c))
    BY <1>2, <1>3, <1>4, <1>7 DEF RealPts
  <2>2. CASE f < c
    <3>1. s \in 0 .. seq_max_NUM - 1 /\ seq_max_NUM \in Nat \ {0}
      BY <1>1, <1>2
    <3>2. (s + seq_max_NUM) % seq_max_NUM = s
      BY <3>1, SmallRemainder
    <3>3. r = s
      BY <2>1, <2>2, <3>2 DEF StampsAhead, uint16Add
    <3>4. f = 0
      BY <1>2, <1>5, <2>2
    <3> QED
      BY <1>2, <1>4, <1>7, <3>3, <3>4
  <2>3. CASE ~(f < c)
    <3>1. PICK d \in Nat : d = f - c /\ d <= h
      BY <1>2, <2>3
    <3>2. r = uint16Add(s, d)
      BY <2>1, <2>3, <3>1 DEF StampsAhead
    <3>3. s \in Nat /\ s + d < seq_max_NUM
      BY <1>1, <1>2, <3>1
    <3>4. r = s + d
      BY <3>2, <3>3, NearAdd
    <3>5. f # 0 => d > 0
      BY <1>2, <1>5, <3>1
    <3> QED
      BY <1>2, <1>4, <1>7, <3>1, <3>4, <3>5
  <2> QED
    BY <2>2, <2>3
<1> QED
  BY <1>2, <1>6, <1>7

\* What was played of fewer pieces was played of more.
LEMMA PlayedGrows ==
  ASSUME NEW X, NEW Y, X \subseteq Y,
         NEW pl \in Seq([at : SeqNums, mix : SUBSET X])
  PROVE  pl \in Seq([at : SeqNums, mix : SUBSET Y])
<1> DEFINE S == [at : SeqNums, mix : SUBSET X]
           T == [at : SeqNums, mix : SUBSET Y]
<1>1. S \subseteq T
  OBVIOUS
<1>2. pl \in Seq(S)
  OBVIOUS
<1>3. pl \in Seq(T)
  <2> HIDE DEF S, T
  <2> QED
    BY <1>1, <1>2, SeqMonotonic
<1> QED
  BY <1>3

\* The numbers of a piece, while times and stamps are in the first half: it is
\* for a time between the play position and half a round, and past those of
\* its session, unless its stamp is 0.
LEMMA MergeTimes ==
  ASSUME StampsNear, FirstHalf, FirstHalf', MixInv,
         NEW s \in Speakers, NEW f \in TimeStamps,
         NEW D, NEW r, NEW nx, NEW b, MergeOf(s, f, D, r, nx, b)
  PROVE  /\ D \in 0 .. HalfRound /\ r \in 0 .. HalfRound /\ nx \in 0 .. D
         /\ nx = nextptsplay /\ r >= D /\ (pieces # <<>> => r >= spts[s])
         /\ startplay' # 0 /\ D = clock' - startplay'
         /\ pieces # <<>> /\ f # 0 => r > spts[s]
<1>1. HalfRound \in Nat /\ seq_max_NUM = 2 * HalfRound + 1
  BY HalfRoundIs
<1>2. /\ clock \in Nat \ {0} /\ startplay \in 0 .. clock /\ nextptsplay \in Nat
      /\ spts \in [Speakers -> Nat] /\ cpts \in [Speakers -> TimeStamps \cup {0}]
  BY MixAssumption DEF MixInv, MixTypeOK, SeqNums
<1>3. f \in SeqNums /\ f \in 0 .. HalfRound /\ cpts[s] \in 0 .. HalfRound
  <2>1. \A t \in TimeStamps : t \in 0 .. HalfRound /\ t \in SeqNums
    BY <1>1, MixAssumption DEF StampsNear, SeqNums
  <2> QED
    BY <1>1, <1>2, <2>1
<1>4. spts[s] \in 0 .. HalfRound
  BY <1>1, <1>2 DEF FirstHalf
<1>5. r <= HalfRound
  <2>1. spts'[s] = r
    BY <1>2 DEF MergeOf
  <2> QED
    BY <2>1 DEF FirstHalf
<1>6. CASE startplay = 0
  <2>1. D = 0 /\ r = 0 /\ nx = 0
    BY <1>3, <1>6, RealPtsFirst DEF MergeOf, DiffPts, RealTime, NextTime
  <2>2. nextptsplay = 0 /\ pieces = <<>>
    BY <1>6 DEF MixInv, PosInv
  <2>3. startplay' = clock /\ clock' = clock
    BY <1>6 DEF MergeOf
  <2> QED
    BY <1>1, <1>2, <2>1, <2>2, <2>3
<1>7. CASE startplay # 0
  <2>1. D = clock - startplay /\ nx = nextptsplay /\ r = RealPts(f, cpts[s], spts[s], D)
    BY <1>7 DEF MergeOf, DiffPts, RealTime, NextTime
  <2>2. D \in 0 .. HalfRound
    BY <1>1, <1>2, <1>7, <2>1 DEF FirstHalf
  <2>3. nx \in 0 .. D
    BY <1>2, <1>7, <2>1, <2>2 DEF MixInv, PosInv
  <2>4. startplay' # 0 /\ D = clock' - startplay'
    BY <1>7, <2>1 DEF MergeOf
  <2>5. f = 0 \/ uint16Sub(f, U16(cpts[s])) > 0
    BY DEF MergeOf
  <2>6. /\ r \in Nat /\ r >= D /\ r >= spts[s]
        /\ f # 0 => r > spts[s]
    BY <1>3, <1>4, <2>1, <2>2, <2>5, RealPtsAhead
  <2>7. r \in 0 .. HalfRound
    BY <1>1, <1>5, <2>6
  <2> QED
    BY <2>1, <2>2, <2>3, <2>4, <2>6, <2>7
<1> QED
  BY <1>6, <1>7

\* The slots with the piece mixed in (room.cpp:199-275, 538-543).
LEMMA MergeMixes ==
  ASSUME MixInv, NEW s \in Speakers, NEW f \in TimeStamps,
         NEW D, NEW r, NEW nx, NEW b, MergeOf(s, f, D, r, nx, b),
         r \in 0 .. HalfRound, nx \in 0 .. HalfRound, nx <= r, nx = nextptsplay
  PROVE  /\ pieces' \in Seq(Pieces)
         /\ Len(pieces') >= Len(pieces)
         /\ b.bins \in [MixSlots -> {0, 1}]
         /\ b.mix \in [MixSlots -> SUBSET (1 .. Len(pieces'))]
         /\ Waiting(pieces', b.bins, b.mix, nx) /\ Over(pieces', played, nx)
<1>1. /\ pieces \in Seq(Pieces) /\ binsize \in [MixSlots -> {0, 1}]
      /\ samptota \in [MixSlots -> SUBSET (1 .. Len(pieces))]
      /\ Waiting(pieces, binsize, samptota, nx) /\ Over(pieces, played, nx)
  BY LenProperties DEF MixInv, MixTypeOK, Pieces
<1>2. PICK q : q = pieces'
  OBVIOUS
<1>3. CASE /\ Fits(r, nx)
           /\ pieces' = Append(pieces, [of |-> s, era |-> era[s], pts |-> f, at |-> r])
           /\ b = MixedIn(binsize, samptota, r % audioCaNum, Len(pieces) + 1)
  <2>1. PICK e : e = [of |-> s, era |-> era[s], pts |-> f, at |-> r]
    OBVIOUS
  <2>2. e \in Pieces /\ e.at = r
    <3>1. Len(pieces) \in Nat /\ came \in Len(pieces) .. MaxInput
      BY <1>1 DEF MixInv, MixTypeOK
    <3>2. came \in Nat
      BY <3>1, MixAssumption
    <3>3. era[s] \in Nat
      BY <3>2 DEF MixInv, MixTypeOK
    <3> QED
      BY <2>1, <3>3 DEF Pieces
  <2>3. r \in nx .. nx + audioCaNum - 1
    <3>1. U16(r) = r /\ U16(nx) = nx /\ uint16Sub(r, nx) = r - nx
      BY NearSub
    <3> QED
      BY <1>3, <3>1, MixAssumption DEF Fits
  <2>4. nx \in Nat
    OBVIOUS
  <2>5. q = Append(pieces, e) /\ b = MixedIn(binsize, samptota, e.at % audioCaNum, Len(pieces) + 1)
    BY <1>2, <1>3, <2>1, <2>2
  <2>6. /\ b.bins \in [MixSlots -> {0, 1}]
        /\ b.mix \in [MixSlots -> SUBSET (1 .. Len(q))]
        /\ Waiting(q, b.bins, b.mix, nx) /\ Over(q, played, nx)
    BY <1>1, <2>2, <2>3, <2>4, <2>5, MixKeeps
  <2>7. q \in Seq(Pieces) /\ Len(q) >= Len(pieces)
    <3>1. q \in Seq(Pieces) /\ Len(q) = Len(pieces) + 1 /\ Len(pieces) \in Nat
      BY <1>1, <2>2, <2>5, AppendProperties
    <3> QED
      BY <3>1
  <2> QED
    BY <1>2, <2>6, <2>7
<1>4. CASE pieces' = pieces /\ b = [bins |-> binsize, mix |-> samptota]
  <2>1. Len(pieces) \in Nat
    BY <1>1
  <2> QED
    BY <1>1, <1>4, <2>1
<1> QED
  BY <1>3, <1>4 DEF MergeOf

\* The loop comes to the time it plays up to (room.cpp:545-571).
LEMMA MergePlays ==
  ASSUME MixInv, NEW q \in Seq(Pieces), NEW D, NEW nx, NEW b,
         1 .. Len(pieces) \subseteq 1 .. Len(q),
         D \in 0 .. HalfRound, nx \in 0 .. D, PlayUpTo(nx, D, b),
         b.bins \in [MixSlots -> {0, 1}], b.mix \in [MixSlots -> SUBSET (1 .. Len(q))],
         Waiting(q, b.bins, b.mix, nx), Over(q, played, nx)
  PROVE  /\ ~spins' /\ nextptsplay' = D
         /\ Waiting(q, binsize', samptota', D) /\ Over(q, played', D)
<1>1. HalfRound \in Nat /\ seq_max_NUM = 2 * HalfRound + 1
  BY HalfRoundIs
<1>2. /\ D \in SeqNums /\ D \in Nat /\ nx \in Nat /\ D < seq_max_NUM
      /\ nx \in 0 .. HalfRound
  BY <1>1 DEF SeqNums
<1>3. U16(D) = D /\ uint16Sub(D, nx) = D - nx
  BY <1>2, NearSub
<1>4. samptota' = b.mix
  BY DEF PlayUpTo
<1>5. CASE D = nx
  <2>1. ~(D - nx > 0)
    BY <1>2, <1>5
  <2>2. binsize' = b.bins /\ nextptsplay' = nx /\ played' = played /\ spins' = spins
    BY <1>3, <2>1 DEF PlayUpTo
  <2> QED
    BY <1>4, <1>5, <2>2 DEF MixInv, PosInv
<1>6. CASE D # nx
  <2>1. nx < D /\ ~(D - nx <= 0)
    BY <1>2, <1>6
  <2>2. PICK p : p = Rounds(nx, D - nx, b)
    OBVIOUS
  <2>3. /\ binsize' = p.bins /\ nextptsplay' = D /\ played' = played \o p.out
        /\ spins' = spins
    BY <1>2, <1>3, <2>1, <2>2 DEF PlayUpTo, Play
  <2>4. PICK pl : pl = played
    OBVIOUS
  <2>5. pl \in Seq([at : SeqNums, mix : SUBSET (1 .. Len(q))])
    <3>1. played \in Seq([at : SeqNums, mix : SUBSET DOMAIN pieces])
      BY DEF MixInv, MixTypeOK
    <3>2. DOMAIN pieces \subseteq 1 .. Len(q)
      BY LenProperties DEF MixInv, MixTypeOK
    <3> QED
      BY <2>4, <3>1, <3>2, PlayedGrows
  <2>6. Over(q, pl, nx)
    BY <2>4
  <2>7. Waiting(q, p.bins, b.mix, D) /\ Over(q, pl \o p.out, D)
    BY <1>2, <2>1, <2>2, <2>5, <2>6, PlayKeeps
  <2>8. ~spins'
    BY <2>3 DEF MixInv, PosInv
  <2> QED
    BY <1>4, <2>3, <2>4, <2>7, <2>8
<1> QED
  BY <1>5, <1>6

\* The pieces of a session keep their order in each era (room.cpp:510-534).
LEMMA MergeOwn ==
  ASSUME MixInv, NEW s \in Speakers, NEW f \in TimeStamps,
         NEW D, NEW r, NEW nx, NEW b, MergeOf(s, f, D, r, nx, b),
         r \in Nat, pieces # <<>> => r >= spts[s], pieces # <<>> /\ f # 0 => r > spts[s]
  PROVE  OwnInv'
<1>1. PICK L \in Nat : L = Len(pieces)
  BY DEF MixInv, MixTypeOK
<1>2. PICK q, v, c, e : /\ q = pieces' /\ v = spts' /\ c = era
                        /\ e = [of |-> s, era |-> era[s], pts |-> f, at |-> r]
  OBVIOUS
<1>3. pieces \in Seq(Pieces) /\ spts \in [Speakers -> Nat] /\ c \in [Speakers -> Nat]
  <2>1. came \in Nat /\ \A x \in 0 .. came : x \in Nat
    <3>1. came \in Len(pieces) .. MaxInput
      BY DEF MixInv, MixTypeOK
    <3> QED
      BY <1>1, <3>1, MixAssumption
  <2> QED
    BY <1>2, <2>1 DEF MixInv, MixTypeOK, Pieces
<1>4. \A n \in 1 .. L : /\ pieces[n].of \in Speakers /\ pieces[n].at \in Nat
                        /\ pieces[n].era <= c[pieces[n].of]
                        /\ pieces[n].era = c[pieces[n].of]
                             => pieces[n].at <= spts[pieces[n].of]
  <2>1. \A n \in 1 .. L : pieces[n] \in Pieces /\ n \in DOMAIN pieces
    BY <1>1, <1>3, ElementOfSeq, LenProperties
  <2> QED
    BY <1>2, <2>1 DEF Pieces, MixInv, OwnInv
<1>5. /\ v \in [Speakers -> Nat] /\ v[s] = r /\ era' = c
      /\ \A u \in Speakers : u # s => v[u] = spts[u]
  BY <1>2, <1>3 DEF MergeOf
<1>6. \A n \in 1 .. L : pieces[n].era = c[pieces[n].of] => pieces[n].at <= v[pieces[n].of]
  <2> SUFFICES ASSUME NEW n \in 1 .. L, pieces[n].era = c[pieces[n].of]
               PROVE  pieces[n].at <= v[pieces[n].of]
    OBVIOUS
  <2>1. PICK u, a : u = pieces[n].of /\ a = pieces[n].at
    OBVIOUS
  <2>2. PICK x, y \in Nat : x = spts[u] /\ y = v[u]
    BY <1>3, <1>4, <1>5, <2>1
  <2>3. a \in Nat /\ a <= x
    BY <1>4, <2>1, <2>2
  <2>4. y >= x
    <3>1. pieces # <<>>
      BY <1>1
    <3> QED
      BY <1>4, <1>5, <2>1, <2>2, <3>1
  <2> QED
    BY <2>1, <2>2, <2>3, <2>4
<1>7. \A n, k \in 1 .. L :
        n < k /\ pieces[k].pts # 0
        /\ pieces[n].of = pieces[k].of /\ pieces[n].era = pieces[k].era
          => pieces[n].at < pieces[k].at
  <2>1. DOMAIN pieces = 1 .. L
    BY <1>1, <1>3, LenProperties
  <2> QED
    BY <2>1 DEF MixInv, OwnInv, OwnPiecesApart
<1>8. CASE q = pieces
  <2>1. DOMAIN q = 1 .. L
    BY <1>1, <1>3, <1>8, LenProperties
  <2> QED
    BY <1>2, <1>4, <1>5, <1>6, <1>7, <1>8, <2>1 DEF OwnInv, OwnPiecesApart
<1>9. CASE q = Append(pieces, e)
  <2>1. e \in Pieces /\ e.of = s /\ e.at = r /\ e.pts = f /\ e.era = c[s]
    BY <1>2, <1>3 DEF Pieces
  <2>2. /\ q \in Seq(Pieces) /\ Len(q) = L + 1 /\ q[L + 1] = e
        /\ \A n \in 1 .. L : q[n] = pieces[n]
    BY <1>1, <1>3, <1>9, <2>1, AppendProperties
  <2>3. DOMAIN q = 1 .. L + 1
    BY <2>2, LenProperties
  <2>4. ASSUME NEW n \in 1 .. L + 1
        PROVE  /\ q[n].era <= c[q[n].of]
               /\ q[n].era = c[q[n].of] => q[n].at <= v[q[n].of]
    <3>1. CASE n = L + 1
      <4>1. c[s] \in Nat /\ c[s] <= c[s] /\ r <= r
        BY <1>3
      <4> QED
        BY <1>5, <2>1, <2>2, <3>1, <4>1
    <3>2. CASE n # L + 1
      <4>1. n \in 1 .. L
        BY <3>2
      <4> QED
        BY <1>4, <1>6, <2>2, <4>1
    <3> QED
      BY <3>1, <3>2
  <2>5. ASSUME NEW n \in 1 .. L + 1, NEW k \in 1 .. L + 1,
               n < k, q[n].of = q[k].of, q[n].era = q[k].era, q[k].pts # 0
        PROVE  q[n].at < q[k].at
    <3>1. n \in 1 .. L
      BY <2>5
    <3>2. CASE k = L + 1
      <4>1. f # 0 /\ pieces[n].of = s /\ pieces[n].era = c[s] /\ q[k].at = r
        BY <2>1, <2>2, <2>5, <3>1, <3>2
      <4>2. pieces # <<>>
        BY <1>1, <3>1
      <4>3. PICK x \in Nat : x = spts[s]
        BY <1>3
      <4>4. PICK a : a = pieces[n].at
        OBVIOUS
      <4>5. a \in Nat /\ a <= x /\ r > x
        BY <1>4, <3>1, <4>1, <4>2, <4>3, <4>4
      <4> QED
        BY <2>2, <3>1, <4>1, <4>4, <4>5
    <3>3. CASE k # L + 1
      <4>1. k \in 1 .. L
        BY <3>3
      <4> QED
        BY <1>7, <2>2, <2>5, <3>1, <4>1
    <3> QED
      BY <3>2, <3>3
  <2> QED
    BY <1>2, <1>5, <2>3, <2>4, <2>5 DEF OwnInv, OwnPiecesApart
<1> QED
  BY <1>2, <1>8, <1>9 DEF MergeOf

\* Where an era begins, no piece of it was mixed (room.cpp:190-191).
LEMMA EraOwn ==
  ASSUME MixInv, NEW s \in Speakers, BeginEra(s),
         \A u \in Speakers : u # s => spts'[u] = spts[u]
  PROVE  OwnInv'
<1>1. PICK c, d : c = era /\ d = era'
  OBVIOUS
<1>2. pieces \in Seq(Pieces) /\ pieces' = pieces /\ c \in [Speakers -> Nat]
  <2>1. came \in Nat
    <3>1. Len(pieces) \in Nat /\ came \in Len(pieces) .. MaxInput
      BY DEF MixInv, MixTypeOK
    <3> QED
      BY <3>1, MixAssumption
  <2> QED
    BY <1>1, <2>1 DEF MixInv, MixTypeOK, Pieces, BeginEra
<1>3. d[s] = c[s] + 1 /\ \A u \in Speakers : u # s => d[u] = c[u]
  BY <1>1, <1>2 DEF BeginEra
<1>4. ASSUME NEW n \in DOMAIN pieces
      PROVE  /\ pieces[n].era <= d[pieces[n].of]
             /\ pieces[n].era = d[pieces[n].of] => pieces[n].at <= spts'[pieces[n].of]
  <2>1. PICK u, g : u = pieces[n].of /\ g = pieces[n].era
    OBVIOUS
  <2>2. u \in Speakers /\ g \in Nat
    <3>1. pieces[n] \in Pieces
      BY <1>2, ElementOfSeq, LenProperties
    <3> QED
      BY <2>1, <3>1 DEF Pieces
  <2>3. g = c[u] => pieces[n].at <= spts[u]
    BY <1>1, <2>1 DEF MixInv, OwnInv
  <2>4. g <= c[u]
    BY <1>1, <2>1 DEF MixInv, OwnInv
  <2>5. CASE u = s
    <3>1. PICK x \in Nat : x = c[s]
      BY <1>2
    <3>2. g <= d[u] /\ g # d[u]
      BY <1>3, <2>2, <2>4, <2>5, <3>1
    <3> QED
      BY <2>1, <3>2
  <2>6. CASE u # s
    BY <1>3, <2>1, <2>2, <2>3, <2>4, <2>6
  <2> QED
    BY <2>5, <2>6
<1> QED
  BY <1>1, <1>2, <1>4 DEF MixInv, OwnInv, OwnPiecesApart

LEMMA MixMerge ==
  ASSUME StampsNear, FirstHalf, FirstHalf', MixInv,
         NEW s \in Speakers, NEW f \in TimeStamps, NEW whole \in BOOLEAN,
         Merge(s, f, whole)
  PROVE  MixInv'
<1>1. PICK D, r, nx, b : MergeOf(s, f, D, r, nx, b)
  BY MergeIs
<1>2. /\ D \in 0 .. HalfRound /\ r \in 0 .. HalfRound /\ nx \in 0 .. D
      /\ nx = nextptsplay /\ r >= D /\ (pieces # <<>> => r >= spts[s])
      /\ startplay' # 0 /\ D = clock' - startplay'
      /\ pieces # <<>> /\ f # 0 => r > spts[s]
  BY <1>1, MergeTimes
<1>3. r \in Nat /\ nx \in 0 .. HalfRound /\ nx <= r /\ HalfRound \in Nat
  BY <1>2, HalfRoundIs
<1>4. PICK q : q = pieces'
  OBVIOUS
<1>5. /\ q \in Seq(Pieces) /\ Len(q) >= Len(pieces)
      /\ b.bins \in [MixSlots -> {0, 1}]
      /\ b.mix \in [MixSlots -> SUBSET (1 .. Len(q))]
      /\ Waiting(q, b.bins, b.mix, nx) /\ Over(q, played, nx)
  BY <1>1, <1>2, <1>3, <1>4, MergeMixes
<1>6. 1 .. Len(pieces) \subseteq 1 .. Len(q)
  <2>1. PICK l \in Nat, m \in Nat : l = Len(pieces) /\ m = Len(q)
    BY <1>5 DEF MixInv, MixTypeOK
  <2> QED
    BY <1>5, <2>1
<1>7. /\ ~spins' /\ nextptsplay' = D
      /\ Waiting(q, binsize', samptota', D) /\ Over(q, played', D)
  <2>1. PlayUpTo(nx, D, b)
    BY <1>1 DEF MergeOf
  <2> QED
    BY <1>2, <1>5, <1>6, <2>1, MergePlays
<1>8. MixTypeOK'
  BY MixTypeMerge DEF MixInv
<1>9. PosInv'
  <2>1. D <= D
    BY <1>2, <1>3
  <2> QED
    BY <1>2, <1>7, <2>1 DEF PosInv
<1>10. OwnInv'
  BY <1>1, <1>2, <1>3, MergeOwn
<1> QED
  BY <1>4, <1>7, <1>8, <1>9, <1>10 DEF MixInv

\* Every step keeps what waits and what is over.
LEMMA MixStep ==
  ASSUME StampsNear, FirstHalf, FirstHalf', MixInv, [MixNext]_mixVars
  PROVE  MixInv'
<1>1. CASE Tick
  <2>1. MixTypeOK'
    BY MixTypeStep DEF MixInv
  <2>2. /\ clock' = clock + 1 /\ startplay' = startplay
        /\ clock \in Nat /\ startplay \in Nat /\ nextptsplay \in Nat
    BY <1>1, MixAssumption DEF Tick, MixInv, MixTypeOK, SeqNums
  <2>3. PosInv'
    <3>1. startplay # 0 => nextptsplay <= (clock + 1) - startplay
      BY <2>2 DEF MixInv, PosInv
    <3> QED
      BY <1>1, <3>1 DEF Tick, MixInv, PosInv
  <2> QED
    BY <1>1, <2>1, <2>3 DEF Tick, MixInv, OwnInv, OwnPiecesApart
<1>2. ASSUME NEW s \in Speakers, NEW f \in TimeStamps, Late(s, f)
      PROVE  MixInv'
  <2>1. MixTypeOK'
    BY MixTypeStep DEF MixInv
  <2> QED
    BY <1>2, <2>1 DEF Late, MixInv, PosInv, OwnInv, OwnPiecesApart
<1>3. ASSUME NEW s \in Speakers, NEW f \in TimeStamps, NEW whole \in BOOLEAN,
             Merge(s, f, whole)
      PROVE  MixInv'
  BY <1>3, MixMerge
<1>4. ASSUME NEW s \in Speakers, EnterAgain(s) \/ WrittenElsewhere(s)
      PROVE  MixInv'
  <2>1. MixTypeOK'
    BY MixTypeStep DEF MixInv
  <2>2. BeginEra(s) /\ \A u \in Speakers : u # s => spts'[u] = spts[u]
    BY <1>4 DEF EnterAgain, WrittenElsewhere, MixInv, MixTypeOK
  <2>3. OwnInv'
    BY <2>2, EraOwn
  <2> QED
    BY <2>1, <2>2, <2>3 DEF BeginEra, MixInv, PosInv
<1>5. CASE UNCHANGED mixVars
  <2>1. MixTypeOK'
    BY MixTypeStep DEF MixInv
  <2> QED
    BY <1>5, <2>1 DEF mixVars, MixInv, PosInv, OwnInv, OwnPiecesApart
<1> QED
  BY <1>1, <1>2, <1>3, <1>4, <1>5 DEF MixNext

LEMMA MixInvariant == ASSUME StampsNear PROVE MixSpec /\ []FirstHalf => []MixInv
<1>1. MixInit => MixInv
  <2> SUFFICES ASSUME MixInit PROVE MixInv
    OBVIOUS
  <2>1. MixTypeOK
    BY MixTypeInit
  <2>2. /\ startplay = 0 /\ nextptsplay = 0 /\ pieces = <<>> /\ played = <<>>
        /\ spins = FALSE /\ DOMAIN pieces = {} /\ Len(pieces) = 0 /\ Len(played) = 0
        /\ spts = [s \in Speakers |-> 0] /\ binsize = [i \in MixSlots |-> 0]
    BY DEF MixInit
  <2>3. \A n : n \notin 1 .. 0
    OBVIOUS
  <2>4. PosInv
    BY <2>2 DEF PosInv
  <2>5. OwnInv
    BY <2>2 DEF OwnInv, OwnPiecesApart
  <2>6. Waiting(pieces, binsize, samptota, nextptsplay)
    BY <2>2, <2>3 DEF Waiting
  <2>7. Over(pieces, played, nextptsplay)
    BY <2>2, <2>3 DEF Over
  <2> QED
    BY <2>1, <2>4, <2>5, <2>6, <2>7 DEF MixInv
<1>2. MixInv /\ FirstHalf /\ FirstHalf' /\ [MixNext]_mixVars => MixInv'
  BY MixStep
<1> QED
  BY <1>1, <1>2, PTL DEF MixSpec

\* All that waits in one slot is for one time, which is not over and within
\* the circle, while the numbers of the times do not start over: a piece ahead
\* of its session's time never lands in a slot of another
\* (room.cpp:199-275, 510-543).
THEOREM SlotsKept == ASSUME StampsNear PROVE MixSpec /\ []FirstHalf => []SlotsTimely
<1>1. MixInv => SlotsTimely
  BY DEF MixInv, Waiting, SlotsTimely
<1> QED
  BY <1>1, MixInvariant, PTL

\* Every piece that was mixed waits in one slot or was played once, in its
\* time, whatever the number of slots, of sessions and of pieces and the steps
\* of the clock, while the numbers of the times do not start over
\* (room.cpp:199-275, 545-571).
THEOREM PiecesPlayedOnce ==
  ASSUME StampsNear PROVE MixSpec /\ []FirstHalf => []NothingLostOrDoubled
<1>1. ASSUME MixInv PROVE NothingLostOrDoubled
  <2> SUFFICES ASSUME NEW n \in DOMAIN pieces,
                      NEW A, A = {i \in MixSlots : binsize[i] = 1 /\ n \in samptota[i]},
                      NEW B, B = {k \in DOMAIN played :
                             n \in played[k].mix /\ played[k].at = pieces[n].at}
      PROVE  Cardinality(A) + Cardinality(B) = 1
    BY DEF NothingLostOrDoubled
  <2>1. /\ pieces \in Seq(Pieces) /\ nextptsplay \in Nat
        /\ played \in Seq([at : SeqNums, mix : SUBSET DOMAIN pieces])
    BY <1>1 DEF MixInv, MixTypeOK, Pieces, SeqNums
  <2>2. PICK a, j : a = pieces[n].at /\ j = a % audioCaNum
    OBVIOUS
  <2>3. n \in 1 .. Len(pieces) /\ DOMAIN played = 1 .. Len(played) /\ Len(played) \in Nat
    BY <2>1, LenProperties
  <2>4. a \in Nat /\ j \in MixSlots
    <3>1. pieces[n] \in Pieces
      BY <2>1, <2>3, ElementOfSeq
    <3>2. a \in Nat
      BY <2>2, <3>1 DEF Pieces
    <3> QED
      BY <2>2, <3>2, SlotOfTime
  <2>5. \A i \in MixSlots : binsize[i] = 1 /\ n \in samptota[i] =>
          i = j /\ a \in nextptsplay .. nextptsplay + audioCaNum - 1
    BY <1>1, <2>2 DEF MixInv, Waiting
  <2>6. \A k \in 1 .. Len(played) : played[k].at < nextptsplay
    BY <1>1 DEF MixInv, Over
  <2>7. CASE a >= nextptsplay
    <3>1. binsize[j] = 1 /\ n \in samptota[j]
      BY <1>1, <2>2, <2>3, <2>7 DEF MixInv, Waiting
    <3>2. A = {j}
      BY <2>4, <2>5, <3>1
    <3>3. ASSUME NEW k \in DOMAIN played, played[k].at = a PROVE FALSE
      BY <2>1, <2>3, <2>4, <2>6, <2>7, <3>3
    <3>4. B = {}
      BY <2>2, <3>3
    <3>5. Cardinality({j}) = 1 /\ Cardinality({}) = 0
      BY FS_Singleton, FS_EmptySet
    <3>6. Cardinality(A) = 1 /\ Cardinality(B) = 0
      BY ONLY <3>2, <3>4, <3>5
    <3> QED
      BY ONLY <3>6
  <2>8. CASE a < nextptsplay
    <3>1. A = {}
      BY <2>1, <2>4, <2>5, <2>8
    <3>2. PICK k \in 1 .. Len(played) : played[k].at = a /\ n \in played[k].mix
      BY <1>1, <2>2, <2>3, <2>8 DEF MixInv, Over
    <3>3. ASSUME NEW g \in 1 .. Len(played), played[g].at = a PROVE g = k
      <4>1. ~(g < k) /\ ~(k < g)
        <5>1. \A x, y \in 1 .. Len(played) : x < y => played[x].at < played[y].at
          BY <1>1 DEF MixInv, Over
        <5>2. ~(a < a)
          BY <2>4
        <5> QED
          BY <3>2, <3>3, <5>1, <5>2
      <4> QED
        BY <2>3, <4>1
    <3>4. B = {k}
      BY <2>2, <2>3, <3>2, <3>3
    <3>5. Cardinality({k}) = 1 /\ Cardinality({}) = 0
      BY FS_Singleton, FS_EmptySet
    <3>6. Cardinality(A) = 0 /\ Cardinality(B) = 1
      BY ONLY <3>1, <3>4, <3>5
    <3> QED
      BY ONLY <3>6
  <2> QED
    BY <2>1, <2>4, <2>7, <2>8
<1>2. MixInv => NothingLostOrDoubled
  BY <1>1
<1> QED
  BY <1>2, MixInvariant, PTL

\* What a room plays has rising times, each of them over when it is played,
\* while the numbers of the times do not start over: listeners hear no time
\* twice (room.cpp:497-503, 545-571).
THEOREM PlayInOrder ==
  ASSUME StampsNear PROVE MixSpec /\ []FirstHalf => []PlayedInOrder
<1>1. ASSUME MixInv PROVE PlayedInOrder
  <2> SUFFICES ASSUME NEW k \in DOMAIN played
               PROVE  /\ played[k].at < clock - startplay
                      /\ k > 1 => played[k - 1].at < played[k].at
    BY DEF PlayedInOrder
  <2>1. /\ played \in Seq([at : SeqNums, mix : SUBSET DOMAIN pieces])
        /\ clock \in Nat /\ startplay \in Nat /\ nextptsplay \in Nat
    BY <1>1, MixAssumption DEF MixInv, MixTypeOK, SeqNums
  <2>2. PICK l \in Nat : l = Len(played)
    BY <2>1
  <2>3. k \in 1 .. l
    BY <2>1, <2>2, LenProperties
  <2>4. played[k].at \in Nat
    <3>1. played[k] \in [at : SeqNums, mix : SUBSET DOMAIN pieces]
      BY <2>1, <2>2, <2>3, ElementOfSeq
    <3> QED
      BY <3>1 DEF SeqNums
  <2>5. played[k].at < nextptsplay
    BY <1>1, <2>2, <2>3 DEF MixInv, Over
  <2>6. startplay # 0 /\ nextptsplay <= clock - startplay
    BY <1>1, <2>1, <2>4, <2>5 DEF MixInv, PosInv
  <2>7. ASSUME k > 1 PROVE played[k - 1].at < played[k].at
    <3>1. k - 1 \in 1 .. l /\ k - 1 < k
      BY <2>3, <2>7
    <3> QED
      BY <1>1, <2>2, <2>3, <3>1 DEF MixInv, Over
  <2> QED
    BY <2>1, <2>4, <2>5, <2>6, <2>7
<1>2. MixInv => PlayedInOrder
  BY <1>1
<1> QED
  BY <1>2, MixInvariant, PTL

\* Of the pieces of one era of a session, the later stamp has the later time,
\* over pauses and pieces that were ignored, except for the stamp 0, while the
\* numbers of the times do not start over: also if the session enters again
\* or another room writes its numbers, whatever it writes
\* (room.cpp:186-195, 488-536).
THEOREM OwnOrder == ASSUME StampsNear PROVE MixSpec /\ []FirstHalf => []OwnPiecesApart
<1>1. MixInv => OwnPiecesApart
  BY DEF MixInv, OwnInv
<1> QED
  BY <1>1, MixInvariant, PTL

\* While the numbers of the times do not start over, the loop of
\* RoomMergeData comes to the time it plays up to and ends (room.cpp:548-571).
THEOREM LoopEndsEarly == ASSUME StampsNear PROVE MixSpec /\ []FirstHalf => []LoopEnds
<1>1. MixInv => LoopEnds
  BY DEF MixInv, PosInv, LoopEnds
<1> QED
  BY <1>1, MixInvariant, PTL
=============================================================================
