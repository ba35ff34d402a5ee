------------------------------ MODULE RoomMix ------------------------------
(***************************************************************************)
(* When a room plays what: RoomMergeData and MergeAudioData of             *)
(* app/room.cpp.  A room keeps a circle of audioCaNum slots, one second,   *)
(* and its play position nextptsplay.  A piece of audio is put to a time   *)
(* by its time stamp and the session's last one, mixed into the slot of    *)
(* that time, and then every slot from the play position up to now is      *)
(* played (OutConsumeQueue) and emptied.                                   *)
(*                                                                         *)
(* Times count slots.  What a slot holds is the set of the numbers of the  *)
(* pieces mixed into it; the samples, their sum and the listeners are left *)
(* out (the frames they are sent in are those of RoomFrames).  uint16_t    *)
(* arguments are cut to seq_max_NUM + 1 values, as 65535 + 1 is 2^16.      *)
(*                                                                         *)
(* A session's numbers cpts and spts are its own, not the room's: each     *)
(* time it enters EnterRoom sets them to 0, and while it changes rooms the *)
(* worker of the other room writes them too.  An era of a session lasts    *)
(* until its numbers are written by anything but this room's merging.      *)
(***************************************************************************)
EXTENDS SeqNum, Sequences, FiniteSets

CONSTANTS audioCaNum,
          Speakers,     \* sessions in the room
          TimeStamps,   \* the time stamps of audio
          OtherTimes,   \* times a session may have in another room
          MaxClock,     \* bound: the time, in slots
          MaxInput      \* bound: pieces of audio and new eras

ASSUME MixAssumption ==
  /\ audioCaNum \in Nat \ {0} /\ audioCaNum < seq_max_NUM
  /\ TimeStamps \subseteq SeqNums /\ OtherTimes \subseteq SeqNums
  /\ MaxClock \in Nat \ {0} /\ MaxInput \in Nat

VARIABLES
  clock,       \* hgetSysTimeMicros, in slots
  startplay,   \* 0 until the first piece came
  nextptsplay, \* the next time to play
  spts, cpts,  \* of each session: the time and the time stamp of its last piece
  binsize,     \* rooBufinfo.size: 1 if a slot holds anything
  samptota,    \* what was mixed into a slot since it was last empty
  era,         \* history: the era of each session
  pieces,      \* history: the pieces that were mixed, in order
  came,        \* history: how many pieces and new eras there were
  played,      \* history: what was given to OutConsumeQueue
  spins        \* the loop of RoomMergeData does not end

mixVars == <<clock, startplay, nextptsplay, spts, cpts, binsize, samptota,
             era, pieces, came, played, spins>>

MixSlots == 0 .. audioCaNum - 1

\* Room::Room and SessionC::sessFree.  The clock is past 0, which startplay
\* takes for "not yet".
MixInit ==
  /\ clock = 1 /\ startplay = 0 /\ nextptsplay = 0
  /\ spts = [s \in Speakers |-> 0] /\ cpts = [s \in Speakers |-> 0]
  /\ binsize = [i \in MixSlots |-> 0] /\ samptota = [i \in MixSlots |-> {}]
  /\ era = [s \in Speakers |-> 0]
  /\ pieces = <<>> /\ came = 0 /\ played = <<>> /\ spins = FALSE

U16(n) == n % (seq_max_NUM + 1)

Tick ==
  /\ clock < MaxClock /\ ~spins
  /\ clock' = clock + 1
  /\ UNCHANGED <<startplay, nextptsplay, spts, cpts, binsize, samptota, era,
                 pieces, came, played, spins>>

\* What begins an era leaves the room alone.
BeginEra(s) ==
  /\ came < MaxInput /\ came' = came + 1
  /\ era' = [era EXCEPT ![s] = @ + 1]
  /\ UNCHANGED <<clock, startplay, nextptsplay, binsize, samptota, pieces, played,
                 spins>>

\* EnterRoom, by the worker of this room: the session enters it, again or for
\* the first time.
EnterAgain(s) ==
  /\ ~spins
  /\ spts' = [spts EXCEPT ![s] = 0] /\ cpts' = [cpts EXCEPT ![s] = 0]
  /\ BeginEra(s)

\* EnterRoom or RoomMergeData of another room, by that room's worker, writes
\* one of the two numbers: nothing keeps it from doing so while audio of the
\* session is under way to this room.
WrittenElsewhere(s) ==
  /\ \/ /\ \E t \in OtherTimes : spts' = [spts EXCEPT ![s] = t]
        /\ UNCHANGED cpts
     \/ /\ \E fpts \in TimeStamps \cup {0} : cpts' = [cpts EXCEPT ![s] = fpts]
        /\ UNCHANGED spts
  /\ BeginEra(s)

\* uint32Sub as the second argument of uint16Add: behind is -1, cut to 16 bits.
StampsAhead(newd, oldd) == IF newd < oldd THEN seq_max_NUM ELSE newd - oldd

\* Wrong: every piece is for now, also what comes early.
RealPtsNow(fpts, c, s, diffpts) == diffpts

\* The time a piece with the stamp fpts is for.  c and s are the session's
\* cpts and spts.
RealPts(fpts, c, s, diffpts) ==
  IF uint16Sub(U16(s), U16(diffpts)) >= 0
  THEN uint16Add(U16(s), StampsAhead(fpts, c))
  ELSE diffpts

\* Wrong: one slot more than the circle has.
FitsOneMore(realpts, next) == uint16Sub(U16(realpts), U16(next)) <= audioCaNum

\* The time is not too far ahead of the play position.
Fits(realpts, next) == uint16Sub(U16(realpts), U16(next)) < audioCaNum

\* Wrong: what a slot held before is kept, although it was played.
MixedInKeeps(bins, mix, i, n) ==
  [bins |-> [bins EXCEPT ![i] = 1], mix |-> [mix EXCEPT ![i] = @ \cup {n}]]

\* Wrong: size counts the pieces.
MixedInCounts(bins, mix, i, n) ==
  [bins |-> [bins EXCEPT ![i] = @ + 1],
   mix  |-> [mix EXCEPT ![i] = IF bins[i] = 0 THEN {n} ELSE @ \cup {n}]]

\* MergeAudioData: the piece n is added to a slot that holds something, and
\* overwrites one that does not.
MixedIn(bins, mix, i, n) ==
  [bins |-> [bins EXCEPT ![i] = 1],
   mix  |-> [mix EXCEPT ![i] = IF bins[i] = 0 THEN {n} ELSE @ \cup {n}]]

\* One round of the loop: the slot of the time t is played, if it holds
\* anything, and emptied.
PlaySlot(p, t, mix) ==
  LET i == t % audioCaNum
  IN  [out  |-> IF p.bins[i] = 0 THEN p.out
                ELSE Append(p.out, [at |-> t, mix |-> mix[i]]),
       bins |-> [p.bins EXCEPT ![i] = 0]]

\* n rounds of the loop from the time from on.
Rounds(from, n, b) ==
  LET loop[k \in 0 .. n] ==
        IF k = 0 THEN [out |-> <<>>, bins |-> b.bins]
        ELSE PlaySlot(loop[k - 1], uint16Add(from, k - 1), b.mix)
  IN  loop[n]

\* Wrong: the time that has just begun is played as well.
PlayOneMore(from, to, b) == Rounds(from, uint16Sub(U16(to), from) + 1, b)

\* The loop over the times from .. to - 1.
Play(from, to, b) == Rounds(from, uint16Sub(U16(to), from), b)

\* A piece whose stamp is not ahead of the session's last is dropped; 0 is
\* let through.
Late(s, fpts) ==
  /\ ~spins /\ came < MaxInput
  /\ fpts # 0 /\ uint16Sub(fpts, U16(cpts[s])) <= 0
  /\ came' = came + 1
  /\ UNCHANGED <<clock, startplay, nextptsplay, spts, cpts, binsize, samptota,
                 era, pieces, played, spins>>

\* The end of RoomMergeData: the slots of b up to the time diffpts are
\* played.  The loop counts modulo seq_max_NUM up to diffpts, which is not
\* reduced.
PlayUpTo(next, diffpts, b) ==
  LET p == Play(next, diffpts, b)
  IN /\ samptota' = b.mix
     /\ \/ /\ uint16Sub(U16(diffpts), next) <= 0
           /\ binsize' = b.bins /\ nextptsplay' = next
           /\ UNCHANGED <<played, spins>>
        \/ /\ uint16Sub(U16(diffpts), next) > 0 /\ diffpts \in SeqNums
           /\ binsize' = p.bins /\ nextptsplay' = diffpts
           /\ played' = played \o p.out
           /\ UNCHANGED spins
        \/ /\ uint16Sub(U16(diffpts), next) > 0 /\ diffpts \notin SeqNums
           /\ binsize' = b.bins /\ nextptsplay' = next
           /\ spins' = TRUE
           /\ UNCHANGED played

\* RoomMergeData for a piece that is not late.  whole is FALSE for a piece of
\* another length than a slot, which MergeAudioData refuses.
Merge(s, fpts, whole) ==
  LET first   == startplay = 0
      diffpts == IF first THEN 0 ELSE clock - startplay
      realpts == IF first THEN RealPts(fpts, fpts, diffpts, diffpts)
                          ELSE RealPts(fpts, cpts[s], spts[s], diffpts)
      next    == IF first THEN realpts ELSE nextptsplay
      slots   == [bins |-> binsize, mix |-> samptota]
      taken   == whole /\ Fits(realpts, next)
  IN /\ ~spins /\ came < MaxInput
     /\ fpts = 0 \/ uint16Sub(fpts, U16(cpts[s])) > 0
     /\ startplay' = IF first THEN clock ELSE startplay
     /\ spts' = [spts EXCEPT ![s] = realpts]
     /\ cpts' = [cpts EXCEPT ![s] = fpts]
     /\ IF taken
        THEN /\ pieces' = Append(pieces, [of |-> s, era |-> era[s], pts |-> fpts,
                                          at |-> realpts])
             /\ PlayUpTo(next, diffpts,
                         MixedIn(binsize, samptota, realpts % audioCaNum, Len(pieces) + 1))
        ELSE /\ UNCHANGED pieces
             /\ PlayUpTo(next, diffpts, slots)
     /\ came' = came + 1
     /\ UNCHANGED <<clock, era>>

MixNext == \/ Tick
           \/ \E s \in Speakers : EnterAgain(s) \/ WrittenElsewhere(s)
           \/ \E s \in Speakers, fpts \in TimeStamps :
                Late(s, fpts) \/ \E whole \in BOOLEAN : Merge(s, fpts, whole)

MixSpec == MixInit /\ [][MixNext]_mixVars

-----------------------------------------------------------------------------
(* Properties                                                              *)

\* Type correctness of a room's mixing buffer.
MixTypeOK ==
  /\ clock \in 1 .. MaxClock /\ startplay \in 0 .. clock /\ nextptsplay \in SeqNums
  /\ spts \in [Speakers -> Nat] /\ cpts \in [Speakers -> TimeStamps \cup {0}]
  /\ binsize \in [MixSlots -> {0, 1}]
  /\ samptota \in [MixSlots -> SUBSET DOMAIN pieces]
  /\ era \in [Speakers -> 0 .. came]
  /\ pieces \in Seq([of : Speakers, era : Nat, pts : TimeStamps, at : Nat])
  /\ came \in Len(pieces) .. MaxInput
  /\ played \in Seq([at : SeqNums, mix : SUBSET DOMAIN pieces])
  /\ spins \in BOOLEAN

\* All that is mixed in one slot is for the same time, one the room has not
\* played yet and within the circle: a piece ahead of its session's time never
\* lands in a slot that waits for another (room.cpp:510-534).
SlotsTimely ==
  \A i \in MixSlots : binsize[i] = 1 =>
    \E t \in nextptsplay .. nextptsplay + audioCaNum - 1 :
      /\ t % audioCaNum = i
      /\ \A n \in samptota[i] : pieces[n].at = t

\* A piece that was mixed waits in one slot or was played once, in the time
\* it was mixed for: none is played twice, overwritten or skipped, though
\* slots are emptied only when passed (room.cpp:199-275, 548-571).
NothingLostOrDoubled ==
  \A n \in DOMAIN pieces :
    Cardinality({i \in MixSlots : binsize[i] = 1 /\ n \in samptota[i]})
      + Cardinality({k \in DOMAIN played :
                       n \in played[k].mix /\ played[k].at = pieces[n].at})
      = 1

\* What a room plays has rising times, and none before it has come: listeners
\* hear no time twice (room.cpp:497-503, 548-571).
PlayedInOrder ==
  \A k \in DOMAIN played :
    /\ played[k].at < clock - startplay
    /\ k > 1 => played[k - 1].at < played[k].at

\* The sound of one session is not mixed with itself: of its pieces, the later
\* stamp has the later time, over pauses, pieces that were ignored and other
\* sessions that enter, except for the stamp 0 (room.cpp:488-521).  This is
\* said of the pieces of one era: who enters the room again starts from the
\* time 0 and may be mixed with what it said before (room.cpp:190-191).
OwnPiecesApart ==
  \A n, k \in DOMAIN pieces :
    /\ n < k /\ pieces[k].pts # 0
    /\ pieces[n].of = pieces[k].of /\ pieces[n].era = pieces[k].era
    => pieces[n].at < pieces[k].at

\* "0-65534" (tools.c: seq_max_NUM is the number of values, not the largest
\* one): the position of a room in its play time is such a number, so that
\* the loop, which counts modulo seq_max_NUM, comes to it and ends.
LoopEnds == ~spins
=============================================================================
