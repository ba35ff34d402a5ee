---------------------------- MODULE MCRoomFrames ----------------------------
(* Small instances of RoomFrames for TLC: two workers, as WORKERNUM. *)
EXTENDS RoomFrames

CONSTANTS w1, w2, r1, r2, s1, s2

\* Each worker has one room and one session.
MCOwnerR == [r \in Rooms |-> IF r = r1 THEN w1 ELSE w2]
MCOwnerS == [s \in Sess |-> IF s = s1 THEN w1 ELSE w2]
=============================================================================
