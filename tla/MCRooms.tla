------------------------------ MODULE MCRooms ------------------------------
(* Small instances of the modules on rooms, which share no state: two       *)
(* workers, as WORKERNUM, each with a room and a session, for RoomFrames;   *)
(* one room and two speakers for RoomMix.                                   *)
EXTENDS MCRoomFrames, RoomMix

\* The module a behaviour is about; the other one stays as it begins.
VARIABLE side

roomsVars == <<side, vars, mixVars>>

RoomsInit == Init /\ MixInit /\ side \in {"frames", "mix"}

RoomsNext == \/ side = "frames" /\ Next /\ UNCHANGED <<side, mixVars>>
             \/ side = "mix" /\ MixNext /\ UNCHANGED <<side, vars>>

RoomsSpec == RoomsInit /\ [][RoomsNext]_roomsVars
=============================================================================
