------------------------------- MODULE MCNet -------------------------------
(* What lies between the sockets and the sessions: parts that share no     *)
(* state, each on a small instance.  See the Net*, Tcp*, Conn* and Udp*    *)
(* .cfg files.                                                             *)
EXTENDS HgTcpRecv, HgTcpSend, HgPool, HgConn, HgUdpRecv

\* The part a behaviour is about; the others stay as they begin.
VARIABLE side

vars == <<side, recvVars, outVars, poolVars, connVars, udpVars>>

Init == /\ RecvInit /\ OutInit /\ PoolInit /\ ConnInit /\ UdpInit
        /\ side \in {"recv", "send", "pool", "conn", "udp"}

RecvSide == side = "recv" /\ RecvNext /\ UNCHANGED <<side, outVars, poolVars, connVars, udpVars>>
SendSide == side = "send" /\ OutNext /\ UNCHANGED <<side, recvVars, poolVars, connVars, udpVars>>
PoolSide == side = "pool" /\ PoolNext /\ UNCHANGED <<side, recvVars, outVars, connVars, udpVars>>
ConnSide == side = "conn" /\ ConnNext /\ UNCHANGED <<side, recvVars, outVars, poolVars, udpVars>>
UdpSide  == side = "udp" /\ UdpNext /\ UNCHANGED <<side, recvVars, outVars, poolVars, connVars>>

Next == RecvSide \/ SendSide \/ PoolSide \/ ConnSide \/ UdpSide

Spec == Init /\ [][Next]_vars

\* Connections are followed for as long as calm holds, which the properties
\* about them are about.
CalmSpec == Init /\ [][(side = "conn" => calm) /\ Next]_vars

\* Frames of one block, of two, and of more nodes than one sendmsg takes.
MCOutShapes == {<<1>>, <<3>>, <<2, 2>>, <<2, 1, 1>>}
=============================================================================
