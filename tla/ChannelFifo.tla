---------------------------- MODULE ChannelFifo ----------------------------
(***************************************************************************)
(* What a channel promises to the threads that use it: a message is        *)
(* accepted at one instant, and the accepted messages are given to their   *)
(* handlers one at a time, each once, in the order of acceptance.  The     *)
(* order is the one every consumer of the server relies on: a frame must   *)
(* be consumed before the message that frees it, a login before its data.  *)
(***************************************************************************)
EXTENDS Naturals, Sequences

CONSTANTS Senders,    \* the threads that may send
          MaxMsgs     \* bound: messages sent in a behaviour

VARIABLES sent,       \* the senders of the accepted messages, in order
          taken       \* the numbers of the handled messages, in order

fifoVars == <<sent, taken>>

Init == sent = <<>> /\ taken = <<>>

Send(t) == /\ Len(sent) < MaxMsgs
           /\ sent' = Append(sent, t)
           /\ UNCHANGED taken

Take == /\ Len(taken) < Len(sent)
        /\ taken' = Append(taken, Len(taken) + 1)
        /\ UNCHANGED sent

Next == Take \/ \E t \in Senders : Send(t)

Spec == Init /\ [][Next]_fifoVars

\* With a fair consumer every accepted message is handled.
FairSpec == Spec /\ WF_fifoVars(Take)
=============================================================================
