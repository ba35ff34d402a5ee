---------------------------- MODULE MCHgChannel ----------------------------
(* Small instances of HgChannel for TLC: see HgChannel.cfg. *)
EXTENDS HgChannelInv
=============================================================================
