--------------------------- MODULE MCHgSendStream ---------------------------
(* Small instances of HgSendStream for TLC: see the SendStream*.cfg files.  *)
EXTENDS HgSendStream

\* Frames of one to three packets of at most MaxCopy = 2 bytes, in one node
\* and in two, and one of six packets, more than the cache has slots.
MCShapes == {<<1>>, <<2>>, <<3>>, <<5>>, <<2, 1>>, <<3, 2>>, <<3, 7>>}
=============================================================================
