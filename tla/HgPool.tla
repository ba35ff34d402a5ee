------------------------------- MODULE HgPool -------------------------------
(***************************************************************************)
(* The memory pool of net/protocol/core/hg_pool.c, which everything in the *)
(* server takes its memory from.  A pool is a chain of pages of tLen       *)
(* bytes.  Memory is cut from the last page at roffset, with a head of     *)
(* ADDRHEAD bytes; what is given back is only counted, until nothing of    *)
(* the page is in use: then the page goes to the free chain, from whose    *)
(* other end it is taken again.                                            *)
(*                                                                         *)
(* A page is a number in the order of malloc.  What the callers hold is    *)
(* the set live of blocks [page, off, size]; a caller gives back only what *)
(* it holds, once ("do not free twice", hg_pool.c).                        *)
(***************************************************************************)
EXTENDS Integers, SequencesExt, FiniteSets

CONSTANTS ADDRHEAD,
          tLen,       \* the bytes of a page, ADDRHEAD included
          AllocSizes, \* the sizes asked for
          MaxPages,   \* bound: pages of a pool
          MaxLive     \* bound: blocks in use

ASSUME PoolAssumption ==
  /\ ADDRHEAD \in Nat \ {0} /\ tLen \in Nat /\ MaxPages \in Nat /\ MaxLive \in Nat
  /\ AllocSizes \subseteq Nat /\ \A n \in AllocSizes : n + ADDRHEAD <= tLen

VARIABLES
  pages,     \* mypool: the pages in use, from left to right
  freepages, \* mypool->free, from left to right
  roffset,   \* of each page: where the next block begins
  s,         \* of each page: the bytes in use
  live,      \* the blocks callers hold
  mallocs    \* the number of pages ever made

poolVars == <<pages, freepages, roffset, s, live, mallocs>>

Pages == 1 .. MaxPages

\* myPoolCreate.
PoolInit ==
  /\ pages = <<>> /\ freepages = <<>> /\ live = {} /\ mallocs = 0
  /\ roffset = [p \in Pages |-> 0] /\ s = [p \in Pages |-> 0]

\* A block is cut from page p, whose bytes in use and offset were used and off.
Cut(p, used, off, size) ==
  /\ s' = [s EXCEPT ![p] = used + size + ADDRHEAD]
  /\ roffset' = [roffset EXCEPT ![p] = off + size + ADDRHEAD]
  /\ live' = live \cup {[page |-> p, off |-> off, size |-> size]}

\* Wrong: the head is not counted.
HasRoomBare(size) == pages # <<>> /\ tLen - roffset[Last(pages)] >= size

\* The last page has room for size bytes and their head.
HasRoom(size) == pages # <<>> /\ tLen - roffset[Last(pages)] >= size + ADDRHEAD

\* Wrong: the page that was emptied last is not taken from the chain.
NewNodeStays ==
  IF freepages # <<>> THEN [page |-> Head(freepages), rest |-> freepages, n |-> mallocs]
                      ELSE [page |-> mallocs + 1, rest |-> <<>>, n |-> mallocs + 1]

\* _myPoolNewNode: the left page of the free chain, or a new one.
NewNode ==
  IF freepages # <<>> THEN [page |-> Head(freepages), rest |-> Tail(freepages), n |-> mallocs]
                      ELSE [page |-> mallocs + 1, rest |-> <<>>, n |-> mallocs + 1]

\* myPoolAlloc.
Alloc(size) ==
  /\ Cardinality(live) < MaxLive
  /\ \/ /\ HasRoom(size)
        /\ Cut(Last(pages), s[Last(pages)], roffset[Last(pages)], size)
        /\ UNCHANGED <<pages, freepages, mallocs>>
     \/ /\ ~HasRoom(size) /\ NewNode.page \in Pages
        /\ pages' = Append(pages, NewNode.page)
        /\ freepages' = NewNode.rest /\ mallocs' = NewNode.n
        /\ Cut(NewNode.page, 0, 0, size)

\* Wrong: the size is taken off, but not the head.
BytesBackBare(b) == b.size

\* What myPoolFree takes off.
BytesBack(b) == b.size + ADDRHEAD

\* Wrong: only a page at an end of the chain is taken out of it.
MidlePopEnds(p) == IF p = Head(pages) THEN Tail(pages)
                   ELSE IF p = Last(pages) THEN Front(pages) ELSE pages

\* The chain without the page p.
MidlePop(p) == RemoveAt(pages, CHOOSE i \in DOMAIN pages : pages[i] = p)

\* myPoolFree and _myPoolMidlePop.
Free(b) ==
  LET left == s[b.page] - BytesBack(b)
  IN /\ live' = live \ {b}
     /\ s' = [s EXCEPT ![b.page] = left]
     /\ \/ left # 0 /\ UNCHANGED <<pages, freepages>>
        \/ /\ left = 0
           /\ pages' = MidlePop(b.page)
           /\ freepages' = Append(freepages, b.page)
     /\ UNCHANGED <<roffset, mallocs>>

PoolNext == \/ \E size \in AllocSizes : Alloc(size)
            \/ \E b \in live : Free(b)

PoolSpec == PoolInit /\ [][PoolNext]_poolVars

-----------------------------------------------------------------------------
(* Properties                                                              *)

\* Type correctness of a pool.
PoolTypeOK ==
  /\ pages \in Seq(Pages) /\ freepages \in Seq(Pages) /\ mallocs \in 0 .. MaxPages
  /\ roffset \in [Pages -> 0 .. tLen] /\ s \in [Pages -> 0 .. tLen]
  /\ live \subseteq [page : Pages, off : 0 .. tLen, size : AllocSizes]

\* No byte, of a head or of a block, is held by two callers, and none is past
\* what the page has given out: pages are used again and blocks given back in
\* any order (hg_pool.c:110-165).
BlocksApart ==
  \A b \in live :
    /\ b.off + ADDRHEAD + b.size <= roffset[b.page]
    /\ \A c \in live : b.page = c.page /\ b # c =>
         b.off + ADDRHEAD + b.size <= c.off \/ c.off + ADDRHEAD + c.size <= b.off

\* A page is in one chain, once: in the free chain exactly when nothing of it
\* is held, so that no page is given out while in use, and none is lost
\* (hg_pool.c:28-108, 149-165).
PagesOnce ==
  \A p \in 1 .. mallocs :
    /\ Cardinality({i \in DOMAIN pages : pages[i] = p})
         + Cardinality({i \in DOMAIN freepages : freepages[i] = p}) = 1
    /\ Contains(freepages, p) <=> \A b \in live : b.page # p
=============================================================================
