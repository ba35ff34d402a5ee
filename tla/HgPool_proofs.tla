---------------------------- MODULE HgPool_proofs ----------------------------
(* A pool of any size of page: blocks that callers hold never share a byte, *)
(* and a page is used again only when nothing of it is held.  The counter s *)
(* of a page says how many of its bytes are held; it is the only thing the  *)
(* code looks at when it gives a page back.                                 *)
EXTENDS HgPool, FiniteSetTheorems, TLAPS

\* Block b takes the bytes from b.off up to this one.
EndOf(b) == b.off + ADDRHEAD + b.size

\* The bytes of page p that the blocks in L take.
HeldBy(L, p) == {x \in 0 .. tLen - 1 : \E b \in L : b.page = p /\ b.off <= x /\ x < EndOf(b)}

\* Two blocks have no byte in common.
Apart(b, c) == b.page = c.page => EndOf(b) <= c.off \/ EndOf(c) <= b.off

\* Of the pages 1 to n, each is in one of the chains q and f, of a and b
\* pages, once.
Chains(q, a, f, b, n) ==
  /\ n \in 0 .. MaxPages
  /\ \A i \in 1 .. a : q[i] \in 1 .. n
  /\ \A i \in 1 .. b : f[i] \in 1 .. n
  /\ \A i, j \in 1 .. a : q[i] = q[j] => i = j
  /\ \A i, j \in 1 .. b : f[i] = f[j] => i = j
  /\ \A i \in 1 .. a, j \in 1 .. b : q[i] # f[j]
  /\ \A p \in 1 .. n : (\E i \in 1 .. a : q[i] = p) \/ (\E i \in 1 .. b : f[i] = p)

\* Pages are in one chain, once.
ChainsInv ==
  /\ pages \in Seq(Pages) /\ freepages \in Seq(Pages)
  /\ Chains(pages, Len(pages), freepages, Len(freepages), mallocs)

\* Blocks are on pages in use, and each of these has one.
UseInv ==
  /\ \A b \in live : \E i \in 1 .. Len(pages) : pages[i] = b.page
  /\ \A i \in 1 .. Len(pages) : \E b \in live : b.page = pages[i]

\* A block is within what its page has given out, and no other overlaps it.
BlocksInv ==
  /\ roffset \in [Pages -> 0 .. tLen]
  /\ live \subseteq [page : Pages, off : 0 .. tLen, size : AllocSizes]
  /\ \A b \in live : EndOf(b) <= roffset[b.page]
  /\ \A b, c \in live : b # c => Apart(b, c)

\* The counter of a page is the number of its bytes that are held.
CountInv ==
  /\ s \in [Pages -> Nat]
  /\ \A p \in Pages : s[p] = Cardinality(HeldBy(live, p))

PoolInv == ChainsInv /\ UseInv /\ BlocksInv /\ CountInv

-----------------------------------------------------------------------------
(* The bytes of a page                                                     *)

\* A set of bytes of a page is finite and has at most tLen of them.
LEMMA HeldFinite ==
  ASSUME NEW L, NEW p
  PROVE  /\ IsFiniteSet(HeldBy(L, p))
         /\ Cardinality(HeldBy(L, p)) \in 0 .. tLen
<1>1. IsFiniteSet(0 .. tLen - 1) /\ Cardinality(0 .. tLen - 1) = tLen
  BY FS_Interval, PoolAssumption
<1>2. HeldBy(L, p) \in SUBSET (0 .. tLen - 1)
  BY DEF HeldBy
<1>3. IsFiniteSet(HeldBy(L, p)) /\ Cardinality(HeldBy(L, p)) <= tLen
  <2>1. /\ IsFiniteSet(HeldBy(L, p))
        /\ Cardinality(HeldBy(L, p)) <= Cardinality(0 .. tLen - 1)
    BY <1>1, <1>2, FS_Subset
  <2> QED
    BY <1>1, <2>1
<1>4. Cardinality(HeldBy(L, p)) \in Nat
  BY <1>3, FS_CardinalityType
<1> QED
  BY <1>3, <1>4, PoolAssumption

\* One more block, apart from the others of its page, takes its bytes more.
LEMMA HeldMore ==
  ASSUME NEW L, NEW b,
         b.off \in Nat, b.size \in Nat, EndOf(b) <= tLen,
         \A c \in L : c.off \in Nat /\ c.size \in Nat,
         \A c \in L : Apart(b, c)
  PROVE  Cardinality(HeldBy(L \cup {b}, b.page))
           = Cardinality(HeldBy(L, b.page)) + ADDRHEAD + b.size
<1> DEFINE I == b.off .. (EndOf(b) - 1)
<1>1. IsFiniteSet(I) /\ Cardinality(I) = ADDRHEAD + b.size
  <2>1. ADDRHEAD \in Nat \ {0}
    BY PoolAssumption
  <2>2. b.off \in Int /\ EndOf(b) - 1 \in Int
    BY <2>1 DEF EndOf
  <2>3. IsFiniteSet(I) /\ Cardinality(I) = IF b.off > EndOf(b) - 1 THEN 0
                                           ELSE (EndOf(b) - 1) - b.off + 1
    BY <2>2, FS_Interval
  <2>4. b.off <= EndOf(b) - 1 /\ (EndOf(b) - 1) - b.off + 1 = ADDRHEAD + b.size
    BY <2>1 DEF EndOf
  <2>5. ~ (b.off > EndOf(b) - 1)
    BY <2>2, <2>4
  <2> QED
    BY <2>3, <2>4, <2>5
<1>2. HeldBy(L \cup {b}, b.page) = HeldBy(L, b.page) \cup I
  BY PoolAssumption DEF HeldBy, EndOf
<1>3. HeldBy(L, b.page) \cap I = {}
  <2> SUFFICES ASSUME NEW x \in HeldBy(L, b.page), x \in I PROVE FALSE
    OBVIOUS
  <2>1. PICK c \in L : c.page = b.page /\ c.off <= x /\ x < EndOf(c)
    BY DEF HeldBy
  <2>2. EndOf(b) <= c.off \/ EndOf(c) <= b.off
    BY <2>1 DEF Apart
  <2>3. c.off \in Nat /\ c.size \in Nat /\ x \in Int
    OBVIOUS
  <2> QED
    BY <2>1, <2>2, <2>3, PoolAssumption DEF EndOf
<1>4. IsFiniteSet(HeldBy(L, b.page)) /\ Cardinality(HeldBy(L, b.page)) \in Nat
  BY HeldFinite
<1> HIDE DEF I
<1>5. Cardinality(HeldBy(L, b.page) \cup I)
        = Cardinality(HeldBy(L, b.page)) + Cardinality(I)
            - Cardinality(HeldBy(L, b.page) \cap I)
  BY <1>1, <1>4, FS_Union
<1>6. Cardinality(HeldBy(L, b.page) \cap I) = 0
  BY <1>3, FS_EmptySet
<1>7. Cardinality(HeldBy(L \cup {b}, b.page)) = Cardinality(HeldBy(L, b.page) \cup I)
  BY <1>2
<1>8. \A h, i, k, a, z \in Nat : i = a + z /\ k = 0 => h + i - k = h + a + z
  OBVIOUS
<1>9. ADDRHEAD \in Nat
  BY PoolAssumption
<1> QED
  BY <1>1, <1>4, <1>5, <1>6, <1>7, <1>8, <1>9

\* A block takes nothing of the other pages.
LEMMA HeldElsewhere ==
  ASSUME NEW L, NEW b, NEW p, p # b.page
  PROVE  HeldBy(L \cup {b}, p) = HeldBy(L, p)
  BY DEF HeldBy

\* Nothing of a page is held exactly when no block is on it.
LEMMA HeldNothing ==
  ASSUME NEW L, NEW p,
         \A b \in L : b.off \in Nat /\ b.size \in Nat /\ EndOf(b) <= tLen
  PROVE  Cardinality(HeldBy(L, p)) = 0 <=> \A b \in L : b.page # p
<1>1. Cardinality(HeldBy(L, p)) = 0 <=> HeldBy(L, p) = {}
  BY HeldFinite, FS_EmptySet
<1>2. ASSUME NEW b \in L, b.page = p PROVE b.off \in HeldBy(L, p)
  <2>1. b.off \in Nat /\ b.size \in Nat /\ b.off + ADDRHEAD + b.size <= tLen
    BY DEF EndOf
  <2>2. b.off \in 0 .. tLen - 1 /\ b.off < b.off + ADDRHEAD + b.size
    BY <2>1, PoolAssumption
  <2> QED
    BY <1>2, <2>2 DEF HeldBy, EndOf
<1>3. (\A b \in L : b.page # p) => HeldBy(L, p) = {}
  BY DEF HeldBy
<1> QED
  BY <1>1, <1>2, <1>3

-----------------------------------------------------------------------------
(* Cutting a block and giving one back                                     *)

\* The numbers of a block.
LEMMA BlockNumbers ==
  ASSUME BlocksInv, NEW b \in live
  PROVE  /\ b.page \in Pages /\ b.off \in Nat /\ b.size \in Nat
         /\ EndOf(b) <= tLen
<1>1. b \in [page : Pages, off : 0 .. tLen, size : AllocSizes]
  BY DEF BlocksInv
<1>2. b.page \in Pages /\ b.off \in 0 .. tLen /\ b.size \in AllocSizes
  BY <1>1
<1>3. b.off \in Nat /\ b.size \in Nat /\ ADDRHEAD \in Nat /\ tLen \in Nat
  <2>1. ADDRHEAD \in Nat /\ tLen \in Nat
    BY PoolAssumption
  <2>2. b.size \in Nat
    BY <1>2, PoolAssumption
  <2>3. \A o \in 0 .. tLen : o \in Nat
    BY <2>1
  <2> QED
    BY <1>2, <2>1, <2>2, <2>3
<1>4. roffset[b.page] \in 0 .. tLen /\ EndOf(b) <= roffset[b.page]
  BY <1>2 DEF BlocksInv
<1>5. EndOf(b) \in Nat
  BY <1>3 DEF EndOf
<1> QED
  BY <1>2, <1>3, <1>4, <1>5

\* A block cut from a page behind all its blocks, up to the end of the page:
\* the blocks stay apart and the counter right (hg_pool.c:128-138).
LEMMA CutKeeps ==
  ASSUME BlocksInv, CountInv,
         NEW p \in Pages, NEW off \in 0 .. tLen, NEW size \in AllocSizes,
         off + size + ADDRHEAD <= tLen,
         \A c \in live : c.page = p => EndOf(c) <= off,
         Cut(p, Cardinality(HeldBy(live, p)), off, size)
  PROVE  /\ BlocksInv' /\ CountInv'
         /\ \E b \in live' : b.page = p
         /\ \A b \in live' : b \in live \/ b.page = p
         /\ live \subseteq live'
<1> DEFINE b == [page |-> p, off |-> off, size |-> size]
<1>0. ADDRHEAD \in Nat \ {0} /\ tLen \in Nat /\ size \in Nat /\ off \in Nat
  BY PoolAssumption
<1>1. b.page = p /\ b.off = off /\ b.size = size
  OBVIOUS
<1>2. /\ live' = live \cup {b}
      /\ s' = [s EXCEPT ![p] = Cardinality(HeldBy(live, p)) + size + ADDRHEAD]
      /\ roffset' = [roffset EXCEPT ![p] = off + size + ADDRHEAD]
  BY DEF Cut
<1>3. b \in [page : Pages, off : 0 .. tLen, size : AllocSizes]
  OBVIOUS
<1> HIDE DEF b
<1>4. EndOf(b) = off + size + ADDRHEAD /\ EndOf(b) <= tLen /\ EndOf(b) \in 0 .. tLen
  BY <1>0, <1>1 DEF EndOf
<1>5. \A c \in live : /\ c.page \in Pages /\ c.off \in Nat /\ c.size \in Nat
                      /\ EndOf(c) <= tLen
  BY BlockNumbers
<1>6. \A c \in live : Apart(b, c) /\ Apart(c, b)
  BY <1>1 DEF Apart
<1>7. BlocksInv'
  <2>1. roffset' \in [Pages -> 0 .. tLen]
    BY <1>2, <1>4 DEF BlocksInv
  <2>2. live' \subseteq [page : Pages, off : 0 .. tLen, size : AllocSizes]
    BY <1>2, <1>3 DEF BlocksInv
  <2>3. ASSUME NEW c \in live' PROVE EndOf(c) <= roffset'[c.page]
    <3>1. CASE c = b
      <4>1. roffset'[c.page] = off + size + ADDRHEAD
        BY <1>1, <1>2, <3>1 DEF BlocksInv
      <4> QED
        BY <1>4, <3>1, <4>1
    <3>2. CASE c \in live /\ c.page = p
      <4>1. EndOf(c) <= off /\ EndOf(c) \in Nat
        BY <1>0, <1>5, <3>2 DEF EndOf
      <4>2. roffset'[c.page] = off + size + ADDRHEAD
        BY <1>2, <3>2 DEF BlocksInv
      <4> QED
        BY <1>0, <4>1, <4>2
    <3>3. CASE c \in live /\ c.page # p
      <4>1. roffset'[c.page] = roffset[c.page]
        BY <1>2, <1>5, <3>3 DEF BlocksInv
      <4> QED
        BY <3>3, <4>1 DEF BlocksInv
    <3> QED
      BY <1>2, <3>1, <3>2, <3>3
  <2>4. \A c, d \in live' : c # d => Apart(c, d)
    BY <1>2, <1>6 DEF BlocksInv
  <2> QED
    BY <2>1, <2>2, <2>3, <2>4 DEF BlocksInv, EndOf, Apart
<1>8. CountInv'
  <2>1. Cardinality(HeldBy(live', p)) = Cardinality(HeldBy(live, p)) + ADDRHEAD + size
    <3>1. Cardinality(HeldBy(live \cup {b}, b.page))
            = Cardinality(HeldBy(live, b.page)) + ADDRHEAD + b.size
      BY <1>0, <1>1, <1>4, <1>5, <1>6, HeldMore
    <3> QED
      BY <1>1, <1>2, <3>1
  <2>2. Cardinality(HeldBy(live, p)) \in Nat
    BY HeldFinite
  <2>3. ASSUME NEW q \in Pages
        PROVE  s'[q] \in Nat /\ s'[q] = Cardinality(HeldBy(live', q))
    <3>1. CASE q = p
      <4>1. s'[q] = Cardinality(HeldBy(live, p)) + size + ADDRHEAD
        BY <1>2, <3>1 DEF CountInv
      <4> QED
        BY <1>0, <2>1, <2>2, <3>1, <4>1
    <3>2. CASE q # p
      <4>1. s'[q] = s[q]
        BY <1>2, <3>2 DEF CountInv
      <4>2. HeldBy(live', q) = HeldBy(live, q)
        BY <1>1, <1>2, <3>2, HeldElsewhere
      <4> QED
        BY <4>1, <4>2 DEF CountInv
    <3> QED
      BY <3>1, <3>2
  <2>4. s' \in [Pages -> Nat]
    <3>1. s' = [q \in Pages |-> s'[q]]
      BY <1>2 DEF CountInv
    <3> QED
      BY <2>3, <3>1
  <2> QED
    BY <2>3, <2>4 DEF CountInv, HeldBy, EndOf
<1> QED
  BY <1>1, <1>2, <1>7, <1>8

\* A block given back: the others stay apart, and the counter of its page says
\* what is left (hg_pool.c:148-153).
LEMMA FreeKeeps ==
  ASSUME BlocksInv, CountInv, NEW b \in live,
         live' = live \ {b}, roffset' = roffset,
         s' = [s EXCEPT ![b.page] = s[b.page] - BytesBack(b)]
  PROVE  BlocksInv' /\ CountInv'
<1>0. ADDRHEAD \in Nat \ {0}
  BY PoolAssumption
<1>1. \A c \in live : /\ c.page \in Pages /\ c.off \in Nat /\ c.size \in Nat
                      /\ EndOf(c) <= tLen
  BY BlockNumbers
<1>2. BlocksInv'
  BY DEF BlocksInv, EndOf, Apart
<1>3. Cardinality(HeldBy(live, b.page))
        = Cardinality(HeldBy(live', b.page)) + ADDRHEAD + b.size
  <2>1. live = live' \cup {b}
    OBVIOUS
  <2>2. \A c \in live' : c.off \in Nat /\ c.size \in Nat
    BY <1>1
  <2>3. \A c \in live' : Apart(b, c)
    BY DEF BlocksInv
  <2>4. Cardinality(HeldBy(live' \cup {b}, b.page))
          = Cardinality(HeldBy(live', b.page)) + ADDRHEAD + b.size
    BY <1>1, <2>2, <2>3, HeldMore
  <2> QED
    BY <2>1, <2>4
<1>4. CountInv'
  <2>1. ASSUME NEW q \in Pages
        PROVE  s'[q] \in Nat /\ s'[q] = Cardinality(HeldBy(live', q))
    <3>1. CASE q = b.page
      <4>1. s'[q] = Cardinality(HeldBy(live, b.page)) - (b.size + ADDRHEAD)
        BY <1>1, <3>1 DEF CountInv, BytesBack
      <4>2. Cardinality(HeldBy(live', b.page)) \in Nat /\ b.size \in Nat
        BY <1>1, HeldFinite
      <4> QED
        BY <1>0, <1>3, <3>1, <4>1, <4>2
    <3>2. CASE q # b.page
      <4>1. s'[q] = s[q]
        BY <3>2 DEF CountInv
      <4>2. HeldBy(live, q) = HeldBy(live', q)
        BY <3>2 DEF HeldBy
      <4> QED
        BY <4>1, <4>2 DEF CountInv
    <3> QED
      BY <3>1, <3>2
  <2>2. s' \in [Pages -> Nat]
    <3>1. s' = [q \in Pages |-> s'[q]]
      BY DEF CountInv
    <3> QED
      BY <2>1, <3>1
  <2> QED
    BY <2>1, <2>2 DEF CountInv, HeldBy, EndOf
<1> QED
  BY <1>2, <1>4

-----------------------------------------------------------------------------
(* The chains of pages                                                     *)

\* A chain without its k-th page.
LEMMA Unlinked ==
  ASSUME NEW S, NEW q \in Seq(S), NEW k \in 1 .. Len(q)
  PROVE  /\ RemoveAt(q, k) \in Seq(S)
         /\ Len(RemoveAt(q, k)) = Len(q) - 1
         /\ \A j \in 1 .. Len(q) - 1 :
              RemoveAt(q, k)[j] = IF j < k THEN q[j] ELSE q[j + 1]
<1> DEFINE l == SubSeq(q, 1, k - 1)
           r == SubSeq(q, k + 1, Len(q))
<1>1. l \in Seq(S) /\ Len(l) = k - 1 /\ \A j \in 1 .. k - 1 : l[j] = q[j]
  OBVIOUS
<1>2. /\ r \in Seq(S) /\ Len(r) = Len(q) - k
      /\ \A j \in 1 .. Len(q) - k : r[j] = q[j + k]
  OBVIOUS
<1> HIDE DEF l, r
<1>3. l \o r \in Seq(S) /\ Len(l \o r) = Len(q) - 1
  <2>1. l \o r \in Seq(S) /\ Len(l \o r) = Len(l) + Len(r)
    <3>1. l \in Seq(S)
      BY <1>1
    <3>2. r \in Seq(S)
      BY <1>2
    <3>3. l \o r \in Seq(S)
      BY <3>1, <3>2
    <3>4. Len(l \o r) = Len(l) + Len(r)
      BY <3>1, <3>2
    <3> QED
      BY <3>3, <3>4
  <2>2. Len(q) \in Nat /\ k \in Nat
    OBVIOUS
  <2>3. (k - 1) + (Len(q) - k) = Len(q) - 1
    BY <2>2
  <2> QED
    BY <1>1, <1>2, <2>1, <2>3
<1>4. \A j \in 1 .. Len(q) - 1 : (l \o r)[j] = IF j < k THEN q[j] ELSE q[j + 1]
  <2> SUFFICES ASSUME NEW j \in 1 .. Len(q) - 1
               PROVE  (l \o r)[j] = IF j < k THEN q[j] ELSE q[j + 1]
    OBVIOUS
  <2>1. CASE j < k
    BY <1>1, <1>2, <2>1
  <2>2. CASE ~ j < k
    <3>1. (l \o r)[j] = r[j - (k - 1)] /\ j - (k - 1) \in 1 .. Len(q) - k
      BY <1>1, <1>2, <2>2
    <3>2. r[j - (k - 1)] = q[j - (k - 1) + k] /\ j - (k - 1) + k = j + 1
      BY <1>2, <3>1
    <3> QED
      BY <2>2, <3>1, <3>2
  <2> QED
    BY <2>1, <2>2
<1> QED
  BY <1>3, <1>4 DEF RemoveAt, l, r

\* A page in use that nothing is left of is unlinked and pushed to the free
\* chain (hg_pool.c:93-109).
LEMMA PageFreed ==
  ASSUME ChainsInv, NEW k \in 1 .. Len(pages),
         pages' = MidlePop(pages[k]), freepages' = Append(freepages, pages[k]),
         mallocs' = mallocs
  PROVE  /\ ChainsInv'
         /\ \A i \in 1 .. Len(pages) :
              i # k => \E j \in 1 .. Len(pages') : pages'[j] = pages[i]
         /\ \A j \in 1 .. Len(pages') : \E i \in 1 .. Len(pages) :
              i # k /\ pages'[j] = pages[i]
<1> DEFINE n == Len(pages)
           m == Len(freepages)
<1>0. /\ pages \in Seq(Pages) /\ freepages \in Seq(Pages)
      /\ n \in Nat /\ m \in Nat
  BY DEF ChainsInv, Chains
<1>1. (CHOOSE i \in DOMAIN pages : pages[i] = pages[k]) = k
  <2>1. DOMAIN pages = 1 .. n
    BY <1>0
  <2> QED
    BY <2>1 DEF ChainsInv, Chains
<1>2. /\ pages' \in Seq(Pages) /\ Len(pages') = n - 1
      /\ \A j \in 1 .. n - 1 : pages'[j] = IF j < k THEN pages[j] ELSE pages[j + 1]
  <2>1. pages' = RemoveAt(pages, k)
    BY <1>1 DEF MidlePop
  <2> QED
    BY <1>0, <2>1, Unlinked
<1>3. \A j \in 1 .. n - 1 :
        \E i \in 1 .. n : i = (IF j < k THEN j ELSE j + 1) /\ i # k /\ pages'[j] = pages[i]
  <2> SUFFICES ASSUME NEW j \in 1 .. n - 1
               PROVE  \E i \in 1 .. n : /\ i = (IF j < k THEN j ELSE j + 1) /\ i # k
                                       /\ pages'[j] = pages[i]
    OBVIOUS
  <2>1. CASE j < k
    <3>1. j \in 1 .. n /\ j # k /\ pages'[j] = pages[j]
      BY <1>0, <1>2, <2>1
    <3> QED
      BY <2>1, <3>1
  <2>2. CASE ~ (j < k)
    <3>1. j + 1 \in 1 .. n /\ j + 1 # k
      BY <1>0, <2>2
    <3>2. pages'[j] = pages[j + 1]
      BY <1>2, <2>2
    <3> QED
      BY <2>2, <3>1, <3>2
  <2> QED
    BY <2>1, <2>2
<1>4. \A i \in 1 .. n : i # k => \E j \in 1 .. n - 1 : pages'[j] = pages[i]
  <2> SUFFICES ASSUME NEW i \in 1 .. n, i # k
               PROVE  \E j \in 1 .. n - 1 : pages'[j] = pages[i]
    OBVIOUS
  <2>1. CASE i < k
    <3>1. i \in 1 .. n - 1 /\ pages'[i] = pages[i]
      BY <1>0, <1>2, <2>1
    <3> QED
      BY <3>1
  <2>2. CASE i > k
    <3>1. i - 1 \in 1 .. n - 1 /\ ~ (i - 1 < k) /\ i - 1 + 1 = i
      BY <1>0, <2>2
    <3>2. pages'[i - 1] = pages[i]
      BY <1>2, <3>1
    <3> QED
      BY <3>1, <3>2
  <2> QED
    BY <1>0, <2>1, <2>2
<1>5. /\ freepages' \in Seq(Pages) /\ Len(freepages') = m + 1
      /\ \A j \in 1 .. m : freepages'[j] = freepages[j]
      /\ freepages'[m + 1] = pages[k]
  <2>1. pages[k] \in Pages
    BY <1>0
  <2> QED
    BY <1>0, <2>1
<1>6. \A i, j \in 1 .. n - 1 : pages'[i] = pages'[j] => i = j
  <2> SUFFICES ASSUME NEW i \in 1 .. n - 1, NEW j \in 1 .. n - 1, pages'[i] = pages'[j]
               PROVE  i = j
    OBVIOUS
  <2>1. PICK a \in 1 .. n : a = (IF i < k THEN i ELSE i + 1) /\ pages'[i] = pages[a]
    BY <1>3
  <2>2. PICK b \in 1 .. n : b = (IF j < k THEN j ELSE j + 1) /\ pages'[j] = pages[b]
    BY <1>3
  <2>3. a = b
    <3>1. \A x, y \in 1 .. n : pages[x] = pages[y] => x = y
      BY DEF ChainsInv, Chains
    <3>2. pages[a] = pages[b]
      BY <2>1, <2>2
    <3> QED
      BY <3>1, <3>2
  <2> QED
    BY <1>0, <2>1, <2>2, <2>3
<1>7. \A i, j \in 1 .. m + 1 : freepages'[i] = freepages'[j] => i = j
  <2>1. \A i \in 1 .. m : freepages'[i] # freepages'[m + 1]
    BY <1>5 DEF ChainsInv, Chains
  <2>2. \A i, j \in 1 .. m : freepages'[i] = freepages'[j] => i = j
    BY <1>5 DEF ChainsInv, Chains
  <2>3. \A i \in 1 .. m + 1 : i \in 1 .. m \/ i = m + 1
    BY <1>0
  <2> QED
    BY <2>1, <2>2, <2>3
<1>8. \A i \in 1 .. n - 1, j \in 1 .. m + 1 : pages'[i] # freepages'[j]
  <2> SUFFICES ASSUME NEW i \in 1 .. n - 1, NEW j \in 1 .. m + 1
               PROVE  pages'[i] # freepages'[j]
    OBVIOUS
  <2>1. PICK a \in 1 .. n : a # k /\ pages'[i] = pages[a]
    BY <1>3
  <2>2. pages[a] # pages[k]
    BY <2>1 DEF ChainsInv, Chains
  <2>3. j \in 1 .. m \/ j = m + 1
    BY <1>0
  <2> QED
    BY <1>5, <2>1, <2>2, <2>3 DEF ChainsInv, Chains
<1>9. \A p \in 1 .. mallocs : \/ \E i \in 1 .. n - 1 : pages'[i] = p
                              \/ \E i \in 1 .. m + 1 : freepages'[i] = p
  <2> SUFFICES ASSUME NEW p \in 1 .. mallocs
               PROVE  \/ \E i \in 1 .. n - 1 : pages'[i] = p
                      \/ \E i \in 1 .. m + 1 : freepages'[i] = p
    OBVIOUS
  <2>1. CASE \E i \in 1 .. n : i # k /\ pages[i] = p
    BY <1>4, <2>1
  <2>2. CASE pages[k] = p
    <3>1. m + 1 \in 1 .. m + 1
      BY <1>0
    <3> QED
      BY <1>5, <2>2, <3>1
  <2>3. CASE \E i \in 1 .. m : freepages[i] = p
    <3>1. PICK i \in 1 .. m : freepages[i] = p
      BY <2>3
    <3>2. i \in 1 .. m + 1
      BY <1>0
    <3> QED
      BY <1>5, <3>1, <3>2
  <2> QED
    BY <2>1, <2>2, <2>3 DEF ChainsInv, Chains
<1>10. /\ \A i \in 1 .. n - 1 : pages'[i] \in 1 .. mallocs
       /\ \A i \in 1 .. m + 1 : freepages'[i] \in 1 .. mallocs
  <2>1. \A i \in 1 .. m + 1 : i \in 1 .. m \/ i = m + 1
    BY <1>0
  <2>2. \A i \in 1 .. n - 1 : pages'[i] \in 1 .. mallocs
    BY <1>3 DEF ChainsInv, Chains
  <2>3. \A i \in 1 .. m + 1 : freepages'[i] \in 1 .. mallocs
    BY <1>5, <2>1 DEF ChainsInv, Chains
  <2> QED
    BY <2>2, <2>3
<1>11. mallocs' \in 0 .. MaxPages
  BY DEF ChainsInv, Chains
<1>12. ChainsInv'
  <2>1. Chains(pages', n - 1, freepages', m + 1, mallocs)
    BY <1>6, <1>7, <1>8, <1>9, <1>10, <1>11 DEF Chains
  <2> QED
    BY <1>2, <1>5, <2>1 DEF ChainsInv
<1> QED
  BY <1>2, <1>3, <1>4, <1>12

\* A page for the right end of the chain: the left one of the free chain, or a
\* new one (hg_pool.c:28-54, 75-88).
LEMMA PageTaken ==
  ASSUME ChainsInv, NewNode.page \in Pages,
         pages' = Append(pages, NewNode.page),
         freepages' = NewNode.rest, mallocs' = NewNode.n
  PROVE  /\ ChainsInv'
         /\ \A i \in 1 .. Len(pages) : pages[i] # NewNode.page
         /\ Len(pages') = Len(pages) + 1
         /\ \A i \in 1 .. Len(pages) : pages'[i] = pages[i]
         /\ pages'[Len(pages) + 1] = NewNode.page
<1> DEFINE n == Len(pages)
           m == Len(freepages)
           p == NewNode.page
<1>0. /\ pages \in Seq(Pages) /\ freepages \in Seq(Pages)
      /\ n \in Nat /\ m \in Nat /\ mallocs \in Nat /\ MaxPages \in Nat
  <2>1. MaxPages \in Nat
    BY PoolAssumption
  <2> QED
    BY <2>1 DEF ChainsInv, Chains
<1>1. \A i \in 1 .. n + 1 : i \in 1 .. n \/ i = n + 1
  BY <1>0
<1>a. /\ \A i \in 1 .. n : pages[i] \in 1 .. mallocs
      /\ \A i \in 1 .. m : freepages[i] \in 1 .. mallocs
  BY DEF ChainsInv, Chains
<1>2. CASE freepages # <<>>
  <2>1. p = Head(freepages) /\ freepages' = Tail(freepages) /\ mallocs' = mallocs
    BY <1>2 DEF NewNode
  <2>2. m >= 1 /\ p = freepages[1]
    BY <1>0, <1>2, <2>1
  <2>3. /\ freepages' \in Seq(Pages) /\ Len(freepages') = m - 1
        /\ \A i \in 1 .. m - 1 : freepages'[i] = freepages[i + 1] /\ i + 1 \in 1 .. m
    BY <1>0, <1>2, <2>1
  <2>4. p \in 1 .. mallocs /\ p \in Pages /\ 1 \in 1 .. m
    BY <1>0, <1>a, <2>2
  <2>5. /\ pages' \in Seq(Pages) /\ Len(pages') = n + 1
        /\ \A i \in 1 .. n : pages'[i] = pages[i]
        /\ pages'[n + 1] = p
    BY <1>0, <2>4
  <2>6. \A i \in 1 .. n : pages[i] # p
    BY <2>2, <2>4 DEF ChainsInv, Chains
  <2>7. \A i, j \in 1 .. n + 1 : pages'[i] = pages'[j] => i = j
    <3>1. \A i, j \in 1 .. n : pages'[i] = pages'[j] => i = j
      BY <2>5 DEF ChainsInv, Chains
    <3> QED
      BY <1>1, <2>5, <2>6, <3>1
  <2>8. \A i, j \in 1 .. m - 1 : freepages'[i] = freepages'[j] => i = j
    <3> SUFFICES ASSUME NEW i \in 1 .. m - 1, NEW j \in 1 .. m - 1,
                        freepages'[i] = freepages'[j]
                 PROVE  i = j
      OBVIOUS
    <3>1. i + 1 = j + 1
      BY <2>3 DEF ChainsInv, Chains
    <3> QED
      BY <1>0, <3>1
  <2>9. \A j \in 1 .. m - 1 : freepages'[j] # p
    <3> SUFFICES ASSUME NEW j \in 1 .. m - 1, freepages'[j] = p PROVE FALSE
      OBVIOUS
    <3>1. j + 1 = 1
      BY <2>2, <2>3, <2>4 DEF ChainsInv, Chains
    <3> QED
      BY <1>0, <3>1
  <2>10. \A i \in 1 .. n + 1, j \in 1 .. m - 1 : pages'[i] # freepages'[j]
    <3>1. \A i \in 1 .. n, j \in 1 .. m - 1 : pages'[i] # freepages'[j]
      BY <2>3, <2>5 DEF ChainsInv, Chains
    <3> QED
      BY <1>1, <2>5, <2>9, <3>1
  <2>11. \A q \in 1 .. mallocs : \/ \E i \in 1 .. n + 1 : pages'[i] = q
                                 \/ \E i \in 1 .. m - 1 : freepages'[i] = q
    <3> SUFFICES ASSUME NEW q \in 1 .. mallocs
                 PROVE  \/ \E i \in 1 .. n + 1 : pages'[i] = q
                        \/ \E i \in 1 .. m - 1 : freepages'[i] = q
      OBVIOUS
    <3>1. CASE q = p
      <4>1. n + 1 \in 1 .. n + 1
        BY <1>0
      <4> QED
        BY <2>5, <3>1, <4>1
    <3>2. CASE \E i \in 1 .. n : pages[i] = q
      <4>1. \A i \in 1 .. n : i \in 1 .. n + 1
        BY <1>0
      <4> QED
        BY <2>5, <3>2, <4>1
    <3>3. CASE q # p /\ \E i \in 1 .. m : freepages[i] = q
      <4>1. PICK i \in 1 .. m : freepages[i] = q
        BY <3>3
      <4>2. i # 1
        BY <2>2, <3>3, <4>1
      <4>3. i - 1 \in 1 .. m - 1 /\ i - 1 + 1 = i
        BY <1>0, <4>2
      <4>4. freepages'[i - 1] = q
        BY <2>3, <4>1, <4>3
      <4> QED
        BY <4>3, <4>4
    <3> QED
      BY <3>1, <3>2, <3>3 DEF ChainsInv, Chains
  <2>12. /\ mallocs' \in 0 .. MaxPages
         /\ \A i \in 1 .. n + 1 : pages'[i] \in 1 .. mallocs
         /\ \A i \in 1 .. m - 1 : freepages'[i] \in 1 .. mallocs
    <3>1. mallocs' \in 0 .. MaxPages
      BY <2>1 DEF ChainsInv, Chains
    <3>2. \A i \in 1 .. n + 1 : pages'[i] \in 1 .. mallocs
      BY <1>1, <1>a, <2>4, <2>5
    <3>3. \A i \in 1 .. m - 1 : freepages'[i] \in 1 .. mallocs
      BY <1>a, <2>3
    <3> QED
      BY <3>1, <3>2, <3>3
  <2>13. ChainsInv'
    <3>1. Chains(pages', n + 1, freepages', m - 1, mallocs)
      BY <2>1, <2>7, <2>8, <2>10, <2>11, <2>12 DEF Chains
    <3> QED
      BY <2>1, <2>3, <2>5, <3>1 DEF ChainsInv
  <2> QED
    BY <2>5, <2>6, <2>13
<1>3. CASE freepages = <<>>
  <2>1. p = mallocs + 1 /\ freepages' = <<>> /\ mallocs' = mallocs + 1
    BY <1>3 DEF NewNode
  <2>2. m = 0 /\ Len(freepages') = 0 /\ freepages' \in Seq(Pages)
    BY <1>3, <2>1
  <2>3. p \in Pages /\ p \in 1 .. mallocs' /\ \A q \in 1 .. mallocs : q \in 1 .. mallocs' /\ q # p
    BY <1>0, <2>1
  <2>5. /\ pages' \in Seq(Pages) /\ Len(pages') = n + 1
        /\ \A i \in 1 .. n : pages'[i] = pages[i]
        /\ pages'[n + 1] = p
    BY <1>0, <2>3
  <2>6. \A i \in 1 .. n : pages[i] # p
    BY <1>a, <2>3
  <2>7. \A i, j \in 1 .. n + 1 : pages'[i] = pages'[j] => i = j
    <3>1. \A i, j \in 1 .. n : pages'[i] = pages'[j] => i = j
      BY <2>5 DEF ChainsInv, Chains
    <3> QED
      BY <1>1, <2>5, <2>6, <3>1
  <2>8. 1 .. Len(freepages') = {} /\ 1 .. Len(freepages) = {}
    BY <2>2
  <2>9. \A q \in 1 .. mallocs' : \E i \in 1 .. n + 1 : pages'[i] = q
    <3> SUFFICES ASSUME NEW q \in 1 .. mallocs' PROVE \E i \in 1 .. n + 1 : pages'[i] = q
      OBVIOUS
    <3>1. CASE q = p
      <4>1. n + 1 \in 1 .. n + 1
        BY <1>0
      <4> QED
        BY <2>5, <3>1, <4>1
    <3>2. CASE q \in 1 .. mallocs
      <4>1. \E i \in 1 .. n : pages[i] = q
        BY <2>8, <3>2 DEF ChainsInv, Chains
      <4>2. \A i \in 1 .. n : i \in 1 .. n + 1
        BY <1>0
      <4> QED
        BY <2>5, <4>1, <4>2
    <3> QED
      BY <1>0, <2>1, <3>1, <3>2
  <2>10. /\ mallocs' \in 0 .. MaxPages
         /\ \A i \in 1 .. n + 1 : pages'[i] \in 1 .. mallocs'
    <3>1. mallocs' \in 0 .. MaxPages
      BY <1>0, <2>1 DEF Pages
    <3>2. \A i \in 1 .. n + 1 : pages'[i] \in 1 .. mallocs'
      BY <1>1, <1>a, <2>3, <2>5
    <3> QED
      BY <3>1, <3>2
  <2>11. ChainsInv'
    <3>1. 1 .. 0 = {}
      OBVIOUS
    <3>2. Chains(pages', n + 1, freepages', 0, mallocs')
      BY <2>7, <2>9, <2>10, <3>1 DEF Chains
    <3> QED
      BY <2>2, <2>5, <3>2 DEF ChainsInv
  <2> QED
    BY <2>5, <2>6, <2>11
<1> QED
  BY <1>2, <1>3

-----------------------------------------------------------------------------
(* The invariant                                                           *)

\* A pool is created empty.
LEMMA PoolInitInv == PoolInit => PoolInv
<1> SUFFICES ASSUME PoolInit PROVE PoolInv
  OBVIOUS
<1>1. /\ pages = <<>> /\ freepages = <<>> /\ live = {} /\ mallocs = 0
      /\ roffset = [p \in Pages |-> 0] /\ s = [p \in Pages |-> 0]
  BY DEF PoolInit
<1>2. MaxPages \in Nat /\ tLen \in Nat
  BY PoolAssumption
<1>3. ChainsInv
  BY <1>1, <1>2 DEF ChainsInv, Chains
<1>4. UseInv
  BY <1>1 DEF UseInv
<1>5. BlocksInv
  BY <1>1, <1>2 DEF BlocksInv
<1>6. CountInv
  <2>1. \A p : HeldBy({}, p) = {}
    BY DEF HeldBy
  <2>2. Cardinality({}) = 0
    BY FS_EmptySet
  <2> QED
    BY <1>1, <2>1, <2>2 DEF CountInv
<1> QED
  BY <1>3, <1>4, <1>5, <1>6 DEF PoolInv

\* myPoolAlloc keeps the invariant.
LEMMA AllocKeeps ==
  ASSUME PoolInv, NEW size \in AllocSizes, Alloc(size)
  PROVE  PoolInv'
<1>0. /\ ChainsInv /\ UseInv /\ BlocksInv /\ CountInv
      /\ pages \in Seq(Pages) /\ Len(pages) \in Nat
  BY DEF PoolInv, ChainsInv
<1>1. ADDRHEAD \in Nat /\ tLen \in Nat /\ size \in Nat /\ size + ADDRHEAD <= tLen
  BY PoolAssumption
<1>2. CASE /\ HasRoom(size)
           /\ Cut(Last(pages), s[Last(pages)], roffset[Last(pages)], size)
           /\ UNCHANGED <<pages, freepages, mallocs>>
  <2> DEFINE n == Len(pages)
             p == pages[n]
  <2>1. p = Last(pages) /\ n \in 1 .. n /\ p \in Pages
    <3>1. pages # <<>>
      BY <1>2 DEF HasRoom
    <3> QED
      BY <1>0, <3>1 DEF Last
  <2>2. roffset[p] \in 0 .. tLen /\ s[p] = Cardinality(HeldBy(live, p))
    BY <1>0, <2>1 DEF BlocksInv, CountInv
  <2>3. roffset[p] + size + ADDRHEAD <= tLen
    <3>1. tLen - roffset[p] >= size + ADDRHEAD
      BY <1>2, <2>1 DEF HasRoom
    <3> QED
      BY <1>1, <2>2, <3>1
  <2>4. \A c \in live : c.page = p => EndOf(c) <= roffset[p]
    BY <1>0 DEF BlocksInv
  <2>5. Cut(p, Cardinality(HeldBy(live, p)), roffset[p], size)
    BY <1>2, <2>1, <2>2
  <2> HIDE DEF p
  <2>6. /\ BlocksInv' /\ CountInv'
        /\ \E b \in live' : b.page = p
        /\ \A b \in live' : b \in live \/ b.page = p
        /\ live \subseteq live'
    BY <1>0, <2>1, <2>2, <2>3, <2>4, <2>5, CutKeeps
  <2>7. UseInv'
    <3>1. pages' = pages /\ p = pages[n] /\ n \in 1 .. Len(pages)
      BY <1>2, <2>1 DEF p
    <3>2. ASSUME NEW b \in live' PROVE \E i \in 1 .. Len(pages) : pages[i] = b.page
      BY <1>0, <2>6, <3>1 DEF UseInv
    <3>3. ASSUME NEW i \in 1 .. Len(pages) PROVE \E b \in live' : b.page = pages[i]
      BY <1>0, <2>6 DEF UseInv
    <3> QED
      BY <3>1, <3>2, <3>3 DEF UseInv
  <2>8. ChainsInv'
    BY <1>0, <1>2 DEF ChainsInv, Chains
  <2> QED
    BY <2>6, <2>7, <2>8 DEF PoolInv
<1>3. CASE /\ ~HasRoom(size) /\ NewNode.page \in Pages
           /\ pages' = Append(pages, NewNode.page)
           /\ freepages' = NewNode.rest /\ mallocs' = NewNode.n
           /\ Cut(NewNode.page, 0, 0, size)
  <2> DEFINE p == NewNode.page
             n == Len(pages)
  <2>1. p \in Pages
    BY <1>3
  <2>2. /\ ChainsInv'
        /\ \A i \in 1 .. n : pages[i] # p
        /\ Len(pages') = n + 1
        /\ \A i \in 1 .. n : pages'[i] = pages[i]
        /\ pages'[n + 1] = p
    BY <1>0, <1>3, PageTaken
  <2>c. Cut(p, 0, 0, size)
    BY <1>3
  <2> HIDE DEF p
  <2>3. \A b \in live : b.page # p
    BY <1>0, <2>2 DEF UseInv
  <2>4. Cardinality(HeldBy(live, p)) = 0
    <3>1. \A b \in live : b.off \in Nat /\ b.size \in Nat /\ EndOf(b) <= tLen
      BY <1>0, BlockNumbers
    <3> QED
      BY <2>3, <3>1, HeldNothing
  <2>5. 0 \in 0 .. tLen /\ 0 + size + ADDRHEAD <= tLen
    BY <1>1
  <2>6. Cut(p, Cardinality(HeldBy(live, p)), 0, size)
    BY <2>c, <2>4
  <2>7. /\ BlocksInv' /\ CountInv'
        /\ \E b \in live' : b.page = p
        /\ \A b \in live' : b \in live \/ b.page = p
        /\ live \subseteq live'
    BY <1>0, <2>1, <2>3, <2>5, <2>6, CutKeeps
  <2>8. UseInv'
    <3>1. \A i \in 1 .. n + 1 : i \in 1 .. n \/ i = n + 1
      BY <1>0
    <3>2. \A i \in 1 .. n : i \in 1 .. n + 1
      BY <1>0
    <3>3. n + 1 \in 1 .. n + 1
      BY <1>0
    <3>4. ASSUME NEW b \in live' PROVE \E i \in 1 .. n + 1 : pages'[i] = b.page
      <4>1. CASE b \in live
        BY <1>0, <2>2, <3>2, <4>1 DEF UseInv
      <4>2. CASE b.page = p
        BY <2>2, <3>3, <4>2
      <4> QED
        BY <2>7, <4>1, <4>2
    <3>5. ASSUME NEW i \in 1 .. n + 1 PROVE \E b \in live' : b.page = pages'[i]
      <4>1. CASE i \in 1 .. n
        BY <1>0, <2>2, <2>7, <4>1 DEF UseInv
      <4>2. CASE i = n + 1
        BY <2>2, <2>7, <4>2
      <4> QED
        BY <3>1, <4>1, <4>2
    <3> QED
      BY <2>2, <3>4, <3>5 DEF UseInv
  <2> QED
    BY <2>2, <2>7, <2>8 DEF PoolInv
<1> QED
  BY <1>2, <1>3 DEF Alloc

\* myPoolFree keeps the invariant: the counter of the page is 0 exactly when
\* no other block is on it.
LEMMA FreeStepKeeps ==
  ASSUME PoolInv, NEW b \in live, Free(b)
  PROVE  PoolInv'
<1> DEFINE left == s[b.page] - BytesBack(b)
<1>0. ChainsInv /\ UseInv /\ BlocksInv /\ CountInv
  BY DEF PoolInv
<1>1. /\ live' = live \ {b} /\ s' = [s EXCEPT ![b.page] = left]
      /\ roffset' = roffset /\ mallocs' = mallocs
  BY DEF Free
<1>2. BlocksInv' /\ CountInv'
  BY <1>0, <1>1, FreeKeeps
<1>3. b.page \in Pages
  BY <1>0, BlockNumbers
<1>4. left = Cardinality(HeldBy(live', b.page))
  <2>1. s'[b.page] = left
    BY <1>0, <1>1, <1>3 DEF CountInv
  <2>2. s'[b.page] = Cardinality(HeldBy(live', b.page))
    BY <1>2, <1>3 DEF CountInv, HeldBy, EndOf
  <2> QED
    BY <2>1, <2>2
<1>5. left = 0 <=> \A c \in live' : c.page # b.page
  <2>1. \A c \in live' : c.off \in Nat /\ c.size \in Nat /\ EndOf(c) <= tLen
    BY <1>0, <1>1, BlockNumbers
  <2> QED
    BY <1>4, <2>1, HeldNothing
<1>6. CASE left # 0 /\ UNCHANGED <<pages, freepages>>
  <2>1. ChainsInv'
    BY <1>0, <1>1, <1>6 DEF ChainsInv, Chains
  <2>2. UseInv'
    <3>1. ASSUME NEW i \in 1 .. Len(pages) PROVE \E c \in live' : c.page = pages[i]
      <4>1. PICK d \in live : d.page = pages[i]
        BY <1>0 DEF UseInv
      <4> QED
        BY <1>1, <1>5, <1>6, <4>1
    <3>2. ASSUME NEW c \in live' PROVE \E i \in 1 .. Len(pages) : pages[i] = c.page
      BY <1>0, <1>1 DEF UseInv
    <3> QED
      BY <1>6, <3>1, <3>2 DEF UseInv
  <2> QED
    BY <1>2, <2>1, <2>2 DEF PoolInv
<1>7. CASE /\ left = 0
           /\ pages' = MidlePop(b.page)
           /\ freepages' = Append(freepages, b.page)
  <2>1. PICK k \in 1 .. Len(pages) : pages[k] = b.page
    BY <1>0 DEF UseInv
  <2>2. /\ ChainsInv'
        /\ \A i \in 1 .. Len(pages) :
             i # k => \E j \in 1 .. Len(pages') : pages'[j] = pages[i]
        /\ \A j \in 1 .. Len(pages') : \E i \in 1 .. Len(pages) :
             i # k /\ pages'[j] = pages[i]
    BY <1>0, <1>1, <1>7, <2>1, PageFreed
  <2>3. UseInv'
    <3>1. ASSUME NEW c \in live' PROVE \E j \in 1 .. Len(pages') : pages'[j] = c.page
      <4>1. c.page # b.page
        BY <1>5, <1>7
      <4>2. PICK i \in 1 .. Len(pages) : pages[i] = c.page
        BY <1>0, <1>1 DEF UseInv
      <4> QED
        BY <2>1, <2>2, <4>1, <4>2
    <3>2. ASSUME NEW j \in 1 .. Len(pages') PROVE \E c \in live' : c.page = pages'[j]
      <4>1. PICK i \in 1 .. Len(pages) : i # k /\ pages'[j] = pages[i]
        BY <2>2
      <4>2. pages[i] # b.page
        BY <1>0, <2>1, <4>1 DEF ChainsInv, Chains
      <4>3. PICK c \in live : c.page = pages[i]
        BY <1>0 DEF UseInv
      <4>4. c \in live'
        BY <1>1, <4>2, <4>3
      <4> QED
        BY <4>1, <4>3, <4>4
    <3> QED
      BY <3>1, <3>2 DEF UseInv
  <2> QED
    BY <1>2, <2>2, <2>3 DEF PoolInv
<1> QED
  BY <1>6, <1>7 DEF Free

\* The invariant, for every size of page and of head, every set of sizes and
\* every number of pages.
THEOREM PoolInvariant == PoolSpec => []PoolInv
<1>1. PoolInv /\ [PoolNext]_poolVars => PoolInv'
  <2> SUFFICES ASSUME PoolInv, [PoolNext]_poolVars PROVE PoolInv'
    OBVIOUS
  <2>1. CASE \E size \in AllocSizes : Alloc(size)
    BY <2>1, AllocKeeps
  <2>2. CASE \E b \in live : Free(b)
    BY <2>2, FreeStepKeeps
  <2>3. CASE UNCHANGED poolVars
    BY <2>3 DEF poolVars, PoolInv, ChainsInv, UseInv, BlocksInv, CountInv, HeldBy,
                EndOf, Apart
  <2> QED
    BY <2>1, <2>2, <2>3 DEF PoolNext
<1> QED
  BY <1>1, PoolInitInv, PTL DEF PoolSpec

\* Every variable of a pool keeps its type (hg_pool.h:8-22).
THEOREM PoolTypes == PoolSpec => []PoolTypeOK
<1>1. PoolInv => PoolTypeOK
  <2> SUFFICES ASSUME PoolInv PROVE PoolTypeOK
    OBVIOUS
  <2>1. ChainsInv /\ BlocksInv /\ CountInv
    BY DEF PoolInv
  <2>2. \A p \in Pages : s[p] \in 0 .. tLen
    BY <2>1, HeldFinite DEF CountInv
  <2>3. s \in [Pages -> 0 .. tLen]
    BY <2>1, <2>2 DEF CountInv
  <2>4. mallocs \in 0 .. MaxPages /\ pages \in Seq(Pages) /\ freepages \in Seq(Pages)
    BY <2>1 DEF ChainsInv, Chains
  <2> QED
    BY <2>1, <2>3, <2>4 DEF BlocksInv, PoolTypeOK
<1> QED
  BY <1>1, PoolInvariant, PTL

\* No byte is held by two callers (hg_pool.c:110-165).
THEOREM PoolBlocksApart == PoolSpec => []BlocksApart
<1>1. PoolInv => BlocksApart
  BY DEF PoolInv, BlocksInv, BlocksApart, Apart, EndOf
<1> QED
  BY <1>1, PoolInvariant, PTL

\* A page is in one chain, once, and is free exactly when nothing of it is held
\* (hg_pool.c:28-108, 149-165).
THEOREM PoolPagesOnce == PoolSpec => []PagesOnce
<1>1. PoolInv => PagesOnce
  <2> SUFFICES ASSUME PoolInv, NEW p \in 1 .. mallocs
               PROVE  /\ Cardinality({i \in DOMAIN pages : pages[i] = p})
                           + Cardinality({i \in DOMAIN freepages : freepages[i] = p}) = 1
                      /\ Contains(freepages, p) <=> \A b \in live : b.page # p
    BY DEF PagesOnce
  <2> DEFINE U == {i \in DOMAIN pages : pages[i] = p}
             F == {i \in DOMAIN freepages : freepages[i] = p}
  <2>1. ChainsInv /\ UseInv
    BY DEF PoolInv
  <2>2. DOMAIN pages = 1 .. Len(pages) /\ DOMAIN freepages = 1 .. Len(freepages)
    BY <2>1 DEF ChainsInv
  <2>3. Cardinality({}) = 0 /\ \A x : Cardinality({x}) = 1
    BY FS_EmptySet, FS_Singleton
  <2>4. CASE \E i \in 1 .. Len(pages) : pages[i] = p
    <3>1. PICK i \in 1 .. Len(pages) : pages[i] = p
      BY <2>4
    <3>2. U = {i}
      BY <2>1, <2>2, <3>1 DEF ChainsInv, Chains
    <3>3. \A j \in 1 .. Len(freepages) : freepages[j] # p
      BY <2>1, <3>1 DEF ChainsInv, Chains
    <3>4. F = {}
      BY <2>2, <3>3
    <3>5. ~ Contains(freepages, p)
      BY <3>3 DEF Contains
    <3>6. ~ \A b \in live : b.page # p
      BY <2>1, <3>1 DEF UseInv
    <3> HIDE DEF U, F
    <3>7. Cardinality(U) = 1 /\ Cardinality(F) = 0
      BY <2>3, <3>2, <3>4
    <3>8. Cardinality(U) + Cardinality(F) = 1
      BY <3>7
    <3> QED
      BY <3>5, <3>6, <3>8 DEF U, F
  <2>5. CASE ~ \E i \in 1 .. Len(pages) : pages[i] = p
    <3>1. PICK j \in 1 .. Len(freepages) : freepages[j] = p
      BY <2>1, <2>5 DEF ChainsInv, Chains
    <3>2. F = {j}
      BY <2>1, <2>2, <3>1 DEF ChainsInv, Chains
    <3>4. U = {}
      BY <2>2, <2>5
    <3>5. Contains(freepages, p)
      BY <3>1 DEF Contains
    <3>6. \A b \in live : b.page # p
      BY <2>1, <2>5 DEF UseInv
    <3> HIDE DEF U, F
    <3>7. Cardinality(U) = 0 /\ Cardinality(F) = 1
      BY <2>3, <3>2, <3>4
    <3>8. Cardinality(U) + Cardinality(F) = 1
      BY <3>7
    <3> QED
      BY <3>5, <3>6, <3>8 DEF U, F
  <2> QED
    BY <2>4, <2>5
<1> QED
  BY <1>1, PoolInvariant, PTL
=============================================================================
