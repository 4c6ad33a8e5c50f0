-------------------------- MODULE ZoneAllocatorProofs --------------------------
(***************************************************************************)
(* The zone allocator, for every heap size, every set of requests and      *)
(* every set of tags.  What holds the heap together is one fact about the  *)
(* list of headers, Chain below, which the two steps every operation is    *)
(* made of - splitting a block and absorbing the next one - preserve.  The *)
(* theorems follow: blocks never overlap, free space is merged, blocks are *)
(* counted, and a search finds a block whenever there is one.              *)
(***************************************************************************)
EXTENDS ZoneAllocator, FiniteSetTheorems, NaturalsInduction, TLAPS

TagValue == Tags \cup {"Free", "Uncategorized"}
Header   == [nSize : Nat, pNext : Int, pPrevious : Int, Tag : TagValue]

Heaped(h)    == DOMAIN h.hdr \ {Main}
Taken(h)     == {b \in Heaped(h) : ~IsFree(h, b)}

(* The headers are where a heap has them. *)
Shaped(h) ==
    /\ h = Heap(h.hdr, h.cur)
    /\ h.hdr \in [DOMAIN h.hdr -> Header]
    /\ IsFiniteSet(DOMAIN h.hdr)
    /\ Main \in DOMAIN h.hdr
    /\ Heaped(h) \subseteq Nat
    /\ h.cur \in DOMAIN h.hdr
    /\ ~IsFree(h, Main)

(* Next and previous are inverse to each other. *)
Linked(h) ==
    \A a \in DOMAIN h.hdr :
        /\ h.hdr[a].pNext \in DOMAIN h.hdr
        /\ h.hdr[a].pPrevious \in DOMAIN h.hdr
        /\ h.hdr[h.hdr[a].pNext].pPrevious = a
        /\ h.hdr[h.hdr[a].pPrevious].pNext = a

(* The next block is the one at the next higher address: m_MainBlock, whose  *)
(* address is taken to be below all the others, is followed by the first.    *)
Ordered(h) ==
    /\ \A a \in DOMAIN h.hdr : h.hdr[a].pNext # Main => a < h.hdr[a].pNext
    /\ \A a \in DOMAIN h.hdr, b \in Heaped(h) :
          a < b => h.hdr[a].pNext # Main /\ h.hdr[a].pNext <= b

(* A block ends before the next one begins, and inside the heap. *)
Apart(h) ==
    \A a \in Heaped(h) :
        /\ h.hdr[a].nSize >= 1
        /\ a + h.hdr[a].nSize <= HeapSize
        /\ h.hdr[a].pNext # Main => a + h.hdr[a].nSize <= h.hdr[a].pNext

Chain(h) == Shaped(h) /\ Linked(h) /\ Ordered(h) /\ Apart(h)

(* No two free blocks follow each other. *)
Merged(h) ==
    \A b \in Heaped(h) : IsFree(h, b) => ~IsFree(h, h.hdr[b].pNext)

(* The inductive invariant.  The behaviour is over once a header has been    *)
(* written over another block's memory, hence Intact.                        *)
ZoneIInv ==
    Intact => /\ Chain(TheHeap)
              /\ Merged(TheHeap)
              /\ m_nAllocCount = Cardinality(Taken(TheHeap))

--------------------------------------------------------------------------------
(* Induction, with sets in the place of predicates. *)
LEMMA LeastNatural ==
    ASSUME NEW S, S \subseteq Nat, S # {}
    PROVE  \E x \in S : \A y \in S : x <= y
  <1> DEFINE R == OpToRel(<, Nat)
  <1>1. IsWellFoundedOn(R, Nat)
    BY NatLessThanWellFounded
  <1>2. \A x, y \in Nat : x < y => <<x, y>> \in R
    BY DEF OpToRel
  <1> HIDE DEF R
  <1>3. PICK x \in S : \A y \in S : ~(<<y, x>> \in R)
    BY <1>1, WFMin
  <1>4. ASSUME NEW y \in S PROVE x <= y
    <2>1. ~(y < x)
      BY <1>2, <1>3
    <2> QED BY <2>1
  <1> QED BY <1>3, <1>4

LEMMA Induction ==
    ASSUME NEW S, 0 \in S, \A n \in Nat : n \in S => n + 1 \in S
    PROVE  Nat \subseteq S
  <1> SUFFICES ASSUME Nat \ S # {} PROVE FALSE
    OBVIOUS
  <1>1. PICK x \in Nat \ S : \A y \in Nat \ S : x <= y
    BY LeastNatural
  <1>2. x - 1 \in Nat /\ x - 1 \in S
    BY <1>1
  <1> QED BY <1>1, <1>2

--------------------------------------------------------------------------------
(* What a chain says of its addresses, its links and its end. *)
LEMMA ChainFacts ==
    ASSUME NEW h, Chain(h)
    PROVE  /\ DOMAIN h.hdr \subseteq Int /\ Main \in DOMAIN h.hdr /\ Main \notin Heaped(h)
           /\ h.cur \in DOMAIN h.hdr /\ ~IsFree(h, Main)
           /\ Heaped(h) \subseteq Nat /\ Heaped(h) \subseteq DOMAIN h.hdr
           /\ \A a \in DOMAIN h.hdr : a \in Heaped(h) \/ a = Main
           /\ \A a \in DOMAIN h.hdr : /\ h.hdr[a].nSize \in Nat
                                      /\ h.hdr[a].Tag \in TagValue
                                      /\ h.hdr[a].pNext \in DOMAIN h.hdr
                                      /\ h.hdr[a].pPrevious \in DOMAIN h.hdr
                                      /\ h.hdr[a].pNext # Main => a < h.hdr[a].pNext
           /\ \A a \in Heaped(h) : h.hdr[a].pNext # a
  <1>1. DOMAIN h.hdr \subseteq Int /\ Heaped(h) \subseteq Nat
    BY DEF Chain, Shaped, Heaped, Main
  <1>2. \A a \in DOMAIN h.hdr : h.hdr[a] \in Header
    BY DEF Chain, Shaped
  <1>3. \A a \in DOMAIN h.hdr : /\ h.hdr[a].nSize \in Nat
                                /\ h.hdr[a].Tag \in TagValue
    BY <1>2 DEF Header
  <1>4. \A a \in DOMAIN h.hdr : /\ h.hdr[a].pNext \in DOMAIN h.hdr
                                /\ h.hdr[a].pPrevious \in DOMAIN h.hdr
                                /\ h.hdr[a].pNext # Main => a < h.hdr[a].pNext
    BY DEF Chain, Linked, Ordered
  <1>5. ASSUME NEW a \in Heaped(h), h.hdr[a].pNext = a
        PROVE  FALSE
    <2>1. a \in Nat /\ a \in DOMAIN h.hdr /\ a # Main
      BY <1>1 DEF Heaped
    <2>2. a < a
      BY <1>4, <1>5, <2>1
    <2> QED BY <2>1, <2>2
  <1> QED BY <1>1, <1>3, <1>4, <1>5 DEF Chain, Shaped, Heaped

(* Absorbing the next block. *)
Absorbed(h, p, b, g) ==
    /\ DOMAIN g.hdr = DOMAIN h.hdr \ {b}
    /\ g.cur = IF h.cur = b THEN p ELSE h.cur
    /\ \A a \in DOMAIN g.hdr :
          /\ g.hdr[a].nSize = IF a = p THEN h.hdr[p].nSize + h.hdr[b].nSize ELSE h.hdr[a].nSize
          /\ g.hdr[a].pNext = IF a = p THEN h.hdr[b].pNext ELSE h.hdr[a].pNext
          /\ g.hdr[a].pPrevious = IF a = h.hdr[b].pNext THEN p ELSE h.hdr[a].pPrevious
          /\ g.hdr[a].Tag = h.hdr[a].Tag

LEMMA AbsorbFields ==
    ASSUME NEW h, Chain(h), NEW p \in Heaped(h), NEW b \in Heaped(h), h.hdr[p].pNext = b
    PROVE  LET g == Absorb(h, p, b) IN
           /\ g = Heap(g.hdr, g.cur)
           /\ g.hdr \in [DOMAIN g.hdr -> Header]
           /\ Absorbed(h, p, b, g)
  <1> DEFINE D == DOMAIN h.hdr
             n == h.hdr[b].pNext
             left == [a \in D \ {b} |-> h.hdr[a]]
             one  == [left EXCEPT ![p].nSize = @ + h.hdr[b].nSize]
             two  == [one EXCEPT ![p].pNext = n]
             all  == [two EXCEPT ![n].pPrevious = p]
  <1>1. /\ h.hdr \in [D -> Header] /\ p \in D /\ b \in D /\ p # b /\ n \in D /\ n # b
        /\ p \in Nat /\ n \in Int
    <2>1. p \in DOMAIN h.hdr /\ b \in DOMAIN h.hdr /\ p \in Nat /\ p # b
      BY ChainFacts
    <2>2. n \in DOMAIN h.hdr /\ n # b /\ n \in Int
      BY ChainFacts, <2>1
    <2> QED BY <2>1, <2>2 DEF Chain, Shaped
  <1>2. left \in [D \ {b} -> Header] /\ \A a \in D \ {b} : left[a] = h.hdr[a]
    BY <1>1
  <1> HIDE DEF left, n, D
  <1>3. /\ one \in [D \ {b} -> Header]
        /\ \A a \in D \ {b} :
             /\ one[a].nSize = IF a = p THEN left[p].nSize + h.hdr[b].nSize ELSE left[a].nSize
             /\ one[a].pNext = left[a].pNext
             /\ one[a].pPrevious = left[a].pPrevious
             /\ one[a].Tag = left[a].Tag
    BY <1>1, <1>2 DEF Header
  <1> HIDE DEF one
  <1>4. /\ two \in [D \ {b} -> Header]
        /\ \A a \in D \ {b} :
             /\ two[a].nSize = one[a].nSize
             /\ two[a].pNext = IF a = p THEN n ELSE one[a].pNext
             /\ two[a].pPrevious = one[a].pPrevious
             /\ two[a].Tag = one[a].Tag
    BY <1>1, <1>3 DEF Header
  <1> HIDE DEF two
  <1>5. /\ all \in [D \ {b} -> Header]
        /\ \A a \in D \ {b} :
             /\ all[a].nSize = two[a].nSize
             /\ all[a].pNext = two[a].pNext
             /\ all[a].pPrevious = IF a = n THEN p ELSE two[a].pPrevious
             /\ all[a].Tag = two[a].Tag
    BY <1>1, <1>4 DEF Header
  <1>6. Absorb(h, p, b) = Heap(all, IF h.cur = b THEN p ELSE h.cur)
    BY DEF Absorb, all, two, one, left, n, D
  <1> HIDE DEF all
  <1>7. /\ Absorb(h, p, b).hdr = all /\ DOMAIN all = D \ {b}
        /\ Absorb(h, p, b).cur = IF h.cur = b THEN p ELSE h.cur
        /\ Absorb(h, p, b) = Heap(Absorb(h, p, b).hdr, Absorb(h, p, b).cur)
    BY <1>5, <1>6 DEF Heap
  <1> QED BY <1>1, <1>2, <1>3, <1>4, <1>5, <1>7 DEF Absorbed, n, D

LEMMA AbsorbKeepsChain ==
    ASSUME NEW h, Chain(h), NEW p \in Heaped(h), NEW b \in Heaped(h), h.hdr[p].pNext = b
    PROVE  Chain(Absorb(h, p, b)) /\ Absorbed(h, p, b, Absorb(h, p, b))
  <1> DEFINE g == Absorb(h, p, b)
             n == h.hdr[b].pNext
  <1>1. /\ g = Heap(g.hdr, g.cur) /\ g.hdr \in [DOMAIN g.hdr -> Header]
        /\ Absorbed(h, p, b, g)
    BY AbsorbFields
  <1> HIDE DEF g
  <1>2. /\ DOMAIN g.hdr = DOMAIN h.hdr \ {b} /\ Heaped(g) = Heaped(h) \ {b}
        /\ p \in Heaped(g) /\ p # b
    BY <1>1, ChainFacts DEF Absorbed, Heaped
  <1>3. Shaped(g)
    <2>1. IsFiniteSet(DOMAIN g.hdr)
      BY <1>2, FS_RemoveElement DEF Chain, Shaped
    <2>2. Main \in DOMAIN g.hdr /\ Heaped(g) \subseteq Nat
      BY <1>2, ChainFacts
    <2>3. g.cur \in DOMAIN g.hdr
      BY <1>1, <1>2, ChainFacts DEF Absorbed, Heaped
    <2>4. ~IsFree(g, Main)
      <3>1. g.hdr[Main].Tag = h.hdr[Main].Tag
        BY <1>1, <2>2 DEF Absorbed
      <3>2. ~IsFree(h, Main)
        BY ChainFacts
      <3> QED BY <3>1, <3>2 DEF IsFree
    <2> QED BY <1>1, <2>1, <2>2, <2>3, <2>4 DEF Shaped
  <1>4. Linked(g)
    <2>1. n \in DOMAIN g.hdr /\ n # b /\ h.hdr[n].pPrevious = b /\ h.hdr[b].pPrevious = p
          /\ p \in DOMAIN g.hdr /\ b \in DOMAIN h.hdr
      BY <1>2, ChainFacts DEF Chain, Linked
    <2>2. ASSUME NEW a \in DOMAIN g.hdr
          PROVE  g.hdr[a].pNext \in DOMAIN g.hdr /\ g.hdr[g.hdr[a].pNext].pPrevious = a
      <3>1. CASE a = p
        BY <1>1, <2>1, <3>1 DEF Absorbed
      <3>2. CASE a # p
        <4>1. h.hdr[a].pNext # b /\ h.hdr[a].pNext # n /\ h.hdr[a].pNext \in DOMAIN h.hdr
              /\ h.hdr[h.hdr[a].pNext].pPrevious = a
          BY <1>2, <2>1, <3>2 DEF Chain, Linked
        <4>2. g.hdr[a].pNext = h.hdr[a].pNext
          BY <1>1, <3>2 DEF Absorbed
        <4> QED BY <1>1, <1>2, <4>1, <4>2 DEF Absorbed
      <3> QED BY <3>1, <3>2
    <2>3. ASSUME NEW a \in DOMAIN g.hdr
          PROVE  g.hdr[a].pPrevious \in DOMAIN g.hdr /\ g.hdr[g.hdr[a].pPrevious].pNext = a
      <3>1. CASE a = n
        BY <1>1, <2>1, <3>1 DEF Absorbed
      <3>2. CASE a # n
        <4>1. h.hdr[a].pPrevious # b /\ h.hdr[a].pPrevious # p
              /\ h.hdr[a].pPrevious \in DOMAIN h.hdr /\ h.hdr[h.hdr[a].pPrevious].pNext = a
          BY <1>2, <2>1, <3>2 DEF Chain, Linked
        <4>2. g.hdr[a].pPrevious = h.hdr[a].pPrevious
          BY <1>1, <3>2 DEF Absorbed
        <4> QED BY <1>1, <1>2, <4>1, <4>2 DEF Absorbed
      <3> QED BY <3>1, <3>2
    <2> QED BY <2>2, <2>3 DEF Linked
  <1>5. Ordered(g)
    <2>1. p < b /\ (n # Main => b < n) /\ p \in Nat /\ b \in Nat /\ n \in Int
      BY ChainFacts
    <2>2. ASSUME NEW a \in DOMAIN g.hdr, g.hdr[a].pNext # Main
          PROVE  a < g.hdr[a].pNext
      <3>1. CASE a = p
        BY <1>1, <2>1, <2>2, <3>1 DEF Absorbed
      <3>2. CASE a # p
        BY <1>1, <1>2, <2>2, <3>2, ChainFacts DEF Absorbed
      <3> QED BY <3>1, <3>2
    <2>3. ASSUME NEW a \in DOMAIN g.hdr, NEW c \in Heaped(g), a < c
          PROVE  g.hdr[a].pNext # Main /\ g.hdr[a].pNext <= c
      <3>1. c \in Heaped(h) /\ c # b /\ c \in Nat /\ a \in DOMAIN h.hdr
        BY <1>2, ChainFacts
      <3>2. CASE a = p
        <4>1. b <= c
          BY <2>3, <3>1, <3>2 DEF Chain, Ordered
        <4>2. b < c /\ b \in DOMAIN h.hdr
          <5>1. b \in DOMAIN h.hdr
            BY DEF Heaped
          <5>2. b < c
            BY <2>1, <3>1, <4>1
          <5> QED BY <5>1, <5>2
        <4>3. n # Main /\ n <= c
          BY <3>1, <4>2 DEF Chain, Ordered
        <4> QED BY <1>1, <3>2, <4>3 DEF Absorbed
      <3>3. CASE a # p
        BY <1>1, <2>3, <3>1, <3>3 DEF Absorbed, Chain, Ordered
      <3> QED BY <3>2, <3>3
    <2> QED BY <2>2, <2>3 DEF Ordered
  <1>6. Apart(g)
    <2>1. ASSUME NEW a \in Heaped(g)
          PROVE  /\ g.hdr[a].nSize >= 1
                 /\ a + g.hdr[a].nSize <= HeapSize
                 /\ g.hdr[a].pNext # Main => a + g.hdr[a].nSize <= g.hdr[a].pNext
      <3>1. a \in Heaped(h) /\ a \in DOMAIN g.hdr
        BY <1>2 DEF Heaped
      <3>2. CASE a = p
        <4> DEFINE sp == h.hdr[p].nSize
                   sb == h.hdr[b].nSize
        <4>1. g.hdr[a].nSize = sp + sb /\ g.hdr[a].pNext = n
          BY <1>1, <3>1, <3>2 DEF Absorbed
        <4>2. /\ sp \in Nat /\ sb \in Nat /\ n \in Int /\ p \in Nat /\ b \in Nat /\ b # Main
          BY ChainFacts
        <4>3. /\ sp >= 1 /\ sb >= 1 /\ p + sp <= b /\ b + sb <= HeapSize
              /\ n # Main => b + sb <= n
          BY <4>2 DEF Chain, Apart
        <4> HIDE DEF sp, sb, n
        <4> QED BY <3>2, <4>1, <4>2, <4>3, ZoneAssumption
      <3>3. CASE a # p
        <4>1. g.hdr[a].nSize = h.hdr[a].nSize /\ g.hdr[a].pNext = h.hdr[a].pNext
          BY <1>1, <3>1, <3>3 DEF Absorbed
        <4> QED BY <3>1, <4>1 DEF Chain, Apart
      <3> QED BY <3>2, <3>3
    <2> QED BY <2>1 DEF Apart
  <1> QED BY <1>1, <1>3, <1>4, <1>5, <1>6 DEF Chain, g

--------------------------------------------------------------------------------
(* Splitting a block. *)
SplitUp(h, b, n, g) ==
    /\ b + n \notin DOMAIN h.hdr /\ b + n \in Nat
    /\ DOMAIN g.hdr = DOMAIN h.hdr \cup {b + n}
    /\ g.cur = IF h.cur = h.hdr[b].pNext THEN b + n ELSE h.cur
    /\ g.hdr[b + n].nSize = h.hdr[b].nSize - n
    /\ g.hdr[b + n].pNext = h.hdr[b].pNext
    /\ g.hdr[b + n].pPrevious = b
    /\ g.hdr[b + n].Tag = "Free"
    /\ \A a \in DOMAIN h.hdr :
          /\ g.hdr[a].nSize = IF a = b THEN n ELSE h.hdr[a].nSize
          /\ g.hdr[a].pNext = IF a = b THEN b + n ELSE h.hdr[a].pNext
          /\ g.hdr[a].pPrevious = IF a = h.hdr[b].pNext THEN b + n ELSE h.hdr[a].pPrevious
          /\ g.hdr[a].Tag = h.hdr[a].Tag

(* The rest of a block begins where no block does. *)
LEMMA RestIsNew ==
    ASSUME NEW h, Chain(h), NEW b \in Heaped(h), NEW n \in Nat, 1 <= n, n < h.hdr[b].nSize
    PROVE  /\ b + n \notin DOMAIN h.hdr /\ b + n \in Nat
           /\ h.hdr[b].pNext # Main => b + n < h.hdr[b].pNext
           /\ b + n + (h.hdr[b].nSize - n) = b + h.hdr[b].nSize
  <1>1. b \in Nat /\ b \in DOMAIN h.hdr /\ h.hdr[b].nSize \in Nat /\ h.hdr[b].pNext \in Int
    BY ChainFacts
  <1>2. h.hdr[b].pNext # Main => b + h.hdr[b].nSize <= h.hdr[b].pNext
    BY DEF Chain, Apart
  <1>3. ASSUME b + n \in DOMAIN h.hdr
        PROVE  FALSE
    <2>1. b + n \in Heaped(h)
      BY <1>1, <1>3 DEF Heaped, Main
    <2>2. h.hdr[b].pNext # Main /\ h.hdr[b].pNext <= b + n
      BY <1>1, <2>1 DEF Chain, Ordered
    <2> QED BY <1>1, <1>2, <2>2
  <1> QED BY <1>1, <1>2, <1>3

LEMMA SplitFields ==
    ASSUME NEW h, Chain(h), NEW b \in Heaped(h), NEW n \in Nat, 1 <= n, n < h.hdr[b].nSize
    PROVE  LET g == Split(h, b, n) IN
           /\ g = Heap(g.hdr, g.cur)
           /\ g.hdr \in [DOMAIN g.hdr -> Header]
           /\ SplitUp(h, b, n, g)
  <1> DEFINE D    == DOMAIN h.hdr
             rest == b + n
             next == h.hdr[b].pNext
             new  == [nSize |-> h.hdr[b].nSize - n, pNext |-> next, pPrevious |-> b, Tag |-> "Free"]
             both == [a \in D \cup {rest} |-> IF a = rest THEN new ELSE h.hdr[a]]
             one  == [both EXCEPT ![next].pPrevious = rest]
             two  == [one EXCEPT ![b].pNext = rest]
             all  == [two EXCEPT ![b].nSize = n]
  <1>1. /\ h.hdr \in [D -> Header] /\ b \in D /\ b \in Nat /\ next \in D /\ next \in Int /\ next # b
        /\ rest \in Nat /\ rest \notin D /\ h.hdr[b].nSize - n \in Nat
    <2>1. /\ b \in D /\ b \in Nat /\ next \in D /\ next # b /\ h.hdr[b].nSize \in Nat
      BY ChainFacts
    <2>2. next \in Int
      BY <2>1, ChainFacts
    <2>3. rest \in Nat /\ rest \notin D
      BY RestIsNew
    <2>4. h.hdr[b].nSize - n \in Nat
      BY <2>1
    <2> QED BY <2>1, <2>2, <2>3, <2>4 DEF Chain, Shaped
  <1>2. new \in Header
    BY <1>1 DEF Header, TagValue
  <1>3. both \in [D \cup {rest} -> Header] /\ both[rest] = new
        /\ \A a \in D : both[a] = h.hdr[a]
    <2> HIDE DEF new, rest
    <2> QED BY <1>1, <1>2
  <1>4. /\ new.nSize = h.hdr[b].nSize - n /\ new.pNext = next /\ new.pPrevious = b
        /\ new.Tag = "Free"
    OBVIOUS
  <1> HIDE DEF both, new, rest, next, D
  <1>5. /\ one \in [D \cup {rest} -> Header]
        /\ \A a \in D \cup {rest} :
             /\ one[a].nSize = both[a].nSize
             /\ one[a].pNext = both[a].pNext
             /\ one[a].pPrevious = IF a = next THEN rest ELSE both[a].pPrevious
             /\ one[a].Tag = both[a].Tag
    BY <1>1, <1>3 DEF Header
  <1> HIDE DEF one
  <1>6. /\ two \in [D \cup {rest} -> Header]
        /\ \A a \in D \cup {rest} :
             /\ two[a].nSize = one[a].nSize
             /\ two[a].pNext = IF a = b THEN rest ELSE one[a].pNext
             /\ two[a].pPrevious = one[a].pPrevious
             /\ two[a].Tag = one[a].Tag
    BY <1>1, <1>5 DEF Header
  <1> HIDE DEF two
  <1>7. /\ all \in [D \cup {rest} -> Header]
        /\ \A a \in D \cup {rest} :
             /\ all[a].nSize = IF a = b THEN n ELSE two[a].nSize
             /\ all[a].pNext = two[a].pNext
             /\ all[a].pPrevious = two[a].pPrevious
             /\ all[a].Tag = two[a].Tag
    BY <1>1, <1>6 DEF Header
  <1>8. Split(h, b, n) = Heap(all, IF h.cur = next THEN rest ELSE h.cur)
    BY DEF Split, all, two, one, both, new, rest, next, D
  <1> HIDE DEF all
  <1>9. /\ Split(h, b, n).hdr = all /\ DOMAIN all = D \cup {rest}
        /\ Split(h, b, n).cur = IF h.cur = next THEN rest ELSE h.cur
        /\ Split(h, b, n) = Heap(Split(h, b, n).hdr, Split(h, b, n).cur)
    BY <1>7, <1>8 DEF Heap
  <1>10. /\ all[rest].nSize = h.hdr[b].nSize - n /\ all[rest].pNext = next
         /\ all[rest].pPrevious = b /\ all[rest].Tag = "Free"
    BY <1>1, <1>3, <1>4, <1>5, <1>6, <1>7
  <1>11. \A a \in D :
           /\ all[a].nSize = IF a = b THEN n ELSE h.hdr[a].nSize
           /\ all[a].pNext = IF a = b THEN rest ELSE h.hdr[a].pNext
           /\ all[a].pPrevious = IF a = next THEN rest ELSE h.hdr[a].pPrevious
           /\ all[a].Tag = h.hdr[a].Tag
    BY <1>1, <1>3, <1>5, <1>6, <1>7
  <1> QED BY <1>1, <1>7, <1>9, <1>10, <1>11 DEF SplitUp, next, rest, D

LEMMA SplitKeepsChain ==
    ASSUME NEW h, Chain(h), NEW b \in Heaped(h), NEW n \in Nat, 1 <= n, n < h.hdr[b].nSize
    PROVE  Chain(Split(h, b, n)) /\ SplitUp(h, b, n, Split(h, b, n))
  <1> DEFINE g == Split(h, b, n)
             r == b + n
             x == h.hdr[b].pNext
             s == h.hdr[b].nSize
  <1>1. g = Heap(g.hdr, g.cur) /\ g.hdr \in [DOMAIN g.hdr -> Header] /\ SplitUp(h, b, n, g)
    BY SplitFields
  <1> HIDE DEF g
  <1>2. /\ r \in Nat /\ r \notin DOMAIN h.hdr /\ r # Main /\ b < r /\ b \in Nat
        /\ b \in DOMAIN h.hdr /\ x \in DOMAIN h.hdr /\ x \in Int /\ (x # Main => r < x)
        /\ x # b /\ b # Main /\ s \in Nat /\ r + (s - n) = b + s
    <2>1. b \in Nat /\ b \in DOMAIN h.hdr /\ x \in DOMAIN h.hdr /\ b # Main /\ x # b /\ s \in Nat
      BY ChainFacts
    <2>2. x \in Int
      BY <2>1, ChainFacts
    <2>3. r \in Nat /\ r \notin DOMAIN h.hdr /\ (x # Main => r < x) /\ r + (s - n) = b + s
      BY RestIsNew
    <2>4. r # Main /\ b < r
      BY <2>1, <2>3 DEF Main
    <2> QED BY <2>1, <2>2, <2>3, <2>4
  <1>3. /\ DOMAIN g.hdr = DOMAIN h.hdr \cup {r} /\ Heaped(g) = Heaped(h) \cup {r}
        /\ g.cur = IF h.cur = x THEN r ELSE h.cur
        /\ g.hdr[r].nSize = s - n /\ g.hdr[r].pNext = x /\ g.hdr[r].pPrevious = b
        /\ g.hdr[r].Tag = "Free"
    BY <1>1, <1>2 DEF SplitUp, Heaped
  <1>4. \A a \in DOMAIN h.hdr :
          /\ g.hdr[a].nSize = IF a = b THEN n ELSE h.hdr[a].nSize
          /\ g.hdr[a].pNext = IF a = b THEN r ELSE h.hdr[a].pNext
          /\ g.hdr[a].pPrevious = IF a = x THEN r ELSE h.hdr[a].pPrevious
          /\ g.hdr[a].Tag = h.hdr[a].Tag
    BY <1>1 DEF SplitUp
  <1> HIDE DEF r, x, s
  <1>5. Shaped(g)
    <2>1. IsFiniteSet(DOMAIN g.hdr)
      BY <1>3, FS_AddElement DEF Chain, Shaped
    <2>2. Main \in DOMAIN g.hdr /\ Heaped(g) \subseteq Nat /\ g.cur \in DOMAIN g.hdr
      BY <1>2, <1>3, ChainFacts
    <2>3. ~IsFree(g, Main)
      <3>1. g.hdr[Main].Tag = h.hdr[Main].Tag /\ ~IsFree(h, Main)
        BY <1>4, ChainFacts
      <3> QED BY <3>1 DEF IsFree
    <2> QED BY <1>1, <2>1, <2>2, <2>3 DEF Shaped
  <1>6. h.hdr[b].pNext = x /\ h.hdr[x].pPrevious = b
    BY <1>2 DEF Chain, Linked, x
  <1>7. Linked(g)
    <2>1. ASSUME NEW a \in DOMAIN g.hdr
          PROVE  g.hdr[a].pNext \in DOMAIN g.hdr /\ g.hdr[g.hdr[a].pNext].pPrevious = a
      <3>1. CASE a = r
        BY <1>2, <1>3, <1>4, <3>1
      <3>2. CASE a = b
        BY <1>2, <1>3, <1>4, <3>2
      <3>3. CASE a # r /\ a # b
        <4>1. /\ a \in DOMAIN h.hdr /\ h.hdr[a].pNext \in DOMAIN h.hdr
              /\ h.hdr[a].pNext # x /\ h.hdr[h.hdr[a].pNext].pPrevious = a
          BY <1>3, <1>6, <3>3 DEF Chain, Linked
        <4> QED BY <1>3, <1>4, <3>3, <4>1
      <3> QED BY <3>1, <3>2, <3>3
    <2>2. ASSUME NEW a \in DOMAIN g.hdr
          PROVE  g.hdr[a].pPrevious \in DOMAIN g.hdr /\ g.hdr[g.hdr[a].pPrevious].pNext = a
      <3>1. CASE a = r
        BY <1>2, <1>3, <1>4, <3>1
      <3>2. CASE a = x
        BY <1>2, <1>3, <1>4, <3>2
      <3>3. CASE a # r /\ a # x
        <4>1. /\ a \in DOMAIN h.hdr /\ h.hdr[a].pPrevious \in DOMAIN h.hdr
              /\ h.hdr[a].pPrevious # b /\ h.hdr[h.hdr[a].pPrevious].pNext = a
          BY <1>3, <1>6, <3>3 DEF Chain, Linked
        <4> QED BY <1>3, <1>4, <3>3, <4>1
      <3> QED BY <3>1, <3>2, <3>3
    <2> QED BY <2>1, <2>2 DEF Linked
  <1>8. Ordered(g)
    <2>1. ASSUME NEW a \in DOMAIN g.hdr, g.hdr[a].pNext # Main
          PROVE  a < g.hdr[a].pNext
      <3>1. CASE a = r
        BY <1>2, <1>3, <2>1, <3>1
      <3>2. CASE a = b
        BY <1>2, <1>4, <3>2
      <3>3. CASE a # r /\ a # b
        <4>1. a \in DOMAIN h.hdr
          BY <1>3, <3>3
        <4>2. g.hdr[a].pNext = h.hdr[a].pNext
          BY <1>4, <3>3, <4>1
        <4> QED BY <2>1, <4>1, <4>2 DEF Chain, Ordered
      <3> QED BY <3>1, <3>2, <3>3
    <2>2. ASSUME NEW a \in DOMAIN g.hdr, NEW c \in Heaped(g), a < c
          PROVE  g.hdr[a].pNext # Main /\ g.hdr[a].pNext <= c
      <3>1. \A d \in Heaped(h) : b < d => x # Main /\ x <= d
        BY <1>2, <1>6 DEF Chain, Ordered
      <3>2. CASE a = r
        <4>1. c \in Heaped(h) /\ c \in Nat
          BY <1>2, <1>3, <2>2, <3>2, ChainFacts
        <4>2. b < c
          BY <1>2, <2>2, <3>2, <4>1
        <4> QED BY <1>3, <3>1, <3>2, <4>1, <4>2
      <3>3. CASE a = b /\ c = r
        BY <1>2, <1>4, <3>3
      <3>4. CASE a = b /\ c # r
        <4>1. c \in Heaped(h) /\ c \in Nat
          BY <1>3, <3>4, ChainFacts
        <4>2. x # Main /\ x <= c
          BY <2>2, <3>1, <3>4, <4>1
        <4> QED BY <1>2, <1>4, <3>4, <4>1, <4>2
      <3>5. CASE a # r /\ a # b
        <4>1. a \in DOMAIN h.hdr /\ a \in Int /\ g.hdr[a].pNext = h.hdr[a].pNext
          <5>1. a \in DOMAIN h.hdr
            BY <1>3, <3>5
          <5> QED BY <5>1, <1>4, <3>5, ChainFacts
        <4>2. CASE c = r
          <5>1. a < b
            <6> SUFFICES ASSUME ~(a < b) PROVE FALSE
              OBVIOUS
            <6>1. b < a /\ a \in Heaped(h)
              <7>1. a \in Int /\ b \in Nat /\ a # b /\ ~(a < b)
                BY <1>2, <3>5, <4>1
              <7>2. b < a /\ a # Main
                BY <7>1 DEF Main
              <7> QED BY <4>1, <7>2 DEF Heaped
            <6>2. x # Main /\ x <= a
              BY <3>1, <6>1
            <6> QED BY <1>2, <2>2, <4>1, <4>2, <6>2
          <5>2. h.hdr[a].pNext # Main /\ h.hdr[a].pNext <= b
            BY <4>1, <5>1 DEF Chain, Ordered
          <5>3. h.hdr[a].pNext \in Int
            BY <4>1, ChainFacts
          <5> QED BY <1>2, <4>1, <4>2, <5>2, <5>3
        <4>3. CASE c # r
          <5>1. c \in Heaped(h)
            BY <1>3, <4>3
          <5> QED BY <2>2, <4>1, <5>1 DEF Chain, Ordered
        <4> QED BY <4>2, <4>3
      <3> QED BY <3>2, <3>3, <3>4, <3>5
    <2> QED BY <2>1, <2>2 DEF Ordered
  <1>9. Apart(g)
    <2>1. ASSUME NEW a \in Heaped(g)
          PROVE  /\ g.hdr[a].nSize >= 1
                 /\ a + g.hdr[a].nSize <= HeapSize
                 /\ g.hdr[a].pNext # Main => a + g.hdr[a].nSize <= g.hdr[a].pNext
      <3>1. /\ b + s <= HeapSize /\ (x # Main => b + s <= x)
        BY <1>6 DEF Chain, Apart, s
      <3>2. n < s
        BY DEF s
      <3>3. r = b + n
        BY DEF r
      <3>4. CASE a = r
        BY <1>2, <1>3, <3>1, <3>2, <3>4
      <3>5. CASE a = b
        BY <1>2, <1>4, <3>1, <3>2, <3>3, <3>5, ZoneAssumption
      <3>6. CASE a # r /\ a # b
        <4>1. a \in Heaped(h) /\ a \in DOMAIN h.hdr
          BY <1>3, <3>6, ChainFacts
        <4> QED BY <1>4, <3>6, <4>1 DEF Chain, Apart
      <3> QED BY <3>4, <3>5, <3>6
    <2> QED BY <2>1 DEF Apart
  <1> QED BY <1>1, <1>5, <1>7, <1>8, <1>9 DEF Chain, g

--------------------------------------------------------------------------------
(* Tagging a block. *)
Tagged(h, b, t, g) ==
    /\ DOMAIN g.hdr = DOMAIN h.hdr
    /\ g.cur = h.cur
    /\ \A a \in DOMAIN h.hdr :
          /\ g.hdr[a].nSize = h.hdr[a].nSize
          /\ g.hdr[a].pNext = h.hdr[a].pNext
          /\ g.hdr[a].pPrevious = h.hdr[a].pPrevious
          /\ g.hdr[a].Tag = IF a = b THEN t ELSE h.hdr[a].Tag

LEMMA SetTagKeepsChain ==
    ASSUME NEW h, Chain(h), NEW b \in Heaped(h), NEW t \in TagValue
    PROVE  Chain(SetTag(h, b, t)) /\ Tagged(h, b, t, SetTag(h, b, t))
  <1> DEFINE D   == DOMAIN h.hdr
             H   == h.hdr
             all == [H EXCEPT ![b].Tag = t]
             g   == SetTag(h, b, t)
  <1>1. h = Heap(H, h.cur) /\ H \in [D -> Header] /\ b \in D /\ b # Main
    BY ChainFacts DEF Chain, Shaped
  <1>2. g = Heap(all, h.cur)
    <2> HIDE DEF all
    <2>1. h = [hdr |-> H, cur |-> h.cur]
      BY <1>1 DEF Heap
    <2> USE DEF all
    <2>2. g = [h EXCEPT !.hdr[b].Tag = t]
      BY DEF SetTag
    <2> QED BY <2>1, <2>2 DEF Heap
  <1> HIDE DEF H, D
  <1>3. /\ all \in [D -> Header]
        /\ \A a \in D :
             /\ all[a].nSize = H[a].nSize
             /\ all[a].pNext = H[a].pNext
             /\ all[a].pPrevious = H[a].pPrevious
             /\ all[a].Tag = IF a = b THEN t ELSE H[a].Tag
    BY <1>1 DEF Header
  <1> HIDE DEF all, g
  <1>4. g.hdr = all /\ g.cur = h.cur /\ g = Heap(g.hdr, g.cur) /\ DOMAIN g.hdr = D
    BY <1>2, <1>3 DEF Heap
  <1>5. Tagged(h, b, t, g)
    BY <1>3, <1>4 DEF Tagged, D, H
  <1>6. Heaped(g) = Heaped(h) /\ DOMAIN g.hdr = DOMAIN h.hdr
    BY <1>4 DEF Heaped, D
  <1>7. Shaped(g)
    <2>1. ~IsFree(g, Main)
      <3>1. g.hdr[Main].Tag = h.hdr[Main].Tag /\ ~IsFree(h, Main)
        BY <1>1, <1>5, ChainFacts DEF Tagged
      <3> QED BY <3>1 DEF IsFree
    <2>2. g.hdr \in [DOMAIN g.hdr -> Header]
      BY <1>3, <1>4
    <2> QED BY <1>4, <1>6, <2>1, <2>2 DEF Chain, Shaped
  <1>8. Linked(g)
    <2>1. ASSUME NEW a \in DOMAIN h.hdr
          PROVE  /\ g.hdr[a].pNext = h.hdr[a].pNext /\ g.hdr[a].pPrevious = h.hdr[a].pPrevious
                 /\ g.hdr[a].pNext \in DOMAIN h.hdr /\ g.hdr[a].pPrevious \in DOMAIN h.hdr
                 /\ g.hdr[h.hdr[a].pNext].pPrevious = a /\ g.hdr[h.hdr[a].pPrevious].pNext = a
      BY <1>5 DEF Tagged, Chain, Linked
    <2> QED BY <1>6, <2>1 DEF Linked
  <1>9. Ordered(g)
    BY <1>5, <1>6 DEF Chain, Ordered, Tagged
  <1>10. Apart(g)
    BY <1>5, <1>6, ChainFacts DEF Chain, Apart, Tagged
  <1> QED BY <1>5, <1>7, <1>8, <1>9, <1>10 DEF Chain, g

(* Cutting off what is too small to be a block. *)
Resized(h, b, n) == [h EXCEPT !.hdr[b].nSize = n]

LEMMA ResizeKeepsChain ==
    ASSUME NEW h, Chain(h), NEW b \in Heaped(h), NEW n \in Nat, 1 <= n, n <= h.hdr[b].nSize
    PROVE  LET g == Resized(h, b, n) IN
           /\ Chain(g)
           /\ DOMAIN g.hdr = DOMAIN h.hdr
           /\ \A a \in DOMAIN h.hdr : /\ g.hdr[a].pNext = h.hdr[a].pNext
                                      /\ g.hdr[a].Tag = h.hdr[a].Tag
  <1> DEFINE D   == DOMAIN h.hdr
             H   == h.hdr
             all == [H EXCEPT ![b].nSize = n]
             g   == Resized(h, b, n)
  <1>1. h = Heap(H, h.cur) /\ H \in [D -> Header] /\ b \in D /\ b # Main
    BY ChainFacts DEF Chain, Shaped
  <1>2. g = Heap(all, h.cur)
    <2> HIDE DEF all
    <2>1. h = [hdr |-> H, cur |-> h.cur]
      BY <1>1 DEF Heap
    <2> USE DEF all
    <2>2. g = [h EXCEPT !.hdr[b].nSize = n]
      BY DEF Resized
    <2> QED BY <2>1, <2>2 DEF Heap
  <1> HIDE DEF H, D
  <1>3. /\ all \in [D -> Header]
        /\ \A a \in D :
             /\ all[a].nSize = IF a = b THEN n ELSE H[a].nSize
             /\ all[a].pNext = H[a].pNext
             /\ all[a].pPrevious = H[a].pPrevious
             /\ all[a].Tag = H[a].Tag
    BY <1>1 DEF Header
  <1> HIDE DEF all, g
  <1>4. g.hdr = all /\ g.cur = h.cur /\ g = Heap(g.hdr, g.cur) /\ DOMAIN g.hdr = D
    BY <1>2, <1>3 DEF Heap
  <1>5. /\ Heaped(g) = Heaped(h) /\ DOMAIN g.hdr = DOMAIN h.hdr
        /\ \A a \in DOMAIN h.hdr :
             /\ g.hdr[a].nSize = IF a = b THEN n ELSE h.hdr[a].nSize
             /\ g.hdr[a].pNext = h.hdr[a].pNext
             /\ g.hdr[a].pPrevious = h.hdr[a].pPrevious
             /\ g.hdr[a].Tag = h.hdr[a].Tag
    BY <1>3, <1>4 DEF Heaped, D, H
  <1>6. Shaped(g)
    <2>1. ~IsFree(g, Main)
      <3>1. g.hdr[Main].Tag = h.hdr[Main].Tag /\ ~IsFree(h, Main)
        BY <1>5, ChainFacts
      <3> QED BY <3>1 DEF IsFree
    <2>2. g.hdr \in [DOMAIN g.hdr -> Header]
      BY <1>3, <1>4
    <2> QED BY <1>4, <1>5, <2>1, <2>2 DEF Chain, Shaped
  <1>7. Linked(g)
    <2>1. ASSUME NEW a \in DOMAIN h.hdr
          PROVE  /\ g.hdr[a].pNext = h.hdr[a].pNext /\ g.hdr[a].pPrevious = h.hdr[a].pPrevious
                 /\ g.hdr[a].pNext \in DOMAIN h.hdr /\ g.hdr[a].pPrevious \in DOMAIN h.hdr
                 /\ g.hdr[h.hdr[a].pNext].pPrevious = a /\ g.hdr[h.hdr[a].pPrevious].pNext = a
      BY <1>5 DEF Chain, Linked
    <2> QED BY <1>5, <2>1 DEF Linked
  <1>8. Ordered(g)
    BY <1>5 DEF Chain, Ordered
  <1>9. Apart(g)
    <2>1. ASSUME NEW a \in Heaped(g)
          PROVE  /\ g.hdr[a].nSize >= 1
                 /\ a + g.hdr[a].nSize <= HeapSize
                 /\ g.hdr[a].pNext # Main => a + g.hdr[a].nSize <= g.hdr[a].pNext
      <3>1. /\ a \in Heaped(h) /\ a \in Nat /\ a \in DOMAIN h.hdr /\ h.hdr[a].nSize \in Nat
            /\ h.hdr[a].pNext \in Int
        BY <1>5, ChainFacts
      <3>2. g.hdr[a].pNext = h.hdr[a].pNext /\ g.hdr[a].nSize \in Nat
            /\ g.hdr[a].nSize >= 1 /\ g.hdr[a].nSize <= h.hdr[a].nSize
        BY <1>5, <3>1 DEF Chain, Apart
      <3>3. /\ a + h.hdr[a].nSize <= HeapSize
            /\ h.hdr[a].pNext # Main => a + h.hdr[a].nSize <= h.hdr[a].pNext
        BY <3>1 DEF Chain, Apart
      <3> QED BY <3>1, <3>2, <3>3, ZoneAssumption
    <2> QED BY <2>1 DEF Apart
  <1> QED BY <1>5, <1>6, <1>7, <1>8, <1>9 DEF Chain, g

(* Where the next search starts does not matter to the rest. *)
LEMMA RefocusKeepsChain ==
    ASSUME NEW h, Chain(h), NEW c \in DOMAIN h.hdr
    PROVE  LET g == Heap(h.hdr, c) IN
           Chain(g) /\ g.hdr = h.hdr /\ g.cur = c
  <1> DEFINE g == Heap(h.hdr, c)
  <1>1. g.hdr = h.hdr /\ g.cur = c
    BY DEF Heap
  <1>2. g = Heap(g.hdr, g.cur)
    BY <1>1
  <1> HIDE DEF g
  <1>3. Chain(g)
    <2>1. Heaped(g) = Heaped(h) /\ (IsFree(g, Main) <=> IsFree(h, Main))
      BY <1>1 DEF Heaped, IsFree
    <2>2. Shaped(g)
      BY <1>1, <1>2, <2>1 DEF Chain, Shaped
    <2>3. Linked(g)
      BY <1>1 DEF Chain, Linked
    <2>4. Ordered(g)
      BY <1>1, <2>1 DEF Chain, Ordered
    <2>5. Apart(g)
      BY <1>1, <2>1 DEF Chain, Apart
    <2> QED BY <2>2, <2>3, <2>4, <2>5 DEF Chain
  <1> QED BY <1>1, <1>3 DEF g

--------------------------------------------------------------------------------
(* What the steps do to free space.  Free blocks may follow each other at s   *)
(* only. *)
MergedBut(h, s) ==
    \A b \in Heaped(h) \ {s} : IsFree(h, b) => ~IsFree(h, h.hdr[b].pNext)

(* A free block that is absorbed leaves the blocks in use as they are, and    *)
(* what absorbs it is followed by a block in use.                             *)
LEMMA AbsorbFree ==
    ASSUME NEW h, Chain(h), NEW p \in Heaped(h), NEW b \in Heaped(h), h.hdr[p].pNext = b,
           IsFree(h, b), MergedBut(h, p)
    PROVE  LET g == Absorb(h, p, b) IN
           /\ Chain(g) /\ Merged(g) /\ Taken(g) = Taken(h)
           /\ Absorbed(h, p, b, g) /\ ~IsFree(g, g.hdr[p].pNext)
  <1> DEFINE g == Absorb(h, p, b)
             n == h.hdr[b].pNext
  <1>1. Chain(g) /\ Absorbed(h, p, b, g)
    BY AbsorbKeepsChain
  <1> HIDE DEF g
  <1>2. /\ DOMAIN g.hdr = DOMAIN h.hdr \ {b} /\ Heaped(g) = Heaped(h) \ {b}
        /\ \A a \in DOMAIN g.hdr :
             /\ IsFree(g, a) <=> IsFree(h, a)
             /\ g.hdr[a].pNext = IF a = p THEN n ELSE h.hdr[a].pNext
    BY <1>1 DEF Absorbed, Heaped, IsFree
  <1>3. p # b /\ p \in DOMAIN g.hdr /\ n \in DOMAIN g.hdr /\ h.hdr[b].pPrevious = p
    <2>1. p \in DOMAIN h.hdr /\ b \in DOMAIN h.hdr /\ p # b /\ n # b /\ n \in DOMAIN h.hdr
      BY ChainFacts
    <2> QED BY <1>2, <2>1 DEF Chain, Linked
  <1>4. ~IsFree(g, n)
    BY <1>2, <1>3 DEF MergedBut
  <1>5. Merged(g)
    <2> SUFFICES ASSUME NEW a \in Heaped(g), IsFree(g, a)
                 PROVE  ~IsFree(g, g.hdr[a].pNext)
      BY DEF Merged
    <2>1. CASE a = p
      BY <1>2, <1>3, <1>4, <2>1
    <2>2. CASE a # p
      <3>1. a \in Heaped(h) /\ a \in DOMAIN g.hdr /\ IsFree(h, a)
        BY <1>2 DEF Heaped
      <3>2. g.hdr[a].pNext = h.hdr[a].pNext /\ h.hdr[a].pNext \in DOMAIN h.hdr
            /\ h.hdr[a].pNext # b
        BY <1>2, <1>3, <2>2, <3>1 DEF Chain, Linked
      <3>3. ~IsFree(h, h.hdr[a].pNext)
        BY <2>2, <3>1 DEF MergedBut
      <3> QED BY <1>2, <3>2, <3>3
    <2> QED BY <2>1, <2>2
  <1>6. Taken(g) = Taken(h)
    BY <1>2 DEF Taken, Heaped
  <1>7. ~IsFree(g, g.hdr[p].pNext)
    BY <1>2, <1>3, <1>4
  <1> QED BY <1>1, <1>5, <1>6, <1>7 DEF g

(* A block in use that is split leaves a free block, which may have a free    *)
(* one behind it.                                                             *)
LEMMA SplitTaken ==
    ASSUME NEW h, Chain(h), Merged(h), NEW b \in Taken(h),
           NEW n \in Nat, 1 <= n, n < h.hdr[b].nSize
    PROVE  LET g == Split(h, b, n) IN
           /\ Chain(g) /\ MergedBut(g, b + n) /\ Taken(g) = Taken(h)
           /\ b + n \in Heaped(g) /\ g.hdr[b + n].pNext = h.hdr[b].pNext
           /\ SplitUp(h, b, n, g)
           /\ IsFree(g, h.hdr[b].pNext) <=> IsFree(h, h.hdr[b].pNext)
           /\ ~IsFree(h, h.hdr[b].pNext) => Merged(g)
  <1> DEFINE g == Split(h, b, n)
             r == b + n
             x == h.hdr[b].pNext
  <1>0. b \in Heaped(h) /\ ~IsFree(h, b)
    BY DEF Taken
  <1>1. Chain(g) /\ SplitUp(h, b, n, g)
    BY <1>0, SplitKeepsChain
  <1> HIDE DEF g
  <1>2. /\ r \notin DOMAIN h.hdr /\ DOMAIN g.hdr = DOMAIN h.hdr \cup {r} /\ r # Main
        /\ Heaped(g) = Heaped(h) \cup {r}
        /\ g.hdr[r].pNext = x /\ IsFree(g, r)
        /\ \A a \in DOMAIN h.hdr :
             /\ g.hdr[a].pNext = IF a = b THEN r ELSE h.hdr[a].pNext
             /\ IsFree(g, a) <=> IsFree(h, a)
    BY <1>1 DEF SplitUp, Heaped, IsFree, Main
  <1>3. x \in DOMAIN h.hdr /\ b \in DOMAIN h.hdr
    BY <1>0, ChainFacts
  <1> HIDE DEF r
  <1>4. ASSUME NEW a \in Heaped(g) \ {r}, IsFree(g, a)
        PROVE  ~IsFree(g, g.hdr[a].pNext)
    <2>1. a \in Heaped(h) /\ a \in DOMAIN h.hdr
      BY <1>2 DEF Heaped
    <2>2. IsFree(h, a) /\ a # b
      BY <1>0, <1>2, <1>4, <2>1
    <2>3. ~IsFree(h, h.hdr[a].pNext) /\ h.hdr[a].pNext \in DOMAIN h.hdr
      BY <2>1, <2>2, ChainFacts DEF Merged
    <2> QED BY <1>2, <2>1, <2>2, <2>3
  <1>5. MergedBut(g, r)
    BY <1>4 DEF MergedBut
  <1>6. Taken(g) = Taken(h)
    BY <1>2 DEF Taken, Heaped
  <1>7. IsFree(g, x) <=> IsFree(h, x)
    BY <1>2, <1>3
  <1>8. ~IsFree(h, x) => Merged(g)
    BY <1>2, <1>4, <1>7 DEF Merged
  <1> QED BY <1>1, <1>2, <1>5, <1>6, <1>7, <1>8 DEF g, r

(* A block in use may be given another tag. *)
LEMMA RetagTaken ==
    ASSUME NEW h, Chain(h), Merged(h), NEW b \in Taken(h), NEW t \in Tags
    PROVE  LET g == SetTag(h, b, t) IN
           Chain(g) /\ Merged(g) /\ Taken(g) = Taken(h) /\ Tagged(h, b, t, g)
  <1> DEFINE g == SetTag(h, b, t)
  <1>1. b \in Heaped(h) /\ ~IsFree(h, b) /\ t \in TagValue /\ t # "Free"
    BY ZoneAssumption DEF Taken, TagValue
  <1>2. Chain(g) /\ Tagged(h, b, t, g)
    BY <1>1, SetTagKeepsChain
  <1> HIDE DEF g
  <1>3. /\ Heaped(g) = Heaped(h)
        /\ \A a \in DOMAIN h.hdr : /\ IsFree(g, a) <=> IsFree(h, a)
                                   /\ g.hdr[a].pNext = h.hdr[a].pNext
    BY <1>1, <1>2 DEF Tagged, Heaped, IsFree
  <1>4. Taken(g) = Taken(h)
    BY <1>3 DEF Taken, Heaped
  <1>5. Merged(g)
    BY <1>3, ChainFacts DEF Merged
  <1> QED BY <1>2, <1>4, <1>5 DEF g

--------------------------------------------------------------------------------
(* The operations.  Alloc turns a free block into one in use. *)
LEMMA TakeKeeps ==
    ASSUME NEW h, Chain(h), Merged(h), NEW b \in Heaped(h), IsFree(h, b),
           NEW n \in Nat, 1 <= n, n <= h.hdr[b].nSize, NEW t \in Tags
    PROVE  LET g == Take(h, b, n, t) IN
           Chain(g) /\ Merged(g) /\ Taken(g) = Taken(h) \cup {b}
  <1> DEFINE cut  == IF h.hdr[b].nSize - n > MinFragmentSize THEN Split(h, b, n) ELSE h
             tagd == SetTag(cut, b, t)
             g    == Take(h, b, n, t)
  <1>1. t \in TagValue /\ t # "Free" /\ b \in DOMAIN h.hdr
    BY ZoneAssumption, ChainFacts DEF TagValue
  <1>2. /\ Chain(cut) /\ b \in Heaped(cut)
        /\ \A a \in Heaped(cut) \ {b} : IsFree(cut, a) => ~IsFree(cut, cut.hdr[a].pNext)
                                                        \/ cut.hdr[a].pNext = b
        /\ \A a \in Heaped(cut) : ~IsFree(cut, a) => a \in Heaped(h) /\ ~IsFree(h, a)
        /\ \A a \in Heaped(h) : a \in Heaped(cut) /\ (IsFree(cut, a) <=> IsFree(h, a))
    <2>1. CASE h.hdr[b].nSize - n > MinFragmentSize
      <3> DEFINE s == Split(h, b, n)
                 r == b + n
      <3>1. n < h.hdr[b].nSize
        <4>1. h.hdr[b].nSize \in Nat
          BY <1>1, ChainFacts
        <4> QED BY <2>1, <4>1 DEF MinFragmentSize
      <3>2. Chain(s) /\ SplitUp(h, b, n, s)
        BY <3>1, SplitKeepsChain
      <3> HIDE DEF s
      <3>3. /\ r \notin DOMAIN h.hdr /\ DOMAIN s.hdr = DOMAIN h.hdr \cup {r} /\ r # Main
            /\ Heaped(s) = Heaped(h) \cup {r}
            /\ s.hdr[r].pNext = h.hdr[b].pNext /\ IsFree(s, r)
            /\ \A a \in DOMAIN h.hdr :
                 /\ a # b => s.hdr[a].pNext = h.hdr[a].pNext
                 /\ IsFree(s, a) <=> IsFree(h, a)
        BY <3>2 DEF SplitUp, Heaped, IsFree, Main
      <3> HIDE DEF r
      <3>4. ASSUME NEW a \in Heaped(s) \ {b}, IsFree(s, a)
            PROVE  ~IsFree(s, s.hdr[a].pNext)
        <4>1. CASE a = r
          <5>1. h.hdr[b].pNext \in DOMAIN h.hdr /\ ~IsFree(h, h.hdr[b].pNext)
            BY ChainFacts DEF Merged
          <5> QED BY <3>3, <4>1, <5>1
        <4>2. CASE a # r
          <5>1. a \in Heaped(h) /\ a \in DOMAIN h.hdr
            BY <3>3, <4>2 DEF Heaped
          <5>2. h.hdr[a].pNext \in DOMAIN h.hdr /\ ~IsFree(h, h.hdr[a].pNext)
            BY <3>3, <3>4, <5>1, ChainFacts DEF Merged
          <5> QED BY <3>3, <5>1, <5>2
        <4> QED BY <4>1, <4>2
      <3>5. \A a \in Heaped(h) : a \in DOMAIN h.hdr
        BY DEF Heaped
      <3>6. cut = s
        BY <2>1 DEF s
      <3> HIDE DEF cut
      <3> QED BY <3>2, <3>3, <3>4, <3>5, <3>6
    <2>2. CASE ~(h.hdr[b].nSize - n > MinFragmentSize)
      <3>1. cut = h
        BY <2>2
      <3> HIDE DEF cut
      <3> QED BY <3>1 DEF Merged
    <2> QED BY <2>1, <2>2
  <1> HIDE DEF cut
  <1>3. Chain(tagd) /\ Tagged(cut, b, t, tagd)
    BY <1>1, <1>2, SetTagKeepsChain
  <1>4. g = Heap(tagd.hdr, cut.hdr[b].pNext)
    BY DEF Take, cut
  <1> HIDE DEF tagd, g
  <1>5. cut.hdr[b].pNext \in DOMAIN tagd.hdr
    BY <1>2, <1>3, ChainFacts DEF Tagged
  <1>6. Chain(g) /\ g.hdr = tagd.hdr
    BY <1>3, <1>4, <1>5, RefocusKeepsChain
  <1>7. /\ Heaped(g) = Heaped(cut) /\ DOMAIN g.hdr = DOMAIN cut.hdr
        /\ \A a \in DOMAIN g.hdr : /\ IsFree(g, a) <=> a # b /\ IsFree(cut, a)
                                   /\ g.hdr[a].pNext = cut.hdr[a].pNext
    BY <1>1, <1>3, <1>6 DEF Tagged, Heaped, IsFree
  <1>8. Merged(g)
    <2> SUFFICES ASSUME NEW a \in Heaped(g), IsFree(g, a)
                 PROVE  ~IsFree(g, g.hdr[a].pNext)
      BY DEF Merged
    <2>1. a \in DOMAIN g.hdr /\ a # b /\ IsFree(cut, a) /\ a \in Heaped(cut)
      BY <1>7 DEF Heaped
    <2>2. g.hdr[a].pNext = cut.hdr[a].pNext /\ g.hdr[a].pNext \in DOMAIN g.hdr
      BY <1>6, <1>7, <2>1, ChainFacts
    <2>3. ~IsFree(cut, cut.hdr[a].pNext) \/ cut.hdr[a].pNext = b
      BY <1>2, <2>1
    <2> QED BY <1>7, <2>2, <2>3
  <1>9. Taken(g) = Taken(h) \cup {b}
    BY <1>2, <1>7 DEF Taken, Heaped
  <1> QED BY <1>6, <1>8, <1>9 DEF g

(* Free turns a block in use into a free one, or into part of one. *)
LEMMA FreeBlockKeeps ==
    ASSUME NEW h, Chain(h), Merged(h), NEW b \in Taken(h)
    PROVE  LET g == FreeBlock(h, b) IN
           Chain(g) /\ Merged(g) /\ Taken(g) = Taken(h) \ {b}
  <1> DEFINE p      == h.hdr[b].pPrevious
             freed  == SetTag(h, b, "Free")
             joined == IF IsFree(h, p) THEN Absorb(freed, p, b) ELSE freed
             start  == IF IsFree(h, p) THEN p ELSE b
             n      == joined.hdr[start].pNext
             g      == FreeBlock(h, b)
  <1>1. b \in Heaped(h) /\ ~IsFree(h, b) /\ b \in DOMAIN h.hdr
    BY DEF Taken, Heaped
  <1>2. Chain(freed) /\ Tagged(h, b, "Free", freed)
    BY <1>1, SetTagKeepsChain DEF TagValue
  <1> HIDE DEF freed
  <1>3. /\ DOMAIN freed.hdr = DOMAIN h.hdr /\ Heaped(freed) = Heaped(h)
        /\ \A a \in DOMAIN h.hdr : /\ IsFree(freed, a) <=> a = b \/ IsFree(h, a)
                                   /\ freed.hdr[a].pNext = h.hdr[a].pNext
                                   /\ freed.hdr[a].pPrevious = h.hdr[a].pPrevious
    BY <1>2 DEF Tagged, Heaped, IsFree
  <1>4. p \in DOMAIN h.hdr /\ h.hdr[p].pNext = b /\ freed.hdr[p].pNext = b
        /\ \A a \in DOMAIN h.hdr : h.hdr[a].pNext = b => a = p
    BY <1>1, <1>3 DEF Chain, Linked
  <1> HIDE DEF p
  <1>5. /\ Chain(joined) /\ start \in Heaped(joined) /\ IsFree(joined, start)
        /\ MergedBut(joined, start) /\ Taken(joined) = Taken(h) \ {b}
    <2>1. CASE IsFree(h, p)
      <3> DEFINE j == Absorb(freed, p, b)
      <3>1. p \in Heaped(freed) /\ b \in Heaped(freed) /\ p # b
        <4>1. p # Main
          BY <2>1, ChainFacts
        <4> QED BY <1>1, <1>3, <1>4, <2>1, <4>1 DEF Heaped
      <3>2. Chain(j) /\ Absorbed(freed, p, b, j)
        BY <1>2, <1>4, <3>1, AbsorbKeepsChain
      <3> HIDE DEF j
      <3>3. /\ DOMAIN j.hdr = DOMAIN h.hdr \ {b} /\ Heaped(j) = Heaped(h) \ {b}
            /\ \A a \in DOMAIN j.hdr :
                 /\ IsFree(j, a) <=> IsFree(h, a)
                 /\ a # p => j.hdr[a].pNext = h.hdr[a].pNext
        BY <1>3, <3>2 DEF Absorbed, Heaped, IsFree
      <3>4. MergedBut(j, p)
        <4> SUFFICES ASSUME NEW a \in Heaped(j) \ {p}, IsFree(j, a)
                     PROVE  ~IsFree(j, j.hdr[a].pNext)
          BY DEF MergedBut
        <4>1. a \in Heaped(h) /\ a \in DOMAIN j.hdr /\ IsFree(h, a)
          BY <3>3 DEF Heaped
        <4>2. j.hdr[a].pNext = h.hdr[a].pNext /\ ~IsFree(h, h.hdr[a].pNext)
          BY <3>3, <4>1 DEF Merged
        <4>3. j.hdr[a].pNext \in DOMAIN j.hdr
          BY <3>2, <4>1, ChainFacts
        <4> QED BY <3>3, <4>2, <4>3
      <3>5. Taken(j) = Taken(h) \ {b}
        BY <3>3 DEF Taken, Heaped
      <3>6. IsFree(j, p) /\ p \in Heaped(j)
        BY <1>3, <2>1, <3>1, <3>3 DEF Heaped
      <3>7. joined = j /\ start = p
        BY <2>1 DEF j
      <3> HIDE DEF joined, start
      <3> QED BY <3>2, <3>4, <3>5, <3>6, <3>7
    <2>2. CASE ~IsFree(h, p)
      <3>1. MergedBut(freed, b)
        <4> SUFFICES ASSUME NEW a \in Heaped(freed) \ {b}, IsFree(freed, a)
                     PROVE  ~IsFree(freed, freed.hdr[a].pNext)
          BY DEF MergedBut
        <4>1. a \in Heaped(h) /\ a \in DOMAIN h.hdr /\ IsFree(h, a)
          BY <1>3 DEF Heaped
        <4>2. freed.hdr[a].pNext = h.hdr[a].pNext /\ ~IsFree(h, h.hdr[a].pNext)
              /\ h.hdr[a].pNext \in DOMAIN h.hdr
          BY <1>3, <4>1, ChainFacts DEF Merged
        <4>3. h.hdr[a].pNext # b
          BY <1>4, <2>2, <4>1
        <4> QED BY <1>3, <4>2, <4>3
      <3>2. Taken(freed) = Taken(h) \ {b}
        BY <1>3 DEF Taken, Heaped
      <3>3. joined = freed /\ start = b
        BY <2>2
      <3> HIDE DEF joined, start
      <3> QED BY <1>1, <1>2, <1>3, <3>1, <3>2, <3>3
    <2> QED BY <2>1, <2>2
  <1>6. g = IF IsFree(joined, n) THEN Absorb(joined, start, n) ELSE joined
    BY DEF FreeBlock, joined, start, freed, p, n
  <1> HIDE DEF joined, start, g
  <1>7. CASE IsFree(joined, n)
    <2>1. n \in Heaped(joined)
      BY <1>5, <1>7, ChainFacts
    <2>2. LET a == Absorb(joined, start, n) IN Chain(a) /\ Merged(a) /\ Taken(a) = Taken(joined)
      BY <1>5, <1>7, <2>1, AbsorbFree
    <2> QED BY <1>5, <1>6, <1>7, <2>2 DEF g
  <1>8. CASE ~IsFree(joined, n)
    <2>1. Merged(joined)
      BY <1>5, <1>8 DEF Merged, MergedBut
    <2> QED BY <1>5, <1>6, <1>8, <2>1 DEF g
  <1> QED BY <1>7, <1>8

(* A block that is shrunk stays the only one its place in the list has. *)
LEMMA ShrunkKeeps ==
    ASSUME NEW h, Chain(h), Merged(h), NEW b \in Taken(h),
           NEW n \in Nat, 1 <= n, n < h.hdr[b].nSize, NEW t \in Tags
    PROVE  LET g == Shrunk(h, b, n, t) IN
           Chain(g) /\ Merged(g) /\ Taken(g) = Taken(h)
  <1> DEFINE next == h.hdr[b].pNext
             cut  == Split(h, b, n)
             small == h.hdr[b].nSize - n <= MinFragmentSize
             room == CASE h.hdr[b].nSize - n <= MinFragmentSize -> Resized(h, b, n)
                       [] h.hdr[b].nSize - n > MinFragmentSize /\ IsFree(h, next)
                             -> Absorb(cut, b + n, next)
                       [] h.hdr[b].nSize - n > MinFragmentSize /\ ~IsFree(h, next) -> cut
  <1>1. /\ b \in Heaped(h) /\ b \in DOMAIN h.hdr /\ h.hdr[b].nSize \in Nat
        /\ next \in DOMAIN h.hdr
    BY ChainFacts DEF Taken
  <1>2. /\ Chain(cut) /\ MergedBut(cut, b + n) /\ Taken(cut) = Taken(h)
        /\ b + n \in Heaped(cut) /\ cut.hdr[b + n].pNext = next
        /\ SplitUp(h, b, n, cut)
        /\ IsFree(cut, next) <=> IsFree(h, next)
        /\ ~IsFree(h, next) => Merged(cut)
    BY SplitTaken
  <1> HIDE DEF cut
  <1>3. Chain(room) /\ Merged(room) /\ Taken(room) = Taken(h)
    <2>1. CASE small
      <3> DEFINE g == Resized(h, b, n)
      <3>1. /\ Chain(g) /\ DOMAIN g.hdr = DOMAIN h.hdr
            /\ \A a \in DOMAIN h.hdr : g.hdr[a].pNext = h.hdr[a].pNext /\ g.hdr[a].Tag = h.hdr[a].Tag
        BY <1>1, ResizeKeepsChain
      <3>2. room = g
        BY <1>1, <2>1 DEF MinFragmentSize
      <3> HIDE DEF g, room
      <3>3. /\ Heaped(g) = Heaped(h)
            /\ \A a \in DOMAIN h.hdr : IsFree(g, a) <=> IsFree(h, a)
        BY <3>1 DEF Heaped, IsFree
      <3>4. Taken(g) = Taken(h)
        BY <3>3 DEF Taken, Heaped
      <3>5. Merged(g)
        BY <3>1, <3>3, ChainFacts DEF Merged
      <3> QED BY <3>1, <3>2, <3>4, <3>5
    <2>2. CASE ~small /\ IsFree(h, next)
      <3>1. room = Absorb(cut, b + n, next)
        BY <1>1, <2>2 DEF MinFragmentSize
      <3>2. next \in Heaped(cut)
        <4>1. next # Main /\ next \in DOMAIN cut.hdr
          BY <1>1, <1>2, <2>2, ChainFacts DEF SplitUp
        <4> QED BY <4>1 DEF Heaped
      <3>3. LET g == Absorb(cut, b + n, next) IN Chain(g) /\ Merged(g) /\ Taken(g) = Taken(cut)
        BY <1>2, <2>2, <3>2, AbsorbFree
      <3> HIDE DEF room
      <3> QED BY <1>2, <3>1, <3>3
    <2>3. CASE ~small /\ ~IsFree(h, next)
      <3>1. room = cut
        BY <1>1, <2>3 DEF MinFragmentSize
      <3> HIDE DEF room
      <3> QED BY <1>2, <2>3, <3>1
    <2> QED BY <2>1, <2>2, <2>3
  <1>4. Shrunk(h, b, n, t) = SetTag(room, b, t)
    BY DEF Shrunk, Resized, cut
  <1> HIDE DEF room
  <1> QED BY <1>3, <1>4, RetagTaken

(* Where the rest of a split block begins there is a header, even if nothing *)
(* is left for it.                                                           *)
LEMMA SplitLeavesHeader ==
    ASSUME NEW h, Chain(h), NEW b \in Heaped(h), NEW n \in Nat, 1 <= n
    PROVE  LET g == Split(h, b, n) IN
           /\ g = Heap(g.hdr, g.cur)
           /\ b + n \in DOMAIN g.hdr /\ b + n # b /\ b + n # Main
           /\ g.hdr[b + n].Tag = "Free" /\ g.hdr[b + n].nSize = h.hdr[b].nSize - n
  <1> DEFINE D    == DOMAIN h.hdr
             rest == b + n
             next == h.hdr[b].pNext
             new  == [nSize |-> h.hdr[b].nSize - n, pNext |-> next, pPrevious |-> b, Tag |-> "Free"]
             both == [a \in D \cup {rest} |-> IF a = rest THEN new ELSE h.hdr[a]]
             one  == [both EXCEPT ![next].pPrevious = rest]
             two  == [one EXCEPT ![b].pNext = rest]
             all  == [two EXCEPT ![b].nSize = n]
  <1>1. b \in Nat /\ rest \in Nat /\ rest # b /\ rest # Main
    <2>1. b \in Nat
      BY ChainFacts
    <2> QED BY <2>1 DEF Main
  <1>2. both[rest] = new /\ DOMAIN both = D \cup {rest}
    BY <1>1
  <1>3. new.Tag = "Free" /\ new.nSize = h.hdr[b].nSize - n
    OBVIOUS
  <1> HIDE DEF both, new, next
  <1>4. DOMAIN one = D \cup {rest} /\ one[rest].Tag = "Free" /\ one[rest].nSize = h.hdr[b].nSize - n
    BY <1>2, <1>3
  <1> HIDE DEF one
  <1>5. DOMAIN two = D \cup {rest} /\ two[rest].Tag = "Free" /\ two[rest].nSize = h.hdr[b].nSize - n
    BY <1>1, <1>4
  <1> HIDE DEF two
  <1>6. DOMAIN all = D \cup {rest} /\ all[rest].Tag = "Free" /\ all[rest].nSize = h.hdr[b].nSize - n
    BY <1>1, <1>5
  <1>7. Split(h, b, n) = Heap(all, IF h.cur = next THEN rest ELSE h.cur)
    BY DEF Split, all, two, one, both, new, rest, next, D
  <1> HIDE DEF all
  <1>8. Split(h, b, n).hdr = all /\ Split(h, b, n) = Heap(Split(h, b, n).hdr, Split(h, b, n).cur)
    BY <1>7 DEF Heap
  <1> QED BY <1>1, <1>6, <1>8

(* A block that grows into the free one behind it: if what is left has room   *)
(* for its header, all is well.                                               *)
LEMMA ExpandKeeps ==
    ASSUME NEW h, Chain(h), Merged(h), NEW b \in Taken(h), NEW n \in Nat,
           h.hdr[b].nSize < n, IsFree(h, h.hdr[b].pNext),
           n < h.hdr[b].nSize + h.hdr[h.hdr[b].pNext].nSize, NEW t \in Tags
    PROVE  LET g == Expand(h, b, n, t) IN
           Chain(g) /\ Merged(g) /\ Taken(g) = Taken(h)
  <1> DEFINE next == h.hdr[b].pNext
             big  == Absorb(h, b, next)
             one  == Heap(big.hdr, Main)
             two  == Split(one, b, n)
             tagd == SetTag(two, b, t)
             cur  == IF h.cur = next THEN b + n ELSE h.cur
             g    == Expand(h, b, n, t)
  <1>1. /\ b \in Heaped(h) /\ ~IsFree(h, b) /\ b \in DOMAIN h.hdr /\ h.hdr[b].nSize \in Nat
        /\ next \in Heaped(h) /\ h.hdr[next].nSize \in Nat /\ b # next
    <2>1. b \in Heaped(h) /\ ~IsFree(h, b)
      BY DEF Taken
    <2>2. b \in DOMAIN h.hdr /\ h.hdr[b].nSize \in Nat /\ next \in DOMAIN h.hdr /\ next # b
      BY <2>1, ChainFacts
    <2>3. next # Main /\ h.hdr[next].nSize \in Nat
      BY <2>2, ChainFacts
    <2> QED BY <2>1, <2>2, <2>3 DEF Heaped
  <1>2. MergedBut(h, b)
    BY DEF Merged, MergedBut
  <1>3. /\ Chain(big) /\ Merged(big) /\ Taken(big) = Taken(h)
        /\ Absorbed(h, b, next, big) /\ ~IsFree(big, big.hdr[b].pNext)
    BY <1>1, <1>2, AbsorbFree
  <1>4. one.hdr = big.hdr /\ Chain(one)
    BY <1>3, ChainFacts, RefocusKeepsChain
  <1>5. g = Heap(tagd.hdr, cur)
    BY DEF Expand
  <1> HIDE DEF big, one
  <1>6. /\ Merged(one) /\ Taken(one) = Taken(h) /\ ~IsFree(one, one.hdr[b].pNext)
    BY <1>3, <1>4 DEF Merged, Taken, Heaped, IsFree
  <1>7. one.hdr[b].nSize = h.hdr[b].nSize + h.hdr[next].nSize /\ DOMAIN one.hdr = DOMAIN h.hdr \ {next}
    BY <1>1, <1>3, <1>4 DEF Absorbed
  <1>8. 1 <= n /\ n < one.hdr[b].nSize
    BY <1>1, <1>7
  <1>9. /\ Chain(two) /\ Merged(two) /\ Taken(two) = Taken(h) /\ SplitUp(one, b, n, two)
    BY <1>4, <1>6, <1>8, SplitTaken
  <1> HIDE DEF two
  <1>10. /\ Chain(tagd) /\ Merged(tagd) /\ Taken(tagd) = Taken(h) /\ Tagged(two, b, t, tagd)
    BY <1>9, RetagTaken
  <1> HIDE DEF tagd
  <1>11. cur \in DOMAIN tagd.hdr
    <2>1. DOMAIN tagd.hdr = (DOMAIN h.hdr \ {next}) \cup {b + n}
      BY <1>7, <1>9, <1>10 DEF Tagged, SplitUp
    <2> QED BY <2>1, ChainFacts
  <1> HIDE DEF cur, g
  <1>12. Chain(g) /\ g.hdr = tagd.hdr
    BY <1>5, <1>10, <1>11, RefocusKeepsChain
  <1>13. Merged(g) /\ Taken(g) = Taken(h)
    BY <1>10, <1>12 DEF Merged, Taken, Heaped, IsFree
  <1> QED BY <1>12, <1>13 DEF g

(* If it has none, a header lies in memory that is another block's. *)
LEMMA ExpandBreaks ==
    ASSUME NEW h, Chain(h), Merged(h), NEW b \in Taken(h), NEW n \in Nat,
           h.hdr[b].nSize < n, IsFree(h, h.hdr[b].pNext),
           ~(n < h.hdr[b].nSize + h.hdr[h.hdr[b].pNext].nSize), NEW t \in Tags
    PROVE  LET g == Expand(h, b, n, t) IN
           \E a \in Heaped(g) : IsFree(g, a) /\ g.hdr[a].nSize \in Int /\ g.hdr[a].nSize <= 0
  <1> DEFINE next == h.hdr[b].pNext
             big  == Absorb(h, b, next)
             one  == Heap(big.hdr, Main)
             two  == Split(one, b, n)
             tagd == SetTag(two, b, t)
             g    == Expand(h, b, n, t)
             r    == b + n
  <1>1. /\ b \in Heaped(h) /\ b \in DOMAIN h.hdr /\ h.hdr[b].nSize \in Nat
        /\ next \in Heaped(h) /\ h.hdr[next].nSize \in Nat /\ b # next /\ b # Main
    <2>1. b \in Heaped(h)
      BY DEF Taken
    <2>2. b \in DOMAIN h.hdr /\ h.hdr[b].nSize \in Nat /\ next \in DOMAIN h.hdr /\ next # b /\ b # Main
      BY <2>1, ChainFacts
    <2>3. next # Main /\ h.hdr[next].nSize \in Nat
      BY <2>2, ChainFacts
    <2> QED BY <2>1, <2>2, <2>3 DEF Heaped
  <1>2. Chain(big) /\ Absorbed(h, b, next, big)
    BY <1>1, AbsorbKeepsChain
  <1>3. one.hdr = big.hdr /\ Chain(one)
    BY <1>2, ChainFacts, RefocusKeepsChain
  <1>4. g.hdr = tagd.hdr
    BY DEF Expand, Heap
  <1> HIDE DEF big, one
  <1>5. one.hdr[b].nSize = h.hdr[b].nSize + h.hdr[next].nSize /\ b \in Heaped(one)
    BY <1>1, <1>2, <1>3 DEF Absorbed, Heaped
  <1>6. /\ two = Heap(two.hdr, two.cur)
        /\ r \in DOMAIN two.hdr /\ r # b /\ r # Main
        /\ two.hdr[r].Tag = "Free" /\ two.hdr[r].nSize = one.hdr[b].nSize - n
    BY <1>1, <1>3, <1>5, SplitLeavesHeader
  <1> HIDE DEF two
  <1>7. tagd.hdr = [two.hdr EXCEPT ![b].Tag = t]
    <2>1. two = [hdr |-> two.hdr, cur |-> two.cur]
      BY <1>6 DEF Heap
    <2>2. tagd = [two EXCEPT !.hdr[b].Tag = t]
      BY DEF SetTag
    <2> QED BY <2>1, <2>2
  <1> HIDE DEF tagd, g
  <1>8. r \in DOMAIN g.hdr /\ g.hdr[r] = two.hdr[r]
    BY <1>4, <1>6, <1>7
  <1>9. g.hdr[r].nSize \in Int /\ g.hdr[r].nSize <= 0
    BY <1>1, <1>5, <1>6, <1>8
  <1>10. r \in Heaped(g) /\ IsFree(g, r)
    BY <1>6, <1>8 DEF Heaped, IsFree
  <1> QED BY <1>9, <1>10 DEF g

(* FreeTag frees the blocks it is to free one by one, and no other. *)
LEMMA FreeAllKeeps ==
    ASSUME NEW h, Chain(h), Merged(h), NEW T, T \subseteq Taken(h)
    PROVE  LET g == FreeAll(h, T) IN
           Chain(g) /\ Merged(g) /\ Taken(g) = Taken(h) \ T
  <1> DEFINE Step(f, a) == IF a = 0 THEN h
                           ELSE IF a - 1 \in T THEN FreeBlock(f[a-1], a - 1) ELSE f[a-1]
             Upto == CHOOSE f : f = [a \in 0..HeapSize |-> Step(f, a)]
  <1>1. FreeAll(h, T) = Upto[HeapSize]
    BY DEF FreeAll
  <1>2. ASSUME NEW f, NEW g, NEW a, a = 0 \/ f[a-1] = g[a-1]
        PROVE  Step(f, a) = Step(g, a)
    BY <1>2
  <1>3. /\ \A f : Step(f, 0) = h
        /\ \A f, a : a # 0 /\ a - 1 \in T => Step(f, a) = FreeBlock(f[a-1], a - 1)
        /\ \A f, a : a # 0 /\ ~(a - 1 \in T) => Step(f, a) = f[a-1]
    OBVIOUS
  <1> HIDE DEF Step
  <1>4. \A m \in Nat : \E f : f = [a \in 0..m |-> Step(f, a)]
    <2> DEFINE S == {m \in Nat : \E f : f = [a \in 0..m |-> Step(f, a)]}
    <2>1. 0 \in S
      <3> DEFINE f == [a \in 0..0 |-> h]
      <3>1. \A a \in 0..0 : Step(f, a) = h
        BY <1>3
      <3>2. f = [a \in 0..0 |-> Step(f, a)]
        BY <3>1
      <3> QED BY <3>2
    <2>2. ASSUME NEW m \in Nat, m \in S
          PROVE  m + 1 \in S
      <3>1. PICK f : f = [a \in 0..m |-> Step(f, a)]
        BY <2>2
      <3> DEFINE g == [a \in 0..m+1 |-> IF a <= m THEN f[a] ELSE Step(f, a)]
      <3>2. \A a \in 0..m : g[a] = f[a] /\ f[a] = Step(f, a)
        BY <3>1
      <3>3. ASSUME NEW a \in 0..m+1
            PROVE  g[a] = Step(g, a)
        <4>1. a = 0 \/ f[a-1] = g[a-1]
          BY <3>2
        <4>2. g[a] = Step(f, a)
          <5>1. CASE a \in 0..m
            BY <3>2, <5>1
          <5>2. CASE a = m + 1
            BY <5>2
          <5> QED BY <5>1, <5>2
        <4> HIDE DEF g
        <4> QED BY <1>2, <4>1, <4>2
      <3>4. DOMAIN g = 0..m+1 /\ g = [a \in DOMAIN g |-> g[a]]
        OBVIOUS
      <3> HIDE DEF g
      <3>5. g = [a \in 0..m+1 |-> Step(g, a)]
        BY <3>3, <3>4
      <3>6. \E e : e = [a \in 0..m+1 |-> Step(e, a)]
        BY <3>5
      <3> QED BY <3>6
    <2> HIDE DEF S
    <2>3. Nat \subseteq S
      BY <2>1, <2>2, Induction
    <2> QED BY <2>3 DEF S
  <1>5. Upto = [a \in 0..HeapSize |-> Step(Upto, a)]
    BY <1>4, ZoneAssumption
  <1> HIDE DEF Upto
  <1> DEFINE Below(a) == {b \in T : b < a}
             Done(a)  == /\ Chain(Upto[a]) /\ Merged(Upto[a])
                         /\ Taken(Upto[a]) = Taken(h) \ Below(a)
             S == {a \in Nat : a <= HeapSize => Done(a)}
  <1>6. T \subseteq Nat /\ \A b \in T : b < HeapSize
    <2>1. ASSUME NEW b \in T
          PROVE  b \in Nat /\ b < HeapSize
      <3>1. b \in Heaped(h)
        BY DEF Taken
      <3>2. b \in Nat /\ h.hdr[b].nSize \in Nat
        BY <3>1, ChainFacts
      <3>3. h.hdr[b].nSize >= 1 /\ b + h.hdr[b].nSize <= HeapSize
        BY <3>1 DEF Chain, Apart
      <3> QED BY <3>2, <3>3, ZoneAssumption
    <2> QED BY <2>1
  <1>7. /\ Below(0) = {} /\ Below(HeapSize) = T
        /\ \A a \in T : Below(a + 1) = Below(a) \cup {a}
        /\ \A a \in Nat \ T : Below(a + 1) = Below(a)
    <2>1. \A b \in T : ~(b < 0)
      BY <1>6
    <2>2. \A a \in Nat, b \in T : b < a + 1 <=> b < a \/ b = a
      BY <1>6
    <2>3. Below(0) = {} /\ Below(HeapSize) = T
      BY <1>6, <2>1
    <2>4. ASSUME NEW a \in Nat
          PROVE  Below(a + 1) = {b \in T : b < a \/ b = a}
      BY <2>2
    <2>5. ASSUME NEW a \in T
          PROVE  Below(a + 1) = Below(a) \cup {a}
      <3>1. a \in Nat
        BY <1>6
      <3>2. Below(a + 1) = {b \in T : b < a \/ b = a}
        BY <2>4, <3>1
      <3> QED BY <3>2
    <2>6. ASSUME NEW a \in Nat \ T
          PROVE  Below(a + 1) = Below(a)
      <3>1. Below(a + 1) = {b \in T : b < a \/ b = a}
        BY <2>4
      <3> QED BY <3>1
    <2> QED BY <2>3, <2>5, <2>6
  <1> HIDE DEF Below
  <1>8. 0 \in S
    <2>1. Upto[0] = h
      BY <1>3, <1>5, ZoneAssumption
    <2> QED BY <1>7, <2>1
  <1>9. ASSUME NEW a \in Nat, a \in S
        PROVE  a + 1 \in S
    <2> SUFFICES ASSUME a + 1 <= HeapSize PROVE Done(a + 1)
      OBVIOUS
    <2>1. Done(a)
      BY <1>9, ZoneAssumption
    <2>2. Upto[a + 1] = Step(Upto, a + 1) /\ a + 1 # 0 /\ a + 1 - 1 = a
      BY <1>5, ZoneAssumption
    <2>3. CASE a \in T
      <3>1. Upto[a + 1] = FreeBlock(Upto[a], a)
        BY <1>3, <2>2, <2>3
      <3>2. a \in Taken(Upto[a])
        <4>1. a \notin Below(a)
          BY DEF Below
        <4> QED BY <2>1, <2>3, <4>1
      <3>3. /\ Chain(Upto[a + 1]) /\ Merged(Upto[a + 1])
            /\ Taken(Upto[a + 1]) = Taken(Upto[a]) \ {a}
        BY <2>1, <3>1, <3>2, FreeBlockKeeps
      <3> QED BY <1>7, <2>1, <2>3, <3>3
    <2>4. CASE a \notin T
      <3>1. Upto[a + 1] = Upto[a]
        BY <1>3, <2>2, <2>4
      <3> QED BY <1>7, <2>1, <2>4, <3>1
    <2> QED BY <2>3, <2>4
  <1>10. HeapSize \in S
    <2> HIDE DEF S
    <2>1. Nat \subseteq S
      BY <1>8, <1>9, Induction
    <2> QED BY <2>1, ZoneAssumption
  <1>11. Done(HeapSize)
    BY <1>10, ZoneAssumption
  <1> QED BY <1>1, <1>7, <1>11

--------------------------------------------------------------------------------
(* The search.  Following the list from the current block on visits every    *)
(* header once.                                                              *)
LEMMA RoundFollowsLinks ==
    ASSUME NEW h, Chain(h)
    PROVE  LET w == Round(h)
               K == Cardinality(DOMAIN h.hdr)
           IN  /\ K \in Nat \ {0}
               /\ w \in [1..K -> DOMAIN h.hdr]
               /\ w[1] = h.cur
               /\ \A i \in 2..K : w[i] = h.hdr[w[i-1]].pNext
  <1> DEFINE D == DOMAIN h.hdr
             K == Cardinality(D)
             Step(f, i) == IF i = 1 THEN h.cur ELSE h.hdr[f[i-1]].pNext
             w == CHOOSE f : f = [i \in 1..K |-> Step(f, i)]
  <1>1. Round(h) = w
    BY DEF Round
  <1>2. K \in Nat \ {0}
    <2>1. IsFiniteSet(D) /\ D # {}
      BY ChainFacts DEF Chain, Shaped
    <2> QED BY <2>1, FS_CardinalityType, FS_EmptySet
  <1>3. ASSUME NEW f, NEW g, NEW i, i = 1 \/ f[i-1] = g[i-1]
        PROVE  Step(f, i) = Step(g, i)
    BY <1>3
  <1>4. \A f, i : (i = 1 => Step(f, i) = h.cur) /\ (i # 1 => Step(f, i) = h.hdr[f[i-1]].pNext)
    OBVIOUS
  <1> HIDE DEF Step, K
  <1>5. \A m \in Nat : \E f : f = [i \in 1..m |-> Step(f, i)]
    <2> DEFINE S == {m \in Nat : \E f : f = [i \in 1..m |-> Step(f, i)]}
    <2>1. 0 \in S
      <3> DEFINE f == [i \in 1..0 |-> h]
      <3>1. f = [i \in 1..0 |-> Step(f, i)]
        OBVIOUS
      <3> QED BY <3>1
    <2>2. ASSUME NEW m \in Nat, m \in S
          PROVE  m + 1 \in S
      <3>1. PICK f : f = [i \in 1..m |-> Step(f, i)]
        BY <2>2
      <3> DEFINE g == [i \in 1..m+1 |-> IF i <= m THEN f[i] ELSE Step(f, i)]
      <3>2. \A i \in 1..m : g[i] = f[i] /\ f[i] = Step(f, i)
        BY <3>1
      <3>3. ASSUME NEW i \in 1..m+1
            PROVE  g[i] = Step(g, i)
        <4>1. i = 1 \/ f[i-1] = g[i-1]
          BY <3>2
        <4>2. g[i] = Step(f, i)
          <5>1. CASE i \in 1..m
            BY <3>2, <5>1
          <5>2. CASE i = m + 1
            BY <5>2
          <5> QED BY <5>1, <5>2
        <4> HIDE DEF g
        <4> QED BY <1>3, <4>1, <4>2
      <3>4. DOMAIN g = 1..m+1 /\ g = [i \in DOMAIN g |-> g[i]]
        OBVIOUS
      <3> HIDE DEF g
      <3>5. g = [i \in 1..m+1 |-> Step(g, i)]
        BY <3>3, <3>4
      <3>6. \E e : e = [i \in 1..m+1 |-> Step(e, i)]
        BY <3>5
      <3> QED BY <3>6
    <2> HIDE DEF S
    <2>3. Nat \subseteq S
      BY <2>1, <2>2, Induction
    <2> QED BY <2>3 DEF S
  <1>6. w = [i \in 1..K |-> Step(w, i)]
    BY <1>2, <1>5
  <1> HIDE DEF w
  <1>7. w[1] = h.cur /\ \A i \in 2..K : w[i] = h.hdr[w[i-1]].pNext
    BY <1>2, <1>4, <1>6
  <1>8. \A i \in 1..K : w[i] \in D
    <2> DEFINE S == {i \in Nat : i \in 1..K => w[i] \in D}
    <2>1. 0 \in S
      OBVIOUS
    <2>2. ASSUME NEW i \in Nat, i \in S
          PROVE  i + 1 \in S
      <3> SUFFICES ASSUME i + 1 \in 1..K PROVE w[i + 1] \in D
        OBVIOUS
      <3>1. CASE i = 0
        BY <1>7, <3>1, ChainFacts
      <3>2. CASE i # 0
        <4>1. w[i] \in D /\ w[i + 1] = h.hdr[w[i]].pNext
          BY <1>2, <1>7, <2>2, <3>2
        <4> QED BY <4>1, ChainFacts
      <3> QED BY <3>1, <3>2
    <2> HIDE DEF S
    <2>3. Nat \subseteq S
      BY <2>1, <2>2, Induction
    <2> QED BY <1>2, <2>3 DEF S
  <1>9. w \in [1..K -> D]
    BY <1>6, <1>8
  <1> QED BY <1>1, <1>2, <1>7, <1>9 DEF K

(* Headers that the links do not lead out of are all there are. *)
LEMMA ClosedIsAll ==
    ASSUME NEW h, Chain(h), NEW C, C \subseteq DOMAIN h.hdr, C # {},
           \A a \in C : h.hdr[a].pNext \in C
    PROVE  C = DOMAIN h.hdr
  <1>1. Main \in C
    <2> SUFFICES ASSUME Main \notin C PROVE FALSE
      OBVIOUS
    <2> DEFINE S == {i \in Nat : \E a \in C : i = HeapSize - a}
    <2>1. \A a \in C : a \in Heaped(h) /\ a \in Nat /\ a <= HeapSize
      <3> SUFFICES ASSUME NEW a \in C PROVE a \in Heaped(h) /\ a \in Nat /\ a <= HeapSize
        OBVIOUS
      <3>1. a \in Heaped(h) /\ a \in Nat /\ h.hdr[a].nSize \in Nat
        BY ChainFacts
      <3>2. a + h.hdr[a].nSize <= HeapSize
        BY <3>1 DEF Chain, Apart
      <3> QED BY <3>1, <3>2, ZoneAssumption
    <2>2. \A a \in C : HeapSize - a \in S
      BY <2>1, ZoneAssumption
    <2>3. PICK i \in S : \A j \in S : i <= j
      <3>1. S # {} /\ S \subseteq Nat
        BY <2>2
      <3> HIDE DEF S
      <3> QED BY <3>1, LeastNatural
    <2>4. PICK m \in C : i = HeapSize - m
      BY <2>3
    <2>5. h.hdr[m].pNext \in C /\ m < h.hdr[m].pNext
      BY <2>1, ChainFacts
    <2>6. i <= HeapSize - h.hdr[m].pNext
      BY <2>2, <2>3, <2>5
    <2> QED BY <2>1, <2>4, <2>5, <2>6, ZoneAssumption
  <1>2. ASSUME DOMAIN h.hdr \ C # {}
        PROVE  FALSE
    <2>1. DOMAIN h.hdr \ C \subseteq Nat
      BY <1>1, ChainFacts
    <2>2. PICK b \in DOMAIN h.hdr \ C : \A c \in DOMAIN h.hdr \ C : b <= c
      BY <1>2, <2>1, LeastNatural
    <2> DEFINE p == h.hdr[b].pPrevious
    <2>3. p \in DOMAIN h.hdr /\ h.hdr[p].pNext = b
      BY DEF Chain, Linked
    <2>4. p \notin C
      BY <2>2, <2>3
    <2>5. p \in Nat /\ b \in Nat /\ b <= p /\ b # Main
      BY <1>1, <2>1, <2>2, <2>3, <2>4
    <2>6. p < b
      BY <2>3, <2>5, ChainFacts
    <2> QED BY <2>5, <2>6
  <1> QED BY <1>2

LEMMA RoundVisitsAll ==
    ASSUME NEW h, Chain(h), NEW b \in DOMAIN h.hdr
    PROVE  \E i \in 1..Cardinality(DOMAIN h.hdr) : Round(h)[i] = b
  <1> DEFINE D == DOMAIN h.hdr
             K == Cardinality(D)
             w == Round(h)
             V(i) == {a \in D : \E j \in 1..i : a = w[j]}
  <1>1. /\ K \in Nat \ {0} /\ w \in [1..K -> D]
        /\ w[1] = h.cur /\ \A i \in 2..K : w[i] = h.hdr[w[i-1]].pNext
    BY RoundFollowsLinks
  <1>2. IsFiniteSet(D)
    BY DEF Chain, Shaped
  <1> HIDE DEF K, w
  <1> DEFINE S == {i \in Nat : i \in 1..K => V(i) = D \/ (IsFiniteSet(V(i)) /\ Cardinality(V(i)) = i)}
  <1>3. 0 \in S
    OBVIOUS
  <1>4. ASSUME NEW i \in Nat, i \in S
        PROVE  i + 1 \in S
    <2> SUFFICES ASSUME i + 1 \in 1..K
                 PROVE  V(i + 1) = D \/ (IsFiniteSet(V(i + 1)) /\ Cardinality(V(i + 1)) = i + 1)
      OBVIOUS
    <2> DEFINE x == w[i + 1]
    <2>0. x \in D
      BY <1>1
    <2>1. V(i + 1) = V(i) \cup {x}
      <3>1. \A a \in D : a \in V(i + 1) <=> a \in V(i) \/ a = x
        BY <1>1
      <3> HIDE DEF x
      <3> QED BY <2>0, <3>1
    <2>2. CASE i = 0
      <3>1. V(i) = {}
        BY <2>2
      <3> HIDE DEF V
      <3>2. V(i + 1) = {x}
        BY <2>1, <3>1
      <3>3. IsFiniteSet({x}) /\ Cardinality({x}) = 1
        BY FS_Singleton
      <3> HIDE DEF x
      <3> QED BY <2>2, <3>2, <3>3
    <2>3. CASE i # 0 /\ V(i) = D
      <3> HIDE DEF V, x
      <3> QED BY <2>0, <2>1, <2>3
    <2>4. CASE i # 0 /\ V(i) # D
      <3>1. IsFiniteSet(V(i)) /\ Cardinality(V(i)) = i
        <4>1. i \in 1..K
          BY <1>1, <2>4
        <4> HIDE DEF V
        <4> QED BY <1>4, <2>4, <4>1
      <3>2. w[i] \in V(i) /\ V(i) \subseteq D /\ V(i) # {}
        BY <1>1, <2>4
      <3>3. PICK a \in V(i) : h.hdr[a].pNext \notin V(i)
        <4> HIDE DEF V
        <4> QED BY <2>4, <3>2, ClosedIsAll
      <3>4. PICK j \in 1..i : a = w[j]
        OBVIOUS
      <3>5. ASSUME j < i
            PROVE  FALSE
        <4>1. w[j + 1] = h.hdr[w[j]].pNext /\ j + 1 \in 1..i /\ j + 1 \in 1..K
          BY <1>1, <3>4, <3>5
        <4>2. w[j + 1] \in V(i)
          BY <1>1, <4>1
        <4> QED BY <3>3, <3>4, <4>1, <4>2
      <3>6. x \notin V(i)
        <4>1. j = i
          BY <3>4, <3>5
        <4>2. x = h.hdr[w[i]].pNext
          BY <1>1, <2>4
        <4> QED BY <3>3, <3>4, <4>1, <4>2
      <3> HIDE DEF V, x
      <3> QED BY <2>1, <3>1, <3>6, FS_AddElement
    <2> QED BY <2>2, <2>3, <2>4
  <1>5. K \in S
    <2> HIDE DEF S
    <2>1. Nat \subseteq S
      BY <1>3, <1>4, Induction
    <2> QED BY <1>1, <2>1
  <1>6. V(K) = D
    <2>1. V(K) = D \/ (IsFiniteSet(V(K)) /\ Cardinality(V(K)) = K)
      BY <1>1, <1>5
    <2>2. V(K) \in SUBSET D
      OBVIOUS
    <2> HIDE DEF V
    <2> QED BY <1>2, <2>1, <2>2, FS_Subset DEF K
  <1>7. \E j \in 1..K : b = w[j]
    <2>1. b \in V(K)
      BY <1>6
    <2> QED BY <2>1
  <1> QED BY <1>7 DEF w, K

(* Alloc finds a free block that is large enough, or there is none. *)
LEMMA NextFitFits ==
    ASSUME NEW h, Chain(h), NEW n \in Nat, NextFit(h, n) # NoBlock
    PROVE  NextFit(h, n) \in Heaped(h) /\ FitsIn(h, NextFit(h, n), n)
  <1> DEFINE w    == Round(h)
             Hits == {i \in 1..Len(w) : (i = 1 \/ ~IsFree(h, w[i-1])) /\ FitsIn(h, w[i], n)}
             K    == Cardinality(DOMAIN h.hdr)
  <1>1. K \in Nat /\ w \in [1..K -> DOMAIN h.hdr]
    BY RoundFollowsLinks
  <1>2. NextFit(h, n) = IF Hits = {} THEN NoBlock ELSE w[CHOOSE i \in Hits : \A j \in Hits : i <= j]
    BY DEF NextFit
  <1> HIDE DEF w, K
  <1>3. Len(w) = K
    BY <1>1
  <1>4. Hits # {} /\ Hits \subseteq Nat
    BY <1>1, <1>2, <1>3
  <1>5. PICK i \in Hits : NextFit(h, n) = w[i]
    <2>1. \E i \in Hits : \A j \in Hits : i <= j
      <3> HIDE DEF Hits
      <3> QED BY <1>4, LeastNatural
    <2> HIDE DEF Hits
    <2> QED BY <1>2, <1>4, <2>1
  <1>6. w[i] \in DOMAIN h.hdr /\ FitsIn(h, w[i], n)
    BY <1>1, <1>3
  <1> QED BY <1>5, <1>6, ChainFacts DEF FitsIn

LEMMA NextFitFinds ==
    ASSUME NEW h, Chain(h), Merged(h), NEW n \in Nat, NEW b \in Heaped(h), FitsIn(h, b, n)
    PROVE  NextFit(h, n) # NoBlock
  <1> DEFINE w    == Round(h)
             Hits == {i \in 1..Len(w) : (i = 1 \/ ~IsFree(h, w[i-1])) /\ FitsIn(h, w[i], n)}
             K    == Cardinality(DOMAIN h.hdr)
  <1>1. /\ K \in Nat /\ w \in [1..K -> DOMAIN h.hdr]
        /\ \A i \in 2..K : w[i] = h.hdr[w[i-1]].pNext
    BY RoundFollowsLinks
  <1>2. PICK i \in 1..K : w[i] = b
    <2>1. b \in DOMAIN h.hdr
      BY ChainFacts
    <2> QED BY <2>1, RoundVisitsAll
  <1>3. NextFit(h, n) = IF Hits = {} THEN NoBlock ELSE w[CHOOSE k \in Hits : \A j \in Hits : k <= j]
    BY DEF NextFit
  <1> HIDE DEF w, K
  <1>4. Len(w) = K
    BY <1>1
  <1>5. i = 1 \/ ~IsFree(h, w[i-1])
    <2> SUFFICES ASSUME i # 1, IsFree(h, w[i-1]) PROVE FALSE
      OBVIOUS
    <2>1. w[i-1] \in DOMAIN h.hdr /\ w[i] = h.hdr[w[i-1]].pNext
      BY <1>1
    <2>2. w[i-1] \in Heaped(h)
      BY <2>1, ChainFacts
    <2>3. ~IsFree(h, b)
      BY <1>2, <2>1, <2>2 DEF Merged
    <2> QED BY <2>3 DEF FitsIn
  <1>6. i \in Hits
    BY <1>2, <1>4, <1>5
  <1>7. \E j \in Hits : \A k \in Hits : j <= k
    <2>1. Hits \subseteq Nat /\ Hits # {}
      BY <1>1, <1>4, <1>6
    <2> HIDE DEF Hits
    <2> QED BY <2>1, LeastNatural
  <1>8. \A j \in Hits : w[j] \in DOMAIN h.hdr
    BY <1>1, <1>4
  <1>9. NextFit(h, n) \in DOMAIN h.hdr
    <2> HIDE DEF Hits
    <2> QED BY <1>3, <1>6, <1>7, <1>8
  <1>10. NextFit(h, n) \in Nat \/ NextFit(h, n) = Main
    BY <1>9, ChainFacts
  <1> QED BY <1>10 DEF NoBlock, Main

--------------------------------------------------------------------------------
(* The inductive invariant. *)
LEMMA FreshHeap ==
    ASSUME NEW h, HeapSize >= 2,
           h = Heap([a \in {Main, 0} |->
                       IF a = Main
                       THEN [nSize |-> 0, pNext |-> 0, pPrevious |-> 0, Tag |-> "Uncategorized"]
                       ELSE [nSize |-> HeapSize, pNext |-> Main, pPrevious |-> Main, Tag |-> "Free"]],
                    0)
    PROVE  Chain(h) /\ Merged(h) /\ Taken(h) = {}
  <1>1. Main # 0 /\ Main \in Int /\ HeapSize \in Nat
    BY ZoneAssumption DEF Main
  <1>2. /\ h = Heap(h.hdr, h.cur) /\ h.cur = 0
        /\ h.hdr = [a \in {Main, 0} |->
                       IF a = Main
                       THEN [nSize |-> 0, pNext |-> 0, pPrevious |-> 0, Tag |-> "Uncategorized"]
                       ELSE [nSize |-> HeapSize, pNext |-> Main, pPrevious |-> Main, Tag |-> "Free"]]
    BY DEF Heap
  <1>3. /\ DOMAIN h.hdr = {Main, 0} /\ Heaped(h) = {0}
        /\ h.hdr[Main] = [nSize |-> 0, pNext |-> 0, pPrevious |-> 0, Tag |-> "Uncategorized"]
        /\ h.hdr[0] = [nSize |-> HeapSize, pNext |-> Main, pPrevious |-> Main, Tag |-> "Free"]
    BY <1>1, <1>2 DEF Heaped
  <1>4. h.hdr \in [DOMAIN h.hdr -> Header]
    BY <1>1, <1>2 DEF Header, TagValue
  <1>5. /\ h.hdr[Main].nSize = 0 /\ h.hdr[Main].pNext = 0 /\ h.hdr[Main].pPrevious = 0
        /\ h.hdr[Main].Tag = "Uncategorized"
        /\ h.hdr[0].nSize = HeapSize /\ h.hdr[0].pNext = Main /\ h.hdr[0].pPrevious = Main
        /\ h.hdr[0].Tag = "Free"
    BY <1>3
  <1>6. Shaped(h)
    <2>1. IsFiniteSet(DOMAIN h.hdr)
      <3>1. IsFiniteSet({Main}) /\ {Main} \cup {0} = {Main, 0}
        BY FS_Singleton
      <3>2. IsFiniteSet({Main} \cup {0})
        BY <3>1, FS_AddElement
      <3> QED BY <1>3, <3>1, <3>2
    <2> QED BY <1>2, <1>3, <1>4, <1>5, <2>1 DEF Shaped, IsFree
  <1>7. Linked(h)
    BY <1>3, <1>5 DEF Linked
  <1>8. Ordered(h)
    BY <1>1, <1>3, <1>5 DEF Ordered, Main
  <1>9. Apart(h)
    BY <1>1, <1>3, <1>5 DEF Apart
  <1>10. Merged(h) /\ Taken(h) = {}
    BY <1>1, <1>3, <1>5 DEF Merged, Taken, IsFree
  <1> QED BY <1>6, <1>7, <1>8, <1>9, <1>10 DEF Chain

LEMMA PaddedHoldsHeader ==
    ASSUME NEW n \in Requests
    PROVE  Padded(n) \in Nat /\ Padded(n) > HeaderUnits
  BY ZoneAssumption DEF Padded, HeaderUnits

LEMMA UsedIsTaken == Used = Taken(TheHeap) /\ Blocks = Heaped(TheHeap) /\ TheHeap.hdr = hdr
  BY DEF Used, Taken, Blocks, Heaped, TheHeap, Heap

LEMMA ZoneInitIInv == ZoneInit => ZoneIInv
  <1> SUFFICES ASSUME ZoneInit, Intact
               PROVE  Chain(TheHeap) /\ Merged(TheHeap) /\ m_nAllocCount = Cardinality(Taken(TheHeap))
    BY DEF ZoneIInv
  <1>1. HeapSize >= 2
    <2>1. 0 \in Blocks /\ IsFree(TheHeap, 0) /\ hdr[0].nSize = HeapSize
      BY DEF ZoneInit, Blocks, Main, IsFree, TheHeap, Heap
    <2> QED BY <2>1 DEF Intact, HeaderUnits
  <1>2. Chain(TheHeap) /\ Merged(TheHeap) /\ Taken(TheHeap) = {}
    BY <1>1, FreshHeap DEF ZoneInit, TheHeap
  <1> QED BY <1>2, FS_EmptySet DEF ZoneInit

LEMMA ZoneNextIInv == ZoneIInv /\ [ZoneNext]_zoneVars => ZoneIInv'
  <1> SUFFICES ASSUME ZoneIInv, [ZoneNext]_zoneVars, Intact'
               PROVE  /\ Chain(TheHeap') /\ Merged(TheHeap')
                      /\ m_nAllocCount' = Cardinality(Taken(TheHeap'))
    BY DEF ZoneIInv
  <1> DEFINE h == TheHeap
  <1>1. TheHeap' = Heap(hdr', m_pCurrentBlock')
    BY DEF TheHeap
  <1>2. ASSUME NEW g, g = Heap(g.hdr, g.cur), Becomes(g)
        PROVE  TheHeap' = g
    BY <1>1, <1>2 DEF Becomes
  <1>3. ASSUME NEW g, Chain(g)
        PROVE  g = Heap(g.hdr, g.cur)
    BY <1>3 DEF Chain, Shaped
  <1>4. ASSUME Intact
        PROVE  /\ Chain(h) /\ Merged(h) /\ m_nAllocCount = Cardinality(Taken(h))
               /\ IsFiniteSet(Taken(h)) /\ Used = Taken(h) /\ Blocks = Heaped(h) /\ h.hdr = hdr
    <2>1. Chain(h) /\ Merged(h) /\ m_nAllocCount = Cardinality(Taken(h))
      BY <1>4 DEF ZoneIInv
    <2>2. Taken(h) \in SUBSET DOMAIN h.hdr
      BY DEF Taken, Heaped
    <2>3. IsFiniteSet(Taken(h))
      BY <2>1, <2>2, FS_Subset DEF Chain, Shaped
    <2> QED BY <2>1, <2>3, UsedIsTaken
  <1> HIDE DEF h
  <1>5. ASSUME NEW n \in Requests, NEW t \in Tags, Alloc(n, t)
        PROVE  /\ Chain(TheHeap') /\ Merged(TheHeap')
               /\ m_nAllocCount' = Cardinality(Taken(TheHeap'))
    <2> DEFINE b == NextFit(h, Padded(n))
               g == Take(h, b, Padded(n), t)
    <2>1. /\ Intact /\ b # NoBlock /\ Becomes(g) /\ m_nAllocCount' = m_nAllocCount + 1
      BY <1>5 DEF Alloc, h
    <2>2. Padded(n) \in Nat /\ 1 <= Padded(n)
      BY PaddedHoldsHeader DEF HeaderUnits
    <2>3. b \in Heaped(h) /\ IsFree(h, b) /\ h.hdr[b].nSize >= Padded(n)
      BY <1>4, <2>1, <2>2, NextFitFits DEF FitsIn
    <2>4. h.hdr[b].nSize \in Nat
      BY <1>4, <2>1, <2>3, ChainFacts
    <2> HIDE DEF b
    <2>5. Chain(g) /\ Merged(g) /\ Taken(g) = Taken(h) \cup {b}
      BY <1>4, <2>1, <2>2, <2>3, <2>4, TakeKeeps
    <2>6. b \notin Taken(h)
      BY <2>3 DEF Taken
    <2>7. Cardinality(Taken(h) \cup {b}) = Cardinality(Taken(h)) + 1
      BY <1>4, <2>1, <2>6, FS_AddElement
    <2> HIDE DEF g
    <2>8. TheHeap' = g
      BY <1>2, <1>3, <2>1, <2>5
    <2> QED BY <1>4, <2>1, <2>5, <2>7, <2>8
  <1>6. ASSUME NEW b \in Blocks, NEW n \in Requests, NEW t \in Tags, ReallocInPlace(b, n, t)
        PROVE  /\ Chain(TheHeap') /\ Merged(TheHeap')
               /\ m_nAllocCount' = Cardinality(Taken(TheHeap'))
    <2> DEFINE k == Padded(n)
    <2>1. Intact /\ b \in Taken(h) /\ m_nAllocCount' = m_nAllocCount /\ h.hdr = hdr
      BY <1>4, <1>6 DEF ReallocInPlace
    <2>2. k \in Nat /\ 1 <= k
      BY PaddedHoldsHeader DEF HeaderUnits
    <2>3. b \in Heaped(h) /\ b \in DOMAIN h.hdr /\ h.hdr[b].nSize \in Nat
          /\ h.hdr[b].pNext \in DOMAIN h.hdr
      BY <1>4, <2>1, ChainFacts DEF Taken
    <2>4. h.hdr[h.hdr[b].pNext].nSize \in Nat
      BY <1>4, <2>1, <2>3, ChainFacts
    <2>5. ASSUME NEW g, Becomes(g), Chain(g), Merged(g), Taken(g) = Taken(h)
          PROVE  /\ Chain(TheHeap') /\ Merged(TheHeap')
                 /\ m_nAllocCount' = Cardinality(Taken(TheHeap'))
      <3>1. TheHeap' = g
        BY <1>2, <1>3, <2>5
      <3> QED BY <1>4, <2>1, <2>5, <3>1
    <2> HIDE DEF k
    <2>6. CASE k > h.hdr[b].nSize /\ Room(b, n) /\ Becomes(Expand(h, b, k, t))
      <3> DEFINE g == Expand(h, b, k, t)
      <3>1. IsFree(h, h.hdr[b].pNext) /\ h.hdr[b].nSize < k
        BY <2>1, <2>2, <2>3, <2>6 DEF Room, FitsIn, h
      <3>2. CASE k < h.hdr[b].nSize + h.hdr[h.hdr[b].pNext].nSize
        <4>1. Chain(g) /\ Merged(g) /\ Taken(g) = Taken(h)
          BY <1>4, <2>1, <2>2, <3>1, <3>2, ExpandKeeps
        <4> HIDE DEF g
        <4> QED BY <2>5, <2>6, <4>1 DEF g
      <3>3. CASE ~(k < h.hdr[b].nSize + h.hdr[h.hdr[b].pNext].nSize)
        <4>1. PICK a \in Heaped(g) : IsFree(g, a) /\ g.hdr[a].nSize \in Int /\ g.hdr[a].nSize <= 0
          BY <1>4, <2>1, <2>2, <3>1, <3>3, ExpandBreaks
        <4> HIDE DEF g
        <4>2. hdr' = g.hdr
          BY <2>6 DEF Becomes, g
        <4>3. a \in Blocks' /\ IsFree(TheHeap', a) /\ hdr'[a].nSize \in Int /\ hdr'[a].nSize <= 0
          BY <1>1, <4>1, <4>2 DEF Blocks, Heaped, IsFree, Heap
        <4>4. hdr'[a].nSize >= HeaderUnits
          BY <4>3 DEF Intact
        <4>5. FALSE
          BY <4>3, <4>4 DEF HeaderUnits
        <4> QED BY <4>5
      <3> QED BY <3>2, <3>3
    <2>7. CASE k < h.hdr[b].nSize /\ Becomes(Shrunk(h, b, k, t))
      <3>1. LET g == Shrunk(h, b, k, t) IN Chain(g) /\ Merged(g) /\ Taken(g) = Taken(h)
        BY <1>4, <2>1, <2>2, <2>7, ShrunkKeeps
      <3> QED BY <2>5, <2>7, <3>1
    <2>8. CASE k = h.hdr[b].nSize /\ Becomes(SetTag(h, b, t))
      <3>1. LET g == SetTag(h, b, t) IN Chain(g) /\ Merged(g) /\ Taken(g) = Taken(h)
        BY <1>4, <2>1, RetagTaken
      <3> QED BY <2>5, <2>8, <3>1
    <2>9. \/ k > h.hdr[b].nSize /\ Room(b, n) /\ Becomes(Expand(h, b, k, t))
          \/ k < h.hdr[b].nSize /\ Becomes(Shrunk(h, b, k, t))
          \/ k = h.hdr[b].nSize /\ Becomes(SetTag(h, b, t))
      BY <1>6, <2>1 DEF ReallocInPlace, h, k
    <2> QED BY <2>6, <2>7, <2>8, <2>9
  <1>7. ASSUME NEW b \in Blocks, NEW n \in Requests, NEW t \in Tags, ReallocMove(b, n, t)
        PROVE  /\ Chain(TheHeap') /\ Merged(TheHeap')
               /\ m_nAllocCount' = Cardinality(Taken(TheHeap'))
    <2> DEFINE d    == NextFit(h, Padded(n))
               both == Take(h, d, Padded(n), t)
               g    == FreeBlock(both, b)
    <2>1. /\ Intact /\ d # NoBlock /\ Becomes(g) /\ m_nAllocCount' = m_nAllocCount
      BY <1>7 DEF ReallocMove, h
    <2>2. Padded(n) \in Nat /\ 1 <= Padded(n)
      BY PaddedHoldsHeader DEF HeaderUnits
    <2>3. d \in Heaped(h) /\ IsFree(h, d) /\ h.hdr[d].nSize >= Padded(n)
      BY <1>4, <2>1, <2>2, NextFitFits DEF FitsIn
    <2>4. h.hdr[d].nSize \in Nat
      BY <1>4, <2>1, <2>3, ChainFacts
    <2> HIDE DEF d
    <2>5. Chain(both) /\ Merged(both) /\ Taken(both) = Taken(h) \cup {d}
      BY <1>4, <2>1, <2>2, <2>3, <2>4, TakeKeeps
    <2>6. d \notin Taken(h) /\ b \in Taken(h)
      BY <1>4, <1>7, <2>1, <2>3 DEF Taken, ReallocMove
    <2> HIDE DEF both
    <2>7. Chain(g) /\ Merged(g) /\ Taken(g) = (Taken(h) \cup {d}) \ {b}
      <3>1. b \in Taken(both)
        BY <2>5, <2>6
      <3> QED BY <2>5, <3>1, FreeBlockKeeps
    <2>8. Cardinality((Taken(h) \cup {d}) \ {b}) = Cardinality(Taken(h))
      <3>1. Cardinality(Taken(h)) \in Nat /\ IsFiniteSet(Taken(h))
        BY <1>4, <2>1, FS_CardinalityType
      <3>2. IsFiniteSet(Taken(h) \cup {d}) /\ Cardinality(Taken(h) \cup {d}) = Cardinality(Taken(h)) + 1
        BY <2>6, <3>1, FS_AddElement
      <3>3. Cardinality((Taken(h) \cup {d}) \ {b}) = Cardinality(Taken(h) \cup {d}) - 1
        BY <2>6, <3>2, FS_RemoveElement
      <3> QED BY <3>1, <3>2, <3>3
    <2> HIDE DEF g
    <2>9. TheHeap' = g
      BY <1>2, <1>3, <2>1, <2>7
    <2> QED BY <1>4, <2>1, <2>7, <2>8, <2>9
  <1>8. ASSUME NEW b \in Blocks, Free(b)
        PROVE  /\ Chain(TheHeap') /\ Merged(TheHeap')
               /\ m_nAllocCount' = Cardinality(Taken(TheHeap'))
    <2> DEFINE g == FreeBlock(h, b)
    <2>1. Intact /\ b \in Taken(h) /\ Becomes(g) /\ m_nAllocCount' = m_nAllocCount - 1
      BY <1>4, <1>8 DEF Free, h
    <2>2. Chain(g) /\ Merged(g) /\ Taken(g) = Taken(h) \ {b}
      BY <1>4, <2>1, FreeBlockKeeps
    <2>3. Cardinality(Taken(h) \ {b}) = Cardinality(Taken(h)) - 1
      BY <1>4, <2>1, FS_RemoveElement
    <2> HIDE DEF g
    <2>4. TheHeap' = g
      BY <1>2, <1>3, <2>1, <2>2
    <2> QED BY <1>4, <2>1, <2>2, <2>3, <2>4
  <1>9. ASSUME NEW t \in Tags, FreeTag(t)
        PROVE  /\ Chain(TheHeap') /\ Merged(TheHeap')
               /\ m_nAllocCount' = Cardinality(Taken(TheHeap'))
    <2> DEFINE some == {b \in Used : hdr[b].Tag = t}
               g    == FreeAll(h, some)
    <2>1. Intact /\ Becomes(g) /\ m_nAllocCount' = m_nAllocCount - Cardinality(some)
      BY <1>9 DEF FreeTag, h
    <2>2. some \in SUBSET Taken(h)
      BY <1>4, <2>1
    <2> HIDE DEF some
    <2>3. Chain(g) /\ Merged(g) /\ Taken(g) = Taken(h) \ some
      BY <1>4, <2>1, <2>2, FreeAllKeeps
    <2>4. Cardinality(Taken(h) \ some) = Cardinality(Taken(h)) - Cardinality(some)
      <3>1. IsFiniteSet(some) /\ IsFiniteSet(Taken(h) \ some)
        BY <1>4, <2>1, <2>2, FS_Subset
      <3>2. /\ Cardinality(some) \in Nat /\ Cardinality(Taken(h) \ some) \in Nat
            /\ Cardinality(Taken(h)) \in Nat
        BY <1>4, <2>1, <3>1, FS_CardinalityType
      <3>3. some \cup (Taken(h) \ some) = Taken(h) /\ some \cap (Taken(h) \ some) = {}
        BY <2>2
      <3>4. Cardinality(Taken(h)) = Cardinality(some) + Cardinality(Taken(h) \ some) - 0
        BY <3>1, <3>3, FS_Union, FS_EmptySet
      <3> QED BY <3>2, <3>4
    <2> HIDE DEF g
    <2>5. TheHeap' = g
      BY <1>2, <1>3, <2>1, <2>3
    <2> QED BY <1>4, <2>1, <2>3, <2>4, <2>5
  <1>10. CASE Restart
    <2>1. HeapSize >= 2
      <3>1. 0 \in Blocks' /\ IsFree(TheHeap', 0) /\ hdr'[0].nSize = HeapSize
        BY <1>1, <1>10 DEF Restart, Blocks, Main, IsFree, Heap
      <3> QED BY <3>1 DEF Intact, HeaderUnits
    <2>2. Chain(TheHeap') /\ Merged(TheHeap') /\ Taken(TheHeap') = {}
      BY <1>1, <1>10, <2>1, FreshHeap DEF Restart
    <2> QED BY <1>10, <2>2, FS_EmptySet DEF Restart
  <1>11. CASE UNCHANGED zoneVars
    <2>1. TheHeap' = h /\ (Intact' <=> Intact) /\ m_nAllocCount' = m_nAllocCount
      BY <1>11 DEF zoneVars, TheHeap, Intact, Blocks, h
    <2> QED BY <1>4, <2>1
  <1> QED BY <1>5, <1>6, <1>7, <1>8, <1>9, <1>10, <1>11 DEF ZoneNext

LEMMA ZoneInvariance == ZoneSpec => []ZoneIInv
  BY ZoneInitIInv, ZoneNextIInv, PTL DEF ZoneSpec

(* Blocks never overlap and the list stays whole, whatever is allocated,     *)
(* reallocated and freed in whatever order, for every size of heap - as long *)
(* as every remainder has had room for its header.                           *)
THEOREM ZoneBlocksAreDisjoint == ZoneSpec => []BlocksAreDisjoint
  <1>1. ZoneIInv => BlocksAreDisjoint
    <2> SUFFICES ASSUME ZoneIInv, Intact
                 PROVE  /\ \A b \in Blocks : End(b) <= After(b) /\ (hdr[b].pNext # Main => b < hdr[b].pNext)
                        /\ \A a \in DOMAIN hdr : /\ hdr[a].pNext \in DOMAIN hdr
                                                 /\ hdr[hdr[a].pNext].pPrevious = a
                        /\ m_pCurrentBlock \in DOMAIN hdr
      BY DEF BlocksAreDisjoint
    <2> DEFINE h == TheHeap
    <2>1. Chain(h) /\ h.hdr = hdr /\ h.cur = m_pCurrentBlock /\ Blocks = Heaped(h)
      BY UsedIsTaken DEF ZoneIInv, TheHeap, Heap
    <2> HIDE DEF h
    <2>2. ASSUME NEW b \in Blocks
          PROVE  End(b) <= After(b) /\ (hdr[b].pNext # Main => b < hdr[b].pNext)
      <3>1. b \in Heaped(h) /\ b \in DOMAIN h.hdr
        BY <2>1, ChainFacts
      <3>2. /\ b + hdr[b].nSize <= HeapSize
            /\ hdr[b].pNext # Main => b + hdr[b].nSize <= hdr[b].pNext
        BY <2>1, <3>1 DEF Chain, Apart
      <3>3. hdr[b].pNext # Main => b < hdr[b].pNext
        BY <2>1, <3>1 DEF Chain, Ordered
      <3> QED BY <3>2, <3>3 DEF End, After
    <2>3. \A a \in DOMAIN hdr : hdr[a].pNext \in DOMAIN hdr /\ hdr[hdr[a].pNext].pPrevious = a
      BY <2>1 DEF Chain, Linked
    <2>4. m_pCurrentBlock \in DOMAIN hdr
      BY <2>1, ChainFacts
    <2> QED BY <2>2, <2>3, <2>4
  <1> QED BY <1>1, ZoneInvariance, PTL

(* Two free blocks are never neighbours: freed memory can be allocated again *)
(* in one piece, after any history.                                          *)
THEOREM ZoneFreeSpaceIsMerged == ZoneSpec => []FreeSpaceIsMerged
  <1>1. ZoneIInv => FreeSpaceIsMerged
    BY UsedIsTaken DEF ZoneIInv, FreeSpaceIsMerged, Merged
  <1> QED BY <1>1, ZoneInvariance, PTL

(* m_nAllocCount is the number of blocks in use, though Realloc allocates    *)
(* and frees, and FreeTag frees many at once.                                *)
THEOREM ZoneCountsLiveBlocks == ZoneSpec => []CountsLiveBlocks
  <1>1. ZoneIInv => CountsLiveBlocks
    BY UsedIsTaken DEF ZoneIInv, CountsLiveBlocks
  <1> QED BY <1>1, ZoneInvariance, PTL

(* The search of Alloc looks only at blocks behind one in use and ends       *)
(* before it has come round, and still misses no block that would do: the    *)
(* list visits every block, and two free ones never follow each other.       *)
THEOREM ZoneAllocFindsAFit == ZoneSpec => []AllocFindsAFit
  <1>1. ZoneIInv => AllocFindsAFit
    <2> SUFFICES ASSUME ZoneIInv, Intact, NEW n \in Requests,
                        NEW b \in Blocks, FitsIn(TheHeap, b, Padded(n))
                 PROVE  NextFit(TheHeap, Padded(n)) # NoBlock
      BY DEF AllocFindsAFit
    <2>1. Chain(TheHeap) /\ Merged(TheHeap) /\ b \in Heaped(TheHeap)
      BY UsedIsTaken DEF ZoneIInv
    <2> QED BY <2>1, PaddedHoldsHeader, NextFitFinds
  <1> QED BY <1>1, ZoneInvariance, PTL
================================================================================
