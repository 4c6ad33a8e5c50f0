----------------------------- MODULE ZoneAllocator -----------------------------
(***************************************************************************)
(* CZoneAllocator (zoneallocator.cpp): the heap FluidSynth allocates from. *)
(* Blocks lie one after another in the heap, each behind its TBlock header *)
(* and all in one circular list closed by m_MainBlock; an allocation       *)
(* searches on from where the last one ended.  Addresses and sizes count   *)
(* 16 byte units; requests are in bytes.  Pointers given to Realloc and    *)
(* Free are those of live blocks, as FluidSynth's are.                     *)
(***************************************************************************)
EXTENDS Integers, FiniteSets, Sequences

CONSTANTS HeapSize,  \* m_nHeapSize, in units
          Requests,  \* the byte counts asked for
          Tags       \* values of TZoneTag other than Free

ASSUME ZoneAssumption == /\ HeapSize \in Nat
                         /\ Requests \subseteq Nat \ {0}
                         /\ "Free" \notin Tags

VARIABLES hdr,             \* the headers: a function from block addresses
          m_pCurrentBlock,
          m_nAllocCount

zoneVars == <<hdr, m_pCurrentBlock, m_nAllocCount>>

HeaderUnits     == 2   \* sizeof(TBlock): 32 bytes on either architecture
MinFragmentSize == 1   \* 16 bytes
Main   == -1           \* &m_MainBlock, which is not in the heap
NoBlock == -2          \* nullptr
Blocks == DOMAIN hdr \ {Main}

(* The units a request takes: header, bytes, 4 bytes of magic, rounded up. *)
Padded(n) == (n + 16 * HeaderUnits + 4 + 15) \div 16

Heap(h, cur) == [hdr |-> h, cur |-> cur]
TheHeap      == Heap(hdr, m_pCurrentBlock)
Becomes(h)   == hdr' = h.hdr /\ m_pCurrentBlock' = h.cur

(* Block p takes over b, its successor in the list: sizes add up, b leaves   *)
(* the list, and a search that was to start at b starts at p.                *)
Absorb_LeavesCurrent(h, p, b) ==   \* mutant
    LET n    == h.hdr[b].pNext
        left == [a \in DOMAIN h.hdr \ {b} |-> h.hdr[a]]
    IN  Heap([left EXCEPT ![p].nSize = @ + h.hdr[b].nSize, ![p].pNext = n, ![n].pPrevious = p],
             h.cur)
Absorb(h, p, b) ==
    LET n    == h.hdr[b].pNext
        left == [a \in DOMAIN h.hdr \ {b} |-> h.hdr[a]]
    IN  Heap([left EXCEPT ![p].nSize = @ + h.hdr[b].nSize, ![p].pNext = n, ![n].pPrevious = p],
             IF h.cur = b THEN p ELSE h.cur)

(* Block b keeps n units; a free block with a header of its own gets the rest.*)
Split(h, b, n) ==
    LET rest == b + n
        next == h.hdr[b].pNext
        new  == [nSize |-> h.hdr[b].nSize - n, pNext |-> next, pPrevious |-> b, Tag |-> "Free"]
        both == [a \in DOMAIN h.hdr \cup {rest} |-> IF a = rest THEN new ELSE h.hdr[a]]
    IN  Heap([both EXCEPT ![next].pPrevious = rest, ![b].pNext = rest, ![b].nSize = n],
             IF h.cur = next THEN rest ELSE h.cur)

IsFree(h, b) == h.hdr[b].Tag = "Free"
FitsIn(h, b, n) == IsFree(h, b) /\ h.hdr[b].nSize >= n
SetTag(h, b, t) == [h EXCEPT !.hdr[b].Tag = t]

--------------------------------------------------------------------------------
(* The list from m_pCurrentBlock on, as far as its predecessor. *)
Round(h) ==
    LET Walk[i \in 1..Cardinality(DOMAIN h.hdr)] ==
            IF i = 1 THEN h.cur ELSE h.hdr[Walk[i-1]].pNext
    IN  Walk

NextFit_StartsAfter(h, n) ==   \* mutant
    LET w    == Round(h)
        Hits == {i \in 2..Len(w) : ~IsFree(h, w[i-1]) /\ FitsIn(h, w[i], n)}
    IN  IF Hits = {} THEN NoBlock ELSE w[CHOOSE i \in Hits : \A j \in Hits : i <= j]
(* The do loop of Alloc.  A block becomes pCandidateBlock when it is the one  *)
(* to start from, or when the block before it is in use; the loop ends with   *)
(* the first candidate that fits, or at the block before m_pCurrentBlock.     *)
NextFit(h, n) ==
    LET w    == Round(h)
        Hits == {i \in 1..Len(w) : (i = 1 \/ ~IsFree(h, w[i-1])) /\ FitsIn(h, w[i], n)}
    IN  IF Hits = {} THEN NoBlock ELSE w[CHOOSE i \in Hits : \A j \in Hits : i <= j]

(* What Alloc makes of the heap once it has found block b for n units: the   *)
(* rest is split off if it is large enough, and the next search starts there.*)
Take(h, b, n, tag) ==
    LET cut == IF h.hdr[b].nSize - n > MinFragmentSize THEN Split(h, b, n) ELSE h
    IN  Heap(SetTag(cut, b, tag).hdr, cut.hdr[b].pNext)

FreeBlock_ForgetsPrevious(h, b) ==   \* mutant
    LET freed == SetTag(h, b, "Free")
        n     == freed.hdr[b].pNext
    IN  IF IsFree(freed, n) THEN Absorb(freed, b, n) ELSE freed
(* What Free makes of the heap: joined with the block before, then with the  *)
(* block after, if they are free.                                            *)
FreeBlock(h, b) ==
    LET p      == h.hdr[b].pPrevious
        freed  == SetTag(h, b, "Free")
        joined == IF IsFree(h, p) THEN Absorb(freed, p, b) ELSE freed
        start  == IF IsFree(h, p) THEN p ELSE b
        n      == joined.hdr[start].pNext
    IN  IF IsFree(joined, n) THEN Absorb(joined, start, n) ELSE joined

(* The block after b is free and supplies what b lacks to have n units; what *)
(* is left of it moves up.                                                   *)
Expand(h, b, n, tag) ==
    LET next == h.hdr[b].pNext
        one  == Heap(Absorb(h, b, next).hdr, Main)
        two  == Split(one, b, n)
    IN  Heap(SetTag(two, b, tag).hdr, IF h.cur = next THEN b + n ELSE h.cur)

(* Block b keeps n units; the rest becomes a block or joins a free one, but  *)
(* 16 bytes are too few for either and belong to nobody from then on.        *)
Shrunk(h, b, n, tag) ==
    LET next == h.hdr[b].pNext
        cut  == Split(h, b, n)
        room == CASE h.hdr[b].nSize - n <= MinFragmentSize -> [h EXCEPT !.hdr[b].nSize = n]
                  [] h.hdr[b].nSize - n > MinFragmentSize /\ IsFree(h, next)
                        -> Absorb(cut, b + n, next)
                  [] h.hdr[b].nSize - n > MinFragmentSize /\ ~IsFree(h, next) -> cut
    IN  SetTag(room, b, tag)

--------------------------------------------------------------------------------
(* Clear, which Initialize ends with. *)
ZoneInit ==
    /\ hdr = [a \in {Main, 0} |->
                IF a = Main
                THEN [nSize |-> 0, pNext |-> 0, pPrevious |-> 0, Tag |-> "Uncategorized"]
                ELSE [nSize |-> HeapSize, pNext |-> Main, pPrevious |-> Main, Tag |-> "Free"]]
    /\ m_pCurrentBlock = 0
    /\ m_nAllocCount = 0

(* A header is written where the rest of a block begins, however little that *)
(* is.  The behaviour ends where one lies in memory that is another block's. *)
Intact == \A b \in Blocks : IsFree(TheHeap, b) => hdr[b].nSize >= HeaderUnits

Alloc(n, tag) ==
    LET b == NextFit(TheHeap, Padded(n)) IN
    /\ Intact
    /\ b # NoBlock
    /\ Becomes(Take(TheHeap, b, Padded(n), tag))
    /\ m_nAllocCount' = m_nAllocCount + 1

Used == {b \in Blocks : ~IsFree(TheHeap, b)}

Room(b, n) == FitsIn(TheHeap, hdr[b].pNext, Padded(n) - hdr[b].nSize)

ReallocInPlace(b, n, tag) ==
    /\ Intact /\ b \in Used
    /\ \/ Padded(n) > hdr[b].nSize /\ Room(b, n) /\ Becomes(Expand(TheHeap, b, Padded(n), tag))
       \/ Padded(n) < hdr[b].nSize /\ Becomes(Shrunk(TheHeap, b, Padded(n), tag))
       \/ Padded(n) = hdr[b].nSize /\ Becomes(SetTag(TheHeap, b, tag))
    /\ UNCHANGED m_nAllocCount

ReallocMove_CountsTwice(b, n, tag) ==   \* mutant
    LET dest == NextFit(TheHeap, Padded(n)) IN
    /\ Intact /\ b \in Used
    /\ Padded(n) > hdr[b].nSize /\ ~Room(b, n)
    /\ dest # NoBlock
    /\ Becomes(FreeBlock(Take(TheHeap, dest, Padded(n), tag), b))
    /\ m_nAllocCount' = m_nAllocCount + 1
(* Alloc, memcpy, Free. *)
ReallocMove(b, n, tag) ==
    LET dest == NextFit(TheHeap, Padded(n)) IN
    /\ Intact /\ b \in Used
    /\ Padded(n) > hdr[b].nSize /\ ~Room(b, n)
    /\ dest # NoBlock
    /\ Becomes(FreeBlock(Take(TheHeap, dest, Padded(n), tag), b))
    /\ UNCHANGED m_nAllocCount

Free(b) ==
    /\ Intact /\ b \in Used
    /\ Becomes(FreeBlock(TheHeap, b))
    /\ m_nAllocCount' = m_nAllocCount - 1

(* Free for each of some blocks, in list order: Upto[a] is the heap when the *)
(* loop has come as far as address a.                                        *)
FreeAll(h, some) ==
    LET Upto[a \in 0..HeapSize] ==
            IF a = 0 THEN h
            ELSE IF a - 1 \in some THEN FreeBlock(Upto[a-1], a - 1) ELSE Upto[a-1]
    IN  Upto[HeapSize]

FreeTag(tag) ==
    LET tagged == {b \in Used : hdr[b].Tag = tag} IN
    /\ Intact
    /\ tagged # {}
    /\ Becomes(FreeAll(TheHeap, tagged))
    /\ m_nAllocCount' = m_nAllocCount - Cardinality(tagged)

(* The machine is switched on again. *)
Restart ==
    /\ ~Intact
    /\ hdr' = [a \in {Main, 0} |->
                IF a = Main
                THEN [nSize |-> 0, pNext |-> 0, pPrevious |-> 0, Tag |-> "Uncategorized"]
                ELSE [nSize |-> HeapSize, pNext |-> Main, pPrevious |-> Main, Tag |-> "Free"]]
    /\ m_pCurrentBlock' = 0
    /\ m_nAllocCount' = 0

ZoneNext ==
    \/ \E n \in Requests, t \in Tags : Alloc(n, t)
    \/ \E b \in Blocks, n \in Requests, t \in Tags : ReallocInPlace(b, n, t)
    \/ \E b \in Blocks, n \in Requests, t \in Tags : ReallocMove(b, n, t)
    \/ \E b \in Blocks : Free(b)
    \/ \E t \in Tags : FreeTag(t)
    \/ Restart

ZoneSpec == ZoneInit /\ [][ZoneNext]_zoneVars

--------------------------------------------------------------------------------
End(b) == b + hdr[b].nSize
After(b) == IF hdr[b].pNext = Main THEN HeapSize ELSE hdr[b].pNext

(* The list runs through the heap in the order of addresses, back as well as *)
(* forth, no block reaches into the next one or past the end, and the block  *)
(* the next search starts from is one of them: the state every operation     *)
(* relies on and none of them checks.                                        *)
BlocksAreDisjoint ==
    Intact =>
        /\ \A b \in Blocks : End(b) <= After(b) /\ (hdr[b].pNext # Main => b < hdr[b].pNext)
        /\ \A a \in DOMAIN hdr : /\ hdr[a].pNext \in DOMAIN hdr
                                 /\ hdr[hdr[a].pNext].pPrevious = a
        /\ m_pCurrentBlock \in DOMAIN hdr

(* Free space is one block wherever it is contiguous, after any mixture of   *)
(* calls: a heap that is given back entirely is one free block again.        *)
FreeSpaceIsMerged ==
    Intact => \A b \in Blocks : ~(IsFree(TheHeap, b) /\ IsFree(TheHeap, hdr[b].pNext))

(* Alloc fails only when no free block is large enough, though it starts in  *)
(* the middle of the list, looks at some blocks only and stops before the    *)
(* last one.                                                                 *)
AllocFindsAFit ==
    Intact => \A n \in Requests :
        (\E b \in Blocks : FitsIn(TheHeap, b, Padded(n))) => NextFit(TheHeap, Padded(n)) # NoBlock

(* m_nAllocCount is the number of live blocks, also across the Alloc and     *)
(* Free inside Realloc.                                                      *)
CountsLiveBlocks == Intact => m_nAllocCount = Cardinality(Used)

(* A block is expanded in place only "if next block is free and large        *)
(* enough" (zoneallocator.cpp:211): what is left of it holds its header.     *)
RemainderHoldsItsHeader == Intact
================================================================================
