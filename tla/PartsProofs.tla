----------------------------- MODULE PartsProofs -------------------------------
(***************************************************************************)
(* The parts that keep their state to themselves and are called from       *)
(* interrupt handlers as well as from the main task.  For every size of    *)
(* ring and every item type: the indices stay inside the array, a reader   *)
(* only ever sees slots that were written, and the ring implements a FIFO  *)
(* of N-1 items.  For every number of records the shared buffer is a FIFO  *)
(* of that many.  For every type of encoder and width of its count, the    *)
(* clicks follow the knob; for every number of buttons and of samples, the *)
(* events follow the buttons.                                              *)
(* And what is fed to the one MIDI parser: the handlers called are those   *)
(* that a stream of any length calls for when it is read as a whole, and   *)
(* every message of a network packet is heard, once and in order.          *)
(***************************************************************************)
EXTENDS RingBuffer, SharedBuffer, Buttons, RotaryEncoder, MidiStream, RtpMidi, MidiParserProofs,
        SequenceTheorems, TLAPS

--------------------------------------------------------------------------------
(* The ring buffer.  The inductive invariant: typed indices that delimit      *)
(* written slots only.                                                        *)
IInv == TypeOK /\ OnlyWrittenSlotsQueued

(* The offset of a slot from another one is below N, and walking that far   *)
(* leads back to the slot.                                                  *)
LEMMA RingArithmetic ==
    ASSUME NEW j \in Slot, NEW p \in Slot
    PROVE  /\ Ahead(j, p) \in 0..N-1
           /\ Mask(p + Ahead(j, p)) = j
  BY RingAssumption DEF Slot, Ahead, Mask

LEMMA MaskOfOffset ==
    ASSUME NEW p \in Slot, NEW d \in 0..N-1
    PROVE  /\ Mask(p + d) \in Slot
           /\ Ahead(Mask(p + d), p) = d
  BY RingAssumption DEF Slot, Ahead, Mask

(* What Contents is, position by position. *)
LEMMA ContentsShape ==
    ASSUME TypeOK
    PROVE  /\ Occupied \in 0..N-1
           /\ Contents \in [1..Occupied -> Item \cup {Blank}]
           /\ Contents \in Seq(Item \cup {Blank})
           /\ Len(Contents) = Occupied
  <1>1. Occupied \in 0..N-1
    BY RingArithmetic DEF Occupied, TypeOK
  <1>2. ASSUME NEW i \in 1..Occupied
        PROVE  m_Data[Mask(m_nOutPtr + i - 1)] \in Item \cup {Blank}
    <2>1. i - 1 \in 0..N-1 /\ m_nOutPtr + i - 1 = m_nOutPtr + (i - 1)
      BY <1>1, RingAssumption DEF TypeOK, Slot
    <2>2. Mask(m_nOutPtr + i - 1) \in Slot
      BY <2>1, MaskOfOffset DEF TypeOK
    <2> QED BY <2>2 DEF TypeOK
  <1>3. Contents \in [1..Occupied -> Item \cup {Blank}]
    BY <1>2 DEF Contents
  <1>4. Contents \in Seq(Item \cup {Blank}) /\ Len(Contents) = Occupied
    BY <1>1, <1>3
  <1> QED BY <1>1, <1>3, <1>4

LEMMA InitIInv == Init => IInv
  <1> SUFFICES ASSUME Init PROVE IInv OBVIOUS
  <1>1. TypeOK
    BY RingAssumption DEF Init, TypeOK, Slot
  <1>2. Occupied = 0
    BY RingAssumption DEF Init, Occupied, Ahead
  <1> QED BY <1>1, <1>2 DEF IInv, OnlyWrittenSlotsQueued

(* One accepted item: it is appended to the contents. *)
LEMMA EnqueueStep ==
    ASSUME IInv, NEW x \in Item, ~Full,
           m_Data' = [m_Data EXCEPT ![m_nInPtr] = x],
           m_nInPtr' = Mask(m_nInPtr + 1),
           m_nOutPtr' = m_nOutPtr
    PROVE  /\ TypeOK'
           /\ Occupied < N - 1
           /\ Contents' = Append(Contents, x)
  <1>1. TypeOK /\ Occupied \in 0..N-1
    BY ContentsShape DEF IInv
  <1>2. Occupied < N - 1 /\ Occupied' = Occupied + 1 /\ m_nInPtr' \in Slot
    BY <1>1, RingAssumption DEF Occupied, Ahead, Full, Mask, TypeOK, Slot
  <1>3. TypeOK'
    BY <1>1, <1>2 DEF TypeOK
  <1>4. ASSUME NEW i \in 1..Occupied + 1
        PROVE  m_Data'[Mask(m_nOutPtr + i - 1)] =
                   IF i = Occupied + 1 THEN x ELSE m_Data[Mask(m_nOutPtr + i - 1)]
    <2>1. Mask(m_nOutPtr + i - 1) \in Slot
      BY <1>1, <1>2, RingAssumption DEF Mask, TypeOK, Slot
    <2>2. Mask(m_nOutPtr + i - 1) = m_nInPtr <=> i = Occupied + 1
      BY <1>1, <1>2, RingAssumption DEF Mask, Occupied, Ahead, TypeOK, Slot
    <2> QED BY <2>1, <2>2, <1>1 DEF TypeOK
  <1>5. Contents' = [i \in 1..Occupied + 1 |->
                       IF i = Occupied + 1 THEN x ELSE m_Data[Mask(m_nOutPtr + i - 1)]]
    BY <1>2, <1>4 DEF Contents
  <1>6. Contents \in Seq(Item \cup {Blank}) /\ Len(Contents) = Occupied
    BY <1>1, ContentsShape
  <1>7. Append(Contents, x) = [i \in 1..Occupied + 1 |->
                       IF i = Occupied + 1 THEN x ELSE m_Data[Mask(m_nOutPtr + i - 1)]]
    <2>1. Append(Contents, x) = [i \in 1..Occupied + 1 |->
                       IF i = Occupied + 1 THEN x ELSE Contents[i]]
      <3> DEFINE S == Item \cup {Blank}
                 A == Append(Contents, x)
      <3>1. A \in Seq(S) /\ Len(A) = Occupied + 1
            /\ (\A i \in 1..Occupied : A[i] = Contents[i]) /\ A[Occupied + 1] = x
        BY <1>6, AppendProperties
      <3>2. A \in [1..Occupied + 1 -> S]
        BY <3>1, LenProperties
      <3>3. \A i \in 1..Occupied + 1 : A[i] = IF i = Occupied + 1 THEN x ELSE Contents[i]
        BY <3>1, <1>1, RingAssumption
      <3> QED BY <3>2, <3>3
    <2>2. \A i \in 1..Occupied + 1 :
             i # Occupied + 1 => Contents[i] = m_Data[Mask(m_nOutPtr + i - 1)]
      BY <1>1 DEF Contents
    <2> QED BY <2>1, <2>2
  <1> QED BY <1>2, <1>3, <1>5, <1>7

(* A concatenation, position by position. *)
LEMMA Concatenation ==
    ASSUME NEW S, NEW s \in Seq(S), NEW t \in Seq(S)
    PROVE  s \o t = [i \in 1..Len(s) + Len(t) |-> IF i <= Len(s) THEN s[i] ELSE t[i - Len(s)]]
  <1> DEFINE C == s \o t
  <1>1. /\ C \in Seq(S) /\ Len(C) = Len(s) + Len(t)
        /\ \A i \in 1..Len(s) + Len(t) : C[i] = IF i <= Len(s) THEN s[i] ELSE t[i - Len(s)]
    BY ConcatProperties
  <1>2. C \in [1..Len(s) + Len(t) -> S]
    BY <1>1, LenProperties
  <1> HIDE DEF C
  <1>3. C = [i \in 1..Len(s) + Len(t) |-> IF i <= Len(s) THEN s[i] ELSE t[i - Len(s)]]
    BY <1>1, <1>2
  <1> QED BY <1>3 DEF C

(* A batch of n items that fit, written behind the ones already there. *)
LEMMA EnqueueManyStep ==
    ASSUME IInv, NEW xs \in Seq(Item), EnqueueMany(xs)
    PROVE  \E n \in 0..Len(xs) :
             /\ TypeOK'
             /\ Occupied + n <= N - 1
             /\ n = Len(xs) \/ Occupied + n = N - 1
             /\ ret' = [op |-> "enqueue_many", n |-> n]
             /\ Contents' = Contents \o SubSeq(xs, 1, n)
  <1> DEFINE room == N - 1 - Occupied
             n == IF Len(xs) <= room THEN Len(xs) ELSE room
  <1>1. TypeOK /\ Occupied \in 0..N-1 /\ Len(xs) \in Nat
    BY ContentsShape DEF IInv
  <1>2. n \in 0..Len(xs) /\ n \in 0..N-1 /\ Occupied + n \in 0..N-1
        /\ (n = Len(xs) \/ Occupied + n = N - 1)
    BY <1>1, RingAssumption
  <1>3. /\ m_Data' = [j \in Slot |-> IF Ahead(j, m_nInPtr) < n
                                     THEN xs[Ahead(j, m_nInPtr) + 1]
                                     ELSE m_Data[j]]
        /\ m_nInPtr' = Mask(m_nInPtr + n)
        /\ m_nOutPtr' = m_nOutPtr
        /\ ret' = [op |-> "enqueue_many", n |-> n]
    BY DEF EnqueueMany
  <1> HIDE DEF n, room
  <1>4. m_nInPtr' \in Slot
    BY <1>1, <1>2, <1>3, RingAssumption DEF Mask, TypeOK, Slot
  <1>5. \A j \in Slot : Ahead(j, m_nInPtr) < n => xs[Ahead(j, m_nInPtr) + 1] \in Item
    <2> SUFFICES ASSUME NEW j \in Slot, Ahead(j, m_nInPtr) < n
                 PROVE  xs[Ahead(j, m_nInPtr) + 1] \in Item
      OBVIOUS
    <2>1. Ahead(j, m_nInPtr) \in 0..N-1
      BY <1>1, RingArithmetic DEF TypeOK
    <2>2. Ahead(j, m_nInPtr) + 1 \in 1..Len(xs)
      BY <2>1, <1>2, <1>1, RingAssumption
    <2> QED BY <2>2
  <1>6. TypeOK'
    BY <1>1, <1>3, <1>4, <1>5 DEF TypeOK
  <1>7. Occupied' = Occupied + n
    BY <1>1, <1>2, <1>3, RingAssumption DEF Occupied, Ahead, Mask, TypeOK, Slot
  <1>8. Len(Contents) = Occupied /\ Contents \in Seq(Item \cup {Blank})
    BY <1>1, ContentsShape
  <1> DEFINE C == [i \in 1..Occupied + n |->
                     IF i <= Occupied THEN m_Data[Mask(m_nOutPtr + i - 1)]
                                      ELSE xs[i - Occupied]]
  <1>9. ASSUME NEW i \in 1..Occupied + n
        PROVE  m_Data'[Mask(m_nOutPtr + i - 1)] = C[i]
    <2>1. Mask(m_nOutPtr + i - 1) \in Slot
      BY <1>1, <1>2, RingAssumption DEF Mask, TypeOK, Slot
    <2>2. Ahead(Mask(m_nOutPtr + i - 1), m_nInPtr) =
             IF i <= Occupied THEN i - 1 + N - Occupied ELSE i - 1 - Occupied
      BY <1>1, <1>2, RingAssumption DEF Mask, Occupied, Ahead, TypeOK, Slot
    <2>3. CASE i <= Occupied
      <3>1. ~(Ahead(Mask(m_nOutPtr + i - 1), m_nInPtr) < n)
        BY <2>2, <2>3, <1>1, <1>2, RingAssumption
      <3> QED BY <3>1, <2>1, <2>3, <1>3
    <2>4. CASE i > Occupied
      <3>1. /\ Ahead(Mask(m_nOutPtr + i - 1), m_nInPtr) < n
            /\ Ahead(Mask(m_nOutPtr + i - 1), m_nInPtr) + 1 = i - Occupied
        BY <2>2, <2>4, <1>1, <1>2, RingAssumption
      <3>2. m_Data'[Mask(m_nOutPtr + i - 1)] = xs[i - Occupied]
        BY <3>1, <2>1, <1>3
      <3> QED BY <3>2, <2>4, <1>1
    <2> QED BY <2>3, <2>4, <1>1
  <1>10. Contents' = C
    <2>1. Contents' = [i \in 1..Occupied' |-> m_Data'[Mask(m_nOutPtr' + i - 1)]]
      BY DEF Contents
    <2>2. Contents' = [i \in 1..Occupied + n |-> m_Data'[Mask(m_nOutPtr + i - 1)]]
      BY <2>1, <1>3, <1>7
    <2> QED BY <2>2, <1>9
  <1>11. Contents \o SubSeq(xs, 1, n) = C
    <2>1. SubSeq(xs, 1, n) = [k \in 1..n |-> xs[k]]
      BY <1>1, <1>2
    <2>2. SubSeq(xs, 1, n) \in Seq(Item \cup {Blank}) /\ Len(SubSeq(xs, 1, n)) = n
      BY <1>1, <1>2
    <2> DEFINE D == SubSeq(xs, 1, n)
    <2>3. Contents \o D = [i \in 1..Occupied + n |-> IF i <= Occupied THEN Contents[i]
                                                     ELSE D[i - Occupied]]
      <3> HIDE DEF n
      <3>1. D \in Seq(Item \cup {Blank}) /\ Len(D) = n
        BY <2>2
      <3> HIDE DEF D
      <3>2. Contents \o D = [i \in 1..Len(Contents) + Len(D) |->
                               IF i <= Len(Contents) THEN Contents[i] ELSE D[i - Len(Contents)]]
        BY <1>8, <3>1, Concatenation
      <3> QED BY <1>8, <3>1, <3>2
    <2>4. \A i \in 1..Occupied : Contents[i] = m_Data[Mask(m_nOutPtr + i - 1)]
      BY DEF Contents
    <2>5. \A i \in 1..Occupied + n :
            i > Occupied => SubSeq(xs, 1, n)[i - Occupied] = xs[i - Occupied]
      BY <1>1, <1>2, <2>1
    <2> QED BY SMTT(60), <2>3, <2>4, <2>5, <1>1, <1>2
  <1> HIDE DEF C
  <1>12. Contents' = Contents \o SubSeq(xs, 1, n)
    BY <1>10, <1>11
  <1>13. \A k : k = n => k \in 0..Len(xs) /\ Occupied + k <= N - 1
                          /\ (k = Len(xs) \/ Occupied + k = N - 1)
                          /\ ret' = [op |-> "enqueue_many", n |-> k]
                          /\ Contents' = Contents \o SubSeq(xs, 1, k)
    BY <1>2, <1>3, <1>12
  <1> QED BY <1>13, <1>6

(* Taking the oldest item out. *)
LEMMA DequeueStep ==
    ASSUME IInv, m_nInPtr # m_nOutPtr,
           m_nOutPtr' = Mask(m_nOutPtr + 1),
           UNCHANGED <<m_Data, m_nInPtr>>
    PROVE  /\ TypeOK'
           /\ Contents # <<>>
           /\ Head(Contents) = m_Data[m_nOutPtr]
           /\ Contents' = Tail(Contents)
  <1>1. TypeOK /\ Occupied \in 0..N-1
    BY ContentsShape DEF IInv
  <1>2. Occupied > 0 /\ Occupied' = Occupied - 1 /\ m_nOutPtr' \in Slot
    BY <1>1, RingAssumption DEF Occupied, Ahead, Mask, TypeOK, Slot
  <1>3. TypeOK'
    BY <1>1, <1>2 DEF TypeOK
  <1>4. Contents \in Seq(Item \cup {Blank}) /\ Len(Contents) = Occupied
    BY <1>1, ContentsShape
  <1>5. Contents # <<>> /\ Head(Contents) = m_Data[m_nOutPtr]
    <2>1. Mask(m_nOutPtr + 1 - 1) = m_nOutPtr
      BY <1>1, RingAssumption DEF Mask, TypeOK, Slot
    <2>2. Contents[1] = m_Data[m_nOutPtr]
      BY <2>1, <1>1, <1>2 DEF Contents
    <2> QED BY <2>2, <1>4, <1>2
  <1>6. \A i \in 1..Occupied - 1 :
          Mask(m_nOutPtr' + i - 1) = Mask(m_nOutPtr + (i + 1) - 1)
    BY <1>1, <1>2, RingAssumption DEF Mask, TypeOK, Slot
  <1>7. Contents' = [i \in 1..Occupied - 1 |-> m_Data[Mask(m_nOutPtr + (i + 1) - 1)]]
    BY <1>2, <1>6 DEF Contents
  <1>8. Tail(Contents) = [i \in 1..Occupied - 1 |-> Contents[i + 1]]
    <2> DEFINE S == Item \cup {Blank}
    <2>1. /\ Tail(Contents) \in Seq(S)
          /\ Len(Tail(Contents)) = Occupied - 1
          /\ \A i \in 1..Occupied - 1 : Tail(Contents)[i] = Contents[i + 1]
      BY <1>4, <1>5, HeadTailProperties
    <2>2. Tail(Contents) \in [1..Occupied - 1 -> S]
      BY <2>1, LenProperties
    <2> QED BY <2>1, <2>2
  <1>9. \A i \in 1..Occupied - 1 : Contents[i + 1] = m_Data[Mask(m_nOutPtr + (i + 1) - 1)]
    BY <1>1 DEF Contents
  <1> QED BY <1>3, <1>5, <1>7, <1>8, <1>9

(* With typed indices, "only written slots are queued" says that the         *)
(* contents are a sequence of items; the second lemma is the next state's.   *)
LEMMA WrittenContents ==
    ASSUME TypeOK, OnlyWrittenSlotsQueued
    PROVE  Contents \in Seq(Item)
  <1>1. Occupied \in 0..N-1
    BY ContentsShape
  <1>2. Contents \in [1..Occupied -> Item]
    BY DEF OnlyWrittenSlotsQueued, Contents
  <1> QED BY <1>1, <1>2, RingAssumption

LEMMA ContentsWritten ==
    ASSUME TypeOK', Contents' \in Seq(Item)
    PROVE  OnlyWrittenSlotsQueued'
  <1>1. Occupied' \in 0..N-1
    BY RingAssumption DEF Occupied, Ahead, TypeOK, Slot
  <1>2. DOMAIN Contents' = 1..Occupied'
    BY DEF Contents
  <1>3. \A i \in 1..Occupied' : Contents'[i] \in Item
    <2>1. \A i \in DOMAIN Contents' : Contents'[i] \in Item
      BY LenProperties
    <2> QED BY <2>1, <1>2
  <1>4. \A i \in 1..Occupied' : Contents'[i] = m_Data'[Mask(m_nOutPtr' + i - 1)]
    BY DEF Contents
  <1> QED BY <1>3, <1>4 DEF OnlyWrittenSlotsQueued

(* Every step keeps the types and is a step of the FIFO, or stutters. *)
LEMMA RingStep ==
    ASSUME IInv, [Next]_vars
    PROVE  /\ TypeOK'
           /\ [Fifo!FifoNext]_<<Contents, ret>>
           /\ Contents' \in Seq(Item)
  <1> DEFINE Goal == /\ TypeOK'
                     /\ [Fifo!FifoNext]_<<Contents, ret>>
                     /\ Contents' \in Seq(Item)
  <1>0. /\ TypeOK
        /\ Contents \in Seq(Item)
        /\ Occupied \in 0..N-1
        /\ Len(Contents) = Occupied
    BY WrittenContents, ContentsShape DEF IInv
  <1>1. CASE UNCHANGED vars
    <2>1. Contents' = Contents /\ ret' = ret /\ TypeOK'
      BY <1>1, <1>0 DEF vars, Contents, Occupied, TypeOK
    <2> QED BY <2>1, <1>0
  <1>2. ASSUME NEW x \in Item, Enqueue(x) PROVE Goal
    <2>1. CASE ~Full
      <3>1. /\ TypeOK' /\ Occupied < N - 1 /\ Contents' = Append(Contents, x)
            /\ ret' = [op |-> "enqueue", ok |-> TRUE]
        BY <1>2, <2>1, EnqueueStep DEF Enqueue
      <3>2. Fifo!Put(x)
        BY <3>1, <1>0 DEF Fifo!Put
      <3> QED BY <3>1, <3>2, <1>0, AppendProperties DEF Fifo!FifoNext
    <2>2. CASE Full
      <3>1. /\ UNCHANGED <<m_Data, m_nInPtr, m_nOutPtr>>
            /\ ret' = [op |-> "enqueue", ok |-> FALSE]
        BY <1>2, <2>2 DEF Enqueue
      <3>2. TypeOK' /\ Contents' = Contents
        BY <3>1, <1>0 DEF TypeOK, Contents, Occupied
      <3>3. Occupied >= N - 1
        BY <2>2, <1>0, RingAssumption DEF Occupied, Ahead, Full, Mask, TypeOK, Slot
      <3>4. Fifo!Put(x)
        BY <3>1, <3>2, <3>3, <1>0 DEF Fifo!Put
      <3> QED BY <3>2, <3>4, <1>0 DEF Fifo!FifoNext
    <2> QED BY <2>1, <2>2
  <1>3. ASSUME NEW xs \in Batch, EnqueueMany(xs) PROVE Goal
    <2>1. xs \in Seq(Item)
      BY RingAssumption
    <2>2. PICK n \in 0..Len(xs) :
             /\ TypeOK'
             /\ Occupied + n <= N - 1
             /\ n = Len(xs) \/ Occupied + n = N - 1
             /\ ret' = [op |-> "enqueue_many", n |-> n]
             /\ Contents' = Contents \o SubSeq(xs, 1, n)
      BY <1>3, <2>1, EnqueueManyStep
    <2>3. Fifo!PutMany(xs)
      BY <2>2, <1>0 DEF Fifo!PutMany
    <2>4. SubSeq(xs, 1, n) \in Seq(Item)
      BY <2>1
    <2>5. Contents' \in Seq(Item)
      BY <2>2, <2>4, <1>0, ConcatProperties
    <2> QED BY <2>2, <2>3, <2>5 DEF Fifo!FifoNext
  <1>4. CASE Dequeue
    <2>1. CASE m_nInPtr # m_nOutPtr
      <3>1. /\ TypeOK' /\ Contents # <<>> /\ Contents' = Tail(Contents)
            /\ ret' = [op |-> "dequeue", ok |-> TRUE, item |-> Head(Contents)]
        BY <1>4, <2>1, DequeueStep DEF Dequeue
      <3>2. Fifo!Take
        BY <3>1 DEF Fifo!Take
      <3>3. Contents' \in Seq(Item)
        BY <3>1, <1>0, HeadTailProperties
      <3> QED BY <3>1, <3>2, <3>3 DEF Fifo!FifoNext
    <2>2. CASE m_nInPtr = m_nOutPtr
      <3>1. /\ UNCHANGED <<m_Data, m_nInPtr, m_nOutPtr>>
            /\ ret' = [op |-> "dequeue", ok |-> FALSE]
        BY <1>4, <2>2 DEF Dequeue
      <3>2. TypeOK' /\ Contents' = Contents
        BY <3>1, <1>0 DEF TypeOK, Contents, Occupied
      <3>3. Occupied = 0
        BY <2>2, <1>0 DEF Occupied, Ahead, TypeOK, Slot
      <3>4. Contents = <<>>
        BY <3>3, <1>0
      <3>5. Fifo!Take
        BY <3>1, <3>2, <3>4 DEF Fifo!Take
      <3> QED BY <3>2, <3>5, <1>0 DEF Fifo!FifoNext
    <2> QED BY <2>1, <2>2
  <1>5. CASE DequeueMany
    <2>1. /\ m_nOutPtr' = m_nInPtr /\ UNCHANGED <<m_Data, m_nInPtr>>
          /\ ret' = [op |-> "dequeue_many", items |-> Contents]
      BY <1>5 DEF DequeueMany
    <2>2. TypeOK' /\ Occupied' = 0
      BY <2>1, <1>0 DEF TypeOK, Occupied, Ahead, Slot
    <2>3. Contents' = <<>>
      BY <2>2 DEF Contents
    <2>4. Fifo!TakeAll
      BY <2>1, <2>3 DEF Fifo!TakeAll
    <2> QED BY <2>2, <2>3, <2>4 DEF Fifo!FifoNext
  <1> QED BY <1>1, <1>2, <1>3, <1>4, <1>5 DEF Next

LEMMA NextIInv == IInv /\ [Next]_vars => IInv'
  BY RingStep, ContentsWritten DEF IInv

LEMMA SpecIInv == Spec => []IInv
  BY InitIInv, NextIInv, PTL DEF Spec

(* m_nInPtr and m_nOutPtr never leave the array, whatever its size N and    *)
(* whatever calls are made: EnqueueOne and Dequeue mask after each step.    *)
THEOREM RingTypeCorrect == Spec => []TypeOK
  BY SpecIInv, PTL DEF IInv

(* No caller of Dequeue is ever handed a slot that was not written: the      *)
(* emptiness test and the spare slot of EnqueueOne keep the indices apart.   *)
THEOREM RingOnlyWritten == Spec => []OnlyWrittenSlotsQueued
  BY SpecIInv, PTL DEF IInv

(* CRingBuffer implements a FIFO of N-1 items: what is taken out is what was *)
(* accepted, in order, once, and an item is refused only when N-1 are held.  *)
THEOREM RingRefinesFifo == Spec => RingImplementsFifo
  <1>1. Init => Fifo!FifoInit
    <2> SUFFICES ASSUME Init PROVE Fifo!FifoInit OBVIOUS
    <2>1. Occupied = 0
      BY RingAssumption DEF Init, Occupied, Ahead
    <2>2. Contents = <<>>
      BY <2>1 DEF Contents
    <2> QED BY <2>2 DEF Init, Fifo!FifoInit
  <1>2. IInv /\ [Next]_vars => [Fifo!FifoNext]_(Fifo!fifoVars)
    BY RingStep DEF Fifo!fifoVars
  <1> QED BY <1>1, <1>2, SpecIInv, PTL DEF Spec, RingImplementsFifo, Fifo!FifoSpec

--------------------------------------------------------------------------------
(* The shared buffer.  cppQueue keeps two indices and a count: they agree,    *)
(* whatever is written, read, peeked at and flushed.                          *)
SharedIInv == SharedTypeOK /\ CountMatchesIndices

LEMMA SharedInitIInv == SharedInit => SharedIInv
  BY SharedAssumption DEF SharedInit, SharedIInv, SharedTypeOK, CountMatchesIndices, Record

LEMMA IncIdxType ==
    ASSUME NEW i \in Record
    PROVE  inc_idx(i) \in Record
  BY SharedAssumption DEF inc_idx, Record

LEMMA SharedNextIInv == SharedIInv /\ [SharedNext]_sharedVars => SharedIInv'
<1> SUFFICES ASSUME SharedIInv, [SharedNext]_sharedVars
             PROVE  SharedIInv'
    OBVIOUS
<1> USE SharedAssumption DEF SharedIInv
<1>1. ASSUME NEW b \in SharedByte, write(b)
      PROVE  SharedIInv'
  <2>1. CASE ~isFull(cnt)
    <3>1. /\ queue' = [queue EXCEPT ![in] = b]
          /\ in' = inc_idx(in) /\ cnt' = cnt + 1 /\ out' = out
      BY <1>1, <2>1 DEF write
    <3>2. SharedTypeOK'
      BY <2>1, <3>1, IncIdxType DEF SharedTypeOK, isFull
    <3>3. CountMatchesIndices'
      BY <2>1, <3>1 DEF CountMatchesIndices, SharedTypeOK, isFull, inc_idx, Record
    <3> QED
      BY <3>2, <3>3
  <2>2. CASE isFull(cnt)
    BY <1>1, <2>2 DEF write, SharedTypeOK, CountMatchesIndices
  <2> QED
    BY <2>1, <2>2
<1>2. CASE read
  <2>1. CASE ~isEmpty
    <3>1. out' = inc_idx(out) /\ cnt' = cnt - 1 /\ queue' = queue /\ in' = in
      BY <1>2, <2>1 DEF read
    <3>2. SharedTypeOK'
      BY <2>1, <3>1, IncIdxType DEF SharedTypeOK, isEmpty
    <3>3. CountMatchesIndices'
      BY <2>1, <3>1 DEF CountMatchesIndices, SharedTypeOK, isEmpty, inc_idx, Record
    <3> QED
      BY <3>2, <3>3
  <2>2. CASE isEmpty
    BY <1>2, <2>2 DEF read, SharedTypeOK, CountMatchesIndices
  <2> QED
    BY <2>1, <2>2
<1>3. CASE peek
  BY <1>3 DEF peek, SharedTypeOK, CountMatchesIndices
<1>4. CASE flush
  BY <1>4 DEF flush, SharedTypeOK, CountMatchesIndices, Record
<1>5. CASE UNCHANGED sharedVars
  BY <1>5 DEF sharedVars, SharedTypeOK, CountMatchesIndices
<1> QED
  BY <1>1, <1>2, <1>3, <1>4, <1>5 DEF SharedNext

LEMMA SharedSpecIInv == SharedSpec => []SharedIInv
  BY SharedInitIInv, SharedNextIInv, PTL DEF SharedSpec

(* The indices of the shared buffer stay inside the queue and the count      *)
(* never exceeds the records it has: push looks before it counts.            *)
THEOREM SharedTypeCorrect == SharedSpec => []SharedTypeOK
  BY SharedSpecIInv, PTL DEF SharedIInv

(* isEmpty and isFull, which look at the count alone, say what the two       *)
(* indices say: push, pop and flush keep the three in step.                  *)
THEOREM SharedCountMatches == SharedSpec => []CountMatchesIndices
  BY SharedSpecIInv, PTL DEF SharedIInv

--------------------------------------------------------------------------------
(* Records are counted from out, wrapping round; in is where the next goes.  *)
RecordAt(i) == (out + i - 1) % rec_nb
RecordValue == SharedByte \cup {Garbage}

LEMMA RecordArithmetic ==
    ASSUME SharedIInv
    PROVE  /\ \A i \in 1..cnt : RecordAt(i) \in Record
           /\ cnt < rec_nb => /\ RecordAt(cnt + 1) = in
                             /\ \A i \in 1..cnt : RecordAt(i) # in
           /\ cnt > 0 => RecordAt(1) = out
  BY SharedAssumption DEF SharedIInv, SharedTypeOK, CountMatchesIndices, RecordAt, Record

LEMMA SharedShape ==
    ASSUME SharedIInv
    PROVE  /\ cnt \in Nat
           /\ SharedContents = [i \in 1..cnt |-> queue[RecordAt(i)]]
           /\ SharedContents \in [1..cnt -> RecordValue]
           /\ SharedContents \in Seq(RecordValue)
           /\ Len(SharedContents) = cnt
  <1>1. cnt \in Nat
    BY SharedAssumption DEF SharedIInv, SharedTypeOK
  <1>2. SharedContents = [i \in 1..cnt |-> queue[RecordAt(i)]]
    BY DEF SharedContents, RecordAt
  <1>3. SharedContents \in [1..cnt -> RecordValue]
    BY <1>2, RecordArithmetic DEF SharedIInv, SharedTypeOK, RecordValue
  <1>4. SharedContents \in Seq(RecordValue) /\ Len(SharedContents) = cnt
    BY <1>1, <1>3
  <1> QED
    BY <1>1, <1>2, <1>3, <1>4

(* A byte that push accepts is appended ... *)
LEMMA WriteAppends ==
    ASSUME SharedIInv, NEW b \in SharedByte, cnt < rec_nb,
           queue' = [queue EXCEPT ![in] = b], cnt' = cnt + 1, out' = out
    PROVE  SharedContents' = Append(SharedContents, b)
  <1> DEFINE A == Append(SharedContents, b)
  <1>1. /\ cnt \in Nat /\ SharedContents = [i \in 1..cnt |-> queue[RecordAt(i)]]
        /\ SharedContents \in Seq(RecordValue) /\ Len(SharedContents) = cnt
    BY SharedShape
  <1>2. SharedContents' = [i \in 1..cnt+1 |-> queue'[RecordAt(i)]]
    BY DEF SharedContents, RecordAt
  <1>3. /\ A \in Seq(RecordValue) /\ Len(A) = cnt + 1
        /\ (\A i \in 1..cnt : A[i] = SharedContents[i]) /\ A[cnt + 1] = b
    BY <1>1, AppendProperties DEF RecordValue
  <1>4. A \in [1..cnt+1 -> RecordValue]
    BY <1>3, LenProperties
  <1>5. \A i \in 1..cnt : queue'[RecordAt(i)] = queue[RecordAt(i)]
    BY RecordArithmetic DEF SharedIInv, SharedTypeOK
  <1>6. queue'[RecordAt(cnt + 1)] = b
    BY RecordArithmetic DEF SharedIInv, SharedTypeOK
  <1>7. \A i \in 1..cnt+1 : A[i] = queue'[RecordAt(i)]
    <2>1. \A i \in 1..cnt+1 : i \in 1..cnt \/ i = cnt + 1
      BY <1>1
    <2>2. \A i \in 1..cnt : A[i] = queue'[RecordAt(i)]
      BY <1>1, <1>3, <1>5
    <2> QED
      BY <2>1, <2>2, <1>3, <1>6
  <1> QED
    BY <1>2, <1>4, <1>7

(* ... and pop takes the oldest one. *)
LEMMA ReadTakes ==
    ASSUME SharedIInv, cnt > 0,
           out' = inc_idx(out), cnt' = cnt - 1, queue' = queue
    PROVE  /\ SharedContents # <<>> /\ Head(SharedContents) = queue[out]
           /\ SharedContents' = Tail(SharedContents)
  <1>1. /\ cnt \in Nat /\ SharedContents = [i \in 1..cnt |-> queue[RecordAt(i)]]
        /\ SharedContents \in Seq(RecordValue) /\ Len(SharedContents) = cnt
    BY SharedShape
  <1>2. SharedContents # <<>> /\ Head(SharedContents) = queue[out]
    <2>1. SharedContents[1] = queue[RecordAt(1)] /\ RecordAt(1) = out
      BY <1>1, RecordArithmetic
    <2> QED
      BY <1>1, <2>1
  <1>3. SharedContents' = [i \in 1..cnt-1 |-> queue[(out' + i - 1) % rec_nb]]
    BY DEF SharedContents
  <1>4. \A i \in 1..cnt-1 : (out' + i - 1) % rec_nb = RecordAt(i + 1)
    BY SharedAssumption DEF SharedIInv, SharedTypeOK, Record, RecordAt, inc_idx
  <1>5. /\ Tail(SharedContents) \in Seq(RecordValue)
        /\ Len(Tail(SharedContents)) = cnt - 1
        /\ \A i \in 1..cnt-1 : Tail(SharedContents)[i] = SharedContents[i + 1]
    BY <1>1, <1>2, HeadTailProperties
  <1>6. Tail(SharedContents) \in [1..cnt-1 -> RecordValue]
    BY <1>5, LenProperties
  <1>7. \A i \in 1..cnt-1 : SharedContents[i + 1] = queue[RecordAt(i + 1)]
    BY <1>1
  <1> QED
    BY <1>2, <1>3, <1>4, <1>5, <1>6, <1>7

LEMMA SharedStep ==
    ASSUME SharedIInv, [SharedNext]_sharedVars
    PROVE  [SharedFifo!FifoNext]_<<SharedContents, answer>>
  <1>0. cnt \in 0..rec_nb /\ rec_nb \in Nat /\ Len(SharedContents) = cnt
        /\ SharedContents \in Seq(RecordValue)
    BY SharedAssumption, SharedShape DEF SharedIInv, SharedTypeOK
  <1>1. ASSUME UNCHANGED <<queue, in, out, cnt>>
        PROVE  SharedContents' = SharedContents
    BY <1>1 DEF SharedContents
  <1>2. ASSUME NEW b \in SharedByte, write(b)
        PROVE  SharedFifo!Put(b)
    <2>1. CASE ~isFull(cnt)
      <3>1. cnt < rec_nb
        BY <2>1, <1>0 DEF isFull
      <3>2. SharedContents' = Append(SharedContents, b) /\ answer' = [op |-> "enqueue", ok |-> TRUE]
        BY <1>2, <2>1, <3>1, WriteAppends DEF write
      <3> QED
        BY <3>1, <3>2, <1>0 DEF SharedFifo!Put
    <2>2. CASE isFull(cnt)
      <3>1. SharedContents' = SharedContents /\ answer' = [op |-> "enqueue", ok |-> FALSE]
        BY <1>1, <1>2, <2>2 DEF write
      <3> QED
        BY <2>2, <3>1, <1>0 DEF SharedFifo!Put, isFull
    <2> QED
      BY <2>1, <2>2
  <1>3. CASE read
    <2>1. CASE ~isEmpty
      <3>1. cnt > 0
        BY <2>1, <1>0 DEF isEmpty
      <3>2. /\ SharedContents # <<>> /\ Head(SharedContents) = queue[out] /\ SharedContents' = Tail(SharedContents)
            /\ answer' = [op |-> "dequeue", ok |-> TRUE, item |-> queue[out]]
        BY <1>3, <2>1, <3>1, ReadTakes DEF read
      <3> QED
        BY <3>2 DEF SharedFifo!FifoNext, SharedFifo!Take
    <2>2. CASE isEmpty
      <3>1. SharedContents' = SharedContents /\ answer' = [op |-> "dequeue", ok |-> FALSE]
        BY <1>1, <1>3, <2>2 DEF read
      <3>2. SharedContents = <<>>
        BY <2>2, <1>0 DEF isEmpty
      <3> QED
        BY <3>1, <3>2 DEF SharedFifo!FifoNext, SharedFifo!Take
    <2> QED
      BY <2>1, <2>2
  <1>4. CASE peek
    <2>1. SharedContents' = SharedContents
      BY <1>1, <1>4 DEF peek
    <2>2. isEmpty <=> SharedContents = <<>>
      BY <1>0 DEF isEmpty
    <2>3. ~isEmpty => Head(SharedContents) = queue[out]
      <3>1. ~isEmpty => cnt > 0 /\ SharedContents[1] = queue[RecordAt(1)] /\ RecordAt(1) = out
        BY <1>0, SharedShape, RecordArithmetic DEF isEmpty
      <3> QED
        BY <3>1, <1>0
    <2> QED
      BY <1>4, <2>1, <2>2, <2>3 DEF peek, SharedFifo!FifoNext, SharedFifo!Look
  <1>5. CASE flush
    <2>1. SharedContents' = <<>> /\ answer' = [op |-> "flush"]
      BY <1>5 DEF flush, SharedContents
    <2> QED
      BY <2>1 DEF SharedFifo!FifoNext, SharedFifo!Forget
  <1>6. CASE UNCHANGED sharedVars
    BY <1>1, <1>6 DEF sharedVars
  <1> QED
    BY <1>2, <1>3, <1>4, <1>5, <1>6 DEF SharedNext, SharedFifo!FifoNext

(* The byte pipe between the cores is a FIFO of rec_nb bytes, for every      *)
(* number of records: what is read is what push accepted, in order, once,    *)
(* and a byte is refused only when rec_nb are held.                          *)
THEOREM SharedRefinesFifo == SharedSpec => SharedImplementsFifo
  <1>1. SharedInit => SharedFifo!FifoInit
    BY DEF SharedInit, SharedContents, SharedFifo!FifoInit
  <1>2. SharedIInv /\ [SharedNext]_sharedVars => [SharedFifo!FifoNext]_(SharedFifo!fifoVars)
    BY SharedStep DEF SharedFifo!fifoVars
  <1> QED
    BY <1>1, <1>2, SharedSpecIInv, PTL DEF SharedSpec, SharedImplementsFifo, SharedFifo!FifoSpec

--------------------------------------------------------------------------------
(* The rotary encoder: what Read will put back, or take its clicks from.      *)
EncoderType ==
    /\ m_nDelta \in (-MaxDelta - 1)..MaxDelta /\ m_nPreviousState \in 0..3
    /\ loaded \subseteq Int /\ \A a, b \in loaded : a = b
    /\ knob \in Int /\ clicks \in Int /\ uncounted \in Int
    /\ slipped \in BOOLEAN

(* The quarter steps in clicks given out, in what is counted or being read,   *)
(* and in what the store of a Read wipes out.                                 *)
Accounted(count) == StepsPerClick * clicks + count + uncounted

(* While a Read is on its way its load counts, not what m_nDelta has become.  *)
Counts(count) == IF loaded = {} THEN count = m_nDelta ELSE count \in loaded

(* The steps accounted for end at the last state the pins were followed to.   *)
EncoderOK ==
    /\ EncoderType
    /\ \A count \in Int : Counts(count) =>
          /\ (m_nPreviousState - Accounted(count)) % 4 = 0
          /\ ~slipped => m_nPreviousState = Binary(knob) /\ knob = Accounted(count)

--------------------------------------------------------------------------------
(* A sample tells the step there was, if the knob has not moved by two, and   *)
(* always tells it up to whole cycles.                                        *)
LEMMA StepFollowsPins ==
    ASSUME NEW old \in 0..3, NEW position \in Int
    PROVE  LET step == Step(old - Binary(position))
               new  == IF step = 0 THEN old ELSE Binary(position)
           IN  /\ step \in -1..1 /\ new \in 0..3 /\ (new - (old + step)) % 4 = 0
               /\ \A k \in Int : old = Binary(k) /\ position - k \in -1..1
                     => step = position - k /\ new = Binary(position)
  <1> DEFINE b == Binary(position)
             step == Step(old - b)
  <1>1. b \in 0..3
    BY DEF Binary
  <1>2. old \in {0, 1, 2, 3} /\ b \in {0, 1, 2, 3}
    BY <1>1
  <1>3. /\ old = b => step = 0
        /\ old - b \in {-1, 3} => step = 1
        /\ old - b \in {1, -3} => step = -1
        /\ old - b \in {2, -2} => step = 0
    BY SMTT(30), <1>2 DEF Step
  <1>4. /\ step \in -1..1
        /\ LET new == IF step = 0 THEN old ELSE b
           IN  new \in 0..3 /\ (new - (old + step)) % 4 = 0
    <2> HIDE DEF step, b
    <2> QED
      BY <1>2, <1>3
  <1>5. ASSUME NEW k \in Int, old = Binary(k), position - k \in -1..1
        PROVE  step = position - k /\ (step = 0 => old = b)
    <2>1. old = k % 4 /\ b = position % 4 /\ position \in {k - 1, k, k + 1}
      BY <1>5 DEF Binary
    <2>2. /\ position = k => old = b
          /\ position = k + 1 => old - b \in {-1, 3}
          /\ position = k - 1 => old - b \in {1, -3}
      BY <2>1
    <2> HIDE DEF step, b
    <2> QED
      BY <1>2, <1>3, <2>1, <2>2
  <1> QED
    BY <1>4, <1>5

(* A count that wraps loses whole cycles.                                     *)
LEMMA WrapLosesCycles ==
    ASSUME NEW n \in (-MaxDelta - 2)..(MaxDelta + 1)
    PROVE  Wrapped(n) \in (-MaxDelta - 1)..MaxDelta /\ (Wrapped(n) - n) % 4 = 0
  <1>1. MaxDelta \in Nat /\ MaxDelta % 2 = 1
    BY EncoderAssumption
  <1>2. /\ Wrapped(n) \in (-MaxDelta - 1)..MaxDelta
        /\ Wrapped(n) - n \in {0, 2 * (MaxDelta + 1), -(2 * (MaxDelta + 1))}
    BY <1>1 DEF Wrapped
  <1>3. (2 * (MaxDelta + 1)) % 4 = 0 /\ (-(2 * (MaxDelta + 1))) % 4 = 0
    BY <1>1
  <1> QED
    BY <1>1, <1>2, <1>3

--------------------------------------------------------------------------------
LEMMA EncoderInitOK == EncoderInit => EncoderOK
  <1> SUFFICES ASSUME EncoderInit PROVE EncoderOK
    OBVIOUS
  <1>1. EncoderType
    <2>1. slipped \in BOOLEAN
      BY Zenon DEF EncoderInit
    <2>2. 0 \in (-MaxDelta - 1)..MaxDelta
      BY EncoderAssumption
    <2> QED
      BY <2>1, <2>2 DEF EncoderInit, EncoderType
  <1>2. \A count : Counts(count) => count = 0
    BY DEF EncoderInit, Counts
  <1>3. StepsPerClick * clicks = 0
    BY EncoderAssumption DEF EncoderInit
  <1>4. Accounted(0) = 0
    BY <1>3 DEF EncoderInit, Accounted
  <1> QED
    BY <1>1, <1>2, <1>4 DEF EncoderInit, EncoderOK, Binary

(* An interrupt, in the middle of a Read or not.                              *)
LEMMA SampleKeepsCount ==
    ASSUME EncoderOK, NEW position \in Int, ReadGPIOPins(position)
    PROVE  EncoderOK'
  <1> DEFINE step == Step(m_nPreviousState - Binary(position))
             new  == IF step = 0 THEN m_nPreviousState ELSE Binary(position)
  <1>0. EncoderType /\ m_nPreviousState \in 0..3 /\ knob \in Int
    BY DEF EncoderOK, EncoderType
  <1>1. /\ step \in -1..1 /\ new \in 0..3 /\ (new - (m_nPreviousState + step)) % 4 = 0
        /\ m_nPreviousState = Binary(knob) /\ position - knob \in -1..1
             => step = position - knob /\ new = Binary(position)
    BY <1>0, StepFollowsPins
  <1>2. /\ knob' = position /\ m_nDelta' = Wrapped(m_nDelta + step)
        /\ m_nPreviousState' = new /\ loaded' = loaded /\ clicks' = clicks
        /\ uncounted' = IF loaded = {} THEN uncounted ELSE uncounted + step
        /\ slipped' = \/ slipped \/ position - knob \notin -1..1
                      \/ loaded = {} /\ m_nDelta' # m_nDelta + step
    BY DEF ReadGPIOPins
  <1> HIDE DEF step, new
  <1>3. /\ m_nDelta' \in (-MaxDelta - 1)..MaxDelta /\ (m_nDelta' - (m_nDelta + step)) % 4 = 0
    <2>1. MaxDelta \in Nat /\ m_nDelta + step \in (-MaxDelta - 2)..(MaxDelta + 1)
      BY <1>0, <1>1, EncoderAssumption DEF EncoderType
    <2> QED
      BY <1>2, <2>1, WrapLosesCycles
  <1>4. EncoderType'
    BY <1>0, <1>1, <1>2, <1>3 DEF EncoderType
  <1>5. ASSUME NEW count \in Int, Counts(count)'
        PROVE  /\ (m_nPreviousState' - Accounted(count)') % 4 = 0
               /\ ~slipped' => m_nPreviousState' = Binary(knob') /\ knob' = Accounted(count)'
    <2> DEFINE before == IF loaded = {} THEN m_nDelta ELSE count
               known == StepsPerClick * clicks + uncounted
    <2>0. known \in Int /\ MaxDelta \in Nat /\ m_nDelta \in Int
      BY <1>0, EncoderAssumption DEF EncoderType
    <2>1. before \in Int /\ Counts(before)
      BY <1>2, <1>5, <2>0 DEF Counts
    <2>2. Accounted(before) = known + before
      BY <2>0, <2>1, <1>0, EncoderAssumption DEF Accounted, EncoderType
    <2>3. /\ (m_nPreviousState - (known + before)) % 4 = 0
          /\ ~slipped => m_nPreviousState = Binary(knob) /\ knob = known + before
      BY <2>1, <2>2 DEF EncoderOK
    <2>4. IF loaded = {} THEN count = m_nDelta' /\ before = m_nDelta ELSE before = count
      BY <1>2, <1>5 DEF Counts
    <2>5. Accounted(count)' = IF loaded = {} THEN known + m_nDelta' ELSE known + step + before
      BY <1>0, <1>1, <1>2, <2>0, <2>1, <2>4, EncoderAssumption DEF Accounted, EncoderType
    <2> HIDE DEF before, known
    <2>6. (m_nPreviousState' - Accounted(count)') % 4 = 0
      BY <1>0, <1>1, <1>2, <1>3, <2>0, <2>1, <2>3, <2>4, <2>5
    <2>7. ASSUME ~slipped'
          PROVE  m_nPreviousState' = Binary(knob') /\ knob' = Accounted(count)'
      <3>1. /\ ~slipped /\ position - knob \in -1..1
            /\ loaded = {} => m_nDelta' = m_nDelta + step
        BY <1>2, <2>7
      <3>2. step = position - knob /\ new = Binary(position)
        BY <1>1, <2>3, <3>1
      <3>3. Accounted(count)' = known + before + step
        BY <1>1, <2>0, <2>1, <2>4, <2>5, <3>1
      <3>4. known + before + step = position
        BY <1>0, <1>1, <2>0, <2>1, <2>3, <3>1, <3>2
      <3> QED
        BY <1>2, <3>2, <3>3, <3>4
    <2> QED
      BY <2>6, <2>7
  <1> QED
    BY <1>4, <1>5 DEF EncoderOK

LEMMA LoadKeepsCount ==
    ASSUME EncoderOK, ReadLoads
    PROVE  EncoderOK'
  BY EncoderAssumption DEF EncoderOK, EncoderType, ReadLoads, Counts, Accounted, Binary

(* Whole clicks go from the count to the sum, whichever way the knob went.    *)
LEMMA StoreKeepsCount ==
    ASSUME EncoderOK, ReadStores
    PROVE  EncoderOK'
  <1> PICK d \in loaded : clicks' = clicks + (d \div StepsPerClick) /\ m_nDelta' = d % StepsPerClick
    BY DEF ReadStores
  <1>1. EncoderType /\ d \in Int /\ clicks \in Int /\ uncounted \in Int /\ StepsPerClick \in {1, 2, 4}
    BY EncoderAssumption DEF EncoderOK, EncoderType
  <1>2. loaded' = {} /\ UNCHANGED <<m_nPreviousState, knob, uncounted, slipped>>
    BY DEF ReadStores
  <1>3. d \div StepsPerClick \in Int /\ d % StepsPerClick \in 0..3
        /\ StepsPerClick * (d \div StepsPerClick) + (d % StepsPerClick) = d
    <2>1. CASE StepsPerClick = 1
      BY <1>1, <2>1
    <2>2. CASE StepsPerClick = 2
      BY <1>1, <2>2
    <2>3. CASE StepsPerClick = 4
      BY <1>1, <2>3
    <2> QED
      BY <1>1, <2>1, <2>2, <2>3
  <1>4. EncoderType'
    BY <1>1, <1>2, <1>3, EncoderAssumption DEF EncoderType
  <1>5. Accounted(m_nDelta)' = Accounted(d)
    <2>1. StepsPerClick * (clicks + (d \div StepsPerClick))
             = StepsPerClick * clicks + StepsPerClick * (d \div StepsPerClick)
      BY <1>1, <1>3
    <2> DEFINE given == StepsPerClick * clicks
               taken == StepsPerClick * (d \div StepsPerClick)
    <2>2. given \in Int /\ taken \in Int /\ taken + (d % StepsPerClick) = d
      BY <1>1, <1>3
    <2>3. StepsPerClick * clicks' = given + taken
      BY <2>1
    <2> HIDE DEF given, taken
    <2>4. Accounted(m_nDelta)' = given + taken + (d % StepsPerClick) + uncounted
      BY <1>2, <2>3 DEF Accounted
    <2>5. Accounted(d) = given + d + uncounted
      BY DEF Accounted, given
    <2> QED
      BY <1>1, <1>3, <2>2, <2>4, <2>5
  <1>6. Counts(d)
    BY DEF Counts
  <1>7. /\ (m_nPreviousState - Accounted(d)) % 4 = 0
        /\ ~slipped => m_nPreviousState = Binary(knob) /\ knob = Accounted(d)
    BY <1>1, <1>6 DEF EncoderOK
  <1>8. \A count : Counts(count)' => count = m_nDelta'
    BY <1>2 DEF Counts
  <1> QED
    BY <1>2, <1>4, <1>5, <1>7, <1>8 DEF EncoderOK, Binary

LEMMA EncoderInvariance == EncoderSpec => []EncoderOK
  <1>1. EncoderOK /\ [EncoderNext]_encoderVars => EncoderOK'
    <2> SUFFICES ASSUME EncoderOK, [EncoderNext]_encoderVars PROVE EncoderOK'
      OBVIOUS
    <2>1. ASSUME NEW move \in -2..2, ReadGPIOPins(knob + move) PROVE EncoderOK'
      <3>1. knob + move \in Int
        BY DEF EncoderOK, EncoderType
      <3> QED
        BY <2>1, <3>1, SampleKeepsCount
    <2>2. CASE UNCHANGED encoderVars
      BY <2>2 DEF encoderVars, EncoderOK, EncoderType, Counts, Accounted
    <2> QED
      BY <2>1, <2>2, LoadKeepsCount, StoreKeepsCount DEF EncoderNext
  <1> QED
    BY EncoderInitOK, <1>1, PTL DEF EncoderSpec

(* However the knob is turned and whenever the interrupts come: what clicks   *)
(* and count lack of it is what a Read wiped out, and whole cycles.           *)
THEOREM ClicksAreAccountedFor == EncoderSpec => []ClicksFollowTheKnob
  <1>1. EncoderOK => ClicksFollowTheKnob
    <2> SUFFICES ASSUME EncoderOK, loaded = {}, m_nPreviousState = Binary(knob)
                 PROVE  LET missing == knob - (StepsPerClick * clicks + m_nDelta + uncounted)
                        IN  IF slipped THEN missing % 4 = 0 ELSE missing = 0
      BY DEF ClicksFollowTheKnob
    <2> DEFINE known == StepsPerClick * clicks + m_nDelta + uncounted
    <2>1. known \in Int /\ knob \in Int /\ m_nDelta \in Int
      BY EncoderAssumption DEF EncoderOK, EncoderType
    <2>2. Counts(m_nDelta) /\ Accounted(m_nDelta) = known
      BY DEF Counts, Accounted
    <2>3. (m_nPreviousState - known) % 4 = 0 /\ (~slipped => knob = known)
      BY <2>1, <2>2 DEF EncoderOK
    <2> HIDE DEF known
    <2>4. (knob - known) % 4 = 0
      BY <2>1, <2>3 DEF Binary
    <2>5. ~slipped => knob - known = 0
      BY <2>1, <2>3
    <2> QED
      BY <2>4, <2>5 DEF known
  <1> QED
    BY <1>1, EncoderInvariance, PTL

--------------------------------------------------------------------------------
(* The slot of the history that holds the k-th latest sample.                 *)
Slots   == 0..ButtonStateHistoryLength - 1
Back(k) == IF k <= m_nButtonStateHistoryIndex THEN m_nButtonStateHistoryIndex - k
           ELSE m_nButtonStateHistoryIndex - k + ButtonStateHistoryLength

HistoryOK ==
    /\ m_ButtonStateHistory \in [Slots -> SUBSET Buttons]
    /\ m_nButtonStateHistoryIndex \in Slots
    /\ window \in Seq(SUBSET Buttons) /\ Len(window) <= ButtonStateHistoryLength
    /\ \A k \in 1..Len(window) : window[k] = m_ButtonStateHistory[Back(k)]

(* Buttons the loop of Update has passed are told, the others were told by    *)
(* the Update before; except for those an interrupt has changed behind it.    *)
ToldOK ==
    /\ bit = Idle \/ bit \in Nat
    /\ \A b \in Buttons \ changed :
          b \in told <=> b \in IF b < bit THEN m_nButtonState ELSE m_nLastButtonState

PressedInHistory ==
    {b \in Buttons : \E i \in DOMAIN m_ButtonStateHistory : b \notin m_ButtonStateHistory[i]}

ButtonsOK ==
    /\ HistoryOK /\ ToldOK
    /\ window # <<>> => m_nButtonState = PressedInHistory

LEMMA ButtonsInitOK == ButtonsInit => ButtonsOK
  <1> SUFFICES ASSUME ButtonsInit PROVE ButtonsOK
    OBVIOUS
  <1>1. HistoryOK
    <2>1. /\ ButtonStateHistoryLength \in Nat \ {0} /\ m_ButtonStateHistory = [i \in Slots |-> {}]
          /\ m_nButtonStateHistoryIndex = 0 /\ window = <<>>
      BY ButtonsAssumption DEF ButtonsInit, Slots
    <2>2. 0 \in Slots
      BY <2>1 DEF Slots
    <2> QED
      BY <2>1, <2>2 DEF HistoryOK
  <1> QED
    BY <1>1, ButtonsAssumption DEF ButtonsInit, ButtonsOK, ToldOK, Idle

LEMMA SampleKeepsHistory ==
    ASSUME HistoryOK, NEW high \in SUBSET Buttons, InterruptHandler(high)
    PROVE  HistoryOK' /\ m_nButtonState' = PressedInHistory'
  <1> DEFINE H == ButtonStateHistoryLength
             index == m_nButtonStateHistoryIndex
             kept == IF Len(window) < H THEN window ELSE SubSeq(window, 1, H - 1)
  <1>0. /\ H \in Nat \ {0} /\ index \in Slots /\ window \in Seq(SUBSET Buttons)
        /\ Len(window) \in Nat /\ Len(window) <= H
        /\ m_ButtonStateHistory \in [Slots -> SUBSET Buttons]
    BY ButtonsAssumption DEF HistoryOK
  <1>1. /\ m_ButtonStateHistory' = [m_ButtonStateHistory EXCEPT ![index] = high]
        /\ index' = (index + 1) % H /\ window' = <<high>> \o kept
        /\ DebounceButtonState(high)
    BY DEF InterruptHandler
  <1>2. /\ kept \in Seq(SUBSET Buttons) /\ Len(kept) < H /\ Len(kept) <= Len(window)
        /\ \A k \in 1..Len(kept) : kept[k] = window[k]
    BY <1>0
  <1>3. index' = IF index + 1 = H THEN 0 ELSE index + 1
    <2>1. CASE index + 1 = H
      BY <1>0, <1>1, <2>1
    <2>2. CASE index + 1 # H
      <3>1. index + 1 \in 0..H - 1
        BY <1>0, <2>2 DEF Slots
      <3>2. \A m \in Nat \ {0} : \A a \in 0..m - 1 : a % m = a
        OBVIOUS
      <3>3. (index + 1) % H = index + 1
        BY <1>0, <3>1, <3>2
      <3> QED
        BY <1>1, <2>2, <3>3
    <2> QED
      BY <2>1, <2>2
  <1>4. index' \in Slots /\ m_ButtonStateHistory' \in [Slots -> SUBSET Buttons]
    BY <1>0, <1>1, <1>3 DEF Slots
  <1> HIDE DEF kept
  <1>5. /\ window' \in Seq(SUBSET Buttons) /\ Len(window') = Len(kept) + 1
        /\ window'[1] = high /\ \A k \in 1..Len(kept) : window'[k + 1] = kept[k]
    BY <1>1, <1>2
  <1>6. Back(1)' = index
    BY <1>0, <1>3 DEF Back, Slots
  <1>7. ASSUME NEW k \in 1..(H - 1)
        PROVE  Back(k + 1)' = Back(k) /\ Back(k) \in Slots \ {index}
    BY <1>0, <1>3 DEF Back, Slots
  <1>8. ASSUME NEW j \in 1..Len(window')
        PROVE  window'[j] = m_ButtonStateHistory'[Back(j)']
    <2>1. CASE j = 1
      BY <1>0, <1>1, <1>5, <1>6, <2>1
    <2>2. CASE j # 1
      <3> DEFINE k == j - 1
      <3>1. k \in 1..Len(kept) /\ k \in 1..(H - 1) /\ k \in 1..Len(window) /\ j = k + 1
        BY <1>0, <1>2, <1>5, <2>2
      <3> HIDE DEF k
      <3>2. window'[k + 1] = m_ButtonStateHistory[Back(k)]
        BY <1>2, <1>5, <3>1 DEF HistoryOK
      <3>3. Back(j)' = Back(k) /\ m_ButtonStateHistory'[Back(k)] = m_ButtonStateHistory[Back(k)]
        BY <1>0, <1>1, <1>7, <3>1
      <3> QED
        BY <3>1, <3>2, <3>3
    <2> QED
      BY <2>1, <2>2
  <1>9. m_nButtonState' = PressedInHistory'
    BY <1>0, <1>1, <1>4 DEF DebounceButtonState, PressedInHistory
  <1> QED
    BY <1>0, <1>2, <1>4, <1>5, <1>8, <1>9 DEF HistoryOK

LEMMA ButtonsNextOK == ButtonsOK /\ [ButtonsNext]_buttonVars => ButtonsOK'
  <1> SUFFICES ASSUME ButtonsOK, [ButtonsNext]_buttonVars PROVE ButtonsOK'
    OBVIOUS
  <1>0. HistoryOK /\ ToldOK
    BY DEF ButtonsOK
  <1>1. ASSUME NEW high \in SUBSET Buttons, InterruptHandler(high) PROVE ButtonsOK'
    <2>1. HistoryOK' /\ m_nButtonState' = PressedInHistory'
      BY <1>0, <1>1, SampleKeepsHistory
    <2>2. ToldOK'
      BY <1>0, <1>1, ButtonsAssumption DEF InterruptHandler, ToldOK, Idle
    <2> QED
      BY <2>1, <2>2 DEF ButtonsOK
  <1>2. UNCHANGED <<historyVars, m_nButtonState>> /\ ToldOK' => ButtonsOK'
    BY <1>0 DEF ButtonsOK, historyVars, HistoryOK, Back, PressedInHistory
  <1>3. CASE UpdateBegins
    BY <1>0, <1>2, <1>3, ButtonsAssumption DEF UpdateBegins, ToldOK, Idle
  <1>4. CASE UpdateBit
    <2>1. ToldOK'
      BY <1>0, <1>4, ButtonsAssumption DEF UpdateBit, ToldOK, Idle
    <2> QED
      BY <1>2, <1>4, <2>1 DEF UpdateBit
  <1>5. CASE UpdateEnds
    <2>1. \A b \in Buttons : b < bit
      BY <1>0, <1>5, ButtonsAssumption DEF UpdateEnds, ToldOK, Idle
    <2>2. ToldOK'
      BY <1>0, <1>5, <2>1, ButtonsAssumption DEF UpdateEnds, ToldOK, Idle
    <2> QED
      BY <1>2, <1>5, <2>2 DEF UpdateEnds
  <1>6. CASE UNCHANGED buttonVars
    BY <1>0, <1>2, <1>6 DEF buttonVars, ToldOK
  <1> QED
    BY <1>1, <1>3, <1>4, <1>5, <1>6 DEF ButtonsNext

(* However contacts bounce and whenever the interrupts come: what the last    *)
(* event of a button said is what the latest samples say.                     *)
THEOREM EventsFollowButtons == ButtonsSpec => []EventsAreDebounced
  <1>1. ButtonsOK => EventsAreDebounced
    <2> SUFFICES ASSUME ButtonsOK, bit = Idle, m_nButtonState = m_nLastButtonState,
                        Len(window) = ButtonStateHistoryLength, NEW b \in Buttons \ changed
                 PROVE  b \in told <=> \E i \in DOMAIN window : b \notin window[i]
      BY DEF EventsAreDebounced
    <2>0. /\ HistoryOK /\ ToldOK /\ ButtonStateHistoryLength \in Nat \ {0}
          /\ window \in Seq(SUBSET Buttons)
      BY ButtonsAssumption DEF ButtonsOK, HistoryOK
    <2>1. b \in told <=> b \in PressedInHistory
      <3>1. window # <<>> /\ ~(b < bit)
        BY <2>0, ButtonsAssumption DEF Idle
      <3> QED
        BY <2>0, <3>1 DEF ButtonsOK, ToldOK
    <2>2. ASSUME NEW i \in Slots
          PROVE  \E k \in DOMAIN window : window[k] = m_ButtonStateHistory[i]
      <3> DEFINE index == m_nButtonStateHistoryIndex
                 k == IF i < index THEN index - i ELSE index - i + ButtonStateHistoryLength
      <3>1. k \in 1..Len(window) /\ Back(k) = i
        BY <2>0 DEF HistoryOK, Slots, Back
      <3> HIDE DEF k
      <3> QED
        BY <2>0, <3>1 DEF HistoryOK
    <2>3. ASSUME NEW k \in DOMAIN window
          PROVE  \E i \in Slots : window[k] = m_ButtonStateHistory[i]
      <3>1. k \in 1..Len(window) /\ Back(k) \in Slots
        BY <2>0 DEF HistoryOK, Slots, Back
      <3> QED
        BY <2>0, <3>1 DEF HistoryOK
    <2>4. DOMAIN m_ButtonStateHistory = Slots
      BY <2>0 DEF HistoryOK
    <2> QED
      BY <2>1, <2>2, <2>3, <2>4 DEF PressedInHistory
  <1>2. ButtonsSpec => []ButtonsOK
    BY ButtonsInitOK, ButtonsNextOK, PTL DEF ButtonsSpec
  <1> QED
    BY <1>1, <1>2, PTL

--------------------------------------------------------------------------------
(* The parser and the bytes it has been given. *)
(* The last status of a stream s is at j, which is 0 if it has none. *)
LastStatusAt(s, j) ==
    /\ j \in 0..Len(s)
    /\ j > 0 => IsStatus(s[j])
    /\ \A k \in j+1..Len(s) : ~IsStatus(s[k])

(* What the parser holds then: the SysEx since j, as long as it fits; that   *)
(* status and one data byte at most; between messages the status, if the     *)
(* next one may run on.                                                      *)
HoldsSince(p, s, j) ==
    LET n == Len(s)
        st == s[j]
        len == p.m_nMessageLength
        b0 == p.m_MessageBuffer[0]
    IN  /\ p.m_State = "SysExByte" =>
             /\ j > 0 /\ st = SysExStart /\ len = n - j + 1
             /\ \A k \in 1..len : p.m_MessageBuffer[k-1] = s[j+k-1]
        /\ p.m_State = "DataByte" =>
             /\ j > 0 /\ st = b0
             /\ len = 1 => n = j
             /\ len = 2 => /\ ~OneDataByte(st) /\ (n - j) % 2 = 1
                           /\ p.m_MessageBuffer[1] = s[n]
                           /\ st > SysExStart => n - j = 1
        /\ p.m_State = "StatusByte" =>
             /\ b0 # 0 => /\ j > 0 /\ st = b0
                          /\ OneDataByte(st) \/ (n - j) % 2 = 0
             /\ b0 = 0 => \/ j = 0
                          \/ st \in {244, 245, SysExEnd}
                          \/ st \in {241, 242, 243} /\ n - j >= DataBytes(st)
                          \/ st = SysExStart /\ n - j >= SysExBufferSize

LEMMA StatusBeforeIs ==
    ASSUME NEW s, NEW i \in Nat, NEW j \in 0..i, j > 0 => IsStatus(s[j]),
           \A k \in j+1..i : ~IsStatus(s[k])
    PROVE  StatusBefore(s, i) = j
  <1> DEFINE S == {k \in 1..i : IsStatus(s[k])} \cup {0}
  <1>1. j \in S /\ \A k \in S : k \in Nat /\ j >= k
    <2>1. ASSUME NEW k \in 1..i, IsStatus(s[k]) PROVE j >= k
      <3>1. ~(k \in j+1..i)
        BY <2>1
      <3> QED BY <3>1
    <2> QED BY <2>1
  <1>2. \A x \in S : (\A y \in S : x >= y) => x = j
    BY <1>1
  <1> HIDE DEF S
  <1>3. Max(S) = j
    BY <1>1, <1>2 DEF Max
  <1> QED BY <1>3 DEF StatusBefore, S

LEMMA OneMore ==
    ASSUME NEW s \in Seq(Octet), NEW b \in Octet
    PROVE  /\ Append(s, b) \in Seq(Octet) /\ Len(s) \in Nat
           /\ Len(Append(s, b)) = Len(s) + 1
           /\ \A k \in 1..Len(s) : Append(s, b)[k] = s[k] /\ s[k] \in Octet
           /\ Append(s, b)[Len(s) + 1] = b
  OBVIOUS

(* The short message at the end of a stream. *)
LEMMA ShortAtEnd ==
    ASSUME NEW t \in Seq(Octet), NEW st \in Octet, NEW d \in 1..2, d <= Len(t),
           NEW msg \in [1..d+1 -> Octet], msg[1] = st,
           \A i \in 1..d : msg[i+1] = t[Len(t) - d + i]
    PROVE  msg = <<st>> \o SubSeq(t, Len(t) - d + 1, Len(t))
  <1> DEFINE n == Len(t)
             u == SubSeq(t, n - d + 1, n)
             w == <<st>>
  <1>1. n \in Nat /\ n - d + 1 \in Int /\ \A i \in n-d+1..n : t[i] \in Octet
    OBVIOUS
  <1>2. u \in Seq(Octet) /\ Len(u) = d /\ \A i \in 1..d : u[i] = t[n - d + i]
    <2> DEFINE a == n - d + 1
    <2>1. a \in 1..n+1 /\ n \in a-1..n /\ n - a + 1 = d
      BY <1>1
    <2>2. /\ SubSeq(t, a, n) \in Seq(Octet) /\ Len(SubSeq(t, a, n)) = n - a + 1
          /\ \A i \in 1..n-a+1 : SubSeq(t, a, n)[i] = t[a+i-1]
      BY <2>1, Piece
    <2>3. \A i \in 1..d : a + i - 1 = n - d + i
      BY <1>1
    <2> QED BY <2>1, <2>2, <2>3
  <1>3. w \in Seq(Octet) /\ Len(w) = 1 /\ w[1] = st
    OBVIOUS
  <1> HIDE DEF u, w
  <1>4. /\ w \o u \in Seq(Octet) /\ Len(w \o u) = d + 1
        /\ \A i \in 1..d+1 : (w \o u)[i] = IF i <= 1 THEN w[i] ELSE u[i-1]
    <2>1. Len(w) + Len(u) = d + 1
      BY <1>2, <1>3
    <2>2. \A i \in 1..d+1 : (w \o u)[i] = IF i <= 1 THEN w[i] ELSE u[i-1]
      <3> SUFFICES ASSUME NEW i \in 1..d+1
                   PROVE  (w \o u)[i] = IF i <= 1 THEN w[i] ELSE u[i-1]
        OBVIOUS
      <3>1. i \in 1..Len(w)+Len(u)
        BY <2>1
      <3>2. (w \o u)[i] = IF i <= Len(w) THEN w[i] ELSE u[i - Len(w)]
        BY <1>2, <1>3, <3>1, Concat
      <3> QED BY <1>3, <3>2
    <2>3. w \o u \in Seq(Octet) /\ Len(w \o u) = Len(w) + Len(u)
      BY <1>2, <1>3, LaidEndToEnd
    <2> QED BY <2>1, <2>2, <2>3
  <1>5. msg \in Seq(Octet) /\ Len(msg) = d + 1
    <2>1. d + 1 \in Nat
      OBVIOUS
    <2> QED BY <2>1, IsSequence
  <1>6. ASSUME NEW i \in 1..d+1 PROVE msg[i] = (w \o u)[i]
    <2>1. CASE i = 1
      BY <1>3, <1>4, <2>1
    <2>2. CASE i > 1
      <3> DEFINE k == i - 1
      <3>1. k \in 1..d /\ k + 1 = i /\ ~(i <= 1)
        BY <2>2
      <3>2. (w \o u)[i] = u[k]
        BY <1>4, <3>1
      <3> HIDE DEF k
      <3>3. msg[i] = t[n - d + k]
        BY <3>1
      <3>4. u[k] = t[n - d + k]
        BY <1>2, <3>1
      <3> QED BY <3>2, <3>3, <3>4
    <2>3. i = 1 \/ i > 1
      OBVIOUS
    <2> QED BY <2>1, <2>2, <2>3
  <1>7. msg = w \o u
    BY <1>4, <1>5, <1>6, SameSequence
  <1> QED BY <1>7 DEF w, u

(* The SysEx message at the end of a stream. *)
LEMMA SysExAtEnd ==
    ASSUME NEW t \in Seq(Octet), NEW j \in 1..Len(t), NEW m, m = Len(t) - j + 1,
           NEW msg \in [1..m -> Octet], \A i \in 1..m : msg[i] = t[j + i - 1]
    PROVE  msg = SubSeq(t, j, Len(t))
  <1> DEFINE n == Len(t)
             u == SubSeq(t, j, n)
  <1>1. n \in Nat /\ j \in Int /\ m \in Nat /\ \A i \in j..n : t[i] \in Octet
    OBVIOUS
  <1>2. u \in Seq(Octet) /\ Len(u) = m /\ \A i \in 1..m : u[i] = t[j + i - 1]
    <2>1. j \in 1..n+1 /\ n \in j-1..n
      BY <1>1
    <2> QED BY <2>1, Piece
  <1> HIDE DEF u
  <1>3. msg \in Seq(Octet) /\ Len(msg) = m
    <2>1. m \in Nat /\ msg \in [1..m -> Octet]
      BY <1>1
    <2> HIDE DEF n
    <2> QED BY <2>1, IsSequence, Zenon
  <1>4. msg = u
    BY <1>2, <1>3, SameSequence
  <1> QED BY <1>4 DEF u
--------------------------------------------------------------------------------
(* What a stream ending in a data byte calls for, by its last status. *)
Quiet(t, j, ign) ==
    LET n  == Len(t)
        st == t[j]
        d  == DataBytes(st)
    IN  \/ j = 0 \/ n = j
        \/ st \in {SysExStart, 244, 245, TuneRequest, SysExEnd}
        \/ (n - j) % d # 0
        \/ st > SysExStart /\ n - j # d
        \/ ign /\ IsNoteOn(st)

LEMMA ShortMessagesAt ==
    ASSUME NEW t \in Seq(Octet), NEW j, LastStatusAt(t, j), NEW ign \in BOOLEAN
    PROVE  ShortMessages(t, ign) =
             IF Quiet(t, j, ign) THEN <<>>
             ELSE <<Short(<<t[j]>> \o SubSeq(t, Len(t) - DataBytes(t[j]) + 1, Len(t)))>>
  <1>1. StatusBefore(t, Len(t)) = j
    BY StatusBeforeIs DEF LastStatusAt
  <1> QED BY <1>1 DEF ShortMessages, Quiet

(* A data byte leaves the last status where it is. *)
LEMMA StatusStays ==
    ASSUME NEW s \in Seq(Octet), NEW b \in Octet, ~IsStatus(b), NEW j, LastStatusAt(s, j)
    PROVE  LastStatusAt(Append(s, b), j) /\ (j > 0 => Append(s, b)[j] = s[j])
  <1> DEFINE t == Append(s, b)
  <1>1. /\ t \in Seq(Octet) /\ Len(s) \in Nat /\ Len(t) = Len(s) + 1
        /\ \A k \in 1..Len(s) : t[k] = s[k] /\ s[k] \in Octet
        /\ t[Len(s) + 1] = b
    BY OneMore
  <1> HIDE DEF t
  <1>2. j \in 0..Len(t) /\ (j > 0 => j \in 1..Len(s))
    BY <1>1 DEF LastStatusAt
  <1>3. ASSUME NEW k \in j+1..Len(t) PROVE ~IsStatus(t[k])
    <2>1. k = Len(s) + 1 \/ (k \in j+1..Len(s) /\ k \in 1..Len(s))
      BY <1>1, <1>2
    <2> QED BY <1>1, <2>1 DEF LastStatusAt
  <1> QED BY <1>1, <1>2, <1>3 DEF LastStatusAt, t

(* The next byte is a data byte: the state of the parser and its call. *)
LEMMA DataInSysEx ==
    ASSUME NEW p, WellFormed(p), NEW s \in Seq(Octet), NEW j,
           LastStatusAt(s, j), HoldsSince(p, s, j), p.m_State = "SysExByte",
           NEW b \in Octet, ~IsStatus(b), NEW ign \in BOOLEAN
    PROVE  /\ HoldsSince(ParseByte(p, b, ign).p, Append(s, b), j)
           /\ ParseByte(p, b, ign).calls = ShortMessages(Append(s, b), ign)
  <1> DEFINE t == Append(s, b)
             r == ParseByte(p, b, ign)
             n == Len(s)
             len == p.m_nMessageLength
  <1>1. /\ t \in Seq(Octet) /\ n \in Nat /\ Len(t) = n + 1
        /\ \A k \in 1..n : t[k] = s[k] /\ s[k] \in Octet
        /\ t[n + 1] = b
    BY OneMore
  <1>2. /\ j \in 1..n /\ s[j] = SysExStart /\ len = n - j + 1
        /\ \A k \in 1..len : p.m_MessageBuffer[k-1] = s[j+k-1]
    BY <1>1 DEF HoldsSince, LastStatusAt
  <1>3. LastStatusAt(t, j) /\ t[j] = SysExStart
    BY <1>1, <1>2, StatusStays
  <1>4. len \in 1..SysExBufferSize /\ SysExBufferSize \in Nat
    BY ParserAssumption DEF WellFormed, LengthMatches
  <1>5. ShortMessages(t, ign) = <<>>
    <2>1. Quiet(t, j, ign)
      BY <1>3 DEF Quiet
    <2> QED BY <1>1, <1>3, <2>1, ShortMessagesAt
  <1>6. CASE len < SysExBufferSize
    <2>1. /\ r.calls = <<>> /\ Within(r.p, "SysExByte", len + 1)
          /\ r.p.m_MessageBuffer[len] = b
          /\ \A k \in 0..len-1 : r.p.m_MessageBuffer[k] = p.m_MessageBuffer[k]
      BY <1>6, SysExGrows
    <2> HIDE DEF r, t, len
    <2>2. ASSUME NEW k \in 1..len+1 PROVE r.p.m_MessageBuffer[k-1] = t[j+k-1]
      <3>1. CASE k = len + 1
        <4>1. k - 1 = len /\ j + k - 1 = n + 1
          BY <1>1, <1>2, <1>4, <3>1
        <4> QED BY <1>1, <2>1, <4>1
      <3>2. CASE k # len + 1
        <4>1. k \in 1..len /\ k - 1 \in 0..len-1 /\ j + k - 1 \in 1..n
          BY <1>1, <1>2, <1>4, <3>2
        <4> QED BY <1>1, <1>2, <2>1, <4>1
      <3> QED BY <3>1, <3>2
    <2>3. len + 1 = Len(t) - j + 1 /\ j > 0
      BY <1>1, <1>2
    <2>4. HoldsSince(r.p, t, j)
      BY <1>3, <2>1, <2>2, <2>3 DEF HoldsSince, Within
    <2> QED BY <1>5, <2>1, <2>4 DEF r, t
  <1>7. CASE len = SysExBufferSize
    <2>1. r.calls = <<>> /\ Between(r.p, 0)
      BY <1>7, SysExOverflows
    <2> HIDE DEF r, t, len
    <2>2. Len(t) - j >= SysExBufferSize
      BY <1>1, <1>2, <1>4, <1>7
    <2>3. HoldsSince(r.p, t, j)
      BY <1>3, <2>1, <2>2 DEF HoldsSince, Between
    <2> QED BY <1>5, <2>1, <2>3 DEF r, t
  <1> QED BY <1>4, <1>6, <1>7

LEMMA DataInShort ==
    ASSUME NEW p, WellFormed(p), NEW s \in Seq(Octet), NEW j,
           LastStatusAt(s, j), HoldsSince(p, s, j), p.m_State = "DataByte",
           NEW b \in Octet, ~IsStatus(b), NEW ign \in BOOLEAN
    PROVE  /\ HoldsSince(ParseByte(p, b, ign).p, Append(s, b), j)
           /\ ParseByte(p, b, ign).calls = ShortMessages(Append(s, b), ign)
  <1> DEFINE t == Append(s, b)
             r == ParseByte(p, b, ign)
             n == Len(s)
             len == p.m_nMessageLength
             st == p.m_MessageBuffer[0]
             d == DataBytes(st)
  <1>1. /\ t \in Seq(Octet) /\ n \in Nat /\ Len(t) = n + 1
        /\ \A k \in 1..n : t[k] = s[k] /\ s[k] \in Octet
        /\ t[n + 1] = b
    BY OneMore
  <1>2. /\ len \in 1..2 /\ st \in 128..243 \ {SysExStart}
        /\ len = 2 => ~OneDataByte(st)
    BY DEF WellFormed, LengthMatches
  <1>3. /\ j \in 1..n /\ s[j] = st
        /\ len = 1 => n = j
        /\ len = 2 => /\ (n - j) % 2 = 1 /\ p.m_MessageBuffer[1] = s[n]
                      /\ st > SysExStart => n - j = 1
    BY <1>1 DEF HoldsSince, LastStatusAt
  <1>4. LastStatusAt(t, j) /\ t[j] = st
    BY <1>1, <1>3, StatusStays
  <1>5. d = IF OneDataByte(st) THEN 1 ELSE 2
    BY DEF DataBytes
  <1>6. ShortMessages(t, ign)
          = IF Quiet(t, j, ign) THEN <<>>
            ELSE <<Short(<<st>> \o SubSeq(t, Len(t) - d + 1, Len(t)))>>
    <2>1. ShortMessages(t, ign) =
             IF Quiet(t, j, ign) THEN <<>>
             ELSE <<Short(<<t[j]>> \o SubSeq(t, Len(t) - DataBytes(t[j]) + 1, Len(t)))>>
      BY <1>1, <1>4, ShortMessagesAt
    <2>2. DataBytes(t[j]) = d
      BY <1>4
    <2> HIDE DEF t, d, st
    <2> QED BY <1>4, <2>1, <2>2
  <1>7. st \notin {SysExStart, 244, 245, TuneRequest, SysExEnd}
    <2> HIDE DEF st
    <2>1. st \in Nat /\ st <= 243 /\ st # SysExStart
      BY <1>2 DEF SysExStart
    <2> QED BY <2>1 DEF TuneRequest, SysExEnd
  <1> HIDE DEF t, d, len
  <1>8. CASE len = 2 \/ OneDataByte(st)
    <2>1. d = len
      BY <1>2, <1>5, <1>8
    <2>2. Quiet(t, j, ign) <=> ign /\ IsNoteOn(st)
      <3>1. (n + 1 - j) % d = 0 /\ (st > SysExStart => n + 1 - j = d)
        <4>1. CASE len = 1
          BY <1>3, <2>1, <4>1
        <4>2. CASE len = 2
          BY <1>1, <1>3, <2>1, <4>2
        <4> QED BY <1>2, <4>1, <4>2
      <3>2. DataBytes(t[j]) = d /\ j # 0 /\ Len(t) # j /\ Len(t) - j = n + 1 - j
        BY <1>1, <1>3, <1>4 DEF d
      <3> HIDE DEF st, n
      <3> QED BY <1>4, <1>7, <3>1, <3>2 DEF Quiet
    <2> DEFINE q == r.p
    <2>3. /\ Between(q, RunOn(st))
          /\ \E msg \in [1..len+1 -> Octet] :
               /\ r.calls = IF IsNoteOn(st) /\ ign THEN <<>> ELSE <<Short(msg)>>
               /\ msg[len+1] = b /\ \A i \in 1..len : msg[i] = p.m_MessageBuffer[i-1]
      BY ZenonT(40), <1>8, DataCompletes DEF len, Completes
    <2> HIDE DEF r, st
    <2>4. PICK msg \in [1..len+1 -> Octet] :
               /\ r.calls = IF IsNoteOn(st) /\ ign THEN <<>> ELSE <<Short(msg)>>
               /\ msg[len+1] = b /\ \A i \in 1..len : msg[i] = p.m_MessageBuffer[i-1]
      BY <2>3
    <2>5. msg = <<st>> \o SubSeq(t, Len(t) - d + 1, Len(t))
      <3>1. msg[1] = st
        BY <1>2, <2>4 DEF st
      <3>2. \A i \in 1..d : msg[i+1] = t[Len(t) - d + i]
        <4>1. CASE len = 1
          BY <1>1, <2>1, <2>4, <4>1
        <4>2. CASE len = 2
          <5>1. msg[2] = s[n] /\ msg[3] = b
            BY <1>3, <2>4, <4>2
          <5>2. n \in 1..n
            BY <1>1, <1>3
          <5>3. \A i \in 1..d : i = 1 \/ i = 2
            BY <2>1, <4>2
          <5> QED BY <1>1, <2>1, <4>2, <5>1, <5>2, <5>3
        <4> QED BY <1>2, <4>1, <4>2
      <3>3. d \in 1..2 /\ d <= Len(t) /\ st \in Octet
        BY <1>1, <1>2, <1>3, <2>1 DEF Octet
      <3>4. msg \in [1..d+1 -> Octet]
        BY <2>1
      <3> QED BY <1>1, <3>1, <3>2, <3>3, <3>4, ShortAtEnd
    <2>6. r.calls = ShortMessages(t, ign)
      BY <1>6, <2>2, <2>4, <2>5
    <2>7. HoldsSince(q, t, j)
      <3>1. /\ q.m_State = "StatusByte"
            /\ q.m_MessageBuffer[0] = IF st < SysExStart THEN st ELSE 0
        BY <2>3 DEF Between, RunOn
      <3>2. st < SysExStart => OneDataByte(st) \/ (Len(t) - j) % 2 = 0
        <4>1. CASE len = 2
          <5>1. n - j \in Nat /\ Len(t) - j = (n - j) + 1
            BY <1>1, <1>3
          <5> QED BY <1>3, <4>1, <5>1, Parity
        <4>2. CASE OneDataByte(st)
          BY <4>2
        <4> QED BY <1>8, <4>1, <4>2
      <3>3. ~(st < SysExStart) => st \in {241, 242, 243} /\ Len(t) - j >= DataBytes(st)
        <4>1. Len(t) - j >= d
          <5>1. CASE len = 1
            BY <1>1, <1>3, <2>1, <5>1
          <5>2. CASE len = 2
            <6>1. n # j
              BY <1>3, <5>2
            <6> QED BY <1>1, <1>3, <2>1, <5>2, <6>1
          <5> QED BY <1>2, <5>1, <5>2
        <4>2. ~(st < SysExStart) => st \in {241, 242, 243}
          BY <1>2 DEF SysExStart
        <4> QED BY <4>1, <4>2 DEF d
      <3>4. j > 0 /\ st # 0 /\ t[j] = st
        BY SMTT(30), <1>2, <1>3, <1>4
      <3> HIDE DEF q
      <3> QED BY <3>1, <3>2, <3>3, <3>4 DEF HoldsSince
    <2> QED BY <2>6, <2>7 DEF r, t
  <1>9. CASE len = 1 /\ ~OneDataByte(st)
    <2>1. d = 2 /\ n = j
      BY <1>3, <1>5, <1>9
    <2>2. Quiet(t, j, ign)
      <3>1. (Len(t) - j) % 2 # 0 /\ DataBytes(t[j]) = 2
        BY <1>1, <1>3, <1>4, <2>1 DEF d
      <3> QED BY <3>1 DEF Quiet
    <2>3. /\ r.calls = <<>> /\ Within(r.p, "DataByte", 2)
          /\ r.p.m_MessageBuffer[0] = st
          /\ r.p.m_MessageBuffer[1] = b
      BY <1>9, DataWaits DEF len
    <2> HIDE DEF r, st
    <2>4. HoldsSince(r.p, t, j)
      <3>1. Len(t) - j = 1 /\ j > 0 /\ 1 % 2 = 1
        BY <1>1, <1>3, <2>1
      <3> QED BY <1>1, <1>4, <1>9, <2>3, <3>1 DEF HoldsSince, Within
    <2> QED BY <1>6, <2>2, <2>3, <2>4 DEF r, t
  <1> QED BY <1>2, <1>8, <1>9

LEMMA NoSysExRunsOn ==
    ASSUME NEW x, x = 0 \/ x \in 128..239
    PROVE  x # SysExStart
  BY DEF SysExStart

LEMMA DataBetween ==
    ASSUME NEW p, WellFormed(p), NEW s \in Seq(Octet), NEW j,
           LastStatusAt(s, j), HoldsSince(p, s, j), p.m_State = "StatusByte",
           NEW b \in Octet, ~IsStatus(b), NEW ign \in BOOLEAN
    PROVE  /\ HoldsSince(ParseByte(p, b, ign).p, Append(s, b), j)
           /\ ParseByte(p, b, ign).calls = ShortMessages(Append(s, b), ign)
  <1> DEFINE t == Append(s, b)
             r == ParseByte(p, b, ign)
             n == Len(s)
             b0 == p.m_MessageBuffer[0]
  <1>1. /\ t \in Seq(Octet) /\ n \in Nat /\ Len(t) = n + 1
        /\ \A k \in 1..n : t[k] = s[k] /\ s[k] \in Octet
        /\ t[n + 1] = b
    BY OneMore
  <1>2. Between(p, b0) /\ (b0 = 0 \/ b0 \in 128..239)
    BY DEF WellFormed, LengthMatches, Between
  <1>3. LastStatusAt(t, j) /\ (j > 0 => t[j] = s[j]) /\ j \in 0..n
    BY <1>1, StatusStays DEF LastStatusAt
  <1>4. CASE b0 = 0
    <2>1. r.calls = <<>> /\ r.p = p
      BY <1>2, <1>4, DataStrays
    <2>2. \/ j = 0
          \/ s[j] \in {244, 245, SysExEnd}
          \/ s[j] \in {241, 242, 243} /\ n - j >= DataBytes(s[j])
          \/ s[j] = SysExStart /\ n - j >= SysExBufferSize
      BY <1>4 DEF HoldsSince
    <2>3. DataBytes(t[j]) \in 1..2 /\ SysExBufferSize \in Nat
      BY ParserAssumption DEF DataBytes
    <2> HIDE DEF t, r, n
    <2>4. \/ j = 0
          \/ j > 0 /\ t[j] \in {244, 245, SysExEnd}
          \/ j > 0 /\ t[j] \in {241, 242, 243} /\ n - j >= DataBytes(t[j])
          \/ j > 0 /\ t[j] = SysExStart /\ n - j >= SysExBufferSize
      BY <1>1, <1>3, <2>2
    <2>5. Quiet(t, j, ign)
      BY <1>1, <1>3, <2>3, <2>4 DEF Quiet, SysExStart
    <2>6. ShortMessages(t, ign) = <<>>
      BY <1>1, <1>3, <2>5, ShortMessagesAt
    <2>7. HoldsSince(p, t, j)
      BY <1>1, <1>3, <1>4, <2>3, <2>4 DEF HoldsSince
    <2> QED BY <2>1, <2>6, <2>7 DEF t, r
  <1>5. CASE b0 # 0
    <2>1. j > 0 /\ s[j] = b0 /\ (OneDataByte(b0) \/ (n - j) % 2 = 0)
      BY <1>5 DEF HoldsSince
    <2>2. b0 \in 128..239 /\ t[j] = b0 /\ n - j \in Nat /\ Len(t) - j = (n - j) + 1
      BY <1>1, <1>2, <1>3, <1>5, <2>1
    <2>3. CASE OneDataByte(b0)
      <3>1. /\ Between(r.p, b0)
            /\ \E msg \in [1..2 -> Octet] : /\ r.calls = <<Short(msg)>>
                                            /\ msg[1] = b0 /\ msg[2] = b
        <4> HIDE DEF t, n, b0
        <4>1. RunsOnAtOnce(r, b0, b)
          BY <1>2, <2>2, <2>3, RunningData
        <4> QED BY <4>1 DEF RunsOnAtOnce
      <3> HIDE DEF t, r, b0, n
      <3>2. PICK msg \in [1..2 -> Octet] : /\ r.calls = <<Short(msg)>>
                                           /\ msg[1] = b0 /\ msg[2] = b
        BY <3>1
      <3>3. DataBytes(t[j]) = 1
        BY <2>2, <2>3 DEF DataBytes
      <3>4. ~Quiet(t, j, ign)
        <4>1. (Len(t) - j) % 1 = 0
          BY <2>2
        <4>2. ~IsNoteOn(b0)
          BY <2>2, <2>3 DEF IsNoteOn, OneDataByte
        <4>3. j # 0 /\ Len(t) # j
          BY <1>1, <1>3, <2>1
        <4>4. b0 \notin {SysExStart, 244, 245, TuneRequest, SysExEnd} /\ ~(b0 > SysExStart)
          BY <2>2 DEF SysExStart, TuneRequest, SysExEnd
        <4> QED BY <2>2, <3>3, <4>1, <4>2, <4>3, <4>4 DEF Quiet
      <3>5. msg = <<b0>> \o SubSeq(t, Len(t) - 1 + 1, Len(t))
        <4>1. \A i \in 1..1 : msg[i+1] = t[Len(t) - 1 + i]
          BY <1>1, <3>2
        <4>2. 1 \in 1..2 /\ 1 <= Len(t) /\ b0 \in Octet /\ msg \in [1..1+1 -> Octet]
          BY <1>1, <2>2 DEF Octet
        <4> QED BY <1>1, <3>2, <4>1, <4>2, ShortAtEnd
      <3>6. r.calls = ShortMessages(t, ign)
        <4>1. ShortMessages(t, ign)
                = <<Short(<<t[j]>> \o SubSeq(t, Len(t) - DataBytes(t[j]) + 1, Len(t)))>>
          BY <1>1, <1>3, <3>4, ShortMessagesAt
        <4> QED BY <2>2, <3>2, <3>3, <3>5, <4>1
      <3>7. HoldsSince(r.p, t, j)
        BY <2>1, <2>2, <2>3, <3>1 DEF HoldsSince, Between
      <3> QED BY <3>6, <3>7 DEF t, r
    <2>4. CASE ~OneDataByte(b0)
      <3>1. /\ r.calls = <<>> /\ Within(r.p, "DataByte", 2)
            /\ r.p.m_MessageBuffer[0] = b0 /\ r.p.m_MessageBuffer[1] = b
        <4> HIDE DEF t, n, b0
        <4>1. RunsOnLater(r, b0, b)
          BY <1>2, <2>2, <2>4, RunningData
        <4> QED BY <4>1 DEF RunsOnLater
      <3>2. (Len(t) - j) % 2 = 1
        BY <2>1, <2>2, <2>4, Parity
      <3> HIDE DEF t, r, b0, n
      <3>3. DataBytes(t[j]) = 2
        BY <2>2, <2>4 DEF DataBytes
      <3>4. Quiet(t, j, ign)
        BY <3>2, <3>3 DEF Quiet
      <3>5. ShortMessages(t, ign) = <<>>
        BY <1>1, <1>3, <3>4, ShortMessagesAt
      <3>6. HoldsSince(r.p, t, j)
        <4>1. ~(b0 > SysExStart)
          BY <2>2 DEF SysExStart
        <4> QED BY <1>1, <2>1, <2>2, <2>4, <3>1, <3>2, <4>1 DEF HoldsSince, Within
      <3> QED BY <3>1, <3>5, <3>6 DEF t, r
    <2> QED BY <2>3, <2>4
  <1> QED BY <1>4, <1>5

(* The next byte is a status: what was under way is dropped, or done. *)
LEMMA StatusNext ==
    ASSUME NEW p, WellFormed(p), NEW s \in Seq(Octet), NEW j,
           LastStatusAt(s, j), HoldsSince(p, s, j),
           NEW b \in Octet, IsStatus(b), ~IsRealTime(b), b # TuneRequest, NEW ign \in BOOLEAN
    PROVE  /\ LastStatusAt(Append(s, b), Len(s) + 1)
           /\ HoldsSince(ParseByte(p, b, ign).p, Append(s, b), Len(s) + 1)
           /\ ParseByte(p, b, ign).calls = SysExMessages(Append(s, b))
  <1> DEFINE t == Append(s, b)
             r == ParseByte(p, b, ign)
             n == Len(s)
             len == p.m_nMessageLength
  <1>1. /\ t \in Seq(Octet) /\ n \in Nat /\ Len(t) = n + 1
        /\ \A k \in 1..n : t[k] = s[k] /\ s[k] \in Octet
        /\ t[n + 1] = b
    BY OneMore
  <1>2. /\ j \in 0..n /\ (j > 0 => t[j] = s[j])
        /\ SysExBufferSize \in Nat /\ len \in 0..SysExBufferSize
        /\ p.m_State \in {"StatusByte", "DataByte", "SysExByte"}
    BY <1>1, ParserAssumption DEF LastStatusAt, WellFormed, Parser
  <1>3. StatusBefore(t, n) = j
    <2>1. (j > 0 => IsStatus(t[j])) /\ \A k \in j+1..n : ~IsStatus(t[k])
      BY <1>1, <1>2 DEF LastStatusAt
    <2> QED BY <1>1, <1>2, <2>1, StatusBeforeIs
  <1>4. LastStatusAt(t, n + 1)
    BY <1>1 DEF LastStatusAt
  <1> DEFINE ends == b = SysExEnd /\ j # 0 /\ t[j] = SysExStart
                     /\ n + 1 - j + 1 <= SysExBufferSize
  <1>5. SysExMessages(t) = IF ends THEN <<SysEx(SubSeq(t, j, Len(t)))>> ELSE <<>>
    <2> HIDE DEF t
    <2>1. Len(t) - 1 = n /\ (j # 0 => Len(t) > 1)
      BY <1>1, <1>2
    <2>2. /\ Len(t) > 1 /\ t[Len(t)] = SysExEnd /\ j # 0 /\ t[j] = SysExStart
          /\ Len(t) - j + 1 <= SysExBufferSize
          <=> ends
      BY <1>1, <1>2, <2>1
    <2> HIDE DEF n, ends
    <2> QED BY <1>3, <2>1, <2>2 DEF SysExMessages
  <1>6. CASE p.m_State = "SysExByte" /\ b = SysExEnd /\ len < SysExBufferSize
    <2>1. /\ j > 0 /\ s[j] = SysExStart /\ len = n - j + 1
          /\ \A k \in 1..len : p.m_MessageBuffer[k-1] = s[j+k-1]
      BY <1>6 DEF HoldsSince
    <2>2. ends
      BY <1>1, <1>2, <1>6, <2>1
    <2>3. /\ Between(r.p, 0)
          /\ \E msg \in [1..len+1 -> Octet] :
                /\ r.calls = <<SysEx(msg)>> /\ msg[len+1] = SysExEnd
                /\ \A i \in 1..len : msg[i] = p.m_MessageBuffer[i-1]
      BY <1>6, SysExCompletes
    <2> HIDE DEF t, r, ends
    <2>4. PICK msg \in [1..len+1 -> Octet] :
                /\ r.calls = <<SysEx(msg)>> /\ msg[len+1] = SysExEnd
                /\ \A i \in 1..len : msg[i] = p.m_MessageBuffer[i-1]
      BY <2>3
    <2>5. msg = SubSeq(t, j, Len(t))
      <3>1. ASSUME NEW i \in 1..len+1 PROVE msg[i] = t[j+i-1]
        <4>1. CASE i = len + 1
          <5>1. j + i - 1 = n + 1
            BY <1>1, <1>2, <2>1, <4>1
          <5> QED BY <1>1, <1>6, <2>4, <4>1, <5>1
        <4>2. CASE i # len + 1
          <5>1. i \in 1..len /\ j + i - 1 \in 1..n
            BY <1>1, <1>2, <2>1, <4>2
          <5> QED BY <1>1, <2>1, <2>4, <5>1
        <4> QED BY <4>1, <4>2
      <3>2. j \in 1..Len(t) /\ len + 1 = Len(t) - j + 1
        BY <1>1, <1>2, <2>1
      <3> HIDE DEF len
      <3> QED BY <1>1, <3>1, <3>2, SysExAtEnd
    <2>6. HoldsSince(r.p, t, n + 1)
      BY <1>1, <1>6, <2>3 DEF HoldsSince, Between
    <2> QED BY <1>4, <1>5, <2>2, <2>4, <2>5, <2>6 DEF t, r
  <1>7. CASE ~(p.m_State = "SysExByte" /\ b = SysExEnd /\ len < SysExBufferSize)
    <2>1. r.calls = <<>> /\ Began(r.p, b)
      BY <1>7, StatusBegins
    <2>2. ~ends
      <3> SUFFICES ASSUME ends PROVE FALSE
        OBVIOUS
      <3>1. j > 0 /\ s[j] = SysExStart /\ n - j + 1 < SysExBufferSize
        BY <1>1, <1>2
      <3>2. CASE p.m_State = "SysExByte"
        <4>1. len = n - j + 1
          BY <3>2 DEF HoldsSince
        <4> QED BY <1>7, <3>1, <3>2, <4>1
      <3>3. CASE p.m_State = "DataByte"
        <4>1. s[j] = p.m_MessageBuffer[0] /\ p.m_MessageBuffer[0] # SysExStart
          BY <3>3 DEF HoldsSince, WellFormed, LengthMatches
        <4> QED BY <3>1, <4>1
      <3>4. CASE p.m_State = "StatusByte"
        <4>1. p.m_MessageBuffer[0] # 0 => s[j] = p.m_MessageBuffer[0]
          BY <3>4 DEF HoldsSince
        <4>2. p.m_MessageBuffer[0] # SysExStart
          <5> HIDE DEF ends
          <5>1. p.m_MessageBuffer[0] = 0 \/ p.m_MessageBuffer[0] \in 128..239
            BY <3>4 DEF WellFormed, LengthMatches
          <5> QED BY <5>1, NoSysExRunsOn
        <4>3. p.m_MessageBuffer[0] = 0
          BY <3>1, <4>1, <4>2
        <4>4. \/ j = 0
              \/ s[j] \in {244, 245, SysExEnd}
              \/ s[j] \in {241, 242, 243}
              \/ n - j >= SysExBufferSize
          BY <3>4, <4>3 DEF HoldsSince
        <4>5. ~(n - j >= SysExBufferSize)
          BY <1>1, <1>2, <3>1
        <4> HIDE DEF n, ends
        <4> QED BY <3>1, <4>4, <4>5 DEF SysExStart, SysExEnd
      <3> QED BY <1>2, <3>2, <3>3, <3>4
    <2>3. HoldsSince(r.p, t, n + 1)
      <3>1. /\ b \in {244, 245, SysExEnd} \/ b = SysExStart \/ b \in 128..243 \ {SysExStart}
            /\ b \in {SysExStart} \cup 128..243 => b \in 128..243
        BY DEF IsStatus, IsRealTime, Octet, SysExStart, SysExEnd, TuneRequest
      <3> HIDE DEF t, r, ends
      <3>2. CASE b \in {244, 245, SysExEnd}
        BY <1>1, <2>1, <3>2 DEF HoldsSince, Between, Began
      <3>3. CASE b = SysExStart
        <4>1. Within(r.p, "SysExByte", 1) /\ r.p.m_MessageBuffer[0] = b
          BY <2>1, <3>3 DEF Began, SysExStart
        <4>2. \A k \in 1..1 : k - 1 = 0 /\ (n + 1) + k - 1 = n + 1
          BY <1>1
        <4>3. n + 1 > 0 /\ 1 = Len(t) - (n + 1) + 1
          BY <1>1
        <4> HIDE DEF n
        <4> QED BY <1>1, <3>3, <4>1, <4>2, <4>3 DEF HoldsSince, Within
      <3>4. CASE b \in 128..243 \ {SysExStart}
        <4>1. Within(r.p, "DataByte", 1) /\ r.p.m_MessageBuffer[0] = b
          BY <2>1, <3>4 DEF Began
        <4> QED BY <1>1, <4>1 DEF HoldsSince, Within
      <3> QED BY <3>1, <3>2, <3>3, <3>4
    <2> HIDE DEF ends
    <2> QED BY <1>4, <1>5, <2>1, <2>2, <2>3
  <1> QED BY <1>6, <1>7

LEMMA DataNext ==
    ASSUME NEW p, WellFormed(p), NEW s \in Seq(Octet), NEW j,
           LastStatusAt(s, j), HoldsSince(p, s, j),
           NEW b \in Octet, ~IsStatus(b), NEW ign \in BOOLEAN
    PROVE  /\ HoldsSince(ParseByte(p, b, ign).p, Append(s, b), j)
           /\ ParseByte(p, b, ign).calls = ShortMessages(Append(s, b), ign)
  <1>1. p.m_State \in {"StatusByte", "DataByte", "SysExByte"}
    BY DEF WellFormed, Parser
  <1>2. CASE p.m_State = "StatusByte"
    BY <1>2, DataBetween
  <1>3. CASE p.m_State = "DataByte"
    BY <1>3, DataInShort
  <1>4. CASE p.m_State = "SysExByte"
    BY <1>4, DataInSysEx
  <1> QED BY <1>1, <1>2, <1>3, <1>4

--------------------------------------------------------------------------------
Tracks(p, s) == \E j \in 0..Len(s) : LastStatusAt(s, j) /\ HoldsSince(p, s, j)

StreamInv == /\ history \in Seq(Octet)
             /\ WellFormed(parser)
             /\ Tracks(parser, history)
             /\ DecodesTheStream

LEMMA StreamStarts ==
    ASSUME history = <<>>, parser = EmptyParser, calls = <<>>, last = <<>>
    PROVE  StreamInv
  <1>1. history \in Seq(Octet) /\ Len(history) = 0
    OBVIOUS
  <1>2. LastStatusAt(history, 0)
    BY <1>1 DEF LastStatusAt
  <1>3. parser.m_State = "StatusByte" /\ parser.m_MessageBuffer[0] = 0
    BY ParserAssumption DEF EmptyParser, BufferSlot
  <1>4. HoldsSince(parser, history, 0)
    BY <1>3 DEF HoldsSince
  <1> QED BY <1>1, <1>2, <1>4, EmptyIsWellFormed DEF StreamInv, Tracks, DecodesTheStream

LEMMA StreamGoesOn ==
    ASSUME TuneRequest \notin Byte, StreamInv, NEW b \in Byte, NEW ign \in BOOLEAN, Receive(b, ign)
    PROVE  StreamInv'
  <1> DEFINE r == ParseByte(parser, b, ign)
  <1>1. b \in Octet /\ b # TuneRequest /\ history \in Seq(Octet) /\ WellFormed(parser)
    BY ParserAssumption DEF Octet, StreamInv
  <1>2. parser' = r.p /\ calls' = r.calls /\ last' = <<b, ign>>
        /\ last' # <<>> /\ last'[1] = b /\ last'[2] = ign
    BY DEF Receive, Parse
  <1>3. PICK j \in 0..Len(history) : LastStatusAt(history, j) /\ HoldsSince(parser, history, j)
    BY DEF StreamInv, Tracks
  <1>4. WellFormed(r.p)
    BY <1>1, ParseByteSound DEF Sound
  <1>5. history' = IF IsRealTime(b) THEN history ELSE Append(history, b)
    BY DEF Receive
  <1>6. SUFFICES /\ history' \in Seq(Octet) /\ Tracks(r.p, history')
                 /\ r.calls = Expected(history', b, ign)
    <2> HIDE DEF r
    <2> QED BY <1>2, <1>4 DEF StreamInv, DecodesTheStream, Tracks, LastStatusAt, HoldsSince
  <1>7. CASE IsRealTime(b)
    <2>1. r.p = parser /\ r.calls = Expected(history, b, ign)
      <3>1. r.p = parser /\ r.calls = IF b \in {249, 253} THEN <<>> ELSE <<Short(<<b>>)>>
        BY <1>1, <1>7, RealTimePasses
      <3>2. IsStatus(b)
        BY <1>1, <1>7 DEF IsRealTime, IsStatus, Octet
      <3> HIDE DEF r
      <3> QED BY <1>1, <1>7, <3>1, <3>2 DEF Expected
    <2> HIDE DEF r
    <2> QED BY <1>1, <1>3, <1>5, <1>7, <2>1 DEF Tracks
  <1>8. CASE ~IsRealTime(b) /\ IsStatus(b)
    <2>1. /\ LastStatusAt(Append(history, b), Len(history) + 1)
          /\ HoldsSince(r.p, Append(history, b), Len(history) + 1)
          /\ r.calls = SysExMessages(Append(history, b))
      BY <1>1, <1>3, <1>8, StatusNext
    <2>2. Expected(Append(history, b), b, ign) = SysExMessages(Append(history, b))
      BY <1>1, <1>8 DEF Expected
    <2>3. /\ Append(history, b) \in Seq(Octet)
          /\ Len(history) + 1 \in 0..Len(Append(history, b))
      BY <1>1, OneMore
    <2> HIDE DEF r
    <2> QED BY <1>5, <1>8, <2>1, <2>2, <2>3 DEF Tracks
  <1>9. CASE ~IsRealTime(b) /\ ~IsStatus(b)
    <2>1. /\ HoldsSince(r.p, Append(history, b), j)
          /\ r.calls = ShortMessages(Append(history, b), ign)
      BY <1>1, <1>3, <1>9, DataNext
    <2>2. Expected(Append(history, b), b, ign) = ShortMessages(Append(history, b), ign)
      <3>1. IsStatus(TuneRequest)
        BY DEF IsStatus, TuneRequest
      <3> QED BY <1>1, <1>9, <3>1 DEF Expected
    <2>3. LastStatusAt(Append(history, b), j)
      BY <1>1, <1>3, <1>9, StatusStays
    <2>4. Append(history, b) \in Seq(Octet) /\ j \in 0..Len(Append(history, b))
      BY <1>1, OneMore
    <2> HIDE DEF r
    <2> QED BY <1>5, <1>9, <2>1, <2>2, <2>3, <2>4 DEF Tracks
  <1> QED BY <1>7, <1>8, <1>9

(* Whatever bytes come, Tune Request excepted, and however many: the parser  *)
(* calls the handlers that reading the whole stream calls for (ParseMIDIBytes, *)
(* midiparser.cpp).                                                          *)
THEOREM StreamIsDecoded ==
    ASSUME TuneRequest \notin Byte
    PROVE  StreamSpec => []DecodesTheStream
  <1>1. StreamInit => StreamInv
    BY StreamStarts DEF StreamInit, ParserInit
  <1>2. StreamInv /\ [StreamNext]_streamVars => StreamInv'
    <2> SUFFICES ASSUME StreamInv, [StreamNext]_streamVars PROVE StreamInv'
      OBVIOUS
    <2>1. ASSUME NEW b \in Byte, NEW ign \in BOOLEAN, Receive(b, ign) PROVE StreamInv'
      BY <2>1, StreamGoesOn
    <2>2. CASE Restarts
      <3>2. history' = <<>> /\ parser' = EmptyParser /\ calls' = <<>> /\ last' = <<>>
        BY <2>2 DEF Restarts
      <3>3. /\ LastStatusAt(<<>>, 0) /\ Len(<<>>) = 0 /\ <<>> \in Seq(Octet)
            /\ HoldsSince(EmptyParser, <<>>, 0)
        BY ParserAssumption DEF LastStatusAt, HoldsSince, EmptyParser, BufferSlot
      <3>4. Tracks(EmptyParser, <<>>)
        BY <3>3 DEF Tracks
      <3> QED BY <3>2, <3>3, <3>4, EmptyIsWellFormed
              DEF StreamInv, DecodesTheStream, Tracks, LastStatusAt, HoldsSince
    <2>3. CASE UNCHANGED streamVars
      BY <2>3 DEF streamVars, parserVars, StreamInv, DecodesTheStream
    <2> QED BY <2>1, <2>2, <2>3 DEF StreamNext
  <1>3. StreamInv => DecodesTheStream
    BY DEF StreamInv
  <1> QED BY <1>1, <1>2, <1>3, PTL DEF StreamSpec

--------------------------------------------------------------------------------
(* The parser and the packets it is handed. *)
(* The parser has taken in the first l bytes of m. *)
HoldsPart(p, state, m, l) ==
    Within(p, state, l) /\ \A i \in 1..l : p.m_MessageBuffer[i-1] = m[i]

(* What the parser was given before byte k of a message: a short one, whose  *)
(* status may run on, or a SysEx.                                            *)
ShortUpTo(p, m, k) == \/ k = 1
                      \/ HoldsPart(p, "DataByte", m, k - 1)
                      \/ k = 2 /\ m[1] < SysExStart /\ Between(p, m[1])

SysExUpTo(p, m, k) == k = 1 \/ HoldsPart(p, "SysExByte", m, k - 1)

(* Of a first segment the parser gets all but the F0 at its end, which then  *)
(* stands in front of what it gets of the last one.                          *)
Opening(m) == SubSeq(m, 1, Len(m) - 1)

Closes(ms, j, i) == /\ Follows(ms, j, i) /\ IsFirst(ms[j])
                    /\ Len(ms[j]) + Len(ms[i]) - 2 <= SysExBufferSize

(* The SysEx that message i makes of the bytes before it and its own. *)
Assembles(ms, i, f) ==
    \/ IsWhole(ms[i]) /\ f = ms[i]
    \/ IsFirst(ms[i]) /\ f = Opening(ms[i])
    \/ IsLast(ms[i]) /\ \E j \in 1..i-1 : Closes(ms, j, i) /\ f = Opening(ms[j]) \o Tail(ms[i])

(* Between message i and the next: the code knows the status that may be     *)
(* left out, the parser runs on with it, or holds the segment under way.     *)
AfterMessage(ms, i, rs, p) ==
    /\ rs # 0 => Between(p, rs)
    /\ \A j \in 1..i : Follows(ms, j, i + 1) =>
          /\ ms[j][1] < SysExStart => rs = ms[j][1]
          /\ IsFirst(ms[j]) => HoldsPart(p, "SysExByte", ms[j], Len(ms[j]) - 1)

(* In message i, with d still to be parsed. *)
InMessage(ms, i, rs, p, d) ==
    \/ RealTime(ms[i]) /\ d = ms[i] /\ AfterMessage(ms, i, rs, p)
    \/ /\ IsShort(ms[i]) /\ rs = RunOn(ms[i][1])
       /\ \E k \in 1..Len(ms[i]) : d = SubSeq(ms[i], k, Len(ms[i])) /\ ShortUpTo(p, ms[i], k)
    \/ /\ IsWhole(ms[i]) \/ IsFirst(ms[i]) \/ IsLast(ms[i])
       /\ rs = 0
       /\ \E f \in Seq(Octet) : /\ Assembles(ms, i, f)
                   /\ \E k \in 1..Len(f) : d = SubSeq(f, k, Len(f)) /\ SysExUpTo(p, f, k)

Call == [kind : {"short", "sysex"}, msg : Seq(Octet)]

Reached(s, i, l, rs, p, d, h) ==
    /\ i \in 0..Len(s.msgs)
    /\ l = s.rest[i+1] \/ (l = <<>> /\ i = Len(s.msgs) /\ d = <<>>)
    /\ d = <<>> => h = s.hears[i+1] /\ AfterMessage(s.msgs, i, rs, p)
    /\ d # <<>> => i > 0 /\ h = s.hears[i] /\ InMessage(s.msgs, i, rs, p, d)

RtpInv ==
    /\ WellFormed(parser)
    /\ packet \in Sections
    /\ nRunningStatus \in {0} \cup 128..239
    /\ heard \in Seq(Call)
    /\ Reached(packet, nMIDICommandsProcessed, list, nRunningStatus, parser, pData, heard)

--------------------------------------------------------------------------------
(* The parser's side: byte k of a message. *)
ShortTaken(r, m, k) ==
    IF k < Len(m) THEN r.calls = <<>> /\ ShortUpTo(r.p, m, k + 1)
    ELSE r.calls = <<Short(m)>> /\ Between(r.p, RunOn(m[1]))

LEMMA StatusOfShort ==
    ASSUME NEW x \in 128..243 \ {SysExStart}
    PROVE  /\ x \in Octet /\ IsStatus(x) /\ ~IsRealTime(x) /\ x # TuneRequest /\ x # SysExEnd
           /\ x < SysExStart => x \in 128..239
  BY DEF Octet, IsStatus, IsRealTime, TuneRequest, SysExEnd, SysExStart

LEMMA ShortIs ==
    ASSUME NEW m \in Seq(Octet), IsShort(m)
    PROVE  /\ Len(m) \in 2..3 /\ m[1] \in 128..243 \ {SysExStart} /\ m[1] \in Octet
           /\ IsStatus(m[1]) /\ ~IsRealTime(m[1]) /\ m[1] # TuneRequest /\ m[1] # SysExEnd
           /\ OneDataByte(m[1]) <=> Len(m) = 2
           /\ \A i \in 2..Len(m) : m[i] \in Octet /\ ~IsStatus(m[i]) /\ m[i] < 128
  <1>1. m[1] \in 128..243 \ {SysExStart}
    BY DEF IsShort
  <1>2. Len(m) = IF OneDataByte(m[1]) THEN 2 ELSE 3
    BY DEF IsShort
  <1>3. \A i \in 2..Len(m) : m[i] \in Octet /\ ~IsStatus(m[i]) /\ m[i] < 128
    <2>1. \A i \in 2..Len(m) : m[i] \in Octet
      OBVIOUS
    <2>2. \A i \in 2..Len(m) : ~IsStatus(m[i])
      BY DEF IsShort
    <2> QED BY <2>1, <2>2, OctetParts
  <1>4. m[1] \in Octet /\ IsStatus(m[1]) /\ ~IsRealTime(m[1]) /\ m[1] # TuneRequest /\ m[1] # SysExEnd
    BY <1>1, StatusOfShort
  <1> QED BY <1>1, <1>2, <1>3, <1>4

LEMMA ShortByte ==
    ASSUME NEW p, WellFormed(p), NEW m \in Seq(Octet), IsShort(m), NEW k \in 1..Len(m),
           ShortUpTo(p, m, k)
    PROVE  ShortTaken(ParseByte(p, m[k], FALSE), m, k)
  <1> DEFINE b == m[k]
             r == ParseByte(p, b, FALSE)
             st == m[1]
  <1>1. /\ Len(m) \in 2..3 /\ st \in 128..243 \ {SysExStart} /\ st \in Octet
        /\ IsStatus(st) /\ ~IsRealTime(st) /\ st # TuneRequest /\ st # SysExEnd
        /\ OneDataByte(st) <=> Len(m) = 2
        /\ \A i \in 2..Len(m) : m[i] \in Octet /\ ~IsStatus(m[i])
    BY ShortIs
  <1>2. CASE k = 1
    <2>1. r.calls = <<>> /\ Began(r.p, b)
      BY <1>1, <1>2, StatusBegins
    <2> HIDE DEF r
    <2>2. Within(r.p, "DataByte", 1) /\ r.p.m_MessageBuffer[0] = m[1]
      BY <1>1, <1>2, <2>1 DEF Began
    <2>3. HoldsPart(r.p, "DataByte", m, 1)
      BY <2>2 DEF HoldsPart
    <2>4. ShortUpTo(r.p, m, k + 1)
      BY <1>2, <2>3 DEF ShortUpTo
    <2>5. k < Len(m)
      BY <1>1, <1>2
    <2>6. ShortTaken(r, m, k)
      BY <2>1, <2>4, <2>5 DEF ShortTaken
    <2> QED BY <2>6 DEF r
  <1>3. CASE k > 1 /\ HoldsPart(p, "DataByte", m, k - 1)
    <2>1. /\ p.m_State = "DataByte" /\ p.m_nMessageLength = k - 1
          /\ \A i \in 1..k-1 : p.m_MessageBuffer[i-1] = m[i]
      BY <1>3 DEF HoldsPart, Within
    <2>2. p.m_MessageBuffer[0] = st /\ b \in Octet /\ ~IsStatus(b) /\ k \in 2..3
      <3>1. 1 \in 1..k-1 /\ k \in 2..Len(m) /\ 1 - 1 = 0 /\ k \in 2..3
        BY <1>1, <1>3
      <3>2. p.m_MessageBuffer[1-1] = m[1]
        BY <2>1, <3>1
      <3> QED BY <1>1, <3>1, <3>2
    <2>3. CASE k = Len(m)
      <3>1. p.m_nMessageLength = 2 \/ OneDataByte(p.m_MessageBuffer[0])
        BY <1>1, <2>1, <2>2, <2>3
      <3>2. Completes(r, p, b, FALSE)
        BY <2>1, <2>2, <3>1, DataCompletes
      <3> HIDE DEF r, b, st
      <3>3. Between(r.p, RunOn(st))
        BY <2>2, <3>2 DEF Completes
      <3>4. PICK msg \in [1..(k-1)+1 -> Octet] :
               r.calls = <<Short(msg)>> /\ msg[(k-1)+1] = b
               /\ \A i \in 1..k-1 : msg[i] = p.m_MessageBuffer[i-1]
        BY <2>1, <3>2 DEF Completes
      <3>5. msg = m
        <4>1. (k - 1) + 1 = k /\ k \in Nat
          BY <2>2
        <4>2. msg \in Seq(Octet) /\ Len(msg) = k
          BY <4>1, IsSequence
        <4>3. ASSUME NEW i \in 1..k PROVE msg[i] = m[i]
          <5>1. i = k \/ i \in 1..k-1
            BY <4>1
          <5> QED BY <2>1, <3>4, <4>1, <5>1 DEF b
        <4> QED BY <2>3, <4>2, <4>3, SameSequence
      <3>6. ShortTaken(r, m, k)
        BY <2>3, <3>3, <3>4, <3>5 DEF ShortTaken, st
      <3> QED BY <3>6 DEF r, b
    <2>4. CASE k # Len(m)
      <3>1. k = 2 /\ Len(m) = 3 /\ ~OneDataByte(st)
        BY <1>1, <2>2, <2>4
      <3>1a. p.m_nMessageLength = 1 /\ ~OneDataByte(p.m_MessageBuffer[0])
        BY <2>1, <2>2, <3>1
      <3>2. /\ r.calls = <<>> /\ Within(r.p, "DataByte", 2)
            /\ r.p.m_MessageBuffer[0] = p.m_MessageBuffer[0]
            /\ r.p.m_MessageBuffer[1] = b
        <4> HIDE DEF b
        <4> QED BY <2>1, <2>2, <3>1a, DataWaits
      <3> HIDE DEF r
      <3>3. HoldsPart(r.p, "DataByte", m, 2)
        BY <2>2, <3>1, <3>2 DEF HoldsPart
      <3>4. ShortTaken(r, m, k)
        BY <3>1, <3>2, <3>3 DEF ShortTaken, ShortUpTo
      <3> QED BY <3>4 DEF r
    <2> QED BY <2>3, <2>4
  <1>4. CASE k = 2 /\ st < SysExStart /\ Between(p, st)
    <2>1. st \in 128..239 /\ b \in Octet /\ ~IsStatus(b)
      <3>1. k \in 2..Len(m)
        BY <1>4
      <3>2. st \in 128..239
        <4> HIDE DEF st
        <4> QED BY <1>1, <1>4, StatusOfShort
      <3> QED BY <1>1, <3>1, <3>2
    <2>2. CASE OneDataByte(st)
      <3> HIDE DEF b, st
      <3>1. RunsOnAtOnce(r, st, b)
        BY <1>4, <2>1, <2>2, RunningData
      <3> HIDE DEF r
      <3>2. PICK msg \in [1..2 -> Octet] : r.calls = <<Short(msg)>> /\ msg[1] = st /\ msg[2] = b
        BY <3>1 DEF RunsOnAtOnce
      <3>3. Len(m) = 2
        BY <1>1, <2>2
      <3>4. msg = m
        <4>1. msg \in Seq(Octet) /\ Len(msg) = 2
          BY IsSequence
        <4>2. \A i \in 1..2 : msg[i] = m[i]
          BY <1>4, <3>2 DEF b, st
        <4> QED BY <3>3, <4>1, <4>2, SameSequence
      <3>5. Between(r.p, RunOn(st))
        BY <1>4, <3>1 DEF RunsOnAtOnce, RunOn
      <3>6. ShortTaken(r, m, k)
        BY <1>4, <3>2, <3>3, <3>4, <3>5 DEF ShortTaken, st
      <3> QED BY <3>6 DEF r, b
    <2>3. CASE ~OneDataByte(st)
      <3> HIDE DEF b, st
      <3>1. RunsOnLater(r, st, b)
        BY <1>4, <2>1, <2>3, RunningData
      <3> HIDE DEF r
      <3>2. Len(m) = 3
        BY <1>1, <2>3
      <3>3. HoldsPart(r.p, "DataByte", m, 2)
        BY <1>4, <3>1 DEF RunsOnLater, HoldsPart, b, st
      <3>4. ShortTaken(r, m, k)
        BY <1>4, <3>1, <3>2, <3>3 DEF ShortTaken, ShortUpTo, RunsOnLater
      <3> QED BY <3>4 DEF r, b
    <2> QED BY <2>2, <2>3
  <1>5. k = 1 \/ k > 1
    OBVIOUS
  <1> QED BY <1>2, <1>3, <1>4, <1>5 DEF ShortUpTo

(* A SysEx, or what a segment begins of one. *)
FitsBuffer(m) ==
    /\ Len(m) \in 1..SysExBufferSize /\ m[1] = SysExStart
    /\ \A i \in 2..Len(m) : ~IsStatus(m[i]) \/ (i = Len(m) /\ m[i] = SysExEnd)

SysExTaken(r, m, k) ==
    IF m[k] = SysExEnd THEN r.calls = <<SysEx(m)>> /\ Between(r.p, 0)
    ELSE r.calls = <<>> /\ HoldsPart(r.p, "SysExByte", m, k)

LEMMA SysExByteTaken ==
    ASSUME NEW p, WellFormed(p), NEW m \in Seq(Octet), FitsBuffer(m), NEW k \in 1..Len(m),
           SysExUpTo(p, m, k)
    PROVE  SysExTaken(ParseByte(p, m[k], FALSE), m, k)
  <1> DEFINE b == m[k]
             r == ParseByte(p, b, FALSE)
  <1>1. /\ Len(m) \in 1..SysExBufferSize /\ m[1] = SysExStart /\ SysExBufferSize \in Nat
        /\ \A i \in 1..Len(m) : m[i] \in Octet
        /\ \A i \in 2..Len(m) : ~IsStatus(m[i]) \/ (i = Len(m) /\ m[i] = SysExEnd)
    BY ParserAssumption DEF FitsBuffer
  <1>2. CASE k = 1
    <2>1. b = SysExStart /\ b # SysExEnd /\ IsStatus(b) /\ ~IsRealTime(b) /\ b # TuneRequest
          /\ b \in 128..243 /\ b \in Octet
      BY <1>1, <1>2 DEF SysExStart, SysExEnd, IsStatus, IsRealTime, TuneRequest, Octet
    <2>2. r.calls = <<>> /\ Began(r.p, b)
      BY <2>1, StatusBegins
    <2> HIDE DEF r
    <2>3. Within(r.p, "SysExByte", 1) /\ r.p.m_MessageBuffer[0] = m[1]
      BY <1>1, <1>2, <2>1, <2>2 DEF Began
    <2>4. HoldsPart(r.p, "SysExByte", m, 1)
      BY <2>3 DEF HoldsPart
    <2>5. SysExTaken(r, m, k)
      BY <1>2, <2>1, <2>2, <2>4 DEF SysExTaken
    <2> QED BY <2>5 DEF r
  <1>3. CASE k > 1
    <2>1. /\ p.m_State = "SysExByte" /\ p.m_nMessageLength = k - 1
          /\ \A i \in 1..k-1 : p.m_MessageBuffer[i-1] = m[i]
          /\ p.m_nMessageLength < SysExBufferSize /\ b \in Octet
      BY <1>1, <1>3 DEF SysExUpTo, HoldsPart, Within
    <2>2. CASE b = SysExEnd
      <3>1. k = Len(m)
        <4>1. IsStatus(b)
          BY <2>2 DEF IsStatus, SysExEnd
        <4> QED BY <1>1, <1>3, <4>1
      <3> DEFINE n == p.m_nMessageLength
      <3>2. /\ Between(r.p, 0)
            /\ \E msg \in [1..n+1 -> Octet] :
                  /\ r.calls = <<SysEx(msg)>> /\ msg[n+1] = SysExEnd
                  /\ \A i \in 1..n : msg[i] = p.m_MessageBuffer[i-1]
        BY <2>1, <2>2, SysExCompletes
      <3>3. n + 1 = k /\ n = k - 1
        BY <2>1
      <3> HIDE DEF r, n
      <3>4. PICK msg \in [1..k -> Octet] :
                  /\ r.calls = <<SysEx(msg)>> /\ msg[k] = SysExEnd
                  /\ \A i \in 1..k-1 : msg[i] = p.m_MessageBuffer[i-1]
        BY <3>2, <3>3
      <3>5. msg = m
        <4>1. msg \in Seq(Octet) /\ Len(msg) = k
          BY IsSequence
        <4>2. ASSUME NEW i \in 1..k PROVE msg[i] = m[i]
          <5>1. i = k \/ i \in 1..k-1
            OBVIOUS
          <5> QED BY <2>1, <2>2, <3>4, <5>1
        <4> QED BY <3>1, <4>1, <4>2, SameSequence
      <3>6. SysExTaken(r, m, k)
        BY <2>2, <3>2, <3>4, <3>5 DEF SysExTaken
      <3> QED BY <3>6 DEF r
    <2>3. CASE b # SysExEnd
      <3>1. ~IsStatus(b)
        BY <1>1, <1>3, <2>3
      <3> DEFINE n == p.m_nMessageLength
      <3>2. /\ r.calls = <<>> /\ Within(r.p, "SysExByte", n + 1)
            /\ r.p.m_MessageBuffer[n] = b
            /\ \A j \in 0..n-1 : r.p.m_MessageBuffer[j] = p.m_MessageBuffer[j]
        BY <2>1, <3>1, SysExGrows
      <3>3. n + 1 = k /\ n = k - 1
        BY <2>1
      <3> HIDE DEF r, n
      <3>4. ASSUME NEW i \in 1..k PROVE r.p.m_MessageBuffer[i-1] = m[i]
        <4>1. (i = k /\ i - 1 = n) \/ (i \in 1..k-1 /\ i - 1 \in 0..n-1)
          BY <3>3
        <4> QED BY <2>1, <3>2, <4>1
      <3>5. HoldsPart(r.p, "SysExByte", m, k)
        BY <3>2, <3>3, <3>4 DEF HoldsPart
      <3>6. SysExTaken(r, m, k)
        BY <2>3, <3>2, <3>5 DEF SysExTaken
      <3> QED BY <3>6 DEF r
    <2> QED BY <2>2, <2>3
  <1>4. k = 1 \/ k > 1
    OBVIOUS
  <1> QED BY <1>2, <1>3, <1>4

--------------------------------------------------------------------------------
(* The list's side: what is read off the front of it. *)
LEMMA FrontAndRest ==
    ASSUME NEW X, NEW w \in Seq(X), NEW u \in Seq(X)
    PROVE  /\ SubSeq(w \o u, 1, Len(w)) = w
           /\ SubSeq(w \o u, Len(w) + 1, Len(w \o u)) = u
  <1> DEFINE s == w \o u
             a == Len(w)
  <1>1. /\ s \in Seq(X) /\ a \in Nat /\ Len(u) \in Nat /\ Len(s) = a + Len(u)
        /\ \A k \in 1..a : s[k] = w[k]
        /\ \A k \in 1..Len(u) : s[a + k] = u[k]
    BY LaidEndToEnd
  <1> HIDE DEF s
  <1>2. SubSeq(s, 1, a) = w
    <2>1. 1 \in 1..Len(s)+1 /\ a \in 1-1..Len(s) /\ a - 1 + 1 = a
      BY <1>1
    <2>2. /\ SubSeq(s, 1, a) \in Seq(X) /\ Len(SubSeq(s, 1, a)) = a - 1 + 1
          /\ \A k \in 1..a-1+1 : SubSeq(s, 1, a)[k] = s[1+k-1]
      BY <1>1, <2>1, Piece
    <2>3. \A k \in 1..a : SubSeq(s, 1, a)[k] = w[k]
      <3>1. \A k \in 1..a : 1 + k - 1 = k
        BY <1>1
      <3> QED BY <1>1, <2>1, <2>2, <3>1
    <2> QED BY <2>1, <2>2, <2>3, SameSequence
  <1>3. SubSeq(s, a + 1, Len(s)) = u
    <2>1. a + 1 \in 1..Len(s)+1 /\ Len(s) \in (a+1)-1..Len(s) /\ Len(s) - (a + 1) + 1 = Len(u)
      BY <1>1
    <2> DEFINE v == SubSeq(s, a + 1, Len(s))
    <2>2. /\ v \in Seq(X) /\ Len(v) = Len(u)
          /\ \A k \in 1..Len(u) : v[k] = s[(a+1)+k-1]
      BY <1>1, <2>1, Piece
    <2>3. \A k \in 1..Len(u) : v[k] = u[k]
      <3>1. \A k \in 1..Len(u) : (a + 1) + k - 1 = a + k
        BY <1>1
      <3> HIDE DEF v, a
      <3> QED BY <1>1, <2>2, <3>1
    <2> HIDE DEF v
    <2>4. v = u
      BY <2>2, <2>3, SameSequence
    <2> QED BY <2>4 DEF v
  <1> QED BY <1>2, <1>3 DEF s

LEMMA WithinFront ==
    ASSUME NEW X, NEW w \in Seq(X), NEW u \in Seq(X), NEW k \in 0..Len(w), NEW i \in 1..k+1
    PROVE  SubSeq(w \o u, i, k) = SubSeq(w, i, k)
  <1> DEFINE s == w \o u
  <1>1. /\ s \in Seq(X) /\ Len(w) \in Nat /\ Len(s) >= Len(w)
        /\ \A j \in 1..Len(w) : s[j] = w[j]
    BY LaidEndToEnd
  <1> HIDE DEF s
  <1>2. i \in 1..Len(s)+1 /\ k \in i-1..Len(s) /\ i \in 1..Len(w)+1 /\ k \in i-1..Len(w)
    BY <1>1
  <1>3. /\ SubSeq(s, i, k) \in Seq(X) /\ Len(SubSeq(s, i, k)) = k - i + 1
        /\ \A j \in 1..k-i+1 : SubSeq(s, i, k)[j] = s[i+j-1]
    BY <1>1, <1>2, Piece
  <1>4. /\ SubSeq(w, i, k) \in Seq(X) /\ Len(SubSeq(w, i, k)) = k - i + 1
        /\ \A j \in 1..k-i+1 : SubSeq(w, i, k)[j] = w[i+j-1]
    BY <1>2, Piece
  <1>5. \A j \in 1..k-i+1 : i + j - 1 \in 1..Len(w)
    BY <1>2
  <1>6. SubSeq(s, i, k) = SubSeq(w, i, k)
    BY <1>1, <1>3, <1>4, <1>5, SameSequence
  <1> QED BY <1>6 DEF s

LEMMA NotEmpty ==
    ASSUME NEW X, NEW s \in Seq(X), Len(s) # 0
    PROVE  s # <<>>
  <1>1. Len(<<>>) = 0
    OBVIOUS
  <1> QED BY <1>1

LEMMA AtLeastTwo ==
    ASSUME NEW X, NEW s \in Seq(X), Len(s) \in 2..3
    PROVE  s # <<>> /\ 2 \in 2..Len(s) /\ 1 \in 1..Len(s)-1
  <1>1. Len(<<>>) = 0
    OBVIOUS
  <1>2. s # <<>>
    BY <1>1
  <1>3. ASSUME NEW n \in 2..3 PROVE 2 \in 2..n /\ 1 \in 1..n-1
    OBVIOUS
  <1> QED BY <1>2, <1>3

LEMMA TailIsPiece ==
    ASSUME NEW X, NEW s \in Seq(X), s # <<>>
    PROVE  Tail(s) = SubSeq(s, 2, Len(s))
  <1>1. /\ Tail(s) \in Seq(X) /\ Len(s) \in Nat \ {0} /\ Len(Tail(s)) = Len(s) - 1
        /\ \A k \in 1..Len(s)-1 : Tail(s)[k] = s[k+1]
    BY HeadAndTail
  <1>2. 2 \in 1..Len(s)+1 /\ Len(s) \in 2-1..Len(s) /\ Len(s) - 2 + 1 = Len(s) - 1
    BY <1>1
  <1>3. /\ SubSeq(s, 2, Len(s)) \in Seq(X) /\ Len(SubSeq(s, 2, Len(s))) = Len(s) - 1
        /\ \A k \in 1..Len(s)-1 : SubSeq(s, 2, Len(s))[k] = s[2+k-1]
    BY <1>2, Piece
  <1>4. \A k \in 1..Len(s)-1 : 2 + k - 1 = k + 1
    OBVIOUS
  <1> QED BY <1>1, <1>3, <1>4, SameSequence

LEMMA DeltaTimeIsRead ==
    ASSUME NEW g, IsDeltaTime(g), NEW u \in Seq(Octet)
    PROVE  DeltaTime(g \o u) = Len(g)
  <1> DEFINE s == g \o u
             ends == {i \in DOMAIN s : i <= 4 /\ ~IsStatus(s[i])}
             n == Len(g)
  <1>1. g \in Seq(Octet) /\ n \in 1..4 /\ (\A i \in 1..n-1 : IsStatus(g[i])) /\ ~IsStatus(g[n])
    BY DEF IsDeltaTime
  <1>2. /\ s \in Seq(Octet) /\ Len(s) \in Nat /\ Len(s) >= n /\ DOMAIN s = 1..Len(s)
        /\ \A k \in 1..n : s[k] = g[k]
    BY <1>1, LaidEndToEnd
  <1> HIDE DEF s
  <1>3. n \in ends
    <2>0. \A a, c \in Nat : a \in 1..4 /\ c >= a => a \in 1..c /\ a <= 4 /\ a \in 1..a
      OBVIOUS
    <2>1. n \in 1..Len(s) /\ n <= 4 /\ n \in 1..n
      <3> HIDE DEF n
      <3>1. n \in Nat /\ Len(s) \in Nat
        BY <1>1, <1>2
      <3> QED BY <1>1, <1>2, <2>0, <3>1
    <2>2. ~IsStatus(s[n])
      BY <1>1, <1>2, <2>1
    <2> HIDE DEF n
    <2> QED BY <1>2, <2>1, <2>2
  <1>4. ASSUME NEW i \in ends PROVE n <= i
    <2>1. i \in 1..Len(s) /\ ~IsStatus(s[i])
      BY <1>2
    <2>2. ~(i \in 1..n-1)
      <3> SUFFICES ASSUME i \in 1..n-1 PROVE FALSE
        OBVIOUS
      <3>1. i \in 1..n /\ s[i] = g[i] /\ IsStatus(g[i])
        BY <1>1, <1>2
      <3> QED BY <2>1, <3>1
    <2> QED BY <1>1, <2>1, <2>2
  <1>5. \A x \in ends : x \in Nat
    BY <1>2
  <1>6. DeltaTime(s) = IF ends = {} THEN 4 ELSE CHOOSE i \in ends : \A j \in ends : i <= j
    BY DEF DeltaTime
  <1> HIDE DEF ends, n
  <1>7. ASSUME NEW x \in ends, \A j \in ends : x <= j PROVE x = n
    BY <1>1, <1>3, <1>4, <1>5, <1>7
  <1>8. (CHOOSE i \in ends : \A j \in ends : i <= j) = n
    BY <1>3, <1>4, <1>7
  <1> QED BY <1>3, <1>6, <1>8 DEF s, n

(* Where the first end of a segment is, the SysEx command ends. *)
LEMMA SegmentIsRead ==
    ASSUME NEW s \in Seq(Octet), NEW n \in 2..Len(s), IsSegmentEnd(s[n]),
           \A i \in 2..n-1 : ~IsSegmentEnd(s[i])
    PROVE  /\ s[1] = SysExStart /\ s[n] = SysExStart
                => SysExCommand(s) = Command(SubSeq(s, 1, n - 1), n)
           /\ s[1] = SysExEnd /\ s[n] = SysExEnd
                => SysExCommand(s) = Command(SubSeq(s, 2, n), n)
           /\ s[1] = SysExStart /\ s[n] = SysExEnd
                => SysExCommand(s) = Command(SubSeq(s, 1, n), n)
  <1> DEFINE ends == {i \in 2..Len(s) : IsSegmentEnd(s[i])}
             first == CHOOSE i \in ends : \A j \in ends : i <= j
  <1>1. n \in ends /\ \A x \in ends : x \in Nat /\ n <= x
    <2>1. ASSUME NEW x \in 2..Len(s), IsSegmentEnd(s[x]) PROVE n <= x
      <3>1. ~(x \in 2..n-1)
        BY <2>1
      <3> QED BY <3>1
    <2> QED BY <2>1
  <1> HIDE DEF ends
  <1>2. first = n
    <2>1. ASSUME NEW x \in ends, \A j \in ends : x <= j PROVE x = n
      BY <1>1, <2>1
    <2> QED BY <1>1, <2>1
  <1>3. ends # {}
    BY <1>1
  <1> DEFINE
        tail == s[n]
        command ==
          CASE s[1] = SysExStart /\ tail = SysExStart -> Command(SubSeq(s, 1, n - 1), n)
            [] s[1] = SysExEnd /\ tail = SysExStart   -> Command(SubSeq(Append(s, Stale), 2, n + 1), n - 2)
            [] s[1] = SysExEnd /\ tail = SysExEnd     -> Command(SubSeq(s, 2, n), n)
            [] s[1] = SysExEnd /\ tail = 244          -> Command(SubSeq(s, 1, 1), n)
            [] OTHER                                  -> Command(SubSeq(s, 1, n), n)
  <1>4. SysExCommand(s) = command
    <2> HIDE DEF first
    <2> QED BY <1>2, <1>3 DEF SysExCommand, ends, first
  <1>5. SysExStart # SysExEnd /\ SysExEnd # 244
    BY DEF SysExStart, SysExEnd
  <1> HIDE DEF tail
  <1>6. /\ s[1] = SysExStart /\ tail = SysExStart => command = Command(SubSeq(s, 1, n - 1), n)
        /\ s[1] = SysExEnd /\ tail = SysExEnd => command = Command(SubSeq(s, 2, n), n)
        /\ s[1] = SysExStart /\ tail = SysExEnd => command = Command(SubSeq(s, 1, n), n)
    BY <1>5
  <1> HIDE DEF command
  <1> QED BY <1>4, <1>6 DEF tail

(* A command by its first byte. *)
LEMMA StatusAfterByte ==
    ASSUME NEW b \in Octet, NEW rs
    PROVE  /\ IsRealTime(b) \/ ~IsStatus(b) => StatusAfter(rs, b) = rs
           /\ IsStatus(b) /\ b < SysExStart => StatusAfter(rs, b) = b
           /\ b >= SysExStart /\ ~IsRealTime(b) => StatusAfter(rs, b) = 0
  BY DEF StatusAfter, IsRealTime, IsStatus, SysExStart, Octet

LEMMA CommandByByte ==
    ASSUME NEW s, NEW rs, s[1] \in Octet
    PROVE  /\ IsRealTime(s[1]) /\ s[1] \notin {249, 253} => CommandAt(s, rs) = Command(<<s[1]>>, 1)
           /\ ~IsStatus(s[1]) /\ rs # 0
                => CommandAt(s, rs) = Command(SubSeq(s, 1, DataBytesOf(rs)), DataBytesOf(rs))
           /\ s[1] \in {SysExStart, SysExEnd} => CommandAt(s, rs) = SysExCommand(s)
           /\ s[1] \in 128..243 \ {SysExStart}
                => CommandAt(s, rs) = Command(SubSeq(s, 1, DataBytesOf(s[1]) + 1), DataBytesOf(s[1]) + 1)
  <1> DEFINE b == s[1]
             n == DataBytesOf(StatusAfter(rs, b))
             short(k) == Command(SubSeq(s, 1, k), k)
  <1>1. CommandAt(s, rs) =
          CASE b \in {249, 253}              -> Command(<<>>, 1)
            [] IsRealTime(b) /\ b \notin {249, 253} -> Command(<<b>>, 1)
            [] ~IsStatus(b) /\ rs = 0        -> Command(<<>>, 0)
            [] ~IsStatus(b) /\ rs # 0        -> short(n)
            [] b \in {SysExStart, SysExEnd}  -> SysExCommand(s)
            [] IsStatus(b) /\ b < SysExStart -> short(n + 1)
            [] OTHER -> short(DataBytesOf(b) + 1)
    BY DEF CommandAt
  <1>2. /\ IsRealTime(b) <=> b >= 248
        /\ IsStatus(b) <=> b >= 128
        /\ SysExStart = 240 /\ SysExEnd = 247 /\ b \in 0..255
    BY DEF IsRealTime, IsStatus, SysExStart, SysExEnd, Octet
  <1>3. /\ IsStatus(b) /\ b < SysExStart => StatusAfter(rs, b) = b
        /\ ~IsStatus(b) => StatusAfter(rs, b) = rs
    BY StatusAfterByte
  <1> HIDE DEF short, n, b
  <1>4. /\ IsRealTime(b) /\ b \notin {249, 253} => CommandAt(s, rs) = Command(<<b>>, 1)
        /\ ~IsStatus(b) /\ rs # 0 => CommandAt(s, rs) = short(n)
        /\ b \in {SysExStart, SysExEnd} => CommandAt(s, rs) = SysExCommand(s)
        /\ IsStatus(b) /\ b < SysExStart => CommandAt(s, rs) = short(n + 1)
        /\ b \in 241..243 => CommandAt(s, rs) = short(DataBytesOf(b) + 1)
    <2>1. ASSUME IsRealTime(b), b \notin {249, 253} PROVE CommandAt(s, rs) = Command(<<b>>, 1)
      <3>1. IsStatus(b) /\ b \notin {SysExStart, SysExEnd} /\ ~(b < SysExStart)
        BY <1>2, <2>1
      <3> QED BY <1>1, <2>1, <3>1
    <2>2. ASSUME ~IsStatus(b), rs # 0 PROVE CommandAt(s, rs) = short(n)
      <3>1. ~IsRealTime(b) /\ b \notin {249, 253} /\ b \notin {SysExStart, SysExEnd}
        BY <1>2, <2>2
      <3> QED BY <1>1, <2>2, <3>1
    <2>3. ASSUME b \in {SysExStart, SysExEnd} PROVE CommandAt(s, rs) = SysExCommand(s)
      <3>1. ~IsRealTime(b) /\ b \notin {249, 253} /\ IsStatus(b) /\ ~(b < SysExStart)
        BY <1>2, <2>3
      <3> QED BY <1>1, <2>3, <3>1
    <2>4. ASSUME IsStatus(b), b < SysExStart PROVE CommandAt(s, rs) = short(n + 1)
      <3>1. ~IsRealTime(b) /\ b \notin {249, 253} /\ b \notin {SysExStart, SysExEnd}
        BY <1>2, <2>4
      <3> QED BY <1>1, <2>4, <3>1
    <2>5. ASSUME b \in 241..243 PROVE CommandAt(s, rs) = short(DataBytesOf(b) + 1)
      <3>1. /\ ~IsRealTime(b) /\ b \notin {249, 253} /\ b \notin {SysExStart, SysExEnd}
            /\ IsStatus(b) /\ ~(b < SysExStart)
        BY <1>2, <2>5
      <3> QED BY <1>1, <3>1
    <2> QED BY <2>1, <2>2, <2>3, <2>4, <2>5
  <1>5. b \in 128..243 \ {SysExStart} => b \in 241..243 \/ (IsStatus(b) /\ b < SysExStart)
    BY <1>2
  <1> QED BY <1>3, <1>4, <1>5 DEF short, n, b

LEMMA RealTimeCommand ==
    ASSUME NEW m \in Seq(Octet), RealTime(m), NEW u \in Seq(Octet), NEW rs
    PROVE  /\ CommandAt(m \o u, rs) = Command(m, Len(m))
           /\ StatusAfter(rs, (m \o u)[1]) = rs
  <1> DEFINE s == m \o u
             b == m[1]
  <1>1. Len(m) = 1 /\ IsRealTime(b) /\ b \notin {249, 253}
    BY DEF RealTime
  <1>2. s[1] = b /\ b \in Octet
    BY <1>1, LaidEndToEnd
  <1>3. m = <<b>>
    BY <1>1
  <1> HIDE DEF s, b
  <1>4. CommandAt(s, rs) = Command(<<b>>, 1)
    BY <1>1, <1>2, CommandByByte
  <1>5. StatusAfter(rs, b) = rs
    BY <1>1, <1>2, StatusAfterByte
  <1> QED BY <1>1, <1>2, <1>3, <1>4, <1>5 DEF s

LEMMA DataBytesAre ==
    ASSUME NEW st \in 128..243 \ {SysExStart}
    PROVE  DataBytesOf(st) = IF OneDataByte(st) THEN 1 ELSE 2
  BY DEF DataBytesOf, OneDataByte, SysExStart

LEMMA ShortCommand ==
    ASSUME NEW m \in Seq(Octet), IsShort(m), NEW u \in Seq(Octet), NEW rs
    PROVE  /\ CommandAt(m \o u, rs) = Command(m, Len(m))
           /\ StatusAfter(rs, (m \o u)[1]) = RunOn(m[1])
  <1> DEFINE s == m \o u
             b == m[1]
  <1>1. /\ Len(m) \in 2..3 /\ b \in 128..243 \ {SysExStart} /\ b \in Octet
        /\ IsStatus(b) /\ ~IsRealTime(b) /\ b # SysExEnd
        /\ OneDataByte(b) <=> Len(m) = 2
    BY ShortIs
  <1>2. s[1] = b /\ SubSeq(s, 1, Len(m)) = m
    <2>1. 1 \in 1..Len(m)
      BY <1>1
    <2> QED BY <2>1, LaidEndToEnd, FrontAndRest
  <1> HIDE DEF s, b
  <1>3. DataBytesOf(b) + 1 = Len(m)
    <2>1. DataBytesOf(b) = IF OneDataByte(b) THEN 1 ELSE 2
      BY <1>1, DataBytesAre
    <2> QED BY <1>1, <2>1
  <1>6. StatusAfter(rs, b) = RunOn(b)
    <2>1. b \in Nat /\ SysExStart \in Nat
      BY <1>1 DEF SysExStart
    <2>2. b < SysExStart \/ b >= SysExStart
      BY <2>1
    <2>3. b >= SysExStart => ~(b < SysExStart)
      BY <2>1
    <2> QED BY <1>1, <2>2, <2>3, StatusAfterByte DEF RunOn
  <1>7. CommandAt(s, rs) = Command(SubSeq(s, 1, DataBytesOf(b) + 1), DataBytesOf(b) + 1)
    BY <1>1, <1>2, CommandByByte
  <1> QED BY <1>2, <1>3, <1>6, <1>7 DEF s, b

LEMMA RunningCommand ==
    ASSUME NEW m \in Seq(Octet), IsShort(m), m[1] < SysExStart, NEW u \in Seq(Octet)
    PROVE  /\ CommandAt(Tail(m) \o u, m[1]) = Command(Tail(m), Len(Tail(m)))
           /\ StatusAfter(m[1], (Tail(m) \o u)[1]) = m[1]
  <1> DEFINE w == Tail(m)
             s == w \o u
             st == m[1]
             b == m[2]
  <1>1. /\ Len(m) \in 2..3 /\ st \in 128..243 \ {SysExStart}
        /\ OneDataByte(st) <=> Len(m) = 2
        /\ \A i \in 2..Len(m) : m[i] \in Octet /\ ~IsStatus(m[i]) /\ m[i] < 128
    BY ShortIs
  <1>2. b \in Octet /\ ~IsStatus(b) /\ b < 128 /\ st # 0
    <2> HIDE DEF st
    <2>1. 2 \in 2..Len(m)
      BY <1>1, AtLeastTwo
    <2>2. st # 0
      BY <1>1
    <2> QED BY <1>1, <2>1, <2>2
  <1>3. w \in Seq(Octet) /\ Len(w) = Len(m) - 1 /\ w[1] = b
    <2>1. m # <<>> /\ 1 \in 1..Len(m)-1 /\ 1 + 1 = 2
      BY <1>1, AtLeastTwo
    <2> QED BY <2>1, HeadAndTail
  <1> HIDE DEF w
  <1>4. s[1] = b /\ SubSeq(s, 1, Len(w)) = w
    <2>1. 1 \in 1..Len(w)
      BY <1>1, <1>3
    <2> QED BY <1>3, <2>1, LaidEndToEnd, FrontAndRest
  <1> HIDE DEF s, b, st
  <1>5. DataBytesOf(st) = Len(w)
    <2>1. DataBytesOf(st) = IF OneDataByte(st) THEN 1 ELSE 2
      BY <1>1, DataBytesAre
    <2> QED BY <1>1, <1>3, <2>1
  <1>7. StatusAfter(st, b) = st
    BY <1>2, StatusAfterByte
  <1>8. CommandAt(s, st) = Command(SubSeq(s, 1, DataBytesOf(st)), DataBytesOf(st))
    BY <1>2, <1>4, CommandByByte
  <1> QED BY <1>4, <1>5, <1>7, <1>8 DEF s, st, w

ReadAs(c, st, m, head, tail) ==
    /\ st = 0
    /\ head = SysExStart /\ tail = SysExEnd => c = Command(m, Len(m))
    /\ head = SysExStart /\ tail = SysExStart => c = Command(Opening(m), Len(m))
    /\ head = SysExEnd /\ tail = SysExEnd => c = Command(Tail(m), Len(m))

LEMMA SegmentCommand ==
    ASSUME NEW m \in Seq(Octet), NEW head, NEW tail, Segment(m, head, tail),
           head \in {SysExStart, SysExEnd}, tail \in {SysExStart, SysExEnd},
           NEW u \in Seq(Octet), NEW rs
    PROVE  ReadAs(CommandAt(m \o u, rs), StatusAfter(rs, (m \o u)[1]), m, head, tail)
  <1> DEFINE s == m \o u
             n == Len(m)
  <1>1. /\ n \in Nat /\ n >= 2 /\ m[1] = head /\ m[n] = tail
        /\ \A i \in 2..n-1 : ~IsStatus(m[i])
    BY DEF Segment
  <1>2. /\ s \in Seq(Octet) /\ Len(s) \in Nat /\ n \in 2..Len(s)
        /\ \A k \in 1..n : s[k] = m[k]
    BY <1>1, LaidEndToEnd
  <1>3. s[1] = head /\ s[n] = tail
    BY <1>1, <1>2
  <1>4. /\ SubSeq(s, 1, n - 1) = Opening(m) /\ SubSeq(s, 2, n) = Tail(m)
        /\ SubSeq(s, 1, n) = m
    <2>1. /\ n - 1 \in 0..Len(m) /\ 1 \in 1..(n-1)+1
          /\ n \in 0..Len(m) /\ 2 \in 1..n+1 /\ m # <<>>
      BY <1>1
    <2>2. SubSeq(s, 1, n - 1) = SubSeq(m, 1, n - 1) /\ SubSeq(s, 2, n) = SubSeq(m, 2, n)
      BY <2>1, WithinFront
    <2> QED BY <2>1, <2>2, TailIsPiece, FrontAndRest DEF Opening
  <1> HIDE DEF s, n
  <1>5. IsSegmentEnd(s[n]) /\ \A i \in 2..n-1 : ~IsSegmentEnd(s[i])
    <2>1. ASSUME NEW i \in 2..n-1 PROVE ~IsSegmentEnd(s[i])
      <3>1. s[i] = m[i] /\ ~IsStatus(m[i])
        BY <1>1, <1>2
      <3> QED BY <3>1 DEF IsSegmentEnd, IsStatus, SysExEnd
    <2> QED BY <1>3, <2>1 DEF IsSegmentEnd, SysExStart
  <1>6. CommandAt(s, rs) = SysExCommand(s) /\ StatusAfter(rs, s[1]) = 0
    <2>1. /\ s[1] \in {SysExStart, SysExEnd} /\ s[1] \in Octet
          /\ ~IsRealTime(s[1]) /\ s[1] >= SysExStart
      BY <1>3 DEF SysExStart, SysExEnd, IsRealTime, Octet
    <2> QED BY <2>1, CommandByByte, StatusAfterByte
  <1>7. /\ head = SysExStart /\ tail = SysExStart
              => SysExCommand(s) = Command(SubSeq(s, 1, n - 1), n)
        /\ head = SysExEnd /\ tail = SysExEnd => SysExCommand(s) = Command(SubSeq(s, 2, n), n)
        /\ head = SysExStart /\ tail = SysExEnd => SysExCommand(s) = Command(SubSeq(s, 1, n), n)
    BY <1>2, <1>3, <1>5, SegmentIsRead
  <1> QED BY <1>4, <1>6, <1>7 DEF ReadAs, s, n

LEMMA PieceByPiece ==
    ASSUME NEW X, NEW f \in Seq(X), NEW k \in 1..Len(f)
    PROVE  /\ SubSeq(f, k, Len(f)) # <<>> /\ SubSeq(f, k, Len(f)) \in Seq(X)
           /\ Head(SubSeq(f, k, Len(f))) = f[k]
           /\ Tail(SubSeq(f, k, Len(f))) = SubSeq(f, k + 1, Len(f))
           /\ SubSeq(f, k + 1, Len(f)) = <<>> <=> k = Len(f)
  <1> DEFINE n == Len(f)
             d == SubSeq(f, k, n)
             e == SubSeq(f, k + 1, n)
  <1>1. /\ n \in Nat /\ k \in 1..n+1 /\ n \in k-1..n
        /\ k + 1 \in 1..n+1 /\ n \in (k+1)-1..n /\ n - (k + 1) + 1 = n - k
    OBVIOUS
  <1>2. d \in Seq(X) /\ Len(d) = n - k + 1 /\ \A i \in 1..n-k+1 : d[i] = f[k+i-1]
    BY <1>1, Piece
  <1>3. e \in Seq(X) /\ Len(e) = n - k /\ \A i \in 1..n-k : e[i] = f[(k+1)+i-1]
    BY ZenonT(40), <1>1, Piece
  <1> HIDE DEF d, e, n
  <1>4. d # <<>>
    <2>1. Len(<<>>) = 0 /\ n - k + 1 # 0
      BY <1>1
    <2> QED BY <1>2, <2>1
  <1>5. /\ Tail(d) \in Seq(X) /\ Head(d) = d[1] /\ Len(Tail(d)) = Len(d) - 1
        /\ \A i \in 1..Len(d)-1 : Tail(d)[i] = d[i+1]
    BY <1>2, <1>4, HeadAndTail
  <1>6. Head(d) = f[k]
    <2>1. 1 \in 1..n-k+1 /\ k + 1 - 1 = k
      BY <1>1
    <2> QED BY <1>2, <1>5, <2>1
  <1>7. Tail(d) = e
    <2>1. Len(d) - 1 = n - k
      BY <1>1, <1>2
    <2>2. \A i \in 1..n-k : i + 1 \in 1..n-k+1 /\ k + (i + 1) - 1 = (k + 1) + i - 1
      BY <1>1
    <2>3. \A i \in 1..n-k : Tail(d)[i] = e[i]
      BY <1>2, <1>3, <1>5, <2>1, <2>2
    <2> QED BY <1>3, <1>5, <2>1, <2>3, SameSequence
  <1>8. e = <<>> <=> k = n
    <2>1. Len(e) = 0 <=> k = n
      BY <1>1, <1>3
    <2>2. Len(e) = 0 <=> e = <<>>
      BY <1>3
    <2> QED BY <2>1, <2>2
  <1> QED BY <1>2, <1>4, <1>6, <1>7, <1>8 DEF d, e, n

LEMMA WholePiece ==
    ASSUME NEW X, NEW f \in Seq(X)
    PROVE  SubSeq(f, 1, Len(f)) = f
  <1>1. /\ Len(f) \in Nat /\ 1 \in 1..Len(f)+1 /\ Len(f) \in 1-1..Len(f) /\ Len(f) - 1 + 1 = Len(f)
        /\ \A i \in 1..Len(f) : 1 + i - 1 = i
    OBVIOUS
  <1>2. /\ SubSeq(f, 1, Len(f)) \in Seq(X) /\ Len(SubSeq(f, 1, Len(f))) = Len(f)
        /\ \A i \in 1..Len(f) : SubSeq(f, 1, Len(f))[i] = f[1+i-1]
    BY <1>1, Piece
  <1> QED BY <1>1, <1>2, SameSequence

--------------------------------------------------------------------------------
(* Messages are of one kind, and follow one. *)
LEMMA KindsApart ==
    ASSUME NEW m \in Seq(Octet)
    PROVE  /\ IsShort(m) => ~RealTime(m) /\ ~IsWhole(m) /\ ~IsFirst(m) /\ ~IsMiddle(m) /\ ~IsLast(m)
           /\ RealTime(m) => /\ ~IsWhole(m) /\ ~IsFirst(m) /\ ~IsMiddle(m) /\ ~IsLast(m)
                             /\ ~(m[1] < SysExStart)
           /\ IsWhole(m) \/ IsFirst(m) \/ IsMiddle(m) \/ IsLast(m) => ~(m[1] < SysExStart)
           /\ IsWhole(m) => ~IsFirst(m) /\ ~IsMiddle(m) /\ ~IsLast(m)
           /\ IsFirst(m) => ~IsMiddle(m) /\ ~IsLast(m)
           /\ IsMiddle(m) => ~IsLast(m)
  <1>1. IsShort(m) => m[1] \in 128..243 \ {SysExStart}
    BY DEF IsShort
  <1>2. RealTime(m) => IsRealTime(m[1])
    BY DEF RealTime
  <1>3. /\ IsWhole(m)  => m[1] = SysExStart /\ m[Len(m)] = SysExEnd
        /\ IsFirst(m)  => m[1] = SysExStart /\ m[Len(m)] = SysExStart
        /\ IsMiddle(m) => m[1] = SysExEnd /\ m[Len(m)] = SysExStart
        /\ IsLast(m)   => m[1] = SysExEnd /\ m[Len(m)] = SysExEnd
    BY DEF IsWhole, IsFirst, IsMiddle, IsLast, Segment
  <1>4. SysExStart # SysExEnd /\ ~IsRealTime(SysExStart) /\ ~IsRealTime(SysExEnd)
        /\ ~(SysExStart < SysExStart) /\ ~(SysExEnd < SysExStart)
    BY DEF SysExStart, SysExEnd, IsRealTime
  <1>5. IsShort(m) => ~IsRealTime(m[1]) /\ m[1] # SysExEnd /\ m[1] # SysExStart
    BY <1>1, StatusOfShort
  <1>6. RealTime(m) => ~(m[1] < SysExStart)
    <2> SUFFICES ASSUME RealTime(m) PROVE ~(m[1] < SysExStart)
      OBVIOUS
    <2>1. m[1] \in Octet
      BY DEF RealTime
    <2>2. \A b \in Octet : IsRealTime(b) => ~(b < SysExStart)
      BY DEF Octet, IsRealTime, SysExStart
    <2> QED BY <1>2, <2>1, <2>2
  <1>7. IsShort(m) => ~RealTime(m) /\ ~IsWhole(m) /\ ~IsFirst(m) /\ ~IsMiddle(m) /\ ~IsLast(m)
    BY <1>2, <1>3, <1>5
  <1>8. RealTime(m) => ~IsWhole(m) /\ ~IsFirst(m) /\ ~IsMiddle(m) /\ ~IsLast(m)
    BY <1>2, <1>3, <1>4
  <1>9. /\ IsWhole(m) \/ IsFirst(m) \/ IsMiddle(m) \/ IsLast(m) => ~(m[1] < SysExStart)
        /\ IsWhole(m) => ~IsFirst(m) /\ ~IsMiddle(m) /\ ~IsLast(m)
        /\ IsFirst(m) => ~IsMiddle(m) /\ ~IsLast(m)
        /\ IsMiddle(m) => ~IsLast(m)
    BY <1>3, <1>4
  <1> QED BY <1>6, <1>7, <1>8, <1>9

LEMMA OneBefore ==
    ASSUME NEW ms, NEW i \in Nat, NEW j \in 1..i-1, NEW k \in 1..i-1,
           Follows(ms, j, i), ~RealTime(ms[j]), Follows(ms, k, i), ~RealTime(ms[k])
    PROVE  j = k
  <1>1. ~(j \in k+1..i-1) /\ ~(k \in j+1..i-1)
    BY DEF Follows
  <1> QED BY <1>1

(* Behind a message that is no Real-Time one, that message is the last. *)
LEMMA LastIsThis ==
    ASSUME NEW ms, NEW i \in Nat, ~RealTime(ms[i]), NEW j \in 1..i, Follows(ms, j, i + 1)
    PROVE  j = i
  <1>1. ~(i \in j+1..(i+1)-1)
    BY DEF Follows
  <1> QED BY <1>1

(* A Real-Time message changes nothing. *)
LEMMA RealTimeBetween ==
    ASSUME NEW ms, NEW i \in Nat, NEW rs, NEW p, AfterMessage(ms, i, rs, p),
           ms[i+1] \in Seq(Octet), RealTime(ms[i+1])
    PROVE  AfterMessage(ms, i + 1, rs, p)
  <1>1. ASSUME NEW j \in 1..i+1, Follows(ms, j, (i + 1) + 1)
        PROVE  /\ ms[j][1] < SysExStart => rs = ms[j][1]
               /\ IsFirst(ms[j]) => HoldsPart(p, "SysExByte", ms[j], Len(ms[j]) - 1)
    <2>1. CASE j = i + 1
      BY <2>1, KindsApart
    <2>2. CASE j # i + 1
      <3>1. j \in 1..i /\ j < i + 1 /\ \A k \in j+1..(i+1)-1 : k \in j+1..((i+1)+1)-1
        BY <2>2
      <3>2. Follows(ms, j, i + 1)
        BY <1>1, <3>1 DEF Follows
      <3> QED BY <3>1, <3>2 DEF AfterMessage
    <2> QED BY <2>1, <2>2
  <1> QED BY <1>1 DEF AfterMessage

--------------------------------------------------------------------------------
(* The code reads a message off the list as it was written. *)
Statuses == {0} \cup 128..239

Enters(c, rs, ms, i, p, w) ==
    /\ c.data # <<>> /\ c.parsed = Len(w)
    /\ rs \in Statuses
    /\ InMessage(ms, i, rs, p, c.data)

LEMMA RealTimeEnters ==
    ASSUME NEW ms, NEW t \in Nat, NEW m, m = ms[t+1], m \in Seq(Octet), RealTime(m),
           NEW p, NEW rs \in Statuses, AfterMessage(ms, t, rs, p), NEW u \in Seq(Octet)
    PROVE  Enters(CommandAt(m \o u, rs), StatusAfter(rs, (m \o u)[1]), ms, t + 1, p, m)
  <1>1. /\ CommandAt(m \o u, rs) = Command(m, Len(m))
        /\ StatusAfter(rs, (m \o u)[1]) = rs
    BY RealTimeCommand
  <1>2. AfterMessage(ms, t + 1, rs, p)
    BY RealTimeBetween
  <1>3. InMessage(ms, t + 1, rs, p, m)
    BY <1>2 DEF InMessage
  <1>4. m # <<>>
    <2>1. Len(m) # 0
      BY DEF RealTime
    <2> QED BY <2>1, NotEmpty
  <1>5. Enters(Command(m, Len(m)), rs, ms, t + 1, p, m)
    BY <1>3, <1>4 DEF Enters, Command
  <1> QED BY <1>1, <1>5

LEMMA RunsOnAs ==
    ASSUME NEW st \in 128..243 \ {SysExStart}
    PROVE  RunOn(st) \in Statuses
  BY DEF RunOn, Statuses, SysExStart

LEMMA ShortEnters ==
    ASSUME NEW ms, NEW t \in Nat, NEW m, m = ms[t+1], m \in Seq(Octet), IsShort(m),
           NEW p, NEW rs, NEW u \in Seq(Octet)
    PROVE  Enters(CommandAt(m \o u, rs), StatusAfter(rs, (m \o u)[1]), ms, t + 1, p, m)
  <1>1. /\ CommandAt(m \o u, rs) = Command(m, Len(m))
        /\ StatusAfter(rs, (m \o u)[1]) = RunOn(m[1])
    BY ShortCommand
  <1>2. Len(m) \in 2..3 /\ m[1] \in 128..243 \ {SysExStart}
    BY ShortIs
  <1>3. m # <<>> /\ 1 \in 1..Len(m)
    BY <1>2, AtLeastTwo
  <1>4. RunOn(m[1]) \in Statuses
    BY <1>2, RunsOnAs
  <1>5. InMessage(ms, t + 1, RunOn(m[1]), p, m)
    <2>1. m = SubSeq(m, 1, Len(m)) /\ ShortUpTo(p, m, 1)
      BY WholePiece DEF ShortUpTo
    <2> QED BY <1>3, <2>1 DEF InMessage
  <1>6. Enters(Command(m, Len(m)), RunOn(m[1]), ms, t + 1, p, m)
    BY <1>3, <1>4, <1>5 DEF Enters, Command
  <1> QED BY <1>1, <1>6

LEMMA RunningEnters ==
    ASSUME NEW ms, NEW t \in Nat, NEW m, m = ms[t+1], m \in Seq(Octet), IsShort(m),
           RunsOn(ms, t + 1), NEW p, NEW rs \in Statuses, AfterMessage(ms, t, rs, p),
           NEW u \in Seq(Octet)
    PROVE  Enters(CommandAt(Tail(m) \o u, rs), StatusAfter(rs, (Tail(m) \o u)[1]),
                  ms, t + 1, p, Tail(m))
  <1>1. PICK j \in 1..(t+1)-1 : Follows(ms, j, t + 1) /\ ms[j][1] = m[1] /\ m[1] < SysExStart
    BY DEF RunsOn
  <1>2. rs = m[1]
    <2>1. j \in 1..t
      BY <1>1
    <2> QED BY <1>1, <2>1 DEF AfterMessage
  <1>3. Len(m) \in 2..3 /\ m[1] \in 128..243 \ {SysExStart}
    BY ShortIs
  <1>4. m # <<>> /\ 2 \in 1..Len(m) /\ rs # 0
    <2>1. m # <<>> /\ 2 \in 2..Len(m)
      BY <1>3, AtLeastTwo
    <2>2. \A x \in 128..243 \ {SysExStart} : x # 0
      OBVIOUS
    <2>3. m[1] # 0
      BY <1>3, <2>2
    <2>4. 2 \in 1..Len(m)
      <3>1. \A n \in 2..3 : 2 \in 1..n
        OBVIOUS
      <3> QED BY <1>3, <3>1
    <2> QED BY <1>2, <2>1, <2>3, <2>4
  <1>5. Between(p, m[1])
    BY <1>2, <1>4 DEF AfterMessage
  <1>6. /\ CommandAt(Tail(m) \o u, rs) = Command(Tail(m), Len(Tail(m)))
        /\ StatusAfter(rs, (Tail(m) \o u)[1]) = rs
    BY <1>1, <1>2, RunningCommand
  <1>7. Tail(m) = SubSeq(m, 2, Len(m)) /\ Tail(m) # <<>>
    BY <1>4, TailIsPiece, PieceByPiece
  <1>8. InMessage(ms, t + 1, rs, p, Tail(m))
    <2>1. ShortUpTo(p, m, 2) /\ rs = RunOn(m[1])
      BY <1>1, <1>2, <1>5 DEF ShortUpTo, RunOn
    <2> QED BY <1>4, <1>7, <2>1 DEF InMessage
  <1>9. Enters(Command(Tail(m), Len(Tail(m))), rs, ms, t + 1, p, Tail(m))
    BY <1>7, <1>8 DEF Enters, Command
  <1> QED BY <1>6, <1>9

LEMMA OpeningIs ==
    ASSUME NEW m \in Seq(Octet), Len(m) >= 2
    PROVE  /\ Opening(m) \in Seq(Octet) /\ Len(Opening(m)) = Len(m) - 1
           /\ Len(Opening(m)) \in Nat \ {0} /\ Opening(m) # <<>>
           /\ \A i \in 1..Len(m)-1 : Opening(m)[i] = m[i]
  <1>1. /\ Len(m) \in Nat /\ 1 \in 1..Len(m)+1 /\ Len(m) - 1 \in 1-1..Len(m)
        /\ (Len(m) - 1) - 1 + 1 = Len(m) - 1 /\ Len(m) - 1 \in Nat \ {0}
        /\ \A i \in 1..Len(m)-1 : 1 + i - 1 = i
    <2>1. ASSUME NEW n \in Nat, n >= 2
          PROVE  /\ 1 \in 1..n+1 /\ n - 1 \in 1-1..n /\ (n - 1) - 1 + 1 = n - 1
                 /\ n - 1 \in Nat \ {0} /\ \A i \in 1..n-1 : 1 + i - 1 = i
      BY <2>1
    <2>2. Len(m) \in Nat
      OBVIOUS
    <2> QED BY <2>1, <2>2
  <1>2. /\ Opening(m) \in Seq(Octet) /\ Len(Opening(m)) = Len(m) - 1
        /\ \A i \in 1..Len(m)-1 : Opening(m)[i] = m[1+i-1]
    BY <1>1, Piece DEF Opening
  <1>3. Opening(m) # <<>>
    BY <1>1, <1>2, NotEmpty
  <1> QED BY <1>1, <1>2, <1>3

LEMMA SegmentIs ==
    ASSUME NEW m \in Seq(Octet), IsWhole(m) \/ IsFirst(m) \/ IsLast(m)
    PROVE  /\ Len(m) \in Nat /\ Len(m) >= 2 /\ m # <<>> /\ Tail(m) # <<>> /\ 1 \in 1..Len(m)
           /\ Tail(m) \in Seq(Octet) /\ Len(Tail(m)) = Len(m) - 1 /\ Len(Tail(m)) \in Nat \ {0}
           /\ \A i \in 1..Len(m)-1 : Tail(m)[i] = m[i+1]
           /\ \A i \in 2..Len(m)-1 : ~IsStatus(m[i])
  <1>1. /\ Len(m) \in Nat /\ Len(m) >= 2
        /\ \A i \in 2..Len(m)-1 : ~IsStatus(m[i])
    BY DEF IsWhole, IsFirst, IsLast, Segment
  <1>2. ASSUME NEW n \in Nat, n >= 2 PROVE n # 0 /\ n - 1 \in Nat \ {0} /\ 1 \in 1..n
    BY <1>2
  <1>3. m # <<>>
    BY <1>1, <1>2, NotEmpty
  <1>4. /\ Tail(m) \in Seq(Octet) /\ Len(Tail(m)) = Len(m) - 1
        /\ \A i \in 1..Len(m)-1 : Tail(m)[i] = m[i+1]
    BY <1>3, HeadAndTail
  <1>5. Tail(m) # <<>>
    BY <1>1, <1>2, <1>4, NotEmpty
  <1> QED BY <1>1, <1>2, <1>3, <1>4, <1>5

LEMMA SegmentCommands ==
    ASSUME NEW m \in Seq(Octet), NEW u \in Seq(Octet), NEW rs
    PROVE  /\ IsWhole(m) => /\ CommandAt(m \o u, rs) = Command(m, Len(m))
                            /\ StatusAfter(rs, (m \o u)[1]) = 0
           /\ IsFirst(m) => /\ CommandAt(m \o u, rs) = Command(Opening(m), Len(m))
                            /\ StatusAfter(rs, (m \o u)[1]) = 0
           /\ IsLast(m)  => /\ CommandAt(m \o u, rs) = Command(Tail(m), Len(m))
                            /\ StatusAfter(rs, (m \o u)[1]) = 0
  <1>1. SysExStart \in {SysExStart, SysExEnd} /\ SysExEnd \in {SysExStart, SysExEnd}
    OBVIOUS
  <1> DEFINE c == CommandAt(m \o u, rs)
             st == StatusAfter(rs, (m \o u)[1])
  <1>2. ASSUME NEW head \in {SysExStart, SysExEnd}, NEW tail \in {SysExStart, SysExEnd},
               Segment(m, head, tail)
        PROVE  ReadAs(c, st, m, head, tail)
    BY <1>2, SegmentCommand
  <1> HIDE DEF c, st
  <1>3. IsWhole(m) => c = Command(m, Len(m)) /\ st = 0
    BY <1>1, <1>2 DEF IsWhole, ReadAs
  <1>4. IsFirst(m) => c = Command(Opening(m), Len(m)) /\ st = 0
    BY <1>1, <1>2 DEF IsFirst, ReadAs
  <1>5. IsLast(m) => c = Command(Tail(m), Len(m)) /\ st = 0
    BY <1>1, <1>2 DEF IsLast, ReadAs
  <1> QED BY <1>3, <1>4, <1>5 DEF c, st

LEMMA SysExEnters ==
    ASSUME NEW ms, NEW t \in Nat, NEW m, m = ms[t+1], m \in Seq(Octet), IsWhole(m) \/ IsFirst(m),
           NEW p, NEW rs, NEW u \in Seq(Octet)
    PROVE  Enters(CommandAt(m \o u, rs), StatusAfter(rs, (m \o u)[1]), ms, t + 1, p, m)
  <1> DEFINE f == IF IsWhole(m) THEN m ELSE Opening(m)
  <1>1. Len(m) >= 2 /\ m # <<>>
    BY SegmentIs
  <1>2. f \in Seq(Octet) /\ f # <<>> /\ 1 \in 1..Len(f)
    BY <1>1, OpeningIs
  <1>3. /\ CommandAt(m \o u, rs) = Command(f, Len(m))
        /\ StatusAfter(rs, (m \o u)[1]) = 0
    BY SegmentCommands
  <1>4. InMessage(ms, t + 1, 0, p, f)
    <2>1. Assembles(ms, t + 1, f)
      BY DEF Assembles
    <2> HIDE DEF f
    <2>2. f = SubSeq(f, 1, Len(f)) /\ SysExUpTo(p, f, 1)
      BY <1>2, WholePiece DEF SysExUpTo
    <2> QED BY <1>2, <2>1, <2>2 DEF InMessage
  <1>5. Enters(Command(f, Len(m)), 0, ms, t + 1, p, m)
    <2> HIDE DEF f
    <2> QED BY <1>2, <1>4 DEF Enters, Command, Statuses
  <1> QED BY <1>3, <1>5

LEMMA OctetsLaid ==
    ASSUME NEW a \in Seq(Octet), NEW b \in Seq(Octet)
    PROVE  /\ a \o b \in Seq(Octet) /\ Len(a \o b) = Len(a) + Len(b)
           /\ \A k \in 1..Len(a) : (a \o b)[k] = a[k]
           /\ \A k \in 1..Len(b) : (a \o b)[Len(a) + k] = b[k]
  BY LaidEndToEnd

LEMMA LastEnters ==
    ASSUME NEW ms \in Seq(Seq(Octet)), NEW t \in Nat, NEW m, m = ms[t+1], m \in Seq(Octet), IsLast(m),
           NEW j \in 1..t, j \in 1..Len(ms), Closes(ms, j, t + 1),
           NEW p, NEW rs, AfterMessage(ms, t, rs, p), NEW u \in Seq(Octet)
    PROVE  Enters(CommandAt(m \o u, rs), StatusAfter(rs, (m \o u)[1]), ms, t + 1, p, m)
  <1> DEFINE o == Opening(ms[j])
             w == Tail(m)
             f == o \o w
             k == Len(ms[j])
  <1>1. w \in Seq(Octet) /\ w # <<>> /\ Len(w) \in Nat \ {0} /\ Len(m) >= 2
    BY SegmentIs
  <1>2. /\ ms[j] \in Seq(Octet) /\ k \in Nat /\ k >= 2
        /\ o \in Seq(Octet) /\ Len(o) = k - 1 /\ o # <<>>
        /\ \A i \in 1..k-1 : o[i] = ms[j][i]
    <2>1. ms[j] \in Seq(Octet) /\ IsFirst(ms[j])
      BY DEF Closes
    <2>2. Len(ms[j]) \in Nat /\ Len(ms[j]) >= 2
      BY <2>1, SegmentIs
    <2> QED BY <2>1, <2>2, OpeningIs
  <1> HIDE DEF o, w
  <1>3. /\ f \in Seq(Octet) /\ Len(f) = Len(o) + Len(w)
        /\ SubSeq(f, Len(o) + 1, Len(f)) = w
        /\ \A i \in 1..Len(o) : f[i] = o[i]
    <2>1. /\ f \in Seq(Octet) /\ Len(f) = Len(o) + Len(w)
          /\ \A i \in 1..Len(o) : f[i] = o[i]
      BY <1>1, <1>2, OctetsLaid
    <2>2. SubSeq(f, Len(o) + 1, Len(f)) = w
      BY <1>1, <1>2, FrontAndRest
    <2> QED BY <2>1, <2>2
  <1>4. /\ CommandAt(m \o u, rs) = Command(w, Len(m))
        /\ StatusAfter(rs, (m \o u)[1]) = 0
    BY SegmentCommands DEF w
  <1>5. HoldsPart(p, "SysExByte", f, k - 1)
    <2>1. HoldsPart(p, "SysExByte", ms[j], k - 1)
      BY DEF AfterMessage, Closes
    <2>2. \A i \in 1..k-1 : f[i] = ms[j][i]
      BY <1>2, <1>3
    <2> HIDE DEF f
    <2> QED BY <2>1, <2>2 DEF HoldsPart
  <1> HIDE DEF f, k
  <1>6. InMessage(ms, t + 1, 0, p, w)
    <2>1. Assembles(ms, t + 1, f)
      <3>1. j \in 1..(t+1)-1
        OBVIOUS
      <3> QED BY <3>1 DEF Assembles, f, o, w
    <2>2. k \in 1..Len(f) /\ Len(o) + 1 = k
      BY <1>1, <1>2, <1>3
    <2>3. w = SubSeq(f, k, Len(f)) /\ SysExUpTo(p, f, k)
      BY <1>3, <1>5, <2>2 DEF SysExUpTo
    <2> QED BY <1>3, <2>1, <2>2, <2>3 DEF InMessage
  <1>7. Enters(Command(w, Len(m)), 0, ms, t + 1, p, m)
    BY <1>1, <1>6 DEF Enters, Command, Statuses
  <1> QED BY <1>4, <1>7

WithoutMiddles(ms) == \A i \in DOMAIN ms : ~IsMiddle(ms[i])

LEMMA MessageEnters ==
    ASSUME NEW ms \in Seq(Seq(Octet)), WithoutMiddles(ms), InSequence(ms),
           NEW t \in Nat, t + 1 \in 1..Len(ms), IsMessage(ms[t+1]),
           NEW p, NEW rs \in Statuses, AfterMessage(ms, t, rs, p),
           NEW u \in Seq(Octet), NEW w \in Wire(ms, t + 1)
    PROVE  /\ Enters(CommandAt(w \o u, rs), StatusAfter(rs, (w \o u)[1]), ms, t + 1, p, w)
           /\ w \in Seq(Octet) /\ w # <<>>
  <1> DEFINE m == ms[t+1]
             E(x) == Enters(CommandAt(x \o u, rs), StatusAfter(rs, (x \o u)[1]), ms, t + 1, p, x)
  <1>1. m \in Seq(Octet) /\ m # <<>> /\ t + 1 \in DOMAIN ms
    BY DEF IsMessage
  <1>2. \/ IsShort(m) \/ RealTime(m) \/ IsWhole(m) \/ IsFirst(m) \/ IsLast(m)
    BY <1>1 DEF IsMessage, WithoutMiddles
  <1>3. RunsOn(ms, t + 1) => IsShort(m)
    <2>1. RunsOn(ms, t + 1) => m[1] < SysExStart
      BY DEF RunsOn
    <2> HIDE DEF m
    <2> QED BY <1>1, <1>2, <2>1, KindsApart
  <1>4. w = m \/ (RunsOn(ms, t + 1) /\ w = Tail(m))
    BY DEF Wire
  <1>5. CASE w = m
    <2>1. CASE IsShort(m)
      <3> HIDE DEF m
      <3>1. E(m)
        BY <1>1, <2>1, ShortEnters DEF m
      <3> QED BY <1>1, <1>5, <3>1
    <2>2. CASE RealTime(m)
      <3> HIDE DEF m
      <3>1. E(m)
        BY <1>1, <2>2, RealTimeEnters DEF m
      <3> QED BY <1>1, <1>5, <3>1
    <2>3. CASE IsWhole(m) \/ IsFirst(m)
      <3> HIDE DEF m
      <3>1. E(m)
        BY <1>1, <2>3, SysExEnters DEF m
      <3> QED BY <1>1, <1>5, <3>1
    <2>4. CASE IsLast(m)
      <3>1. PICK j \in 1..(t+1)-1 :
               /\ Follows(ms, j, t + 1)
               /\ \/ IsMiddle(ms[j])
                  \/ IsFirst(ms[j]) /\ Len(ms[j]) + Len(ms[t+1]) - 2 <= SysExBufferSize
        BY <1>1, <2>4 DEF InSequence
      <3>2. j \in 1..t /\ j \in 1..Len(ms) /\ j \in DOMAIN ms
        OBVIOUS
      <3>3. Closes(ms, j, t + 1)
        BY <3>1, <3>2 DEF Closes, WithoutMiddles
      <3> HIDE DEF m
      <3>4. E(m)
        BY <1>1, <2>4, <3>2, <3>3, LastEnters DEF m
      <3> QED BY <1>1, <1>5, <3>4
    <2> QED BY <1>2, <2>1, <2>2, <2>3, <2>4
  <1>6. CASE RunsOn(ms, t + 1) /\ w = Tail(m)
    <2> HIDE DEF m
    <2>1. E(Tail(m))
      BY <1>1, <1>3, <1>6, RunningEnters DEF m
    <2>2. Tail(m) \in Seq(Octet)
      BY <1>1, HeadAndTail
    <2>3. Tail(m) # <<>>
      <3>1. Len(m) \in 2..3
        BY <1>1, <1>3, <1>6, ShortIs
      <3>2. \A n \in 2..3 : n - 1 # 0
        OBVIOUS
      <3>3. Len(Tail(m)) = Len(m) - 1
        BY <1>1, HeadAndTail
      <3> QED BY <2>2, <3>1, <3>2, <3>3, NotEmpty
    <2> QED BY <1>6, <2>1, <2>2, <2>3
  <1> QED BY <1>4, <1>5, <1>6

--------------------------------------------------------------------------------
(* The parser takes a message in. *)
Goes(r, ms, i, rs, d) ==
    /\ r.calls \in Seq(Call)
    /\ IF d # <<>> THEN r.calls = <<>> /\ InMessage(ms, i, rs, r.p, d)
       ELSE r.calls = Hears(ms, i) /\ AfterMessage(ms, i, rs, r.p)

Taken(p, ms, i, rs, d) ==
    /\ Head(d) \in Octet \ {TuneRequest}
    /\ Goes(ParseByte(p, Head(d), FALSE), ms, i, rs, Tail(d))

LEMMA CallsAre ==
    ASSUME NEW m \in Seq(Octet)
    PROVE  <<>> \in Seq(Call) /\ <<Short(m)>> \in Seq(Call) /\ <<SysEx(m)>> \in Seq(Call)
  <1>1. Short(m) \in Call /\ SysEx(m) \in Call
    BY DEF Short, SysEx, Call
  <1> QED BY <1>1

LEMMA Empty ==
    ASSUME NEW X, NEW s \in Seq(X), Len(s) = 0
    PROVE  s = <<>>
  OBVIOUS

LEMMA SingleByte ==
    ASSUME NEW m \in Seq(Octet), Len(m) = 1
    PROVE  m = <<m[1]>> /\ m[1] \in Octet /\ Head(m) = m[1] /\ Tail(m) = <<>>
  <1>1. m = <<m[1]>> /\ m[1] \in Octet /\ m # <<>>
    OBVIOUS
  <1>2. Tail(m) \in Seq(Octet) /\ Len(Tail(m)) = 0 /\ Head(m) = m[1]
    <2>1. Len(Tail(m)) = 1 - 1
      BY <1>1, HeadAndTail
    <2> QED BY <1>1, <2>1, HeadAndTail
  <1>3. Tail(m) = <<>>
    BY <1>2, Empty
  <1> QED BY <1>1, <1>2, <1>3

LEMMA RealTimeTaken ==
    ASSUME NEW ms, NEW i \in Nat, ms[i] \in Seq(Octet), NEW rs, NEW p,
           RealTime(ms[i]), AfterMessage(ms, i, rs, p)
    PROVE  Taken(p, ms, i, rs, ms[i])
  <1> DEFINE m == ms[i]
             b == m[1]
             r == ParseByte(p, b, FALSE)
  <1>1. Len(m) = 1 /\ IsRealTime(b) /\ b \notin {249, 253}
    BY DEF RealTime
  <1>2. m = <<b>> /\ b \in Octet /\ Head(m) = b /\ Tail(m) = <<>>
    BY <1>1, SingleByte
  <1>3. b # TuneRequest
    BY <1>1 DEF IsRealTime, TuneRequest
  <1>4. r.p = p /\ r.calls = <<Short(m)>>
    <2> HIDE DEF m, b
    <2>0. IsRealTime(b) /\ b \in Octet /\ FALSE \in BOOLEAN
      BY <1>1, <1>2
    <2>1. /\ r.p = p
          /\ r.calls = IF b \in {249, 253} THEN <<>> ELSE <<Short(<<b>>)>>
      BY ONLY <2>0 DEF r, ParseByte, Result
    <2> HIDE DEF r
    <2>2. r.calls = <<Short(<<b>>)>>
      BY <1>1, <2>1
    <2> QED BY <1>2, <2>1, <2>2
  <1>5. Hears(ms, i) = <<Short(m)>>
    <2> HIDE DEF m
    <2>1. m \in Seq(Octet) /\ RealTime(m)
      BY DEF m
    <2>2. ~IsWhole(m) /\ ~IsFirst(m) /\ ~IsMiddle(m) /\ ~IsLast(m)
      BY <2>1, KindsApart
    <2> QED BY <2>1, <2>2 DEF Hears, m
  <1> HIDE DEF r, b
  <1>6. Goes(r, ms, i, rs, <<>>)
    <2>1. <<Short(m)>> \in Seq(Call)
      BY CallsAre
    <2> QED BY <1>4, <1>5, <2>1 DEF Goes
  <1>7. Taken(p, ms, i, rs, m)
    BY <1>2, <1>3, <1>6 DEF Taken, r
  <1> QED BY <1>7

LEMMA ShortIsTaken ==
    ASSUME NEW ms, NEW i \in Nat, ms[i] \in Seq(Octet), NEW rs, NEW p, WellFormed(p),
           IsShort(ms[i]), rs = RunOn(ms[i][1]), NEW k \in 1..Len(ms[i]), ShortUpTo(p, ms[i], k)
    PROVE  Taken(p, ms, i, rs, SubSeq(ms[i], k, Len(ms[i])))
  <1> DEFINE m == ms[i]
             d == SubSeq(m, k, Len(m))
             r == ParseByte(p, m[k], FALSE)
  <1>1. m \in Seq(Octet) /\ IsShort(m) /\ k \in 1..Len(m) /\ rs = RunOn(m[1]) /\ ShortUpTo(p, m, k)
    OBVIOUS
  <1> HIDE DEF m
  <1>2. /\ Head(d) = m[k] /\ Tail(d) = SubSeq(m, k + 1, Len(m))
        /\ SubSeq(m, k + 1, Len(m)) = <<>> <=> k = Len(m)
    BY <1>1, PieceByPiece
  <1>3. m[k] \in Octet \ {TuneRequest}
    <2>1. /\ Len(m) \in 2..3 /\ m[1] \in Octet /\ m[1] # TuneRequest
          /\ \A x \in 2..Len(m) : m[x] \in Octet /\ ~IsStatus(m[x])
      BY <1>1, ShortIs
    <2>2. k = 1 \/ k \in 2..Len(m)
      BY <1>1, <2>1
    <2>3. IsStatus(TuneRequest)
      BY DEF IsStatus, TuneRequest
    <2> QED BY <2>1, <2>2, <2>3
  <1>4. ShortTaken(r, m, k)
    BY <1>1, ShortByte
  <1> HIDE DEF d, r
  <1>5. CASE k # Len(m)
    <2>1. k < Len(m) /\ k + 1 \in 1..Len(m)
      BY <1>1, <1>5
    <2>2. r.calls = <<>> /\ ShortUpTo(r.p, m, k + 1)
      BY <1>4, <2>1 DEF ShortTaken
    <2>3. InMessage(ms, i, rs, r.p, Tail(d))
      BY <1>1, <1>2, <2>1, <2>2 DEF InMessage, m
    <2>4. Goes(r, ms, i, rs, Tail(d))
      BY <1>1, <1>2, <1>5, <2>2, <2>3, CallsAre DEF Goes
    <2>5. Taken(p, ms, i, rs, d)
      BY <1>2, <1>3, <2>4 DEF Taken, r
    <2> QED BY <2>5 DEF d, m
  <1>6. CASE k = Len(m)
    <2>1. r.calls = <<Short(m)>> /\ Between(r.p, RunOn(m[1]))
      <3>1. ~(k < Len(m))
        BY <1>1, <1>6
      <3> QED BY <1>4, <3>1 DEF ShortTaken
    <2>2. /\ ~RealTime(m) /\ ~IsWhole(m) /\ ~IsFirst(m) /\ ~IsMiddle(m) /\ ~IsLast(m)
      BY <1>1, KindsApart
    <2>3. Hears(ms, i) = <<Short(m)>>
      BY <1>1, <2>2 DEF Hears, m
    <2>4. AfterMessage(ms, i, rs, r.p)
      <3>1. ASSUME NEW j \in 1..i, Follows(ms, j, i + 1) PROVE j = i
        BY <2>2, <3>1, LastIsThis DEF m
      <3>2. m[1] < SysExStart => rs = m[1]
        BY <1>1 DEF RunOn
      <3> QED BY <1>1, <2>1, <2>2, <3>1, <3>2 DEF AfterMessage, m
    <2>5. Goes(r, ms, i, rs, Tail(d))
      BY <1>1, <1>2, <1>6, <2>1, <2>3, <2>4, CallsAre DEF Goes
    <2>6. Taken(p, ms, i, rs, d)
      BY <1>2, <1>3, <2>5 DEF Taken, r
    <2> QED BY <2>6 DEF d, m
  <1> QED BY <1>5, <1>6

LEMMA WhatIsAssembled ==
    ASSUME NEW ms \in Seq(Seq(Octet)), NEW i \in Nat, i \in 1..Len(ms),
           IsWhole(ms[i]) \/ IsFirst(ms[i]) \/ IsLast(ms[i]),
           NEW f \in Seq(Octet), Assembles(ms, i, f)
    PROVE  /\ FitsBuffer(f)
           /\ IsFirst(ms[i]) => f = Opening(ms[i]) /\ \A x \in 1..Len(f) : f[x] # SysExEnd
           /\ ~IsFirst(ms[i]) => f[Len(f)] = SysExEnd
           /\ Hears(ms, i) = IF IsFirst(ms[i]) THEN <<>> ELSE <<SysEx(f)>>
  <1> DEFINE m == ms[i]
  <1>1. m \in Seq(Octet) /\ (IsWhole(m) \/ IsFirst(m) \/ IsLast(m))
    OBVIOUS
  <1>2. /\ \/ IsWhole(m) /\ f = m
           \/ IsFirst(m) /\ f = Opening(m)
           \/ IsLast(m) /\ \E j \in 1..i-1 : Closes(ms, j, i) /\ f = Opening(ms[j]) \o Tail(m)
    BY DEF Assembles
  <1>3. SysExBufferSize \in Nat /\ IsStatus(SysExEnd) /\ SysExStart # SysExEnd
    BY ParserAssumption DEF IsStatus, SysExEnd, SysExStart
  <1>4. CASE IsWhole(m)
    <2>1. f = m /\ ~IsFirst(m) /\ ~IsMiddle(m) /\ ~IsLast(m) /\ ~IsShort(m) /\ ~RealTime(m)
      <3> HIDE DEF m
      <3> QED BY <1>1, <1>2, <1>4, KindsApart
    <2>2. Hears(ms, i) = <<SysEx(m)>>
      BY <1>4, <2>1 DEF Hears
    <2> HIDE DEF m
    <2>3. /\ Len(m) \in Nat /\ Len(m) >= 2 /\ Len(m) <= SysExBufferSize
          /\ m[1] = SysExStart /\ m[Len(m)] = SysExEnd
          /\ \A x \in 2..Len(m)-1 : ~IsStatus(m[x])
      BY <1>1, <1>4 DEF IsWhole, Segment
    <2>4. FitsBuffer(m)
      <3>1. ASSUME NEW x \in 2..Len(m) PROVE ~IsStatus(m[x]) \/ (x = Len(m) /\ m[x] = SysExEnd)
        <4>1. x = Len(m) \/ x \in 2..Len(m)-1
          BY <2>3
        <4> QED BY <2>3, <4>1
      <3>2. Len(m) \in 1..SysExBufferSize
        BY <1>3, <2>3
      <3> QED BY <2>3, <3>1, <3>2 DEF FitsBuffer
    <2> QED BY <2>1, <2>2, <2>3, <2>4 DEF m
  <1>5. CASE IsFirst(m)
    <2>1. f = Opening(m) /\ ~IsWhole(m) /\ ~IsLast(m)
      <3> HIDE DEF m
      <3> QED BY <1>1, <1>2, <1>5, KindsApart
    <2>2. Hears(ms, i) = <<>>
      <3>1. ~IsWhole(m) /\ ~IsMiddle(m) /\ ~IsLast(m) /\ ~IsShort(m) /\ ~RealTime(m)
        <4> HIDE DEF m
        <4> QED BY <1>1, <1>5, KindsApart
      <3> QED BY <1>5, <3>1 DEF Hears
    <2> HIDE DEF m
    <2>3. /\ Len(m) \in Nat /\ Len(m) >= 2 /\ Len(m) <= SysExBufferSize
          /\ m[1] = SysExStart /\ \A x \in 2..Len(m)-1 : ~IsStatus(m[x])
      BY <1>1, <1>5 DEF IsFirst, Segment
    <2>4. Len(f) = Len(m) - 1 /\ \A x \in 1..Len(m)-1 : f[x] = m[x]
      BY <1>1, <2>1, <2>3, OpeningIs
    <2>5. /\ f[1] = SysExStart /\ Len(f) \in 1..SysExBufferSize
          /\ \A x \in 2..Len(f) : ~IsStatus(f[x])
      <3>1. 1 \in 1..Len(m)-1 /\ Len(m) - 1 \in 1..SysExBufferSize
            /\ \A x \in 2..Len(m)-1 : x \in 1..Len(m)-1
        BY <1>3, <2>3
      <3> QED BY <2>3, <2>4, <3>1
    <2>6. FitsBuffer(f)
      BY <2>5 DEF FitsBuffer
    <2>7. ASSUME NEW x \in 1..Len(f) PROVE f[x] # SysExEnd
      <3>1. x = 1 \/ x \in 2..Len(f)
        BY <2>5
      <3> QED BY <1>3, <2>5, <3>1
    <2> QED BY <1>5, <2>1, <2>2, <2>6, <2>7 DEF m
  <1>6. CASE IsLast(m)
    <2>1. ~IsWhole(m) /\ ~IsFirst(m) /\ ~IsMiddle(m) /\ ~IsShort(m) /\ ~RealTime(m)
      <3> HIDE DEF m
      <3> QED BY <1>1, <1>6, KindsApart
    <2>2. PICK j \in 1..i-1 : Closes(ms, j, i) /\ f = Opening(ms[j]) \o Tail(m)
      BY <1>2, <2>1
    <2> DEFINE h == ms[j]
               o == Opening(h)
               w == Tail(m)
               a == Len(o)
    <2>3. h \in Seq(Octet) /\ IsFirst(h) /\ ~RealTime(h) /\ Len(h) + Len(m) - 2 <= SysExBufferSize
          /\ Follows(ms, j, i)
      <3>1. j \in 1..Len(ms)
        OBVIOUS
      <3>4. h \in Seq(Octet)
        BY <3>1
      <3>5. IsFirst(h) /\ Len(h) + Len(m) - 2 <= SysExBufferSize /\ Follows(ms, j, i)
        <4> HIDE DEF o, w, a
        <4> QED BY <2>2 DEF Closes
      <3>2. h \in Seq(Octet) /\ IsFirst(h) /\ Len(h) + Len(m) - 2 <= SysExBufferSize /\ Follows(ms, j, i)
        BY <3>4, <3>5
      <3> HIDE DEF h
      <3>3. ~RealTime(h)
        BY <3>2, KindsApart
      <3> QED BY <3>2, <3>3
    <2>4. Hears(ms, i) = <<SysEx(f)>>
      <3> DEFINE P(k) == Follows(ms, k, i) /\ ~RealTime(ms[k])
                 c == CHOOSE k \in 1..i-1 : P(k)
      <3>1. P(j)
        BY <2>3
      <3>2. \A k \in 1..i-1 : P(k) => k = j
        BY <3>1, OneBefore
      <3> HIDE DEF P
      <3>3. c = j
        BY <3>1, <3>2
      <3> HIDE DEF c
      <3>4. Hears(ms, i) = <<SysEx(SubSeq(ms[c], 1, Len(ms[c]) - 1) \o Tail(m))>>
        BY <1>6, <2>1 DEF Hears, c, P
      <3> QED BY <2>2, <3>3, <3>4 DEF Opening
    <2>5. f = o \o w
      BY <2>2
    <2> HIDE DEF m, h
    <2>6. /\ Len(m) \in Nat /\ Len(m) >= 2 /\ w \in Seq(Octet) /\ Len(w) = Len(m) - 1
          /\ \A y \in 1..Len(m)-1 : w[y] = m[y+1]
          /\ \A y \in 2..Len(m)-1 : ~IsStatus(m[y])
      BY <1>1, SegmentIs
    <2>7. m[Len(m)] = SysExEnd
      BY <1>6 DEF IsLast, Segment
    <2>8. /\ Len(h) \in Nat /\ Len(h) >= 2 /\ h[1] = SysExStart
          /\ \A x \in 2..Len(h)-1 : ~IsStatus(h[x])
      <3> HIDE DEF o, w, a
      <3>1. Len(h) \in Nat
        BY <2>3
      <3>2. Segment(h, SysExStart, SysExStart)
        BY <2>3 DEF IsFirst
      <3> QED BY <3>1, <3>2 DEF Segment
    <2>9. o \in Seq(Octet) /\ a = Len(h) - 1 /\ \A x \in 1..Len(h)-1 : o[x] = h[x]
      BY <2>3, <2>8, OpeningIs
    <2> HIDE DEF o, w
    <2>10. /\ Len(f) = a + Len(w)
           /\ \A x \in 1..a : f[x] = o[x]
           /\ \A y \in 1..Len(w) : f[a + y] = w[y]
      BY ZenonT(40), <2>5, <2>6, <2>9, OctetsLaid
    <2> HIDE DEF a
    <2>11. /\ a \in Nat /\ a >= 1 /\ Len(w) \in Nat /\ Len(w) >= 1
           /\ Len(f) \in 1..SysExBufferSize
      <3>1. Len(h) + Len(m) - 2 <= SysExBufferSize
        BY <2>3
      <3>2. \A lh, lm, b, lw, lf, size \in Nat :
               /\ lh >= 2 /\ lm >= 2 /\ lh + lm - 2 <= size
               /\ b = lh - 1 /\ lw = lm - 1 /\ lf = b + lw
               => b >= 1 /\ lw >= 1 /\ lf \in 1..size
        OBVIOUS
      <3>3. a \in Nat /\ Len(w) \in Nat /\ Len(f) \in Nat
        BY <2>6, <2>8, <2>9
      <3> QED BY <1>3, <2>6, <2>8, <2>9, <2>10, <3>1, <3>2, <3>3
    <2>12. f[1] = SysExStart
      <3>1. 1 \in 1..a /\ 1 \in 1..Len(h)-1
        BY <2>9, <2>11
      <3>2. f[1] = o[1]
        BY <2>10, <3>1
      <3>3. o[1] = h[1]
        BY <2>9, <3>1
      <3> QED BY <2>8, <3>2, <3>3
    <2>13. f[Len(f)] = SysExEnd
      <3>1. Len(w) \in 1..Len(w) /\ Len(w) \in 1..Len(m)-1 /\ Len(w) + 1 = Len(m)
        BY <2>6, <2>11
      <3>2. f[a + Len(w)] = w[Len(w)]
        BY <2>10, <3>1
      <3> QED BY <2>6, <2>7, <2>10, <3>1, <3>2
    <2>14. ASSUME NEW x \in 2..Len(f) PROVE ~IsStatus(f[x]) \/ (x = Len(f) /\ f[x] = SysExEnd)
      <3>1. CASE x <= a
        <4>1. x \in 1..a /\ x \in 1..Len(h)-1 /\ x \in 2..Len(h)-1
          BY <2>9, <2>11, <3>1
        <4> QED BY <2>8, <2>9, <2>10, <4>1
      <3>2. CASE x > a /\ x < Len(f)
        <4> DEFINE y == x - a
        <4>1. y \in 1..Len(w) /\ a + y = x /\ y \in 1..Len(m)-1 /\ y + 1 \in 2..Len(m)-1
          BY <2>6, <2>10, <2>11, <3>2
        <4> HIDE DEF y
        <4>2. f[x] = w[y] /\ w[y] = m[y+1] /\ ~IsStatus(m[y+1])
          <5>1. f[a + y] = w[y]
            BY <2>10, <4>1
          <5> QED BY <2>6, <4>1, <5>1
        <4> QED BY <4>2
      <3>3. CASE x = Len(f)
        BY <2>13, <3>3
      <3>4. x <= a \/ (x > a /\ x < Len(f)) \/ x = Len(f)
        BY <2>11
      <3> QED BY <3>1, <3>2, <3>3, <3>4
    <2>15. FitsBuffer(f)
      BY <2>11, <2>12, <2>14 DEF FitsBuffer
    <2> QED BY <2>1, <2>4, <2>13, <2>15 DEF m
  <1> QED BY <1>1, <1>4, <1>5, <1>6

LEMMA SysExIsTaken ==
    ASSUME NEW ms \in Seq(Seq(Octet)), NEW i \in Nat, i \in 1..Len(ms), NEW p, WellFormed(p),
           IsWhole(ms[i]) \/ IsFirst(ms[i]) \/ IsLast(ms[i]),
           NEW f \in Seq(Octet), Assembles(ms, i, f), NEW k \in 1..Len(f), SysExUpTo(p, f, k)
    PROVE  Taken(p, ms, i, 0, SubSeq(f, k, Len(f)))
  <1> DEFINE d == SubSeq(f, k, Len(f))
             r == ParseByte(p, f[k], FALSE)
             m == ms[i]
  <1>1. /\ FitsBuffer(f)
        /\ IsFirst(m) => f = Opening(m) /\ \A x \in 1..Len(f) : f[x] # SysExEnd
        /\ ~IsFirst(m) => f[Len(f)] = SysExEnd
        /\ Hears(ms, i) = IF IsFirst(m) THEN <<>> ELSE <<SysEx(f)>>
    BY WhatIsAssembled
  <1>2. m \in Seq(Octet) /\ (IsWhole(m) \/ IsFirst(m) \/ IsLast(m))
    OBVIOUS
  <1> HIDE DEF m
  <1>3. ~RealTime(m) /\ ~(m[1] < SysExStart)
    BY <1>2, KindsApart
  <1>4. /\ Head(d) = f[k] /\ Tail(d) = SubSeq(f, k + 1, Len(f))
        /\ SubSeq(f, k + 1, Len(f)) = <<>> <=> k = Len(f)
    BY PieceByPiece
  <1>5. f[k] \in Octet \ {TuneRequest} /\ (f[k] = SysExEnd => k = Len(f))
    <2>1. f[k] \in Octet
      OBVIOUS
    <2>2. k = 1 \/ k \in 2..Len(f)
      OBVIOUS
    <2>3. IsStatus(TuneRequest) /\ SysExStart # TuneRequest /\ SysExEnd # TuneRequest
          /\ SysExStart # SysExEnd /\ IsStatus(SysExEnd)
      BY DEF IsStatus, TuneRequest, SysExStart, SysExEnd
    <2>4. f[1] = SysExStart
          /\ \A x \in 2..Len(f) : ~IsStatus(f[x]) \/ (x = Len(f) /\ f[x] = SysExEnd)
      BY <1>1 DEF FitsBuffer
    <2> QED BY <2>1, <2>2, <2>3, <2>4
  <1>6. SysExTaken(r, f, k)
    BY <1>1, SysExByteTaken
  <1> HIDE DEF d, r
  <1>7. Between(r.p, 0) \/ f[k] # SysExEnd
    BY <1>6 DEF SysExTaken
  <1>8. CASE k # Len(f)
    <2>1. r.calls = <<>> /\ HoldsPart(r.p, "SysExByte", f, k)
      BY <1>5, <1>6, <1>8 DEF SysExTaken
    <2>2. k + 1 \in 1..Len(f) /\ (k + 1) - 1 = k
      BY <1>8
    <2>3. SysExUpTo(r.p, f, k + 1)
      BY <2>1, <2>2 DEF SysExUpTo
    <2>4. InMessage(ms, i, 0, r.p, Tail(d))
      BY <1>2, <1>4, <2>2, <2>3 DEF InMessage, m
    <2>5. Goes(r, ms, i, 0, Tail(d))
      BY <1>2, <1>4, <1>8, <2>1, <2>4, CallsAre DEF Goes
    <2>6. Taken(p, ms, i, 0, d)
      BY <1>4, <1>5, <2>5 DEF Taken, r
    <2> QED BY <2>6 DEF d
  <1>9. CASE k = Len(f)
    <2>1. r.calls = Hears(ms, i)
      BY <1>1, <1>6, <1>9 DEF SysExTaken
    <2>2. ASSUME IsFirst(m) PROVE HoldsPart(r.p, "SysExByte", m, Len(m) - 1)
      <3>1. HoldsPart(r.p, "SysExByte", f, k)
        BY <1>1, <1>6, <2>2 DEF SysExTaken
      <3>2. Len(m) >= 2
        BY <1>2, SegmentIs
      <3>3. k = Len(m) - 1 /\ \A x \in 1..Len(m)-1 : f[x] = m[x]
        BY <1>1, <1>2, <1>9, <2>2, <3>2, OpeningIs
      <3> QED BY <3>1, <3>3 DEF HoldsPart
    <2>3. AfterMessage(ms, i, 0, r.p)
      <3>1. ASSUME NEW j \in 1..i, Follows(ms, j, i + 1) PROVE j = i
        BY <1>3, <3>1, LastIsThis DEF m
      <3> QED BY <1>3, <2>2, <3>1 DEF AfterMessage, m
    <2>4. Goes(r, ms, i, 0, Tail(d))
      BY <1>1, <1>4, <1>9, <2>1, <2>3, CallsAre DEF Goes
    <2>5. Taken(p, ms, i, 0, d)
      BY <1>4, <1>5, <2>4 DEF Taken, r
    <2> QED BY <2>5 DEF d
  <1> QED BY <1>8, <1>9

LEMMA DataTaken ==
    ASSUME NEW ms \in Seq(Seq(Octet)), NEW i \in Nat, i \in 1..Len(ms), NEW p, WellFormed(p),
           NEW rs, NEW d, InMessage(ms, i, rs, p, d)
    PROVE  Taken(p, ms, i, rs, d)
  <1>1. ms[i] \in Seq(Octet)
    OBVIOUS
  <1>2. CASE RealTime(ms[i]) /\ d = ms[i] /\ AfterMessage(ms, i, rs, p)
    BY <1>1, <1>2, RealTimeTaken
  <1>3. CASE /\ IsShort(ms[i]) /\ rs = RunOn(ms[i][1])
             /\ \E k \in 1..Len(ms[i]) : d = SubSeq(ms[i], k, Len(ms[i])) /\ ShortUpTo(p, ms[i], k)
    <2>1. PICK k \in 1..Len(ms[i]) : d = SubSeq(ms[i], k, Len(ms[i])) /\ ShortUpTo(p, ms[i], k)
      BY <1>3
    <2> QED BY <1>1, <1>3, <2>1, ShortIsTaken
  <1>4. CASE /\ IsWhole(ms[i]) \/ IsFirst(ms[i]) \/ IsLast(ms[i])
             /\ rs = 0
             /\ \E f \in Seq(Octet) : /\ Assembles(ms, i, f)
                         /\ \E k \in 1..Len(f) : d = SubSeq(f, k, Len(f)) /\ SysExUpTo(p, f, k)
    <2>1. PICK f \in Seq(Octet) : /\ Assembles(ms, i, f)
                 /\ \E k \in 1..Len(f) : d = SubSeq(f, k, Len(f)) /\ SysExUpTo(p, f, k)
      BY <1>4
    <2>2. PICK k \in 1..Len(f) : d = SubSeq(f, k, Len(f)) /\ SysExUpTo(p, f, k)
      BY <2>1
    <2>3. Taken(p, ms, i, 0, SubSeq(f, k, Len(f)))
      BY <1>4, <2>1, <2>2, SysExIsTaken
    <2> QED BY <1>4, <2>2, <2>3
  <1> QED BY <1>2, <1>3, <1>4 DEF InMessage

(* The list, entry by entry. *)
Behind(s, t, l) == IF t > 0 \/ s.Z THEN SubSeq(l, DeltaTime(l) + 1, Len(l)) ELSE l

LEMMA MessageOnWire ==
    ASSUME NEW s, WellWritten(s), NEW i \in 1..Len(s.msgs), NEW w \in Wire(s.msgs, i)
    PROVE  w \in Seq(Octet) /\ w # <<>>
  <1> DEFINE m == s.msgs[i]
  <1>1. m \in Seq(Octet) /\ m # <<>> /\ IsMessage(m)
    BY DEF WellWritten, IsMessage
  <1>2. w = m \/ (m[1] < SysExStart /\ w = Tail(m))
    BY DEF Wire, RunsOn
  <1> HIDE DEF m
  <1>3. Tail(m) \in Seq(Octet) /\ Len(Tail(m)) = Len(m) - 1
    BY <1>1, HeadAndTail
  <1>4. ASSUME m[1] < SysExStart PROVE Tail(m) # <<>>
    <2>1. IsShort(m)
      BY <1>1, <1>4, KindsApart DEF IsMessage
    <2>2. Len(m) \in 2..3
      BY <1>1, <2>1, ShortIs
    <2>3. Len(Tail(m)) # 0
      BY <1>3, <2>2
    <2> QED BY <1>3, <2>3, NotEmpty
  <1> QED BY <1>1, <1>2, <1>3, <1>4

LEMMA SomethingBetween ==
    ASSUME NEW g \in Seq(Octet), NEW w \in Seq(Octet), NEW u \in Seq(Octet), w # <<>>
    PROVE  g \o w \o u # <<>>
  <1>1. Len(w) \in Nat \ {0} /\ Len(g) \in Nat /\ Len(u) \in Nat
    BY HeadAndTail
  <1>2. g \o w \in Seq(Octet) /\ Len(g \o w) = Len(g) + Len(w)
    BY OctetsLaid
  <1>3. g \o w \o u \in Seq(Octet) /\ Len(g \o w \o u) = Len(g) + Len(w) + Len(u)
    BY <1>2, OctetsLaid
  <1>4. Len(g \o w \o u) # 0
    BY <1>1, <1>3
  <1> QED BY <1>3, <1>4, NotEmpty

LEMMA EntryRead ==
    ASSUME NEW s, WellWritten(s), NEW t \in 0..Len(s.msgs), s.rest[t+1] # <<>>
    PROVE  /\ t = Len(s.msgs) => Behind(s, t, s.rest[t+1]) = <<>>
           /\ t # Len(s.msgs) => \E w \in Wire(s.msgs, t + 1) :
                                     Behind(s, t, s.rest[t+1]) = w \o s.rest[t+2]
  <1> DEFINE n == Len(s.msgs)
             l == s.rest[t+1]
             g == s.gap[t+1]
             timed == t > 0 \/ s.Z
  <1>1. /\ n \in Nat /\ t + 1 \in 1..n+1
        /\ g \in Seq(Octet) /\ l \in Seq(Octet)
        /\ IF t + 1 = 1 /\ ~s.Z THEN g = <<>>
           ELSE IsDeltaTime(g) \/ (t + 1 = n + 1 /\ g = <<>>)
        /\ t = n => l = g
        /\ t # n => /\ t + 1 \in 1..n /\ s.rest[t+2] \in Seq(Octet)
                    /\ \E w \in Wire(s.msgs, t + 1) : l = g \o w \o s.rest[t+2]
    <2>1. n \in Nat /\ t + 1 \in 1..n+1 /\ (t # n => t + 1 \in 1..n /\ t + 2 \in 1..n+1)
      BY DEF WellWritten
    <2>2. g \in Seq(Octet) /\ l \in Seq(Octet) /\ (t # n => s.rest[t+2] \in Seq(Octet))
      BY <2>1 DEF WellWritten
    <2>3. IF t + 1 = 1 /\ ~s.Z THEN g = <<>> ELSE IsDeltaTime(g) \/ (t + 1 = n + 1 /\ g = <<>>)
      BY <2>1 DEF WellWritten
    <2>4. t = n => l = g
      BY DEF WellWritten
    <2>5. t # n => \E w \in Wire(s.msgs, t + 1) : l = g \o w \o s.rest[t+2]
      <3>1. SUFFICES ASSUME t # n PROVE \E w \in Wire(s.msgs, t + 1) : l = g \o w \o s.rest[t+2]
        OBVIOUS
      <3>2. t + 1 \in 1..n /\ (t + 1) + 1 = t + 2
        BY <2>1, <3>1
      <3>3. \A i \in 1..n : \E w \in Wire(s.msgs, i) : s.rest[i] = s.gap[i] \o w \o s.rest[i+1]
        BY DEF WellWritten
      <3>4. \E w \in Wire(s.msgs, t + 1) : s.rest[t+1] = s.gap[t+1] \o w \o s.rest[(t+1)+1]
        BY <3>2, <3>3
      <3> QED BY <3>2, <3>4
    <2> QED BY <2>1, <2>2, <2>3, <2>4, <2>5
  <1>2. l # <<>>
    OBVIOUS
  <1>3. Behind(s, t, l) = IF timed THEN SubSeq(l, DeltaTime(l) + 1, Len(l)) ELSE l
    BY DEF Behind
  <1>4. t + 1 = 1 /\ ~s.Z <=> ~timed
    OBVIOUS
  <1> HIDE DEF l, g, timed
  <1>5. CASE t = n
    <2>1. l = g /\ IsDeltaTime(g) /\ timed
      BY <1>1, <1>2, <1>4, <1>5
    <2>2. <<>> \in Seq(Octet) /\ g \o <<>> = g
      BY <1>1
    <2>3. DeltaTime(g \o <<>>) = Len(g) /\ SubSeq(g \o <<>>, Len(g) + 1, Len(g \o <<>>)) = <<>>
      BY <1>1, <2>1, <2>2, DeltaTimeIsRead, FrontAndRest
    <2>4. Behind(s, t, l) = <<>>
      BY <1>3, <2>1, <2>2, <2>3
    <2> QED BY <1>5, <2>4 DEF l
  <1>6. CASE t # n
    <2> DEFINE u == s.rest[t+2]
    <2>1. PICK w \in Wire(s.msgs, t + 1) : l = g \o w \o u
      BY <1>1, <1>6
    <2>2. w \in Seq(Octet) /\ u \in Seq(Octet)
      BY <1>1, <1>6, MessageOnWire
    <2> HIDE DEF u
    <2>3. l = g \o (w \o u) /\ w \o u \in Seq(Octet)
      <3>1. g \in Seq(Octet)
        BY <1>1
      <3>2. g \o (w \o u) = (g \o w) \o u /\ w \o u \in Seq(Octet)
        BY <2>2, <3>1, LaidInOneGo
      <3> QED BY <2>1, <3>2
    <2>4. CASE timed
      <3>1. IsDeltaTime(g)
        <4>1. t + 1 # n + 1
          BY <1>1, <1>6
        <4> QED BY <1>1, <1>4, <2>4, <4>1
      <3>2. DeltaTime(l) = Len(g) /\ SubSeq(l, Len(g) + 1, Len(l)) = w \o u
        BY <1>1, <2>3, <3>1, DeltaTimeIsRead, FrontAndRest
      <3>3. Behind(s, t, l) = w \o u
        BY <1>3, <2>4, <3>2
      <3> QED BY <1>6, <2>1, <3>3 DEF l, u
    <2>5. CASE ~timed
      <3>1. g = <<>>
        BY <1>1, <1>4, <2>5
      <3>2. <<>> \o (w \o u) = w \o u
        BY <2>3
      <3>3. Behind(s, t, l) = w \o u
        BY <1>3, <2>3, <2>5, <3>1, <3>2
      <3> QED BY <1>6, <2>1, <3>3 DEF l, u
    <2> QED BY <2>4, <2>5
  <1> QED BY <1>5, <1>6

(* While there are messages to come there is a list. *)
LEMMA MoreToRead ==
    ASSUME NEW s, WellWritten(s), NEW t \in 0..Len(s.msgs), t # Len(s.msgs)
    PROVE  s.rest[t+1] # <<>> /\ s.rest[t+2] \in Seq(Octet)
  <1>1. /\ t + 1 \in 1..Len(s.msgs) /\ (t + 1) + 1 = t + 2
        /\ t + 1 \in 1..Len(s.msgs)+1 /\ t + 2 \in 1..Len(s.msgs)+1
    BY DEF WellWritten
  <1>2. s.gap[t+1] \in Seq(Octet) /\ s.rest[t+2] \in Seq(Octet)
    BY <1>1 DEF WellWritten
  <1>3. \A i \in 1..Len(s.msgs) : \E w \in Wire(s.msgs, i) : s.rest[i] = s.gap[i] \o w \o s.rest[i+1]
    BY DEF WellWritten
  <1>4. PICK w \in Wire(s.msgs, t + 1) : s.rest[t+1] = s.gap[t+1] \o w \o s.rest[(t+1)+1]
    BY <1>1, <1>3
  <1>5. w \in Seq(Octet) /\ w # <<>>
    BY <1>1, MessageOnWire
  <1> QED BY <1>1, <1>2, <1>4, <1>5, SomethingBetween

--------------------------------------------------------------------------------
LEMMA RtpStarts ==
    ASSUME NEW s \in Sections, NEW p, NEW d, d = <<>>, NEW h, h = <<>>
    PROVE  Reached(s, 0, s.rest[1], 0, p, d, h) /\ h \in Seq(Call)
  <1>1. WellWritten(s)
    BY RtpAssumption
  <1>2. Len(s.msgs) \in Nat /\ s.hears[1] = <<>>
    BY <1>1 DEF WellWritten
  <1>3. AfterMessage(s.msgs, 0, 0, p)
    BY DEF AfterMessage
  <1>4. 0 \in 0..Len(s.msgs) /\ 0 + 1 = 1
    BY <1>2
  <1> QED BY <1>2, <1>3, <1>4 DEF Reached

LEMMA EntryKeeps ==
    ASSUME RtpInv, WithoutMiddles(packet.msgs), ParseEntry
    PROVE  RtpInv'
  <1> DEFINE s == packet
             ms == packet.msgs
             t == nMIDICommandsProcessed
             n == Len(ms)
             r == Behind(s, t, list)
             c == CommandAt(r, nRunningStatus)
  <1>1. WellWritten(s) /\ s \in Sections
    BY RtpAssumption DEF RtpInv
  <1>2. /\ n \in Nat /\ ms \in Seq(Seq(Octet)) /\ \A i \in 1..n : IsMessage(ms[i])
        /\ InSequence(ms)
    BY <1>1 DEF WellWritten
  <1>3. /\ list # <<>> /\ pData = <<>>
        /\ t \in 0..n /\ list = s.rest[t+1]
        /\ heard = s.hears[t+1] /\ AfterMessage(ms, t, nRunningStatus, parser)
        /\ WellFormed(parser) /\ heard \in Seq(Call) /\ nRunningStatus \in Statuses
    BY DEF ParseEntry, RtpInv, Reached, Statuses
  <1>4. UNCHANGED <<parser, packet, heard>>
    BY DEF ParseEntry, parserVars
  <1>5. \/ /\ r = <<>> /\ list' = <<>>
           /\ UNCHANGED <<pData, nMIDICommandsProcessed, nRunningStatus>>
        \/ /\ r # <<>> /\ pData' = c.data /\ list' = SubSeq(r, c.parsed + 1, Len(r))
           /\ nRunningStatus' = StatusAfter(nRunningStatus, r[1])
           /\ nMIDICommandsProcessed' = t + 1
    BY DEF ParseEntry, Behind
  <1>6. /\ t = n => r = <<>>
        /\ t # n => \E w \in Wire(ms, t + 1) : r = w \o s.rest[t+2]
    BY <1>1, <1>3, EntryRead
  <1>7. SUFFICES Reached(s, t', list', nRunningStatus', parser, pData', heard)
                 /\ nRunningStatus' \in Statuses
    BY <1>1, <1>3, <1>4 DEF RtpInv, Statuses
  <1> HIDE DEF r
  <1>8. CASE t = n
    <2>1. r = <<>>
      BY <1>6, <1>8
    <2>2. list' = <<>> /\ UNCHANGED <<pData, nMIDICommandsProcessed, nRunningStatus>>
      BY <1>5, <2>1
    <2> QED BY <1>3, <1>8, <2>2 DEF Reached
  <1>9. CASE t # n
    <2> DEFINE u == s.rest[t+2]
    <2>1. t \in Nat /\ t + 1 \in 1..n /\ u \in Seq(Octet)
      BY <1>1, <1>2, <1>3, <1>9, MoreToRead
    <2>2. PICK w \in Wire(ms, t + 1) : r = w \o u
      BY <1>6, <1>9
    <2> HIDE DEF u
    <2>3. /\ Enters(c, StatusAfter(nRunningStatus, r[1]), ms, t + 1, parser, w)
          /\ w \in Seq(Octet) /\ w # <<>>
      <3> HIDE DEF ms, n
      <3> QED BY <1>2, <1>3, <2>1, <2>2, MessageEnters DEF ms, n
    <2>4. c.data # <<>> /\ c.parsed = Len(w) /\ StatusAfter(nRunningStatus, r[1]) \in Statuses
          /\ InMessage(ms, t + 1, StatusAfter(nRunningStatus, r[1]), parser, c.data)
      <3> HIDE DEF c
      <3> QED BY <2>3 DEF Enters
    <2>5. SubSeq(r, Len(w) + 1, Len(r)) = u
      BY <2>1, <2>2, <2>3, FrontAndRest
    <2>6. r # <<>>
      <3>1. <<>> \in Seq(Octet) /\ <<>> \o w = w /\ <<>> \o w \o u # <<>>
        BY <2>1, <2>3, SomethingBetween
      <3> QED BY <2>2, <3>1
    <2> HIDE DEF c
    <2>7. /\ pData' = c.data /\ list' = u
          /\ nRunningStatus' = StatusAfter(nRunningStatus, r[1])
          /\ nMIDICommandsProcessed' = t + 1
      BY <1>5, <2>4, <2>5, <2>6
    <2>8. /\ t + 1 \in 0..n /\ t + 1 > 0 /\ (t + 1) + 1 = t + 2
          /\ pData' # <<>> /\ InMessage(ms, t + 1, nRunningStatus', parser, pData')
          /\ nRunningStatus' \in Statuses
      BY <1>2, <2>1, <2>4, <2>7
    <2>9. Reached(s, t + 1, u, nRunningStatus', parser, pData', heard)
      BY <1>3, <2>8 DEF Reached, u
    <2> QED BY <2>7, <2>8, <2>9
  <1> QED BY <1>8, <1>9

LEMMA DataKeeps ==
    ASSUME RtpInv, WithoutMiddles(packet.msgs), ParseData
    PROVE  RtpInv'
  <1> DEFINE s == packet
             ms == packet.msgs
             t == nMIDICommandsProcessed
             n == Len(ms)
             r == ParseByte(parser, Head(pData), FALSE)
  <1>1. WellWritten(s) /\ s \in Sections
    BY RtpAssumption DEF RtpInv
  <1>2. /\ n \in Nat /\ ms \in Seq(Seq(Octet))
        /\ \A i \in 1..n : s.hears[i+1] = s.hears[i] \o Hears(ms, i)
    <2>1. n \in Nat /\ ms \in Seq(Seq(Octet))
      BY <1>1 DEF WellWritten
    <2>2. \A i \in 1..n : s.hears[i+1] = s.hears[i] \o Hears(ms, i)
      BY <1>1 DEF WellWritten
    <2> QED BY <2>1, <2>2
  <1>3. /\ pData # <<>> /\ t \in 0..n /\ t > 0
        /\ list = s.rest[t+1]
        /\ heard = s.hears[t] /\ InMessage(ms, t, nRunningStatus, parser, pData)
        /\ WellFormed(parser) /\ heard \in Seq(Call) /\ nRunningStatus \in Statuses
    BY DEF ParseData, RtpInv, Reached, Statuses
  <1>4. /\ UNCHANGED <<packet, list, nMIDICommandsProcessed, nRunningStatus>>
        /\ pData' = Tail(pData) /\ parser' = r.p /\ heard' = heard \o r.calls
    BY DEF ParseData
  <1>5. t \in Nat /\ t \in 1..n
    BY <1>2, <1>3
  <1>6. /\ Head(pData) \in Octet \ {TuneRequest}
        /\ Goes(r, ms, t, nRunningStatus, Tail(pData))
    <2>1. Taken(parser, ms, t, nRunningStatus, pData)
      <3> HIDE DEF ms, n
      <3> QED BY <1>2, <1>3, <1>5, DataTaken DEF n
    <2> QED BY <2>1 DEF Taken
  <1>7. WellFormed(r.p)
    <2>1. Sound(r)
      BY <1>3, <1>6, ParseByteSound
    <2> QED BY <2>1 DEF Sound
  <1> HIDE DEF r
  <1>8. r.calls \in Seq(Call) /\ heard' \in Seq(Call)
    BY <1>3, <1>4, <1>6 DEF Goes
  <1>9. Reached(s, t, list, nRunningStatus, parser', pData', heard')
    <2>1. CASE pData' # <<>>
      <3>1. r.calls = <<>> /\ InMessage(ms, t, nRunningStatus, r.p, Tail(pData))
        BY <1>4, <1>6, <2>1 DEF Goes
      <3>2. heard' = heard
        BY <1>3, <1>4, <3>1
      <3> QED BY <1>3, <1>4, <2>1, <3>1, <3>2 DEF Reached
    <2>2. CASE pData' = <<>>
      <3>1. r.calls = Hears(ms, t) /\ AfterMessage(ms, t, nRunningStatus, r.p)
        BY <1>4, <1>6, <2>2 DEF Goes
      <3>2. heard' = s.hears[t+1]
        BY <1>2, <1>3, <1>4, <1>5, <3>1
      <3> QED BY <1>3, <1>4, <2>2, <3>1, <3>2 DEF Reached
    <2> QED BY <2>1, <2>2
  <1> QED BY <1>1, <1>3, <1>4, <1>7, <1>8, <1>9 DEF RtpInv, Statuses

LEMMA PacketKeeps ==
    ASSUME RtpInv, NextPacket
    PROVE  RtpInv'
  <1>1. /\ packet' \in Sections /\ list' = packet'.rest[1] /\ pData = <<>> /\ pData' = pData
        /\ nMIDICommandsProcessed' = 0 /\ nRunningStatus' = 0 /\ heard' = <<>>
        /\ parser' \in Leftovers \cup {parser}
    BY DEF NextPacket
  <1>2. WellFormed(parser')
    BY <1>1, RtpAssumption DEF RtpInv
  <1>3. Reached(packet', 0, packet'.rest[1], 0, parser', pData', heard') /\ heard' \in Seq(Call)
    BY <1>1, RtpStarts
  <1> QED BY <1>1, <1>2, <1>3 DEF RtpInv

LEMMA PacketInvariant ==
    ASSUME \A s \in Sections : WithoutMiddles(s.msgs)
    PROVE  RtpSpec => []RtpInv
  <1>1. RtpInit => RtpInv
    <2> SUFFICES ASSUME RtpInit PROVE RtpInv
      OBVIOUS
    <2>1. /\ parser \in Leftovers /\ packet \in Sections /\ list = packet.rest[1] /\ pData = <<>>
          /\ nMIDICommandsProcessed = 0 /\ nRunningStatus = 0 /\ heard = <<>>
      BY DEF RtpInit
    <2>2. WellFormed(parser)
      BY <2>1, RtpAssumption
    <2>3. Reached(packet, 0, packet.rest[1], 0, parser, pData, heard) /\ heard \in Seq(Call)
      BY <2>1, RtpStarts
    <2> QED BY <2>1, <2>2, <2>3 DEF RtpInv
  <1>2. RtpInv /\ [RtpNext]_rtpVars => RtpInv'
    <2> SUFFICES ASSUME RtpInv, [RtpNext]_rtpVars PROVE RtpInv'
      OBVIOUS
    <2>1. packet \in Sections /\ WithoutMiddles(packet.msgs)
      BY DEF RtpInv
    <2>2. CASE ParseEntry
      BY <2>1, <2>2, EntryKeeps
    <2>3. CASE ParseData
      BY <2>1, <2>3, DataKeeps
    <2>4. CASE NextPacket
      BY <2>4, PacketKeeps
    <2>5. CASE UNCHANGED rtpVars
      BY <2>5 DEF RtpInv, rtpVars, packetVars, parserVars
    <2> QED BY <2>2, <2>3, <2>4, <2>5 DEF RtpNext
  <1> QED BY <1>1, <1>2, PTL DEF RtpSpec

(* A packet without middle segments is heard as it was meant, whatever state *)
(* another input has left the shared parser in.                              *)
THEOREM PacketsAreHeard ==
    ASSUME \A s \in Sections : WithoutMiddles(s.msgs)
    PROVE  RtpSpec => []PacketIsHeard
  <1>1. RtpInv => PacketIsHeard
    <2> SUFFICES ASSUME RtpInv, list = <<>>, pData = <<>>
                 PROVE  heard = packet.hears[Len(packet.msgs) + 1]
      BY DEF PacketIsHeard
    <2> DEFINE t == nMIDICommandsProcessed
    <2>1. WellWritten(packet)
      BY RtpAssumption DEF RtpInv
    <2>2. /\ t \in 0..Len(packet.msgs) /\ heard = packet.hears[t+1]
          /\ list = packet.rest[t+1] \/ t = Len(packet.msgs)
      BY DEF RtpInv, Reached
    <2>3. t = Len(packet.msgs)
      BY <2>1, <2>2, MoreToRead
    <2> QED BY <2>2, <2>3
  <1>2. RtpSpec => []RtpInv
    BY PacketInvariant
  <1> QED BY <1>1, <1>2, PTL

================================================================================
