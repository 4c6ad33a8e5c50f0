------------------------------ MODULE RingBuffer -------------------------------
(***************************************************************************)
(* CRingBuffer<T, N> (include/ringbuffer.h): the queue between interrupt   *)
(* handlers or other cores and the main task.  mt32-pi uses it for the     *)
(* events (N = 32) and for the bytes received over USB, GPIO and Pisound   *)
(* (N = 2048).  Every operation runs under an IRQ_LEVEL spin lock, so one  *)
(* operation is one step.                                                  *)
(***************************************************************************)
EXTENDS Naturals, Sequences

CONSTANTS Item,   \* the values of the template parameter T
          Batch,  \* the arrays a caller of the bulk Enqueue may pass
          N,      \* slots; a power of two in the code (static_assert)
          Blank   \* T{}, what m_Data{} holds before the first write

ASSUME RingAssumption == /\ N \in Nat \ {0}
                         /\ Batch \subseteq Seq(Item)

VARIABLES m_Data, m_nInPtr, m_nOutPtr,
          ret   \* the value the last call returned, with its output buffer

vars == <<m_Data, m_nInPtr, m_nOutPtr, ret>>

Slot == 0..N-1

(* i & BufferMask for the values that reach it: an index is masked after   *)
(* each increment, and offsets are below N, so i < 2N.                     *)
Mask(i) == IF i < N THEN i ELSE i - N

(* How far slot j lies behind slot p, walking the ring forwards. *)
Ahead(j, p) == IF j >= p THEN j - p ELSE j + N - p

Occupied == Ahead(m_nInPtr, m_nOutPtr)

Full_NoSpareSlot == m_nInPtr = N - 1 /\ m_nOutPtr = 0   \* mutant
Full == Mask(m_nInPtr + 1) = m_nOutPtr

(* The queued items, oldest first: what the two indices delimit. *)
Contents == [i \in 1..Occupied |-> m_Data[Mask(m_nOutPtr + i - 1)]]

Init ==
    /\ m_Data = [j \in Slot |-> Blank]
    /\ m_nInPtr = 0
    /\ m_nOutPtr = 0
    /\ ret = [op |-> "none"]

(* bool Enqueue(const T&) with the EnqueueOne it calls. *)
Enqueue(x) ==
    \/ /\ ~Full
       /\ m_Data' = [m_Data EXCEPT ![m_nInPtr] = x]
       /\ m_nInPtr' = Mask(m_nInPtr + 1)
       /\ ret' = [op |-> "enqueue", ok |-> TRUE]
       /\ UNCHANGED m_nOutPtr
    \/ /\ Full
       /\ ret' = [op |-> "enqueue", ok |-> FALSE]
       /\ UNCHANGED <<m_Data, m_nInPtr, m_nOutPtr>>

(* size_t Enqueue(const T*, size_t): EnqueueOne for each item.  The lock is *)
(* held throughout, so once one item is refused all that follow are too.    *)
EnqueueMany(xs) ==
    LET room == N - 1 - Occupied
        n    == IF Len(xs) <= room THEN Len(xs) ELSE room
    IN  /\ m_Data' = [j \in Slot |-> IF Ahead(j, m_nInPtr) < n
                                     THEN xs[Ahead(j, m_nInPtr) + 1]
                                     ELSE m_Data[j]]
        /\ m_nInPtr' = Mask(m_nInPtr + n)
        /\ ret' = [op |-> "enqueue_many", n |-> n]
        /\ UNCHANGED m_nOutPtr

Dequeue_IgnoresEmpty ==   \* mutant
    /\ m_nOutPtr' = Mask(m_nOutPtr + 1)
    /\ ret' = [op |-> "dequeue", ok |-> TRUE, item |-> m_Data[m_nOutPtr]]
    /\ UNCHANGED <<m_Data, m_nInPtr>>

(* bool Dequeue(T&) *)
Dequeue ==
    \/ /\ m_nInPtr # m_nOutPtr
       /\ m_nOutPtr' = Mask(m_nOutPtr + 1)
       /\ ret' = [op |-> "dequeue", ok |-> TRUE, item |-> m_Data[m_nOutPtr]]
       /\ UNCHANGED <<m_Data, m_nInPtr>>
    \/ /\ m_nInPtr = m_nOutPtr
       /\ ret' = [op |-> "dequeue", ok |-> FALSE]
       /\ UNCHANGED <<m_Data, m_nInPtr, m_nOutPtr>>

(* size_t Dequeue(T*, size_t nMaxCount): the loop runs until the ring is    *)
(* empty; nMaxCount is not looked at.                                       *)
DequeueMany ==
    /\ m_nOutPtr' = m_nInPtr
    /\ ret' = [op |-> "dequeue_many", items |-> Contents]
    /\ UNCHANGED <<m_Data, m_nInPtr>>

Next ==
    \/ \E x \in Item : Enqueue(x)
    \/ \E xs \in Batch : EnqueueMany(xs)
    \/ Dequeue
    \/ DequeueMany

Spec == Init /\ [][Next]_vars

--------------------------------------------------------------------------------
(* Both indices stay inside the array and every slot holds a T. *)
TypeOK ==
    /\ m_Data \in [Slot -> Item \cup {Blank}]
    /\ m_nInPtr \in Slot
    /\ m_nOutPtr \in Slot

(* No slot between the two indices is one that was never written: a reader  *)
(* cannot be handed the T{} the constructor left there.                     *)
OnlyWrittenSlotsQueued ==
    \A i \in 1..Occupied : m_Data[Mask(m_nOutPtr + i - 1)] \in Item

(* CRingBuffer behaves as a FIFO of N-1 items: order kept, nothing          *)
(* overwritten, nothing dropped but what the return value reports.          *)
Fifo == INSTANCE BoundedFifo WITH q <- Contents, Capacity <- N - 1

RingImplementsFifo == Fifo!FifoSpec
================================================================================
