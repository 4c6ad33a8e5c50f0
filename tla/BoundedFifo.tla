------------------------------ MODULE BoundedFifo ------------------------------
(***************************************************************************)
(* What every queue of mt32-pi promises its callers: a first-in first-out  *)
(* buffer of at most Capacity items in which an item that does not fit is  *)
(* refused, and never overwrites one that was accepted.  CRingBuffer and   *)
(* the sharedbuffer/cppQueue pair are shown to implement it.               *)
(***************************************************************************)
EXTENDS Naturals, Sequences

CONSTANTS Item,      \* what the queue carries
          Batch,     \* the sequences of items one bulk call may hand over
          Capacity   \* how many items fit

VARIABLES q,   \* the accepted items that nobody has taken yet, oldest first
          ret  \* what the last call handed back to its caller

fifoVars == <<q, ret>>

FifoInit == q = <<>> /\ ret = [op |-> "none"]

(* A single item: accepted exactly when there is room. *)
Put(x) ==
    \/ /\ Len(q) < Capacity
       /\ q' = Append(q, x)
       /\ ret' = [op |-> "enqueue", ok |-> TRUE]
    \/ /\ Len(q) >= Capacity
       /\ q' = q
       /\ ret' = [op |-> "enqueue", ok |-> FALSE]

(* Several items in one critical section: the longest prefix that fits.    *)
PutMany(xs) ==
    \E n \in 0..Len(xs) :
        /\ Len(q) + n <= Capacity
        /\ n = Len(xs) \/ Len(q) + n = Capacity
        /\ q' = q \o SubSeq(xs, 1, n)
        /\ ret' = [op |-> "enqueue_many", n |-> n]

Take ==
    \/ /\ q # <<>>
       /\ q' = Tail(q)
       /\ ret' = [op |-> "dequeue", ok |-> TRUE, item |-> Head(q)]
    \/ /\ q = <<>>
       /\ q' = q
       /\ ret' = [op |-> "dequeue", ok |-> FALSE]

TakeAll ==
    /\ q' = <<>>
    /\ ret' = [op |-> "dequeue_many", items |-> q]

(* Looking at the oldest item without taking it, and forgetting everything. *)
Look ==
    /\ q' = q
    /\ ret' = IF q = <<>> THEN [op |-> "peek", ok |-> FALSE]
                         ELSE [op |-> "peek", ok |-> TRUE, item |-> Head(q)]

Forget ==
    /\ q' = <<>>
    /\ ret' = [op |-> "flush"]

FifoNext ==
    \/ \E x \in Item : Put(x)
    \/ \E xs \in Batch : PutMany(xs)
    \/ Take
    \/ TakeAll
    \/ Look
    \/ Forget

FifoSpec == FifoInit /\ [][FifoNext]_fifoVars
================================================================================
