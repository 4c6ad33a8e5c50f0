----------------------------- MODULE SharedBuffer ------------------------------
(***************************************************************************)
(* sharedbuffer (sharedbuffer.cpp) over cppQueue (arduino_lib/Queue): the  *)
(* byte pipe from the accordion task on core 3 to the main task on core 0  *)
(* (m_sharedbuffer) and to the audio task on core 2 (m_loopcommandbuffer). *)
(* Every operation holds the spin lock, so one operation is one step.      *)
(***************************************************************************)
EXTENDS Naturals, Sequences

CONSTANTS SharedByte,  \* what is sent
          rec_nb,      \* records the queue holds: 4096
          Garbage      \* what malloc left in a record

ASSUME SharedAssumption == rec_nb \in Nat \ {0}

VARIABLES queue, in, out, cnt,   \* cppQueue's record array, indices and count
          answer                 \* what the last operation of cppQueue returned

sharedVars == <<queue, in, out, cnt, answer>>

Record == 0..rec_nb-1

(* inc_idx(pIdx, rec_nb, 0) *)
inc_idx(i) == IF i < rec_nb - 1 THEN i + 1 ELSE 0

isFull_Off(n) == n = rec_nb + 1   \* mutant
isFull(n) == n = rec_nb
isEmpty == cnt = 0

SharedInit ==
    /\ queue = [r \in Record |-> Garbage]
    /\ in = 0 /\ out = 0 /\ cnt = 0
    /\ answer = [op |-> "none"]

(* sharedbuffer::write with cppQueue::push, no overwrite (push's second      *)
(* isFull sees the count it has not increased yet, so it is never true).     *)
(* write discards push's answer and returns 1 in either case.                *)
write(b) ==
    \/ /\ ~isFull(cnt)
       /\ queue' = [queue EXCEPT ![in] = b]
       /\ in' = inc_idx(in)
       /\ cnt' = cnt + 1
       /\ answer' = [op |-> "enqueue", ok |-> TRUE]
       /\ UNCHANGED out
    \/ /\ isFull(cnt)
       /\ answer' = [op |-> "enqueue", ok |-> FALSE]
       /\ UNCHANGED <<queue, in, out, cnt>>

(* sharedbuffer::read: -1 when empty (ok = FALSE), else cppQueue::pop. *)
read ==
    \/ /\ ~isEmpty
       /\ out' = inc_idx(out)
       /\ cnt' = cnt - 1
       /\ answer' = [op |-> "dequeue", ok |-> TRUE, item |-> queue[out]]
       /\ UNCHANGED <<queue, in>>
    \/ /\ isEmpty
       /\ answer' = [op |-> "dequeue", ok |-> FALSE]
       /\ UNCHANGED <<queue, in, out, cnt>>

(* sharedbuffer::peek *)
peek ==
    /\ answer' = IF isEmpty THEN [op |-> "peek", ok |-> FALSE]
                         ELSE [op |-> "peek", ok |-> TRUE, item |-> queue[out]]
    /\ UNCHANGED <<queue, in, out, cnt>>

(* sharedbuffer::flush *)
flush ==
    /\ in' = 0 /\ out' = 0 /\ cnt' = 0
    /\ answer' = [op |-> "flush"]
    /\ UNCHANGED queue

SharedNext == (\E b \in SharedByte : write(b)) \/ read \/ peek \/ flush

SharedSpec == SharedInit /\ [][SharedNext]_sharedVars

--------------------------------------------------------------------------------
SharedTypeOK ==
    /\ queue \in [Record -> SharedByte \cup {Garbage}]
    /\ in \in Record
    /\ out \in Record
    /\ cnt \in 0..rec_nb

(* The count and the two indices are three witnesses of one quantity, kept  *)
(* by different lines of push, pop and flush: in is always cnt records      *)
(* ahead of out, which is what makes isEmpty and isFull mean what they say. *)
CountMatchesIndices ==
    in = IF out + cnt < rec_nb THEN out + cnt ELSE out + cnt - rec_nb

(* The bytes written and not read yet, oldest first. *)
SharedContents == [i \in 1..cnt |-> queue[(out + i - 1) % rec_nb]]

(* A FIFO of rec_nb bytes: the reader on the other core gets exactly the    *)
(* bytes push accepted, in the order they were written.                     *)
SharedFifo == INSTANCE BoundedFifo
                WITH q <- SharedContents, ret <- answer, Capacity <- rec_nb,
                     Item <- SharedByte, Batch <- {}

SharedImplementsFifo == SharedFifo!FifoSpec
================================================================================
