----------------------------- MODULE RingBuffer -----------------------------
(***************************************************************************)
(* The part of jnk0le::Ringbuffer (ring_buffer.hpp) that the packet format *)
(* uses.  One thread uses it, so nothing is said of its memory barriers.   *)
(* head and tail are unsigned integers that run on and wrap around at      *)
(* IndexSize, the 2^64 of size_t; their low bits index data_buff.          *)
(***************************************************************************)
EXTENDS Naturals, Sequences

CONSTANTS BufferSize, IndexSize

ASSUME RingAssumption ==
    /\ BufferSize \in Nat \ {0}
    /\ IndexSize \in Nat
    /\ IndexSize % BufferSize = 0
    /\ 2 * BufferSize <= IndexSize

VARIABLES data_buff, head, tail

ring == <<data_buff, head, tail>>

Slots == 0 .. BufferSize - 1

(* Mutant of Wrap: the sum is not reduced. *)
Wrap_unbounded(x) == IF x < 2 * IndexSize THEN x ELSE x - IndexSize

(* Addition of an index and a count below IndexSize. *)
Wrap(x) == IF x < IndexSize THEN x ELSE x - IndexSize

readAvailable == Wrap(head + IndexSize - tail)

(* index & buffer_mask: the place in data_buff, where peek() points for tail *)
Masked(index) == index % BufferSize

(* Mutant of writeBuff: the copy does not go round the end of data_buff. *)
writeBuff_straight(buff) ==
    LET to_write == IF BufferSize - readAvailable < Len(buff)
                    THEN BufferSize - readAvailable ELSE Len(buff)
    IN  /\ data_buff' = [k \in Slots |->
              IF k >= Masked(head) /\ k - Masked(head) < to_write
              THEN buff[k - Masked(head) + 1] ELSE data_buff[k]]
        /\ head' = Wrap(head + to_write)
        /\ UNCHANGED tail

writeBuff(buff) ==
    LET to_write == IF BufferSize - readAvailable < Len(buff)
                    THEN BufferSize - readAvailable ELSE Len(buff)
        Offset(k) == Masked(k + BufferSize - Masked(head))
    IN  /\ data_buff' = [k \in Slots |-> IF Offset(k) < to_write
                                         THEN buff[Offset(k) + 1] ELSE data_buff[k]]
        /\ head' = Wrap(head + to_write)
        /\ UNCHANGED tail

remove(cnt) ==
    /\ tail' = Wrap(tail + (IF cnt > readAvailable THEN readAvailable ELSE cnt))
    /\ UNCHANGED <<data_buff, head>>

consumerClear ==
    /\ tail' = head
    /\ UNCHANGED <<data_buff, head>>

(* What the buffer holds, oldest first. *)
Contents == [i \in 1 .. readAvailable |-> data_buff[Masked(tail + i - 1)]]
=============================================================================
