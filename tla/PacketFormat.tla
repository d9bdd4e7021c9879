---------------------------- MODULE PacketFormat ----------------------------
(***************************************************************************)
(* cpacket_format (packet_format.h/.cpp of the test program) on the io     *)
(* thread: the bytes that the reads of a link bring are put into a ring    *)
(* buffer and cut into packets.  Each round of the loop is a step.         *)
(*                                                                         *)
(* A byte is its place in its packet and that packet's body length; the    *)
(* byte at LengthAt stands for the length field.  Any other byte, and      *)
(* whatever lies behind data_buff in memory, reads as an arbitrary length. *)
(***************************************************************************)
EXTENDS RingBuffer

CONSTANTS HeadSize,      \* PACKET_HEAD_SIZE
          LengthAt,      \* place of the length field in the head
          MaxBody,       \* MAX_PACKET_BUFFER_SIZE: no valid length any more
          MaxSend,       \* MAX_PACKET_SEND_SIZE
          MaxRead,       \* recv_buffer_max_size_, of the clients
          Lengths,       \* lengths of what the peer gives to its format
          MaxRelinks     \* bound: how often the link is lost and set up again

(* The sizes leave room for a whole read behind any incomplete packet.       *)
ASSUME SizesAssumption ==
    /\ HeadSize \in Nat \ {0} /\ MaxBody \in Nat \ {0} /\ MaxRead \in Nat \ {0}
    /\ MaxSend \in Nat /\ MaxRelinks \in Nat
    /\ LengthAt \in 0 .. HeadSize - 1
    /\ Lengths \subseteq Nat
    /\ MaxSend <= HeadSize + MaxBody
    /\ HeadSize + MaxBody - 2 + MaxRead < BufferSize

VARIABLES
    curr_buffer_size_,
    parsing,   \* format_recv_buffer is in its loop
    wire,      \* bytes on their way to the client
    relinks,
    whole,     \* history: every packet given out was one that the peer sent
    clean      \* history: nothing happened that excuses a broken packet

vars == <<ring, curr_buffer_size_, parsing, wire, relinks, whole, clean>>

Byte(at, len) == [at |-> at, len |-> len]

Bytes == [at : 0 .. HeadSize + MaxBody - 1, len : 0 .. MaxBody]

Packet(len) == [i \in 1 .. HeadSize + len |-> Byte(i - 1, len)]

(* Nothing is sent when the data is too long. *)
format_send_buffer(len) == IF len + HeadSize > MaxSend THEN <<>> ELSE Packet(len)

Init ==
    /\ data_buff = [k \in Slots |-> Byte(0, 0)]
    /\ head = 0
    /\ tail = 0
    /\ curr_buffer_size_ = 0
    /\ parsing = FALSE
    /\ wire = <<>>
    /\ relinks = 0
    /\ whole = TRUE
    /\ clean = TRUE

-----------------------------------------------------------------------------
(* The peer, which uses the same class, and the link. *)

PeerSends ==
    /\ Len(wire) < HeadSize
    /\ \E len \in Lengths : wire' = wire \o format_send_buffer(len)
    /\ UNCHANGED <<ring, curr_buffer_size_, parsing, relinks, whole, clean>>

(* The client reconnects; packet_format_ and what it holds stay. *)
Relink ==
    /\ ~parsing
    /\ relinks < MaxRelinks
    /\ relinks' = relinks + 1
    /\ wire' = <<>>
    /\ clean' = (clean /\ curr_buffer_size_ = 0)
    /\ UNCHANGED <<ring, curr_buffer_size_, parsing, whole>>

-----------------------------------------------------------------------------
(* format_recv_buffer, called with the n bytes of one read. *)

format_recv_buffer ==
    /\ ~parsing
    /\ \E n \in 1 .. MaxRead :
          /\ n <= Len(wire)
          /\ wire' = SubSeq(wire, n + 1, Len(wire))
          /\ IF curr_buffer_size_ + n >= BufferSize
             THEN UNCHANGED <<ring, curr_buffer_size_, parsing>>
             ELSE /\ writeBuff(SubSeq(wire, 1, n))
                  /\ curr_buffer_size_' = curr_buffer_size_ + n
                  /\ parsing' = TRUE
    /\ UNCHANGED <<relinks, whole, clean>>

head_incomplete ==
    /\ parsing
    /\ HeadSize > curr_buffer_size_
    /\ parsing' = FALSE
    /\ UNCHANGED <<ring, curr_buffer_size_, wire, relinks, whole, clean>>

(* buffer_head points into data_buff and the code reads straight on from    *)
(* there, past the end of data_buff where the ring would go round it.       *)
InArray(size) == Masked(tail) + size <= BufferSize

Peeked(i) == data_buff[Masked(tail) + i]

(* The values that packet_body_size may have; negative ones are, compared   *)
(* with a size_t, too large.                                                *)
packet_body_sizes ==
    IF InArray(LengthAt + 1) /\ Peeked(LengthAt).at = LengthAt
    THEN {Peeked(LengthAt).len} ELSE 0 .. MaxBody

IsPacket(len) ==
    /\ InArray(HeadSize + len)
    /\ \A i \in 0 .. HeadSize + len - 1 : Peeked(i) = Byte(i, len)

head_complete == parsing /\ HeadSize <= curr_buffer_size_

(* Mutants of packet_too_long: nothing is thrown away; only the count is.   *)
packet_too_long_kept ==
    /\ head_complete
    /\ \E len \in packet_body_sizes : len >= MaxBody
    /\ clean' = FALSE
    /\ parsing' = FALSE
    /\ UNCHANGED <<ring, curr_buffer_size_, wire, relinks, whole>>

packet_too_long_half ==
    /\ head_complete
    /\ \E len \in packet_body_sizes : len >= MaxBody
    /\ curr_buffer_size_' = 0
    /\ clean' = FALSE
    /\ parsing' = FALSE
    /\ UNCHANGED <<ring, wire, relinks, whole>>

packet_too_long ==
    /\ head_complete
    /\ \E len \in packet_body_sizes : len >= MaxBody
    /\ curr_buffer_size_' = 0
    /\ consumerClear
    /\ clean' = FALSE
    /\ parsing' = FALSE
    /\ UNCHANGED <<wire, relinks, whole>>

(* A packet is handed over and taken off the ring; its body and head_size   *)
(* bytes are taken off the buffer's length.                                 *)
cut_packet(head_size) ==
    /\ head_complete
    /\ \E len \in packet_body_sizes :
          /\ len < MaxBody
          /\ len + HeadSize <= curr_buffer_size_
          /\ whole' = (whole /\ IsPacket(len))
          /\ clean' = (clean /\ InArray(HeadSize + len))
          /\ remove(len + HeadSize)
          /\ curr_buffer_size_' = curr_buffer_size_ - (len + head_size)
          /\ parsing' = (curr_buffer_size_' # 0)
    /\ UNCHANGED <<wire, relinks>>

(* Mutant of packet_complete: only the body's length is subtracted. *)
packet_complete_body == cut_packet(0)

packet_complete == cut_packet(HeadSize)

packet_incomplete ==
    /\ head_complete
    /\ \E len \in packet_body_sizes : len < MaxBody /\ len + HeadSize > curr_buffer_size_
    /\ clean' = (clean /\ InArray(LengthAt + 1))
    /\ parsing' = FALSE
    /\ UNCHANGED <<ring, curr_buffer_size_, wire, relinks, whole>>

Parse ==
    head_incomplete \/ packet_too_long \/ packet_complete \/ packet_incomplete

Next == PeerSends \/ Relink \/ format_recv_buffer \/ Parse

(* The io thread, once in format_recv_buffer, goes on. *)
Spec == Init /\ [][Next]_vars /\ WF_vars(Parse)

-----------------------------------------------------------------------------
(* Properties. *)

TypeOK ==
    /\ data_buff \in [Slots -> Bytes]
    /\ head \in 0 .. IndexSize - 1
    /\ tail \in 0 .. IndexSize - 1
    /\ curr_buffer_size_ \in Nat
    /\ parsing \in BOOLEAN
    /\ wire \in Seq(Bytes)
    /\ relinks \in 0 .. MaxRelinks
    /\ whole \in BOOLEAN
    /\ clean \in BOOLEAN

(* The format keeps the fill level in curr_buffer_size_ and never asks the *)
(* ring: after any mixture of good, broken and thrown away packets, and    *)
(* when the indices wrap around, the two agree.                            *)
SizeMatches == curr_buffer_size_ = readAvailable

(* "buffer is full" is never met, so no read is thrown away: what is left  *)
(* over between reads is less than a packet, even when a length is garbage.*)
NeverFull == ~parsing => curr_buffer_size_ + MaxRead < BufferSize

(* The ring is a queue of bytes: what a read brings is held in its order,  *)
(* round the end of data_buff too, and nothing that is held is overwritten. *)
Queue == INSTANCE ByteQueue WITH queue <- Contents

RingIsQueue == Queue!Spec

(* Until a packet lies across the end of data_buff, a length is garbage or *)
(* a new link joins half a packet, every packet given out is one that was  *)
(* sent.                                                                   *)
CleanCut == clean => whole

(* The loop of format_recv_buffer ends, whatever lengths it meets. *)
LoopEnds == parsing ~> ~parsing

(* "A complete packet, go on" (packet_format.cpp): what is cut off the     *)
(* stream of one link is the packets that were sent on it.                 *)
PacketsAreWhole == whole
=============================================================================
