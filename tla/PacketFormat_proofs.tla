------------------------ MODULE PacketFormat_proofs ------------------------
(***************************************************************************)
(* For every size of the ring, of heads, bodies and reads that leaves room *)
(* for a whole read behind an incomplete packet: the format's count and    *)
(* the ring agree, no read is ever thrown away, the ring is a byte queue,  *)
(* and packets are cut as they were sent until an accident happens.        *)
(***************************************************************************)
EXTENDS PacketFormat, SequenceTheorems, TLAPS

(* While the loop runs the buffer may hold more than between reads, but     *)
(* never more than data_buff does.                                          *)
Inv ==
    /\ TypeOK
    /\ SizeMatches
    /\ NeverFull
    /\ curr_buffer_size_ < BufferSize

-----------------------------------------------------------------------------
(* Indices. *)

(* A masked index is a place in data_buff. *)
LEMMA MaskedInSlots ==
    ASSUME NEW x \in Nat
    PROVE  Masked(x) \in Slots
BY RingAssumption DEF Masked, Slots

(* writeBuff stores all of a read that fits, and moves head by its length. *)
LEMMA WriteFits ==
    ASSUME TypeOK, SizeMatches, NEW buff \in Seq(Bytes), curr_buffer_size_ + Len(buff) < BufferSize,
           writeBuff(buff)
    PROVE  /\ data_buff' \in [Slots -> Bytes]
           /\ head' \in 0 .. IndexSize - 1
           /\ tail' = tail
           /\ readAvailable' = readAvailable + Len(buff)
<1> DEFINE Offset(k) == Masked(k + BufferSize - Masked(head))
           to_write == IF BufferSize - readAvailable < Len(buff)
                       THEN BufferSize - readAvailable ELSE Len(buff)
<1>1. Len(buff) \in Nat /\ BufferSize \in Nat /\ IndexSize \in Nat
   BY RingAssumption
<1>2. to_write = Len(buff)
   BY <1>1 DEF SizeMatches, TypeOK
<1>3. head' = Wrap(head + Len(buff)) /\ tail' = tail
   BY <1>2 DEF writeBuff
<1>4. head' \in 0 .. IndexSize - 1 /\ readAvailable' = readAvailable + Len(buff)
   BY <1>1, <1>3, RingAssumption DEF TypeOK, SizeMatches, readAvailable, Wrap
<1>5. ASSUME NEW k \in Slots
      PROVE  Offset(k) \in Nat
   <2>1. Masked(head) \in Slots
      BY <1>1, MaskedInSlots DEF TypeOK
   <2>2. k + BufferSize - Masked(head) \in Nat
      BY <1>1, <2>1 DEF Slots
   <2> QED BY <2>2, MaskedInSlots DEF Slots
<1>6. ASSUME NEW k \in Slots
      PROVE  (IF Offset(k) < Len(buff) THEN buff[Offset(k) + 1] ELSE data_buff[k]) \in Bytes
   <2> HIDE DEF Offset
   <2> QED BY <1>1, <1>5, <1>6 DEF TypeOK
<1>7. data_buff' = [k \in Slots |-> IF Offset(k) < Len(buff)
                                    THEN buff[Offset(k) + 1] ELSE data_buff[k]]
   BY <1>2 DEF writeBuff
<1> HIDE DEF Offset
<1>8. data_buff' \in [Slots -> Bytes]
   BY <1>6, <1>7
<1> QED BY <1>3, <1>4, <1>8

(* remove takes exactly what it is asked for when that much is there. *)
LEMMA RemoveExact ==
    ASSUME TypeOK, NEW cnt \in Nat, cnt <= readAvailable, remove(cnt), readAvailable < BufferSize
    PROVE  /\ tail' \in 0 .. IndexSize - 1
           /\ readAvailable' = readAvailable - cnt
BY RingAssumption DEF TypeOK, remove, readAvailable, Wrap

(* Every length that can be read from a head is a number up to MaxBody. *)
LEMMA BodySizes ==
    ASSUME TypeOK
    PROVE  packet_body_sizes \subseteq 0 .. MaxBody
<1>1. CASE InArray(LengthAt + 1) /\ Peeked(LengthAt).at = LengthAt
   <2>t. tail \in Nat
      BY RingAssumption DEF TypeOK
   <2>1. Masked(tail) \in Nat
      BY <2>t, MaskedInSlots, RingAssumption DEF Slots
   <2>2. Masked(tail) + LengthAt \in Slots
      BY <1>1, <2>1, SizesAssumption, RingAssumption DEF InArray, Slots
   <2>3. Peeked(LengthAt) \in Bytes
      BY <2>2 DEF Peeked, TypeOK
   <2> QED BY <1>1, <2>3 DEF packet_body_sizes, Bytes
<1>2. CASE ~(InArray(LengthAt + 1) /\ Peeked(LengthAt).at = LengthAt)
   BY <1>2 DEF packet_body_sizes
<1> QED BY <1>1, <1>2

(* What the peer's format_send_buffer makes are bytes of the model. *)
LEMMA SentBytes ==
    ASSUME NEW len \in Nat
    PROVE  format_send_buffer(len) \in Seq(Bytes)
<1>1. CASE len + HeadSize > MaxSend
   BY <1>1 DEF format_send_buffer
<1>2. CASE ~(len + HeadSize > MaxSend)
   <2>1. len \in 0 .. MaxBody /\ HeadSize + len \in Nat
      BY <1>2, SizesAssumption
   <2>2. \A i \in 1 .. HeadSize + len : Byte(i - 1, len) \in Bytes
      BY <2>1, SizesAssumption DEF Byte, Bytes
   <2> QED BY <1>2, <2>1, <2>2 DEF format_send_buffer, Packet
<1> QED BY <1>1, <1>2

-----------------------------------------------------------------------------
LEMMA InitInv == Init => Inv
<1> SUFFICES ASSUME Init PROVE Inv
   OBVIOUS
<1>1. TypeOK
   <2>1. Byte(0, 0) \in Bytes
      BY SizesAssumption DEF Byte, Bytes
   <2>2. 0 \in 0 .. IndexSize - 1 /\ 0 \in 0 .. MaxRelinks
      BY RingAssumption, SizesAssumption
   <2>3. data_buff \in [Slots -> Bytes]
      BY <2>1 DEF Init
   <2>4. parsing \in BOOLEAN /\ whole \in BOOLEAN /\ clean \in BOOLEAN
      BY Zenon DEF Init
   <2> QED BY <2>2, <2>3, <2>4 DEF Init, TypeOK
<1>2. SizeMatches
   BY RingAssumption DEF Init, SizeMatches, readAvailable, Wrap
<1>3. NeverFull /\ curr_buffer_size_ < BufferSize
   BY RingAssumption, SizesAssumption DEF Init, NeverFull
<1> QED BY <1>1, <1>2, <1>3 DEF Inv

(* One step per action of the format, of the peer and of the link. *)
LEMMA NextInv == Inv /\ [Next]_vars => Inv'
<1> SUFFICES ASSUME Inv, [Next]_vars PROVE Inv'
   OBVIOUS
<1> USE DEF Inv
<1>n. /\ BufferSize \in Nat /\ HeadSize \in Nat \ {0} /\ MaxBody \in Nat \ {0}
      /\ MaxRead \in Nat \ {0} /\ HeadSize + MaxBody - 2 + MaxRead < BufferSize
   BY RingAssumption, SizesAssumption
<1>1. CASE PeerSends
   <2>1. PICK len \in Lengths : wire' = wire \o format_send_buffer(len)
      BY <1>1 DEF PeerSends
   <2>2. wire' \in Seq(Bytes)
      BY <2>1, SentBytes, SizesAssumption DEF TypeOK
   <2> QED BY <1>1, <2>2 DEF PeerSends, TypeOK, SizeMatches, NeverFull, readAvailable, ring
<1>2. CASE Relink
   BY <1>2, SizesAssumption DEF Relink, TypeOK, SizeMatches, NeverFull, readAvailable, ring
<1>3. CASE format_recv_buffer
   <2>1. PICK n \in 1 .. MaxRead :
            /\ n <= Len(wire)
            /\ wire' = SubSeq(wire, n + 1, Len(wire))
            /\ IF curr_buffer_size_ + n >= BufferSize
               THEN UNCHANGED <<ring, curr_buffer_size_, parsing>>
               ELSE /\ writeBuff(SubSeq(wire, 1, n))
                    /\ curr_buffer_size_' = curr_buffer_size_ + n
                    /\ parsing' = TRUE
      BY <1>3 DEF format_recv_buffer
   <2>2. curr_buffer_size_ + n < BufferSize
      BY <1>3, <2>1, <1>n DEF format_recv_buffer, NeverFull, TypeOK
   <2>3. SubSeq(wire, 1, n) \in Seq(Bytes) /\ Len(SubSeq(wire, 1, n)) = n
      BY <2>1, <1>n DEF TypeOK
   <2>4. wire' \in Seq(Bytes)
      BY <2>1, <1>n DEF TypeOK
   <2>5. /\ writeBuff(SubSeq(wire, 1, n))
         /\ curr_buffer_size_' = curr_buffer_size_ + n
         /\ parsing' = TRUE
      BY <2>1, <2>2, <1>n DEF TypeOK
   <2>6. /\ data_buff' \in [Slots -> Bytes]
         /\ head' \in 0 .. IndexSize - 1
         /\ tail' = tail
         /\ readAvailable' = readAvailable + n
      BY <2>2, <2>3, <2>5, WriteFits
   <2>7. TypeOK'
      BY <1>3, <2>1, <2>4, <2>5, <2>6 DEF format_recv_buffer, TypeOK
   <2> QED BY <2>2, <2>5, <2>6, <2>7 DEF SizeMatches, NeverFull
<1>4. CASE head_incomplete
   <2>1. curr_buffer_size_' = curr_buffer_size_ /\ curr_buffer_size_ + MaxRead < BufferSize
      BY <1>4, <1>n DEF head_incomplete, TypeOK
   <2>2. TypeOK' /\ SizeMatches'
      BY <1>4 DEF head_incomplete, TypeOK, SizeMatches, readAvailable, ring
   <2> QED BY <2>1, <2>2, <1>n DEF NeverFull
<1>5. CASE packet_too_long
   <2>1. readAvailable' = 0
      BY <1>5, RingAssumption DEF packet_too_long, consumerClear, readAvailable, Wrap, TypeOK
   <2>2. curr_buffer_size_' = 0
      BY <1>5 DEF packet_too_long
   <2>b. parsing' \in BOOLEAN /\ whole' \in BOOLEAN /\ clean' \in BOOLEAN
      BY <1>5, Zenon DEF packet_too_long, TypeOK
   <2>3. TypeOK'
      BY <1>5, <2>2, <2>b DEF packet_too_long, consumerClear, TypeOK
   <2>4. NeverFull' /\ curr_buffer_size_' < BufferSize
      BY <2>2, <1>n DEF NeverFull
   <2> QED BY <2>1, <2>2, <2>3, <2>4 DEF SizeMatches
<1>6. CASE packet_complete
   <2>1. PICK len \in packet_body_sizes :
            /\ len < MaxBody
            /\ len + HeadSize <= curr_buffer_size_
            /\ whole' = (whole /\ IsPacket(len))
            /\ clean' = (clean /\ InArray(HeadSize + len))
            /\ remove(len + HeadSize)
            /\ curr_buffer_size_' = curr_buffer_size_ - (len + HeadSize)
            /\ parsing' = (curr_buffer_size_' # 0)
      BY <1>6 DEF packet_complete, cut_packet
   <2>2. len \in 0 .. MaxBody
      BY <2>1, BodySizes
   <2>3. /\ tail' \in 0 .. IndexSize - 1
         /\ readAvailable' = readAvailable - (len + HeadSize)
      BY <2>1, <2>2, <1>n, RemoveExact DEF SizeMatches
   <2>4. curr_buffer_size_' \in Nat /\ curr_buffer_size_' < BufferSize
      BY <2>1, <2>2, <1>n DEF TypeOK
   <2>5. whole' \in BOOLEAN /\ clean' \in BOOLEAN /\ parsing' \in BOOLEAN
      BY <2>1
   <2>6. TypeOK'
      BY <1>6, <2>1, <2>3, <2>4, <2>5 DEF packet_complete, cut_packet, remove, TypeOK
   <2>7. SizeMatches'
      BY <2>1, <2>3 DEF SizeMatches
   <2>8. NeverFull'
      <3>1. CASE curr_buffer_size_' = 0
         BY <3>1, <1>n DEF NeverFull
      <3>2. CASE curr_buffer_size_' # 0
         <4>1. parsing' = TRUE
            BY <2>1, <3>2
         <4> QED BY <4>1 DEF NeverFull
      <3> QED BY <3>1, <3>2
   <2> QED BY <2>4, <2>6, <2>7, <2>8
<1>7. CASE packet_incomplete
   <2>1. PICK len \in packet_body_sizes : len < MaxBody /\ len + HeadSize > curr_buffer_size_
      BY <1>7 DEF packet_incomplete
   <2>2. len \in 0 .. MaxBody
      BY <2>1, BodySizes
   <2>3. curr_buffer_size_ + MaxRead < BufferSize
      BY <2>1, <2>2, <1>n DEF TypeOK
   <2> QED BY <1>7, <2>3 DEF packet_incomplete, TypeOK, SizeMatches, NeverFull, readAvailable, ring
<1>8. CASE UNCHANGED vars
   BY <1>8 DEF vars, TypeOK, SizeMatches, NeverFull, readAvailable, ring
<1> QED BY <1>1, <1>2, <1>3, <1>4, <1>5, <1>6, <1>7, <1>8 DEF Next, Parse

(* All of it together holds throughout. *)
THEOREM Invariance == Spec => []Inv
BY InitInv, NextInv, PTL DEF Spec

(* Indices, count and buffer keep their types. *)
THEOREM TypeCorrect == Spec => []TypeOK
<1>1. Inv => TypeOK BY DEF Inv
<1> QED BY <1>1, Invariance, PTL

(* curr_buffer_size_ is the ring's fill level, garbage or not. *)
THEOREM SizeCorrect == Spec => []SizeMatches
<1>1. Inv => SizeMatches BY DEF Inv
<1> QED BY <1>1, Invariance, PTL

(* No read meets a full buffer, for all sizes that SizesAssumption allows. *)
THEOREM NeverRefuses == Spec => []NeverFull
<1>1. Inv => NeverFull BY DEF Inv
<1> QED BY <1>1, Invariance, PTL

-----------------------------------------------------------------------------
(* Places in data_buff. *)

(* The quotient and the remainder of a division. *)
LEMMA Division ==
    ASSUME NEW b \in Int, b > 0, NEW x \in Int
    PROVE  /\ x \div b \in Int
           /\ x % b \in Int /\ 0 <= x % b /\ x % b < b
           /\ x = b * (x \div b) + (x % b)
<1>1. x = b * (x \div b) + (x % b)
   BY SMT
<1>2. x \div b \in Int /\ x % b \in Int /\ 0 <= x % b /\ x % b < b
   BY SMT
<1> QED BY <1>1, <1>2

(* They are the only ones. *)
LEMMA Remainder ==
    ASSUME NEW b \in Int, b > 0, NEW x \in Int, NEW p \in Int, NEW r \in 0 .. b - 1,
           x = b * p + r
    PROVE  x % b = r
BY SMT

(* Going on by less than a round. *)
LEMMA MaskedAdd ==
    ASSUME NEW x \in Nat, NEW d \in 0 .. BufferSize - 1
    PROVE  Masked(x + d) = IF Masked(x) + d < BufferSize THEN Masked(x) + d
                                                         ELSE Masked(x) + d - BufferSize
<1> DEFINE b == BufferSize
           p == x \div b
           r == x % b
<1>1. b \in Int /\ b > 0
   BY RingAssumption
<1>2. p \in Int /\ r \in Int /\ 0 <= r /\ r < b /\ x = b * p + r
   BY <1>1, Division
<1> HIDE DEF b, p, r
<1>3. d \in 0 .. b - 1
   BY DEF b
<1>4. CASE r + d < b
   <2>1. r + d \in 0 .. b - 1 /\ x + d = b * p + (r + d)
      BY <1>1, <1>2, <1>3, <1>4
   <2>2. (x + d) % b = r + d
      BY <1>1, <1>2, <2>1, Remainder
   <2> QED BY <1>4, <2>2 DEF Masked, b, r
<1>5. CASE ~(r + d < b)
   <2>1. r + d - b \in 0 .. b - 1 /\ x + d = b * (p + 1) + (r + d - b) /\ p + 1 \in Int
      BY <1>1, <1>2, <1>3, <1>5
   <2>2. (x + d) % b = r + d - b
      BY <1>1, <2>1, Remainder, SMTT(30)
   <2> QED BY <1>5, <2>2 DEF Masked, b, r
<1> QED BY <1>4, <1>5

(* An index that wraps around stays at its place, for BufferSize divides    *)
(* IndexSize.                                                               *)
LEMMA MaskedWrap ==
    ASSUME NEW x \in Nat
    PROVE  Masked(Wrap(x)) = Masked(x)
<1> DEFINE b == BufferSize
           p == x \div b
           r == x % b
           c == IndexSize \div b
<1>1. b \in Int /\ b > 0 /\ IndexSize \in Nat /\ IndexSize % b = 0
   BY RingAssumption
<1>2. p \in Int /\ r \in Int /\ 0 <= r /\ r < b /\ x = b * p + r
   BY <1>1, Division
<1>3. c \in Int /\ IndexSize = b * c
   <2>1. c \in Int /\ IndexSize = b * c + (IndexSize % b)
      BY <1>1, Division
   <2> HIDE DEF b, c
   <2>2. IndexSize = b * c + 0
      BY <1>1, <2>1, Zenon
   <2> QED BY <1>1, <2>1, <2>2
<1> HIDE DEF b, p, r, c
<1>4. CASE x < IndexSize
   BY <1>4 DEF Wrap
<1>5. CASE ~(x < IndexSize)
   <2>1. x - IndexSize = b * (p - c) + r /\ p - c \in Int /\ r \in 0 .. b - 1
         /\ x - IndexSize \in Int
      BY <1>1, <1>2, <1>3
   <2>2. (x - IndexSize) % b = r
      BY <1>1, <1>2, <2>1, Remainder
   <2> QED BY <1>5, <2>2 DEF Wrap, Masked, b, r
<1> QED BY <1>4, <1>5

-----------------------------------------------------------------------------
(* What a ring holds: n bytes of d from index t on. *)
Held(d, t, n) == [i \in 1 .. n |-> d[Masked(t + i - 1)]]

LEMMA HeldSeq ==
    ASSUME NEW d \in [Slots -> Bytes], NEW t \in Nat, NEW n \in Nat
    PROVE  /\ Held(d, t, n) \in Seq(Bytes)
           /\ Len(Held(d, t, n)) = n
           /\ \A i \in 1 .. n : Held(d, t, n)[i] = d[Masked(t + i - 1)]
<1>1. ASSUME NEW i \in 1 .. n PROVE d[Masked(t + i - 1)] \in Bytes
   <2>1. t + i - 1 \in Nat
      OBVIOUS
   <2> QED BY <2>1, MaskedInSlots
<1> HIDE DEF Bytes
<1> QED BY <1>1 DEF Held

(* Contents is what is held between tail and head. *)
LEMMA ContentsHeld ==
    ASSUME Inv
    PROVE  /\ Contents = Held(data_buff, tail, readAvailable)
           /\ data_buff \in [Slots -> Bytes] /\ tail \in Nat /\ head \in Nat
           /\ readAvailable \in Nat /\ readAvailable < BufferSize
           /\ head = Wrap(tail + readAvailable)
           /\ wire \in Seq(Bytes)
<1>1. /\ data_buff \in [Slots -> Bytes] /\ tail \in Nat /\ head \in Nat
      /\ head < IndexSize /\ tail < IndexSize
      /\ wire \in Seq(Bytes) /\ curr_buffer_size_ \in Nat
   BY RingAssumption DEF Inv, TypeOK
<1>2. readAvailable \in Nat /\ readAvailable < BufferSize
   BY <1>1 DEF Inv, SizeMatches
<1>3. head = Wrap(tail + readAvailable)
   BY <1>1, RingAssumption DEF Wrap, readAvailable
<1> QED BY <1>1, <1>2, <1>3 DEF Contents, Held

(* data_buff after a write of buff at head index h. *)
Written(d, h, buff) ==
    LET Offset(k) == Masked(k + BufferSize - Masked(h))
    IN  [k \in Slots |-> IF Offset(k) < Len(buff) THEN buff[Offset(k) + 1] ELSE d[k]]

(* A write that fits appends: it fills the free places behind the held      *)
(* bytes in their order, round the end of data_buff, and touches no other.  *)
LEMMA HeldAppend ==
    ASSUME NEW d \in [Slots -> Bytes], NEW t \in Nat, NEW n \in Nat, NEW h \in Nat,
           Masked(h) = Masked(t + n), NEW buff \in Seq(Bytes), n + Len(buff) < BufferSize
    PROVE  /\ Written(d, h, buff) \in [Slots -> Bytes]
           /\ Held(Written(d, h, buff), t, n + Len(buff)) = Held(d, t, n) \o buff
<1> DEFINE Offset(k) == Masked(k + BufferSize - Masked(h))
           e == [k \in Slots |-> IF Offset(k) < Len(buff) THEN buff[Offset(k) + 1] ELSE d[k]]
           m == Len(buff)
           s == Masked(t)
           p == Masked(h)
<1>1. m \in Nat /\ BufferSize \in Nat \ {0} /\ s \in Slots /\ p \in Slots
   BY RingAssumption, MaskedInSlots
<1>2. p = IF s + n < BufferSize THEN s + n ELSE s + n - BufferSize
   <2>1. n \in 0 .. BufferSize - 1
      BY <1>1
   <2> QED BY <2>1, MaskedAdd
<1>3. ASSUME NEW k \in Slots
      PROVE  Offset(k) = IF k >= p THEN k - p ELSE k + BufferSize - p
   <2> HIDE DEF p
   <2>1. k \in Nat /\ k < BufferSize /\ p \in Nat /\ p < BufferSize
      BY <1>1 DEF Slots
   <2>2. Masked(0) = 0
      BY <1>1 DEF Masked
   <2>3. CASE k >= p
      <3>1. k - p \in 0 .. BufferSize - 1 /\ k + BufferSize - p = (0 + (k - p)) + BufferSize
         BY <1>1, <2>1, <2>3
      <3>2. Masked(0 + (k - p)) = k - p
         BY <1>1, <2>2, <3>1, MaskedAdd, SMTT(30)
      <3>3. Masked((k - p) + BufferSize) = k - p
         <4> DEFINE x == k - p
         <4>1. x \in Nat /\ x < BufferSize /\ BufferSize \in Int /\ BufferSize > 0
               /\ x + BufferSize = BufferSize * 1 + x /\ x \in 0 .. BufferSize - 1
            BY <1>1, <3>1
         <4> HIDE DEF x
         <4>2. (x + BufferSize) % BufferSize = x
            BY <4>1, Remainder
         <4> QED BY <4>2 DEF Masked, x
      <3>4. Offset(k) = k - p
         <4>1. k + BufferSize - p = (k - p) + BufferSize
            BY <1>1, <2>1
         <4> QED BY <3>3, <4>1 DEF p
      <3> QED BY <2>3, <3>4
   <2>4. CASE ~(k >= p)
      <3>1. k + BufferSize - p \in 0 .. BufferSize - 1
         BY <1>1, <2>1, <2>4
      <3>2. Masked(0 + (k + BufferSize - p)) = k + BufferSize - p
         BY <1>1, <2>2, <3>1, MaskedAdd, SMTT(30)
      <3>3. 0 + (k + BufferSize - p) = k + BufferSize - p
         BY <3>1
      <3>4. Offset(k) = k + BufferSize - p
         BY <3>2, <3>3 DEF p
      <3> QED BY <2>4, <3>4
   <2> QED BY <2>3, <2>4
<1>4. ASSUME NEW k \in Slots
      PROVE  /\ Offset(k) \in Nat
             /\ (IF Offset(k) < m THEN buff[Offset(k) + 1] ELSE d[k]) \in Bytes
   <2> HIDE DEF Offset, p
   <2>1. Offset(k) \in Nat
      BY <1>1, <1>3 DEF Slots
   <2> HIDE DEF Bytes
   <2> QED BY <1>1, <2>1
<1>5. e \in [Slots -> Bytes]
   <2> HIDE DEF Offset
   <2> QED BY <1>4
<1>6. ASSUME NEW i \in 1 .. n + m
      PROVE  Held(e, t, n + m)[i] = IF i <= n THEN Held(d, t, n)[i] ELSE buff[i - n]
   <2> DEFINE k == Masked(t + i - 1)
   <2>1. Held(e, t, n + m)[i] = e[k] /\ (i <= n => Held(d, t, n)[i] = d[k])
      BY <1>1 DEF Held
   <2>2. k = IF s + (i - 1) < BufferSize THEN s + (i - 1) ELSE s + (i - 1) - BufferSize
      <3>1. i - 1 \in 0 .. BufferSize - 1 /\ t + i - 1 = t + (i - 1)
         BY <1>1
      <3> QED BY <3>1, MaskedAdd
   <2>3. k \in Slots
      <3>1. t + i - 1 \in Nat
         BY <1>1
      <3> QED BY <3>1, MaskedInSlots
   <2> HIDE DEF k, s, p, Offset
   <2>4. CASE i <= n
      <3>1. ~(Offset(k) < m)
         BY <1>1, <1>2, <1>3, <2>2, <2>3, <2>4 DEF Slots
      <3> QED BY <2>1, <2>3, <2>4, <3>1
   <2>5. CASE i > n
      <3>1. Offset(k) = i - n - 1
         BY <1>1, <1>2, <1>3, <2>2, <2>3, <2>5 DEF Slots
      <3>2. Offset(k) < m /\ Offset(k) + 1 = i - n
         BY <1>1, <2>5, <3>1
      <3> QED BY <1>1, <2>1, <2>3, <2>5, <3>2
   <2> QED BY <1>1, <2>4, <2>5
<1> HIDE DEF e
<1>7. /\ Held(e, t, n + m) \in Seq(Bytes) /\ Len(Held(e, t, n + m)) = n + m
      /\ Held(d, t, n) \in Seq(Bytes) /\ Len(Held(d, t, n)) = n
   <2>1. n + m \in Nat
      BY <1>1
   <2>2. Held(e, t, n + m) \in Seq(Bytes) /\ Len(Held(e, t, n + m)) = n + m
      BY <1>5, <2>1, HeldSeq, Zenon
   <2>3. Held(d, t, n) \in Seq(Bytes) /\ Len(Held(d, t, n)) = n
      BY HeldSeq, Zenon
   <2> QED BY <2>2, <2>3
<1>8. /\ Held(d, t, n) \o buff \in Seq(Bytes)
      /\ Len(Held(d, t, n) \o buff) = n + m
      /\ \A i \in 1 .. n + m : (Held(d, t, n) \o buff)[i]
                                  = IF i <= n THEN Held(d, t, n)[i] ELSE buff[i - n]
   <2> DEFINE a == Held(d, t, n)
   <2>1. a \in Seq(Bytes) /\ Len(a) = n
      BY <1>7
   <2> HIDE DEF a
   <2>2. /\ a \o buff \in Seq(Bytes) /\ Len(a \o buff) = Len(a) + Len(buff)
         /\ \A i \in 1 .. Len(a) + Len(buff) :
               (a \o buff)[i] = IF i <= Len(a) THEN a[i] ELSE buff[i - Len(a)]
      BY <2>1, ConcatProperties, Zenon
   <2> QED BY <2>1, <2>2, Zenon DEF a
<1>9. Held(e, t, n + m) = Held(d, t, n) \o buff
   BY <1>6, <1>7, <1>8, SeqEqual
<1>10. Written(d, h, buff) = e
   BY Zenon DEF Written, e
<1> QED BY <1>5, <1>9, <1>10, Zenon

(* Moving tail on takes bytes off the front. *)
LEMMA HeldDrop ==
    ASSUME NEW d \in [Slots -> Bytes], NEW t \in Nat, NEW n \in Nat, n < BufferSize,
           NEW c \in 0 .. n
    PROVE  Held(d, Wrap(t + c), n - c) = SubSeq(Held(d, t, n), c + 1, n)
<1> DEFINE u == Wrap(t + c)
<1>1. u \in Nat /\ n - c \in Nat /\ t + c \in Nat /\ BufferSize \in Nat
   BY RingAssumption DEF Wrap
<1>2. Masked(u) = Masked(t + c)
   BY <1>1, MaskedWrap
<1> HIDE DEF u
<1>3. ASSUME NEW i \in 1 .. n - c
      PROVE  Held(d, u, n - c)[i] = Held(d, t, n)[c + i]
   <2>1. i - 1 \in 0 .. BufferSize - 1 /\ u + i - 1 = u + (i - 1)
         /\ t + (c + i) - 1 = (t + c) + (i - 1) /\ c + i \in 1 .. n
      BY <1>1
   <2>2. Masked(u + (i - 1)) = Masked((t + c) + (i - 1))
      BY <1>1, <1>2, <2>1, MaskedAdd
   <2>3. Held(d, u, n - c)[i] = d[Masked(u + i - 1)]
      BY <1>1, HeldSeq
   <2>4. Held(d, t, n)[c + i] = d[Masked(t + (c + i) - 1)]
      BY <2>1, HeldSeq
   <2> QED BY <2>1, <2>2, <2>3, <2>4
<1>4. /\ Held(d, u, n - c) \in Seq(Bytes) /\ Len(Held(d, u, n - c)) = n - c
      /\ Held(d, t, n) \in Seq(Bytes) /\ Len(Held(d, t, n)) = n
   BY <1>1, HeldSeq
<1> DEFINE w == Held(d, t, n)
<1>5. /\ SubSeq(w, c + 1, n) \in Seq(Bytes)
      /\ Len(SubSeq(w, c + 1, n)) = n - c
      /\ \A i \in 1 .. n - c : SubSeq(w, c + 1, n)[i] = w[c + i]
   <2> HIDE DEF w, Bytes
   <2>1. w \in Seq(Bytes) /\ Len(w) = n
      BY <1>4 DEF w
   <2>2. \A i \in c + 1 .. n : w[i] \in Bytes
      BY <2>1
   <2>3. /\ SubSeq(w, c + 1, n) \in Seq(Bytes)
         /\ Len(SubSeq(w, c + 1, n)) = IF c + 1 <= n THEN n - (c + 1) + 1 ELSE 0
         /\ \A i \in 1 .. n - (c + 1) + 1 : SubSeq(w, c + 1, n)[i] = w[(c + 1) + i - 1]
      BY <2>2, SubSeqProperties
   <2>4. n - (c + 1) + 1 = n - c /\ \A i \in 1 .. n - c : (c + 1) + i - 1 = c + i
      OBVIOUS
   <2> QED BY <2>3, <2>4
<1> HIDE DEF w
<1>6. Held(d, u, n - c) = SubSeq(w, c + 1, n)
   BY <1>3, <1>4, <1>5, SeqEqual DEF w
<1> QED BY <1>6 DEF u, w

-----------------------------------------------------------------------------
(* What the steps do to the stream: the bytes held and those on the wire. *)

(* Contents is a sequence of bytes, as long as the ring says. *)
LEMMA ContentsSeq ==
    ASSUME Inv
    PROVE  Contents \in Seq(Bytes) /\ Len(Contents) = readAvailable /\ readAvailable \in Nat
BY ContentsHeld, HeldSeq

(* A read moves bytes from the wire into the ring, behind those held. *)
LEMMA RecvStep ==
    ASSUME Inv, format_recv_buffer
    PROVE  /\ Contents' \o wire' = Contents \o wire
           /\ Len(Contents') > Len(Contents)
           /\ UNCHANGED <<whole, clean>>
<1>1. PICK n \in 1 .. MaxRead :
         /\ n <= Len(wire)
         /\ wire' = SubSeq(wire, n + 1, Len(wire))
         /\ IF curr_buffer_size_ + n >= BufferSize
            THEN UNCHANGED <<ring, curr_buffer_size_, parsing>>
            ELSE /\ writeBuff(SubSeq(wire, 1, n))
                 /\ curr_buffer_size_' = curr_buffer_size_ + n
                 /\ parsing' = TRUE
   BY DEF format_recv_buffer
<1>2. /\ MaxRead \in Nat \ {0} /\ BufferSize \in Nat \ {0} /\ n \in Nat \ {0}
      /\ wire \in Seq(Bytes) /\ curr_buffer_size_ \in Nat
   BY SizesAssumption, RingAssumption DEF Inv, TypeOK
<1>3. curr_buffer_size_ + n < BufferSize
   BY <1>2, SizesAssumption DEF format_recv_buffer, Inv, NeverFull
<1> DEFINE buff == SubSeq(wire, 1, n)
<1>4. writeBuff(buff)
   BY <1>1, <1>2, <1>3
<1>5. buff \in Seq(Bytes) /\ Len(buff) = n
   <2> HIDE DEF Bytes
   <2> QED BY <1>1, <1>2
<1>6. buff \o wire' = wire
   <2>1. SubSeq(wire, 1, n) \o SubSeq(wire, n + 1, Len(wire)) = SubSeq(wire, 1, Len(wire))
      <3> HIDE DEF Bytes
      <3>1. 1 \in 1 .. Len(wire) + 1 /\ n \in 1 - 1 .. Len(wire) /\ Len(wire) \in n .. Len(wire)
         BY <1>1, <1>2
      <3> QED BY <1>2, <3>1, ConcatAdjacentSubSeq
   <2>2. SubSeq(wire, 1, Len(wire)) = wire
      BY <1>2, SubSeqFull
   <2> QED BY <1>1, <2>1, <2>2
<1>7. wire' \in Seq(Bytes)
   <2> HIDE DEF Bytes
   <2> QED BY <1>1, <1>2
<1> HIDE DEF buff
<1>8. /\ data_buff \in [Slots -> Bytes] /\ tail \in Nat /\ head \in Nat
      /\ readAvailable \in Nat /\ readAvailable + n < BufferSize
      /\ Masked(head) = Masked(tail + readAvailable)
      /\ Contents = Held(data_buff, tail, readAvailable)
   <2>1. readAvailable + n < BufferSize
      BY <1>3 DEF Inv, SizeMatches
   <2>2. Masked(head) = Masked(tail + readAvailable)
      BY ContentsHeld, MaskedWrap
   <2> QED BY <2>1, <2>2, ContentsHeld
<1>9. tail' = tail /\ readAvailable' = readAvailable + n
   BY <1>3, <1>4, <1>5, WriteFits DEF Inv
<1> DEFINE d == Written(data_buff, head, buff)
<1>10. data_buff' = d
   <2>1. (IF BufferSize - readAvailable < Len(buff) THEN BufferSize - readAvailable
                                                     ELSE Len(buff)) = Len(buff)
      BY <1>2, <1>5, <1>8
   <2> QED BY <1>4, <2>1 DEF writeBuff, Written
<1>11. Held(d, tail, readAvailable + Len(buff)) = Held(data_buff, tail, readAvailable) \o buff
   <2>1. readAvailable + Len(buff) < BufferSize
      BY <1>5, <1>8
   <2>2. /\ data_buff \in [Slots -> Bytes] /\ tail \in Nat /\ head \in Nat
         /\ readAvailable \in Nat /\ Masked(head) = Masked(tail + readAvailable)
         /\ buff \in Seq(Bytes)
      BY <1>5, <1>8
   <2>3. ASSUME NEW t \in Nat, NEW m \in Nat, Masked(head) = Masked(t + m),
                m + Len(buff) < BufferSize
         PROVE  Held(d, t, m + Len(buff)) = Held(data_buff, t, m) \o buff
      BY <2>2, <2>3, HeldAppend
   <2> HIDE DEF d
   <2> QED BY <2>1, <2>2, <2>3, Zenon
<1> HIDE DEF d
<1>12. Contents' = Contents \o buff
   <2>1. Contents' = Held(data_buff', tail', readAvailable')
      BY DEF Contents, Held
   <2> QED BY <1>5, <1>8, <1>9, <1>10, <1>11, <2>1
<1>13. Contents \in Seq(Bytes)
   BY ContentsSeq
<1>14. (Contents \o buff) \o wire' = Contents \o (buff \o wire')
   BY <1>5, <1>7, <1>13, ConcatAssociative
<1>15. Len(Contents') = Len(Contents) + n /\ Len(Contents) \in Nat
   BY <1>5, <1>12, <1>13, ConcatProperties, LenProperties
<1>16. UNCHANGED <<whole, clean>>
   BY DEF format_recv_buffer
<1> QED BY <1>2, <1>6, <1>12, <1>14, <1>15, <1>16

(* A packet that is cut off leaves at the front. *)
LEMMA CutStep ==
    ASSUME Inv, packet_complete
    PROVE  \E len \in packet_body_sizes :
              /\ len \in 0 .. MaxBody
              /\ len + HeadSize <= Len(Contents)
              /\ Contents' = SubSeq(Contents, len + HeadSize + 1, Len(Contents))
              /\ whole' = (whole /\ IsPacket(len))
              /\ clean' = (clean /\ InArray(HeadSize + len))
              /\ UNCHANGED wire
<1>1. PICK len \in packet_body_sizes :
         /\ len + HeadSize <= curr_buffer_size_
         /\ whole' = (whole /\ IsPacket(len))
         /\ clean' = (clean /\ InArray(HeadSize + len))
         /\ remove(len + HeadSize)
         /\ UNCHANGED wire
   BY DEF packet_complete, cut_packet
<1>2. len \in 0 .. MaxBody /\ HeadSize \in Nat /\ MaxBody \in Nat
   BY BodySizes, SizesAssumption DEF Inv
<1> DEFINE c == len + HeadSize
<1>3. /\ c \in Nat /\ c <= readAvailable
      /\ readAvailable \in Nat /\ readAvailable < BufferSize
      /\ data_buff \in [Slots -> Bytes] /\ tail \in Nat
      /\ Contents = Held(data_buff, tail, readAvailable)
   BY <1>1, <1>2, ContentsHeld DEF Inv, SizeMatches
<1>4. tail' = Wrap(tail + c) /\ data_buff' = data_buff
   BY <1>1, <1>3 DEF remove
<1>5. readAvailable' = readAvailable - c
   <2>1. TypeOK /\ remove(c)
      BY <1>1 DEF Inv
   <2> HIDE DEF c
   <2> QED BY <1>3, <2>1, RemoveExact
<1> HIDE DEF c
<1>6. Held(data_buff, Wrap(tail + c), readAvailable - c)
        = SubSeq(Held(data_buff, tail, readAvailable), c + 1, readAvailable)
   <2>1. c \in 0 .. readAvailable
      BY <1>3
   <2> QED BY <1>3, <2>1, HeldDrop
<1>7. Contents' = Held(data_buff', tail', readAvailable')
   BY DEF Contents, Held
<1>8. Contents' = SubSeq(Contents, c + 1, Len(Contents)) /\ c <= Len(Contents)
   BY <1>3, <1>4, <1>5, <1>6, <1>7, ContentsSeq
<1> QED BY <1>1, <1>2, <1>8 DEF c

(* consumerClear leaves nothing. *)
LEMMA ClearStep ==
    ASSUME Inv, packet_too_long
    PROVE  /\ Contents' = <<>> /\ UNCHANGED wire
           /\ Len(Contents) > 0 /\ clean' = FALSE
<1>1. tail' = head /\ head' = head /\ wire' = wire /\ clean' = FALSE
      /\ HeadSize <= curr_buffer_size_
   BY DEF packet_too_long, head_complete, consumerClear
<1>2. readAvailable' = 0
   BY <1>1, RingAssumption DEF readAvailable, Wrap, Inv, TypeOK
<1>3. Contents' = <<>>
   BY <1>2 DEF Contents
<1>4. Len(Contents) > 0
   BY <1>1, ContentsSeq, SizesAssumption DEF Inv, SizeMatches
<1> QED BY <1>1, <1>3, <1>4

(* The other steps leave the ring alone. *)
LEMMA SameStep ==
    ASSUME UNCHANGED ring
    PROVE  Contents' = Contents
BY DEF ring, Contents, readAvailable

-----------------------------------------------------------------------------
(* Every step of the format, seen through Contents, is one of a byte queue. *)
LEMMA QueueStep ==
    ASSUME Inv, [Next]_vars
    PROVE  [Queue!Next]_<<wire, Contents>>
<1>0. Contents \in Seq(Bytes) /\ wire \in Seq(Bytes)
   BY ContentsSeq, ContentsHeld
<1>1. CASE PeerSends
   <2>1. PICK len \in Lengths : wire' = wire \o format_send_buffer(len)
      BY <1>1 DEF PeerSends
   <2> DEFINE s == format_send_buffer(len)
   <2>2. s \in Seq(Bytes)
      BY SentBytes, SizesAssumption
   <2>3. Contents' = Contents
      BY <1>1, SameStep DEF PeerSends
   <2> HIDE DEF s
   <2>4. wire' = wire \o s
      BY <2>1 DEF s
   <2>5. CASE s = <<>>
      <3>1. wire' = wire
         BY <1>0, <2>2, <2>4, <2>5, ConcatEmptySeq
      <3> QED BY <2>3, <3>1
   <2>6. CASE s # <<>>
      <3>1. /\ Len(s) \in Nat \ {0} /\ Len(wire) \in Nat
            /\ Len(wire') = Len(wire) + Len(s) /\ wire' \in Seq(Bytes)
            /\ \A i \in 1 .. Len(wire) + Len(s) :
                  wire'[i] = IF i <= Len(wire) THEN wire[i] ELSE s[i - Len(wire)]
         BY <1>0, <2>2, <2>4, <2>6, ConcatProperties, EmptySeq, LenProperties
      <3>2. SubSeq(wire', 1, Len(wire)) = wire
         <4>1. \A i \in 1 .. Len(wire) : wire'[i] \in Bytes /\ wire'[i] = wire[i]
            BY <1>0, <3>1, ElementOfSeq
         <4>2. /\ SubSeq(wire', 1, Len(wire)) \in Seq(Bytes)
               /\ Len(SubSeq(wire', 1, Len(wire)))
                     = IF 1 <= Len(wire) THEN Len(wire) - 1 + 1 ELSE 0
               /\ \A i \in 1 .. Len(wire) - 1 + 1 : SubSeq(wire', 1, Len(wire))[i] = wire'[1 + i - 1]
            BY <3>1, <4>1, SubSeqProperties
         <4>3. /\ Len(SubSeq(wire', 1, Len(wire))) = Len(wire)
               /\ \A i \in 1 .. Len(wire) : SubSeq(wire', 1, Len(wire))[i] = wire[i]
            BY <3>1, <4>1, <4>2
         <4> QED BY <1>0, <4>2, <4>3, SeqEqual
      <3>3. Len(wire') > Len(wire)
         BY <3>1
      <3> QED BY <2>3, <3>2, <3>3 DEF Queue!Next, Queue!Send
   <2> QED BY <2>5, <2>6
<1>2. CASE Relink
   BY <1>2, SameStep DEF Relink, Queue!Next, Queue!LinkLost
<1>3. CASE format_recv_buffer
   BY <1>3, RecvStep DEF Queue!Next, Queue!Arrive
<1>4. CASE head_incomplete \/ packet_incomplete
   BY <1>4, SameStep DEF head_incomplete, packet_incomplete
<1>5. CASE packet_too_long
   <2>1. Contents' = <<>> /\ UNCHANGED wire /\ Len(Contents) > 0
      BY <1>5, ClearStep
   <2>2. Len(Contents') = 0 /\ Len(Contents) \in Nat
      BY <1>0, <2>1, LenProperties
   <2>3. SubSeq(Contents, Len(Contents) - Len(Contents') + 1, Len(Contents)) = <<>>
      <3>1. Len(Contents) - Len(Contents') + 1 \in Int /\ Len(Contents) \in Int
            /\ Len(Contents) < Len(Contents) - Len(Contents') + 1
         BY <2>2
      <3> QED BY <3>1, SubSeqEmpty
   <2> QED BY <2>1, <2>2, <2>3 DEF Queue!Next, Queue!Leave
<1>6. CASE packet_complete
   <2>1. PICK len \in 0 .. MaxBody :
            /\ len + HeadSize <= Len(Contents)
            /\ Contents' = SubSeq(Contents, len + HeadSize + 1, Len(Contents))
            /\ UNCHANGED wire
      BY <1>6, CutStep
   <2>2. HeadSize \in Nat \ {0} /\ MaxBody \in Nat /\ Len(Contents) \in Nat
      BY <1>0, SizesAssumption, LenProperties
   <2>3. Len(Contents') = Len(Contents) - (len + HeadSize)
      <3> DEFINE c == len + HeadSize
                 s == Contents
      <3>1. s \in Seq(Bytes) /\ c \in Nat /\ c <= Len(s) /\ Len(s) \in Nat
         BY <1>0, <2>1, <2>2
      <3> HIDE DEF c, s
      <3>2. \A i \in c + 1 .. Len(s) : s[i] \in Bytes
         BY <3>1, ElementOfSeq
      <3>3. Len(SubSeq(s, c + 1, Len(s)))
               = IF c + 1 <= Len(s) THEN Len(s) - (c + 1) + 1 ELSE 0
         BY <3>1, <3>2, SubSeqProperties
      <3>4. Len(SubSeq(s, c + 1, Len(s))) = Len(s) - c
         BY <3>1, <3>3
      <3> QED BY <2>1, <3>4 DEF c, s
   <2>4. Len(Contents) - Len(Contents') + 1 = len + HeadSize + 1 /\ Len(Contents') < Len(Contents)
      <3> DEFINE a == Len(Contents)
                 b == Len(Contents')
      <3>1. a \in Nat /\ b = a - (len + HeadSize) /\ len \in Nat /\ HeadSize \in Nat \ {0}
         BY <2>2, <2>3
      <3> HIDE DEF a, b
      <3>2. a - b + 1 = len + HeadSize + 1 /\ b < a
         BY <3>1
      <3> QED BY <3>2 DEF a, b
   <2> QED BY <2>1, <2>4 DEF Queue!Next, Queue!Leave
<1>7. CASE UNCHANGED vars
   BY <1>7, SameStep DEF vars
<1> QED BY <1>1, <1>2, <1>3, <1>4, <1>5, <1>6, <1>7 DEF Next, Parse

(* The ring is a byte queue, for every size: nothing that is held is        *)
(* overwritten, and what a read brings comes out in its order, also round   *)
(* the end of data_buff and when the indices wrap around.                   *)
THEOREM RingCorrect == Spec => RingIsQueue
<1>1. Init => Queue!Init
   <2> SUFFICES ASSUME Init PROVE Queue!Init
      OBVIOUS
   <2>1. readAvailable = 0
      BY RingAssumption DEF Init, readAvailable, Wrap
   <2>2. Contents = <<>>
      BY <2>1 DEF Contents
   <2> QED BY <2>2 DEF Init, Queue!Init
<1>2. Inv /\ [Next]_vars => [Queue!Next]_<<wire, Contents>>
   BY QueueStep
<1> QED BY <1>1, <1>2, Invariance, PTL DEF Spec, RingIsQueue, Queue!Spec

-----------------------------------------------------------------------------
(* A stream of whole packets: it begins with a first byte, each first byte  *)
(* has all of its packet behind it, and after that comes the end or another *)
(* first byte.                                                              *)
Whole(s, i) ==
    LET next == i + HeadSize + s[i].len
    IN  /\ next <= Len(s) + 1
        /\ \A j \in i .. next - 1 : s[j] = Byte(j - i, s[i].len)
        /\ next <= Len(s) => s[next].at = 0

Stream(s) ==
    /\ s # <<>> => s[1].at = 0
    /\ \A i \in 1 .. Len(s) : s[i].at = 0 => Whole(s, i)

(* As long as nothing happened that excuses a broken packet, the held bytes *)
(* and those on the wire are such a stream: what is cut off the front of it *)
(* is a packet that was sent.                                               *)
StreamInv == clean => whole /\ Stream(Contents \o wire)

(* The fields of a byte. *)
LEMMA ByteFields ==
    ASSUME NEW b \in Bytes
    PROVE  b.at \in Nat /\ b.len \in Nat
BY SizesAssumption DEF Bytes

(* Another packet at its end keeps a stream. *)
LEMMA StreamAppend ==
    ASSUME NEW s \in Seq(Bytes), Stream(s), NEW len \in Nat, Packet(len) \in Seq(Bytes)
    PROVE  Stream(s \o Packet(len))
<1> DEFINE p == Packet(len)
           z == s \o p
           n == Len(s)
           m == HeadSize + len
<1>1. n \in Nat /\ HeadSize \in Nat \ {0} /\ m \in Nat \ {0}
   BY SizesAssumption, LenProperties
<1>2. Len(p) = m /\ \A i \in 1 .. m : p[i] = Byte(i - 1, len)
   BY <1>1 DEF Packet
<1>3. /\ z \in Seq(Bytes) /\ Len(z) = n + m
      /\ \A i \in 1 .. n + m : z[i] = IF i <= n THEN s[i] ELSE p[i - n]
   <2> HIDE DEF p
   <2>1. p \in Seq(Bytes)
      BY DEF p
   <2>2. /\ s \o p \in Seq(Bytes) /\ Len(s \o p) = Len(s) + Len(p)
         /\ \A i \in 1 .. Len(s) + Len(p) :
               (s \o p)[i] = IF i <= Len(s) THEN s[i] ELSE p[i - Len(s)]
      BY <2>1, ConcatProperties, Zenon
   <2> QED BY <1>2, <2>2, Zenon
<1>4. \A i \in 1 .. n : z[i] = s[i]
   BY <1>1, <1>3
<1>5. \A j \in n + 1 .. n + m : z[j] = Byte(j - (n + 1), len)
   <2> SUFFICES ASSUME NEW j \in n + 1 .. n + m PROVE z[j] = Byte(j - (n + 1), len)
      OBVIOUS
   <2>1. j \in 1 .. n + m /\ ~(j <= n) /\ j - n \in 1 .. m /\ (j - n) - 1 = j - (n + 1)
      BY <1>1
   <2> HIDE DEF p, z, m
   <2> QED BY <1>2, <1>3, <2>1
<1> HIDE DEF p, z, n, m
<1>6. z[n + 1].at = 0 /\ z[n + 1].len = len
   <2>1. z[n + 1] = Byte((n + 1) - (n + 1), len) /\ (n + 1) - (n + 1) = 0
      BY <1>1, <1>5
   <2> QED BY <2>1 DEF Byte
<1>7. z[1].at = 0
   <2>1. CASE n = 0
      BY <1>6, <2>1
   <2>2. CASE n # 0
      BY <1>1, <1>4, <2>2, EmptySeq DEF Stream, n
   <2> QED BY <2>1, <2>2
<1>8. ASSUME NEW i \in 1 .. n + m, z[i].at = 0 PROVE Whole(z, i)
   <2>1. CASE i <= n
      <3>1. i \in 1 .. n /\ z[i] = s[i] /\ s[i].len \in Nat
         BY <1>1, <1>4, <2>1, ElementOfSeq, ByteFields DEF n
      <3>2. Whole(s, i)
         BY <1>8, <3>1 DEF Stream, n
      <3> DEFINE next == i + HeadSize + s[i].len
      <3>3. /\ next <= n + 1 /\ next \in Nat /\ next > i
            /\ \A j \in i .. next - 1 : s[j] = Byte(j - i, s[i].len)
            /\ next <= n => s[next].at = 0
         BY <1>1, <3>1, <3>2, SMTT(30) DEF Whole, n
      <3> HIDE DEF next
      <3>4. \A j \in i .. next - 1 : z[j] = Byte(j - i, z[i].len)
         BY <1>1, <1>4, <3>1, <3>3
      <3>5. next <= n + m => z[next].at = 0
         <4>1. CASE next <= n
            BY <1>1, <1>4, <3>3, <4>1
         <4>2. CASE next = n + 1
            BY <1>6, <4>2
         <4>3. next <= n \/ next = n + 1
            BY <1>1, <3>3
         <4> QED BY <4>1, <4>2, <4>3
      <3>6. next <= (n + m) + 1
         BY <1>1, <3>3
      <3> QED BY <1>3, <3>1, <3>4, <3>5, <3>6 DEF Whole, next
   <2>2. CASE i > n
      <3>1. z[i] = Byte(i - (n + 1), len) /\ i - (n + 1) \in Nat
         BY <1>1, <1>5, <2>2
      <3>2. i = n + 1
         BY <1>1, <1>8, <2>2, <3>1 DEF Byte
      <3>3. i + HeadSize + z[i].len = n + m + 1
         BY <1>1, <1>6, <3>2 DEF m
      <3>4. \A j \in i .. n + m : z[j] = Byte(j - i, z[i].len)
         BY <1>5, <1>6, <3>2
      <3>5. (n + m + 1) - 1 = n + m /\ ~(n + m + 1 <= n + m)
         BY <1>1
      <3> QED BY <1>3, <3>3, <3>4, <3>5 DEF Whole
   <2> QED BY <1>1, <2>1, <2>2
<1> QED BY <1>3, <1>7, <1>8 DEF Stream, z, p

(* What begins at a first byte inside a stream is one. *)
LEMMA StreamSuffix ==
    ASSUME NEW s \in Seq(Bytes), Stream(s), NEW c \in Nat, c <= Len(s),
           c + 1 <= Len(s) => s[c + 1].at = 0,
           NEW z \in Seq(Bytes), Len(z) = Len(s) - c,
           \A i \in 1 .. Len(z) : z[i] = s[c + i]
    PROVE  Stream(z)
<1> DEFINE n == Len(s)
           m == Len(z)
<1>1. n \in Nat /\ m \in Nat /\ m = n - c /\ HeadSize \in Nat \ {0}
   BY LenProperties, SizesAssumption
<1>2. \A i \in 1 .. m : z[i] = s[c + i]
   OBVIOUS
<1>3. c + 1 <= n => s[c + 1].at = 0
   OBVIOUS
<1> HIDE DEF n, m
<1>4. z # <<>> => z[1].at = 0
   <2> SUFFICES ASSUME z # <<>> PROVE z[1].at = 0
      OBVIOUS
   <2>1. m \in Nat \ {0}
      BY EmptySeq DEF m
   <2>2. 1 \in 1 .. m /\ c + 1 <= n
      BY <1>1, <2>1
   <2> QED BY <1>2, <1>3, <2>2
<1>5. ASSUME NEW i \in 1 .. m, z[i].at = 0 PROVE Whole(z, i)
   <2> DEFINE a == c + i
   <2>1. a \in 1 .. n /\ z[i] = s[a] /\ i \in Nat
      BY <1>1, <1>2
   <2> HIDE DEF a
   <2>2. Whole(s, a) /\ s[a].len \in Nat
      BY <1>5, <2>1, ElementOfSeq, ByteFields DEF Stream, n
   <2> DEFINE l == s[a].len
              k == HeadSize + l
   <2>3. l \in Nat /\ k \in Nat \ {0} /\ a \in Nat /\ a = c + i
      BY <1>1, <2>1, <2>2 DEF a
   <2>4. a + HeadSize + l = a + k /\ i + HeadSize + l = i + k
      <3> HIDE DEF l
      <3>1. HeadSize \in Nat
         BY <1>1
      <3> QED BY <2>1, <2>3, <3>1
   <2>5. /\ a + HeadSize + l <= n + 1
         /\ \A j \in a .. (a + HeadSize + l) - 1 : s[j] = Byte(j - a, l)
         /\ a + HeadSize + l <= n => s[a + HeadSize + l].at = 0
      BY <2>2, Zenon DEF Whole, n
   <2> HIDE DEF k, l
   <2>6. /\ a + k <= n + 1
         /\ \A j \in a .. (a + k) - 1 : s[j] = Byte(j - a, l)
         /\ a + k <= n => s[a + k].at = 0
      BY <2>4, <2>5, Zenon
   <2>7. i + k <= m + 1
      BY <1>1, <2>1, <2>3, <2>6
   <2>8. ASSUME NEW j \in i .. (i + k) - 1 PROVE z[j] = Byte(j - i, l)
      <3>1. j \in 1 .. m /\ c + j \in a .. (a + k) - 1 /\ (c + j) - a = j - i
         BY <1>1, <2>1, <2>3, <2>7
      <3> QED BY <1>2, <2>6, <3>1
   <2>9. ASSUME i + k <= m PROVE z[i + k].at = 0
      <3>1. i + k \in 1 .. m /\ a + k <= n /\ c + (i + k) = a + k
         BY <1>1, <2>1, <2>3, <2>9
      <3> QED BY <1>2, <2>6, <3>1
   <2>10. z[i].len = l
      BY <2>1 DEF l
   <2>11. /\ i + k <= m + 1
          /\ \A j \in i .. (i + k) - 1 : z[j] = Byte(j - i, l)
          /\ i + k <= m => z[i + k].at = 0
      BY <2>7, <2>8, <2>9
   <2>12. /\ i + HeadSize + z[i].len <= Len(z) + 1
          /\ \A j \in i .. (i + HeadSize + z[i].len) - 1 : z[j] = Byte(j - i, z[i].len)
          /\ i + HeadSize + z[i].len <= Len(z) => z[i + HeadSize + z[i].len].at = 0
      BY <2>4, <2>10, <2>11, Zenon DEF m
   <2> QED BY <2>12, Zenon DEF Whole
<1> QED BY <1>4, <1>5 DEF Stream, m

(* A stream begins with a packet, and after it goes on as one. *)
LEMMA StreamFirst ==
    ASSUME NEW s \in Seq(Bytes), Stream(s), s # <<>>
    PROVE  LET len == s[1].len
           IN  /\ len \in Nat /\ HeadSize + len <= Len(s)
               /\ \A i \in 0 .. (HeadSize + len) - 1 : s[i + 1] = Byte(i, len)
               /\ HeadSize + len + 1 <= Len(s) => s[HeadSize + len + 1].at = 0
<1> DEFINE n == Len(s)
           l == s[1].len
           k == HeadSize + l
<1>1. n \in Nat \ {0} /\ HeadSize \in Nat \ {0}
   BY EmptySeq, SizesAssumption
<1>2. l \in Nat /\ Whole(s, 1)
   BY <1>1, ElementOfSeq, ByteFields DEF Stream
<1>3. /\ 1 + HeadSize + l <= n + 1
      /\ \A j \in 1 .. (1 + HeadSize + l) - 1 : s[j] = Byte(j - 1, l)
      /\ 1 + HeadSize + l <= n => s[1 + HeadSize + l].at = 0
   BY <1>2, Zenon DEF Whole
<1> HIDE DEF n, l
<1>4. 1 + HeadSize + l = k + 1 /\ (1 + HeadSize + l) - 1 = k /\ k \in Nat
   BY <1>1, <1>2
<1> HIDE DEF k
<1>5. /\ k + 1 <= n + 1
      /\ \A j \in 1 .. k : s[j] = Byte(j - 1, l)
      /\ k + 1 <= n => s[k + 1].at = 0
   BY <1>3, <1>4, Zenon
<1>6. ASSUME NEW i \in 0 .. k - 1 PROVE s[i + 1] = Byte(i, l)
   <2>1. i + 1 \in 1 .. k /\ (i + 1) - 1 = i
      BY <1>4
   <2> QED BY <1>5, <2>1
<1>7. k <= n
   BY <1>1, <1>4, <1>5
<1> QED BY <1>2, <1>5, <1>6, <1>7, Zenon DEF n, l, k

(* A byte of the ring that code reads straight on from tail is a byte of    *)
(* Contents, unless that leads behind the end of data_buff.                 *)
LEMMA PeekedHeld ==
    ASSUME Inv, NEW size \in Nat, InArray(size), size <= readAvailable
    PROVE  \A i \in 0 .. size - 1 : Peeked(i) = Contents[i + 1]
<1> SUFFICES ASSUME NEW i \in 0 .. size - 1 PROVE Peeked(i) = Contents[i + 1]
   OBVIOUS
<1>1. /\ Contents = Held(data_buff, tail, readAvailable)
      /\ data_buff \in [Slots -> Bytes] /\ tail \in Nat
      /\ readAvailable \in Nat /\ readAvailable < BufferSize
      /\ BufferSize \in Nat
   BY ContentsHeld, RingAssumption
<1>2. i + 1 \in 1 .. readAvailable /\ tail + (i + 1) - 1 = tail + i /\ i \in 0 .. BufferSize - 1
   BY <1>1
<1>3. Contents[i + 1] = data_buff[Masked(tail + (i + 1) - 1)]
   BY <1>1, <1>2, HeldSeq
<1>4. Masked(tail) \in Nat
   BY <1>1, MaskedInSlots DEF Slots
<1>5. Masked(tail) + i < BufferSize
   BY <1>1, <1>4 DEF InArray
<1>6. Masked(tail + i) = Masked(tail) + i
   BY <1>1, <1>2, <1>5, MaskedAdd
<1> QED BY <1>2, <1>3, <1>6 DEF Peeked

(* Cutting a packet off a stream. *)
LEMMA StreamCut ==
    ASSUME Inv, StreamInv, packet_complete, clean'
    PROVE  whole' /\ Stream(Contents' \o wire')
<1>1. PICK len \in packet_body_sizes :
         /\ len \in 0 .. MaxBody
         /\ len + HeadSize <= Len(Contents)
         /\ Contents' = SubSeq(Contents, len + HeadSize + 1, Len(Contents))
         /\ whole' = (whole /\ IsPacket(len))
         /\ clean' = (clean /\ InArray(HeadSize + len))
         /\ UNCHANGED wire
   BY CutStep
<1> DEFINE s == Contents \o wire
           l == s[1].len
           c == HeadSize + l
           n == Len(Contents)
<1>2. /\ HeadSize \in Nat \ {0} /\ LengthAt \in 0 .. HeadSize - 1 /\ MaxBody \in Nat
      /\ len \in Nat /\ HeadSize + len \in Nat
   BY <1>1, SizesAssumption
<1>3. Contents \in Seq(Bytes) /\ wire \in Seq(Bytes) /\ n \in Nat /\ readAvailable = n
      /\ Len(wire) \in Nat
   BY ContentsSeq, ContentsHeld, LenProperties
<1>4. whole /\ Stream(s) /\ InArray(HeadSize + len)
   BY <1>1 DEF StreamInv
<1>5. /\ s \in Seq(Bytes) /\ Len(s) = n + Len(wire)
      /\ \A i \in 1 .. n + Len(wire) : s[i] = IF i <= n THEN Contents[i] ELSE wire[i - n]
   BY <1>3, ConcatProperties, Zenon
<1> HIDE DEF s, n
<1>6. s # <<>>
   <2>1. Len(s) > 0
      BY <1>1, <1>2, <1>3, <1>5 DEF n
   <2> QED BY <2>1
<1>7. /\ l \in Nat /\ c <= Len(s)
      /\ \A i \in 0 .. c - 1 : s[i + 1] = Byte(i, l)
      /\ c + 1 <= Len(s) => s[c + 1].at = 0
   BY <1>4, <1>5, <1>6, StreamFirst, Zenon
<1> HIDE DEF l
<1>8. \A i \in 0 .. (HeadSize + len) - 1 : Peeked(i) = Contents[i + 1]
   <2> DEFINE size == HeadSize + len
   <2>1. size \in Nat /\ InArray(size) /\ size <= readAvailable
      BY <1>1, <1>2, <1>3, <1>4 DEF n
   <2> HIDE DEF size
   <2>2. \A i \in 0 .. size - 1 : Peeked(i) = Contents[i + 1]
      BY <2>1, PeekedHeld
   <2> QED BY <2>2 DEF size
<1>9. \A i \in 0 .. (HeadSize + len) - 1 : Contents[i + 1] = s[i + 1]
   BY <1>1, <1>2, <1>3, <1>5 DEF n
<1>10. len = l
   <2>1. LengthAt \in 0 .. (HeadSize + len) - 1 /\ LengthAt \in 0 .. c - 1
      BY <1>2, <1>7
   <2>2. Peeked(LengthAt) = Byte(LengthAt, l)
      BY <1>7, <1>8, <1>9, <2>1
   <2>3. InArray(LengthAt + 1)
      <3>1. tail \in Nat /\ BufferSize \in Nat
         BY ContentsHeld, RingAssumption
      <3>2. Masked(tail) \in Nat
         BY <3>1, MaskedInSlots DEF Slots
      <3> QED BY <1>2, <1>4, <3>1, <3>2 DEF InArray
   <2>4. packet_body_sizes = {l}
      BY <2>2, <2>3 DEF packet_body_sizes, Byte
   <2> QED BY <2>4
<1>11. IsPacket(len)
   <2>1. \A i \in 0 .. (HeadSize + len) - 1 : Peeked(i) = Byte(i, len)
      BY <1>7, <1>8, <1>9, <1>10
   <2>2. (HeadSize + len) - 1 = HeadSize + len - 1
      BY <1>2
   <2> QED BY <1>4, <2>1, <2>2 DEF IsPacket
<1>12. whole'
   BY <1>1, <1>4, <1>11
<1> DEFINE q == Contents'
           z == q \o wire
<1>13. /\ c \in Nat /\ c <= n /\ q = SubSeq(Contents, c + 1, n)
   <2>1. c = len + HeadSize
      BY <1>2, <1>10
   <2>2. c \in Nat /\ c <= n
      BY <1>1, <1>2, <2>1 DEF n
   <2>3. q = SubSeq(Contents, len + HeadSize + 1, n)
      BY <1>1, Zenon DEF n
   <2> HIDE DEF c, q
   <2> QED BY <2>1, <2>2, <2>3, Zenon
<1> HIDE DEF c, q
<1>14. /\ q \in Seq(Bytes) /\ Len(q) = n - c
       /\ \A i \in 1 .. n - c : q[i] = Contents[c + i]
   <2>1. \A i \in c + 1 .. n : Contents[i] \in Bytes
      BY <1>3, <1>13, ElementOfSeq DEF n
   <2>2. /\ q \in Seq(Bytes) /\ Len(q) = IF c + 1 <= n THEN n - (c + 1) + 1 ELSE 0
         /\ \A i \in 1 .. n - (c + 1) + 1 : q[i] = Contents[(c + 1) + i - 1]
      BY <1>3, <1>13, <2>1, SubSeqProperties
   <2>3. n - (c + 1) + 1 = n - c /\ \A i \in 1 .. n - c : (c + 1) + i - 1 = c + i
      BY <1>3, <1>13
   <2>4. Len(q) = n - c
      BY <1>3, <1>13, <2>2
   <2>5. ASSUME NEW i \in 1 .. n - c PROVE q[i] = Contents[c + i]
      <3>1. i \in 1 .. n - (c + 1) + 1 /\ (c + 1) + i - 1 = c + i
         BY <2>3
      <3> QED BY <2>2, <3>1
   <2> QED BY <2>2, <2>4, <2>5
<1>15. /\ z \in Seq(Bytes) /\ Len(z) = Len(s) - c
       /\ \A i \in 1 .. Len(z) : z[i] = s[c + i]
   <2>1. /\ z \in Seq(Bytes) /\ Len(z) = Len(q) + Len(wire)
         /\ \A i \in 1 .. Len(q) + Len(wire) : z[i] = IF i <= Len(q) THEN q[i] ELSE wire[i - Len(q)]
      BY <1>3, <1>14, ConcatProperties, Zenon
   <2> HIDE DEF z
   <2>2. Len(z) = Len(s) - c
      BY <1>3, <1>5, <1>13, <1>14, <2>1
   <2>3. ASSUME NEW i \in 1 .. Len(z) PROVE z[i] = s[c + i]
      <3>1. c + i \in 1 .. n + Len(wire) /\ i \in 1 .. Len(q) + Len(wire)
         BY <1>3, <1>5, <1>13, <1>14, <2>1, <2>2
      <3>2. CASE i <= n - c
         <4>1. i \in 1 .. n - c /\ c + i <= n /\ i <= Len(q)
            BY <1>3, <1>13, <1>14, <3>1, <3>2
         <4> QED BY <1>5, <1>14, <2>1, <3>1, <4>1
      <3>3. CASE ~(i <= n - c)
         <4>1. ~(c + i <= n) /\ ~(i <= Len(q)) /\ i - Len(q) = (c + i) - n
            BY <1>3, <1>13, <1>14, <3>1, <3>3
         <4> QED BY <1>5, <2>1, <3>1, <4>1
      <3> QED BY <3>2, <3>3
   <2> QED BY <2>1, <2>2, <2>3
<1>16. Stream(z)
   <2> HIDE DEF z
   <2>1. c \in Nat /\ c <= Len(s) /\ (c + 1 <= Len(s) => s[c + 1].at = 0)
      BY <1>7, <1>13 DEF c
   <2> QED BY <1>4, <1>5, <1>15, <2>1, StreamSuffix
<1> QED BY <1>1, <1>12, <1>16 DEF q

(* The stream stays one as long as the history is clean. *)
LEMMA StreamNext ==
    ASSUME Inv, StreamInv, [Next]_vars
    PROVE  StreamInv'
<1>0. Contents \in Seq(Bytes) /\ wire \in Seq(Bytes)
   BY ContentsSeq, ContentsHeld
<1> SUFFICES ASSUME clean' PROVE whole' /\ Stream(Contents' \o wire')
   BY DEF StreamInv
<1>1. CASE PeerSends
   <2>1. PICK len \in Lengths : wire' = wire \o format_send_buffer(len)
      BY <1>1 DEF PeerSends
   <2>2. Contents' = Contents /\ whole' = whole /\ clean
      BY <1>1, SameStep DEF PeerSends
   <2>3. whole /\ Stream(Contents \o wire)
      BY <2>2 DEF StreamInv
   <2>4. len \in Nat
      BY SizesAssumption
   <2>5. format_send_buffer(len) \in Seq(Bytes)
      BY <2>4, SentBytes
   <2>6. CASE format_send_buffer(len) = <<>>
      <3>1. wire' = wire
         BY <1>0, <2>1, <2>6, ConcatEmptySeq
      <3> QED BY <2>2, <2>3, <3>1
   <2>7. CASE format_send_buffer(len) # <<>>
      <3>1. format_send_buffer(len) = Packet(len)
         BY <2>7 DEF format_send_buffer
      <3> DEFINE p == Packet(len)
                 s == Contents \o wire
      <3>2. p \in Seq(Bytes) /\ wire' = wire \o p /\ s \in Seq(Bytes) /\ Stream(s)
         BY <1>0, <2>1, <2>3, <2>5, <3>1, ConcatProperties
      <3>3. Stream(s \o p)
         <4> HIDE DEF s
         <4> QED BY <2>4, <3>2, StreamAppend
      <3>4. s \o p = Contents \o (wire \o p)
         <4> HIDE DEF p
         <4> QED BY <1>0, <3>2, ConcatAssociative
      <3> QED BY <2>2, <2>3, <3>2, <3>3, <3>4
   <2> QED BY <2>6, <2>7
<1>2. CASE Relink
   <2>1. clean /\ curr_buffer_size_ = 0 /\ wire' = <<>> /\ whole' = whole /\ Contents' = Contents
      BY <1>2, SameStep DEF Relink
   <2>2. Len(Contents) = 0
      BY <2>1, ContentsSeq DEF Inv, SizeMatches
   <2>3. Contents = <<>>
      BY <1>0, <2>2, EmptySeq
   <2>4. Contents' \o wire' = <<>>
      BY <1>0, <2>1, <2>3, ConcatEmptySeq
   <2>5. Stream(<<>>)
      BY DEF Stream
   <2> QED BY <2>1, <2>4, <2>5 DEF StreamInv
<1>3. CASE format_recv_buffer
   BY <1>3, RecvStep DEF StreamInv
<1>4. CASE head_incomplete \/ packet_incomplete
   <2>1. clean /\ whole' = whole /\ wire' = wire /\ Contents' = Contents
      BY <1>4, SameStep DEF head_incomplete, packet_incomplete
   <2> QED BY <2>1 DEF StreamInv
<1>5. CASE packet_too_long
   BY <1>5 DEF packet_too_long
<1>6. CASE packet_complete
   BY <1>6, StreamCut
<1>7. CASE UNCHANGED vars
   BY <1>7, SameStep DEF vars, StreamInv
<1> QED BY <1>1, <1>2, <1>3, <1>4, <1>5, <1>6, <1>7 DEF Next, Parse

(* Every packet given out is one that was sent, until a packet lies across  *)
(* the end of data_buff, a length is garbage or a new link joins half a     *)
(* packet: for all sizes, and however the reads divide the stream.          *)
THEOREM CutCorrect == Spec => []CleanCut
<1>1. Init => StreamInv
   <2> SUFFICES ASSUME Init PROVE StreamInv
      OBVIOUS
   <2>1. readAvailable = 0 /\ wire = <<>> /\ whole
      BY RingAssumption DEF Init, readAvailable, Wrap
   <2>2. Contents = <<>>
      BY <2>1 DEF Contents
   <2>3. Contents \o wire = <<>>
      BY <2>1, <2>2, EmptySeq, ConcatEmptySeq
   <2>4. Stream(<<>>)
      BY DEF Stream
   <2> QED BY <2>1, <2>3, <2>4 DEF StreamInv
<1>2. Inv /\ StreamInv /\ [Next]_vars => StreamInv'
   BY StreamNext
<1>3. StreamInv => CleanCut
   BY DEF StreamInv, CleanCut
<1> QED BY <1>1, <1>2, <1>3, Invariance, PTL DEF Spec
=============================================================================
