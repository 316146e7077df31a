-------------------------- MODULE AudioLinkProofs --------------------------
(***************************************************************************)
(* Proofs about the packets and about one direction of the audio link.     *)
(* What is built into a packet is what is parsed out of it, for every      *)
(* limit, content and length; and what the two ends of the link do with    *)
(* packets that are lost, repeated, late and resent, for every size of the *)
(* history, of the ring and of the sequence numbers.                       *)
(***************************************************************************)
EXTENDS AudioLink, JitterProofs, SequenceTheorems

Memories == [1 .. PAYLOAD_MAX -> Nat]

Part(payload, size) == SubSeq(payload, 1, size)

LEMMA LimitTypes == /\ NACK_MAX_SEQS \in Nat /\ AUDIO_BUF_SIZE \in Nat
                    /\ PAYLOAD_MAX \in Nat
                    /\ PAYLOAD_MAX = NACK_MAX_SEQS + AUDIO_BUF_SIZE + 3
BY PktAssumption DEF PAYLOAD_MAX

LEMMA Concat ==
  ASSUME NEW head \in Seq(Nat), NEW tail \in Seq(Nat)
  PROVE  /\ head \o tail \in Seq(Nat)
         /\ Len(head \o tail) = Len(head) + Len(tail)
         /\ \A k \in 1 .. Len(head) : (head \o tail)[k] = head[k]
         /\ \A k \in 1 .. Len(tail) : (head \o tail)[Len(head) + k] = tail[k]
<1>1. /\ head \o tail \in Seq(Nat)
      /\ Len(head \o tail) = Len(head) + Len(tail)
      /\ \A i \in 1 .. Len(head) + Len(tail) :
           (head \o tail)[i] = IF i <= Len(head) THEN head[i]
                                                 ELSE tail[i - Len(head)]
  BY ConcatProperties
<1>2. Len(head) \in Nat /\ Len(tail) \in Nat  BY LenProperties
<1>3. ASSUME NEW k \in 1 .. Len(tail)
      PROVE  (head \o tail)[Len(head) + k] = tail[k]
  <2>1. /\ Len(head) + k \in 1 .. Len(head) + Len(tail)
        /\ ~(Len(head) + k <= Len(head))
        /\ (Len(head) + k) - Len(head) = k
    BY <1>2
  <2> QED BY <1>1, <2>1
<1>4. ASSUME NEW k \in 1 .. Len(head)
      PROVE  (head \o tail)[k] = head[k]
  <2>1. k \in 1 .. Len(head) + Len(tail) /\ k <= Len(head)  BY <1>2
  <2> QED BY <1>1, <2>1
<1> QED BY <1>1, <1>3, <1>4

(* A write that fits puts its fields at its place and leaves those before. *)
LEMMA WriteAt ==
  ASSUME NEW payload \in Memories, NEW place \in Nat, NEW fields \in Seq(Nat),
         place + Len(fields) <= PAYLOAD_MAX
  PROVE  LET written == Write(payload, place, fields)
         IN  /\ written \in Memories
             /\ \A k \in 1 .. Len(fields) : written[place + k] = fields[k]
             /\ \A k \in 1 .. place : written[k] = payload[k]
<1> DEFINE written == Write(payload, place, fields)
<1>1. Len(fields) \in Nat /\ PAYLOAD_MAX \in Nat  BY LenProperties, LimitTypes
<1>2. \A k \in 1 .. Len(fields) : fields[k] \in Nat  BY ElementOfSeq
<1>3. written = [k \in 1 .. PAYLOAD_MAX |->
                   IF k - place \in 1 .. Len(fields)
                   THEN fields[k - place] ELSE payload[k]]
  BY DEF Write, Memories
<1>4. written \in Memories  BY <1>2, <1>3 DEF Memories
<1>5. ASSUME NEW k \in 1 .. Len(fields)
      PROVE  written[place + k] = fields[k]
  <2>1. place + k \in 1 .. PAYLOAD_MAX /\ (place + k) - place = k  BY <1>1
  <2> QED BY <1>3, <2>1
<1>6. ASSUME NEW k \in 1 .. place
      PROVE  written[k] = payload[k]
  <2>1. k \in 1 .. PAYLOAD_MAX /\ ~(k - place \in 1 .. Len(fields))  BY <1>1
  <2> QED BY <1>3, <2>1
<1> QED BY <1>4, <1>5, <1>6

LEMMA CappedFits ==
  ASSUME NEW seqs \in Seq(Nat)
  PROVE  /\ Capped(seqs) \in Seq(Nat)
         /\ Len(Capped(seqs)) \in 0 .. NACK_MAX_SEQS
<1>1. Len(seqs) \in Nat /\ NACK_MAX_SEQS \in Nat  BY LenProperties, LimitTypes
<1>2. CASE Len(seqs) > NACK_MAX_SEQS
  <2>1. 1 .. NACK_MAX_SEQS \subseteq 1 .. Len(seqs)  BY <1>1, <1>2
  <2>2. \A k \in 1 .. NACK_MAX_SEQS : seqs[k] \in Nat
    BY <2>1, ElementOfSeq
  <2>3. SubSeq(seqs, 1, NACK_MAX_SEQS) \in Seq(Nat)
    BY <1>1, <2>2, SubSeqProperties
  <2>4. Len(SubSeq(seqs, 1, NACK_MAX_SEQS)) = NACK_MAX_SEQS
    BY <1>1, <1>2, SubSeqProperties
  <2> QED BY <1>1, <1>2, <2>3, <2>4 DEF Capped
<1>3. CASE ~(Len(seqs) > NACK_MAX_SEQS)
  BY <1>1, <1>3 DEF Capped
<1> QED BY <1>2, <1>3

(* The request block: its count and its numbers, in a packet of the types. *)
LEMMA NackBlock ==
  ASSUME NEW pkt \in Pkts(Nat), NEW seqs \in Seq(Nat),
         NEW asking, asking = pkt_add_nack(pkt_init(pkt), seqs),
         NEW count, count = Len(Capped(seqs))
  PROVE  /\ asking.payload \in Memories
         /\ asking.payload[1] = count
         /\ \A k \in 1 .. count : asking.payload[1 + k] = Capped(seqs)[k]
         /\ nack_block_size(asking) = 1 + count
         /\ asking = [nack |-> TRUE, audio |-> FALSE,
                      payload |-> asking.payload]
<1> DEFINE fields == <<count>> \o Capped(seqs)
           written == Write(pkt.payload, 0, fields)
<1>1. /\ count \in 0 .. NACK_MAX_SEQS /\ Capped(seqs) \in Seq(Nat)
      /\ NACK_MAX_SEQS \in Nat /\ count \in Nat
  BY CappedFits, LimitTypes
<1>2. <<count>> \in Seq(Nat) /\ Len(<<count>>) = 1 /\ <<count>>[1] = count
  BY <1>1
<1>3. /\ fields \in Seq(Nat) /\ Len(fields) = 1 + count /\ fields[1] = count
      /\ \A k \in 1 .. count : fields[1 + k] = Capped(seqs)[k]
  BY <1>1, <1>2, Concat
<1>4. pkt.payload \in Memories  BY DEF Pkts, Memories
<1>5. 0 + Len(fields) <= PAYLOAD_MAX  BY <1>1, <1>3, LimitTypes
<1>6. asking = [nack |-> TRUE, audio |-> FALSE, payload |-> written]
  BY DEF pkt_add_nack, pkt_init, Pkts
<1> HIDE DEF fields
<1>7. /\ written \in Memories
      /\ \A k \in 1 .. Len(fields) : written[k] = fields[k]
  <2>1. PICK place \in Nat : place = 0  OBVIOUS
  <2>2. written = Write(pkt.payload, place, fields)  BY <2>1
  <2>3. place + Len(fields) <= PAYLOAD_MAX  BY <1>5, <2>1
  <2> HIDE DEF written
  <2>4. /\ written \in Memories
        /\ \A k \in 1 .. Len(fields) : written[place + k] = fields[k]
    BY <1>3, <1>4, <2>2, <2>3, WriteAt
  <2>5. \A k \in 1 .. Len(fields) : place + k = k  BY <1>1, <1>3, <2>1
  <2> QED BY <2>4, <2>5
<1> HIDE DEF written
<1>8. written[1] = count
  <2>1. 1 \in 1 .. Len(fields)  BY <1>1, <1>3
  <2> QED BY <1>3, <1>7, <2>1
<1>9. ASSUME NEW k \in 1 .. count
      PROVE  written[1 + k] = Capped(seqs)[k]
  <2>1. 1 + k \in 1 .. Len(fields)  BY <1>1, <1>3
  <2> QED BY <1>3, <1>7, <2>1
<1>10. /\ asking.payload = written /\ asking.nack
  BY <1>6
<1> QED BY <1>6, <1>7, <1>8, <1>9, <1>10 DEF nack_block_size

(* Reading back count fields that are there.                               *)
LEMMA ReadBack ==
  ASSUME NEW payload, NEW place \in Nat, NEW list \in Seq(Nat),
         \A k \in 1 .. Len(list) : payload[place + k] = list[k]
  PROVE  Read(payload, place, Len(list)) = list
<1>1. list = [k \in 1 .. Len(list) |-> list[k]]  BY LenProperties
<1>2. Read(payload, place, Len(list)) = [k \in 1 .. Len(list) |-> list[k]]
  BY DEF Read
<1> QED BY <1>1, <1>2

(* The fields that are sent are the fields that are received.              *)
LEMMA WireFields ==
  ASSUME NEW payload \in Memories, NEW size \in 0 .. PAYLOAD_MAX
  PROVE  \A k \in 1 .. size : Part(payload, size)[k] = payload[k]
<1>1. PAYLOAD_MAX \in Nat  BY LimitTypes
<1>2. payload \in Seq(Nat) /\ Len(payload) = PAYLOAD_MAX  BY <1>1 DEF Memories
<1>3. size \in Nat /\ size <= Len(payload)  BY <1>1, <1>2
<1>4. SubSeq(payload, 1, size) = [k \in 1 .. size |-> payload[k]]
  BY <1>2, <1>3, <1>1
<1> QED BY <1>4 DEF Part

LEMMA OnTheWire ==
  ASSUME NEW pkt, NEW audio, NEW payload, NEW size, NEW wire,
         pkt = [nack |-> TRUE, audio |-> audio, payload |-> payload],
         pkt_get_size(pkt) = size, wire = pkt_send(pkt)
  PROVE  wire = [nack |-> TRUE, audio |-> audio, payload |-> Part(payload, size)]
<1>1. wire = [pkt EXCEPT !.payload = Part(@, size)]
  BY DEF pkt_send, Part
<1> QED BY <1>1

(* The parser finds what the builder was given, whatever the memory held   *)
(* before and however much of the limits is used.                          *)
THEOREM PacketsParse ==
  ASSUME NEW pkt \in Pkts(Nat), NEW seqs \in Seq(Nat), NEW seqnum \in Nat,
         NEW data \in Seq(Nat)
  PROVE  Parsed(pkt, seqs, seqnum, data)
<1> DEFINE asking == pkt_add_nack(pkt_init(pkt), seqs)
           count == Len(Capped(seqs))
           built == pkt_add_audio(asking, seqnum, data)
           wire == pkt_send(built)
           before == asking.payload
           after == built.payload
           fields == wire.payload
<1>0. /\ asking = pkt_add_nack(pkt_init(pkt), seqs)
      /\ count = Len(Capped(seqs))
  OBVIOUS
<1>3. built = pkt_add_audio(asking, seqnum, data) /\ wire = pkt_send(built)
  OBVIOUS
<1> HIDE DEF asking, count, built, wire, before, after, fields
<1>1. /\ before \in Memories /\ before[1] = count
      /\ \A k \in 1 .. count : before[1 + k] = Capped(seqs)[k]
      /\ nack_block_size(asking) = 1 + count
      /\ asking = [nack |-> TRUE, audio |-> FALSE, payload |-> before]
  BY <1>0, NackBlock DEF before
<1>2. /\ count \in 0 .. NACK_MAX_SEQS /\ count \in Nat /\ Len(data) \in Nat
      /\ Capped(seqs) \in Seq(Nat)
      /\ NACK_MAX_SEQS \in Nat /\ AUDIO_BUF_SIZE \in Nat /\ PAYLOAD_MAX \in Nat
      /\ PAYLOAD_MAX = NACK_MAX_SEQS + AUDIO_BUF_SIZE + 3
  BY <1>0, CappedFits, LenProperties, LimitTypes
(* The request block on the wire, whatever follows it.                     *)
<1>4. ASSUME NEW size \in 0 .. PAYLOAD_MAX, 1 + count <= size,
             after \in Memories,
             \A k \in 1 .. 1 + count : after[k] = before[k],
             wire.nack, fields = Part(after, size)
      PROVE  /\ nack_block_size(wire) = 1 + count
             /\ pkt_get_nacks(wire) = Capped(seqs)
  <2>1. \A k \in 1 .. size : fields[k] = after[k]  BY <1>4, WireFields
  <2>2. fields[1] = count
    <3>1. 1 \in 1 .. size /\ 1 \in 1 .. 1 + count  BY <1>2, <1>4
    <3> QED BY <1>1, <1>4, <2>1, <3>1
  <2>3. ASSUME NEW k \in 1 .. Len(Capped(seqs))
        PROVE  fields[1 + k] = Capped(seqs)[k]
    <3>1. k \in 1 .. count  BY DEF count
    <3>2. 1 + k \in 1 .. 1 + count /\ 1 + k \in 1 .. size
      BY <1>2, <1>4, <3>1
    <3> QED BY <1>1, <1>4, <2>1, <3>1, <3>2
  <2>4. Read(fields, 1, Len(Capped(seqs))) = Capped(seqs)
    <3> DEFINE list == Capped(seqs)
    <3>1. list \in Seq(Nat) /\ 1 \in Nat                   BY <1>2
    <3>2. \A k \in 1 .. Len(list) : fields[1 + k] = list[k]  BY <2>3
    <3> HIDE DEF list
    <3>3. Read(fields, 1, Len(list)) = list
      BY <3>1, <3>2, ReadBack, Zenon
    <3> QED BY <3>3 DEF list
  <2>5. pkt_get_nacks(wire) = Capped(seqs)
    BY <1>4, <2>2, <2>4 DEF pkt_get_nacks, fields, count
  <2> QED BY <1>4, <2>2, <2>5 DEF nack_block_size, fields
<1>5. CASE Len(data) > AUDIO_BUF_SIZE
  <2>1. built = asking /\ after = before
    BY <1>3, <1>5 DEF pkt_add_audio, after, before
  <2>2. asking.nack /\ ~asking.audio  BY <1>1
  <2>3. pkt_get_size(built) = 1 + count
    BY <1>1, <1>2, <2>1, <2>2 DEF pkt_get_size
  <2>4. /\ wire.nack /\ ~wire.audio
        /\ fields = Part(after, 1 + count)
    <3>1. built = [nack |-> TRUE, audio |-> FALSE, payload |-> after]
      BY <1>1, <2>1
    <3>2. wire = [nack |-> TRUE, audio |-> FALSE,
                  payload |-> Part(after, 1 + count)]
      BY <1>3, <2>3, <3>1, OnTheWire
    <3> QED BY <3>2 DEF fields
  <2>5. 1 + count \in 0 .. PAYLOAD_MAX  BY <1>2
  <2>6. pkt_get_nacks(wire) = Capped(seqs)
    BY <1>1, <1>2, <1>4, <2>1, <2>4, <2>5
  <2>7. ~(Len(data) <= AUDIO_BUF_SIZE)  BY <1>2, <1>5
  <2> QED BY <2>4, <2>6, <2>7 DEF Parsed, wire, built, asking
<1>6. CASE ~(Len(data) > AUDIO_BUF_SIZE)
  <2> DEFINE head == <<seqnum, Len(data)>>
             block == head \o data
             place == 1 + count
             size == place + (2 + Len(data))
  <2>1. /\ head \in Seq(Nat) /\ Len(head) = 2
        /\ head[1] = seqnum /\ head[2] = Len(data)
    BY <1>2
  <2>2. /\ block \in Seq(Nat) /\ Len(block) = 2 + Len(data)
        /\ block[1] = seqnum /\ block[2] = Len(data)
        /\ \A k \in 1 .. Len(data) : block[2 + k] = data[k]
    <3> HIDE DEF head
    <3>1. /\ block \in Seq(Nat)
          /\ Len(block) = Len(head) + Len(data)
          /\ \A k \in 1 .. Len(head) : block[k] = head[k]
          /\ \A k \in 1 .. Len(data) : block[Len(head) + k] = data[k]
      BY <2>1, Concat
    <3> HIDE DEF block
    <3> QED BY <2>1, <3>1
  <2>3. built = [nack |-> TRUE, audio |-> TRUE,
                 payload |-> Write(before, place, block)]
    BY <1>1, <1>3, <1>6 DEF pkt_add_audio
  <2>4. /\ place \in Nat /\ place + Len(block) <= PAYLOAD_MAX
        /\ size \in 0 .. PAYLOAD_MAX /\ 1 + count <= size /\ size \in Nat
    <3> HIDE DEF block
    <3> QED BY <1>2, <1>6, <2>2
  <2> HIDE DEF head, block, place
  <2>5. /\ after \in Memories
        /\ \A k \in 1 .. Len(block) : after[place + k] = block[k]
        /\ \A k \in 1 .. place : after[k] = before[k]
    <3>1. after = Write(before, place, block)  BY <2>3 DEF after
    <3> QED BY <1>1, <2>2, <2>4, <3>1, WriteAt
  <2>6. after[place + 1] = seqnum /\ after[place + 2] = Len(data)
    BY <1>2, <2>2, <2>5
  <2>7. after[1] = count
    <3>1. 1 \in 1 .. place  BY <1>2 DEF place
    <3> QED BY <1>1, <2>5, <3>1
  <2>8. nack_block_size(built) = place
    BY <2>3, <2>7 DEF nack_block_size, after, place
  <2>9. pkt_get_size(built) = size
    <3>1. built.audio  BY <2>3
    <3> QED BY <1>2, <2>6, <2>8, <3>1 DEF pkt_get_size, after
  <2>10. wire.nack /\ wire.audio /\ fields = Part(after, size)
    <3>1. built = [nack |-> TRUE, audio |-> TRUE, payload |-> after]
      BY <2>3 DEF after
    <3>2. wire = [nack |-> TRUE, audio |-> TRUE, payload |-> Part(after, size)]
      BY <1>3, <2>9, <3>1, OnTheWire
    <3> QED BY <3>2 DEF fields
  <2>11. nack_block_size(wire) = place /\ pkt_get_nacks(wire) = Capped(seqs)
    BY <1>4, <2>4, <2>5, <2>10 DEF place
  <2> HIDE DEF size
  <2>12. \A k \in 1 .. size : fields[k] = after[k]
    BY <2>4, <2>5, <2>10, WireFields
  <2>13. fields[place + 1] = seqnum /\ fields[place + 2] = Len(data)
    <3>1. place + 1 \in 1 .. size /\ place + 2 \in 1 .. size
      BY <1>2, <2>4 DEF size
    <3> QED BY <2>6, <2>12, <3>1
  <2>14. ASSUME NEW k \in 1 .. Len(data)
         PROVE  fields[(place + 2) + k] = data[k]
    <3>1. /\ (place + 2) + k \in 1 .. size
          /\ (place + 2) + k = place + (2 + k)
          /\ 2 + k \in 1 .. 2 + Len(data)
      BY <1>2, <2>4 DEF size
    <3>2. after[place + (2 + k)] = block[2 + k]
      BY <2>2, <2>5, <3>1
    <3> QED BY <2>2, <2>12, <3>1, <3>2
  <2>15. Read(fields, place + 2, Len(data)) = data
    <3>1. place + 2 \in Nat  BY <2>4
    <3> QED BY <2>14, <3>1, ReadBack, Zenon
  <2>16. pkt_get_audio(wire) = [seqnum |-> seqnum, data |-> data]
    BY <2>10, <2>11, <2>13, <2>15 DEF pkt_get_audio, fields
  <2>17. Len(data) <= AUDIO_BUF_SIZE  BY <1>2, <1>6
  <2> QED BY <2>10, <2>11, <2>16, <2>17 DEF Parsed, wire, built, asking
<1> QED BY <1>5, <1>6

-----------------------------------------------------------------------------
(* The two packets of the link.                                            *)

LEMMA LinkTypes ==
  /\ SeqNums \subseteq Nat /\ Payloads = SeqNums
  /\ HistSize \in Nat \ {0} /\ FirstSeq \in SeqNums
  /\ MaxFrames \in Nat /\ MaxFrames < HalfSeq /\ HalfSeq \in Nat
  /\ MaxNack = NACK_MAX_SEQS /\ AUDIO_BUF_SIZE \in Nat \ {0}
BY LinkAssumption, SeqModAssumption, PktAssumption DEF SeqNums

LEMMA StackType ==
  ASSUME NEW flag \in BOOLEAN, NEW field \in Nat
  PROVE  Stack(flag, field) \in Pkts(Nat)
BY DEF Stack, Pkts

LEMMA InitClears ==
  ASSUME NEW pkt \in Pkts(Nat), NEW cleared, cleared = pkt_init(pkt)
  PROVE  cleared = [nack |-> FALSE, audio |-> FALSE, payload |-> pkt.payload]
BY DEF pkt_init, Pkts

(* An audio packet is parsed to the number and the frame it was built of.  *)
LEMMA AudioPktParses ==
  ASSUME NEW seq \in SeqNums, NEW data \in SeqNums
  PROVE  pkt_get_audio(AudioPkt(seq, data)) =
           [seqnum |-> seq, data |-> <<data>>]
<1> DEFINE memory == [k \in 1 .. PAYLOAD_MAX |-> 0]
           empty == pkt_init(Stack(FALSE, 0))
           block == <<seq, 1, data>>
           built == pkt_add_audio(empty, seq, <<data>>)
           after == Write(memory, 0, block)
           wire == AudioPkt(seq, data)
<1>1. /\ seq \in Nat /\ data \in Nat /\ AUDIO_BUF_SIZE \in Nat \ {0}
      /\ PAYLOAD_MAX \in Nat /\ PAYLOAD_MAX >= 3 /\ 3 \in 0 .. PAYLOAD_MAX
  BY LinkTypes, LimitTypes
<1>2. memory \in Memories /\ empty = [nack |-> FALSE, audio |-> FALSE,
                                      payload |-> memory]
  <2>1. memory \in Memories  BY <1>1 DEF Memories
  <2>2. Stack(FALSE, 0).payload = memory  BY DEF Stack
  <2>3. empty = [nack |-> FALSE, audio |-> FALSE,
                 payload |-> Stack(FALSE, 0).payload]
    BY StackType, InitClears
  <2> QED BY <2>1, <2>2, <2>3
<1> HIDE DEF memory, empty
<1>3. block \in Seq(Nat) /\ Len(block) = 3 /\ block = <<seq, 1>> \o <<data>>
  BY <1>1
<1>4. built = [nack |-> FALSE, audio |-> TRUE, payload |-> after]
  <2>1. Len(<<data>>) = 1 /\ ~(1 > AUDIO_BUF_SIZE)  BY <1>1
  <2>2. nack_block_size(empty) = 0  BY <1>2 DEF nack_block_size
  <2>3. built = [empty EXCEPT !.audio = TRUE,
                   !.payload = Write(@, 0, <<seq, 1>> \o <<data>>)]
    BY <2>1, <2>2 DEF pkt_add_audio
  <2> HIDE DEF block
  <2>4. built = [empty EXCEPT !.audio = TRUE, !.payload = Write(@, 0, block)]
    BY <1>3, <2>3
  <2> HIDE DEF built
  <2> QED BY <1>2, <2>4
<1> HIDE DEF block
<1>5. /\ after \in Memories
      /\ after[1] = seq /\ after[2] = 1 /\ after[3] = data
  <2>1. PICK place \in Nat : place = 0  OBVIOUS
  <2>2. place + Len(block) <= PAYLOAD_MAX  BY <1>1, <1>3, <2>1
  <2> DEFINE written == Write(memory, place, block)
  <2> HIDE DEF written
  <2>3. /\ written \in Memories
        /\ \A k \in 1 .. Len(block) : written[place + k] = block[k]
    BY <1>2, <1>3, <2>2, WriteAt DEF written
  <2>4. \A k \in 1 .. 3 : place + k = k  BY <2>1
  <2>5. written[1] = block[1] /\ written[2] = block[2] /\ written[3] = block[3]
    BY <1>3, <2>3, <2>4
  <2> QED BY <2>1, <2>3, <2>5 DEF written, block
<1> HIDE DEF after, built
<1>6. pkt_get_size(built) = 3
  <2>1. nack_block_size(built) = 0  BY <1>4 DEF nack_block_size
  <2> QED BY <1>4, <1>5, <2>1 DEF pkt_get_size
<1>7. wire = [nack |-> FALSE, audio |-> TRUE, payload |-> Part(after, 3)]
  <2>1. wire = [built EXCEPT !.payload = Part(@, 3)]
    BY <1>6 DEF AudioPkt, pkt_send, Part, built, empty
  <2> QED BY <1>4, <2>1
<1> HIDE DEF wire
<1> DEFINE fields == Part(after, 3)
<1>8. fields[1] = seq /\ fields[2] = 1 /\ fields[3] = data
  <2>1. \A k \in 1 .. 3 : fields[k] = after[k]  BY <1>1, <1>5, WireFields
  <2> QED BY <1>5, <2>1
<1> HIDE DEF fields
<1>9. Read(fields, 2, 1) = <<data>>
  <2>1. <<data>> = [k \in 1 .. 1 |-> data]  OBVIOUS
  <2>2. \A k \in 1 .. 1 : fields[2 + k] = data  BY <1>8
  <2> QED BY <2>1, <2>2 DEF Read
<1>10. nack_block_size(wire) = 0 /\ wire.audio /\ wire.payload = fields
  BY <1>7 DEF nack_block_size, fields
<1> QED BY <1>8, <1>9, <1>10 DEF pkt_get_audio, wire

(* A request that fits is parsed to the numbers it was built of.  A packet *)
(* to which more audio is added than fits is a request alone.              *)
LEMMA NackPktParses ==
  ASSUME NEW seqs \in Seq(Nat), Len(seqs) <= NACK_MAX_SEQS
  PROVE  pkt_get_nacks(NackPkt(seqs)) = seqs
<1> DEFINE much == [k \in 1 .. (AUDIO_BUF_SIZE + 1) |-> 0]
           stack == Stack(FALSE, 0)
<1>1. AUDIO_BUF_SIZE \in Nat  BY LimitTypes
<1>2. much \in Seq(Nat) /\ Len(much) > AUDIO_BUF_SIZE  BY <1>1
<1>3. stack \in Pkts(Nat)  BY StackType
<1> HIDE DEF much
<1>4. Parsed(stack, seqs, 0, much)
  <2>1. 0 \in Nat  OBVIOUS
  <2> HIDE DEF stack
  <2> QED BY <1>2, <1>3, <2>1, PacketsParse
<1>5. pkt_add_audio(pkt_add_nack(pkt_init(stack), seqs), 0, much)
        = pkt_add_nack(pkt_init(stack), seqs)
  BY <1>2 DEF pkt_add_audio
<1>6. pkt_get_nacks(NackPkt(seqs)) = Capped(seqs)
  BY <1>4, <1>5 DEF Parsed, NackPkt
<1>7. Capped(seqs) = seqs
  BY LimitTypes DEF Capped
<1> QED BY <1>6, <1>7

-----------------------------------------------------------------------------
(* The invariant.  Fewer frames are sent than half of the numbers, so that *)
(* the frames have an order: their distance from the first.                *)

N(seq) == SeqDiff(seq, FirstSeq)

(* The frame was sent, or its history entry is complete as well.           *)
Sent(seq) ==
  N(seq) \in 0 .. (N(s_tx_seq) - IF tx_pc = "send" THEN 1 ELSE 0)
Done(seq) == N(seq) \in 0 .. (N(s_tx_seq) - 1)

SenderOK ==
  /\ s_tx_seq \in SeqNums
  /\ N(s_tx_seq) \in 0 .. MaxFrames
  /\ tx_pc \in {"send", "label", "copy"}
  /\ tx_pc # "send" => N(s_tx_seq) < MaxFrames

(* An entry that was written stays valid and is labelled with a frame that *)
(* was sent.                                                               *)
HistoryOK ==
  /\ s_history \in [0 .. (HistSize - 1) ->
                      [valid : BOOLEAN, seqnum : SeqNums,
                       data : SeqNums \cup {NoFrame}]]
  /\ \A seq \in SeqNums : Done(seq) =>
       /\ Entry(seq).valid /\ Sent(Entry(seq).seqnum)
       /\ Entry(seq).data \in SeqNums
  /\ tx_pc = "copy" =>
       Entry(s_tx_seq).valid /\ Entry(s_tx_seq).seqnum = s_tx_seq

PacketsOK ==
  /\ \A pkt \in packets : \E seq, data \in SeqNums :
       Sent(seq) /\ pkt = AudioPkt(seq, data)
  /\ \A seq \in SeqNums : Sent(seq) => AudioPkt(seq, seq) \in packets

RequestsOK ==
  \A pkt \in requests :
    LET seqs == pkt_get_nacks(pkt)
    IN  /\ seqs \in Seq(SeqNums) /\ seqs # <<>>
        /\ \A k \in 1 .. Len(seqs) : Done(seqs[k])

ServingOK ==
  /\ serving \in Seq(SeqNums) /\ \A k \in 1 .. Len(serving) : Done(serving[k])
  /\ serve_pc \in {"idle", "check", "label", "data"}
  /\ serve_pc # "idle" => serving # <<>>
  /\ label \in SeqNums
  /\ serve_pc = "data" => Sent(label)

(* What the buffer holds came in a packet, and nothing was asked for that  *)
(* is newer than the newest packet.                                        *)
Carried(seq, data) ==
  \E pkt \in packets : pkt_get_audio(pkt) = [seqnum |-> seq, data |-> <<data>>]

BufferOK ==
  /\ \A i \in SlotIndices :
       slots[i] # NoFrame => Carried(slots[i].seq, slots[i].data)
  /\ anchored => Sent(write_seq)
  /\ \A seq \in asked : /\ anchored /\ seq \in SeqNums
                        /\ N(seq) \in 0 .. N(write_seq)
  /\ out.kind = "OK" =>
       anchored /\ Carried(SeqAdd(read_seq, SeqMod - 1), out.data)

(* Of the latest HistSize - 1 frames the entry is the frame itself, and a  *)
(* label read of one is its own.                                           *)
Young(seq) == N(s_tx_seq) - N(seq) < HistSize

YoungOK ==
  /\ \A seq \in SeqNums : Done(seq) /\ Young(seq) =>
       Entry(seq).seqnum = seq /\ Entry(seq).data = seq
  /\ serve_pc = "data" /\ Young(Head(serving)) => label = Head(serving)

LinkInv == /\ IInv /\ SenderOK /\ HistoryOK /\ PacketsOK /\ RequestsOK
           /\ ServingOK /\ BufferOK

-----------------------------------------------------------------------------
(* The order of the frames.                                                *)

LEMMA NType ==
  ASSUME NEW seq \in SeqNums
  PROVE  N(seq) \in Int
BY LinkTypes, SeqDiffRange DEF N

LEMMA FirstIsZero == N(FirstSeq) = 0
BY LinkTypes, SeqDiffSelf DEF N

LEMMA DiffIs ==
  ASSUME NEW a \in SeqNums, NEW b \in SeqNums,
         N(a) \in 0 .. MaxFrames, N(b) \in 0 .. MaxFrames
  PROVE  SeqDiff(a, b) = N(a) - N(b)
<1>1. -HalfSeq <= N(a) - N(b) /\ N(a) - N(b) < HalfSeq
  BY LinkTypes, NType
<1> QED BY <1>1, LinkTypes, SeqDiffBetween DEF N

LEMMA AddIs ==
  ASSUME NEW a \in SeqNums, NEW n \in Nat,
         N(a) >= 0, N(a) + n <= MaxFrames
  PROVE  SeqAdd(a, n) \in SeqNums /\ N(SeqAdd(a, n)) = N(a) + n
<1>1. /\ -HalfSeq <= N(a) + n /\ N(a) + n < HalfSeq /\ n \in Int
  BY LinkTypes, NType
<1> QED BY <1>1, LinkTypes, SeqDiffAdd, SeqAddType DEF N

LEMMA SameN ==
  ASSUME NEW a \in SeqNums, NEW b \in SeqNums, N(a) = N(b)
  PROVE  a = b
BY LinkTypes, SameDiffSameSeq DEF N

(* Back from the number after seq.                                         *)
LEMMA OneBack ==
  ASSUME NEW seq \in SeqNums
  PROVE  SeqAdd(SeqAdd(seq, 1), SeqMod - 1) = seq
<1>1. /\ SeqMod \in Nat \ {0} /\ seq \in Int /\ seq + 1 \in Int
      /\ SeqMod \in Int /\ SeqMod - 1 \in Int /\ 0 \in 0 .. (SeqMod - 1)
      /\ seq \in 0 .. (SeqMod - 1)
  BY SeqModAssumption DEF SeqNums
<1>2. (((seq + 1) % SeqMod) + (SeqMod - 1)) % SeqMod
        = ((seq + 1) + (SeqMod - 1)) % SeqMod
  BY <1>1, ModAdd
<1>3. (seq + 1) + (SeqMod - 1) = SeqMod + seq  BY <1>1
<1>4. ((SeqMod % SeqMod) + seq) % SeqMod = (SeqMod + seq) % SeqMod
  BY <1>1, ModAdd
<1>5. SeqMod % SeqMod = 0
  <2>1. PICK q \in Int : SeqMod = SeqMod * q + (SeqMod % SeqMod)
    BY <1>1, Quotient
  <2>2. SeqMod % SeqMod \in 0 .. (SeqMod - 1)  BY <1>1, ModRange
  <2>3. SeqMod * (1 - q) = SeqMod - SeqMod * q  BY <1>1, SMT
  <2>4. SeqMod * q \in Int  BY <1>1
  <2>5. SeqMod * (1 - q) = SeqMod % SeqMod
    BY <1>1, <2>1, <2>2, <2>3, <2>4
  <2>6. 1 - q = 0
    <3>1. 1 - q \in Int  OBVIOUS
    <3>2. -SeqMod < SeqMod * (1 - q) /\ SeqMod * (1 - q) < SeqMod
      BY <1>1, <2>2, <2>5
    <3> QED BY <1>1, <3>1, <3>2, SmallMultiple
  <2>7. SeqMod * (1 - q) = 0
    BY <1>1, <2>6
  <2> QED BY <2>5, <2>7
<1>6. seq % SeqMod = seq /\ 0 + seq = seq  BY <1>1, ModSmall
<1> QED BY <1>2, <1>3, <1>4, <1>5, <1>6 DEF SeqAdd

LEMMA SlotType ==
  ASSUME NEW seq \in SeqNums
  PROVE  seq % HistSize \in 0 .. (HistSize - 1)
BY LinkTypes, ModRange

-----------------------------------------------------------------------------
(* The sender.                                                             *)

Sends == TxSend \/ TxLabel \/ TxCopy

(* What was sent stays sent, and what is complete stays complete.          *)
LEMMA Grows ==
  ASSUME SenderOK, Sends \/ UNCHANGED senderVars
  PROVE  /\ SenderOK'
         /\ \A seq \in SeqNums : (Sent(seq) => Sent(seq)')
                                 /\ (Done(seq) => Done(seq)')
<1>1. N(s_tx_seq) \in Int /\ MaxFrames \in Nat /\ HalfSeq \in Nat
  BY NType, LinkTypes DEF SenderOK
<1>2. \A seq \in SeqNums : N(seq) \in Int  BY NType
<1>3. CASE TxSend
  <2>1. /\ tx_pc = "send" /\ tx_pc' = "label" /\ s_tx_seq' = s_tx_seq
        /\ SeqDiff(s_tx_seq, FirstSeq) < MaxFrames
    BY <1>3 DEF TxSend
  <2>2. SenderOK'  BY <2>1 DEF SenderOK, N
  <2> QED BY <1>1, <1>2, <2>1, <2>2 DEF Sent, Done, N
<1>4. CASE TxLabel
  <2>1. tx_pc = "label" /\ tx_pc' = "copy" /\ s_tx_seq' = s_tx_seq
    BY <1>4 DEF TxLabel
  <2>2. SenderOK'  BY <2>1 DEF SenderOK, N
  <2> QED BY <1>1, <1>2, <2>1, <2>2 DEF Sent, Done, N
<1>5. CASE TxCopy
  <2>1. /\ tx_pc = "copy" /\ tx_pc' = "send"
        /\ s_tx_seq' = SeqAdd(s_tx_seq, 1)
    BY <1>5 DEF TxCopy
  <2>2. s_tx_seq' \in SeqNums /\ N(s_tx_seq') = N(s_tx_seq) + 1
    BY <1>1, <2>1, AddIs DEF SenderOK
  <2>3. N(s_tx_seq)' = N(s_tx_seq')  BY DEF N
  <2>4. SenderOK'
    BY <1>1, <2>1, <2>2, <2>3 DEF SenderOK
  <2>5. \A seq \in SeqNums : N(seq)' = N(seq)  BY DEF N
  <2> HIDE DEF N
  <2> QED BY <1>1, <1>2, <2>1, <2>2, <2>3, <2>4, <2>5 DEF Sent, Done
<1>6. CASE UNCHANGED senderVars
  BY <1>6 DEF senderVars, SenderOK, Sent, Done, N
<1> QED BY <1>3, <1>4, <1>5, <1>6 DEF Sends

LEMMA SendKeepsHistory ==
  ASSUME SenderOK, HistoryOK, Sends \/ UNCHANGED senderVars
  PROVE  HistoryOK'
<1>1. \A seq \in SeqNums : (Sent(seq) => Sent(seq)') /\ (Done(seq) => Done(seq)')
  BY Grows
<1>2. /\ s_tx_seq \in SeqNums
      /\ s_tx_seq % HistSize \in 0 .. (HistSize - 1)
      /\ N(s_tx_seq) \in Int /\ N(s_tx_seq) >= 0
      /\ \A seq \in SeqNums : N(seq) \in Int
                              /\ seq % HistSize \in 0 .. (HistSize - 1)
  BY SlotType, NType DEF SenderOK
<1> DEFINE e == s_tx_seq % HistSize
           H == [valid : BOOLEAN, seqnum : SeqNums, data : SeqNums \cup {NoFrame}]
<1>3. s_history \in [0 .. (HistSize - 1) -> H]
  BY DEF HistoryOK
<1>4. CASE TxSend \/ UNCHANGED senderVars
  <2>1. s_history' = s_history /\ s_tx_seq' = s_tx_seq
    BY <1>4 DEF TxSend, senderVars
  <2>2. tx_pc' = "copy" => tx_pc = "copy"
    BY <1>4 DEF TxSend, senderVars
  <2>3. \A seq \in SeqNums : Done(seq)' = Done(seq)
    BY <2>1 DEF Done, N
  <2>4. \A seq \in SeqNums : Entry(seq)' = Entry(seq)
    BY <2>1 DEF Entry
  <2>5. Entry(s_tx_seq)' = Entry(s_tx_seq)
    BY <2>1 DEF Entry
  <2>6. \A seq \in SeqNums : Done(seq) => Entry(seq).seqnum \in SeqNums
    BY <1>2, <1>3 DEF Entry
  <2>7. ASSUME NEW seq \in SeqNums, Done(seq)'
        PROVE  /\ Entry(seq).valid' /\ Sent(Entry(seq).seqnum)'
               /\ Entry(seq).data' \in SeqNums
    <3>1. Done(seq)  BY <2>3, <2>7
    <3>2. /\ Entry(seq).valid /\ Sent(Entry(seq).seqnum)
          /\ Entry(seq).data \in SeqNums /\ Entry(seq).seqnum \in SeqNums
      BY <2>6, <3>1 DEF HistoryOK
    <3>3. Sent(Entry(seq).seqnum)'
      <4>1. \A x : Sent(x) => Sent(x)'
        <5>1. \/ tx_pc = "send" /\ tx_pc' = "label"
              \/ tx_pc' = tx_pc
          BY <1>4 DEF TxSend, senderVars
        <5> QED BY <1>2, <2>1, <5>1 DEF Sent, N
      <4> QED BY <2>4, <3>2, <4>1
    <3> QED BY <2>4, <3>2, <3>3
  <2> QED BY <1>3, <2>1, <2>2, <2>5, <2>7 DEF HistoryOK
<1>5. CASE TxLabel
  <2>1. /\ s_history' = [s_history EXCEPT ![e] =
                           [@ EXCEPT !.valid = TRUE, !.seqnum = s_tx_seq]]
        /\ tx_pc = "label" /\ tx_pc' = "copy" /\ s_tx_seq' = s_tx_seq
    BY <1>5 DEF TxLabel
  <2>2. PICK written : written = [s_history[e] EXCEPT !.valid = TRUE,
                                                      !.seqnum = s_tx_seq]
    OBVIOUS
  <2>3. /\ written \in H /\ written.valid /\ written.seqnum = s_tx_seq
        /\ written.data = s_history[e].data
    BY <1>2, <1>3, <2>2
  <2>4. s_history' = [s_history EXCEPT ![e] = written]
    BY <2>1, <2>2
  <2>5. s_history' \in [0 .. (HistSize - 1) -> H]
    BY <1>2, <1>3, <2>3, <2>4
  <2>6. /\ s_history'[e] = written
        /\ \A i \in 0 .. (HistSize - 1) : i # e => s_history'[i] = s_history[i]
    BY <1>2, <1>3, <2>4
  <2>7. ASSUME NEW seq \in SeqNums, Done(seq)'
        PROVE  /\ Entry(seq).valid' /\ Sent(Entry(seq).seqnum)'
               /\ Entry(seq).data' \in SeqNums
    <3>1. Done(seq)  BY <2>1, <2>7 DEF Done, N
    <3>2. Entry(seq).valid /\ Sent(Entry(seq).seqnum) /\ Entry(seq).data \in SeqNums
      BY <3>1 DEF HistoryOK
    <3>3. \A x : Sent(x)' <=> N(x) \in 0 .. N(s_tx_seq)
      BY <1>2, <2>1 DEF Sent, N
    <3>4. \A x : Sent(x) <=> N(x) \in 0 .. N(s_tx_seq)
      BY <1>2, <2>1 DEF Sent, N
    <3>5. CASE seq % HistSize = e
      <4>1. Entry(seq)' = written /\ Entry(seq) = s_history[e]
        BY <2>6, <3>5 DEF Entry
      <4>2. Sent(s_tx_seq)'
        BY <1>2, <2>1 DEF Sent, N
      <4>3. Sent(written.seqnum)'
        BY <2>1, <2>3, <4>2 DEF Sent, N
      <4>4. Sent(Entry(seq).seqnum)'
        BY <4>1, <4>3 DEF Sent, N
      <4> QED BY <2>3, <3>2, <4>1, <4>4
    <3>6. CASE seq % HistSize # e
      <4>1. Entry(seq)' = Entry(seq)
        BY <1>2, <2>6, <3>6 DEF Entry
      <4>2. Sent(Entry(seq).seqnum)'
        BY <2>1, <3>2, <4>1 DEF Sent, N
      <4> QED BY <3>2, <4>1, <4>2
    <3> QED BY <3>5, <3>6
  <2>8. Entry(s_tx_seq).valid' /\ (Entry(s_tx_seq).seqnum = s_tx_seq)'
    BY <2>1, <2>3, <2>6 DEF Entry
  <2> QED BY <2>5, <2>7, <2>8 DEF HistoryOK
<1>6. CASE TxCopy
  <2>1. /\ s_history' = [s_history EXCEPT ![e].data = s_tx_seq]
        /\ tx_pc = "copy" /\ tx_pc' = "send"
        /\ s_tx_seq' = SeqAdd(s_tx_seq, 1)
    BY <1>6 DEF TxCopy
  <2>2. PICK written : written = [s_history[e] EXCEPT !.data = s_tx_seq]
    OBVIOUS
  <2>3. /\ written \in H /\ written.data = s_tx_seq
        /\ written.valid = s_history[e].valid
        /\ written.seqnum = s_history[e].seqnum
    BY <1>2, <1>3, <2>2
  <2>4. s_history' = [s_history EXCEPT ![e] = written]
    BY <2>1, <2>2
  <2>5. s_history' \in [0 .. (HistSize - 1) -> H]
    BY <1>2, <1>3, <2>3, <2>4
  <2>6. /\ s_history'[e] = written
        /\ \A i \in 0 .. (HistSize - 1) : i # e => s_history'[i] = s_history[i]
    BY <1>2, <1>3, <2>4
  <2>7. N(s_tx_seq') = N(s_tx_seq) + 1
    BY <1>2, <2>1, AddIs, LinkTypes DEF SenderOK
  <2>8. \A x : Sent(x) => Sent(x)'
    BY <1>2, <2>1, <2>7 DEF Sent, N
  <2>9. ASSUME NEW seq \in SeqNums, Done(seq)'
        PROVE  /\ Entry(seq).valid' /\ Sent(Entry(seq).seqnum)'
               /\ Entry(seq).data' \in SeqNums
    <3>1. N(seq) \in 0 .. N(s_tx_seq)
      BY <1>2, <2>7, <2>9 DEF Done, N
    <3>2. Entry(seq).valid /\ Sent(Entry(seq).seqnum)
      <4>1. CASE N(seq) = N(s_tx_seq)
        <5>1. seq = s_tx_seq  BY <1>2, <4>1, SameN
        <5>2. Sent(s_tx_seq)  BY <1>2, <2>1 DEF Sent
        <5> QED BY <2>1, <5>1, <5>2 DEF HistoryOK
      <4>2. CASE N(seq) # N(s_tx_seq)
        <5>1. Done(seq)  BY <1>2, <3>1, <4>2 DEF Done
        <5> QED BY <5>1 DEF HistoryOK
      <4> QED BY <4>1, <4>2
    <3>3. CASE seq % HistSize = e
      <4>1. Entry(seq)' = written /\ Entry(seq) = s_history[e]
        BY <2>6, <3>3 DEF Entry
      <4>2. Sent(Entry(seq).seqnum)'
        BY <2>3, <2>8, <3>2, <4>1
      <4> QED BY <1>2, <2>3, <3>2, <4>1, <4>2
    <3>4. CASE seq % HistSize # e
      <4>1. Entry(seq)' = Entry(seq)
        BY <1>2, <2>6, <3>4 DEF Entry
      <4>2. Sent(Entry(seq).seqnum)'
        BY <2>8, <3>2, <4>1
      <4>3. Done(seq)
        <5>1. N(seq) # N(s_tx_seq)  BY <1>2, <3>4, SameN
        <5> QED BY <1>2, <3>1, <5>1 DEF Done
      <4>4. Entry(seq).data \in SeqNums  BY <4>3 DEF HistoryOK
      <4> QED BY <3>2, <4>1, <4>2, <4>4
    <3> QED BY <3>3, <3>4
  <2> QED BY <2>1, <2>5, <2>9 DEF HistoryOK
<1> QED BY <1>4, <1>5, <1>6 DEF Sends

LEMMA SendKeepsPackets ==
  ASSUME SenderOK, PacketsOK, Sends
  PROVE  PacketsOK' /\ packets \subseteq packets'
<1>1. /\ \A seq \in SeqNums : Sent(seq) => Sent(seq)'
      /\ \A seq \in SeqNums : N(seq) \in Int
      /\ s_tx_seq \in SeqNums /\ N(s_tx_seq) \in Int /\ N(s_tx_seq) >= 0
  BY Grows, NType DEF SenderOK
<1>2. CASE TxSend
  <2>1. /\ packets' = packets \cup {AudioPkt(s_tx_seq, s_tx_seq)}
        /\ tx_pc = "send" /\ tx_pc' = "label" /\ s_tx_seq' = s_tx_seq
    BY <1>2 DEF TxSend
  <2>2. \A seq \in SeqNums : Sent(seq)' <=> N(seq) \in 0 .. N(s_tx_seq)
    BY <1>1, <2>1 DEF Sent, N
  <2>3. ASSUME NEW seq \in SeqNums, Sent(seq)'
        PROVE  AudioPkt(seq, seq) \in packets'
    <3>1. CASE N(seq) = N(s_tx_seq)
      <4>1. seq = s_tx_seq  BY <1>1, <3>1, SameN
      <4> QED BY <2>1, <4>1
    <3>2. CASE N(seq) # N(s_tx_seq)
      <4>1. Sent(seq)  BY <1>1, <2>1, <2>2, <2>3, <3>2 DEF Sent
      <4> QED BY <2>1, <4>1 DEF PacketsOK
    <3> QED BY <3>1, <3>2
  <2>4. ASSUME NEW pkt \in packets'
        PROVE  \E seq, data \in SeqNums : Sent(seq)' /\ pkt = AudioPkt(seq, data)
    <3>1. CASE pkt \in packets
      BY <1>1, <3>1 DEF PacketsOK
    <3>2. CASE pkt = AudioPkt(s_tx_seq, s_tx_seq)
      <4>1. Sent(s_tx_seq)'
        BY <1>1, <2>1 DEF Sent, N
      <4>2. PICK seq \in SeqNums : seq = s_tx_seq /\ Sent(seq)'
        BY <1>1, <2>1, <4>1 DEF Sent, N
      <4> QED BY <3>2, <4>2
    <3> QED BY <2>1, <3>1, <3>2
  <2> QED BY <2>1, <2>3, <2>4 DEF PacketsOK, AudioPkt
<1>3. CASE TxLabel \/ TxCopy
  <2>1. packets' = packets  BY <1>3 DEF TxLabel, TxCopy
  <2>2. \A seq \in SeqNums : Sent(seq)' <=> Sent(seq)
    <3>1. CASE TxLabel
      BY <3>1 DEF TxLabel, Sent, N
    <3>2. CASE TxCopy
      <4>1. /\ tx_pc = "copy" /\ tx_pc' = "send"
            /\ N(s_tx_seq') = N(s_tx_seq) + 1
        BY <1>1, <3>2, AddIs, LinkTypes DEF TxCopy, SenderOK
      <4> QED BY <1>1, <4>1 DEF Sent, N
    <3> QED BY <1>3, <3>1, <3>2
  <2>3. \A pkt \in packets : \E seq, data \in SeqNums :
          Sent(seq)' /\ pkt = AudioPkt(seq, data)
    BY <2>2 DEF PacketsOK
  <2>4. \A seq \in SeqNums : Sent(seq)' => AudioPkt(seq, seq) \in packets
    BY <2>2 DEF PacketsOK
  <2> QED BY <2>1, <2>3, <2>4 DEF PacketsOK, AudioPkt
<1> QED BY <1>2, <1>3 DEF Sends

(* The steps of the sender disturb neither the requests nor the buffer.    *)
LEMMA SendKeepsRest ==
  ASSUME LinkInv, Sends
  PROVE  RequestsOK' /\ ServingOK' /\ BufferOK' /\ IInv'
<1>1. /\ \A seq \in SeqNums : (Sent(seq) => Sent(seq)')
                              /\ (Done(seq) => Done(seq)')
      /\ packets \subseteq packets'
  BY Grows, SendKeepsPackets DEF LinkInv
<1>2. UNCHANGED <<jitterVars, serverVars, requests, asked>>
  BY DEF Sends, TxSend, TxLabel, TxCopy
<1>3. RequestsOK'
  <2>1. ASSUME NEW pkt \in requests
        PROVE  LET seqs == pkt_get_nacks(pkt)
               IN  /\ seqs \in Seq(SeqNums) /\ seqs # <<>>
                   /\ \A k \in 1 .. Len(seqs) : Done(seqs[k])'
    <3> DEFINE seqs == pkt_get_nacks(pkt)
    <3>1. /\ seqs \in Seq(SeqNums) /\ seqs # <<>>
          /\ \A k \in 1 .. Len(seqs) : Done(seqs[k])
      BY DEF LinkInv, RequestsOK
    <3> HIDE DEF seqs
    <3>2. \A k \in 1 .. Len(seqs) : seqs[k] \in SeqNums  BY <3>1
    <3>3. \A k \in 1 .. Len(seqs) : Done(seqs[k])'
      BY <1>1, <3>1, <3>2
    <3> QED BY <3>1, <3>3 DEF seqs
  <2> QED BY <1>2, <2>1 DEF RequestsOK, Done, N
<1>4. ServingOK'
  <2>1. ServingOK  BY DEF LinkInv
  <2>2. \A k \in 1 .. Len(serving) : serving[k] \in SeqNums
    BY <2>1 DEF ServingOK
  <2>3. serving' = serving /\ serve_pc' = serve_pc /\ label' = label
    BY <1>2 DEF serverVars
  <2>4. \A k \in 1 .. Len(serving) : Done(serving[k])'
    <3> SUFFICES ASSUME NEW k \in 1 .. Len(serving)
                 PROVE  Done(serving[k])'
      OBVIOUS
    <3>1. PICK seq \in SeqNums : seq = serving[k] /\ Done(seq)
      BY <2>1, <2>2 DEF ServingOK
    <3>2. Done(seq)'  BY <1>1, <3>1
    <3> QED BY <2>3, <3>1, <3>2 DEF Done, N
  <2>5. label \in SeqNums /\ (serve_pc = "data" => Sent(label)')
    <3>1. label \in SeqNums /\ (serve_pc = "data" => Sent(label))
      BY <2>1 DEF ServingOK
    <3>2. ASSUME Sent(label) PROVE Sent(label)'
      <4>1. PICK seq \in SeqNums : seq = label /\ Sent(seq)
        BY <3>1, <3>2
      <4>2. Sent(seq)'  BY <1>1, <4>1
      <4> QED BY <2>3, <4>1, <4>2 DEF Sent, N
    <3> QED BY <3>1, <3>2
  <2> QED BY <2>1, <2>3, <2>4, <2>5 DEF ServingOK
<1>5. BufferOK'
  <2>1. BufferOK  BY DEF LinkInv
  <2>2. /\ slots' = slots /\ anchored' = anchored /\ write_seq' = write_seq
        /\ read_seq' = read_seq /\ out' = out /\ asked' = asked
    BY <1>2 DEF jitterVars, bufVars
  <2>3. \A seq, data : Carried(seq, data) => Carried(seq, data)'
    BY <1>1 DEF Carried
  <2>4. write_seq \in SeqNums /\ out.data = out.data
    BY DEF LinkInv, IInv, TypeOK
  <2>5. anchored => Sent(write_seq)'
    <3>1. ASSUME anchored PROVE Sent(write_seq)'
      <4>1. PICK seq \in SeqNums : seq = write_seq /\ Sent(seq)
        BY <2>1, <2>4, <3>1 DEF BufferOK
      <4>2. Sent(seq)'  BY <1>1, <4>1
      <4> QED BY <2>2, <4>1, <4>2 DEF Sent, N
    <3> QED BY <3>1
  <2>6. \A i \in SlotIndices :
          slots[i] # NoFrame => Carried(slots[i].seq, slots[i].data)'
    <3> SUFFICES ASSUME NEW i \in SlotIndices, slots[i] # NoFrame
                 PROVE  Carried(slots[i].seq, slots[i].data)'
      OBVIOUS
    <3>1. Carried(slots[i].seq, slots[i].data)
      BY <2>1 DEF BufferOK
    <3> QED BY <1>1, <2>2, <3>1 DEF Carried
  <2>7. out.kind = "OK" =>
          anchored /\ Carried(SeqAdd(read_seq, SeqMod - 1), out.data)'
    BY <1>1, <2>1, <2>2 DEF BufferOK, Carried
  <2>8. \A seq \in asked : anchored' /\ seq \in SeqNums
                           /\ N(seq) \in 0 .. N(write_seq')
    BY <2>1, <2>2 DEF BufferOK
  <2> QED BY <2>2, <2>5, <2>6, <2>7, <2>8 DEF BufferOK, N
<1>6. IInv'
  BY <1>2, StepIInv DEF LinkInv
<1> QED BY <1>3, <1>4, <1>5, <1>6

-----------------------------------------------------------------------------
(* history_resend_nacks.                                                   *)

Serves == ServeBegin \/ ServeCheck \/ ServeGiveUp \/ ServeLabel \/ ServeSend

LEMMA HeadDone ==
  ASSUME ServingOK, serving # <<>>
  PROVE  Head(serving) \in SeqNums /\ Done(Head(serving))
<1>1. serving \in Seq(SeqNums) /\ \A k \in 1 .. Len(serving) : Done(serving[k])
  BY DEF ServingOK
<1>2. Head(serving) = serving[1] /\ 1 \in 1 .. Len(serving)
  BY <1>1
<1> QED BY <1>1, <1>2

LEMMA ServeKeepsServing ==
  ASSUME LinkInv, Serves
  PROVE  ServingOK'
<1>1. /\ serving \in Seq(SeqNums)
      /\ \A k \in 1 .. Len(serving) : Done(serving[k])
      /\ label \in SeqNums
      /\ serve_pc = "data" => Sent(label)
      /\ serve_pc # "idle" => serving # <<>>
  BY DEF LinkInv, ServingOK
<1>2. s_tx_seq' = s_tx_seq /\ tx_pc' = tx_pc /\ s_history' = s_history
  BY DEF Serves, ServeBegin, ServeCheck, ServeGiveUp, ServeLabel, ServeSend,
         senderVars
<1>3. \A x : (Sent(x)' <=> Sent(x)) /\ (Done(x)' <=> Done(x))
  BY <1>2 DEF Sent, Done, N
<1>4. CASE ServeBegin
  <2>1. PICK pkt \in requests : serving' = pkt_get_nacks(pkt)
    BY <1>4 DEF ServeBegin
  <2>2. /\ serving' \in Seq(SeqNums) /\ serving' # <<>>
        /\ \A k \in 1 .. Len(serving') : Done(serving'[k])
    BY <2>1 DEF LinkInv, RequestsOK
  <2>3. serve_pc' = "check" /\ label' = label
    BY <1>4 DEF ServeBegin
  <2> QED BY <1>1, <1>2, <2>2, <2>3 DEF ServingOK, Done, N
<1>5. CASE ServeCheck
  BY <1>1, <1>2, <1>5 DEF ServeCheck, ServingOK, Done, N
<1>6. CASE ServeGiveUp
  <2>1. serving' = <<>> /\ serve_pc' = "idle" /\ label' = label
    BY <1>6 DEF ServeGiveUp
  <2> QED BY <1>1, <2>1 DEF ServingOK
<1>7. CASE ServeLabel
  <2>1. /\ label' = Entry(Head(serving)).seqnum /\ serve_pc = "label"
        /\ serve_pc' = "data" /\ serving' = serving
    BY <1>7 DEF ServeLabel
  <2>2. Head(serving) \in SeqNums /\ Done(Head(serving))
    BY <1>1, <2>1, HeadDone DEF LinkInv
  <2>3. Sent(Entry(Head(serving)).seqnum)
    BY <2>2 DEF LinkInv, HistoryOK
  <2>4. label' \in SeqNums
    <3>1. Head(serving) % HistSize \in 0 .. (HistSize - 1)
      BY <2>2, SlotType
    <3> QED BY <2>1, <3>1 DEF LinkInv, HistoryOK, Entry
  <2>5. Sent(label')  BY <2>1, <2>3
  <2> QED BY <1>1, <1>2, <2>1, <2>4, <2>5 DEF ServingOK, Done, Sent, N
<1>8. CASE ServeSend
  <2>1. /\ serving' = Tail(serving) /\ label' = label /\ serve_pc = "data"
        /\ serve_pc' = IF Len(serving) > 1 THEN "check" ELSE "idle"
    BY <1>8 DEF ServeSend
  <2>2. /\ serving' \in Seq(SeqNums) /\ Len(serving') = Len(serving) - 1
        /\ \A k \in 1 .. Len(serving') : serving'[k] = serving[k + 1]
    BY <1>1, <2>1, HeadTailProperties
  <2>3. \A k \in 1 .. Len(serving') : Done(serving'[k])
    <3> SUFFICES ASSUME NEW k \in 1 .. Len(serving')
                 PROVE  Done(serving'[k])
      OBVIOUS
    <3>1. k + 1 \in 1 .. Len(serving)  BY <1>1, <2>2
    <3> QED BY <1>1, <2>2, <3>1
  <2>4. serve_pc' # "idle" => serving' # <<>>
    BY <1>1, <2>1, <2>2
  <2> QED BY <1>1, <1>2, <2>1, <2>2, <2>3, <2>4 DEF ServingOK, Done, N
<1> QED BY <1>4, <1>5, <1>6, <1>7, <1>8 DEF Serves

LEMMA ServeKeepsPackets ==
  ASSUME LinkInv, Serves
  PROVE  PacketsOK' /\ packets \subseteq packets'
<1>1. s_tx_seq' = s_tx_seq /\ tx_pc' = tx_pc
  BY DEF Serves, ServeBegin, ServeCheck, ServeGiveUp, ServeLabel, ServeSend,
         senderVars
<1>2. \A x : Sent(x)' <=> Sent(x)
  BY <1>1 DEF Sent, N
<1>3. CASE ServeSend
  <2>1. /\ serve_pc = "data" /\ serving # <<>> /\ label \in SeqNums
        /\ Sent(label) /\ s_tx_seq \in SeqNums
    BY <1>3 DEF ServeSend, LinkInv, ServingOK, SenderOK
  <2>2. Head(serving) \in SeqNums /\ Done(Head(serving))
    BY <2>1, HeadDone DEF LinkInv
  <2>3. PICK data \in Copied(Head(serving)) :
          packets' = packets \cup {AudioPkt(label, data)}
    BY <1>3 DEF ServeSend
  <2>4. data \in SeqNums
    BY <2>1, <2>2 DEF Copied, LinkInv, HistoryOK
  <2>5. \A pkt \in packets' : \E seq \in SeqNums : \E d \in SeqNums :
          Sent(seq) /\ pkt = AudioPkt(seq, d)
    BY <2>1, <2>3, <2>4 DEF LinkInv, PacketsOK
  <2>6. \A seq \in SeqNums : Sent(seq) => AudioPkt(seq, seq) \in packets'
    BY <2>3 DEF LinkInv, PacketsOK
  <2> QED BY <1>1, <2>3, <2>5, <2>6 DEF PacketsOK, Sent, N
<1>4. CASE ~ServeSend
  <2>1. packets' = packets
    BY <1>4 DEF Serves, ServeBegin, ServeCheck, ServeGiveUp, ServeLabel
  <2> QED BY <1>1, <2>1 DEF LinkInv, PacketsOK, Sent, N
<1> QED BY <1>3, <1>4

LEMMA ServeKeepsRest ==
  ASSUME LinkInv, Serves
  PROVE  SenderOK' /\ HistoryOK' /\ RequestsOK' /\ BufferOK' /\ IInv'
<1>1. UNCHANGED <<jitterVars, senderVars, requests, asked>>
  BY DEF Serves, ServeBegin, ServeCheck, ServeGiveUp, ServeLabel, ServeSend
<1>2. packets \subseteq packets'  BY ServeKeepsPackets
<1>3. SenderOK' /\ HistoryOK'
  BY <1>1, Grows, SendKeepsHistory DEF LinkInv
<1>4. RequestsOK'
  BY <1>1 DEF LinkInv, RequestsOK, senderVars, Done, N
<1>5. IInv'  BY <1>1, StepIInv DEF LinkInv
<1>6. /\ slots' = slots /\ anchored' = anchored /\ write_seq' = write_seq
      /\ read_seq' = read_seq /\ out' = out /\ asked' = asked
      /\ s_tx_seq' = s_tx_seq /\ tx_pc' = tx_pc
  BY <1>1 DEF jitterVars, bufVars, senderVars
<1>7. BufferOK'
  BY <1>2, <1>6 DEF LinkInv, BufferOK, Carried, Sent, N
<1> QED BY <1>3, <1>4, <1>5, <1>7

-----------------------------------------------------------------------------
(* The receiver.                                                           *)

(* What a packet makes the receiver ask for lies between the newest packet *)
(* and this one.                                                           *)
LEMMA NacksBetween ==
  ASSUME IInv, SenderOK, anchored => Sent(write_seq),
         NEW seqnum \in SeqNums, Sent(seqnum)
  PROVE  /\ Nacks(seqnum) \in Seq(SeqNums) /\ Len(Nacks(seqnum)) <= MaxNack
         /\ \A k \in 1 .. Len(Nacks(seqnum)) :
              /\ anchored /\ Accepts(seqnum)
              /\ N(Nacks(seqnum)[k]) \in (N(write_seq) + 1) .. (N(seqnum) - 1)
<1> DEFINE jumped == IF anchored THEN SeqDiff(seqnum, write_seq) - 1 ELSE 0
           passed == {k \in 1 .. jumped :
                        started /\ SeqDiff(SeqAdd(write_seq, k), read_seq) < 0}
           skipped == Cardinality(passed)
           wanted == jumped - skipped
           count == IF wanted < MaxNack THEN wanted ELSE MaxNack
           nacks == [k \in 1 .. count |-> SeqAdd(write_seq, skipped + k)]
<1>1. /\ write_seq \in SeqNums /\ N(seqnum) \in Int /\ N(write_seq) \in Int
      /\ MaxNack \in Nat /\ MaxFrames \in Nat
      /\ N(seqnum) \in 0 .. MaxFrames
      /\ anchored => N(write_seq) \in 0 .. MaxFrames
  <2>1. write_seq \in SeqNums  BY DEF IInv, TypeOK
  <2>2. N(s_tx_seq) \in Int  BY NType DEF SenderOK
  <2> QED BY <2>1, <2>2, NType, LinkTypes, JitterAssumption DEF SenderOK, Sent
<1>2. jumped \in Int /\ (anchored => jumped = N(seqnum) - N(write_seq) - 1)
                     /\ (~anchored => jumped = 0)
  <2>1. CASE anchored
    <3>1. SeqDiff(seqnum, write_seq) = N(seqnum) - N(write_seq)
      BY <1>1, <2>1, DiffIs
    <3> QED BY <1>1, <2>1, <3>1
  <2>2. CASE ~anchored
    BY <2>2
  <2> QED BY <2>1, <2>2
<1>3. Nacks(seqnum) = IF ~Accepts(seqnum) THEN <<>> ELSE nacks
  BY DEF Nacks
<1> HIDE DEF jumped
<1>4. skipped \in Nat
  <2>1. IsFiniteSet(1 .. jumped)
    <3>1. 1 \in Int  OBVIOUS
    <3> QED BY <1>2, <3>1, FS_Interval
  <2>2. IsFiniteSet(passed)
    <3>1. passed \subseteq 1 .. jumped  OBVIOUS
    <3> HIDE DEF passed
    <3> QED BY <2>1, <3>1, FS_Subset
  <2> HIDE DEF passed
  <2> QED BY <2>2, FS_CardinalityType
<1> HIDE DEF passed, skipped
<1>5. wanted \in Int /\ count \in Int /\ count <= wanted /\ count <= MaxNack
  BY <1>1, <1>2, <1>4
<1>6. \A k \in 1 .. count : skipped + k \in 1 .. jumped
  BY <1>2, <1>4, <1>5
<1> HIDE DEF count, wanted
<1>7. ASSUME NEW k \in 1 .. count
      PROVE  /\ anchored
             /\ SeqAdd(write_seq, skipped + k) \in SeqNums
             /\ N(SeqAdd(write_seq, skipped + k))
                  \in (N(write_seq) + 1) .. (N(seqnum) - 1)
  <2>1. anchored /\ skipped + k \in 1 .. (N(seqnum) - N(write_seq) - 1)
    BY <1>2, <1>6
  <2> DEFINE j == skipped + k
  <2>2. /\ j \in Nat /\ N(write_seq) >= 0 /\ N(write_seq) + j <= MaxFrames
        /\ N(write_seq) + j \in (N(write_seq) + 1) .. (N(seqnum) - 1)
    BY <1>1, <2>1
  <2> HIDE DEF j
  <2>3. SeqAdd(write_seq, j) \in SeqNums
        /\ N(SeqAdd(write_seq, j)) = N(write_seq) + j
    BY <1>1, <2>2, AddIs
  <2> QED BY <2>1, <2>2, <2>3 DEF j
<1>8. CASE ~Accepts(seqnum)
  BY <1>1, <1>3, <1>8
<1>9. CASE Accepts(seqnum)
  <2> DEFINE at(k) == SeqAdd(write_seq, skipped + k)
             length == IF count < 0 THEN 0 ELSE count
  <2>1. nacks = [k \in 1 .. length |-> at(k)]
        /\ \A k \in 1 .. length : k \in 1 .. count
    BY <1>5
  <2>2. \A k \in 1 .. length : at(k) \in SeqNums
    BY <1>7, <2>1
  <2>3. length \in Nat /\ length <= MaxNack
    BY <1>1, <1>5
  <2> HIDE DEF nacks, at, length
  <2>4. nacks \in [1 .. length -> SeqNums] /\ \A k \in 1 .. length : nacks[k] = at(k)
    BY <2>1, <2>2
  <2>5. nacks \in Seq(SeqNums) /\ Len(nacks) = length
    BY <2>3, <2>4
  <2>6. \A k \in 1 .. length :
          anchored /\ N(nacks[k]) \in (N(write_seq) + 1) .. (N(seqnum) - 1)
    BY <1>7, <2>1, <2>4 DEF at
  <2> QED BY <1>3, <1>9, <2>3, <2>5, <2>6
<1> QED BY <1>8, <1>9

LEMMA ReceiveKeeps ==
  ASSUME LinkInv, Receive
  PROVE  LinkInv'
<1>1. PICK pkt \in packets :
        LET audio == pkt_get_audio(pkt)
            nacks == Missing(pkt)
        IN  /\ Put(audio.seqnum, audio.data[1])
            /\ requests' = requests
                 \cup IF nacks = <<>> THEN {} ELSE {NackPkt(nacks)}
            /\ asked' = asked \cup Range(nacks)
            /\ UNCHANGED <<senderVars, serverVars, packets>>
  BY DEF Receive
<1>2. PICK seq \in SeqNums : \E data \in SeqNums :
        Sent(seq) /\ pkt = AudioPkt(seq, data)
  BY DEF LinkInv, PacketsOK
<1>3. PICK data \in SeqNums : Sent(seq) /\ pkt = AudioPkt(seq, data)
  BY <1>2
<1>4. pkt_get_audio(pkt) = [seqnum |-> seq, data |-> <<data>>]
  BY <1>3, AudioPktParses
<1> DEFINE nacks == Nacks(seq)
<1>5. /\ Put(seq, data)
      /\ requests' = requests
           \cup IF nacks = <<>> THEN {} ELSE {NackPkt(nacks)}
      /\ asked' = asked \cup Range(nacks)
      /\ UNCHANGED <<senderVars, serverVars, packets>>
  BY <1>1, <1>4 DEF Missing
<1>6. IInv'
  BY <1>5, PutIInv, LinkTypes DEF LinkInv
<1>7. SenderOK' /\ HistoryOK'
  BY <1>5, Grows, SendKeepsHistory DEF LinkInv
<1>8. PacketsOK' /\ ServingOK'
  BY <1>5 DEF LinkInv, PacketsOK, ServingOK, senderVars, serverVars, Sent,
              Done, N
<1>9. /\ write_seq \in SeqNums /\ N(write_seq) \in Int /\ N(seq) \in Int
      /\ anchored => N(write_seq) \in 0 .. MaxFrames
      /\ N(seq) \in 0 .. MaxFrames /\ N(s_tx_seq) \in Int
      /\ N(seq) <= N(s_tx_seq)
  <2>1. write_seq \in SeqNums  BY DEF LinkInv, IInv, TypeOK
  <2>2. N(s_tx_seq) \in Int  BY NType DEF LinkInv, SenderOK
  <2> QED BY <1>3, <2>1, <2>2, NType, LinkTypes
          DEF LinkInv, SenderOK, BufferOK, Sent
<1>10. /\ nacks \in Seq(SeqNums) /\ Len(nacks) <= MaxNack
       /\ \A k \in 1 .. Len(nacks) :
            /\ anchored /\ Accepts(seq)
            /\ N(nacks[k]) \in (N(write_seq) + 1) .. (N(seq) - 1)
  BY <1>3, NacksBetween DEF LinkInv, BufferOK
<1> HIDE DEF nacks
<1>11. \A k \in 1 .. Len(nacks) : nacks[k] \in SeqNums
  BY <1>10
<1>12. RequestsOK'
  <2>1. ASSUME nacks # <<>>
        PROVE  LET seqs == pkt_get_nacks(NackPkt(nacks))
               IN  /\ seqs \in Seq(SeqNums) /\ seqs # <<>>
                   /\ \A k \in 1 .. Len(seqs) : Done(seqs[k])
    <3>1. nacks \in Seq(Nat)
      <4>1. nacks \in Seq(SeqNums) /\ SeqNums \subseteq Nat  BY <1>10, LinkTypes
      <4> QED BY <4>1, SeqMonotonic
    <3>2. pkt_get_nacks(NackPkt(nacks)) = nacks
      BY <1>10, <3>1, LinkTypes, NackPktParses
    <3>3. \A k \in 1 .. Len(nacks) : Done(nacks[k])
      <4> SUFFICES ASSUME NEW k \in 1 .. Len(nacks) PROVE Done(nacks[k])
        OBVIOUS
      <4>1. anchored /\ N(nacks[k]) \in (N(write_seq) + 1) .. (N(seq) - 1)
        BY <1>10
      <4>2. N(nacks[k]) \in Int  BY <1>11, NType
      <4> QED BY <1>9, <4>1, <4>2 DEF Done
    <3> QED BY <1>10, <2>1, <3>2, <3>3
  <2>2. \A p \in requests' :
          LET seqs == pkt_get_nacks(p)
          IN  /\ seqs \in Seq(SeqNums) /\ seqs # <<>>
              /\ \A k \in 1 .. Len(seqs) : Done(seqs[k])
    BY <1>5, <2>1 DEF LinkInv, RequestsOK
  <2> QED BY <1>5, <2>2 DEF RequestsOK, senderVars, Done, N
<1>13. /\ anchored'
       /\ write_seq' = IF ~anchored \/ (Accepts(seq) /\ SeqDiff(seq, write_seq) > 0)
                       THEN seq ELSE write_seq
       /\ read_seq' = IF anchored THEN read_seq ELSE seq
       /\ out' = out
       /\ IF Accepts(seq) THEN Insert(seq, data) ELSE slots' = slots
  BY <1>5 DEF Put
<1>14. BufferOK'
  <2>1. packets' = packets /\ s_tx_seq' = s_tx_seq /\ tx_pc' = tx_pc
    BY <1>5 DEF senderVars
  <2>2. Carried(seq, data)  BY <1>4 DEF Carried
  <2>3. ASSUME NEW i \in SlotIndices, slots'[i] # NoFrame
        PROVE  Carried(slots'[i].seq, slots'[i].data)
    <3>1. CASE slots'[i] = slots[i]
      BY <2>3, <3>1 DEF LinkInv, BufferOK
    <3>2. CASE slots'[i] # slots[i]
      <4>1. slots' = [slots EXCEPT ![SlotOf(seq)] = [seq |-> seq, data |-> data]]
        BY <1>13, <3>2 DEF Insert
      <4>2. slots'[i] = [seq |-> seq, data |-> data]
        BY <3>2, <4>1 DEF LinkInv, IInv, TypeOK
      <4>3. slots'[i].seq = seq /\ slots'[i].data = data
        BY <4>2
      <4> QED BY <2>2, <4>3
    <3> QED BY <3>1, <3>2
  <2>4. Sent(write_seq')
    <3>1. CASE write_seq' = seq  BY <1>3, <3>1
    <3>2. CASE write_seq' # seq
      BY <1>13, <3>2 DEF LinkInv, BufferOK
    <3> QED BY <3>1, <3>2
  <2>5. anchored => N(write_seq) <= N(write_seq')
    <3>1. ASSUME anchored, write_seq' = seq, write_seq' # write_seq
          PROVE  N(write_seq) <= N(seq)
      <4>1. SeqDiff(seq, write_seq) > 0  BY <1>13, <3>1
      <4>2. SeqDiff(seq, write_seq) = N(seq) - N(write_seq)
        BY <1>9, <3>1, DiffIs
      <4> QED BY <1>9, <4>1, <4>2
    <3>2. N(write_seq) <= N(write_seq)  BY <1>9
    <3> QED BY <1>13, <3>1, <3>2
  <2>6. N(write_seq') \in Int
    BY <1>9, <1>13
  <2>7. ASSUME NEW x \in asked
        PROVE  x \in SeqNums /\ N(x) \in 0 .. N(write_seq')
    <3>1. anchored /\ x \in SeqNums /\ N(x) \in 0 .. N(write_seq)
      BY DEF LinkInv, BufferOK
    <3>2. N(x) \in Int  BY <3>1, NType
    <3> QED BY <1>9, <2>5, <2>6, <3>1, <3>2
  <2>8. ASSUME NEW x \in Range(nacks)
        PROVE  x \in SeqNums /\ N(x) \in 0 .. N(write_seq')
    <3>1. PICK k \in 1 .. Len(nacks) : x = nacks[k]
      BY <1>10 DEF Range
    <3>2. /\ anchored /\ Accepts(seq) /\ x \in SeqNums /\ N(x) \in Int
          /\ N(x) \in (N(write_seq) + 1) .. (N(seq) - 1)
      BY <1>10, <1>11, <3>1, NType
    <3>3. SeqDiff(seq, write_seq) = N(seq) - N(write_seq)
      BY <1>9, <3>2, DiffIs
    <3>4. write_seq' = seq
      BY <1>9, <1>13, <3>2, <3>3
    <3> QED BY <1>9, <3>2, <3>4
  <2>9. \A x \in asked' : x \in SeqNums /\ N(x) \in 0 .. N(write_seq')
    BY <1>5, <2>7, <2>8
  <2>10. ASSUME out'.kind = "OK"
         PROVE  Carried(SeqAdd(read_seq', SeqMod - 1), out'.data)
    <3>1. anchored /\ Carried(SeqAdd(read_seq, SeqMod - 1), out.data)
      BY <1>13, <2>10 DEF LinkInv, BufferOK
    <3> QED BY <1>13, <3>1
  <2> QED BY <1>13, <2>1, <2>3, <2>4, <2>9, <2>10 DEF BufferOK, Carried, Sent, N
<1> QED BY <1>6, <1>7, <1>8, <1>12, <1>14 DEF LinkInv

LEMMA PlayerKeeps ==
  ASSUME LinkInv, Player
  PROVE  LinkInv'
<1>1. /\ Get /\ asked' = IF anchored' THEN asked ELSE {}
      /\ UNCHANGED <<senderVars, serverVars, packets, requests>>
  BY DEF Player
<1>2. IInv'
  <2>1. [Next]_jitterVars  BY <1>1 DEF Next
  <2> QED BY <2>1, StepIInv DEF LinkInv
<1>3. SenderOK' /\ HistoryOK' /\ PacketsOK' /\ RequestsOK' /\ ServingOK'
  <2>1. SenderOK' /\ HistoryOK'
    BY <1>1, Grows, SendKeepsHistory DEF LinkInv
  <2> QED BY <1>1, <2>1 DEF LinkInv, PacketsOK, RequestsOK, ServingOK,
             senderVars, serverVars, Sent, Done, N
<1>4. packets' = packets /\ s_tx_seq' = s_tx_seq /\ tx_pc' = tx_pc
  BY <1>1 DEF senderVars
<1>5. write_seq' = write_seq /\ (anchored' => anchored)
  BY <1>1, RunningAnchored
     DEF LinkInv, Get, Prebuffer, Play, Underrun, Skip, bufVars
<1>6. /\ \A i \in SlotIndices :
           slots[i] # NoFrame => Carried(slots[i].seq, slots[i].data)
      /\ anchored => Sent(write_seq)
      /\ \A x \in asked : /\ anchored /\ x \in SeqNums
                          /\ N(x) \in 0 .. N(write_seq)
      /\ IInv
  BY DEF LinkInv, BufferOK
<1>7. \A i \in SlotIndices :
        slots'[i] # NoFrame => Carried(slots'[i].seq, slots'[i].data)
  <2>1. \A i \in SlotIndices : slots'[i] = slots[i] \/ slots'[i] = NoFrame
    BY <1>1, <1>6 DEF Get, Prebuffer, Play, Underrun, Skip, bufVars, IInv, TypeOK
  <2> QED BY <1>6, <2>1
<1>8. out'.kind = "OK" =>
        anchored' /\ Carried(SeqAdd(read_seq', SeqMod - 1), out'.data)
  <2>1. CASE Play
    <3>1. /\ Running /\ Holds(read_seq) /\ read_seq \in SeqNums
          /\ read_seq' = SeqAdd(read_seq, 1) /\ anchored' = anchored
          /\ out'.data = slots[SlotOf(read_seq)].data
      BY <1>6, <2>1 DEF Play, GoodFrame, IInv, TypeOK
    <3>2. SlotOf(read_seq) \in SlotIndices  BY <3>1, SlotOfType
    <3>3. Carried(read_seq, out'.data)
      BY <1>6, <3>1, <3>2 DEF Holds
    <3>4. SeqAdd(read_seq', SeqMod - 1) = read_seq
      BY <3>1, OneBack
    <3> QED BY <1>6, <3>1, <3>3, <3>4, RunningAnchored
  <2>2. CASE Prebuffer \/ Underrun \/ Skip
    <3>1. out'.kind # "OK"
      BY <2>2 DEF Prebuffer, Underrun, Skip, ConcealInto, Silence
    <3> QED BY <3>1
  <2> QED BY <1>1, <2>1, <2>2 DEF Get
<1>9. \A x \in asked' : /\ anchored' /\ x \in SeqNums
                        /\ N(x) \in 0 .. N(write_seq')
  BY <1>1, <1>5, <1>6
<1>10. BufferOK'
  BY <1>4, <1>5, <1>6, <1>7, <1>8, <1>9 DEF BufferOK, Carried, Sent, N
<1> QED BY <1>2, <1>3, <1>10 DEF LinkInv

-----------------------------------------------------------------------------
(* The invariant holds, and what follows from it.                          *)

LEMMA InitLink == LinkInit => LinkInv
<1> SUFFICES ASSUME LinkInit PROVE LinkInv  OBVIOUS
<1>1. /\ s_tx_seq = FirstSeq /\ tx_pc = "send" /\ Init
      /\ packets = {} /\ requests = {} /\ asked = {}
      /\ serving = <<>> /\ serve_pc = "idle" /\ label = 0
  BY DEF LinkInit
<1>2. N(s_tx_seq) = 0 /\ 0 \in 0 .. MaxFrames /\ 0 \in SeqNums
  BY <1>1, FirstIsZero, LinkTypes, ZeroSeq
<1>3. \A seq \in SeqNums : ~Sent(seq) /\ ~Done(seq)
  BY <1>1, <1>2, NType DEF Sent, Done
<1>4. IInv  BY <1>1, InitIInv
<1>5. SenderOK  BY <1>1, <1>2, LinkTypes DEF SenderOK
<1>6. HistoryOK
  <2>1. s_history \in [0 .. (HistSize - 1) ->
                         [valid : BOOLEAN, seqnum : SeqNums,
                          data : SeqNums \cup {NoFrame}]]
    BY <1>2 DEF LinkInit
  <2> QED BY <1>1, <1>3, <2>1 DEF HistoryOK
<1>7. PacketsOK /\ RequestsOK  BY <1>1, <1>3 DEF PacketsOK, RequestsOK
<1>8. ServingOK
  <2>1. serving \in Seq(SeqNums) /\ Len(serving) = 0  BY <1>1
  <2> QED BY <1>1, <1>2, <2>1 DEF ServingOK
<1>9. BufferOK  BY <1>1 DEF BufferOK, Init
<1> QED BY <1>4, <1>5, <1>6, <1>7, <1>8, <1>9 DEF LinkInv

LEMMA StepLink == LinkInv /\ [LinkNext]_linkVars => LinkInv'
<1> SUFFICES ASSUME LinkInv, [LinkNext]_linkVars PROVE LinkInv'  OBVIOUS
<1>1. CASE Sends
  <2>1. SenderOK' /\ HistoryOK' /\ PacketsOK'
    BY <1>1, Grows, SendKeepsHistory, SendKeepsPackets DEF LinkInv
  <2>2. RequestsOK' /\ ServingOK' /\ BufferOK' /\ IInv'
    BY <1>1, SendKeepsRest
  <2> QED BY <2>1, <2>2 DEF LinkInv
<1>2. CASE Serves
  BY <1>2, ServeKeepsServing, ServeKeepsPackets, ServeKeepsRest DEF LinkInv
<1>3. CASE Receive  BY <1>3, ReceiveKeeps
<1>4. CASE Player  BY <1>4, PlayerKeeps
<1>5. CASE UNCHANGED linkVars
  <2>1. UNCHANGED <<jitterVars, senderVars, serverVars, packets, requests, asked>>
    BY <1>5 DEF linkVars
  <2>2. IInv'  BY <2>1, StepIInv DEF LinkInv
  <2>3. SenderOK' /\ HistoryOK'
    BY <2>1, Grows, SendKeepsHistory DEF LinkInv
  <2>4. PacketsOK' /\ RequestsOK' /\ ServingOK'
    BY <2>1 DEF LinkInv, PacketsOK, RequestsOK, ServingOK, senderVars,
                serverVars, Sent, Done, N
  <2>5. BufferOK'
    BY <2>1 DEF LinkInv, BufferOK, Carried, senderVars, jitterVars, bufVars,
                Sent, N
  <2> QED BY <2>2, <2>3, <2>4, <2>5 DEF LinkInv
<1> QED BY <1>1, <1>2, <1>3, <1>4, <1>5 DEF LinkNext, Sends, Serves

LEMMA LinkInvariant == LinkSpec => []LinkInv
BY InitLink, StepLink, PTL DEF LinkSpec

(* Whatever packet comes next, however late or however often it came       *)
(* before: what it makes jitter_put report was not asked for yet, since the*)
(* packets jumped over are newer than the newest one inserted, and those   *)
(* asked for are older.                                                    *)
THEOREM AsksOnce == LinkSpec => []AskedOnce
<1>1. LinkInv => AskedOnce
  <2> SUFFICES ASSUME LinkInv, NEW pkt \in packets, NEW x \in asked,
                      x \in Range(Missing(pkt))
               PROVE  FALSE
    BY DEF AskedOnce
  <2>1. PICK seq \in SeqNums : \E data \in SeqNums :
          Sent(seq) /\ pkt = AudioPkt(seq, data)
    BY DEF LinkInv, PacketsOK
  <2>2. pkt_get_audio(pkt).seqnum = seq
    BY <2>1, AudioPktParses
  <2>3. PICK k \in 1 .. Len(Nacks(seq)) : x = Nacks(seq)[k]
    <3>1. Nacks(seq) \in Seq(SeqNums)
      BY <2>1, NacksBetween DEF LinkInv, BufferOK
    <3> QED BY <2>2, <3>1 DEF Missing, Range
  <2>4. anchored /\ N(x) \in (N(write_seq) + 1) .. (N(seq) - 1)
    BY <2>1, <2>3, NacksBetween DEF LinkInv, BufferOK
  <2>5. x \in SeqNums /\ N(x) \in 0 .. N(write_seq)
    BY DEF LinkInv, BufferOK
  <2>6. N(x) \in Int /\ N(write_seq) \in Int /\ N(seq) \in Int
    BY <2>1, <2>5, NType DEF LinkInv, IInv, TypeOK
  <2> HIDE DEF N
  <2> QED BY <2>4, <2>5, <2>6
<1> QED BY <1>1, LinkInvariant, PTL

(* A good frame that is played is what a packet of the number whose turn it*)
(* was carried, of whichever of the packets that came under that number.   *)
THEOREM HearsTrue == LinkSpec => []HeardTrue
<1>1. LinkInv => HeardTrue
  BY DEF LinkInv, BufferOK, Carried, HeardTrue
<1> QED BY <1>1, LinkInvariant, PTL

(* Requests and audio that are on their way fit no less into one packet:   *)
(* the parser finds both blocks, cut to their limits.                      *)
THEOREM BlocksAreParsed == LinkSpec => []BlocksParse
<1>1. LinkInv => BlocksParse
  <2> SUFFICES ASSUME LinkInv, NEW ask \in requests, NEW more \in requests,
                      NEW pkt \in packets
               PROVE  LET audio == pkt_get_audio(pkt)
                          seqs == pkt_get_nacks(ask) \o pkt_get_nacks(more)
                          old == Stack(TRUE, audio.seqnum)
                      IN  \A data \in {audio.data, audio.data \o audio.data} :
                            Parsed(old, seqs, audio.seqnum, data)
    BY DEF BlocksParse
  <2>1. PICK seq \in SeqNums : \E d \in SeqNums :
          Sent(seq) /\ pkt = AudioPkt(seq, d)
    BY DEF LinkInv, PacketsOK
  <2>2. PICK d \in SeqNums : pkt = AudioPkt(seq, d)
    BY <2>1
  <2>3. pkt_get_audio(pkt) = [seqnum |-> seq, data |-> <<d>>]
    BY <2>2, AudioPktParses
  <2>4. SeqNums \subseteq Nat  BY LinkTypes
  <2> DEFINE first == pkt_get_nacks(ask)
             second == pkt_get_nacks(more)
             seqs == first \o second
             old == Stack(TRUE, seq)
  <2>5. first \in Seq(SeqNums) /\ second \in Seq(SeqNums)
    BY DEF LinkInv, RequestsOK
  <2> HIDE DEF first, second
  <2>6. first \in Seq(Nat) /\ second \in Seq(Nat)
    BY <2>4, <2>5, SeqMonotonic
  <2>7. seqs \in Seq(Nat)  BY <2>6, ConcatProperties
  <2>8. old \in Pkts(Nat)  BY <2>4, StackType
  <2>9. <<d>> \in Seq(Nat) /\ <<d>> \o <<d>> \in Seq(Nat) /\ seq \in Nat
    BY <2>4
  <2> HIDE DEF seqs, old
  <2>10. Parsed(old, seqs, seq, <<d>>) /\ Parsed(old, seqs, seq, <<d>> \o <<d>>)
    BY <2>7, <2>8, <2>9, PacketsParse
  <2> DEFINE audio == pkt_get_audio(pkt)
  <2>11. audio.seqnum = seq /\ audio.data = <<d>>  BY <2>3
  <2> HIDE DEF audio
  <2>12. \A data \in {audio.data, audio.data \o audio.data} :
           Parsed(old, seqs, audio.seqnum, data)
    BY <2>10, <2>11
  <2>13. old = Stack(TRUE, audio.seqnum)  BY <2>11 DEF old
  <2> QED BY <2>12, <2>13 DEF seqs, first, second, audio
<1> QED BY <1>1, LinkInvariant, PTL

-----------------------------------------------------------------------------
(* Young frames.  Two frames the numbers of which differ by less than the  *)
(* size of the history have entries of their own, also where the numbers   *)
(* wrap around, if the size divides their range: 32 and 64 do so.          *)

HistDividesSeqs == \E k \in Nat \ {0} : SeqMod = HistSize * k

LEMMA OwnEntry ==
  ASSUME HistDividesSeqs, NEW a \in SeqNums, NEW b \in SeqNums,
         -HistSize < N(a) - N(b), N(a) - N(b) < HistSize,
         a % HistSize = b % HistSize
  PROVE  a = b
<1>1. PICK k \in Nat \ {0} : SeqMod = HistSize * k  BY DEF HistDividesSeqs
<1>2. HistSize \in Nat \ {0} /\ FirstSeq \in SeqNums  BY LinkTypes
<1> QED BY <1>1, <1>2, SamePlaceSameSeq DEF N

(* A frame that is complete and young does not have the entry of the frame *)
(* that is being sent.                                                     *)
LEMMA YoungElsewhere ==
  ASSUME HistDividesSeqs, SenderOK, NEW seq \in SeqNums, Done(seq), Young(seq)
  PROVE  seq % HistSize # s_tx_seq % HistSize
<1>1. s_tx_seq \in SeqNums  BY DEF SenderOK
<1>2. N(seq) \in Int /\ N(s_tx_seq) \in Int /\ HistSize \in Nat \ {0}
  BY <1>1, NType, LinkTypes
<1>3. N(seq) < N(s_tx_seq) /\ N(s_tx_seq) - N(seq) < HistSize
  BY <1>2 DEF Done, Young
<1>4. -HistSize < N(s_tx_seq) - N(seq)  BY <1>2, <1>3
<1> SUFFICES ASSUME seq % HistSize = s_tx_seq % HistSize PROVE FALSE
  OBVIOUS
<1>5. s_tx_seq = seq  BY <1>1, <1>3, <1>4, OwnEntry
<1> QED BY <1>2, <1>3, <1>5

LEMMA YoungInit == LinkInit => YoungOK
<1> SUFFICES ASSUME LinkInit PROVE YoungOK  OBVIOUS
<1>1. /\ s_tx_seq = FirstSeq /\ serve_pc = "idle"
  BY DEF LinkInit
<1>2. \A seq \in SeqNums : ~Done(seq)
  BY <1>1, FirstIsZero, NType DEF Done
<1> QED BY <1>1, <1>2 DEF YoungOK

LEMMA YoungStep ==
  ASSUME HistDividesSeqs, LinkInv, YoungOK, [LinkNext]_linkVars
  PROVE  YoungOK'
<1>1. /\ s_tx_seq \in SeqNums /\ N(s_tx_seq) \in Int /\ N(s_tx_seq) >= 0
      /\ s_tx_seq % HistSize \in 0 .. (HistSize - 1)
      /\ \A seq \in SeqNums : N(seq) \in Int
                              /\ seq % HistSize \in 0 .. (HistSize - 1)
      /\ N(s_tx_seq) <= MaxFrames /\ HistSize \in Nat \ {0}
      /\ DOMAIN s_history = 0 .. (HistSize - 1)
  BY SlotType, NType, LinkTypes DEF LinkInv, SenderOK, HistoryOK
<1>2. \A seq \in SeqNums : Done(seq) /\ Young(seq) =>
        /\ seq % HistSize # s_tx_seq % HistSize
        /\ Entry(seq).seqnum = seq /\ Entry(seq).data = seq
  BY YoungElsewhere DEF LinkInv, YoungOK
<1>3. serve_pc = "data" /\ Young(Head(serving)) => label = Head(serving)
  BY DEF YoungOK
<1>4. CASE TxSend \/ Receive \/ Player \/ UNCHANGED linkVars
  <2>1. UNCHANGED <<s_tx_seq, s_history, serverVars>>
    BY <1>4 DEF TxSend, Receive, Player, linkVars, senderVars
  <2> QED BY <1>2, <1>3, <2>1 DEF YoungOK, Done, Young, Entry, N, serverVars
<1>5. CASE TxLabel
  <2>1. UNCHANGED <<s_tx_seq, serverVars>>
    BY <1>5 DEF TxLabel
  <2>2. \A i \in 0 .. (HistSize - 1) :
          i # s_tx_seq % HistSize => s_history'[i] = s_history[i]
    BY <1>1, <1>5 DEF TxLabel
  <2>3. \A seq \in SeqNums : Done(seq) /\ Young(seq) =>
          Entry(seq)' = Entry(seq)
    BY <1>1, <1>2, <2>2 DEF Entry
  <2>4. \A seq \in SeqNums : Done(seq)' /\ Young(seq)' =>
          Done(seq) /\ Young(seq)
    BY <2>1 DEF Done, Young, N
  <2>5. \A seq \in SeqNums : Done(seq)' /\ Young(seq)' =>
          Entry(seq).seqnum' = seq /\ Entry(seq).data' = seq
    BY <1>2, <2>3, <2>4
  <2> QED BY <1>3, <2>1, <2>5 DEF YoungOK, Young, N, serverVars
<1>6. CASE TxCopy
  <2> DEFINE e == s_tx_seq % HistSize
  <2>1. /\ s_history' = [s_history EXCEPT ![e] =
                           [s_history[e] EXCEPT !.data = s_tx_seq]]
        /\ s_tx_seq' = SeqAdd(s_tx_seq, 1) /\ tx_pc = "copy"
        /\ UNCHANGED serverVars
    BY <1>6 DEF TxCopy
  <2>2. N(s_tx_seq') = N(s_tx_seq) + 1
    <3>1. N(s_tx_seq) + 1 <= MaxFrames
      BY <1>1, <2>1, LinkTypes DEF LinkInv, SenderOK
    <3> QED BY <1>1, <2>1, <3>1, AddIs
  <2>3. PICK written : written = [s_history[e] EXCEPT !.data = s_tx_seq]
    OBVIOUS
  <2>4. written.seqnum = s_tx_seq /\ written.data = s_tx_seq
    <3>1. s_history[e].seqnum = s_tx_seq
      BY <2>1 DEF LinkInv, HistoryOK, Entry
    <3>2. s_history[e] \in [valid : BOOLEAN, seqnum : SeqNums,
                            data : SeqNums \cup {NoFrame}]
      BY <1>1 DEF LinkInv, HistoryOK
    <3> QED BY <2>3, <3>1, <3>2
  <2>5. /\ s_history'[e] = written
        /\ \A i \in 0 .. (HistSize - 1) : i # e => s_history'[i] = s_history[i]
    BY <1>1, <2>1, <2>3
  <2>6. ASSUME NEW seq \in SeqNums, Done(seq)', Young(seq)'
        PROVE  Entry(seq).seqnum' = seq /\ Entry(seq).data' = seq
    <3>1. /\ N(seq) \in 0 .. N(s_tx_seq) /\ Young(seq)
      BY <1>1, <2>2, <2>6 DEF Done, Young, N
    <3>2. CASE N(seq) = N(s_tx_seq)
      <4>1. seq = s_tx_seq  BY <1>1, <3>2, SameN
      <4>2. Entry(seq)' = written  BY <2>5, <4>1 DEF Entry
      <4> QED BY <2>4, <4>1, <4>2
    <3>3. CASE N(seq) # N(s_tx_seq)
      <4>1. Done(seq)  BY <1>1, <3>1, <3>3 DEF Done
      <4>2. Entry(seq)' = Entry(seq)
        BY <1>1, <1>2, <2>5, <3>1, <4>1 DEF Entry
      <4> QED BY <1>2, <3>1, <4>1, <4>2
    <3> QED BY <3>2, <3>3
  <2>7. serve_pc' = "data" /\ Young(Head(serving))' => label' = Head(serving)'
    <3>1. serve_pc' = serve_pc /\ serving' = serving /\ label' = label
      BY <2>1 DEF serverVars
    <3> SUFFICES ASSUME serve_pc = "data", Young(Head(serving))'
                 PROVE  label = Head(serving)
      BY <3>1
    <3>2. Head(serving) \in SeqNums
      BY HeadDone DEF LinkInv, ServingOK
    <3>3. Young(Head(serving))
      BY <1>1, <2>2, <3>1, <3>2 DEF Young, N
    <3> QED BY <1>3, <3>3
  <2> QED BY <2>6, <2>7 DEF YoungOK
<1>7. CASE Serves
  <2>1. s_tx_seq' = s_tx_seq /\ s_history' = s_history
    BY <1>7 DEF Serves, ServeBegin, ServeCheck, ServeGiveUp, ServeLabel,
                ServeSend, senderVars
  <2>2. \A seq \in SeqNums : Done(seq)' /\ Young(seq)' =>
          Entry(seq).seqnum' = seq /\ Entry(seq).data' = seq
    BY <1>2, <2>1 DEF Done, Young, Entry, N
  <2>3. serve_pc' = "data" => ServeLabel
    BY <1>7 DEF Serves, ServeBegin, ServeCheck, ServeGiveUp, ServeSend
  <2>4. ASSUME ServeLabel, Young(Head(serving))
        PROVE  label' = Head(serving)
    <3>1. Head(serving) \in SeqNums /\ Done(Head(serving))
      BY <2>4, HeadDone DEF LinkInv, ServingOK, ServeLabel
    <3> QED BY <1>2, <2>4, <3>1 DEF ServeLabel
  <2>5. ServeLabel => serving' = serving  BY DEF ServeLabel
  <2> QED BY <2>1, <2>2, <2>3, <2>4, <2>5 DEF YoungOK, Young, N
<1> QED BY <1>4, <1>5, <1>6, <1>7 DEF LinkNext, Serves

LEMMA YoungInvariant ==
  ASSUME HistDividesSeqs
  PROVE  LinkSpec => [](LinkInv /\ YoungOK)
<1>1. LinkInit => LinkInv /\ YoungOK  BY InitLink, YoungInit
<1>2. (LinkInv /\ YoungOK) /\ [LinkNext]_linkVars => (LinkInv /\ YoungOK)'
  BY StepLink, YoungStep
<1> QED BY <1>1, <1>2, PTL DEF LinkSpec

(* The age of a frame to be resent is its distance from the next number.   *)
LEMMA AgeOfHead ==
  ASSUME LinkInv, serving # <<>>
  PROVE  /\ Head(serving) \in SeqNums /\ Done(Head(serving))
         /\ Age(Head(serving)) = N(s_tx_seq) - N(Head(serving))
<1>1. Head(serving) \in SeqNums /\ Done(Head(serving))
  BY HeadDone DEF LinkInv
<1>2. /\ s_tx_seq \in SeqNums /\ N(s_tx_seq) \in 0 .. MaxFrames
      /\ N(Head(serving)) \in Int /\ MaxFrames \in Nat
  BY <1>1, NType, LinkTypes DEF LinkInv, SenderOK
<1>3. N(Head(serving)) \in 0 .. MaxFrames
  BY <1>1, <1>2 DEF Done
<1> QED BY <1>1, <1>2, <1>3, DiffIs DEF Age

(* history_resend_nacks gives up only on a frame so old that its entry may *)
(* belong to a newer one.                                                  *)
THEOREM GivesUpOnOld ==
  ASSUME HistDividesSeqs
  PROVE  LinkSpec => GivesUpOnOldOnly
<1>1. (LinkInv /\ YoungOK) /\ [LinkNext]_linkVars
        => [ServeGiveUp => Age(Head(serving)) >= HistSize]_linkVars
  <2> SUFFICES ASSUME LinkInv, YoungOK, ServeGiveUp
               PROVE  Age(Head(serving)) >= HistSize
    OBVIOUS
  <2>1. serving # <<>> /\ ~Found(Head(serving))
    BY DEF ServeGiveUp, LinkInv, ServingOK
  <2>2. /\ Head(serving) \in SeqNums /\ Done(Head(serving))
        /\ Age(Head(serving)) = N(s_tx_seq) - N(Head(serving))
    BY <2>1, AgeOfHead
  <2>3. Entry(Head(serving)).valid
    BY <2>2 DEF LinkInv, HistoryOK
  <2>4. ~Young(Head(serving))
    BY <2>1, <2>2, <2>3 DEF YoungOK, Found
  <2>5. N(s_tx_seq) \in Int /\ N(Head(serving)) \in Int /\ HistSize \in Int
    <3>1. s_tx_seq \in SeqNums  BY DEF LinkInv, SenderOK
    <3>2. N(s_tx_seq) \in Int /\ N(Head(serving)) \in Int
      BY <2>2, <3>1, NType, Zenon
    <3>3. HistSize \in Int  BY LinkTypes
    <3> QED BY <3>2, <3>3
  <2> QED BY <2>2, <2>4, <2>5 DEF Young
<1> QED BY <1>1, YoungInvariant, PTL DEF LinkSpec, GivesUpOnOldOnly

(* What is resent of a frame that the sender has not come round to is the  *)
(* packet that was sent: neither the label nor the data, read one after the*)
(* other without a lock, are those of another frame.                       *)
LEMMA YoungResent ==
  ASSUME HistDividesSeqs, LinkInv, YoungOK, ServeSend, Young(Head(serving))
  PROVE  packets' = packets
<1>1. serving # <<>> /\ serve_pc = "data"
  BY DEF ServeSend, LinkInv, ServingOK
<1>2. Head(serving) \in SeqNums /\ Done(Head(serving))
  BY <1>1, HeadDone DEF LinkInv
<1>3. label = Head(serving)  BY <1>1 DEF YoungOK
<1>4. Copied(Head(serving)) = {Head(serving)}
  <2>1. Head(serving) % HistSize # s_tx_seq % HistSize
    BY <1>2, YoungElsewhere DEF LinkInv
  <2>2. Entry(Head(serving)).data = Head(serving)
    BY <1>2 DEF YoungOK
  <2> QED BY <2>1, <2>2 DEF Copied
<1>5. packets' = packets \cup {AudioPkt(Head(serving), Head(serving))}
  BY <1>3, <1>4 DEF ServeSend
<1>6. AudioPkt(Head(serving), Head(serving)) \in packets
  <2>1. N(Head(serving)) \in Int /\ N(s_tx_seq) \in Int
    BY <1>2, NType DEF LinkInv, SenderOK
  <2>2. Sent(Head(serving))
    BY <1>2, <2>1 DEF Done, Sent
  <2> QED BY <1>2, <2>2 DEF LinkInv, PacketsOK
<1> QED BY <1>5, <1>6

(* A frame resent before the sender has come round to its entry is the very*)
(* packet sent before.                                                     *)
THEOREM YoungIsIntact ==
  ASSUME HistDividesSeqs
  PROVE  LinkSpec => YoungIntact
<1>1. (LinkInv /\ YoungOK) /\ [LinkNext]_linkVars
        => [ServeSend /\ Age(Head(serving)) < HistSize
              => packets' = packets]_linkVars
  <2> SUFFICES ASSUME LinkInv, YoungOK, ServeSend,
                      Age(Head(serving)) < HistSize
               PROVE  packets' = packets
    OBVIOUS
  <2>1. serving # <<>>
    BY DEF ServeSend, LinkInv, ServingOK
  <2>2. Young(Head(serving))
    BY <2>1, AgeOfHead DEF Young
  <2> QED BY <2>2, YoungResent
<1> QED BY <1>1, YoungInvariant, PTL DEF LinkSpec, YoungIntact

-----------------------------------------------------------------------------
(* What the listener is promised.  No audio is heard that was not recorded *)
(* before; with requests answered promptly no audio travels under another  *)
(* frame's number; and a buffer that has its anchor starts with a frame    *)
(* that was recorded.                                                      *)

PacketOf(pkt) ==
  \E seq, data \in SeqNums : /\ Sent(seq) /\ Sent(data)
                             /\ Prompt => data = seq
                             /\ pkt = AudioPkt(seq, data)

CarriedOK ==
  /\ \A pkt \in packets : PacketOf(pkt)
  /\ \A seq \in SeqNums : Done(seq) => Sent(Entry(seq).data)

(* What is being served lags no further than the bound, and by one frame   *)
(* more once the frame that was being sent is complete.                    *)
LagOK ==
  \A k \in 1 .. Len(serving) :
    N(s_tx_seq) - N(serving[k]) <= IF tx_pc = "send" THEN MaxLag + 1 ELSE MaxLag

AnchorOK == anchored /\ ~started => Sent(read_seq)

ListenInv == /\ LinkInv /\ CarriedOK /\ LagOK /\ AnchorOK
             /\ Prompt => YoungOK

LEMMA PromptDivides == Prompt => HistDividesSeqs /\ MaxLag + 1 < HistSize
BY SeqModAssumption DEF Prompt, HistDividesSeqs

LEMMA HistoryCarries ==
  ASSUME LinkInv, CarriedOK, [LinkNext]_linkVars,
         NEW seq \in SeqNums, Done(seq)'
  PROVE  Sent(Entry(seq).data)'
<1>1. /\ \A x \in SeqNums : (Sent(x) => Sent(x)') /\ (Done(x) => Done(x)')
      /\ s_tx_seq \in SeqNums /\ N(s_tx_seq) \in Int /\ N(s_tx_seq) >= 0
      /\ s_tx_seq % HistSize \in 0 .. (HistSize - 1)
      /\ seq % HistSize \in 0 .. (HistSize - 1) /\ N(seq) \in Int
      /\ DOMAIN s_history = 0 .. (HistSize - 1)
  <2>1. Sends \/ UNCHANGED senderVars
    BY DEF LinkNext, Sends, ServeBegin, ServeCheck, ServeGiveUp, ServeLabel,
           ServeSend, Receive, Player, linkVars
  <2> QED BY <2>1, Grows, NType, SlotType DEF LinkInv, SenderOK, HistoryOK
<1>2. Done(seq) => Entry(seq).data \in SeqNums /\ Sent(Entry(seq).data)
  BY DEF CarriedOK, LinkInv, HistoryOK
<1>3. CASE TxCopy
  <2> DEFINE e == s_tx_seq % HistSize
  <2>1. /\ s_history' = [s_history EXCEPT ![e] =
                           [s_history[e] EXCEPT !.data = s_tx_seq]]
        /\ s_tx_seq' = SeqAdd(s_tx_seq, 1)
        /\ tx_pc = "copy" /\ tx_pc' = "send"
    BY <1>3 DEF TxCopy
  <2>2. N(s_tx_seq') = N(s_tx_seq) + 1
    <3>1. N(s_tx_seq) + 1 <= MaxFrames
      BY <1>1, <2>1, LinkTypes DEF LinkInv, SenderOK
    <3> QED BY <1>1, <2>1, <3>1, AddIs
  <2>3. PICK sent \in SeqNums : sent = s_tx_seq /\ Sent(sent)'
    BY <1>1, <2>1, <2>2 DEF Sent, N
  <2>4. CASE seq % HistSize = e
    <3>1. Entry(seq).data' = sent
      <4>1. s_history[e] \in [valid : BOOLEAN, seqnum : SeqNums,
                              data : SeqNums \cup {NoFrame}]
        BY <1>1 DEF LinkInv, HistoryOK
      <4>2. s_history'[e] = [s_history[e] EXCEPT !.data = s_tx_seq]
        BY <1>1, <2>1
      <4> QED BY <2>3, <2>4, <4>1, <4>2 DEF Entry
    <3> QED BY <2>3, <3>1 DEF Sent, N
  <2>5. CASE seq % HistSize # e
    <3>1. Entry(seq)' = Entry(seq)
      BY <1>1, <2>1, <2>5 DEF Entry
    <3>2. Done(seq)
      <4>1. seq # s_tx_seq  BY <2>5
      <4>2. N(seq) # N(s_tx_seq)  BY <1>1, <4>1, SameN
      <4>3. N(seq) \in 0 .. N(s_tx_seq)
        BY <1>1, <2>2 DEF Done, N
      <4> QED BY <1>1, <4>2, <4>3 DEF Done
    <3>3. Sent(Entry(seq).data)'  BY <1>1, <1>2, <3>1, <3>2 DEF Sent, N
    <3> QED BY <3>3
  <2> QED BY <2>4, <2>5
<1>4. CASE TxLabel
  <2>1. /\ s_tx_seq' = s_tx_seq
        /\ s_history' = [s_history EXCEPT ![s_tx_seq % HistSize] =
             [s_history[s_tx_seq % HistSize] EXCEPT !.valid = TRUE,
                                                    !.seqnum = s_tx_seq]]
    BY <1>4 DEF TxLabel
  <2>2. s_history[s_tx_seq % HistSize] \in
          [valid : BOOLEAN, seqnum : SeqNums, data : SeqNums \cup {NoFrame}]
    BY <1>1 DEF LinkInv, HistoryOK
  <2>3. Entry(seq).data' = Entry(seq).data
    BY <1>1, <2>1, <2>2 DEF Entry
  <2>4. Done(seq)  BY <2>1 DEF Done, N
  <2> QED BY <1>1, <1>2, <2>3, <2>4 DEF Sent, N
<1>5. CASE ~TxCopy /\ ~TxLabel
  <2>1. s_tx_seq' = s_tx_seq /\ s_history' = s_history
    BY <1>5 DEF LinkNext, TxSend, ServeBegin, ServeCheck, ServeGiveUp,
       ServeLabel, ServeSend, Receive, Player, linkVars, senderVars
  <2>2. Done(seq) /\ Entry(seq)' = Entry(seq)
    BY <2>1 DEF Done, N, Entry
  <2> QED BY <1>1, <1>2, <2>2 DEF Sent, N
<1> QED BY <1>3, <1>4, <1>5

LEMMA PacketsCarry ==
  ASSUME ListenInv, [LinkNext]_linkVars, NEW pkt \in packets'
  PROVE  PacketOf(pkt)'
<1>1. /\ \A x \in SeqNums : Sent(x) => Sent(x)'
      /\ s_tx_seq \in SeqNums /\ N(s_tx_seq) \in Int /\ N(s_tx_seq) >= 0
  <2>1. Sends \/ UNCHANGED senderVars
    BY DEF LinkNext, Sends, ServeBegin, ServeCheck, ServeGiveUp, ServeLabel,
           ServeSend, Receive, Player, linkVars
  <2> QED BY <2>1, Grows, NType DEF ListenInv, LinkInv, SenderOK
<1>2. CASE pkt \in packets
  <2>1. PICK seq, data \in SeqNums :
          /\ Sent(seq) /\ Sent(data) /\ pkt = AudioPkt(seq, data)
          /\ Prompt => data = seq
    BY <1>2 DEF ListenInv, CarriedOK, PacketOf
  <2>2. Sent(seq)' /\ Sent(data)'  BY <1>1, <2>1
  <2> QED BY <2>1, <2>2 DEF PacketOf, Prompt, AudioPkt
<1>3. CASE pkt \notin packets /\ TxSend
  <2>1. /\ pkt = AudioPkt(s_tx_seq, s_tx_seq) /\ s_tx_seq' = s_tx_seq
        /\ tx_pc' = "label"
    BY <1>3 DEF TxSend
  <2>2. PICK seq \in SeqNums : seq = s_tx_seq /\ Sent(seq)'
    BY <1>1, <2>1 DEF Sent, N
  <2> QED BY <2>1, <2>2 DEF PacketOf, AudioPkt
<1>4. CASE pkt \notin packets /\ ServeSend
  <2>1. /\ serving # <<>> /\ label \in SeqNums /\ Sent(label)
        /\ tx_pc = "copy" => Sent(s_tx_seq)
    BY <1>1, <1>4 DEF ServeSend, ListenInv, LinkInv, ServingOK, Sent
  <2>2. Head(serving) \in SeqNums /\ Done(Head(serving))
    BY <2>1, HeadDone DEF ListenInv, LinkInv
  <2>3. /\ Entry(Head(serving)).data \in SeqNums
        /\ Sent(Entry(Head(serving)).data)
    BY <2>2 DEF ListenInv, CarriedOK, LinkInv, HistoryOK
  <2>4. PICK data \in Copied(Head(serving)) : pkt = AudioPkt(label, data)
    BY <1>4 DEF ServeSend
  <2>5. data \in SeqNums /\ Sent(data)
    BY <1>1, <2>1, <2>3, <2>4 DEF Copied
  <2>6. ~Prompt
    <3> SUFFICES ASSUME Prompt PROVE FALSE  OBVIOUS
    <3>1. HistDividesSeqs /\ MaxLag + 1 < HistSize  BY PromptDivides
    <3>2. /\ Head(serving) = serving[1] /\ 1 \in 1 .. Len(serving)
      BY <2>1 DEF ListenInv, LinkInv, ServingOK
    <3>3. N(s_tx_seq) - N(Head(serving)) <= MaxLag + 1
      <4>1. N(s_tx_seq) - N(serving[1]) <=
              IF tx_pc = "send" THEN MaxLag + 1 ELSE MaxLag
        BY <3>2 DEF ListenInv, LagOK
      <4>2. N(Head(serving)) \in Int /\ MaxLag \in Nat
        BY <2>2, NType, LinkTypes, LinkAssumption
      <4> HIDE DEF N
      <4> QED BY <1>1, <3>2, <4>1, <4>2
    <3>4. Young(Head(serving))
      <4>1. N(Head(serving)) \in Int /\ MaxLag \in Nat /\ HistSize \in Nat
        BY <2>2, NType, LinkTypes, LinkAssumption
      <4> HIDE DEF N
      <4> QED BY <1>1, <3>1, <3>3, <4>1 DEF Young
    <3>5. packets' = packets
      BY <1>4, <3>1, <3>4, YoungResent DEF ListenInv
    <3> QED BY <1>4, <3>5
  <2>7. Sent(label)' /\ Sent(data)'
    <3>1. label' = label  BY <1>4 DEF ServeSend
    <3> QED BY <1>1, <2>1, <2>5, <3>1 DEF Sent, N
  <2>8. PICK seq \in SeqNums : seq = label /\ Sent(seq)'
    <3>1. label' = label  BY <1>4 DEF ServeSend
    <3> QED BY <1>1, <2>1
  <2>9. Sent(data)'  BY <1>1, <2>5
  <2> QED BY <2>4, <2>5, <2>6, <2>8, <2>9 DEF PacketOf, Prompt, AudioPkt
<1>5. CASE ~TxSend /\ ~ServeSend
  <2>1. packets' = packets
    BY <1>5 DEF LinkNext, TxLabel, TxCopy, ServeBegin, ServeCheck, ServeGiveUp,
       ServeLabel, Receive, Player, linkVars
  <2> QED BY <1>2, <2>1
<1> QED BY <1>2, <1>3, <1>4, <1>5

LEMMA LagKept ==
  ASSUME ListenInv, [LinkNext]_linkVars
  PROVE  LagOK'
<1>1. /\ s_tx_seq \in SeqNums /\ N(s_tx_seq) \in 0 .. MaxFrames
      /\ serving \in Seq(SeqNums)
      /\ \A k \in 1 .. Len(serving) :
           serving[k] \in SeqNums /\ N(serving[k]) \in 0 .. MaxFrames
      /\ MaxLag \in Nat /\ MaxFrames \in Nat /\ Len(serving) \in Nat
  <2>1. ASSUME NEW k \in 1 .. Len(serving)
        PROVE  serving[k] \in SeqNums /\ N(serving[k]) \in 0 .. MaxFrames
    <3>1. /\ serving[k] \in SeqNums /\ Done(serving[k])
          /\ s_tx_seq \in SeqNums /\ N(s_tx_seq) \in 0 .. MaxFrames
      BY DEF ListenInv, LinkInv, ServingOK, SenderOK
    <3>2. N(serving[k]) \in 0 .. (N(s_tx_seq) - 1) /\ MaxFrames \in Nat
      BY <3>1, LinkTypes DEF Done
    <3> HIDE DEF N
    <3> QED BY <3>1, <3>2
  <2> QED BY <2>1, LinkTypes, LinkAssumption
     DEF ListenInv, LinkInv, SenderOK, ServingOK
<1>2. CASE TxSend
  <2>1. /\ s_tx_seq' = s_tx_seq /\ serving' = serving /\ tx_pc' = "label"
        /\ \A k \in 1 .. Len(serving) : Age(serving[k]) <= MaxLag
    BY <1>1, <1>2 DEF TxSend, serverVars
  <2>2. \A k \in 1 .. Len(serving) : Age(serving[k]) = N(s_tx_seq) - N(serving[k])
    BY <1>1, DiffIs DEF Age
  <2> HIDE DEF N
  <2>3. \A k \in 1 .. Len(serving) : N(s_tx_seq) - N(serving[k]) <= MaxLag
    BY <2>1, <2>2
  <2> QED BY <2>1, <2>3 DEF LagOK, N
<1>3. CASE TxLabel
  <2>1. /\ s_tx_seq' = s_tx_seq /\ serving' = serving
        /\ tx_pc = "label" /\ tx_pc' = "copy"
    BY <1>3 DEF TxLabel, serverVars
  <2> QED BY <2>1 DEF ListenInv, LagOK, N
<1>4. CASE TxCopy
  <2>1. /\ s_tx_seq' = SeqAdd(s_tx_seq, 1) /\ serving' = serving
        /\ tx_pc = "copy" /\ tx_pc' = "send"
    BY <1>4 DEF TxCopy, serverVars
  <2>2. N(s_tx_seq') = N(s_tx_seq) + 1
    <3>1. N(s_tx_seq) + 1 <= MaxFrames
      BY <1>1, <2>1, LinkTypes DEF ListenInv, LinkInv, SenderOK
    <3> QED BY <1>1, <2>1, <3>1, AddIs
  <2>3. \A k \in 1 .. Len(serving) : N(s_tx_seq) - N(serving[k]) <= MaxLag
    BY <2>1 DEF ListenInv, LagOK
  <2>4. \A k \in 1 .. Len(serving) :
          N(s_tx_seq') - N(serving[k]) <= MaxLag + 1
    <3> HIDE DEF N
    <3> QED BY <1>1, <2>2, <2>3
  <2> QED BY <2>1, <2>4 DEF LagOK, N
<1>5. CASE ServeBegin
  <2>1. PICK pkt \in requests : serving' = pkt_get_nacks(pkt)
    BY <1>5 DEF ServeBegin
  <2>2. /\ serving' \in Seq(SeqNums)
        /\ \A k \in 1 .. Len(serving') : Done(serving'[k])
    BY <2>1 DEF ListenInv, LinkInv, RequestsOK
  <2>3. /\ s_tx_seq' = s_tx_seq /\ tx_pc' = tx_pc
        /\ \A k \in DOMAIN serving' : Age(serving'[k]) <= MaxLag
    BY <1>5 DEF ServeBegin, senderVars
  <2>4. ASSUME NEW k \in 1 .. Len(serving')
        PROVE  /\ N(s_tx_seq) - N(serving'[k]) <= MaxLag
               /\ N(s_tx_seq) - N(serving'[k]) \in Int
    <3>1. /\ serving'[k] \in SeqNums /\ N(serving'[k]) \in 0 .. MaxFrames
          /\ Age(serving'[k]) <= MaxLag
      BY <1>1, <2>2, <2>3, <2>4, NType DEF Done
    <3>2. Age(serving'[k]) = N(s_tx_seq) - N(serving'[k])
      BY <1>1, <3>1, DiffIs DEF Age
    <3> HIDE DEF N
    <3> QED BY <1>1, <3>1, <3>2
  <2>5. \A k \in 1 .. Len(serving') : N(s_tx_seq) - N(serving'[k]) <=
          IF tx_pc = "send" THEN MaxLag + 1 ELSE MaxLag
    <3> HIDE DEF N
    <3> QED BY <1>1, <2>4
  <2> QED BY <2>3, <2>5 DEF LagOK, N
<1>6. CASE ServeSend
  <2>1. /\ serving' = Tail(serving) /\ s_tx_seq' = s_tx_seq /\ tx_pc' = tx_pc
        /\ serving # <<>>
    BY <1>6 DEF ServeSend, senderVars, ListenInv, LinkInv, ServingOK
  <2>2. /\ Len(serving') = Len(serving) - 1
        /\ \A k \in 1 .. Len(serving') : serving'[k] = serving[k + 1]
    BY <1>1, <2>1, HeadTailProperties
  <2>3. \A k \in 1 .. Len(serving') : k + 1 \in 1 .. Len(serving)
    BY <1>1, <2>2
  <2>4. \A k \in 1 .. Len(serving') : N(s_tx_seq) - N(serving'[k]) <=
          IF tx_pc = "send" THEN MaxLag + 1 ELSE MaxLag
    BY <2>2, <2>3 DEF ListenInv, LagOK
  <2> QED BY <2>1, <2>4 DEF LagOK, N
<1>7. CASE ServeGiveUp
  <2>1. serving' = <<>> /\ Len(serving') = 0  BY <1>7 DEF ServeGiveUp
  <2> QED BY <2>1 DEF LagOK
<1>8. CASE ServeCheck \/ ServeLabel \/ Receive \/ Player \/ UNCHANGED linkVars
  <2>1. s_tx_seq' = s_tx_seq /\ tx_pc' = tx_pc /\ serving' = serving
    BY <1>8 DEF ServeCheck, ServeLabel, Receive, Player, linkVars, senderVars,
                serverVars
  <2> QED BY <2>1 DEF ListenInv, LagOK, N
<1> QED BY <1>2, <1>3, <1>4, <1>5, <1>6, <1>7, <1>8 DEF LinkNext

LEMMA AnchorKept ==
  ASSUME ListenInv, [LinkNext]_linkVars
  PROVE  AnchorOK'
<1>1. \A x \in SeqNums : Sent(x) => Sent(x)'
  <2>1. Sends \/ UNCHANGED senderVars
    BY DEF LinkNext, Sends, ServeBegin, ServeCheck, ServeGiveUp, ServeLabel,
           ServeSend, Receive, Player, linkVars
  <2> QED BY <2>1, Grows DEF ListenInv, LinkInv
<1>2. read_seq \in SeqNums /\ (~anchored => ~started)
  BY DEF ListenInv, LinkInv, IInv, TypeOK, IdleIsEmpty
<1>3. ASSUME read_seq' = read_seq, anchored' => anchored, started => started'
      PROVE  AnchorOK'
  BY <1>1, <1>2, <1>3 DEF ListenInv, AnchorOK, Sent, N
<1>4. CASE Receive
  <2>1. PICK pkt \in packets : LET audio == pkt_get_audio(pkt) IN
                                 Put(audio.seqnum, audio.data[1])
    BY <1>4 DEF Receive
  <2>2. PICK seq, data \in SeqNums : Sent(seq) /\ pkt = AudioPkt(seq, data)
    BY DEF ListenInv, CarriedOK, PacketOf
  <2>3. /\ anchored' = TRUE /\ started' = (anchored /\ started)
        /\ read_seq' = IF anchored THEN read_seq ELSE seq
    BY <2>1, <2>2, AudioPktParses DEF Put
  <2>4. CASE anchored  BY <1>3, <2>3, <2>4
  <2>5. CASE ~anchored
    <3>1. Sent(seq)'  BY <1>1, <2>2
    <3> QED BY <2>3, <2>5, <3>1 DEF AnchorOK, Sent, N
  <2> QED BY <2>4, <2>5
<1>5. CASE Player
  <2>1. Get  BY <1>5 DEF Player
  <2>2. CASE Prebuffer  BY <1>3, <2>2 DEF Prebuffer, bufVars
  <2>3. CASE Play \/ Skip  BY <2>3 DEF Play, Skip, AnchorOK
  <2>4. CASE Underrun  BY <2>4 DEF Underrun, AnchorOK
  <2> QED BY <2>1, <2>2, <2>3, <2>4 DEF Get
<1>6. CASE ~Receive /\ ~Player
  <2>1. UNCHANGED jitterVars
    BY <1>6 DEF LinkNext, TxSend, TxLabel, TxCopy, ServeBegin, ServeCheck,
                ServeGiveUp, ServeLabel, ServeSend, linkVars
  <2> QED BY <1>3, <2>1 DEF jitterVars, bufVars
<1> QED BY <1>4, <1>5, <1>6

LEMMA ListenInit == LinkInit => ListenInv
<1> SUFFICES ASSUME LinkInit PROVE ListenInv  OBVIOUS
<1>1. /\ s_tx_seq = FirstSeq /\ packets = {} /\ serving = <<>>
      /\ anchored = FALSE
  BY DEF LinkInit, Init
<1>2. \A seq \in SeqNums : ~Done(seq)
  BY <1>1, FirstIsZero, NType DEF Done
<1>3. CarriedOK  BY <1>1, <1>2 DEF CarriedOK
<1>4. LagOK  BY <1>1 DEF LagOK
<1> QED BY <1>1, <1>3, <1>4, InitLink, YoungInit DEF ListenInv, AnchorOK

LEMMA ListenStep == ListenInv /\ [LinkNext]_linkVars => ListenInv'
<1> SUFFICES ASSUME ListenInv, [LinkNext]_linkVars PROVE ListenInv'
  OBVIOUS
<1>1. LinkInv'  BY StepLink DEF ListenInv
<1>2. CarriedOK'
  <2>1. \A pkt \in packets' : PacketOf(pkt)'  BY PacketsCarry
  <2>2. \A seq \in SeqNums : Done(seq)' => Sent(Entry(seq).data)'
    BY HistoryCarries DEF ListenInv
  <2> QED BY <2>1, <2>2 DEF CarriedOK
<1>3. Prompt => YoungOK'
  BY PromptDivides, YoungStep DEF ListenInv
<1> QED BY <1>1, <1>2, <1>3, LagKept, AnchorKept DEF ListenInv, Prompt

LEMMA ListenInvariant == LinkSpec => []ListenInv
BY ListenInit, ListenStep, PTL DEF LinkSpec

LEMMA RecordedIs ==
  ASSUME SenderOK
  PROVE  /\ Recorded = {seq \in SeqNums : Sent(seq)}
         /\ NextFrame \in SeqNums
<1>1. /\ s_tx_seq \in SeqNums /\ N(s_tx_seq) \in 0 .. MaxFrames
      /\ tx_pc # "send" => N(s_tx_seq) < MaxFrames
      /\ MaxFrames \in Nat
  BY LinkTypes DEF SenderOK
<1>2. CASE tx_pc = "send"
  BY <1>1, <1>2 DEF Recorded, NextFrame, Sent, N
<1>3. CASE tx_pc # "send"
  <2>1. /\ SeqAdd(s_tx_seq, 1) \in SeqNums
        /\ N(SeqAdd(s_tx_seq, 1)) = N(s_tx_seq) + 1
    <3>1. N(s_tx_seq) >= 0 /\ N(s_tx_seq) + 1 <= MaxFrames
      <4> HIDE DEF N
      <4> QED BY <1>1, <1>3
    <3> QED BY <1>1, <3>1, AddIs
  <2>2. 0 .. (N(SeqAdd(s_tx_seq, 1)) - 1) = 0 .. (N(s_tx_seq) - 0)
    <3> HIDE DEF N
    <3> QED BY <1>1, <2>1
  <2> QED BY <1>3, <2>1, <2>2 DEF Recorded, NextFrame, Sent, N
<1> QED BY <1>2, <1>3

RecordedSent == Recorded = {seq \in SeqNums : Sent(seq)}

LEMMA RecordedNext == SenderOK' => RecordedSent'
<1>1. SenderOK => RecordedSent  BY RecordedIs DEF RecordedSent
<1> QED BY <1>1, PTL

TurnNow == IF started THEN read_seq ELSE SeqMod
EarNow == IF out.kind = "OK" THEN out.data ELSE SeqMod

(* Handing over a frame records it; the history is written unheard.        *)
LEMMA SendRefines ==
  ASSUME ListenInv, Sends
  PROVE  Heard!Record \/ UNCHANGED Heard!listenerVars
<1>1. UNCHANGED jitterVars  BY DEF Sends, TxSend, TxLabel, TxCopy
<1>2. UNCHANGED <<TurnNow, EarNow>>
  BY <1>1 DEF jitterVars, bufVars, TurnNow, EarNow
<1>3. SenderOK /\ SenderOK'
  BY Grows DEF ListenInv, LinkInv
<1>4. /\ Recorded = {seq \in SeqNums : Sent(seq)} /\ NextFrame \in SeqNums
      /\ Recorded' = {seq \in SeqNums : Sent(seq)'}
  BY <1>3, RecordedIs, RecordedNext DEF RecordedSent
<1>5. CASE TxSend
  <2>1. s_tx_seq' = s_tx_seq /\ tx_pc = "send" /\ tx_pc' = "label"
    BY <1>5 DEF TxSend
  <2>2. NextFrame = s_tx_seq /\ NextFrame' = Heard!After(NextFrame)
    BY <2>1 DEF NextFrame, SeqAdd, Heard!After
  <2>3. /\ N(s_tx_seq) \in Int /\ N(s_tx_seq) >= 0 /\ s_tx_seq \in SeqNums
        /\ \A seq \in SeqNums : N(seq) \in Int
    BY <1>3, NType DEF SenderOK
  <2>4. \A seq \in SeqNums : Sent(seq)' <=> Sent(seq) \/ seq = s_tx_seq
    <3>1. \A seq \in SeqNums : N(seq) = N(s_tx_seq) => seq = s_tx_seq
      BY <2>3, SameN
    <3>2. \A seq \in SeqNums : /\ Sent(seq)' <=> N(seq) \in 0 .. N(s_tx_seq)
                               /\ Sent(seq) <=> N(seq) \in 0 .. (N(s_tx_seq) - 1)
      BY <2>1, <2>3 DEF Sent, N
    <3> HIDE DEF N
    <3> QED BY <2>3, <3>1, <3>2
  <2>5. Recorded' = Recorded \cup {NextFrame}
    BY <1>4, <2>2, <2>4
  <2> QED BY <1>2, <2>2, <2>5 DEF Heard!Record, TurnNow, EarNow
<1>6. CASE TxLabel
  <2>1. s_tx_seq' = s_tx_seq /\ tx_pc = "label" /\ tx_pc' = "copy"
    BY <1>6 DEF TxLabel
  <2>2. NextFrame' = NextFrame  BY <2>1 DEF NextFrame
  <2>3. Recorded' = Recorded  BY <2>2 DEF Recorded
  <2> QED BY <1>2, <2>2, <2>3 DEF Heard!listenerVars, TurnNow, EarNow
<1>7. CASE TxCopy
  <2>1. /\ s_tx_seq' = SeqAdd(s_tx_seq, 1)
        /\ tx_pc = "copy" /\ tx_pc' = "send"
    BY <1>7 DEF TxCopy
  <2>2. NextFrame' = NextFrame  BY <2>1 DEF NextFrame
  <2>3. Recorded' = Recorded  BY <2>2 DEF Recorded
  <2> QED BY <1>2, <2>2, <2>3 DEF Heard!listenerVars, TurnNow, EarNow
<1> QED BY <1>5, <1>6, <1>7 DEF Sends

(* What arrives is not heard yet, and what is asked for never is.          *)
LEMMA ArrivalRefines ==
  ASSUME ListenInv, Serves \/ Receive \/ UNCHANGED linkVars
  PROVE  UNCHANGED Heard!listenerVars
<1>1. s_tx_seq' = s_tx_seq /\ tx_pc' = tx_pc /\ out' = out
  BY DEF Serves, ServeBegin, ServeCheck, ServeGiveUp, ServeLabel, ServeSend,
     Receive, Put, linkVars, senderVars, jitterVars
<1>2. started' = started /\ (started => read_seq' = read_seq)
  <2>1. CASE Receive
    <3>1. ~anchored => ~started
      BY DEF ListenInv, LinkInv, IInv, IdleIsEmpty
    <3>2. started \in BOOLEAN  BY DEF ListenInv, LinkInv, IInv, TypeOK
    <3>3. started' = (anchored /\ started)
          /\ read_seq' = IF anchored THEN read_seq ELSE read_seq'
      BY <2>1 DEF Receive, Put
    <3> QED BY <3>1, <3>2, <3>3
  <2>2. CASE Serves \/ UNCHANGED linkVars
    BY <2>2 DEF Serves, ServeBegin, ServeCheck, ServeGiveUp, ServeLabel,
       ServeSend, linkVars, jitterVars, bufVars
  <2> QED BY <2>1, <2>2
<1>3. UNCHANGED <<NextFrame, Recorded, TurnNow, EarNow>>
  BY <1>1, <1>2 DEF NextFrame, Recorded, TurnNow, EarNow
<1> QED BY <1>3 DEF Heard!listenerVars, TurnNow, EarNow

(* The player hears the frame whose turn it is, misses it, or loses the    *)
(* thread.                                                                 *)
LEMMA PlayerRefines ==
  ASSUME ListenInv, Player
  PROVE  Heard!Hear \/ Heard!Miss \/ Heard!LoseThread
<1>1. Get /\ UNCHANGED <<NextFrame, Recorded>>
  BY DEF Player, senderVars, NextFrame, Recorded
<1>2. /\ read_seq \in SeqNums /\ started \in BOOLEAN
      /\ Recorded = {seq \in SeqNums : Sent(seq)}
      /\ \A seq \in SeqNums : seq # SeqMod
      /\ IInv
  BY RecordedIs, SeqModAssumption
     DEF ListenInv, LinkInv, IInv, TypeOK, SeqNums
<1>3. Running => read_seq \in (IF TurnNow = Heard!None THEN Recorded ELSE {TurnNow})
  <2>1. CASE started
    BY <1>2, <2>1 DEF TurnNow, Heard!None
  <2>2. CASE ~started
    BY <1>2, <2>2 DEF Running, ListenInv, AnchorOK, TurnNow, Heard!None
  <2> QED BY <2>1, <2>2
<1>4. CASE Play
  <2>1. /\ Running /\ Holds(read_seq) /\ started' = TRUE
        /\ read_seq' = SeqAdd(read_seq, 1)
        /\ out'.kind = "OK" /\ out'.data = slots[SlotOf(read_seq)].data
    BY <1>4 DEF Play, GoodFrame
  <2>2. SlotOf(read_seq) \in SlotIndices  BY <1>2, SlotOfType
  <2>3. Carried(read_seq, out'.data)
    BY <2>1, <2>2 DEF Holds, ListenInv, LinkInv, BufferOK
  <2>4. PICK pkt \in packets :
          pkt_get_audio(pkt) = [seqnum |-> read_seq, data |-> <<out'.data>>]
    BY <2>3 DEF Carried
  <2>5. PICK seq, data \in SeqNums :
          /\ Sent(seq) /\ Sent(data) /\ pkt = AudioPkt(seq, data)
          /\ Prompt => data = seq
    BY DEF ListenInv, CarriedOK, PacketOf
  <2>6. read_seq = seq /\ out'.data = data
    BY <2>4, <2>5, AudioPktParses
  <2>7. /\ TurnNow' = Heard!After(read_seq) /\ EarNow' = data
        /\ read_seq \in Recorded /\ data \in Recorded
        /\ Prompt => data = read_seq
    BY <1>2, <2>1, <2>5, <2>6 DEF TurnNow, EarNow, Heard!After, SeqAdd
  <2> QED BY <1>1, <1>3, <2>1, <2>7 DEF Heard!Hear, Heard!Due, TurnNow, EarNow
<1>5. CASE Skip
  <2>1. /\ Running /\ started' = TRUE /\ read_seq' = SeqAdd(read_seq, 1)
        /\ out'.kind = "CONCEAL"
    BY <1>5 DEF Skip, ConcealInto, Silence
  <2>2. TurnNow' = Heard!After(read_seq) /\ EarNow' = Heard!None
    BY <2>1 DEF TurnNow, EarNow, Heard!After, Heard!None, SeqAdd
  <2> QED BY <1>1, <1>3, <2>1, <2>2 DEF Heard!Miss, Heard!Due, TurnNow, EarNow
<1>6. CASE Prebuffer \/ Underrun
  <2>1. started' = FALSE /\ out'.kind = "PREBUFFER"
    BY <1>2, <1>6 DEF Prebuffer, Underrun, Running, bufVars, ConcealInto, Silence
  <2> QED BY <1>1, <2>1 DEF Heard!LoseThread, Heard!None, TurnNow, EarNow
<1> QED BY <1>1, <1>4, <1>5, <1>6 DEF Get

(* One direction of audio is what Listener promises: the listener hears the*)
(* frames in their order, each in its own period, and starts anew only from*)
(* a silence; and if requests are answered promptly, every frame heard is  *)
(* the one that was recorded under its number.                             *)
THEOREM LinkServesListener == LinkSpec => ImplementsListener
<1>1. LinkInit => Heard!Init
  <2> SUFFICES ASSUME LinkInit PROVE Heard!Init  OBVIOUS
  <2>1. /\ s_tx_seq = FirstSeq /\ tx_pc = "send" /\ started = FALSE
        /\ out.kind = "PREBUFFER"
    BY DEF LinkInit, Init
  <2>2. NextFrame = FirstSeq  BY <2>1 DEF NextFrame
  <2>3. Recorded = {}
    <3>1. N(FirstSeq) = 0  BY FirstIsZero
    <3> QED BY <2>2, <3>1 DEF Recorded, N
  <2> QED BY <2>1, <2>2, <2>3 DEF Heard!Init, Heard!None
<1>2. ListenInv /\ [LinkNext]_linkVars => [Heard!Next]_(Heard!listenerVars)
  <2> SUFFICES ASSUME ListenInv, [LinkNext]_linkVars
               PROVE  [Heard!Next]_(Heard!listenerVars)
    OBVIOUS
  <2>1. CASE Sends
    BY <2>1, SendRefines DEF Heard!Next
  <2>2. CASE Serves \/ Receive \/ UNCHANGED linkVars
    BY <2>2, ArrivalRefines
  <2>3. CASE Player
    BY <2>3, PlayerRefines DEF Heard!Next
  <2> QED BY <2>1, <2>2, <2>3 DEF LinkNext, Sends, Serves
<1> QED BY <1>1, <1>2, ListenInvariant, PTL
        DEF LinkSpec, ImplementsListener, Heard!Spec
=============================================================================
