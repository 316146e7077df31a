-------------------------------- MODULE Pkt --------------------------------
(***************************************************************************)
(* The packets of the audio connection (pkt.c): a block of requested       *)
(* numbers, a block of audio, or one after the other.  A payload is a      *)
(* sequence of fields, one for each number and each piece of audio; sizes  *)
(* and places are counted in fields.  pkt_init resets the flags alone, so  *)
(* a packet is built over whatever the payload held before.                *)
(***************************************************************************)
EXTENDS Naturals, Sequences

CONSTANTS
  NACK_MAX_SEQS,    \* numbers that a request may carry, 32 in the code
  AUDIO_BUF_SIZE    \* pieces of audio that a packet may carry

ASSUME PktAssumption == NACK_MAX_SEQS \in Nat /\ AUDIO_BUF_SIZE \in Nat

(* sizeof(nack_pkt_t) + sizeof(audio_pkt_t)                                *)
PAYLOAD_MAX == (1 + NACK_MAX_SEQS) + (2 + AUDIO_BUF_SIZE)

(* The memory of a packet, its fields taken from a set.                    *)
Pkts(fields) == [nack : BOOLEAN, audio : BOOLEAN,
                 payload : [1 .. PAYLOAD_MAX -> fields]]

Write(payload, place, fields) ==
  [k \in DOMAIN payload |-> IF k - place \in 1 .. Len(fields)
                            THEN fields[k - place] ELSE payload[k]]

(* The count fields after a place.                                         *)
Read(payload, place, count) == [k \in 1 .. count |-> payload[place + k]]

nack_block_size(pkt) == IF pkt.nack THEN 1 + pkt.payload[1] ELSE 0

pkt_init(pkt) == [pkt EXCEPT !.nack = FALSE, !.audio = FALSE]

Capped(seqs) == IF Len(seqs) > NACK_MAX_SEQS
                THEN SubSeq(seqs, 1, NACK_MAX_SEQS) ELSE seqs

(* Requests come first: with audio there already the call does nothing.    *)
pkt_add_nack(pkt, seqs) ==
  IF pkt.audio THEN pkt
  ELSE [pkt EXCEPT !.nack = TRUE,
                   !.payload = Write(@, 0, <<Len(Capped(seqs))>> \o Capped(seqs))]

(* Slip: the audio block goes to the start of the payload.                 *)
add_audio_first(pkt, seqnum, data) ==
  IF Len(data) > AUDIO_BUF_SIZE THEN pkt
  ELSE [pkt EXCEPT !.audio = TRUE,
                   !.payload = Write(@, 0, <<seqnum, Len(data)>> \o data)]

pkt_add_audio(pkt, seqnum, data) ==
  IF Len(data) > AUDIO_BUF_SIZE THEN pkt
  ELSE [pkt EXCEPT !.audio = TRUE,
                   !.payload = Write(@, nack_block_size(pkt),
                                     <<seqnum, Len(data)>> \o data)]

pkt_get_size(pkt) ==
  nack_block_size(pkt) +
    IF pkt.audio THEN 2 + pkt.payload[nack_block_size(pkt) + 2] ELSE 0

(* What the receiver gets: the flags and as many fields as were sent.      *)
pkt_send(pkt) == [pkt EXCEPT !.payload = SubSeq(@, 1, pkt_get_size(pkt))]

(* The two blocks of a packet, where its magic names them.                 *)
NULL == "NULL"

pkt_get_nacks(pkt) ==
  IF pkt.nack THEN Read(pkt.payload, 1, pkt.payload[1]) ELSE NULL

pkt_get_audio(pkt) ==
  LET place == nack_block_size(pkt)
  IN  IF pkt.audio
      THEN [seqnum |-> pkt.payload[place + 1],
            data |-> Read(pkt.payload, place + 2, pkt.payload[place + 2])]
      ELSE NULL

-----------------------------------------------------------------------------
(* Properties.                                                             *)

(* A packet is built of requests and audio in memory that held another,    *)
(* sent and parsed: what comes out is what went in, up to the limits.      *)
Parsed(pkt, seqs, seqnum, data) ==
  LET wire == pkt_send(pkt_add_audio(pkt_add_nack(pkt_init(pkt), seqs),
                                     seqnum, data))
  IN  /\ wire.nack /\ pkt_get_nacks(wire) = Capped(seqs)
      /\ wire.audio <=> Len(data) <= AUDIO_BUF_SIZE
      /\ wire.audio => pkt_get_audio(wire) = [seqnum |-> seqnum, data |-> data]
=============================================================================
