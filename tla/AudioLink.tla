----------------------------- MODULE AudioLink ------------------------------
(***************************************************************************)
(* One direction of audio between two instances of audio_transport.c: the  *)
(* thread that sends (audio_transport_send), the receive thread at the     *)
(* sender that answers requests for lost packets (history_resend_nacks),   *)
(* and the receive thread and the player at the other end, which share the *)
(* jitter buffer.                                                          *)
(*                                                                         *)
(* The two threads of the sender share s_history without a lock.  Each of  *)
(* their accesses to an entry is a step: its label (valid and seqnum), and *)
(* its data.  The network is UDP: a packet that was sent may arrive never, *)
(* late, out of order or several times, so what was sent stays available.  *)
(*                                                                         *)
(* A frame's audio is named by the number it is first sent under, and is   *)
(* one field of a packet (module Pkt).                                     *)
(***************************************************************************)
EXTENDS Jitter, Pkt, Functions

CONSTANTS
  HistSize,    \* s_history_size, 32 at the device and 64 at the server
  FirstSeq,    \* what rand() gave s_tx_seq
  MaxFrames,   \* bound: frames sent
  MaxLag       \* bound: frames sent until a request is answered or lost

ASSUME LinkAssumption ==
  /\ HistSize \in Nat \ {0}
  /\ FirstSeq \in SeqNums
  /\ MaxFrames \in Nat /\ MaxFrames < HalfSeq
  /\ MaxLag \in Nat
  /\ Payloads = SeqNums
  /\ MaxNack = NACK_MAX_SEQS
  /\ AUDIO_BUF_SIZE > 0

VARIABLES
  s_tx_seq,    \* next outbound audio seqnum
  tx_pc,       \* where audio_transport_send stands
  s_history,   \* the frames sent last
  packets,     \* audio on its way
  requests,    \* NACKs on their way
  serving,     \* what history_resend_nacks has left to do
  serve_pc,    \* where it stands
  label,       \* the seqnum it read for the packet it builds
  asked        \* history: what was asked for since the buffer anchored

senderVars == <<s_tx_seq, tx_pc, s_history>>
serverVars == <<serving, serve_pc, label>>
linkVars == <<jitterVars, senderVars, serverVars, packets, requests, asked>>

Entry(seq) == s_history[seq % HistSize]
Age(seq) == SeqDiff(s_tx_seq, seq)

(* A packet on the stack, the old contents of which do not matter, and the *)
(* two that the transport builds in it and sends.                          *)
Stack(flag, field) == [nack |-> flag, audio |-> flag,
                       payload |-> [k \in 1 .. PAYLOAD_MAX |-> field]]
AudioPkt(seq, data) == pkt_send(pkt_add_audio(pkt_init(Stack(FALSE, 0)), seq, <<data>>))
NackPkt(seqs) == pkt_send(pkt_add_nack(pkt_init(Stack(FALSE, 0)), seqs))

LinkInit ==
  /\ Init
  /\ s_tx_seq = FirstSeq
  /\ tx_pc = "send"
  /\ s_history = [i \in 0 .. (HistSize - 1) |->
                    [valid |-> FALSE, seqnum |-> 0, data |-> NoFrame]]
  /\ packets = {} /\ requests = {} /\ asked = {}
  /\ serving = <<>> /\ serve_pc = "idle" /\ label = 0

-----------------------------------------------------------------------------
(* audio_transport_send: the packet, then the history entry.               *)

TxSend ==
  /\ tx_pc = "send"
  /\ SeqDiff(s_tx_seq, FirstSeq) < MaxFrames
  /\ \A k \in DOMAIN serving : Age(serving[k]) <= MaxLag
  /\ packets' = packets \cup {AudioPkt(s_tx_seq, s_tx_seq)}
  /\ tx_pc' = "label"
  /\ UNCHANGED <<jitterVars, serverVars, s_tx_seq, s_history, requests, asked>>

(* Slip: the sequence number moves on before the history entry is written. *)
TxLabelNext ==
  /\ tx_pc = "label"
  /\ s_history' = [s_history EXCEPT ![s_tx_seq % HistSize] =
                     [@ EXCEPT !.valid = TRUE, !.seqnum = SeqAdd(s_tx_seq, 1)]]
  /\ tx_pc' = "copy"
  /\ UNCHANGED <<jitterVars, serverVars, s_tx_seq, packets, requests, asked>>

TxLabel ==
  /\ tx_pc = "label"
  /\ s_history' = [s_history EXCEPT ![s_tx_seq % HistSize] =
                     [@ EXCEPT !.valid = TRUE, !.seqnum = s_tx_seq]]
  /\ tx_pc' = "copy"
  /\ UNCHANGED <<jitterVars, serverVars, s_tx_seq, packets, requests, asked>>

(* Slip: the frame goes into the entry of the next one.                    *)
TxCopyNext ==
  /\ tx_pc = "copy"
  /\ s_history' = [s_history EXCEPT
                     ![SeqAdd(s_tx_seq, 1) % HistSize].data = s_tx_seq]
  /\ s_tx_seq' = SeqAdd(s_tx_seq, 1)
  /\ tx_pc' = "send"
  /\ UNCHANGED <<jitterVars, serverVars, packets, requests, asked>>

TxCopy ==
  /\ tx_pc = "copy"
  /\ s_history' = [s_history EXCEPT ![s_tx_seq % HistSize].data = s_tx_seq]
  /\ s_tx_seq' = SeqAdd(s_tx_seq, 1)
  /\ tx_pc' = "send"
  /\ UNCHANGED <<jitterVars, serverVars, packets, requests, asked>>

-----------------------------------------------------------------------------
(* history_resend_nacks, in the receive thread of the sender.              *)

ServeBegin ==
  /\ serve_pc = "idle"
  /\ \E pkt \in requests :
       /\ serving' = pkt_get_nacks(pkt)
       /\ \A k \in DOMAIN serving' : Age(serving'[k]) <= MaxLag
  /\ serve_pc' = "check"
  /\ UNCHANGED <<jitterVars, senderVars, packets, requests, label, asked>>

Found(seq) == Entry(seq).valid /\ Entry(seq).seqnum = seq

ServeCheck ==
  /\ serve_pc = "check"
  /\ Found(Head(serving))
  /\ serve_pc' = "label"
  /\ UNCHANGED <<jitterVars, senderVars, packets, requests, serving, label,
                 asked>>

ServeGiveUp ==
  /\ serve_pc = "check"
  /\ ~Found(Head(serving))
  /\ serve_pc' = "idle"
  /\ serving' = <<>>
  /\ UNCHANGED <<jitterVars, senderVars, packets, requests, label, asked>>

ServeLabel ==
  /\ serve_pc = "label"
  /\ label' = Entry(Head(serving)).seqnum
  /\ serve_pc' = "data"
  /\ UNCHANGED <<jitterVars, senderVars, packets, requests, serving, asked>>

(* The memcpy of an entry that is being overwritten may find either frame, *)
(* or some of each, which is as wrong as the frame the label does not name.*)
Copied(seq) ==
  {Entry(seq).data} \cup
    IF tx_pc = "copy" /\ s_tx_seq % HistSize = seq % HistSize
    THEN {s_tx_seq} ELSE {}

ServeSend ==
  /\ serve_pc = "data"
  /\ \E data \in Copied(Head(serving)) :
       packets' = packets \cup {AudioPkt(label, data)}
  /\ serving' = Tail(serving)
  /\ serve_pc' = IF Len(serving) > 1 THEN "check" ELSE "idle"
  /\ UNCHANGED <<jitterVars, senderVars, requests, label, asked>>

-----------------------------------------------------------------------------
(* rx_thread and the player at the receiver.                               *)

Missing(pkt) == Nacks(pkt_get_audio(pkt).seqnum)

Receive ==
  \E pkt \in packets :
    LET audio == pkt_get_audio(pkt)
        nacks == Missing(pkt)
    IN  /\ Put(audio.seqnum, audio.data[1])
        /\ requests' = requests \cup IF nacks = <<>> THEN {} ELSE {NackPkt(nacks)}
        /\ asked' = asked \cup Range(nacks)
        /\ UNCHANGED <<senderVars, serverVars, packets>>

Player ==
  /\ Get
  /\ asked' = IF anchored' THEN asked ELSE {}
  /\ UNCHANGED <<senderVars, serverVars, packets, requests>>

LinkNext ==
  \/ TxSend \/ TxLabel \/ TxCopy
  \/ ServeBegin \/ ServeCheck \/ ServeGiveUp \/ ServeLabel \/ ServeSend
  \/ Receive \/ Player

LinkSpec == LinkInit /\ [][LinkNext]_linkVars

-----------------------------------------------------------------------------
(* Properties.                                                             *)

(* However packets are repeated and reordered, the receiver asks for a     *)
(* missing one at most once until it loses its anchor: no packet that may  *)
(* arrive next makes jitter_put report it again.                           *)
AskedOnce ==
  \A pkt \in packets : Range(Missing(pkt)) \cap asked = {}

(* history_resend_nacks gives up only on a frame that the history no longer*)
(* reaches back to.                                                        *)
GivesUpOnOldOnly == [][ServeGiveUp => Age(Head(serving)) >= HistSize]_linkVars

(* A frame resent before the sender has come round to its entry is the very*)
(* packet sent before, though the two threads share the entry unlocked.    *)
YoungIntact ==
  [][ServeSend /\ Age(Head(serving)) < HistSize
       => packets' = packets]_linkVars

(* What is played as a good frame is what a packet of the number whose turn*)
(* it is carried: come at once, late, twice, or as a retransmission.       *)
HeardTrue ==
  out.kind = "OK" => \E pkt \in packets :
    pkt_get_audio(pkt) = [seqnum |-> SeqAdd(read_seq, SeqMod - 1),
                          data |-> <<out.data>>]

(* Requests and audio on their way, put into one packet, would reach the   *)
(* parser as they are: neither block overlaps the other, is cut short, or  *)
(* takes in what the memory held, though a packet takes fewer requests and *)
(* less audio than two of those there are.                                 *)
BlocksParse ==
  \A ask, more \in requests, pkt \in packets :
    LET audio == pkt_get_audio(pkt)
        seqs == pkt_get_nacks(ask) \o pkt_get_nacks(more)
        old == Stack(TRUE, audio.seqnum)
    IN  \A data \in {audio.data, audio.data \o audio.data} :
          Parsed(old, seqs, audio.seqnum, data)

(* Requests are answered before the sender comes round to the entry again, *)
(* or not at all; and the history divides the numbers, as 32 and 64 do, so *)
(* that it takes as long to come round where they wrap.                    *)
Prompt == /\ MaxLag + 1 < HistSize
          /\ \E k \in 1 .. SeqMod : SeqMod = HistSize * k

(* The frames handed to audio_transport_send so far, and the next one.     *)
NextFrame == IF tx_pc = "send" THEN s_tx_seq ELSE SeqAdd(s_tx_seq, 1)
Recorded ==
  {seq \in SeqNums :
     SeqDiff(seq, FirstSeq) \in 0 .. (SeqDiff(NextFrame, FirstSeq) - 1)}

Heard == INSTANCE Listener WITH
  Period <- SeqMod,
  First <- FirstSeq,
  Intact <- Prompt,
  recorded <- Recorded,
  next <- NextFrame,
  turn <- IF started THEN read_seq ELSE SeqMod,
  ear <- IF out.kind = "OK" THEN out.data ELSE SeqMod

(* What is heard is what Listener promises: the frames in their order, each*)
(* once and in its own period while the buffer keeps its thread, and if    *)
(* requests are answered promptly, as they were recorded.                  *)
ImplementsListener == Heard!Spec
=============================================================================
