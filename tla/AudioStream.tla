---------------------------- MODULE AudioStream ----------------------------
(***************************************************************************)
(* A jitter buffer fed by one sender over a link that loses packets but    *)
(* neither reorders nor repeats them: audio_transport_send numbers the     *)
(* packets one by one, the receive thread puts what arrives, the player    *)
(* takes frames at its own pace.  No packet is retransmitted (AudioLink    *)
(* does that).  Two things are bounded: how many packets are lost in a row,*)
(* and how far the sender gets ahead of the player.  Both run at the rate  *)
(* of the same sound, so the code's 2^15 frames would take a stall of five *)
(* minutes.                                                                *)
(***************************************************************************)
EXTENDS Jitter

CONSTANTS
  MaxBurst,   \* packets lost in a row, at most
  MaxAhead    \* frames the sender may be ahead of the player

ASSUME StreamAssumption ==
  /\ MaxBurst \in Nat
  /\ MaxAhead \in Nat \ {0}
  /\ MaxAhead < HalfSeq

VARIABLES
  tx_seq,   \* s_tx_seq: the sequence number of the next packet
  burst,    \* how many packets in a row the link has lost
  heard     \* history: packets put since the buffer anchored, at most SlotCap

streamVars == <<jitterVars, tx_seq, burst, heard>>

StreamInit ==
  /\ Init
  /\ tx_seq = 0
  /\ burst = 0
  /\ heard = 0

InStep == anchored => SeqDiff(tx_seq, read_seq) < MaxAhead

Deliver ==
  /\ InStep
  /\ \E data \in Payloads : Put(tx_seq, data)
  /\ tx_seq' = SeqAdd(tx_seq, 1)
  /\ burst' = 0
  /\ heard' = IF ~anchored THEN 1
              ELSE IF heard < SlotCap THEN heard + 1 ELSE heard

Lose ==
  /\ InStep
  /\ burst < MaxBurst
  /\ burst' = burst + 1
  /\ tx_seq' = SeqAdd(tx_seq, 1)
  /\ UNCHANGED <<jitterVars, heard>>

Take == Get /\ UNCHANGED <<tx_seq, burst, heard>>

StreamNext == Deliver \/ Lose \/ Take

(* The sender's audio callback and the player's device run for the whole   *)
(* session, each at its own pace.                                          *)
StreamSpec == /\ StreamInit /\ [][StreamNext]_streamVars
              /\ WF_streamVars(Deliver \/ Lose) /\ WF_streamVars(Take)

-----------------------------------------------------------------------------

(* What audio_transport.h says of jitter_target, "packets to prebuffer     *)
(* before playback": that many packets of the stream suffice to start.     *)
PrebufferFills ==
  anchored /\ ~started /\ heard >= TargetDepth => slots_count >= TargetDepth

(* A packet is asked for again only when the buffer does not have it.      *)
NacksAreMissing ==
  LET nacks == Nacks(tx_seq)
  IN  \A k \in DOMAIN nacks : ~Holds(nacks[k])

(* Numbers are skipped only on the way to a frame that will be played: one *)
(* is waiting in the ring, fewer than SlotCap numbers ahead.  A frame left *)
(* in the ring by an earlier stretch of playback, counted but never played *)
(* (jitter.c:249), would keep the buffer from its underrun and skipping.   *)
SkipsEnd == [][Skip => \E i \in SlotIndices : Pending(i)]_streamVars

(* However the losses fall, the listener keeps hearing new frames.         *)
PlaybackResumes == []<>(out.kind = "OK") /\ []<><<Play>>_jitterVars
=============================================================================
