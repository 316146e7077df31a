------------------------------ MODULE PassRing ------------------------------
(***************************************************************************)
(* The passthrough ring of audio_transport.c, used while the jitter buffer *)
(* is disabled: the receive thread puts what arrives, the player takes one *)
(* frame per period, each under s_pass_mtx and so in one step.             *)
(***************************************************************************)
EXTENDS Naturals, Sequences

CONSTANTS
  PASS_RING_DEPTH,   \* 16 in the code
  Frames,            \* what a packet may carry
  Silence            \* a zeroed slot

ASSUME PassRingAssumption == PASS_RING_DEPTH \in Nat \ {0}

VARIABLES
  s_pass_ring,    \* the slots, zeroed by calloc
  s_pass_head,    \* the oldest frame
  s_pass_tail,    \* where the next one goes
  s_pass_count,   \* frames waiting
  out             \* what the last passthrough_get wrote

passVars == <<s_pass_ring, s_pass_head, s_pass_tail, s_pass_count, out>>

Slots == 0 .. (PASS_RING_DEPTH - 1)
After(slot) == (slot + 1) % PASS_RING_DEPTH

Init ==
  /\ s_pass_ring = [slot \in Slots |-> Silence]
  /\ s_pass_head = 0
  /\ s_pass_tail = 0
  /\ s_pass_count = 0
  /\ out = Silence

(* audio_transport_open of the next session: a new ring, from its start.   *)
Reopen ==
  /\ s_pass_ring' = [slot \in Slots |-> Silence]
  /\ s_pass_head' = 0
  /\ s_pass_tail' = 0
  /\ s_pass_count' = 0
  /\ UNCHANGED out

passthrough_put(frame) ==
  LET full == s_pass_count = PASS_RING_DEPTH
  IN  /\ s_pass_head' = IF full THEN After(s_pass_head) ELSE s_pass_head
      /\ s_pass_count' = IF full THEN s_pass_count ELSE s_pass_count + 1
      /\ s_pass_ring' = [s_pass_ring EXCEPT ![s_pass_tail] = frame]
      /\ s_pass_tail' = After(s_pass_tail)
      /\ UNCHANGED out

(* Slip: the slot under the tail is read, not the one under the head.      *)
get_at_tail ==
  IF s_pass_count = 0
  THEN /\ out' = Silence
       /\ UNCHANGED <<s_pass_ring, s_pass_head, s_pass_tail, s_pass_count>>
  ELSE /\ out' = s_pass_ring[s_pass_tail]
       /\ s_pass_head' = After(s_pass_head)
       /\ s_pass_count' = s_pass_count - 1
       /\ UNCHANGED <<s_pass_ring, s_pass_tail>>

passthrough_get ==
  IF s_pass_count = 0
  THEN /\ out' = Silence
       /\ UNCHANGED <<s_pass_ring, s_pass_head, s_pass_tail, s_pass_count>>
  ELSE /\ out' = s_pass_ring[s_pass_head]
       /\ s_pass_head' = After(s_pass_head)
       /\ s_pass_count' = s_pass_count - 1
       /\ UNCHANGED <<s_pass_ring, s_pass_tail>>

Next == \/ passthrough_get
        \/ \E frame \in Frames : passthrough_put(frame)
        \/ Reopen

Spec == Init /\ [][Next]_passVars

-----------------------------------------------------------------------------

(* The cursors and the counter describe one stretch of the ring: the tail  *)
(* is count slots after the head, also when an overwrite moved both.       *)
RingOK ==
  /\ s_pass_ring \in [Slots -> Frames \cup {Silence}]
  /\ s_pass_head \in Slots /\ s_pass_tail \in Slots
  /\ s_pass_count \in 0 .. PASS_RING_DEPTH
  /\ s_pass_tail = (s_pass_head + s_pass_count) % PASS_RING_DEPTH
  /\ out \in Frames \cup {Silence}

(* The waiting frames as a sequence, from the head on.                     *)
Waiting == [k \in 1 .. s_pass_count |->
              s_pass_ring[(s_pass_head + (k - 1)) % PASS_RING_DEPTH]]

Fifo == INSTANCE FrameQueue
          WITH Depth <- PASS_RING_DEPTH, queue <- Waiting, played <- out

(* The ring is a queue that gives up its oldest frames: nothing is         *)
(* reordered, repeated or dropped out of the middle, whatever the wrap.    *)
IsFifo == Fifo!Spec
=============================================================================
