------------------------------- MODULE Jitter -------------------------------
(***************************************************************************)
(* The jitter buffer of components/audio/jitter.c.                         *)
(*                                                                         *)
(* The receive thread puts the packets it gets from the network, the       *)
(* player takes one frame per period.  Both operations run under the       *)
(* buffer's mutex, so each is one action.  A packet's audio is one value   *)
(* of Payloads: what the properties need of it is which frame it is.       *)
(***************************************************************************)
EXTENDS SeqNum, Sequences, FiniteSets

CONSTANTS
  SlotCap,      \* slot_cap: slots of the ring, 64 in the code
  TargetDepth,  \* target_diff: packets to prebuffer, 3 in the code
  MaxNack,      \* JITTER_MAX_NACK: missing packets asked for at once, 32
  ConcealMode,  \* conceal: "PCM" fades the last frame, "NONE" is silence
  FullGain,     \* 1.0f in steps of JITTER_CONCEAL_FADE_STEP, 8 in the code
  Payloads,     \* the audio a packet may carry
  NoFrame       \* an empty slot, or silence

ASSUME JitterAssumption ==
  /\ SlotCap \in Nat \ {0}
  /\ TargetDepth \in Nat
  /\ TargetDepth < SlotCap
  /\ SlotCap <= HalfSeq
  /\ MaxNack \in Nat
  /\ ConcealMode \in {"PCM", "NONE"}
  /\ FullGain \in Nat \ {0}
  /\ NoFrame \notin Payloads
  /\ NoFrame \notin [seq : SeqNums, data : Payloads]

VARIABLES
  started,        \* playback runs
  anchored,       \* read_seq and write_seq mean something
  read_seq,       \* next sequence number to play
  write_seq,      \* highest sequence number inserted
  slots,          \* the ring: what each valid slot holds, NoFrame if invalid
  slots_count,    \* the counter of valid slots
  last_slot,      \* most recent good frame, NoFrame while have_last is false
  was_concealed,  \* the previous output was concealed or silence
  conceal_gain,   \* level of the fade, in steps
  out             \* what the last jitter_get returned and wrote

bufVars == <<started, anchored, read_seq, write_seq, slots, slots_count>>
concealVars == <<last_slot, was_concealed, conceal_gain>>
jitterVars == <<bufVars, concealVars, out>>

SlotIndices == 0 .. (SlotCap - 1)
Frames == [seq : SeqNums, data : Payloads]
Gains == 0 .. FullGain

(* The result of jitter_get: the code it returns, and the audio it wrote   *)
(* with the gain at the first and after the last sample of the frame.      *)
Outputs == [kind : {"OK", "CONCEAL", "PREBUFFER"},
            data : Payloads \cup {NoFrame}, g0 : Gains, g1 : Gains]

SlotOf(seq) == seq % SlotCap
ValidSlots == {i \in SlotIndices : slots[i] # NoFrame}
(* Slip: any frame in the slot passes for the one sought.                  *)
HoldsAny(seq) == slots[SlotOf(seq)] # NoFrame

Holds(seq) == /\ slots[SlotOf(seq)] # NoFrame
              /\ slots[SlotOf(seq)].seq = seq

Init ==
  /\ started = FALSE /\ anchored = FALSE
  /\ read_seq = 0 /\ write_seq = 0
  /\ slots = [i \in SlotIndices |-> NoFrame]
  /\ slots_count = 0
  /\ last_slot = NoFrame
  /\ was_concealed = FALSE
  /\ conceal_gain = FullGain
  /\ out = [kind |-> "PREBUFFER", data |-> NoFrame, g0 |-> 0, g1 |-> 0]

-----------------------------------------------------------------------------
(* jitter_put.                                                             *)

(* Slip: one packet too many is let in ahead of the window.                *)
AcceptsOneMore(seqnum) ==
  anchored => /\ started => SeqDiff(seqnum, read_seq) >= 0
              /\ SeqDiff(seqnum, read_seq) <= SlotCap

(* A packet is dropped when its turn has passed, or when it is so far ahead*)
(* that the ring has no slot for it; the packet that anchors never is.     *)
Accepts(seqnum) ==
  anchored => /\ started => SeqDiff(seqnum, read_seq) >= 0
              /\ SeqDiff(seqnum, read_seq) < SlotCap

(* Slip: the gap is counted from the highest packet itself.                *)
NacksFromWrite(seqnum) ==
  LET jumped == IF anchored THEN SeqDiff(seqnum, write_seq) - 1 ELSE 0
  IN  IF ~Accepts(seqnum) THEN <<>>
      ELSE [k \in 1 .. jumped |-> SeqAdd(write_seq, k - 1)]

(* The sequence numbers asked for again when seqnum is put: those jumped   *)
(* over since the highest one inserted, oldest first, at most MaxNack.  Of *)
(* these the ones whose turn has passed come first, and are skipped.       *)
Nacks(seqnum) ==
  LET jumped == IF anchored THEN SeqDiff(seqnum, write_seq) - 1 ELSE 0
      Passed(k) == started /\ SeqDiff(SeqAdd(write_seq, k), read_seq) < 0
      skipped == Cardinality({k \in 1 .. jumped : Passed(k)})
      wanted == jumped - skipped
  IN  IF ~Accepts(seqnum) THEN <<>>
      ELSE [k \in 1 .. (IF wanted < MaxNack THEN wanted ELSE MaxNack) |->
              SeqAdd(write_seq, skipped + k)]

(* Slip: a packet put over another one is counted again.                   *)
InsertCountsTwice(seqnum, data) ==
  /\ slots' = [slots EXCEPT ![SlotOf(seqnum)] =
                  [seq |-> seqnum, data |-> data]]
  /\ slots_count' = slots_count + 1

Insert(seqnum, data) ==
  /\ slots' = [slots EXCEPT ![SlotOf(seqnum)] =
                  [seq |-> seqnum, data |-> data]]
  /\ slots_count' = IF slots[SlotOf(seqnum)] = NoFrame
                    THEN slots_count + 1 ELSE slots_count

(* Slip: the packet that anchors does not set the read position.           *)
PutKeepsPosition(seqnum, data) ==
  /\ anchored' = TRUE
  /\ started' = (anchored /\ started)
  /\ write_seq' = IF ~anchored \/ ( /\ Accepts(seqnum)
                                    /\ SeqDiff(seqnum, write_seq) > 0 )
                  THEN seqnum ELSE write_seq
  /\ IF Accepts(seqnum) THEN Insert(seqnum, data)
                        ELSE UNCHANGED <<slots, slots_count>>
  /\ UNCHANGED <<concealVars, out, read_seq>>

(* Slip: a late packet moves the highest position back.                    *)
PutMovesBack(seqnum, data) ==
  /\ anchored' = TRUE
  /\ started' = (anchored /\ started)
  /\ read_seq' = IF anchored THEN read_seq ELSE seqnum
  /\ write_seq' = IF Accepts(seqnum) THEN seqnum ELSE write_seq
  /\ IF Accepts(seqnum) THEN Insert(seqnum, data)
                        ELSE UNCHANGED <<slots, slots_count>>
  /\ UNCHANGED <<concealVars, out>>

Put(seqnum, data) ==
  /\ anchored' = TRUE
  /\ started' = (anchored /\ started)
  /\ read_seq' = IF anchored THEN read_seq ELSE seqnum
  /\ write_seq' = IF ~anchored \/ ( /\ Accepts(seqnum)
                                    /\ SeqDiff(seqnum, write_seq) > 0 )
                  THEN seqnum ELSE write_seq
  /\ IF Accepts(seqnum) THEN Insert(seqnum, data)
                        ELSE UNCHANGED <<slots, slots_count>>
  /\ UNCHANGED <<concealVars, out>>

-----------------------------------------------------------------------------
(* jitter_get.                                                             *)

Silence(kind) == [kind |-> kind, data |-> NoFrame, g0 |-> 0, g1 |-> 0]

(* conceal_into: silence, or the last good frame one step further down.    *)
ConcealInto(kind) ==
  /\ was_concealed' = TRUE
  /\ UNCHANGED last_slot
  /\ \/ /\ ConcealMode = "NONE"
        /\ out' = Silence(kind)
        /\ UNCHANGED conceal_gain
     \/ /\ ConcealMode = "PCM"
        /\ last_slot = NoFrame \/ conceal_gain = 0
        /\ out' = Silence(kind)
        /\ conceal_gain' = 0
     \/ /\ ConcealMode = "PCM"
        /\ last_slot # NoFrame /\ conceal_gain > 0
        /\ out' = [kind |-> kind, data |-> last_slot,
                   g0 |-> conceal_gain, g1 |-> conceal_gain - 1]
        /\ conceal_gain' = conceal_gain - 1

(* Slip: a good frame starts at full level whatever was before it.         *)
GoodFrameAtFull(data) ==
  /\ was_concealed' = FALSE
  /\ out' = [kind |-> "OK", data |-> data, g0 |-> FullGain, g1 |-> FullGain]
  /\ last_slot' = data /\ conceal_gain' = FullGain

(* A good frame: faded back in when the output before it was not at full.  *)
GoodFrame(data) ==
  /\ was_concealed' = FALSE
  /\ out' = [kind |-> "OK", data |-> data, g1 |-> FullGain,
             g0 |-> IF ConcealMode = "PCM" /\ was_concealed
                    THEN conceal_gain ELSE FullGain]
  /\ IF ConcealMode = "PCM"
     THEN last_slot' = data /\ conceal_gain' = FullGain
     ELSE UNCHANGED <<last_slot, conceal_gain>>

Running == started \/ (anchored /\ slots_count >= TargetDepth)

Prebuffer ==
  /\ ~Running
  /\ ConcealInto("PREBUFFER")
  /\ UNCHANGED bufVars

Play ==
  /\ Running
  /\ Holds(read_seq)
  /\ started' = TRUE
  /\ slots' = [slots EXCEPT ![SlotOf(read_seq)] = NoFrame]
  /\ slots_count' = slots_count - 1
  /\ read_seq' = SeqAdd(read_seq, 1)
  /\ GoodFrame(slots[SlotOf(read_seq)].data)
  /\ UNCHANGED <<anchored, write_seq>>

(* Slip: playback stops at a missing frame, whatever the ring still holds. *)
UnderrunAtOnce ==
  /\ Running
  /\ ~Holds(read_seq)
  /\ started' = FALSE /\ anchored' = FALSE
  /\ ConcealInto("PREBUFFER")
  /\ UNCHANGED <<read_seq, write_seq, slots, slots_count>>

(* Slip: an underrun stops playback but keeps the old position.            *)
UnderrunAnchored ==
  /\ Running
  /\ ~Holds(read_seq)
  /\ slots_count = 0
  /\ started' = FALSE
  /\ ConcealInto("PREBUFFER")
  /\ UNCHANGED <<anchored, read_seq, write_seq, slots, slots_count>>

Underrun ==
  /\ Running
  /\ ~Holds(read_seq)
  /\ slots_count = 0
  /\ started' = FALSE /\ anchored' = FALSE
  /\ ConcealInto("PREBUFFER")
  /\ UNCHANGED <<read_seq, write_seq, slots, slots_count>>

(* Slip: the gap is passed over at once.                                   *)
SkipToNewest ==
  /\ Running
  /\ ~Holds(read_seq)
  /\ slots_count # 0
  /\ started' = TRUE
  /\ read_seq' = write_seq
  /\ ConcealInto("CONCEAL")
  /\ UNCHANGED <<anchored, write_seq, slots, slots_count>>

Skip ==
  /\ Running
  /\ ~Holds(read_seq)
  /\ slots_count # 0
  /\ started' = TRUE
  /\ read_seq' = SeqAdd(read_seq, 1)
  /\ ConcealInto("CONCEAL")
  /\ UNCHANGED <<anchored, write_seq, slots, slots_count>>

Get == Prebuffer \/ Play \/ Underrun \/ Skip

(* The most general client: any packet may arrive at any time.             *)
Next == (\E seqnum \in SeqNums, data \in Payloads : Put(seqnum, data)) \/ Get

Spec == Init /\ [][Next]_jitterVars

-----------------------------------------------------------------------------
(* Properties.                                                             *)

(* Every variable has its C type, narrowed to the values the code stores.  *)
TypeOK ==
  /\ started \in BOOLEAN /\ anchored \in BOOLEAN
  /\ read_seq \in SeqNums /\ write_seq \in SeqNums
  /\ slots \in [SlotIndices -> Frames \cup {NoFrame}]
  /\ slots_count \in Nat
  /\ last_slot \in Payloads \cup {NoFrame}
  /\ was_concealed \in BOOLEAN
  /\ conceal_gain \in Gains
  /\ out \in Outputs

(* The counter that decides when playback starts and when it has run dry   *)
(* is the number of valid slots, whatever was put over whatever.           *)
CountExact == slots_count = Cardinality(ValidSlots)

(* A buffer that has let go of its position holds no frame of the old      *)
(* stream, so the next packet starts from nothing.                         *)
IdleIsEmpty == ~anchored => ~started /\ ValidSlots = {}

(* A frame sits in the slot its sequence number selects.                   *)
Placed == \A i \in ValidSlots : SlotOf(slots[i].seq) = i

(* A frame still to be played: its sequence number is in the window.       *)
Pending(i) == /\ slots[i] # NoFrame
              /\ SeqDiff(slots[i].seq, read_seq) \in SlotIndices

(* While playback runs, a frame waiting for its turn leaves the ring only  *)
(* by being played: no other packet ever takes its slot.                   *)
PendingKept ==
  [][started => \A i \in SlotIndices :
        Pending(i) => \/ slots'[i] # NoFrame /\ slots'[i].seq = slots[i].seq
                      \/ slots[i].seq = read_seq /\ out'.kind = "OK"]_jitterVars

(* The level of the output does not jump: each frame begins at the level   *)
(* the frame before it ended with, whatever mixture of good frames,        *)
(* concealment, underruns and restarts the player met.  The very first     *)
(* good frame has nothing before it.                                       *)
NoLevelJump ==
  [][Get /\ last_slot # NoFrame => out'.g0 = out.g1]_jitterVars
=============================================================================
