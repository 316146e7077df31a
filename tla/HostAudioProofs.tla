--------------------------- MODULE HostAudioProofs --------------------------
(***************************************************************************)
(* The passthrough ring implements the bounded queue, for every depth, and *)
(* the host's callbacks lose and repeat no sample, for every size of frame,*)
(* however the audio library cuts the stream into calls.                   *)
(***************************************************************************)
EXTENDS HostAudio, ModArith, SequenceTheorems, TLAPS

(* The slot of the k-th waiting frame, counted from zero.                  *)
At(k) == (s_pass_head + k) % PASS_RING_DEPTH

LEMMA AfterType ==
  ASSUME NEW slot \in Slots
  PROVE  After(slot) \in Slots
<1>1. PASS_RING_DEPTH \in Nat \ {0} /\ slot + 1 \in Int
  BY PassRingAssumption DEF Slots
<1> QED BY <1>1, ModRange DEF After, Slots

LEMMA InitRingOK == Init => RingOK
<1> SUFFICES ASSUME Init PROVE RingOK  OBVIOUS
<1>1. PASS_RING_DEPTH \in Nat \ {0} /\ 0 \in Slots
  BY PassRingAssumption DEF Slots
<1>2. 0 % PASS_RING_DEPTH = 0
  BY <1>1, ModSmall DEF Slots
<1> QED BY <1>1, <1>2 DEF Init, RingOK

LEMMA PutRingOK ==
  ASSUME RingOK, NEW frame \in Frames, passthrough_put(frame)
  PROVE  RingOK'
<1> DEFINE n == PASS_RING_DEPTH
           h == s_pass_head
           c == s_pass_count
<1>1. /\ n \in Nat \ {0} /\ h \in Int /\ c \in Int /\ c \in 0 .. n
      /\ h + 1 \in Int /\ h + c \in Int /\ c - 1 \in Int /\ 1 \in Int
  BY PassRingAssumption DEF RingOK, Slots
<1>2. /\ s_pass_head' \in Slots /\ s_pass_tail' \in Slots
      /\ s_pass_ring' \in [Slots -> Frames \cup {Silence}]
      /\ out' \in Frames \cup {Silence}
  BY AfterType DEF passthrough_put, RingOK
<1>3. s_pass_tail' = (h + c + 1) % n
  <2>1. (((h + c) % n) + 1) % n = (h + c + 1) % n
    BY <1>1, ModAdd
  <2> QED BY <2>1 DEF passthrough_put, RingOK, After
<1>4. CASE c = n
  <2>1. (((h + 1) % n) + c) % n = (h + 1 + c) % n
    BY <1>1, ModAdd
  <2>2. h + 1 + c = h + c + 1  BY <1>1
  <2>3. s_pass_tail' = (s_pass_head' + s_pass_count') % n
    BY <1>3, <1>4, <2>1, <2>2 DEF passthrough_put, After
  <2> QED BY <1>1, <1>2, <1>4, <2>3 DEF passthrough_put, RingOK
<1>5. CASE c # n
  <2>1. h + (c + 1) = h + c + 1  BY <1>1
  <2>2. s_pass_tail' = (s_pass_head' + s_pass_count') % n
    BY <1>3, <1>5, <2>1 DEF passthrough_put
  <2> QED BY <1>1, <1>2, <1>5, <2>2 DEF passthrough_put, RingOK
<1> QED BY <1>4, <1>5

LEMMA GetRingOK == RingOK /\ passthrough_get => RingOK'
<1> SUFFICES ASSUME RingOK, passthrough_get PROVE RingOK'  OBVIOUS
<1> DEFINE n == PASS_RING_DEPTH
           h == s_pass_head
           c == s_pass_count
<1>1. /\ n \in Nat \ {0} /\ h \in Int /\ c \in Int /\ c \in 0 .. n
      /\ h + 1 \in Int /\ h + c \in Int /\ c - 1 \in Int /\ 1 \in Int
  BY PassRingAssumption DEF RingOK, Slots
<1>2. CASE c = 0
  BY <1>2 DEF passthrough_get, RingOK
<1>3. CASE c # 0
  <2>1. /\ s_pass_head' \in Slots /\ s_pass_count' \in 0 .. n
        /\ out' \in Frames \cup {Silence}
    BY <1>1, <1>3, AfterType DEF passthrough_get, RingOK
  <2>2. (((h + 1) % n) + (c - 1)) % n = ((h + 1) + (c - 1)) % n
    BY <1>1, ModAdd
  <2>3. (h + 1) + (c - 1) = h + c  BY <1>1
  <2>4. s_pass_tail' = (s_pass_head' + s_pass_count') % n
    BY <1>3, <2>2, <2>3 DEF passthrough_get, RingOK, After
  <2> QED BY <1>3, <2>1, <2>4 DEF passthrough_get, RingOK
<1> QED BY <1>2, <1>3

LEMMA ReopenRingOK == RingOK /\ Reopen => RingOK'
<1> SUFFICES ASSUME RingOK, Reopen PROVE RingOK'  OBVIOUS
<1>1. PASS_RING_DEPTH \in Nat \ {0} /\ 0 \in Slots
  BY PassRingAssumption DEF Slots
<1>2. 0 % PASS_RING_DEPTH = 0
  BY <1>1, ModSmall DEF Slots
<1> QED BY <1>1, <1>2 DEF Reopen, RingOK

LEMMA NextRingOK == RingOK /\ [Next]_passVars => RingOK'
<1> SUFFICES ASSUME RingOK, [Next]_passVars PROVE RingOK'  OBVIOUS
<1>1. CASE UNCHANGED passVars  BY <1>1 DEF passVars, RingOK
<1> QED BY <1>1, PutRingOK, GetRingOK, ReopenRingOK DEF Next

(* The cursors and the counter agree after any puts and gets.              *)
THEOREM RingCorrect == Spec => []RingOK
BY InitRingOK, NextRingOK, PTL DEF Spec

-----------------------------------------------------------------------------
(* The refinement.                                                         *)

WaitingOK ==
  /\ Waiting \in Seq(Frames \cup {Silence})
  /\ Len(Waiting) = s_pass_count
  /\ \A k \in 1 .. s_pass_count : Waiting[k] = s_pass_ring[At(k - 1)]

LEMMA WaitingSeq == RingOK => WaitingOK
<1> SUFFICES ASSUME RingOK PROVE WaitingOK  OBVIOUS
<1> DEFINE W(k) == s_pass_ring[(s_pass_head + (k - 1)) % PASS_RING_DEPTH]
<1>1. s_pass_count \in Nat  BY PassRingAssumption DEF RingOK
<1>2. ASSUME NEW k \in 1 .. s_pass_count
      PROVE  W(k) \in Frames \cup {Silence}
  <2>1. /\ PASS_RING_DEPTH \in Nat \ {0}
        /\ s_pass_head + (k - 1) \in Int
    BY PassRingAssumption, <1>1 DEF RingOK, Slots
  <2>2. (s_pass_head + (k - 1)) % PASS_RING_DEPTH \in Slots
    BY <2>1, ModRange DEF Slots
  <2> QED BY <2>2 DEF RingOK
<1>3. Waiting = [k \in 1 .. s_pass_count |-> W(k)]  BY DEF Waiting
<1>4. Waiting \in [1 .. s_pass_count -> Frames \cup {Silence}]
  BY <1>2, <1>3
<1>5. Waiting \in Seq(Frames \cup {Silence}) /\ Len(Waiting) = s_pass_count
  <2> HIDE DEF W
  <2> QED BY <1>1, <1>4
<1> QED BY <1>5 DEF WaitingOK, Waiting, At

(* Moving the head one slot on shifts the waiting frames by one place, and *)
(* the slot of a waiting frame is not the one a put writes.                *)
LEMMA ShiftAt ==
  ASSUME RingOK, NEW k \in Int
  PROVE  (After(s_pass_head) + k) % PASS_RING_DEPTH = At(k + 1)
<1>1. /\ PASS_RING_DEPTH \in Nat \ {0} /\ s_pass_head + 1 \in Int
      /\ s_pass_head \in Int
  BY PassRingAssumption DEF RingOK, Slots
<1>2. (((s_pass_head + 1) % PASS_RING_DEPTH) + k) % PASS_RING_DEPTH
        = (s_pass_head + 1 + k) % PASS_RING_DEPTH
  BY <1>1, ModAdd
<1>3. s_pass_head + 1 + k = s_pass_head + (k + 1)  BY <1>1
<1> QED BY <1>2, <1>3 DEF After, At

LEMMA OtherSlot ==
  ASSUME RingOK, NEW k \in Int, k # s_pass_count,
         k - s_pass_count < PASS_RING_DEPTH,
         s_pass_count - k < PASS_RING_DEPTH
  PROVE  At(k) # s_pass_tail
<1> DEFINE x == s_pass_head + k
           y == s_pass_head + s_pass_count
           n == PASS_RING_DEPTH
<1>1. /\ n \in Nat \ {0} /\ x \in Int /\ y \in Int
      /\ s_pass_head \in Int /\ s_pass_count \in Int
  BY PassRingAssumption DEF RingOK, Slots
<1>2. -n < x - y /\ x - y < n /\ x # y  BY <1>1
<1>3. x % n # y % n
  <2> HIDE DEF x, y, n
  <2> QED BY <1>1, <1>2, ModDistinct
<1> QED BY <1>3 DEF At, RingOK

LEMMA AtSlots ==
  ASSUME RingOK, NEW k \in Int
  PROVE  At(k) \in Slots
<1>1. /\ PASS_RING_DEPTH \in Nat \ {0}
      /\ s_pass_head + k \in Int
  BY PassRingAssumption DEF RingOK, Slots
<1> QED BY <1>1, ModRange DEF At, Slots

LEMMA PutRefines ==
  ASSUME RingOK, NEW frame \in Frames, passthrough_put(frame)
  PROVE  Fifo!Put(frame)
<1> DEFINE n == PASS_RING_DEPTH
           c == s_pass_count
           S == Frames \cup {Silence}
           rest == IF c = n THEN Tail(Waiting) ELSE Waiting
<1>1. /\ n \in Nat \ {0} /\ c \in Nat /\ c <= n /\ RingOK'
  BY PassRingAssumption, PutRingOK DEF RingOK
<1>2. /\ Waiting \in Seq(S) /\ Len(Waiting) = c
      /\ \A k \in 1 .. c : Waiting[k] = s_pass_ring[At(k - 1)]
  BY WaitingSeq DEF WaitingOK
<1>3. /\ Waiting' \in Seq(S) /\ Len(Waiting') = s_pass_count'
      /\ \A k \in 1 .. s_pass_count' : Waiting'[k] = s_pass_ring'[At(k - 1)']
  <2>1. WaitingOK'  BY <1>1, WaitingSeq, PTL
  <2> QED BY <2>1 DEF WaitingOK
<1>4. \A k \in Int : At(k) # s_pass_tail
                       => s_pass_ring'[At(k)] = s_pass_ring[At(k)]
  BY AtSlots DEF passthrough_put, RingOK
<1>5. s_pass_ring'[At(c)] = frame
  BY DEF passthrough_put, RingOK, At
<1>6. Waiting' = Append(rest, frame)
  <2>1. CASE c = n
    <3>1. Waiting # << >>  BY <1>1, <1>2, <2>1
    <3>2. /\ Tail(Waiting) \in Seq(S) /\ Len(Tail(Waiting)) = n - 1
          /\ \A k \in 1 .. (n - 1) : Tail(Waiting)[k] = Waiting[k + 1]
      BY <1>2, <2>1, <3>1, HeadTailProperties
    <3>3. /\ Append(Tail(Waiting), frame) \in Seq(S)
          /\ Len(Append(Tail(Waiting), frame)) = n
          /\ \A k \in 1 .. (n - 1) :
               Append(Tail(Waiting), frame)[k] = Waiting[k + 1]
          /\ Append(Tail(Waiting), frame)[n] = frame
      BY <1>1, <3>2, AppendProperties
    <3>4. s_pass_count' = n /\ s_pass_head' = After(s_pass_head)
      BY <2>1 DEF passthrough_put
    <3>5. ASSUME NEW k \in 1 .. n PROVE At(k - 1)' = At(k)
      <4>1. k - 1 \in Int /\ (k - 1) + 1 = k  OBVIOUS
      <4> QED BY <3>4, <4>1, ShiftAt DEF At
    <3>6. ASSUME NEW k \in 1 .. n
          PROVE  Waiting'[k] = Append(Tail(Waiting), frame)[k]
      <4>1. Waiting'[k] = s_pass_ring'[At(k)]
        BY <1>3, <3>4, <3>5
      <4>2. CASE k = n
        BY <1>5, <2>1, <3>3, <4>1, <4>2
      <4>3. CASE k # n
        <5>1. k \in Int /\ k + 1 \in 1 .. c /\ (k + 1) - 1 = k
          BY <1>1, <2>1, <4>3
        <5>2. At(k) # s_pass_tail
          BY <1>1, <2>1, <4>3, <5>1, OtherSlot
        <5>3. Waiting[k + 1] = s_pass_ring[At(k)]
          BY <1>2, <5>1
        <5>4. Append(Tail(Waiting), frame)[k] = Waiting[k + 1]
          BY <1>1, <3>3, <4>3
        <5> QED BY <1>4, <4>1, <5>1, <5>2, <5>3, <5>4
      <4> QED BY <4>2, <4>3
    <3> QED BY <1>3, <2>1, <3>3, <3>4, <3>6, SeqEqual
  <2>2. CASE c # n
    <3>1. /\ Append(Waiting, frame) \in Seq(S)
          /\ Len(Append(Waiting, frame)) = c + 1
          /\ \A k \in 1 .. c : Append(Waiting, frame)[k] = Waiting[k]
          /\ Append(Waiting, frame)[c + 1] = frame
      BY <1>2, AppendProperties
    <3>2. s_pass_count' = c + 1 /\ s_pass_head' = s_pass_head
      BY <2>2 DEF passthrough_put
    <3>3. ASSUME NEW k \in 1 .. (c + 1)
          PROVE  Waiting'[k] = Append(Waiting, frame)[k]
      <4>1. Waiting'[k] = s_pass_ring'[At(k - 1)]
        BY <1>3, <3>2 DEF At
      <4>2. CASE k = c + 1
        <5>1. k - 1 = c  BY <1>1, <4>2
        <5> QED BY <1>5, <3>1, <4>1, <4>2, <5>1
      <4>3. CASE k # c + 1
        <5>1. /\ k \in 1 .. c /\ k - 1 \in Int /\ k - 1 # c
              /\ (k - 1) - c < n /\ c - (k - 1) < n
          BY <1>1, <2>2, <4>3
        <5>2. At(k - 1) # s_pass_tail
          BY <5>1, OtherSlot
        <5> QED BY <1>2, <1>4, <3>1, <4>1, <5>1, <5>2
      <4> QED BY <4>2, <4>3
    <3> QED BY <1>3, <2>2, <3>1, <3>2, <3>3, SeqEqual
  <2> QED BY <2>1, <2>2
<1> QED BY <1>2, <1>6 DEF passthrough_put, Fifo!Put

LEMMA GetRefines ==
  ASSUME RingOK, passthrough_get
  PROVE  Fifo!Get
<1> DEFINE n == PASS_RING_DEPTH
           c == s_pass_count
           S == Frames \cup {Silence}
<1>1. n \in Nat \ {0} /\ c \in Nat /\ RingOK'
  BY PassRingAssumption, GetRingOK DEF RingOK
<1>2. /\ Waiting \in Seq(S) /\ Len(Waiting) = c
      /\ \A k \in 1 .. c : Waiting[k] = s_pass_ring[At(k - 1)]
  BY WaitingSeq DEF WaitingOK
<1>3. /\ Waiting' \in Seq(S) /\ Len(Waiting') = s_pass_count'
      /\ \A k \in 1 .. s_pass_count' : Waiting'[k] = s_pass_ring'[At(k - 1)']
  <2>1. WaitingOK'  BY <1>1, WaitingSeq, PTL
  <2> QED BY <2>1 DEF WaitingOK
<1>4. CASE c = 0
  <2>1. Waiting = << >>  BY <1>2, <1>4
  <2>2. Waiting' = Waiting  BY <1>4 DEF passthrough_get, Waiting
  <2> QED BY <1>4, <2>1, <2>2 DEF passthrough_get, Fifo!Get
<1>5. CASE c # 0
  <2>1. Waiting # << >>  BY <1>1, <1>2, <1>5
  <2>2. /\ Tail(Waiting) \in Seq(S) /\ Len(Tail(Waiting)) = c - 1
        /\ \A k \in 1 .. (c - 1) : Tail(Waiting)[k] = Waiting[k + 1]
    BY <1>2, <2>1, HeadTailProperties
  <2>3. out' = Head(Waiting)
    <3>1. At(0) = s_pass_head
      <4>1. s_pass_head \in 0 .. (n - 1) /\ s_pass_head + 0 = s_pass_head
        BY <1>1 DEF RingOK, Slots
      <4> QED BY <1>1, <4>1, ModSmall DEF At
    <3>2. Waiting[1] = s_pass_ring[At(1 - 1)]
      BY <1>1, <1>2, <1>5
    <3>3. Head(Waiting) = Waiting[1]  OBVIOUS
    <3> QED BY <1>5, <3>1, <3>2, <3>3 DEF passthrough_get
  <2>4. /\ s_pass_count' = c - 1 /\ s_pass_head' = After(s_pass_head)
        /\ s_pass_ring' = s_pass_ring
    BY <1>5 DEF passthrough_get
  <2>5. ASSUME NEW k \in 1 .. (c - 1)
        PROVE  Waiting'[k] = Tail(Waiting)[k]
    <3>1. k - 1 \in Int /\ (k - 1) + 1 = k /\ k + 1 \in 1 .. c
          /\ (k + 1) - 1 = k
      BY <1>1
    <3>2. At(k - 1)' = At(k)
      BY <2>4, <3>1, ShiftAt DEF At
    <3> QED BY <1>2, <1>3, <2>2, <2>4, <3>1, <3>2
  <2>6. Waiting' = Tail(Waiting)
    BY <1>3, <2>2, <2>4, <2>5, SeqEqual
  <2> QED BY <2>1, <2>3, <2>6 DEF Fifo!Get
<1> QED BY <1>4, <1>5

LEMMA ReopenRefines ==
  ASSUME RingOK, Reopen
  PROVE  Fifo!Clear
<1>1. RingOK'  BY ReopenRingOK
<1>2. WaitingOK'  BY <1>1, WaitingSeq, PTL
<1>3. Waiting' \in Seq(Frames \cup {Silence}) /\ Len(Waiting') = 0
  BY <1>2 DEF WaitingOK, Reopen
<1>4. Waiting' = << >>  BY <1>3
<1> QED BY <1>4 DEF Reopen, Fifo!Clear

(* Every step of the ring is a step of the queue of its waiting frames.    *)
THEOREM RingIsFifo == Spec => IsFifo
<1>1. Init => Fifo!Init
  <2> SUFFICES ASSUME Init PROVE Fifo!Init  OBVIOUS
  <2>1. Waiting \in Seq(Frames \cup {Silence}) /\ Len(Waiting) = 0
    BY InitRingOK, WaitingSeq DEF Init, WaitingOK
  <2>2. Waiting = << >>  BY <2>1
  <2> QED BY <2>2 DEF Init, Fifo!Init
<1>2. RingOK /\ [Next]_passVars => [Fifo!Next]_(Fifo!queueVars)
  <2> SUFFICES ASSUME RingOK, [Next]_passVars
               PROVE  [Fifo!Next]_(Fifo!queueVars)
    OBVIOUS
  <2>1. CASE passthrough_get
    BY <2>1, GetRefines DEF Fifo!Next
  <2>2. ASSUME NEW frame \in Frames, passthrough_put(frame)
        PROVE  Fifo!Next
    BY <2>2, PutRefines DEF Fifo!Next
  <2>3. CASE Reopen
    BY <2>3, ReopenRefines DEF Fifo!Next
  <2>4. CASE UNCHANGED passVars
    BY <2>4 DEF passVars, Fifo!queueVars, Waiting
  <2> QED BY <2>1, <2>2, <2>3, <2>4 DEF Next
<1> QED BY <1>1, <1>2, RingCorrect, PTL DEF Spec, IsFifo, Fifo!Spec

-----------------------------------------------------------------------------
(* The ring between the host's threads.                                    *)

(* The host uses the ring by its operations alone.                         *)
LEMMA HostUsesRing ==
  ASSUME [HostNext]_hostAudioVars
  PROVE  [Next]_passVars
<1>1. CASE UNCHANGED hostAudioVars
  BY <1>1 DEF hostAudioVars
<1>2. CASE Main
  BY <1>2 DEF Main, audio_transport_init, audio_transport_open_conn, start_spk,
     start_mic, stop_spk, stop_mic, audio_transport_close_conn,
     audio_transport_deinit, Next
<1>3. CASE Captures \/ audio_tx_thread \/ Plays
  BY <1>3 DEF Captures, audio_tx_thread, Plays
<1>4. CASE audio_rx_thread
  BY <1>4 DEF audio_rx_thread, Next
<1>5. CASE Receives
  BY <1>5 DEF Receives, Next
<1> QED BY <1>1, <1>2, <1>3, <1>4, <1>5 DEF HostNext

LEMMA HostRing == HostSpec => Spec
<1>1. HostInit => Init  BY DEF HostInit
<1> QED BY <1>1, HostUsesRing, PTL DEF HostSpec, Spec

(* While sessions come and go and the callbacks run as they like, what     *)
(* waits for the player is a queue that gives up its oldest frames.        *)
THEOREM HostPlaysFifo == HostSpec => IsFifo
BY HostRing, RingIsFifo, PTL

LEMMA HostRingOK == HostSpec => []RingOK
BY HostRing, RingCorrect, PTL

-----------------------------------------------------------------------------
(* What the histories keep.                                                *)

LEMMA HostTypes == /\ FRAME_SAMPLES \in Nat \ {0} /\ MaxCall \in Nat \ {0}
                   /\ Numbers \in Nat \ {0}
BY HostAudioAssumption

LEMMA AtMostIs ==
  ASSUME NEW limit \in Nat \ {0}, NEW n \in Nat \ {0}
  PROVE  AtMost(limit, n) \in 1 .. limit /\ AtMost(limit, n) \in 1 .. n
BY DEF AtMost

(* What a concatenation holds, place by place.                             *)
LEMMA JoinAt ==
  ASSUME NEW S, NEW s \in Seq(S), NEW t \in Seq(S)
  PROVE  /\ s \o t \in Seq(S) /\ Len(s \o t) = Len(s) + Len(t)
         /\ \A k \in 1 .. Len(s) : (s \o t)[k] = s[k]
         /\ \A k \in (Len(s) + 1) .. (Len(s) + Len(t)) :
              (s \o t)[k] = t[k - Len(s)]
OBVIOUS

(* A history loses samples only at its front, and only when it is full.    *)
LEMMA Remembers ==
  ASSUME NEW S, NEW history \in Seq(S), NEW samples \in Seq(S), samples # <<>>
  PROVE  \E d \in Nat :
           LET all == history \o samples
               r == Remember(history, samples)
           IN  /\ r \in Seq(S) /\ r # <<>> /\ d + Len(r) = Len(all)
               /\ \A k \in 1 .. Len(r) : r[k] = all[d + k]
               /\ Len(r) < 2 * FRAME_SAMPLES => d = 0
<1> DEFINE all == history \o samples
           start == Len(all) - 2 * FRAME_SAMPLES
           r == Remember(history, samples)
<1>1. /\ all \in Seq(S) /\ Len(all) \in Nat /\ Len(all) >= 1
      /\ FRAME_SAMPLES \in Nat /\ FRAME_SAMPLES >= 1 /\ start \in Int
  BY HostTypes
<1>2. r = IF start <= 0 THEN all ELSE SubSeq(all, start + 1, Len(all))
  BY DEF Remember
<1> HIDE DEF all, r
<1>3. CASE start <= 0
  <2>1. r = all /\ all # <<>> /\ 0 + Len(r) = Len(all)
    BY <1>1, <1>2, <1>3
  <2>2. \A k \in 1 .. Len(r) : r[k] = all[0 + k]
    BY <1>1, <2>1
  <2> QED BY <1>1, <2>1, <2>2 DEF all, r
<1>4. CASE ~(start <= 0)
  <2>1. r = SubSeq(all, start + 1, Len(all)) /\ start \in Nat
    BY <1>1, <1>2, <1>4
  <2>2. /\ r \in Seq(S) /\ Len(r) = Len(all) - start
        /\ \A k \in 1 .. Len(r) : r[k] = all[start + k]
    <3> HIDE DEF start
    <3>1. /\ start + 1 \in Int /\ Len(all) \in Int /\ start + 1 <= Len(all)
          /\ Len(all) - (start + 1) + 1 = Len(all) - start
      BY <1>1, <1>4, <2>1 DEF start
    <3>2. \A i \in start + 1 .. Len(all) : all[i] \in S
      BY <1>1, <2>1
    <3>3. /\ r \in Seq(S) /\ Len(r) = Len(all) - start
          /\ \A k \in 1 .. Len(all) - start : r[k] = all[start + 1 + k - 1]
      BY <2>1, <3>1, <3>2, SubSeqProperties
    <3>4. \A k \in Nat : start + 1 + k - 1 = start + k
      BY <2>1
    <3> QED BY <1>1, <2>1, <3>3, <3>4
  <2>3. Len(r) = 2 * FRAME_SAMPLES /\ r # <<>> /\ start + Len(r) = Len(all)
    BY <1>1, <2>2
  <2>4. Len(r) < 2 * FRAME_SAMPLES => start = 0
    <3>1. 2 * FRAME_SAMPLES \in Nat  BY <1>1
    <3> QED BY <2>3, <3>1
  <2> HIDE DEF start
  <2> QED BY <2>1, <2>2, <2>3, <2>4 DEF all, r
<1> QED BY <1>3, <1>4

-----------------------------------------------------------------------------
(* The samples sent and the ones waiting to be a frame are one run, which  *)
(* ends with the sample before the next to be captured, and which begins   *)
(* with sample 0 while the history is not full.                            *)

Sample == 0 .. (Numbers - 1)

(* The number of the sample captured i samples before the one numbered c.  *)
Behind(c, i) == (c - i) % Numbers

SentInv ==
  /\ sent \in Seq(Sample) /\ s_spk_acc \in Seq(Sample)
  /\ Len(s_spk_acc) < FRAME_SAMPLES
  /\ captured \in Sample /\ spk_left \in Nat
  /\ \A k \in 1 .. Len(s_spk_acc) :
       s_spk_acc[k] = Behind(captured, Len(s_spk_acc) + 1 - k)
  /\ \A k \in 1 .. Len(sent) :
       sent[k] = Behind(captured, Len(s_spk_acc) + Len(sent) + 1 - k)
  /\ Len(sent) < 2 * FRAME_SAMPLES
       => captured = (Len(s_spk_acc) + Len(sent)) % Numbers

(* What was played last is where the reading of the frame stands.          *)
Played == (Frames \cup {Silence}) \X (1 .. FRAME_SAMPLES)

HeardInv ==
  /\ heard \in Seq(Played) /\ out \in Frames \cup {Silence}
  /\ s_mic_avail \in {0, FRAME_SAMPLES} /\ s_mic_pos \in 0 .. s_mic_avail
  /\ mic_left \in Nat
  /\ heard = <<>> => s_mic_avail = 0
  /\ heard # <<>> => /\ s_mic_avail = FRAME_SAMPLES /\ s_mic_pos >= 1
                     /\ heard[Len(heard)] = <<out, s_mic_pos>>
  /\ HeardWhole

HistoryInv == SentInv /\ HeardInv

LEMMA InitHistory == HostInit => HistoryInv
<1> SUFFICES ASSUME HostInit PROVE HistoryInv  OBVIOUS
<1>1. 0 \in Sample /\ 0 % Numbers = 0
  BY HostTypes, ModSmall DEF Sample
<1>2. SentInv
  BY <1>1, HostTypes DEF HostInit, SentInv
<1>3. HeardInv
  BY DEF HostInit, HeardInv, HeardWhole, Init
<1> QED BY <1>2, <1>3 DEF HistoryInv

(* With n more samples captured, the same samples lie n further back.      *)
LEMMA FurtherBack ==
  ASSUME captured \in Sample, NEW n \in Int, NEW i \in Int,
         captured' = (captured + n) % Numbers
  PROVE  Behind(captured, i) = Behind(captured', i + n)
<1>1. /\ Numbers \in Nat \ {0} /\ captured \in Int /\ captured + n \in Int
      /\ -(i + n) \in Int
  BY HostTypes DEF Sample
<1>2. (((captured + n) % Numbers) + (-(i + n))) % Numbers
        = ((captured + n) + (-(i + n))) % Numbers
  BY <1>1, ModAdd
<1>3. (captured + n) + (-(i + n)) = captured - i
  BY <1>1
<1>4. /\ (captured + n) % Numbers \in Int
      /\ ((captured + n) % Numbers) + (-(i + n))
           = ((captured + n) % Numbers) - (i + n)
  <2>1. (captured + n) % Numbers \in Int  BY <1>1, ModRange
  <2> QED BY <1>1, <2>1
<1> QED BY <1>2, <1>3, <1>4 DEF Behind

LEMMA CaptureKeeps ==
  ASSUME SentInv, audio_tx_thread
  PROVE  SentInv'
<1> DEFINE n == AtMost(FRAME_SAMPLES - Len(s_spk_acc), spk_left)
           run == [k \in 1 .. n |-> (captured + k - 1) % Numbers]
           acc == s_spk_acc \o run
           L == Len(s_spk_acc)
           M == Len(sent)
<1>1. /\ sent \in Seq(Sample) /\ s_spk_acc \in Seq(Sample)
      /\ L \in Nat /\ M \in Nat /\ L < FRAME_SAMPLES
      /\ captured \in Sample /\ captured \in Int /\ spk_left \in Nat
      /\ spk_left > 0 /\ FRAME_SAMPLES \in Nat \ {0}
      /\ Numbers \in Nat \ {0}
  <2>1. /\ sent \in Seq(Sample) /\ s_spk_acc \in Seq(Sample)
        /\ L < FRAME_SAMPLES /\ captured \in Sample /\ spk_left \in Nat
    BY DEF SentInv
  <2>2. L \in Nat /\ M \in Nat  BY <2>1
  <2>3. captured \in Int  BY <2>1, HostTypes DEF Sample
  <2> QED BY <2>1, <2>2, <2>3, HostTypes DEF audio_tx_thread
<1>2. n \in Nat /\ n >= 1 /\ n <= FRAME_SAMPLES - L /\ n <= spk_left
  <2>1. FRAME_SAMPLES - L \in Nat \ {0} /\ spk_left \in Nat \ {0}
    BY <1>1
  <2>2. n \in 1 .. (FRAME_SAMPLES - L) /\ n \in 1 .. spk_left
    BY <2>1, AtMostIs
  <2> HIDE DEF n
  <2> QED BY <1>1, <2>2
<1>3. /\ captured' = (captured + n) % Numbers /\ spk_left' = spk_left - n
      /\ s_spk_acc' = IF Len(acc) = FRAME_SAMPLES THEN <<>> ELSE acc
      /\ sent' = IF Len(acc) = FRAME_SAMPLES THEN Remember(sent, acc) ELSE sent
  BY DEF audio_tx_thread
<1> HIDE DEF n
<1>4. run \in Seq(Sample) /\ Len(run) = n
      /\ \A k \in 1 .. n : run[k] = (captured + k - 1) % Numbers
  <2>1. \A k \in 1 .. n : (captured + k - 1) % Numbers \in Sample
    <3> SUFFICES ASSUME NEW k \in 1 .. n
                 PROVE  (captured + k - 1) % Numbers \in Sample
      OBVIOUS
    <3>1. captured + k - 1 \in Int  BY <1>1, <1>2
    <3> QED BY <1>1, <3>1, ModRange DEF Sample
  <2> QED BY <1>2, <2>1
<1> HIDE DEF run
<1>5. /\ acc \in Seq(Sample) /\ Len(acc) = L + n
      /\ \A k \in 1 .. L : acc[k] = s_spk_acc[k]
      /\ \A k \in (L + 1) .. (L + n) : acc[k] = run[k - L]
  BY <1>1, <1>4, JoinAt
<1> HIDE DEF acc
<1>6. captured' \in Sample /\ spk_left' \in Nat
  <2>1. captured + n \in Int  BY <1>1, <1>2
  <2>2. (captured + n) % Numbers \in Sample
    BY <1>1, <2>1, ModRange DEF Sample
  <2> QED BY <1>1, <1>2, <1>3, <2>2
<1>7. \A i \in Int : Behind(captured, i) = Behind(captured', i + n)
  BY <1>1, <1>2, <1>3, FurtherBack
<1>8. \A k \in 1 .. Len(acc) : acc[k] = Behind(captured', Len(acc) + 1 - k)
  <2> SUFFICES ASSUME NEW k \in 1 .. (L + n)
               PROVE  acc[k] = Behind(captured', L + n + 1 - k)
    BY <1>5
  <2>1. k \in Int /\ L + 1 - k \in Int /\ (L + 1 - k) + n = L + n + 1 - k
    BY <1>1, <1>2
  <2>2. Behind(captured, L + 1 - k) = Behind(captured', L + n + 1 - k)
    <3>1. Behind(captured, L + 1 - k) = Behind(captured', (L + 1 - k) + n)
      BY <1>7, <2>1
    <3> QED BY <2>1, <3>1
  <2>3. CASE k <= L
    <3>1. k \in 1 .. L  BY <1>1, <2>3
    <3>2. s_spk_acc[k] = Behind(captured, L + 1 - k)
      BY <3>1 DEF SentInv
    <3> QED BY <1>5, <2>2, <3>1, <3>2
  <2>4. CASE ~(k <= L)
    <3>1. k \in (L + 1) .. (L + n) /\ k - L \in 1 .. n
      BY <1>1, <1>2, <2>4
    <3>2. captured + (k - L) - 1 = captured - (L + 1 - k)
      BY <1>1, <2>1
    <3>3. acc[k] = (captured + (k - L) - 1) % Numbers
      BY <1>4, <1>5, <3>1
    <3> QED BY <2>2, <3>2, <3>3 DEF Behind
  <2> QED BY <2>3, <2>4
<1>9. \A k \in 1 .. M : sent[k] = Behind(captured', Len(acc) + M + 1 - k)
  <2> SUFFICES ASSUME NEW k \in 1 .. M
               PROVE  sent[k] = Behind(captured', L + n + M + 1 - k)
    BY <1>5
  <2>1. L + M + 1 - k \in Int /\ (L + M + 1 - k) + n = L + n + M + 1 - k
    BY <1>1, <1>2
  <2>2. sent[k] = Behind(captured, L + M + 1 - k)
    BY DEF SentInv
  <2> QED BY <1>7, <2>1, <2>2
<1>10. M < 2 * FRAME_SAMPLES => captured' = (Len(acc) + M) % Numbers
  <2> HAVE M < 2 * FRAME_SAMPLES
  <2>1. captured = (L + M) % Numbers  BY DEF SentInv
  <2>2. L + M \in Int /\ (L + M) + n = (L + n) + M  BY <1>1, <1>2
  <2>3. (((L + M) % Numbers) + n) % Numbers = ((L + M) + n) % Numbers
    <3>1. n \in Int  BY <1>2
    <3> HIDE DEF L, M
    <3> QED BY <1>1, <2>2, <3>1, ModAdd
  <2> QED BY <1>3, <1>5, <2>1, <2>2, <2>3
<1>11. CASE Len(acc) # FRAME_SAMPLES
  <2>1. s_spk_acc' = acc /\ sent' = sent  BY <1>3, <1>11
  <2>2. Len(acc) < FRAME_SAMPLES  BY <1>1, <1>2, <1>5, <1>11
  <2> QED BY <1>1, <1>5, <1>6, <1>8, <1>9, <1>10, <2>1, <2>2 DEF SentInv, Behind
<1>12. CASE Len(acc) = FRAME_SAMPLES
  <2> DEFINE all == sent \o acc
             r == Remember(sent, acc)
             A == Len(all)
  <2>1. s_spk_acc' = <<>> /\ sent' = r  BY <1>3, <1>12
  <2>2. /\ all \in Seq(Sample) /\ A = M + Len(acc) /\ A \in Nat
        /\ \A k \in 1 .. M : all[k] = sent[k]
        /\ \A k \in (M + 1) .. (M + Len(acc)) : all[k] = acc[k - M]
    <3>1. sent \in Seq(Sample) /\ acc \in Seq(Sample)  BY <1>1, <1>5
    <3>2. /\ all \in Seq(Sample) /\ A = M + Len(acc)
          /\ \A k \in 1 .. M : all[k] = sent[k]
          /\ \A k \in (M + 1) .. (M + Len(acc)) : all[k] = acc[k - M]
      BY <3>1, JoinAt
    <3> HIDE DEF all
    <3>3. A \in Nat  BY <3>2
    <3> QED BY <3>2, <3>3
  <2>3. acc # <<>>  BY <1>1, <1>2, <1>5
  <2>4. PICK d \in Nat :
           /\ r \in Seq(Sample) /\ r # <<>> /\ d + Len(r) = Len(all)
           /\ \A k \in 1 .. Len(r) : r[k] = all[d + k]
           /\ Len(r) < 2 * FRAME_SAMPLES => d = 0
    BY <1>1, <1>5, <2>3, Remembers
  <2> HIDE DEF all, r
  <2>5. \A j \in 1 .. A : all[j] = Behind(captured', A + 1 - j)
    <3> SUFFICES ASSUME NEW j \in 1 .. A PROVE all[j] = Behind(captured', A + 1 - j)
      OBVIOUS
    <3>1. CASE j <= M
      <4>1. j \in 1 .. M /\ Len(acc) + M + 1 - j = A + 1 - j
        BY <1>1, <1>5, <2>2, <3>1
      <4>2. sent[j] = Behind(captured', Len(acc) + M + 1 - j)  BY <1>9, <4>1
      <4> QED BY <2>2, <4>1, <4>2
    <3>2. CASE ~(j <= M)
      <4>1. /\ j \in (M + 1) .. (M + Len(acc)) /\ j - M \in 1 .. Len(acc)
            /\ Len(acc) + 1 - (j - M) = A + 1 - j
        BY <1>1, <1>2, <1>5, <2>2, <3>2
      <4>2. acc[j - M] = Behind(captured', Len(acc) + 1 - (j - M))  BY <1>8, <4>1
      <4> QED BY <2>2, <4>1, <4>2
    <3> QED BY <3>1, <3>2
  <2>6. \A k \in 1 .. Len(r) : r[k] = Behind(captured', Len(r) + 1 - k)
    <3> SUFFICES ASSUME NEW k \in 1 .. Len(r)
                 PROVE  r[k] = Behind(captured', Len(r) + 1 - k)
      OBVIOUS
    <3>1. d + k \in 1 .. A /\ A + 1 - (d + k) = Len(r) + 1 - k
      <4>1. Len(r) \in Nat /\ A = d + Len(r) /\ k \in 1 .. Len(r)
        BY <2>4
      <4> HIDE DEF A
      <4> QED BY <4>1
    <3>2. all[d + k] = Behind(captured', A + 1 - (d + k))  BY <2>5, <3>1
    <3> QED BY <2>4, <3>1, <3>2
  <2>7. Len(r) < 2 * FRAME_SAMPLES => captured' = Len(r) % Numbers
    <3> HAVE Len(r) < 2 * FRAME_SAMPLES
    <3>1. Len(r) = Len(acc) + M /\ M < 2 * FRAME_SAMPLES
      BY <1>1, <1>5, <2>2, <2>4
    <3> QED BY <1>10, <3>1
  <2>8. /\ s_spk_acc' \in Seq(Sample) /\ Len(s_spk_acc') = 0
        /\ Len(r) \in Nat
        /\ \A k \in Int : 0 + Len(r) + 1 - k = Len(r) + 1 - k
    BY <2>1, <2>4
  <2>9. \A k \in 1 .. Len(sent') : sent'[k] = Behind(captured', 0 + Len(sent') + 1 - k)
    BY <2>1, <2>6, <2>8
  <2>10. Len(sent') < 2 * FRAME_SAMPLES
           => captured' = (0 + Len(sent')) % Numbers
    BY <2>1, <2>7, <2>8
  <2> QED BY <1>1, <1>6, <2>1, <2>4, <2>8, <2>9, <2>10 DEF SentInv, Behind
<1> QED BY <1>11, <1>12

(* What one round plays of a frame, from the place after pos on.           *)
LEMMA CopyKeeps ==
  ASSUME HeardInv, out' \in Frames \cup {Silence}, mic_left > 0,
         NEW frame, frame = out',
         NEW pos \in 0 .. FRAME_SAMPLES, pos < FRAME_SAMPLES,
         s_mic_avail' = FRAME_SAMPLES,
         Copy(frame, FRAME_SAMPLES, pos),
         heard = <<>> => pos = 0,
         heard # <<>> => Joined(heard[Len(heard)], <<frame, pos + 1>>)
  PROVE  HeardInv'
<1> DEFINE n == AtMost(FRAME_SAMPLES - pos, mic_left)
           new == [k \in 1 .. n |-> <<frame, pos + k>>]
           M == Len(heard)
           all == heard \o new
           r == Remember(heard, new)
<1>1. /\ FRAME_SAMPLES \in Nat \ {0} /\ mic_left \in Nat \ {0} /\ pos \in Nat
      /\ FRAME_SAMPLES - pos \in Nat \ {0} /\ frame \in Frames \cup {Silence}
      /\ heard \in Seq(Played)
  BY HostTypes DEF HeardInv
<1>2. n \in 1 .. (FRAME_SAMPLES - pos) /\ n \in 1 .. mic_left
  BY <1>1, AtMostIs
<1>3. s_mic_pos' = pos + n /\ mic_left' = mic_left - n /\ heard' = r
  BY DEF Copy
<1> HIDE DEF n
<1>4. n \in Nat /\ n >= 1 /\ pos + n <= FRAME_SAMPLES /\ n <= mic_left
  BY <1>1, <1>2
<1>5. /\ new \in Seq(Played) /\ Len(new) = n
      /\ \A k \in 1 .. n : new[k] = <<frame, pos + k>>
  <2>1. \A k \in 1 .. n : <<frame, pos + k>> \in Played
    BY <1>1, <1>4 DEF Played
  <2> DEFINE at(k) == <<frame, pos + k>>
  <2>2. /\ \A k \in 1 .. n : at(k) \in Played
        /\ new = [k \in 1 .. n |-> at(k)]
    BY <2>1
  <2> HIDE DEF new, at
  <2>3. new \in [1 .. n -> Played] /\ \A k \in 1 .. n : new[k] = at(k)
    BY <2>2
  <2>4. new \in Seq(Played) /\ Len(new) = n
    BY <1>4, <2>3
  <2> QED BY <2>3, <2>4 DEF at
<1> HIDE DEF new
<1>6. M \in Nat /\ (heard = <<>> <=> M = 0)
  BY <1>1
<1>7. /\ all \in Seq(Played) /\ Len(all) = M + n
      /\ \A k \in 1 .. M : all[k] = heard[k]
      /\ \A k \in (M + 1) .. (M + n) : all[k] = new[k - M]
  BY <1>1, <1>5, JoinAt
<1>8. new # <<>>  BY <1>4, <1>5
<1>9. PICK d \in Nat :
        /\ r \in Seq(Played) /\ r # <<>> /\ d + Len(r) = Len(all)
        /\ \A k \in 1 .. Len(r) : r[k] = all[d + k]
        /\ Len(r) < 2 * FRAME_SAMPLES => d = 0
  BY <1>1, <1>5, <1>8, Remembers
<1> HIDE DEF all, r, M
<1>10. \A k \in (M + 1) .. (M + n) : all[k] = <<frame, pos + (k - M)>>
  <2> SUFFICES ASSUME NEW k \in (M + 1) .. (M + n)
               PROVE  all[k] = <<frame, pos + (k - M)>>
    OBVIOUS
  <2>1. k - M \in 1 .. n  BY <1>4, <1>6
  <2> QED BY <1>5, <1>7, <2>1
<1>11. \A k \in 1 .. (M + n - 1) : Joined(all[k], all[k + 1])
  <2> SUFFICES ASSUME NEW k \in 1 .. (M + n - 1)
               PROVE  Joined(all[k], all[k + 1])
    OBVIOUS
  <2>1. k \in Int  OBVIOUS
  <2>2. CASE k < M
    <3>1. k \in 1 .. M - 1 /\ k \in 1 .. M /\ k + 1 \in 1 .. M
      BY <1>6, <2>1, <2>2
    <3>2. Joined(heard[k], heard[k + 1])
      BY <3>1 DEF HeardInv, HeardWhole, M
    <3> QED BY <1>7, <3>1, <3>2
  <2>3. CASE k = M
    <3>1. /\ M \in 1 .. M /\ M + 1 \in (M + 1) .. (M + n)
          /\ pos + ((M + 1) - M) = pos + 1 /\ M # 0
      BY <1>1, <1>4, <1>6, <2>3
    <3>2. all[M] = heard[M] /\ all[M + 1] = <<frame, pos + 1>>
      BY <1>7, <1>10, <3>1
    <3>3. Joined(heard[M], <<frame, pos + 1>>)
      BY <1>6, <3>1 DEF M
    <3> QED BY <2>3, <3>2, <3>3
  <2>4. CASE k > M
    <3>1. /\ k \in (M + 1) .. (M + n) /\ k + 1 \in (M + 1) .. (M + n)
          /\ pos + ((k + 1) - M) = (pos + (k - M)) + 1
      BY <1>1, <1>4, <1>6, <2>4
    <3>2. /\ all[k] = <<frame, pos + (k - M)>>
          /\ all[k + 1] = <<frame, (pos + (k - M)) + 1>>
      BY <1>10, <3>1
    <3> QED BY <3>2 DEF Joined
  <2> QED BY <1>6, <2>1, <2>2, <2>3, <2>4
<1>12. \A k \in 1 .. Len(r) - 1 : Joined(r[k], r[k + 1])
  <2> SUFFICES ASSUME NEW k \in 1 .. Len(r) - 1
               PROVE  Joined(r[k], r[k + 1])
    OBVIOUS
  <2>1. Len(r) \in Nat /\ d + Len(r) = M + n
    BY <1>7, <1>9
  <2>2. /\ k \in 1 .. Len(r) /\ k + 1 \in 1 .. Len(r)
        /\ d + k \in 1 .. (M + n - 1) /\ d + (k + 1) = (d + k) + 1
    BY <1>4, <1>6, <2>1
  <2>3. r[k] = all[d + k] /\ r[k + 1] = all[(d + k) + 1]
    BY <1>9, <2>2
  <2> QED BY <1>11, <2>2, <2>3
<1>13. Len(r) < 2 * FRAME_SAMPLES => r[1][2] = 1
  <2> HAVE Len(r) < 2 * FRAME_SAMPLES
  <2>1. Len(r) \in Nat /\ Len(r) = M + n /\ d = 0 /\ 1 \in 1 .. Len(r)
    BY <1>4, <1>6, <1>7, <1>9
  <2>2. r[1] = all[1]
    BY <1>9, <2>1
  <2>3. CASE M = 0
    <3>1. 1 \in (M + 1) .. (M + n) /\ pos + (1 - M) = 1
      BY <1>1, <1>4, <1>6, <2>3
    <3>2. all[1] = <<frame, 1>>  BY <1>10, <3>1
    <3> QED BY <2>2, <3>2
  <2>4. CASE M # 0
    <3>1. 1 \in 1 .. M /\ M < 2 * FRAME_SAMPLES
      BY <1>1, <1>4, <1>6, <2>1, <2>4
    <3>2. heard[1][2] = 1
      BY <1>6, <2>4, <3>1 DEF HeardInv, HeardWhole, M
    <3> QED BY <1>7, <2>2, <3>1, <3>2
  <2> QED BY <2>3, <2>4
<1>14. Len(r) \in Nat /\ r[Len(r)] = <<frame, pos + n>>
  <2>1. /\ Len(r) \in Nat /\ d + Len(r) = M + n /\ Len(r) \in 1 .. Len(r)
        /\ M + n \in (M + 1) .. (M + n) /\ pos + ((M + n) - M) = pos + n
    BY <1>1, <1>4, <1>6, <1>7, <1>9
  <2>2. r[Len(r)] = all[M + n]  BY <1>9, <2>1
  <2> QED BY <1>10, <2>1, <2>2
<1>15. /\ s_mic_pos' \in 0 .. s_mic_avail' /\ s_mic_pos' >= 1
       /\ mic_left' \in Nat
  BY <1>1, <1>3, <1>4
<1>16. HeardWhole'
  BY <1>3, <1>12, <1>13 DEF HeardWhole
<1> QED BY <1>3, <1>9, <1>14, <1>15, <1>16 DEF HeardInv

LEMMA PlayKeeps ==
  ASSUME RingOK, HeardInv, audio_rx_thread
  PROVE  HeardInv'
<1>1. FRAME_SAMPLES \in Nat \ {0} /\ mic_left > 0
  BY HostTypes DEF audio_rx_thread
<1>2. CASE s_mic_pos >= s_mic_avail
  <2>1. /\ passthrough_get /\ s_mic_avail' = FRAME_SAMPLES
        /\ Copy(out', FRAME_SAMPLES, 0)
    BY <1>2 DEF audio_rx_thread
  <2>2. out' \in Frames \cup {Silence}
    BY <2>1, GetRingOK DEF RingOK
  <2>3. heard # <<>> => Joined(heard[Len(heard)], <<out', 0 + 1>>)
    <3> HAVE heard # <<>>
    <3>1. s_mic_pos = FRAME_SAMPLES /\ heard[Len(heard)] = <<out, s_mic_pos>>
      BY <1>1, <1>2 DEF HeardInv
    <3> QED BY <3>1 DEF Joined
  <2>4. 0 \in 0 .. FRAME_SAMPLES /\ 0 < FRAME_SAMPLES
    BY <1>1
  <2> QED BY <1>1, <2>1, <2>2, <2>3, <2>4, CopyKeeps
<1>3. CASE ~(s_mic_pos >= s_mic_avail)
  <2>1. /\ Copy(out, s_mic_avail, s_mic_pos)
        /\ s_mic_avail' = s_mic_avail /\ out' = out
    BY <1>3 DEF audio_rx_thread, passVars
  <2>2. /\ s_mic_avail = FRAME_SAMPLES /\ s_mic_pos \in 0 .. FRAME_SAMPLES
        /\ s_mic_pos < FRAME_SAMPLES /\ heard # <<>>
        /\ out' \in Frames \cup {Silence}
    BY <1>1, <1>3, <2>1 DEF HeardInv
  <2>3. Joined(heard[Len(heard)], <<out, s_mic_pos + 1>>)
    BY <2>2 DEF HeardInv, Joined
  <2> QED BY <1>1, <2>1, <2>2, <2>3, CopyKeeps
<1> QED BY <1>2, <1>3

LEMMA MainKeeps ==
  ASSUME HistoryInv, Main
  PROVE  HistoryInv'
<1>1. CASE start_spk
  <2>1. 0 \in Sample /\ 0 % Numbers = 0
    BY HostTypes, ModSmall DEF Sample
  <2>2. /\ s_spk_acc' = <<>> /\ sent' = <<>> /\ captured' = 0
        /\ spk_left' = spk_left /\ UNCHANGED micVars /\ out' = out
    BY <1>1 DEF start_spk, passVars
  <2>3. SentInv'
    BY <2>1, <2>2, HostTypes DEF HistoryInv, SentInv
  <2>4. HeardInv'
    BY <2>2 DEF HistoryInv, HeardInv, HeardWhole, micVars
  <2> QED BY <2>3, <2>4 DEF HistoryInv
<1>2. CASE start_mic
  <2>1. /\ heard' = <<>> /\ s_mic_avail' = 0 /\ s_mic_pos' = 0
        /\ mic_left' = mic_left /\ UNCHANGED spkVars /\ out' = out
    BY <1>2 DEF start_mic, passVars
  <2>2. SentInv'
    BY <2>1 DEF HistoryInv, SentInv, Behind, spkVars
  <2>3. HeardInv'
    BY <2>1 DEF HistoryInv, HeardInv, HeardWhole
  <2> QED BY <2>2, <2>3 DEF HistoryInv
<1>3. CASE ~start_spk /\ ~start_mic
  <2>1. UNCHANGED <<spkVars, micVars>> /\ out' = out
    BY <1>3 DEF Main, audio_transport_init, audio_transport_open_conn, stop_spk,
       stop_mic, audio_transport_close_conn, audio_transport_deinit, Reopen,
       passVars
  <2> QED BY <2>1 DEF HistoryInv, SentInv, Behind, HeardInv, HeardWhole,
             spkVars, micVars
<1> QED BY <1>1, <1>2, <1>3

LEMMA StepHistory ==
  ASSUME HistoryInv, RingOK, [HostNext]_hostAudioVars
  PROVE  HistoryInv'
<1>1. CASE Main  BY <1>1, MainKeeps
<1>2. CASE Captures
  <2>1. /\ spk_left' \in Nat /\ out' = out
        /\ UNCHANGED <<s_spk_acc, captured, sent, micVars>>
    BY <1>2, HostTypes DEF Captures, passVars
  <2> QED BY <2>1 DEF HistoryInv, SentInv, Behind, HeardInv, HeardWhole, micVars
<1>3. CASE audio_tx_thread
  <2>1. SentInv'  BY <1>3, CaptureKeeps DEF HistoryInv
  <2>2. UNCHANGED micVars /\ out' = out
    BY <1>3 DEF audio_tx_thread, passVars
  <2> QED BY <2>1, <2>2 DEF HistoryInv, HeardInv, HeardWhole, micVars
<1>4. CASE Plays
  <2>1. /\ mic_left' \in Nat /\ out' = out
        /\ UNCHANGED <<s_mic_avail, s_mic_pos, heard, spkVars>>
    BY <1>4, HostTypes DEF Plays, passVars
  <2> QED BY <2>1 DEF HistoryInv, SentInv, Behind, HeardInv, HeardWhole, spkVars
<1>5. CASE audio_rx_thread
  <2>1. HeardInv'  BY <1>5, PlayKeeps DEF HistoryInv
  <2>2. UNCHANGED spkVars  BY <1>5 DEF audio_rx_thread
  <2> QED BY <2>1, <2>2 DEF HistoryInv, SentInv, Behind, spkVars
<1>6. CASE Receives \/ UNCHANGED hostAudioVars
  <2>1. UNCHANGED <<spkVars, micVars>> /\ out' = out
    BY <1>6 DEF Receives, passthrough_put, hostAudioVars, passVars
  <2> QED BY <2>1 DEF HistoryInv, SentInv, Behind, HeardInv, HeardWhole,
             spkVars, micVars
<1> QED BY <1>1, <1>2, <1>3, <1>4, <1>5, <1>6 DEF HostNext

LEMMA InvIsWhole == HistoryInv => NoSampleLost
<1> SUFFICES ASSUME HistoryInv PROVE SentWhole /\ HeardWhole
  BY DEF NoSampleLost
<1>1. HeardWhole  BY DEF HistoryInv, HeardInv
<1> DEFINE L == Len(s_spk_acc)
           M == Len(sent)
<1>2. /\ L \in Nat /\ M \in Nat /\ captured \in Int /\ Numbers \in Nat \ {0}
      /\ \A k \in 1 .. M : sent[k] = Behind(captured, L + M + 1 - k)
      /\ M < 2 * FRAME_SAMPLES => captured = (L + M) % Numbers
      /\ sent # <<>> => M # 0
  BY HostTypes DEF HistoryInv, SentInv, Sample
<1> HIDE DEF L, M
<1>3. ASSUME NEW k \in 1 .. M - 1
      PROVE  sent[k + 1] = (sent[k] + 1) % Numbers
  <2>1. /\ k \in 1 .. M /\ k + 1 \in 1 .. M
        /\ captured - (L + M + 1 - k) \in Int
        /\ (captured - (L + M + 1 - k)) + 1 = captured - (L + M + 1 - (k + 1))
    BY <1>2
  <2>2. (((captured - (L + M + 1 - k)) % Numbers) + 1) % Numbers
          = ((captured - (L + M + 1 - k)) + 1) % Numbers
    <3> DEFINE x == captured - (L + M + 1 - k)
    <3>1. x \in Int /\ 1 \in Int  BY <2>1
    <3> HIDE DEF x
    <3>2. ((x % Numbers) + 1) % Numbers = (x + 1) % Numbers
      BY <1>2, <3>1, ModAdd
    <3> QED BY <3>2 DEF x
  <2>3. /\ sent[k] = (captured - (L + M + 1 - k)) % Numbers
        /\ sent[k + 1] = (captured - (L + M + 1 - (k + 1))) % Numbers
    BY <1>2, <2>1 DEF Behind
  <2> QED BY <2>1, <2>2, <2>3
<1>4. ASSUME sent # <<>>, M < 2 * FRAME_SAMPLES
      PROVE  sent[1] = 0
  <2>1. captured = (L + M) % Numbers /\ 1 \in 1 .. M
    BY <1>2, <1>4
  <2>2. L + M \in Int /\ -(L + M) \in Int /\ (L + M) + (-(L + M)) = 0
        /\ captured + (-(L + M)) = captured - (L + M + 1 - 1)
    BY <1>2
  <2>3. (((L + M) % Numbers) + (-(L + M))) % Numbers
          = ((L + M) + (-(L + M))) % Numbers
    BY <1>2, <2>2, ModAdd
  <2>4. 0 % Numbers = 0
    <3>1. 0 \in 0 .. (Numbers - 1)  BY <1>2
    <3> QED BY <1>2, <3>1, ModSmall
  <2>5. sent[1] = (captured - (L + M + 1 - 1)) % Numbers
    BY <1>2, <2>1 DEF Behind
  <2> QED BY <2>1, <2>2, <2>3, <2>4, <2>5
<1> QED BY <1>1, <1>3, <1>4 DEF SentWhole, M

(* However the library cuts the stream into calls, and whatever the size   *)
(* of a frame, the packets of a session carry its samples once, in order,  *)
(* from the first, and whole frames are played one after the other.        *)
THEOREM HostLosesNoSample == HostSpec => []NoSampleLost
BY InitHistory, StepHistory, HostRingOK, InvIsWhole, PTL DEF HostSpec
=============================================================================
