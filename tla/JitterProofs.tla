---------------------------- MODULE JitterProofs ----------------------------
(***************************************************************************)
(* Proofs about the jitter buffer, for every size of the ring, of the      *)
(* sequence numbers and of the prebuffer: with every client, and fed by a  *)
(* stream that loses packets.                                              *)
(***************************************************************************)
EXTENDS AudioStream, ModArith, FiniteSetTheorems, TLAPS

LEMMA SeqAddType ==
  ASSUME NEW seq \in SeqNums, NEW n \in Int
  PROVE  SeqAdd(seq, n) \in SeqNums
<1>1. SeqMod \in Nat \ {0} /\ seq + n \in Int
  BY SeqModAssumption DEF SeqNums
<1> QED BY <1>1, ModRange DEF SeqAdd, SeqNums

LEMMA SlotOfType ==
  ASSUME NEW seq \in SeqNums
  PROVE  SlotOf(seq) \in SlotIndices
<1>1. SlotCap \in Nat \ {0} /\ seq \in Int
  BY JitterAssumption DEF SeqNums
<1> QED BY <1>1, ModRange DEF SlotOf, SlotIndices

LEMMA ZeroSeq == 0 \in SeqNums
  BY SeqModAssumption DEF SeqNums

(* What a slot holds is told from an empty slot.                           *)
LEMMA FrameNotEmpty ==
  ASSUME NEW seq \in SeqNums, NEW data \in Payloads
  PROVE  [seq |-> seq, data |-> data] \in Frames \ {NoFrame}
  BY JitterAssumption DEF Frames

(* The valid slots of any ring are a finite set.                           *)
LEMMA ValidFinite ==
  IsFiniteSet(ValidSlots)
<1>1. IsFiniteSet(SlotIndices)
  <2>1. 0 \in Int /\ SlotCap - 1 \in Int  BY JitterAssumption
  <2> QED BY <2>1, FS_Interval DEF SlotIndices
<1> QED BY <1>1, FS_Subset DEF ValidSlots

-----------------------------------------------------------------------------
(* The counter and the ring.  Neither type correctness (slots_count - 1    *)
(* stays a natural number) nor IdleIsEmpty (an underrun is declared on the *)
(* counter alone) is inductive without the counter being exact.            *)
IInv == TypeOK /\ CountExact /\ IdleIsEmpty

LEMMA InitIInv == Init => IInv
<1> SUFFICES ASSUME Init PROVE IInv  OBVIOUS
<1>1. ValidSlots = {}
  BY DEF Init, ValidSlots
<1>2. 0 \in Gains /\ FullGain \in Gains
  BY JitterAssumption DEF Gains
<1>3. out \in Outputs
  BY <1>2 DEF Init, Outputs
<1>4. slots \in [SlotIndices -> Frames \cup {NoFrame}]
  BY DEF Init
<1>5. TypeOK
  BY <1>2, <1>3, <1>4, ZeroSeq DEF Init, TypeOK
<1> QED BY <1>1, <1>5, FS_EmptySet DEF Init, IInv, CountExact, IdleIsEmpty

(* Taking a frame in.                                                      *)
LEMMA InsertCounts ==
  ASSUME TypeOK, CountExact,
         NEW seqnum \in SeqNums, NEW data \in Payloads,
         Insert(seqnum, data)
  PROVE  /\ slots' \in [SlotIndices -> Frames \cup {NoFrame}]
         /\ slots_count' \in Nat
         /\ CountExact'
         /\ ValidSlots' = ValidSlots \cup {SlotOf(seqnum)}
<1> DEFINE s == SlotOf(seqnum)
           fr == [seq |-> seqnum, data |-> data]
<1>1. s \in SlotIndices  BY SlotOfType
<1>2. fr \in Frames \ {NoFrame}  BY FrameNotEmpty
<1>3. slots' = [slots EXCEPT ![s] = fr]  BY DEF Insert
<1>4. slots' \in [SlotIndices -> Frames \cup {NoFrame}]
  BY <1>1, <1>2, <1>3 DEF TypeOK
<1>5. ValidSlots' = ValidSlots \cup {s}
  BY <1>1, <1>2, <1>3 DEF TypeOK, ValidSlots
<1>6. s \in ValidSlots <=> slots[s] # NoFrame
  BY <1>1 DEF ValidSlots
<1>7. Cardinality(ValidSlots \cup {s})
        = IF s \in ValidSlots THEN Cardinality(ValidSlots)
                              ELSE Cardinality(ValidSlots) + 1
  BY ValidFinite, FS_AddElement
<1>8. slots_count' = Cardinality(ValidSlots')
  BY <1>5, <1>6, <1>7 DEF Insert, CountExact
<1>9. slots_count' \in Nat
  BY DEF Insert, TypeOK
<1> QED BY <1>4, <1>5, <1>8, <1>9 DEF CountExact

LEMMA PutIInv ==
  ASSUME IInv, NEW seqnum \in SeqNums, NEW data \in Payloads,
         Put(seqnum, data)
  PROVE  IInv'
<1> USE DEF IInv
<1>1. CASE Accepts(seqnum)
  <2>1. Insert(seqnum, data)  BY <1>1 DEF Put
  <2>2. /\ slots' \in [SlotIndices -> Frames \cup {NoFrame}]
        /\ slots_count' \in Nat
        /\ CountExact'
    BY <2>1, InsertCounts
  <2>3. TypeOK'
    BY <2>2 DEF Put, TypeOK, concealVars
  <2> QED BY <2>2, <2>3 DEF Put, IdleIsEmpty
<1>2. CASE ~Accepts(seqnum)
  <2>1. UNCHANGED <<slots, slots_count>>  BY <1>2 DEF Put
  <2>2. TypeOK'
    BY <2>1 DEF Put, TypeOK, concealVars
  <2>3. CountExact'
    BY <2>1 DEF CountExact, ValidSlots
  <2> QED BY <2>2, <2>3 DEF Put, IdleIsEmpty
<1> QED BY <1>1, <1>2

(* The concealment variables keep their types, whichever branch runs.      *)
LEMMA ConcealType ==
  ASSUME TypeOK, NEW kind \in {"CONCEAL", "PREBUFFER"}, ConcealInto(kind)
  PROVE  /\ last_slot' \in Payloads \cup {NoFrame}
         /\ was_concealed' \in BOOLEAN
         /\ conceal_gain' \in Gains
         /\ out' \in Outputs
<1>1. 0 \in Gains /\ Silence(kind) \in Outputs
  BY JitterAssumption DEF Gains, Outputs, Silence
<1>2. /\ last_slot' \in Payloads \cup {NoFrame}
      /\ was_concealed' \in BOOLEAN
  BY DEF ConcealInto, TypeOK
<1>3. CASE ConcealMode = "NONE"
  BY <1>1, <1>2, <1>3 DEF ConcealInto, TypeOK
<1>4. CASE ConcealMode = "PCM" /\ (last_slot = NoFrame \/ conceal_gain = 0)
  BY <1>1, <1>2, <1>4 DEF ConcealInto, TypeOK
<1>5. CASE ConcealMode = "PCM" /\ last_slot # NoFrame /\ conceal_gain > 0
  <2>1. conceal_gain \in Gains /\ conceal_gain - 1 \in Gains
    BY <1>5, JitterAssumption DEF TypeOK, Gains
  <2>2. out' = [kind |-> kind, data |-> last_slot,
                g0 |-> conceal_gain, g1 |-> conceal_gain - 1]
        /\ conceal_gain' = conceal_gain - 1
    BY <1>5 DEF ConcealInto
  <2> QED BY <1>2, <2>1, <2>2 DEF Outputs, TypeOK
<1>6. conceal_gain \in Int  BY DEF TypeOK, Gains
<1>7. conceal_gain = 0 \/ conceal_gain > 0  BY <1>6 DEF TypeOK, Gains
<1> QED BY <1>3, <1>4, <1>5, <1>7, JitterAssumption

LEMMA PrebufferIInv == IInv /\ Prebuffer => IInv'
<1> SUFFICES ASSUME IInv, Prebuffer PROVE IInv'  OBVIOUS
<1> USE DEF IInv
<1>1. ConcealInto("PREBUFFER") /\ UNCHANGED bufVars
  BY DEF Prebuffer
<1>2. TypeOK'
  BY <1>1, ConcealType DEF TypeOK, bufVars
<1> QED BY <1>1, <1>2 DEF bufVars, CountExact, IdleIsEmpty, ValidSlots

LEMMA UnderrunIInv == IInv /\ Underrun => IInv'
<1> SUFFICES ASSUME IInv, Underrun PROVE IInv'  OBVIOUS
<1> USE DEF IInv
<1>1. ConcealInto("PREBUFFER")  BY DEF Underrun
<1>2. TypeOK'
  BY <1>1, ConcealType DEF Underrun, TypeOK
<1>3. ValidSlots' = ValidSlots  BY DEF Underrun, ValidSlots
<1>4. Cardinality(ValidSlots) = 0  BY DEF Underrun, CountExact
<1>5. ValidSlots = {}  BY <1>4, ValidFinite, FS_EmptySet
<1> QED BY <1>2, <1>3, <1>5 DEF Underrun, CountExact, IdleIsEmpty

(* started implies anchored, and so does a buffer ready to start.          *)
LEMMA RunningAnchored == IInv /\ Running => anchored
  BY DEF IInv, Running, IdleIsEmpty

LEMMA SkipIInv == IInv /\ Skip => IInv'
<1> SUFFICES ASSUME IInv, Skip PROVE IInv'  OBVIOUS
<1> USE DEF IInv
<1>1. ConcealInto("CONCEAL")  BY DEF Skip
<1>2. SeqAdd(read_seq, 1) \in SeqNums  BY SeqAddType DEF TypeOK
<1>3. TypeOK'
  BY <1>1, <1>2, ConcealType DEF Skip, TypeOK
<1>4. anchored'  BY RunningAnchored DEF Skip
<1> QED BY <1>3, <1>4 DEF Skip, CountExact, IdleIsEmpty, ValidSlots

LEMMA GoodFrameType ==
  ASSUME TypeOK, NEW data \in Payloads, GoodFrame(data)
  PROVE  /\ last_slot' \in Payloads \cup {NoFrame}
         /\ was_concealed' \in BOOLEAN
         /\ conceal_gain' \in Gains
         /\ out' \in Outputs
<1>1. FullGain \in Gains  BY JitterAssumption DEF Gains
<1> QED BY <1>1 DEF GoodFrame, TypeOK, Outputs

LEMMA PlayIInv == IInv /\ Play => IInv'
<1> SUFFICES ASSUME IInv, Play PROVE IInv'  OBVIOUS
<1> USE DEF IInv
<1> DEFINE s == SlotOf(read_seq)
<1>1. s \in SlotIndices  BY SlotOfType DEF TypeOK
<1>2. slots[s] \in Frames /\ s \in ValidSlots
  BY <1>1 DEF Play, Holds, TypeOK, ValidSlots
<1>3. slots' = [slots EXCEPT ![s] = NoFrame]  BY DEF Play
<1>4. ValidSlots' = ValidSlots \ {s}
  BY <1>1, <1>3 DEF TypeOK, ValidSlots
<1>5. Cardinality(ValidSlots') = Cardinality(ValidSlots) - 1
  BY <1>2, <1>4, ValidFinite, FS_RemoveElement
<1>6. CountExact' /\ slots_count' \in Nat
  <2>1. IsFiniteSet(ValidSlots')
    BY <1>4, ValidFinite, FS_Subset
  <2>2. Cardinality(ValidSlots') \in Nat
    BY <2>1, FS_CardinalityType
  <2> QED BY <1>5, <2>2 DEF Play, CountExact
<1>7. SeqAdd(read_seq, 1) \in SeqNums  BY SeqAddType DEF TypeOK
<1>8. slots[s].data \in Payloads  BY <1>2 DEF Frames
<1>9. GoodFrame(slots[s].data)  BY DEF Play
<1>10. /\ last_slot' \in Payloads \cup {NoFrame}
       /\ was_concealed' \in BOOLEAN
       /\ conceal_gain' \in Gains
       /\ out' \in Outputs
  BY <1>8, <1>9, GoodFrameType
<1>11. slots' \in [SlotIndices -> Frames \cup {NoFrame}]
  BY <1>1, <1>3 DEF TypeOK
<1>12. TypeOK'
  BY <1>6, <1>7, <1>10, <1>11 DEF Play, TypeOK
<1>13. anchored'  BY RunningAnchored DEF Play
<1> QED BY <1>6, <1>12, <1>13 DEF IdleIsEmpty

LEMMA StepIInv == IInv /\ [Next]_jitterVars => IInv'
<1> SUFFICES ASSUME IInv, [Next]_jitterVars PROVE IInv'  OBVIOUS
<1>1. ASSUME NEW seqnum \in SeqNums, NEW data \in Payloads,
             Put(seqnum, data)
      PROVE  IInv'
  BY <1>1, PutIInv
<1>2. CASE Get
  BY <1>2, PrebufferIInv, PlayIInv, UnderrunIInv, SkipIInv DEF Get
<1>3. CASE UNCHANGED jitterVars
  BY <1>3 DEF jitterVars, bufVars, concealVars, IInv, TypeOK, CountExact,
              IdleIsEmpty, ValidSlots
<1> QED BY <1>1, <1>2, <1>3 DEF Next

(* Every reachable state of the buffer has its types; in particular the    *)
(* counter of valid slots never goes below zero.                           *)
THEOREM TypeCorrect == Spec => []TypeOK
<1>1. IInv => TypeOK  BY DEF IInv
<1> QED BY <1>1, InitIInv, StepIInv, PTL DEF Spec

(* slots_count is the number of valid slots, after any calls in any order. *)
THEOREM CountIsExact == Spec => []CountExact
<1>1. IInv => CountExact  BY DEF IInv
<1> QED BY <1>1, InitIInv, StepIInv, PTL DEF Spec

(* A buffer that lost its anchor holds nothing and is not playing.         *)
THEOREM IdleBufferIsEmpty == Spec => []IdleIsEmpty
<1>1. IInv => IdleIsEmpty  BY DEF IInv
<1> QED BY <1>1, InitIInv, StepIInv, PTL DEF Spec

-----------------------------------------------------------------------------
(* Pending frames are kept.  Two numbers of one window must select two     *)
(* slots, also where the numbers wrap around: that needs the size of the   *)
(* ring to divide the numbers of the sequence, as 64 divides 2^16.         *)
RingDividesSeqs == \E k \in Nat \ {0} : SeqMod = SlotCap * k

(* A number is its distance from another, up to a full turn.               *)
LEMMA SeqDiffTurn ==
  ASSUME NEW a \in SeqNums, NEW b \in SeqNums
  PROVE  \E q \in Int : a - b = SeqMod * q + SeqDiff(a, b)
<1>1. SeqMod \in Nat \ {0} /\ HalfSeq \in Int /\ a \in Int /\ b \in Int
  BY SeqModAssumption DEF SeqNums
<1> DEFINE x == a - b + HalfSeq
<1>2. x \in Int  BY <1>1
<1>3. PICK q \in Int : x = SeqMod * q + (x % SeqMod)
  <2> HIDE DEF x
  <2> QED BY <1>1, <1>2, Quotient
<1>4. x % SeqMod \in Int /\ SeqMod * q \in Int
  <2> HIDE DEF x
  <2> QED BY <1>1, <1>2, ModRange
<1>5. a - b = SeqMod * q + SeqDiff(a, b)
  BY <1>1, <1>3, <1>4 DEF SeqDiff
<1> QED BY <1>5

LEMMA SeqDiffRange ==
  ASSUME NEW a \in SeqNums, NEW b \in SeqNums
  PROVE  SeqDiff(a, b) \in -HalfSeq .. (HalfSeq - 1)
<1> DEFINE x == a - b + HalfSeq
<1>1. /\ SeqMod \in Nat \ {0} /\ HalfSeq \in Int /\ SeqMod = 2 * HalfSeq
      /\ x \in Int
  BY SeqModAssumption DEF SeqNums
<1>2. x % SeqMod \in 0 .. (SeqMod - 1)
  <2> HIDE DEF x
  <2> QED BY <1>1, ModRange
<1> QED BY <1>1, <1>2 DEF SeqDiff

(* Between numbers less than half a turn apart, distances add up.          *)
LEMMA SeqDiffBetween ==
  ASSUME NEW a \in SeqNums, NEW b \in SeqNums, NEW base \in SeqNums,
         -HalfSeq <= SeqDiff(a, base) - SeqDiff(b, base),
         SeqDiff(a, base) - SeqDiff(b, base) < HalfSeq
  PROVE  SeqDiff(a, b) = SeqDiff(a, base) - SeqDiff(b, base)
<1> DEFINE da == SeqDiff(a, base)
           db == SeqDiff(b, base)
           d == SeqDiff(a, b)
<1>1. /\ SeqMod \in Nat \ {0} /\ HalfSeq \in Nat /\ SeqMod = 2 * HalfSeq
      /\ a \in Int /\ b \in Int /\ base \in Int
  BY SeqModAssumption DEF SeqNums
<1>2. da \in Int /\ db \in Int /\ d \in -HalfSeq .. (HalfSeq - 1)
  BY SeqDiffRange
<1>3. PICK p \in Int : a - base = SeqMod * p + da  BY SeqDiffTurn
<1>4. PICK q \in Int : b - base = SeqMod * q + db  BY SeqDiffTurn
<1>5. PICK r \in Int : a - b = SeqMod * r + d  BY SeqDiffTurn
<1>6. -HalfSeq <= da - db /\ da - db < HalfSeq
  OBVIOUS
<1> HIDE DEF da, db, d
<1> DEFINE m == p - q - r
<1>7. m \in Int /\ SeqMod * m = SeqMod * p - SeqMod * q - SeqMod * r
  BY <1>1, SMT
<1>8. SeqMod * p \in Int /\ SeqMod * q \in Int /\ SeqMod * r \in Int
  BY <1>1
<1> HIDE DEF m
<1>9. SeqMod * m = d - (da - db)
  BY <1>1, <1>2, <1>3, <1>4, <1>5, <1>7, <1>8
<1>10. m = 0
  <2>1. -SeqMod < SeqMod * m /\ SeqMod * m < SeqMod
    BY <1>1, <1>2, <1>6, <1>9
  <2> QED BY <1>1, <1>7, <2>1, SmallMultiple
<1>11. SeqMod * m = 0
  BY <1>1, <1>10
<1>12. d = da - db
  BY <1>2, <1>9, <1>11
<1> QED BY <1>12 DEF d, da, db

(* Going n on from a number takes its distance n further.                  *)
LEMMA SeqDiffAdd ==
  ASSUME NEW a \in SeqNums, NEW base \in SeqNums, NEW n \in Int,
         -HalfSeq <= SeqDiff(a, base) + n, SeqDiff(a, base) + n < HalfSeq
  PROVE  SeqDiff(SeqAdd(a, n), base) = SeqDiff(a, base) + n
<1> DEFINE b == SeqAdd(a, n)
           da == SeqDiff(a, base)
           d == SeqDiff(b, base)
<1>1. /\ SeqMod \in Nat \ {0} /\ HalfSeq \in Nat /\ SeqMod = 2 * HalfSeq
      /\ a \in Int /\ base \in Int /\ a + n \in Int
  BY SeqModAssumption DEF SeqNums
<1>2. b \in SeqNums  BY SeqAddType
<1>3. b \in Int  BY <1>1, <1>2 DEF SeqNums
<1>4. da \in Int /\ d \in -HalfSeq .. (HalfSeq - 1)
  BY <1>2, SeqDiffRange
<1>5. PICK p \in Int : a - base = SeqMod * p + da  BY SeqDiffTurn
<1>6. PICK q \in Int : b - base = SeqMod * q + d   BY <1>2, SeqDiffTurn
<1>7. PICK r \in Int : a + n = SeqMod * r + b
  BY <1>1, Quotient DEF SeqAdd
<1>8. -HalfSeq <= da + n /\ da + n < HalfSeq
  OBVIOUS
<1> HIDE DEF b, da, d
<1> DEFINE m == p - q - r
<1>9. m \in Int /\ SeqMod * m = SeqMod * p - SeqMod * q - SeqMod * r
  BY <1>1, SMT
<1>10. SeqMod * p \in Int /\ SeqMod * q \in Int /\ SeqMod * r \in Int
  BY <1>1
<1> HIDE DEF m
<1>11. SeqMod * m = d - (da + n)
  BY <1>1, <1>3, <1>4, <1>5, <1>6, <1>7, <1>9, <1>10
<1>12. m = 0
  <2>1. -SeqMod < SeqMod * m /\ SeqMod * m < SeqMod
    BY <1>1, <1>4, <1>8, <1>11
  <2> QED BY <1>1, <1>9, <2>1, SmallMultiple
<1>13. SeqMod * m = 0
  BY <1>1, <1>12
<1>14. d = da + n
  BY <1>4, <1>11, <1>13
<1> QED BY <1>14 DEF d, da, b

(* Numbers at one distance are one number.                                 *)
LEMMA SameDiffSameSeq ==
  ASSUME NEW a \in SeqNums, NEW b \in SeqNums, NEW base \in SeqNums,
         SeqDiff(a, base) = SeqDiff(b, base)
  PROVE  a = b
<1> DEFINE d == SeqDiff(a, base)
<1>1. /\ SeqMod \in Nat \ {0} /\ a \in Int /\ b \in Int /\ base \in Int
      /\ d \in Int
  BY SeqModAssumption, SeqDiffRange DEF SeqNums
<1>2. PICK p \in Int : a - base = SeqMod * p + d  BY SeqDiffTurn
<1>3. PICK q \in Int : b - base = SeqMod * q + d  BY SeqDiffTurn
<1>4. SeqMod * (p - q) = SeqMod * p - SeqMod * q
  BY <1>1, SMT
<1>5. SeqMod * p \in Int /\ SeqMod * q \in Int  BY <1>1
<1>6. a - b = SeqMod * (p - q)
  <2> HIDE DEF d
  <2> QED BY <1>1, <1>2, <1>3, <1>4, <1>5
<1>7. -SeqMod < a - b /\ a - b < SeqMod
  BY <1>1 DEF SeqNums
<1>8. p - q = 0
  <2>1. p - q \in Int  OBVIOUS
  <2> QED BY <1>1, <1>6, <1>7, <2>1, SmallMultiple
<1> QED BY <1>1, <1>6, <1>8, SMT

(* Two numbers nearer than n that leave one remainder by n are equal, when *)
(* n divides the numbers of the sequence.                                  *)
LEMMA SamePlaceSameSeq ==
  ASSUME NEW n \in Nat \ {0}, NEW k \in Nat \ {0}, SeqMod = n * k,
         NEW a \in SeqNums, NEW b \in SeqNums, NEW base \in SeqNums,
         -n < SeqDiff(a, base) - SeqDiff(b, base),
         SeqDiff(a, base) - SeqDiff(b, base) < n,
         a % n = b % n
  PROVE  a = b
<1> DEFINE da == SeqDiff(a, base)
           db == SeqDiff(b, base)
<1>1. /\ SeqMod \in Nat \ {0}
      /\ a \in Int /\ b \in Int /\ base \in Int
      /\ da \in Int /\ db \in Int
  BY SeqModAssumption, SeqDiffRange DEF SeqNums
<1>2. SeqMod = n * k  OBVIOUS
<1>3. PICK qa \in Int : a - base = SeqMod * qa + da  BY SeqDiffTurn
<1>4. PICK qb \in Int : b - base = SeqMod * qb + db  BY SeqDiffTurn
<1>5. PICK ra \in Int : a = n * ra + (a % n)
  BY <1>1, Quotient
<1>6. PICK rb \in Int : b = n * rb + (b % n)
  BY <1>1, Quotient
<1>7. a - b = n * (ra - rb)
  <2>1. a % n = b % n  OBVIOUS
  <2>2. a % n \in Int /\ b % n \in Int  BY <1>1, ModRange
  <2> QED BY <1>1, <1>5, <1>6, <2>1, <2>2, SMT
<1>8. a - b = SeqMod * (qa - qb) + (da - db)
  <2> HIDE DEF da, db
  <2>1. a - b = (SeqMod * qa + da) - (SeqMod * qb + db)
    BY <1>1, <1>3, <1>4, SMT
  <2>2. SeqMod * (qa - qb) = SeqMod * qa - SeqMod * qb
    BY <1>1, SMT
  <2>3. SeqMod * qa \in Int /\ SeqMod * qb \in Int  BY <1>1
  <2> QED BY <1>1, <2>1, <2>2, <2>3, SMT
<1> DEFINE m == (ra - rb) - k * (qa - qb)
<1>9. m \in Int /\ da - db = n * m
  <2> HIDE DEF da, db
  <2> DEFINE u == ra - rb
             v == k * (qa - qb)
  <2>1. u \in Int /\ v \in Int /\ SeqMod * (qa - qb) = n * v
    BY <1>1, <1>2, SMT
  <2>2. n * u = n * v + (da - db)
    BY <1>7, <1>8, <2>1
  <2>3. m = u - v  OBVIOUS
  <2> HIDE DEF u, v, m
  <2>4. n * (u - v) = n * u - n * v
    BY <1>1, <2>1, SMT
  <2>5. n * u \in Int /\ n * v \in Int  BY <1>1, <2>1
  <2> QED BY <1>1, <2>1, <2>2, <2>3, <2>4, <2>5, SMT
<1>10. -n < da - db /\ da - db < n
  OBVIOUS
<1>11. m = 0
  <2> HIDE DEF m, da, db
  <2> QED BY <1>1, <1>9, <1>10, SmallMultiple
<1>12. a - b = SeqMod * (qa - qb)
  <2>1. da - db = 0
    <3> HIDE DEF m, da, db
    <3> QED BY <1>1, <1>9, <1>11, SMT
  <2> HIDE DEF da, db
  <2>2. SeqMod * (qa - qb) \in Int  BY <1>1
  <2> QED BY <1>1, <1>8, <2>1, <2>2, SMT
<1>13. -SeqMod < a - b /\ a - b < SeqMod
  BY <1>1 DEF SeqNums
<1>14. qa - qb = 0
  <2>1. qa - qb \in Int  OBVIOUS
  <2> QED BY <1>1, <1>12, <1>13, <2>1, SmallMultiple
<1> QED BY <1>1, <1>12, <1>14, SMT

LEMMA SameSlotSameSeq ==
  ASSUME RingDividesSeqs,
         NEW a \in SeqNums, NEW b \in SeqNums, NEW base \in SeqNums,
         SeqDiff(a, base) \in SlotIndices, SeqDiff(b, base) \in SlotIndices,
         SlotOf(a) = SlotOf(b)
  PROVE  a = b
<1>1. PICK k \in Nat \ {0} : SeqMod = SlotCap * k
  BY DEF RingDividesSeqs
<1>2. /\ SlotCap \in Nat \ {0}
      /\ -SlotCap < SeqDiff(a, base) - SeqDiff(b, base)
      /\ SeqDiff(a, base) - SeqDiff(b, base) < SlotCap
  BY JitterAssumption DEF SlotIndices
<1> QED BY <1>1, <1>2, SamePlaceSameSeq DEF SlotOf

(* The strengthening: frames sit where their numbers say.                  *)
PlacedInv == IInv /\ Placed

LEMMA PlacedStep == PlacedInv /\ [Next]_jitterVars => PlacedInv'
<1> SUFFICES ASSUME PlacedInv, [Next]_jitterVars PROVE Placed'
  BY StepIInv DEF PlacedInv
<1>2. ASSUME NEW seqnum \in SeqNums, NEW data \in Payloads,
             Insert(seqnum, data)
      PROVE  Placed'
  BY <1>2, FrameNotEmpty, SlotOfType
     DEF Insert, PlacedInv, IInv, TypeOK, Placed, ValidSlots
<1>3. ASSUME UNCHANGED slots PROVE Placed'
  BY <1>3 DEF PlacedInv, Placed, ValidSlots
<1>4. CASE Play
  BY <1>4, SlotOfType
     DEF Play, PlacedInv, IInv, TypeOK, Placed, ValidSlots
<1>5. CASE Get
  BY <1>3, <1>4, <1>5 DEF Get, Prebuffer, Underrun, Skip, bufVars
<1>6. ASSUME NEW seqnum \in SeqNums, NEW data \in Payloads,
             Put(seqnum, data)
      PROVE  Placed'
  BY <1>2, <1>3, <1>6 DEF Put
<1>7. CASE UNCHANGED jitterVars
  BY <1>3, <1>7 DEF jitterVars, bufVars
<1> QED BY <1>5, <1>6, <1>7 DEF Next

LEMMA PlacedInvariant == Spec => []PlacedInv
<1>1. Init => PlacedInv
  BY InitIInv DEF Init, PlacedInv, Placed, ValidSlots
<1> QED BY <1>1, PlacedStep, PTL DEF Spec

Kept(i) == \/ slots'[i] # NoFrame /\ slots'[i].seq = slots[i].seq
           \/ slots[i].seq = read_seq /\ out'.kind = "OK"

LEMMA PutKeeps ==
  ASSUME RingDividesSeqs, PlacedInv, started,
         NEW seqnum \in SeqNums, NEW data \in Payloads, Put(seqnum, data),
         NEW i \in SlotIndices, Pending(i)
  PROVE  Kept(i)
<1>1. anchored  BY DEF PlacedInv, IInv, IdleIsEmpty
<1>2. CASE ~Accepts(seqnum)
  BY <1>2 DEF Put, Kept, Pending
<1>3. CASE Accepts(seqnum) /\ SlotOf(seqnum) # i
  BY <1>3, SlotOfType
     DEF Put, Insert, Kept, Pending, PlacedInv, IInv, TypeOK
<1>4. CASE Accepts(seqnum) /\ SlotOf(seqnum) = i
  <2>1. /\ slots[i] \in Frames /\ slots[i].seq \in SeqNums
        /\ read_seq \in SeqNums
    BY DEF Pending, PlacedInv, IInv, TypeOK, Frames
  <2>2. SlotOf(slots[i].seq) = i
    BY DEF PlacedInv, Placed, ValidSlots, Pending
  <2>3. SeqDiff(seqnum, read_seq) \in Int
    <3>1. /\ SeqMod \in Nat \ {0} /\ HalfSeq \in Int
          /\ seqnum - read_seq + HalfSeq \in Int
      BY <2>1, SeqModAssumption DEF SeqNums
    <3>2. (seqnum - read_seq + HalfSeq) % SeqMod \in Int
      BY <3>1, ModRange
    <3> QED BY <3>1, <3>2 DEF SeqDiff
  <2>4. SeqDiff(seqnum, read_seq) \in SlotIndices
    BY <1>1, <1>4, <2>3, JitterAssumption DEF Accepts, SlotIndices
  <2>5. seqnum = slots[i].seq
    BY <1>4, <2>1, <2>2, <2>4, SameSlotSameSeq DEF Pending
  <2>6. slots'[i] = [seq |-> seqnum, data |-> data]
    BY <1>4 DEF Put, Insert, PlacedInv, IInv, TypeOK
  <2> QED BY <2>5, <2>6, FrameNotEmpty DEF Kept
<1> QED BY <1>2, <1>3, <1>4

LEMMA GetKeeps ==
  ASSUME PlacedInv, Get, NEW i \in SlotIndices, Pending(i)
  PROVE  Kept(i)
<1>1. CASE UNCHANGED slots
  BY <1>1 DEF Kept, Pending
<1>2. CASE Play
  <2>1. CASE SlotOf(read_seq) = i
    BY <1>2, <2>1 DEF Play, Holds, GoodFrame, Kept
  <2>2. CASE SlotOf(read_seq) # i
    BY <1>2, <2>2, SlotOfType
       DEF Play, Kept, Pending, PlacedInv, IInv, TypeOK
  <2> QED BY <2>1, <2>2
<1> QED BY <1>1, <1>2 DEF Get, Prebuffer, Underrun, Skip, bufVars

(* While playback runs no packet, however late or early, takes the slot of *)
(* a frame that waits for its turn.                                        *)
THEOREM PendingFramesKept ==
  ASSUME RingDividesSeqs
  PROVE  Spec => PendingKept
<1>1. PlacedInv /\ [Next]_jitterVars
        => [started => \A i \in SlotIndices :
              Pending(i) => \/ slots'[i] # NoFrame
                               /\ slots'[i].seq = slots[i].seq
                            \/ slots[i].seq = read_seq
                               /\ out'.kind = "OK"]_jitterVars
  <2> SUFFICES ASSUME PlacedInv, Next, started,
                      NEW i \in SlotIndices, Pending(i)
               PROVE  Kept(i)
    BY DEF Kept
  <2> QED BY PutKeeps, GetKeeps DEF Next
<1> QED BY <1>1, PlacedInvariant, PTL DEF Spec, PendingKept

-----------------------------------------------------------------------------
(* The level of the output.  What the last frame ended with is the state   *)
(* of the fade, and full whenever the last frame was a good one.           *)
LevelInv ==
  /\ last_slot # NoFrame =>
       /\ ConcealMode = "PCM"
       /\ out.g1 = conceal_gain
       /\ ~was_concealed => conceal_gain = FullGain

LEMMA LevelStep == LevelInv /\ [Next]_jitterVars => LevelInv'
<1> SUFFICES ASSUME LevelInv, [Next]_jitterVars PROVE LevelInv'  OBVIOUS
<1>1. ASSUME NEW kind, ConcealInto(kind) PROVE LevelInv'
  BY <1>1 DEF ConcealInto, Silence, LevelInv
<1>2. ASSUME NEW data, GoodFrame(data) PROVE LevelInv'
  BY <1>2 DEF GoodFrame, LevelInv
<1>3. CASE Get
  BY <1>1, <1>2, <1>3 DEF Get, Prebuffer, Play, Underrun, Skip
<1>4. ASSUME UNCHANGED <<concealVars, out>> PROVE LevelInv'
  BY <1>4 DEF concealVars, LevelInv
<1>5. CASE UNCHANGED jitterVars
  BY <1>4, <1>5 DEF jitterVars
<1> QED BY <1>3, <1>4, <1>5 DEF Next, Put

(* Each frame starts at the level at which the frame before it ended.      *)
THEOREM LevelsJoin == Spec => NoLevelJump
<1>1. Init => LevelInv  BY DEF Init, LevelInv
<1>2. LevelInv /\ [Next]_jitterVars
        => [Get /\ last_slot # NoFrame => out'.g0 = out.g1]_jitterVars
  <2> SUFFICES ASSUME LevelInv, Get, last_slot # NoFrame
               PROVE  out'.g0 = out.g1
    OBVIOUS
  <2>1. ASSUME NEW kind, ConcealInto(kind) PROVE out'.g0 = out.g1
    BY <2>1 DEF ConcealInto, Silence, LevelInv
  <2>2. ASSUME NEW data, GoodFrame(data) PROVE out'.g0 = out.g1
    BY <2>2 DEF GoodFrame, LevelInv
  <2> QED BY <2>1, <2>2 DEF Get, Prebuffer, Play, Underrun, Skip
<1> QED BY <1>1, <1>2, LevelStep, PTL DEF Spec, NoLevelJump

-----------------------------------------------------------------------------
(* A stream that loses packets.  While the buffer is anchored its frames   *)
(* and the next packet have an order: their distance from the one whose    *)
(* turn it is.                                                             *)

LEMMA SeqDiffSelf ==
  ASSUME NEW seq \in SeqNums
  PROVE  SeqDiff(seq, seq) = 0
<1>1. SeqMod \in Nat \ {0} /\ HalfSeq \in 0 .. (SeqMod - 1) /\ seq \in Int
  BY SeqModAssumption DEF SeqNums
<1>2. HalfSeq % SeqMod = HalfSeq  BY <1>1, ModSmall
<1>3. seq - seq + HalfSeq = HalfSeq  BY <1>1
<1> QED BY <1>1, <1>2, <1>3 DEF SeqDiff

Turn(seq) == SeqDiff(seq, read_seq)

StreamTypes ==
  tx_seq \in SeqNums /\ burst \in 0 .. MaxBurst /\ heard \in 0 .. SlotCap

(* No frame in the ring has missed its turn, none is newer than the newest,*)
(* which the window holds, and the next packet is newer still.             *)
OrderOK ==
  anchored => /\ Turn(write_seq) >= -1 /\ Turn(write_seq) < SlotCap
              /\ Turn(write_seq) < Turn(tx_seq) /\ Turn(tx_seq) <= MaxAhead
              /\ \A i \in ValidSlots :
                   Turn(slots[i].seq) \in 0 .. Turn(write_seq)

StreamInv == PlacedInv /\ StreamTypes /\ OrderOK

LEMMA TurnType ==
  ASSUME PlacedInv, NEW seq \in SeqNums
  PROVE  Turn(seq) \in Int
<1>1. read_seq \in SeqNums  BY DEF PlacedInv, IInv, TypeOK
<1>2. SeqDiff(seq, read_seq) \in -HalfSeq .. (HalfSeq - 1)
  BY <1>1, SeqDiffRange
<1> QED BY <1>2, SeqModAssumption DEF Turn

LEMMA HeldType ==
  ASSUME PlacedInv, NEW i \in ValidSlots
  PROVE  /\ i \in SlotIndices /\ slots[i] \in Frames
         /\ slots[i].seq \in SeqNums /\ SlotOf(slots[i].seq) = i
BY DEF PlacedInv, IInv, TypeOK, ValidSlots, Placed, Frames

(* The next number is one further on, and a step of the player brings every*)
(* number one nearer.                                                      *)
LEMMA TurnOfNext ==
  ASSUME NEW seq \in SeqNums, NEW base \in SeqNums,
         SeqDiff(seq, base) < HalfSeq - 1
  PROVE  /\ SeqAdd(seq, 1) \in SeqNums
         /\ SeqDiff(SeqAdd(seq, 1), base) = SeqDiff(seq, base) + 1
<1>1. SeqDiff(seq, base) \in -HalfSeq .. (HalfSeq - 1)  BY SeqDiffRange
<1>2. /\ -HalfSeq <= SeqDiff(seq, base) + 1
      /\ SeqDiff(seq, base) + 1 < HalfSeq
  BY <1>1, SeqModAssumption
<1> QED BY <1>2, SeqDiffAdd, SeqAddType

LEMMA TurnComes ==
  ASSUME NEW seq \in SeqNums, NEW base \in SeqNums,
         SeqDiff(seq, base) > -HalfSeq, 1 < HalfSeq
  PROVE  SeqDiff(seq, SeqAdd(base, 1)) = SeqDiff(seq, base) - 1
<1>1. SeqDiff(base, base) = 0 /\ HalfSeq \in Nat
  BY SeqDiffSelf, SeqModAssumption
<1>2. /\ SeqAdd(base, 1) \in SeqNums
      /\ SeqDiff(SeqAdd(base, 1), base) = 1
  BY <1>1, TurnOfNext
<1>3. SeqDiff(seq, base) \in -HalfSeq .. (HalfSeq - 1)  BY SeqDiffRange
<1>4. /\ -HalfSeq <= SeqDiff(seq, base) - SeqDiff(SeqAdd(base, 1), base)
      /\ SeqDiff(seq, base) - SeqDiff(SeqAdd(base, 1), base) < HalfSeq
  BY <1>1, <1>2, <1>3
<1>5. SeqDiff(seq, SeqAdd(base, 1))
        = SeqDiff(seq, base) - SeqDiff(SeqAdd(base, 1), base)
  BY <1>2, <1>4, SeqDiffBetween
<1> QED BY <1>2, <1>5

LEMMA StreamTypesStep ==
  ASSUME StreamTypes, StreamNext
  PROVE  StreamTypes'
<1>1. /\ tx_seq \in SeqNums /\ MaxBurst \in Nat /\ SlotCap \in Nat \ {0}
      /\ SeqAdd(tx_seq, 1) \in SeqNums
  BY SeqAddType, StreamAssumption, JitterAssumption DEF StreamTypes
<1>2. CASE Deliver  BY <1>1, <1>2 DEF Deliver, StreamTypes
<1>3. CASE Lose  BY <1>1, <1>3 DEF Lose, StreamTypes
<1>4. CASE Take  BY <1>4 DEF Take, StreamTypes
<1> QED BY <1>2, <1>3, <1>4 DEF StreamNext

LEMMA StreamPlaced ==
  ASSUME PlacedInv, StreamTypes, StreamNext
  PROVE  PlacedInv'
<1>1. [Next]_jitterVars
  BY DEF StreamNext, Deliver, Lose, Take, Next, StreamTypes
<1> QED BY <1>1, PlacedStep

LEMMA DeliverOrders ==
  ASSUME StreamInv, Deliver
  PROVE  OrderOK'
<1>1. PICK data \in Payloads : Put(tx_seq, data)  BY DEF Deliver
<1>2. /\ PlacedInv /\ tx_seq \in SeqNums /\ write_seq \in SeqNums
      /\ read_seq \in SeqNums /\ MaxAhead \in Nat \ {0} /\ MaxAhead < HalfSeq
      /\ HalfSeq \in Nat /\ SeqAdd(tx_seq, 1) \in SeqNums
      /\ tx_seq' = SeqAdd(tx_seq, 1) /\ anchored' = TRUE
      /\ slots \in [SlotIndices -> Frames \cup {NoFrame}]
      /\ SlotCap \in Nat \ {0}
  BY <1>1, StreamAssumption, SeqModAssumption, JitterAssumption, SeqAddType
     DEF Deliver, Put, StreamInv, StreamTypes, PlacedInv, IInv, TypeOK
<1>3. SlotOf(tx_seq) \in SlotIndices  BY <1>2, SlotOfType
<1>4. CASE ~anchored
  <2>1. /\ read_seq' = tx_seq /\ write_seq' = tx_seq
        /\ slots' = [slots EXCEPT ![SlotOf(tx_seq)] =
                       [seq |-> tx_seq, data |-> data]]
    BY <1>1, <1>4 DEF Put, Accepts, Insert
  <2>2. ValidSlots = {}
    BY <1>2, <1>4 DEF PlacedInv, IInv, IdleIsEmpty
  <2>3. \A i \in ValidSlots' : slots'[i].seq = tx_seq
    BY <1>2, <1>3, <2>1, <2>2 DEF ValidSlots
  <2>4. SeqDiff(tx_seq, tx_seq) = 0  BY <1>2, SeqDiffSelf
  <2>5. SeqDiff(tx_seq', tx_seq) = 1
    BY <1>2, <2>4, TurnOfNext
  <2>6. /\ Turn(write_seq)' = 0 /\ Turn(tx_seq)' = 1
        /\ \A i \in ValidSlots' : Turn(slots[i].seq)' = 0
    BY <2>1, <2>3, <2>4, <2>5 DEF Turn
  <2> QED BY <1>2, <2>6 DEF OrderOK
<1>5. CASE anchored
  <2>1. /\ Turn(write_seq) >= -1 /\ Turn(write_seq) < Turn(tx_seq)
        /\ Turn(write_seq) < SlotCap
        /\ Turn(tx_seq) < MaxAhead /\ Turn(write_seq) \in Int
        /\ Turn(tx_seq) \in Int
        /\ \A i \in ValidSlots : Turn(slots[i].seq) \in 0 .. Turn(write_seq)
    BY <1>2, <1>5, TurnType DEF StreamInv, OrderOK, Deliver, InStep, Turn
  <2>2. read_seq' = read_seq  BY <1>1, <1>5 DEF Put
  <2>3. SeqDiff(tx_seq, write_seq) > 0
    <3>1. SeqDiff(tx_seq, write_seq) = Turn(tx_seq) - Turn(write_seq)
      BY <1>2, <2>1, SeqDiffBetween DEF Turn
    <3> QED BY <2>1, <3>1
  <2>4. Turn(tx_seq)' = Turn(tx_seq) + 1
    BY <1>2, <2>1, <2>2, TurnOfNext DEF Turn
  <2>5. CASE Accepts(tx_seq)
    <3>1. /\ write_seq' = tx_seq
          /\ slots' = [slots EXCEPT ![SlotOf(tx_seq)] =
                         [seq |-> tx_seq, data |-> data]]
      BY <1>1, <2>3, <2>5 DEF Put, Insert
    <3>2. Turn(write_seq)' = Turn(tx_seq)  BY <2>2, <3>1 DEF Turn
    <3>3. ASSUME NEW i \in ValidSlots'
          PROVE  Turn(slots[i].seq)' \in 0 .. Turn(tx_seq)
      <4>1. CASE i = SlotOf(tx_seq)
        <5>1. slots'[i].seq = tx_seq  BY <1>2, <1>3, <3>1, <4>1
        <5>2. Turn(slots[i].seq)' = Turn(tx_seq)  BY <2>2, <5>1 DEF Turn
        <5> QED BY <2>1, <5>2
      <4>2. CASE i # SlotOf(tx_seq)
        <5>1. i \in SlotIndices  BY DEF ValidSlots
        <5>2. slots'[i] = slots[i]  BY <1>2, <3>1, <4>2, <5>1
        <5>3. i \in ValidSlots  BY <5>1, <5>2 DEF ValidSlots
        <5>4. Turn(slots[i].seq)' = Turn(slots[i].seq)
          BY <2>2, <5>2 DEF Turn
        <5> QED BY <2>1, <5>3, <5>4
      <4> QED BY <4>1, <4>2
    <3>4. Turn(tx_seq) < SlotCap
      BY <1>5, <2>5 DEF Accepts, Turn
    <3> QED BY <1>2, <2>1, <2>4, <3>2, <3>3, <3>4 DEF OrderOK
  <2>6. CASE ~Accepts(tx_seq)
    <3>1. write_seq' = write_seq /\ slots' = slots
      BY <1>1, <1>5, <2>6 DEF Put
    <3>2. /\ Turn(write_seq)' = Turn(write_seq) /\ ValidSlots' = ValidSlots
          /\ \A i \in ValidSlots : Turn(slots[i].seq)' = Turn(slots[i].seq)
      BY <2>2, <3>1 DEF Turn, ValidSlots
    <3> QED BY <1>2, <2>1, <2>4, <3>2 DEF OrderOK
  <2> QED BY <2>5, <2>6
<1> QED BY <1>4, <1>5

LEMMA LoseOrders ==
  ASSUME StreamInv, Lose
  PROVE  OrderOK'
<1>1. /\ UNCHANGED jitterVars /\ tx_seq' = SeqAdd(tx_seq, 1)
      /\ anchored' = anchored /\ read_seq' = read_seq
      /\ write_seq' = write_seq /\ slots' = slots
  BY DEF Lose, jitterVars, bufVars
<1>2. /\ PlacedInv /\ tx_seq \in SeqNums /\ read_seq \in SeqNums
      /\ write_seq \in SeqNums
      /\ MaxAhead \in Nat \ {0} /\ MaxAhead < HalfSeq /\ HalfSeq \in Nat
  BY StreamAssumption, SeqModAssumption
     DEF StreamInv, StreamTypes, PlacedInv, IInv, TypeOK
<1> SUFFICES ASSUME anchored PROVE OrderOK'  BY <1>1 DEF OrderOK
<1>3. /\ Turn(write_seq) >= -1 /\ Turn(write_seq) < Turn(tx_seq)
      /\ Turn(write_seq) < SlotCap
      /\ Turn(tx_seq) < MaxAhead /\ Turn(write_seq) \in Int
      /\ Turn(tx_seq) \in Int
      /\ \A i \in ValidSlots : Turn(slots[i].seq) \in 0 .. Turn(write_seq)
  BY <1>2, TurnType DEF StreamInv, OrderOK, Lose, InStep, Turn
<1>4. Turn(tx_seq)' = Turn(tx_seq) + 1
  BY <1>1, <1>2, <1>3, TurnOfNext DEF Turn
<1>5. /\ Turn(write_seq)' = Turn(write_seq) /\ ValidSlots' = ValidSlots
      /\ \A i \in ValidSlots : Turn(slots[i].seq)' = Turn(slots[i].seq)
  BY <1>1 DEF Turn, ValidSlots
<1> QED BY <1>2, <1>3, <1>4, <1>5 DEF OrderOK

(* The number whose turn it is is in no other slot than its own, so that it*)
(* is not in the ring any more once the player has gone past it.           *)
LEMMA TakeOrders ==
  ASSUME StreamInv, Take
  PROVE  OrderOK'
<1>1. Get /\ tx_seq' = tx_seq  BY DEF Take
<1>2. /\ PlacedInv /\ CountExact /\ tx_seq \in SeqNums /\ read_seq \in SeqNums
      /\ write_seq \in SeqNums
      /\ MaxAhead \in Nat \ {0} /\ MaxAhead < HalfSeq /\ HalfSeq \in Nat
      /\ 1 < HalfSeq /\ slots \in [SlotIndices -> Frames \cup {NoFrame}]
      /\ SlotCap \in Nat
  BY StreamAssumption, SeqModAssumption, JitterAssumption
     DEF StreamInv, StreamTypes, PlacedInv, IInv, TypeOK
<1>3. CASE Prebuffer
  <2>1. /\ anchored' = anchored /\ read_seq' = read_seq
        /\ write_seq' = write_seq /\ slots' = slots
    BY <1>3 DEF Prebuffer, bufVars
  <2> QED BY <1>1, <2>1 DEF StreamInv, OrderOK, Turn, ValidSlots
<1>4. CASE Underrun
  BY <1>4 DEF Underrun, OrderOK
<1>5. CASE Play \/ Skip
  <2>1. /\ anchored' = anchored /\ write_seq' = write_seq
        /\ read_seq' = SeqAdd(read_seq, 1) /\ Running
    BY <1>5 DEF Play, Skip
  <2>2. anchored
    BY <1>2, <2>1, RunningAnchored DEF PlacedInv
  <2>3. /\ Turn(write_seq) >= -1 /\ Turn(write_seq) < Turn(tx_seq)
        /\ Turn(write_seq) < SlotCap
        /\ Turn(tx_seq) <= MaxAhead /\ Turn(write_seq) \in Int
        /\ Turn(tx_seq) \in Int
        /\ \A i \in ValidSlots : Turn(slots[i].seq) \in 0 .. Turn(write_seq)
    BY <1>2, <2>2, TurnType DEF StreamInv, OrderOK
  <2>4. ASSUME NEW seq \in SeqNums, Turn(seq) >= -1
        PROVE  SeqDiff(seq, read_seq') = Turn(seq) - 1
    <3>1. Turn(seq) > -HalfSeq  BY <1>2, <2>4, TurnType
    <3> QED BY <1>2, <2>1, <3>1, TurnComes DEF Turn
  <2>5. /\ Turn(tx_seq)' = Turn(tx_seq) - 1
        /\ Turn(write_seq)' = Turn(write_seq) - 1
    <3>1. Turn(tx_seq) >= -1  BY <2>3
    <3> QED BY <1>1, <1>2, <2>1, <2>3, <2>4, <3>1 DEF Turn
  <2>6. /\ ValidSlots' \subseteq ValidSlots
        /\ \A i \in ValidSlots' :
             slots'[i] = slots[i] /\ slots[i].seq # read_seq
    <3>1. CASE Play
      <4>1. slots' = [slots EXCEPT ![SlotOf(read_seq)] = NoFrame]
        BY <3>1 DEF Play
      <4>2. \A i \in ValidSlots' :
              i # SlotOf(read_seq) /\ slots'[i] = slots[i] /\ i \in ValidSlots
        BY <1>2, <4>1 DEF ValidSlots
      <4> QED BY <1>2, <4>2, HeldType
    <3>2. CASE Skip
      <4>1. slots' = slots /\ ~Holds(read_seq)  BY <3>2 DEF Skip
      <4>2. ValidSlots' = ValidSlots  BY <4>1 DEF ValidSlots
      <4>3. ASSUME NEW i \in ValidSlots
            PROVE  slots[i].seq # read_seq
        <5>1. slots[i] # NoFrame /\ SlotOf(slots[i].seq) = i
          BY <1>2, HeldType DEF ValidSlots
        <5> QED BY <4>1, <5>1 DEF Holds
      <4> QED BY <4>1, <4>2, <4>3
    <3> QED BY <1>5, <3>1, <3>2
  <2>7. \A i \in ValidSlots' :
          Turn(slots[i].seq)' \in 0 .. (Turn(write_seq) - 1)
    <3> SUFFICES ASSUME NEW i \in ValidSlots'
                 PROVE  Turn(slots[i].seq)' \in 0 .. (Turn(write_seq) - 1)
      OBVIOUS
    <3> DEFINE seq == slots[i].seq
    <3>1. /\ i \in ValidSlots /\ seq \in SeqNums /\ seq # read_seq
          /\ slots'[i].seq = seq
      BY <1>2, <2>6, HeldType
    <3>2. Turn(seq) \in 0 .. Turn(write_seq)  BY <2>3, <3>1
    <3> HIDE DEF seq
    <3>3. Turn(seq) # 0
      BY <1>2, <3>1, SeqDiffSelf, SameDiffSameSeq DEF Turn
    <3>4. SeqDiff(seq, read_seq') = Turn(seq) - 1
      BY <2>3, <2>4, <3>1, <3>2
    <3>5. Turn(slots[i].seq)' = Turn(seq) - 1  BY <3>1, <3>4 DEF Turn
    <3> QED BY <2>3, <3>2, <3>3, <3>5
  <2>8. Turn(write_seq) >= 0
    <3>1. \E i \in SlotIndices : i \in ValidSlots
      <4>1. CASE Play
        <5>1. SlotOf(read_seq) \in SlotIndices  BY <1>2, SlotOfType
        <5>2. slots[SlotOf(read_seq)] # NoFrame  BY <4>1 DEF Play, Holds
        <5> QED BY <5>1, <5>2 DEF ValidSlots
      <4>2. CASE Skip
        <5>1. ValidSlots # {}
          BY <1>2, <4>2, FS_EmptySet DEF Skip, CountExact
        <5> QED BY <5>1 DEF ValidSlots
      <4> QED BY <1>5, <4>1, <4>2
    <3> QED BY <2>3, <3>1
  <2> QED BY <1>2, <2>3, <2>5, <2>7, <2>8 DEF OrderOK
<1> QED BY <1>1, <1>3, <1>4, <1>5 DEF Get

LEMMA StreamInvariant == StreamSpec => []StreamInv
<1>1. StreamInit => StreamInv
  <2> SUFFICES ASSUME StreamInit PROVE StreamInv  OBVIOUS
  <2>1. PlacedInv
    BY InitIInv DEF StreamInit, Init, PlacedInv, Placed, ValidSlots
  <2>2. StreamTypes
    BY ZeroSeq, StreamAssumption, JitterAssumption
       DEF StreamInit, StreamTypes
  <2>3. OrderOK  BY DEF StreamInit, Init, OrderOK
  <2> QED BY <2>1, <2>2, <2>3 DEF StreamInv
<1>2. StreamInv /\ [StreamNext]_streamVars => StreamInv'
  <2> SUFFICES ASSUME StreamInv, [StreamNext]_streamVars PROVE StreamInv'
    OBVIOUS
  <2>1. CASE StreamNext
    <3>1. PlacedInv' /\ StreamTypes'
      BY <2>1, StreamPlaced, StreamTypesStep DEF StreamInv
    <3>2. OrderOK'
      BY <2>1, DeliverOrders, LoseOrders, TakeOrders DEF StreamNext
    <3> QED BY <3>1, <3>2 DEF StreamInv
  <2>2. CASE UNCHANGED streamVars
    <3>1. UNCHANGED <<jitterVars, tx_seq, burst, heard>>
      BY <2>2 DEF streamVars
    <3>2. PlacedInv'  BY <3>1, PlacedStep DEF StreamInv
    <3>3. OrderOK'
      BY <3>1 DEF StreamInv, OrderOK, Turn, ValidSlots, jitterVars, bufVars
    <3> QED BY <3>1, <3>2, <3>3 DEF StreamInv, StreamTypes
  <2> QED BY <2>1, <2>2
<1> QED BY <1>1, <1>2, PTL DEF StreamSpec

(* What jitter_put would ask for again is newer than every frame it has.   *)
THEOREM AsksForMissing == StreamSpec => []NacksAreMissing
<1>1. StreamInv => NacksAreMissing
  <2> SUFFICES ASSUME StreamInv, NEW k \in DOMAIN Nacks(tx_seq)
               PROVE  ~Holds(Nacks(tx_seq)[k])
    BY DEF NacksAreMissing
  <2> DEFINE jumped == IF anchored THEN SeqDiff(tx_seq, write_seq) - 1 ELSE 0
             passed == {j \in 1 .. jumped :
                          started /\ SeqDiff(SeqAdd(write_seq, j), read_seq) < 0}
             skipped == Cardinality(passed)
             wanted == jumped - skipped
             count == IF wanted < MaxNack THEN wanted ELSE MaxNack
             nack == SeqAdd(write_seq, skipped + k)
  <2>1. /\ tx_seq \in SeqNums /\ write_seq \in SeqNums /\ read_seq \in SeqNums
        /\ PlacedInv /\ MaxNack \in Nat /\ HalfSeq \in Nat /\ MaxAhead \in Nat
        /\ MaxAhead < HalfSeq
    BY JitterAssumption, SeqModAssumption, StreamAssumption
       DEF StreamInv, StreamTypes, PlacedInv, IInv, TypeOK
  <2>2. jumped \in Int /\ (jumped <= HalfSeq - 2 \/ jumped = 0)
    BY <2>1, SeqDiffRange
  <2>3. /\ Accepts(tx_seq)
        /\ Nacks(tx_seq) = [j \in 1 .. count |-> SeqAdd(write_seq, skipped + j)]
    BY DEF Nacks
  <2>4. k \in 1 .. count /\ Nacks(tx_seq)[k] = nack  BY <2>3
  <2> HIDE DEF jumped
  <2>5. skipped \in Nat
    <3>1. IsFiniteSet(1 .. jumped)  BY <2>2, FS_Interval
    <3>2. passed \subseteq 1 .. jumped  OBVIOUS
    <3> HIDE DEF passed
    <3> QED BY <3>1, <3>2, FS_Subset, FS_CardinalityType
  <2> HIDE DEF passed, skipped
  <2>6. skipped + k \in 1 .. jumped
    BY <2>1, <2>2, <2>4, <2>5
  <2>7. anchored /\ skipped + k \in 1 .. (HalfSeq - 2)
    BY <2>1, <2>2, <2>6 DEF jumped
  <2>8. nack \in SeqNums /\ SeqDiff(nack, write_seq) = skipped + k
    <3>1. SeqDiff(write_seq, write_seq) = 0  BY <2>1, SeqDiffSelf
    <3> DEFINE j == skipped + k
    <3>2. /\ j \in Int /\ -HalfSeq <= SeqDiff(write_seq, write_seq) + j
          /\ SeqDiff(write_seq, write_seq) + j < HalfSeq
          /\ SeqDiff(write_seq, write_seq) + j = j
      BY <2>1, <2>7, <3>1
    <3> HIDE DEF j
    <3>3. SeqAdd(write_seq, j) \in SeqNums
          /\ SeqDiff(SeqAdd(write_seq, j), write_seq) = j
      BY <2>1, <3>2, SeqDiffAdd, SeqAddType
    <3> QED BY <3>3 DEF j
  <2> HIDE DEF nack
  <2>9. ASSUME Holds(nack) PROVE FALSE
    <3>1. SlotOf(nack) \in ValidSlots /\ slots[SlotOf(nack)].seq = nack
      BY <2>8, <2>9, SlotOfType DEF Holds, ValidSlots
    <3>2. /\ Turn(nack) \in 0 .. Turn(write_seq)
          /\ Turn(write_seq) \in Int /\ Turn(nack) \in Int
          /\ Turn(write_seq) < HalfSeq
      BY <2>1, <2>7, <2>8, <3>1, TurnType, SeqDiffRange
         DEF StreamInv, OrderOK, Turn
    <3>3. SeqDiff(nack, write_seq) = Turn(nack) - Turn(write_seq)
      BY <2>1, <2>8, <3>2, SeqDiffBetween DEF Turn
    <3> QED BY <2>7, <2>8, <3>2, <3>3
  <2> QED BY <2>4, <2>9
<1> QED BY <1>1, StreamInvariant, PTL

(* A number is skipped only when the counter is not zero: as it is exact,  *)
(* some slot is full, and what it holds is neither behind the player nor   *)
(* beyond the window.                                                      *)
THEOREM SkipsComeToAnEnd == StreamSpec => SkipsEnd
<1>1. ASSUME StreamInv, Skip PROVE \E i \in SlotIndices : Pending(i)
  <2>1. PlacedInv /\ IInv /\ SlotCap \in Nat \ {0}
    BY <1>1, JitterAssumption DEF StreamInv, PlacedInv
  <2>2. ValidSlots # {}
    BY <1>1, <2>1, FS_EmptySet DEF Skip, IInv, CountExact
  <2>3. PICK i \in ValidSlots : TRUE  BY <2>2
  <2>4. i \in SlotIndices /\ slots[i] # NoFrame /\ slots[i].seq \in SeqNums
    BY <2>1, <2>3, HeldType DEF ValidSlots
  <2>5. anchored  BY <1>1, <2>1, RunningAnchored DEF Skip
  <2>6. /\ Turn(slots[i].seq) \in 0 .. Turn(write_seq)
        /\ Turn(write_seq) < SlotCap /\ Turn(write_seq) \in Int
    BY <1>1, <2>1, <2>3, <2>5, TurnType
       DEF StreamInv, OrderOK, IInv, TypeOK
  <2>7. Pending(i)
    BY <2>1, <2>4, <2>6 DEF Pending, SlotIndices, Turn
  <2> QED BY <2>4, <2>7
<1>2. StreamInv /\ [StreamNext]_streamVars
        => [Skip => \E i \in SlotIndices : Pending(i)]_streamVars
  BY <1>1
<1> QED BY <1>2, StreamInvariant, PTL DEF StreamSpec, SkipsEnd

-----------------------------------------------------------------------------
(* Prebuffering.  The packets that come before playback starts have slots  *)
(* of their own as long as they fall into the window the first one opened. *)

(* Losses do not stretch the packets that prebuffering takes beyond it.    *)
BurstsFit == (TargetDepth - 1) * (MaxBurst + 1) < SlotCap

FillOK ==
  anchored /\ ~started /\ slots_count < TargetDepth =>
    /\ slots_count = heard /\ heard >= 1
    /\ Turn(tx_seq) - burst <= (heard - 1) * (MaxBurst + 1) + 1

FillInv == StreamInv /\ FillOK

LEMMA BurstsSum ==
  ASSUME BurstsFit, NEW n \in Nat, 1 <= n, n < TargetDepth
  PROVE  /\ (n - 1) * (MaxBurst + 1) + MaxBurst + 1 = n * (MaxBurst + 1)
         /\ n * (MaxBurst + 1) < SlotCap /\ n * (MaxBurst + 1) \in Int
         /\ (n - 1) * (MaxBurst + 1) \in Int
<1>1. MaxBurst \in Nat /\ TargetDepth \in Nat /\ SlotCap \in Nat
  BY StreamAssumption, JitterAssumption
<1> DEFINE b == MaxBurst + 1
           t == TargetDepth - 1
<1>2. b \in Nat /\ t \in Nat /\ n <= t  BY <1>1
<1>3. t * b < SlotCap  BY DEF BurstsFit
<1> HIDE DEF b, t
<1>4. (n - 1) * b + b = n * b  BY <1>2, SMT
<1>5. n * b <= t * b  BY <1>2, SMT
<1>6. n * b \in Int /\ t * b \in Int /\ (n - 1) * b \in Int  BY <1>2
<1>7. n * b < SlotCap  BY <1>1, <1>3, <1>5, <1>6
<1>8. b = MaxBurst + 1 /\ MaxBurst \in Nat  BY <1>1 DEF b
<1> QED BY <1>4, <1>6, <1>7, <1>8

LEMMA DeliverFills ==
  ASSUME RingDividesSeqs, BurstsFit, FillInv, Deliver
  PROVE  FillOK'
<1>1. PICK data \in Payloads : Put(tx_seq, data)  BY DEF Deliver
<1>2. /\ PlacedInv /\ CountExact /\ TypeOK /\ IdleIsEmpty /\ OrderOK
      /\ tx_seq \in SeqNums /\ slots_count \in Nat
      /\ slots \in [SlotIndices -> Frames \cup {NoFrame}]
      /\ tx_seq' = SeqAdd(tx_seq, 1) /\ burst' = 0 /\ heard \in 0 .. SlotCap
      /\ burst \in 0 .. MaxBurst /\ MaxBurst \in Nat
      /\ TargetDepth \in Nat /\ SlotCap \in Nat /\ TargetDepth < SlotCap
      /\ MaxAhead \in Nat \ {0} /\ MaxAhead < HalfSeq /\ HalfSeq \in Nat
  BY StreamAssumption, JitterAssumption, SeqModAssumption
     DEF Deliver, FillInv, StreamInv, StreamTypes, PlacedInv, IInv, TypeOK
<1>3. SlotOf(tx_seq) \in SlotIndices  BY <1>2, SlotOfType
<1>4. CASE ~anchored
  <2>1. /\ read_seq' = tx_seq /\ heard' = 1
        /\ slots_count' = IF slots[SlotOf(tx_seq)] = NoFrame
                          THEN slots_count + 1 ELSE slots_count
    BY <1>1, <1>4 DEF Put, Accepts, Insert, Deliver
  <2>2. slots_count = 0 /\ slots[SlotOf(tx_seq)] = NoFrame
    BY <1>2, <1>3, <1>4, FS_EmptySet DEF IdleIsEmpty, CountExact, ValidSlots
  <2>3. SeqDiff(tx_seq', tx_seq) = 1
    BY <1>2, SeqDiffSelf, TurnOfNext
  <2>4. Turn(tx_seq)' = 1  BY <2>1, <2>3 DEF Turn
  <2>5. (heard' - 1) * (MaxBurst + 1) = 0
    <3>1. 0 * (MaxBurst + 1) = 0  BY <1>2
    <3> QED BY <2>1, <3>1
  <2> QED BY <1>2, <2>1, <2>2, <2>4, <2>5 DEF FillOK
<1>5. CASE anchored
  <2> SUFFICES ASSUME ~started', slots_count' < TargetDepth
               PROVE  /\ slots_count' = heard' /\ heard' >= 1
                      /\ Turn(tx_seq)' - burst'
                           <= (heard' - 1) * (MaxBurst + 1) + 1
    BY DEF FillOK
  <2>1. /\ ~started /\ read_seq' = read_seq
        /\ IF Accepts(tx_seq) THEN Insert(tx_seq, data)
                              ELSE UNCHANGED <<slots, slots_count>>
    BY <1>1, <1>5 DEF Put
  <2>2. slots_count < TargetDepth
    <3>1. slots_count <= slots_count'  BY <1>2, <2>1 DEF Insert
    <3>2. slots_count' \in Nat  BY <1>2, <2>1 DEF Insert
    <3> QED BY <1>2, <3>1, <3>2
  <2>3. /\ slots_count = heard /\ heard >= 1
        /\ Turn(tx_seq) - burst <= (heard - 1) * (MaxBurst + 1) + 1
    BY <1>5, <2>1, <2>2 DEF FillInv, FillOK
  <2>4. /\ Turn(write_seq) >= -1 /\ Turn(write_seq) < Turn(tx_seq)
        /\ Turn(tx_seq) < MaxAhead /\ Turn(write_seq) \in Int
        /\ Turn(tx_seq) \in Int
        /\ \A i \in ValidSlots : Turn(slots[i].seq) \in 0 .. Turn(write_seq)
    <3>1. write_seq \in SeqNums  BY <1>2 DEF TypeOK
    <3> QED BY <1>2, <1>5, <3>1, TurnType DEF OrderOK, Deliver, InStep, Turn
  <2>5. /\ (heard - 1) * (MaxBurst + 1) + MaxBurst + 1 = heard * (MaxBurst + 1)
        /\ heard * (MaxBurst + 1) < SlotCap /\ heard * (MaxBurst + 1) \in Int
        /\ (heard - 1) * (MaxBurst + 1) \in Int
    <3>1. heard \in Nat /\ heard < TargetDepth  BY <1>2, <2>2, <2>3
    <3> QED BY <2>3, <3>1, BurstsSum
  <2>6. Turn(tx_seq) <= heard * (MaxBurst + 1)
    <3> DEFINE p == (heard - 1) * (MaxBurst + 1)
               q == heard * (MaxBurst + 1)
    <3>1. /\ p \in Int /\ q \in Int /\ p + MaxBurst + 1 = q
          /\ Turn(tx_seq) - burst <= p + 1
      BY <2>3, <2>5
    <3> HIDE DEF p, q
    <3>2. Turn(tx_seq) <= q  BY <1>2, <2>4, <3>1
    <3> QED BY <3>2 DEF q
  <2>7. Turn(tx_seq) \in SlotIndices
    <3>1. Turn(tx_seq) < SlotCap  BY <1>2, <2>4, <2>5, <2>6
    <3> QED BY <1>2, <2>4, <3>1 DEF SlotIndices
  <2>8. Accepts(tx_seq)
    BY <1>2, <2>1, <2>7 DEF Accepts, Turn, SlotIndices
  <2>9. slots[SlotOf(tx_seq)] = NoFrame
    <3> SUFFICES ASSUME slots[SlotOf(tx_seq)] # NoFrame PROVE FALSE
      OBVIOUS
    <3> DEFINE i == SlotOf(tx_seq)
    <3>1. i \in ValidSlots  BY <1>3 DEF ValidSlots
    <3>2. /\ slots[i].seq \in SeqNums /\ SlotOf(slots[i].seq) = SlotOf(tx_seq)
          /\ Turn(slots[i].seq) \in 0 .. Turn(write_seq)
      BY <1>2, <2>4, <3>1, HeldType
    <3> HIDE DEF i
    <3>3. Turn(slots[i].seq) \in SlotIndices
      BY <1>2, <2>4, <2>7, <3>2 DEF SlotIndices
    <3>4. read_seq \in SeqNums  BY <1>2 DEF TypeOK
    <3>5. slots[i].seq = tx_seq
      BY <1>2, <2>7, <3>2, <3>3, <3>4, SameSlotSameSeq DEF Turn
    <3> QED BY <2>4, <3>2, <3>5
  <2>10. slots_count' = heard + 1  BY <2>1, <2>3, <2>8, <2>9 DEF Insert
  <2>11. heard' = heard + 1
    BY <1>2, <1>5, <2>2, <2>3 DEF Deliver
  <2>12. Turn(tx_seq)' = Turn(tx_seq) + 1
    <3>1. read_seq \in SeqNums  BY <1>2 DEF TypeOK
    <3> QED BY <1>2, <2>1, <2>4, <3>1, TurnOfNext DEF Turn
  <2>13. (heard' - 1) * (MaxBurst + 1) = heard * (MaxBurst + 1)
    <3>1. heard' - 1 = heard  BY <1>2, <2>11
    <3> QED BY <3>1
  <2> DEFINE q == heard * (MaxBurst + 1)
             p == (heard' - 1) * (MaxBurst + 1)
  <2>14. p = q /\ q \in Int /\ Turn(tx_seq) <= q  BY <2>5, <2>6, <2>13
  <2> HIDE DEF q, p
  <2>15. Turn(tx_seq)' - burst' <= p + 1
    BY <1>2, <2>4, <2>12, <2>14
  <2> QED BY <1>2, <2>10, <2>11, <2>15 DEF p
<1> QED BY <1>4, <1>5

LEMMA RestFills ==
  ASSUME FillInv, Lose \/ Take \/ UNCHANGED streamVars
  PROVE  FillOK'
<1>1. CASE Lose
  <2>1. /\ anchored' = anchored /\ started' = started /\ read_seq' = read_seq
        /\ slots_count' = slots_count /\ heard' = heard
        /\ burst' = burst + 1 /\ tx_seq' = SeqAdd(tx_seq, 1)
    BY <1>1 DEF Lose, jitterVars, bufVars
  <2> SUFFICES ASSUME anchored PROVE FillOK'
    BY <2>1 DEF FillOK
  <2>2. /\ PlacedInv /\ tx_seq \in SeqNums /\ read_seq \in SeqNums
        /\ burst \in Int /\ Turn(tx_seq) < MaxAhead
        /\ MaxAhead \in Nat \ {0} /\ MaxAhead < HalfSeq /\ HalfSeq \in Nat
    BY <1>1, StreamAssumption, SeqModAssumption
       DEF FillInv, StreamInv, StreamTypes, PlacedInv, IInv, TypeOK, Lose,
           InStep, Turn
  <2>3. Turn(tx_seq) \in Int  BY <2>2, TurnType
  <2>4. Turn(tx_seq)' = Turn(tx_seq) + 1
    BY <2>1, <2>2, <2>3, TurnOfNext DEF Turn
  <2>5. Turn(tx_seq)' - burst' = Turn(tx_seq) - burst
    BY <2>1, <2>2, <2>3, <2>4
  <2> QED BY <2>1, <2>5 DEF FillInv, FillOK
<1>2. CASE Take
  <2>1. tx_seq' = tx_seq /\ burst' = burst /\ heard' = heard /\ Get
    BY <1>2 DEF Take
  <2>2. CASE Prebuffer
    <3>1. UNCHANGED bufVars  BY <2>2 DEF Prebuffer
    <3> QED BY <2>1, <3>1 DEF FillInv, FillOK, Turn, bufVars
  <2>3. CASE ~Prebuffer
    BY <2>1, <2>3 DEF Get, Play, Underrun, Skip, FillOK
  <2> QED BY <2>2, <2>3
<1>3. CASE UNCHANGED streamVars
  BY <1>3 DEF FillInv, FillOK, Turn, streamVars, jitterVars, bufVars
<1> QED BY <1>1, <1>2, <1>3

(* TargetDepth packets of the stream are enough to start playback, however *)
(* many of those between them are lost, up to a burst that BurstsFit       *)
(* allows: at most 30 in a row in the code.                                *)
THEOREM PrebufferIsFilled ==
  ASSUME RingDividesSeqs, BurstsFit
  PROVE  StreamSpec => []PrebufferFills
<1>1. FillInv => PrebufferFills
  <2> SUFFICES ASSUME FillInv, anchored, ~started, heard >= TargetDepth,
                      ~(slots_count >= TargetDepth)
               PROVE  FALSE
    BY DEF PrebufferFills
  <2>1. slots_count \in Nat /\ TargetDepth \in Nat /\ heard \in Nat
    BY JitterAssumption
       DEF FillInv, StreamInv, StreamTypes, PlacedInv, IInv, TypeOK
  <2>2. slots_count = heard  BY <2>1 DEF FillInv, FillOK
  <2> QED BY <2>1, <2>2
<1>2. StreamInit => FillOK  BY DEF StreamInit, Init, FillOK
<1>3. StreamInv /\ FillOK /\ [StreamNext]_streamVars => FillOK'
  BY DeliverFills, RestFills DEF StreamNext, FillInv
<1>4. StreamInv /\ FillOK => PrebufferFills  BY <1>1 DEF FillInv
<1> QED BY <1>2, <1>3, <1>4, StreamInvariant, PTL DEF StreamSpec
=============================================================================
