------------------------------- MODULE SeqNum -------------------------------
(***************************************************************************)
(* The arithmetic of the audio sequence numbers: uint16_t values that wrap *)
(* around, compared through the int16_t difference of seq_diff (jitter.c). *)
(* The width is a parameter so that small instances wrap early; the code   *)
(* has SeqMod = 65536.                                                     *)
(***************************************************************************)
EXTENDS Integers

CONSTANTS
  SeqMod,   \* how many sequence numbers there are, 2^16 in the code
  HalfSeq   \* half of them, 2^15 in the code

ASSUME SeqModAssumption ==
  /\ HalfSeq \in Nat \ {0}
  /\ SeqMod = 2 * HalfSeq

SeqNums == 0 .. (SeqMod - 1)

(* Slip: the sum is kept in an int and never wraps.                        *)
SeqAddWide(seq, n) == seq + n

(* The uint16_t sum of a sequence number and a small increment.            *)
SeqAdd(seq, n) == (seq + n) % SeqMod

(* seq_diff: a - b as a signed 16-bit value; positive when a is newer.     *)
SeqDiff(a, b) == ((a - b + HalfSeq) % SeqMod) - HalfSeq
=============================================================================
