----------------------------- MODULE FrameQueue -----------------------------
(***************************************************************************)
(* What the receiver promises while the jitter buffer is disabled: a queue *)
(* of the newest Depth frames in the order they arrived, silence when it   *)
(* is empty.                                                               *)
(***************************************************************************)
EXTENDS Naturals, Sequences

CONSTANTS
  Depth,     \* frames the queue holds
  Frames,    \* what a packet may carry
  Silence    \* what is played when nothing is there

VARIABLES
  queue,     \* the frames waiting, oldest first
  played     \* the last frame taken

queueVars == <<queue, played>>

Init == queue = <<>> /\ played = Silence

(* The oldest frame makes room when the queue is full.                     *)
Put(frame) ==
  /\ queue' = Append(IF Len(queue) = Depth THEN Tail(queue) ELSE queue, frame)
  /\ UNCHANGED played

Get == IF queue = <<>>
       THEN played' = Silence /\ UNCHANGED queue
       ELSE played' = Head(queue) /\ queue' = Tail(queue)

(* A session begins with nothing of the one before it.                     *)
Clear == queue' = <<>> /\ UNCHANGED played

Next == Get \/ (\E frame \in Frames : Put(frame)) \/ Clear

Spec == Init /\ [][Next]_queueVars
=============================================================================
