------------------------------ MODULE Listener ------------------------------
(***************************************************************************)
(* What one direction of audio promises the listener, whatever the network *)
(* does: the frames are heard in the order they were recorded, each for    *)
(* its own period; a frame that is missing is heard as a period that is    *)
(* concealed, and no frame is left out or repeated between two that are    *)
(* heard.  Only from a silence may the listener start anew, with any frame *)
(* recorded so far, one heard before included.                             *)
(*                                                                         *)
(* Frames are named by their numbers, which come round after Period.       *)
(***************************************************************************)
EXTENDS Naturals

CONSTANTS
  Period,    \* how many numbers there are
  First,     \* the number of the first frame
  Intact     \* TRUE if no frame is replaced by another under its number

VARIABLES
  recorded,  \* the frames recorded so far
  next,      \* the frame recorded next
  turn,      \* the frame whose turn it is, None after the thread was lost
  ear        \* the frame heard, None while the output is concealed

listenerVars == <<recorded, next, turn, ear>>

None == Period
After(frame) == (frame + 1) % Period

Init == recorded = {} /\ next = First /\ turn = None /\ ear = None

Record ==
  /\ recorded' = recorded \cup {next}
  /\ next' = After(next)
  /\ UNCHANGED <<turn, ear>>

(* Whose turn it may be: any recorded frame's when the thread was lost.    *)
Due == IF turn = None THEN recorded ELSE {turn}

Hear ==
  \E frame \in Due \cap recorded :
    /\ ear' \in IF Intact THEN {frame} ELSE recorded
    /\ turn' = After(frame)
    /\ UNCHANGED <<recorded, next>>

Miss ==
  \E frame \in Due :
    /\ ear' = None
    /\ turn' = After(frame)
    /\ UNCHANGED <<recorded, next>>

LoseThread ==
  /\ ear' = None /\ turn' = None
  /\ UNCHANGED <<recorded, next>>

Next == Record \/ Hear \/ Miss \/ LoseThread

Spec == Init /\ [][Next]_listenerVars
=============================================================================
