--------------------------- MODULE AudioTransport ---------------------------
(***************************************************************************)
(* The life of an audio transport (audio_transport.c): audio_transport_open*)
(* with its failures half-way, audio_transport_close, the receive thread,  *)
(* and what it asks of its owner and of the two streams that use it in     *)
(* between: at the headset the tasks of i2s_periph.c, at the host the      *)
(* callbacks of audio_dev.c.  I2sPeriph shows the headset to comply.       *)
(* What the threads do with the buffers is in Jitter, PassRing, AudioLink; *)
(* here it matters only whether the buffers exist while they do it.        *)
(***************************************************************************)

VARIABLES
  main,             \* where the thread that opens and closes stands
  s_sock,           \* the socket is open
  s_jitter_enable,  \* the jitter buffer is used, not the passthrough ring
  s_history_size,   \* a history is kept: the size is not 0
  s_jb, s_pass_ring, s_history,   \* the three pointers
  s_rx_run,         \* the receive thread is to go on
  rx,               \* where the receive thread stands
  running,          \* the streams are started
  inside            \* the streams inside a call of the transport

pointers == <<s_jb, s_pass_ring, s_history>>
transportVars == <<main, s_sock, s_jitter_enable, s_history_size, pointers,
                   s_rx_run, rx, running, inside>>

Streams == {"play", "mic"}
Pointers == {"null", "live", "freed"}

Init ==
  /\ main = "idle"
  /\ s_sock = FALSE /\ s_jitter_enable = FALSE /\ s_history_size = FALSE
  /\ s_jb = "null" /\ s_pass_ring = "null" /\ s_history = "null"
  /\ s_rx_run = FALSE /\ rx = "none"
  /\ running = FALSE /\ inside = {}

-----------------------------------------------------------------------------
(* audio_transport_open, up to each of the points where it can fail.       *)

OpenSocket ==
  /\ main = "idle" /\ ~s_sock
  /\ s_sock' = TRUE
  /\ main' \in {"buffer", "err"}
  /\ UNCHANGED <<s_jitter_enable, s_history_size, pointers, s_rx_run, rx,
                 running, inside>>

OpenBuffer ==
  /\ main = "buffer"
  /\ \E jitter \in BOOLEAN :
       /\ s_jitter_enable' = jitter
       /\ \/ /\ main' = "history"
             /\ s_jb' = IF jitter THEN "live" ELSE s_jb
             /\ s_pass_ring' = IF jitter THEN s_pass_ring ELSE "live"
          \/ /\ main' = "err"
             /\ UNCHANGED <<s_jb, s_pass_ring>>
  /\ UNCHANGED <<s_sock, s_history_size, s_history, s_rx_run, rx, running,
                 inside>>

OpenHistory ==
  /\ main = "history"
  /\ \/ /\ s_history_size' = FALSE
        /\ main' = "thread"
        /\ UNCHANGED s_history
     \/ /\ s_history_size' = TRUE
        /\ \/ main' = "thread" /\ s_history' = "live"
           \/ main' = "err" /\ s_history' = "null"
  /\ UNCHANGED <<s_sock, s_jitter_enable, s_jb, s_pass_ring, s_rx_run, rx,
                 running, inside>>

OpenThread ==
  /\ main = "thread"
  /\ \/ s_rx_run' = TRUE /\ rx' = "check" /\ main' = "idle"
     \/ s_rx_run' = FALSE /\ main' = "err" /\ UNCHANGED rx
  /\ UNCHANGED <<s_sock, s_jitter_enable, s_history_size, pointers, running,
                 inside>>

(* Slip: the history is freed and its pointer kept.                        *)
ReleaseKeepsHistory ==
  /\ s_sock' = FALSE
  /\ s_jb' = "null" /\ s_pass_ring' = "null"
  /\ s_history' = IF s_history = "live" THEN "freed" ELSE s_history

(* What the error path and audio_transport_close let go of.                *)
Release ==
  /\ s_sock' = FALSE
  /\ s_jb' = "null" /\ s_pass_ring' = "null" /\ s_history' = "null"

OpenFails ==
  /\ main = "err"
  /\ Release
  /\ main' = "idle"
  /\ UNCHANGED <<s_jitter_enable, s_history_size, s_rx_run, rx, running, inside>>

-----------------------------------------------------------------------------
(* rx_thread.                                                              *)

RxStep(from, next) ==
  /\ rx = from /\ rx' = next
  /\ UNCHANGED <<main, s_sock, s_jitter_enable, s_history_size, pointers,
                 s_rx_run, running, inside>>

(* Slip: the thread looks at s_rx_run only after a timeout.                *)
RxHandledAgain == RxStep("handle", "recv")

RxChecks == IF s_rx_run THEN RxStep("check", "recv") ELSE RxStep("check", "done")
RxTimesOut == RxStep("recv", "check")
RxReceives == RxStep("recv", "handle")
RxFails == RxStep("recv", "done")      \* any error but EAGAIN ends the thread
RxHandled == RxStep("handle", "check")

-----------------------------------------------------------------------------
(* The streams, and the owner that starts and stops them.                  *)

Start ==
  /\ main = "idle" /\ s_sock
  /\ running' = TRUE
  /\ UNCHANGED <<main, s_sock, s_jitter_enable, s_history_size, pointers,
                 s_rx_run, rx, inside>>

CallBegins(stream) ==
  /\ inside' = inside \cup {stream}
  /\ UNCHANGED <<main, s_sock, s_jitter_enable, s_history_size, pointers,
                 s_rx_run, rx, running>>

(* A stream calls while it is started; one on its way to its next call when*)
(* it is told to stop makes it.                                            *)
Calls(stream) == (running \/ main = "stop") /\ CallBegins(stream)

Returns(stream) ==
  /\ stream \in inside
  /\ inside' = inside \ {stream}
  /\ UNCHANGED <<main, s_sock, s_jitter_enable, s_history_size, pointers,
                 s_rx_run, rx, running>>

Stop ==
  /\ main = "idle" /\ s_sock
  /\ running' = FALSE
  /\ main' = "stop"
  /\ UNCHANGED <<s_sock, s_jitter_enable, s_history_size, pointers, s_rx_run,
                 rx, inside>>

CloseBegins ==
  /\ main = "stop"
  /\ s_rx_run' = FALSE
  /\ main' = "join"
  /\ UNCHANGED <<s_sock, s_jitter_enable, s_history_size, pointers, rx,
                 running, inside>>

(* The owner waits for the streams before it closes: I2sPeriph shows how   *)
(* the headset does it; at the host ma_device_stop waits for the callback. *)
Close == inside = {} /\ CloseBegins

Closed ==
  /\ main = "join"
  /\ rx = "done" /\ rx' = "none"
  /\ Release
  /\ main' = "idle"
  /\ UNCHANGED <<s_jitter_enable, s_history_size, s_rx_run, running, inside>>

Owner == OpenBuffer \/ OpenHistory \/ OpenThread \/ OpenFails \/ Close \/ Closed
RxThread == RxChecks \/ RxTimesOut \/ RxReceives \/ RxFails \/ RxHandled

Next == \/ OpenSocket \/ Start \/ Stop \/ Owner
        \/ RxThread
        \/ \E stream \in Streams : Calls(stream) \/ Returns(stream)

Spec == Init /\ [][Next]_transportVars

-----------------------------------------------------------------------------
(* Properties.                                                             *)

BufferLive == IF s_jitter_enable THEN s_jb = "live" ELSE s_pass_ring = "live"
HistoryUsable == s_history = IF s_history_size THEN "live" ELSE "null"

(* No thread is at work on a buffer, a history or a socket that the owner  *)
(* has already let go of, at whatever point a stop or a close comes in.    *)
NoUseAfterFree ==
  /\ rx = "handle" \/ inside # {} => s_sock /\ HistoryUsable
  /\ rx = "handle" \/ "play" \in inside => BufferLive

(* An open either leaves the whole transport or nothing of it, at whatever *)
(* call it failed, and a close leaves nothing for the next session to find.*)
AllOrNothing ==
  main = "idle" =>
    \/ s_sock /\ BufferLive /\ HistoryUsable /\ rx # "none"
    \/ /\ ~s_sock /\ rx = "none" /\ ~running
       /\ s_jb = "null" /\ s_pass_ring = "null" /\ s_history = "null"

(* audio_transport_close returns, whatever the network sends meanwhile.    *)
CloseReturns == main = "stop" ~> main = "idle"
=============================================================================
