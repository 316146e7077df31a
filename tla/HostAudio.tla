----------------------------- MODULE HostAudio -----------------------------
(***************************************************************************)
(* The host's audio devices (server/audio_dev.c) on the passthrough ring.  *)
(* The audio library calls audio_tx_thread with captured samples and       *)
(* audio_rx_thread for samples to play, as many per call as it likes;      *)
(* packets carry frames of a fixed size.  Both callbacks regroup, and keep *)
(* the rest of a frame for their next call.  They run on threads of their  *)
(* own, beside the loop of main.c and the receive thread.  One step is one *)
(* round of a callback's loop.                                             *)
(*                                                                         *)
(* A captured sample is its number in the session, a played one the frame  *)
(* it belongs to and its place there.  A decoded frame is the frame itself *)
(* (out), so that s_mic_pcm needs no variable.  The histories keep as many *)
(* samples as two frames have.                                             *)
(***************************************************************************)
EXTENDS PassRing

CONSTANTS
  FRAME_SAMPLES,   \* s_spk_frame_samples and s_mic_samples, 480 in the code
  MaxCall,         \* bound: samples of one callback
  Numbers          \* bound: samples are numbered modulo this

ASSUME HostAudioAssumption ==
  FRAME_SAMPLES \in Nat \ {0} /\ MaxCall \in Nat \ {0} /\ Numbers \in Nat \ {0}

VARIABLES
  main,          \* where main.c is
  s_spk_acc,     \* the s_spk_acc_fill samples waiting to be a frame
  captured,      \* the number of the next sample
  spk_left,      \* samples the running audio_tx_thread has not yet taken
  s_mic_avail,   \* samples of the frame decoded last
  s_mic_pos,     \* those of them that were played
  mic_left,      \* samples the running audio_rx_thread still has to produce
  sent,          \* history: the latest samples the session has sent
  heard          \* history: the latest samples the session has played

spkVars == <<s_spk_acc, captured, spk_left, sent>>
micVars == <<s_mic_avail, s_mic_pos, mic_left, heard>>
hostAudioVars == <<main, spkVars, micVars, passVars>>

HostInit ==
  /\ Init
  /\ main = "start"
  /\ s_spk_acc = <<>> /\ captured = 0 /\ spk_left = 0 /\ sent = <<>>
  /\ s_mic_avail = 0 /\ s_mic_pos = 0 /\ mic_left = 0 /\ heard = <<>>

AtMost(limit, n) == IF n < limit THEN n ELSE limit

Remember(history, samples) ==
  LET all == history \o samples
      start == Len(all) - 2 * FRAME_SAMPLES
  IN  IF start <= 0 THEN all ELSE SubSeq(all, start + 1, Len(all))

-----------------------------------------------------------------------------
(* The calls of main.c.                                                    *)

audio_transport_init ==
  /\ main = "start"
  /\ main' \in {"closed", "ended"}
  /\ UNCHANGED <<spkVars, micVars, passVars>>

audio_transport_open_conn ==
  /\ main = "closed" /\ main' = "open"
  /\ Reopen
  /\ UNCHANGED <<spkVars, micVars>>

(* Slip: the samples left over from the session before are sent first.     *)
start_spk_keeps_rest ==
  /\ main = "open" /\ main' = "starting"
  /\ captured' = 0 /\ sent' = <<>>
  /\ UNCHANGED <<s_spk_acc, spk_left, micVars, passVars>>

(* audio_transport_start, to the start of each device.                     *)
start_spk ==
  /\ main = "open" /\ main' = "starting"
  /\ s_spk_acc' = <<>>
  /\ captured' = 0 /\ sent' = <<>>
  /\ UNCHANGED <<spk_left, micVars, passVars>>

start_mic ==
  /\ main = "starting" /\ main' = "streaming"
  /\ s_mic_avail' = 0 /\ s_mic_pos' = 0
  /\ heard' = <<>>
  /\ UNCHANGED <<mic_left, spkVars, passVars>>

(* audio_transport_stop: ma_device_stop waits for the device's callback.   *)
stop_spk ==
  /\ main = "streaming" /\ main' = "stopping"
  /\ spk_left = 0
  /\ UNCHANGED <<spkVars, micVars, passVars>>

stop_mic ==
  /\ main = "stopping" /\ main' = "open"
  /\ mic_left = 0
  /\ UNCHANGED <<spkVars, micVars, passVars>>

audio_transport_close_conn ==
  /\ main = "open" /\ main' = "closed"
  /\ UNCHANGED <<spkVars, micVars, passVars>>

audio_transport_deinit ==
  /\ main = "closed" /\ main' = "ended"
  /\ UNCHANGED <<spkVars, micVars, passVars>>

Main == \/ audio_transport_init \/ audio_transport_open_conn
        \/ start_spk \/ start_mic \/ stop_spk \/ stop_mic
        \/ audio_transport_close_conn \/ audio_transport_deinit

-----------------------------------------------------------------------------
(* The capture device: a call, and the rounds of audio_tx_thread.          *)

Captures ==
  /\ main \in {"starting", "streaming"} /\ spk_left = 0
  /\ spk_left' \in 1 .. MaxCall
  /\ UNCHANGED <<main, s_spk_acc, captured, sent, micVars, passVars>>

audio_tx_thread ==
  /\ spk_left > 0
  /\ LET n == AtMost(FRAME_SAMPLES - Len(s_spk_acc), spk_left)
         acc == s_spk_acc \o [k \in 1 .. n |-> (captured + k - 1) % Numbers]
         full == Len(acc) = FRAME_SAMPLES
     IN  /\ s_spk_acc' = IF full THEN <<>> ELSE acc
         /\ sent' = IF full THEN Remember(sent, acc) ELSE sent
         /\ captured' = (captured + n) % Numbers
         /\ spk_left' = spk_left - n
  /\ UNCHANGED <<main, micVars, passVars>>

(* The playback device: a call, and the rounds of audio_rx_thread.         *)
Plays ==
  /\ main \in {"streaming", "stopping"} /\ mic_left = 0
  /\ mic_left' \in 1 .. MaxCall
  /\ UNCHANGED <<main, s_mic_avail, s_mic_pos, heard, spkVars, passVars>>

(* The copy of up to n samples of a frame of which avail are there, from   *)
(* the one after pos.                                                      *)
Copy(frame, avail, pos) ==
  LET n == AtMost(avail - pos, mic_left)
  IN  /\ s_mic_pos' = pos + n
      /\ mic_left' = mic_left - n
      /\ heard' = Remember(heard, [k \in 1 .. n |-> <<frame, pos + k>>])

audio_rx_thread ==
  /\ mic_left > 0
  /\ IF s_mic_pos >= s_mic_avail
     THEN /\ passthrough_get
          /\ s_mic_avail' = FRAME_SAMPLES
          /\ Copy(out', FRAME_SAMPLES, 0)
     ELSE /\ Copy(out, s_mic_avail, s_mic_pos)
          /\ UNCHANGED <<s_mic_avail, passVars>>
  /\ UNCHANGED <<main, spkVars>>

(* The receive thread of the transport, which lives between open and close. *)
Receives ==
  /\ main \in {"open", "starting", "streaming", "stopping"}
  /\ \E frame \in Frames : passthrough_put(frame)
  /\ UNCHANGED <<main, spkVars, micVars>>

HostNext == Main \/ Captures \/ audio_tx_thread \/ Plays \/ audio_rx_thread
            \/ Receives

HostSpec == HostInit /\ [][HostNext]_hostAudioVars

-----------------------------------------------------------------------------
(* Properties.                                                             *)

SentWhole ==
  /\ \A k \in 1 .. Len(sent) - 1 : sent[k + 1] = (sent[k] + 1) % Numbers
  /\ sent # <<>> /\ Len(sent) < 2 * FRAME_SAMPLES => sent[1] = 0

Joined(a, b) == \/ b = <<a[1], a[2] + 1>>
                \/ a[2] = FRAME_SAMPLES /\ b[2] = 1

HeardWhole ==
  /\ \A k \in 1 .. Len(heard) - 1 : Joined(heard[k], heard[k + 1])
  /\ heard # <<>> /\ Len(heard) < 2 * FRAME_SAMPLES => heard[1][2] = 1

(* However the library cuts the stream into calls, the packets of a        *)
(* session carry every captured sample once and in order, from its first,  *)
(* and what is played is whole frames one after the other: no sample is    *)
(* lost, repeated or taken over from the session before.                   *)
NoSampleLost == SentWhole /\ HeardWhole
=============================================================================
