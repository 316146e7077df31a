------------------------------ MODULE I2sPeriph -----------------------------
(***************************************************************************)
(* The headset's audio session (i2s_periph.c) around the audio transport:  *)
(* the codecs and their buffers, the I2S channels, the playback and the    *)
(* microphone task, and the main task that opens, starts, stops and closes *)
(* them.                                                                   *)
(*                                                                         *)
(* Nothing is locked.  The two tasks have priority 3 and the main task     *)
(* priority 1 on one core, so the main task runs only while each of them   *)
(* blocks: in an I2S read or write, or in a delay of one tick.  (A call of *)
(* the network stack blocks for tasks of higher priority only.)  Disabling *)
(* a channel waits for a read or write of it that is under way.            *)
(***************************************************************************)
EXTENDS AudioTransport

VARIABLES
  op,           \* where the main task stands in i2s_periph.c
  deinit,       \* i2s_periph_deinit called the close under way
  channels,     \* s_i2s_tx and s_i2s_rx are not NULL
  held,         \* the codecs and buffers that exist
  s_open,
  s_play_task,  \* not NULL
  s_mic_task,   \* not NULL
  play,         \* where audio_play_task stands
  mic,          \* where audio_mic_task stands
  orphaned      \* history: the microphone's task was created, the player's not

ownerVars == <<op, deinit, channels, held, s_open>>
taskVars == <<s_play_task, s_mic_task, play, mic>>
periphVars == <<transportVars, ownerVars, taskVars, orphaned>>

Spk == {"s_dec", "s_spk_pcm"}
Mic == {"s_enc", "s_mic_pcm", "s_mic_enc"}

PeriphInit ==
  /\ Init
  /\ op = "idle" /\ deinit = FALSE
  /\ channels = FALSE /\ held = {} /\ s_open = FALSE
  /\ s_play_task = FALSE /\ s_mic_task = FALSE
  /\ play = "none" /\ mic = "none"
  /\ orphaned = FALSE

MainRuns == play \in {"none", "write"} /\ mic \in {"none", "read", "delay"}

-----------------------------------------------------------------------------
(* The main task: i2s_periph_init, i2s_periph_open.                        *)

i2s_periph_init ==
  /\ op = "idle" /\ MainRuns
  /\ channels' = TRUE
  /\ UNCHANGED <<transportVars, op, deinit, held, s_open, taskVars, orphaned>>

(* A codec opens with its buffers, or fails at one of its calls and closes *)
(* what it has by then.                                                    *)
spk_dec_open ==
  /\ op = "idle" /\ MainRuns
  /\ ~s_open
  /\ \/ held' = held \cup Spk /\ op' = "mic_enc"
     \/ held' = held \ Spk /\ op' = "idle"
  /\ UNCHANGED <<transportVars, deinit, channels, s_open, taskVars, orphaned>>

mic_enc_open ==
  /\ op = "mic_enc"
  /\ \/ held' = held \cup Mic /\ op' = "transport"
     \/ held' = (held \ Mic) \ Spk /\ op' = "idle"
  /\ UNCHANGED <<transportVars, deinit, channels, s_open, taskVars, orphaned>>

TransportOpens ==
  \/ op = "transport" /\ OpenSocket /\ op' = "opening"
  \/ op = "opening" /\ UNCHANGED op
     /\ (OpenBuffer \/ OpenHistory \/ OpenThread \/ OpenFails)

OpenTransport ==
  /\ TransportOpens
  /\ UNCHANGED <<deinit, channels, held, s_open, taskVars, orphaned>>

(* Slip: the decoder stays open when the transport does not open.          *)
OpenedKeepsDecoder ==
  /\ op = "opening" /\ main = "idle"
  /\ op' = "idle"
  /\ s_open' = s_sock
  /\ held' = IF s_sock THEN held ELSE held \ Mic
  /\ UNCHANGED <<transportVars, deinit, channels, taskVars, orphaned>>

Opened ==
  /\ op = "opening" /\ main = "idle"
  /\ op' = "idle"
  /\ s_open' = s_sock
  /\ held' = IF s_sock THEN held ELSE (held \ Mic) \ Spk
  /\ UNCHANGED <<transportVars, deinit, channels, taskVars, orphaned>>

-----------------------------------------------------------------------------
(* i2s_periph_start.  Each task may fail to be created, and its handle then*)
(* stays NULL.  A tick's delay is long over when the next session starts.  *)

i2s_periph_start ==
  /\ op = "idle" /\ MainRuns
  /\ s_open /\ channels /\ ~s_play_task
  /\ play = "none" /\ mic = "none"
  /\ Start
  /\ s_play_task' \in BOOLEAN /\ s_mic_task' \in BOOLEAN
  /\ play' = IF s_play_task' THEN "check" ELSE "none"
  /\ mic' = IF s_mic_task' THEN "check" ELSE "none"
  /\ orphaned' = (s_mic_task' /\ ~s_play_task')
  /\ UNCHANGED ownerVars

-----------------------------------------------------------------------------
(* i2s_periph_close and i2s_periph_deinit.                                 *)

(* Slip: the microphone's task is not told.                                *)
TellPlayer == s_play_task' = FALSE /\ UNCHANGED s_mic_task

TellTasks == s_play_task' = FALSE /\ s_mic_task' = FALSE

(* i2s_periph_stop does nothing without channels or without a player.      *)
CloseSession ==
  /\ op = "idle" /\ MainRuns
  /\ s_open
  /\ Stop
  /\ deinit' \in BOOLEAN /\ (deinit' => channels)
  /\ IF channels /\ s_play_task
     THEN op' = "disable_rx" /\ TellTasks
     ELSE op' = "closing" /\ UNCHANGED <<s_play_task, s_mic_task>>
  /\ UNCHANGED <<channels, held, s_open, play, mic, orphaned>>

(* Slip: the channel is disabled without a wait.                           *)
DisableRxAtOnce ==
  /\ op = "disable_rx" /\ MainRuns
  /\ op' = "disable_tx"
  /\ UNCHANGED <<transportVars, deinit, channels, held, s_open, taskVars,
                 orphaned>>

DisableRx ==
  /\ op = "disable_rx" /\ MainRuns
  /\ mic # "read"
  /\ op' = "disable_tx"
  /\ UNCHANGED <<transportVars, deinit, channels, held, s_open, taskVars,
                 orphaned>>

DisableTx ==
  /\ op = "disable_tx" /\ MainRuns
  /\ play # "write"
  /\ op' = "closing"
  /\ UNCHANGED <<transportVars, deinit, channels, held, s_open, taskVars,
                 orphaned>>

CloseTransport ==
  /\ op = "closing" /\ MainRuns
  /\ CloseBegins \/ (Closed /\ op' = "codecs")
  /\ main = "stop" => UNCHANGED op
  /\ UNCHANGED <<deinit, channels, held, s_open, taskVars, orphaned>>

(* The codecs are closed, and i2s_periph_deinit deletes the channels.      *)
CloseCodecs ==
  /\ op = "codecs" /\ MainRuns
  /\ op' = "idle"
  /\ held' = (held \ Mic) \ Spk
  /\ s_open' = FALSE
  /\ channels' = (channels /\ ~deinit)
  /\ deinit' = FALSE
  /\ UNCHANGED <<transportVars, taskVars, orphaned>>

(* i2s_periph_deinit without a session.                                    *)
DeleteChannels ==
  /\ op = "idle" /\ MainRuns
  /\ channels /\ ~s_open
  /\ channels' = FALSE
  /\ UNCHANGED <<transportVars, op, deinit, held, s_open, taskVars, orphaned>>

-----------------------------------------------------------------------------
(* audio_play_task and audio_mic_task.                                     *)

Plays(from, next) ==
  /\ play = from /\ play' = next
  /\ UNCHANGED <<ownerVars, s_play_task, s_mic_task, mic, orphaned>>

PlayChecks == IF s_play_task THEN Plays("check", "recv") /\ CallBegins("play")
              ELSE Plays("check", "none") /\ UNCHANGED transportVars
PlayDecodes == Plays("recv", "write") /\ Returns("play")
PlayWrites == Plays("write", "check") /\ UNCHANGED transportVars

Records(from, next) ==
  /\ mic = from /\ mic' = next
  /\ UNCHANGED <<ownerVars, s_play_task, s_mic_task, play, orphaned>>

MicChecks == /\ Records("check", IF s_mic_task THEN "read" ELSE "none")
             /\ UNCHANGED transportVars

(* A read that the channel's end cuts short returns what it has, and that  *)
(* is sent although the stop has come; one that fails waits a tick.        *)
MicReads == Records("read", "send") /\ CallBegins("mic")
MicFails == Records("read", "delay") /\ UNCHANGED transportVars
MicSends == Records("send", "check") /\ Returns("mic")
MicWaits == Records("delay", "check") /\ UNCHANGED transportVars

PlayTask == PlayChecks \/ PlayDecodes \/ PlayWrites
MicTask == MicChecks \/ MicReads \/ MicFails \/ MicSends \/ MicWaits

MainTask == \/ mic_enc_open \/ OpenTransport \/ Opened
            \/ DisableRx \/ DisableTx \/ CloseTransport \/ CloseCodecs

RxRuns == RxThread /\ UNCHANGED <<ownerVars, taskVars, orphaned>>

PeriphNext == \/ i2s_periph_init \/ spk_dec_open \/ i2s_periph_start
              \/ CloseSession \/ DeleteChannels \/ MainTask
              \/ PlayTask \/ MicTask \/ RxRuns

(* Tasks and threads are scheduled; a read, a write and a receive end.  The*)
(* main task gets its turn although the two tasks keep it waiting at times.*)
PeriphSpec ==
  /\ PeriphInit /\ [][PeriphNext]_periphVars
  /\ SF_periphVars(MainTask)
  /\ WF_periphVars(PlayTask)
  /\ WF_periphVars(MicTask)
  /\ WF_periphVars(RxRuns)

-----------------------------------------------------------------------------
(* Properties.  A microphone task without a player is the one case in which*)
(* i2s_periph_stop stops nothing and the close is not safe.                *)

(* No task is at work on a codec, on its buffers or on a channel that the  *)
(* main task has closed; and a session has all of them, while without one  *)
(* none is left over, whichever call of the last open failed.              *)
CodecsHeld ==
  \/ orphaned
  \/ /\ play # "none" /\ play # "check" => Spk \subseteq held /\ channels
     /\ mic \in {"read", "send"} => Mic \subseteq held /\ channels
     /\ op = "idle" => held = IF s_open THEN Spk \cup Mic ELSE {}

(* No thread is at work on a part of the transport that is closed: the two *)
(* tasks included, for which the stop waits without a lock or a join.      *)
SessionSafe == orphaned \/ NoUseAfterFree

(* The order of flags, channels and priorities gives the transport what it *)
(* asks of its owner: it is not closed while a task is inside a call.      *)
ImplementsTransport == Init /\ [][orphaned' \/ Next]_transportVars
=============================================================================
