------------------------ MODULE AudioTransportProofs ------------------------
(***************************************************************************)
(* Proofs about the life of an audio transport, and about the headset as   *)
(* its owner.  No property is inductive: what a step may rely on depends on*)
(* how far the owner has come, so the invariants say for each place of the *)
(* owner what exists.                                                      *)
(***************************************************************************)
EXTENDS I2sPeriph, TLAPS

(* No thread of a transport is there, and no stream is started.            *)
Unused == rx = "none" /\ ~running

NoBuffers == s_jb = "null" /\ s_pass_ring = "null"
Whole == s_sock /\ BufferLive /\ HistoryUsable /\ rx # "none"
Nothing == ~s_sock /\ Unused /\ NoBuffers /\ s_history = "null"

Owns(place) ==
  CASE place = "idle"    -> Whole \/ Nothing
    [] place = "buffer"  -> s_sock /\ Unused /\ NoBuffers /\ s_history = "null"
    [] place = "history" -> s_sock /\ Unused /\ BufferLive /\ s_history = "null"
    [] place = "thread"  -> s_sock /\ Unused /\ BufferLive /\ HistoryUsable
    [] place = "err"     -> s_sock /\ Unused
    [] place = "stop"    -> Whole /\ ~running
    [] place = "join"    -> Whole /\ ~running

Places == {"idle", "buffer", "history", "thread", "err", "stop", "join"}

(* What the owner keeps to by itself, whatever the streams do.             *)
LifeInv == main \in Places /\ Owns(main)

LEMMA InitLife == Init => LifeInv
  BY DEF Init, LifeInv, Places, Owns, Nothing, Unused, NoBuffers

(* The owner's steps, the end of a session without the wait for the streams*)
(* included.                                                               *)
Opens == OpenSocket \/ OpenBuffer \/ OpenHistory \/ OpenThread \/ OpenFails
Ends == Stop \/ CloseBegins \/ Closed

LEMMA OpensLife == LifeInv /\ Opens => LifeInv'
<1> SUFFICES ASSUME LifeInv, Opens PROVE LifeInv'  OBVIOUS
<1> USE DEF LifeInv, Places, Owns
<1>1. CASE OpenSocket
  BY <1>1 DEF OpenSocket, Whole, Nothing, Unused, NoBuffers, pointers
<1>2. CASE OpenBuffer
  <2>1. s_sock' /\ Unused' /\ (s_history = "null")'
    BY <1>2 DEF OpenBuffer, Unused
  <2>2. CASE main' = "err"
    BY <2>1, <2>2
  <2>3. CASE main' = "history" /\ s_jitter_enable' /\ s_jb' = "live"
    BY <2>1, <2>3 DEF BufferLive
  <2>4. CASE main' = "history" /\ ~s_jitter_enable' /\ s_pass_ring' = "live"
    BY <2>1, <2>4 DEF BufferLive
  <2>5. PICK jitter \in BOOLEAN :
          /\ s_jitter_enable' = jitter
          /\ \/ /\ main' = "history"
                /\ s_jb' = IF jitter THEN "live" ELSE s_jb
                /\ s_pass_ring' = IF jitter THEN s_pass_ring ELSE "live"
             \/ main' = "err"
    BY <1>2, Zenon DEF OpenBuffer
  <2>6. CASE jitter = TRUE
    BY <2>2, <2>3, <2>5, <2>6, Zenon
  <2>7. CASE jitter = FALSE
    BY <2>2, <2>4, <2>5, <2>7, Zenon
  <2> QED BY <2>6, <2>7
<1>3. CASE OpenHistory
  BY <1>3 DEF OpenHistory, BufferLive, HistoryUsable, Unused
<1>4. CASE OpenThread
  BY <1>4 DEF OpenThread, BufferLive, HistoryUsable, Unused, Whole, pointers
<1>5. CASE OpenFails
  BY <1>5 DEF OpenFails, Release, Nothing, Unused, NoBuffers
<1> QED BY <1>1, <1>2, <1>3, <1>4, <1>5 DEF Opens

LEMMA StartLife == LifeInv /\ Start => LifeInv'
  BY DEF LifeInv, Places, Owns, Start, Whole, Nothing, BufferLive,
         HistoryUsable, pointers

LEMMA EndsLife == LifeInv /\ Ends => LifeInv'
<1> SUFFICES ASSUME LifeInv, Ends PROVE LifeInv'  OBVIOUS
<1> USE DEF LifeInv, Places, Owns
<1>1. CASE Stop
  BY <1>1 DEF Stop, Whole, Nothing, BufferLive, HistoryUsable, pointers
<1>2. CASE CloseBegins
  BY <1>2 DEF CloseBegins, Whole, BufferLive, HistoryUsable, pointers
<1>3. CASE Closed
  BY <1>3 DEF Closed, Release, Nothing, Unused, NoBuffers
<1> QED BY <1>1, <1>2, <1>3 DEF Ends

(* The receive thread never goes back to not being there.                  *)
LEMMA RxLife ==
  LifeInv /\ RxThread => LifeInv' /\ UNCHANGED <<main, s_sock, running, inside>>
<1> SUFFICES ASSUME LifeInv, RxThread
             PROVE  LifeInv' /\ UNCHANGED <<main, s_sock, running, inside>>
  OBVIOUS
<1>1. PICK from, next : RxStep(from, next) /\ from # "none" /\ next # "none"
  BY DEF RxThread, RxChecks, RxTimesOut, RxReceives, RxFails, RxHandled
<1>2. rx # "none" /\ rx' # "none"
  BY <1>1 DEF RxStep
<1>3. UNCHANGED <<main, s_sock, s_jitter_enable, s_history_size, s_jb,
                  s_pass_ring, s_history, running, inside>>
  BY <1>1 DEF RxStep, pointers
<1> QED BY <1>2, <1>3 DEF LifeInv, Places, Owns, Whole, Nothing, Unused,
                          NoBuffers, BufferLive, HistoryUsable

(* A call of a stream, allowed or not, changes nothing that is owned.      *)
LEMMA UnownedLife ==
  ASSUME LifeInv, UNCHANGED <<main, s_sock, s_jitter_enable, s_history_size,
                              pointers, rx, running>>
  PROVE  LifeInv'
  BY DEF pointers, LifeInv, Places, Owns, Whole, Nothing, Unused, NoBuffers,
         BufferLive, HistoryUsable

LEMMA CallLife ==
  ASSUME LifeInv, NEW stream, CallBegins(stream) \/ Returns(stream)
  PROVE  LifeInv'
  BY UnownedLife DEF CallBegins, Returns

-----------------------------------------------------------------------------
(* The transport by itself.                                                *)

(* A stream is inside a call only of a transport that is open and not yet  *)
(* being closed.                                                           *)
StreamsInv == inside # {} => s_sock /\ main \in {"idle", "stop"}

IInv == LifeInv /\ StreamsInv

LEMMA InitIInv == Init => IInv
  BY InitLife DEF Init, IInv, StreamsInv

LEMMA OwnerIInv == IInv /\ (OpenSocket \/ Start \/ Stop \/ Owner) => IInv'
<1> SUFFICES ASSUME IInv, OpenSocket \/ Start \/ Stop \/ Owner
             PROVE  IInv'
  OBVIOUS
<1>1. CASE Opens
  <2>1. inside = {} /\ inside' = inside
    BY <1>1 DEF IInv, StreamsInv, Opens, OpenSocket, OpenBuffer, OpenHistory,
                OpenThread, OpenFails
  <2> QED BY <1>1, <2>1, OpensLife DEF IInv, StreamsInv
<1>2. CASE Start
  BY <1>2, StartLife DEF IInv, StreamsInv, Start
<1>3. CASE Stop
  BY <1>3, EndsLife DEF IInv, StreamsInv, Stop, Ends
<1>4. CASE Close
  BY <1>4, EndsLife DEF IInv, StreamsInv, Close, CloseBegins, Ends
<1>5. CASE Closed
  BY <1>5, EndsLife DEF IInv, StreamsInv, Closed, Ends
<1> QED BY <1>1, <1>2, <1>3, <1>4, <1>5 DEF Owner, Opens

LEMMA StreamIInv ==
  ASSUME IInv, NEW stream \in Streams, Calls(stream) \/ Returns(stream)
  PROVE  IInv'
<1>1. LifeInv'  BY CallLife DEF IInv, Calls
<1>2. CASE Calls(stream)
  <2>1. s_sock /\ main \in {"idle", "stop"}
    BY <1>2 DEF Calls, IInv, LifeInv, Places, Owns, Whole, Nothing, Unused
  <2> QED BY <1>1, <1>2, <2>1 DEF Calls, CallBegins, IInv, StreamsInv
<1>3. CASE Returns(stream)
  <2>1. inside # {}  BY <1>3 DEF Returns
  <2> QED BY <1>1, <1>3, <2>1 DEF Returns, IInv, StreamsInv
<1> QED BY <1>2, <1>3

LEMMA StepIInv == IInv /\ [Next]_transportVars => IInv'
<1> SUFFICES ASSUME IInv, [Next]_transportVars PROVE IInv'  OBVIOUS
<1>1. CASE UNCHANGED transportVars
  BY <1>1, UnownedLife DEF transportVars, IInv, StreamsInv
<1>2. CASE RxThread
  BY <1>2, RxLife DEF IInv, StreamsInv
<1> QED BY <1>1, <1>2, OwnerIInv, StreamIInv DEF Next

LEMMA IInvariant == Spec => []IInv
<1> QED BY InitIInv, StepIInv, PTL DEF Spec

LEMMA IInvSafe == IInv => NoUseAfterFree
  BY DEF IInv, LifeInv, StreamsInv, Places, Owns, Whole, Nothing, Unused,
         NoUseAfterFree

LEMMA LifeAtomic == LifeInv => AllOrNothing
  BY DEF LifeInv, Places, Owns, Whole, Nothing, Unused, NoBuffers, AllOrNothing

(* No thread is at work on a buffer, a history or a socket that            *)
(* audio_transport_close or a failed audio_transport_open has let go of.   *)
THEOREM SafeToUse == Spec => []NoUseAfterFree
<1> QED BY IInvSafe, IInvariant, PTL

(* Whenever open or close has returned, the transport is there in full or  *)
(* not at all.                                                             *)
THEOREM OpenIsAtomic == Spec => []AllOrNothing
<1>1. IInv => AllOrNothing  BY LifeAtomic DEF IInv
<1> QED BY <1>1, IInvariant, PTL

-----------------------------------------------------------------------------
(* The headset.                                                            *)

(* Where the main task stands tells what it has opened and whether the     *)
(* streams are started.                                                    *)
PlaceInv ==
  /\ op \in {"idle", "mic_enc", "transport", "opening", "disable_rx",
             "disable_tx", "closing", "codecs"}
  /\ op = "idle" => main = "idle" /\ s_open = s_sock
  /\ op \in {"mic_enc", "transport"} => main = "idle" /\ ~s_sock /\ ~s_open
  /\ op = "opening" => main \notin {"stop", "join"} /\ ~s_open
  /\ op \in {"disable_rx", "disable_tx"} => main = "stop" /\ s_open
  /\ op = "closing" => main \in {"stop", "join"} /\ s_open
  /\ op = "codecs" => main = "idle" /\ ~s_sock /\ s_open
  /\ running => op = "idle" /\ s_open

HeldInv ==
  held = CASE op = "mic_enc" -> Spk
           [] op \in {"transport", "opening"} \/ s_open -> Spk \cup Mic
           [] OTHER -> {}

InsideInv ==
  /\ inside \subseteq Streams
  /\ "play" \in inside <=> play = "recv"
  /\ "mic" \in inside <=> mic = "send"

(* Without an orphan: a task that has been told to stop is at work only    *)
(* until the main task has disabled its channel.                           *)
ToldInv ==
  /\ s_mic_task => s_play_task
  /\ s_play_task => running /\ channels
  /\ ~s_mic_task /\ op # "disable_rx" => mic \in {"none", "check", "delay"}
  /\ ~s_play_task /\ op \notin {"disable_rx", "disable_tx"} => play = "none"
  /\ op \in {"disable_rx", "disable_tx"} => channels

TaskTypes ==
  /\ s_play_task \in BOOLEAN /\ s_mic_task \in BOOLEAN
  /\ s_sock \in BOOLEAN /\ s_open \in BOOLEAN
  /\ play \in {"none", "check", "recv", "write"}
  /\ mic \in {"none", "check", "read", "send", "delay"}

PeriphInv == /\ LifeInv /\ TaskTypes
             /\ PlaceInv /\ HeldInv /\ InsideInv
             /\ orphaned \/ ToldInv

(* What a step of the headset is to the transport.                         *)
Complies == [orphaned' \/ Next]_transportVars

LEMMA InitPeriph == PeriphInit => PeriphInv
<1> SUFFICES ASSUME PeriphInit PROVE PeriphInv  OBVIOUS
<1>1. LifeInv  BY InitLife DEF PeriphInit
<1> QED BY <1>1 DEF PeriphInit, Init, PeriphInv, TaskTypes, PlaceInv, HeldInv,
                    InsideInv, ToldInv

(* i2s_periph_init and i2s_periph_open, up to the transport.               *)
LEMMA CodecsOpen ==
  ASSUME PeriphInv, i2s_periph_init \/ spk_dec_open \/ mic_enc_open
  PROVE  PeriphInv' /\ Complies
<1>1. LifeInv' /\ InsideInv' /\ Complies
  BY UnownedLife DEF i2s_periph_init, spk_dec_open, mic_enc_open, PeriphInv,
     transportVars, taskVars, InsideInv, Complies
<1>2. TaskTypes' /\ PlaceInv'
  BY DEF i2s_periph_init, spk_dec_open, mic_enc_open, PeriphInv,
     transportVars, taskVars, TaskTypes, PlaceInv
<1>3. HeldInv'
  BY DEF i2s_periph_init, spk_dec_open, mic_enc_open, PeriphInv, PlaceInv,
     HeldInv, Spk, Mic
<1>4. orphaned' \/ ToldInv'
  BY DEF i2s_periph_init, spk_dec_open, mic_enc_open, PeriphInv, ToldInv,
     transportVars, taskVars
<1> QED BY <1>1, <1>2, <1>3, <1>4 DEF PeriphInv

LEMMA TransportOpen ==
  ASSUME PeriphInv, OpenTransport \/ Opened
  PROVE  PeriphInv' /\ Complies
<1>1. CASE OpenTransport
  <2>1. Opens  BY <1>1 DEF OpenTransport, TransportOpens, Opens
  <2>2. inside' = inside /\ running' = running /\ s_sock' \in BOOLEAN
    BY <1>1 DEF OpenTransport, TransportOpens, PeriphInv, TaskTypes, OpenSocket,
                OpenBuffer, OpenHistory, OpenThread, OpenFails, Release
  <2>3. main' \notin {"stop", "join"} /\ op' = "opening" /\ op \in {"transport", "opening"}
    BY <1>1 DEF OpenTransport, TransportOpens, PeriphInv, OpenSocket,
                OpenBuffer, OpenHistory, OpenThread, OpenFails
  <2>4. UNCHANGED <<channels, held, s_open, s_play_task, s_mic_task, play, mic,
                    orphaned>>
    BY <1>1 DEF OpenTransport, taskVars
  <2>5. LifeInv'  BY <2>1, OpensLife DEF PeriphInv
  <2>6. TaskTypes' /\ PlaceInv'
    BY <2>2, <2>3, <2>4 DEF PeriphInv, TaskTypes, PlaceInv
  <2>7. HeldInv' /\ InsideInv' /\ (orphaned' \/ ToldInv')
    BY <2>2, <2>3, <2>4 DEF PeriphInv, HeldInv, InsideInv, ToldInv
  <2>8. Complies
    BY <2>1 DEF Complies, Opens, Next, Owner
  <2> QED BY <2>5, <2>6, <2>7, <2>8 DEF PeriphInv
<1>2. CASE Opened
  <2>1. LifeInv' /\ InsideInv' /\ Complies
    BY <1>2, UnownedLife DEF Opened, PeriphInv, transportVars, taskVars,
                             InsideInv, Complies
  <2>2. TaskTypes' /\ PlaceInv'
    BY <1>2 DEF Opened, PeriphInv, transportVars, taskVars, TaskTypes, PlaceInv
  <2>3. HeldInv'
    BY <1>2 DEF Opened, PeriphInv, PlaceInv, TaskTypes, HeldInv, Spk, Mic
  <2>4. orphaned' \/ ToldInv'
    BY <1>2 DEF Opened, PeriphInv, ToldInv, transportVars, taskVars
  <2> QED BY <2>1, <2>2, <2>3, <2>4 DEF PeriphInv
<1> QED BY <1>1, <1>2

LEMMA StreamsStart ==
  ASSUME PeriphInv, i2s_periph_start
  PROVE  PeriphInv' /\ Complies
<1> USE DEF i2s_periph_start, PeriphInv, ownerVars
<1>1. Start /\ running' /\ UNCHANGED <<main, s_sock, inside>>
  BY DEF Start
<1>2. LifeInv'  BY <1>1, StartLife
<1>3. TaskTypes' /\ PlaceInv'
  BY <1>1 DEF TaskTypes, PlaceInv
<1>4. HeldInv' /\ InsideInv'
  BY <1>1 DEF HeldInv, InsideInv
<1>5. orphaned' \/ ToldInv'
  BY <1>1 DEF ToldInv, TaskTypes
<1> QED BY <1>1, <1>2, <1>3, <1>4, <1>5 DEF Complies, Next

LEMMA SessionCloses ==
  ASSUME PeriphInv, CloseSession \/ DisableRx \/ DisableTx
  PROVE  PeriphInv' /\ Complies
<1> USE DEF PeriphInv
<1>1. CASE CloseSession
  <2>1. /\ Stop /\ Ends /\ ~running' /\ main' = "stop"
        /\ UNCHANGED <<s_sock, inside>>
    BY <1>1 DEF CloseSession, Stop, Ends
  <2>2. LifeInv'  BY <2>1, EndsLife
  <2>3. TaskTypes' /\ PlaceInv'
    BY <1>1, <2>1 DEF CloseSession, TellTasks, TaskTypes, PlaceInv
  <2>4. HeldInv' /\ InsideInv'
    BY <1>1, <2>1 DEF CloseSession, HeldInv, InsideInv, PlaceInv
  <2>5. orphaned' \/ ToldInv'
    BY <1>1, <2>1 DEF CloseSession, TellTasks, ToldInv, TaskTypes
  <2> QED BY <2>1, <2>2, <2>3, <2>4, <2>5 DEF Complies, Next
<1>2. CASE DisableRx \/ DisableTx
  <2>1. UNCHANGED <<transportVars, channels, held, s_open, s_play_task,
                    s_mic_task, play, mic, orphaned>>
    BY <1>2 DEF DisableRx, DisableTx, taskVars
  <2>2. LifeInv' /\ InsideInv' /\ Complies
    BY <2>1, UnownedLife DEF transportVars, InsideInv, Complies
  <2>3. TaskTypes' /\ PlaceInv' /\ HeldInv'
    BY <1>2, <2>1 DEF DisableRx, DisableTx, transportVars, TaskTypes, PlaceInv,
                      HeldInv
  <2>4. orphaned' \/ ToldInv'
    BY <1>2, <2>1 DEF DisableRx, DisableTx, MainRuns, ToldInv, TaskTypes,
                      transportVars
  <2> QED BY <2>2, <2>3, <2>4
<1> QED BY <1>1, <1>2

(* By now no task is inside a call: this is what the transport asks.       *)
LEMMA TransportCloses ==
  ASSUME PeriphInv, CloseTransport
  PROVE  PeriphInv' /\ Complies
<1> USE DEF PeriphInv
<1>1. /\ op = "closing"
      /\ UNCHANGED <<channels, held, s_open, s_play_task, s_mic_task, play, mic,
                     orphaned>>
  BY DEF CloseTransport, taskVars
<1>2. CASE CloseBegins
  <2>1. /\ op' = "closing" /\ main' = "join"
        /\ UNCHANGED <<s_sock, inside, running>>
    BY <1>1, <1>2 DEF CloseTransport, CloseBegins
  <2>2. LifeInv'  BY <1>2, EndsLife DEF Ends
  <2>3. TaskTypes' /\ PlaceInv' /\ HeldInv' /\ InsideInv'
    BY <1>1, <2>1 DEF TaskTypes, PlaceInv, HeldInv, InsideInv
  <2>4. orphaned' \/ ToldInv'
    BY <1>1, <2>1 DEF ToldInv
  <2>5. orphaned \/ inside = {}
    BY <1>1 DEF ToldInv, InsideInv, PlaceInv, Streams
  <2> QED BY <1>1, <1>2, <2>2, <2>3, <2>4, <2>5 DEF Complies, Next, Owner, Close
<1>3. CASE Closed /\ op' = "codecs"
  <2>1. /\ main' = "idle" /\ s_sock' = FALSE
        /\ UNCHANGED <<inside, running>>
    BY <1>3 DEF Closed, Release
  <2>2. LifeInv'  BY <1>3, EndsLife DEF Ends
  <2>3. TaskTypes' /\ PlaceInv' /\ HeldInv' /\ InsideInv'
    BY <1>1, <1>3, <2>1 DEF TaskTypes, PlaceInv, HeldInv, InsideInv
  <2>4. orphaned' \/ ToldInv'
    BY <1>1, <1>3, <2>1 DEF ToldInv
  <2> QED BY <1>3, <2>2, <2>3, <2>4 DEF Complies, Next, Owner
<1> QED BY <1>2, <1>3 DEF CloseTransport

LEMMA ChannelsClose ==
  ASSUME PeriphInv, CloseCodecs \/ DeleteChannels
  PROVE  PeriphInv' /\ Complies
<1> USE DEF CloseCodecs, DeleteChannels, PeriphInv
<1>1. /\ op' = "idle" /\ s_open' = FALSE /\ main = "idle" /\ ~s_sock
      /\ ~running
      /\ UNCHANGED <<transportVars, s_play_task, s_mic_task, play, mic, orphaned>>
  BY DEF taskVars, PlaceInv, TaskTypes
<1>2. LifeInv' /\ InsideInv' /\ Complies
  BY <1>1, UnownedLife DEF transportVars, InsideInv, Complies
<1>3. TaskTypes' /\ PlaceInv'
  BY <1>1 DEF transportVars, TaskTypes, PlaceInv
<1>4. HeldInv'
  BY <1>1 DEF PlaceInv, TaskTypes, HeldInv, Spk, Mic
<1>5. orphaned' \/ ToldInv'
  BY <1>1 DEF ToldInv
<1> QED BY <1>2, <1>3, <1>4, <1>5

(* A task's step leaves everything else alone; only its calls show inside  *)
(* the transport.                                                          *)
LEMMA PlayerSteps ==
  ASSUME PeriphInv, PlayTask
  PROVE  PeriphInv' /\ Complies
<1> USE DEF PeriphInv
<1>1. UNCHANGED <<ownerVars, s_play_task, s_mic_task, mic, orphaned>>
  BY DEF PlayTask, PlayChecks, PlayDecodes, PlayWrites, Plays
<1>2. /\ LifeInv' /\ UNCHANGED <<main, s_sock, running>>
  BY UnownedLife DEF PlayTask, PlayChecks, PlayDecodes, PlayWrites, CallBegins,
                     Returns, transportVars
<1>3. TaskTypes' /\ PlaceInv' /\ HeldInv'
  BY <1>1, <1>2 DEF ownerVars, PlayTask, PlayChecks, PlayDecodes, PlayWrites,
                    Plays, TaskTypes, PlaceInv, HeldInv
<1>4. InsideInv'
  BY <1>1 DEF ownerVars, PlayTask, PlayChecks, PlayDecodes, PlayWrites, Plays,
              CallBegins, Returns, transportVars, InsideInv, Streams
<1>5. orphaned' \/ ToldInv'
  BY <1>1, <1>2 DEF ownerVars, PlayTask, PlayChecks, PlayDecodes, PlayWrites,
                    Plays, ToldInv
<1>6. Complies
  <2>1. CASE PlayChecks /\ s_play_task
    <3>1. orphaned' \/ running  BY <1>1, <2>1 DEF ToldInv
    <3>2. CallBegins("play")  BY <2>1 DEF PlayChecks
    <3> QED BY <3>1, <3>2 DEF Complies, Next, Calls, Streams
  <2>2. CASE PlayDecodes
    BY <2>2 DEF PlayDecodes, Complies, Next, Streams
  <2>3. CASE PlayWrites \/ (PlayChecks /\ ~s_play_task)
    BY <2>3 DEF PlayWrites, PlayChecks, Complies
  <2> QED BY <2>1, <2>2, <2>3 DEF PlayTask
<1> QED BY <1>2, <1>3, <1>4, <1>5, <1>6

LEMMA MicSteps ==
  ASSUME PeriphInv, MicTask
  PROVE  PeriphInv' /\ Complies
<1> USE DEF PeriphInv
<1>1. UNCHANGED <<ownerVars, s_play_task, s_mic_task, play, orphaned>>
  BY DEF MicTask, MicChecks, MicReads, MicFails, MicSends, MicWaits, Records
<1>2. /\ LifeInv' /\ UNCHANGED <<main, s_sock, running>>
  BY UnownedLife DEF MicTask, MicChecks, MicReads, MicFails, MicSends, MicWaits,
                     CallBegins, Returns, transportVars
<1>3. TaskTypes' /\ PlaceInv' /\ HeldInv'
  BY <1>1, <1>2 DEF ownerVars, MicTask, MicChecks, MicReads, MicFails, MicSends,
                    MicWaits, Records, TaskTypes, PlaceInv, HeldInv
<1>4. InsideInv'
  BY <1>1 DEF ownerVars, MicTask, MicChecks, MicReads, MicFails, MicSends,
              MicWaits, Records, CallBegins, Returns, transportVars, InsideInv,
              Streams
<1>5. orphaned' \/ ToldInv'
  BY <1>1, <1>2 DEF ownerVars, MicTask, MicChecks, MicReads, MicFails, MicSends,
                    MicWaits, Records, ToldInv
<1>6. Complies
  <2>1. CASE MicReads
    <3>1. orphaned' \/ running \/ main = "stop"
      BY <1>1, <2>1 DEF MicReads, Records, ToldInv, PlaceInv
    <3> QED BY <2>1, <3>1 DEF MicReads, Complies, Next, Calls, Streams
  <2>2. CASE MicSends
    BY <2>2 DEF MicSends, Complies, Next, Streams
  <2>3. CASE MicChecks \/ MicFails \/ MicWaits
    BY <2>3 DEF MicChecks, MicFails, MicWaits, Complies
  <2> QED BY <2>1, <2>2, <2>3 DEF MicTask
<1> QED BY <1>2, <1>3, <1>4, <1>5, <1>6

LEMMA ReceiverSteps ==
  ASSUME PeriphInv, RxRuns
  PROVE  PeriphInv' /\ Complies
<1>1. LifeInv' /\ UNCHANGED <<main, s_sock, running, inside>>
  BY RxLife DEF RxRuns, PeriphInv
<1>2. UNCHANGED <<op, channels, held, s_open, s_play_task, s_mic_task, play,
                  mic, orphaned>>
  BY DEF RxRuns, ownerVars, taskVars
<1>3. TaskTypes' /\ PlaceInv' /\ HeldInv' /\ InsideInv' /\ (orphaned' \/ ToldInv')
  BY <1>1, <1>2 DEF PeriphInv, TaskTypes, PlaceInv, HeldInv, InsideInv, ToldInv
<1>4. Complies  BY DEF RxRuns, Complies, Next
<1> QED BY <1>1, <1>3, <1>4 DEF PeriphInv

LEMMA StepPeriph == PeriphInv /\ [PeriphNext]_periphVars => PeriphInv' /\ Complies
<1> SUFFICES ASSUME PeriphInv, [PeriphNext]_periphVars
             PROVE  PeriphInv' /\ Complies
  OBVIOUS
<1>1. CASE UNCHANGED periphVars
  <2>1. LifeInv' /\ Complies
    BY <1>1, UnownedLife DEF periphVars, transportVars, PeriphInv, Complies
  <2> QED BY <1>1, <2>1 DEF periphVars, transportVars, ownerVars, taskVars,
             PeriphInv, TaskTypes, PlaceInv, HeldInv, InsideInv, ToldInv
<1>2. CASE PeriphNext
  BY <1>2, CodecsOpen, TransportOpen, StreamsStart, SessionCloses,
     TransportCloses, ChannelsClose, PlayerSteps, MicSteps, ReceiverSteps
  DEF PeriphNext, MainTask
<1> QED BY <1>1, <1>2

LEMMA PeriphInvariant == PeriphSpec => []PeriphInv
<1> QED BY InitPeriph, StepPeriph, PTL DEF PeriphSpec

(* However a stop and a close of the headset fall into the steps of its two*)
(* tasks and of the receive thread, none of them is at work on a part of   *)
(* the transport that is gone.                                             *)
THEOREM HeadsetSessionSafe == PeriphSpec => []SessionSafe
<1>1. PeriphInv => SessionSafe
  <2> SUFFICES ASSUME PeriphInv, ~orphaned PROVE NoUseAfterFree
    BY DEF SessionSafe
  <2>1. inside # {} => op \in {"idle", "disable_rx", "disable_tx"} /\ s_open
    BY DEF PeriphInv, ToldInv, InsideInv, PlaceInv, Streams, TaskTypes
  <2>2. op = "idle" /\ s_open => s_sock /\ main = "idle"
    BY DEF PeriphInv, PlaceInv
  <2>3. op \in {"disable_rx", "disable_tx"} => main = "stop"
    BY DEF PeriphInv, PlaceInv
  <2>4. main = "stop" => s_sock
    BY DEF PeriphInv, LifeInv, Owns, Whole
  <2>5. inside # {} => s_sock /\ main \in {"idle", "stop"}
    BY <2>1, <2>2, <2>3, <2>4
  <2> QED BY <2>5, IInvSafe DEF PeriphInv, IInv, StreamsInv
<1> QED BY <1>1, PeriphInvariant, PTL

(* The codecs, their buffers and the channels outlive every use by a task, *)
(* and an open that failed at any call leaves none of them behind.         *)
THEOREM CodecsOutliveTasks == PeriphSpec => []CodecsHeld
<1>1. PeriphInv => CodecsHeld
  <2> SUFFICES ASSUME PeriphInv, ~orphaned PROVE CodecsHeld
    BY DEF CodecsHeld
  <2>1. s_open => held = Spk \cup Mic
    BY DEF PeriphInv, HeldInv, PlaceInv
  <2>2. play # "none" /\ play # "check" => s_open /\ channels
    BY DEF PeriphInv, ToldInv, PlaceInv, TaskTypes
  <2>3. mic \in {"read", "send"} => s_open /\ channels
    BY DEF PeriphInv, ToldInv, PlaceInv, TaskTypes
  <2>4. op = "idle" => held = IF s_open THEN Spk \cup Mic ELSE {}
    BY DEF PeriphInv, HeldInv
  <2> QED BY <2>1, <2>2, <2>3, <2>4 DEF CodecsHeld
<1> QED BY <1>1, PeriphInvariant, PTL

(* The transport of the headset, too, is there in full or not at all       *)
(* whenever open or close has returned, with an orphan as without.         *)
THEOREM HeadsetOpenIsAtomic == PeriphSpec => []AllOrNothing
<1>1. PeriphInv => AllOrNothing  BY LifeAtomic DEF PeriphInv
<1> QED BY <1>1, PeriphInvariant, PTL

(* Every step of the headset is one that the transport allows its owner:   *)
(* flags, channels and priorities do for it what a lock or a join would.   *)
THEOREM HeadsetComplies == PeriphSpec => ImplementsTransport
<1>1. PeriphInit => Init  BY DEF PeriphInit
<1>2. PeriphInv /\ [PeriphNext]_periphVars => [orphaned' \/ Next]_transportVars
  BY StepPeriph DEF Complies
<1> QED BY <1>1, <1>2, PeriphInvariant, PTL DEF PeriphSpec, ImplementsTransport
=============================================================================
