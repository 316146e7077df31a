----------------------------- MODULE DeviceApp ------------------------------
(***************************************************************************)
(* The headset's application: the main event loop (main.c), the discovery  *)
(* task (discovery.c), the control connection's task (control_transport.c),*)
(* the audio session (i2s_periph.c), the Wi-Fi handler (wifi_handle.c) and *)
(* the restart request of the captive portal (captive_portal.c).           *)
(*                                                                         *)
(* The loop handles one event at a time.  The main task has priority 1 and *)
(* the two network tasks priority 0 on one core, so a handler runs without *)
(* them up to a call that blocks: those are the states of main.  The tasks *)
(* and the Wi-Fi handler talk to the loop only through its queue, and wait *)
(* there when it is full.  There is one host; what it does, and what the   *)
(* network does, is chosen freely within the bounds below.                 *)
(***************************************************************************)
EXTENDS Naturals, Sequences

CONSTANTS
  QueueSize,              \* queue_size of the event loop, 8
  WIFI_STA_MAX_RETRIES,   \* 5
  MaxPresses,             \* bound: button gestures and portal requests
  MaxDrops,               \* bound: times the Wi-Fi drops or fails to connect
  CanFail,                \* whether sockets, codecs and connect may fail
  CalmWifi                \* whether an address comes only to an idle loop

ASSUME DeviceAssumption ==
  /\ QueueSize \in Nat \ {0}
  /\ WIFI_STA_MAX_RETRIES \in Nat
  /\ MaxPresses \in Nat /\ MaxDrops \in Nat
  /\ CanFail \in BOOLEAN /\ CalmWifi \in BOOLEAN

VARIABLES
  s_app_mode,       \* "SLEEP", "CONF" or "MAIN"
  to,               \* the mode a switch in progress goes to
  main,             \* where the main task waits
  queue,            \* the events posted and not handled
  disc,             \* the discovery task; "none" when discovery's s_task is NULL
  ctrl,             \* the control task; "none" when its s_task is NULL
  s_open,           \* the audio session is open
  playing,          \* s_play_task is not NULL
  led,              \* the status LED
  wifi,             \* the Wi-Fi driver
  s_sta_retry_num,  \* connection attempts since the last address
  httpd,            \* the portal's server
  presses, drops    \* bounds

sessionVars == <<disc, ctrl, s_open, playing>>
wifiVars == <<wifi, s_sta_retry_num>>
mainVars == <<s_app_mode, to, main, led>>
boundVars == <<presses, drops>>
deviceVars == <<sessionVars, wifiVars, mainVars, boundVars, queue, httpd>>

(* A call that may fail either has its effect or leaves things as they are.*)
MayFail(done, failed) == IF CanFail THEN {done, failed} ELSE {done}

(* app_main after a reset: the button or the supply posted POWER_SWITCH.   *)
Booted ==
  [s_app_mode |-> "SLEEP", to |-> "SLEEP", main |-> "idle", led |-> "OFF",
   queue |-> <<"POWER_SWITCH">>, disc |-> "none", ctrl |-> "none",
   s_open |-> FALSE, playing |-> FALSE, wifi |-> "off",
   s_sta_retry_num |-> 0, httpd |-> "off"]

Init ==
  /\ s_app_mode = Booted.s_app_mode /\ to = Booted.to
  /\ main = Booted.main /\ led = Booted.led /\ queue = Booted.queue
  /\ disc = Booted.disc /\ ctrl = Booted.ctrl
  /\ s_open = Booted.s_open /\ playing = Booted.playing
  /\ wifi = Booted.wifi /\ s_sta_retry_num = Booted.s_sta_retry_num
  /\ httpd = Booted.httpd
  /\ presses = 0 /\ drops = 0

(* The tasks of priority 0 (discovery, control connection, buttons) run    *)
(* only while the main task blocks: in a handler, or for want of an event. *)
MainBlocked == main # "idle" \/ queue = <<>>

(* Slip: the queue takes one event only.                                   *)
PostOne(event) == queue = <<>> /\ queue' = Append(queue, event)

Post(event) == Len(queue) < QueueSize /\ queue' = Append(queue, event)

-----------------------------------------------------------------------------
(* The operations the handlers call.                                       *)

discovery_start ==
  IF disc = "none" THEN disc' \in MayFail("running", "none")
                   ELSE UNCHANGED disc

(* Slip: a task that has suspended itself is taken for one that is gone.   *)
discovery_stop_running == disc' = IF disc = "suspended" THEN disc ELSE "none"

discovery_stop == disc' = "none"

control_transport_start ==
  IF ctrl = "none" THEN ctrl' \in MayFail("connecting", "none")
                   ELSE UNCHANGED ctrl

control_transport_stop == ctrl' = "none"

i2s_periph_open ==
  IF s_open THEN UNCHANGED s_open ELSE s_open' \in MayFail(TRUE, FALSE)

(* Slip: playback starts whether or not the session could be opened.       *)
i2s_periph_start_unopened == playing' = (playing \/ s_app_mode = "MAIN")

(* The I2S channels exist while the mode is MAIN.                          *)
i2s_periph_start == playing' = (playing \/ (s_open /\ s_app_mode = "MAIN"))

(* wifi_handle.c.  esp_wifi_stop drops a station's connection, which the   *)
(* event handler may count as a retry.                                     *)
WifiStopped ==
  s_sta_retry_num' \in
    {s_sta_retry_num,
     IF wifi \in {"connecting", "up"} /\ s_sta_retry_num < WIFI_STA_MAX_RETRIES
     THEN s_sta_retry_num + 1 ELSE s_sta_retry_num}

wifi_handle_setup_softap == WifiStopped /\ wifi' = "ap"

(* The start of the station is answered by the first esp_wifi_connect.     *)
wifi_handle_setup_sta == WifiStopped /\ wifi' = "connecting"

-----------------------------------------------------------------------------
(* main_event_handler.                                                     *)

Handles(event) ==
  /\ main = "idle"
  /\ queue # <<>> /\ Head(queue) = event
  /\ queue' = Tail(queue)

app_power_switch == IF s_app_mode = "SLEEP" THEN "MAIN" ELSE "SLEEP"

app_conf_switch ==
  CASE s_app_mode = "SLEEP" -> "SLEEP"
    [] s_app_mode = "MAIN"  -> "CONF"
    [] s_app_mode = "CONF"  -> "MAIN"

(* The init half of a switch, once the old mode is left.                   *)
Enter(mode) ==
  /\ s_app_mode' = mode
  /\ main' = "idle"
  /\ \/ /\ mode = "CONF"
        /\ led' = "FLASH"
        /\ wifi_handle_setup_softap
        /\ httpd' \in MayFail("on", "off")
     \/ /\ mode = "MAIN"
        /\ led' = "BLINK"
        /\ wifi_handle_setup_sta
        /\ httpd' = "off"

SwitchFromSleep(mode) ==
  /\ s_app_mode = "SLEEP" /\ mode # "SLEEP"
  /\ Enter(mode)
  /\ to' = mode
  /\ UNCHANGED sessionVars

(* The conf server is given half a second to send its responses.           *)
SwitchFromConf(mode) ==
  /\ s_app_mode = "CONF"
  /\ main' = "conf_delay"
  /\ to' = mode
  /\ UNCHANGED <<sessionVars, wifiVars, s_app_mode, led, httpd>>

(* Slip: leaving MAIN forgets the control connection.                      *)
SwitchKeepsControl(mode) ==
  /\ s_app_mode = "MAIN"
  /\ playing' = FALSE
  /\ to' = mode
  /\ IF s_open THEN main' = "closing" /\ UNCHANGED disc
               ELSE main' = "tcp_delay" /\ discovery_stop
  /\ UNCHANGED <<wifiVars, ctrl, s_open, s_app_mode, led, httpd>>

(* Leaving MAIN blocks in audio_transport_close while a session is open.   *)
SwitchFromMain(mode) ==
  /\ s_app_mode = "MAIN"
  /\ control_transport_stop
  /\ playing' = FALSE
  /\ to' = mode
  /\ IF s_open THEN main' = "closing" /\ UNCHANGED disc
               ELSE main' = "tcp_delay" /\ discovery_stop
  /\ UNCHANGED <<wifiVars, s_open, s_app_mode, led, httpd>>

Switch ==
  /\ \E event \in {"POWER_SWITCH", "CONF_SWITCH"} :
       LET mode == IF event = "POWER_SWITCH" THEN app_power_switch
                                             ELSE app_conf_switch
       IN  /\ Handles(event)
           /\ \/ /\ mode = s_app_mode
                 /\ UNCHANGED <<sessionVars, wifiVars, mainVars, httpd>>
              \/ SwitchFromSleep(mode)
              \/ SwitchFromConf(mode)
              \/ SwitchFromMain(mode)
  /\ UNCHANGED boundVars

(* The rest of i2s_periph_deinit, then discovery_stop, then the delay.     *)
CloseDone ==
  /\ main = "closing"
  /\ s_open' = FALSE
  /\ discovery_stop
  /\ main' = "tcp_delay"
  /\ UNCHANGED <<ctrl, playing, wifiVars, s_app_mode, to, led, queue, httpd,
                 boundVars>>

ConfDelayDone ==
  /\ main = "conf_delay"
  /\ main' = "httpd_stop"
  /\ UNCHANGED <<sessionVars, wifiVars, s_app_mode, to, led, queue, httpd,
                 boundVars>>

(* httpd_stop returns when no request is being handled.                    *)
EnterAwake ==
  /\ \/ main = "tcp_delay"
     \/ main = "httpd_stop" /\ httpd # "posting"
  /\ to # "SLEEP"
  /\ Enter(to)
  /\ UNCHANGED <<sessionVars, to, queue, boundVars>>

(* Deep sleep keeps nothing; it ends in app_main.                          *)
DeepSleep ==
  /\ \/ main = "tcp_delay"
     \/ main = "httpd_stop" /\ httpd # "posting"
  /\ to = "SLEEP"
  /\ main' = "asleep"
  /\ s_app_mode' = Booted.s_app_mode /\ to' = Booted.to
  /\ led' = Booted.led /\ queue' = <<>>
  /\ disc' = Booted.disc /\ ctrl' = Booted.ctrl
  /\ s_open' = Booted.s_open /\ playing' = Booted.playing
  /\ wifi' = Booted.wifi /\ s_sta_retry_num' = Booted.s_sta_retry_num
  /\ httpd' = Booted.httpd
  /\ UNCHANGED boundVars

Boot ==
  /\ main = "asleep"
  /\ main' = Booted.main
  /\ queue' = Booted.queue
  /\ UNCHANGED <<sessionVars, wifiVars, s_app_mode, to, led, httpd, boundVars>>

WifiConnected ==
  /\ Handles("WIFI_CONNECTED")
  /\ discovery_start
  /\ UNCHANGED <<ctrl, s_open, playing, wifiVars, mainVars, httpd, boundVars>>

HostFound ==
  /\ Handles("HOST_FOUND")
  /\ discovery_stop
  /\ control_transport_start
  /\ i2s_periph_open
  /\ UNCHANGED <<playing, wifiVars, mainVars, httpd, boundVars>>

HostConnected ==
  /\ Handles("HOST_CONNECTED")
  /\ led' = "OFF"
  /\ discovery_stop
  /\ i2s_periph_start
  /\ UNCHANGED <<ctrl, s_open, wifiVars, s_app_mode, to, main, httpd,
                 boundVars>>

(* Slip: discovery is not started again after a session.                   *)
SessionEndsForGood ==
  /\ control_transport_stop
  /\ UNCHANGED disc
  /\ led' = "BLINK"
  /\ main' = "idle"

(* What follows i2s_periph_close in the handler.                           *)
SessionEnds ==
  /\ control_transport_stop
  /\ discovery_start
  /\ led' = "BLINK"
  /\ main' = "idle"

(* Slip: the player goes on while the session closes.                      *)
HostDisconnectedPlaying ==
  /\ Handles("HOST_DISCONNECTED")
  /\ IF s_open THEN main' = "bye" /\ UNCHANGED <<ctrl, disc, led>>
               ELSE SessionEnds
  /\ UNCHANGED <<playing, s_open, wifiVars, s_app_mode, to, httpd, boundVars>>

HostDisconnected ==
  /\ Handles("HOST_DISCONNECTED")
  /\ playing' = FALSE
  /\ IF s_open THEN main' = "bye" /\ UNCHANGED <<ctrl, disc, led>>
               ELSE SessionEnds
  /\ UNCHANGED <<s_open, wifiVars, s_app_mode, to, httpd, boundVars>>

ByeDone ==
  /\ main = "bye"
  /\ s_open' = FALSE
  /\ SessionEnds
  /\ UNCHANGED <<playing, wifiVars, s_app_mode, to, queue, httpd, boundVars>>

-----------------------------------------------------------------------------
(* discovery_task.                                                         *)

(* The broadcast cannot be sent: the task suspends itself.  A station      *)
(* without an address has no way to send it, the access point has one.     *)
DiscFails ==
  /\ disc = "running" /\ MainBlocked
  /\ wifi \notin {"up", "ap"} \/ CanFail
  /\ disc' = "suspended"
  /\ UNCHANGED <<ctrl, s_open, playing, wifiVars, mainVars, queue, httpd,
                 boundVars>>

(* The host's answer; without one the task broadcasts again.               *)
DiscFinds ==
  /\ disc = "running" /\ MainBlocked
  /\ wifi = "up"
  /\ disc' = "posting"
  /\ UNCHANGED <<ctrl, s_open, playing, wifiVars, mainVars, queue, httpd,
                 boundVars>>

DiscPosts ==
  /\ disc = "posting" /\ MainBlocked
  /\ Post("HOST_FOUND")
  /\ disc' = "suspended"
  /\ UNCHANGED <<ctrl, s_open, playing, wifiVars, mainVars, httpd, boundVars>>

-----------------------------------------------------------------------------
(* control_transport_task.                                                 *)

CtrlStep(from, next) ==
  /\ ctrl = from /\ MainBlocked
  /\ ctrl' = next
  /\ UNCHANGED <<disc, s_open, playing, wifiVars, mainVars, httpd, boundVars>>

CtrlConnects == wifi = "up" /\ CtrlStep("connecting", "hello") /\ UNCHANGED queue

(* connect fails: the task suspends itself and tells nobody.               *)
CtrlFails == /\ wifi # "up" \/ CanFail
             /\ CtrlStep("connecting", "failed")
             /\ UNCHANGED queue

CtrlPostsHello == CtrlStep("hello", "connected") /\ Post("HOST_CONNECTED")

(* The host's end of the connection closes and the close arrives.          *)
HostCloses ==
  /\ wifi = "up" /\ ctrl = "connected"
  /\ ctrl' = "closed"
  /\ UNCHANGED <<disc, s_open, playing, wifiVars, mainVars, queue, httpd,
                 boundVars>>

(* The host is gone without a close that arrives (a reset, or the close is  *)
(* lost): recv returns -1 from then on, which the task takes for silence.   *)
HostVanishes == /\ drops < MaxDrops
                /\ drops' = drops + 1
                /\ ctrl = "connected"
                /\ ctrl' = "lost"
                /\ UNCHANGED <<disc, s_open, playing, wifiVars, mainVars,
                               queue, httpd, presses>>

(* Slip: the task suspends itself and tells nobody, as when connect fails. *)
CtrlForgetsBye == CtrlStep("closed", "suspended") /\ UNCHANGED queue

(* The poll every half second sees it: only then does recv return 0.       *)
CtrlPostsBye == CtrlStep("closed", "suspended") /\ Post("HOST_DISCONNECTED")

-----------------------------------------------------------------------------
(* wifi_event_handler, and the driver behind it.                           *)

WifiGotIp ==
  /\ wifi = "connecting"
  /\ CalmWifi => main = "idle" /\ queue = <<>>
  /\ Post("WIFI_CONNECTED")
  /\ wifi' = "up"
  /\ s_sta_retry_num' = 0
  /\ UNCHANGED <<sessionVars, mainVars, httpd, boundVars>>

WifiDrops ==
  /\ wifi \in {"connecting", "up"}
  /\ drops < MaxDrops
  /\ drops' = drops + 1
  /\ IF s_sta_retry_num < WIFI_STA_MAX_RETRIES
     THEN wifi' = "connecting" /\ s_sta_retry_num' = s_sta_retry_num + 1
     ELSE wifi' = "down" /\ UNCHANGED s_sta_retry_num
  /\ UNCHANGED <<sessionVars, mainVars, queue, httpd, presses>>

(* STA_START cannot connect: the SSID is refused.  The code sets the       *)
(* counter to 999; here that is any value that leaves no retry.            *)
WifiBadSsid ==
  /\ CanFail
  /\ wifi = "connecting"
  /\ wifi' = "down"
  /\ s_sta_retry_num' = WIFI_STA_MAX_RETRIES
  /\ UNCHANGED <<sessionVars, mainVars, queue, httpd, boundVars>>

-----------------------------------------------------------------------------
(* The user: the button's gestures, and the portal's restart button.       *)

Press ==
  /\ main # "asleep" /\ MainBlocked
  /\ presses < MaxPresses
  /\ presses' = presses + 1
  /\ \E event \in {"POWER_SWITCH", "CONF_SWITCH"} : Post(event)
  /\ UNCHANGED <<sessionVars, wifiVars, mainVars, httpd, drops>>

PortalRequest ==
  /\ httpd = "on"
  /\ presses < MaxPresses
  /\ presses' = presses + 1
  /\ httpd' = "posting"
  /\ UNCHANGED <<sessionVars, wifiVars, mainVars, queue, drops>>

PortalPosts ==
  /\ httpd = "posting"
  /\ Post("CONF_SWITCH")
  /\ httpd' = "on"
  /\ UNCHANGED <<sessionVars, wifiVars, mainVars, boundVars>>

Handler == \/ Switch \/ CloseDone \/ ConfDelayDone \/ EnterAwake \/ DeepSleep
           \/ WifiConnected \/ HostFound \/ HostConnected
           \/ HostDisconnected \/ ByeDone
DiscTask == DiscFinds \/ DiscPosts
CtrlTask == CtrlConnects \/ CtrlPostsHello \/ CtrlPostsBye

Next == \/ Handler \/ Boot
        \/ DiscTask \/ DiscFails
        \/ CtrlTask \/ CtrlFails \/ HostCloses \/ HostVanishes
        \/ WifiGotIp \/ WifiDrops \/ WifiBadSsid
        \/ Press \/ PortalRequest \/ PortalPosts

Spec == /\ Init /\ [][Next]_deviceVars
        \* The loop and the tasks are scheduled, the host answers a
        \* broadcast and a connect, the access point gives an address.
        /\ WF_deviceVars(Handler)
        /\ WF_deviceVars(DiscTask)
        /\ WF_deviceVars(CtrlTask)
        /\ WF_deviceVars(WifiGotIp)
        /\ WF_deviceVars(PortalPosts)

-----------------------------------------------------------------------------
(* Properties.                                                             *)

(* Sound comes out only of an open session in mode MAIN, and then the LED   *)
(* of a settled device is off: also when the session's events reach the    *)
(* loop after the mode switch that was posted before them.                 *)
PlayingSession ==
  playing => /\ s_open
             /\ s_app_mode = "MAIN"
             /\ main = "idle" => led = "OFF"

(* Sound is played only for a control connection that was made: no event   *)
(* left over from an earlier session starts the player of the next one.    *)
PlaysForHost == playing => ctrl \in {"connected", "closed", "lost", "suspended"}

(* Between two events no part of a session is without the others: an open  *)
(* audio session has a control task to end it, and a device that went to   *)
(* CONF in the middle of anything has left all of it behind.               *)
SessionWhole ==
  main = "idle" =>
    /\ s_open => ctrl # "none"
    /\ s_app_mode = "CONF" => ctrl = "none" /\ disc = "none" /\ ~s_open

(* discovery.c says of the suspended task that it "will be deleted         *)
(* externally": by the handler of the event it posted, or a mode switch.   *)
SuspendedIsDeleted == (disc = "suspended") ~> (disc # "suspended")

(* The portal's restart request is answered, as main.c means when it waits  *)
(* half a second "to send all the responses" before it stops the server.   *)
(* The one exception is known: with the queue full by then, the request    *)
(* and httpd_stop wait for each other.                                     *)
PortalAnswers ==
  (httpd = "posting") ~> \/ httpd # "posting"
                         \/ main = "httpd_stop" /\ Len(queue) = QueueSize
=============================================================================
