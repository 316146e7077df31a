---------------------------- MODULE SessionProofs ----------------------------
(***************************************************************************)
(* Proofs about the headset's main loop and its tasks, and about the       *)
(* headset and the host together, for queues of any size and any number of *)
(* presses and drops.                                                      *)
(*                                                                         *)
(* What makes the loop safe is not the order of its handlers but when the  *)
(* two network tasks run: the events that begin and end a session can be   *)
(* posted only to an idle loop with an empty queue, so that no other event *)
(* is handled before them.                                                 *)
(***************************************************************************)
EXTENDS Session, TLAPS

Switches == {"POWER_SWITCH", "CONF_SWITCH"}
FromControl == {"HOST_CONNECTED", "HOST_DISCONNECTED"}
Events == Switches \cup FromControl \cup {"WIFI_CONNECTED", "HOST_FOUND"}

(* The events that wait behind the first.                                  *)
Later(q) == {q[k] : k \in 2..Len(q)}

Comes(event) == queue # <<>> /\ Head(queue) = event

-----------------------------------------------------------------------------
(* The headset alone, whatever fails.                                      *)

(* Where the control task stands while the main task waits in a handler,   *)
(* and outside MAIN.                                                       *)
MainInv ==
  /\ main \in {"idle", "closing", "tcp_delay", "bye", "conf_delay", "httpd_stop",
              "asleep"}
  /\ main = "asleep" => s_app_mode = "SLEEP"
  /\ main \in {"closing", "tcp_delay"} => ctrl = "none"
  /\ main = "bye" => ctrl = "suspended"
  /\ main \in {"conf_delay", "httpd_stop"} => s_app_mode = "CONF"
  /\ s_app_mode # "MAIN" => /\ wifi \notin {"connecting", "up"}
                            /\ ctrl \in {"none", "connecting", "failed"}

(* The events of the control task are at the head of the queue of an idle  *)
(* loop, and the task is still the one that posted them.                   *)
QueueInv ==
  /\ queue \in Seq(Events)
  /\ Later(queue) \cap FromControl = {}
  /\ \A event \in FromControl : Comes(event) => main = "idle"
  /\ Comes("HOST_CONNECTED") => ctrl \in {"connected", "closed", "lost"}
  /\ Comes("HOST_DISCONNECTED") => ctrl = "suspended"

PlayInv ==
  playing => /\ s_open /\ s_app_mode = "MAIN" /\ main = "idle" /\ led = "OFF"
             /\ ctrl \in {"connected", "closed", "lost", "suspended"}

DeviceInv == MainInv /\ QueueInv /\ PlayInv

-----------------------------------------------------------------------------
(* The headset in calm: nothing fails, the Wi-Fi does not drop, and an     *)
(* address comes to an idle loop.                                          *)
Calm == CanFail = FALSE /\ CalmWifi = TRUE /\ MaxDrops = 0

(* Every event but the user's is handled before anything else happens.     *)
CalmQueueInv ==
  /\ Later(queue) \subseteq Switches
  /\ main # "idle" => disc = "none" /\ (queue = <<>> \/ Head(queue) \in Switches)
  /\ disc = "suspended" <=> Comes("HOST_FOUND")
  /\ Comes("WIFI_CONNECTED") => disc = "none" /\ ctrl = "none" /\ ~s_open

(* Discovery, then a session; both only in MAIN with an address.           *)
CalmStageInv ==
  /\ disc # "none" => ctrl = "none" /\ ~s_open
  /\ disc # "none" \/ ctrl # "none" \/ s_open \/ Comes("WIFI_CONNECTED")
       => s_app_mode = "MAIN" /\ wifi = "up"
  /\ main = "idle" => (s_open <=> ctrl # "none")
  /\ main = "tcp_delay" => ~s_open
  /\ drops = 0
  /\ httpd # "off" => s_app_mode = "CONF"

CalmInv == CalmQueueInv /\ CalmStageInv

-----------------------------------------------------------------------------
(* The headset and the host.                                               *)

Served == {"backlog", "open", "ended"}

(* A control connection that was made has its other end at the host.       *)
ConnInv ==
  /\ ctrl \in {"hello", "connected", "closed", "lost"} => conn \in Served
  /\ playing => conn \in Served

(* No switch is under way or waits to be handled.                          *)
Undisturbed ==
  /\ main = "idle" /\ s_app_mode = "MAIN"
  /\ Later(queue) = {}
  /\ queue = <<>> \/ Head(queue) \notin Switches

(* How the handshake goes as long as nobody spoils it.                     *)
HandshakeInv ==
  /\ Handshake => Undisturbed
  /\ host \in {"open", "serve", "stopped"} => request = "none"
  /\ host = "capture" /\ request # "none" => request = "live" /\ disc = "running"
  /\ host \in {"reserve", "respond"} => cl = "live" /\ disc = "running"
  /\ host \in {"listen", "accept"} =>
       answer \/ disc \in {"posting", "suspended"} \/ ctrl = "connecting"
              \/ conn # "none"
  /\ host \notin {"listen", "accept"} =>
       ~answer /\ disc \notin {"posting", "suspended"} /\ ctrl # "connecting"
  /\ answer => disc = "running"

(* Which ends of a connection are up, by where the host stands.            *)
EndsInv ==
  /\ conn \in Served <=> ctrl \notin {"none", "connecting"}
  /\ ctrl \in {"closed", "suspended"} => conn = "ended"
  /\ ctrl # "failed"
  /\ conn = "backlog" => host = "accept"
  /\ conn \in {"open", "left"} => host = "serve"
  /\ conn = "ended" => host \in {"open", "capture", "stopped"}
  /\ conn \in Served \cup {"none", "left"}

SpoiledInv == spoiled \in BOOLEAN /\ (~spoiled => HandshakeInv /\ EndsInv)

-----------------------------------------------------------------------------
(* The queue.                                                              *)

(* A posted event is the next one only where no other waits.               *)
LEMMA Posted ==
  ASSUME NEW q \in Seq(Events), NEW e \in Events, NEW r, r = Append(q, e)
  PROVE  /\ r \in Seq(Events) /\ r # <<>>
         /\ Head(r) = IF q = <<>> THEN e ELSE Head(q)
         /\ q = <<>> => Later(r) = {}
         /\ q # <<>> => Later(r) = Later(q) \cup {e}
<1>1. r \in Seq(Events) /\ Len(r) = Len(q) + 1 /\ r # <<>>
  OBVIOUS
<1>2. r[Len(q) + 1] = e /\ \A k \in 1..Len(q) : r[k] = q[k]
  OBVIOUS
<1>3. q = <<>> <=> Len(q) = 0
  OBVIOUS
<1>4. Head(r) = IF q = <<>> THEN e ELSE Head(q)
  BY <1>1, <1>2, <1>3
<1>5. q = <<>> => Later(r) = {}
  BY <1>1, <1>3 DEF Later
<1>6. ASSUME q # <<>> PROVE Later(r) = Later(q) \cup {e}
  <2>1. Len(q) \in Nat /\ Len(q) >= 1
    BY <1>3, <1>6
  <2>2. 2..Len(r) = (2..Len(q)) \cup {Len(q) + 1}
    BY <1>1, <2>1
  <2>3. Later(r) = {r[k] : k \in 2..Len(q)} \cup {r[Len(q) + 1]}
    BY <2>2 DEF Later
  <2>4. {r[k] : k \in 2..Len(q)} = Later(q)
    <3>1. \A k \in 2..Len(q) : r[k] = q[k]  BY <1>2, <2>1
    <3> QED BY <3>1 DEF Later
  <2> QED BY <1>2, <2>3, <2>4
<1> QED BY <1>1, <1>4, <1>5, <1>6

(* What comes next waited behind what was handled.                         *)
LEMMA Handled ==
  ASSUME NEW q \in Seq(Events), q # <<>>, NEW r, r = Tail(q)
  PROVE  /\ r \in Seq(Events) /\ Later(r) \subseteq Later(q)
         /\ r # <<>> => Head(r) \in Later(q)
         /\ Head(q) \in Events
<1>1. /\ r \in Seq(Events) /\ Len(q) \in Nat /\ Len(q) >= 1 /\ Len(r) = Len(q) - 1
      /\ \A k \in 1..Len(r) : r[k] = q[k + 1]
  OBVIOUS
<1>2. Later(r) \subseteq Later(q)
  <2> SUFFICES ASSUME NEW k \in 2..Len(r) PROVE r[k] \in Later(q)
    BY DEF Later
  <2>1. k + 1 \in 2..Len(q) /\ r[k] = q[k + 1]  BY <1>1
  <2> QED BY <2>1 DEF Later
<1>3. r # <<>> => Head(r) \in Later(q)
  <2> SUFFICES ASSUME r # <<>> PROVE Head(r) \in Later(q)  OBVIOUS
  <2>1. Len(r) >= 1 /\ Head(r) = r[1]  BY <1>1
  <2>2. Head(r) = q[2] /\ 2 \in 2..Len(q)  BY <1>1, <2>1
  <2> QED BY <2>2 DEF Later
<1> QED BY <1>1, <1>2, <1>3

(* After an event is taken the next is none of the control task's.         *)
LEMMA TakeQueue ==
  ASSUME QueueInv, NEW e, Handles(e)
  PROVE  QueueInv' /\ main = "idle" /\ Comes(e)
<1>1. /\ main = "idle" /\ queue # <<>> /\ Head(queue) = e /\ queue' = Tail(queue)
      /\ queue \in Seq(Events)
  BY DEF Handles, QueueInv
<1>2. /\ queue' \in Seq(Events) /\ Later(queue') \subseteq Later(queue)
      /\ queue' # <<>> => Head(queue') \in Later(queue)
  BY <1>1, Handled
<1>3. \A event \in FromControl : ~Comes(event)'
  BY <1>2 DEF QueueInv, Comes
<1>4. "HOST_CONNECTED" \in FromControl /\ "HOST_DISCONNECTED" \in FromControl
  BY DEF FromControl
<1>5. Later(queue') \cap FromControl = {}
  BY <1>2 DEF QueueInv
<1> QED BY <1>1, <1>2, <1>3, <1>4, <1>5 DEF QueueInv, Comes

(* An event of another task, wherever it comes in.                         *)
LEMMA PostOther ==
  ASSUME QueueInv, NEW e \in Events \ FromControl, Post(e), UNCHANGED <<main, ctrl>>
  PROVE  QueueInv'
<1>1. queue \in Seq(Events) /\ queue' = Append(queue, e)
  BY DEF Post, QueueInv
<1>2. /\ queue' \in Seq(Events)
      /\ queue' # <<>> /\ Head(queue') = IF queue = <<>> THEN e ELSE Head(queue)
      /\ queue = <<>> => Later(queue') = {}
      /\ queue # <<>> => Later(queue') = Later(queue) \cup {e}
  BY <1>1, Posted
<1>3. Later(queue') \cap FromControl = {}
  BY <1>2 DEF QueueInv
<1>4. \A event \in FromControl : Comes(event)' => Comes(event)
  BY <1>2 DEF Comes
<1>5. "HOST_CONNECTED" \in FromControl /\ "HOST_DISCONNECTED" \in FromControl
  BY DEF FromControl
<1> QED BY <1>2, <1>3, <1>4, <1>5 DEF QueueInv

(* An event of the control task: posted to an idle loop, that is to an     *)
(* empty queue.                                                            *)
LEMMA PostControl ==
  ASSUME QueueInv, NEW e \in FromControl, Post(e), MainBlocked,
         main = "idle", main' = main,
         e = "HOST_CONNECTED" => ctrl' \in {"connected", "closed", "lost"},
         e = "HOST_DISCONNECTED" => ctrl' = "suspended"
  PROVE  QueueInv'
<1>1. queue \in Seq(Events) /\ queue' = Append(queue, e) /\ e \in Events
  BY DEF Post, QueueInv, Events
<1>2. queue = <<>>
  BY DEF MainBlocked
<1>3. /\ queue' \in Seq(Events) /\ queue' # <<>> /\ Head(queue') = e
      /\ Later(queue') = {}
  BY <1>1, <1>2, Posted
<1> QED BY <1>3 DEF QueueInv, Comes

-----------------------------------------------------------------------------
(* The headset alone.                                                      *)

(* A refusal on a working Wi-Fi, too, is a step of the headset.            *)
DeviceRefused == CtrlStep("connecting", "failed") /\ UNCHANGED queue

DeviceStep == Next \/ DeviceRefused

LEMMA InitDevice == Init => DeviceInv
<1> SUFFICES ASSUME Init PROVE DeviceInv  OBVIOUS
<1>1. /\ s_app_mode = "SLEEP" /\ main = "idle" /\ queue = <<"POWER_SWITCH">>
      /\ ctrl = "none" /\ playing = FALSE /\ wifi = "off"
  BY DEF Init, Booted
<1>2. queue \in Seq(Events) /\ Len(queue) = 1 /\ Head(queue) = "POWER_SWITCH"
  BY <1>1 DEF Events, Switches
<1>3. Later(queue) = {}
  BY <1>2 DEF Later
<1>4. QueueInv
  BY <1>1, <1>2, <1>3 DEF QueueInv, Comes, FromControl
<1> QED BY <1>1, <1>4 DEF DeviceInv, MainInv, PlayInv

(* Modes are left and entered with the player stopped and no connection in *)
(* the making.                                                             *)
LEMMA SwitchInv ==
  ASSUME DeviceInv, Switch
  PROVE  DeviceInv'
<1> USE DEF DeviceInv
<1>1. PICK event : Handles(event) /\ main = "idle" /\ QueueInv'
  BY TakeQueue DEF Switch
<1>2. PICK mode :
        \/ UNCHANGED <<sessionVars, wifiVars, mainVars, httpd>>
        \/ SwitchFromSleep(mode)
        \/ SwitchFromConf(mode)
        \/ SwitchFromMain(mode)
  BY DEF Switch
<1>3. CASE UNCHANGED <<sessionVars, wifiVars, mainVars, httpd>>
  BY <1>1, <1>3 DEF sessionVars, wifiVars, mainVars, MainInv, PlayInv
<1>4. CASE SwitchFromSleep(mode)
  BY <1>1, <1>4 DEF SwitchFromSleep, Enter, sessionVars, MainInv, PlayInv,
                    wifi_handle_setup_softap, wifi_handle_setup_sta
<1>5. CASE SwitchFromConf(mode)
  BY <1>1, <1>5 DEF SwitchFromConf, sessionVars, wifiVars, MainInv, PlayInv
<1>6. CASE SwitchFromMain(mode)
  BY <1>1, <1>6 DEF SwitchFromMain, wifiVars, MainInv, PlayInv,
                    control_transport_stop
<1> QED BY <1>2, <1>3, <1>4, <1>5, <1>6

(* The waits of a switch: with the player stopped nothing else matters.    *)
LEMMA SwitchingInv ==
  ASSUME DeviceInv, CloseDone \/ ConfDelayDone \/ EnterAwake \/ DeepSleep \/ Boot
  PROVE  DeviceInv'
<1> USE DEF DeviceInv
<1>1. main # "idle" /\ playing' = FALSE
  <2>1. main # "idle"
    BY DEF CloseDone, ConfDelayDone, EnterAwake, DeepSleep, Boot
  <2>2. playing' = playing \/ playing' = FALSE
    BY DEF CloseDone, ConfDelayDone, EnterAwake, DeepSleep, Boot, sessionVars, Booted
  <2> QED BY <2>1, <2>2 DEF PlayInv
<1>2. \A event \in FromControl : ~Comes(event)
  BY <1>1 DEF QueueInv
<1>3. QueueInv'
  <2>1. CASE queue' = queue
    BY <1>2, <2>1 DEF QueueInv, Comes, FromControl
  <2>2. CASE queue' = <<>>
    <3>1. queue' \in Seq(Events) /\ Len(queue') = 0  BY <2>2
    <3>2. Later(queue') = {}  BY <3>1 DEF Later
    <3> QED BY <2>2, <3>1, <3>2 DEF QueueInv, Comes
  <2>3. CASE queue' = <<"POWER_SWITCH">>
    <3>1. queue' \in Seq(Events) /\ Len(queue') = 1 /\ Head(queue') = "POWER_SWITCH"
      BY <2>3 DEF Events, Switches
    <3>2. Later(queue') = {}  BY <3>1 DEF Later
    <3> QED BY <3>1, <3>2 DEF QueueInv, Comes, FromControl
  <2> QED BY <2>1, <2>2, <2>3
          DEF CloseDone, ConfDelayDone, EnterAwake, DeepSleep, Boot, Booted
<1>4. PlayInv'
  BY <1>1 DEF PlayInv
<1>5. MainInv'
  <2>1. CASE CloseDone  BY <2>1 DEF CloseDone, MainInv, wifiVars
  <2>2. CASE ConfDelayDone
    BY <2>2 DEF ConfDelayDone, MainInv, wifiVars, sessionVars
  <2>3. CASE EnterAwake
    BY <2>3 DEF EnterAwake, Enter, MainInv, sessionVars,
                wifi_handle_setup_softap, wifi_handle_setup_sta
  <2>4. CASE DeepSleep  BY <2>4 DEF DeepSleep, Booted, MainInv
  <2>5. CASE Boot  BY <2>5 DEF Boot, Booted, MainInv, sessionVars, wifiVars
  <2> QED BY <2>1, <2>2, <2>3, <2>4, <2>5
<1> QED BY <1>3, <1>4, <1>5

(* The player starts for the connection whose event is handled, and stops  *)
(* before anything of its session does.                                    *)
LEMMA HandlerInv ==
  ASSUME DeviceInv,
         WifiConnected \/ HostFound \/ HostConnected \/ HostDisconnected \/ ByeDone
  PROVE  DeviceInv'
<1> USE DEF DeviceInv
<1>1. CASE WifiConnected
  <2>1. QueueInv' /\ main = "idle"  BY <1>1, TakeQueue DEF WifiConnected
  <2> QED BY <1>1, <2>1 DEF WifiConnected, MainInv, PlayInv, wifiVars, mainVars
<1>2. CASE HostFound
  <2>1. QueueInv' /\ main = "idle"  BY <1>2, TakeQueue DEF HostFound
  <2>2. ctrl' = ctrl \/ (ctrl = "none" /\ ctrl' \in {"connecting", "none"})
    BY <1>2 DEF HostFound, control_transport_start, MayFail
  <2>3. s_open => s_open'
    BY <1>2 DEF HostFound, i2s_periph_open
  <2>4. UNCHANGED <<playing, wifi, s_app_mode, main, led>>
    BY <1>2 DEF HostFound, wifiVars, mainVars
  <2>5. MainInv'
    BY <2>1, <2>2, <2>4 DEF MainInv
  <2>6. PlayInv'
    BY <2>1, <2>2, <2>3, <2>4 DEF PlayInv
  <2> QED BY <2>1, <2>5, <2>6
<1>3. CASE HostConnected
  <2>1. QueueInv' /\ main = "idle" /\ Comes("HOST_CONNECTED")
    BY <1>3, TakeQueue DEF HostConnected
  <2>2. ctrl \in {"connected", "closed", "lost"}
    BY <2>1 DEF QueueInv
  <2>3. UNCHANGED <<ctrl, s_open, wifi, s_app_mode, main>> /\ led' = "OFF"
    BY <1>3 DEF HostConnected, wifiVars
  <2>4. playing' => playing \/ (s_open /\ s_app_mode = "MAIN")
    BY <1>3 DEF HostConnected, i2s_periph_start
  <2>5. MainInv'
    BY <2>3 DEF MainInv
  <2>6. PlayInv'
    BY <2>1, <2>2, <2>3, <2>4 DEF PlayInv
  <2> QED BY <2>1, <2>5, <2>6
<1>4. CASE HostDisconnected
  <2>1. QueueInv' /\ main = "idle" /\ Comes("HOST_DISCONNECTED")
    BY <1>4, TakeQueue DEF HostDisconnected
  <2>2. ctrl = "suspended"
    BY <2>1 DEF QueueInv
  <2>3. /\ playing' = FALSE /\ UNCHANGED <<wifi, s_app_mode>>
        /\ \/ main' = "bye" /\ ctrl' = ctrl
           \/ main' = "idle" /\ ctrl' = "none"
    BY <1>4 DEF HostDisconnected, SessionEnds, control_transport_stop, wifiVars
  <2> QED BY <2>1, <2>2, <2>3 DEF MainInv, PlayInv
<1>5. CASE ByeDone
  <2>1. /\ main = "bye" /\ main' = "idle" /\ ctrl' = "none" /\ playing' = playing
        /\ UNCHANGED <<wifi, s_app_mode, queue>>
    BY <1>5 DEF ByeDone, SessionEnds, control_transport_stop, wifiVars
  <2>2. ~playing'
    BY <2>1 DEF PlayInv
  <2>3. \A event \in FromControl : ~Comes(event)'
    BY <2>1 DEF QueueInv, Comes
  <2>4. "HOST_CONNECTED" \in FromControl /\ "HOST_DISCONNECTED" \in FromControl
    BY DEF FromControl
  <2>5. QueueInv'
    BY <2>1, <2>3, <2>4 DEF QueueInv, Comes
  <2> QED BY <2>1, <2>2, <2>5 DEF MainInv, PlayInv
<1> QED BY <1>1, <1>2, <1>3, <1>4, <1>5

(* The discovery task, the Wi-Fi handler and the user post events of theirs*)
(* and leave the connection alone.                                         *)
LEMMA OthersInv ==
  ASSUME DeviceInv,
         \/ DiscFails \/ DiscFinds \/ DiscPosts
         \/ WifiGotIp \/ WifiDrops \/ WifiBadSsid
         \/ Press \/ PortalRequest \/ PortalPosts
  PROVE  DeviceInv'
<1> USE DEF DeviceInv
<1>1. UNCHANGED <<ctrl, s_open, playing, main, s_app_mode, led>>
  BY DEF DiscFails, DiscFinds, DiscPosts, WifiGotIp, WifiDrops, WifiBadSsid,
         Press, PortalRequest, PortalPosts, sessionVars, mainVars
<1>2. queue' = queue \/ \E e \in Events \ FromControl : Post(e)
  BY DEF DiscFails, DiscFinds, DiscPosts, WifiGotIp, WifiDrops, WifiBadSsid,
         Press, PortalRequest, PortalPosts, Events, FromControl, Switches
<1>3. QueueInv'
  <2>1. CASE queue' = queue  BY <1>1, <2>1 DEF QueueInv, Comes
  <2> QED BY <1>1, <1>2, <2>1, PostOther
<1>4. wifi \notin {"connecting", "up"} => wifi' \notin {"connecting", "up"}
  BY DEF DiscFails, DiscFinds, DiscPosts, WifiGotIp, WifiDrops, WifiBadSsid,
         Press, PortalRequest, PortalPosts, wifiVars
<1>5. MainInv'
  BY <1>1, <1>4 DEF MainInv
<1>6. PlayInv'
  BY <1>1 DEF PlayInv
<1> QED BY <1>3, <1>5, <1>6

(* The control task and its partner; the task posts in an idle loop only,  *)
(* since in every wait of a handler it is gone, suspended or not connected.*)
LEMMA ControlInv ==
  ASSUME DeviceInv,
         \/ CtrlConnects \/ CtrlFails \/ DeviceRefused
         \/ CtrlPostsHello \/ CtrlPostsBye \/ HostCloses \/ HostVanishes
  PROVE  DeviceInv'
<1> USE DEF DeviceInv
<1>1. UNCHANGED <<s_open, playing, main, s_app_mode, led, wifi>>
  BY DEF CtrlConnects, CtrlFails, DeviceRefused, CtrlPostsHello, CtrlPostsBye,
         HostCloses, HostVanishes, CtrlStep, wifiVars, mainVars
<1>2. \/ ctrl = "connecting" /\ wifi = "up" /\ ctrl' = "hello"
      \/ ctrl = "connecting" /\ ctrl' = "failed"
      \/ ctrl = "hello" /\ ctrl' = "connected"
      \/ ctrl = "closed" /\ ctrl' = "suspended"
      \/ ctrl = "connected" /\ ctrl' \in {"closed", "lost"}
  BY DEF CtrlConnects, CtrlFails, DeviceRefused, CtrlPostsHello, CtrlPostsBye,
         HostCloses, HostVanishes, CtrlStep
<1>3. MainInv' /\ PlayInv'
  <2>1. MainInv'  BY <1>1, <1>2 DEF MainInv
  <2>2. PlayInv'  BY <1>1, <1>2 DEF PlayInv
  <2> QED BY <2>1, <2>2
<1>4. QueueInv'
  <2>1. CASE CtrlPostsHello
    <3>1. /\ MainBlocked /\ ctrl = "hello" /\ ctrl' = "connected"
          /\ Post("HOST_CONNECTED")
      BY <2>1 DEF CtrlPostsHello, CtrlStep
    <3>2. CASE main = "idle"
      BY <1>1, <3>1, <3>2, PostControl DEF FromControl
    <3>3. CASE main # "idle"
      BY <1>1, <3>1, <3>3 DEF MainInv
    <3> QED BY <3>2, <3>3
  <2>2. CASE CtrlPostsBye
    <3>1. /\ MainBlocked /\ ctrl = "closed" /\ ctrl' = "suspended"
          /\ Post("HOST_DISCONNECTED")
      BY <2>2 DEF CtrlPostsBye, CtrlStep
    <3>2. CASE main = "idle"
      BY <1>1, <3>1, <3>2, PostControl DEF FromControl
    <3>3. CASE main # "idle"
      BY <1>1, <3>1, <3>3 DEF MainInv
    <3> QED BY <3>2, <3>3
  <2>3. CASE queue' = queue /\ ~(ctrl = "closed") /\ ~(ctrl = "hello")
    BY <1>1, <1>2, <2>3 DEF QueueInv, Comes
  <2> QED BY <2>1, <2>2, <2>3
          DEF CtrlConnects, CtrlFails, DeviceRefused, HostCloses, HostVanishes,
              CtrlStep
<1> QED BY <1>3, <1>4

LEMMA StepDevice == DeviceInv /\ [DeviceStep]_deviceVars => DeviceInv'
<1> SUFFICES ASSUME DeviceInv, [DeviceStep]_deviceVars PROVE DeviceInv'  OBVIOUS
<1>1. CASE UNCHANGED deviceVars
  BY <1>1 DEF deviceVars, sessionVars, wifiVars, mainVars, DeviceInv, MainInv,
              QueueInv, PlayInv, Comes
<1> QED BY <1>1, SwitchInv, SwitchingInv, HandlerInv, OthersInv, ControlInv
        DEF DeviceStep, Next, Handler, DiscTask, CtrlTask

(* Main loop, queue and player of the headset agree whatever its partner   *)
(* does: a session that plays is open, and one that is closing is silent.  *)
THEOREM DeviceSafe == Init /\ [][DeviceStep]_deviceVars => []DeviceInv
BY InitDevice, StepDevice, PTL

LEMMA SpecSteps == Spec => Init /\ [][DeviceStep]_deviceVars
<1>1. [Next]_deviceVars => [DeviceStep]_deviceVars  BY DEF DeviceStep
<1> QED BY <1>1, PTL DEF Spec

(* Sound comes out only of an open session in mode MAIN, with the LED off, *)
(* in whatever order the events of sessions and switches reach the loop.   *)
THEOREM PlaysInSession == Spec => []PlayingSession
<1>1. DeviceInv => PlayingSession
  BY DEF DeviceInv, PlayInv, PlayingSession
<1> QED BY <1>1, SpecSteps, DeviceSafe, PTL

(* ... and only for a control connection that was made: no event of an     *)
(* earlier session starts the player of the next.                          *)
THEOREM NoStaleStart == Spec => []PlaysForHost
<1>1. DeviceInv => PlaysForHost
  BY DEF DeviceInv, PlayInv, PlaysForHost
<1> QED BY <1>1, SpecSteps, DeviceSafe, PTL

-----------------------------------------------------------------------------
(* The two together: what the headset sees of a step of both.              *)

LEMMA DevicePart ==
  ASSUME [SessionNext]_sessionNetVars
  PROVE  [DeviceStep]_deviceVars
<1>1. CASE DeviceActs
  BY <1>1 DEF DeviceActs, DeviceStep, Next, DiscTask, CtrlTask
<1>2. CASE DevicePressed
  BY <1>2 DEF DevicePressed, DeviceStep, Next
<1>3. CASE HearAnswer
  BY <1>3 DEF HearAnswer, DeviceStep, Next, DiscTask
<1>4. CASE Connect
  BY <1>4 DEF Connect, DeviceStep, Next, CtrlTask
<1>5. CASE Refused
  <2>1. DeviceRefused
    BY <1>5 DEF Refused, DeviceRefused
  <2> QED BY <2>1 DEF DeviceStep
<1>6. CASE HostEnds \/ CloseLost
  BY <1>6 DEF HostEnds, CloseLost, DeviceStep, Next
<1>7. CASE Broadcast \/ LoseAnswer \/ HostActs
  BY <1>7 DEF Broadcast, LoseAnswer, HostActs
<1>8. CASE UNCHANGED sessionNetVars
  BY <1>8 DEF sessionNetVars
<1> QED BY <1>1, <1>2, <1>3, <1>4, <1>5, <1>6, <1>7, <1>8 DEF SessionNext

LEMMA SessionSteps == SessionSpec => Init /\ [][DeviceStep]_deviceVars
<1>1. SessionInit => Init  BY DEF SessionInit
<1>2. [SessionNext]_sessionNetVars => [DeviceStep]_deviceVars  BY DevicePart
<1> QED BY <1>1, <1>2, PTL DEF SessionSpec

-----------------------------------------------------------------------------
(* A player has its host.                                                  *)

LEMMA SessionTypes == SessionSpec => []DeviceInv
BY SessionSteps, DeviceSafe, PTL

LEMMA HostKeeps ==
  ASSUME HostActs, conn \in Served
  PROVE  conn' \in Served
<1>1. HostClosed(conn) \in Served
  BY DEF HostClosed, Served
<1> QED BY <1>1 DEF HostActs, Loop, Fails, Leaves, OpenDiscovery, Capture, Reserve,
             Respond, Listen, Accept, EndSession, Restart, sig_handler,
             KeepaliveExpires, netVars, Step, Served

(* The host's end goes only after the headset's, and the player with it.   *)
LEMMA ConnStep ==
  ASSUME DeviceInv, DeviceInv', ConnInv, [SessionNext]_sessionNetVars
  PROVE  ConnInv'
<1> DEFINE Made == {"hello", "connected", "closed", "lost"}
<1>1. CASE HostActs
  <2>1. UNCHANGED <<ctrl, playing>>
    BY <1>1 DEF HostActs, deviceVars, sessionVars
  <2> QED BY <1>1, <2>1, HostKeeps DEF ConnInv
<1>2. CASE Connect
  <2>1. playing' = playing /\ conn = "none" /\ conn' \in Served
    BY <1>2 DEF Connect, CtrlConnects, CtrlStep, Served
  <2> QED BY <2>1 DEF ConnInv, Served
<1>3. CASE DevicePressed \/ Broadcast \/ LoseAnswer \/ HearAnswer
           \/ UNCHANGED sessionNetVars
  <2>1. UNCHANGED <<ctrl, playing, conn>>
    BY <1>3 DEF DevicePressed, Press, Broadcast, LoseAnswer, HearAnswer, DiscFinds,
                sessionNetVars, serverVars, netVars, deviceVars, sessionVars
  <2> QED BY <2>1 DEF ConnInv
<1>4. CASE HostEnds \/ CloseLost \/ Refused
  <2>1. UNCHANGED <<playing, conn>> /\ (ctrl' \in Made => ctrl \in Made)
    BY <1>4 DEF HostEnds, HostCloses, CloseLost, HostVanishes, Refused, CtrlStep,
                serverVars, netVars
  <2> QED BY <2>1 DEF ConnInv
<1>5. CASE DeviceActs
  <2>1. ctrl' = "none" \/ conn' = conn
    BY <1>5 DEF DeviceActs, SocketsFollow
  <2>2. CASE ctrl' = "none"
    <3>1. ~playing'  BY <2>2 DEF DeviceInv, PlayInv
    <3> QED BY <2>2, <3>1 DEF ConnInv
  <2>3. CASE ctrl' # "none" /\ conn' = conn
    <3>1. ctrl' \in Made => ctrl \in Made
      BY <1>5, <2>3 DEF DeviceActs, Handler, Switch, SwitchFromSleep, SwitchFromConf,
         SwitchFromMain, control_transport_stop, CloseDone, ConfDelayDone,
         EnterAwake, DeepSleep, Booted, WifiConnected, HostFound,
         control_transport_start, MayFail, HostConnected, HostDisconnected,
         SessionEnds, ByeDone, Boot, DiscPosts, DiscFails, CtrlPostsHello,
         CtrlPostsBye, CtrlStep, WifiGotIp, WifiDrops, WifiBadSsid, PortalRequest,
         PortalPosts, sessionVars
    <3>2. playing' => playing \/ ctrl' \in Made
      <4>1. CASE HostConnected
        <5>1. Comes("HOST_CONNECTED") /\ ctrl' = ctrl
          BY <4>1, TakeQueue DEF HostConnected, DeviceInv
        <5> QED BY <5>1 DEF DeviceInv, QueueInv
      <4>2. CASE ~HostConnected
        BY <1>5, <4>2 DEF DeviceActs, Handler, Switch, SwitchFromSleep,
           SwitchFromConf, SwitchFromMain, CloseDone, ConfDelayDone, EnterAwake,
           DeepSleep, Booted, WifiConnected, HostFound, HostDisconnected, ByeDone,
           Boot, DiscPosts, DiscFails, CtrlPostsHello, CtrlPostsBye, CtrlStep,
           WifiGotIp, WifiDrops, WifiBadSsid, PortalRequest, PortalPosts, sessionVars
      <4> QED BY <4>1, <4>2
    <3> QED BY <2>3, <3>1, <3>2 DEF ConnInv
  <2> QED BY <2>1, <2>2, <2>3
<1> QED BY <1>1, <1>2, <1>3, <1>4, <1>5 DEF SessionNext

(* Sound is played only in a session this host has accepted or will accept.*)
THEOREM NobodyPlaysAlone == SessionSpec => []PlayingIsServed
<1>1. SessionInit => ConnInv
  BY DEF SessionInit, Init, ServerInit, Booted, ConnInv
<1>2. DeviceInv /\ DeviceInv' /\ ConnInv /\ [SessionNext]_sessionNetVars => ConnInv'
  BY ConnStep
<1>3. ConnInv => PlayingIsServed
  BY DEF ConnInv, Served, PlayingIsServed
<1> QED BY <1>1, <1>2, <1>3, SessionTypes, PTL DEF SessionSpec

-----------------------------------------------------------------------------
(* In calm every event but the user's comes to an idle loop, so that only  *)
(* the user's wait behind another one.                                     *)

LEMMA TakeCalm ==
  ASSUME QueueInv, CalmQueueInv, NEW e, Handles(e)
  PROVE  /\ Later(queue') \subseteq Switches
         /\ queue' = <<>> \/ Head(queue') \in Switches
         /\ ~Comes("HOST_FOUND")' /\ ~Comes("WIFI_CONNECTED")'
<1>1. queue # <<>> /\ queue' = Tail(queue) /\ queue \in Seq(Events)
  BY DEF Handles, QueueInv
<1>2. /\ Later(queue') \subseteq Later(queue)
      /\ queue' # <<>> => Head(queue') \in Later(queue)
  BY <1>1, Handled
<1> QED BY <1>2 DEF CalmQueueInv, Comes, Switches

LEMMA PostCalm ==
  ASSUME QueueInv, CalmQueueInv, NEW e \in Events, Post(e), e \in Switches \/ queue = <<>>
  PROVE  /\ Later(queue') \subseteq Switches
         /\ queue' # <<>>
         /\ Head(queue') = IF queue = <<>> THEN e ELSE Head(queue)
<1>1. queue' = Append(queue, e) /\ queue \in Seq(Events)
  BY DEF Post, QueueInv
<1>2. /\ queue' # <<>>
      /\ Head(queue') = IF queue = <<>> THEN e ELSE Head(queue)
      /\ queue = <<>> => Later(queue') = {}
      /\ queue # <<>> => Later(queue') = Later(queue) \cup {e}
  BY <1>1, Posted
<1>3. Later(queue') \subseteq Switches
  BY <1>2 DEF CalmQueueInv
<1> QED BY <1>2, <1>3

LEMMA CalmSwitch ==
  ASSUME Calm, DeviceInv, CalmInv, Switch
  PROVE  CalmInv'
<1> USE DEF CalmInv
<1>1. PICK event \in Switches :
        /\ Handles(event)
        /\ \E mode : \/ UNCHANGED <<sessionVars, wifiVars, mainVars, httpd>>
                     \/ SwitchFromSleep(mode)
                     \/ SwitchFromConf(mode)
                     \/ SwitchFromMain(mode)
  BY DEF Switch, Switches
<1>2. PICK mode : \/ UNCHANGED <<sessionVars, wifiVars, mainVars, httpd>>
                  \/ SwitchFromSleep(mode)
                  \/ SwitchFromConf(mode)
                  \/ SwitchFromMain(mode)
  BY <1>1
<1>3. main = "idle" /\ Comes(event) /\ drops' = drops
  BY <1>1 DEF Handles, Comes, Switch, boundVars
<1>4. /\ Later(queue') \subseteq Switches
      /\ queue' = <<>> \/ Head(queue') \in Switches
      /\ ~Comes("HOST_FOUND")' /\ ~Comes("WIFI_CONNECTED")'
  BY <1>1, TakeCalm DEF DeviceInv
<1>5. disc # "suspended"
  BY <1>3 DEF CalmQueueInv, Comes, Switches
<1>6. CASE UNCHANGED <<sessionVars, wifiVars, mainVars, httpd>>
  BY <1>3, <1>4, <1>5, <1>6
     DEF CalmQueueInv, CalmStageInv, sessionVars, wifiVars, mainVars
<1>7. CASE SwitchFromSleep(mode)
  <2>1. /\ disc' = "none" /\ ctrl' = "none" /\ ~s_open' /\ main' = "idle"
        /\ httpd' # "off" => s_app_mode' = "CONF"
    BY <1>3, <1>7 DEF SwitchFromSleep, Enter, sessionVars, CalmStageInv, Calm, MayFail
  <2> QED BY <1>3, <1>4, <2>1 DEF CalmQueueInv, CalmStageInv
<1>8. CASE SwitchFromConf(mode)
  <2>1. /\ disc' = "none" /\ ctrl' = "none" /\ ~s_open' /\ main' = "conf_delay"
        /\ UNCHANGED <<s_app_mode, httpd>>
    BY <1>3, <1>8 DEF SwitchFromConf, sessionVars, CalmStageInv
  <2> QED BY <1>3, <1>4, <2>1 DEF CalmQueueInv, CalmStageInv
<1>9. CASE SwitchFromMain(mode)
  <2>1. /\ disc' = "none" /\ ctrl' = "none"
        /\ main' \in {"closing", "tcp_delay"} /\ (s_open' <=> s_open)
        /\ main' = "tcp_delay" => ~s_open'
        /\ s_app_mode = "MAIN" /\ UNCHANGED <<s_app_mode, wifi, httpd>>
    BY <1>9 DEF SwitchFromMain, discovery_stop, control_transport_stop,
                wifiVars, CalmStageInv
  <2> QED BY <1>3, <1>4, <2>1 DEF CalmQueueInv, CalmStageInv
<1> QED BY <1>2, <1>6, <1>7, <1>8, <1>9

LEMMA CalmSwitching ==
  ASSUME Calm, DeviceInv, CalmInv,
         CloseDone \/ ConfDelayDone \/ EnterAwake \/ DeepSleep \/ Boot
  PROVE  CalmInv'
<1> USE DEF CalmInv
<1>1. CASE CloseDone
  <2>1. /\ disc' = "none" /\ ctrl' = "none" /\ ~s_open' /\ main' = "tcp_delay"
        /\ UNCHANGED <<s_app_mode, wifi, queue, httpd, drops>> /\ main = "closing"
    BY <1>1 DEF CloseDone, discovery_stop, wifiVars, boundVars, DeviceInv, MainInv
  <2> QED BY <2>1 DEF CalmQueueInv, CalmStageInv, Comes, Switches
<1>2. CASE ConfDelayDone
  <2>1. /\ UNCHANGED <<disc, ctrl, s_open, s_app_mode, wifi, queue, httpd, drops>>
        /\ main = "conf_delay" /\ main' = "httpd_stop"
    BY <1>2 DEF ConfDelayDone, sessionVars, wifiVars, boundVars
  <2> QED BY <2>1 DEF CalmQueueInv, CalmStageInv, Comes
<1>3. CASE EnterAwake
  <2>1. main \in {"tcp_delay", "httpd_stop"} /\ main' = "idle"
    BY <1>3 DEF EnterAwake, Enter
  <2>2. disc = "none" /\ ctrl = "none" /\ ~s_open
    BY <2>1 DEF CalmQueueInv, CalmStageInv, DeviceInv, MainInv
  <2>3. /\ UNCHANGED <<disc, ctrl, s_open, queue, drops>>
        /\ httpd' # "off" => s_app_mode' = "CONF"
    BY <1>3 DEF EnterAwake, Enter, sessionVars, boundVars
  <2>4. ~Comes("HOST_FOUND") /\ ~Comes("WIFI_CONNECTED")
    BY <2>1 DEF CalmQueueInv, Comes, Switches
  <2> QED BY <2>1, <2>2, <2>3, <2>4 DEF CalmQueueInv, CalmStageInv, Comes
<1>4. CASE DeepSleep \/ Boot
  <2>1. /\ disc' = "none" /\ ctrl' = "none" /\ ~s_open' /\ drops' = drops
        /\ main' # "tcp_delay" /\ httpd' = "off" /\ Later(queue') = {}
        /\ queue' = <<>> \/ Head(queue') \in Switches
    <3>1. CASE DeepSleep
      <4>1. queue' = <<>> /\ Len(queue') = 0  BY <3>1 DEF DeepSleep
      <4>2. Later(queue') = {}  BY <4>1 DEF Later
      <4> QED BY <3>1, <4>1, <4>2 DEF DeepSleep, Booted, boundVars
    <3>2. CASE Boot
      <4>1. queue' = <<"POWER_SWITCH">> /\ main' = "idle" /\ main = "asleep"
        BY <3>2 DEF Boot, Booted
      <4>2. Len(queue') = 1 /\ Head(queue') = "POWER_SWITCH"
        BY <4>1
      <4>3. Later(queue') = {}  BY <4>2 DEF Later
      <4>4. s_app_mode = "SLEEP" /\ UNCHANGED <<disc, ctrl, s_open, httpd, drops>>
        BY <3>2, <4>1 DEF Boot, sessionVars, boundVars, DeviceInv, MainInv
      <4>5. disc = "none" /\ ctrl = "none" /\ ~s_open /\ httpd = "off"
        BY <4>4 DEF CalmStageInv
      <4> QED BY <4>1, <4>2, <4>3, <4>4, <4>5 DEF Switches
    <3> QED BY <1>4, <3>1, <3>2
  <2> QED BY <2>1 DEF CalmQueueInv, CalmStageInv, Comes, Switches
<1> QED BY <1>1, <1>2, <1>3, <1>4

LEMMA CalmHandler ==
  ASSUME Calm, DeviceInv, CalmInv,
         WifiConnected \/ HostFound \/ HostConnected \/ HostDisconnected \/ ByeDone
  PROVE  CalmInv'
<1> USE DEF CalmInv
<1>1. CASE ByeDone
  <2>1. /\ main = "bye" /\ main' = "idle" /\ ctrl' = "none" /\ ~s_open'
        /\ disc = "none" /\ disc' = "running"
        /\ UNCHANGED <<s_app_mode, wifi, queue, httpd, drops>>
    BY <1>1 DEF ByeDone, SessionEnds, control_transport_stop, discovery_start,
                MayFail, Calm, CalmQueueInv, wifiVars, boundVars
  <2>2. s_app_mode = "MAIN" /\ wifi = "up"
    BY <2>1 DEF CalmStageInv, DeviceInv, MainInv
  <2>3. ~Comes("HOST_FOUND")' /\ ~Comes("WIFI_CONNECTED")'
    BY <2>1 DEF CalmQueueInv, Comes, Switches
  <2> QED BY <2>1, <2>2, <2>3 DEF CalmQueueInv, CalmStageInv
<1>2. CASE ~ByeDone
  <2>1. PICK e \in {"WIFI_CONNECTED", "HOST_FOUND", "HOST_CONNECTED",
                    "HOST_DISCONNECTED"} : Handles(e)
    BY <1>2 DEF WifiConnected, HostFound, HostConnected, HostDisconnected
  <2>2. main = "idle" /\ Comes(e)
    BY <2>1 DEF Handles, Comes
  <2>3. /\ Later(queue') \subseteq Switches
        /\ queue' = <<>> \/ Head(queue') \in Switches
        /\ ~Comes("HOST_FOUND")' /\ ~Comes("WIFI_CONNECTED")'
    BY <2>1, TakeCalm DEF DeviceInv
  <2>4. UNCHANGED <<s_app_mode, wifi, httpd, drops>>
    BY <1>2 DEF WifiConnected, HostFound, HostConnected, HostDisconnected,
                wifiVars, mainVars, boundVars
  <2>5. CASE WifiConnected
    <3>1. Comes("WIFI_CONNECTED")  BY <2>5 DEF WifiConnected, Handles, Comes
    <3>2. /\ disc' = "running" /\ ctrl' = "none" /\ ~s_open' /\ main' = "idle"
          /\ s_app_mode = "MAIN" /\ wifi = "up"
      BY <2>2, <2>5, <3>1 DEF WifiConnected, discovery_start, MayFail, Calm, mainVars,
                              CalmQueueInv, CalmStageInv
    <3> QED BY <2>3, <2>4, <3>2 DEF CalmQueueInv, CalmStageInv
  <2>6. CASE HostFound
    <3>1. Comes("HOST_FOUND")  BY <2>6 DEF HostFound, Handles, Comes
    <3>2. disc = "suspended"  BY <3>1 DEF CalmQueueInv
    <3>3. ctrl = "none" /\ ~s_open /\ s_app_mode = "MAIN" /\ wifi = "up"
      BY <3>2 DEF CalmStageInv
    <3>4. ctrl' = "connecting" /\ disc' = "none" /\ main' = main
      BY <2>6, <3>3 DEF HostFound, control_transport_start, discovery_stop, MayFail,
                        Calm, mainVars
    <3>5. s_open'
      BY <2>6, <3>3 DEF HostFound, i2s_periph_open, MayFail, Calm
    <3> QED BY <2>2, <2>3, <2>4, <3>3, <3>4, <3>5 DEF CalmQueueInv, CalmStageInv
  <2>7. CASE HostConnected
    <3>1. Comes("HOST_CONNECTED")  BY <2>7 DEF HostConnected, Handles, Comes
    <3>2. ctrl \in {"connected", "closed", "lost"}
      BY <3>1 DEF DeviceInv, QueueInv
    <3>3. disc' = "none" /\ disc = "none" /\ UNCHANGED <<ctrl, s_open, main>>
      BY <2>7, <3>2 DEF HostConnected, discovery_stop, CalmStageInv
    <3> QED BY <2>2, <2>3, <2>4, <3>2, <3>3 DEF CalmQueueInv, CalmStageInv
  <2>8. CASE HostDisconnected
    <3>1. Comes("HOST_DISCONNECTED")  BY <2>8 DEF HostDisconnected, Handles, Comes
    <3>2. ctrl = "suspended" /\ s_open /\ disc = "none"
      BY <2>2, <3>1 DEF DeviceInv, QueueInv, CalmStageInv
    <3>3. main' = "bye" /\ UNCHANGED <<ctrl, disc, s_open>>
      BY <2>8, <3>2 DEF HostDisconnected
    <3> QED BY <2>3, <2>4, <3>2, <3>3 DEF CalmQueueInv, CalmStageInv
  <2> QED BY <1>2, <2>5, <2>6, <2>7, <2>8
<1> QED BY <1>1, <1>2

LEMMA CalmOthers ==
  ASSUME Calm, DeviceInv, CalmInv,
         \/ DiscFails \/ DiscFinds \/ DiscPosts
         \/ WifiGotIp \/ WifiDrops \/ WifiBadSsid
         \/ Press \/ PortalRequest \/ PortalPosts
  PROVE  CalmInv'
<1> USE DEF CalmInv
<1>1. ~DiscFails /\ ~WifiBadSsid
  <2>1. disc = "running" => wifi = "up"  BY DEF CalmStageInv
  <2> QED BY <2>1 DEF DiscFails, WifiBadSsid, Calm
<1>2. ~WifiDrops
  BY DEF WifiDrops, Calm, CalmStageInv
<1>3. UNCHANGED <<ctrl, s_open, main, s_app_mode, drops>>
  BY <1>1, <1>2 DEF DiscFinds, DiscPosts, WifiGotIp, Press, PortalRequest,
         PortalPosts, sessionVars, mainVars, boundVars
<1>4. CASE DiscFinds
  <2>1. /\ disc = "running" /\ disc' = "posting" /\ main = "idle"
        /\ UNCHANGED <<wifi, queue, httpd>>
    BY <1>4 DEF DiscFinds, wifiVars, CalmQueueInv
  <2>2. ~Comes("HOST_FOUND") /\ ~Comes("WIFI_CONNECTED")
    BY <2>1 DEF CalmQueueInv
  <2> QED BY <1>3, <2>1, <2>2 DEF CalmQueueInv, CalmStageInv, Comes
<1>5. CASE DiscPosts
  <2>1. /\ disc = "posting" /\ disc' = "suspended" /\ Post("HOST_FOUND")
        /\ main = "idle" /\ queue = <<>> /\ UNCHANGED <<wifi, httpd>>
    BY <1>5 DEF DiscPosts, wifiVars, CalmQueueInv, MainBlocked
  <2>2. "HOST_FOUND" \in Events  BY DEF Events
  <2>3. /\ Later(queue') \subseteq Switches /\ queue' # <<>>
        /\ Head(queue') = "HOST_FOUND"
    BY <2>1, <2>2, PostCalm DEF DeviceInv
  <2> QED BY <1>3, <2>1, <2>3 DEF CalmQueueInv, CalmStageInv, Comes
<1>6. CASE WifiGotIp
  <2>1. /\ wifi = "connecting" /\ wifi' = "up" /\ Post("WIFI_CONNECTED")
        /\ main = "idle" /\ queue = <<>> /\ UNCHANGED <<disc, httpd>>
    BY <1>6 DEF WifiGotIp, sessionVars, Calm
  <2>2. "WIFI_CONNECTED" \in Events  BY DEF Events
  <2>3. /\ Later(queue') \subseteq Switches /\ queue' # <<>>
        /\ Head(queue') = "WIFI_CONNECTED"
    BY <2>1, <2>2, PostCalm DEF DeviceInv
  <2>4. s_app_mode = "MAIN"  BY <2>1 DEF DeviceInv, MainInv
  <2>5. disc = "none" /\ ctrl = "none" /\ ~s_open
    BY <2>1 DEF CalmStageInv
  <2> QED BY <1>3, <2>1, <2>3, <2>4, <2>5 DEF CalmQueueInv, CalmStageInv, Comes
<1>7. CASE Press \/ PortalRequest \/ PortalPosts
  <2>1. UNCHANGED <<disc, wifi>>
    BY <1>7 DEF Press, PortalRequest, PortalPosts, sessionVars, wifiVars
  <2>2. httpd' # "off" => s_app_mode = "CONF"
    BY <1>7 DEF Press, PortalRequest, PortalPosts, CalmStageInv
  <2>3. queue' = queue \/ \E e \in Switches : Post(e)
    BY <1>7 DEF Press, PortalRequest, PortalPosts, Switches
  <2>4. CASE queue' = queue
    BY <1>3, <2>1, <2>2, <2>4 DEF CalmQueueInv, CalmStageInv, Comes
  <2>5. ASSUME NEW e \in Switches, Post(e) PROVE CalmInv'
    <3>1. e \in Events  BY DEF Events
    <3>2. /\ Later(queue') \subseteq Switches /\ queue' # <<>>
          /\ Head(queue') = IF queue = <<>> THEN e ELSE Head(queue)
      BY <2>5, <3>1, PostCalm DEF DeviceInv
    <3>3. /\ Comes("HOST_FOUND")' <=> Comes("HOST_FOUND")
          /\ Comes("WIFI_CONNECTED")' <=> Comes("WIFI_CONNECTED")
      BY <3>2 DEF Comes, Switches
    <3>4. queue = <<>> \/ Head(queue) \in Switches => Head(queue') \in Switches
      BY <3>2
    <3> QED BY <1>3, <2>1, <2>2, <3>2, <3>3, <3>4 DEF CalmQueueInv, CalmStageInv
  <2> QED BY <2>3, <2>4, <2>5
<1> QED BY <1>1, <1>2, <1>4, <1>5, <1>6, <1>7

LEMMA CalmControl ==
  ASSUME Calm, DeviceInv, CalmInv,
         \/ CtrlConnects \/ CtrlFails \/ DeviceRefused
         \/ CtrlPostsHello \/ CtrlPostsBye \/ HostCloses \/ HostVanishes
  PROVE  CalmInv'
<1> USE DEF CalmInv
<1>1. UNCHANGED <<disc, s_open, main, s_app_mode, wifi, httpd, drops>>
  BY DEF CtrlConnects, CtrlFails, DeviceRefused, CtrlPostsHello, CtrlPostsBye,
         HostCloses, HostVanishes, CtrlStep, wifiVars, mainVars, boundVars,
         CalmStageInv, Calm
<1>2. ctrl # "none" /\ ctrl' # "none"
  BY DEF CtrlConnects, CtrlFails, DeviceRefused, CtrlPostsHello, CtrlPostsBye,
         HostCloses, HostVanishes, CtrlStep
<1>3. disc = "none" /\ s_app_mode = "MAIN" /\ wifi = "up" /\ ~Comes("WIFI_CONNECTED")
  BY <1>2 DEF CalmStageInv, CalmQueueInv
<1>4. ~Comes("HOST_FOUND")
  BY <1>3 DEF CalmQueueInv
<1>5. CASE queue' = queue
  BY <1>1, <1>2, <1>3, <1>4, <1>5 DEF CalmQueueInv, CalmStageInv, Comes
<1>6. ASSUME NEW e \in FromControl, Post(e), main = "idle", MainBlocked PROVE CalmInv'
  <2>1. e \in Events /\ queue = <<>>  BY <1>6 DEF Events, MainBlocked
  <2>2. /\ Later(queue') \subseteq Switches /\ queue' # <<>> /\ Head(queue') = e
    BY <1>6, <2>1, PostCalm DEF DeviceInv
  <2>3. ~Comes("HOST_FOUND")' /\ ~Comes("WIFI_CONNECTED")'
    BY <2>2 DEF Comes, FromControl
  <2> QED BY <1>1, <1>2, <1>3, <1>6, <2>2, <2>3 DEF CalmQueueInv, CalmStageInv
<1>7. CtrlPostsHello \/ CtrlPostsBye => main = "idle" /\ MainBlocked
  BY <1>3 DEF CtrlPostsHello, CtrlPostsBye, CtrlStep, DeviceInv, MainInv
<1>8. queue' = queue \/ \E e \in FromControl :
                         Post(e) /\ main = "idle" /\ MainBlocked
  BY <1>7 DEF CtrlConnects, CtrlFails, DeviceRefused, CtrlPostsHello, CtrlPostsBye,
         HostCloses, HostVanishes, FromControl
<1> QED BY <1>5, <1>6, <1>8

LEMMA CalmStep ==
  ASSUME Calm, DeviceInv, CalmInv, [DeviceStep]_deviceVars
  PROVE  CalmInv'
<1>1. CASE UNCHANGED deviceVars
  BY <1>1 DEF deviceVars, sessionVars, wifiVars, mainVars, boundVars, CalmInv,
              CalmQueueInv, CalmStageInv, Comes
<1> QED BY <1>1, CalmSwitch, CalmSwitching, CalmHandler, CalmOthers, CalmControl
        DEF DeviceStep, Next, Handler, DiscTask, CtrlTask

LEMMA InitCalm == Init => CalmInv
<1> SUFFICES ASSUME Init PROVE CalmInv  OBVIOUS
<1>1. /\ s_app_mode = "SLEEP" /\ main = "idle" /\ queue = <<"POWER_SWITCH">>
      /\ disc = "none" /\ ctrl = "none" /\ ~s_open /\ wifi = "off"
      /\ httpd = "off" /\ drops = 0
  BY DEF Init, Booted
<1>2. Len(queue) = 1 /\ Head(queue) = "POWER_SWITCH"
  BY <1>1
<1>3. Later(queue) = {}
  BY <1>2 DEF Later
<1> QED BY <1>1, <1>2, <1>3 DEF CalmInv, CalmQueueInv, CalmStageInv, Comes, Switches

(* In calm the stages of a session follow each other, and only the user's  *)
(* switches wait behind another event.                                     *)
THEOREM CalmSafe ==
  ASSUME Calm
  PROVE  Init /\ [][DeviceStep]_deviceVars => []CalmInv
<1>1. DeviceInv /\ CalmInv /\ [DeviceStep]_deviceVars => CalmInv'
  BY CalmStep
<1> QED BY <1>1, InitCalm, DeviceSafe, PTL

(* Between two events no part of a session is without the others, while    *)
(* nothing fails: where a socket or the codecs may, or the Wi-Fi drops     *)
(* within a session, the headset can be left with a part of one.           *)
THEOREM WholeSessions ==
  ASSUME Calm
  PROVE  SessionSpec => []SessionWhole
<1>1. CalmInv => SessionWhole
  BY DEF CalmInv, CalmStageInv, SessionWhole
<1> QED BY <1>1, SessionSteps, CalmSafe, PTL

-----------------------------------------------------------------------------
(* An unspoiled handshake: from the broadcast to the accepted connection   *)
(* either side's state tells what the other one waits for.                 *)

(* What the lemmas below start from.                                       *)
Unspoiled == Calm /\ DeviceInv /\ CalmInv /\ HandshakeInv /\ EndsInv

(* The headset in the handshake has an address and is past its start.      *)
LEMMA HandshakeStage ==
  ASSUME Unspoiled, Handshake
  PROVE  /\ disc # "none" \/ ctrl # "none"
         /\ ~Comes("WIFI_CONNECTED") /\ ctrl \notin {"closed", "suspended"}
<1> USE DEF Unspoiled
<1>1. CASE host \in {"open", "capture"} /\ request # "none"
  BY <1>1 DEF HandshakeInv, CalmInv, CalmStageInv, CalmQueueInv
<1>2. CASE host \in {"reserve", "respond"}
  BY <1>2 DEF HandshakeInv, CalmInv, CalmStageInv, CalmQueueInv
<1>3. CASE host \in {"listen", "accept"}
  <2>1. conn # "none" => ctrl \notin {"none", "connecting"} /\ conn # "ended"
    BY <1>3 DEF EndsInv, Served
  <2>2. disc # "none" \/ ctrl # "none"
    BY <1>3, <2>1 DEF HandshakeInv
  <2>3. ctrl \notin {"closed", "suspended"}
    BY <1>3, <2>1 DEF EndsInv
  <2> QED BY <2>2, <2>3 DEF CalmInv, CalmQueueInv
<1> QED BY <1>1, <1>2, <1>3 DEF Handshake

(* Outside the handshake the headset may stop what it does, and begin to   *)
(* look for a host.                                                        *)
LEMMA HeadsetStops ==
  ASSUME Unspoiled, ~Handshake, SocketsFollow,
         disc' \in {disc, "none", "running"}, ctrl' \in {ctrl, "none"}
  PROVE  HandshakeInv' /\ EndsInv'
<1> USE DEF Unspoiled
<1>1. host' = host /\ (request' = "none" <=> request = "none")
  BY DEF SocketsFollow, StopsAsking, Asks
<1>2. ~Handshake'
  BY <1>1 DEF Handshake
<1>3. /\ host \notin {"reserve", "respond", "listen", "accept"}
      /\ host = "capture" => request = "none"
  BY DEF Handshake
<1>4. ~answer /\ disc \notin {"posting", "suspended"} /\ ctrl # "connecting"
  BY <1>3 DEF HandshakeInv
<1>5. ~answer'
  BY <1>4 DEF SocketsFollow, StopsAsking
<1>6. HandshakeInv'
  BY <1>1, <1>2, <1>3, <1>4, <1>5 DEF HandshakeInv
<1>7. CASE ctrl # "none" /\ ctrl' = "none"
  <2>1. conn \in {"open", "ended"} /\ wifi = "up"
    BY <1>3, <1>4, <1>7 DEF EndsInv, Served, CalmInv, CalmStageInv
  <2>2. /\ conn' \in Left(conn) /\ conn' # "dead"
    BY <1>7, <2>1 DEF SocketsFollow
  <2>3. conn' = IF conn = "open" THEN "left" ELSE "none"
    BY <2>1, <2>2 DEF Left
  <2> QED BY <1>1, <1>6, <1>7, <2>1, <2>3 DEF EndsInv, Served
<1>8. CASE ctrl' = ctrl
  <2>1. conn' = conn  BY <1>8 DEF SocketsFollow
  <2> QED BY <1>1, <1>6, <1>8, <2>1 DEF EndsInv
<1> QED BY <1>7, <1>8

(* Handling the one event that waits leaves the queue empty.               *)
LEMMA LastOne ==
  ASSUME QueueInv, NEW e, Handles(e), Later(queue) = {}
  PROVE  queue' = <<>> /\ Later(queue') = {}
<1>1. queue # <<>> /\ queue' = Tail(queue) /\ queue \in Seq(Events)
  BY DEF Handles, QueueInv
<1> QED BY <1>1, Handled

(* The one event of a handshake at a time is posted to an empty queue.     *)
LEMMA FirstOne ==
  ASSUME QueueInv, NEW e \in Events \ Switches, Post(e), queue = <<>>
  PROVE  /\ Later(queue') = {} /\ queue' # <<>>
         /\ Head(queue') \notin Switches
<1>1. queue' = Append(queue, e) /\ queue \in Seq(Events)
  BY DEF Post, QueueInv
<1> QED BY <1>1, Posted

(* The loop of the headset.                                                *)
LEMMA HandlerKeeps ==
  ASSUME Unspoiled, Handler \/ Boot, SocketsFollow
  PROVE  HandshakeInv' /\ EndsInv'
<1> USE DEF Unspoiled
<1>1. CASE Switch
  <2>1. PICK event \in Switches :
          /\ Handles(event)
          /\ \E mode : \/ UNCHANGED <<sessionVars, wifiVars, mainVars, httpd>>
                       \/ SwitchFromSleep(mode)
                       \/ SwitchFromConf(mode)
                       \/ SwitchFromMain(mode)
    BY <1>1 DEF Switch, Switches
  <2>2. ~Handshake
    BY <2>1 DEF Handles, HandshakeInv, Undisturbed
  <2>3. disc' \in {disc, "none"} /\ ctrl' \in {ctrl, "none"}
    BY <2>1 DEF SwitchFromSleep, SwitchFromConf, SwitchFromMain, sessionVars,
                control_transport_stop, discovery_stop
  <2> QED BY <2>2, <2>3, HeadsetStops
<1>2. CASE CloseDone \/ ConfDelayDone \/ EnterAwake \/ DeepSleep \/ Boot \/ ByeDone
  <2>1. ~Handshake
    BY <1>2 DEF CloseDone, ConfDelayDone, EnterAwake, DeepSleep, Boot, ByeDone,
                HandshakeInv, Undisturbed
  <2>2. disc' \in {disc, "none", "running"} /\ ctrl' \in {ctrl, "none"}
    BY <1>2 DEF CloseDone, ConfDelayDone, EnterAwake, DeepSleep, Boot, ByeDone, Booted,
                SessionEnds, discovery_start, discovery_stop, control_transport_stop,
                sessionVars, MayFail
  <2> QED BY <2>1, <2>2, HeadsetStops
<1>3. CASE WifiConnected
  <2>1. Comes("WIFI_CONNECTED")  BY <1>3 DEF WifiConnected, Handles, Comes
  <2>2. ~Handshake  BY <2>1, HandshakeStage
  <2>3. disc' \in {disc, "none", "running"} /\ ctrl' = ctrl
    BY <1>3 DEF WifiConnected, discovery_start, MayFail
  <2> QED BY <2>2, <2>3, HeadsetStops
<1>4. CASE HostDisconnected
  <2>1. Comes("HOST_DISCONNECTED")  BY <1>4 DEF HostDisconnected, Handles, Comes
  <2>2. ctrl = "suspended"  BY <2>1 DEF DeviceInv, QueueInv
  <2>3. ~Handshake  BY <2>2, HandshakeStage
  <2>4. disc' \in {disc, "none", "running"} /\ ctrl' \in {ctrl, "none"}
    BY <1>4 DEF HostDisconnected, SessionEnds, control_transport_stop,
                discovery_start, MayFail
  <2> QED BY <2>3, <2>4, HeadsetStops
<1>5. CASE HostConnected
  <2>1. Comes("HOST_CONNECTED") /\ main = "idle" /\ Handles("HOST_CONNECTED")
    BY <1>5 DEF HostConnected, Handles, Comes
  <2>2. ctrl \in {"connected", "closed", "lost"}
    BY <2>1 DEF DeviceInv, QueueInv
  <2>3. /\ disc = "none" /\ disc' = "none" /\ UNCHANGED <<ctrl, main, s_app_mode>>
    BY <1>5, <2>2 DEF HostConnected, discovery_stop, CalmInv, CalmStageInv
  <2>4. UNCHANGED <<host, request, cl, answer, conn>>
    BY <2>2, <2>3 DEF SocketsFollow
  <2>5. Undisturbed => Undisturbed'
    BY <2>1, <2>3, LastOne DEF Undisturbed, DeviceInv
  <2> QED BY <2>3, <2>4, <2>5 DEF HandshakeInv, EndsInv, Handshake
<1>6. CASE HostFound
  <2>1. Comes("HOST_FOUND") /\ main = "idle" /\ Handles("HOST_FOUND")
    BY <1>6 DEF HostFound, Handles, Comes
  <2>2. disc = "suspended"
    BY <2>1 DEF CalmInv, CalmQueueInv
  <2>3. ctrl = "none" /\ host \in {"listen", "accept"} /\ ~answer
    BY <2>2 DEF CalmInv, CalmStageInv, HandshakeInv
  <2>4. /\ disc' = "none" /\ ctrl' = "connecting" /\ UNCHANGED <<main, s_app_mode>>
    BY <1>6, <2>3 DEF HostFound, discovery_stop, control_transport_start, MayFail,
                      Calm, mainVars
  <2>5. host' = host /\ conn' = conn /\ ~answer'
    BY <2>2, <2>3, <2>4 DEF SocketsFollow, StopsAsking
  <2>6. Undisturbed'
    BY <2>1, <2>3, <2>4, LastOne DEF HandshakeInv, Handshake, Undisturbed, DeviceInv
  <2> QED BY <2>2, <2>3, <2>4, <2>5, <2>6 DEF HandshakeInv, EndsInv
<1> QED BY <1>1, <1>2, <1>3, <1>4, <1>5, <1>6 DEF Handler

(* Nothing is closed: what the host sees of the headset stays.             *)
LEMMA SocketsStay ==
  ASSUME SocketsFollow, disc = "none" \/ disc' # "none", ctrl = "none" \/ ctrl' # "none"
  PROVE  UNCHANGED serverVars
BY DEF SocketsFollow, serverVars, netVars

(* Its tasks, the Wi-Fi and the portal.                                    *)
LEMMA TasksKeep ==
  ASSUME Unspoiled, SocketsFollow,
         \/ DiscPosts \/ DiscFails \/ CtrlPostsHello \/ CtrlPostsBye
         \/ WifiGotIp \/ WifiDrops \/ WifiBadSsid
         \/ PortalRequest \/ PortalPosts
  PROVE  HandshakeInv' /\ EndsInv'
<1> USE DEF Unspoiled
<1>1. ~DiscFails /\ ~WifiBadSsid /\ ~WifiDrops
  <2>1. disc = "running" => wifi = "up"  BY DEF CalmInv, CalmStageInv
  <2> QED BY <2>1 DEF DiscFails, WifiBadSsid, WifiDrops, Calm, CalmInv, CalmStageInv
<1>2. UNCHANGED <<main, s_app_mode>>
  BY <1>1 DEF DiscPosts, CtrlPostsHello, CtrlPostsBye, CtrlStep, WifiGotIp,
              PortalRequest, PortalPosts, mainVars
<1>3. UNCHANGED <<host, request, cl, answer, conn>>
  <2>1. disc = "none" \/ disc' # "none"
    BY <1>1 DEF DiscPosts, CtrlPostsHello, CtrlPostsBye, CtrlStep, WifiGotIp,
              PortalRequest, PortalPosts, sessionVars
  <2>2. ctrl = "none" \/ ctrl' # "none"
    BY <1>1 DEF DiscPosts, CtrlPostsHello, CtrlPostsBye, CtrlStep, WifiGotIp,
              PortalRequest, PortalPosts, sessionVars
  <2> QED BY <2>1, <2>2, SocketsStay DEF serverVars, netVars
<1>4. CASE DiscPosts
  <2>1. /\ disc = "posting" /\ disc' = "suspended" /\ ctrl' = ctrl
        /\ Post("HOST_FOUND") /\ main = "idle" /\ queue = <<>>
    BY <1>4 DEF DiscPosts, MainBlocked, CalmInv, CalmQueueInv
  <2>2. "HOST_FOUND" \in Events \ Switches  BY DEF Events, Switches
  <2>3. Undisturbed => Undisturbed'
    BY <1>2, <2>1, <2>2, FirstOne DEF Undisturbed, DeviceInv
  <2>4. ~answer /\ host \in {"listen", "accept"}
    BY <2>1 DEF HandshakeInv
  <2> QED BY <1>3, <2>1, <2>3, <2>4 DEF HandshakeInv, EndsInv, Handshake
<1>5. CASE CtrlPostsHello
  <2>1. /\ ctrl = "hello" /\ ctrl' = "connected" /\ disc' = disc /\ MainBlocked
        /\ Post("HOST_CONNECTED")
    BY <1>5 DEF CtrlPostsHello, CtrlStep
  <2>2. main = "idle" /\ queue = <<>>
    BY <2>1 DEF MainBlocked, DeviceInv, MainInv
  <2>3. "HOST_CONNECTED" \in Events \ Switches  BY DEF Events, Switches, FromControl
  <2>4. Undisturbed => Undisturbed'
    BY <1>2, <2>1, <2>2, <2>3, FirstOne DEF Undisturbed, DeviceInv
  <2> QED BY <1>3, <2>1, <2>4 DEF HandshakeInv, EndsInv, Handshake
<1>6. CASE CtrlPostsBye
  <2>1. ctrl = "closed" /\ ctrl' = "suspended" /\ disc' = disc
    BY <1>6 DEF CtrlPostsBye, CtrlStep
  <2>2. ~Handshake  BY <2>1, HandshakeStage
  <2> QED BY <1>3, <2>1, <2>2 DEF HandshakeInv, EndsInv, Handshake
<1>7. CASE WifiGotIp \/ PortalRequest \/ PortalPosts
  <2>1. disc' = disc /\ ctrl' = ctrl
    BY <1>7 DEF WifiGotIp, PortalRequest, PortalPosts, sessionVars
  <2>2. wifi # "up" \/ s_app_mode # "MAIN"
    BY <1>7 DEF WifiGotIp, PortalRequest, PortalPosts, CalmInv, CalmStageInv
  <2>3. ~Handshake
    BY <2>2, HandshakeStage DEF CalmInv, CalmStageInv
  <2> QED BY <1>3, <2>1, <2>3 DEF HandshakeInv, EndsInv, Handshake
<1> QED BY <1>1, <1>4, <1>5, <1>6, <1>7

(* The network between the two.                                            *)
LEMMA NetworkKeeps ==
  ASSUME Unspoiled,
         \/ Broadcast \/ HearAnswer \/ Connect \/ HostEnds
         \/ Refused /\ spoiled' = FALSE
  PROVE  HandshakeInv' /\ EndsInv'
<1> USE DEF Unspoiled
<1>1. CASE Broadcast
  <2>1. /\ disc = "running" /\ MainBlocked /\ Hears /\ request' = "live"
        /\ UNCHANGED <<disc, ctrl, main, s_app_mode, queue, host, cl, answer, conn>>
    BY <1>1 DEF Broadcast, deviceVars, sessionVars, mainVars
  <2>2. main = "idle" /\ queue = <<>> /\ s_app_mode = "MAIN"
    BY <2>1 DEF MainBlocked, CalmInv, CalmQueueInv, CalmStageInv
  <2>3. Later(queue) = {}
    <3>1. Len(queue) = 0  BY <2>2
    <3> QED BY <3>1 DEF Later
  <2>4. Undisturbed'
    BY <2>1, <2>2, <2>3 DEF Undisturbed
  <2>5. host \notin {"open", "serve", "stopped"}
    BY <2>1 DEF Hears
  <2> QED BY <2>1, <2>4, <2>5 DEF HandshakeInv, EndsInv
<1>2. CASE HearAnswer
  <2>1. /\ answer /\ ~answer' /\ disc' = "posting"
        /\ UNCHANGED <<ctrl, main, s_app_mode, queue, host, request, cl, conn>>
    BY <1>2 DEF HearAnswer, DiscFinds, mainVars
  <2>2. host \in {"listen", "accept"}
    BY <2>1 DEF HandshakeInv
  <2> QED BY <2>1, <2>2 DEF HandshakeInv, EndsInv, Handshake, Undisturbed
<1>3. CASE Connect
  <2>1. /\ ctrl = "connecting" /\ ctrl' = "hello" /\ host = "accept"
        /\ conn' = "backlog"
        /\ UNCHANGED <<disc, main, s_app_mode, queue, host, request, cl, answer>>
    BY <1>3 DEF Connect, CtrlConnects, CtrlStep, mainVars
  <2> QED BY <2>1 DEF HandshakeInv, EndsInv, Handshake, Undisturbed, Served
<1>4. CASE HostEnds
  <2>1. /\ ctrl = "connected" /\ ctrl' = "closed" /\ conn = "ended"
        /\ UNCHANGED <<disc, main, s_app_mode, queue, host, request, cl, answer, conn>>
    BY <1>4 DEF HostEnds, HostCloses, mainVars, serverVars, netVars
  <2> QED BY <2>1 DEF HandshakeInv, EndsInv, Handshake, Undisturbed
<1>5. CASE Refused /\ spoiled' = FALSE
  <2>1. ctrl = "connecting" /\ (wifi # "up" \/ host # "accept") /\ host # "listen"
    BY <1>5 DEF Refused, CtrlStep
  <2>2. wifi = "up" /\ host \in {"listen", "accept"}
    BY <2>1 DEF HandshakeInv, CalmInv, CalmStageInv
  <2> QED BY <2>1, <2>2
<1> QED BY <1>1, <1>2, <1>3, <1>4, <1>5

(* The host.                                                               *)
LEMMA HostKeepsHandshake ==
  ASSUME Unspoiled, HostActs, ~(Handshake /\ host' = "stopped")
  PROVE  HandshakeInv' /\ EndsInv'
<1> USE DEF Unspoiled
<1>1. UNCHANGED <<disc, ctrl, main, s_app_mode, queue>>
  BY DEF HostActs, deviceVars, sessionVars, mainVars
<1>2. Undisturbed => Undisturbed'
  BY <1>1 DEF Undisturbed
<1>3. CASE Fails
  <2>1. /\ host' = "stopped" /\ host \in {"open", "capture", "reserve", "respond",
                                         "listen", "accept"}
        /\ request' = "none" /\ conn' = HostClosed(conn) /\ UNCHANGED <<cl, answer>>
    BY <1>3 DEF Fails, Leaves
  <2>2. ~Handshake /\ host \in {"open", "capture"}
    BY <2>1 DEF Handshake
  <2>3. conn \in {"none", "ended"}
    BY <2>2 DEF EndsInv, Served
  <2>4. conn' = conn
    BY <2>1, <2>3 DEF HostClosed
  <2> QED BY <1>1, <2>1, <2>2, <2>4 DEF HandshakeInv, EndsInv, Handshake
<1>4. CASE OpenDiscovery
  <2>1. /\ host = "open" /\ host' = "capture" /\ request = "none"
        /\ UNCHANGED <<request, cl, answer, conn>>
    BY <1>4 DEF OpenDiscovery, Step, netVars, HandshakeInv
  <2> QED BY <1>1, <2>1 DEF HandshakeInv, EndsInv, Handshake
<1>5. CASE Capture
  <2>1. /\ host = "capture" /\ host' = "reserve" /\ request # "none"
        /\ cl' = request /\ request' = "none" /\ UNCHANGED <<answer, conn>>
    BY <1>5 DEF Capture, Step
  <2>2. request = "live" /\ disc = "running" /\ Undisturbed /\ ctrl = "none"
    BY <2>1 DEF HandshakeInv, Handshake, CalmInv, CalmStageInv
  <2>3. conn = "none"
    BY <2>1, <2>2 DEF EndsInv, Served
  <2> QED BY <1>1, <1>2, <2>1, <2>2, <2>3 DEF HandshakeInv, EndsInv
<1>6. CASE Reserve
  <2>1. /\ host = "reserve" /\ host' = "respond"
        /\ UNCHANGED <<request, cl, answer, conn>>
    BY <1>6 DEF Reserve, Step, netVars
  <2> QED BY <1>1, <1>2, <2>1 DEF HandshakeInv, EndsInv, Handshake
<1>7. CASE Respond
  <2>1. /\ host = "respond" /\ host' = "listen" /\ cl = "live" /\ disc = "running"
        /\ answer' /\ UNCHANGED <<request, cl, conn>>
    BY <1>7 DEF Respond, Step, HandshakeInv
  <2> QED BY <1>1, <1>2, <2>1 DEF HandshakeInv, EndsInv, Handshake
<1>8. CASE Listen
  <2>1. /\ host = "listen" /\ host' = "accept"
        /\ UNCHANGED <<request, cl, answer, conn>>
    BY <1>8 DEF Listen, Step, netVars
  <2> QED BY <1>1, <1>2, <2>1 DEF HandshakeInv, EndsInv, Handshake
<1>9. CASE Accept
  <2>1. /\ host = "accept" /\ host' = "serve" /\ request' = "none"
        /\ conn \in {"backlog", "left", "dead"}
        /\ conn' = (IF conn = "backlog" THEN "open" ELSE conn)
        /\ UNCHANGED <<cl, answer>>
    BY <1>9 DEF Accept
  <2>2. conn = "backlog"
    BY <2>1 DEF EndsInv, Served
  <2>3. ctrl \notin {"none", "connecting"} /\ disc = "none"
    BY <2>2 DEF EndsInv, Served, CalmInv, CalmStageInv
  <2>4. ~answer
    BY <2>3 DEF HandshakeInv
  <2> QED BY <1>1, <2>1, <2>2, <2>3, <2>4 DEF HandshakeInv, EndsInv, Handshake, Served
<1>10. CASE EndSession
  <2>1. /\ host = "serve" /\ host' = "open" /\ conn' = HostClosed(conn)
        /\ UNCHANGED <<request, cl, answer>>
    BY <1>10 DEF EndSession
  <2>2. conn \in {"none", "open", "left"} /\ request = "none"
    BY <2>1 DEF EndsInv, HandshakeInv, Served
  <2>3. conn' = (IF conn = "open" THEN "ended" ELSE "none")
    BY <2>1, <2>2 DEF HostClosed
  <2> QED BY <1>1, <2>1, <2>2, <2>3 DEF HandshakeInv, EndsInv, Handshake, Served
<1>11. CASE Restart
  <2>1. /\ host = "stopped" /\ host' = "open"
        /\ UNCHANGED <<request, cl, answer, conn>>
    BY <1>11 DEF Restart, netVars
  <2> QED BY <1>1, <2>1 DEF HandshakeInv, EndsInv, Handshake
<1>12. CASE sig_handler
  <2>1. UNCHANGED <<host, request, cl, answer, conn>>
    BY <1>12 DEF sig_handler, netVars
  <2> QED BY <1>1, <1>2, <2>1 DEF HandshakeInv, EndsInv, Handshake
<1>13. ~KeepaliveExpires
  BY DEF KeepaliveExpires, EndsInv, Served
<1> QED BY <1>3, <1>4, <1>5, <1>6, <1>7, <1>8, <1>9, <1>10, <1>11, <1>12, <1>13
        DEF HostActs, Loop

LEMMA SpoiledStep ==
  ASSUME Calm, DeviceInv, CalmInv, SpoiledInv, [SessionNext]_sessionNetVars
  PROVE  SpoiledInv'
<1>1. spoiled' \in BOOLEAN /\ (~spoiled' => ~spoiled)
  BY DEF SpoiledInv, SessionNext, sessionNetVars, DeviceActs, DevicePressed, Broadcast,
         HearAnswer, LoseAnswer, Connect, Refused, HostEnds, CloseLost, HostActs,
         Handshake
<1>2. SUFFICES ASSUME ~spoiled' PROVE HandshakeInv' /\ EndsInv'
  BY <1>1 DEF SpoiledInv
<1>3. Unspoiled
  BY <1>1, <1>2 DEF SpoiledInv, Unspoiled
<1>4. CASE DeviceActs
  BY <1>3, <1>4, HandlerKeeps, TasksKeep DEF DeviceActs
<1>5. CASE DevicePressed
  <2>1. ~Handshake  BY <1>2, <1>5 DEF DevicePressed
  <2>2. UNCHANGED <<disc, ctrl, host, request, cl, answer, conn>>
    BY <1>5 DEF DevicePressed, Press, sessionVars, serverVars, netVars
  <2> QED BY <1>3, <2>1, <2>2 DEF Unspoiled, HandshakeInv, EndsInv, Handshake
<1>6. CASE Broadcast \/ HearAnswer \/ Connect \/ HostEnds \/ Refused
  <2>1. spoiled' = FALSE  BY <1>1, <1>2
  <2> QED BY <1>3, <1>6, <2>1, NetworkKeeps
<1>7. ~LoseAnswer /\ ~CloseLost
  BY <1>2 DEF LoseAnswer, CloseLost, HostVanishes, Calm, CalmInv, CalmStageInv
<1>8. CASE HostActs
  <2>1. ~(Handshake /\ host' = "stopped")  BY <1>2, <1>8 DEF HostActs
  <2> QED BY <1>3, <1>8, <2>1, HostKeepsHandshake
<1>9. CASE UNCHANGED sessionNetVars
  BY <1>3, <1>9 DEF sessionNetVars, deviceVars, sessionVars, mainVars, serverVars,
        netVars, Unspoiled, HandshakeInv, EndsInv, Handshake, Undisturbed
<1> QED BY <1>4, <1>5, <1>6, <1>7, <1>8, <1>9 DEF SessionNext

(* The host waits for a connection, which no timeout ends, only while one  *)
(* is on its way, unless somebody spoiled the handshake.                   *)
THEOREM WaitsForSomebody ==
  ASSUME Calm
  PROVE  SessionSpec => []AcceptIsAwaited
<1>1. SessionInit => SpoiledInv
  BY DEF SessionInit, Init, ServerInit, Booted, SpoiledInv, HandshakeInv, EndsInv,
         Handshake, Served
<1>2. DeviceInv /\ CalmInv /\ SpoiledInv /\ [SessionNext]_sessionNetVars => SpoiledInv'
  BY SpoiledStep
<1>3. DeviceInv /\ CalmInv /\ SpoiledInv => AcceptIsAwaited
  <2> SUFFICES ASSUME DeviceInv, CalmInv, SpoiledInv, host = "accept", ~spoiled
               PROVE  AcceptIsAwaited
    BY DEF AcceptIsAwaited
  <2>1. answer \/ disc \in {"posting", "suspended"} \/ ctrl = "connecting"
          \/ conn # "none"
    BY DEF SpoiledInv, HandshakeInv
  <2>2. ASSUME disc = "suspended" PROVE \E k \in DOMAIN queue : queue[k] = "HOST_FOUND"
    <3>1. queue # <<>> /\ Head(queue) = "HOST_FOUND" /\ queue \in Seq(Events)
      BY <2>2 DEF CalmInv, CalmQueueInv, Comes, DeviceInv, QueueInv
    <3>2. 1 \in DOMAIN queue /\ queue[1] = "HOST_FOUND"  BY <3>1
    <3> QED BY <3>2
  <2> QED BY <2>1, <2>2 DEF AcceptIsAwaited
<1>4. SessionSpec => []CalmInv
  BY SessionSteps, CalmSafe, PTL
<1> QED BY <1>1, <1>2, <1>3, <1>4, SessionTypes, PTL DEF SessionSpec

=============================================================================
