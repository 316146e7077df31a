------------------------------ MODULE Session -------------------------------
(***************************************************************************)
(* The headset (DeviceApp) and the host (ServerApp) together: the broadcast*)
(* and its answer over UDP, the control connection over TCP.  Each side's  *)
(* free partner gives way to the other side.  An answer may be lost; a     *)
(* broadcast that is lost is repeated, and is the same as one sent later.  *)
(*                                                                         *)
(* A handshake under way may be spoiled: the button is pressed in the      *)
(* middle of it, the host is stopped there, the answer is lost, or the     *)
(* headset connects before the host listens.  A history variable tells     *)
(* whether any of it happened.                                             *)
(***************************************************************************)
EXTENDS DeviceApp, ServerApp

VARIABLE spoiled   \* history: some handshake was spoiled

sessionNetVars == <<deviceVars, serverVars, spoiled>>

SessionInit == Init /\ ServerInit /\ spoiled = FALSE

(* From the broadcast that waits for the host to the connection it accepts.*)
Handshake == \/ host \in {"open", "capture"} /\ request # "none"
             \/ host \in {"reserve", "respond", "listen", "accept"}

(* A step of the headset may close the socket of its discovery or of its   *)
(* control task: the host's side of the network follows.                   *)
SocketsFollow ==
  /\ IF disc # "none" /\ disc' = "none" THEN StopsAsking
                                        ELSE UNCHANGED <<request, cl, answer>>
  /\ IF ctrl # "none" /\ ctrl' = "none"
     THEN /\ conn' \in Left(conn)
          /\ conn' = "left" => wifi = "up" \/ conn = "left"
          /\ conn' = "dead" => wifi # "up" \/ conn = "dead"
     ELSE UNCHANGED conn
  /\ UNCHANGED <<host, g_run, streaming>>

DeviceActs ==
  /\ \/ Handler \/ Boot \/ DiscPosts \/ DiscFails
     \/ CtrlPostsHello \/ CtrlPostsBye
     \/ WifiGotIp \/ WifiDrops \/ WifiBadSsid
     \/ PortalRequest \/ PortalPosts
  /\ SocketsFollow
  /\ UNCHANGED spoiled

DevicePressed == /\ Press
                 /\ spoiled' = (spoiled \/ Handshake)
                 /\ UNCHANGED serverVars

(* sendto of the broadcast; without an answer it is repeated.              *)
Broadcast ==
  /\ disc = "running" /\ wifi = "up" /\ MainBlocked
  /\ Hears /\ request # "live"
  /\ request' = "live"
  /\ UNCHANGED <<deviceVars, host, g_run, streaming, cl, answer, conn, spoiled>>

HearAnswer ==
  /\ answer
  /\ DiscFinds
  /\ answer' = FALSE
  /\ UNCHANGED <<host, g_run, streaming, request, cl, conn, spoiled>>

LoseAnswer ==
  /\ answer /\ answer' = FALSE
  /\ spoiled' = TRUE
  /\ UNCHANGED <<deviceVars, host, g_run, streaming, request, cl, conn>>

Connect ==
  /\ CtrlConnects
  /\ host = "accept" /\ conn = "none"
  /\ conn' = "backlog"
  /\ UNCHANGED <<host, g_run, streaming, request, cl, answer, spoiled>>

(* Nobody listens on the port, or no network leads there.                  *)
Refused ==
  /\ wifi # "up" \/ host # "accept"
  /\ CtrlStep("connecting", "failed")
  /\ spoiled' = (spoiled \/ host = "listen")
  /\ UNCHANGED <<queue, serverVars>>

HostEnds ==
  /\ conn = "ended"
  /\ HostCloses
  /\ UNCHANGED <<serverVars, spoiled>>

(* The host is gone and its close never arrives.                           *)
CloseLost ==
  /\ conn = "ended"
  /\ HostVanishes
  /\ UNCHANGED <<serverVars, spoiled>>

HostActs == /\ Loop \/ sig_handler \/ Restart \/ KeepaliveExpires
            /\ spoiled' = (spoiled \/ (Handshake /\ host' = "stopped"))
            /\ UNCHANGED deviceVars

SessionNext == \/ DeviceActs \/ DevicePressed
               \/ Broadcast \/ HearAnswer \/ LoseAnswer
               \/ Connect \/ Refused \/ HostEnds \/ CloseLost
               \/ HostActs

(* The loops and the tasks of both run, the access point gives an address, *)
(* TCP brings a close over a working Wi-Fi unless the close is lost, and a *)
(* keepalive expires at last.  Nobody has to use a button, stop the host or*)
(* start it again.                                                         *)
SessionSpec ==
  /\ SessionInit /\ [][SessionNext]_sessionNetVars
  /\ WF_sessionNetVars(DeviceActs /\ Handler)
  /\ WF_sessionNetVars(Broadcast \/ HearAnswer \/ (DeviceActs /\ DiscPosts))
  /\ WF_sessionNetVars(Connect \/ Refused
                       \/ (DeviceActs /\ (CtrlPostsHello \/ CtrlPostsBye)))
  /\ WF_sessionNetVars(HostEnds)
  /\ WF_sessionNetVars(DeviceActs /\ WifiGotIp)
  /\ WF_sessionNetVars(DeviceActs /\ PortalPosts)
  /\ WF_sessionNetVars(HostActs /\ Loop)
  /\ WF_sessionNetVars(HostActs /\ KeepaliveExpires)

-----------------------------------------------------------------------------
(* Properties.                                                             *)

(* The host waits for a connection, which no timeout ends, only while one  *)
(* is on its way: the answer, the event it causes, or the connecting task. *)
AcceptIsAwaited ==
  host = "accept" /\ ~spoiled =>
    \/ answer \/ conn # "none" \/ ~g_run
    \/ disc = "posting" \/ ctrl = "connecting"
    \/ \E k \in DOMAIN queue : queue[k] = "HOST_FOUND"

(* While the headset stays in MAIN on a working Wi-Fi and the host runs,   *)
(* sessions keep coming, whatever switches, closes and restarts preceded.  *)
SessionComes ==
  <>[](s_app_mode = "MAIN" /\ wifi = "up" /\ g_run /\ ~spoiled
         /\ host # "stopped") => []<>playing

(* Sound is played only in a session of this host, one it has accepted or  *)
(* will accept: the two ends never play for a partner that does not know.  *)
PlayingIsServed ==
  playing => conn \in {"backlog", "open", "ended"}

(* Once the host has ended the session the headset stops playing, whatever *)
(* fills its queue and wherever its loop waits then: the poll sees the     *)
(* close and its event is handled.  control_transport.c knows of no other  *)
(* end: a close that is lost or has no Wi-Fi to come over is never noticed.*)
PlayingEnds ==
  conn = "ended" ~> ~playing \/ ctrl = "lost" \/ wifi # "up"
=============================================================================
