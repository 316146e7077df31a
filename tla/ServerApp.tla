----------------------------- MODULE ServerApp ------------------------------
(***************************************************************************)
(* The host's main loop (server/main.c) with the discovery socket          *)
(* (server/discovery.c), the control connection                            *)
(* (server/control_transport.c) and the audio streams (server/audio_dev.c) *)
(* it opens and closes.  It serves one client at a time.  Its only threads *)
(* of control are the loop and the signal handler, which ends the loop.    *)
(*                                                                         *)
(* The client is the headset.  Session says when it asks, connects and     *)
(* goes; what its going does to the host's sockets is said here.           *)
(***************************************************************************)

CONSTANTS
  HostCanFail,   \* whether the calls that open sockets and devices may fail
  MaySigint      \* whether SIGINT may come

ASSUME ServerAssumption == HostCanFail \in BOOLEAN /\ MaySigint \in BOOLEAN

VARIABLES
  host,       \* where main stands
  g_run,      \* cleared by SIGINT
  streaming,  \* the audio devices run
  request,    \* a broadcast waits in the discovery socket: "none", or
              \* "live" when its sender still waits for the answer, or "gone"
  cl,         \* conn_info: the client captured, as in request
  answer,     \* the answer is on its way to the client
  conn        \* the control connection

netVars == <<request, cl, answer, conn>>
serverVars == <<host, g_run, streaming, netVars>>

(* conn: none; made by the client but not accepted; accepted; closed by the*)
(* client, which recv sees as 0; closed by the host; dead without a close: *)
(* "none", "backlog", "open", "left", "ended", "dead".                     *)

ServerInit ==
  /\ host = "open"
  /\ g_run = TRUE
  /\ streaming = FALSE
  /\ request = "none" /\ cl = "none" /\ answer = FALSE
  /\ conn = "none"

(* The discovery socket is open from discovery_open to discovery_close.    *)
Hears == host \in {"capture", "reserve", "respond", "listen", "accept"}

(* A socket of an accepted or waiting connection is closed by the host.    *)
HostClosed(c) == CASE c \in {"backlog", "open"} -> "ended"
                   [] c \in {"left", "dead"}    -> "none"
                   [] OTHER                     -> c

-----------------------------------------------------------------------------
(* The loop.                                                               *)

(* Any step of the loop that fails leaves it, and main ends.               *)
Leaves ==
  /\ host' = "stopped"
  /\ streaming' = FALSE
  /\ request' = "none"
  /\ conn' = HostClosed(conn)
  /\ UNCHANGED <<g_run, cl, answer>>

(* Slip: the waits for a broadcast and for a connection do not see SIGINT. *)
FailsOnly ==
  /\ \/ HostCanFail /\ host \in {"open", "reserve", "respond", "listen",
                                 "accept"}
     \/ ~g_run /\ host = "open"
  /\ Leaves

Fails ==
  /\ \/ HostCanFail /\ host \in {"open", "reserve", "respond", "listen",
                                 "accept"}
     \/ ~g_run /\ host \in {"open", "capture", "accept"}
  /\ Leaves

Step(from, next) ==
  /\ host = from
  /\ host' = next
  /\ UNCHANGED <<g_run, streaming>>

OpenDiscovery == /\ g_run
                 /\ Step("open", "capture")
                 /\ UNCHANGED netVars

Capture == /\ request # "none"
           /\ Step("capture", "reserve")
           /\ cl' = request
           /\ request' = "none"
           /\ UNCHANGED <<answer, conn>>

(* control_transport_open_conn and audio_transport_open_conn.              *)
Reserve == Step("reserve", "respond") /\ UNCHANGED netVars

(* The answer reaches only a client that still has the socket it asked on. *)
Respond == /\ Step("respond", "listen")
           /\ answer' = (cl = "live")
           /\ UNCHANGED <<request, cl, conn>>

Listen == Step("listen", "accept") /\ UNCHANGED netVars

(* Slip: discovery stays open, with the broadcasts of this session.        *)
AcceptHearing ==
  /\ host = "accept"
  /\ conn \in {"backlog", "left", "dead"}
  /\ conn' = IF conn = "backlog" THEN "open" ELSE conn
  /\ host' = "serve"
  /\ streaming' = TRUE
  /\ UNCHANGED <<g_run, request, cl, answer>>

(* A connection waits: discovery is closed and the audio starts.           *)
Accept ==
  /\ host = "accept"
  /\ conn \in {"backlog", "left", "dead"}
  /\ conn' = IF conn = "backlog" THEN "open" ELSE conn
  /\ host' = "serve"
  /\ streaming' = TRUE
  /\ request' = "none"
  /\ UNCHANGED <<g_run, cl, answer>>

(* Slip: an error of recv is taken for the close, 0 for silence.           *)
EndSessionOnError ==
  /\ host = "serve"
  /\ conn = "dead" \/ ~g_run
  /\ host' = "open"
  /\ streaming' = FALSE
  /\ conn' = HostClosed(conn)
  /\ UNCHANGED <<g_run, request, cl, answer>>

(* control_transport_alive sees the client's close, or the loop is to end. *)
EndSession ==
  /\ host = "serve"
  /\ conn = "left" \/ ~g_run
  /\ host' = "open"
  /\ streaming' = FALSE
  /\ conn' = HostClosed(conn)
  /\ UNCHANGED <<g_run, request, cl, answer>>

Loop == \/ Fails \/ OpenDiscovery \/ Capture \/ Reserve \/ Respond \/ Listen
        \/ Accept \/ EndSession

(* The program is started again.                                           *)
Restart == /\ host = "stopped"
           /\ host' = "open"
           /\ g_run' = TRUE
           /\ UNCHANGED <<streaming, netVars>>

sig_handler == /\ MaySigint
               /\ g_run' = FALSE
               /\ UNCHANGED <<host, streaming, netVars>>

(* The keepalive of a dead connection expires.  recv returns -1 once, which*)
(* control_transport_alive takes for silence, and 0 from then on.          *)
KeepaliveExpires == /\ conn = "dead" /\ host = "serve"
                    /\ conn' = "left"
                    /\ UNCHANGED <<host, g_run, streaming, request, cl, answer>>

-----------------------------------------------------------------------------
(* The client's end of the sockets.                                        *)

(* The client closes the socket it asked on.                               *)
Asks(r) == IF r = "live" THEN "gone" ELSE r

StopsAsking == /\ request' = Asks(request)
               /\ cl' = Asks(cl)
               /\ answer' = FALSE

(* The ends of a connection the client gives up: its close arrives or not. *)
Left(c) == CASE c \in {"backlog", "open"} -> {"left", "dead"}
             [] c = "ended"               -> {"none"}
             [] OTHER                     -> {c}

-----------------------------------------------------------------------------
(* Properties.                                                             *)

(* SIGINT ends the program wherever it comes, each blocking call included. *)
SigintStops == ~g_run ~> host = "stopped"

(* However a client goes, its session ends and the next one can begin.     *)
SessionFreed == conn \in {"left", "dead"} /\ host = "serve" ~> ~streaming
=============================================================================
