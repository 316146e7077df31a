------------------------------- MODULE Portal -------------------------------
(***************************************************************************)
(* How the headset learns its network: the login form of the captive portal*)
(* (captive_portal.c), the two strings it stores (nvs_storage.c), the      *)
(* station that reads them when the device goes to MAIN (wifi_handle.c),   *)
(* and the DNS server that leads a client to the form (dns_server.c).      *)
(*                                                                         *)
(* The HTTP server handles one request at a time in a task of its own; the *)
(* main task stops it, and power may go at any moment.  What was written   *)
(* to the flash and not committed may be lost then, each key for itself.   *)
(*                                                                         *)
(* A network stands for its SSID and for its password: a pair that mixes   *)
(* two networks was never entered.                                         *)
(***************************************************************************)
EXTENDS DnsReply

CONSTANTS
  Networks,    \* what a user may enter
  LongOnes,    \* those whose encoded text does not fit the handler's buffer
  Part,        \* a password cut short
  Nul,         \* a text that percent_decode turns into the empty one
  Clients,     \* who uses the portal
  NoPair       \* nothing was saved

ASSUME PortalAssumption ==
  /\ LongOnes \subseteq Networks
  /\ Part \notin Networks /\ Nul \notin Networks /\ Part # Nul

VARIABLES
  mode,         \* "CONF" or "MAIN"
  httpd,        \* the HTTP server: "on" or "off"
  at,           \* where login_post_handler stands
  request,      \* the request it handles
  status_msg,   \* per client, what the page will say
  nvs,          \* the two strings as they read now
  committed,    \* and as they are sure to read after a reset
  station,      \* what wifi_handle_setup_sta configured
  dns,          \* where dns_server_task stands
  s_dns_handle, \* what it points to: "null", "live" or "freed"
  started,      \* handle->started
  torn,         \* history: the latest save broke off, or stored a cut body
  saved         \* history: the pair a client was told is saved

loginVars == <<at, request, status_msg>>
storeVars == <<nvs, committed>>
dnsVars == <<dns, s_dns_handle, started>>
portalVars == <<mode, httpd, loginVars, storeVars, station, dnsVars, torn, saved>>

Texts == Networks \cup {Nul, ""}
Nothing == [ssid |-> "", pass |-> ""]
NoRequest == [client |-> "none", form |-> Nothing, whole |-> TRUE]

(* A form names one network, as far as its fields are filled in.           *)
Forms == {form \in [ssid : Texts, pass : Texts] :
            {form.ssid, form.pass} \cap Networks = {} \/
            \E n \in Networks : {form.ssid, form.pass} \cap Networks = {n}}

Init ==
  /\ mode = "MAIN" /\ httpd = "off"
  /\ at = "idle" /\ request = NoRequest
  /\ status_msg = [c \in Clients |-> "none"]
  /\ nvs = Nothing /\ committed = Nothing /\ station = Nothing
  /\ dns = "none" /\ s_dns_handle = "null" /\ started = FALSE
  /\ torn = FALSE /\ saved = NoPair

-----------------------------------------------------------------------------
(* login_post_handler.                                                     *)

(* httpd_req_recv may return less than the body: fields are cut or missing.*)
Received(form) ==
  {form, Nothing, [form EXCEPT !.pass = ""]} \cup
    IF form.pass = "" THEN {} ELSE {[form EXCEPT !.pass = Part]}

TextOK(text) == text # "" /\ text \notin LongOnes

percent_decode(text) == IF text = Nul THEN "" ELSE text

Status(client, msg) == status_msg' = [status_msg EXCEPT ![client] = msg]

LoginRequest ==
  /\ httpd = "on" /\ at = "idle"
  /\ \E c \in Clients, form \in Forms : \E got \in Received(form) :
       \/ /\ TextOK(got.ssid) /\ TextOK(got.pass)
          /\ request' = [client |-> c, form |-> got, whole |-> got = form]
          /\ at' = "ssid"
          /\ UNCHANGED status_msg
       \/ /\ ~(TextOK(got.ssid) /\ TextOK(got.pass))
          /\ Status(c, "invalid")
          /\ UNCHANGED <<at, request>>
  /\ UNCHANGED <<mode, httpd, storeVars, station, dnsVars, torn, saved>>

(* nvs_storage_set_host_creds: any of its calls may fail.                  *)
SaveFails ==
  /\ at \in {"ssid", "pass", "commit"}
  /\ at' = "idle"
  /\ request' = NoRequest /\ Status(request.client, "error")
  /\ torn' = (torn \/ at # "ssid")
  /\ UNCHANGED <<mode, httpd, storeVars, station, dnsVars, saved>>

SetSsid ==
  /\ at = "ssid"
  /\ nvs' = [nvs EXCEPT !.ssid = percent_decode(request.form.ssid)]
  /\ at' = "pass"
  /\ saved' = NoPair
  /\ UNCHANGED <<mode, httpd, request, status_msg, committed, station, dnsVars,
                 torn>>

SetPass ==
  /\ at = "pass"
  /\ nvs' = [nvs EXCEPT !.pass = percent_decode(request.form.pass)]
  /\ at' = "commit"
  /\ UNCHANGED <<mode, httpd, request, status_msg, committed, station, dnsVars,
                 torn, saved>>

(* What the page says, and what the history keeps of it.                   *)
SaysSaved ==
  /\ at = "commit"
  /\ at' = "idle"
  /\ request' = NoRequest /\ Status(request.client, "saved")
  /\ torn' = ~request.whole
  /\ saved' = IF request.whole
              THEN [ssid |-> percent_decode(request.form.ssid),
                    pass |-> percent_decode(request.form.pass)]
              ELSE NoPair
  /\ UNCHANGED <<mode, httpd, nvs, station, dnsVars>>

(* Slip: the handle is closed without a commit.                            *)
CommitForgotten == SaysSaved /\ UNCHANGED committed

Commit == SaysSaved /\ committed' = nvs

(* root_get_handler shows the status once.                                 *)
ServeRoot ==
  /\ httpd = "on" /\ at = "idle"
  /\ \E c \in Clients : status_msg' = [status_msg EXCEPT ![c] = "none"]
  /\ UNCHANGED <<mode, httpd, at, request, storeVars, station, dnsVars, torn,
                 saved>>

-----------------------------------------------------------------------------
(* dns_server.c.                                                           *)

(* The outer loop: a socket, or the end of the task, which frees the handle.*)
DnsSocket ==
  /\ dns = "socket"
  /\ \/ started /\ dns' = "recv" /\ UNCHANGED s_dns_handle
     \/ dns' = "none" /\ s_dns_handle' = "freed"    \* stopped, or no socket
  /\ UNCHANGED <<mode, httpd, loginVars, storeVars, station, started, torn,
                 saved>>

(* recvfrom or sendto fails, or a timeout finds the server stopped; what a *)
(* query is answered is in DnsReply.                                       *)
DnsLeaves ==
  /\ dns = "recv"
  /\ dns' = "socket"
  /\ UNCHANGED <<mode, httpd, loginVars, storeVars, station, s_dns_handle,
                 started, torn, saved>>

start_dns_server ==
  \/ s_dns_handle' = "live" /\ started' = TRUE /\ dns' = "socket"
  \/ s_dns_handle' = "null" /\ UNCHANGED <<started, dns>>    \* no memory

(* Slip: the handle is freed by stop, as in the lines commented out.       *)
stop_dns_server_frees ==
  /\ started' = FALSE
  /\ s_dns_handle' = IF s_dns_handle = "live" THEN "freed" ELSE s_dns_handle
  /\ UNCHANGED dns

(* A write to a handle that the task has freed changes nothing here.       *)
stop_dns_server ==
  /\ started' = FALSE
  /\ UNCHANGED <<dns, s_dns_handle>>

-----------------------------------------------------------------------------
(* The main task, and the supply.                                          *)

(* nvs_storage_get_host_creds: a string that cannot be read is empty.      *)
CredsRead(pair) == {pair, Nothing, [pair EXCEPT !.ssid = ""],
                    [pair EXCEPT !.pass = ""]}

(* captive_server_start; a DNS task of before has had half a second to end.*)
EnterConf ==
  /\ mode = "MAIN" /\ mode' = "CONF"
  /\ dns = "none"
  /\ station' = Nothing
  /\ \/ httpd' = "on" /\ start_dns_server
     \/ httpd' = "off" /\ UNCHANGED <<s_dns_handle, started, dns>>
  /\ UNCHANGED <<loginVars, storeVars, torn, saved>>

LeavesConf ==
  /\ mode = "CONF" /\ mode' = "MAIN"
  /\ httpd' = "off"
  /\ status_msg' = [c \in Clients |-> "none"]
  /\ stop_dns_server
  /\ station' \in CredsRead(nvs)
  /\ UNCHANGED <<at, request, storeVars, torn, saved>>

(* Slip: the server's task is not waited for.                              *)
EnterMainAtOnce == LeavesConf

(* httpd_stop waits for the handler; then the station is set up.           *)
EnterMain == at = "idle" /\ LeavesConf

Reset ==
  /\ \E ssid \in {nvs.ssid, committed.ssid}, pass \in {nvs.pass, committed.pass} :
       nvs' = [ssid |-> ssid, pass |-> pass]
  /\ committed' = nvs'
  /\ station' \in CredsRead(nvs')
  /\ mode' = "MAIN" /\ httpd' = "off"
  /\ at' = "idle" /\ request' = NoRequest
  /\ status_msg' = [c \in Clients |-> "none"]
  /\ dns' = "none" /\ s_dns_handle' = "null" /\ started' = FALSE
  /\ torn' = (torn \/ at \in {"pass", "commit"})
  /\ UNCHANGED saved

Next == \/ LoginRequest \/ SaveFails \/ SetSsid \/ SetPass \/ Commit \/ ServeRoot
        \/ DnsSocket \/ DnsLeaves
        \/ EnterConf \/ EnterMain \/ Reset

Spec == Init /\ [][Next]_portalVars

-----------------------------------------------------------------------------
(* Properties.                                                             *)

(* The station never tries one network's name with another's password, or  *)
(* with a part of one, whenever the switch to MAIN or a reset comes; only a*)
(* save that broke off between its two writes, or that took a body cut     *)
(* short for a whole one, may leave such a pair.                           *)
StationPair ==
  torn \/ "" \in {station.ssid, station.pass} \/ station.ssid = station.pass

(* What the page called "Changes saved" is what is stored, through any     *)
(* number of resets, until the next form is saved.                         *)
SavedSurvives == saved = NoPair \/ nvs = saved

(* The task and the main loop share the handle, which only the task frees: *)
(* it never reads the flag of a handle that is gone.                       *)
DnsHandleKept == dns # "none" => s_dns_handle = "live"

(* The form is found: while the DNS task waits for queries, any query for  *)
(* one address that fits its buffer leads to the access point.             *)
DnsAnswers == dns = "recv" => \A query \in Queries : Served(query)
=============================================================================
