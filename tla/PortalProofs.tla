---------------------------- MODULE PortalProofs ----------------------------
(***************************************************************************)
(* Proofs about how the headset learns its network, for any networks and   *)
(* any number of clients.  What the station tries depends on what is       *)
(* stored, and that on how far a save has come: the invariant follows the  *)
(* two strings through the handler, the commit and a reset.                *)
(***************************************************************************)
EXTENDS Portal, TLAPS

Stored == Networks \cup {Nul, Part, ""}
Pairs == [ssid : Stored, pass : Stored]

(* One network, or the lack of one: what the station may try.              *)
OfOneNetwork(pair) == "" \in {pair.ssid, pair.pass} \/ pair.ssid = pair.pass

Decoded(form) == [ssid |-> percent_decode(form.ssid),
                  pass |-> percent_decode(form.pass)]

PortalTypes ==
  /\ nvs \in Pairs /\ committed \in Pairs
  /\ request.form \in Pairs /\ request.whole \in BOOLEAN
  /\ at \in {"idle", "ssid", "pass", "commit"}
  /\ torn \in BOOLEAN

(* The portal serves, and a request is handled, in mode CONF alone, where  *)
(* no station is set up: a save ends before the station reads.             *)
ServeInv ==
  /\ httpd = "on" => mode = "CONF"
  /\ at # "idle" => mode = "CONF"
  /\ mode = "CONF" => station = Nothing

(* What the request at hand has written so far.                            *)
SaveInv ==
  /\ at \in {"pass", "commit"} => nvs.ssid = percent_decode(request.form.ssid)
  /\ at = "commit" => nvs.pass = percent_decode(request.form.pass)
  /\ request.whole => OfOneNetwork(Decoded(request.form))

(* Between two saves what is stored is sure to be found after a reset, and *)
(* is a pair of one network unless a save was torn.                        *)
StoreInv ==
  /\ ~torn /\ at \in {"idle", "ssid"} => nvs = committed /\ OfOneNetwork(nvs)
  /\ torn \/ OfOneNetwork(station)

SavedInv ==
  saved # NoPair => /\ at \in {"idle", "ssid"}
                    /\ nvs = saved /\ committed = saved

PortalInv == PortalTypes /\ ServeInv /\ SaveInv /\ StoreInv /\ SavedInv

LEMMA DecodedStored ==
  ASSUME NEW form \in Pairs
  PROVE  Decoded(form) \in Pairs
BY DEF Decoded, percent_decode, Pairs, Stored

(* A whole form with both fields filled in is of one network, or decodes to*)
(* an empty name or password.                                              *)
LEMMA WholeForm ==
  ASSUME NEW form \in Forms, TextOK(form.ssid), TextOK(form.pass)
  PROVE  OfOneNetwork(Decoded(form))
<1>1. form.ssid \in Networks \cup {Nul} /\ form.pass \in Networks \cup {Nul}
  BY DEF Forms, Texts, TextOK
<1>2. CASE form.ssid = Nul \/ form.pass = Nul
  BY <1>2 DEF OfOneNetwork, Decoded, percent_decode
<1>3. CASE form.ssid \in Networks /\ form.pass \in Networks
  <2>1. form.ssid = form.pass
    BY <1>3 DEF Forms
  <2> QED BY <2>1 DEF OfOneNetwork, Decoded
<1> QED BY <1>1, <1>2, <1>3

LEMMA NoRequestOK ==
  /\ NoRequest.form \in Pairs /\ NoRequest.whole = TRUE
  /\ OfOneNetwork(Decoded(NoRequest.form))
BY DEF NoRequest, Nothing, Pairs, Stored, OfOneNetwork, Decoded, percent_decode

LEMMA InitPortal == Init => PortalInv
<1> SUFFICES ASSUME Init PROVE PortalInv  OBVIOUS
<1>1. Nothing \in Pairs /\ OfOneNetwork(Nothing)
  BY DEF Nothing, Pairs, Stored, OfOneNetwork
<1>2. request.form = Nothing /\ request.whole = TRUE
  BY DEF Init, NoRequest
<1>3. PortalTypes
  BY <1>1, <1>2, Zenon DEF Init, PortalTypes
<1>4. SaveInv
  <2>1. at \notin {"pass", "commit"} /\ at # "commit"  BY DEF Init
  <2>2. OfOneNetwork(Decoded(request.form))
    BY NoRequestOK DEF Init
  <2> QED BY <2>1, <2>2, Zenon DEF SaveInv
<1>5. StoreInv /\ SavedInv
  BY <1>1, Zenon DEF Init, StoreInv, SavedInv
<1>6. ServeInv
  BY DEF Init, ServeInv
<1> QED BY <1>3, <1>4, <1>5, <1>6 DEF PortalInv

(* A string that cannot be read is empty: the station then has no network. *)
LEMMA ReadPair ==
  ASSUME NEW pair \in Pairs, OfOneNetwork(pair), NEW got \in CredsRead(pair)
  PROVE  OfOneNetwork(got)
<1>1. CASE got = pair  BY <1>1
<1>2. CASE got = Nothing  BY <1>2 DEF OfOneNetwork, Nothing
<1>3. CASE got = [pair EXCEPT !.ssid = ""]
  <2>1. got.ssid = ""  BY <1>3 DEF Pairs
  <2> QED BY <2>1 DEF OfOneNetwork
<1>4. CASE got = [pair EXCEPT !.pass = ""]
  <2>1. got.pass = ""  BY <1>4 DEF Pairs
  <2> QED BY <2>1 DEF OfOneNetwork
<1> QED BY <1>1, <1>2, <1>3, <1>4 DEF CredsRead

LEMMA RequestInv ==
  ASSUME PortalInv, LoginRequest
  PROVE  PortalInv'
<1> USE DEF PortalInv
<1>1. PICK c \in Clients, form \in Forms :
        \E got \in Received(form) :
          \/ /\ TextOK(got.ssid) /\ TextOK(got.pass)
             /\ request' = [client |-> c, form |-> got, whole |-> got = form]
             /\ at' = "ssid"
             /\ UNCHANGED status_msg
          \/ /\ ~(TextOK(got.ssid) /\ TextOK(got.pass))
             /\ Status(c, "invalid")
             /\ UNCHANGED <<at, request>>
  BY DEF LoginRequest
<1>2. PICK got \in Received(form) :
          \/ /\ TextOK(got.ssid) /\ TextOK(got.pass)
             /\ request' = [client |-> c, form |-> got, whole |-> got = form]
             /\ at' = "ssid"
             /\ UNCHANGED status_msg
          \/ /\ ~(TextOK(got.ssid) /\ TextOK(got.pass))
             /\ Status(c, "invalid")
             /\ UNCHANGED <<at, request>>
  BY <1>1
<1>3. /\ at = "idle" /\ httpd = "on"
      /\ UNCHANGED <<mode, httpd, nvs, committed, station, torn, saved>>
  BY DEF LoginRequest, storeVars
<1>4. form \in Pairs /\ got \in Pairs
  <2>1. form \in Pairs  BY DEF Forms, Texts, Pairs, Stored
  <2>2. CASE got = form  BY <2>1, <2>2
  <2>3. CASE got = Nothing  BY <2>1, <2>3 DEF Nothing, Pairs, Stored
  <2>4. CASE got = [form EXCEPT !.pass = ""]  BY <2>1, <2>4 DEF Pairs, Stored
  <2>5. CASE got = [form EXCEPT !.pass = Part]  BY <2>1, <2>5 DEF Pairs, Stored
  <2> QED BY <2>1, <2>2, <2>3, <2>4, <2>5 DEF Received
<1>5. CASE UNCHANGED <<at, request>>
  BY <1>3, <1>5 DEF PortalTypes, ServeInv, SaveInv, StoreInv, SavedInv,
                    OfOneNetwork, Decoded
<1>6. CASE /\ TextOK(got.ssid) /\ TextOK(got.pass) /\ at' = "ssid"
           /\ request' = [client |-> c, form |-> got, whole |-> got = form]
  <2>1. request'.form = got /\ (request'.whole <=> got = form) /\ request'.whole \in BOOLEAN
    BY <1>6
  <2>2. request'.whole => OfOneNetwork(Decoded(got))
    BY <1>6, <2>1, WholeForm
  <2>3. PortalTypes' /\ SaveInv'
    BY <1>3, <1>4, <1>6, <2>1, <2>2 DEF PortalTypes, SaveInv
  <2>4. ServeInv' /\ StoreInv' /\ SavedInv'
    BY <1>3, <1>6 DEF ServeInv, StoreInv, SavedInv, OfOneNetwork
  <2> QED BY <2>3, <2>4
<1> QED BY <1>2, <1>5, <1>6

(* The three calls of nvs_storage_set_host_creds, and a failure of one.    *)
LEMMA WriteInv ==
  ASSUME PortalInv, SetSsid \/ SetPass
  PROVE  PortalInv'
<1> USE DEF PortalInv
<1>1. UNCHANGED <<mode, httpd, request, committed, station, torn>>
  BY DEF SetSsid, SetPass
<1>2. Decoded(request.form) \in Pairs
  BY DecodedStored DEF PortalTypes
<1>3. CASE SetSsid
  <2>1. nvs'.ssid = percent_decode(request.form.ssid) /\ nvs' \in Pairs
    BY <1>2, <1>3 DEF SetSsid, PortalTypes, Pairs, Decoded
  <2>2. at = "ssid" /\ at' = "pass" /\ saved' = NoPair
    BY <1>3 DEF SetSsid
  <2> QED BY <1>1, <2>1, <2>2
          DEF PortalTypes, ServeInv, SaveInv, StoreInv, SavedInv, OfOneNetwork
<1>4. CASE SetPass
  <2>1. /\ nvs'.pass = percent_decode(request.form.pass) /\ nvs' \in Pairs
        /\ nvs'.ssid = nvs.ssid
    BY <1>2, <1>4 DEF SetPass, PortalTypes, Pairs, Decoded
  <2>2. at = "pass" /\ at' = "commit" /\ saved' = saved
    BY <1>4 DEF SetPass
  <2>3. nvs.ssid = percent_decode(request.form.ssid)
    BY <2>2 DEF SaveInv
  <2> QED BY <1>1, <2>1, <2>2, <2>3
          DEF PortalTypes, ServeInv, SaveInv, StoreInv, SavedInv, OfOneNetwork
<1> QED BY <1>3, <1>4

LEMMA CommitInv ==
  ASSUME PortalInv, Commit
  PROVE  PortalInv'
<1> USE DEF PortalInv
<1>1. /\ at = "commit" /\ at' = "idle" /\ request' = NoRequest
      /\ torn' = ~request.whole /\ committed' = nvs
      /\ UNCHANGED <<mode, httpd, nvs, station>>
      /\ saved' = IF request.whole THEN Decoded(request.form) ELSE NoPair
  BY DEF Commit, SaysSaved, Decoded
<1>2. nvs = Decoded(request.form)
  BY <1>1 DEF SaveInv, PortalTypes, Pairs, Decoded
<1>3. PortalTypes'
  BY <1>1, NoRequestOK, Zenon DEF PortalTypes
<1>4. SaveInv'
  BY <1>1, NoRequestOK DEF SaveInv
<1>5. StoreInv'
  <2>1. request.whole => OfOneNetwork(nvs)  BY <1>2 DEF SaveInv
  <2>2. ~torn' => request.whole  BY <1>1, Zenon DEF PortalTypes
  <2>3. ~torn' => nvs' = committed' /\ OfOneNetwork(nvs')
    BY <1>1, <2>1, <2>2
  <2>4. station' = Nothing  BY <1>1 DEF ServeInv
  <2>5. OfOneNetwork(station')  BY <2>4 DEF OfOneNetwork, Nothing
  <2> QED BY <2>3, <2>5 DEF StoreInv, OfOneNetwork
<1>6. SavedInv'
  BY <1>1, <1>2 DEF SavedInv
<1>7. ServeInv'
  BY <1>1 DEF ServeInv
<1> QED BY <1>3, <1>4, <1>5, <1>6, <1>7

(* A call of the save fails: what was written stays as it is, and the save *)
(* counts as torn unless nothing was.                                      *)
LEMMA FailInv ==
  ASSUME PortalInv, SaveFails
  PROVE  PortalInv'
<1> USE DEF PortalInv
<1>1. /\ at \in {"ssid", "pass", "commit"} /\ at' = "idle" /\ request' = NoRequest
      /\ torn' = (torn \/ at # "ssid")
      /\ UNCHANGED <<mode, httpd, nvs, committed, station, saved>>
  BY DEF SaveFails, storeVars
<1>2. PortalTypes'
  BY <1>1, NoRequestOK, Zenon DEF PortalTypes
<1>3. SaveInv' /\ ServeInv'
  BY <1>1, NoRequestOK DEF SaveInv, ServeInv
<1>4. ~torn' => ~torn /\ at = "ssid"
  BY <1>1, Zenon
<1>5. StoreInv'
  BY <1>1, <1>4 DEF StoreInv, OfOneNetwork
<1>6. SavedInv'
  BY <1>1 DEF SavedInv
<1> QED BY <1>2, <1>3, <1>5, <1>6

(* The page and the DNS server touch nothing that is stored.               *)
LEMMA AsideInv ==
  ASSUME PortalInv, ServeRoot \/ DnsSocket \/ DnsLeaves
  PROVE  PortalInv'
<1>1. UNCHANGED <<mode, httpd, at, request, nvs, committed, station, torn, saved>>
  BY DEF ServeRoot, DnsSocket, DnsLeaves, storeVars, loginVars
<1> QED BY <1>1 DEF PortalInv, PortalTypes, ServeInv, SaveInv, StoreInv, SavedInv,
                    OfOneNetwork, Decoded

(* The main task goes to CONF, where there is no station.                  *)
LEMMA EnterConfInv ==
  ASSUME PortalInv, EnterConf
  PROVE  PortalInv'
<1> USE DEF PortalInv
<1>1. /\ mode' = "CONF" /\ station' = Nothing
      /\ UNCHANGED <<at, request, nvs, committed, torn, saved>>
  BY DEF EnterConf, loginVars, storeVars
<1>2. OfOneNetwork(station')
  BY <1>1 DEF OfOneNetwork, Nothing
<1> QED BY <1>1, <1>2 DEF PortalTypes, ServeInv, SaveInv, StoreInv, SavedInv,
                    OfOneNetwork, Decoded

(* ... and to MAIN, with the station set up from what is stored: no save is*)
(* under way, so that this is what the latest one left.                    *)
LEMMA EnterMainInv ==
  ASSUME PortalInv, EnterMain
  PROVE  PortalInv'
<1> USE DEF PortalInv
<1>1. /\ at = "idle" /\ mode' = "MAIN" /\ httpd' = "off"
      /\ station' \in CredsRead(nvs)
      /\ UNCHANGED <<at, request, nvs, committed, torn, saved>>
  BY DEF EnterMain, LeavesConf, storeVars
<1>2. ~torn => OfOneNetwork(station')
  BY <1>1, ReadPair DEF StoreInv, PortalTypes
<1> QED BY <1>1, <1>2 DEF PortalTypes, ServeInv, SaveInv, StoreInv, SavedInv,
                    OfOneNetwork, Decoded

(* Power goes: each string is found as it was written or as it was sure to *)
(* be, which is the same where no save was under way or torn.              *)
LEMMA ResetInv ==
  ASSUME PortalInv, Reset
  PROVE  PortalInv'
<1> USE DEF PortalInv
<1>1. /\ nvs' \in Pairs /\ nvs'.ssid \in {nvs.ssid, committed.ssid}
      /\ nvs'.pass \in {nvs.pass, committed.pass}
  BY DEF Reset, PortalTypes, Pairs
<1>2. /\ committed' = nvs' /\ station' \in CredsRead(nvs')
      /\ mode' = "MAIN" /\ httpd' = "off" /\ at' = "idle"
      /\ request' = NoRequest /\ saved' = saved
      /\ torn' = (torn \/ at \in {"pass", "commit"})
  BY DEF Reset
<1>3. PortalTypes'
  BY <1>1, <1>2, NoRequestOK, Zenon DEF PortalTypes
<1>4. SaveInv' /\ ServeInv'
  BY <1>2, NoRequestOK DEF SaveInv, ServeInv
<1>5. nvs = committed => nvs' = nvs
  BY <1>1 DEF PortalTypes, Pairs
<1>6. ~torn' => ~torn /\ at \in {"idle", "ssid"}
  BY <1>2, Zenon DEF PortalTypes
<1>7. ~torn' => nvs' = nvs /\ OfOneNetwork(nvs)
  BY <1>5, <1>6 DEF StoreInv
<1>8. ~torn' => OfOneNetwork(station')
  BY <1>1, <1>2, <1>7, ReadPair
<1>9. StoreInv'
  BY <1>2, <1>7, <1>8 DEF StoreInv, OfOneNetwork
<1>10. SavedInv'
  BY <1>2, <1>5 DEF SavedInv
<1> QED BY <1>3, <1>4, <1>9, <1>10

LEMMA StepPortal == PortalInv /\ [Next]_portalVars => PortalInv'
<1> SUFFICES ASSUME PortalInv, [Next]_portalVars PROVE PortalInv'  OBVIOUS
<1>1. CASE UNCHANGED portalVars
  BY <1>1 DEF portalVars, loginVars, storeVars, PortalInv, PortalTypes, ServeInv,
              SaveInv, StoreInv, SavedInv, OfOneNetwork, Decoded
<1> QED BY <1>1, RequestInv, FailInv, WriteInv, CommitInv, AsideInv, EnterConfInv,
           EnterMainInv, ResetInv DEF Next

(* The form, the storage and the station agree at every step of a save and *)
(* after every reset: the invariant the theorems below rest on.            *)
THEOREM PortalCorrect == Spec => []PortalInv
BY InitPortal, StepPortal, PTL DEF Spec

(* The station never tries one network's name with another's password, or  *)
(* with a part of one, unless the latest save was torn.                    *)
THEOREM OwnPassword == Spec => []StationPair
<1>1. PortalInv => StationPair
  BY DEF PortalInv, StoreInv, OfOneNetwork, StationPair
<1> QED BY <1>1, PortalCorrect, PTL

(* What the page called saved is stored, through any number of resets.     *)
THEOREM SavedIsKept == Spec => []SavedSurvives
<1>1. PortalInv => SavedSurvives
  BY DEF PortalInv, SavedInv, SavedSurvives
<1> QED BY <1>1, PortalCorrect, PTL

-----------------------------------------------------------------------------
(* The handle of the DNS task is freed by the task itself, as its last act,*)
(* and CONF is not entered before: no task finds its handle gone.          *)
THEOREM HandleIsKept == Spec => []DnsHandleKept
<1>1. Init => DnsHandleKept
  BY DEF Init, DnsHandleKept
<1>2. ASSUME DnsHandleKept, [Next]_portalVars PROVE DnsHandleKept'
  <2>1. CASE UNCHANGED dnsVars
    BY <1>2, <2>1 DEF dnsVars, DnsHandleKept
  <2>2. CASE LoginRequest \/ SaveFails \/ SetSsid \/ SetPass \/ Commit \/ ServeRoot
    BY <2>1, <2>2 DEF LoginRequest, SaveFails, SetSsid, SetPass, Commit, SaysSaved,
                      ServeRoot
  <2>3. CASE DnsSocket  BY <1>2, <2>3 DEF DnsSocket, DnsHandleKept
  <2>4. CASE DnsLeaves  BY <1>2, <2>4 DEF DnsLeaves, DnsHandleKept
  <2>5. CASE EnterConf
    BY <1>2, <2>5 DEF EnterConf, start_dns_server, DnsHandleKept
  <2>6. CASE EnterMain
    BY <1>2, <2>6 DEF EnterMain, LeavesConf, stop_dns_server, DnsHandleKept
  <2>7. CASE Reset  BY <2>7 DEF Reset, DnsHandleKept
  <2>8. CASE UNCHANGED portalVars
    BY <2>1, <2>8 DEF portalVars
  <2> QED BY <1>2, <2>2, <2>3, <2>4, <2>5, <2>6, <2>7, <2>8 DEF Next
<1> QED BY <1>1, <1>2, PTL DEF Spec

-----------------------------------------------------------------------------
(* What the DNS task answers.  A query of one question is as long as its   *)
(* header and its question: the fold over the questions, unfolded once.    *)
LEMMA OneQuestion ==
  ASSUME NEW q, q.name \in Nat
  PROVE  Size(<<q>>) = Header + QuestionSize(q)
<1> DEFINE F(f) == [k \in 0 .. 1 |->
                      IF k = 0 THEN Header ELSE f[k - 1] + QuestionSize(<<q>>[k])]
           total == [k \in 0 .. 1 |->
                       IF k = 0 THEN Header ELSE Header + QuestionSize(q)]
<1>1. 0 .. 1 = {0, 1}  OBVIOUS
<1>2. total = F(total)
  <2>1. total[0] = Header  OBVIOUS
  <2>2. F(total)[0] = Header  OBVIOUS
  <2>3. F(total)[1] = total[0] + QuestionSize(q)  BY <1>1
  <2> QED BY <1>1, <2>1, <2>2, <2>3
<1> DEFINE upTo == CHOOSE f : f = F(f)
<1>3. upTo = F(upTo)
  <2> HIDE DEF F
  <2> QED BY <1>2, Zenon
<1>4. upTo[0] = Header /\ upTo[1] = upTo[0] + QuestionSize(q)
  <2> HIDE DEF upTo
  <2> QED BY <1>1, <1>3
<1>5. Size(<<q>>) = upTo[1]
  <2>1. Len(<<q>>) = 1  OBVIOUS
  <2> QED BY <2>1 DEF Size
<1> QED BY <1>4, <1>5

(* A query for one address is answered with the access point's, for a name *)
(* of any length that the receive buffer takes.                            *)
THEOREM AddressIsGiven ==
  ASSUME NEW query, NEW q, query.questions = <<q>>, q.type = "A", ~query.masked,
         q.name \in 0 .. RxMax - Header - 5
  PROVE  parse_dns_request(query).answers = <<"ap">>
<1>1. Size(query.questions) = q.name + 17
  BY OneQuestion DEF Header, QuestionSize, RxMax
<1>2. Len(query.questions) = 1 /\ query.questions[1] = q
      /\ DOMAIN query.questions = {1}
  OBVIOUS
<1>3. Fits(Size(query.questions))
      /\ Fits(Len(query.questions) * Answer + Size(query.questions))
  BY <1>1, <1>2 DEF Fits, DNS_MAX_LEN, Answer, RxMax, Header
<1>4. \A k \in DOMAIN query.questions : parse_dns_name(query.questions[1])
  BY <1>2 DEF parse_dns_name, NameMax, RxMax, Header
<1>5. parse_dns_request(query).answers = AnswerRecords(query.questions)
  BY <1>3, <1>4 DEF parse_dns_request
<1>6. AnswerRecords(query.questions) = [k \in {1} |-> "ap"]
  BY <1>2 DEF AnswerRecords
<1>7. [k \in {1} |-> "ap"] = <<"ap">>
  OBVIOUS
<1> QED BY <1>5, <1>6, <1>7

(* However many questions a query asks, no record gives an address to a    *)
(* name that was asked for another type.                                   *)
LEMMA NoWrongAddress ==
  ASSUME NEW query, NEW k \in DOMAIN parse_dns_request(query).answers,
         parse_dns_request(query).answers[k] = "ap"
  PROVE  query.questions[k].type = "A"
<1>1. parse_dns_request(query).answers = AnswerRecords(query.questions)
  <2>1. NoReply.answers = <<>> /\ DOMAIN <<>> = {}  BY DEF NoReply
  <2> QED BY <2>1 DEF parse_dns_request
<1>2. k \in DOMAIN query.questions
  BY <1>1 DEF AnswerRecords
<1>3. k = 1 /\ query.questions[1].type = "A"
  BY <1>1, <1>2 DEF AnswerRecords
<1> QED BY <1>3

LEMMA QueriesServed == ASSUME NEW query \in Queries PROVE Served(query)
<1>1. ASSUME Len(query.questions) = 1, query.questions[1].type = "A", ~query.masked
      PROVE  parse_dns_request(query).answers = <<"ap">>
  <2> DEFINE short == Questions({2, 8})
             long == Questions({RxMax - Header - 5})
  <2>1. query.questions \in {<<q>> : q \in short \cup long} \cup (short \X short)
    BY DEF Queries
  <2>2. query.questions \notin short \X short
    BY <1>1
  <2>3. PICK q \in short \cup long : query.questions = <<q>>
    BY <2>1, <2>2
  <2>4. q.name \in 0 .. RxMax - Header - 5 /\ q.type = "A"
    BY <1>1, <2>3 DEF Questions, RxMax, Header
  <2> QED BY <1>1, <2>3, <2>4, AddressIsGiven
<1> QED BY <1>1, NoWrongAddress DEF Served

(* The form is found: whatever the DNS task has been through, the query it *)
(* takes next is answered with the access point's address if it asks for   *)
(* one, and never with an address that was not asked for.                  *)
THEOREM FormIsFound == Spec => []DnsAnswers
<1>1. DnsAnswers
  BY QueriesServed DEF DnsAnswers
<1> QED BY <1>1, PTL

=============================================================================
