------------------------------ MODULE DnsReply ------------------------------
(***************************************************************************)
(* What dns_server.c makes of a query: its lengths, the flags it looks at, *)
(* and the answer records.  A question is its type and the length of its   *)
(* name; the bytes of a name are left out, for the only rule that          *)
(* captive_portal.c configures answers every name.                         *)
(***************************************************************************)
EXTENDS Naturals, Sequences

DNS_MAX_LEN == 256     \* the reply's buffer
RxMax == 127           \* what recvfrom may leave in rx_buffer
NameMax == 128         \* name[] of parse_dns_request
Header == 12           \* sizeof(dns_header_t)
Answer == 16           \* sizeof(dns_answer_t)
NoReply == [len |-> 0, answers |-> <<>>]

Types == {"A", "AAAA"}

(* The name with its length bytes and the final zero, the type, the class. *)
QuestionSize(question) == question.name + 1 + 4
Size(questions) ==
  LET upTo[k \in 0 .. Len(questions)] ==
        IF k = 0 THEN Header ELSE upTo[k - 1] + QuestionSize(questions[k])
  IN  upTo[Len(questions)]

(* parse_dns_name gives up on a name that its buffer does not hold.        *)
parse_dns_name(question) == question.name <= NameMax

(* Slip: the reply has to fit the buffer of the query.                     *)
FitsRx(reply_len) == reply_len <= RxMax

Fits(reply_len) == reply_len <= DNS_MAX_LEN

(* The loop counts the questions but moves on neither in them nor in the   *)
(* records: the first question is answered again and again, in the first   *)
(* record.  The other records stay zero.                                   *)
AnswerRecords(questions) ==
  [k \in DOMAIN questions |->
     IF k = 1 /\ questions[1].type = "A" THEN "ap" ELSE "zero"]

(* A query tells its questions and whether it sets a flag that OPCODE_MASK *)
(* covers.  The mask meets the two bytes unswapped: what it covers are not *)
(* the bits of the opcode but AD, CD and the first of RCODE.               *)
parse_dns_request(query) ==
  LET reply_len == Len(query.questions) * Answer + Size(query.questions)
  IN  IF /\ ~query.masked
         /\ Fits(Size(query.questions)) /\ Fits(reply_len)
         /\ \A k \in DOMAIN query.questions : parse_dns_name(query.questions[1])
      THEN [len |-> reply_len, answers |-> AnswerRecords(query.questions)]
      ELSE NoReply

(* Bound: one question with a name of two lengths or the longest that the  *)
(* receive buffer takes, or two questions with short names.                *)
Questions(lengths) == [type : Types, name : lengths]
Queries ==
  LET short == Questions({2, 8})
      long == Questions({RxMax - Header - 5})
  IN  [questions : {<<q>> : q \in short \cup long} \cup (short \X short),
       masked : BOOLEAN]

(* A query is served: one for one address is answered with the access      *)
(* point's, unless it sets a masked flag, and no record gives an address to*)
(* a name that was asked for another type in the same place.               *)
Served(query) ==
  LET reply == parse_dns_request(query)
  IN  /\ Len(query.questions) = 1 /\ query.questions[1].type = "A" /\ ~query.masked
           => reply.answers = <<"ap">>
      /\ \A k \in DOMAIN reply.answers :
           reply.answers[k] = "ap" => query.questions[k].type = "A"
=============================================================================
