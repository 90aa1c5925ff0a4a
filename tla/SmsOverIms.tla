----------------------------- MODULE SmsOverIms -----------------------------
(***************************************************************************)
(* The SMS service (ims/sms.py) between Android and the SIP socket, and    *)
(* the webhook of the PSTN bridge (ims/sms_bridge.py).  Whoever wires the  *)
(* service routes the socket's messages to its handler and the messages of *)
(* the service to RadioHAL.deliver_incoming_sms.                           *)
(*                                                                         *)
(* A message given to the service, and one that comes from the network or  *)
(* the provider, carries in sms what its author wrote; the code only sees  *)
(* the octets.                                                             *)
(***************************************************************************)
EXTENDS SmsPdu

CONSTANTS
  Sender,        \* calls of send_sms, each made once
  OwnNumber,     \* this phone's number
  Scenes,        \* what goes on: see scene
  MaxParts,      \* bound: parts collected
  RefModulus     \* RP references (256)

\* A number fits its length octet; a name has letters alone.
Numbers == {n \in Seq(0 .. 9) : Len(n) < 256}
Names == {n \in Seq((65 .. 90) \cup (97 .. 122)) : n # <<>>}
Addresses == [number : Numbers, ton : (0 .. 6) \ {Alphanumeric}]
             \cup [number : Names, ton : {Alphanumeric}]

\* Characters of 16 bits: UTF-16 takes two units for another.
Texts == Seq(0 .. 65535)

\* messages: what is sent; raw: other PDUs Android may hand over; incoming:
\* what others send by SIP; posts: what the provider posts; long: texts of
\* several parts, at most one; starts: of the service.
SceneType ==
  LET Coding == {GSM_7BIT, UCS2} IN
  [messages : SUBSET [number : Numbers, dcs : Coding, text : Texts],
   raw : SUBSET Seq(Octet),
   incoming : SUBSET [from : Addresses, dcs : Coding, text : Texts, plain : BOOLEAN],
   posts : SUBSET [from : Numbers \cup Names, text : Texts],
   long : SUBSET [dcs : Coding, text : Texts], starts : Nat]

ASSUME RefAssumption == RefModulus \in 1 .. 256
ASSUME ScenesAssumption == OwnNumber \in Numbers /\ Scenes \subseteq SceneType

VARIABLES
  started,       \* _started and _sms_state["enabled"]
  client,        \* the current SIPClient, 0 if none
  port,          \* the holder of port 5060: a client, 0 for nobody, or Other
  rp_ref,
  mt_callback,   \* it is set
  task,          \* the calls of send_sms
  net,           \* SIP messages on their way; one that is not taken is lost
  accepted,      \* <<s, number>>: the network took the MESSAGE of s for number
  indications,   \* PDUs sent to Android in NEW_SMS, each of a message heard
  heard,         \* incoming messages answered 200 while mt_callback was set
  waiting,       \* posts that have not been answered 200
  parts,         \* the numbers of the parts of the long text received
  scene          \* what may happen in this behaviour

serviceVars == <<started, client, port, rp_ref, mt_callback>>
vars == <<serviceVars, task, net, accepted, indications, heard, waiting, parts, scene>>

Other == -1

\* A call of send_sms: client is 0 if it sends nothing.
Idle == [at |-> "idle", sms |-> {}, client |-> 0, code |-> -1]
TaskType == [at : {"idle", "waiting", "answered", "done"},
             sms : {{}} \cup {{m} : m \in scene.messages},
             client : 0 .. scene.starts, code : -1 .. 1]

Init ==
  /\ started = FALSE /\ client = 0 /\ port \in {0, Other} /\ rp_ref = 0
  /\ mt_callback = FALSE
  /\ task = [s \in Sender |-> Idle]
  /\ net = {} /\ accepted = {} /\ indications = {} /\ heard = {}
  /\ scene \in Scenes /\ waiting = scene.posts /\ parts = <<>>

-----------------------------------------------------------------------------
(* The service's life. *)

\* start; SIPClient.start raises if the port is taken.
start ==
  /\ ~started /\ client < scene.starts
  /\ client' = client + 1
  /\ started' = (port = 0)
  /\ port' = IF port = 0 THEN client' ELSE port
  /\ UNCHANGED <<rp_ref, mt_callback, task, net, accepted, indications, heard,
                 waiting, parts, scene>>

stop ==
  /\ client > 0
  /\ port' = IF port = client THEN 0 ELSE port
  /\ started' = FALSE
  /\ UNCHANGED <<client, rp_ref, mt_callback, task, net, accepted, indications,
                 heard, waiting, parts, scene>>

\* The registration's or the call manager's client binds or closes the port.
other_client ==
  /\ port \in {0, Other} /\ port' = IF port = 0 THEN Other ELSE 0
  /\ UNCHANGED <<started, client, rp_ref, mt_callback, task, net, accepted,
                 indications, heard, waiting, parts, scene>>

set_mt_callback ==
  /\ ~mt_callback /\ mt_callback' = TRUE
  /\ UNCHANGED <<started, client, port, rp_ref, task, net, accepted,
                 indications, heard, waiting, parts, scene>>

-----------------------------------------------------------------------------
(* Mobile originated. *)

\* What _send_sip_message sends for a PDU, with the number of the URI; nothing
\* if it raises.
Outgoing(pdu) ==
  {[number |-> submit.address.number, body |-> body] :
     submit \in UNION {submit_from_bytes(t) : t \in parse_pdu_from_ril(pdu)},
     body \in UNION {rp_to_bytes(wrap(RP_DATA_MO, t, rp_ref)) :
                       t \in parse_pdu_from_ril(pdu)}}

_next_rp_ref == (rp_ref + 1) % RefModulus

End(s, code) == task' = [task EXCEPT ![s].at = "done", ![s].code = code]

\* RadioHAL.send_sms with the PDU of message sms, a set of at most one.
send_sms(s, pdu, sms) ==
  /\ task[s].at = "idle"
  /\ rp_ref' = IF started /\ UNION {submit_from_bytes(t) : t \in parse_pdu_from_ril(pdu)} # {}
               THEN _next_rp_ref ELSE rp_ref
  /\ IF ~started THEN End(s, 0) /\ UNCHANGED net
     ELSE IF Outgoing(pdu) = {} THEN End(s, 1) /\ UNCHANGED net
     ELSE /\ task' = [task EXCEPT ![s] =
                        [@ EXCEPT !.at = "waiting", !.sms = sms, !.client = client]]
          /\ net' = net \cup {[kind |-> "MESSAGE", from |-> s, number |-> m.number,
                               body |-> m.body] : m \in Outgoing(pdu)}
  /\ UNCHANGED <<started, client, port, mt_callback, accepted, indications,
                 heard, waiting, parts, scene>>

\* The PDU of a message; Android's ends of a message agree with this codec.
PduOf(m) ==
  {build_pdu_for_ril(t, <<>>) :
     t \in submit_to_bytes(submit_create(m.number, m.text, m.dcs, 0))}

android_sends(s) ==
  \/ \E m \in scene.messages : \E pdu \in PduOf(m) : send_sms(s, pdu, {m})
  \/ \E pdu \in scene.raw : send_sms(s, pdu, {})

\* POST /sms/send: 503 if the service does not run, GSM text always.
send_sms_api(s) ==
  /\ started
  /\ \E m \in scene.messages : /\ m.dcs = GSM_7BIT
                         /\ \E pdu \in PduOf(m) : send_sms(s, pdu, {m})

\* Mutant: a response goes to any request of the client.
MatchedAny(r, s) == task[s].client = port
\* SIPClient.resolve_response: by Call-ID, at the client whose socket is open.
Matched(r, s) == r.to = s /\ task[s].client = port

response(r) ==
  /\ r \in net /\ r.kind = "response"
  /\ \E s \in Sender :
       /\ task[s].at = "waiting" /\ Matched(r, s)
       /\ task' = [task EXCEPT ![s].at = "answered",
                     ![s].code = IF r.status \in {200, 202} THEN 0 ELSE 1]
  /\ UNCHANGED <<serviceVars, net, accepted, indications, heard, waiting, parts, scene>>

\* send_sms goes on with the response.
resume(s) ==
  /\ task[s].at = "answered" /\ End(s, task[s].code)
  /\ UNCHANGED <<serviceVars, net, accepted, indications, heard, waiting, parts, scene>>

\* Mutant: only the current client's requests end.
timeout_Current(s) ==
  /\ task[s].at = "waiting" /\ task[s].client = client /\ End(s, 1)
  /\ UNCHANGED <<serviceVars, net, accepted, indications, heard, waiting, parts, scene>>
\* 32 seconds without an answer.
timeout(s) ==
  /\ task[s].at = "waiting" /\ End(s, 1)
  /\ UNCHANGED <<serviceVars, net, accepted, indications, heard, waiting, parts, scene>>

-----------------------------------------------------------------------------
(* The network: it accepts or rejects a MESSAGE, sends one for this phone  *)
(* on as a deliver TPDU, as often as it likes, and sends those of others.  *)

Request(sms, plain, body) ==
  [kind |-> "request", sms |-> sms, plain |-> plain, body |-> body]

DeliverBody(m) ==
  UNION {rp_to_bytes(wrap(RP_DATA_MT, t, 0)) : t \in deliver_to_bytes(m)}

Relayed(q) ==
  {Request([from |-> International(OwnNumber), text |-> m.text], FALSE, body) :
     m \in task[q.from].sms,
     body \in UNION {DeliverBody([deliver_create(International(OwnNumber), t.text, t.dcs)
                                    EXCEPT !.data = t.data]) :
                       t \in UNION {submit_from_bytes(rp.tpdu) : rp \in rp_from_bytes(q.body)}}}

network_accepts(q) ==
  /\ q \in net /\ q.kind = "MESSAGE"
  /\ \E status \in {200, 202} :
       net' = net \cup {[kind |-> "response", to |-> q.from, status |-> status]}
                  \cup IF q.number = OwnNumber THEN Relayed(q) ELSE {}
  /\ accepted' = accepted \cup {<<q.from, q.number>>}
  /\ UNCHANGED <<serviceVars, task, indications, heard, waiting, parts, scene>>

network_rejects(q) ==
  /\ q \in net /\ q.kind = "MESSAGE"
  /\ net' = (net \ {q}) \cup {[kind |-> "response", to |-> q.from, status |-> 403]}
  /\ UNCHANGED <<serviceVars, task, accepted, indications, heard, waiting, parts, scene>>

others_send(m) ==
  /\ net' = net \cup {Request([from |-> m.from, text |-> m.text], m.plain, body) :
                        body \in IF m.plain THEN {<<>>}
                                 ELSE DeliverBody(deliver_create(m.from, m.text, m.dcs))}
  /\ UNCHANGED <<serviceVars, task, accepted, indications, heard, waiting, parts, scene>>

-----------------------------------------------------------------------------
(* Mobile terminated. *)

\* RadioHAL.deliver_incoming_sms: the PDU; none if the coding raises.
deliver_incoming_sms(from, text) ==
  {build_pdu_for_ril(t, <<>>) :
     t \in deliver_to_bytes(deliver_create(International(from), text, GSM_7BIT))}

\* SIPMessage.parse takes a datagram for UTF-8 and encodes it again.  A lead octet
\* asks for others, the first in a range of its own; what lacks one of them, or
\* is a continuation of nothing, becomes U+FFFD, of three octets.
Trailing(b) ==
  CASE b \in 194 .. 223 -> 1 [] b \in 224 .. 239 -> 2 [] b \in 240 .. 244 -> 3 [] OTHER -> 0
Continues(b, j) ==
  IF j > 1 THEN 128 .. 191
  ELSE CASE b = 224 -> 160 .. 191 [] b = 237 -> 128 .. 159 [] b = 240 -> 144 .. 191
         [] b = 244 -> 128 .. 143 [] OTHER -> 128 .. 191
\* Octets after octet i that belong to it.
Extended(s, i) ==
  CHOOSE n \in 0 .. Trailing(s[i]) :
    /\ \A j \in 1 .. n : i + j \in DOMAIN s /\ s[i + j] \in Continues(s[i], j)
    /\ n < Trailing(s[i]) => ~(i + n + 1 \in DOMAIN s /\ s[i + n + 1] \in Continues(s[i], n + 1))
Belongs(s, i) == \E j \in 1 .. 3 : i - j \in DOMAIN s /\ Extended(s, i - j) >= j
Utf8(s) ==
  FlattenSeq([i \in DOMAIN s |->
    CASE s[i] < 128 -> <<s[i]>>
      [] Belongs(s, i) -> <<>>
      [] Trailing(s[i]) # 0 /\ Extended(s, i) = Trailing(s[i]) -> SubSeq(s, i, i + Extended(s, i))
      [] OTHER -> <<239, 191, 189>>])

\* Number and text in the octets of an RP-DATA message; none if they raise.
RpText(body) ==
  {[number |-> d.address.number, text |-> d.text] :
     d \in UNION {deliver_from_bytes(rp.tpdu) :
                    rp \in {x \in rp_from_bytes(body) : x.type \in {RP_DATA_MO, RP_DATA_MT}}}}

\* Number and text that a request gives to the callback.
Read(q) ==
  IF q.plain
  THEN {r \in {[number |-> q.sms.from.number, text |-> q.sms.text]} : r.text # <<>>}
  ELSE RpText(Utf8(q.body))

\* The message as it is heard, and its indications.
Message(q) == [by |-> IF q.plain THEN "plain" ELSE "rp", sms |-> q.sms]
For(pdus, h) == {[pdu |-> pdu, of |-> h] : pdu \in pdus}

\* _handle_incoming_sip and _handle_sip_message: 200 OK, then the message.
\* What the rest raises is logged.
_handle_sip_message(q) ==
  /\ q \in net /\ q.kind = "request" /\ port = client /\ client > 0
  /\ IF mt_callback
     THEN /\ heard' = heard \cup {Message(q)}
          /\ indications' = indications
               \cup For(UNION {deliver_incoming_sms(r.number, r.text) : r \in Read(q)},
                        Message(q))
     ELSE UNCHANGED <<heard, indications>>
  /\ UNCHANGED <<serviceVars, task, net, accepted, waiting, parts, scene>>

\* Without a sender or a text a post is answered and dropped.
Forwarded(p) == p.from # <<>> /\ p.text # <<>>

\* deliver_mt_sms: what the callback, if set, gives to Android.
deliver_mt_sms(p) ==
  IF mt_callback /\ Forwarded(p) THEN deliver_incoming_sms(p.from, p.text) ELSE {}
Post(p) == [by |-> "post", sms |-> [from |-> International(p.from), text |-> p.text]]

\* Mutant: the webhook answers 200 whatever the callback raises.
Answerable_Always(p) == TRUE
\* The callback does not raise.
Answerable(p) == mt_callback /\ Forwarded(p) => deliver_mt_sms(p) # {}

\* 500 if the callback raises, and the provider posts again; as it does when
\* the 200 is lost.
_webhook_handler(p) ==
  /\ p \in waiting /\ Answerable(p)
  /\ waiting' \in {waiting, waiting \ {p}}
  /\ indications' = indications \cup For(deliver_mt_sms(p), Post(p))
  /\ heard' = IF mt_callback THEN heard \cup {Post(p)} ELSE heard
  /\ UNCHANGED <<serviceVars, task, net, accepted, parts, scene>>

-----------------------------------------------------------------------------
(* Messages of several parts: split by the sender; they come in any order, *)
(* again or never.                                                         *)

LongParts ==
  FlattenSeq(SetToSeq({split_multipart(OwnNumber, l.text, l.dcs, 0, 0) : l \in scene.long}))

part_received(i) ==
  /\ Len(parts) < MaxParts /\ parts' = Append(parts, i)
  /\ UNCHANGED <<serviceVars, task, net, accepted, indications, heard, waiting, scene>>

\* Total and number of a part are read from its header, if it has one.
Concat(m) ==
  IF "udh" \in m.flags
  THEN CHOOSE c \in decode_udh_concat(Slice(m.data, 0, 1 + At(m.data, 0))) : TRUE
  ELSE <<0, 1, 1>>

Reassembled ==
  LET all == LongParts IN
  reassemble_multipart([k \in DOMAIN parts |->
    LET m == all[parts[k]] IN <<Concat(m)[3], Concat(m)[2], m.text>>])

-----------------------------------------------------------------------------
Next ==
  \/ start \/ stop \/ other_client \/ set_mt_callback
  \/ \E s \in Sender : android_sends(s) \/ send_sms_api(s) \/ resume(s) \/ timeout(s)
  \/ \E m \in net : response(m) \/ network_accepts(m) \/ network_rejects(m)
                    \/ _handle_sip_message(m)
  \/ \E m \in scene.incoming : others_send(m)
  \/ \E p \in scene.posts : _webhook_handler(p)
  \/ \E i \in DOMAIN LongParts : part_received(i)

Spec == Init /\ [][Next]_vars

\* The event loop runs what can go on, and timers fire; nothing is assumed of
\* the network, the provider or the callers.
FairSpec == Spec /\ \A s \in Sender : WF_vars(resume(s)) /\ WF_vars(timeout(s))

-----------------------------------------------------------------------------
(* Properties. *)

\* Type invariant of the service's state.
TypeOK ==
  /\ started \in BOOLEAN /\ mt_callback \in BOOLEAN
  /\ client \in 0 .. scene.starts /\ port \in Other .. scene.starts
  /\ rp_ref \in 0 .. RefModulus - 1
  /\ task \in [Sender -> TaskType]
  /\ accepted \subseteq Sender \X Seq(0 .. 127)
  /\ \A i \in indications : i.pdu \in Seq(Octet) /\ i.of \in heard
  /\ waiting \subseteq scene.posts
  /\ scene \in Scenes

\* A text as the GSM alphabet can show it.
AsShown(text) ==
  [i \in DOMAIN text |-> IF text[i] \in (0 .. 127) \ {Escape} THEN text[i]
                         ELSE QuestionMark]
AsCoded(dcs, text) == IF dcs = UCS2 THEN text ELSE AsShown(text)
ToShow(sms) == [number |-> sms.from.number, text |-> AsShown(sms.text)]
\* What Android shows for a PDU.
ShownOf(pdu) ==
  {[number |-> d.address.number, text |-> d.text] :
     d \in UNION {deliver_from_bytes(t) : t \in parse_pdu_from_ril(pdu)}}

\* From the webhook, or a MESSAGE with plain text, to the RIL PDU: what Android
\* shows is what was written, under its number, up to characters outside the
\* alphabet.
TextArrives == \A i \in indications : i.of.by # "rp" => ShownOf(i.pdu) = {ToShow(i.of.sms)}

\* A message answered with 200 was given to Android as it was written.
Given(h) == \E i \in indications : i.of = h /\ ShownOf(i.pdu) = {ToShow(h.sms)}

\* So is every post that names a sender and has a text, whatever the callback
\* raises before it is posted again; and a MESSAGE with plain text, unless a sender
\* that is a name, or more than 255 characters, make deliver_incoming_sms raise
\* after the 200 OK.  SIPMessage.parse changes RP-DATA: see RpDataIsGiven.
AnsweredIsGiven ==
  \A h \in heard :
    /\ h.by # "rp" /\ h.sms.text # <<>>
    /\ h.by = "post" => h.sms.from.number # <<>>
    /\ h.by = "plain" => h.sms.from.ton # Alphanumeric /\ Len(h.sms.text) < 256
    => Given(h)

\* From the RIL PDU over the submit TPDU to RP-DATA: number and text that the network
\* reads in a MESSAGE are those its call of send_sms was given, whatever calls
\* came before and wherever the service was stopped and started.
CarriedIsWritten ==
  \A q \in net : q.kind = "MESSAGE" => \A m \in task[q.from].sms :
    /\ q.number = m.number
    /\ {[number |-> t.address.number, text |-> t.text] :
          t \in UNION {submit_from_bytes(rp.tpdu) : rp \in rp_from_bytes(q.body)}}
         = {[number |-> m.number, text |-> AsCoded(m.dcs, m.text)]}

\* send_sms of a running service reports success only if the network took that
\* very message for the number it was written to, whatever responses of other
\* calls and earlier clients arrive.
SuccessIsAccepted ==
  \A s \in Sender :
    task[s].at = "done" /\ task[s].code = 0 /\ task[s].client # 0
    => \A m \in task[s].sms : <<s, m.number>> \in accepted

\* The text comes out of reassemble_multipart exactly when every part has come
\* once, in whatever order, and the parts fit into 140 octets of user data.
Complete == Len(parts) = Len(LongParts) /\ ToSet(parts) = DOMAIN LongParts
ReassembledIsWhole ==
  /\ parts # <<>> => Reassembled = IF Complete THEN {l.text : l \in scene.long} ELSE {}
  /\ \A m \in ToSet(LongParts) : Len(EncodedData(m)) <= 140 /\ submit_to_bytes(m) # {}

\* Every send_sms returns, also if the service stopped while it waited.
SendsEnd == \A s \in Sender : task[s].at = "waiting" ~> task[s].at = "done"

-----------------------------------------------------------------------------
(* What the repository says of the program; this fails. *)

\* Handles both MO-SMS (sending) and MT-SMS (receiving) using SIP MESSAGE with
\* RP-DATA payloads.
RpDataIsGiven ==
  \A h \in heard :
    /\ h.by = "rp" /\ h.sms.text # <<>> /\ Len(h.sms.text) < 256
    /\ h.sms.from.ton # Alphanumeric
    => Given(h)
=============================================================================
