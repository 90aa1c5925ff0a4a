---------------------------- MODULE MCVolteCalls ----------------------------
(***************************************************************************)
(* TLC instances of VolteCalls.  The .cfg files choose the tasks and the   *)
(* Call-IDs; the sets below say what RIL clients and network may do.       *)
(***************************************************************************)
EXTENDS VolteCalls, TLC

\* RIL clients are alike and so are the handler tasks; Call-IDs are random.
CallSymmetry == Permutations(Mo) \cup Permutations(Ril) \cup Permutations(Handlers)

\* At most u requests of RIL clients out of o, p SIP requests out of m and n
\* calls initiated by the phone; a request starts while at most k others run.
Requests(o, m, u, p, n, k) ==
  [ops |-> o, msgs |-> m, user |-> u, peer |-> p, calls |-> n, overlap |-> k,
   forward |-> FALSE, repeat |-> FALSE, late |-> FALSE]

\* Long sequences of requests, each finished before the next one.
SerialScenes ==
  {Requests({"dial", "answer", "hangup", "clear", "switch", "conference",
             "separate"}, {"INVITE", "REINVITE", "BYE", "CANCEL"}, 5, 3, 1, 0)}

\* Requests and messages at any time: plain calls, our transfers, the far
\* end's transfers, unconditional forwarding, and the end of the service.
PlainScene ==
  [Requests({"dial", "answer", "hangup", "switch"},
            {"INVITE", "REINVITE", "BYE", "CANCEL"}, 3, 2, 1, 2)
     EXCEPT !.repeat = TRUE, !.late = TRUE]
TransferScene ==
  Requests({"dial", "switch", "ect", "attended"}, {"NOTIFY", "BYE"},
           4, 1, 2, 1)
ReferScene == Requests({"dial", "hangup", "stop"}, {"REFER", "BYE"}, 2, 2, 2, 1)
ForwardScene ==
  [Requests({"dial", "hangup"}, {"INVITE", "BYE"}, 2, 2, 2, 2)
     EXCEPT !.forward = TRUE]
StopScene ==
  Requests({"dial", "switch", "clear", "stop", "powerOff"}, {}, 4, 0, 1, 1)
OverlapScenes ==
  {PlainScene, TransferScene, ReferScene, ForwardScene, StopScene}

\* Two clients at one call, and a far end that may hang up.
SharedScenes == {Requests({"dial", "switch", "hangup"}, {"BYE"}, 3, 1, 1, 2)}

\* An incoming call whose INVITE may be repeated.
RepeatedScenes ==
  {[Requests({"answer"}, {"INVITE", "REINVITE"}, 1, 2, 0, 0)
      EXCEPT !.repeat = TRUE]}
=============================================================================
