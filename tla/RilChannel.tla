----------------------------- MODULE RilChannel -----------------------------
(***************************************************************************)
(* The way of a RIL request: Android's RILJ, a thread of the C shim, a TCP *)
(* connection, the RIL bridge, RadioHAL, and back; and of indications.     *)
(*                                                                         *)
(* Every RILJ client has a thread in the shim with two connections to the  *)
(* bridge: one for its requests, one whose messages a second thread        *)
(* forwards.  The bridge serves a connection one request at a time, and    *)
(* writes indications to all of them.  The bridge may be killed and        *)
(* started again, and a request may end in an exception, which closes its  *)
(* connection.                                                             *)
(*                                                                         *)
(* The contents of parcels and JSON is left out: a request is its token    *)
(* and kind, a message from the bridge says what it answers, if anything.  *)
(* What comes on the second connection is forwarded as it comes; nothing   *)
(* here depends on when, and only whether it is there is kept.             *)
(***************************************************************************)
EXTENDS RadioPower, Sequences

CONSTANTS
  Client,      \* RILJ clients, each with its shim thread
  MaxConn,     \* bound on connections to the bridge, over the whole run
  Programs,    \* what a client may ask for: sequences of kinds of requests
  MaxRequests, \* bound on their length
  Retries,     \* bridge_request reconnects so often: 4
  Attempts,    \* client_thread tries to connect so often: 30
  Losses       \* bound on kills of the bridge and requests that raise

Conn == 1 .. MaxConn
Kinds == {"on", "off", "sim", "call", "other"}
Token == 1 .. MaxRequests

\* "call" stands for the requests on calls: done without an await, but their
\* handler may raise.  "sim" asks the eUICC.  "other" is unknown to the bridge.
ASSUME ChannelAssumption ==
  /\ Caller = Conn
  /\ Programs \subseteq Seq(Kinds) /\ MaxRequests \in Nat
  /\ \A p \in Programs : Len(p) <= MaxRequests
  /\ MaxConn \in Nat /\ Losses \in Nat
  /\ Retries \in Nat \ {0} /\ Attempts \in Nat \ {0}

VARIABLES
  shim,        \* what the thread of each client does next
  fd,          \* its connection for requests, 0 for none
  listening,   \* clients with a thread that forwards indications
  tries,       \* failed attempts of the loop it is in
  program,     \* the requests RILJ makes on it
  token,       \* the number of the one it serves
  answers,     \* what it wrote to the client, one per request
  opened,      \* connections made so far
  server,      \* what the bridge does with each connection
  up, down,    \* the messages on a connection, to and from the bridge
  shut,        \* connections the shim closed
  serving,     \* the request the bridge serves on a connection
  alive,       \* the bridge runs
  losses,      \* kills and exceptions so far
  ran, cut     \* history: runs of each request; requests lost with a connection

shimVars == <<shim, fd, listening, tries, program, token, answers>>
connVars == <<opened, server, up, down, shut, serving>>
vars == <<radioVars, shimVars, connVars, alive, losses, ran, cut>>

Message == [m: {"ind", "data", "error"}, token: {0} \cup Token]
Answer == [m: {"ind", "data", "error", "failure"}, token: {0} \cup Token]
Request == [k: Client, token: Token, kind: Kinds]
Indication == [m |-> "ind", token |-> 0]

TypeOK ==
  /\ RadioTypeOK
  /\ shim \in [Client -> {"connect", "second", "idle", "send", "recv",
                          "backoff", "gone"}]
  /\ fd \in [Client -> {0} \cup Conn] /\ listening \subseteq Client
  /\ tries \in [Client -> 0 .. Retries + Attempts]
  /\ token \in [Client -> {0} \cup Token]
  /\ program \in [Client -> Programs]
  /\ answers \in [Client -> Seq(Answer)]
  /\ \A k \in Client :
       Len(answers[k]) =
         token[k] - (IF shim[k] \in {"send", "recv", "backoff"} THEN 1 ELSE 0)
  /\ opened \in 0 .. MaxConn
  /\ server \in [Conn -> {"unused", "backlog", "read", "eUICC", "dead"}]
  /\ up \in [Conn -> Seq(Request)] /\ down \in [Conn -> Seq(Message)]
  /\ shut \subseteq Conn
  /\ serving \in [Conn -> {<<>>} \cup {<<r>> : r \in Request}]
  /\ alive \in BOOLEAN /\ losses \in 0 .. Losses
  /\ ran \in [Client -> [Token -> Nat]] /\ cut \subseteq Client \X Token

Init ==
  /\ RadioInit
  /\ shim = [k \in Client |-> "connect"]
  /\ fd = [k \in Client |-> 0] /\ listening = {}
  /\ tries = [k \in Client |-> 0] /\ token = [k \in Client |-> 0]
  /\ program \in [Client -> Programs]
  /\ answers = [k \in Client |-> <<>>]
  /\ opened = 0 /\ server = [n \in Conn |-> "unused"]
  /\ up = [n \in Conn |-> <<>>] /\ down = [n \in Conn |-> <<>>]
  /\ shut = {} /\ serving = [n \in Conn |-> <<>>]
  /\ alive = FALSE /\ losses = 0
  /\ ran = [k \in Client |-> [t \in Token |-> 0]] /\ cut = {}

-----------------------------------------------------------------------------
(* The bridge: indications. *)

Served == {n \in Conn : server[n] \in {"read", "eUICC"}}     \* _clients

\* Also on a connection the shim has closed: there it stays unread.
Written(base, n, msg) == [base EXCEPT ![n] = Append(@, msg)]
\* Mutant: a response is written twice.
Reply_Twice(base, r, n, m) ==
  Written(Written(base, n, [m |-> m, token |-> r.token]), n,
          [m |-> m, token |-> r.token])
Reply(base, r, n, m) == Written(base, n, [m |-> m, token |-> r.token])

_broadcast_unsolicited ==
  [n \in Conn |-> IF n \in Served THEN Append(down[n], Indication) ELSE down[n]]

\* Each phase of the simulated registration sends one indication; the last one
\* is the network time.
registration(t) ==
  /\ alive /\ _simulate_registration(t)
  /\ down' = _broadcast_unsolicited
  /\ UNCHANGED <<shimVars, opened, server, up, shut, serving, alive, losses,
                 ran, cut>>

-----------------------------------------------------------------------------
(* The bridge: its life. *)

start ==
  /\ ~alive /\ alive' = TRUE
  /\ power_on(Boot)
  /\ UNCHANGED <<shimVars, connVars, losses, ran, cut>>

boot_profile ==
  /\ alive
  /\ \E present \in BOOLEAN :
       /\ power_on_profile(Boot, present)
       /\ down' = IF present THEN _broadcast_unsolicited ELSE down
  /\ UNCHANGED <<shimVars, opened, server, up, shut, serving, alive, losses,
                 ran, cut>>

\* Requests on connection n that will not be answered once it is closed: sent
\* and not read, or being served.
Outstanding(n) ==
  {<<up[n][i].k, up[n][i].token>> : i \in DOMAIN up[n]}
    \cup {<<serving[n][i].k, serving[n][i].token>> : i \in DOMAIN serving[n]}

crash ==
  /\ alive /\ losses < Losses
  /\ alive' = FALSE /\ losses' = losses + 1
  /\ RadioReset
  /\ server' = [n \in Conn |-> IF server[n] = "unused" THEN "unused" ELSE "dead"]
  /\ cut' = cut \cup UNION {Outstanding(n) : n \in Conn}
  /\ serving' = [n \in Conn |-> <<>>] /\ up' = [n \in Conn |-> <<>>]
  /\ listening' = {}           \* unsol_forward_thread ends, for good
  /\ UNCHANGED <<shim, fd, tries, program, token, answers, opened, down, shut,
                 ran>>

-----------------------------------------------------------------------------
(* The bridge: _handle_client. *)

\* A new client is told the state of the radio.
greet(n) ==
  /\ server[n] = "backlog" /\ server' = [server EXCEPT ![n] = "read"]
  /\ down' = Written(down, n, Indication)

_handle_client(n) ==
  /\ alive /\ greet(n)
  /\ UNCHANGED <<radioVars, shimVars, opened, up, shut, serving, alive,
                 losses, ran, cut>>

\* Mutant: the next request is read only once everything written was read.
NextRequest_Drained(n) == server[n] = "read" /\ up[n] # <<>> /\ down[n] = <<>>
NextRequest(n) == server[n] = "read" /\ up[n] # <<>>

\* The request is read and runs up to its first await, or to its end.
_process_request(n) ==
  /\ alive /\ NextRequest(n)
  /\ up' = [up EXCEPT ![n] = Tail(@)]
  /\ LET r == Head(up[n]) IN
     /\ ran' = [ran EXCEPT ![r.k][r.token] = @ + 1]
     /\ \/ /\ r.kind \in {"on", "sim"}
           /\ IF r.kind = "on" THEN power_on(n) ELSE UNCHANGED radioVars
           /\ serving' = [serving EXCEPT ![n] = <<r>>]
           /\ server' = [server EXCEPT ![n] = "eUICC"]
           /\ UNCHANGED <<down, cut, losses>>
        \/ /\ r.kind = "off"
           /\ power_off
           /\ down' = Reply(down, r, n, "data")
           /\ UNCHANGED <<serving, server, cut, losses>>
        \/ /\ r.kind \in {"call", "other"}
           /\ down' = Reply(down, r, n, IF r.kind = "other" THEN "error" ELSE "data")
           /\ UNCHANGED <<radioVars, serving, server, cut, losses>>
        \/ /\ r.kind = "call"                  \* the handler raises
           /\ losses < Losses /\ losses' = losses + 1
           /\ server' = [server EXCEPT ![n] = "dead"]
           /\ cut' = cut \cup Outstanding(n)
           /\ UNCHANGED <<radioVars, down, serving>>
  /\ UNCHANGED <<shimVars, opened, shut, alive>>

eUICC_answers(n) ==
  /\ alive /\ server[n] = "eUICC"
  /\ LET r == serving[n][1] IN
     IF r.kind = "on"
     THEN \E present \in BOOLEAN :
            /\ power_on_profile(n, present)
            /\ down' = Reply(IF present THEN _broadcast_unsolicited ELSE down,
                             r, n, "data")
     ELSE down' = Reply(down, r, n, "data") /\ UNCHANGED radioVars
  /\ server' = [server EXCEPT ![n] = "read"]
  /\ serving' = [serving EXCEPT ![n] = <<>>]
  /\ UNCHANGED <<shimVars, opened, up, shut, alive, losses, ran, cut>>

\* The shim closed the connection and everything it sent was read.
end_of_stream(n) ==
  /\ alive /\ server[n] = "read" /\ up[n] = <<>> /\ n \in shut
  /\ server' = [server EXCEPT ![n] = "dead"]
  /\ UNCHANGED <<radioVars, shimVars, opened, up, down, shut, serving, alive,
                 losses, ran, cut>>

\* A socket that is closed with something unread, or written to afterwards, is
\* reset: soon a read or a drain raises here, whatever the reader still buffers.
Reset(n) == n \in shut /\ down[n] # <<>>

connection_lost(n) ==
  /\ alive /\ server[n] = "read" /\ Reset(n)
  /\ server' = [server EXCEPT ![n] = "dead"]
  /\ cut' = cut \cup Outstanding(n)
  /\ UNCHANGED <<radioVars, shimVars, opened, up, down, shut, serving, alive,
                 losses, ran>>

-----------------------------------------------------------------------------
(* The shim: bridge_connect and client_thread. *)

\* The kernel accepts the connection; the bridge sees it later.
bridge_connect(n) ==
  /\ alive /\ opened < MaxConn /\ n = opened + 1
  /\ opened' = n /\ server' = [server EXCEPT ![n] = "backlog"]

client_connect(k) ==
  /\ shim[k] = "connect"
  /\ \/ \E n \in Conn :
          /\ bridge_connect(n)
          /\ fd' = [fd EXCEPT ![k] = n]
          /\ shim' = [shim EXCEPT ![k] = "second"]
          /\ tries' = [tries EXCEPT ![k] = 0]
     \/ /\ ~alive
        /\ tries' = [tries EXCEPT ![k] = @ + 1]
        /\ shim' = [shim EXCEPT ![k] =
                      IF tries[k] + 1 < Attempts THEN "connect" ELSE "gone"]
        /\ UNCHANGED <<fd, opened, server>>
  /\ UNCHANGED <<radioVars, listening, program, token, answers, up, down, shut,
                 serving, alive, losses, ran, cut>>

\* The connection for indications is tried once.
client_second(k) ==
  /\ shim[k] = "second" /\ shim' = [shim EXCEPT ![k] = "idle"]
  /\ listening' = IF alive THEN listening \cup {k} ELSE listening
  /\ UNCHANGED <<radioVars, fd, tries, program, token, answers, connVars, alive,
                 losses, ran, cut>>

\* RILJ closes its socket between two requests.
client_leaves(k) ==
  /\ shim[k] = "idle" /\ shim' = [shim EXCEPT ![k] = "gone"]
  /\ shut' = shut \cup ({fd[k]} \ {0})
  /\ fd' = [fd EXCEPT ![k] = 0] /\ listening' = listening \ {k}
  /\ UNCHANGED <<radioVars, tries, program, token, answers, opened, server,
                 up, down, serving, alive, losses, ran, cut>>

-----------------------------------------------------------------------------
(* The shim: handle_request and bridge_request. *)

read_request(k) ==
  /\ shim[k] = "idle" /\ token[k] < Len(program[k])
  /\ token' = [token EXCEPT ![k] = @ + 1]
  /\ tries' = [tries EXCEPT ![k] = 0]
  /\ shim' = [shim EXCEPT ![k] = IF fd[k] # 0 THEN "send" ELSE "backoff"]
  /\ UNCHANGED <<radioVars, fd, listening, program, answers, connVars, alive,
                 losses, ran, cut>>

answer(k, m, t) ==
  /\ answers' = [answers EXCEPT ![k] = Append(@, [m |-> m, token |-> t])]
  /\ shim' = [shim EXCEPT ![k] = "idle"]

\* A write may fail on a connection the bridge has closed.
Closed(n) == server[n] = "dead"

\* A read fails on such a connection only: there is no timeout.  Mutant: there
\* is one.
ReadFails_TimesOut(n) == TRUE
ReadFails(n) == Closed(n)

\* The loop goes on with a pause, or gives up after the last attempt.
lost(k, failed) ==
  IF failed >= Retries
  THEN answer(k, "failure", 0)
  ELSE shim' = [shim EXCEPT ![k] = "backoff"] /\ UNCHANGED answers

bridge_send(k) ==
  /\ shim[k] = "send"
  /\ LET n == fd[k] IN
     \/ /\ shim' = [shim EXCEPT ![k] = "recv"]
        /\ IF Closed(n)                  \* written, never read
           THEN cut' = cut \cup {<<k, token[k]>>} /\ UNCHANGED up
           ELSE /\ up' = [up EXCEPT ![n] = Append(@,
                            [k |-> k, token |-> token[k], kind |-> program[k][token[k]]])]
                /\ UNCHANGED cut
        /\ UNCHANGED <<fd, answers, shut>>
     \/ /\ Closed(n)
        /\ shut' = shut \cup {n} /\ fd' = [fd EXCEPT ![k] = 0]
        /\ lost(k, tries[k])
        /\ UNCHANGED <<up, cut>>
  /\ UNCHANGED <<radioVars, listening, tries, program, token, opened, server, down,
                 serving, alive, losses, ran>>

\* The next message on the connection is the response.
bridge_recv(k) ==
  /\ shim[k] = "recv"
  /\ LET n == fd[k] IN
     \/ /\ down[n] # <<>>
        /\ down' = [down EXCEPT ![n] = Tail(@)]
        /\ answer(k, Head(down[n]).m, Head(down[n]).token)
        /\ UNCHANGED <<fd, shut>>
     \/ /\ ReadFails(n)
        /\ shut' = shut \cup {n} /\ fd' = [fd EXCEPT ![k] = 0]
        /\ lost(k, tries[k])
        /\ UNCHANGED down
  /\ UNCHANGED <<radioVars, listening, tries, program, token, opened, server,
                 up, serving, alive, losses, ran, cut>>

\* The end of a pause: reconnect, and send again if that works.
\* Mutant: attempts are not counted.
counted_Never(k) == UNCHANGED tries
counted(k) == tries' = [tries EXCEPT ![k] = @ + 1]

bridge_reconnect(k) ==
  /\ shim[k] = "backoff" /\ counted(k)
  /\ \/ \E n \in Conn :
          /\ bridge_connect(n)
          /\ fd' = [fd EXCEPT ![k] = n]
          /\ shim' = [shim EXCEPT ![k] = "send"]
          /\ UNCHANGED answers
     \/ /\ ~alive
        /\ lost(k, tries[k] + 1)
        /\ UNCHANGED <<fd, opened, server>>
  /\ UNCHANGED <<radioVars, listening, program, token, up, down, shut, serving,
                 alive, losses, ran, cut>>

-----------------------------------------------------------------------------
Bridge(n) ==
  \/ _handle_client(n) \/ _process_request(n) \/ eUICC_answers(n)
  \/ end_of_stream(n) \/ connection_lost(n)

Thread(k) ==
  \/ client_connect(k) \/ client_second(k)
  \/ bridge_send(k) \/ bridge_recv(k) \/ bridge_reconnect(k)

Next ==
  \/ start \/ boot_profile \/ crash
  \/ \E n \in Conn : Bridge(n)
  \/ \E t \in RegTask : registration(t)
  \/ \E k \in Client :
       Thread(k) \/ read_request(k) \/ client_leaves(k)

\* Threads are scheduled, the event loop runs what is ready, and the eUICC daemon
\* answers or its socket fails.  The bridge may stay down.
Fairness ==
  /\ \A n \in Conn : WF_vars(Bridge(n))
  /\ \A k \in Client : WF_vars(Thread(k))

Spec == Init /\ [][Next]_vars /\ Fairness
-----------------------------------------------------------------------------
(* Properties. *)

Success == {"ind", "data"}

\* What a client is given as answers goes forward only: no response is handed
\* out twice, however often the connection is lost and the request repeated,
\* none is overtaken by a later one, and none comes before its request.
AnswersInOrder ==
  \A k \in Client : LET a == answers[k] IN
    /\ \A i \in DOMAIN a : a[i].token <= i
    /\ \A i, j \in DOMAIN a : i < j /\ a[j].token # 0 => a[i].token < a[j].token

\* The requests of a client run in the order it made them, also those that
\* are repeated after a connection was lost: none runs, for the first time or
\* again, once a later one has.
RequestsRunInOrder ==
  [][\A k \in Client, t \in Token :
       ran'[k][t] # ran[k][t] => \A u \in Token : u > t => ran[k][u] = 0]_vars

\* The thread of a client answers every request: with what it reads, or with a
\* failure after its last attempt to reach the bridge.
RequestsAnswered ==
  \A k \in Client :
    shim[k] \in {"send", "recv", "backoff"} ~> shim[k] = "idle"

\* A request that was acknowledged runs, possibly long after: unless the
\* connection that carried it was lost in between, which nobody notices.  It is
\* lost by a kill, by a request that raises, and by the shim itself, which closes
\* it when RILJ goes, with indications it never read.
AcknowledgedRuns ==
  \A k \in Client, t \in Token :
    t \in DOMAIN answers[k] /\ answers[k][t].m \in Success
      ~> ran[k][t] > 0 \/ <<k, t>> \in cut
=============================================================================
