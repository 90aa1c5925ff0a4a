-------------------------- MODULE RilChannel_proofs --------------------------
(***************************************************************************)
(* What RilChannel promises of power, of answers and of the order in which *)
(* requests run, for any clients and programs, any number of connections,  *)
(* retries and losses.                                                     *)
(*                                                                         *)
(* First the radio alone, then the channel: what follows one another on a  *)
(* connection is ordered by token, from what was answered over what was    *)
(* written, what is served and what is still to be read, to the request    *)
(* the client is at.                                                       *)
(***************************************************************************)
EXTENDS RilChannel, FiniteSetTheorems, TLAPS

-----------------------------------------------------------------------------
(* The radio. *)

\* Only the task that power_off cancels is unfinished.
CurrentKnown == ~orphaned => \A t \in RegTask : Unfinished(t) => t \in current

RadioInv == RadioTypeOK /\ CurrentKnown /\ OffIsIdle

\* A set of one task, or of none.
LEMMA OneTask ==
  ASSUME NEW t
  PROVE  Cardinality({t}) <= 1 /\ Cardinality({}) <= 1
BY FS_Singleton, FS_EmptySet

\* A radio that starts is off.
LEMMA RadioStarts ==
  /\ RadioInit => RadioInv
  /\ RadioReset => RadioInv'
<1>1. ASSUME RadioInit PROVE RadioInv
  <2>1. Cardinality(current) <= 1
    BY <1>1, OneTask, Zenon DEF RadioInit
  <2>2. orphaned \in BOOLEAN /\ operator \in BOOLEAN /\ data \in BOOLEAN
    BY <1>1, Zenon DEF RadioInit
  <2>3. /\ radio_state \in {"OFF", "ON"}
        /\ reg \in {"NOT_SEARCHING", "SEARCHING", "HOME"}
        /\ asking \subseteq Caller \cup {Boot} /\ current \subseteq RegTask
        /\ phase \in [RegTask -> {"done", "search", "attach", "connect"}]
    BY <1>1 DEF RadioInit
  <2>4. RadioTypeOK
    BY <2>1, <2>2, <2>3, Zenon DEF RadioTypeOK
  <2>5. ~data
    BY <1>1, Zenon DEF RadioInit
  <2>6. reg = "NOT_SEARCHING" /\ \A t \in RegTask : phase[t] = "done"
    BY <1>1 DEF RadioInit
  <2> QED
    BY <2>4, <2>5, <2>6, Zenon DEF RadioInv, CurrentKnown, OffIsIdle, Unfinished
<1>2. ASSUME RadioReset PROVE RadioInv'
  <2>1. Cardinality(current') <= 1
    BY <1>2, OneTask, Zenon DEF RadioReset
  <2>2. orphaned' \in BOOLEAN /\ operator' \in BOOLEAN /\ data' \in BOOLEAN
    BY <1>2, Zenon DEF RadioReset
  <2>3. /\ radio_state' \in {"OFF", "ON"}
        /\ reg' \in {"NOT_SEARCHING", "SEARCHING", "HOME"}
        /\ asking' \subseteq Caller \cup {Boot} /\ current' \subseteq RegTask
        /\ phase' \in [RegTask -> {"done", "search", "attach", "connect"}]
    BY <1>2 DEF RadioReset
  <2>4. RadioTypeOK'
    BY <2>1, <2>2, <2>3, Zenon DEF RadioTypeOK
  <2>5. ~data'
    BY <1>2, Zenon DEF RadioReset
  <2>6. reg' = "NOT_SEARCHING" /\ \A t \in RegTask : phase'[t] = "done"
    BY <1>2 DEF RadioReset
  <2> QED
    BY <2>4, <2>5, <2>6, Zenon DEF RadioInv, CurrentKnown, OffIsIdle, Unfinished
<1> QED
  BY <1>1, <1>2

\* power_on switches on; its task takes the place of the current one, or is one
\* that no power_off finds.
LEMMA PowerOnKept ==
  ASSUME RadioInv, NEW h \in Caller \cup {Boot}, power_on(h)
  PROVE  RadioInv'
BY DEF RadioInv, RadioTypeOK, CurrentKnown, OffIsIdle, Unfinished, power_on

LEMMA PowerOnProfileKept ==
  ASSUME RadioInv, NEW h \in Caller \cup {Boot}, NEW present \in BOOLEAN,
         power_on_profile(h, present)
  PROVE  RadioInv'
<1>1. CASE ~present
  BY <1>1 DEF RadioInv, RadioTypeOK, CurrentKnown, OffIsIdle, Unfinished, power_on_profile
<1>2. CASE present
  <2> DEFINE t == CHOOSE u \in RegTask \ current : ~Unfinished(u)
  <2>1. t \in RegTask
    BY <1>2 DEF power_on_profile, RoomForTask
  <2>2. /\ operator' = TRUE /\ phase' = [phase EXCEPT ![t] = "search"]
        /\ current' = {t} /\ asking' = asking \ {h}
        /\ UNCHANGED <<radio_state, reg, data>>
    BY <1>2 DEF power_on_profile
  <2>3. orphaned' = (orphaned \/ radio_state = "OFF" \/ \E u \in current : Unfinished(u))
    BY <1>2 DEF power_on_profile
  <2> HIDE DEF t
  <2>4. /\ orphaned' \in BOOLEAN
        /\ ~orphaned' => /\ ~orphaned /\ radio_state # "OFF"
                         /\ \A u \in current : ~Unfinished(u)
    BY <2>3, Zenon
  <2>5. RadioTypeOK'
    <3>1. current' \subseteq RegTask /\ Cardinality(current') <= 1
      BY <2>1, <2>2, OneTask
    <3> QED
      BY <2>1, <2>2, <2>4, <3>1 DEF RadioInv, RadioTypeOK
  <2>6. CurrentKnown'
    BY <2>1, <2>2, <2>4 DEF RadioInv, RadioTypeOK, CurrentKnown, Unfinished
  <2>7. OffIsIdle'
    BY <2>2, <2>4 DEF OffIsIdle
  <2> QED
    BY <2>5, <2>6, <2>7 DEF RadioInv
<1> QED
  BY <1>1, <1>2

\* power_off cancels the current task.
LEMMA PowerOffKept ==
  ASSUME RadioInv, power_off
  PROVE  RadioInv'
<1>1. /\ radio_state' = "OFF" /\ operator' = FALSE /\ reg' = "NOT_SEARCHING"
      /\ data' = FALSE /\ current' = {} /\ asking' = asking /\ orphaned' = orphaned
      /\ phase' = [t \in RegTask |-> IF t \in current THEN "done" ELSE phase[t]]
  BY DEF power_off
<1>2. RadioTypeOK'
  <2>1. Cardinality(current') <= 1
    BY <1>1, OneTask, Zenon
  <2>2. orphaned' \in BOOLEAN /\ operator' \in BOOLEAN /\ data' \in BOOLEAN
    BY <1>1, Zenon DEF RadioInv, RadioTypeOK
  <2>3. phase' \in [RegTask -> {"done", "search", "attach", "connect"}]
    BY <1>1 DEF RadioInv, RadioTypeOK
  <2> QED
    BY <1>1, <2>1, <2>2, <2>3 DEF RadioInv, RadioTypeOK
<1>3. ~orphaned' => \A t \in RegTask : phase'[t] = "done"
  BY <1>1 DEF RadioInv, CurrentKnown, Unfinished
<1> QED
  BY <1>1, <1>2, <1>3 DEF RadioInv, CurrentKnown, OffIsIdle, Unfinished

\* The registration goes on while the radio is on.
LEMMA SimulationKept ==
  ASSUME RadioInv, NEW t \in RegTask, _simulate_registration(t)
  PROVE  RadioInv'
<1>1. PICK next \in {"attach", "connect", "done"} :
        /\ phase' = [phase EXCEPT ![t] = next] /\ Unfinished(t)
        /\ reg' \in {reg, "SEARCHING", "HOME"}
        /\ UNCHANGED <<radio_state, operator, asking, current, orphaned>>
  BY DEF _simulate_registration, simulate_search, simulate_attach, simulate_connect,
         Unfinished
<1>2. data' \in BOOLEAN
  <2>1. data' = data \/ data' = TRUE
    BY DEF _simulate_registration, simulate_search, simulate_attach, simulate_connect
  <2>2. CASE data' = TRUE
    BY <2>2
  <2>3. CASE data' = data
    BY <2>3, Zenon DEF RadioInv, RadioTypeOK
  <2> QED
    BY <2>1, <2>2, <2>3, Zenon
<1>3. RadioTypeOK'
  BY <1>1, <1>2 DEF RadioInv, RadioTypeOK
<1>4. CurrentKnown'
  BY <1>1 DEF RadioInv, RadioTypeOK, CurrentKnown, Unfinished
<1>5. OffIsIdle'
  BY <1>1 DEF RadioInv, OffIsIdle
<1> QED
  BY <1>3, <1>4, <1>5 DEF RadioInv

LEMMA RadioUnmoved ==
  ASSUME RadioInv, UNCHANGED radioVars
  PROVE  RadioInv'
BY DEF radioVars, RadioInv, RadioTypeOK, CurrentKnown, OffIsIdle, Unfinished

-----------------------------------------------------------------------------
(* The channel's invariant. *)

ShimTyped ==
  /\ shim \in [Client -> {"connect", "second", "idle", "send", "recv",
                          "backoff", "gone"}]
  /\ fd \in [Client -> {0} \cup Conn] /\ listening \subseteq Client
  /\ token \in [Client -> {0} \cup Token] /\ program \in [Client -> Programs]
  /\ answers \in [Client -> Seq(Answer)]
  /\ \A k \in Client :
       /\ token[k] <= Len(program[k])
       /\ Len(answers[k]) =
            token[k] - (IF shim[k] \in {"send", "recv", "backoff"} THEN 1 ELSE 0)

\* A loop goes on only before its last attempt.
TriesTyped ==
  /\ tries \in [Client -> 0 .. Retries + Attempts]
  /\ \A k \in Client :
       /\ shim[k] = "connect" => tries[k] < Attempts
       /\ shim[k] = "backoff" => tries[k] < Retries
       /\ shim[k] \in {"second", "idle", "send", "recv"} => tries[k] <= Retries

ConnTyped ==
  /\ opened \in 0 .. MaxConn /\ shut \subseteq Conn
  /\ server \in [Conn -> {"unused", "backlog", "read", "eUICC", "dead"}]
  /\ up \in [Conn -> Seq(Request)] /\ down \in [Conn -> Seq(Message)]
  /\ serving \in [Conn -> {<<>>} \cup {<<r>> : r \in Request}]

RunTyped ==
  /\ alive \in BOOLEAN /\ losses \in 0 .. Losses
  /\ ran \in [Client -> [Token -> Nat]] /\ cut \subseteq Client \X Token

\* Connections are used in the order of their numbers, each by one thread; the
\* bridge awaits the eUICC exactly while it serves a request.
LinkOK ==
  /\ \A n \in Conn :
       /\ server[n] = "unused" <=> n > opened
       /\ n > opened => up[n] = <<>> /\ down[n] = <<>>
       /\ serving[n] # <<>> <=> server[n] = "eUICC"
  /\ \A k \in Client :
       /\ fd[k] <= opened
       /\ \A j \in Client : fd[j] = fd[k] /\ fd[k] # 0 => j = k
       /\ shim[k] \in {"second", "send", "recv"} => fd[k] # 0
       /\ shim[k] \in {"connect", "backoff", "gone"} => fd[k] = 0

Live(n) == server[n] # "dead"

\* Requests that may still run, or be answered, on connection n.
Carried(n) ==
  {up[n][i] : i \in DOMAIN up[n]} \cup {serving[n][i] : i \in DOMAIN serving[n]}

\* They are of the thread that has the connection, and no other connection that
\* lives has any of it.
OwnerOK ==
  \A n \in Conn : Live(n) => \A r \in Carried(n) :
    /\ shim[r.k] # "gone" => fd[r.k] = n
    /\ \A k \in Client : fd[k] = n => r.k = k
    /\ \A m \in Conn : Live(m) => \A s \in Carried(m) : r.k = s.k => n = m

\* The last request that client k may have sent on its connection.
Sent(k) == IF shim[k] = "send" THEN token[k] - 1 ELSE token[k]

\* Tokens ascend; indications, of token 0, may come between.
Increasing(a) ==
  \A i, j \in DOMAIN a : i < j /\ a[j].token # 0 => a[i].token < a[j].token
Below(a, t) == \A i \in DOMAIN a : a[i].token < t

\* What was written on a connection is of requests before those served, which
\* are before those to be read.
PipeOK ==
  \A n \in Conn :
    /\ Increasing(down[n])
    /\ Live(n) =>
         /\ Increasing(up[n])
         /\ \A i \in DOMAIN serving[n], j \in DOMAIN up[n] :
              serving[n][i].token < up[n][j].token
         /\ \A r \in Carried(n) : Below(down[n], r.token) /\ r.token <= Sent(r.k)

\* What a client will yet read is later than what it was given.
AnswerOK ==
  /\ AnswersInOrder
  /\ \A k \in Client, n \in Conn : fd[k] = n =>
       /\ Live(n) => \A r \in Carried(n) : Below(answers[k], r.token)
       /\ \A i \in DOMAIN down[n] :
            /\ down[n][i].token <= Sent(k)
            /\ down[n][i].token # 0 => Below(answers[k], down[n][i].token)

\* Nothing later than a request that is still to be read has run.
RanOK ==
  /\ \A k \in Client, u \in Token : u > token[k] => ran[k][u] = 0
  /\ \A n \in Conn : Live(n) => \A i \in DOMAIN up[n], u \in Token :
       u > up[n][i].token => ran[up[n][i].k][u] = 0

Shapes == ShimTyped /\ TriesTyped /\ ConnTyped /\ RunTyped
ChannelInv ==
  RadioInv /\ Shapes /\ LinkOK /\ OwnerOK /\ PipeOK /\ AnswerOK /\ RanOK

-----------------------------------------------------------------------------
(* The bridge. *)

\* What is carried is a request.
LEMMA CarriedTyped ==
  ASSUME ConnTyped, NEW n \in Conn, NEW r \in Carried(n)
  PROVE  r \in Request /\ r.k \in Client /\ r.token \in Token /\ r.token \in Nat \ {0}
<1>1. CASE \E i \in DOMAIN up[n] : r = up[n][i]
  <2>1. r \in Request
    BY <1>1 DEF ConnTyped
  <2> QED
    BY <2>1 DEF Request, Token
<1>2. CASE \E i \in DOMAIN serving[n] : r = serving[n][i]
  <2>1. serving[n] = <<>> \/ \E q \in Request : serving[n] = <<q>>
    BY DEF ConnTyped
  <2>2. PICK i \in DOMAIN serving[n] : r = serving[n][i]
    BY <1>2
  <2>3. PICK q \in Request : serving[n] = <<q>>
    BY <2>1, <2>2
  <2>4. r = q
    BY <2>2, <2>3
  <2> QED
    BY <2>4 DEF Request, Token
<1> QED
  BY <1>1, <1>2 DEF Carried

\* Messages were added to connections: indications, and on connection n as the
\* last one, unless t is 0, the answer to the request of token t.
Grows(n, t) ==
  \A m \in Conn :
    /\ Len(down[m]) <= Len(down'[m])
    /\ \A i \in DOMAIN down'[m] :
         IF i <= Len(down[m]) THEN down'[m][i] = down[m][i]
         ELSE \/ down'[m][i].token = 0
              \/ m = n /\ i = Len(down'[m]) /\ down'[m][i].token = t

\* A step of the bridge that answers, if at all, what is before all that is
\* still carried leaves the order as it was.
LEMMA BridgeKept ==
  ASSUME ChannelInv, ConnTyped', NEW n, NEW t \in Nat,
         UNCHANGED <<shim, fd, token, answers>>,
         \A m \in Conn : Live(m)' =>
           /\ Live(m) /\ Increasing(up[m])' /\ \A r \in Carried(m)' : r \in Carried(m)
           /\ \A i \in DOMAIN serving'[m], j \in DOMAIN up'[m] :
                serving'[m][i].token < up'[m][j].token,
         Grows(n, t),
         t # 0 => n \in Conn /\ Live(n) /\ \E r \in Carried(n) : r.token = t,
         t # 0 /\ Live(n)' => \A r \in Carried(n)' : t < r.token
  PROVE  OwnerOK' /\ PipeOK' /\ AnswerOK'
<1>1. ShimTyped /\ ConnTyped /\ OwnerOK /\ PipeOK /\ AnswerOK
  BY DEF ChannelInv, Shapes
<1>2. OwnerOK'
  BY <1>1 DEF OwnerOK
<1>3. \A m \in Conn : /\ down[m] \in Seq(Message) /\ down'[m] \in Seq(Message)
                      /\ DOMAIN down[m] = 1 .. Len(down[m]) /\ Len(down[m]) \in Nat
                      /\ DOMAIN down'[m] = 1 .. Len(down'[m]) /\ Len(down'[m]) \in Nat
  BY <1>1 DEF ConnTyped
<1>4. \A m \in Conn : \A i \in DOMAIN down[m] : down[m][i].token \in Nat
  <2> SUFFICES ASSUME NEW m \in Conn, NEW i \in DOMAIN down[m]
               PROVE down[m][i].token \in Nat
    OBVIOUS
  <2>1. down[m][i] \in Message
    BY <1>3
  <2> QED
    BY <2>1 DEF Message, Token
<1>5. \A k \in Client : Sent(k)' = Sent(k) /\ Sent(k) \in Nat
  BY <1>1 DEF Sent, ShimTyped, Token
<1>6. \A m \in Conn : \A i \in DOMAIN down'[m] :
        \/ i \in DOMAIN down[m] /\ down'[m][i] = down[m][i]
        \/ i > Len(down[m]) /\ down'[m][i].token = 0
        \/ i > Len(down[m]) /\ m = n /\ i = Len(down'[m]) /\ down'[m][i].token = t
  BY <1>3 DEF Grows
<1>7. t # 0 => Below(down[n], t)
  BY <1>1 DEF PipeOK
<1>8. \A m \in Conn : Increasing(down[m])'
  <2> SUFFICES ASSUME NEW m \in Conn, NEW i \in DOMAIN down'[m], NEW j \in DOMAIN down'[m],
                      i < j, down'[m][j].token # 0
               PROVE  down'[m][i].token < down'[m][j].token
    BY DEF Increasing
  <2>1. CASE j \in DOMAIN down[m] /\ down'[m][j] = down[m][j]
    <3>1. i \in DOMAIN down[m] /\ down'[m][i] = down[m][i]
      BY <1>3, <1>6, <2>1
    <3> QED
      BY <1>1, <2>1, <3>1 DEF PipeOK, Increasing
  <2>2. CASE j > Len(down[m]) /\ m = n /\ j = Len(down'[m]) /\ down'[m][j].token = t
    <3>1. i # Len(down'[m])
      BY <1>3, <2>2
    <3>2. CASE i \in DOMAIN down[m] /\ down'[m][i] = down[m][i]
      BY <1>7, <2>2, <3>2 DEF Below
    <3>3. CASE down'[m][i].token = 0
      BY <2>2, <3>3
    <3> QED
      BY <1>6, <3>1, <3>2, <3>3
  <2> QED
    BY <1>6, <2>1, <2>2
<1>9. \A m \in Conn : Live(m)' => \A r \in Carried(m)' : Below(down[m], r.token)'
  <2> SUFFICES ASSUME NEW m \in Conn, Live(m)', NEW r \in Carried(m)',
                      NEW i \in DOMAIN down'[m]
               PROVE  down'[m][i].token < r.token
    BY DEF Below
  <2>1. Live(m) /\ r \in Carried(m) /\ r.token \in Nat \ {0}
    BY <1>1, CarriedTyped
  <2>2. CASE i \in DOMAIN down[m] /\ down'[m][i] = down[m][i]
    BY <1>1, <2>1, <2>2 DEF PipeOK, Below
  <2>3. CASE down'[m][i].token = 0
    BY <2>1, <2>3
  <2>4. CASE m = n /\ down'[m][i].token = t
    BY <2>1, <2>4
  <2> QED
    BY <1>6, <2>2, <2>3, <2>4
<1>10. PipeOK'
  <2>1. \A m \in Conn : Live(m)' => \A r \in Carried(m)' : r.token <= Sent(r.k)'
    BY <1>1, <1>5, CarriedTyped DEF PipeOK
  <2> QED
    BY <1>8, <1>9, <2>1 DEF PipeOK
<1>11. AnswerOK'
  <2>1. AnswersInOrder'
    BY <1>1 DEF AnswerOK, AnswersInOrder
  <2> SUFFICES ASSUME NEW k \in Client, NEW m \in Conn, fd'[k] = m
               PROVE  /\ Live(m)' => \A r \in Carried(m)' : Below(answers'[k], r.token)
                      /\ \A i \in DOMAIN down'[m] :
                           /\ down'[m][i].token <= Sent(k)'
                           /\ down'[m][i].token # 0 => Below(answers'[k], down'[m][i].token)
    BY <2>1 DEF AnswerOK, Below
  <2>2. fd[k] = m
    OBVIOUS
  <2>3. Live(m)' => \A r \in Carried(m)' : Below(answers[k], r.token)
    BY <1>1, <2>2 DEF AnswerOK
  <2>4. ASSUME NEW i \in DOMAIN down'[m]
        PROVE  /\ down'[m][i].token <= Sent(k)
               /\ down'[m][i].token # 0 => Below(answers[k], down'[m][i].token)
    <3>1. CASE i \in DOMAIN down[m] /\ down'[m][i] = down[m][i]
      BY <1>1, <2>2, <3>1 DEF AnswerOK
    <3>2. CASE down'[m][i].token = 0
      BY <1>5, <3>2
    <3>3. CASE m = n /\ down'[m][i].token = t /\ t # 0
      <4>1. PICK r \in Carried(n) : r.token = t
        BY <3>3
      <4>2. r.k = k /\ Below(answers[k], t)
        BY <1>1, <2>2, <3>3, <4>1 DEF OwnerOK, AnswerOK
      <4> QED
        BY <1>1, <3>3, <4>1, <4>2 DEF PipeOK
    <3> QED
      BY <1>6, <3>1, <3>2, <3>3
  <2> QED
    BY <1>5, <2>2, <2>3, <2>4 DEF Below
<1> QED
  BY <1>2, <1>10, <1>11

\* Where nothing but indications is written, and nothing is read.
LEMMA QuietKept ==
  ASSUME ChannelInv, ConnTyped', Grows(0, 0),
         UNCHANGED <<shim, fd, token, answers, ran>>,
         \A m \in Conn : Live(m)' => Live(m) /\ up'[m] = up[m] /\ serving'[m] = serving[m]
  PROVE  OwnerOK' /\ PipeOK' /\ AnswerOK' /\ RanOK'
<1>1. PipeOK /\ RanOK
  BY DEF ChannelInv
<1>2. \A m \in Conn : Live(m)' => \A r \in Carried(m)' : r \in Carried(m)
  BY DEF Carried
<1>3. \A m \in Conn : Live(m)' =>
        /\ Increasing(up[m])'
        /\ \A i \in DOMAIN serving'[m], j \in DOMAIN up'[m] :
             serving'[m][i].token < up'[m][j].token
  BY <1>1 DEF PipeOK, Increasing
<1>4. RanOK'
  BY <1>1 DEF RanOK
<1> QED
  BY <1>2, <1>3, <1>4, BridgeKept

\* A broadcast keeps the messages that were there and adds an indication.
LEMMA BroadcastTyped ==
  ASSUME ConnTyped
  PROVE  /\ Indication \in Message /\ Indication.token = 0
         /\ _broadcast_unsolicited \in [Conn -> Seq(Message)]
         /\ \A m \in Conn :
              \/ _broadcast_unsolicited[m] = down[m]
              \/ /\ _broadcast_unsolicited[m] = Append(down[m], Indication)
                 /\ server[m] # "unused"
<1>1. Indication \in Message /\ Indication.token = 0
  BY DEF Indication, Message
<1> QED
  BY <1>1 DEF ConnTyped, _broadcast_unsolicited, Served

\* A message of token t may be added on connection n.
Adds(e, base, n, t) ==
  \A m \in Conn :
    \/ e[m] = base[m]
    \/ m = n /\ \E msg \in Message : msg.token = t /\ e[m] = Append(base[m], msg)

\* In each step at most one message is added for all and one for connection n.
LEMMA GrowsBy ==
  ASSUME ConnTyped, NEW n, NEW t, NEW base \in [Conn -> Seq(Message)],
         \A m \in Conn : base[m] \in {down[m], Append(down[m], Indication)},
         Adds(down', base, n, t)
  PROVE  Grows(n, t)
<1> SUFFICES ASSUME NEW m \in Conn
             PROVE  /\ Len(down[m]) <= Len(down'[m])
                    /\ \A i \in DOMAIN down'[m] :
                         IF i <= Len(down[m]) THEN down'[m][i] = down[m][i]
                         ELSE \/ down'[m][i].token = 0
                              \/ m = n /\ i = Len(down'[m]) /\ down'[m][i].token = t
  BY DEF Grows
<1>1. /\ down[m] \in Seq(Message) /\ base[m] \in Seq(Message)
      /\ Indication \in Message /\ Indication.token = 0
  BY BroadcastTyped DEF ConnTyped
<1>2. /\ Len(down[m]) \in Nat /\ Len(base[m]) \in Nat /\ Len(down[m]) <= Len(base[m])
      /\ \A i \in 1 .. Len(base[m]) :
           IF i <= Len(down[m]) THEN base[m][i] = down[m][i] ELSE base[m][i].token = 0
  <2>1. CASE base[m] = down[m]
    BY <1>1, <2>1
  <2>2. CASE base[m] = Append(down[m], Indication)
    BY <1>1, <2>2
  <2> QED
    BY <2>1, <2>2
<1>3. CASE down'[m] = base[m]
  BY <1>1, <1>2, <1>3
<1>4. ASSUME m = n, NEW msg \in Message, msg.token = t, down'[m] = Append(base[m], msg)
      PROVE  /\ Len(down[m]) <= Len(down'[m])
             /\ \A i \in DOMAIN down'[m] :
                  IF i <= Len(down[m]) THEN down'[m][i] = down[m][i]
                  ELSE \/ down'[m][i].token = 0
                       \/ m = n /\ i = Len(down'[m]) /\ down'[m][i].token = t
  <2>1. /\ Len(down'[m]) = Len(base[m]) + 1 /\ DOMAIN down'[m] = 1 .. Len(base[m]) + 1
        /\ down'[m][Len(base[m]) + 1] = msg
        /\ \A i \in 1 .. Len(base[m]) : down'[m][i] = base[m][i]
    BY <1>1, <1>4
  <2> QED
    BY <1>2, <1>4, <2>1
<1> QED
  BY <1>3, <1>4 DEF Adds

\* No message but an indication is added.
LEMMA GrowsQuietly ==
  ASSUME ConnTyped, NEW n, down' \in [Conn -> Seq(Message)],
         \A m \in Conn : down'[m] \in {down[m], Append(down[m], Indication)}
  PROVE  Grows(n, 0)
<1>1. Adds(down', down', n, 0)
  BY DEF Adds
<1> QED
  BY <1>1, GrowsBy

\* Where the links are left as they are.
LEMMA LinksKept ==
  ASSUME LinkOK, UNCHANGED <<opened, fd, shim>>,
         \A m \in Conn :
           /\ server'[m] = "unused" <=> server[m] = "unused"
           /\ server[m] = "unused" => up'[m] = up[m] /\ down'[m] = down[m]
           /\ serving'[m] # <<>> <=> server'[m] = "eUICC"
  PROVE  LinkOK'
BY DEF LinkOK

\* Shims that wait keep their types.
LEMMA WaitingTyped ==
  ASSUME ShimTyped, TriesTyped, UNCHANGED shimVars
  PROVE  ShimTyped' /\ TriesTyped'
BY DEF shimVars, ShimTyped, TriesTyped

\* The bridge starts, tells all of a change of the radio, greets a connection or
\* notices its end.
LEMMA ToldKept ==
  ASSUME ChannelInv,
         \/ start \/ boot_profile \/ \E t \in RegTask : registration(t)
         \/ \E n \in Conn : _handle_client(n) \/ end_of_stream(n)
  PROVE  ChannelInv'
<1>1. ShimTyped /\ TriesTyped /\ ConnTyped /\ RunTyped /\ LinkOK /\ RadioInv
  BY DEF ChannelInv, Shapes
<1>2. RadioInv'
  BY <1>1, PowerOnKept, PowerOnProfileKept, SimulationKept, RadioUnmoved, Zenon
     DEF start, boot_profile, registration, _handle_client, end_of_stream
<1>3. /\ UNCHANGED <<shimVars, opened, up, shut, serving, losses, ran, cut>>
      /\ alive' = TRUE \/ alive' = alive
      /\ \/ UNCHANGED <<server, down>>
         \/ down' = _broadcast_unsolicited /\ UNCHANGED server
         \/ \E n \in Conn : greet(n)
         \/ \E n \in Conn :
              /\ server[n] = "read" /\ server' = [server EXCEPT ![n] = "dead"]
              /\ UNCHANGED down
  BY DEF start, boot_profile, registration, _handle_client, end_of_stream, connVars
<1>4. UNCHANGED <<shim, fd, listening, tries, program, token, answers>>
  BY <1>3 DEF shimVars
<1>5. /\ down' \in [Conn -> Seq(Message)] /\ Grows(0, 0)
      /\ \A m \in Conn : server[m] = "unused" => down'[m] = down[m]
  <2>1. CASE down' = down
    BY <1>1, <2>1, GrowsQuietly DEF ConnTyped
  <2>2. CASE down' = _broadcast_unsolicited
    <3>1. /\ _broadcast_unsolicited \in [Conn -> Seq(Message)]
          /\ \A m \in Conn :
               /\ _broadcast_unsolicited[m] \in {down[m], Append(down[m], Indication)}
               /\ server[m] = "unused" => _broadcast_unsolicited[m] = down[m]
      BY <1>1, BroadcastTyped
    <3> QED
      BY <1>1, <2>2, <3>1, GrowsQuietly
  <2>3. ASSUME NEW n \in Conn, greet(n)
        PROVE  /\ down' \in [Conn -> Seq(Message)] /\ Grows(0, 0)
               /\ \A m \in Conn : server[m] = "unused" => down'[m] = down[m]
    <3>1. down' = Written(down, n, Indication) /\ server[n] = "backlog"
      BY <2>3 DEF greet
    <3>2. down \in [Conn -> Seq(Message)] /\ Indication \in Message
      BY <1>1, BroadcastTyped DEF ConnTyped
    <3>3. /\ down' \in [Conn -> Seq(Message)]
          /\ \A m \in Conn :
               down'[m] = down[m] \/ (m = n /\ down'[m] = Append(down[m], Indication))
      <4> DEFINE w == Written(down, n, Indication)
      <4>1. /\ w \in [Conn -> Seq(Message)]
            /\ \A m \in Conn : w[m] = down[m] \/ (m = n /\ w[m] = Append(down[m], Indication))
        BY <3>2 DEF Written
      <4> HIDE DEF w
      <4>2. down' = w
        BY <3>1 DEF w
      <4> QED
        BY <4>1, <4>2
    <3>4. \A m \in Conn : down'[m] \in {down[m], Append(down[m], Indication)}
      BY <3>3
    <3>5. Grows(0, 0)
      BY <1>1, <3>3, <3>4, GrowsQuietly
    <3> QED
      BY <3>1, <3>3, <3>5
  <2> QED
    BY <1>3, <2>1, <2>2, <2>3
<1>6. /\ server' \in [Conn -> {"unused", "backlog", "read", "eUICC", "dead"}]
      /\ \A m \in Conn : /\ server'[m] = "unused" <=> server[m] = "unused"
                         /\ server'[m] = "eUICC" <=> server[m] = "eUICC"
                         /\ server'[m] # "dead" => server[m] # "dead"
  BY <1>1, <1>3 DEF ConnTyped, greet
<1>7. ConnTyped'
  BY <1>1, <1>3, <1>5, <1>6 DEF ConnTyped
<1>8. RunTyped'
  <2>1. alive' \in BOOLEAN
    BY <1>1, <1>3, Zenon DEF RunTyped
  <2> QED
    BY <1>1, <1>3, <2>1 DEF RunTyped
<1>9. LinkOK'
  BY <1>1, <1>3, <1>4, <1>5, <1>6, LinksKept DEF LinkOK
<1>10. OwnerOK' /\ PipeOK' /\ AnswerOK' /\ RanOK'
  BY <1>3, <1>4, <1>5, <1>6, <1>7, QuietKept DEF Live
<1> QED
  BY <1>1, <1>2, <1>3, <1>7, <1>8, <1>9, <1>10, WaitingTyped DEF ChannelInv, Shapes

\* The bridge is killed: nothing that is carried will run.
LEMMA CrashKept ==
  ASSUME ChannelInv, crash
  PROVE  ChannelInv'
<1>1. ShimTyped /\ TriesTyped /\ ConnTyped /\ RunTyped /\ LinkOK /\ RadioInv
  BY DEF ChannelInv, Shapes
<1>2. /\ UNCHANGED <<shim, fd, tries, program, token, answers, opened, down, shut, ran>>
      /\ server' = [n \in Conn |-> IF server[n] = "unused" THEN "unused" ELSE "dead"]
      /\ cut' = cut \cup UNION {Outstanding(n) : n \in Conn}
      /\ serving' = [n \in Conn |-> <<>>] /\ up' = [n \in Conn |-> <<>>]
      /\ listening' = {} /\ alive' = FALSE
      /\ losses < Losses /\ losses' = losses + 1
  BY DEF crash
<1>3. ConnTyped'
  BY <1>1, <1>2 DEF ConnTyped
<1>4. ShimTyped' /\ TriesTyped'
  BY <1>1, <1>2 DEF ShimTyped, TriesTyped
<1>5. RunTyped'
  <2>1. \A n \in Conn : Outstanding(n) \subseteq Client \X Token
    <3> SUFFICES ASSUME NEW n \in Conn, NEW x \in Outstanding(n)
                 PROVE  x \in Client \X Token
      OBVIOUS
    <3>1. PICK r \in Carried(n) : x = <<r.k, r.token>>
      BY DEF Outstanding, Carried
    <3> QED
      BY <1>1, <3>1, CarriedTyped
  <2>2. cut' \subseteq Client \X Token
    BY <1>1, <1>2, <2>1 DEF RunTyped
  <2>3. alive' \in BOOLEAN
    BY <1>2, Zenon
  <2>4. losses' \in 0 .. Losses
    BY <1>1, <1>2, ChannelAssumption DEF RunTyped
  <2> QED
    BY <1>1, <1>2, <2>2, <2>3, <2>4 DEF RunTyped
<1>6. LinkOK'
  BY <1>1, <1>2, LinksKept DEF LinkOK
<1>7. OwnerOK' /\ PipeOK' /\ AnswerOK' /\ RanOK'
  <2>1. Grows(0, 0)
    BY <1>1, <1>2, GrowsQuietly DEF ConnTyped
  <2>2. \A m \in Conn : Live(m)' =>
          Live(m) /\ up'[m] = up[m] /\ serving'[m] = serving[m]
    BY <1>1, <1>2 DEF Live, LinkOK
  <2> QED
    BY <1>2, <1>3, <2>1, <2>2, QuietKept
<1>8. RadioInv'
  BY RadioStarts DEF crash
<1> QED
  BY <1>3, <1>4, <1>5, <1>6, <1>7, <1>8 DEF ChannelInv, Shapes

\* The client closed the connection, and it was reset: what it carries is cut.
LEMMA ResetKept ==
  ASSUME ChannelInv, NEW n \in Conn, connection_lost(n)
  PROVE  ChannelInv'
<1>1. ShimTyped /\ TriesTyped /\ ConnTyped /\ RunTyped /\ LinkOK /\ RadioInv
  BY DEF ChannelInv, Shapes
<1>2. /\ UNCHANGED <<radioVars, shimVars, opened, up, down, shut, serving, alive,
                     losses, ran>>
      /\ server[n] = "read" /\ server' = [server EXCEPT ![n] = "dead"]
      /\ cut' = cut \cup Outstanding(n)
  BY DEF connection_lost
<1>3. UNCHANGED <<shim, fd, listening, tries, program, token, answers>>
  BY <1>2 DEF shimVars
<1>4. /\ server' \in [Conn -> {"unused", "backlog", "read", "eUICC", "dead"}]
      /\ \A m \in Conn : /\ server'[m] = "unused" <=> server[m] = "unused"
                         /\ server'[m] = "eUICC" <=> server[m] = "eUICC"
                         /\ server'[m] # "dead" => server[m] # "dead"
  BY <1>1, <1>2 DEF ConnTyped
<1>5. ConnTyped'
  BY <1>1, <1>2, <1>4 DEF ConnTyped
<1>6. RunTyped'
  <2>1. Outstanding(n) \subseteq Client \X Token
    <3> SUFFICES ASSUME NEW x \in Outstanding(n) PROVE x \in Client \X Token
      OBVIOUS
    <3>1. PICK r \in Carried(n) : x = <<r.k, r.token>>
      BY DEF Outstanding, Carried
    <3> QED
      BY <1>1, <3>1, CarriedTyped
  <2>2. alive' \in BOOLEAN
    BY <1>1, <1>2, Zenon DEF RunTyped
  <2> QED
    BY <1>1, <1>2, <2>1, <2>2 DEF RunTyped
<1>7. LinkOK'
  BY <1>1, <1>2, <1>3, <1>4, LinksKept DEF LinkOK
<1>8. OwnerOK' /\ PipeOK' /\ AnswerOK' /\ RanOK'
  <2>1. Grows(0, 0)
    BY <1>1, <1>2, GrowsQuietly DEF ConnTyped
  <2> QED
    BY <1>2, <1>3, <1>4, <1>5, <2>1, QuietKept DEF Live
<1>9. RadioInv'
  BY <1>1, <1>2, RadioUnmoved
<1> QED
  BY <1>1, <1>3, <1>5, <1>6, <1>7, <1>8, <1>9, WaitingTyped DEF ChannelInv, Shapes, shimVars

\* The answer to a request goes after what is there.
LEMMA ReplyTyped ==
  ASSUME NEW base \in [Conn -> Seq(Message)], NEW n \in Conn, NEW r \in Request,
         NEW what \in {"data", "error"}
  PROVE  /\ Reply(base, r, n, what) \in [Conn -> Seq(Message)]
         /\ Adds(Reply(base, r, n, what), base, n, r.token)
<1>1. PICK x \in Message : /\ x.token = r.token
                          /\ Reply(base, r, n, what) = Written(base, n, x)
  <2>1. [m |-> what, token |-> r.token] \in Message
    BY DEF Message, Request
  <2> QED
    BY <2>1 DEF Reply
<1>2. /\ Written(base, n, x) \in [Conn -> Seq(Message)]
      /\ \A m \in Conn : \/ Written(base, n, x)[m] = base[m]
                         \/ m = n /\ Written(base, n, x)[m] = Append(base[m], x)
  BY DEF Written
<1> QED
  BY <1>1, <1>2 DEF Adds

\* The first request is read and runs; it is served on, answered, or raises.
LEMMA ProcessKept ==
  ASSUME ChannelInv, NEW n \in Conn, _process_request(n)
  PROVE  ChannelInv'
<1> DEFINE r == Head(up[n])
           served == /\ serving' = [serving EXCEPT ![n] = <<r>>]
                     /\ server' = [server EXCEPT ![n] = "eUICC"]
                     /\ UNCHANGED <<down, cut, losses>>
           replied == /\ \E what \in {"data", "error"} : down' = Reply(down, r, n, what)
                      /\ UNCHANGED <<serving, server, cut, losses>>
           raised == /\ losses < Losses /\ losses' = losses + 1
                     /\ server' = [server EXCEPT ![n] = "dead"]
                     /\ cut' = cut \cup Outstanding(n)
                     /\ UNCHANGED <<down, serving>>
<1>1. ShimTyped /\ TriesTyped /\ ConnTyped /\ RunTyped /\ LinkOK /\ RadioInv
      /\ OwnerOK /\ PipeOK /\ RanOK
  BY DEF ChannelInv, Shapes
<1>2. /\ server[n] = "read" /\ up[n] # <<>> /\ up' = [up EXCEPT ![n] = Tail(@)]
      /\ ran' = [ran EXCEPT ![r.k][r.token] = @ + 1]
      /\ UNCHANGED <<shimVars, opened, shut, alive>>
  BY DEF _process_request, NextRequest
<1>3. served \/ replied \/ raised
  BY DEF _process_request
<1>4. RadioInv'
  <2>1. UNCHANGED radioVars \/ power_on(n) \/ power_off
    BY DEF _process_request
  <2> QED
    BY <1>1, <2>1, RadioUnmoved, PowerOnKept, PowerOffKept, ChannelAssumption
<1>5. UNCHANGED <<shim, fd, tries, token, program, answers>>
  BY <1>2 DEF shimVars
<1>6. /\ up[n] \in Seq(Request) /\ DOMAIN up[n] = 1 .. Len(up[n]) /\ Len(up[n]) \in Nat
      /\ 1 \in DOMAIN up[n] /\ r = up[n][1]
      /\ Tail(up[n]) \in Seq(Request)
      /\ DOMAIN Tail(up[n]) = 1 .. Len(up[n]) - 1
      /\ \A i \in DOMAIN Tail(up[n]) : Tail(up[n])[i] = up[n][i + 1] /\ i + 1 \in DOMAIN up[n]
  BY <1>1, <1>2 DEF ConnTyped
<1>7. r \in Carried(n) /\ serving[n] = <<>> /\ Live(n)
  BY <1>1, <1>2, <1>6 DEF Carried, LinkOK, Live
<1>8. r \in Request /\ r.k \in Client /\ r.token \in Token /\ r.token \in Nat \ {0}
  BY <1>1, <1>7, CarriedTyped
<1>9. \A i \in DOMAIN Tail(up[n]) : /\ r.token < Tail(up[n])[i].token
                                    /\ Tail(up[n])[i].token \in Nat \ {0}
  <2> SUFFICES ASSUME NEW i \in DOMAIN Tail(up[n])
               PROVE  r.token < up[n][i + 1].token /\ up[n][i + 1].token \in Nat \ {0}
    BY <1>6
  <2>1. i + 1 \in DOMAIN up[n] /\ i + 1 > 1
    BY <1>6
  <2>2. up[n][i + 1] \in Carried(n)
    BY <2>1 DEF Carried
  <2>3. up[n][i + 1].token \in Nat \ {0}
    BY <1>1, <2>2, CarriedTyped
  <2> QED
    BY <1>1, <1>6, <1>7, <2>1, <2>3 DEF PipeOK, Increasing
<1>10. /\ up'[n] = Tail(up[n]) /\ up' \in [Conn -> Seq(Request)]
       /\ \A m \in Conn : m # n => up'[m] = up[m]
  BY <1>1, <1>2, <1>6 DEF ConnTyped
<1> HIDE DEF r
<1>11. /\ serving' \in [Conn -> {<<>>} \cup {<<q>> : q \in Request}]
       /\ serving'[n] = <<>> \/ (serving'[n] = <<r>> /\ served)
       /\ \A m \in Conn : m # n => serving'[m] = serving[m]
       /\ server' \in [Conn -> {"unused", "backlog", "read", "eUICC", "dead"}]
       /\ \A m \in Conn : m # n => server'[m] = server[m]
       /\ server'[n] # "unused" /\ (serving'[n] # <<>> <=> server'[n] = "eUICC")
  <2>1. /\ server \in [Conn -> {"unused", "backlog", "read", "eUICC", "dead"}]
        /\ serving \in [Conn -> {<<>>} \cup {<<q>> : q \in Request}]
        /\ server[n] = "read" /\ serving[n] = <<>> /\ <<r>> # <<>>
        /\ <<r>> \in {<<>>} \cup {<<q>> : q \in Request}
    BY <1>1, <1>2, <1>7, <1>8 DEF ConnTyped
  <2>2. CASE served
    BY <2>1, <2>2
  <2>3. CASE replied
    BY <2>1, <2>3
  <2>4. CASE raised
    BY <2>1, <2>4
  <2> QED
    BY <1>3, <2>2, <2>3, <2>4
<1>12. /\ down' \in [Conn -> Seq(Message)]
       /\ \A m \in Conn : m # n => down'[m] = down[m]
       /\ (down' = down /\ Grows(n, 0)) \/ (replied /\ Grows(n, r.token))
  <2>1. CASE served \/ raised
    <3>1. down' = down
      BY <2>1
    <3>2. down \in [Conn -> Seq(Message)]
      BY <1>1 DEF ConnTyped
    <3>3. Grows(n, 0)
      BY <1>1, <3>1, <3>2, GrowsQuietly
    <3> QED
      BY <3>1, <3>2, <3>3
  <2>2. CASE replied
    <3>1. PICK what \in {"data", "error"} : down' = Reply(down, r, n, what)
      BY <2>2
    <3>2. down \in [Conn -> Seq(Message)]
      BY <1>1 DEF ConnTyped
    <3>3. down' \in [Conn -> Seq(Message)] /\ Adds(down', down, n, r.token)
      BY <1>8, <3>1, <3>2, ReplyTyped, Zenon
    <3>4. Grows(n, r.token)
      BY <1>1, <3>2, <3>3, GrowsBy
    <3> QED
      BY <2>2, <3>3, <3>4 DEF Adds
  <2> QED
    BY <1>3, <2>1, <2>2
<1>13. ConnTyped'
  BY <1>1, <1>2, <1>10, <1>11, <1>12 DEF ConnTyped
<1>14. RunTyped'
  <2>1. Outstanding(n) \subseteq Client \X Token
    <3> SUFFICES ASSUME NEW x \in Outstanding(n) PROVE x \in Client \X Token
      OBVIOUS
    <3>1. PICK q \in Carried(n) : x = <<q.k, q.token>>
      BY DEF Outstanding, Carried
    <3> QED
      BY <1>1, <3>1, CarriedTyped
  <2>2. cut' \subseteq Client \X Token /\ losses' \in 0 .. Losses
    BY <1>1, <1>3, <2>1, ChannelAssumption DEF RunTyped
  <2>3. ran' \in [Client -> [Token -> Nat]]
    BY <1>1, <1>2, <1>8 DEF RunTyped
  <2> QED
    BY <1>1, <1>2, <2>2, <2>3 DEF RunTyped
<1>15. LinkOK'
  BY <1>1, <1>2, <1>5, <1>7, <1>10, <1>11, <1>12, LinksKept DEF LinkOK
<1>16. \A q \in Carried(n)' : q \in Carried(n)
  BY <1>6, <1>7, <1>10, <1>11 DEF Carried
<1>17. \A m \in Conn : Live(m)' =>
         /\ Live(m) /\ Increasing(up[m])' /\ \A q \in Carried(m)' : q \in Carried(m)
         /\ \A i \in DOMAIN serving'[m], j \in DOMAIN up'[m] :
              serving'[m][i].token < up'[m][j].token
  <2> SUFFICES ASSUME NEW m \in Conn, Live(m)'
               PROVE  /\ Live(m) /\ Increasing(up[m])'
                      /\ \A q \in Carried(m)' : q \in Carried(m)
                      /\ \A i \in DOMAIN serving'[m], j \in DOMAIN up'[m] :
                           serving'[m][i].token < up'[m][j].token
    OBVIOUS
  <2>1. CASE m # n
    BY <1>1, <1>10, <1>11, <2>1 DEF Live, PipeOK, Increasing, Carried
  <2>2. CASE m = n
    <3>1. Increasing(up[n])'
      <4> SUFFICES ASSUME NEW i \in DOMAIN Tail(up[n]), NEW j \in DOMAIN Tail(up[n]), i < j,
                          Tail(up[n])[j].token # 0
                   PROVE  Tail(up[n])[i].token < Tail(up[n])[j].token
        BY <1>10 DEF Increasing
      <4>1. /\ Tail(up[n])[i] = up[n][i + 1] /\ Tail(up[n])[j] = up[n][j + 1]
            /\ i + 1 \in DOMAIN up[n] /\ j + 1 \in DOMAIN up[n] /\ i + 1 < j + 1
        BY <1>6
      <4>2. Increasing(up[n])
        BY <1>1, <1>7 DEF PipeOK
      <4> QED
        BY <4>1, <4>2 DEF Increasing
    <3>2. \A i \in DOMAIN serving'[n], j \in DOMAIN up'[n] :
            serving'[n][i].token < up'[n][j].token
      BY <1>9, <1>10, <1>11
    <3> QED
      BY <1>7, <1>16, <2>2, <3>1, <3>2
  <2> QED
    BY <2>1, <2>2
<1>18. OwnerOK' /\ PipeOK' /\ AnswerOK'
  <2>1. CASE Grows(n, 0)
    BY <1>5, <1>13, <1>17, <2>1, BridgeKept
  <2>2. CASE replied /\ Grows(n, r.token)
    <3>1. \A q \in Carried(n)' : r.token < q.token
      BY <1>7, <1>9, <1>10, <2>2 DEF Carried
    <3> QED
      BY <1>5, <1>7, <1>8, <1>13, <1>17, <2>2, <3>1, BridgeKept
  <2> QED
    BY <1>12, <2>1, <2>2
<1>19. RanOK'
  <2>1. \A k \in Client, u \in Token :
          k # r.k \/ u # r.token => ran'[k][u] = ran[k][u]
    <3>1. ran' = [ran EXCEPT ![r.k] = [ran[r.k] EXCEPT ![r.token] = ran[r.k][r.token] + 1]]
      BY <1>2
    <3>2. ran \in [Client -> [Token -> Nat]]
      BY <1>1 DEF RunTyped
    <3> QED
      BY <1>8, <3>1, <3>2
  <2>2. r.token <= token[r.k]
    <3>1. r.token <= Sent(r.k)
      BY <1>1, <1>7 DEF PipeOK
    <3>2. \A k \in Client : token[k] \in Nat
      BY <1>1 DEF ShimTyped, Token
    <3>3. token[r.k] \in Nat
      BY <1>8, <3>2
    <3> QED
      BY <1>8, <3>1, <3>3 DEF Sent
  <2>3. \A k \in Client, u \in Token : u > token[k] => ran'[k][u] = 0
    <3> SUFFICES ASSUME NEW k \in Client, NEW u \in Token, u > token[k]
                 PROVE  ran'[k][u] = 0
      OBVIOUS
    <3>1. k # r.k \/ u # r.token
      <4>1. token[k] \in Nat /\ u \in Nat
        BY <1>1 DEF ShimTyped, Token
      <4> QED
        BY <1>8, <2>2, <4>1
    <3> QED
      BY <1>1, <2>1, <3>1 DEF RanOK
  <2>4. ASSUME NEW m \in Conn, Live(m)', NEW i \in DOMAIN up'[m], NEW u \in Token,
               u > up'[m][i].token
        PROVE  ran'[up'[m][i].k][u] = 0
    <3>1. CASE m # n
      <4>1. Live(m) /\ up'[m] = up[m] /\ up[m][i] \in Carried(m)
        BY <1>10, <1>11, <2>4, <3>1 DEF Live, Carried
      <4>2. up[m][i].k # r.k /\ up[m][i].k \in Client
        BY <1>1, <1>7, <3>1, <4>1, CarriedTyped DEF OwnerOK
      <4> QED
        BY <1>1, <2>1, <2>4, <4>1, <4>2 DEF RanOK
    <3>2. CASE m = n
      <4>1. /\ i \in DOMAIN Tail(up[n]) /\ up'[n][i] = up[n][i + 1] /\ i + 1 \in DOMAIN up[n]
            /\ r.token < up'[n][i].token /\ up'[n][i].token \in Nat
        BY <1>6, <1>9, <1>10, <2>4, <3>2
      <4>2. up[n][i + 1].k \in Client
        BY <1>1, <4>1, CarriedTyped DEF Carried
      <4>3. u # r.token
        BY <1>8, <2>4, <3>2, <4>1 DEF Token
      <4> QED
        BY <1>1, <1>7, <2>1, <2>4, <3>2, <4>1, <4>2, <4>3 DEF RanOK
    <3> QED
      BY <3>1, <3>2
  <2> QED
    BY <1>5, <2>3, <2>4 DEF RanOK
<1> QED
  BY <1>1, <1>2, <1>4, <1>13, <1>14, <1>15, <1>18, <1>19, WaitingTyped DEF ChannelInv, Shapes

\* The eUICC has answered, and so does the bridge.
LEMMA AnswersKept ==
  ASSUME ChannelInv, NEW n \in Conn, eUICC_answers(n)
  PROVE  ChannelInv'
<1>1. ShimTyped /\ TriesTyped /\ ConnTyped /\ RunTyped /\ LinkOK /\ RadioInv
      /\ OwnerOK /\ PipeOK /\ RanOK
  BY DEF ChannelInv, Shapes
<1>2. /\ server[n] = "eUICC" /\ server' = [server EXCEPT ![n] = "read"]
      /\ serving' = [serving EXCEPT ![n] = <<>>]
      /\ UNCHANGED <<shimVars, opened, up, shut, alive, losses, ran, cut>>
  BY DEF eUICC_answers
<1>3. PICK r \in Request : serving[n] = <<r>>
  BY <1>1, <1>2 DEF LinkOK, ConnTyped
<1>4. r = serving[n][1] /\ r \in Carried(n) /\ Live(n)
  BY <1>2, <1>3 DEF Carried, Live
<1>5. r.k \in Client /\ r.token \in Token /\ r.token \in Nat \ {0}
  BY <1>1, <1>4, CarriedTyped
<1>6. PICK base \in [Conn -> Seq(Message)] :
        /\ \A m \in Conn : \/ base[m] = down[m]
                           \/ server[m] # "unused" /\ base[m] = Append(down[m], Indication)
        /\ down' = Reply(base, r, n, "data")
  <2>1. \/ down' = Reply(down, r, n, "data")
        \/ down' = Reply(_broadcast_unsolicited, r, n, "data")
    BY <1>4, Zenon DEF eUICC_answers
  <2>2. down \in [Conn -> Seq(Message)]
    BY <1>1 DEF ConnTyped
  <2> QED
    BY <1>1, <2>1, <2>2, BroadcastTyped
<1>7. RadioInv'
  <2>1. UNCHANGED radioVars \/ \E present \in BOOLEAN : power_on_profile(n, present)
    BY DEF eUICC_answers
  <2> QED
    BY <1>1, <2>1, RadioUnmoved, PowerOnProfileKept, ChannelAssumption
<1>8. UNCHANGED <<shim, fd, tries, token, program, answers>>
  BY <1>2 DEF shimVars
<1>9. /\ down' \in [Conn -> Seq(Message)] /\ Grows(n, r.token)
      /\ \A m \in Conn : server[m] = "unused" => down'[m] = down[m]
  <2>1. down' \in [Conn -> Seq(Message)] /\ Adds(down', base, n, r.token)
    <3>1. "data" \in {"data", "error"}
      OBVIOUS
    <3> QED
      BY <1>6, <3>1, ReplyTyped, Zenon
  <2>2. Grows(n, r.token)
    BY <1>1, <1>6, <2>1, GrowsBy
  <2> QED
    BY <1>2, <1>6, <2>1, <2>2 DEF Adds
<1>10. /\ serving'[n] = <<>> /\ server'[n] = "read"
       /\ \A m \in Conn : m # n => serving'[m] = serving[m] /\ server'[m] = server[m]
       /\ up' = up
  BY <1>1, <1>2 DEF ConnTyped
<1>11. ConnTyped'
  BY <1>1, <1>2, <1>9 DEF ConnTyped
<1>12. RunTyped'
  BY <1>1, <1>2 DEF RunTyped
<1>13. LinkOK'
  BY <1>1, <1>2, <1>8, <1>9, <1>10, LinksKept DEF LinkOK
<1>14. OwnerOK' /\ PipeOK' /\ AnswerOK'
  <2>1. \A m \in Conn : Live(m)' =>
          /\ Live(m) /\ Increasing(up[m])' /\ \A q \in Carried(m)' : q \in Carried(m)
          /\ \A i \in DOMAIN serving'[m], j \in DOMAIN up'[m] :
               serving'[m][i].token < up'[m][j].token
    <3> SUFFICES ASSUME NEW m \in Conn, Live(m)'
                 PROVE  /\ Live(m) /\ Increasing(up[m])'
                        /\ \A q \in Carried(m)' : q \in Carried(m)
                        /\ \A i \in DOMAIN serving'[m], j \in DOMAIN up'[m] :
                             serving'[m][i].token < up'[m][j].token
      OBVIOUS
    <3>1. CASE m = n
      BY <1>1, <1>4, <1>10, <3>1 DEF PipeOK, Increasing, Carried
    <3>2. CASE m # n
      BY <1>1, <1>10, <3>2 DEF Live, PipeOK, Increasing, Carried
    <3> QED
      BY <3>1, <3>2
  <2>2. \A q \in Carried(n)' : r.token < q.token
    BY <1>1, <1>3, <1>4, <1>10 DEF Carried, PipeOK
  <2> QED
    BY <1>4, <1>5, <1>8, <1>9, <1>11, <2>1, <2>2, BridgeKept
<1>15. RanOK'
  BY <1>1, <1>2, <1>4, <1>8, <1>10 DEF RanOK, Live
<1> QED
  BY <1>1, <1>2, <1>7, <1>11, <1>12, <1>13, <1>14, <1>15, WaitingTyped DEF ChannelInv, Shapes
-----------------------------------------------------------------------------
(* The shim. *)

\* Nothing is sent and nothing read: the thread of client k opens a connection
\* nobody used, loses one that is dead, goes away, or takes the next step with
\* the one it has; it may answer with a failure.
LEMMA IdleKept ==
  ASSUME ChannelInv, NEW k \in Client, shim[k] # "gone", ShimTyped',
         UNCHANGED <<up, down, serving, ran>>,
         \A m \in Conn : Live(m)' => Live(m),
         \A j \in Client : j # k => /\ shim'[j] = shim[j] /\ fd'[j] = fd[j]
                                    /\ token'[j] = token[j] /\ answers'[j] = answers[j],
         \/ fd'[k] = fd[k]
         \/ fd'[k] = 0 /\ (shim'[k] = "gone" \/ ~Live(fd[k]))
         \/ fd[k] = 0 /\ up[fd'[k]] = <<>> /\ down[fd'[k]] = <<>> /\ serving[fd'[k]] = <<>>,
         token[k] <= token'[k],
         fd[k] = 0 \/ Sent(k) <= Sent(k)',
         answers'[k] \in {answers[k], Append(answers[k], [m |-> "failure", token |-> 0])}
  PROVE  OwnerOK' /\ PipeOK' /\ AnswerOK' /\ RanOK'
<1>1. ShimTyped /\ ConnTyped /\ OwnerOK /\ PipeOK /\ AnswerOK /\ RanOK
  BY DEF ChannelInv, Shapes
<1>2. \A m \in Conn : Carried(m)' = Carried(m)
  BY DEF Carried
<1>3. \A j \in Client : fd[j] \in {0} \cup Conn /\ token[j] \in Nat /\ token'[j] \in Nat
                        /\ Sent(j) \in Int /\ Sent(j)' \in Int
  BY <1>1 DEF ShimTyped, Token, Sent
<1>4. \A m \in Conn : m # 0
  BY DEF Conn
<1>5. OwnerOK'
  <2> SUFFICES ASSUME NEW m \in Conn, Live(m)', NEW r \in Carried(m)
               PROVE  /\ shim'[r.k] # "gone" => fd'[r.k] = m
                      /\ \A j \in Client : fd'[j] = m => r.k = j
                      /\ \A l \in Conn : Live(l)' => \A s \in Carried(l)' : r.k = s.k => m = l
    BY <1>2 DEF OwnerOK
  <2>1. r.k \in Client /\ Live(m) /\ (shim[r.k] # "gone" => fd[r.k] = m)
    BY <1>1, CarriedTyped DEF OwnerOK
  <2>2. shim'[r.k] # "gone" => fd'[r.k] = m
    BY <1>4, <2>1
  <2>3. \A j \in Client : fd'[j] = m => r.k = j
    <3> SUFFICES ASSUME fd'[k] = m PROVE r.k = k
      BY <1>1, <2>1 DEF OwnerOK
    <3>1. CASE fd[k] = m
      BY <1>1, <2>1, <3>1 DEF OwnerOK
    <3>2. CASE up[m] = <<>> /\ serving[m] = <<>>
      BY <3>2 DEF Carried
    <3> QED
      BY <1>4, <3>1, <3>2
  <2> QED
    BY <1>1, <1>2, <2>1, <2>2, <2>3 DEF OwnerOK
<1>6. \A m \in Conn : Live(m)' => \A r \in Carried(m) : r.token <= Sent(r.k)'
  <2> SUFFICES ASSUME NEW m \in Conn, Live(m)', NEW r \in Carried(m)
               PROVE  r.token <= Sent(r.k)'
    OBVIOUS
  <2>1. Live(m) /\ r.k \in Client /\ r.token \in Nat /\ r.token <= Sent(r.k)
    BY <1>1, CarriedTyped DEF PipeOK
  <2>2. CASE r.k = k
    <3>1. fd[k] # 0
      BY <1>1, <1>4, <2>1, <2>2 DEF OwnerOK
    <3> QED
      BY <1>3, <2>1, <2>2, <3>1
  <2>3. CASE r.k # k
    <3>1. Sent(r.k)' = Sent(r.k)
      BY <2>1, <2>3 DEF Sent
    <3> QED
      BY <2>1, <3>1
  <2> QED
    BY <2>2, <2>3
<1>7. PipeOK'
  BY <1>1, <1>2, <1>6 DEF PipeOK, Increasing, Below
<1> DEFINE failure == [m |-> "failure", token |-> 0]
<1>8. failure \in Answer /\ failure.token = 0
  BY DEF Answer
<1>9. answers'[k] \in {answers[k], Append(answers[k], failure)}
  OBVIOUS
<1> HIDE DEF failure
<1>10. /\ answers[k] \in Seq(Answer) /\ Len(answers[k]) \in Nat
      /\ DOMAIN answers[k] = 1 .. Len(answers[k])
      /\ \A i \in DOMAIN answers'[k] :
           \/ i \in DOMAIN answers[k] /\ answers'[k][i] = answers[k][i]
           \/ i \in Nat /\ answers'[k][i].token = 0
  <2>1. answers[k] \in Seq(Answer)
    BY <1>1 DEF ShimTyped
  <2>2. CASE answers'[k] = Append(answers[k], failure)
    <3>1. /\ DOMAIN answers'[k] = 1 .. Len(answers[k]) + 1
          /\ \A i \in 1 .. Len(answers[k]) : answers'[k][i] = answers[k][i]
          /\ answers'[k][Len(answers[k]) + 1] = failure
      BY <1>8, <2>1, <2>2
    <3> QED
      BY <1>8, <2>1, <3>1
  <2>3. CASE answers'[k] = answers[k]
    BY <2>1, <2>3
  <2> QED
    BY <1>9, <2>2, <2>3
<1>11. AnswersInOrder'
  <2> SUFFICES ASSUME NEW j \in Client
               PROVE  /\ \A i \in DOMAIN answers'[j] : answers'[j][i].token <= i
                      /\ \A i, l \in DOMAIN answers'[j] :
                           i < l /\ answers'[j][l].token # 0 =>
                             answers'[j][i].token < answers'[j][l].token
    BY DEF AnswersInOrder
  <2>1. CASE j # k
    BY <1>1, <2>1 DEF AnswerOK, AnswersInOrder
  <2>2. CASE j = k
    <3>1. \A i \in DOMAIN answers'[k] : answers'[k][i].token <= i
      BY <1>1, <1>10 DEF AnswerOK, AnswersInOrder
    <3>2. ASSUME NEW i \in DOMAIN answers'[k], NEW l \in DOMAIN answers'[k],
                 i < l, answers'[k][l].token # 0
          PROVE  answers'[k][i].token < answers'[k][l].token
      <4>1. l \in DOMAIN answers[k] /\ answers'[k][l] = answers[k][l]
        BY <1>10, <3>2
      <4>2. i \in DOMAIN answers[k] /\ answers'[k][i] = answers[k][i]
        <5>1. CASE answers'[k] = answers[k]
          BY <3>2, <5>1
        <5>2. CASE answers'[k] = Append(answers[k], failure)
          <6>1. DOMAIN answers'[k] = 1 .. Len(answers[k]) + 1
            BY <1>10, <1>8, <5>2
          <6>2. i \in DOMAIN answers[k]
            BY <1>10, <3>2, <4>1, <6>1
          <6> QED
            BY <1>10, <1>8, <5>2, <6>2
        <5> QED
          BY <1>9, <5>1, <5>2
      <4> QED
        BY <1>1, <3>2, <4>1, <4>2 DEF AnswerOK, AnswersInOrder
    <3> QED
      BY <2>2, <3>1, <3>2
  <2> QED
    BY <2>1, <2>2
<1>12. \A t \in Nat \ {0} : Below(answers[k], t) => Below(answers'[k], t)
  BY <1>10 DEF Below
<1>13. AnswerOK'
  <2> SUFFICES ASSUME NEW j \in Client, NEW n \in Conn, fd'[j] = n
               PROVE  /\ Live(n)' => \A r \in Carried(n) : Below(answers'[j], r.token)
                      /\ \A i \in DOMAIN down[n] :
                           /\ down[n][i].token <= Sent(j)'
                           /\ down[n][i].token # 0 => Below(answers'[j], down[n][i].token)
    BY <1>2, <1>11 DEF AnswerOK, Below
  <2>1. CASE j # k
    <3>1. fd[j] = n /\ n # 0 /\ answers'[j] = answers[j] /\ Sent(j)' = Sent(j)
      BY <1>4, <2>1 DEF Sent
    <3> QED
      BY <1>1, <3>1 DEF AnswerOK
  <2>2. CASE j = k /\ fd[k] = n
    <3>1. Sent(k) <= Sent(k)' /\ n # 0
      BY <1>4, <2>2
    <3>2. Live(n)' => \A r \in Carried(n) : Below(answers'[k], r.token)
      BY <1>1, <1>12, <2>2, <3>1, CarriedTyped DEF AnswerOK
    <3>3. ASSUME NEW i \in DOMAIN down[n]
          PROVE  /\ down[n][i].token <= Sent(k)'
                 /\ down[n][i].token # 0 => Below(answers'[k], down[n][i].token)
      <4>1. down[n][i].token \in Nat
        <5>1. down[n] \in Seq(Message)
          BY <1>1 DEF ConnTyped
        <5>2. down[n][i] \in Message
          BY <5>1
        <5> QED
          BY <5>2 DEF Message, Token
      <4>2. /\ down[n][i].token <= Sent(k)
            /\ down[n][i].token # 0 => Below(answers[k], down[n][i].token)
        BY <1>1, <2>2, <3>1 DEF AnswerOK
      <4> QED
        BY <1>3, <1>12, <3>1, <4>1, <4>2
    <3> QED
      BY <2>2, <3>2, <3>3
  <2>3. CASE j = k /\ up[n] = <<>> /\ down[n] = <<>> /\ serving[n] = <<>>
    BY <2>3 DEF Carried
  <2> QED
    BY <1>4, <2>1, <2>2, <2>3
<1>14. RanOK'
  <2>1. \A j \in Client, u \in Token : u > token'[j] => u > token[j]
    BY <1>3 DEF Token
  <2> QED
    BY <1>1, <2>1 DEF RanOK
<1> QED
  BY <1>5, <1>7, <1>13, <1>14
\* The answers of a client are as many as its requests, without the one its
\* thread is at; their tokens are below the next one.
LEMMA AnswersBelow ==
  ASSUME ShimTyped, AnswersInOrder, NEW k \in Client, shim[k] \in {"send", "recv", "backoff"}
  PROVE  /\ Below(answers[k], token[k]) /\ Len(answers[k]) = token[k] - 1
         /\ token[k] \in Token /\ token[k] \in Nat /\ answers[k] \in Seq(Answer)
<1>1. /\ answers[k] \in Seq(Answer) /\ Len(answers[k]) = token[k] - 1
      /\ token[k] \in {0} \cup Token
  BY DEF ShimTyped
<1>2. /\ Len(answers[k]) \in Nat /\ DOMAIN answers[k] = 1 .. Len(answers[k])
      /\ token[k] \in Nat /\ token[k] \in Token
  BY <1>1 DEF Token
<1>3. \A i \in DOMAIN answers[k] : answers[k][i].token \in Nat
  <2> SUFFICES ASSUME NEW i \in DOMAIN answers[k] PROVE answers[k][i].token \in Nat
    OBVIOUS
  <2>1. answers[k][i] \in Answer
    BY <1>1
  <2> QED
    BY <2>1 DEF Answer, Token
<1>4. Below(answers[k], token[k])
  BY <1>1, <1>2, <1>3 DEF AnswersInOrder, Below
<1> QED
  BY <1>1, <1>2, <1>4

\* What a client has yet to read.
LEMMA YetToRead ==
  ASSUME ConnTyped, AnswerOK, NEW k \in Client, NEW n \in Conn, fd[k] = n,
         NEW i \in DOMAIN down[n]
  PROVE  /\ down[n][i] \in Message /\ down[n][i].token \in Nat
         /\ down[n][i].token <= Sent(k)
         /\ down[n][i].token # 0 => Below(answers[k], down[n][i].token)
<1>1. down[n] \in Seq(Message)
  BY DEF ConnTyped
<1>2. down[n][i] \in Message
  BY <1>1
<1> QED
  BY <1>2 DEF Message, Token, AnswerOK

\* A request is written behind those that are there, on a connection that lives.
LEMMA SentKept ==
  ASSUME ChannelInv, ConnTyped', NEW k \in Client, NEW n \in Conn, NEW r \in Request,
         fd[k] = n, shim[k] = "send", Live(n), r.k = k, r.token = token[k],
         shim' = [shim EXCEPT ![k] = "recv"], up' = [up EXCEPT ![n] = Append(@, r)],
         UNCHANGED <<fd, token, answers, server, serving, down, ran>>
  PROVE  OwnerOK' /\ PipeOK' /\ AnswerOK' /\ RanOK'
<1>1. ShimTyped /\ ConnTyped /\ LinkOK /\ OwnerOK /\ PipeOK /\ AnswerOK /\ RanOK
  BY DEF ChannelInv, Shapes
<1>2. /\ up'[n] = Append(up[n], r) /\ up[n] \in Seq(Request)
      /\ \A m \in Conn : m # n => up'[m] = up[m]
  BY <1>1 DEF ConnTyped
<1>3. /\ Len(up[n]) \in Nat /\ DOMAIN up[n] = 1 .. Len(up[n])
      /\ DOMAIN up'[n] = 1 .. Len(up[n]) + 1 /\ up'[n][Len(up[n]) + 1] = r
      /\ \A i \in DOMAIN up[n] : up'[n][i] = up[n][i]
  BY <1>2
<1>4. /\ shim'[k] = "recv"
      /\ \A j \in Client : j # k => shim'[j] = shim[j]
  BY <1>1 DEF ShimTyped
<1>5. \A m \in Conn : (Live(m)' <=> Live(m)) /\ (m # n => Carried(m)' = Carried(m))
  BY <1>2 DEF Live, Carried
<1>6. \A q \in Carried(n)' : q \in Carried(n) \/ q = r
  <2> SUFFICES ASSUME NEW q \in Carried(n)' PROVE q \in Carried(n) \/ q = r
    OBVIOUS
  <2>1. CASE \E i \in DOMAIN up'[n] : q = up'[n][i]
    <3>1. PICK i \in DOMAIN up'[n] : q = up'[n][i]
      BY <2>1
    <3>2. i \in DOMAIN up[n] \/ i = Len(up[n]) + 1
      BY <1>3
    <3> QED
      BY <1>3, <3>1, <3>2 DEF Carried
  <2>2. CASE \E i \in DOMAIN serving[n] : q = serving[n][i]
    BY <2>2 DEF Carried
  <2> QED
    BY <2>1, <2>2 DEF Carried
<1>7. n # 0 /\ \A j \in Client : fd[j] = n => j = k
  BY <1>1 DEF LinkOK, Conn
<1>8. \A q \in Carried(n) : q.k = k /\ q.token \in Nat \ {0} /\ q.token < token[k]
  <2>1. Sent(k) = token[k] - 1 /\ token[k] \in Nat
    BY <1>1 DEF Sent, ShimTyped, Token
  <2> QED
    BY <1>1, <2>1, CarriedTyped DEF OwnerOK, PipeOK
<1>9. \A q \in Carried(n)' : q.k = k /\ q.token \in Nat \ {0} /\ q.token <= token[k]
  <2>1. r.token \in Nat \ {0}
    BY DEF Request, Token
  <2> QED
    BY <1>6, <1>8, <2>1
<1>10. \A m \in Conn : m # n /\ Live(m) => \A q \in Carried(m) : q.k # k /\ q.k \in Client
  BY <1>1, <1>4, CarriedTyped DEF OwnerOK
<1>11. OwnerOK'
  <2> SUFFICES ASSUME NEW m \in Conn, Live(m), NEW q \in Carried(m)'
               PROVE  /\ shim'[q.k] # "gone" => fd[q.k] = m
                      /\ \A j \in Client : fd[j] = m => q.k = j
                      /\ \A l \in Conn : Live(l) => \A s \in Carried(l)' : q.k = s.k => m = l
    BY <1>5 DEF OwnerOK
  <2>1. CASE m = n
    BY <1>5, <1>7, <1>9, <1>10, <2>1
  <2>2. CASE m # n
    BY <1>1, <1>4, <1>5, <1>9, <1>10, <2>2 DEF OwnerOK
  <2> QED
    BY <2>1, <2>2
<1>12. PipeOK'
  <2>1. Increasing(up[n])'
    <3> SUFFICES ASSUME NEW i \in DOMAIN up'[n], NEW j \in DOMAIN up'[n], i < j,
                        up'[n][j].token # 0
                 PROVE  up'[n][i].token < up'[n][j].token
      BY DEF Increasing
    <3>1. i \in DOMAIN up[n] /\ up'[n][i] = up[n][i] /\ up[n][i] \in Carried(n)
      BY <1>3 DEF Carried
    <3>2. CASE j \in DOMAIN up[n]
      BY <1>1, <1>3, <3>1, <3>2 DEF PipeOK, Increasing
    <3>3. CASE j = Len(up[n]) + 1
      BY <1>3, <1>8, <3>1, <3>3
    <3> QED
      BY <1>3, <3>2, <3>3
  <2>2. \A i \in DOMAIN serving[n], j \in DOMAIN up'[n] :
          serving[n][i].token < up'[n][j].token
    <3> SUFFICES ASSUME NEW i \in DOMAIN serving[n], NEW j \in DOMAIN up'[n]
                 PROVE  serving[n][i].token < up'[n][j].token
      OBVIOUS
    <3>1. CASE j \in DOMAIN up[n]
      BY <1>1, <1>3, <3>1 DEF PipeOK
    <3>2. CASE j = Len(up[n]) + 1
      <4>1. serving[n][i] \in Carried(n)
        BY DEF Carried
      <4> QED
        BY <1>3, <1>8, <3>2, <4>1
    <3> QED
      BY <1>3, <3>1, <3>2
  <2>3. \A q \in Carried(n)' : Below(down[n], q.token) /\ q.token <= Sent(q.k)'
    <3> SUFFICES ASSUME NEW q \in Carried(n)'
                 PROVE  Below(down[n], q.token) /\ q.token <= Sent(q.k)'
      OBVIOUS
    <3>1. Sent(k)' = token[k] /\ Sent(k) = token[k] - 1 /\ token[k] \in Nat
      BY <1>1, <1>4 DEF Sent, ShimTyped, Token
    <3>2. \A i \in DOMAIN down[n] : down[n][i].token < token[k]
      <4> SUFFICES ASSUME NEW i \in DOMAIN down[n] PROVE down[n][i].token < token[k]
        OBVIOUS
      <4>1. down[n][i].token \in Nat /\ down[n][i].token <= Sent(k)
        BY <1>1, YetToRead
      <4> QED
        BY <3>1, <4>1
    <3>3. CASE q \in Carried(n)
      BY <1>1, <1>9, <3>1, <3>3 DEF PipeOK
    <3>4. CASE q = r
      BY <3>1, <3>2, <3>4 DEF Below
    <3> QED
      BY <1>6, <3>3, <3>4
  <2>4. ASSUME NEW m \in Conn, m # n, Live(m)
        PROVE  /\ Increasing(up[m])'
               /\ \A i \in DOMAIN serving[m], j \in DOMAIN up'[m] :
                    serving[m][i].token < up'[m][j].token
               /\ \A q \in Carried(m)' : Below(down[m], q.token) /\ q.token <= Sent(q.k)'
    <3>1. \A q \in Carried(m) : Sent(q.k)' = Sent(q.k)
      BY <1>4, <1>10, <2>4 DEF Sent
    <3> QED
      BY <1>1, <1>2, <1>5, <2>4, <3>1 DEF PipeOK, Increasing
  <2> QED
    BY <1>1, <1>5, <2>1, <2>2, <2>3, <2>4 DEF PipeOK, Increasing, Below
<1>13. AnswerOK'
  <2>1. AnswersInOrder'
    BY <1>1 DEF AnswerOK, AnswersInOrder
  <2> SUFFICES ASSUME NEW j \in Client, NEW m \in Conn, fd[j] = m
               PROVE  /\ Live(m) => \A q \in Carried(m)' : Below(answers[j], q.token)
                      /\ \A i \in DOMAIN down[m] :
                           /\ down[m][i].token <= Sent(j)'
                           /\ down[m][i].token # 0 => Below(answers[j], down[m][i].token)
    BY <1>5, <2>1 DEF AnswerOK, Below
  <2>2. CASE j # k
    <3>1. m # n /\ Sent(j)' = Sent(j)
      BY <1>4, <1>7, <2>2 DEF Sent
    <3> QED
      BY <1>1, <1>5, <3>1 DEF AnswerOK
  <2>3. CASE j = k
    <3>1. /\ Sent(k)' = token[k] /\ Sent(k) = token[k] - 1 /\ token[k] \in Nat
          /\ m = n
      <4>1. token[k] \in Nat
        BY <1>1 DEF ShimTyped, Token
      <4> QED
        BY <1>4, <2>3, <4>1 DEF Sent
    <3>2. Below(answers[k], token[k])
      BY <1>1, <1>4, AnswersBelow DEF AnswerOK
    <3>3. \A q \in Carried(n)' : Below(answers[k], q.token)
      BY <1>1, <1>6, <3>2 DEF AnswerOK
    <3>4. ASSUME NEW i \in DOMAIN down[n]
          PROVE  /\ down[n][i].token <= token[k]
                 /\ down[n][i].token # 0 => Below(answers[k], down[n][i].token)
      <4>1. /\ down[n][i].token \in Nat /\ down[n][i].token <= Sent(k)
            /\ down[n][i].token # 0 => Below(answers[k], down[n][i].token)
        BY <1>1, YetToRead
      <4> QED
        BY <3>1, <4>1
    <3> QED
      BY <2>3, <3>1, <3>3, <3>4
  <2> QED
    BY <2>2, <2>3
<1>14. RanOK'
  <2>1. \A i \in DOMAIN up'[n], u \in Token :
          u > up'[n][i].token => ran[up'[n][i].k][u] = 0
    <3> SUFFICES ASSUME NEW i \in DOMAIN up'[n], NEW u \in Token, u > up'[n][i].token
                 PROVE  ran[up'[n][i].k][u] = 0
      OBVIOUS
    <3>1. CASE i \in DOMAIN up[n]
      BY <1>1, <1>3, <3>1 DEF RanOK
    <3>2. CASE i = Len(up[n]) + 1
      BY <1>1, <1>3, <3>2 DEF RanOK
    <3> QED
      BY <1>3, <3>1, <3>2
  <2> QED
    BY <1>1, <1>2, <1>5, <2>1 DEF RanOK
<1> QED
  BY <1>11, <1>12, <1>13, <1>14
\* The first message is read and given to the client as the answer.
LEMMA ReadKept ==
  ASSUME ChannelInv, NEW k \in Client, NEW n \in Conn, NEW msg \in Answer,
         fd[k] = n, shim[k] = "recv", down[n] # <<>>,
         msg.token = Head(down[n]).token,
         shim' = [shim EXCEPT ![k] = "idle"],
         down' = [down EXCEPT ![n] = Tail(@)],
         answers' = [answers EXCEPT ![k] = Append(@, msg)],
         UNCHANGED <<fd, token, server, serving, up, ran>>
  PROVE  OwnerOK' /\ PipeOK' /\ AnswerOK' /\ RanOK'
<1>1. ShimTyped /\ ConnTyped /\ LinkOK /\ OwnerOK /\ PipeOK /\ AnswerOK /\ RanOK
  BY DEF ChannelInv, Shapes
<1>2. /\ down[n] \in Seq(Message) /\ down'[n] = Tail(down[n])
      /\ \A m \in Conn : m # n => down'[m] = down[m]
  BY <1>1 DEF ConnTyped
<1>3. /\ Len(down[n]) \in Nat /\ DOMAIN down[n] = 1 .. Len(down[n])
      /\ 1 \in DOMAIN down[n] /\ msg.token = down[n][1].token
      /\ \A i \in DOMAIN down'[n] :
           i \in Nat /\ i + 1 \in DOMAIN down[n] /\ i + 1 > 1 /\ down'[n][i] = down[n][i + 1]
      /\ \A i, j \in DOMAIN down'[n] : i < j => i + 1 < j + 1
  <2>1. /\ Len(down[n]) \in Nat /\ DOMAIN down[n] = 1 .. Len(down[n]) /\ Len(down[n]) # 0
        /\ Head(down[n]) = down[n][1] /\ DOMAIN Tail(down[n]) = 1 .. Len(down[n]) - 1
        /\ \A i \in 1 .. Len(down[n]) - 1 : Tail(down[n])[i] = down[n][i + 1]
    BY <1>2
  <2>2. /\ DOMAIN down'[n] = 1 .. Len(down[n]) - 1
        /\ \A i \in DOMAIN down'[n] : down'[n][i] = down[n][i + 1]
    BY <1>2, <2>1
  <2> QED
    BY <2>1, <2>2
<1>4. /\ shim'[k] = "idle"
      /\ \A j \in Client : j # k => shim'[j] = shim[j]
  BY <1>1 DEF ShimTyped
<1>5. /\ Len(answers[k]) = token[k] - 1 /\ answers[k] \in Seq(Answer)
      /\ token[k] \in Nat /\ Below(answers[k], token[k])
  BY <1>1, AnswersBelow DEF AnswerOK
<1>6. /\ answers'[k] = Append(answers[k], msg)
      /\ \A j \in Client : j # k => answers'[j] = answers[j]
  BY <1>1 DEF ShimTyped
<1>7. /\ DOMAIN answers[k] = 1 .. token[k] - 1 /\ DOMAIN answers'[k] = 1 .. token[k]
      /\ answers'[k][token[k]] = msg /\ token[k] \in DOMAIN answers'[k]
      /\ \A i \in DOMAIN answers[k] : answers'[k][i] = answers[k][i]
  BY <1>5, <1>6
<1>8. n # 0 /\ \A j \in Client : fd[j] = n => j = k
  BY <1>1 DEF LinkOK, Conn
<1>9. \A j \in Client : Sent(j)' = Sent(j)
  BY <1>4 DEF Sent
<1>10. /\ msg.token \in Nat /\ msg.token <= token[k]
       /\ msg.token # 0 => Below(answers[k], msg.token)
  BY <1>1, <1>3, YetToRead DEF Sent
<1>11. OwnerOK'
  BY <1>1, <1>4 DEF OwnerOK, Live, Carried
<1>12. PipeOK'
  <2>1. Increasing(down[n])'
    BY <1>1, <1>3 DEF PipeOK, Increasing
  <2>2. Live(n) => \A r \in Carried(n) : Below(down'[n], r.token)
    BY <1>1, <1>3 DEF PipeOK, Below
  <2>3. \A m \in Conn : (Live(m)' <=> Live(m)) /\ Carried(m)' = Carried(m)
    BY DEF Live, Carried
  <2>4. ASSUME NEW m \in Conn, Live(m), NEW r \in Carried(m)
        PROVE  Below(down[m], r.token)' /\ r.token <= Sent(r.k)'
    <3>1. r.token <= Sent(r.k) /\ Sent(r.k)' = Sent(r.k)
      BY <1>1, <1>9, <2>4, CarriedTyped DEF PipeOK
    <3>2. Below(down[m], r.token)'
      BY <1>1, <1>2, <2>2, <2>4 DEF PipeOK, Below
    <3> QED
      BY <3>1, <3>2
  <2>5. \A m \in Conn : Increasing(down[m])'
    BY <1>1, <1>2, <2>1 DEF PipeOK, Increasing
  <2> QED
    BY <1>1, <2>3, <2>4, <2>5 DEF PipeOK, Increasing
<1>13. AnswersInOrder'
  <2> SUFFICES ASSUME NEW j \in Client
               PROVE  /\ \A i \in DOMAIN answers'[j] : answers'[j][i].token <= i
                      /\ \A i, l \in DOMAIN answers'[j] :
                           i < l /\ answers'[j][l].token # 0 =>
                             answers'[j][i].token < answers'[j][l].token
    BY DEF AnswersInOrder
  <2>1. CASE j # k
    BY <1>1, <1>6, <2>1 DEF AnswerOK, AnswersInOrder
  <2>2. CASE j = k
    <3>1. \A i \in DOMAIN answers'[k] : i \in DOMAIN answers[k] \/ i = token[k]
      BY <1>5, <1>7
    <3>2. \A i \in DOMAIN answers'[k] : answers'[k][i].token <= i
      BY <1>1, <1>7, <1>10, <3>1 DEF AnswerOK, AnswersInOrder
    <3>3. ASSUME NEW i \in DOMAIN answers'[k], NEW l \in DOMAIN answers'[k],
                 i < l, answers'[k][l].token # 0
          PROVE  answers'[k][i].token < answers'[k][l].token
      <4>1. i \in DOMAIN answers[k] /\ answers'[k][i] = answers[k][i]
        BY <1>5, <1>7, <3>3
      <4>2. CASE l \in DOMAIN answers[k]
        BY <1>1, <1>7, <3>3, <4>1, <4>2 DEF AnswerOK, AnswersInOrder
      <4>3. CASE l = token[k]
        BY <1>7, <1>10, <3>3, <4>1, <4>3 DEF Below
      <4> QED
        BY <3>1, <4>2, <4>3
    <3> QED
      BY <2>2, <3>2, <3>3
  <2> QED
    BY <2>1, <2>2
<1>14. AnswerOK'
  <2> SUFFICES ASSUME NEW j \in Client, NEW m \in Conn, fd[j] = m
               PROVE  /\ Live(m) => \A r \in Carried(m) : Below(answers'[j], r.token)
                      /\ \A i \in DOMAIN down'[m] :
                           /\ down'[m][i].token <= Sent(j)
                           /\ down'[m][i].token # 0 => Below(answers'[j], down'[m][i].token)
    <3>1. \A m \in Conn : (Live(m)' <=> Live(m)) /\ Carried(m)' = Carried(m)
      BY DEF Live, Carried
    <3> SUFFICES ASSUME NEW j \in Client, NEW m \in Conn, fd'[j] = m
                 PROVE  /\ Live(m)' => \A r \in Carried(m)' : Below(answers'[j], r.token)
                        /\ \A i \in DOMAIN down'[m] :
                             /\ down'[m][i].token <= Sent(j)'
                             /\ down'[m][i].token # 0 => Below(answers'[j], down'[m][i].token)
      BY <1>13 DEF AnswerOK, Below
    <3> QED
      BY <1>9, <3>1
  <2>1. CASE j # k
    <3>1. down'[m] = down[m] /\ answers'[j] = answers[j]
      BY <1>2, <1>6, <1>8, <2>1
    <3> QED
      BY <1>1, <3>1 DEF AnswerOK
  <2>2. CASE j = k
    <3>1. m = n
      BY <2>2
    <3>2. \A t : Below(answers[k], t) /\ msg.token < t => Below(answers'[k], t)
      BY <1>5, <1>7 DEF Below
    <3>3. Live(n) => \A r \in Carried(n) : Below(answers'[k], r.token)
      <4> SUFFICES ASSUME Live(n), NEW r \in Carried(n) PROVE Below(answers'[k], r.token)
        OBVIOUS
      <4>1. Below(answers[k], r.token) /\ msg.token < r.token
        BY <1>1, <1>3 DEF AnswerOK, PipeOK, Below
      <4> QED
        BY <3>2, <4>1
    <3>4. ASSUME NEW i \in DOMAIN down'[n]
          PROVE  /\ down'[n][i].token <= Sent(k)
                 /\ down'[n][i].token # 0 => Below(answers'[k], down'[n][i].token)
      <4>1. i + 1 \in DOMAIN down[n] /\ i + 1 > 1 /\ down'[n][i] = down[n][i + 1]
        BY <1>3
      <4>2. /\ down[n][i + 1].token <= Sent(k)
            /\ down[n][i + 1].token # 0 => Below(answers[k], down[n][i + 1].token)
        BY <1>1, <4>1, YetToRead
      <4>3. down[n][i + 1].token # 0 => msg.token < down[n][i + 1].token
        BY <1>1, <1>3, <4>1 DEF PipeOK, Increasing
      <4> QED
        BY <3>2, <4>1, <4>2, <4>3
    <3> QED
      BY <2>2, <3>1, <3>3, <3>4
  <2> QED
    BY <2>1, <2>2
<1>15. RanOK'
  BY <1>1 DEF RanOK, Live
<1> QED
  BY <1>11, <1>12, <1>14, <1>15
\* The thread of client k goes to state s, with connection f, request t, answers
\* a and c failed attempts.
Turn(k, s, f, t, a, c) ==
  /\ shim' = [shim EXCEPT ![k] = s] /\ fd' = [fd EXCEPT ![k] = f]
  /\ token' = [token EXCEPT ![k] = t] /\ answers' = [answers EXCEPT ![k] = a]
  /\ tries' = [tries EXCEPT ![k] = c]

States == {"connect", "second", "idle", "send", "recv", "backoff", "gone"}
Tried(s, c) ==
  /\ c \in 0 .. Retries + Attempts
  /\ s = "connect" => c < Attempts
  /\ s = "backoff" => c < Retries
  /\ s \in {"second", "idle", "send", "recv"} => c <= Retries
Open(s) == IF s \in {"send", "recv", "backoff"} THEN 1 ELSE 0

\* No answer is added, or a failure.
Answered(k, a) ==
  a \in {answers[k], Append(answers[k], [m |-> "failure", token |-> 0])}

\* The connection is a new one, or the one it had, or none.
Linked(k, s, f) ==
  \/ /\ f \in Conn /\ bridge_connect(f) /\ UNCHANGED shut
     /\ fd[k] = 0 /\ s \in {"second", "send"}
  \/ /\ UNCHANGED <<opened, server>>
     /\ f = fd[k] \/ (f = 0 /\ (s = "gone" \/ ~Live(fd[k])))
     /\ s \in {"second", "send", "recv"} => f # 0
     /\ s \in {"connect", "backoff", "gone"} => f = 0

LEMMA TurnTyped ==
  ASSUME ShimTyped, TriesTyped, NEW k \in Client, NEW s \in States,
         NEW f \in {0} \cup Conn, NEW t \in {0} \cup Token, NEW a \in Seq(Answer), NEW c,
         Turn(k, s, f, t, a, c), Tried(s, c), Len(a) = t - Open(s),
         t <= Len(program[k]), listening' \subseteq Client, program' = program
  PROVE  /\ ShimTyped' /\ TriesTyped'
         /\ shim'[k] = s /\ fd'[k] = f /\ token'[k] = t /\ answers'[k] = a
         /\ \A j \in Client : j # k => /\ shim'[j] = shim[j] /\ fd'[j] = fd[j]
                                       /\ token'[j] = token[j] /\ answers'[j] = answers[j]
<1>1. /\ shim \in [Client -> States] /\ fd \in [Client -> {0} \cup Conn]
      /\ token \in [Client -> {0} \cup Token] /\ answers \in [Client -> Seq(Answer)]
      /\ tries \in [Client -> 0 .. Retries + Attempts] /\ program \in [Client -> Programs]
  BY DEF ShimTyped, TriesTyped, States
<1>2. /\ shim' \in [Client -> States] /\ fd' \in [Client -> {0} \cup Conn]
      /\ token' \in [Client -> {0} \cup Token] /\ answers' \in [Client -> Seq(Answer)]
      /\ tries' \in [Client -> 0 .. Retries + Attempts]
  BY <1>1 DEF Turn, Tried
<1>3. /\ shim'[k] = s /\ fd'[k] = f /\ token'[k] = t /\ answers'[k] = a /\ tries'[k] = c
      /\ \A j \in Client : j # k => /\ shim'[j] = shim[j] /\ fd'[j] = fd[j]
                                    /\ token'[j] = token[j] /\ answers'[j] = answers[j]
                                    /\ tries'[j] = tries[j]
  BY <1>1 DEF Turn
<1>4. \A j \in Client : /\ Len(answers'[j]) = token'[j] - Open(shim'[j])
                        /\ token'[j] <= Len(program'[j])
  <2>1. \A j \in Client : Len(answers[j]) = token[j] - Open(shim[j])
                          /\ token[j] <= Len(program[j])
    BY DEF ShimTyped, Open
  <2> SUFFICES ASSUME NEW j \in Client
               PROVE  /\ Len(answers'[j]) = token'[j] - Open(shim'[j])
                      /\ token'[j] <= Len(program[j])
    OBVIOUS
  <2> QED
    BY <1>3, <2>1
<1>5. ShimTyped'
  BY <1>1, <1>2, <1>4 DEF ShimTyped, States, Open
<1>6. TriesTyped'
  BY <1>2, <1>3 DEF TriesTyped, Tried
<1> QED
  BY <1>3, <1>5, <1>6

\* A connection nobody used.
LEMMA OpenedKept ==
  ASSUME ConnTyped, ShimTyped, LinkOK, NEW k \in Client, NEW n \in Conn, ShimTyped',
         bridge_connect(n), UNCHANGED <<up, down, shut, serving>>,
         fd'[k] = n, shim'[k] \in {"second", "send"},
         \A j \in Client : j # k => shim'[j] = shim[j] /\ fd'[j] = fd[j]
  PROVE  /\ ConnTyped' /\ LinkOK' /\ \A m \in Conn : Live(m)' => Live(m)
         /\ up[n] = <<>> /\ down[n] = <<>> /\ serving[n] = <<>>
<1>1. /\ opened \in 0 .. MaxConn /\ n = opened + 1 /\ opened' = n /\ MaxConn \in Nat
      /\ server' = [server EXCEPT ![n] = "backlog"] /\ \A m \in Conn : m \in Nat
  BY ChannelAssumption DEF bridge_connect, ConnTyped, Conn
<1>2. ConnTyped'
  BY <1>1 DEF ConnTyped, Conn
<1>3. /\ server[n] = "unused" /\ up[n] = <<>> /\ down[n] = <<>> /\ serving[n] = <<>>
  BY <1>1 DEF LinkOK
<1>4. /\ server'[n] = "backlog" /\ \A m \in Conn : m # n => server'[m] = server[m]
  BY <1>1 DEF ConnTyped
<1>5. \A m \in Conn : m > n <=> m > opened /\ m # n
  BY <1>1
<1>6. \A m \in Conn : /\ server'[m] = "unused" <=> m > opened'
                      /\ m > opened' => up'[m] = <<>> /\ down'[m] = <<>>
                      /\ serving'[m] # <<>> <=> server'[m] = "eUICC"
  BY <1>1, <1>3, <1>4, <1>5 DEF LinkOK
<1>7. \A j \in Client : fd[j] <= opened /\ fd[j] \in Nat
  <2>1. \A j \in Client : fd[j] <= opened /\ fd[j] \in {0} \cup Conn
    BY DEF LinkOK, ShimTyped
  <2>2. \A m \in {0} \cup Conn : m \in Nat
    BY DEF Conn
  <2> QED
    BY <2>1, <2>2
<1>8. \A j \in Client :
        /\ fd'[j] <= opened'
        /\ \A i \in Client : fd'[i] = fd'[j] /\ fd'[j] # 0 => i = j
        /\ shim'[j] \in {"second", "send", "recv"} => fd'[j] # 0
        /\ shim'[j] \in {"connect", "backoff", "gone"} => fd'[j] = 0
  <2>1. \A j \in Client : j # k => fd'[j] # n /\ fd'[j] <= n
    BY <1>1, <1>7
  <2>2. n # 0 /\ n <= n
    BY <1>1
  <2> QED
    BY <1>1, <2>1, <2>2 DEF LinkOK
<1>9. LinkOK'
  BY <1>6, <1>8 DEF LinkOK
<1> QED
  BY <1>2, <1>3, <1>4, <1>9 DEF Live

\* A step of the thread of client k that neither sends nor reads.
LEMMA TurnKept ==
  ASSUME ChannelInv, NEW k \in Client, NEW s \in States, NEW f \in {0} \cup Conn,
         NEW t \in {0} \cup Token, NEW a, NEW c, Turn(k, s, f, t, a, c), Tried(s, c),
         UNCHANGED <<radioVars, program, up, down, serving, alive, losses, ran>>,
         listening' \subseteq Client, cut' \subseteq Client \X Token, shut' \subseteq Conn,
         shim[k] # "gone", token[k] <= t, t <= Len(program[k]), Len(a) = t - Open(s),
         Answered(k, a), Linked(k, s, f),
         fd[k] = 0 \/ Sent(k) <= (IF s = "send" THEN t - 1 ELSE t)
  PROVE  ChannelInv'
<1>1. ShimTyped /\ TriesTyped /\ ConnTyped /\ RunTyped /\ LinkOK /\ RadioInv
  BY DEF ChannelInv, Shapes
<1>2. a \in Seq(Answer)
  <2>1. answers[k] \in Seq(Answer) /\ [m |-> "failure", token |-> 0] \in Answer
    BY <1>1 DEF ShimTyped, Answer
  <2> DEFINE failure == [m |-> "failure", token |-> 0]
  <2>2. a \in {answers[k], Append(answers[k], failure)} /\ failure \in Answer
    BY <2>1 DEF Answered
  <2> HIDE DEF failure
  <2> QED
    BY <2>1, <2>2
<1>3. /\ ShimTyped' /\ TriesTyped'
      /\ shim'[k] = s /\ fd'[k] = f /\ token'[k] = t /\ answers'[k] = a
      /\ \A j \in Client : j # k => /\ shim'[j] = shim[j] /\ fd'[j] = fd[j]
                                    /\ token'[j] = token[j] /\ answers'[j] = answers[j]
  BY <1>1, <1>2, TurnTyped
<1>4. Sent(k)' = IF s = "send" THEN t - 1 ELSE t
  BY <1>3 DEF Sent
<1>5. RunTyped'
  BY <1>1 DEF RunTyped
<1>6. RadioInv'
  BY <1>1, RadioUnmoved
<1>7. CASE f \in Conn /\ bridge_connect(f) /\ UNCHANGED shut
           /\ fd[k] = 0 /\ s \in {"second", "send"}
  <2>1. /\ ConnTyped' /\ LinkOK' /\ \A m \in Conn : Live(m)' => Live(m)
        /\ up[f] = <<>> /\ down[f] = <<>> /\ serving[f] = <<>>
    BY <1>1, <1>3, <1>7, OpenedKept
  <2>2. OwnerOK' /\ PipeOK' /\ AnswerOK' /\ RanOK'
    BY <1>3, <1>7, <2>1, IdleKept DEF Answered
  <2> QED
    BY <1>3, <1>5, <1>6, <2>1, <2>2 DEF ChannelInv, Shapes
<1>8. CASE /\ UNCHANGED <<opened, server>>
           /\ f = fd[k] \/ (f = 0 /\ (s = "gone" \/ ~Live(fd[k])))
           /\ s \in {"second", "send", "recv"} => f # 0
           /\ s \in {"connect", "backoff", "gone"} => f = 0
  <2>1. ConnTyped'
    BY <1>1, <1>8 DEF ConnTyped
  <2>2. \A j \in Client :
          /\ fd'[j] <= opened'
          /\ \A i \in Client : fd'[i] = fd'[j] /\ fd'[j] # 0 => i = j
          /\ shim'[j] \in {"second", "send", "recv"} => fd'[j] # 0
          /\ shim'[j] \in {"connect", "backoff", "gone"} => fd'[j] = 0
    <3>1. fd'[k] = fd[k] \/ fd'[k] = 0
      BY <1>3, <1>8
    <3>2. opened >= 0 /\ opened' = opened
      BY <1>1, <1>8, ChannelAssumption DEF ConnTyped
    <3> QED
      BY <1>1, <1>3, <1>8, <3>1, <3>2 DEF LinkOK
  <2>3. LinkOK'
    BY <1>1, <1>8, <2>2 DEF LinkOK
  <2>4. OwnerOK' /\ PipeOK' /\ AnswerOK' /\ RanOK'
    <3>1. \A m \in Conn : Live(m)' => Live(m)
      BY <1>8 DEF Live
    <3>2. fd'[k] = fd[k] \/ (fd'[k] = 0 /\ (shim'[k] = "gone" \/ ~Live(fd[k])))
      BY <1>3, <1>8
    <3> QED
      BY <1>3, <1>4, <3>1, <3>2, IdleKept DEF Answered
  <2> QED
    BY <1>3, <1>5, <1>6, <2>1, <2>3, <2>4 DEF ChannelInv, Shapes
<1> QED
  BY <1>7, <1>8 DEF Linked

\* What the thread of a client leaves as it is.
LEMMA Same ==
  ASSUME ShimTyped, TriesTyped, NEW k \in Client
  PROVE  /\ fd = [fd EXCEPT ![k] = fd[k]] /\ token = [token EXCEPT ![k] = token[k]]
         /\ answers = [answers EXCEPT ![k] = answers[k]]
         /\ tries = [tries EXCEPT ![k] = tries[k]] /\ shim = [shim EXCEPT ![k] = shim[k]]
         /\ fd[k] \in {0} \cup Conn /\ token[k] \in {0} \cup Token /\ token[k] \in Nat
         /\ token[k] <= Len(program[k])
         /\ answers[k] \in Seq(Answer) /\ Len(answers[k]) = token[k] - Open(shim[k])
         /\ tries[k] \in 0 .. Retries + Attempts
BY DEF ShimTyped, TriesTyped, Token, Open

\* The request a client's thread is at is one of its program.
LEMMA RequestMade ==
  ASSUME ShimTyped, NEW k \in Client, token[k] \in Token
  PROVE  program[k][token[k]] \in Kinds
<1>1. program[k] \in Seq(Kinds) /\ token[k] \in 1 .. Len(program[k])
  BY ChannelAssumption DEF ShimTyped, Token
<1> QED
  BY <1>1

\* A thread whose connection is lost goes on with a pause, or answers.
LEMMA LostTurns ==
  ASSUME ShimTyped, TriesTyped, NEW k \in Client, shim[k] \in {"send", "recv", "backoff"},
         NEW c \in Nat, c <= Retries, lost(k, c), fd' = [fd EXCEPT ![k] = 0],
         UNCHANGED token, tries' = [tries EXCEPT ![k] = c]
  PROVE  \E s \in States, a \in Seq(Answer) :
           /\ Turn(k, s, 0, token[k], a, c) /\ Tried(s, c) /\ s \in {"idle", "backoff"}
           /\ Len(a) = token[k] - Open(s) /\ Answered(k, a)
<1> DEFINE failure == [m |-> "failure", token |-> 0]
<1>1. /\ answers = [answers EXCEPT ![k] = answers[k]]
      /\ token' = [token EXCEPT ![k] = token[k]]
      /\ answers[k] \in Seq(Answer) /\ token[k] \in Nat /\ Len(answers[k]) = token[k] - 1
  BY Same DEF Open
<1>2. failure \in Answer
  BY DEF Answer
<1>3. c \in 0 .. Retries + Attempts
  BY ChannelAssumption
<1>4. CASE c >= Retries
  <2>1. /\ answers' = [answers EXCEPT ![k] = Append(answers[k], failure)]
        /\ shim' = [shim EXCEPT ![k] = "idle"]
    BY <1>4 DEF lost, answer
  <2> HIDE DEF failure
  <2>2. /\ Len(Append(answers[k], failure)) = token[k] - Open("idle")
        /\ Append(answers[k], failure) \in Seq(Answer)
    BY <1>1, <1>2 DEF Open
  <2>3. Turn(k, "idle", 0, token[k], Append(answers[k], failure), c)
    BY <1>1, <2>1 DEF Turn
  <2>4. Tried("idle", c) /\ "idle" \in States
    BY <1>3 DEF Tried, States
  <2>5. Answered(k, Append(answers[k], failure))
    BY DEF Answered, failure
  <2> QED
    BY <2>2, <2>3, <2>4, <2>5
<1>5. CASE ~(c >= Retries)
  <2>1. shim' = [shim EXCEPT ![k] = "backoff"] /\ UNCHANGED answers
    BY <1>5 DEF lost
  <2>2. Turn(k, "backoff", 0, token[k], answers[k], c)
    BY <1>1, <2>1 DEF Turn
  <2>3. c < Retries
    BY <1>5, ChannelAssumption
  <2>4. Tried("backoff", c) /\ "backoff" \in States
    BY <1>3, <2>3 DEF Tried, States
  <2>5. Len(answers[k]) = token[k] - Open("backoff") /\ Answered(k, answers[k])
    BY <1>1 DEF Open, Answered
  <2> QED
    BY <1>1, <2>2, <2>4, <2>5
<1> QED
  BY <1>4, <1>5

\* The thread connects, for requests and for indications; RILJ leaves, or makes
\* a request.
LEMMA ConnectKept ==
  ASSUME ChannelInv, NEW k \in Client, client_connect(k)
  PROVE  ChannelInv'
<1>1. ShimTyped /\ TriesTyped /\ RunTyped /\ ConnTyped /\ LinkOK
  BY DEF ChannelInv, Shapes
<1>2. /\ shim[k] = "connect" /\ fd[k] = 0
      /\ UNCHANGED <<radioVars, listening, program, token, answers, up, down, shut,
                     serving, alive, losses, ran, cut>>
  BY <1>1 DEF client_connect, LinkOK
<1>3. /\ listening' \subseteq Client /\ cut' \subseteq Client \X Token /\ shut' \subseteq Conn
  BY <1>1, <1>2 DEF ShimTyped, RunTyped, ConnTyped
<1>4. /\ token' = [token EXCEPT ![k] = token[k]]
      /\ answers' = [answers EXCEPT ![k] = answers[k]]
      /\ token[k] \in {0} \cup Token /\ token[k] <= token[k] /\ token[k] <= Len(program[k])
      /\ tries[k] \in 0 .. Retries + Attempts /\ tries[k] < Attempts
  <2>1. token[k] \in Nat
    BY <1>1, Same
  <2> QED
    BY <1>1, <1>2, <2>1, Same DEF TriesTyped
<1>5. Len(answers[k]) = token[k] - Open("connect") /\ Answered(k, answers[k])
  BY <1>1, <1>2, Same DEF Answered
<1>6. ASSUME NEW n \in Conn, bridge_connect(n), fd' = [fd EXCEPT ![k] = n],
             shim' = [shim EXCEPT ![k] = "second"], tries' = [tries EXCEPT ![k] = 0]
      PROVE  ChannelInv'
  <2>1. Turn(k, "second", n, token[k], answers[k], 0)
    BY <1>4, <1>6 DEF Turn
  <2>2. Tried("second", 0) /\ "second" \in States /\ Open("second") = Open("connect")
    BY ChannelAssumption DEF Tried, States, Open
  <2>3. Linked(k, "second", n)
    BY <1>2, <1>6 DEF Linked
  <2> QED
    BY <1>2, <1>3, <1>4, <1>5, <2>1, <2>2, <2>3, TurnKept
<1>7. ASSUME tries' = [tries EXCEPT ![k] = @ + 1],
             shim' = [shim EXCEPT ![k] =
                        IF tries[k] + 1 < Attempts THEN "connect" ELSE "gone"],
             UNCHANGED <<fd, opened, server>>
      PROVE  ChannelInv'
  <2> DEFINE s == IF tries[k] + 1 < Attempts THEN "connect" ELSE "gone"
  <2>1. fd' = [fd EXCEPT ![k] = 0]
    BY <1>1, <1>2, <1>7, Same
  <2>2. Turn(k, s, 0, token[k], answers[k], tries[k] + 1)
    BY <1>4, <1>7, <2>1 DEF Turn
  <2>3. Tried(s, tries[k] + 1) /\ s \in States /\ Open(s) = Open("connect")
    BY <1>4, ChannelAssumption DEF Tried, States, Open
  <2>4. Linked(k, s, 0)
    BY <1>2, <1>7 DEF Linked
  <2> HIDE DEF s
  <2> QED
    BY <1>2, <1>3, <1>4, <1>5, <2>2, <2>3, <2>4, TurnKept
<1> QED
  BY <1>6, <1>7 DEF client_connect
LEMMA SecondKept ==
  ASSUME ChannelInv, NEW k \in Client, client_second(k) \/ client_leaves(k)
  PROVE  ChannelInv'
<1>1. ShimTyped /\ TriesTyped /\ RunTyped /\ ConnTyped /\ LinkOK
  BY DEF ChannelInv, Shapes
<1>2. PICK s \in {"idle", "gone"} :
        /\ shim[k] \in {"second", "idle"} /\ shim' = [shim EXCEPT ![k] = s]
        /\ s = "idle" => UNCHANGED fd /\ shut' = shut
        /\ s = "gone" => fd' = [fd EXCEPT ![k] = 0] /\ shut' = shut \cup ({fd[k]} \ {0})
        /\ listening' \subseteq listening \cup {k}
        /\ UNCHANGED <<radioVars, tries, program, token, answers, opened, server, up, down,
                       serving, alive, losses, ran, cut>>
  BY DEF client_second, client_leaves, connVars
<1>3. /\ token' = [token EXCEPT ![k] = token[k]]
      /\ answers' = [answers EXCEPT ![k] = answers[k]]
      /\ tries' = [tries EXCEPT ![k] = tries[k]] /\ token[k] \in Nat
      /\ token[k] \in {0} \cup Token /\ fd[k] \in {0} \cup Conn
      /\ token[k] <= Len(program[k])
  BY <1>1, <1>2, Same
<1>4. /\ listening' \subseteq Client /\ cut' \subseteq Client \X Token /\ shut' \subseteq Conn
  BY <1>1, <1>2, <1>3 DEF ShimTyped, RunTyped, ConnTyped
<1>5. Tried(s, tries[k]) /\ s \in States
  BY <1>1, <1>2 DEF TriesTyped, Tried, States
<1>6. Len(answers[k]) = token[k] - Open(s) /\ Answered(k, answers[k])
  BY <1>1, <1>2, Same DEF Answered, Open
<1>7. Sent(k) = token[k]
  BY <1>2 DEF Sent
<1>8. /\ shim[k] # "gone" /\ token[k] <= token[k]
      /\ Sent(k) <= (IF s = "send" THEN token[k] - 1 ELSE token[k])
  BY <1>2, <1>3, <1>7
<1>9. CASE s = "idle"
  <2>1. Turn(k, s, fd[k], token[k], answers[k], tries[k])
    BY <1>1, <1>2, <1>3, <1>9, Same DEF Turn
  <2>2. Linked(k, s, fd[k])
    BY <1>2, <1>9 DEF Linked
  <2> QED
    BY <1>2, <1>3, <1>4, <1>5, <1>6, <1>8, <2>1, <2>2, TurnKept
<1>10. CASE s = "gone"
  <2>1. Turn(k, s, 0, token[k], answers[k], tries[k])
    BY <1>2, <1>3, <1>10 DEF Turn
  <2>2. Linked(k, s, 0)
    BY <1>2, <1>10 DEF Linked
  <2> QED
    BY <1>2, <1>3, <1>4, <1>5, <1>6, <1>8, <2>1, <2>2, TurnKept
<1> QED
  BY <1>9, <1>10

LEMMA RequestKept ==
  ASSUME ChannelInv, NEW k \in Client, read_request(k)
  PROVE  ChannelInv'
<1>1. ShimTyped /\ TriesTyped /\ RunTyped /\ ConnTyped /\ LinkOK
  BY DEF ChannelInv, Shapes
<1> DEFINE s == IF fd[k] # 0 THEN "send" ELSE "backoff"
           t == token[k] + 1
<1>2. /\ shim[k] = "idle" /\ token[k] < Len(program[k])
      /\ token' = [token EXCEPT ![k] = token[k] + 1]
      /\ tries' = [tries EXCEPT ![k] = 0] /\ shim' = [shim EXCEPT ![k] = s]
      /\ UNCHANGED <<radioVars, fd, listening, program, answers, connVars, alive, losses,
                     ran, cut>>
  BY DEF read_request
<1>3. /\ opened' = opened /\ server' = server /\ up' = up /\ down' = down
      /\ shut' = shut /\ serving' = serving
  BY <1>2 DEF connVars
<1>4. /\ fd' = [fd EXCEPT ![k] = fd[k]] /\ answers' = [answers EXCEPT ![k] = answers[k]]
      /\ fd[k] \in {0} \cup Conn /\ token[k] \in Nat /\ Len(answers[k]) = token[k]
  BY <1>1, <1>2, Same DEF Open
<1>5. t \in {0} \cup Token /\ t <= Len(program[k])
  <2>1. program[k] \in Programs
    BY <1>1 DEF ShimTyped
  <2>2. Len(program[k]) <= MaxRequests /\ Len(program[k]) \in Nat /\ MaxRequests \in Nat
    BY <2>1, ChannelAssumption
  <2> QED
    BY <1>2, <1>4, <2>2 DEF Token
<1>6. /\ listening' \subseteq Client /\ cut' \subseteq Client \X Token /\ shut' \subseteq Conn
  BY <1>1, <1>2, <1>3 DEF ShimTyped, RunTyped, ConnTyped
<1>7. Turn(k, s, fd[k], t, answers[k], 0)
  BY <1>2, <1>4 DEF Turn
<1>8. Tried(s, 0) /\ s \in States /\ Linked(k, s, fd[k]) /\ Answered(k, answers[k])
  <2>1. s \in {"send", "backoff"} /\ (s = "backoff" <=> fd[k] = 0)
    OBVIOUS
  <2> HIDE DEF s
  <2>2. Tried(s, 0) /\ s \in States
    BY <2>1, ChannelAssumption DEF Tried, States
  <2>3. Linked(k, s, fd[k])
    BY <1>3, <2>1 DEF Linked
  <2> QED
    BY <2>2, <2>3 DEF Answered
<1>9. Len(answers[k]) = t - Open(s) /\ token[k] <= t
  BY <1>4 DEF Open
<1>10. Sent(k) <= (IF s = "send" THEN t - 1 ELSE t)
  BY <1>2, <1>4 DEF Sent
<1> HIDE DEF s, t
<1>11. shim[k] # "gone"
  BY <1>2
<1> QED
  BY <1>2, <1>3, <1>4, <1>5, <1>6, <1>7, <1>8, <1>9, <1>10, <1>11, TurnKept
\* The thread writes the request, or finds the connection closed.
LEMMA SendKept ==
  ASSUME ChannelInv, NEW k \in Client, bridge_send(k)
  PROVE  ChannelInv'
<1>1. /\ ShimTyped /\ TriesTyped /\ RunTyped /\ ConnTyped /\ LinkOK /\ RadioInv
      /\ AnswersInOrder
  BY DEF ChannelInv, Shapes, AnswerOK
<1>2. /\ shim[k] = "send"
      /\ UNCHANGED <<radioVars, listening, tries, program, token, opened, server, down,
                     serving, alive, losses, ran>>
  BY DEF bridge_send
<1>3. PICK n \in Conn : fd[k] = n
  BY <1>1, <1>2 DEF ShimTyped, LinkOK
<1>4. /\ token' = [token EXCEPT ![k] = token[k]] /\ tries' = [tries EXCEPT ![k] = tries[k]]
      /\ answers = [answers EXCEPT ![k] = answers[k]] /\ fd = [fd EXCEPT ![k] = fd[k]]
      /\ tries[k] \in Nat /\ tries[k] <= Retries
      /\ token[k] \in Token /\ token[k] \in Nat /\ Len(answers[k]) = token[k] - 1
      /\ answers[k] \in Seq(Answer) /\ token[k] <= Len(program[k])
  <2>1. tries[k] <= Retries /\ tries[k] \in 0 .. Retries + Attempts
    BY <1>1, <1>2 DEF TriesTyped
  <2>2. tries[k] \in Nat
    BY <2>1, ChannelAssumption
  <2> QED
    BY <1>1, <1>2, <2>1, <2>2, Same, AnswersBelow
<1>5. listening' \subseteq Client
  BY <1>1, <1>2 DEF ShimTyped
<1>6. Sent(k) = token[k] - 1
  BY <1>2 DEF Sent
<1>7. ASSUME shim' = [shim EXCEPT ![k] = "recv"], UNCHANGED <<fd, answers, shut>>
      PROVE  /\ ShimTyped' /\ TriesTyped'
             /\ Turn(k, "recv", fd[k], token[k], answers[k], tries[k])
             /\ Tried("recv", tries[k]) /\ "recv" \in States
             /\ Len(answers[k]) = token[k] - Open("recv")
  <2>1. Turn(k, "recv", fd[k], token[k], answers[k], tries[k])
    BY <1>4, <1>7 DEF Turn
  <2>2. Tried("recv", tries[k]) /\ "recv" \in States
    BY <1>4, ChannelAssumption DEF Tried, States
  <2>3. Len(answers[k]) = token[k] - Open("recv")
    BY <1>4 DEF Open
  <2> QED
    BY <1>1, <1>2, <1>3, <1>4, <1>5, <2>1, <2>2, <2>3, TurnTyped
<1>8. ASSUME shim' = [shim EXCEPT ![k] = "recv"], UNCHANGED <<fd, answers, shut, up>>,
             cut' = cut \cup {<<k, token[k]>>}
      PROVE  ChannelInv'
  <2>1. Linked(k, "recv", fd[k])
    BY <1>2, <1>3, <1>8 DEF Linked, Conn
  <2>2. cut' \subseteq Client \X Token /\ shut' \subseteq Conn
    BY <1>1, <1>4, <1>8 DEF RunTyped, ConnTyped
  <2>3. Answered(k, answers[k])
    BY DEF Answered
  <2>4. Sent(k) <= token[k] /\ token[k] <= token[k] /\ shim[k] # "gone"
    BY <1>2, <1>4, <1>6
  <2> QED
    BY <1>2, <1>3, <1>4, <1>5, <1>7, <1>8, <2>1, <2>2, <2>3, <2>4, TurnKept
<1>9. ASSUME shim' = [shim EXCEPT ![k] = "recv"], UNCHANGED <<fd, answers, shut, cut>>,
             ~Closed(n),
             up' = [up EXCEPT ![n] = Append(@,
                      [k |-> k, token |-> token[k], kind |-> program[k][token[k]]])]
      PROVE  ChannelInv'
  <2> DEFINE r == [k |-> k, token |-> token[k], kind |-> program[k][token[k]]]
  <2>1. r \in Request /\ r.k = k /\ r.token = token[k]
    <3>1. program[k][token[k]] \in Kinds
      BY <1>1, <1>4, RequestMade
    <3> QED
      BY <1>4, <3>1 DEF Request
  <2>2. up' = [up EXCEPT ![n] = Append(@, r)]
    BY <1>9
  <2> HIDE DEF r
  <2>3. ConnTyped'
    BY <1>1, <1>2, <1>9, <2>1, <2>2 DEF ConnTyped
  <2>4. OwnerOK' /\ PipeOK' /\ AnswerOK' /\ RanOK'
    BY <1>2, <1>3, <1>9, <2>1, <2>2, <2>3, SentKept DEF Live, Closed
  <2>5. RunTyped'
    BY <1>1, <1>2, <1>9 DEF RunTyped
  <2>6. RadioInv'
    BY <1>1, <1>2, RadioUnmoved
  <2>7. LinkOK'
    <3>1. \A m \in Conn : m > opened => up'[m] = up[m]
      <4>1. ~(n > opened)
        BY <1>3, <1>1, <1>9 DEF LinkOK, ConnTyped, Conn
      <4> QED
        BY <1>1, <2>2, <4>1 DEF ConnTyped
    <3>2. shim'[k] = "recv" /\ \A j \in Client : j # k => shim'[j] = shim[j]
      BY <1>1, <1>9 DEF ShimTyped
    <3> QED
      BY <1>1, <1>2, <1>3, <1>9, <3>1, <3>2 DEF LinkOK
  <2> QED
    BY <1>7, <1>9, <2>3, <2>4, <2>5, <2>6, <2>7 DEF ChannelInv, Shapes
<1>10. ASSUME Closed(n), shut' = shut \cup {n}, fd' = [fd EXCEPT ![k] = 0],
              lost(k, tries[k]), UNCHANGED <<up, cut>>
       PROVE  ChannelInv'
  <2>1. PICK s \in States, a \in Seq(Answer) :
          /\ Turn(k, s, 0, token[k], a, tries[k]) /\ Tried(s, tries[k])
          /\ s \in {"idle", "backoff"} /\ Len(a) = token[k] - Open(s) /\ Answered(k, a)
    BY <1>1, <1>2, <1>4, <1>10, LostTurns
  <2>2. Linked(k, s, 0)
    BY <1>2, <1>3, <1>10, <2>1 DEF Linked, Live, Closed
  <2>3. cut' \subseteq Client \X Token /\ shut' \subseteq Conn
    BY <1>1, <1>10 DEF RunTyped, ConnTyped
  <2>4. /\ Sent(k) <= (IF s = "send" THEN token[k] - 1 ELSE token[k])
        /\ token[k] <= token[k] /\ shim[k] # "gone"
    BY <1>2, <1>4, <1>6
  <2> QED
    BY <1>2, <1>4, <1>5, <1>10, <2>1, <2>2, <2>3, <2>4, TurnKept
<1> QED
  BY <1>3, <1>8, <1>9, <1>10 DEF bridge_send
\* The thread reads the response, or finds that the connection is dead.
LEMMA RecvKept ==
  ASSUME ChannelInv, NEW k \in Client, bridge_recv(k)
  PROVE  ChannelInv'
<1>1. /\ ShimTyped /\ TriesTyped /\ RunTyped /\ ConnTyped /\ LinkOK /\ RadioInv
      /\ AnswersInOrder
  BY DEF ChannelInv, Shapes, AnswerOK
<1>2. /\ shim[k] = "recv"
      /\ UNCHANGED <<radioVars, listening, tries, program, token, opened, server,
                     up, serving, alive, losses, ran, cut>>
  BY DEF bridge_recv
<1>3. PICK n \in Conn : fd[k] = n
  BY <1>1, <1>2 DEF ShimTyped, LinkOK
<1>4. /\ token' = [token EXCEPT ![k] = token[k]] /\ tries' = [tries EXCEPT ![k] = tries[k]]
      /\ fd = [fd EXCEPT ![k] = fd[k]]
      /\ tries[k] \in Nat /\ tries[k] <= Retries
      /\ token[k] \in Token /\ token[k] \in Nat /\ Len(answers[k]) = token[k] - 1
      /\ answers[k] \in Seq(Answer) /\ token[k] <= Len(program[k])
  <2>1. tries[k] <= Retries /\ tries[k] \in 0 .. Retries + Attempts
    BY <1>1, <1>2 DEF TriesTyped
  <2>2. tries[k] \in Nat
    BY <2>1, ChannelAssumption
  <2> QED
    BY <1>1, <1>2, <2>1, <2>2, Same, AnswersBelow
<1>5. listening' \subseteq Client /\ cut' \subseteq Client \X Token
  BY <1>1, <1>2 DEF ShimTyped, RunTyped
<1>6. ASSUME down[n] # <<>>, down' = [down EXCEPT ![n] = Tail(@)],
             answer(k, Head(down[n]).m, Head(down[n]).token), UNCHANGED <<fd, shut>>
      PROVE  ChannelInv'
  <2> DEFINE msg == [m |-> Head(down[n]).m, token |-> Head(down[n]).token]
  <2>1. /\ down[n] \in Seq(Message) /\ Head(down[n]) \in Message
        /\ Tail(down[n]) \in Seq(Message)
    BY <1>1, <1>6 DEF ConnTyped
  <2>2. msg \in Answer /\ msg.token = Head(down[n]).token
    BY <2>1 DEF Message, Answer
  <2>3. /\ answers' = [answers EXCEPT ![k] = Append(@, msg)]
        /\ shim' = [shim EXCEPT ![k] = "idle"]
    BY <1>6 DEF answer
  <2> HIDE DEF msg
  <2>4. OwnerOK' /\ PipeOK' /\ AnswerOK' /\ RanOK'
    BY <1>2, <1>3, <1>6, <2>2, <2>3, ReadKept
  <2>5. ConnTyped'
    BY <1>1, <1>2, <1>6, <2>1 DEF ConnTyped
  <2>6. ShimTyped' /\ TriesTyped'
    <3>1. Turn(k, "idle", fd[k], token[k], Append(answers[k], msg), tries[k])
      BY <1>4, <1>6, <2>3 DEF Turn
    <3>2. Tried("idle", tries[k]) /\ "idle" \in States
      BY <1>4, ChannelAssumption DEF Tried, States
    <3>3. /\ Len(Append(answers[k], msg)) = token[k] - Open("idle")
          /\ Append(answers[k], msg) \in Seq(Answer)
      BY <1>4, <2>2 DEF Open
    <3> QED
      BY <1>1, <1>2, <1>3, <1>4, <1>5, <3>1, <3>2, <3>3, TurnTyped
  <2>7. RunTyped'
    BY <1>1, <1>2 DEF RunTyped
  <2>8. RadioInv'
    BY <1>1, <1>2, RadioUnmoved
  <2>9. LinkOK'
    <3>1. \A m \in Conn : m > opened => down'[m] = down[m]
      <4>1. ~(n > opened)
        BY <1>1, <1>6 DEF LinkOK
      <4> QED
        BY <1>1, <1>6, <4>1 DEF ConnTyped
    <3>2. shim'[k] = "idle" /\ \A j \in Client : j # k => shim'[j] = shim[j]
      BY <1>1, <2>3 DEF ShimTyped
    <3> QED
      BY <1>1, <1>2, <1>6, <3>1, <3>2 DEF LinkOK
  <2> QED
    BY <2>4, <2>5, <2>6, <2>7, <2>8, <2>9 DEF ChannelInv, Shapes
<1>7. ASSUME ReadFails(n), shut' = shut \cup {n}, fd' = [fd EXCEPT ![k] = 0],
             lost(k, tries[k]), UNCHANGED down
      PROVE  ChannelInv'
  <2>1. PICK s \in States, a \in Seq(Answer) :
          /\ Turn(k, s, 0, token[k], a, tries[k]) /\ Tried(s, tries[k])
          /\ s \in {"idle", "backoff"} /\ Len(a) = token[k] - Open(s) /\ Answered(k, a)
    BY <1>1, <1>2, <1>4, <1>7, LostTurns
  <2>2. Linked(k, s, 0)
    BY <1>2, <1>3, <1>7, <2>1 DEF Linked, Live, ReadFails, Closed
  <2>3. shut' \subseteq Conn
    BY <1>1, <1>7 DEF ConnTyped
  <2>4. /\ Sent(k) <= (IF s = "send" THEN token[k] - 1 ELSE token[k])
        /\ token[k] <= token[k] /\ shim[k] # "gone"
    BY <1>2, <1>4, <2>1 DEF Sent
  <2> QED
    BY <1>2, <1>4, <1>5, <1>7, <2>1, <2>2, <2>3, <2>4, TurnKept
<1> QED
  BY <1>3, <1>6, <1>7 DEF bridge_recv

\* After a pause the thread connects again, or counts one more failure.
LEMMA ReconnectKept ==
  ASSUME ChannelInv, NEW k \in Client, bridge_reconnect(k)
  PROVE  ChannelInv'
<1>1. ShimTyped /\ TriesTyped /\ RunTyped /\ ConnTyped /\ LinkOK
  BY DEF ChannelInv, Shapes, AnswerOK
<1> DEFINE c == tries[k] + 1
<1>2. /\ shim[k] = "backoff" /\ fd[k] = 0 /\ tries' = [tries EXCEPT ![k] = c]
      /\ UNCHANGED <<radioVars, listening, program, token, up, down, shut, serving,
                     alive, losses, ran, cut>>
  BY <1>1 DEF bridge_reconnect, counted, LinkOK
<1>3. /\ token' = [token EXCEPT ![k] = token[k]]
      /\ answers = [answers EXCEPT ![k] = answers[k]] /\ fd = [fd EXCEPT ![k] = 0]
      /\ token[k] \in {0} \cup Token /\ token[k] <= token[k] /\ token[k] <= Len(program[k])
      /\ Len(answers[k]) = token[k] - Open("backoff")
  <2>1. token[k] \in Nat
    BY <1>1, Same
  <2> QED
    BY <1>1, <1>2, <2>1, Same
<1>4. c \in Nat /\ c <= Retries
  BY <1>1, <1>2, ChannelAssumption DEF TriesTyped
<1> HIDE DEF c
<1>5. /\ listening' \subseteq Client /\ cut' \subseteq Client \X Token /\ shut' \subseteq Conn
  BY <1>1, <1>2 DEF ShimTyped, RunTyped, ConnTyped
<1>6. ASSUME NEW n \in Conn, bridge_connect(n), fd' = [fd EXCEPT ![k] = n],
             shim' = [shim EXCEPT ![k] = "send"], UNCHANGED answers
      PROVE  ChannelInv'
  <2>1. Turn(k, "send", n, token[k], answers[k], c)
    BY <1>2, <1>3, <1>6 DEF Turn
  <2>2. Tried("send", c) /\ "send" \in States /\ Open("send") = Open("backoff")
    BY <1>4, ChannelAssumption DEF Tried, States, Open
  <2>3. Linked(k, "send", n) /\ Answered(k, answers[k])
    BY <1>2, <1>6 DEF Linked, Answered
  <2> QED
    BY <1>2, <1>3, <1>5, <2>1, <2>2, <2>3, TurnKept
<1>7. ASSUME lost(k, c), UNCHANGED <<fd, opened, server>>
      PROVE  ChannelInv'
  <2>1. PICK s \in States, a \in Seq(Answer) :
          /\ Turn(k, s, 0, token[k], a, c) /\ Tried(s, c)
          /\ s \in {"idle", "backoff"} /\ Len(a) = token[k] - Open(s) /\ Answered(k, a)
    BY <1>1, <1>2, <1>3, <1>4, <1>7, LostTurns
  <2>2. Linked(k, s, 0)
    BY <1>2, <1>7, <2>1 DEF Linked
  <2> QED
    BY <1>2, <1>3, <1>5, <2>1, <2>2, TurnKept
<1> QED
  BY <1>6, <1>7 DEF bridge_reconnect, c

-----------------------------------------------------------------------------
(* The theorems. *)

LEMMA ChannelStarts == Init => ChannelInv
<1> SUFFICES ASSUME Init PROVE ChannelInv
  OBVIOUS
<1>1. RadioInv
  BY RadioStarts DEF Init
<1>2. ShimTyped
  <2>1. \A k \in Client : program[k] \in Programs
    BY DEF Init
  <2>2. \A k \in Client : 0 <= Len(program[k])
    BY <2>1, ChannelAssumption
  <2> QED
    BY <2>1, <2>2 DEF Init, ShimTyped
<1>3. TriesTyped
  BY ChannelAssumption DEF Init, TriesTyped
<1>4. ConnTyped
  BY ChannelAssumption DEF Init, ConnTyped
<1>5. RunTyped
  <2>1. alive \in BOOLEAN
    BY Zenon DEF Init
  <2> QED
    BY <2>1, ChannelAssumption DEF Init, RunTyped
<1>6. LinkOK
  BY DEF Init, LinkOK, Conn
<1>7. \A n \in Conn : Carried(n) = {} /\ up[n] = <<>> /\ down[n] = <<>> /\ serving[n] = <<>>
  BY DEF Init, Carried
<1>8. OwnerOK
  BY <1>7 DEF OwnerOK
<1>9. PipeOK
  BY <1>7 DEF PipeOK, Increasing
<1>10. AnswerOK
  BY <1>7 DEF Init, AnswerOK, AnswersInOrder
<1>11. RanOK
  BY <1>7 DEF Init, RanOK
<1> QED
  BY <1>1, <1>2, <1>3, <1>4, <1>5, <1>6, <1>8, <1>9, <1>10, <1>11 DEF ChannelInv, Shapes

\* Every step of the bridge, of the radio and of the shim keeps the order.
LEMMA ChannelKept == ChannelInv /\ [Next]_vars => ChannelInv'
<1> SUFFICES ASSUME ChannelInv, [Next]_vars PROVE ChannelInv'
  OBVIOUS
<1>1. ASSUME UNCHANGED vars PROVE ChannelInv'
  <2>1. UNCHANGED radioVars
    BY <1>1 DEF vars
  <2>2. RadioInv'
    BY <2>1, RadioUnmoved DEF ChannelInv
  <2>3. UNCHANGED <<shim, fd, listening, tries, program, token, answers, opened, server, up,
                    down, shut, serving, alive, losses, ran, cut>>
    BY <1>1 DEF vars, shimVars, connVars
  <2>4. Shapes' /\ LinkOK'
    BY <2>3 DEF ChannelInv, Shapes, ShimTyped, TriesTyped, ConnTyped, RunTyped, LinkOK
  <2>5. \A m \in Conn : Carried(m)' = Carried(m) /\ Live(m)' = Live(m)
    BY <2>3 DEF Carried, Live
  <2>6. \A k \in Client : Sent(k)' = Sent(k)
    BY <2>3 DEF Sent
  <2>7. ChannelInv /\ ConnTyped /\ ConnTyped'
    BY <2>4 DEF ChannelInv, Shapes
  <2>8. Grows(0, 0)
    BY <2>3, <2>7, GrowsQuietly DEF ConnTyped
  <2>9. OwnerOK' /\ PipeOK' /\ AnswerOK' /\ RanOK'
    BY <2>3, <2>5, <2>7, <2>8, QuietKept
  <2> QED
    BY <2>2, <2>4, <2>9 DEF ChannelInv
<1>2. ASSUME NEW n \in Conn, Bridge(n) PROVE ChannelInv'
  BY <1>2, ToldKept, ProcessKept, AnswersKept, ResetKept DEF Bridge
<1>3. ASSUME NEW k \in Client, Thread(k) \/ read_request(k) \/ client_leaves(k)
      PROVE  ChannelInv'
  BY <1>3, ConnectKept, SecondKept, SendKept, RecvKept, ReconnectKept, RequestKept DEF Thread
<1>4. ASSUME start \/ boot_profile \/ \E t \in RegTask : registration(t) PROVE ChannelInv'
  BY <1>4, ToldKept
<1> QED
  BY <1>1, <1>2, <1>3, <1>4, CrashKept DEF Next

\* The state of the channel and of the radio keeps its type.
THEOREM TypeCorrect == Spec => []TypeOK
<1>1. ChannelInv => TypeOK
  BY DEF ChannelInv, RadioInv, Shapes, ShimTyped, TriesTyped, ConnTyped, RunTyped, TypeOK
<1> QED
  BY <1>1, ChannelStarts, ChannelKept, PTL DEF Spec

\* RadioHAL.power_off: once the radio is off nothing is registered and no task
\* goes on, unless power_on had left a task behind that nobody cancels.
THEOREM OffMeansIdle == Spec => []OffIsIdle
<1>1. ChannelInv => OffIsIdle
  BY DEF ChannelInv, RadioInv
<1> QED
  BY <1>1, ChannelStarts, ChannelKept, PTL DEF Spec

\* bridge_request: what a client reads as answers only goes forward.
THEOREM AnswersGoForward == Spec => []AnswersInOrder
<1>1. ChannelInv => AnswersInOrder
  BY DEF ChannelInv, AnswerOK
<1> QED
  BY <1>1, ChannelStarts, ChannelKept, PTL DEF Spec

\* bridge_request and _handle_client: the requests of a client run in its order,
\* repeated ones too.
THEOREM RequestsRunForward == Spec => RequestsRunInOrder
<1> DEFINE Ordered == \A k \in Client, t \in Token :
             ran'[k][t] # ran[k][t] => \A u \in Token : u > t => ran[k][u] = 0
<1>1. ChannelInv /\ [Next]_vars => [Ordered]_vars
  <2> SUFFICES ASSUME ChannelInv, Next PROVE Ordered
    OBVIOUS
  <2>1. ASSUME NEW n \in Conn, _process_request(n) PROVE Ordered
    <3> DEFINE r == Head(up[n])
    <3>1. /\ server[n] = "read" /\ up[n] # <<>>
          /\ ran' = [ran EXCEPT ![r.k] = [ran[r.k] EXCEPT ![r.token] = ran[r.k][r.token] + 1]]
      BY <2>1 DEF _process_request, NextRequest
    <3>2. ConnTyped /\ ran \in [Client -> [Token -> Nat]] /\ RanOK
      BY DEF ChannelInv, Shapes, RunTyped
    <3>3. 1 \in DOMAIN up[n] /\ r = up[n][1] /\ r \in Carried(n)
      BY <3>1, <3>2 DEF ConnTyped, Carried
    <3>4. r.k \in Client /\ r.token \in Token
      BY <3>2, <3>3, CarriedTyped
    <3> HIDE DEF r
    <3>5. \A u \in Token : u > r.token => ran[r.k][u] = 0
      BY <3>1, <3>2, <3>3 DEF RanOK, Live
    <3>6. \A k \in Client, t \in Token : ran'[k][t] # ran[k][t] => k = r.k /\ t = r.token
      BY <3>1, <3>2, <3>4
    <3> QED
      BY <3>5, <3>6
  <2>2. CASE ~\E n \in Conn : _process_request(n)
    <3>1. ran' = ran
      BY <2>2 DEF Next, Bridge, Thread, start, boot_profile, crash, registration,
         _handle_client, eUICC_answers, end_of_stream, connection_lost, client_connect,
         client_second, client_leaves, read_request, bridge_send, bridge_recv, bridge_reconnect
    <3> QED
      BY <3>1
  <2> QED
    BY <2>1, <2>2
<1> QED
  BY <1>1, ChannelStarts, ChannelKept, PTL DEF Spec, RequestsRunInOrder
=============================================================================
