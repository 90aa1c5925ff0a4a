----------------------------- MODULE VolteCalls -----------------------------
(***************************************************************************)
(* Voice calls of the virtual phone: the call list of RadioHAL, the call   *)
(* table of VoLTECallManager and the pending responses of SIPClient, as    *)
(* driven by RIL clients on one side and by the P-CSCF on the other.       *)
(*                                                                         *)
(* All of it is asyncio code on one event loop.  A task (a RIL client      *)
(* being served, or the handler spawned for one SIP datagram) runs alone   *)
(* until it awaits something that really suspends: a SIP response, the     *)
(* opening of the RTP sockets or the end of the RTCP task.  cpu holds the  *)
(* task that is between two such awaits; stack[t] holds what t still has   *)
(* to do, the innermost coroutine first.  UDP sends and indications to the *)
(* RIL bridge do not suspend.                                              *)
(***************************************************************************)
EXTENDS Integers, Sequences, FiniteSets, SequencesExt

CONSTANTS
  Mo,           \* Call-IDs that generate_call_id may hand to initiate_call
  Mt,           \* Call-IDs of INVITEs from the network
  Ril,          \* tasks serving RIL clients, one request at a time each
  Handlers,     \* tasks serving incoming SIP datagrams
  Idle,         \* no task is running
  NoCall,       \* the empty Call-ID, and None as a result
  MaxIndex,     \* bound on radio call indexes
  Scenes        \* what RIL clients and network may do: a set of Scene

Dialog == Mo \cup Mt
Task == Ril \cup Handlers

\* An environment: the RIL requests it makes (ops, at most user of them), the
\* SIP requests it sends (msgs, at most peer), how many calls the phone may
\* initiate, how many tasks may be unfinished when another one starts
\* (overlap), whether calls are forwarded unconditionally (forward), the
\* network may repeat an INVITE (repeat) and the final response may overtake
\* a 180 (late).
Scene ==
  [ops: SUBSET {"dial", "answer", "hangup", "clear", "switch", "conference",
                "separate", "ect", "attended", "stop", "powerOff"},
   msgs: SUBSET {"INVITE", "REINVITE", "BYE", "CANCEL", "REFER", "NOTIFY"},
   user: Nat, peer: Nat, calls: Nat, overlap: Nat,
   forward: BOOLEAN, repeat: BOOLEAN, late: BOOLEAN]

ASSUME CallsAssumption ==
  /\ Mo \cap Mt = {} /\ Ril \cap Handlers = {}
  /\ IsFiniteSet(Dialog) /\ IsFiniteSet(Task)
  /\ Idle \notin Task /\ NoCall \notin Dialog
  /\ MaxIndex \in Nat \ {0} /\ Scenes \subseteq Scene

VARIABLES
  voice_calls,  \* RadioHAL.voice_calls: indexes, in list order
  radio,        \* the VoiceCall objects by index
  nextIndex,    \* RadioHAL._next_call_index
  table,        \* keys of VoLTECallManager._calls, in insertion order
  calls,        \* the VoLTECall objects by Call-ID, also once removed
  started,      \* VoLTECallManager._started
  activeCalls,  \* _volte_state["active_calls"]
  pending,      \* SIPClient._pending_responses: Call-ID -> waiting task
  resp,         \* the response (or timeout) each task's future was given
  ret,          \* what the last coroutine a task awaited returned
  stack,        \* per task, the coroutines it still has to finish
  cpu,          \* the task the event loop is running
  inflight,     \* requests of the phone the network has not answered yet
  up, rung, referred,         \* network: answered, rung, REFERs accepted
  closed, answered, torn, aborted,   \* history, see Init
  env           \* what the environment may still do: a Scene

radioVars == <<voice_calls, radio, nextIndex>>
sipVars == <<table, calls, started, activeCalls>>
waitVars == <<pending, resp, inflight>>
peerVars == <<up, rung, referred>>
histVars == <<closed, answered, torn, aborted>>
vars == <<radioVars, sipVars, waitVars, ret, stack, cpu, peerVars, histVars,
          env>>

(***************************************************************************)
(* Types.  A frame is a coroutine waiting to go on: c is its Call-ID, i a  *)
(* radio index (or list position) and j a second one.                      *)
(***************************************************************************)
AwaitOps == {"INVITE", "HOLD", "RESUME", "BYE", "REFER", "ATTENDED", "NOTIFY"}
MediaOps == {"START", "STOP"}
RunOps == {"dial", "dialDone", "initiate", "answer", "answerCall", "hangup",
           "hangupDone", "hangupCall", "bye", "hangupIf", "clear", "switch",
           "switchScan", "hold", "holdDone", "resume", "resumeDone",
           "conference", "separate", "ect", "ectDone", "transfer", "attended",
           "powerOff", "stop", "stopEach", "stopDone", "inviteIndex",
           "byeTail", "notify"}
NoResp == [m |-> "none", ok |-> FALSE]
NoneCall == [state |-> "none", idx |-> 0, media |-> "none", xfer |-> FALSE]
SipStates == {"none", "INITIATING", "RINGING_OUT", "RINGING_IN", "ACTIVE",
              "HELD", "TERMINATING"}
RadioStates == {"ACTIVE", "HOLDING", "DIALING", "ALERTING", "INCOMING",
                "WAITING"}

Fr(op, c, i, j) == [op |-> op, c |-> c, i |-> i, j |-> j]
FrC(op, c) == Fr(op, c, 0, 0)
FrI(op, i) == Fr(op, NoCall, i, 0)

TypeOK ==
  /\ voice_calls \in Seq(1 .. MaxIndex)
  /\ radio \in [1 .. MaxIndex -> [state: RadioStates, mpty: BOOLEAN,
                                  sip: Dialog \cup {NoCall}]]
  /\ nextIndex \in 1 .. MaxIndex + 1
  /\ table \in Seq(Dialog) /\ IsInjective(table)
  /\ calls \in [Dialog -> [state: SipStates, idx: 0 .. MaxIndex,
                           media: {"none", "on", "paused"}, xfer: BOOLEAN]]
  /\ started \in BOOLEAN
  /\ activeCalls \in 0 .. Cardinality(Dialog)
  /\ pending \in [Dialog -> Task \cup {Idle}]
  /\ resp \in [Task -> [m: AwaitOps \cup {"none", "timeout"}, ok: BOOLEAN]]
  /\ ret \in [Task -> Dialog \cup {NoCall}]
  /\ stack \in [Task -> Seq([op: AwaitOps \cup MediaOps \cup RunOps,
                             c: Dialog \cup {NoCall},
                             i: 0 .. MaxIndex + 1, j: 0 .. MaxIndex])]
  /\ cpu \in Task \cup {Idle}
  /\ inflight \subseteq [c: Dialog, m: AwaitOps, t: Task]
  /\ {up, referred, torn} \subseteq SUBSET Dialog
  /\ rung \subseteq Mo /\ answered \subseteq Mt
  /\ closed \in [Dialog -> {"no", "us", "peer"}]
  /\ aborted \subseteq Task
  /\ env \in Scene

Init ==
  /\ voice_calls = <<>>
  /\ radio = [i \in 1 .. MaxIndex |->
                [state |-> "DIALING", mpty |-> FALSE, sip |-> NoCall]]
  /\ nextIndex = 1
  /\ table = <<>>
  /\ calls = [c \in Dialog |-> NoneCall]
  /\ started = TRUE
  /\ activeCalls = 0
  /\ pending = [c \in Dialog |-> Idle]
  /\ resp = [t \in Task |-> NoResp]
  /\ ret = [t \in Task |-> NoCall]
  /\ stack = [t \in Task |-> <<>>]
  /\ cpu = Idle
  /\ inflight = {}
  /\ up = {} /\ rung = {} /\ referred = {}
  /\ closed = [c \in Dialog |-> "no"]  \* who sent the BYE (or CANCEL) first
  /\ answered = {}      \* MT calls the user accepted on the handset
  /\ torn = {}          \* calls removed before initiate/answer had finished
  /\ aborted = {}       \* tasks that ended in an unhandled exception
  /\ env \in Scenes

-----------------------------------------------------------------------------
(* The event loop. *)

Running(t, op) == cpu = t /\ stack[t] # <<>> /\ Head(stack[t]).op = op
Frame(t) == Head(stack[t])

\* t is left with these coroutines and runs the first, unless that suspends.
Runs(t, frames) ==
  /\ stack' = [stack EXCEPT ![t] = frames]
  /\ cpu' = IF frames = <<>> \/ Head(frames).op \in MediaOps THEN Idle ELSE t

\* The running coroutine awaits the given ones, then goes on with its caller.
Become(t, frames) == Runs(t, frames \o Tail(stack[t]))

Return(t) == Become(t, <<>>)

\* The running coroutine suspends in an await; other tasks may run.
Suspend(t, frame) ==
  /\ stack' = [stack EXCEPT ![t] = <<frame>> \o Tail(@)]
  /\ cpu' = Idle

\* An exception nobody catches ends the task.
Abort(t) ==
  /\ stack' = [stack EXCEPT ![t] = <<>>]
  /\ cpu' = Idle
  /\ aborted' = aborted \cup {t}

\* A task whose future was resolved is resumed where it awaited.
Woken(t, op) ==
  /\ stack[t] # <<>> /\ Frame(t).op = op
  /\ resp[t] # NoResp /\ cpu \in {Idle, t}

Quiescent == \A t \in Task : stack[t] = <<>>
MayStart ==
  /\ cpu = Idle
  /\ Cardinality({t \in Task : stack[t] # <<>>}) <= env.overlap

-----------------------------------------------------------------------------
(* Shared pieces of state. *)

InTable(c) == c \in ToSet(table)
FirstIn(s) == SelectInSeq(table, LAMBDA c : calls[c].state = s)
LastIn(s) == SelectLastInSeq(table, LAMBDA c : calls[c].state = s)

\* len([c for c in self._calls.values() if c.state == ACTIVE])
CountActive(tb, cs) ==
  Cardinality({c \in ToSet(tb) : cs[c].state = "ACTIVE"})

\* Mutants: the index taken for a list position; a VoLTECallState written.
RadioUpdate_Position(idx, s) ==
  IF idx \in DOMAIN voice_calls
  THEN [radio EXCEPT ![voice_calls[idx]].state = s] ELSE radio
RadioUpdate_SipState(idx, s) ==
  IF idx \in ToSet(voice_calls)
  THEN [radio EXCEPT ![idx].state = IF s = "HOLDING" THEN "HELD" ELSE s]
  ELSE radio

\* update_call_state: nothing happens when the index is not listed any more.
RadioUpdate(idx, s) ==
  IF idx \in ToSet(voice_calls)
  THEN [radio EXCEPT ![idx].state = s] ELSE radio

\* dial keeps the Call-ID in the entry it made; mutant: in the last entry.
StoreCallId_Last(i, c) ==
  IF voice_calls = <<>> THEN radio
  ELSE [radio EXCEPT ![voice_calls[Len(voice_calls)]].sip = c]
StoreCallId(i, c) == [radio EXCEPT ![i].sip = c]

\* MediaSession.hold / resume, when there is a session.
Paused_Ignored(m) == m
Paused(m) == IF m = "none" THEN "none" ELSE "paused"
Playing(m) == IF m = "none" THEN "none" ELSE "on"

\* _stop_media suspends when there is a session; mutant: a paused session is
\* forgotten.
StopMedia_PlayingOnly(c) ==
  IF calls[c].media = "on" THEN <<FrC("STOP", c)>> ELSE <<>>
StopMedia(c) == IF calls[c].media = "none" THEN <<>> ELSE <<FrC("STOP", c)>>

\* _calls.pop(c); mutant: _calls.get(c).
WithoutKey_Get(tb, c) == tb
WithoutKey(tb, c) == RemoveFirst(tb, c)

\* A call is removed while initiate_call or answer_call still works on it.
Unfinished(c) ==
  \E t \in Task : \E k \in DOMAIN stack[t] :
    stack[t][k].c = c /\ stack[t][k].op \in {"INVITE", "START"}
TornBy(c) == IF Unfinished(c) THEN torn \cup {c} ELSE torn

\* The bounds leave room for another dial or initiate_call, besides those that
\* suspended tasks are going to make.
Promised(ops) ==
  Cardinality({tk \in Task \X (1 .. 8) :
    /\ tk[2] \in DOMAIN stack[tk[1]]
    /\ stack[tk[1]][tk[2]].op \in ops})
RoomForIndex == nextIndex + Promised({"dial"}) <= MaxIndex
RoomForCall ==
  Promised({"dial", "initiate"}) + Cardinality({c \in Mo : calls[c].state # "none"})
    < env.calls

\* send_request up to its await: one future per Call-ID.
SendRequest(t, c, m) ==
  /\ pending' = [pending EXCEPT ![c] = t]
  /\ resp' = [resp EXCEPT ![t] = NoResp]
  /\ inflight' = inflight \cup {[c |-> c, m |-> m, t |-> t]}

-----------------------------------------------------------------------------
(* RadioHAL: the requests of a RIL client. *)

\* A RIL client's request is dispatched; arguments come from the client.
RilRequest(t) ==
  /\ MayStart /\ stack[t] = <<>> /\ env.user > 0
  /\ \E op \in env.ops :
       \E i \in IF op \in {"hangup", "separate"} THEN 1 .. MaxIndex ELSE {0} :
         /\ op = "dial" => RoomForIndex /\ RoomForCall
         /\ op = "stop" => started
         /\ stack' = [stack EXCEPT ![t] = <<FrI(op, i)>>]
  /\ cpu' = t
  /\ env' = [env EXCEPT !.user = @ - 1]
  /\ UNCHANGED <<radioVars, sipVars, waitVars, ret, peerVars, histVars>>

RadioUnchanged == UNCHANGED <<sipVars, waitVars, peerVars, env>>

dial(t) ==
  /\ Running(t, "dial") /\ nextIndex <= MaxIndex
  /\ radio' = [radio EXCEPT ![nextIndex] =
                 [state |-> "DIALING", mpty |-> FALSE, sip |-> NoCall]]
  /\ voice_calls' = Append(voice_calls, nextIndex)
  /\ nextIndex' = nextIndex + 1
  /\ Become(t, <<FrI("initiate", nextIndex), FrI("dialDone", nextIndex)>>)
  /\ UNCHANGED <<ret, histVars>> /\ RadioUnchanged

\* dial after initiate_call returned: store the Call-ID or drop the entry.
dialDone(t) ==
  /\ Running(t, "dialDone")
  /\ LET i == Frame(t).i IN
     \/ /\ ret[t] # NoCall
        /\ radio' = StoreCallId(i, ret[t])
        /\ Return(t) /\ UNCHANGED <<voice_calls, aborted>>
     \/ /\ ret[t] = NoCall /\ i \in ToSet(voice_calls)
        /\ voice_calls' = RemoveFirst(voice_calls, i)
        /\ Return(t) /\ UNCHANGED <<radio, aborted>>
     \/ /\ ret[t] = NoCall /\ i \notin ToSet(voice_calls)   \* ValueError
        /\ Abort(t) /\ UNCHANGED <<radio, voice_calls>>
  /\ UNCHANGED <<nextIndex, ret, closed, answered, torn>>
  /\ RadioUnchanged

\* The first INCOMING call is shown as ACTIVE, then answered by SIP.
answer(t) ==
  /\ Running(t, "answer")
  /\ LET k == SelectInSeq(voice_calls,
                          LAMBDA i : radio[i].state = "INCOMING") IN
     \/ /\ k = 0 /\ Return(t) /\ UNCHANGED <<radio, answered>>
     \/ /\ k # 0
        /\ LET i == voice_calls[k] IN
           /\ radio' = [radio EXCEPT ![i].state = "ACTIVE"]
           /\ answered' = answered \cup ({radio[i].sip} \cap Mt)
           /\ Become(t, <<FrC("answerCall", radio[i].sip)>>)
  /\ UNCHANGED <<voice_calls, nextIndex, ret, closed, torn, aborted>>
  /\ RadioUnchanged

\* A call whose Call-ID is not known yet is dropped without any signalling.
hangup(t) ==
  /\ Running(t, "hangup")
  /\ LET i == Frame(t).i IN
     \/ /\ i \notin ToSet(voice_calls) /\ Return(t)
     \/ /\ i \in ToSet(voice_calls)
        /\ Become(t, (IF radio[i].sip = NoCall THEN <<>>
                      ELSE <<FrC("hangupCall", radio[i].sip)>>)
                     \o <<FrI("hangupDone", i)>>)
  /\ UNCHANGED <<radioVars, ret, histVars>> /\ RadioUnchanged

hangupDone(t) ==
  /\ Running(t, "hangupDone")
  /\ LET i == Frame(t).i IN
     \/ /\ i \in ToSet(voice_calls)
        /\ voice_calls' = RemoveFirst(voice_calls, i)
        /\ Return(t) /\ UNCHANGED aborted
     \/ /\ i \notin ToSet(voice_calls)              \* ValueError
        /\ Abort(t) /\ UNCHANGED voice_calls
  /\ UNCHANGED <<radio, nextIndex, ret, closed, answered, torn>>
  /\ RadioUnchanged

\* hangup_all iterates over a copy, reading each Call-ID when it gets there.
hangupAll(t) ==
  /\ Running(t, "clear") /\ Frame(t).i = 0
  /\ Become(t, [k \in 1 .. Len(voice_calls) |->
                  FrI("hangupIf", voice_calls[k])] \o <<FrI("clear", 1)>>)
  /\ UNCHANGED <<radioVars, ret, histVars>> /\ RadioUnchanged

hangupIf(t) ==
  /\ Running(t, "hangupIf")
  /\ Become(t, IF radio[Frame(t).i].sip = NoCall THEN <<>>
               ELSE <<FrC("hangupCall", radio[Frame(t).i].sip)>>)
  /\ UNCHANGED <<radioVars, ret, histVars>> /\ RadioUnchanged

\* The end of hangup_all, and the call list's part of power_off.
clearCalls(t) ==
  /\ \/ Running(t, "clear") /\ Frame(t).i = 1
     \/ Running(t, "powerOff")
  /\ voice_calls' = <<>>
  /\ Return(t)
  /\ UNCHANGED <<radio, nextIndex, ret, histVars>> /\ RadioUnchanged

\* switch_waiting_or_holding_and_active
switch(t) ==
  /\ Running(t, "switch")
  /\ LET w == SelectInSeq(voice_calls, LAMBDA i : radio[i].state = "WAITING")
         sw == IF FirstIn("ACTIVE") = 0 THEN <<>>
               ELSE <<FrC("hold", table[FirstIn("ACTIVE")])>>
         rs == IF FirstIn("HELD") = 0 THEN <<>>
               ELSE <<FrC("resume", table[FirstIn("HELD")])>>
     IN Become(t, IF w # 0 THEN <<Fr("switchScan", NoCall, 1, voice_calls[w])>>
                  ELSE sw \o rs)
  /\ UNCHANGED <<radioVars, ret, histVars>> /\ RadioUnchanged

\* The loop over the live list: hold each ACTIVE call, then take the waiting.
switchScan(t) ==
  /\ Running(t, "switchScan")
  /\ LET k == Frame(t).i
         w == Frame(t).j
         next == Fr("switchScan", NoCall, k + 1, w)
     IN
     \/ /\ k <= Len(voice_calls)
        /\ LET i == voice_calls[k] IN
           IF radio[i].state = "ACTIVE"
           THEN /\ radio' = [radio EXCEPT ![i].state = "HOLDING"]
                /\ Become(t, <<FrC("hold", radio[i].sip), next>>)
           ELSE Become(t, <<next>>) /\ UNCHANGED radio
        /\ UNCHANGED answered
     \/ /\ k > Len(voice_calls)
        /\ radio' = [radio EXCEPT ![w].state = "ACTIVE"]
        /\ answered' = answered \cup ({radio[w].sip} \cap Mt)
        /\ Become(t, <<FrC("answerCall", radio[w].sip)>>)
  /\ UNCHANGED <<voice_calls, nextIndex, ret, closed, torn, aborted>>
  /\ RadioUnchanged

separate(t) ==
  /\ Running(t, "separate")
  /\ LET i == Frame(t).i IN
     IF i \in ToSet(voice_calls) /\ radio[i].mpty
     THEN /\ radio' = [radio EXCEPT ![i].mpty = FALSE, ![i].state = "HOLDING"]
          /\ Become(t, <<FrC("hold", radio[i].sip)>>)
     ELSE Return(t) /\ UNCHANGED radio
  /\ UNCHANGED <<voice_calls, nextIndex, ret, histVars>> /\ RadioUnchanged

\* explicit_call_transfer: the last ACTIVE and the last HOLDING entry.
ect(t) ==
  /\ Running(t, "ect")
  /\ LET a == SelectLastInSeq(voice_calls, LAMBDA i : radio[i].state = "ACTIVE")
         h == SelectLastInSeq(voice_calls, LAMBDA i : radio[i].state = "HOLDING")
     IN Become(t, IF a = 0 \/ h = 0 THEN <<>>
                  ELSE <<FrC("transfer", radio[voice_calls[h]].sip),
                         Fr("ectDone", NoCall, voice_calls[a], voice_calls[h])>>)
  /\ UNCHANGED <<radioVars, ret, histVars>> /\ RadioUnchanged

ectDone(t) ==
  /\ Running(t, "ectDone")
  /\ LET gone == <<Frame(t).i, Frame(t).j>> IN
     \/ ret[t] = NoCall /\ Return(t) /\ UNCHANGED <<voice_calls, aborted>>
     \/ /\ ret[t] # NoCall
        /\ voice_calls' = IF gone[1] \notin ToSet(voice_calls) THEN voice_calls
                          ELSE RemoveFirst(RemoveFirst(voice_calls, gone[1]),
                                           gone[2])
        /\ IF ToSet(gone) \subseteq ToSet(voice_calls)
           THEN Return(t) /\ UNCHANGED aborted
           ELSE Abort(t)                            \* ValueError
  /\ UNCHANGED <<radio, nextIndex, ret, closed, answered, torn>>
  /\ RadioUnchanged

-----------------------------------------------------------------------------
(* VoLTECallManager: operations on the phone's behalf. *)

ManagerUnchanged == UNCHANGED <<peerVars, env, answered>>

\* initiate_call up to the INVITE; the radio index is the caller's.
initiate(t) ==
  /\ Running(t, "initiate")
  /\ \/ /\ ~started
        /\ ret' = [ret EXCEPT ![t] = NoCall]
        /\ Return(t)
        /\ UNCHANGED <<table, calls, waitVars>>
     \/ /\ started
        /\ \E c \in Mo :
             /\ calls[c].state = "none"
             /\ calls' = [calls EXCEPT ![c] =
                  [NoneCall EXCEPT !.state = "INITIATING", !.idx = Frame(t).i]]
             /\ table' = Append(table, c)
             /\ SendRequest(t, c, "INVITE")
             /\ Suspend(t, FrC("INVITE", c))
        /\ UNCHANGED ret
  /\ UNCHANGED <<radioVars, started, activeCalls, closed, torn, aborted>>
  /\ ManagerUnchanged

\* The INVITE's future is done: 200 makes the call active and starts media,
\* anything else removes it - unless somebody else already has (KeyError).
inviteResult(t) ==
  /\ Woken(t, "INVITE")
  /\ LET c == Frame(t).c IN
     \/ /\ resp[t].ok
        /\ calls' = [calls EXCEPT ![c].state = "ACTIVE"]
        /\ radio' = RadioUpdate(calls[c].idx, "ACTIVE")
        /\ activeCalls' = CountActive(table, calls')
        /\ Suspend(t, FrC("START", c))
        /\ UNCHANGED <<table, ret, aborted>>
     \/ /\ ~resp[t].ok /\ InTable(c)
        /\ table' = WithoutKey(table, c)
        /\ ret' = [ret EXCEPT ![t] = NoCall]
        /\ Return(t)
        /\ UNCHANGED <<calls, radio, activeCalls, aborted>>
     \/ /\ ~resp[t].ok /\ ~InTable(c) /\ Abort(t)
        /\ UNCHANGED <<table, calls, radio, activeCalls, ret>>
  /\ resp' = [resp EXCEPT ![t] = NoResp]
  /\ UNCHANGED <<voice_calls, nextIndex, started, pending, inflight, closed, torn>>
  /\ ManagerUnchanged

\* The RTP sockets are open, or _start_media caught an exception.
mediaStarted(t) ==
  /\ cpu = Idle /\ stack[t] # <<>> /\ Frame(t).op = "START"
  /\ \E ok \in BOOLEAN :
       calls' = IF ok THEN [calls EXCEPT ![Frame(t).c].media = "on"] ELSE calls
  /\ ret' = [ret EXCEPT ![t] = Frame(t).c]
  /\ Return(t)
  /\ UNCHANGED <<radioVars, table, started, activeCalls, waitVars, closed, torn,
                 aborted>>
  /\ ManagerUnchanged

\* answer_call: only a ringing incoming call is answered.
answerCall(t) ==
  /\ Running(t, "answerCall")
  /\ LET c == Frame(t).c IN
     IF InTable(c) /\ calls[c].state = "RINGING_IN"
     THEN /\ calls' = [calls EXCEPT ![c].state = "ACTIVE"]
          /\ activeCalls' = CountActive(table, calls')
          /\ up' = up \cup {c}
          /\ Suspend(t, FrC("START", c))
     ELSE Return(t) /\ UNCHANGED <<calls, activeCalls, up>>
  /\ UNCHANGED <<radioVars, table, started, waitVars, ret, rung, referred,
                 histVars, env>>

\* hold_call and resume_call after the re-INVITE they do not send.
HeldBack(op) == IF op = "hold" THEN "holdDone" ELSE "resumeDone"

\* hold_call and resume_call up to the re-INVITE.
holdResume(t) ==
  /\ \E op \in {"hold", "resume"} :
       /\ Running(t, op)
       /\ LET c == Frame(t).c
              m == IF op = "hold" THEN "HOLD" ELSE "RESUME"
              from == IF op = "hold" THEN "ACTIVE" ELSE "HELD"
              to == IF op = "hold" THEN "HELD" ELSE "ACTIVE"
              ready == InTable(c) /\ calls[c].state = from
          IN
          \/ ~ready /\ Return(t) /\ UNCHANGED <<calls, waitVars>>
          \/ /\ ready
             /\ calls' = [calls EXCEPT ![c].state = to,
                            ![c].media = IF op = "hold" THEN Paused(@)
                                         ELSE Playing(@)]
             /\ IF started
                THEN SendRequest(t, c, m) /\ Suspend(t, FrC(m, c))
                ELSE Become(t, <<FrC(HeldBack(op), c)>>) /\ UNCHANGED waitVars
  /\ UNCHANGED <<radioVars, table, started, activeCalls, ret, closed, torn,
                 aborted>>
  /\ ManagerUnchanged

\* Whatever the answer (or its timeout), the radio call is updated.
holdResumeDone(t) ==
  /\ \E op \in {"hold", "resume"} :
       /\ \/ Woken(t, IF op = "hold" THEN "HOLD" ELSE "RESUME")
          \/ Running(t, HeldBack(op))
       /\ radio' = RadioUpdate(calls[Frame(t).c].idx,
                               IF op = "hold" THEN "HOLDING" ELSE "ACTIVE")
  /\ activeCalls' = CountActive(table, calls)
  /\ resp' = [resp EXCEPT ![t] = NoResp]
  /\ Return(t)
  /\ UNCHANGED <<voice_calls, nextIndex, table, calls, started, pending,
                 inflight, ret, closed, torn, aborted>>
  /\ ManagerUnchanged

\* conference_calls merges the last ACTIVE and the last HELD call, locally.
conference(t) ==
  /\ Running(t, "conference")
  /\ IF LastIn("ACTIVE") = 0 \/ LastIn("HELD") = 0
     THEN UNCHANGED <<radio, calls, activeCalls>>
     ELSE LET a == table[LastIn("ACTIVE")]
              h == table[LastIn("HELD")]
          IN
          /\ calls' = [calls EXCEPT ![h].state = "ACTIVE",
                                    ![h].media = Playing(@)]
          /\ radio' = [i \in DOMAIN radio |->
               IF i \in ToSet(voice_calls) /\ radio[i].sip \in {a, h}
               THEN [radio[i] EXCEPT !.mpty = TRUE, !.state = "ACTIVE"]
               ELSE radio[i]]
          /\ activeCalls' = CountActive(table, calls')
  /\ Return(t)
  /\ UNCHANGED <<voice_calls, nextIndex, table, started, waitVars, ret, closed,
                 torn, aborted>>
  /\ ManagerUnchanged

\* transfer_call and attended_transfer up to the REFER.
transfer(t) ==
  /\ \/ /\ Running(t, "transfer")
        /\ LET c == Frame(t).c IN
           IF /\ InTable(c) /\ calls[c].state \in {"ACTIVE", "HELD"}
              /\ started
           THEN /\ SendRequest(t, c, "REFER") /\ Suspend(t, FrC("REFER", c))
                /\ UNCHANGED ret
           ELSE /\ ret' = [ret EXCEPT ![t] = NoCall] /\ Return(t)
                /\ UNCHANGED waitVars
     \/ /\ Running(t, "attended")
        /\ \E c, d \in Dialog :
             /\ c # d
             /\ IF /\ {c, d} \subseteq ToSet(table) /\ started
                   /\ calls[c].state \in {"ACTIVE", "HELD"}
                THEN SendRequest(t, c, "ATTENDED") /\ Suspend(t, FrC("ATTENDED", c))
                ELSE Return(t) /\ UNCHANGED waitVars
        /\ UNCHANGED ret
  /\ UNCHANGED <<radioVars, sipVars, closed, torn, aborted>>
  /\ ManagerUnchanged

\* Only an accepted REFER marks the call; transfer_call also sets its state.
transferDone(t) ==
  /\ \E op \in {"REFER", "ATTENDED"} :
       /\ Woken(t, op)
       /\ LET c == Frame(t).c IN
          IF resp[t].ok
          THEN /\ calls' = [calls EXCEPT ![c].xfer = TRUE,
                              ![c].state = IF op = "REFER" THEN "ACTIVE" ELSE @]
               /\ ret' = [ret EXCEPT ![t] = c]
          ELSE ret' = [ret EXCEPT ![t] = NoCall] /\ UNCHANGED calls
  /\ resp' = [resp EXCEPT ![t] = NoResp]
  /\ Return(t)
  /\ UNCHANGED <<radioVars, table, started, activeCalls, pending, inflight,
                 closed, torn, aborted>>
  /\ ManagerUnchanged

\* hangup_call: the pop decides which of several callers sends the BYE.
hangupCall(t) ==
  /\ Running(t, "hangupCall")
  /\ LET c == Frame(t).c IN
     \/ ~InTable(c) /\ Return(t) /\ UNCHANGED <<table, torn>>
     \/ /\ InTable(c)
        /\ table' = WithoutKey(table, c)
        /\ torn' = TornBy(c)
        /\ Become(t, StopMedia(c) \o <<FrC("bye", c)>>)
  /\ UNCHANGED <<radioVars, calls, started, activeCalls, waitVars, ret, closed,
                 aborted>>
  /\ ManagerUnchanged

\* MediaSession.stop has awaited its RTCP task; the session is dropped.
mediaStopped(t) ==
  /\ cpu = Idle /\ stack[t] # <<>> /\ Frame(t).op = "STOP"
  /\ calls' = [calls EXCEPT ![Frame(t).c].media = "none"]
  /\ Return(t)
  /\ UNCHANGED <<radioVars, table, started, activeCalls, waitVars, ret, closed,
                 torn, aborted>>
  /\ ManagerUnchanged

bye(t) ==
  /\ Running(t, "bye")
  /\ LET c == Frame(t).c IN
     IF started
     THEN /\ calls' = [calls EXCEPT ![c].state = "TERMINATING"]
          /\ SendRequest(t, c, "BYE")
          /\ closed' = [closed EXCEPT ![c] = "us"]
          /\ Suspend(t, FrC("BYE", c))
     ELSE Return(t) /\ UNCHANGED <<calls, waitVars, closed>>
  /\ UNCHANGED <<radioVars, table, started, activeCalls, ret, torn, aborted>>
  /\ ManagerUnchanged

byeDone(t) ==
  /\ Woken(t, "BYE")
  /\ activeCalls' = CountActive(table, calls)
  /\ resp' = [resp EXCEPT ![t] = NoResp]
  /\ Return(t)
  /\ UNCHANGED <<radioVars, table, calls, started, pending, inflight, ret,
                 closed, torn, aborted>>
  /\ ManagerUnchanged

\* stop: hang up what is ACTIVE or RINGING_OUT, then close the transport.
stop(t) ==
  /\ \/ /\ Running(t, "stop")
        /\ Become(t, [k \in 1 .. Len(table) |-> FrC("stopEach", table[k])]
                     \o <<FrC("stopDone", NoCall)>>)
        /\ UNCHANGED started
     \/ /\ Running(t, "stopEach")
        /\ LET c == Frame(t).c IN
           Become(t, IF calls[c].state \in {"ACTIVE", "RINGING_OUT"}
                     THEN <<FrC("hangupCall", c)>> ELSE <<>>)
        /\ UNCHANGED started
     \/ /\ Running(t, "stopDone")
        /\ started' = FALSE
        /\ Return(t)
  /\ UNCHANGED <<radioVars, table, calls, activeCalls, waitVars, ret, closed,
                 torn, aborted>>
  /\ ManagerUnchanged

\* _send_refer_notify, sent whatever has become of the call.
notify(t) ==
  /\ \/ /\ Running(t, "notify")
        /\ SendRequest(t, Frame(t).c, "NOTIFY")
        /\ Suspend(t, FrC("NOTIFY", Frame(t).c))
     \/ /\ Woken(t, "NOTIFY")
        /\ resp' = [resp EXCEPT ![t] = NoResp]
        /\ Return(t)
        /\ UNCHANGED <<pending, inflight>>
  /\ UNCHANGED <<radioVars, sipVars, ret, closed, torn, aborted>>
  /\ ManagerUnchanged

-----------------------------------------------------------------------------
(* SIPClient: responses and timeouts. *)

\* A final response resolves whichever future is registered for its Call-ID,
\* in the handler of its own datagram, which never suspends.
response(r, ok) ==
  /\ cpu = Idle /\ started /\ r \in inflight
  /\ ~ok => /\ r.m = "INVITE" => r.c \notin up
            /\ r.m \in {"REFER", "ATTENDED"} => r.c \notin referred
  /\ inflight' = inflight \ {r}
  /\ IF pending[r.c] = Idle THEN UNCHANGED <<pending, resp>>
     ELSE /\ resp' = [resp EXCEPT ![pending[r.c]] = [m |-> r.m, ok |-> ok]]
          /\ pending' = [pending EXCEPT ![r.c] = Idle]
  /\ up' = IF ok /\ r.m = "INVITE" THEN up \cup {r.c} ELSE up
  /\ referred' = IF ok /\ r.m \in {"REFER", "ATTENDED"}
                 THEN referred \cup {r.c} ELSE referred
  /\ UNCHANGED <<radioVars, sipVars, ret, stack, cpu, rung, histVars, env>>

\* Mutant: a provisional response consumes the future.
ringing_Final(c) ==
  /\ cpu = Idle /\ started
  /\ c \in Mo \ rung /\ calls[c].state # "none"
  /\ env.late \/ c \notin up
  /\ rung' = rung \cup {c}
  /\ IF pending[c] # Idle /\ InTable(c)
     THEN /\ calls' = [calls EXCEPT ![c].state = "RINGING_OUT"]
          /\ radio' = RadioUpdate(calls[c].idx, "ALERTING")
     ELSE UNCHANGED <<calls, radio>>
  /\ pending' = [pending EXCEPT ![c] = Idle]
  /\ UNCHANGED <<voice_calls, nextIndex, table, started, activeCalls, resp,
                 inflight, ret, stack, cpu, up, referred, histVars, env>>

\* 180 Ringing counts while any request on its Call-ID is pending.
ringing(c) ==
  /\ cpu = Idle /\ started
  /\ c \in Mo \ rung /\ calls[c].state # "none"
  /\ env.late \/ c \notin up
  /\ rung' = rung \cup {c}
  /\ IF pending[c] # Idle /\ InTable(c)
     THEN /\ calls' = [calls EXCEPT ![c].state = "RINGING_OUT"]
          /\ radio' = RadioUpdate(calls[c].idx, "ALERTING")
     ELSE UNCHANGED <<calls, radio>>
  /\ UNCHANGED <<voice_calls, nextIndex, table, started, activeCalls, waitVars,
                 ret, stack, cpu, up, referred, histVars, env>>

\* Mutants: the entry is not deleted; only the task's own entry counts.
timeout_KeepsEntry(t) ==
  /\ cpu = Idle /\ stack[t] # <<>>
  /\ Frame(t).op \in AwaitOps /\ resp[t] = NoResp
  /\ resp' = [resp EXCEPT ![t] = [m |-> "timeout", ok |-> FALSE]]
  /\ cpu' = t
  /\ UNCHANGED <<radioVars, sipVars, pending, inflight, ret, stack, peerVars,
                 histVars, env>>

timeout_OwnEntry(t) ==
  /\ cpu = Idle /\ stack[t] # <<>>
  /\ Frame(t).op \in AwaitOps /\ resp[t] = NoResp
  /\ pending[Frame(t).c] = t
  /\ pending' = [pending EXCEPT ![Frame(t).c] = Idle]
  /\ resp' = [resp EXCEPT ![t] = [m |-> "timeout", ok |-> FALSE]]
  /\ cpu' = t
  /\ UNCHANGED <<radioVars, sipVars, inflight, ret, stack, peerVars, histVars,
                 env>>

\* wait_for gives up after 32 s: the entry of the Call-ID is deleted,
\* whoever registered it; without one the KeyError ends the task.
timeout(t) ==
  /\ cpu = Idle /\ stack[t] # <<>>
  /\ Frame(t).op \in AwaitOps /\ resp[t] = NoResp
  /\ LET c == Frame(t).c IN
     IF pending[c] # Idle
     THEN /\ pending' = [pending EXCEPT ![c] = Idle]
          /\ resp' = [resp EXCEPT ![t] = [m |-> "timeout", ok |-> FALSE]]
          /\ cpu' = t
          /\ UNCHANGED <<stack, aborted>>
     ELSE Abort(t) /\ UNCHANGED <<pending, resp>>
  /\ UNCHANGED <<radioVars, sipVars, inflight, ret, peerVars, closed, answered,
                 torn, env>>

-----------------------------------------------------------------------------
(* Incoming SIP requests, each in a handler task of its own. *)

\* The network sends m for call c; h runs the handler.
Arrives(h, m) ==
  /\ MayStart /\ started /\ m \in env.msgs
  /\ stack[h] = <<>> /\ env.peer > 0
  /\ env' = [env EXCEPT !.peer = @ - 1]
  /\ UNCHANGED <<answered, aborted, rung>>

\* The entry for an incoming call, in a call list with or without active call.
incoming_call(c) ==
  [state |-> IF \E i \in ToSet(voice_calls) : radio[i].state = "ACTIVE"
             THEN "WAITING" ELSE "INCOMING",
   mpty |-> FALSE, sip |-> c]

\* _handle_incoming_invite and RadioHAL.incoming_call for a new Call-ID: under
\* forwarding the call is hung up and the target dialled, then indexed.
incomingInvite(h, c) ==
  /\ Arrives(h, "INVITE") /\ c \in Mt /\ ~InTable(c)
  /\ \A t \in Task : \A k \in DOMAIN stack[t] : stack[t][k].c # c
  /\ calls[c].state = "none" \/ env.repeat
  /\ closed' = [closed EXCEPT ![c] = "no"]
  /\ table' = Append(table, c)
  /\ \/ /\ env.forward
        /\ calls' = [calls EXCEPT ![c] = [NoneCall EXCEPT !.state = "RINGING_IN"]]
        /\ RoomForCall
        /\ Runs(h, <<FrC("hangupCall", c), FrI("initiate", 0),
                     FrC("inviteIndex", c)>>)
        /\ UNCHANGED radioVars
     \/ /\ ~env.forward /\ RoomForIndex
        /\ calls' = [calls EXCEPT ![c] =
             [NoneCall EXCEPT !.state = "RINGING_IN", !.idx = nextIndex]]
        /\ radio' = [radio EXCEPT ![nextIndex] = incoming_call(c)]
        /\ voice_calls' = Append(voice_calls, nextIndex)
        /\ nextIndex' = nextIndex + 1
        /\ Runs(h, <<>>)
  /\ UNCHANGED <<started, activeCalls, waitVars, ret, up, referred, torn>>

\* After forwarding the call is given the index of the last radio call.
inviteIndex(t) ==
  /\ Running(t, "inviteIndex")
  /\ IF voice_calls = <<>>
     THEN Abort(t) /\ UNCHANGED calls                  \* IndexError
     ELSE /\ calls' = [calls EXCEPT ![Frame(t).c].idx =
                         voice_calls[Len(voice_calls)]]
          /\ Return(t) /\ UNCHANGED aborted
  /\ UNCHANGED <<radioVars, table, started, activeCalls, waitVars, ret, closed,
                 torn>>
  /\ ManagerUnchanged

\* Any INVITE on a known Call-ID is taken for a re-INVITE: a hold or resume of
\* the far end, or the first INVITE once more, whose SDP says sendrecv.
reinvite(h, c) ==
  /\ Arrives(h, "REINVITE") /\ InTable(c)
  /\ c \in up \/ (env.repeat /\ c \in Mt)
  /\ \E hold \in IF c \in up THEN BOOLEAN ELSE {FALSE} :
       /\ calls' = [calls EXCEPT ![c].state = IF hold THEN "HELD" ELSE "ACTIVE",
                      ![c].media = IF hold THEN Paused(@) ELSE Playing(@)]
       /\ radio' = RadioUpdate(calls[c].idx, IF hold THEN "HOLDING" ELSE "ACTIVE")
  /\ up' = up \cup {c}
  /\ Runs(h, <<>>)
  /\ UNCHANGED <<voice_calls, nextIndex, table, started, activeCalls, waitVars,
                 ret, referred, closed, torn>>

\* BYE and CANCEL: remove the call, stop its media, then drop the radio call.
\* The network may have answered our INVITE without us knowing yet.
incomingBye(h, c) ==
  /\ \E m \in {"BYE", "CANCEL"} :
       /\ Arrives(h, m)
       /\ IF m = "CANCEL" THEN c \in Mt /\ calls[c].state # "none"
          ELSE \/ c \in up
               \/ \E r \in inflight : r.c = c /\ r.m = "INVITE"
       /\ up' = IF m = "BYE" THEN up \cup {c} ELSE up
       /\ LET tail == Fr("byeTail", c, 0, IF m = "BYE" THEN 1 ELSE 0)
              gone == Fr("byeTail", NoCall, 0, tail.j)
          IN Runs(h, IF InTable(c) THEN StopMedia(c) \o <<tail>> ELSE <<gone>>)
  /\ IF InTable(c)
     THEN /\ table' = WithoutKey(table, c)
          /\ torn' = TornBy(c)
          /\ closed' = [closed EXCEPT ![c] = "peer"]
     ELSE UNCHANGED <<table, torn, closed>>
  /\ UNCHANGED <<radioVars, calls, started, activeCalls, waitVars, ret, referred>>

\* The first radio call with this Call-ID goes; only BYE recounts.
byeTail(t) ==
  /\ Running(t, "byeTail")
  /\ LET c == Frame(t).c
         k == IF c = NoCall THEN 0
              ELSE SelectInSeq(voice_calls, LAMBDA i : radio[i].sip = c)
     IN voice_calls' = IF k = 0 THEN voice_calls ELSE RemoveAt(voice_calls, k)
  /\ activeCalls' = IF Frame(t).j = 1 THEN CountActive(table, calls)
                    ELSE activeCalls
  /\ Return(t)
  /\ UNCHANGED <<radio, nextIndex, table, calls, started, waitVars, ret, closed,
                 torn, aborted>>
  /\ ManagerUnchanged

\* REFER: the far end transfers us; hang up and dial the target instead.
incomingRefer(h, c) ==
  /\ Arrives(h, "REFER") /\ c \in up
  /\ RoomForIndex /\ RoomForCall
  /\ Runs(h, IF ~InTable(c) THEN <<>>
             ELSE <<FrC("notify", c), FrC("hangupCall", c), FrI("dial", 0),
                    FrC("notify", c)>>)
  /\ UNCHANGED <<radioVars, sipVars, waitVars, ret, up, referred, closed, torn>>

\* NOTIFY for our own REFER: success ends the call if the REFER was accepted,
\* failure forgets the transfer.
incomingNotify(h, c) ==
  /\ Arrives(h, "NOTIFY")
  /\ \/ c \in referred
     \/ \E r \in inflight : r.c = c /\ r.m \in {"REFER", "ATTENDED"}
  /\ referred' = referred \cup {c}
  /\ \/ /\ Runs(h, IF InTable(c) /\ calls[c].xfer THEN <<FrC("hangupCall", c)>>
                   ELSE <<>>)
        /\ UNCHANGED calls
     \/ /\ InTable(c) /\ calls[c].xfer
        /\ calls' = [calls EXCEPT ![c].xfer = FALSE]
        /\ Runs(h, <<>>)
  /\ UNCHANGED <<radioVars, table, started, activeCalls, waitVars, ret, up,
                 closed, torn>>

-----------------------------------------------------------------------------

Request == \E t \in Ril : RilRequest(t)

\* Steps of a task that is running or has been woken.
Step(t) ==
  \/ dial(t) \/ dialDone(t) \/ answer(t) \/ hangup(t) \/ hangupDone(t)
  \/ hangupAll(t) \/ hangupIf(t) \/ clearCalls(t) \/ switch(t)
  \/ switchScan(t) \/ separate(t) \/ ect(t) \/ ectDone(t)
  \/ initiate(t) \/ inviteResult(t) \/ mediaStarted(t) \/ answerCall(t)
  \/ holdResume(t) \/ holdResumeDone(t) \/ conference(t) \/ transfer(t)
  \/ transferDone(t) \/ hangupCall(t) \/ mediaStopped(t) \/ bye(t)
  \/ byeDone(t) \/ stop(t) \/ notify(t) \/ inviteIndex(t) \/ byeTail(t)

Network ==
  \/ \E r \in inflight, ok \in BOOLEAN : response(r, ok)
  \/ \E c \in Mo : ringing(c)
  \/ \E h \in Handlers, c \in Dialog :
       \/ incomingInvite(h, c) \/ reinvite(h, c) \/ incomingBye(h, c)
       \/ incomingRefer(h, c) \/ incomingNotify(h, c)

\* With every task finished the process waits for the next event: a state
\* without successor is then one in which some task is stuck.
AwaitEvent == cpu = Idle /\ Quiescent /\ UNCHANGED vars

Next == \/ Request \/ Network \/ AwaitEvent
        \/ \E t \in Task : Step(t) \/ timeout(t)

Spec == Init /\ [][Next]_vars

\* A ready task is scheduled by the event loop, and timers fire; nothing is
\* assumed of the RIL clients or of the network.
Fairness == \A t \in Task : WF_vars(Step(t)) /\ WF_vars(timeout(t))
FairSpec == Spec /\ Fairness
-----------------------------------------------------------------------------
(* Properties of every interleaving. *)

\* A future registered for a Call-ID belongs to a task that is suspended in
\* send_request on that very Call-ID: no response can resolve the future of
\* a task that went on, however futures overwrite each other.
PendingHasWaiter ==
  \A c \in Dialog : pending[c] # Idle =>
    LET t == pending[c] IN
    /\ stack[t] # <<>> /\ Frame(t).op \in AwaitOps /\ Frame(t).c = c
    /\ resp[t] = NoResp

\* Once the phone has sent its BYE it sends no second BYE, no re-INVITE and
\* no REFER in that dialog, and after a BYE of the far end no re-INVITE and
\* no REFER, whoever hangs up, holds, swaps or transfers at the same time.
NothingAfterBye ==
  [][\A r \in inflight' \ inflight :
       /\ closed[r.c] = "us" => r.m = "NOTIFY"
       /\ closed[r.c] = "peer" => r.m \in {"NOTIFY", "BYE"}]_inflight

\* The radio index a call reports its state under is that of its own entry:
\* a state change from the network never lands on another call's entry.
UpdatesReachOwnCall ==
  \A c \in ToSet(table) : \A i \in ToSet(voice_calls) :
    calls[c].idx = i => radio[i].sip \in {c, NoCall}

\* With no task at work on it, a call that left the table keeps a running
\* media session only if it was removed while initiate_call or answer_call
\* was still setting it up.
LeakNeedsEarlyTeardown ==
  \A c \in Dialog \ (ToSet(table) \cup torn) :
    calls[c].media # "none" =>
      \E t \in Task : \E k \in DOMAIN stack[t] : stack[t][k] = FrC("STOP", c)

\* Every request of a client and every handler ends: no await lasts forever,
\* even when two tasks wait on one Call-ID and the network is silent.
RequestsEnd == \A t \in Task : stack[t] # <<>> ~> stack[t] = <<>>

-----------------------------------------------------------------------------
(* Properties of long sequences of requests that do not overlap. *)

Mirror(s) ==
  CASE s = "ACTIVE" -> {"ACTIVE"} [] s = "HOLDING" -> {"HELD"}
    [] s = "ALERTING" -> {"RINGING_OUT"} [] s = "DIALING" -> {"INITIATING"}
    [] s \in {"INCOMING", "WAITING"} -> {"RINGING_IN"}

\* Between requests the radio's call list and the SIP call table hold the
\* same calls, in matching states.
RadioMirrorsSip ==
  Quiescent =>
    /\ {radio[i].sip : i \in ToSet(voice_calls)} = ToSet(table)
    /\ Len(voice_calls) = Len(table)
    /\ \A i \in ToSet(voice_calls) :
         calls[radio[i].sip].state \in Mirror(radio[i].state)

\* Between requests only active calls transmit, a held call's session is
\* paused, and no session outlives its call.
MediaFollowsState ==
  Quiescent => \A c \in Dialog :
    /\ calls[c].media = "on" => calls[c].state = "ACTIVE"
    /\ calls[c].media = "paused" => calls[c].state = "HELD"
    /\ calls[c].media # "none" => InTable(c)

\* No request dies of an unhandled KeyError, ValueError or IndexError.
NoAbort == aborted = {}

-----------------------------------------------------------------------------
(* What the repository says of the program; each of these fails. *)

\* Android ANSWER -> RadioHAL.answer() -> answer_call() -> 200 OK -> ACTIVE:
\* an incoming call is ACTIVE only after the user answered it.
AnsweredByUser ==
  \A c \in Mt : calls[c].state = "ACTIVE" => c \in answered
=============================================================================
