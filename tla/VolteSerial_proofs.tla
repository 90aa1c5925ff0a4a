------------------------- MODULE VolteSerial_proofs -------------------------
(***************************************************************************)
(* What holds of VolteCalls while requests do not overlap, for any number  *)
(* of calls, clients, handlers and requests: the radio's call list and the *)
(* SIP call table mirror each other, media follow the state of the call,   *)
(* and no request dies of an exception.                                    *)
(*                                                                         *)
(* In the middle of a request the two lists differ, by at most the one     *)
(* call it is about (hang up all differs by every call it has not reached  *)
(* yet).  The invariant says for each coroutine at work what the rest of   *)
(* its task still has to put right, and that it will.                      *)
(***************************************************************************)
EXTENDS VolteCalls_proofs

SerialOps == {"dial", "answer", "hangup", "clear", "switch", "conference",
              "separate", "attended"}

\* Each request or message is finished before the next one, no call is
\* forwarded, and a 180 does not come after the call was answered.  The network
\* may repeat an INVITE.
Serial(e) ==
  /\ e.ops \subseteq SerialOps
  /\ e.msgs \subseteq {"INVITE", "REINVITE", "BYE", "CANCEL"}
  /\ e.overlap = 0 /\ ~e.forward /\ ~e.late

-----------------------------------------------------------------------------
(* The two lists. *)

\* Radio entry i and call c show the same state.
Agree(i, c) ==
  \/ radio[i].state = "ACTIVE" /\ calls[c].state = "ACTIVE"
  \/ radio[i].state = "HOLDING" /\ calls[c].state = "HELD"
  \/ /\ radio[i].state \in {"INCOMING", "WAITING"} /\ ~radio[i].mpty
     /\ calls[c].state = "RINGING_IN"

\* Radio entry i is that of call c.
Linked(i, c) ==
  /\ i \in ToSet(voice_calls) /\ c \in ToSet(table)
  /\ radio[i].sip = c /\ calls[c].idx = i

\* The lists mirror each other, apart from the entries in I and the calls in C.
Paired(I, C) ==
  /\ \A i \in ToSet(voice_calls) \ I :
       /\ radio[i].sip \notin C
       /\ Linked(i, radio[i].sip) /\ Agree(i, radio[i].sip)
  /\ \A c \in ToSet(table) \ C : calls[c].idx \notin I /\ Linked(calls[c].idx, c)

MediaGood(c) ==
  /\ calls[c].media = "on" => calls[c].state = "ACTIVE"
  /\ calls[c].media = "paused" => calls[c].state = "HELD"
  /\ calls[c].media # "none" => InTable(c)
MediaOK(C) == \A c \in Dialog \ C : MediaGood(c)

\* The network has answered our calls, but those in C.
UpOK(C) == \A c \in ToSet(table) \cap Mo : c \in up \cup C

Match(I, C) == Paired(I, C) /\ MediaOK({}) /\ UpOK({})
Steady == Match({}, {})

-----------------------------------------------------------------------------
(* What is left to do, by the coroutine f at work; r awaits it. *)

\* The call that dial made has its entry, but the entry not yet its Call-ID.
Made(i, c) ==
  /\ i \in ToSet(voice_calls) /\ c \in ToSet(table)
  /\ calls[c].idx = i /\ Match({i}, {c})
  /\ calls[c].state = "ACTIVE" /\ radio[i].state = "ACTIVE"

InitiateAt(i, r) ==
  r = <<FrI("dialDone", i)>> /\ i \in ToSet(voice_calls) /\ Match({i}, {})

InviteAt(t, c, r) ==
  \E i \in ToSet(voice_calls) :
    /\ r = <<FrI("dialDone", i)>>
    /\ c \in ToSet(table) /\ calls[c].idx = i
    /\ Paired({i}, {c}) /\ MediaOK({}) /\ UpOK({c})
    /\ \A q \in inflight : q.c = c => q.m = "INVITE"
    /\ resp[t].ok => c \in up

StartAt(c, r) ==
  \/ r = <<>> /\ Steady /\ c \in ToSet(table) /\ calls[c].state = "ACTIVE"
  \/ \E i \in ToSet(voice_calls) : r = <<FrI("dialDone", i)>> /\ Made(i, c)

DialDoneAt(t, i, r) ==
  /\ r = <<>>
  /\ \/ ret[t] = NoCall /\ i \in ToSet(voice_calls) /\ Match({i}, {})
     \/ \E c \in Dialog : ret[t] = c /\ Made(i, c)

\* The radio shows a call as answered that still rings.
AnswerAt(c, r) ==
  /\ r = <<>>
  /\ \E i \in ToSet(voice_calls) :
       /\ Linked(i, c) /\ Match({i}, {c})
       /\ radio[i].state = "ACTIVE" /\ calls[c].state = "RINGING_IN"

\* hang up all has listed every call in the table but those in C.
Clearing(s, C) ==
  /\ s # <<>> /\ s[Len(s)] = FrI("clear", 1)
  /\ \A k \in 1 .. Len(s) - 1 : s[k].op = "hangupIf"
  /\ \A c \in ToSet(table) \ C : \E k \in 1 .. Len(s) :
       s[k].op = "hangupIf" /\ radio[s[k].i].sip = c

\* A call is gone, and what awaited that drops its entry, or all entries.
Leaving(r) ==
  \/ \E i \in ToSet(voice_calls) : r = <<FrI("hangupDone", i)>> /\ Paired({i}, {})
  \/ Clearing(r, {})

HangupAt(c, r) ==
  /\ MediaOK({}) /\ UpOK({})
  /\ \/ \E i \in ToSet(voice_calls) :
          r = <<FrI("hangupDone", i)>> /\ Linked(i, c) /\ Paired({}, {})
     \/ Clearing(r, {c})

\* The entry that a BYE or CANCEL from the network left behind.
Remains(c, i) ==
  i \in ToSet(voice_calls) /\ radio[i].sip = c /\ c \notin ToSet(table) /\ Paired({i}, {})

StopAt(c, r) ==
  /\ c \notin ToSet(table) /\ MediaOK({c}) /\ UpOK({})
  /\ \/ \E q \in Seq(Frames) : r = <<FrC("bye", c)>> \o q /\ Leaving(q)
     \/ \E i \in 1 .. MaxIndex, j \in {0, 1} :
          r = <<Fr("byeTail", c, 0, j)>> /\ Remains(c, i)

ByeAt(c, r) == c \notin ToSet(table) /\ MediaOK({}) /\ UpOK({}) /\ Leaving(r)
HangupDoneAt(i, r) == r = <<>> /\ i \in ToSet(voice_calls) /\ Match({i}, {})
ClearAt(s) == MediaOK({}) /\ UpOK({}) /\ Clearing(s, {})

ByeTailAt(c, r) ==
  /\ r = <<>>
  /\ \/ c = NoCall /\ Steady
     \/ c # NoCall /\ MediaOK({}) /\ UpOK({}) /\ \E i \in 1 .. MaxIndex : Remains(c, i)

\* What may await a hold: the rest of a swap, or nothing.
Waiting(w) == w \in ToSet(voice_calls) /\ radio[w].state = "WAITING"
Continues(r) ==
  \/ r = <<>>
  \/ \E k \in 0 .. MaxIndex + 1, w \in 1 .. MaxIndex :
       r = <<Fr("switchScan", NoCall, k, w)>> /\ Waiting(w)
  \/ \E d \in Dialog : r = <<FrC("resume", d)>>

HoldAt(c, r) ==
  /\ Continues(r)
  /\ \E i \in ToSet(voice_calls) :
       /\ Linked(i, c) /\ Match({i}, {c})
       /\ \/ radio[i].state = "HOLDING" /\ calls[c].state \in {"ACTIVE", "HELD"}
          \/ radio[i].state = "ACTIVE" /\ calls[c].state = "ACTIVE"

\* The re-INVITE is out: the call has its new state and the entry gets it next.
ReinviteAt(c, s) ==
  \E i \in ToSet(voice_calls) :
    /\ Linked(i, c) /\ Match({i}, {c})
    /\ calls[c].state = s /\ radio[i].state # "WAITING"

PhaseOf(t, f, r) ==
  /\ f.op \in SerialOps \cup AwaitOps \cup MediaOps \cup
       {"initiate", "dialDone", "answerCall", "hangupCall", "bye", "hangupDone",
        "hangupIf", "byeTail", "hold", "resume", "switchScan"}
  /\ f.op \notin {"REFER", "NOTIFY"}
  /\ f.op \in AwaitOps /\ resp[t] = NoResp => pending[f.c] = t
  /\ f.op \in SerialOps /\ (f.op = "clear" => f.i = 0) => r = <<>> /\ Steady
  /\ f.op = "clear" /\ f.i # 0 => ClearAt(<<f>> \o r)
  /\ f.op = "hangupIf" => ClearAt(<<f>> \o r)
  /\ f.op = "initiate" => InitiateAt(f.i, r)
  /\ f.op = "INVITE" => InviteAt(t, f.c, r)
  /\ f.op = "START" => StartAt(f.c, r)
  /\ f.op = "dialDone" => DialDoneAt(t, f.i, r)
  /\ f.op = "answerCall" => AnswerAt(f.c, r)
  /\ f.op = "hangupCall" => HangupAt(f.c, r)
  /\ f.op = "STOP" => StopAt(f.c, r)
  /\ f.op \in {"bye", "BYE"} => ByeAt(f.c, r)
  /\ f.op = "hangupDone" => HangupDoneAt(f.i, r)
  /\ f.op = "byeTail" => ByeTailAt(f.c, r)
  /\ f.op = "hold" => HoldAt(f.c, r)
  /\ f.op = "HOLD" => Continues(r) /\ ReinviteAt(f.c, "HELD")
  /\ f.op = "RESUME" => r = <<>> /\ ReinviteAt(f.c, "ACTIVE")
  /\ f.op \in {"resume", "ATTENDED"} => r = <<>> /\ Steady
  /\ f.op = "switchScan" => r = <<>> /\ Steady /\ Waiting(f.j)

Alone(t) == \A u \in Task \ {t} : stack[u] = <<>>

\* Task t is the only one at work.
AtWork(t) ==
  /\ Alone(t)
  /\ \E f \in Frames, r \in Seq(Frames) : stack[t] = <<f>> \o r /\ PhaseOf(t, f, r)

Orderly ==
  /\ aborted = {} /\ started
  /\ \A q \in inflight : calls[q.c].state # "none"
  /\ (Quiescent /\ Steady) \/ \E t \in Task : AtWork(t)

SerialInv == Serial(env) /\ Orderly

-----------------------------------------------------------------------------
(* Stacks. *)

\* A stack with something to do has a coroutine at work and those awaiting it.
LEMMA Parts ==
  ASSUME NEW s \in Seq(Frames), s # <<>>
  PROVE  \E f \in Frames, r \in Seq(Frames) :
           s = <<f>> \o r /\ f = Head(s) /\ r = Tail(s)
<1>1. /\ Tail(s) \in Seq(Frames) /\ Len(Tail(s)) = Len(s) - 1
      /\ Head(s) \in Frames /\ s = <<Head(s)>> \o Tail(s)
  BY HeadTailProperties
<1> QED
  BY <1>1

\* Coroutine f, awaited by r.
LEMMA Joined ==
  ASSUME NEW f \in Frames, NEW r \in Seq(Frames)
  PROVE  /\ <<f>> \o r \in Seq(Frames) /\ <<f>> \o r # <<>>
         /\ Head(<<f>> \o r) = f /\ Tail(<<f>> \o r) = r
<1> DEFINE s == <<f>> \o r
<1>1. <<f>> \in Seq(Frames) /\ Len(<<f>>) = 1 /\ <<f>>[1] = f
  OBVIOUS
<1>2. /\ s \in Seq(Frames) /\ Len(s) = 1 + Len(r)
      /\ \A k \in 1 .. 1 + Len(r) : s[k] = IF k <= 1 THEN <<f>>[k] ELSE r[k - 1]
  BY <1>1, ConcatProperties
<1>3. Len(r) \in Nat /\ s[1] = f
  BY <1>1, <1>2
<1> HIDE DEF s
<1>4. s # <<>>
  BY <1>2, <1>3
<1>5. /\ Head(s) = s[1] /\ Tail(s) \in Seq(Frames) /\ Len(Tail(s)) = Len(s) - 1
      /\ \A k \in 1 .. Len(Tail(s)) : Tail(s)[k] = s[k + 1]
  BY <1>2, <1>4, HeadTailProperties
<1>6. ASSUME NEW k \in 1 .. Len(r) PROVE Tail(s)[k] = r[k]
  <2>1. /\ k \in 1 .. Len(Tail(s)) /\ k + 1 \in 1 .. 1 + Len(r)
        /\ ~(k + 1 <= 1) /\ (k + 1) - 1 = k
    BY <1>2, <1>3, <1>5
  <2> QED
    BY <1>2, <1>5, <2>1
<1>7. Tail(s) = r
  BY <1>2, <1>3, <1>5, <1>6, SeqEqual
<1> QED
  BY <1>2, <1>3, <1>4, <1>5, <1>7 DEF s

\* Two coroutines are pushed one after the other.
LEMMA Pushed ==
  ASSUME NEW f \in Frames, NEW g \in Frames, NEW r \in Seq(Frames)
  PROVE  /\ <<f>> \o r \in Seq(Frames) /\ <<g>> \in Seq(Frames) /\ <<>> \in Seq(Frames)
         /\ <<f, g>> \o r = <<f>> \o (<<g>> \o r)
         /\ <<>> \o r = r /\ r \o <<>> = r /\ <<f, g>> = <<f>> \o <<g>>
         /\ <<f>> = <<f>> \o <<>>
<1>1. <<f>> \in Seq(Frames) /\ <<g>> \in Seq(Frames) /\ <<>> \in Seq(Frames)
  OBVIOUS
<1>2. <<f, g>> = <<f>> \o <<g>>
  <2> DEFINE a == <<f, g>>
             b == <<f>> \o <<g>>
  <2>1. Len(<<f>>) = 1 /\ Len(<<g>>) = 1 /\ <<f>>[1] = f /\ <<g>>[1] = g
    OBVIOUS
  <2>2. /\ b \in Seq(Frames) /\ Len(b) = Len(<<f>>) + Len(<<g>>)
        /\ \A k \in 1 .. Len(<<f>>) + Len(<<g>>) :
             b[k] = IF k <= Len(<<f>>) THEN <<f>>[k] ELSE <<g>>[k - Len(<<f>>)]
    BY <1>1, ConcatProperties
  <2>3. a \in Seq(Frames) /\ Len(a) = 2 /\ a[1] = f /\ a[2] = g
    OBVIOUS
  <2> HIDE DEF a, b
  <2>4. Len(b) = 2 /\ b[1] = f /\ b[2] = g
    BY <2>1, <2>2
  <2>5. \A k \in 1 .. 2 : k = 1 \/ k = 2
    OBVIOUS
  <2>6. a = b
    BY <2>2, <2>3, <2>4, <2>5, SeqEqual
  <2> QED
    BY <2>6 DEF a, b
<1>3. (<<f>> \o <<g>>) \o r = <<f>> \o (<<g>> \o r)
  BY <1>1, ConcatAssociative
<1>4. <<>> \o r = r /\ r \o <<>> = r /\ <<f>> = <<f>> \o <<>>
  BY <1>1, ConcatEmptySeq
<1> QED
  BY <1>1, <1>2, <1>3, <1>4, Joined

-----------------------------------------------------------------------------
(* The task at work. *)

\* If some task is unfinished it is the only one, and in the middle of a phase.
LEMMA Lone ==
  ASSUME Orderly, NEW t \in Task, stack[t] # <<>>
  PROVE  AtWork(t)
<1>1. \E u \in Task : AtWork(u)
  BY DEF Orderly, Quiescent
<1>2. PICK u \in Task : AtWork(u)
  BY <1>1
<1>3. u = t
  BY <1>2 DEF AtWork, Alone
<1> QED
  BY <1>2, <1>3

\* What it is at.
LEMMA Works ==
  ASSUME IInv, NEW t \in Task, AtWork(t)
  PROVE  \E f \in Frames, r \in Seq(Frames) :
           /\ stack[t] = <<f>> \o r /\ f = Frame(t) /\ r = Tail(stack[t])
           /\ FrameOK(f) /\ PhaseOf(t, f, r)
<1>1. PICK f \in Frames, r \in Seq(Frames) : stack[t] = <<f>> \o r /\ PhaseOf(t, f, r)
  BY DEF AtWork
<1>2. stack[t] # <<>> /\ Head(stack[t]) = f /\ Tail(stack[t]) = r
  BY <1>1, Joined
<1>3. FrameOK(f)
  BY <1>2, HeadFrame DEF IInv, Frame
<1> QED
  BY <1>1, <1>2, <1>3 DEF Frame

\* It goes on with coroutine f.
LEMMA GoesOn ==
  ASSUME TypeInv, NEW t \in Task, Alone(t), NEW f \in Frames, NEW r \in Seq(Frames),
         stack' = [stack EXCEPT ![t] = <<f>> \o r], PhaseOf(t, f, r)'
  PROVE  \E u \in Task : AtWork(u)'
<1>1. stack'[t] = <<f>> \o r /\ \A u \in Task \ {t} : stack'[u] = <<>>
  BY DEF TypeInv, StacksOK, Alone
<1>2. AtWork(t)'
  BY <1>1 DEF AtWork, Alone
<1> QED
  BY <1>2

\* It ends.
LEMMA Ends ==
  ASSUME TypeInv, NEW t \in Task, Alone(t), stack' = [stack EXCEPT ![t] = <<>>], Steady'
  PROVE  (Quiescent /\ Steady)'
<1>1. \A u \in Task : stack'[u] = <<>>
  BY DEF TypeInv, StacksOK, Alone
<1> QED
  BY <1>1 DEF Quiescent

\* With no overlap allowed, a task only starts when none is unfinished.
LEMMA Starts ==
  ASSUME Orderly, Serial(env), TypeInv, MayStart
  PROVE  Quiescent /\ Steady
<1> DEFINE Busy == {t \in Task : stack[t] # <<>>}
<1>1. Cardinality(Busy) <= 0
  BY DEF MayStart, Serial
<1>2. IsFiniteSet(Busy)
  <2>1. IsFiniteSet(Task) /\ Busy \subseteq Task
    BY CallsAssumption
  <2> QED
    BY <2>1, FS_Subset
<1>3. Busy = {}
  BY <1>1, <1>2, FS_CardinalityType, FS_EmptySet
<1>4. Quiescent
  BY <1>3 DEF Quiescent
<1>5. ASSUME NEW t \in Task, AtWork(t) PROVE FALSE
  <2>1. PICK f \in Frames, r \in Seq(Frames) : stack[t] = <<f>> \o r
    BY <1>5 DEF AtWork
  <2> QED
    BY <1>4, <2>1, Joined DEF Quiescent
<1> QED
  BY <1>4, <1>5 DEF Orderly

-----------------------------------------------------------------------------
(* How the two lists stay together. *)

\* The lists mirror each other as before where nothing changed.
LEMMA PairedKept ==
  ASSUME NEW I, NEW C, NEW J, NEW D, Paired(I, C),
         ToSet(voice_calls') \ J = ToSet(voice_calls) \ I,
         ToSet(table') \ D = ToSet(table) \ C,
         \A i \in ToSet(voice_calls) \ I : radio'[i] = radio[i],
         \A c \in ToSet(table) \ C :
           calls'[c].state = calls[c].state /\ calls'[c].idx = calls[c].idx
  PROVE  Paired(J, D)'
<1>1. ASSUME NEW i \in ToSet(voice_calls') \ J
      PROVE  /\ radio'[i].sip \notin D
             /\ Linked(i, radio[i].sip)' /\ Agree(i, radio[i].sip)'
  <2>1. i \in ToSet(voice_calls) \ I /\ radio'[i] = radio[i]
    OBVIOUS
  <2>2. radio[i].sip \in ToSet(table) \ C
    BY <2>1 DEF Paired, Linked
  <2> QED
    BY <2>1, <2>2 DEF Paired, Linked, Agree
<1>2. ASSUME NEW c \in ToSet(table') \ D
      PROVE  calls'[c].idx \notin J /\ Linked(calls[c].idx, c)'
  <2>1. c \in ToSet(table) \ C
    OBVIOUS
  <2>2. calls[c].idx \in ToSet(voice_calls) \ I
    BY <2>1 DEF Paired, Linked
  <2> QED
    BY <2>1, <2>2 DEF Paired, Linked
<1> QED
  BY <1>1, <1>2 DEF Paired

\* One entry and its call are set apart, and paired again.
LEMMA Apart ==
  ASSUME NEW i, NEW c, Paired({}, {}), Linked(i, c)
  PROVE  Paired({i}, {c}) /\ Agree(i, c)
<1>1. Agree(i, c)
  BY DEF Paired, Linked
<1>2. ASSUME NEW j \in ToSet(voice_calls) \ {i} PROVE radio[j].sip # c
  BY DEF Paired, Linked
<1>3. ASSUME NEW d \in ToSet(table) \ {c} PROVE calls[d].idx # i
  BY DEF Paired, Linked
<1> QED
  BY <1>1, <1>2, <1>3 DEF Paired

\* They are paired again when they show the same state.
LEMMA Together ==
  ASSUME NEW i, NEW c, Paired({i}, {c})', Linked(i, c)', Agree(i, c)'
  PROVE  Paired({}, {})'
<1>1. ASSUME NEW j \in ToSet(voice_calls')
      PROVE  Linked(j, radio[j].sip)' /\ Agree(j, radio[j].sip)'
  BY DEF Paired, Linked
<1>2. ASSUME NEW d \in ToSet(table') PROVE Linked(calls[d].idx, d)'
  BY DEF Paired, Linked
<1> QED
  BY <1>1, <1>2 DEF Paired

\* In mirrored lists an entry has a call and a call an entry.
LEMMA Partner ==
  ASSUME Paired({}, {})
  PROVE  /\ \A i \in ToSet(voice_calls) : Linked(i, radio[i].sip) /\ Agree(i, radio[i].sip)
         /\ \A c \in ToSet(table) : Linked(calls[c].idx, c)
BY DEF Paired

\* The media of calls stay right where nothing changed.
LEMMA MediaKept ==
  ASSUME NEW C, NEW D, MediaOK(C),
         \A c \in Dialog \ D :
           \/ MediaGood(c)'
           \/ /\ c \notin C /\ calls'[c] = calls[c]
              /\ c \in ToSet(table) => c \in ToSet(table')
  PROVE  MediaOK(D)'
BY DEF MediaOK, MediaGood, InTable

\* Both stay as they are when the lists do.
LEMMA Same ==
  ASSUME UNCHANGED <<voice_calls, radio, table, calls>>, up \subseteq up'
  PROVE  \A I, C : /\ Paired(I, C) => Paired(I, C)'
                   /\ MediaOK(C) => MediaOK(C)'
                   /\ UpOK(C) => UpOK(C)'
                   /\ Match(I, C) => Match(I, C)'
<1>1. ASSUME NEW I, NEW C, Paired(I, C) PROVE Paired(I, C)'
  BY <1>1, PairedKept
<1>2. ASSUME NEW C, MediaOK(C) PROVE MediaOK(C)'
  BY <1>2, MediaKept
<1>3. ASSUME NEW C, UpOK(C) PROVE UpOK(C)'
  BY <1>3 DEF UpOK
<1> QED
  BY <1>1, <1>2, <1>3 DEF Match

\* Media and answers stay right when only entries of the radio change.
LEMMA SameCalls ==
  ASSUME UNCHANGED <<table, calls>>, up \subseteq up'
  PROVE  \A C : (MediaOK(C) => MediaOK(C)') /\ (UpOK(C) => UpOK(C)')
<1>1. ASSUME NEW C, MediaOK(C) PROVE MediaOK(C)'
  BY <1>1, MediaKept
<1>2. ASSUME NEW C, UpOK(C) PROVE UpOK(C)'
  BY <1>2 DEF UpOK
<1> QED
  BY <1>1, <1>2

-----------------------------------------------------------------------------
(* What a step leads to. *)

Onward == (Quiescent /\ Steady)' \/ \E u \in Task : AtWork(u)'

\* What the task at work is doing.
LEMMA Doing ==
  ASSUME IInv, Orderly, NEW t \in Task, stack[t] # <<>>
  PROVE  /\ Alone(t)
         /\ \E f \in Frames, r \in Seq(Frames) :
              /\ stack[t] = <<f>> \o r /\ f = Frame(t) /\ r = Tail(stack[t])
              /\ FrameOK(f) /\ PhaseOf(t, f, r)
BY Lone, Works DEF AtWork

\* Coroutine f may go on, awaited by r.
Ready(t, f, r) ==
  \/ f.op \in SerialOps /\ (f.op = "clear" => f.i = 0) /\ r = <<>> /\ Steady
  \/ f.op = "clear" /\ f.i # 0 /\ ClearAt(<<f>> \o r)
  \/ f.op = "hangupIf" /\ ClearAt(<<f>> \o r)
  \/ f.op = "initiate" /\ InitiateAt(f.i, r)
  \/ f.op = "INVITE" /\ InviteAt(t, f.c, r) /\ pending[f.c] = t
  \/ f.op = "START" /\ StartAt(f.c, r)
  \/ f.op = "dialDone" /\ DialDoneAt(t, f.i, r)
  \/ f.op = "answerCall" /\ AnswerAt(f.c, r)
  \/ f.op = "hangupCall" /\ HangupAt(f.c, r)
  \/ f.op = "STOP" /\ StopAt(f.c, r)
  \/ f.op = "bye" /\ ByeAt(f.c, r)
  \/ f.op = "BYE" /\ ByeAt(f.c, r) /\ pending[f.c] = t
  \/ f.op = "hangupDone" /\ HangupDoneAt(f.i, r)
  \/ f.op = "byeTail" /\ ByeTailAt(f.c, r)
  \/ f.op = "hold" /\ HoldAt(f.c, r)
  \/ f.op = "HOLD" /\ Continues(r) /\ ReinviteAt(f.c, "HELD") /\ pending[f.c] = t
  \/ f.op = "RESUME" /\ r = <<>> /\ ReinviteAt(f.c, "ACTIVE") /\ pending[f.c] = t
  \/ f.op = "resume" /\ r = <<>> /\ Steady
  \/ f.op = "ATTENDED" /\ r = <<>> /\ Steady /\ pending[f.c] = t
  \/ f.op = "switchScan" /\ r = <<>> /\ Steady /\ Waiting(f.j)

\* The task goes on with a coroutine that is ready.
LEMMA Onto ==
  ASSUME IInv, NEW t \in Task, Alone(t), NEW f \in Frames, NEW r \in Seq(Frames),
         stack' = [stack EXCEPT ![t] = <<f>> \o r], Ready(t, f, r)'
  PROVE  Onward
<1>1. PhaseOf(t, f, r)'
  BY DEF Ready, PhaseOf, SerialOps, AwaitOps, MediaOps
<1> QED
  BY <1>1, GoesOn DEF Onward, IInv

\* The task ends with the lists mirroring each other.
LEMMA Over ==
  ASSUME IInv, NEW t \in Task, Alone(t), stack' = [stack EXCEPT ![t] = <<>>], Steady'
  PROVE  Onward
BY Ends DEF Onward, IInv

\* No request is lost on the way, and no call is forgotten.
LEMMA Kept ==
  ASSUME IInv, Orderly, UNCHANGED <<aborted, started>>, inflight' \subseteq inflight,
         \A c \in Dialog : calls[c].state # "none" => calls'[c].state # "none", Onward
  PROVE  Orderly'
BY DEF Orderly, Onward, IInv, TypeInv, WaitOK

\* A request about a call is sent.
LEMMA KeptSent ==
  ASSUME IInv, Orderly, UNCHANGED <<aborted, started>>,
         NEW t \in Task, NEW c \in Dialog, NEW m \in AwaitOps, SendRequest(t, c, m),
         calls'[c].state # "none",
         \A d \in Dialog : calls[d].state # "none" => calls'[d].state # "none", Onward
  PROVE  Orderly' /\ pending'[c] = t
<1>1. inflight' = inflight \cup {[c |-> c, m |-> m, t |-> t]}
  BY DEF SendRequest
<1>2. pending'[c] = t
  BY DEF SendRequest, IInv, TypeInv, WaitOK
<1> QED
  BY <1>1, <1>2 DEF Orderly, Onward, IInv, TypeInv, WaitOK

\* Frames are well-formed.
LEMMA FrameMade ==
  /\ \A op \in RunOps \cup AwaitOps \cup MediaOps : \A c \in Dialog \cup {NoCall} :
       FrC(op, c) \in Frames /\ FrC(op, c).op = op /\ FrC(op, c).c = c
  /\ \A op \in RunOps : \A i \in 0 .. MaxIndex :
       FrI(op, i) \in Frames /\ FrI(op, i).op = op /\ FrI(op, i).i = i
                             /\ FrI(op, i).c = NoCall
  /\ \A op \in RunOps : \A c \in Dialog \cup {NoCall} :
       \A i \in 0 .. MaxIndex + 1 : \A j \in 0 .. MaxIndex :
         /\ Fr(op, c, i, j) \in Frames /\ Fr(op, c, i, j).op = op
         /\ Fr(op, c, i, j).c = c /\ Fr(op, c, i, j).i = i /\ Fr(op, c, i, j).j = j
<1>1. /\ MaxIndex \in Nat /\ 0 \in 0 .. MaxIndex /\ 0 \in 0 .. MaxIndex + 1
      /\ \A i \in 0 .. MaxIndex : i \in 0 .. MaxIndex + 1
  BY CallsAssumption
<1> DEFINE X == 0 .. MaxIndex + 1
           Y == 0 .. MaxIndex
<1> HIDE DEF X, Y
<1>2. 0 \in Y /\ 0 \in X /\ \A i \in Y : i \in X
  BY <1>1 DEF X, Y
<1>3. Frames = [op: AwaitOps \cup MediaOps \cup RunOps, c: Dialog \cup {NoCall},
                i: X, j: Y]
  BY DEF Frames, X, Y
<1>4. \A op \in RunOps \cup AwaitOps \cup MediaOps : \A c \in Dialog \cup {NoCall} :
        FrC(op, c) \in Frames /\ FrC(op, c).op = op /\ FrC(op, c).c = c
  BY <1>2, <1>3 DEF FrC, Fr
<1>5. \A op \in RunOps : \A i \in Y :
        FrI(op, i) \in Frames /\ FrI(op, i).op = op /\ FrI(op, i).i = i
                              /\ FrI(op, i).c = NoCall
  BY <1>2, <1>3 DEF FrI, Fr
<1>6. \A op \in RunOps : \A c \in Dialog \cup {NoCall} : \A i \in X : \A j \in Y :
        /\ Fr(op, c, i, j) \in Frames /\ Fr(op, c, i, j).op = op
        /\ Fr(op, c, i, j).c = c /\ Fr(op, c, i, j).i = i /\ Fr(op, c, i, j).j = j
  BY <1>3 DEF Fr
<1> QED
  BY <1>4, <1>5, <1>6 DEF X, Y

\* So is the loop of a swap.
LEMMA ScanMade ==
  ASSUME NEW i \in 0 .. MaxIndex + 1, NEW j \in 1 .. MaxIndex
  PROVE  LET f == Fr("switchScan", NoCall, i, j) IN
         f \in Frames /\ f.op = "switchScan" /\ f.i = i /\ f.j = j
BY CallsAssumption DEF Fr, Frames, RunOps

\* What the running coroutine leaves on its stack.
LEMMA Returned ==
  ASSUME NEW t \in Task, NEW r \in Seq(Frames), r = Tail(stack[t]), Return(t)
  PROVE  stack' = [stack EXCEPT ![t] = r]
<1>1. <<>> \o r = r
  BY ConcatEmptySeq
<1> QED
  BY <1>1 DEF Return, Become, Runs

\* It awaits another coroutine, or suspends in one.
LEMMA Became ==
  ASSUME NEW t \in Task, NEW r \in Seq(Frames), r = Tail(stack[t]), NEW f \in Frames,
         Become(t, <<f>>) \/ Suspend(t, f)
  PROVE  stack' = [stack EXCEPT ![t] = <<f>> \o r]
BY DEF Become, Runs, Suspend

\* It awaits one coroutine after another.
LEMMA BecameTwo ==
  ASSUME NEW t \in Task, NEW r \in Seq(Frames), r = Tail(stack[t]),
         NEW f \in Frames, NEW g \in Frames, Become(t, <<f, g>>)
  PROVE  stack' = [stack EXCEPT ![t] = <<f>> \o (<<g>> \o r)]
<1>1. <<f, g>> \o r = <<f>> \o (<<g>> \o r)
  BY Pushed
<1>2. stack' = [stack EXCEPT ![t] = <<f, g>> \o r]
  BY DEF Become, Runs
<1> QED
  BY <1>1, <1>2

\* A radio call changes its state.
LEMMA EntrySet ==
  ASSUME TypeInv, NEW i \in 1 .. MaxIndex, NEW s,
         radio' = [radio EXCEPT ![i].state = s]
  PROVE  /\ radio'[i].state = s
         /\ radio'[i].sip = radio[i].sip /\ radio'[i].mpty = radio[i].mpty
         /\ \A j \in 1 .. MaxIndex \ {i} : radio'[j] = radio[j]
BY DEF TypeInv, RadioOK

\* A call changes its state.
LEMMA CallSet ==
  ASSUME TypeInv, NEW c \in Dialog, NEW s,
         calls' = [calls EXCEPT ![c].state = s]
  PROVE  /\ calls'[c].state = s
         /\ calls'[c].idx = calls[c].idx /\ calls'[c].media = calls[c].media
         /\ \A d \in Dialog \ {c} : calls'[d] = calls[d]
BY DEF TypeInv, TableOK

\* A call is held or resumed, and its media paused or played.
LEMMA CallHeld ==
  ASSUME TypeInv, NEW c \in Dialog, NEW s \in {"HELD", "ACTIVE"}, NEW m,
         m = (IF s = "HELD" THEN Paused(calls[c].media) ELSE Playing(calls[c].media)),
         calls' = [calls EXCEPT ![c].state = s, ![c].media = m]
  PROVE  /\ calls'[c].state = s /\ calls'[c].idx = calls[c].idx
         /\ c \in ToSet(table') => MediaGood(c)'
         /\ calls[c].media = "none" => MediaGood(c)'
         /\ \A d \in Dialog \ {c} : calls'[d] = calls[d]
<1> DEFINE e == [calls[c] EXCEPT !.state = s, !.media = m]
<1>1. calls \in [Dialog -> CallEntry] /\ calls[c] \in CallEntry
  BY DEF TypeInv, TableOK, CallEntry
<1>2. calls' = [calls EXCEPT ![c] = e]
  BY <1>1
<1>3. e.state = s /\ e.idx = calls[c].idx /\ e.media = m
  BY <1>1 DEF CallEntry
<1> HIDE DEF e
<1>4. calls'[c] = e /\ \A d \in Dialog \ {c} : calls'[d] = calls[d]
  BY <1>1, <1>2
<1>5. /\ c \in ToSet(table') => MediaGood(c)'
      /\ calls[c].media = "none" => MediaGood(c)'
  BY <1>3, <1>4 DEF MediaGood, InTable, Paused, Playing
<1> QED
  BY <1>3, <1>4, <1>5

\* The first call in a state is a call in the table, and in that state.
LEMMA FirstFound ==
  ASSUME TypeInv, NEW s, FirstIn(s) # 0
  PROVE  /\ table[FirstIn(s)] \in ToSet(table)
         /\ calls[table[FirstIn(s)]].state = s
<1> DEFINE I == {k \in 1 .. Len(table) : calls[table[k]].state = s}
<1>1. FirstIn(s) = IF I # {} THEN Min(I) ELSE 0
  BY DEF FirstIn, SelectInSeq
<1>2. table \in Seq(Dialog) /\ Len(table) \in Nat
  BY DEF TypeInv, TableOK
<1>3. I \in SUBSET (1 .. Len(table)) /\ \A k \in I : calls[table[k]].state = s
  OBVIOUS
<1> HIDE DEF I
<1>4. FirstIn(s) \in I
  BY <1>1, <1>2, <1>3, FirstPosition
<1>5. \A k \in 1 .. Len(table) : table[k] \in ToSet(table)
  BY <1>2 DEF ToSet
<1> QED
  BY <1>3, <1>4, <1>5

\* The first of some positions of the call list.
LEMMA FirstEntry ==
  ASSUME TypeInv, NEW I \in SUBSET (1 .. Len(voice_calls)), I # {}
  PROVE  Min(I) \in I /\ voice_calls[Min(I)] \in ToSet(voice_calls)
<1>1. Len(voice_calls) \in Nat
  BY DEF TypeInv, RadioOK
<1>2. Min(I) \in I
  BY <1>1, FirstPosition
<1>3. \A j \in 1 .. Len(voice_calls) : voice_calls[j] \in ToSet(voice_calls)
  BY DEF ToSet
<1> QED
  BY <1>2, <1>3

\* A radio call is given its Call-ID.
LEMMA EntrySip ==
  ASSUME TypeInv, NEW i \in 1 .. MaxIndex, NEW c, radio' = [radio EXCEPT ![i].sip = c]
  PROVE  /\ radio'[i].sip = c
         /\ radio'[i].state = radio[i].state /\ radio'[i].mpty = radio[i].mpty
         /\ \A j \in 1 .. MaxIndex \ {i} : radio'[j] = radio[j]
BY DEF TypeInv, RadioOK

\* An entry and its call are set apart from the lists that mirror each other.
LEMMA SetApart ==
  ASSUME NEW i, NEW c, Steady, Linked(i, c)
  PROVE  Match({i}, {c}) /\ Agree(i, c)
<1>1. Paired({i}, {c}) /\ Agree(i, c)
  BY Apart DEF Steady, Match
<1> QED
  BY <1>1 DEF Steady, Match, UpOK

\* Nothing but that entry and that call changes.
LEMMA Touched ==
  ASSUME TypeInv, NEW i, NEW c, Match({i}, {c}), UNCHANGED <<voice_calls, table>>,
         up \subseteq up', \A j \in 1 .. MaxIndex \ {i} : radio'[j] = radio[j],
         \A d \in Dialog \ {c} : calls'[d] = calls[d], MediaGood(c)' \/ UNCHANGED calls
  PROVE  /\ Match({i}, {c})'
         /\ Linked(i, c)' /\ Agree(i, c)' => Steady'
<1>1. Paired({i}, {c}) /\ MediaOK({}) /\ UpOK({})
  BY DEF Match
<1>2. Paired({i}, {c})'
  <2>1. \A j \in ToSet(voice_calls) \ {i} : radio'[j] = radio[j]
    BY Known
  <2>2. \A d \in ToSet(table) \ {c} :
          calls'[d].state = calls[d].state /\ calls'[d].idx = calls[d].idx
    BY Known
  <2>3. /\ ToSet(voice_calls') \ {i} = ToSet(voice_calls) \ {i}
        /\ ToSet(table') \ {c} = ToSet(table) \ {c}
    OBVIOUS
  <2> QED
    BY <1>1, <2>1, <2>2, <2>3, PairedKept
<1>3. MediaOK({})'
  <2>1. \A d \in Dialog \ {} :
          \/ MediaGood(d)'
          \/ /\ d \notin {} /\ calls'[d] = calls[d]
             /\ d \in ToSet(table) => d \in ToSet(table')
    OBVIOUS
  <2> QED
    BY <1>1, <2>1, MediaKept
<1>4. UpOK({})'
  BY <1>1 DEF UpOK
<1>5. ASSUME Linked(i, c)', Agree(i, c)' PROVE Steady'
  <2>1. Paired({}, {})'
    BY <1>2, <1>5, Together
  <2> QED
    BY <1>3, <1>4, <2>1 DEF Steady, Match
<1> QED
  BY <1>2, <1>3, <1>4, <1>5 DEF Match

\* An entry that mirrors no call is dropped.
LEMMA Dropped ==
  ASSUME TypeInv, NEW i, Match({i}, {}), voice_calls' = RemoveFirst(voice_calls, i),
         UNCHANGED <<radio, table, calls>>, up \subseteq up'
  PROVE  Steady'
<1>1. ToSet(voice_calls') = ToSet(voice_calls) \ {i}
  <2> DEFINE S == 1 .. MaxIndex
  <2>1. voice_calls \in Seq(S)
    BY DEF TypeInv, RadioOK
  <2>2. IsInjective(voice_calls)
    BY DEF TypeInv, RadioOK
  <2> HIDE DEF S
  <2> QED
    BY <2>1, <2>2, RemoveFirstProperties
<1>2. Paired({}, {})'
  BY <1>1, PairedKept DEF Match
<1> QED
  BY <1>2, SameCalls DEF Match, Steady

\* A ringing call is shown as ACTIVE, then answered.
LEMMA TakesUp ==
  ASSUME IInv, NEW t \in Task, Alone(t), Tail(stack[t]) = <<>>, Steady,
         NEW i \in ToSet(voice_calls), radio[i].state \in {"INCOMING", "WAITING"},
         radio' = [radio EXCEPT ![i].state = "ACTIVE"],
         UNCHANGED <<voice_calls, table, calls>>, up \subseteq up',
         Become(t, <<FrC("answerCall", radio[i].sip)>>)
  PROVE  Onward
<1>1. i \in 1 .. MaxIndex
  BY Known DEF IInv
<1>2. PICK c \in Dialog : c = radio[i].sip /\ Linked(i, c)
  BY Partner, Known DEF IInv, Steady, Match, Linked
<1>3. Match({i}, {c}) /\ Agree(i, c)
  BY <1>2, SetApart
<1>4. /\ radio'[i].state = "ACTIVE" /\ radio'[i].sip = radio[i].sip
      /\ \A j \in 1 .. MaxIndex \ {i} : radio'[j] = radio[j]
  BY <1>1, EntrySet DEF IInv
<1>5. Match({i}, {c})'
  BY <1>3, <1>4, Touched DEF IInv
<1>6. calls[c].state = "RINGING_IN" /\ Linked(i, c)'
  BY <1>2, <1>3, <1>4 DEF Agree, Linked
<1> DEFINE g == FrC("answerCall", c)
<1>7. g \in Frames /\ g.op = "answerCall" /\ g.c = c
  BY FrameMade DEF RunOps
<1>8. Become(t, <<g>>)
  BY <1>2
<1> HIDE DEF g
<1>9. stack' = [stack EXCEPT ![t] = <<g>> \o <<>>]
  <2>1. <<>> \in Seq(Frames)
    OBVIOUS
  <2> QED
    BY <1>7, <1>8, <2>1, Became
<1>10. AnswerAt(g.c, <<>>)'
  BY <1>4, <1>5, <1>6, <1>7 DEF AnswerAt
<1>11. Ready(t, g, <<>>)'
  BY <1>7, <1>10 DEF Ready
<1> QED
  <2>1. <<>> \in Seq(Frames)
    OBVIOUS
  <2> QED
    BY <1>7, <1>9, <1>11, <2>1, Onto

\* A call is gone: what awaited that goes on.
LEMMA Leaves ==
  ASSUME IInv, IInv', NEW t \in Task, Alone(t), NEW r \in Seq(Frames),
         stack' = [stack EXCEPT ![t] = r], Leaving(r)', MediaOK({})', UpOK({})'
  PROVE  Onward
<1>1. CASE \E i \in ToSet(voice_calls') :
             r = <<FrI("hangupDone", i)>> /\ Paired({i}, {})'
  <2>1. PICK i \in ToSet(voice_calls') :
          r = <<FrI("hangupDone", i)>> /\ Paired({i}, {})'
    BY <1>1
  <2> DEFINE g == FrI("hangupDone", i)
  <2>2. i \in 0 .. MaxIndex
    <3>1. voice_calls' \in Seq(1 .. MaxIndex)
      BY DEF IInv, TypeInv, RadioOK
    <3>2. i \in 1 .. MaxIndex
      BY <3>1, Members
    <3> QED
      BY <3>2
  <2>3. g \in Frames /\ g.op = "hangupDone" /\ g.i = i
    BY <2>2, FrameMade DEF RunOps
  <2>4. r = <<g>>
    BY <2>1
  <2> HIDE DEF g
  <2>5. r = <<g>> \o <<>> /\ <<>> \in Seq(Frames)
    BY <2>3, <2>4, Pushed, Zenon
  <2>6. Ready(t, g, <<>>)'
    BY <2>1, <2>3 DEF Ready, HangupDoneAt, Match
  <2> QED
    BY <2>3, <2>5, <2>6, Onto
<1>2. CASE Clearing(r, {})'
  <2>1. r # <<>> /\ r[Len(r)] = FrI("clear", 1)
    BY <1>2 DEF Clearing
  <2>2. \A k \in 1 .. Len(r) - 1 : r[k].op = "hangupIf"
    BY <1>2 DEF Clearing
  <2>3. PICK f \in Frames, q \in Seq(Frames) : r = <<f>> \o q /\ f = Head(r)
    BY <2>1, Parts
  <2>4. f = r[1] /\ Len(r) \in Nat /\ Len(r) >= 1
    BY <2>1, <2>3
  <2>5. ClearAt(<<f>> \o q)'
    BY <1>2, <2>3 DEF ClearAt
  <2>6. \/ f.op = "clear" /\ f.i # 0
        \/ f.op = "hangupIf"
    <3>1. CASE Len(r) = 1
      BY <2>1, <2>4, <3>1, FrameFields
    <3>2. CASE Len(r) # 1
      <4>1. \A n \in Nat : n >= 1 /\ n # 1 => 1 \in 1 .. n - 1
        OBVIOUS
      <4>2. 1 \in 1 .. Len(r) - 1
        BY <2>4, <3>2, <4>1
      <4> QED
        BY <2>2, <2>4, <4>2
    <3> QED
      BY <3>1, <3>2
  <2>7. Ready(t, f, q)'
    BY <2>5, <2>6 DEF Ready
  <2> QED
    BY <2>3, <2>7, Onto
<1> QED
  BY <1>1, <1>2 DEF Leaving

\* hang up all has dealt with the call of its next entry.
LEMMA ClearingRest ==
  ASSUME TypeInv, NEW f \in Frames, NEW r \in Seq(Frames), f.op = "hangupIf",
         Clearing(<<f>> \o r, {})
  PROVE  /\ Clearing(r, {radio[f.i].sip})
         /\ radio[f.i].sip = NoCall => Clearing(r, {})
<1> DEFINE s == <<f>> \o r
<1>1. /\ s \in Seq(Frames) /\ Len(s) = 1 + Len(r) /\ Len(r) \in Nat
      /\ s[1] = f /\ \A k \in 1 .. Len(r) : s[k + 1] = r[k]
  <2>1. s \in Seq(Frames) /\ Head(s) = f /\ Tail(s) = r /\ s # <<>>
    BY Joined
  <2> HIDE DEF s
  <2>2. Len(s) \in Nat /\ Len(Tail(s)) = Len(s) - 1 /\ Head(s) = s[1]
    BY <2>1
  <2>3. \A k \in 1 .. Len(Tail(s)) : Tail(s)[k] = s[k + 1]
    BY <2>1, HeadTailProperties
  <2>4. Len(r) \in Nat /\ Len(r) = Len(s) - 1
    <3>1. Len(r) \in Nat
      OBVIOUS
    <3> QED
      BY <2>1, <2>2, <3>1, Zenon
  <2>5. Len(s) = 1 + Len(r)
    BY <2>2, <2>4
  <2>6. \A k \in 1 .. Len(r) : s[k + 1] = r[k]
    BY <2>1, <2>3
  <2> QED
    BY <2>1, <2>2, <2>4, <2>5, <2>6
<1>2. /\ s[Len(s)] = FrI("clear", 1)
      /\ \A k \in 1 .. Len(s) - 1 : s[k].op = "hangupIf"
      /\ \A c \in ToSet(table) \ {} : \E k \in 1 .. Len(s) :
           s[k].op = "hangupIf" /\ radio[s[k].i].sip = c
  BY DEF Clearing
<1> HIDE DEF s
<1>3. Len(r) # 0
  BY <1>1, <1>2, FrameFields
<1>4. r # <<>> /\ r[Len(r)] = FrI("clear", 1)
  <2>1. Len(r) \in 1 .. Len(r) /\ Len(r) + 1 = Len(s)
    BY <1>1, <1>3
  <2> QED
    BY <1>1, <1>2, <2>1
<1>5. ASSUME NEW k \in 1 .. Len(r) - 1 PROVE r[k].op = "hangupIf"
  <2>1. k \in 1 .. Len(r) /\ k + 1 \in 1 .. Len(s) - 1
    BY <1>1
  <2> QED
    BY <1>1, <1>2, <2>1
<1>6. ASSUME NEW c \in ToSet(table), c # radio[f.i].sip
      PROVE  \E k \in 1 .. Len(r) : r[k].op = "hangupIf" /\ radio[r[k].i].sip = c
  <2>1. PICK k \in 1 .. Len(s) : s[k].op = "hangupIf" /\ radio[s[k].i].sip = c
    BY <1>2
  <2>2. k # 1
    BY <1>1, <1>6, <2>1
  <2>3. PICK j \in 1 .. Len(r) : j + 1 = k
    <3>1. k - 1 \in 1 .. Len(r) /\ (k - 1) + 1 = k
      BY <1>1, <2>2
    <3> QED
      BY <3>1
  <2>4. r[j] = s[k]
    BY <1>1, <2>3
  <2> QED
    BY <2>1, <2>4
<1>7. NoCall \notin ToSet(table)
  BY Known, CallsAssumption
<1> QED
  BY <1>4, <1>5, <1>6, <1>7 DEF Clearing

\* A hold begins: the radio may show it already.
LEMMA HoldBegins ==
  ASSUME IInv, NEW t \in Task, Alone(t), NEW c \in Dialog, NEW i \in ToSet(voice_calls),
         Linked(i, c), Steady, UNCHANGED <<voice_calls, table, calls>>, up \subseteq up',
         \A j \in 1 .. MaxIndex \ {i} : radio'[j] = radio[j],
         radio'[i].sip = c,
         \/ radio'[i].state = "HOLDING" /\ calls[c].state \in {"ACTIVE", "HELD"}
         \/ radio'[i].state = "ACTIVE" /\ calls[c].state = "ACTIVE",
         NEW r \in Seq(Frames), Continues(r)',
         stack' = [stack EXCEPT ![t] = <<FrC("hold", c)>> \o r]
  PROVE  Onward
<1>1. Match({i}, {c})
  BY SetApart
<1>2. Match({i}, {c})'
  BY <1>1, Touched DEF IInv
<1>3. Linked(i, c)'
  BY DEF Linked
<1> DEFINE g == FrC("hold", c)
<1>4. g \in Frames /\ g.op = "hold" /\ g.c = c
  BY FrameMade DEF RunOps
<1>5. stack' = [stack EXCEPT ![t] = <<g>> \o r]
  OBVIOUS
<1> HIDE DEF g
<1>6. HoldAt(g.c, r)'
  BY <1>2, <1>3, <1>4 DEF HoldAt
<1>7. Ready(t, g, r)'
  BY <1>4, <1>6 DEF Ready
<1> QED
  BY <1>4, <1>5, <1>7, Onto

\* What awaited a hold goes on when the lists mirror each other again.
LEMMA HoldEnds ==
  ASSUME IInv, IInv', NEW t \in Task, Alone(t), NEW r \in Seq(Frames),
         stack' = [stack EXCEPT ![t] = r], Continues(r)', Steady'
  PROVE  Onward
<1>1. CASE r = <<>>
  BY <1>1, Over
<1>2. CASE \E k \in 0 .. MaxIndex + 1, w \in 1 .. MaxIndex :
             r = <<Fr("switchScan", NoCall, k, w)>> /\ Waiting(w)'
  <2>1. PICK k \in 0 .. MaxIndex + 1, w \in 1 .. MaxIndex :
          r = <<Fr("switchScan", NoCall, k, w)>> /\ Waiting(w)'
    BY <1>2
  <2> DEFINE g == Fr("switchScan", NoCall, k, w)
  <2>2. g \in Frames /\ g.op = "switchScan" /\ g.j = w
    BY ScanMade
  <2>3. r = <<g>>
    BY <2>1
  <2> HIDE DEF g
  <2>4. r = <<g>> \o <<>> /\ <<>> \in Seq(Frames)
    BY <2>2, <2>3, Pushed, Zenon
  <2>5. Ready(t, g, <<>>)'
    BY <2>1, <2>2 DEF Ready
  <2> QED
    BY <2>2, <2>4, <2>5, Onto
<1>3. CASE \E d \in Dialog : r = <<FrC("resume", d)>>
  <2>1. PICK d \in Dialog : r = <<FrC("resume", d)>>
    BY <1>3
  <2> DEFINE g == FrC("resume", d)
  <2>2. g \in Frames /\ g.op = "resume"
    BY FrameMade DEF RunOps
  <2>3. r = <<g>>
    BY <2>1
  <2> HIDE DEF g
  <2>4. r = <<g>> \o <<>> /\ <<>> \in Seq(Frames)
    BY <2>2, <2>3, Pushed, Zenon
  <2>5. Ready(t, g, <<>>)'
    BY <2>2 DEF Ready
  <2> QED
    BY <2>2, <2>4, <2>5, Onto
<1> QED
  BY <1>1, <1>2, <1>3 DEF Continues

\* A re-INVITE is on its way, whatever the radio shows.
LEMMA HoldSent ==
  ASSUME IInv, NEW t \in Task, Alone(t), NEW c \in Dialog, NEW i \in ToSet(voice_calls),
         Linked(i, c), Match({i}, {c}), radio[i].state # "WAITING",
         UNCHANGED <<radio, voice_calls, table>>, up \subseteq up',
         \A d \in Dialog \ {c} : calls'[d] = calls[d],
         calls'[c].idx = calls[c].idx, MediaGood(c)',
         NEW s \in {"HELD", "ACTIVE"}, calls'[c].state = s,
         NEW m \in {"HOLD", "RESUME"}, m = (IF s = "HELD" THEN "HOLD" ELSE "RESUME"),
         NEW r \in Seq(Frames), IF s = "HELD" THEN Continues(r)' ELSE r = <<>>,
         stack' = [stack EXCEPT ![t] = <<FrC(m, c)>> \o r], pending'[c] = t
  PROVE  Onward
<1>1. Match({i}, {c})'
  BY Touched DEF IInv
<1>2. Linked(i, c)'
  BY DEF Linked
<1> DEFINE g == FrC(m, c)
<1>3. g \in Frames /\ g.op = m /\ g.c = c
  <2>1. m \in RunOps \cup AwaitOps \cup MediaOps
    BY DEF AwaitOps
  <2> QED
    BY <2>1, FrameMade
<1>4. stack' = [stack EXCEPT ![t] = <<g>> \o r]
  OBVIOUS
<1> HIDE DEF g
<1>5. ReinviteAt(g.c, s)'
  BY <1>1, <1>2, <1>3 DEF ReinviteAt
<1>6. Ready(t, g, r)'
  BY <1>3, <1>5 DEF Ready
<1> QED
  BY <1>3, <1>4, <1>6, Onto

\* The media of a call are started.
LEMMA Starting ==
  ASSUME IInv, NEW t \in Task, Alone(t), NEW c \in Dialog, NEW r \in Seq(Frames),
         stack' = [stack EXCEPT ![t] = <<FrC("START", c)>> \o r], StartAt(c, r)'
  PROVE  Onward
<1> DEFINE g == FrC("START", c)
<1>1. g \in Frames /\ g.op = "START" /\ g.c = c
  <2>1. "START" \in RunOps \cup AwaitOps \cup MediaOps
    BY DEF MediaOps
  <2> QED
    BY <2>1, FrameMade
<1>2. stack' = [stack EXCEPT ![t] = <<g>> \o r]
  OBVIOUS
<1> HIDE DEF g
<1>3. Ready(t, g, r)'
  BY <1>1 DEF Ready
<1> QED
  BY <1>1, <1>2, <1>3, Onto

\* A call's media are on or as before.
LEMMA CallPlays ==
  ASSUME TypeInv, NEW c \in Dialog, calls[c].state = "ACTIVE", c \in ToSet(table'),
         \/ calls' = [calls EXCEPT ![c].media = "on"]
         \/ UNCHANGED calls /\ MediaGood(c)
  PROVE  /\ calls'[c].state = calls[c].state /\ calls'[c].idx = calls[c].idx
         /\ MediaGood(c)'
         /\ \A d \in Dialog \ {c} : calls'[d] = calls[d]
<1>1. /\ calls'[c].state = calls[c].state /\ calls'[c].idx = calls[c].idx
      /\ \A d \in Dialog \ {c} : calls'[d] = calls[d]
      /\ calls'[c].media = "on" \/ (UNCHANGED calls /\ MediaGood(c))
  BY DEF TypeInv, TableOK
<1> QED
  BY <1>1 DEF MediaGood, InTable

\* dial goes on when initiate_call has returned.
LEMMA DialGoesOn ==
  ASSUME IInv, NEW t \in Task, Alone(t), NEW i \in 1 .. MaxIndex,
         stack' = [stack EXCEPT ![t] = <<FrI("dialDone", i)>>], DialDoneAt(t, i, <<>>)'
  PROVE  Onward
<1> DEFINE g == FrI("dialDone", i)
<1>1. g \in Frames /\ g.op = "dialDone" /\ g.i = i
  <2>1. i \in 0 .. MaxIndex
    OBVIOUS
  <2> QED
    BY <2>1, FrameMade DEF RunOps
<1>2. stack' = [stack EXCEPT ![t] = <<g>>]
  OBVIOUS
<1> HIDE DEF g
<1>3. <<g>> = <<g>> \o <<>> /\ <<>> \in Seq(Frames)
  <2>1. <<>> \in Seq(Frames)
    OBVIOUS
  <2> QED
    BY <1>1, <2>1, Pushed, Zenon
<1>4. stack' = [stack EXCEPT ![t] = <<g>> \o <<>>]
  BY <1>2, <1>3, Zenon
<1>5. Ready(t, g, <<>>)'
  BY <1>1 DEF Ready
<1> QED
  BY <1>1, <1>3, <1>4, <1>5, Onto

\* What awaits the end of a call does not depend on calls out of the table.
LEMMA LeavingKept ==
  ASSUME NEW r, UNCHANGED <<voice_calls, radio, table>>,
         \A c \in ToSet(table) :
           calls'[c].state = calls[c].state /\ calls'[c].idx = calls[c].idx,
         Leaving(r)
  PROVE  Leaving(r)'
<1>1. \A i : Paired({i}, {}) => Paired({i}, {})'
  <2>1. ASSUME NEW i, Paired({i}, {}) PROVE Paired({i}, {})'
    <3>1. \A c \in ToSet(table) \ {} :
            calls'[c].state = calls[c].state /\ calls'[c].idx = calls[c].idx
      OBVIOUS
    <3> QED
      BY <2>1, <3>1, PairedKept
  <2> QED
    BY <2>1
<1>2. Clearing(r, {}) => Clearing(r, {})'
  BY DEF Clearing
<1> QED
  BY <1>1, <1>2 DEF Leaving

\* A call leaves the table: its entry, or all of them, are dropped next.
LEMMA LeftTable ==
  ASSUME IInv, NEW c \in ToSet(table), NEW r, HangupAt(c, r),
         ToSet(table') = ToSet(table) \ {c}, UNCHANGED <<voice_calls, radio, calls>>,
         up \subseteq up'
  PROVE  /\ Leaving(r)' /\ UpOK({})' /\ MediaOK({c})'
         /\ calls[c].media = "none" => MediaOK({})'
<1>1. MediaOK({}) /\ UpOK({}) /\ c \in Dialog
  BY Known DEF HangupAt, IInv
<1>2. Leaving(r)'
  <2>1. CASE \E i \in ToSet(voice_calls) :
               r = <<FrI("hangupDone", i)>> /\ Linked(i, c) /\ Paired({}, {})
    <3>1. PICK i \in ToSet(voice_calls) :
            r = <<FrI("hangupDone", i)>> /\ Linked(i, c) /\ Paired({}, {})
      BY <2>1
    <3>2. Paired({i}, {c})
      BY <3>1, Apart
    <3>3. ToSet(table') \ {} = ToSet(table) \ {c}
      OBVIOUS
    <3>4. Paired({i}, {})'
      BY <3>2, <3>3, PairedKept
    <3> QED
      BY <3>1, <3>4 DEF Leaving
  <2>2. CASE Clearing(r, {c})
    BY <2>2 DEF Leaving, Clearing
  <2> QED
    BY <2>1, <2>2 DEF HangupAt
<1>3. UpOK({})'
  BY <1>1 DEF UpOK
<1>4. MediaOK({c})'
  BY <1>1 DEF MediaOK, MediaGood, InTable
<1>5. calls[c].media = "none" => MediaOK({})'
  BY <1>4 DEF MediaOK, MediaGood
<1> QED
  BY <1>2, <1>3, <1>4, <1>5

\* The BYE comes next.
LEMMA Parting ==
  ASSUME IInv, NEW t \in Task, Alone(t), NEW c \in Dialog, NEW r \in Seq(Frames),
         stack' = [stack EXCEPT ![t] = <<FrC("bye", c)>> \o r], ByeAt(c, r)'
  PROVE  Onward
<1> DEFINE g == FrC("bye", c)
<1>1. g \in Frames /\ g.op = "bye" /\ g.c = c
  <2>1. "bye" \in RunOps \cup AwaitOps \cup MediaOps
    BY DEF RunOps
  <2> QED
    BY <2>1, FrameMade
<1>2. stack' = [stack EXCEPT ![t] = <<g>> \o r]
  OBVIOUS
<1> HIDE DEF g
<1>3. Ready(t, g, r)'
  BY <1>1 DEF Ready
<1> QED
  BY <1>1, <1>2, <1>3, Onto

\* The media of a call that left the table are stopped first.
LEMMA Stopping ==
  ASSUME IInv, NEW t \in Task, Alone(t), NEW c \in Dialog, NEW r \in Seq(Frames),
         stack' = [stack EXCEPT ![t] = <<FrC("STOP", c)>> \o r], StopAt(c, r)'
  PROVE  Onward
<1> DEFINE g == FrC("STOP", c)
<1>1. g \in Frames /\ g.op = "STOP" /\ g.c = c
  <2>1. "STOP" \in RunOps \cup AwaitOps \cup MediaOps
    BY DEF MediaOps
  <2> QED
    BY <2>1, FrameMade
<1>2. stack' = [stack EXCEPT ![t] = <<g>> \o r]
  OBVIOUS
<1> HIDE DEF g
<1>3. Ready(t, g, r)'
  BY <1>1 DEF Ready
<1> QED
  BY <1>1, <1>2, <1>3, Onto

\* The entry of a call that the network ended is dropped last.
LEMMA TailLeft ==
  ASSUME IInv, NEW t \in Task, Alone(t), NEW c \in Dialog \cup {NoCall}, NEW j \in {0, 1},
         stack' = [stack EXCEPT ![t] = <<Fr("byeTail", c, 0, j)>>], ByeTailAt(c, <<>>)'
  PROVE  Onward
<1> DEFINE g == Fr("byeTail", c, 0, j)
<1>1. g \in Frames /\ g.op = "byeTail" /\ g.c = c
  BY CallsAssumption DEF Fr, Frames, RunOps
<1>2. stack' = [stack EXCEPT ![t] = <<g>>]
  OBVIOUS
<1> HIDE DEF g
<1>3. <<g>> = <<g>> \o <<>> /\ <<>> \in Seq(Frames)
  <2>1. <<>> \in Seq(Frames)
    OBVIOUS
  <2> QED
    BY <1>1, <2>1, Pushed, Zenon
<1>4. stack' = [stack EXCEPT ![t] = <<g>> \o <<>>]
  BY <1>2, <1>3, Zenon
<1>5. Ready(t, g, <<>>)'
  BY <1>1 DEF Ready
<1> QED
  BY <1>1, <1>3, <1>4, <1>5, Onto

-----------------------------------------------------------------------------
(* RadioHAL's requests. *)

\* dial adds an entry of its own, which mirrors no call yet.
LEMMA dialSerial ==
  ASSUME IInv, IInv', Orderly, NEW t \in Task, dial(t)
  PROVE  Orderly'
<1>1. stack[t] # <<>> /\ Frame(t).op = "dial"
  BY DEF dial, Running, Frame
<1>2. PICK f \in Frames, r \in Seq(Frames) :
        f = Frame(t) /\ r = Tail(stack[t]) /\ PhaseOf(t, f, r) /\ Alone(t)
  BY <1>1, Doing
<1>3. r = <<>> /\ Steady
  BY <1>1, <1>2 DEF PhaseOf, SerialOps
<1>4. PICK i \in 1 .. MaxIndex : i = nextIndex
  BY DEF dial, IInv, TypeInv, RadioOK
<1> DEFINE g == FrI("initiate", i)
           d == FrI("dialDone", i)
<1>5. g \in Frames /\ g.op = "initiate" /\ g.i = i /\ d \in Frames
  <2>1. i \in 0 .. MaxIndex /\ "initiate" \in RunOps /\ "dialDone" \in RunOps
    BY DEF RunOps
  <2> QED
    BY <2>1, FrameMade
<1>6. <<d>> = <<FrI("dialDone", i)>>
  OBVIOUS
<1>7. Become(t, <<g, d>>)
  BY <1>4 DEF dial
<1> HIDE DEF g, d
<1>8. stack' = [stack EXCEPT ![t] = <<g>> \o <<d>>] /\ <<d>> \in Seq(Frames)
  <2>1. stack' = [stack EXCEPT ![t] = <<g>> \o (<<d>> \o r)]
    BY <1>2, <1>5, <1>7, BecameTwo
  <2>2. <<d>> = <<d>> \o <<>> /\ <<d>> \in Seq(Frames)
    BY <1>5, Pushed, Zenon
  <2> QED
    BY <1>3, <2>1, <2>2, Zenon
<1>9. i \notin ToSet(voice_calls) /\ ToSet(voice_calls') = ToSet(voice_calls) \cup {i}
  <2>1. i \notin ToSet(voice_calls)
    BY <1>4, Known DEF IInv
  <2>2. voice_calls' = Append(voice_calls, i)
    BY <1>4 DEF dial
  <2> DEFINE S == 1 .. MaxIndex
  <2>3. voice_calls \in Seq(S) /\ i \in S
    BY DEF IInv, TypeInv, RadioOK
  <2> HIDE DEF S
  <2>4. ToSet(Append(voice_calls, i)) = ToSet(voice_calls) \cup {i}
    BY <2>3, AppendProperty
  <2> QED
    BY <2>1, <2>2, <2>4
<1>10. UNCHANGED <<table, calls, started, inflight, up, aborted>>
  BY DEF dial, RadioUnchanged, sipVars, waitVars, peerVars, histVars
<1>11. \A j \in 1 .. MaxIndex : j # i => radio'[j] = radio[j]
  BY <1>4 DEF dial, IInv, TypeInv, RadioOK
<1>12. Match({i}, {})'
  <2>1. \A j \in ToSet(voice_calls) : radio'[j] = radio[j]
    BY <1>9, <1>11, Known DEF IInv
  <2>2. ToSet(voice_calls') \ {i} = ToSet(voice_calls) \ {}
    BY <1>9
  <2>3. Paired({i}, {})'
    BY <1>3, <1>10, <2>1, <2>2, PairedKept DEF Steady, Match
  <2> QED
    BY <1>3, <1>10, <2>3, SameCalls DEF Steady, Match
<1>13. InitiateAt(g.i, <<d>>)'
  BY <1>5, <1>6, <1>9, <1>12 DEF InitiateAt
<1>14. Ready(t, g, <<d>>)'
  BY <1>5, <1>13 DEF Ready
<1>15. Onward
  BY <1>2, <1>5, <1>8, <1>14, Onto
<1> QED
  BY <1>10, <1>15, Kept

\* It then stores the Call-ID, or drops the entry.
LEMMA dialDoneSerial ==
  ASSUME IInv, IInv', Orderly, NEW t \in Task, dialDone(t)
  PROVE  Orderly'
<1>1. stack[t] # <<>> /\ Frame(t).op = "dialDone"
  BY DEF dialDone, Running, Frame
<1>2. PICK f \in Frames, r \in Seq(Frames) :
        /\ f = Frame(t) /\ r = Tail(stack[t]) /\ FrameOK(f)
        /\ PhaseOf(t, f, r) /\ Alone(t)
  BY <1>1, Doing
<1>3. PICK i \in 1 .. MaxIndex : i = f.i
  BY <1>1, <1>2 DEF FrameOK
<1>4. r = <<>> /\ DialDoneAt(t, i, r)
  BY <1>1, <1>2, <1>3 DEF PhaseOf, DialDoneAt
<1>5. UNCHANGED <<table, calls, started, inflight, up>>
  BY DEF dialDone, RadioUnchanged, sipVars, waitVars, peerVars
<1>6. CASE ret[t] # NoCall
  <2>1. PICK c \in Dialog : c = ret[t] /\ Made(i, c)
    BY <1>4, <1>6 DEF DialDoneAt
  <2>2. radio' = [radio EXCEPT ![i].sip = c] /\ Return(t) /\ UNCHANGED <<voice_calls, aborted>>
    BY <1>2, <1>3, <1>6, <2>1 DEF dialDone, StoreCallId
  <2>3. /\ radio'[i].sip = c /\ radio'[i].state = radio[i].state
        /\ \A j \in 1 .. MaxIndex \ {i} : radio'[j] = radio[j]
    BY <2>2, EntrySip DEF IInv
  <2>4. Linked(i, c)' /\ Agree(i, c)'
    BY <1>5, <2>1, <2>2, <2>3 DEF Made, Linked, Agree
  <2>5. Match({i}, {c})
    BY <2>1 DEF Made
  <2>6. Steady'
    BY <1>5, <2>2, <2>3, <2>4, <2>5, Touched DEF IInv
  <2>7. stack' = [stack EXCEPT ![t] = <<>>]
    BY <1>2, <1>4, <2>2, Returned
  <2>8. Onward
    BY <1>2, <2>6, <2>7, Over
  <2> QED
    BY <1>5, <2>2, <2>8, Kept
<1>7. CASE ret[t] = NoCall
  <2>1. i \in ToSet(voice_calls) /\ Match({i}, {})
    BY <1>4, <1>7, CallsAssumption DEF DialDoneAt
  <2>2. /\ voice_calls' = RemoveFirst(voice_calls, i)
        /\ Return(t) /\ UNCHANGED <<radio, aborted>>
    BY <1>2, <1>3, <1>7, <2>1 DEF dialDone
  <2>3. Steady'
    BY <1>5, <2>1, <2>2, Dropped DEF IInv
  <2>4. stack' = [stack EXCEPT ![t] = <<>>]
    BY <1>2, <1>4, <2>2, Returned
  <2>5. Onward
    BY <1>2, <2>3, <2>4, Over
  <2> QED
    BY <1>5, <2>2, <2>5, Kept
<1> QED
  BY <1>6, <1>7

\* A call is shown as answered before it is.
LEMMA answerSerial ==
  ASSUME IInv, IInv', Orderly, NEW t \in Task, answer(t)
  PROVE  Orderly'
<1>1. stack[t] # <<>> /\ Frame(t).op = "answer"
  BY DEF answer, Running, Frame
<1>2. PICK f \in Frames, r \in Seq(Frames) :
        f = Frame(t) /\ r = Tail(stack[t]) /\ PhaseOf(t, f, r) /\ Alone(t)
  BY <1>1, Doing
<1>3. r = <<>> /\ Steady
  BY <1>1, <1>2 DEF PhaseOf, SerialOps
<1>4. UNCHANGED <<voice_calls, table, calls, started, inflight, up, aborted>>
  BY DEF answer, RadioUnchanged, sipVars, waitVars, peerVars
<1> DEFINE k == SelectInSeq(voice_calls, LAMBDA i : radio[i].state = "INCOMING")
<1>5. CASE k = 0
  <2>1. Return(t) /\ UNCHANGED radio
    BY <1>5 DEF answer
  <2>2. Steady'
    BY <1>3, <1>4, <2>1, Same DEF Steady
  <2>3. stack' = [stack EXCEPT ![t] = <<>>]
    BY <1>2, <1>3, <2>1, Returned
  <2>4. Onward
    BY <1>2, <2>2, <2>3, Over
  <2> QED
    BY <1>4, <2>4, Kept
<1>6. CASE k # 0
  <2>1. /\ voice_calls[k] \in ToSet(voice_calls)
        /\ radio[voice_calls[k]].state = "INCOMING"
    <3> DEFINE I == {j \in 1 .. Len(voice_calls) : radio[voice_calls[j]].state = "INCOMING"}
    <3>1. k = IF I # {} THEN Min(I) ELSE 0
      BY DEF SelectInSeq
    <3>2. I \in SUBSET (1 .. Len(voice_calls))
      OBVIOUS
    <3>3. \A j \in I : radio[voice_calls[j]].state = "INCOMING"
      OBVIOUS
    <3> HIDE DEF I, k
    <3> QED
      BY <1>6, <3>1, <3>2, <3>3, FirstEntry DEF IInv
  <2>2. PICK i \in ToSet(voice_calls) : i = voice_calls[k]
    BY <2>1
  <2>3. /\ radio' = [radio EXCEPT ![i].state = "ACTIVE"]
        /\ Become(t, <<FrC("answerCall", radio[i].sip)>>)
    BY <1>6, <2>2 DEF answer
  <2> HIDE DEF k
  <2>4. Onward
    BY <1>2, <1>3, <1>4, <2>1, <2>2, <2>3, TakesUp
  <2> QED
    BY <1>4, <2>4, Kept
<1> QED
  BY <1>5, <1>6

\* A call whose entry is there is in the table too, so hangup hangs it up.
LEMMA hangupSerial ==
  ASSUME IInv, IInv', Orderly, NEW t \in Task, hangup(t)
  PROVE  Orderly'
<1>1. stack[t] # <<>> /\ Frame(t).op = "hangup"
  BY DEF hangup, Running, Frame
<1>2. PICK f \in Frames, r \in Seq(Frames) :
        f = Frame(t) /\ r = Tail(stack[t]) /\ PhaseOf(t, f, r) /\ Alone(t)
  BY <1>1, Doing
<1>3. r = <<>> /\ Steady
  BY <1>1, <1>2 DEF PhaseOf, SerialOps
<1>4. UNCHANGED <<radio, voice_calls, table, calls, started, inflight, up, aborted>>
  BY DEF hangup, RadioUnchanged, radioVars, sipVars, waitVars, peerVars, histVars
<1>5. \A I, C : (Match(I, C) => Match(I, C)') /\ (Paired(I, C) => Paired(I, C)')
  BY <1>4, Same
<1>6. CASE f.i \notin ToSet(voice_calls)
  <2>1. Return(t)
    BY <1>2, <1>6 DEF hangup
  <2>2. stack' = [stack EXCEPT ![t] = <<>>]
    BY <1>2, <1>3, <2>1, Returned
  <2>3. Onward
    BY <1>2, <1>3, <1>5, <2>2, Over DEF Steady
  <2> QED
    BY <1>4, <2>3, Kept
<1>7. CASE f.i \in ToSet(voice_calls)
  <2>1. PICK i \in 1 .. MaxIndex : i = f.i /\ i \in ToSet(voice_calls)
    BY <1>7, Known DEF IInv
  <2>2. PICK c \in Dialog : c = radio[i].sip /\ Linked(i, c)
    BY <1>3, <2>1, Partner, Known DEF IInv, Steady, Match, Linked
  <2> DEFINE g == FrC("hangupCall", c)
             d == FrI("hangupDone", i)
  <2>3. g \in Frames /\ g.op = "hangupCall" /\ g.c = c /\ d \in Frames
    <3>1. i \in 0 .. MaxIndex
      OBVIOUS
    <3> QED
      BY <3>1, FrameMade DEF RunOps
  <2>4. Become(t, <<g, d>>)
    <3>1. c # NoCall
      BY CallsAssumption
    <3>2. Become(t, <<g>> \o <<d>>)
      BY <1>2, <2>1, <2>2, <3>1 DEF hangup
    <3>3. <<g, d>> = <<g>> \o <<d>>
      BY <2>3, Pushed
    <3> QED
      BY <3>2, <3>3
  <2>5. d = FrI("hangupDone", i)
    OBVIOUS
  <2> HIDE DEF g, d
  <2>6. stack' = [stack EXCEPT ![t] = <<g>> \o <<d>>] /\ <<d>> \in Seq(Frames)
    <3>1. stack' = [stack EXCEPT ![t] = <<g>> \o (<<d>> \o r)]
      BY <1>2, <2>3, <2>4, BecameTwo
    <3>2. <<d>> = <<d>> \o <<>> /\ <<d>> \in Seq(Frames)
      BY <2>3, Pushed, Zenon
    <3> QED
      BY <1>3, <3>1, <3>2, Zenon
  <2>7. HangupAt(g.c, <<d>>)'
    <3>1. MediaOK({})' /\ UpOK({})' /\ Paired({}, {})'
      BY <1>3, <1>5 DEF Steady, Match
    <3>2. Linked(i, c)'
      BY <1>4, <2>2 DEF Linked
    <3> QED
      BY <2>1, <1>4, <2>3, <2>5, <3>1, <3>2 DEF HangupAt
  <2>8. Ready(t, g, <<d>>)'
    BY <2>3, <2>7 DEF Ready
  <2>9. Onward
    BY <1>2, <2>3, <2>6, <2>8, Onto
  <2> QED
    BY <1>4, <2>9, Kept
<1> QED
  BY <1>6, <1>7

\* The entry of the call goes after it.
LEMMA hangupDoneSerial ==
  ASSUME IInv, IInv', Orderly, NEW t \in Task, hangupDone(t)
  PROVE  Orderly'
<1>1. stack[t] # <<>> /\ Frame(t).op = "hangupDone"
  BY DEF hangupDone, Running, Frame
<1>2. PICK f \in Frames, r \in Seq(Frames) :
        f = Frame(t) /\ r = Tail(stack[t]) /\ PhaseOf(t, f, r) /\ Alone(t)
  BY <1>1, Doing
<1>3. r = <<>> /\ f.i \in ToSet(voice_calls) /\ Match({f.i}, {})
  BY <1>1, <1>2 DEF PhaseOf, HangupDoneAt
<1>4. UNCHANGED <<radio, table, calls, started, inflight, up>>
  BY DEF hangupDone, RadioUnchanged, sipVars, waitVars, peerVars
<1>5. voice_calls' = RemoveFirst(voice_calls, f.i) /\ Return(t) /\ UNCHANGED aborted
  BY <1>2, <1>3 DEF hangupDone
<1>6. Steady'
  BY <1>3, <1>4, <1>5, Dropped DEF IInv
<1>7. stack' = [stack EXCEPT ![t] = <<>>]
  BY <1>2, <1>3, <1>5, Returned
<1>8. Onward
  BY <1>2, <1>6, <1>7, Over
<1> QED
  BY <1>4, <1>5, <1>8, Kept

\* hang up all lists every entry, so every call.
LEMMA hangupAllSerial ==
  ASSUME IInv, IInv', Orderly, NEW t \in Task, hangupAll(t)
  PROVE  Orderly'
<1>1. stack[t] # <<>> /\ Frame(t).op = "clear" /\ Frame(t).i = 0
  BY DEF hangupAll, Running, Frame
<1>2. PICK f \in Frames, r \in Seq(Frames) :
        f = Frame(t) /\ r = Tail(stack[t]) /\ PhaseOf(t, f, r) /\ Alone(t)
  BY <1>1, Doing
<1>3. r = <<>> /\ Steady
  BY <1>1, <1>2 DEF PhaseOf, SerialOps
<1>4. UNCHANGED <<radio, voice_calls, table, calls, started, inflight, up, aborted>>
  BY DEF hangupAll, RadioUnchanged, radioVars, sipVars, waitVars, peerVars, histVars
<1> DEFINE n == Len(voice_calls)
           F == [k \in 1 .. n |-> FrI("hangupIf", voice_calls[k])]
           e == FrI("clear", 1)
<1>5. n \in Nat /\ \A k \in 1 .. n : voice_calls[k] \in 0 .. MaxIndex
  <2>1. voice_calls \in Seq(1 .. MaxIndex) /\ n \in Nat
    BY RadioLength DEF IInv, TypeInv, RadioOK
  <2>2. \A k \in 1 .. n : voice_calls[k] \in 1 .. MaxIndex
    <3> DEFINE S == 1 .. MaxIndex
    <3>1. voice_calls \in Seq(S)
      BY <2>1
    <3> HIDE DEF S
    <3>2. \A k \in 1 .. Len(voice_calls) : voice_calls[k] \in S
      BY <3>1
    <3> QED
      BY <3>2 DEF S
  <2>3. \A i \in 1 .. MaxIndex : i \in 0 .. MaxIndex
    BY CallsAssumption
  <2> QED
    BY <2>1, <2>2, <2>3
<1>6. \A k \in 1 .. n : F[k] \in Frames /\ F[k].op = "hangupIf" /\ F[k].i = voice_calls[k]
  BY <1>5, FrameMade DEF RunOps
<1>7. e \in Frames /\ e.op = "clear"
  <2>1. 1 \in 0 .. MaxIndex
    BY CallsAssumption
  <2> QED
    BY <2>1, FrameMade DEF RunOps
<1>8. F \in Seq(Frames) /\ Len(F) = n
  BY <1>5, <1>6
<1>9. Become(t, F \o <<e>>)
  BY DEF hangupAll
<1>10. ToSet(voice_calls) = {voice_calls[k] : k \in 1 .. n} /\ e = FrI("clear", 1)
  BY DEF ToSet
<1> HIDE DEF F, e, n
<1>11. PICK s \in Seq(Frames) :
         /\ s = F \o <<e>> /\ Len(s) = n + 1 /\ s[n + 1] = e
         /\ \A k \in 1 .. n : s[k] = F[k]
  <2> DEFINE x == F \o <<e>>
  <2>1. /\ x \in Seq(Frames) /\ Len(x) = n + 1 /\ x[n + 1] = e
        /\ \A k \in 1 .. n : x[k] = F[k]
    BY <1>5, <1>7, <1>8
  <2> HIDE DEF x
  <2>2. x = F \o <<e>>
    BY DEF x
  <2> QED
    BY <2>1, <2>2
<1>12. stack' = [stack EXCEPT ![t] = s]
  <2>1. s \o <<>> = s
    BY ConcatEmptySeq
  <2>2. stack' = [stack EXCEPT ![t] = s \o r]
    BY <1>2, <1>9, <1>11 DEF Become, Runs
  <2> QED
    BY <1>3, <2>1, <2>2
<1>13. Clearing(s, {})'
  <2>1. s # <<>> /\ s[Len(s)] = FrI("clear", 1)
    BY <1>5, <1>10, <1>11
  <2>2. \A k \in 1 .. Len(s) - 1 : s[k].op = "hangupIf"
    BY <1>5, <1>6, <1>11
  <2>3. ASSUME NEW c \in ToSet(table)
        PROVE  \E k \in 1 .. Len(s) : s[k].op = "hangupIf" /\ radio[s[k].i].sip = c
    <3>1. /\ calls[c].idx \in ToSet(voice_calls)
          /\ radio[calls[c].idx].sip = c
      BY <1>3, Partner DEF Steady, Match, Linked
    <3>2. PICK k \in 1 .. n : voice_calls[k] = calls[c].idx
      BY <1>10, <3>1
    <3>3. k \in 1 .. Len(s) /\ s[k].op = "hangupIf" /\ s[k].i = calls[c].idx
      BY <1>5, <1>6, <1>11, <3>2
    <3> QED
      BY <3>1, <3>3
  <2>4. Clearing(s, {})
    BY <2>1, <2>2, <2>3 DEF Clearing
  <2> QED
    BY <1>4, <2>4 DEF Clearing
<1>14. MediaOK({})' /\ UpOK({})'
  BY <1>3, <1>4, Same DEF Steady, Match
<1>15. Leaving(s)'
  BY <1>13 DEF Leaving
<1>16. Onward
  BY <1>2, <1>11, <1>12, <1>14, <1>15, Leaves
<1> QED
  BY <1>4, <1>16, Kept

\* It hangs up one call after the other,
LEMMA hangupIfSerial ==
  ASSUME IInv, IInv', Orderly, NEW t \in Task, hangupIf(t)
  PROVE  Orderly'
<1>1. stack[t] # <<>> /\ Frame(t).op = "hangupIf"
  BY DEF hangupIf, Running, Frame
<1>2. PICK f \in Frames, r \in Seq(Frames) :
        /\ f = Frame(t) /\ r = Tail(stack[t]) /\ FrameOK(f)
        /\ PhaseOf(t, f, r) /\ Alone(t)
  BY <1>1, Doing
<1>3. MediaOK({}) /\ UpOK({}) /\ Clearing(<<f>> \o r, {})
  BY <1>1, <1>2 DEF PhaseOf, ClearAt
<1>4. UNCHANGED <<radio, voice_calls, table, calls, started, inflight, up, aborted>>
  BY DEF hangupIf, RadioUnchanged, radioVars, sipVars, waitVars, peerVars, histVars
<1>5. MediaOK({})' /\ UpOK({})'
  BY <1>3, <1>4, Same
<1>6. PICK c \in Dialog \cup {NoCall} : c = radio[f.i].sip
  BY <1>1, <1>2, RadioSips DEF FrameOK, IInv
<1>7. Clearing(r, {c}) /\ (c = NoCall => Clearing(r, {}))
  BY <1>1, <1>2, <1>3, <1>6, ClearingRest DEF IInv
<1>8. Clearing(r, {c})' /\ (c = NoCall => Clearing(r, {})')
  BY <1>4, <1>7 DEF Clearing
<1>9. CASE c = NoCall
  <2>1. Become(t, <<>>)
    BY <1>2, <1>6, <1>9 DEF hangupIf
  <2>2. stack' = [stack EXCEPT ![t] = r]
    BY <1>2, <2>1, Returned DEF Return
  <2>3. Onward
    BY <1>2, <1>5, <1>8, <1>9, <2>2, Leaves DEF Leaving
  <2> QED
    BY <1>4, <2>3, Kept
<1>10. CASE c # NoCall
  <2> DEFINE g == FrC("hangupCall", c)
  <2>1. g \in Frames /\ g.op = "hangupCall" /\ g.c = c
    BY FrameMade DEF RunOps
  <2>2. Become(t, <<g>>)
    BY <1>2, <1>6, <1>10 DEF hangupIf
  <2> HIDE DEF g
  <2>3. stack' = [stack EXCEPT ![t] = <<g>> \o r]
    BY <1>2, <2>1, <2>2, Became
  <2>4. Ready(t, g, r)'
    BY <1>5, <1>8, <2>1 DEF Ready, HangupAt
  <2>5. Onward
    BY <1>2, <2>1, <2>3, <2>4, Onto
  <2> QED
    BY <1>4, <2>5, Kept
<1> QED
  BY <1>9, <1>10

\* and when no call is left it drops the entries.
LEMMA clearCallsSerial ==
  ASSUME IInv, IInv', Orderly, NEW t \in Task, clearCalls(t)
  PROVE  Orderly'
<1>1. stack[t] # <<>> /\ (Frame(t).op = "powerOff" \/ Frame(t).i = 1)
      /\ Frame(t).op \in {"clear", "powerOff"}
  BY DEF clearCalls, Running, Frame
<1>2. PICK f \in Frames, r \in Seq(Frames) :
        f = Frame(t) /\ r = Tail(stack[t]) /\ PhaseOf(t, f, r) /\ Alone(t)
  BY <1>1, Doing
<1>3. f.op = "clear" /\ f.i # 0
  BY <1>1, <1>2 DEF PhaseOf, SerialOps, AwaitOps, MediaOps
<1>4. MediaOK({}) /\ UpOK({}) /\ Clearing(<<f>> \o r, {})
  BY <1>2, <1>3 DEF PhaseOf, ClearAt
<1>5. UNCHANGED <<radio, table, calls, started, inflight, up, aborted>>
  BY DEF clearCalls, RadioUnchanged, sipVars, waitVars, peerVars, histVars
<1>6. voice_calls' = <<>> /\ Return(t)
  BY DEF clearCalls
<1> DEFINE s == <<f>> \o r
<1>7. /\ s \in Seq(Frames) /\ Len(s) \in Nat \ {0} /\ s[1] = f
      /\ Tail(s) = r /\ Len(Tail(s)) = Len(s) - 1
  <2>1. s \in Seq(Frames) /\ Head(s) = f /\ Tail(s) = r /\ s # <<>>
    BY Joined
  <2> HIDE DEF s
  <2> QED
    BY <2>1
<1>8. /\ \A k \in 1 .. Len(s) - 1 : s[k].op = "hangupIf"
      /\ \A c \in ToSet(table) : \E k \in 1 .. Len(s) : s[k].op = "hangupIf"
  BY <1>4 DEF Clearing
<1> HIDE DEF s
<1>9. Len(s) = 1
  <2>1. SUFFICES ASSUME Len(s) # 1 PROVE FALSE
    OBVIOUS
  <2>2. \A n \in Nat \ {0} : n # 1 => 1 \in 1 .. n - 1
    OBVIOUS
  <2>3. 1 \in 1 .. Len(s) - 1
    BY <1>7, <2>1, <2>2
  <2> QED
    BY <1>3, <1>7, <1>8, <2>3
<1>10. r = <<>>
  <2>1. Len(r) = Len(s) - 1
    BY <1>7, Zenon
  <2>2. Len(r) = 0
    BY <1>9, <2>1
  <2> QED
    BY <2>2, EmptySeq
<1>11. ToSet(table) = {}
  BY <1>3, <1>7, <1>8, <1>9
<1>12. ToSet(<<>>) = {}
  BY DEF ToSet
<1>13. Steady'
  <2>1. MediaOK({})' /\ UpOK({})'
    BY <1>4, <1>5, SameCalls
  <2>2. ToSet(voice_calls') = {} /\ ToSet(table') = {}
    BY <1>5, <1>6, <1>11, <1>12
  <2>3. Paired({}, {})'
    BY <2>2 DEF Paired
  <2> QED
    BY <2>1, <2>3 DEF Steady, Match
<1>14. stack' = [stack EXCEPT ![t] = <<>>]
  BY <1>2, <1>6, <1>10, Returned
<1>15. Onward
  BY <1>2, <1>13, <1>14, Over
<1> QED
  BY <1>5, <1>15, Kept

\* A swap takes the waiting call, or holds the active one and resumes the held.
LEMMA switchSerial ==
  ASSUME IInv, IInv', Orderly, NEW t \in Task, switch(t)
  PROVE  Orderly'
<1>1. stack[t] # <<>> /\ Frame(t).op = "switch"
  BY DEF switch, Running, Frame
<1>2. PICK f \in Frames, r \in Seq(Frames) :
        f = Frame(t) /\ r = Tail(stack[t]) /\ PhaseOf(t, f, r) /\ Alone(t)
  BY <1>1, Doing
<1>3. r = <<>> /\ Steady
  BY <1>1, <1>2 DEF PhaseOf, SerialOps
<1>4. UNCHANGED <<radio, voice_calls, table, calls, started, inflight, up, aborted>>
  BY DEF switch, RadioUnchanged, radioVars, sipVars, waitVars, peerVars, histVars
<1>5. Steady'
  BY <1>3, <1>4, Same DEF Steady
<1> DEFINE w == SelectInSeq(voice_calls, LAMBDA i : radio[i].state = "WAITING")
           a == FirstIn("ACTIVE")
           h == FirstIn("HELD")
           sw == IF a = 0 THEN <<>> ELSE <<FrC("hold", table[a])>>
           rs == IF h = 0 THEN <<>> ELSE <<FrC("resume", table[h])>>
<1>6. Become(t, IF w # 0 THEN <<Fr("switchScan", NoCall, 1, voice_calls[w])>>
                ELSE sw \o rs)
  BY DEF switch
<1>7. w # 0 => /\ voice_calls[w] \in ToSet(voice_calls)
               /\ radio[voice_calls[w]].state = "WAITING"
  <2> DEFINE I == {j \in 1 .. Len(voice_calls) : radio[voice_calls[j]].state = "WAITING"}
  <2>1. w = IF I # {} THEN Min(I) ELSE 0
    BY DEF SelectInSeq
  <2>2. I \in SUBSET (1 .. Len(voice_calls))
    OBVIOUS
  <2>3. \A j \in I : radio[voice_calls[j]].state = "WAITING"
    OBVIOUS
  <2> HIDE DEF I, w
  <2> QED
    BY <2>1, <2>2, <2>3, FirstEntry DEF IInv
<1>8. /\ a # 0 => table[a] \in ToSet(table) /\ calls[table[a]].state = "ACTIVE"
      /\ h # 0 => table[h] \in ToSet(table)
  BY FirstFound DEF IInv
<1> HIDE DEF w, a, h
<1>9. CASE w # 0
  <2>1. PICK i \in 1 .. MaxIndex : i = voice_calls[w]
    BY <1>7, <1>9, Known DEF IInv
  <2> DEFINE g == Fr("switchScan", NoCall, 1, i)
  <2>2. g \in Frames /\ g.op = "switchScan" /\ g.j = i
    <3>1. 1 \in 0 .. MaxIndex + 1
      BY CallsAssumption
    <3> QED
      BY <3>1, ScanMade
  <2>3. Become(t, <<g>>)
    BY <1>6, <1>9, <2>1
  <2> HIDE DEF g
  <2>4. stack' = [stack EXCEPT ![t] = <<g>> \o r]
    BY <1>2, <2>2, <2>3, Became
  <2>5. Waiting(i)'
    BY <1>4, <1>7, <1>9, <2>1 DEF Waiting
  <2>6. Ready(t, g, r)'
    BY <1>3, <1>5, <2>2, <2>5 DEF Ready
  <2>7. Onward
    BY <1>2, <2>2, <2>4, <2>6, Onto
  <2> QED
    BY <1>4, <2>7, Kept
<1>10. PICK q \in Seq(Frames) : q = rs
  <2>1. h # 0 => FrC("resume", table[h]) \in Frames
    BY <1>8, Known, FrameMade DEF IInv, RunOps
  <2>2. rs \in Seq(Frames)
    BY <2>1
  <2> HIDE DEF rs
  <2> QED
    BY <2>2
<1>11. Continues(q)'
  <2>1. CASE h = 0
    BY <1>10, <2>1 DEF Continues
  <2>2. CASE h # 0
    <3>1. table[h] \in Dialog /\ q = <<FrC("resume", table[h])>>
      BY <1>8, <1>10, <2>2, Known DEF IInv
    <3>2. PICK d \in Dialog : d = table[h] /\ q = <<FrC("resume", d)>>
      BY <3>1
    <3> QED
      BY <3>2 DEF Continues
  <2> QED
    BY <2>1, <2>2
<1> HIDE DEF rs
<1>12. CASE w = 0 /\ a # 0
  <2>1. PICK c \in Dialog : c = table[a] /\ c \in ToSet(table) /\ calls[c].state = "ACTIVE"
    BY <1>8, <1>12, Known DEF IInv
  <2>2. PICK i \in ToSet(voice_calls) : i = calls[c].idx /\ Linked(i, c)
    BY <1>3, <2>1, Partner DEF Steady, Match, Linked
  <2>3. radio[i].sip = c /\ radio[i].state = "ACTIVE"
    BY <1>3, <2>1, <2>2, SetApart DEF Agree, Linked
  <2> DEFINE g == FrC("hold", c)
  <2>4. g \in Frames
    BY FrameMade DEF RunOps
  <2>5. Become(t, <<g>> \o rs)
    BY <1>6, <1>12, <2>1
  <2>6. stack' = [stack EXCEPT ![t] = <<g>> \o q]
    <3> HIDE DEF g
    <3>1. <<g>> \o q \in Seq(Frames)
      BY <2>4, Joined
    <3>2. (<<g>> \o q) \o <<>> = <<g>> \o q
      BY <3>1, ConcatEmptySeq
    <3>3. stack' = [stack EXCEPT ![t] = (<<g>> \o q) \o r]
      BY <1>2, <1>10, <2>5 DEF Become, Runs
    <3> QED
      BY <1>3, <3>2, <3>3
  <2>7. Onward
    BY <1>2, <1>3, <1>4, <1>11, <2>1, <2>2, <2>3, <2>6, HoldBegins
  <2> QED
    BY <1>4, <2>7, Kept
<1>13. CASE w = 0 /\ a = 0
  <2>1. Become(t, <<>> \o rs)
    BY <1>6, <1>13
  <2>2. stack' = [stack EXCEPT ![t] = q]
    <3>1. <<>> \o q = q /\ q \o <<>> = q
      BY ConcatEmptySeq
    <3>2. stack' = [stack EXCEPT ![t] = (<<>> \o q) \o r]
      BY <1>2, <1>10, <2>1 DEF Become, Runs
    <3> QED
      BY <1>3, <3>1, <3>2
  <2>3. Onward
    BY <1>2, <1>5, <1>11, <2>2, HoldEnds
  <2> QED
    BY <1>4, <2>3, Kept
<1> QED
  BY <1>9, <1>12, <1>13

\* The loop over the call list holds what is ACTIVE, then takes what is WAITING.
LEMMA switchScanSerial ==
  ASSUME IInv, IInv', Orderly, NEW t \in Task, switchScan(t)
  PROVE  Orderly'
<1>1. stack[t] # <<>> /\ Frame(t).op = "switchScan"
  BY DEF switchScan, Running, Frame
<1>2. PICK f \in Frames, r \in Seq(Frames) :
        /\ f = Frame(t) /\ r = Tail(stack[t]) /\ FrameOK(f)
        /\ PhaseOf(t, f, r) /\ Alone(t)
  BY <1>1, Doing
<1>3. r = <<>> /\ Steady /\ Waiting(f.j)
  BY <1>1, <1>2 DEF PhaseOf
<1>4. UNCHANGED <<voice_calls, table, calls, started, inflight, up, aborted>>
  BY DEF switchScan, RadioUnchanged, sipVars, waitVars, peerVars
<1>5. PICK w \in 1 .. MaxIndex : w = f.j
  BY <1>1, <1>2 DEF FrameOK
<1>6. f.i \in Nat \ {0}
  BY <1>1, <1>2 DEF FrameOK
<1>7. Len(voice_calls) \in Nat /\ Len(voice_calls) <= MaxIndex /\ MaxIndex \in Nat
  BY RadioLength, CallsAssumption DEF IInv
<1>8. CASE f.i <= Len(voice_calls)
  <2>1. PICK k \in 0 .. MaxIndex + 1 : k = f.i + 1
    <3>1. \A n, m \in Nat : f.i <= n /\ n <= m => f.i + 1 \in 0 .. m + 1
      BY <1>6
    <3> QED
      BY <1>7, <1>8, <3>1
  <2>2. voice_calls[f.i] \in ToSet(voice_calls)
    <3>1. \A n \in Nat : f.i <= n => f.i \in 1 .. n
      BY <1>6
    <3>2. f.i \in 1 .. Len(voice_calls)
      BY <1>7, <1>8, <3>1
    <3> QED
      BY <3>2 DEF ToSet
  <2>3. PICK i \in ToSet(voice_calls) : i = voice_calls[f.i]
    BY <2>2
  <2>4. i \in 1 .. MaxIndex
    BY Known DEF IInv
  <2> DEFINE next == Fr("switchScan", NoCall, k, w)
  <2>5. next \in Frames /\ next.op = "switchScan" /\ next.j = w
    BY ScanMade
  <2>6. CASE radio[i].state = "ACTIVE"
    <3>1. /\ radio' = [radio EXCEPT ![i].state = "HOLDING"]
          /\ Become(t, <<FrC("hold", radio[i].sip), next>>)
      BY <1>2, <1>5, <1>6, <1>7, <1>8, <2>1, <2>3, <2>6 DEF switchScan
    <3>2. /\ radio'[i].state = "HOLDING" /\ radio'[i].sip = radio[i].sip
          /\ \A j \in 1 .. MaxIndex \ {i} : radio'[j] = radio[j]
      BY <2>4, <3>1, EntrySet DEF IInv
    <3>3. PICK c \in Dialog : c = radio[i].sip /\ Linked(i, c)
      BY <1>3, Partner, Known DEF IInv, Steady, Match, Linked
    <3>4. calls[c].state = "ACTIVE"
      BY <1>3, <2>6, <3>3, SetApart DEF Agree
    <3>5. Waiting(w)'
      BY <1>3, <1>4, <1>5, <2>6, <3>2 DEF Waiting
    <3>6. Continues(<<next>>)'
      BY <3>5 DEF Continues
    <3> HIDE DEF next
    <3>7. <<next>> \in Seq(Frames)
      BY <2>5
    <3>8. FrC("hold", c) \in Frames
      BY FrameMade DEF RunOps
    <3>9. stack' = [stack EXCEPT ![t] = <<FrC("hold", c)>> \o <<next>>]
      <4>1. stack' = [stack EXCEPT ![t] = <<FrC("hold", c)>> \o (<<next>> \o r)]
        <5> DEFINE g == FrC("hold", c)
        <5>1. g \in Frames /\ Become(t, <<g, next>>)
          BY <3>1, <3>3, <3>8
        <5> HIDE DEF g
        <5>2. stack' = [stack EXCEPT ![t] = <<g>> \o (<<next>> \o r)]
          BY <1>2, <2>5, <5>1, BecameTwo
        <5> QED
          BY <5>2 DEF g
      <4>2. <<next>> = <<next>> \o <<>>
        BY <2>5, Pushed, Zenon
      <4> QED
        BY <1>3, <4>1, <4>2, Zenon
    <3>10. Onward
      BY <1>2, <1>3, <1>4, <3>2, <3>3, <3>4, <3>6, <3>7, <3>9, HoldBegins
    <3> QED
      BY <1>4, <3>10, Kept
  <2>7. CASE radio[i].state # "ACTIVE"
    <3>1. UNCHANGED radio /\ Become(t, <<next>>)
      BY <1>2, <1>5, <1>6, <1>7, <1>8, <2>1, <2>3, <2>7 DEF switchScan
    <3> HIDE DEF next
    <3>2. stack' = [stack EXCEPT ![t] = <<next>> \o r]
      BY <1>2, <2>5, <3>1, Became
    <3>3. Steady'
      BY <1>3, <1>4, <3>1, Same DEF Steady
    <3>4. Waiting(w)'
      BY <1>3, <1>4, <1>5, <3>1 DEF Waiting
    <3>5. Ready(t, next, r)'
      BY <1>3, <2>5, <3>3, <3>4 DEF Ready
    <3>6. Onward
      BY <1>2, <2>5, <3>2, <3>5, Onto
    <3> QED
      BY <1>4, <3>6, Kept
  <2> QED
    BY <2>6, <2>7
<1>9. CASE ~ (f.i <= Len(voice_calls))
  <2>1. /\ radio' = [radio EXCEPT ![w].state = "ACTIVE"]
        /\ Become(t, <<FrC("answerCall", radio[w].sip)>>)
    BY <1>2, <1>5, <1>9 DEF switchScan
  <2>2. w \in ToSet(voice_calls) /\ radio[w].state = "WAITING" /\ Tail(stack[t]) = <<>>
    BY <1>2, <1>3, <1>5 DEF Waiting
  <2>3. Onward
    BY <1>2, <1>3, <1>4, <2>1, <2>2, TakesUp
  <2> QED
    BY <1>4, <2>3, Kept
<1> QED
  BY <1>8, <1>9

\* A call leaves the conference and is held.
LEMMA separateSerial ==
  ASSUME IInv, IInv', Orderly, NEW t \in Task, separate(t)
  PROVE  Orderly'
<1>1. stack[t] # <<>> /\ Frame(t).op = "separate"
  BY DEF separate, Running, Frame
<1>2. PICK f \in Frames, r \in Seq(Frames) :
        f = Frame(t) /\ r = Tail(stack[t]) /\ PhaseOf(t, f, r) /\ Alone(t)
  BY <1>1, Doing
<1>3. r = <<>> /\ Steady
  BY <1>1, <1>2 DEF PhaseOf, SerialOps
<1>4. UNCHANGED <<voice_calls, table, calls, started, inflight, up, aborted>>
  BY DEF separate, RadioUnchanged, sipVars, waitVars, peerVars, histVars
<1>5. CASE ~ (f.i \in ToSet(voice_calls) /\ radio[f.i].mpty)
  <2>1. Return(t) /\ UNCHANGED radio
    BY <1>2, <1>5 DEF separate
  <2>2. Steady'
    BY <1>3, <1>4, <2>1, Same DEF Steady
  <2>3. stack' = [stack EXCEPT ![t] = <<>>]
    BY <1>2, <1>3, <2>1, Returned
  <2>4. Onward
    BY <1>2, <2>2, <2>3, Over
  <2> QED
    BY <1>4, <2>4, Kept
<1>6. CASE f.i \in ToSet(voice_calls) /\ radio[f.i].mpty
  <2>1. PICK i \in ToSet(voice_calls) : i = f.i /\ i \in 1 .. MaxIndex /\ radio[i].mpty
    BY <1>6, Known DEF IInv
  <2>2. PICK c \in Dialog : c = radio[i].sip /\ Linked(i, c)
    BY <1>3, Partner, Known DEF IInv, Steady, Match, Linked
  <2>3. /\ radio' = [radio EXCEPT ![i].mpty = FALSE, ![i].state = "HOLDING"]
        /\ Become(t, <<FrC("hold", c)>>)
    BY <1>2, <1>6, <2>1, <2>2 DEF separate
  <2>4. /\ radio'[i].state = "HOLDING" /\ radio'[i].sip = c
        /\ \A j \in 1 .. MaxIndex \ {i} : radio'[j] = radio[j]
    <3> DEFINE e == [radio[i] EXCEPT !.mpty = FALSE, !.state = "HOLDING"]
               Entry == [state: RadioStates, mpty: BOOLEAN, sip: Dialog \cup {NoCall}]
               E == 1 .. MaxIndex
    <3>1. radio \in [E -> Entry] /\ i \in E
      BY <2>1 DEF IInv, TypeInv, RadioOK
    <3>2. radio' = [radio EXCEPT ![i] = e]
      BY <2>3, <3>1
    <3>3. e.state = "HOLDING" /\ e.sip = radio[i].sip
      BY <3>1
    <3> HIDE DEF e, Entry
    <3>4. radio'[i] = e /\ \A j \in E \ {i} : radio'[j] = radio[j]
      BY <3>1, <3>2
    <3> QED
      BY <2>2, <3>3, <3>4
  <2>5. calls[c].state \in {"ACTIVE", "HELD"}
    BY <1>3, <2>1, <2>2, SetApart DEF Agree
  <2>6. FrC("hold", c) \in Frames
    BY FrameMade DEF RunOps
  <2>7. stack' = [stack EXCEPT ![t] = <<FrC("hold", c)>> \o r]
    <3> DEFINE g == FrC("hold", c)
    <3>1. g \in Frames /\ Become(t, <<g>>)
      BY <2>3, <2>6
    <3> HIDE DEF g
    <3>2. stack' = [stack EXCEPT ![t] = <<g>> \o r]
      BY <1>2, <3>1, Became
    <3> QED
      BY <3>2 DEF g
  <2>8. Continues(r)'
    BY <1>3 DEF Continues
  <2>9. Onward
    BY <1>2, <1>3, <1>4, <2>2, <2>4, <2>5, <2>7, <2>8, HoldBegins
  <2> QED
    BY <1>4, <2>9, Kept
<1> QED
  BY <1>5, <1>6

-----------------------------------------------------------------------------
(* VoLTECallManager's operations. *)

\* hold_call and resume_call change the call, then send the re-INVITE.
LEMMA holdResumeSerial ==
  ASSUME IInv, IInv', Orderly, NEW t \in Task, holdResume(t)
  PROVE  Orderly'
<1>1. stack[t] # <<>> /\ Frame(t).op \in {"hold", "resume"}
  BY DEF holdResume, Running, Frame
<1>2. PICK f \in Frames, r \in Seq(Frames) :
        f = Frame(t) /\ r = Tail(stack[t]) /\ PhaseOf(t, f, r) /\ Alone(t)
  BY <1>1, Doing
<1>3. UNCHANGED <<radio, voice_calls, table, started, up, aborted>> /\ started
  BY DEF holdResume, ManagerUnchanged, radioVars, peerVars, Orderly
<1>4. PICK op \in {"hold", "resume"} : op = f.op
  BY <1>1, <1>2
<1> DEFINE s == IF op = "hold" THEN "HELD" ELSE "ACTIVE"
           m == IF op = "hold" THEN "HOLD" ELSE "RESUME"
           from == IF op = "hold" THEN "ACTIVE" ELSE "HELD"
           media == IF s = "HELD" THEN Paused(calls[f.c].media) ELSE Playing(calls[f.c].media)
           ready == InTable(f.c) /\ calls[f.c].state = from
<1>5. \/ ~ready /\ Return(t) /\ UNCHANGED <<calls, waitVars>>
      \/ /\ ready
         /\ calls' = [calls EXCEPT ![f.c].state = s, ![f.c].media = media]
         /\ SendRequest(t, f.c, m) /\ Suspend(t, FrC(m, f.c))
  <2>1. CASE op = "hold"
    BY <1>2, <1>3, <1>4, <2>1 DEF holdResume, Running, Frame
  <2>2. CASE op = "resume"
    BY <1>2, <1>3, <1>4, <2>2 DEF holdResume, Running, Frame
  <2> QED
    BY <2>1, <2>2
<1>6. CASE op = "hold"
  <2>1. Continues(r) /\ HoldAt(f.c, r)
    BY <1>2, <1>4, <1>6 DEF PhaseOf, HoldAt
  <2>2. Continues(r)'
    BY <1>3, <2>1 DEF Continues, Waiting
  <2>3. PICK i \in ToSet(voice_calls) :
          /\ Linked(i, f.c) /\ Match({i}, {f.c})
          /\ \/ radio[i].state = "HOLDING" /\ calls[f.c].state \in {"ACTIVE", "HELD"}
             \/ radio[i].state = "ACTIVE" /\ calls[f.c].state = "ACTIVE"
    BY <2>1 DEF HoldAt
  <2>4. PICK c \in Dialog : c = f.c /\ InTable(c)
    BY <2>3, Known DEF IInv, Linked, InTable
  <2>5. CASE ~ready
    <3>1. Return(t) /\ UNCHANGED <<calls, waitVars>>
      BY <1>5, <2>5
    <3>2. Agree(i, c)
      BY <1>6, <2>3, <2>4, <2>5 DEF Agree
    <3>3. Agree(i, c)' /\ Linked(i, c)'
      BY <1>3, <2>3, <2>4, <3>1, <3>2 DEF Agree, Linked
    <3>4. Match({i}, {c})
      BY <2>3, <2>4
    <3>5. Steady'
      BY <1>3, <3>1, <3>3, <3>4, Touched DEF IInv
    <3>6. stack' = [stack EXCEPT ![t] = r]
      BY <1>2, <3>1, Returned
    <3>7. Onward
      BY <1>2, <2>2, <3>5, <3>6, HoldEnds
    <3> QED
      BY <1>3, <3>1, <3>7, Kept DEF waitVars
  <2>6. CASE ready
    <3>1. /\ calls' = [calls EXCEPT ![c].state = "HELD", ![c].media = media]
          /\ SendRequest(t, c, "HOLD") /\ Suspend(t, FrC("HOLD", c))
      BY <1>5, <1>6, <2>4, <2>6
    <3>2. media = IF "HELD" = "HELD" THEN Paused(calls[c].media) ELSE Playing(calls[c].media)
      BY <1>6, <2>4
    <3> HIDE DEF media, ready
    <3>3. /\ calls'[c].state = "HELD" /\ calls'[c].idx = calls[c].idx
          /\ c \in ToSet(table') => MediaGood(c)'
          /\ \A d \in Dialog \ {c} : calls'[d] = calls[d]
      BY <3>1, <3>2, CallHeld DEF IInv
    <3>4. MediaGood(c)'
      BY <1>3, <2>4, <3>3 DEF InTable
    <3>5. stack' = [stack EXCEPT ![t] = <<FrC("HOLD", c)>> \o r]
      BY <1>2, <3>1 DEF Suspend
    <3>6. pending'[c] = t
      BY <3>1 DEF SendRequest, IInv, TypeInv, WaitOK
    <3>7. Linked(i, c) /\ Match({i}, {c}) /\ radio[i].state # "WAITING"
      BY <2>3, <2>4
    <3>8. "HOLD" = IF "HELD" = "HELD" THEN "HOLD" ELSE "RESUME"
      OBVIOUS
    <3>9. Onward
      BY <1>2, <1>3, <2>2, <3>3, <3>4, <3>5, <3>6, <3>7, <3>8, HoldSent
    <3>10. "HOLD" \in AwaitOps
      BY DEF AwaitOps
    <3>11. \A d \in Dialog : calls[d].state # "none" => calls'[d].state # "none"
      BY <3>3
    <3> QED
      BY <1>3, <3>1, <3>3, <3>9, <3>10, <3>11, KeptSent
  <2> QED
    BY <2>5, <2>6
<1>7. CASE op = "resume"
  <2>1. r = <<>> /\ Steady
    BY <1>2, <1>4, <1>7 DEF PhaseOf
  <2>2. CASE ~ready
    <3>1. Return(t) /\ UNCHANGED <<calls, waitVars>>
      BY <1>5, <2>2
    <3>2. Steady'
      BY <1>3, <2>1, <3>1, Same DEF Steady
    <3>3. stack' = [stack EXCEPT ![t] = <<>>]
      BY <1>2, <2>1, <3>1, Returned
    <3>4. Onward
      BY <1>2, <3>2, <3>3, Over
    <3> QED
      BY <1>3, <3>1, <3>4, Kept DEF waitVars
  <2>3. CASE ready
    <3>1. PICK c \in Dialog : c = f.c /\ c \in ToSet(table) /\ calls[c].state = "HELD"
      BY <1>7, <2>3, Known DEF IInv, InTable
    <3>2. PICK i \in ToSet(voice_calls) : Linked(i, c)
      BY <2>1, <3>1, Partner DEF Steady, Match, Linked
    <3>3. Match({i}, {c}) /\ radio[i].state # "WAITING"
      BY <2>1, <3>1, <3>2, SetApart DEF Agree
    <3>4. /\ calls' = [calls EXCEPT ![c].state = "ACTIVE", ![c].media = media]
          /\ SendRequest(t, c, "RESUME") /\ Suspend(t, FrC("RESUME", c))
      BY <1>5, <1>7, <2>3, <3>1
    <3>5. media = IF "ACTIVE" = "HELD" THEN Paused(calls[c].media)
                  ELSE Playing(calls[c].media)
      BY <1>7, <3>1
    <3> HIDE DEF media, ready
    <3>6. /\ calls'[c].state = "ACTIVE" /\ calls'[c].idx = calls[c].idx
          /\ c \in ToSet(table') => MediaGood(c)'
          /\ \A d \in Dialog \ {c} : calls'[d] = calls[d]
      BY <3>4, <3>5, CallHeld DEF IInv
    <3>7. MediaGood(c)'
      BY <1>3, <3>1, <3>6
    <3>8. stack' = [stack EXCEPT ![t] = <<FrC("RESUME", c)>> \o r]
      BY <1>2, <3>4 DEF Suspend
    <3>9. pending'[c] = t
      BY <3>4 DEF SendRequest, IInv, TypeInv, WaitOK
    <3>10. /\ "RESUME" = IF "ACTIVE" = "HELD" THEN "HOLD" ELSE "RESUME"
           /\ IF "ACTIVE" = "HELD" THEN Continues(r)' ELSE r = <<>>
      BY <2>1
    <3>11. Onward
      BY <1>2, <1>3, <3>2, <3>3, <3>6, <3>7, <3>8, <3>9, <3>10, HoldSent
    <3>12. "RESUME" \in AwaitOps
      BY DEF AwaitOps
    <3>13. \A d \in Dialog : calls[d].state # "none" => calls'[d].state # "none"
      BY <3>6
    <3> QED
      BY <1>3, <3>4, <3>6, <3>11, <3>12, <3>13, KeptSent
  <2> QED
    BY <2>2, <2>3
<1> QED
  BY <1>6, <1>7

\* Whatever the answer, the radio then shows the state of the call.
LEMMA holdResumeDoneSerial ==
  ASSUME IInv, IInv', Orderly, NEW t \in Task, holdResumeDone(t)
  PROVE  Orderly'
<1>1. /\ stack[t] # <<>>
      /\ Frame(t).op \in {"HOLD", "RESUME", "holdDone", "resumeDone"}
  BY DEF holdResumeDone, Running, Woken, HeldBack, Frame
<1>2. PICK f \in Frames, r \in Seq(Frames) :
        f = Frame(t) /\ r = Tail(stack[t]) /\ PhaseOf(t, f, r) /\ Alone(t)
  BY <1>1, Doing
<1>3. f.op \in {"HOLD", "RESUME"}
  BY <1>1, <1>2 DEF PhaseOf, SerialOps, AwaitOps, MediaOps
<1>4. /\ UNCHANGED <<voice_calls, table, calls, started, inflight, up, aborted>>
      /\ Return(t)
  BY DEF holdResumeDone, ManagerUnchanged, peerVars
<1>5. radio' = RadioUpdate(calls[f.c].idx, IF f.op = "HOLD" THEN "HOLDING" ELSE "ACTIVE")
  BY <1>2, <1>3 DEF holdResumeDone, Running, Woken, HeldBack, Frame
<1>6. stack' = [stack EXCEPT ![t] = r]
  BY <1>2, <1>4, Returned
<1>7. Continues(r) /\ ReinviteAt(f.c, IF f.op = "HOLD" THEN "HELD" ELSE "ACTIVE")
  BY <1>2, <1>3 DEF PhaseOf, Continues
<1>8. PICK i \in ToSet(voice_calls) :
        /\ Linked(i, f.c) /\ Match({i}, {f.c}) /\ radio[i].state # "WAITING"
        /\ calls[f.c].state = IF f.op = "HOLD" THEN "HELD" ELSE "ACTIVE"
  BY <1>7 DEF ReinviteAt
<1>9. i \in 1 .. MaxIndex
  BY Known DEF IInv
<1>10. PICK s \in {"HOLDING", "ACTIVE"} :
         s = (IF f.op = "HOLD" THEN "HOLDING" ELSE "ACTIVE")
  OBVIOUS
<1>11. radio' = [radio EXCEPT ![i].state = s]
  BY <1>5, <1>8, <1>10 DEF RadioUpdate, Linked
<1>12. /\ radio'[i].state = s /\ radio'[i].sip = radio[i].sip
       /\ \A j \in 1 .. MaxIndex \ {i} : radio'[j] = radio[j]
  BY <1>9, <1>11, EntrySet DEF IInv
<1>13. Steady'
  <2>1. PICK c \in Dialog : c = f.c
    BY <1>8, Known DEF IInv, Linked
  <2>2. Match({i}, {c}) /\ Linked(i, c)' /\ Agree(i, c)'
    <3>1. Linked(i, c)'
      BY <1>4, <1>8, <1>12, <2>1 DEF Linked
    <3>2. Agree(i, c)'
      BY <1>4, <1>8, <1>10, <1>12, <2>1 DEF Agree
    <3> QED
      BY <1>8, <2>1, <3>1, <3>2
  <2> QED
    BY <1>4, <1>12, <2>2, Touched DEF IInv
<1>14. Continues(r)'
  <2>1. \A w \in 1 .. MaxIndex : Waiting(w) => Waiting(w)'
    BY <1>4, <1>8, <1>12 DEF Waiting
  <2> QED
    BY <1>7, <2>1 DEF Continues
<1>15. Onward
  BY <1>2, <1>6, <1>13, <1>14, HoldEnds
<1> QED
  BY <1>4, <1>15, Kept

\* initiate_call puts the call in the table before it sends the INVITE.
LEMMA initiateSerial ==
  ASSUME IInv, IInv', Orderly, NEW t \in Task, initiate(t)
  PROVE  Orderly'
<1>1. stack[t] # <<>> /\ Frame(t).op = "initiate"
  BY DEF initiate, Running, Frame
<1>2. PICK f \in Frames, r \in Seq(Frames) :
        f = Frame(t) /\ r = Tail(stack[t]) /\ PhaseOf(t, f, r) /\ Alone(t)
  BY <1>1, Doing
<1>3. PICK i \in ToSet(voice_calls) :
        i = f.i /\ r = <<FrI("dialDone", i)>> /\ Match({i}, {})
  BY <1>1, <1>2 DEF PhaseOf, InitiateAt
<1>4. UNCHANGED <<radio, voice_calls, started, up, aborted>> /\ started
  BY DEF initiate, ManagerUnchanged, radioVars, peerVars, Orderly
<1>5. PICK c \in Mo :
        /\ calls[c].state = "none"
        /\ calls' = [calls EXCEPT ![c] =
             [NoneCall EXCEPT !.state = "INITIATING", !.idx = i]]
        /\ table' = Append(table, c)
        /\ SendRequest(t, c, "INVITE") /\ Suspend(t, FrC("INVITE", c))
  BY <1>2, <1>3, <1>4 DEF initiate
<1>6. c \in Dialog /\ c \notin ToSet(table) /\ calls[c].media = "none"
  BY <1>5 DEF Dialog, IInv, FreshOK
<1>7. /\ calls'[c].state = "INITIATING" /\ calls'[c].idx = i /\ calls'[c].media = "none"
      /\ \A d \in Dialog \ {c} : calls'[d] = calls[d]
  BY <1>5, <1>6 DEF IInv, TypeInv, TableOK, NoneCall
<1>8. ToSet(table') = ToSet(table) \cup {c}
  <2>1. table \in Seq(Dialog)
    BY DEF IInv, TypeInv, TableOK
  <2> QED
    BY <1>5, <1>6, <2>1, AppendProperty
<1>9. Paired({i}, {c})'
  <2>1. ToSet(table') \ {c} = ToSet(table) \ {}
    BY <1>6, <1>8
  <2>2. ToSet(voice_calls') \ {i} = ToSet(voice_calls) \ {i}
    BY <1>4
  <2>3. \A d \in ToSet(table) \ {} :
          calls'[d].state = calls[d].state /\ calls'[d].idx = calls[d].idx
    BY <1>6, <1>7, Known DEF IInv
  <2> QED
    BY <1>3, <1>4, <2>1, <2>2, <2>3, PairedKept DEF Match
<1>10. MediaOK({})'
  <2>1. MediaGood(c)'
    BY <1>7 DEF MediaGood
  <2>2. \A d \in Dialog \ {} :
          \/ MediaGood(d)'
          \/ /\ d \notin {} /\ calls'[d] = calls[d]
             /\ d \in ToSet(table) => d \in ToSet(table')
    BY <1>7, <1>8, <2>1
  <2> QED
    BY <1>3, <2>2, MediaKept DEF Match
<1>11. UpOK({c})'
  BY <1>3, <1>4, <1>8 DEF Match, UpOK
<1>12. inflight' = inflight \cup {[c |-> c, m |-> "INVITE", t |-> t]}
  BY <1>5 DEF SendRequest
<1>13. \A q \in inflight' : q.c = c => q.m = "INVITE"
  BY <1>5, <1>12 DEF Orderly
<1>14. pending'[c] = t /\ ~ resp'[t].ok
  BY <1>5, <1>6 DEF SendRequest, IInv, TypeInv, WaitOK, NoResp
<1> DEFINE g == FrC("INVITE", c)
<1>15. g \in Frames /\ g.op = "INVITE" /\ g.c = c
  <2>1. "INVITE" \in RunOps \cup AwaitOps \cup MediaOps
    BY DEF AwaitOps
  <2> QED
    BY <1>6, <2>1, FrameMade
<1>16. stack' = [stack EXCEPT ![t] = <<g>> \o r]
  BY <1>2, <1>5 DEF Suspend
<1> HIDE DEF g
<1>17. InviteAt(t, g.c, r)'
  <2>1. c \in ToSet(table') /\ i \in ToSet(voice_calls')
    BY <1>4, <1>8
  <2> QED
    BY <1>3, <1>7, <1>9, <1>10, <1>11, <1>13, <1>14, <1>15, <2>1 DEF InviteAt
<1>18. Ready(t, g, r)'
  BY <1>14, <1>15, <1>17 DEF Ready
<1>19. Onward
  BY <1>2, <1>15, <1>16, <1>18, Onto
<1>20. "INVITE" \in AwaitOps
  BY DEF AwaitOps
<1>21. \A d \in Dialog : calls[d].state # "none" => calls'[d].state # "none"
  BY <1>7
<1> QED
  BY <1>4, <1>5, <1>6, <1>7, <1>19, <1>20, <1>21, KeptSent

\* The answer makes the call active, or takes it out of the table.
LEMMA inviteResultSerial ==
  ASSUME IInv, IInv', Orderly, NEW t \in Task, inviteResult(t)
  PROVE  Orderly'
<1>1. stack[t] # <<>> /\ Frame(t).op = "INVITE"
  BY DEF inviteResult, Woken
<1>2. PICK f \in Frames, r \in Seq(Frames) :
        /\ f = Frame(t) /\ r = Tail(stack[t]) /\ FrameOK(f)
        /\ PhaseOf(t, f, r) /\ Alone(t)
  BY <1>1, Doing
<1>3. PICK c \in Dialog : c = f.c
  BY <1>1, <1>2 DEF FrameOK, AwaitOps
<1>4. PICK i \in ToSet(voice_calls) :
        /\ r = <<FrI("dialDone", i)>>
        /\ c \in ToSet(table) /\ calls[c].idx = i
        /\ Paired({i}, {c}) /\ MediaOK({}) /\ UpOK({c})
        /\ resp[t].ok => c \in up
  BY <1>1, <1>2, <1>3 DEF PhaseOf, InviteAt
<1>5. /\ UNCHANGED <<voice_calls, started, inflight, up>>
      /\ i \in 1 .. MaxIndex
  BY Known DEF inviteResult, ManagerUnchanged, peerVars, IInv
<1>6. calls[c].media = "none"
  <2>1. Has(t, "INVITE", c)
    <3>1. stack[t] \in Seq(Frames) /\ Frame(t) = stack[t][1] /\ Len(stack[t]) \in Nat \ {0}
      BY <1>1 DEF IInv, TypeInv, StacksOK, Frame
    <3>2. Frame(t) \in ToSet(stack[t])
      BY <3>1 DEF ToSet
    <3> QED
      BY <1>1, <1>2, <1>3, <3>2 DEF Has
  <2> QED
    BY <2>1 DEF IInv, SetupOK
<1>7. CASE resp[t].ok
  <2>1. /\ calls' = [calls EXCEPT ![c].state = "ACTIVE"]
        /\ radio' = RadioUpdate(calls[c].idx, "ACTIVE")
        /\ Suspend(t, FrC("START", c)) /\ UNCHANGED <<table, aborted>>
    BY <1>2, <1>3, <1>7 DEF inviteResult
  <2>2. radio' = [radio EXCEPT ![i].state = "ACTIVE"]
    BY <1>4, <2>1 DEF RadioUpdate
  <2>3. /\ radio'[i].state = "ACTIVE"
        /\ \A j \in 1 .. MaxIndex \ {i} : radio'[j] = radio[j]
    BY <1>5, <2>2, EntrySet DEF IInv
  <2>4. /\ calls'[c].state = "ACTIVE" /\ calls'[c].idx = i /\ calls'[c].media = "none"
        /\ \A d \in Dialog \ {c} : calls'[d] = calls[d]
    BY <1>4, <1>6, <2>1, CallSet DEF IInv
  <2>5. MediaGood(c)'
    BY <2>4 DEF MediaGood
  <2>6. Match({i}, {c})
    BY <1>4, <1>7 DEF Match, UpOK
  <2>7. Match({i}, {c})'
    BY <1>5, <2>1, <2>3, <2>4, <2>5, <2>6, Touched DEF IInv
  <2>8. Made(i, c)'
    BY <1>4, <1>5, <2>1, <2>3, <2>4, <2>7 DEF Made
  <2>9. StartAt(c, r)'
    BY <1>4, <1>5, <2>8 DEF StartAt
  <2>10. stack' = [stack EXCEPT ![t] = <<FrC("START", c)>> \o r]
    BY <1>2, <2>1 DEF Suspend
  <2>11. Onward
    BY <1>2, <2>9, <2>10, Starting
  <2>12. \A d \in Dialog : calls[d].state # "none" => calls'[d].state # "none"
    BY <2>4
  <2> QED
    BY <1>5, <2>1, <2>11, <2>12, Kept
<1>8. CASE ~ resp[t].ok
  <2>1. /\ table' = RemoveFirst(table, c) /\ ret' = [ret EXCEPT ![t] = NoCall]
        /\ Return(t) /\ UNCHANGED <<calls, radio, aborted>>
    BY <1>2, <1>3, <1>4, <1>8 DEF inviteResult, InTable, WithoutKey
  <2>2. ToSet(table') = ToSet(table) \ {c}
    <3>1. table \in Seq(Dialog)
      BY DEF IInv, TypeInv, TableOK
    <3>2. IsInjective(table)
      BY DEF IInv, TypeInv, TableOK
    <3> QED
      BY <2>1, <3>1, <3>2, RemoveFirstProperties
  <2>3. Match({i}, {})'
    <3>1. Paired({i}, {})'
      BY <1>4, <1>5, <2>1, <2>2, PairedKept
    <3>2. \A d \in Dialog \ {} :
            \/ MediaGood(d)'
            \/ /\ d \notin {} /\ calls'[d] = calls[d]
               /\ d \in ToSet(table) => d \in ToSet(table')
      <4>1. MediaGood(c)'
        BY <1>6, <2>1 DEF MediaGood
      <4> QED
        BY <2>1, <2>2, <4>1
    <3>3. MediaOK({})'
      BY <1>4, <3>2, MediaKept
    <3>4. UpOK({})'
      BY <1>4, <1>5, <2>2 DEF UpOK
    <3> QED
      BY <3>1, <3>3, <3>4 DEF Match
  <2>4. ret'[t] = NoCall
    BY <2>1 DEF IInv, TypeInv, WaitOK
  <2>5. DialDoneAt(t, i, <<>>)'
    BY <1>5, <2>3, <2>4 DEF DialDoneAt
  <2>6. stack' = [stack EXCEPT ![t] = <<FrI("dialDone", i)>>]
    BY <1>2, <1>4, <2>1, Returned
  <2>7. Onward
    BY <1>2, <1>5, <2>5, <2>6, DialGoesOn
  <2> QED
    BY <1>5, <2>1, <2>7, Kept
<1> QED
  BY <1>7, <1>8

\* The media play, or could not be started.
LEMMA mediaStartedSerial ==
  ASSUME IInv, IInv', Orderly, NEW t \in Task, mediaStarted(t)
  PROVE  Orderly'
<1>1. stack[t] # <<>> /\ Frame(t).op = "START"
  BY DEF mediaStarted
<1>2. PICK f \in Frames, r \in Seq(Frames) :
        /\ f = Frame(t) /\ r = Tail(stack[t]) /\ FrameOK(f)
        /\ PhaseOf(t, f, r) /\ Alone(t)
  BY <1>1, Doing
<1>3. PICK c \in Dialog : c = f.c
  BY <1>1, <1>2 DEF FrameOK, MediaOps
<1>4. /\ UNCHANGED <<radio, voice_calls, table, started, inflight, up, aborted>>
      /\ ret' = [ret EXCEPT ![t] = c] /\ Return(t)
      /\ calls' = [calls EXCEPT ![c].media = "on"] \/ calls' = calls
  BY <1>2, <1>3 DEF mediaStarted, ManagerUnchanged, radioVars, waitVars, peerVars
<1>5. StartAt(c, r)
  BY <1>1, <1>2, <1>3 DEF PhaseOf
<1>6. c \in ToSet(table) /\ calls[c].state = "ACTIVE" /\ MediaGood(c)
  BY <1>5 DEF StartAt, Steady, Made, Match, MediaOK
<1>7. /\ calls'[c].state = calls[c].state /\ calls'[c].idx = calls[c].idx
      /\ MediaGood(c)'
      /\ \A d \in Dialog \ {c} : calls'[d] = calls[d]
  BY <1>4, <1>6, CallPlays DEF IInv
<1>8. \A d \in Dialog : calls[d].state # "none" => calls'[d].state # "none"
  BY <1>7
<1>9. CASE r = <<>> /\ Steady
  <2>1. PICK i \in ToSet(voice_calls) : Linked(i, c)
    BY <1>6, <1>9, Partner DEF Steady, Match, Linked
  <2>2. Match({i}, {c}) /\ Agree(i, c)
    BY <1>9, <2>1, SetApart
  <2>3. Linked(i, c)' /\ Agree(i, c)'
    BY <1>4, <1>7, <2>1, <2>2 DEF Linked, Agree
  <2>4. Steady'
    BY <1>4, <1>7, <2>2, <2>3, Touched DEF IInv
  <2>5. stack' = [stack EXCEPT ![t] = <<>>]
    BY <1>2, <1>4, <1>9, Returned
  <2>6. Onward
    BY <1>2, <2>4, <2>5, Over
  <2> QED
    BY <1>4, <1>8, <2>6, Kept
<1>10. CASE \E i \in ToSet(voice_calls) : r = <<FrI("dialDone", i)>> /\ Made(i, c)
  <2>1. PICK i \in ToSet(voice_calls) :
          r = <<FrI("dialDone", i)>> /\ Made(i, c) /\ i \in 1 .. MaxIndex
    BY <1>10, Known DEF IInv
  <2>2. Match({i}, {c})
    BY <2>1 DEF Made
  <2>3. Match({i}, {c})'
    BY <1>4, <1>7, <2>2, Touched DEF IInv
  <2>4. Made(i, c)'
    BY <1>4, <1>7, <2>1, <2>3 DEF Made
  <2>5. ret'[t] = c
    BY <1>4 DEF IInv, TypeInv, WaitOK
  <2>6. DialDoneAt(t, i, <<>>)'
    BY <2>4, <2>5 DEF DialDoneAt
  <2>7. stack' = [stack EXCEPT ![t] = <<FrI("dialDone", i)>>]
    BY <1>2, <1>4, <2>1, Returned
  <2>8. Onward
    BY <1>2, <2>1, <2>6, <2>7, DialGoesOn
  <2> QED
    BY <1>4, <1>8, <2>8, Kept
<1> QED
  BY <1>5, <1>9, <1>10 DEF StartAt


\* A conference makes the held call active, in both lists.
LEMMA conferenceSerial ==
  ASSUME IInv, IInv', Orderly, NEW t \in Task, conference(t)
  PROVE  Orderly'
<1>1. stack[t] # <<>> /\ Frame(t).op = "conference"
  BY DEF conference, Running, Frame
<1>2. PICK f \in Frames, r \in Seq(Frames) :
        f = Frame(t) /\ r = Tail(stack[t]) /\ PhaseOf(t, f, r) /\ Alone(t)
  BY <1>1, Doing
<1>3. r = <<>> /\ Steady
  BY <1>1, <1>2 DEF PhaseOf, SerialOps
<1>4. UNCHANGED <<voice_calls, table, started, inflight, up, aborted>> /\ Return(t)
  BY DEF conference, ManagerUnchanged, waitVars, peerVars
<1>5. stack' = [stack EXCEPT ![t] = <<>>]
  BY <1>2, <1>3, <1>4, Returned
<1>6. CASE LastIn("ACTIVE") = 0 \/ LastIn("HELD") = 0
  <2>1. UNCHANGED <<radio, calls>>
    BY <1>6 DEF conference
  <2>2. Steady'
    BY <1>3, <1>4, <2>1, Same DEF Steady
  <2>3. Onward
    BY <1>2, <1>5, <2>2, Over
  <2> QED
    BY <1>4, <2>1, <2>3, Kept
<1>7. CASE LastIn("ACTIVE") # 0 /\ LastIn("HELD") # 0
  <2>1. PICK a \in Dialog : /\ a = table[LastIn("ACTIVE")]
                            /\ a \in ToSet(table) /\ calls[a].state = "ACTIVE"
    BY <1>7, CallPositions DEF IInv
  <2>2. PICK h \in Dialog : /\ h = table[LastIn("HELD")]
                            /\ h \in ToSet(table) /\ calls[h].state = "HELD"
    BY <1>7, CallPositions DEF IInv
  <2>3. /\ calls' = [calls EXCEPT ![h].state = "ACTIVE",
                                  ![h].media = Playing(calls[h].media)]
        /\ radio' = [i \in DOMAIN radio |->
               IF i \in ToSet(voice_calls) /\ radio[i].sip \in {a, h}
               THEN [radio[i] EXCEPT !.mpty = TRUE, !.state = "ACTIVE"]
               ELSE radio[i]]
    <3>1. calls' = [calls EXCEPT ![h].state = "ACTIVE", ![h].media = Playing(@)]
      BY <1>7, <2>2 DEF conference
    <3>2. calls' = [calls EXCEPT ![h].state = "ACTIVE",
                                 ![h].media = Playing(calls[h].media)]
      BY <3>1 DEF IInv, TypeInv, TableOK
    <3> QED
      BY <1>7, <2>1, <2>2, <3>2 DEF conference
  <2>4. PICK s, m :
          /\ s \in {"HELD", "ACTIVE"} /\ s = "ACTIVE" /\ m = Playing(calls[h].media)
          /\ m = (IF s = "HELD" THEN Paused(calls[h].media) ELSE Playing(calls[h].media))
    OBVIOUS
  <2>5. calls' = [calls EXCEPT ![h].state = s, ![h].media = m]
    BY <2>3, <2>4
  <2>6. /\ calls'[h].state = "ACTIVE" /\ calls'[h].idx = calls[h].idx
        /\ h \in ToSet(table') => MediaGood(h)'
        /\ \A d \in Dialog \ {h} : calls'[d] = calls[d]
    BY <2>4, <2>5, CallHeld DEF IInv
  <2>7. \A i \in 1 .. MaxIndex :
          /\ radio'[i].sip = radio[i].sip
          /\ i \in ToSet(voice_calls) /\ radio[i].sip \in {a, h}
               => radio'[i].state = "ACTIVE"
          /\ radio[i].sip \notin {a, h} => radio'[i] = radio[i]
    BY <2>3 DEF IInv, TypeInv, RadioOK
  <2>8. ASSUME NEW i \in ToSet(voice_calls)
        PROVE  Linked(i, radio[i].sip)' /\ Agree(i, radio[i].sip)'
    <3>1. i \in 1 .. MaxIndex
      BY Known DEF IInv
    <3>2. PICK c \in Dialog : c = radio[i].sip /\ c = radio'[i].sip /\ Linked(i, c)
                              /\ Agree(i, c)
      BY <1>3, <2>7, <3>1, Partner, Known DEF Linked, Steady, Match, IInv
    <3>3. Linked(i, c)'
      BY <1>4, <2>6, <3>2 DEF Linked
    <3>4. CASE c \in {a, h}
      BY <2>1, <2>6, <2>7, <3>1, <3>2, <3>3, <3>4 DEF Agree
    <3>5. CASE c \notin {a, h}
      <4>1. radio'[i] = radio[i] /\ calls'[c] = calls[c]
        BY <2>6, <2>7, <3>1, <3>2, <3>5
      <4> QED
        BY <3>2, <3>3, <4>1 DEF Agree
    <3> QED
      BY <3>4, <3>5
  <2>9. ASSUME NEW c \in ToSet(table) PROVE Linked(calls[c].idx, c)'
    <3>1. Linked(calls[c].idx, c) /\ c \in Dialog
      BY <1>3, Partner, Known DEF Steady, Match, IInv
    <3>2. calls'[c].idx = calls[c].idx /\ calls[c].idx \in 1 .. MaxIndex
      BY <2>6, <3>1, Known DEF Linked, IInv
    <3> QED
      BY <1>4, <2>7, <3>1, <3>2 DEF Linked
  <2>10. Paired({}, {})'
    BY <1>4, <2>8, <2>9 DEF Paired
  <2>11. MediaOK({})'
    <3>1. \A d \in Dialog \ {} :
            \/ MediaGood(d)'
            \/ /\ d \notin {} /\ calls'[d] = calls[d]
               /\ d \in ToSet(table) => d \in ToSet(table')
      BY <1>4, <2>2, <2>6
    <3> QED
      BY <1>3, <3>1, MediaKept DEF Steady, Match
  <2>12. Steady'
    BY <1>3, <1>4, <2>10, <2>11 DEF Steady, Match, UpOK
  <2>13. Onward
    BY <1>2, <1>5, <2>12, Over
  <2>14. \A d \in Dialog : calls[d].state # "none" => calls'[d].state # "none"
    BY <2>6
  <2> QED
    BY <1>4, <2>13, <2>14, Kept
<1> QED
  BY <1>6, <1>7

\* An attended transfer asks the far end, or does nothing.
LEMMA transferSerial ==
  ASSUME IInv, IInv', Orderly, NEW t \in Task, transfer(t)
  PROVE  Orderly'
<1>1. stack[t] # <<>> /\ Frame(t).op \in {"transfer", "attended"}
  BY DEF transfer, Running, Frame
<1>2. PICK f \in Frames, r \in Seq(Frames) :
        f = Frame(t) /\ r = Tail(stack[t]) /\ PhaseOf(t, f, r) /\ Alone(t)
  BY <1>1, Doing
<1>3. f.op = "attended"
  BY <1>1, <1>2 DEF PhaseOf, SerialOps, AwaitOps, MediaOps
<1>4. r = <<>> /\ Steady
  BY <1>2, <1>3 DEF PhaseOf, SerialOps
<1>5. UNCHANGED <<voice_calls, radio, table, calls, started, up, aborted>>
  BY DEF transfer, ManagerUnchanged, radioVars, sipVars, peerVars
<1>6. Steady'
  BY <1>4, <1>5, Same DEF Steady
<1>7. \/ \E c \in Dialog : /\ c \in ToSet(table) /\ SendRequest(t, c, "ATTENDED")
                           /\ Suspend(t, FrC("ATTENDED", c))
      \/ Return(t) /\ UNCHANGED waitVars
  BY <1>2, <1>3 DEF transfer, Running, Frame
<1>8. CASE Return(t) /\ UNCHANGED waitVars
  <2>1. stack' = [stack EXCEPT ![t] = <<>>]
    BY <1>2, <1>4, <1>8, Returned
  <2>2. Onward
    BY <1>2, <1>6, <2>1, Over
  <2> QED
    BY <1>5, <1>8, <2>2, Kept DEF waitVars
<1>9. CASE \E c \in Dialog : /\ c \in ToSet(table) /\ SendRequest(t, c, "ATTENDED")
                             /\ Suspend(t, FrC("ATTENDED", c))
  <2>1. PICK c \in Dialog : /\ c \in ToSet(table) /\ SendRequest(t, c, "ATTENDED")
                            /\ Suspend(t, FrC("ATTENDED", c))
    BY <1>9
  <2> DEFINE g == FrC("ATTENDED", c)
  <2>2. g \in Frames /\ g.op = "ATTENDED" /\ g.c = c
    <3>1. "ATTENDED" \in RunOps \cup AwaitOps \cup MediaOps
      BY DEF AwaitOps
    <3> QED
      BY <3>1, FrameMade
  <2>3. Suspend(t, g)
    BY <2>1
  <2> HIDE DEF g
  <2>4. stack' = [stack EXCEPT ![t] = <<g>> \o <<>>] /\ <<>> \in Seq(Frames)
    BY <1>2, <1>4, <2>2, <2>3, Became
  <2>5. pending'[c] = t
    BY <2>1 DEF SendRequest, IInv, TypeInv, WaitOK
  <2>6. Ready(t, g, <<>>)'
    BY <1>6, <2>2, <2>5 DEF Ready
  <2>7. Onward
    BY <1>2, <2>2, <2>4, <2>6, Onto
  <2>8. calls'[c].state # "none" /\ "ATTENDED" \in AwaitOps
    BY <1>5, <2>1 DEF IInv, FreshOK, AwaitOps
  <2> QED
    BY <1>5, <2>1, <2>7, <2>8, KeptSent
<1> QED
  BY <1>7, <1>8, <1>9

\* An accepted transfer only marks the call.
LEMMA transferDoneSerial ==
  ASSUME IInv, IInv', Orderly, NEW t \in Task, transferDone(t)
  PROVE  Orderly'
<1>1. stack[t] # <<>> /\ Frame(t).op \in {"REFER", "ATTENDED"}
  BY DEF transferDone, Woken
<1>2. PICK f \in Frames, r \in Seq(Frames) :
        /\ f = Frame(t) /\ r = Tail(stack[t]) /\ FrameOK(f)
        /\ PhaseOf(t, f, r) /\ Alone(t)
  BY <1>1, Doing
<1>3. f.op = "ATTENDED" /\ r = <<>> /\ Steady
  BY <1>1, <1>2 DEF PhaseOf
<1>4. PICK c \in Dialog : c = f.c
  BY <1>2, <1>3 DEF FrameOK, AwaitOps
<1>5. /\ UNCHANGED <<voice_calls, radio, table, started, inflight, up, aborted>>
      /\ Return(t)
  BY DEF transferDone, ManagerUnchanged, radioVars, peerVars
<1>6. \/ UNCHANGED calls
      \/ calls' = [calls EXCEPT ![c].xfer = TRUE, ![c].state = calls[c].state]
  <2>1. CASE resp[t].ok
    <3>1. calls' = [calls EXCEPT ![c].xfer = TRUE, ![c].state = @]
      BY <1>2, <1>3, <1>4, <2>1 DEF transferDone, Woken
    <3> QED
      BY <3>1 DEF IInv, TypeInv, TableOK
  <2>2. CASE ~ resp[t].ok
    BY <2>2 DEF transferDone
  <2> QED
    BY <2>1, <2>2
<1>7. \A d \in Dialog : /\ calls'[d].state = calls[d].state
                        /\ calls'[d].idx = calls[d].idx /\ calls'[d].media = calls[d].media
  BY <1>6 DEF IInv, TypeInv, TableOK
<1>8. Paired({}, {})'
  <2>1. \A d \in ToSet(table) \ {} :
          calls'[d].state = calls[d].state /\ calls'[d].idx = calls[d].idx
    BY <1>7, Known DEF IInv
  <2> QED
    BY <1>3, <1>5, <2>1, PairedKept DEF Steady, Match
<1>9. MediaOK({})'
  BY <1>3, <1>5, <1>7 DEF Steady, Match, MediaOK, MediaGood, InTable
<1>10. Steady'
  BY <1>3, <1>5, <1>8, <1>9 DEF Steady, Match, UpOK
<1>11. stack' = [stack EXCEPT ![t] = <<>>]
  BY <1>2, <1>3, <1>5, Returned
<1>12. Onward
  BY <1>2, <1>10, <1>11, Over
<1> QED
  BY <1>5, <1>7, <1>12, Kept

\* An answered call rings no longer.
LEMMA answerCallSerial ==
  ASSUME IInv, IInv', Orderly, NEW t \in Task, answerCall(t)
  PROVE  Orderly'
<1>1. stack[t] # <<>> /\ Frame(t).op = "answerCall"
  BY DEF answerCall, Running, Frame
<1>2. PICK f \in Frames, r \in Seq(Frames) :
        f = Frame(t) /\ r = Tail(stack[t]) /\ PhaseOf(t, f, r) /\ Alone(t)
  BY <1>1, Doing
<1>3. AnswerAt(f.c, r)
  BY <1>1, <1>2 DEF PhaseOf
<1>4. PICK i \in ToSet(voice_calls) :
        /\ Linked(i, f.c) /\ Match({i}, {f.c})
        /\ radio[i].state = "ACTIVE" /\ calls[f.c].state = "RINGING_IN"
  BY <1>3 DEF AnswerAt
<1>5. PICK c \in Dialog : c = f.c /\ c \in ToSet(table)
  BY <1>4, Known DEF Linked, IInv
<1>6. /\ UNCHANGED <<voice_calls, radio, table, started, inflight, aborted>>
      /\ calls' = [calls EXCEPT ![c].state = "ACTIVE"] /\ up' = up \cup {c}
      /\ Suspend(t, FrC("START", c))
  BY <1>2, <1>4, <1>5 DEF answerCall, InTable, radioVars, waitVars, histVars
<1>7. /\ calls'[c].state = "ACTIVE"
      /\ calls'[c].idx = calls[c].idx /\ calls'[c].media = calls[c].media
      /\ \A d \in Dialog \ {c} : calls'[d] = calls[d]
  BY <1>6, CallSet DEF IInv
<1>8. calls[c].media = "none"
  <2>1. MediaGood(c) /\ calls[c].media \in {"none", "on", "paused"}
    BY <1>4, <1>5 DEF Match, MediaOK, IInv, TypeInv, TableOK
  <2> QED
    BY <1>4, <1>5, <2>1 DEF MediaGood
<1>9. MediaGood(c)'
  BY <1>7, <1>8 DEF MediaGood
<1>10. Linked(i, c)' /\ Agree(i, c)'
  BY <1>4, <1>5, <1>6, <1>7 DEF Linked, Agree
<1>11. Steady'
  BY <1>4, <1>5, <1>6, <1>7, <1>9, <1>10, Touched DEF IInv
<1>12. StartAt(c, <<>>)'
  BY <1>5, <1>6, <1>7, <1>11 DEF StartAt
<1>13. r = <<>>
  BY <1>3 DEF AnswerAt
<1>14. stack' = [stack EXCEPT ![t] = <<FrC("START", c)>> \o <<>>]
  BY <1>2, <1>6, <1>13 DEF Suspend
<1>15. Onward
  BY <1>2, <1>12, <1>13, <1>14, Starting
<1>16. \A d \in Dialog : calls[d].state # "none" => calls'[d].state # "none"
  BY <1>7
<1> QED
  BY <1>6, <1>15, <1>16, Kept


\* A call that is hung up leaves the table before its media and its BYE.
LEMMA hangupCallSerial ==
  ASSUME IInv, IInv', Orderly, NEW t \in Task, hangupCall(t)
  PROVE  Orderly'
<1>1. stack[t] # <<>> /\ Frame(t).op = "hangupCall"
  BY DEF hangupCall, Running, Frame
<1>2. PICK f \in Frames, r \in Seq(Frames) :
        f = Frame(t) /\ r = Tail(stack[t]) /\ PhaseOf(t, f, r) /\ Alone(t)
  BY <1>1, Doing
<1>3. HangupAt(f.c, r)
  BY <1>1, <1>2 DEF PhaseOf
<1>4. UNCHANGED <<voice_calls, radio, calls, started, inflight, up, aborted>>
  BY DEF hangupCall, ManagerUnchanged, radioVars, waitVars, peerVars
<1>5. CASE ~ InTable(f.c)
  <2>1. Return(t) /\ UNCHANGED table
    BY <1>2, <1>5 DEF hangupCall
  <2>2. Clearing(r, {f.c}) /\ MediaOK({}) /\ UpOK({})
    BY <1>3, <1>5 DEF HangupAt, Linked, InTable
  <2>3. Clearing(r, {})'
    BY <1>4, <1>5, <2>1, <2>2 DEF Clearing, InTable
  <2>4. MediaOK({})' /\ UpOK({})'
    BY <1>4, <2>1, <2>2, SameCalls
  <2>5. stack' = [stack EXCEPT ![t] = r]
    BY <1>2, <2>1, Returned
  <2>6. Onward
    BY <1>2, <2>3, <2>4, <2>5, Leaves DEF Leaving
  <2> QED
    BY <1>4, <2>6, Kept
<1>6. CASE InTable(f.c)
  <2>1. PICK c \in Dialog : c = f.c /\ c \in ToSet(table)
    BY <1>6, Known DEF InTable, IInv
  <2>2. table' = RemoveFirst(table, c) /\ Become(t, StopMedia(c) \o <<FrC("bye", c)>>)
    BY <1>2, <1>6, <2>1 DEF hangupCall, WithoutKey
  <2>3. ToSet(table') = ToSet(table) \ {c}
    <3>1. table \in Seq(Dialog)
      BY DEF IInv, TypeInv, TableOK
    <3>2. IsInjective(table)
      BY DEF IInv, TypeInv, TableOK
    <3> QED
      BY <2>2, <3>1, <3>2, RemoveFirstProperties
  <2>4. /\ Leaving(r)' /\ UpOK({})' /\ MediaOK({c})'
        /\ calls[c].media = "none" => MediaOK({})'
    BY <1>3, <1>4, <2>1, <2>3, LeftTable
  <2> DEFINE b == FrC("bye", c)
             p == FrC("STOP", c)
  <2>5. b \in Frames /\ p \in Frames
    <3>1. /\ "bye" \in RunOps \cup AwaitOps \cup MediaOps
          /\ "STOP" \in RunOps \cup AwaitOps \cup MediaOps
      BY DEF RunOps, MediaOps
    <3> QED
      BY <3>1, FrameMade
  <2>6. CASE calls[c].media = "none"
    <3>1. Become(t, <<>> \o <<b>>)
      BY <2>2, <2>6 DEF StopMedia
    <3> HIDE DEF b
    <3>2. <<>> \o <<b>> = <<b>>
      BY <2>5, Pushed, ConcatEmptySeq
    <3>3. Become(t, <<b>>)
      BY <3>1, <3>2, Zenon
    <3>4. stack' = [stack EXCEPT ![t] = <<b>> \o r]
      BY <1>2, <2>5, <3>3, Became
    <3>5. ByeAt(c, r)'
      BY <2>3, <2>4, <2>6 DEF ByeAt
    <3>6. Onward
      BY <1>2, <3>4, <3>5, Parting DEF b
    <3> QED
      BY <1>4, <3>6, Kept
  <2>7. CASE calls[c].media # "none"
    <3>1. Become(t, <<p>> \o <<b>>)
      BY <2>2, <2>7 DEF StopMedia
    <3> HIDE DEF b, p
    <3>2. <<p>> \o <<b>> = <<p, b>>
      BY <1>2, <2>5, Pushed
    <3>3. Become(t, <<p, b>>)
      BY <3>1, <3>2, Zenon
    <3>4. stack' = [stack EXCEPT ![t] = <<p>> \o (<<b>> \o r)]
      BY <1>2, <2>5, <3>3, BecameTwo
    <3>5. <<b>> \o r \in Seq(Frames)
      BY <1>2, <2>5, Joined
    <3>6. StopAt(c, <<b>> \o r)'
      BY <1>2, <2>3, <2>4 DEF StopAt, b
    <3>7. Onward
      BY <1>2, <3>4, <3>5, <3>6, Stopping DEF p
    <3> QED
      BY <1>4, <3>7, Kept
  <2> QED
    BY <2>6, <2>7
<1> QED
  BY <1>5, <1>6

\* The media have stopped.
LEMMA mediaStoppedSerial ==
  ASSUME IInv, IInv', Orderly, NEW t \in Task, mediaStopped(t)
  PROVE  Orderly'
<1>1. stack[t] # <<>> /\ Frame(t).op = "STOP"
  BY DEF mediaStopped
<1>2. PICK f \in Frames, r \in Seq(Frames) :
        /\ f = Frame(t) /\ r = Tail(stack[t]) /\ FrameOK(f)
        /\ PhaseOf(t, f, r) /\ Alone(t)
  BY <1>1, Doing
<1>3. PICK c \in Dialog : c = f.c
  BY <1>1, <1>2 DEF FrameOK, MediaOps
<1>4. /\ UNCHANGED <<voice_calls, radio, table, started, inflight, up, aborted>>
      /\ calls' = [calls EXCEPT ![c].media = "none"] /\ Return(t)
  BY <1>2, <1>3 DEF mediaStopped, ManagerUnchanged, radioVars, waitVars, peerVars
<1>5. /\ calls'[c].state = calls[c].state /\ calls'[c].idx = calls[c].idx
      /\ calls'[c].media = "none" /\ \A d \in Dialog \ {c} : calls'[d] = calls[d]
  BY <1>4 DEF IInv, TypeInv, TableOK
<1>6. stack' = [stack EXCEPT ![t] = r]
  BY <1>2, <1>4, Returned
<1>7. StopAt(c, r)
  BY <1>1, <1>2, <1>3 DEF PhaseOf
<1>8. c \notin ToSet(table) /\ MediaOK({c}) /\ UpOK({})
  BY <1>7 DEF StopAt
<1>9. MediaOK({})' /\ UpOK({})'
  <2>1. MediaGood(c)'
    BY <1>5 DEF MediaGood
  <2>2. \A d \in Dialog \ {} :
          \/ MediaGood(d)'
          \/ /\ d \notin {c} /\ calls'[d] = calls[d]
             /\ d \in ToSet(table) => d \in ToSet(table')
    BY <1>4, <1>5, <2>1
  <2> QED
    BY <1>4, <1>8, <2>2, MediaKept DEF UpOK
<1>10. \A d \in ToSet(table) :
         calls'[d].state = calls[d].state /\ calls'[d].idx = calls[d].idx
  BY <1>5, Known DEF IInv
<1>11. \A d \in Dialog : calls[d].state # "none" => calls'[d].state # "none"
  BY <1>5
<1>12. CASE \E q \in Seq(Frames) : r = <<FrC("bye", c)>> \o q /\ Leaving(q)
  <2>1. PICK q \in Seq(Frames) : r = <<FrC("bye", c)>> \o q /\ Leaving(q)
    BY <1>12
  <2>2. Leaving(q)'
    BY <1>4, <1>10, <2>1, LeavingKept
  <2>3. ByeAt(c, q)'
    BY <1>4, <1>8, <1>9, <2>2 DEF ByeAt
  <2>4. Onward
    BY <1>2, <1>6, <2>1, <2>3, Parting
  <2> QED
    BY <1>4, <1>11, <2>4, Kept
<1>13. CASE \E i \in 1 .. MaxIndex, j \in {0, 1} :
              r = <<Fr("byeTail", c, 0, j)>> /\ Remains(c, i)
  <2>1. PICK i \in 1 .. MaxIndex, j \in {0, 1} :
          r = <<Fr("byeTail", c, 0, j)>> /\ Remains(c, i)
    BY <1>13
  <2>2. Paired({i}, {})'
    <3>1. \A d \in ToSet(table) \ {} :
            calls'[d].state = calls[d].state /\ calls'[d].idx = calls[d].idx
      BY <1>10
    <3> QED
      BY <1>4, <2>1, <3>1, PairedKept DEF Remains
  <2>3. Remains(c, i)' /\ c # NoCall
    BY <1>4, <2>1, <2>2, CallsAssumption DEF Remains
  <2>4. ByeTailAt(c, <<>>)'
    BY <1>9, <2>3 DEF ByeTailAt
  <2>5. stack' = [stack EXCEPT ![t] = <<Fr("byeTail", c, 0, j)>>]
    BY <1>6, <2>1
  <2>6. Onward
    BY <1>2, <2>4, <2>5, TailLeft
  <2> QED
    BY <1>4, <1>11, <2>6, Kept
<1> QED
  BY <1>7, <1>12, <1>13 DEF StopAt

\* The BYE is sent.
LEMMA byeSerial ==
  ASSUME IInv, IInv', Orderly, NEW t \in Task, bye(t)
  PROVE  Orderly'
<1>1. stack[t] # <<>> /\ Frame(t).op = "bye"
  BY DEF bye, Running, Frame
<1>2. PICK f \in Frames, r \in Seq(Frames) :
        /\ f = Frame(t) /\ r = Tail(stack[t]) /\ FrameOK(f)
        /\ PhaseOf(t, f, r) /\ Alone(t)
  BY <1>1, Doing
<1>3. PICK c \in Dialog : c = f.c
  BY <1>1, <1>2 DEF FrameOK
<1>4. /\ UNCHANGED <<voice_calls, radio, table, started, up, aborted>> /\ started
      /\ calls' = [calls EXCEPT ![c].state = "TERMINATING"]
      /\ SendRequest(t, c, "BYE") /\ Suspend(t, FrC("BYE", c))
  BY <1>2, <1>3 DEF bye, ManagerUnchanged, radioVars, peerVars, Orderly
<1>5. /\ calls'[c].state = "TERMINATING"
      /\ calls'[c].idx = calls[c].idx /\ calls'[c].media = calls[c].media
      /\ \A d \in Dialog \ {c} : calls'[d] = calls[d]
  BY <1>4, CallSet DEF IInv
<1>6. c \notin ToSet(table) /\ MediaOK({}) /\ UpOK({}) /\ Leaving(r)
  BY <1>1, <1>2, <1>3 DEF PhaseOf, ByeAt
<1>7. MediaOK({})' /\ UpOK({})'
  <2>1. MediaGood(c)'
    BY <1>5, <1>6 DEF MediaGood, MediaOK, InTable, IInv, TypeInv, TableOK
  <2>2. \A d \in Dialog \ {} :
          \/ MediaGood(d)'
          \/ /\ d \notin {} /\ calls'[d] = calls[d]
             /\ d \in ToSet(table) => d \in ToSet(table')
    BY <1>4, <1>5, <2>1
  <2> QED
    BY <1>4, <1>6, <2>2, MediaKept DEF UpOK
<1>8. Leaving(r)'
  <2>1. \A d \in ToSet(table) :
          calls'[d].state = calls[d].state /\ calls'[d].idx = calls[d].idx
    BY <1>5, <1>6, Known DEF IInv
  <2> QED
    BY <1>4, <1>6, <2>1, LeavingKept
<1> DEFINE g == FrC("BYE", c)
<1>9. g \in Frames /\ g.op = "BYE" /\ g.c = c
  <2>1. "BYE" \in RunOps \cup AwaitOps \cup MediaOps
    BY DEF AwaitOps
  <2> QED
    BY <2>1, FrameMade
<1>10. stack' = [stack EXCEPT ![t] = <<g>> \o r]
  BY <1>2, <1>4 DEF Suspend
<1> HIDE DEF g
<1>11. pending'[c] = t
  BY <1>4 DEF SendRequest, IInv, TypeInv, WaitOK
<1>12. ByeAt(c, r)'
  BY <1>4, <1>6, <1>7, <1>8 DEF ByeAt
<1>13. Ready(t, g, r)'
  BY <1>9, <1>11, <1>12 DEF Ready
<1>14. Onward
  BY <1>2, <1>9, <1>10, <1>13, Onto
<1>15. "BYE" \in AwaitOps
  BY DEF AwaitOps
<1>16. \A d \in Dialog : calls[d].state # "none" => calls'[d].state # "none"
  BY <1>5
<1> QED
  BY <1>4, <1>5, <1>14, <1>15, <1>16, KeptSent

\* The BYE was answered, or nobody answered it.
LEMMA byeDoneSerial ==
  ASSUME IInv, IInv', Orderly, NEW t \in Task, byeDone(t)
  PROVE  Orderly'
<1>1. stack[t] # <<>> /\ Frame(t).op = "BYE"
  BY DEF byeDone, Woken
<1>2. PICK f \in Frames, r \in Seq(Frames) :
        f = Frame(t) /\ r = Tail(stack[t]) /\ PhaseOf(t, f, r) /\ Alone(t)
  BY <1>1, Doing
<1>3. /\ UNCHANGED <<voice_calls, radio, table, calls, started, inflight, up, aborted>>
      /\ Return(t)
  BY DEF byeDone, ManagerUnchanged, radioVars, peerVars
<1>4. MediaOK({}) /\ UpOK({}) /\ Leaving(r)
  BY <1>1, <1>2 DEF PhaseOf, ByeAt
<1>5. MediaOK({})' /\ UpOK({})'
  BY <1>3, <1>4, SameCalls
<1>6. Leaving(r)'
  BY <1>3, <1>4, LeavingKept
<1>7. stack' = [stack EXCEPT ![t] = r]
  BY <1>2, <1>3, Returned
<1>8. Onward
  BY <1>2, <1>5, <1>6, <1>7, Leaves
<1> QED
  BY <1>3, <1>8, Kept

\* The entry of the call is the one dropped.
LEMMA byeTailSerial ==
  ASSUME IInv, IInv', Orderly, NEW t \in Task, byeTail(t)
  PROVE  Orderly'
<1>1. stack[t] # <<>> /\ Frame(t).op = "byeTail"
  BY DEF byeTail, Running, Frame
<1>2. PICK f \in Frames, r \in Seq(Frames) :
        f = Frame(t) /\ r = Tail(stack[t]) /\ PhaseOf(t, f, r) /\ Alone(t)
  BY <1>1, Doing
<1>3. /\ UNCHANGED <<radio, table, calls, started, inflight, up, aborted>>
      /\ Return(t)
  BY DEF byeTail, ManagerUnchanged, waitVars, peerVars
<1>4. ByeTailAt(f.c, r)
  BY <1>1, <1>2 DEF PhaseOf
<1>5. stack' = [stack EXCEPT ![t] = <<>>]
  BY <1>2, <1>3, <1>4, Returned DEF ByeTailAt
<1>6. CASE f.c = NoCall
  <2>1. UNCHANGED voice_calls
    BY <1>2, <1>6 DEF byeTail
  <2>2. Steady'
    BY <1>3, <1>4, <1>6, <2>1, Same DEF Steady, ByeTailAt
  <2>3. Onward
    BY <1>2, <1>5, <2>2, Over
  <2> QED
    BY <1>3, <2>3, Kept
<1>7. CASE f.c # NoCall
  <2>1. PICK i \in 1 .. MaxIndex : Remains(f.c, i)
    BY <1>4, <1>7 DEF ByeTailAt
  <2> DEFINE I == {k \in 1 .. Len(voice_calls) : radio[voice_calls[k]].sip = f.c}
             S == 1 .. MaxIndex
  <2>2. voice_calls' = IF I = {} THEN voice_calls ELSE RemoveAt(voice_calls, Min(I))
    <3>1. SelectInSeq(voice_calls, LAMBDA k : radio[k].sip = f.c)
            = IF I # {} THEN Min(I) ELSE 0
      BY DEF SelectInSeq
    <3>2. I # {} => Min(I) \in 1 .. Len(voice_calls)
      BY FirstEntry DEF IInv
    <3>3. I # {} => Min(I) # 0
      BY <3>2
    <3> QED
      BY <1>2, <1>7, <3>1, <3>3 DEF byeTail
  <2>3. I # {}
    <3>1. PICK k \in DOMAIN voice_calls : voice_calls[k] = i
      BY <2>1 DEF Remains, ToSet
    <3>2. DOMAIN voice_calls = 1 .. Len(voice_calls)
      BY DEF IInv, TypeInv, RadioOK
    <3>3. k \in I
      BY <2>1, <3>1, <3>2 DEF Remains
    <3> QED
      BY <3>3
  <2>4. Min(I) \in I /\ voice_calls[Min(I)] \in ToSet(voice_calls)
    BY <2>3, FirstEntry DEF IInv
  <2>5. voice_calls[Min(I)] = i
    BY <2>1, <2>4 DEF Remains, Paired, Linked
  <2>6. ToSet(voice_calls') = ToSet(voice_calls) \ {i}
    <3>1. voice_calls \in Seq(S)
      BY DEF IInv, TypeInv, RadioOK
    <3>2. IsInjective(voice_calls)
      BY DEF IInv, TypeInv, RadioOK
    <3>3. PICK k \in 1 .. Len(voice_calls) : k = Min(I)
      BY <2>4
    <3> HIDE DEF S, I
    <3>4. ToSet(RemoveAt(voice_calls, k)) = ToSet(voice_calls) \ {voice_calls[k]}
      BY <3>1, <3>2, RemoveAtProperties
    <3> QED
      BY <2>2, <2>3, <2>5, <3>3, <3>4
  <2>7. Paired({}, {})'
    <3>1. ToSet(voice_calls') \ {} = ToSet(voice_calls) \ {i}
      BY <2>6
    <3> QED
      BY <1>3, <2>1, <3>1, PairedKept DEF Remains
  <2>8. Steady'
    BY <1>3, <1>4, <1>7, <2>7, SameCalls DEF Steady, Match, ByeTailAt
  <2>9. Onward
    BY <1>2, <1>5, <2>8, Over
  <2> QED
    BY <1>3, <2>9, Kept
<1> QED
  BY <1>6, <1>7


-----------------------------------------------------------------------------
(* Clients, answers and timeouts. *)

\* A request starts when nothing else is going on.
LEMMA RilRequestSerial ==
  ASSUME IInv, IInv', Orderly, Serial(env), NEW t \in Ril, RilRequest(t)
  PROVE  Orderly'
<1>1. t \in Task /\ Quiescent /\ Steady
  BY Starts DEF Task, RilRequest, IInv
<1>2. Alone(t)
  BY <1>1 DEF Quiescent, Alone
<1>3. PICK op \in env.ops, i \in 0 .. MaxIndex :
        /\ op \in {"hangup", "separate"} \/ i = 0
        /\ stack' = [stack EXCEPT ![t] = <<FrI(op, i)>>]
  <2>1. PICK op \in env.ops :
          \E i \in IF op \in {"hangup", "separate"} THEN 1 .. MaxIndex ELSE {0} :
            stack' = [stack EXCEPT ![t] = <<FrI(op, i)>>]
    BY DEF RilRequest
  <2>2. PICK i \in IF op \in {"hangup", "separate"} THEN 1 .. MaxIndex ELSE {0} :
          stack' = [stack EXCEPT ![t] = <<FrI(op, i)>>]
    BY <2>1
  <2>3. i \in 0 .. MaxIndex /\ (op \in {"hangup", "separate"} \/ i = 0)
    BY <2>2, CallsAssumption
  <2> QED
    BY <2>2, <2>3
<1>4. op \in SerialOps /\ op \in RunOps
  BY DEF Serial, SerialOps, RunOps
<1>5. UNCHANGED <<voice_calls, radio, table, calls, started, inflight, up, aborted>>
  BY DEF RilRequest, radioVars, sipVars, waitVars, peerVars, histVars
<1>6. Steady'
  BY <1>1, <1>5, Same DEF Steady
<1> DEFINE g == FrI(op, i)
<1>7. g \in Frames /\ g.op = op /\ g.i = i
  BY <1>4, FrameMade
<1>8. stack' = [stack EXCEPT ![t] = <<g>>]
  BY <1>3
<1> HIDE DEF g
<1>9. <<g>> = <<g>> \o <<>> /\ <<>> \in Seq(Frames)
  <2>1. <<>> \in Seq(Frames)
    OBVIOUS
  <2> QED
    BY <1>7, <2>1, Pushed, Zenon
<1>10. stack' = [stack EXCEPT ![t] = <<g>> \o <<>>]
  BY <1>8, <1>9, Zenon
<1>11. Ready(t, g, <<>>)'
  BY <1>3, <1>4, <1>6, <1>7 DEF Ready
<1>12. Onward
  BY <1>1, <1>2, <1>7, <1>9, <1>10, <1>11, Onto
<1> QED
  BY <1>5, <1>12, Kept

\* What is left to do stays the same while the lists do.
LEMMA PhaseKept ==
  ASSUME NEW t \in Task, NEW f \in Frames, NEW r \in Seq(Frames), PhaseOf(t, f, r),
         UNCHANGED <<voice_calls, radio, table, calls, ret>>, up \subseteq up',
         inflight' \subseteq inflight,
         f.op = "INVITE" /\ resp'[t].ok => resp[t].ok \/ f.c \in up',
         f.op \in AwaitOps /\ resp'[t] = NoResp => pending'[f.c] = t
  PROVE  PhaseOf(t, f, r)'
<1>1. \A I, C : /\ Paired(I, C) => Paired(I, C)'
                /\ MediaOK(C) => MediaOK(C)'
                /\ UpOK(C) => UpOK(C)'
                /\ Match(I, C) => Match(I, C)'
  BY Same
<1>2. Steady => Steady'
  BY <1>1 DEF Steady
<1>3. \A i, c : Made(i, c) => Made(i, c)'
  BY <1>1 DEF Made
<1>4. \A i, c : Linked(i, c) => Linked(i, c)'
  BY DEF Linked
<1>5. \A s, C : Clearing(s, C) => Clearing(s, C)'
  BY DEF Clearing
<1>6. \A s : Leaving(s) => Leaving(s)'
  BY <1>1, <1>5 DEF Leaving
<1>7. \A s : Continues(s) => Continues(s)'
  BY DEF Continues, Waiting
<1>8. \A c, i : Remains(c, i) => Remains(c, i)'
  BY <1>1 DEF Remains
<1>9. /\ InitiateAt(f.i, r) => InitiateAt(f.i, r)'
      /\ StartAt(f.c, r) => StartAt(f.c, r)'
      /\ DialDoneAt(t, f.i, r) => DialDoneAt(t, f.i, r)'
      /\ HangupDoneAt(f.i, r) => HangupDoneAt(f.i, r)'
  BY <1>1, <1>2, <1>3 DEF InitiateAt, StartAt, DialDoneAt, HangupDoneAt
<1>10. f.op = "INVITE" /\ InviteAt(t, f.c, r) => InviteAt(t, f.c, r)'
  BY <1>1 DEF InviteAt
<1>11. AnswerAt(f.c, r) => AnswerAt(f.c, r)'
  BY <1>1, <1>4 DEF AnswerAt
<1>12. /\ HangupAt(f.c, r) => HangupAt(f.c, r)'
       /\ ByeAt(f.c, r) => ByeAt(f.c, r)'
       /\ ClearAt(<<f>> \o r) => ClearAt(<<f>> \o r)'
  BY <1>1, <1>4, <1>5, <1>6 DEF HangupAt, ByeAt, ClearAt
<1>13. StopAt(f.c, r) => StopAt(f.c, r)'
  BY <1>1, <1>6, <1>8 DEF StopAt
<1>14. ByeTailAt(f.c, r) => ByeTailAt(f.c, r)'
  BY <1>1, <1>2, <1>8 DEF ByeTailAt
<1>15. HoldAt(f.c, r) => HoldAt(f.c, r)'
  BY <1>1, <1>4, <1>7 DEF HoldAt
<1>16. \A s : ReinviteAt(f.c, s) => ReinviteAt(f.c, s)'
  BY <1>1, <1>4 DEF ReinviteAt
<1>17. Waiting(f.j) => Waiting(f.j)'
  BY DEF Waiting
<1> QED
  BY <1>2, <1>7, <1>9, <1>10, <1>11, <1>12, <1>13, <1>14, <1>15, <1>16, <1>17
  DEF PhaseOf

\* No task does anything, but what it waits for may have come.
LEMMA WorkKept ==
  ASSUME IInv, Orderly,
         UNCHANGED <<voice_calls, radio, table, calls, ret, stack, started, aborted>>,
         up \subseteq up', inflight' \subseteq inflight,
         \A t \in Task : stack[t] # <<>> =>
           /\ Frame(t).op = "INVITE" /\ resp'[t].ok => resp[t].ok \/ Frame(t).c \in up'
           /\ Frame(t).op \in AwaitOps /\ resp'[t] = NoResp =>
                (resp[t] = NoResp /\ pending[Frame(t).c] = t => pending'[Frame(t).c] = t)
                /\ resp[t] = NoResp
  PROVE  Orderly'
<1>1. CASE Quiescent /\ Steady
  <2>1. Steady'
    BY <1>1, Same DEF Steady
  <2>2. Quiescent'
    BY <1>1 DEF Quiescent
  <2> QED
    BY <2>1, <2>2, Kept DEF Onward
<1>2. CASE \E t \in Task : AtWork(t)
  <2>1. PICK t \in Task : AtWork(t)
    BY <1>2
  <2>2. PICK f \in Frames, r \in Seq(Frames) :
          stack[t] = <<f>> \o r /\ f = Frame(t) /\ PhaseOf(t, f, r)
    BY <2>1, Works
  <2>3. stack[t] # <<>>
    BY <2>2, Joined
  <2>4. PhaseOf(t, f, r)'
    <3>1. f.op \in AwaitOps /\ resp'[t] = NoResp => pending'[f.c] = t
      BY <2>2, <2>3 DEF PhaseOf
    <3>2. f.op = "INVITE" /\ resp'[t].ok => resp[t].ok \/ f.c \in up'
      BY <2>2, <2>3
    <3> QED
      BY <2>2, <3>1, <3>2, PhaseKept
  <2>5. AtWork(t)'
    BY <2>1, <2>2, <2>4 DEF AtWork, Alone
  <2> QED
    BY <2>5, Kept DEF Onward
<1> QED
  BY <1>1, <1>2 DEF Orderly

\* A final response reaches the task that waits for it, if any does.
LEMMA responseSerial ==
  ASSUME IInv, IInv', Orderly, NEW q \in inflight, NEW ok \in BOOLEAN, response(q, ok)
  PROVE  Orderly'
<1>1. /\ UNCHANGED <<voice_calls, radio, table, calls, ret, stack, started, aborted>>
      /\ inflight' \subseteq inflight /\ up \subseteq up'
      /\ ok /\ q.m = "INVITE" => q.c \in up'
  BY DEF response, radioVars, sipVars, histVars
<1>2. q.c \in Dialog /\ q.m \in AwaitOps
  BY DEF IInv, TypeInv, WaitOK
<1>3. CASE pending[q.c] = Idle
  <2>1. UNCHANGED <<pending, resp>>
    BY <1>3 DEF response
  <2>2. ASSUME NEW t \in Task, stack[t] # <<>>, Frame(t).op \in AwaitOps,
               resp'[t] = NoResp
        PROVE  /\ resp[t] = NoResp
               /\ pending[Frame(t).c] = t => pending'[Frame(t).c] = t
    BY <2>1, <2>2
  <2> QED
    BY <1>1, <2>1, <2>2, WorkKept
<1>4. CASE pending[q.c] # Idle
  <2>1. PICK w \in Task : w = pending[q.c]
    BY <1>2, <1>4 DEF IInv, TypeInv, WaitOK
  <2>2. /\ resp' = [resp EXCEPT ![w] = [m |-> q.m, ok |-> ok]]
        /\ pending' = [pending EXCEPT ![q.c] = Idle]
    BY <1>4, <2>1 DEF response
  <2>3. stack[w] # <<>> /\ Frame(w).c = q.c
    BY <1>2, <1>4, <2>1 DEF IInv, PendingHasWaiter
  <2>4. /\ resp'[w] = [m |-> q.m, ok |-> ok] /\ resp'[w] # NoResp
        /\ \A t \in Task \ {w} : resp'[t] = resp[t]
    <3>1. resp'[w] = [m |-> q.m, ok |-> ok] /\ \A t \in Task \ {w} : resp'[t] = resp[t]
      BY <2>2 DEF IInv, TypeInv, WaitOK
    <3>2. q.m # "none"
      BY <1>2 DEF AwaitOps
    <3> QED
      BY <3>1, <3>2 DEF NoResp
  <2>5. \A c \in Dialog : c # q.c => pending'[c] = pending[c]
    BY <2>2 DEF IInv, TypeInv, WaitOK
  <2>6. ASSUME NEW t \in Task, stack[t] # <<>>, Frame(t).op \in AwaitOps,
               resp'[t] = NoResp
        PROVE  /\ resp[t] = NoResp
               /\ pending[Frame(t).c] = t => pending'[Frame(t).c] = t
    <3>1. t # w
      BY <2>4, <2>6
    <3>2. Frame(t).c \in Dialog
      BY <2>6, HeadFrame DEF Frame, FrameOK, IInv
    <3> QED
      BY <2>1, <2>4, <2>5, <2>6, <3>1, <3>2
  <2>7. ASSUME NEW t \in Task, stack[t] # <<>>, Frame(t).op = "INVITE", resp'[t].ok
        PROVE  resp[t].ok \/ Frame(t).c \in up'
    <3>1. CASE t # w
      BY <2>4, <2>7, <3>1
    <3>2. CASE t = w
      <4>1. PICK f \in Frames, r \in Seq(Frames) : f = Frame(t) /\ PhaseOf(t, f, r)
        BY <2>7, Doing
      <4>2. ok
        BY <2>4, <2>7, <3>2
      <4>3. q.m = "INVITE"
        BY <2>3, <2>7, <3>2, <4>1 DEF PhaseOf, InviteAt
      <4> QED
        BY <1>1, <2>3, <3>2, <4>2, <4>3
    <3> QED
      BY <3>1, <3>2
  <2> QED
    BY <1>1, <2>6, <2>7, WorkKept
<1> QED
  BY <1>3, <1>4

\* A task gives up waiting; its future is still there to be deleted.
LEMMA timeoutSerial ==
  ASSUME IInv, IInv', Orderly, NEW t \in Task, timeout(t)
  PROVE  Orderly'
<1>1. stack[t] # <<>> /\ Frame(t).op \in AwaitOps /\ resp[t] = NoResp
  BY DEF timeout
<1>2. PICK f \in Frames, r \in Seq(Frames) :
        /\ f = Frame(t) /\ r = Tail(stack[t]) /\ FrameOK(f)
        /\ PhaseOf(t, f, r) /\ Alone(t)
  BY <1>1, Doing
<1>3. pending[Frame(t).c] = t /\ pending[Frame(t).c] # Idle
  BY <1>1, <1>2, CallsAssumption DEF PhaseOf
<1>4. /\ UNCHANGED <<voice_calls, radio, table, calls, ret, stack, started, aborted,
                     up, inflight>>
      /\ resp' = [resp EXCEPT ![t] = [m |-> "timeout", ok |-> FALSE]]
  BY <1>3 DEF timeout, radioVars, sipVars, peerVars
<1>5. ~ resp'[t].ok /\ resp'[t] # NoResp
  BY <1>4 DEF IInv, TypeInv, WaitOK, NoResp
<1>6. \A u \in Task : stack[u] # <<>> => u = t
  BY <1>2 DEF Alone
<1> QED
  BY <1>4, <1>5, <1>6, WorkKept

\* A 180 counts while our INVITE is pending, and only then does it come.
LEMMA ringingSerial ==
  ASSUME IInv, IInv', Orderly, Serial(env), NEW c \in Mo, ringing(c)
  PROVE  Orderly'
<1>1. /\ UNCHANGED <<voice_calls, table, started, pending, resp, inflight, ret, stack,
                     up, aborted>>
      /\ c \notin up /\ c \in Dialog
  BY DEF ringing, Serial, waitVars, histVars, Dialog
<1>2. CASE ~ (pending[c] # Idle /\ InTable(c))
  <2>1. UNCHANGED <<calls, radio>>
    BY <1>2 DEF ringing
  <2> QED
    BY <1>1, <2>1, WorkKept
<1>3. CASE pending[c] # Idle /\ InTable(c)
  <2>1. /\ calls' = [calls EXCEPT ![c].state = "RINGING_OUT"]
        /\ radio' = RadioUpdate(calls[c].idx, "ALERTING")
    BY <1>3 DEF ringing
  <2>2. PICK t \in Task : t = pending[c]
    BY <1>1, <1>3 DEF IInv, TypeInv, WaitOK
  <2>3. /\ stack[t] # <<>> /\ Frame(t).op \in AwaitOps /\ Frame(t).c = c
        /\ resp[t] = NoResp
    BY <1>1, <1>3, <2>2 DEF IInv, PendingHasWaiter
  <2>4. PICK f \in Frames, r \in Seq(Frames) :
          /\ stack[t] = <<f>> \o r /\ f = Frame(t) /\ r = Tail(stack[t])
          /\ FrameOK(f) /\ PhaseOf(t, f, r) /\ Alone(t)
    BY <2>3, Doing
  <2>5. c \in ToSet(table) \cap Mo /\ ~ UpOK({})
    BY <1>1, <1>3 DEF InTable, UpOK
  <2>6. f.op = "INVITE"
    <3>1. f.op \in {"INVITE", "HOLD", "RESUME", "BYE", "ATTENDED"}
      BY <2>3, <2>4 DEF PhaseOf, AwaitOps
    <3>2. f.op \notin {"HOLD", "RESUME"}
      BY <2>4, <2>5 DEF PhaseOf, ReinviteAt, Match
    <3>3. f.op # "BYE"
      BY <2>3, <2>4, <2>5 DEF PhaseOf, ByeAt
    <3>4. f.op # "ATTENDED"
      BY <2>4, <2>5 DEF PhaseOf, Steady, Match
    <3> QED
      BY <3>1, <3>2, <3>3, <3>4
  <2>7. PICK i \in ToSet(voice_calls) :
          /\ r = <<FrI("dialDone", i)>>
          /\ c \in ToSet(table) /\ calls[c].idx = i
          /\ Paired({i}, {c}) /\ MediaOK({}) /\ UpOK({c})
          /\ \A q \in inflight : q.c = c => q.m = "INVITE"
          /\ resp[t].ok => c \in up
    BY <2>3, <2>4, <2>6 DEF PhaseOf, InviteAt
  <2>8. calls[c].media = "none"
    <3>1. stack[t] \in Seq(Frames) /\ Frame(t) = stack[t][1] /\ Len(stack[t]) \in Nat \ {0}
      BY <2>3 DEF IInv, TypeInv, StacksOK, Frame
    <3>2. Frame(t) \in ToSet(stack[t])
      BY <3>1 DEF ToSet
    <3>3. Has(t, "INVITE", c)
      BY <2>3, <2>4, <2>6, <3>2 DEF Has
    <3> QED
      BY <1>1, <3>3 DEF IInv, SetupOK
  <2>9. i \in 1 .. MaxIndex
    BY <2>7, Known DEF IInv
  <2>10. /\ \A j \in 1 .. MaxIndex \ {i} : radio'[j] = radio[j]
         /\ calls'[c].state = "RINGING_OUT"
         /\ calls'[c].idx = i /\ calls'[c].media = "none"
         /\ \A d \in Dialog \ {c} : calls'[d] = calls[d]
    <3>1. radio' = [radio EXCEPT ![i].state = "ALERTING"]
      BY <2>1, <2>7 DEF RadioUpdate
    <3>2. \A j \in 1 .. MaxIndex \ {i} : radio'[j] = radio[j]
      BY <2>9, <3>1, EntrySet DEF IInv
    <3> QED
      BY <1>1, <2>1, <2>7, <2>8, <3>2, CallSet DEF IInv
  <2>11. Paired({i}, {c})'
    <3>1. \A j \in ToSet(voice_calls) \ {i} : radio'[j] = radio[j]
      BY <2>10, Known DEF IInv
    <3>2. \A d \in ToSet(table) \ {c} :
            calls'[d].state = calls[d].state /\ calls'[d].idx = calls[d].idx
      BY <2>10, Known DEF IInv
    <3>3. /\ ToSet(voice_calls') \ {i} = ToSet(voice_calls) \ {i}
          /\ ToSet(table') \ {c} = ToSet(table) \ {c}
      BY <1>1
    <3> QED
      BY <2>7, <3>1, <3>2, <3>3, PairedKept
  <2>12. MediaOK({})'
    <3>1. MediaGood(c)'
      BY <2>10 DEF MediaGood
    <3>2. \A d \in Dialog \ {} :
            \/ MediaGood(d)'
            \/ /\ d \notin {} /\ calls'[d] = calls[d]
               /\ d \in ToSet(table) => d \in ToSet(table')
      BY <1>1, <2>10, <3>1
    <3> QED
      BY <2>7, <3>2, MediaKept
  <2>13. UpOK({c})'
    BY <1>1, <2>7 DEF UpOK
  <2>14. InviteAt(t, c, r)'
    BY <1>1, <2>7, <2>10, <2>11, <2>12, <2>13 DEF InviteAt
  <2>15. PhaseOf(t, f, r)'
    BY <1>1, <2>2, <2>3, <2>4, <2>6, <2>14 DEF PhaseOf, SerialOps, AwaitOps
  <2>16. AtWork(t)'
    BY <1>1, <2>4, <2>15 DEF AtWork, Alone
  <2>17. \A d \in Dialog : calls[d].state # "none" => calls'[d].state # "none"
    BY <2>10
  <2> QED
    BY <1>1, <2>16, <2>17, Kept DEF Onward
<1> QED
  BY <1>2, <1>3


-----------------------------------------------------------------------------
(* The network. *)

\* A message comes when nothing else is going on.
LEMMA Comes ==
  ASSUME IInv, Orderly, Serial(env), NEW h \in Handlers, NEW m, Arrives(h, m)
  PROVE  /\ h \in Task /\ Alone(h) /\ Steady /\ aborted' = aborted
         /\ m \in {"INVITE", "REINVITE", "BYE", "CANCEL"}
<1>1. h \in Task /\ Quiescent /\ Steady
  BY Starts DEF Task, Arrives, IInv
<1> QED
  BY <1>1 DEF Arrives, Quiescent, Alone, Serial

\* A new call is listed in both lists.
LEMMA incomingInviteSerial ==
  ASSUME IInv, IInv', Orderly, Serial(env), NEW h \in Handlers, NEW c \in Dialog,
         incomingInvite(h, c)
  PROVE  Orderly'
<1>1. h \in Task /\ Alone(h) /\ Steady /\ aborted' = aborted
  BY Comes DEF incomingInvite
<1>2. /\ c \in Mt /\ c \notin ToSet(table) /\ table' = Append(table, c)
      /\ RoomForIndex /\ Runs(h, <<>>)
      /\ calls' = [calls EXCEPT ![c] =
           [NoneCall EXCEPT !.state = "RINGING_IN", !.idx = nextIndex]]
      /\ radio' = [radio EXCEPT ![nextIndex] = incoming_call(c)]
      /\ voice_calls' = Append(voice_calls, nextIndex)
      /\ UNCHANGED <<started, inflight, up>>
  BY DEF incomingInvite, InTable, Serial, waitVars
<1>3. PICK i \in 1 .. MaxIndex : i = nextIndex /\ i \notin ToSet(voice_calls)
  BY <1>2, IndexLeft, Known DEF IInv
<1>4. ToSet(table') = ToSet(table) \cup {c}
  <2>1. table \in Seq(Dialog)
    BY DEF IInv, TypeInv, TableOK
  <2> QED
    BY <1>2, <2>1, AppendProperty
<1>5. ToSet(voice_calls') = ToSet(voice_calls) \cup {i}
  <2> DEFINE S == 1 .. MaxIndex
  <2>1. voice_calls \in Seq(S) /\ i \in S
    BY DEF IInv, TypeInv, RadioOK
  <2> HIDE DEF S
  <2>2. ToSet(Append(voice_calls, i)) = ToSet(voice_calls) \cup {i}
    BY <2>1, AppendProperty
  <2> QED
    BY <1>2, <1>3, <2>2
<1>6. /\ radio'[i].sip = c /\ radio'[i].state \in {"INCOMING", "WAITING"}
      /\ ~ radio'[i].mpty /\ \A j \in 1 .. MaxIndex \ {i} : radio'[j] = radio[j]
  <2>1. radio'[i] = incoming_call(c) /\ \A j \in 1 .. MaxIndex \ {i} : radio'[j] = radio[j]
    BY <1>2, <1>3 DEF IInv, TypeInv, RadioOK
  <2> QED
    BY <2>1 DEF incoming_call
<1>7. /\ calls'[c].state = "RINGING_IN" /\ calls'[c].idx = i /\ calls'[c].media = "none"
      /\ \A d \in Dialog \ {c} : calls'[d] = calls[d]
  BY <1>2, <1>3 DEF IInv, TypeInv, TableOK, NoneCall
<1>8. Paired({i}, {c})'
  <2>1. \A j \in ToSet(voice_calls) \ {} : radio'[j] = radio[j]
    BY <1>3, <1>6, Known DEF IInv
  <2>2. \A d \in ToSet(table) \ {} :
          calls'[d].state = calls[d].state /\ calls'[d].idx = calls[d].idx
    BY <1>2, <1>7, Known DEF IInv
  <2>3. /\ ToSet(voice_calls') \ {i} = ToSet(voice_calls) \ {}
        /\ ToSet(table') \ {c} = ToSet(table) \ {}
    BY <1>2, <1>3, <1>4, <1>5
  <2> QED
    BY <1>1, <2>1, <2>2, <2>3, PairedKept DEF Steady, Match
<1>9. Linked(i, c)' /\ Agree(i, c)'
  BY <1>4, <1>5, <1>6, <1>7 DEF Linked, Agree
<1>10. Paired({}, {})'
  BY <1>8, <1>9, Together
<1>11. MediaOK({})'
  <2>1. MediaGood(c)'
    BY <1>7 DEF MediaGood
  <2>2. \A d \in Dialog \ {} :
          \/ MediaGood(d)'
          \/ /\ d \notin {} /\ calls'[d] = calls[d]
             /\ d \in ToSet(table) => d \in ToSet(table')
    BY <1>4, <1>7, <2>1
  <2> QED
    BY <1>1, <2>2, MediaKept DEF Steady, Match
<1>12. UpOK({})'
  BY <1>1, <1>2, <1>4, CallsAssumption DEF Steady, Match, UpOK
<1>13. Steady'
  BY <1>10, <1>11, <1>12 DEF Steady, Match
<1>14. stack' = [stack EXCEPT ![h] = <<>>]
  BY <1>2 DEF Runs
<1>15. Onward
  BY <1>1, <1>13, <1>14, Over
<1>16. \A d \in Dialog : calls[d].state # "none" => calls'[d].state # "none"
  BY <1>7
<1> QED
  BY <1>1, <1>2, <1>15, <1>16, Kept

\* The far end holds or resumes, in both lists at once.
LEMMA reinviteSerial ==
  ASSUME IInv, IInv', Orderly, Serial(env), NEW h \in Handlers, NEW c \in Dialog,
         reinvite(h, c)
  PROVE  Orderly'
<1>1. h \in Task /\ Alone(h) /\ Steady /\ aborted' = aborted
  BY Comes DEF reinvite
<1>2. /\ c \in ToSet(table) /\ UNCHANGED <<voice_calls, table, started, inflight>>
      /\ up \subseteq up' /\ Runs(h, <<>>)
  BY DEF reinvite, InTable, waitVars
<1>3. PICK i \in ToSet(voice_calls) : Linked(i, c) /\ i \in 1 .. MaxIndex
  BY <1>1, <1>2, Partner, Known DEF Steady, Match, Linked, IInv
<1>4. PICK s \in {"HELD", "ACTIVE"} :
        /\ calls' = [calls EXCEPT ![c].state = s,
                       ![c].media = IF s = "HELD" THEN Paused(calls[c].media)
                                                  ELSE Playing(calls[c].media)]
        /\ radio' = RadioUpdate(calls[c].idx, IF s = "HELD" THEN "HOLDING" ELSE "ACTIVE")
  <2>1. PICK hold \in BOOLEAN :
          /\ calls' = [calls EXCEPT ![c].state = IF hold THEN "HELD" ELSE "ACTIVE",
                         ![c].media = IF hold THEN Paused(@) ELSE Playing(@)]
          /\ radio' = RadioUpdate(calls[c].idx, IF hold THEN "HOLDING" ELSE "ACTIVE")
    BY DEF reinvite
  <2>2. CASE hold
    BY <2>1, <2>2 DEF IInv, TypeInv, TableOK
  <2>3. CASE ~ hold
    BY <2>1, <2>3 DEF IInv, TypeInv, TableOK
  <2> QED
    BY <2>2, <2>3
<1>5. /\ calls'[c].state = s /\ calls'[c].idx = calls[c].idx
      /\ c \in ToSet(table') => MediaGood(c)'
      /\ \A d \in Dialog \ {c} : calls'[d] = calls[d]
  <2>1. PICK m : m = (IF s = "HELD" THEN Paused(calls[c].media)
                                   ELSE Playing(calls[c].media))
    OBVIOUS
  <2>2. calls' = [calls EXCEPT ![c].state = s, ![c].media = m]
    BY <1>4, <2>1
  <2> QED
    BY <2>1, <2>2, CallHeld DEF IInv
<1>6. PICK z \in {"HOLDING", "ACTIVE"} : z = (IF s = "HELD" THEN "HOLDING" ELSE "ACTIVE")
  OBVIOUS
<1>7. radio' = [radio EXCEPT ![i].state = z]
  BY <1>3, <1>4, <1>6 DEF RadioUpdate, Linked
<1>8. /\ radio'[i].state = z /\ radio'[i].sip = radio[i].sip
      /\ \A j \in 1 .. MaxIndex \ {i} : radio'[j] = radio[j]
  BY <1>3, <1>7, EntrySet DEF IInv
<1>9. Match({i}, {c})
  BY <1>1, <1>3, SetApart
<1>10. Linked(i, c)' /\ Agree(i, c)'
  <2>1. Linked(i, c)'
    BY <1>2, <1>3, <1>5, <1>8 DEF Linked
  <2>2. Agree(i, c)'
    BY <1>5, <1>6, <1>8 DEF Agree
  <2> QED
    BY <2>1, <2>2
<1>11. Steady'
  BY <1>2, <1>5, <1>8, <1>9, <1>10, Touched DEF IInv
<1>12. stack' = [stack EXCEPT ![h] = <<>>]
  BY <1>2 DEF Runs
<1>13. Onward
  BY <1>1, <1>11, <1>12, Over
<1>14. \A d \in Dialog : calls[d].state # "none" => calls'[d].state # "none"
  BY <1>5
<1> QED
  BY <1>1, <1>2, <1>13, <1>14, Kept

\* The far end hangs up: the call leaves the table before its entry goes.
LEMMA incomingByeSerial ==
  ASSUME IInv, IInv', Orderly, Serial(env), NEW h \in Handlers, NEW c \in Dialog,
         incomingBye(h, c)
  PROVE  Orderly'
<1>1. h \in Task /\ Alone(h) /\ Steady /\ aborted' = aborted
  BY Comes DEF incomingBye
<1>2. /\ UNCHANGED <<voice_calls, radio, calls, started, inflight>>
      /\ up \subseteq up'
  BY DEF incomingBye, radioVars, waitVars
<1>3. PICK j \in {0, 1} :
        Runs(h, IF InTable(c) THEN StopMedia(c) \o <<Fr("byeTail", c, 0, j)>>
                ELSE <<Fr("byeTail", NoCall, 0, j)>>)
  <2>1. PICK m \in {"BYE", "CANCEL"} :
          LET tail == Fr("byeTail", c, 0, IF m = "BYE" THEN 1 ELSE 0)
              gone == Fr("byeTail", NoCall, 0, tail.j)
          IN Runs(h, IF InTable(c) THEN StopMedia(c) \o <<tail>> ELSE <<gone>>)
    BY DEF incomingBye
  <2>2. PICK j \in {0, 1} : j = IF m = "BYE" THEN 1 ELSE 0
    OBVIOUS
  <2>3. Fr("byeTail", c, 0, j).j = j
    BY DEF Fr
  <2> QED
    BY <2>1, <2>2, <2>3
<1>4. CASE ~ InTable(c)
  <2>1. UNCHANGED table /\ stack' = [stack EXCEPT ![h] = <<Fr("byeTail", NoCall, 0, j)>>]
    BY <1>3, <1>4 DEF incomingBye, Runs
  <2>2. Steady'
    BY <1>1, <1>2, <2>1, Same DEF Steady
  <2>3. ByeTailAt(NoCall, <<>>)'
    BY <2>2 DEF ByeTailAt
  <2>4. Onward
    BY <1>1, <2>1, <2>3, TailLeft
  <2> QED
    BY <1>1, <1>2, <2>4, Kept
<1>5. CASE InTable(c)
  <2>1. /\ c \in ToSet(table) /\ table' = RemoveFirst(table, c) /\ c # NoCall
        /\ stack' = [stack EXCEPT ![h] = StopMedia(c) \o <<Fr("byeTail", c, 0, j)>>]
    BY <1>3, <1>5, CallsAssumption DEF incomingBye, Runs, InTable, WithoutKey
  <2>2. ToSet(table') = ToSet(table) \ {c}
    <3>1. table \in Seq(Dialog)
      BY DEF IInv, TypeInv, TableOK
    <3>2. IsInjective(table)
      BY DEF IInv, TypeInv, TableOK
    <3> QED
      BY <2>1, <3>1, <3>2, RemoveFirstProperties
  <2>3. PICK i \in 1 .. MaxIndex : i \in ToSet(voice_calls) /\ Linked(i, c)
    BY <1>1, <2>1, Partner, Known DEF Steady, Match, Linked, IInv
  <2>4. Remains(c, i)'
    <3>1. Paired({i}, {c})
      BY <1>1, <2>3, Apart DEF Steady, Match
    <3>2. ToSet(table') \ {} = ToSet(table) \ {c}
      BY <2>2
    <3>3. Paired({i}, {})'
      BY <1>2, <3>1, <3>2, PairedKept
    <3> QED
      BY <1>2, <2>2, <2>3, <3>3 DEF Remains, Linked
  <2>5. MediaOK({c})' /\ UpOK({})'
    BY <1>1, <1>2, <2>2 DEF Steady, Match, MediaOK, MediaGood, InTable, UpOK
  <2> DEFINE b == Fr("byeTail", c, 0, j)
             p == FrC("STOP", c)
  <2>6. b \in Frames /\ p \in Frames
    <3>1. "STOP" \in RunOps \cup AwaitOps \cup MediaOps
      BY DEF MediaOps
    <3>2. p \in Frames
      BY <3>1, FrameMade
    <3>3. b \in Frames
      BY CallsAssumption DEF Fr, Frames, RunOps
    <3> QED
      BY <3>2, <3>3
  <2>7. CASE calls[c].media = "none"
    <3>1. stack' = [stack EXCEPT ![h] = <<>> \o <<b>>]
      BY <2>1, <2>7 DEF StopMedia
    <3> HIDE DEF b
    <3>2. <<b>> \in Seq(Frames) /\ <<>> \o <<b>> = <<b>>
      BY <2>6, Pushed, ConcatEmptySeq
    <3>3. stack' = [stack EXCEPT ![h] = <<b>>]
      BY <3>1, <3>2, Zenon
    <3>4. MediaOK({})'
      BY <1>2, <2>5, <2>7 DEF MediaOK, MediaGood
    <3>5. ByeTailAt(c, <<>>)'
      BY <2>1, <2>4, <2>5, <3>4 DEF ByeTailAt
    <3>6. Onward
      BY <1>1, <3>3, <3>5, TailLeft DEF b
    <3> QED
      BY <1>1, <1>2, <3>6, Kept
  <2>8. CASE calls[c].media # "none"
    <3>1. stack' = [stack EXCEPT ![h] = <<p>> \o <<b>>]
      BY <2>1, <2>8 DEF StopMedia
    <3>2. StopAt(c, <<b>>)'
      BY <2>2, <2>4, <2>5 DEF StopAt
    <3>3. <<b>> \in Seq(Frames)
      BY <2>6
    <3> HIDE DEF b
    <3>4. Onward
      BY <1>1, <3>1, <3>2, <3>3, Stopping
    <3> QED
      BY <1>1, <1>2, <3>4, Kept
  <2> QED
    BY <2>7, <2>8
<1> QED
  BY <1>4, <1>5


-----------------------------------------------------------------------------
(* Every step. *)

\* No task transfers for the radio or the far end, stops, or is forwarding.
LEMMA Elsewhere ==
  ASSUME IInv, Orderly, NEW t \in Task,
         ect(t) \/ ectDone(t) \/ stop(t) \/ notify(t) \/ inviteIndex(t)
  PROVE  FALSE
<1>1. stack[t] # <<>> /\ Frame(t).op \in {"ect", "ectDone", "stop", "stopEach", "stopDone",
                                          "notify", "NOTIFY", "inviteIndex"}
  BY DEF ect, ectDone, stop, notify, inviteIndex, Running, Woken, Frame
<1>2. PICK f \in Frames, r \in Seq(Frames) : f = Frame(t) /\ PhaseOf(t, f, r)
  BY <1>1, Doing
<1> QED
  BY <1>1, <1>2 DEF PhaseOf, SerialOps, AwaitOps, MediaOps

\* A step of a task.
LEMMA StepSerial ==
  ASSUME IInv, IInv', Orderly, NEW t \in Task, Step(t)
  PROVE  Orderly'
<1>1. CASE dial(t)
  BY <1>1, dialSerial
<1>2. CASE dialDone(t)
  BY <1>2, dialDoneSerial
<1>3. CASE answer(t)
  BY <1>3, answerSerial
<1>4. CASE hangup(t)
  BY <1>4, hangupSerial
<1>5. CASE hangupDone(t)
  BY <1>5, hangupDoneSerial
<1>6. CASE hangupAll(t)
  BY <1>6, hangupAllSerial
<1>7. CASE hangupIf(t)
  BY <1>7, hangupIfSerial
<1>8. CASE clearCalls(t)
  BY <1>8, clearCallsSerial
<1>9. CASE switch(t)
  BY <1>9, switchSerial
<1>10. CASE switchScan(t)
  BY <1>10, switchScanSerial
<1>11. CASE separate(t)
  BY <1>11, separateSerial
<1>12. CASE initiate(t)
  BY <1>12, initiateSerial
<1>13. CASE inviteResult(t)
  BY <1>13, inviteResultSerial
<1>14. CASE mediaStarted(t)
  BY <1>14, mediaStartedSerial
<1>15. CASE answerCall(t)
  BY <1>15, answerCallSerial
<1>16. CASE holdResume(t)
  BY <1>16, holdResumeSerial
<1>17. CASE holdResumeDone(t)
  BY <1>17, holdResumeDoneSerial
<1>18. CASE conference(t)
  BY <1>18, conferenceSerial
<1>19. CASE transfer(t)
  BY <1>19, transferSerial
<1>20. CASE transferDone(t)
  BY <1>20, transferDoneSerial
<1>21. CASE hangupCall(t)
  BY <1>21, hangupCallSerial
<1>22. CASE mediaStopped(t)
  BY <1>22, mediaStoppedSerial
<1>23. CASE bye(t)
  BY <1>23, byeSerial
<1>24. CASE byeDone(t)
  BY <1>24, byeDoneSerial
<1>25. CASE byeTail(t)
  BY <1>25, byeTailSerial
<1>26. CASE ect(t) \/ ectDone(t) \/ stop(t) \/ notify(t) \/ inviteIndex(t)
  BY <1>26, Elsewhere
<1> QED
  BY <1>1, <1>2, <1>3, <1>4, <1>5, <1>6, <1>7, <1>8, <1>9, <1>10, <1>11, <1>12, <1>13,
     <1>14, <1>15, <1>16, <1>17, <1>18, <1>19, <1>20, <1>21, <1>22, <1>23, <1>24, <1>25,
     <1>26 DEF Step

\* A step of the network.
LEMMA NetworkSerial ==
  ASSUME IInv, IInv', Orderly, Serial(env), Network
  PROVE  Orderly'
<1>1. ASSUME NEW q \in inflight, NEW ok \in BOOLEAN, response(q, ok) PROVE Orderly'
  BY <1>1, responseSerial
<1>2. ASSUME NEW c \in Mo, ringing(c) PROVE Orderly'
  BY <1>2, ringingSerial
<1>3. ASSUME NEW h \in Handlers, NEW c \in Dialog, incomingInvite(h, c) PROVE Orderly'
  BY <1>3, incomingInviteSerial
<1>4. ASSUME NEW h \in Handlers, NEW c \in Dialog, reinvite(h, c) PROVE Orderly'
  BY <1>4, reinviteSerial
<1>5. ASSUME NEW h \in Handlers, NEW c \in Dialog, incomingBye(h, c) PROVE Orderly'
  BY <1>5, incomingByeSerial
<1>6. ASSUME NEW h \in Handlers, NEW c \in Dialog,
             incomingRefer(h, c) \/ incomingNotify(h, c)
      PROVE  FALSE
  BY <1>6 DEF incomingRefer, incomingNotify, Arrives, Serial
<1> QED
  BY <1>1, <1>2, <1>3, <1>4, <1>5, <1>6 DEF Network

\* A step that changes nothing.
LEMMA StutterSerial ==
  ASSUME IInv, Orderly, UNCHANGED vars
  PROVE  Orderly'
<1>1. UNCHANGED <<voice_calls, radio, table, calls, ret, stack, started, aborted, up,
                  inflight, pending, resp>>
  BY DEF vars, radioVars, sipVars, waitVars, peerVars, histVars
<1>2. \A t \in Task : stack[t] # <<>> =>
        /\ Frame(t).op = "INVITE" /\ resp'[t].ok => resp[t].ok \/ Frame(t).c \in up'
        /\ Frame(t).op \in AwaitOps /\ resp'[t] = NoResp =>
             (resp[t] = NoResp /\ pending[Frame(t).c] = t => pending'[Frame(t).c] = t)
             /\ resp[t] = NoResp
  BY <1>1
<1> QED
  BY <1>1, <1>2, WorkKept

\* The environment only uses up what it may do; what it may do stays the same.
LEMMA EnvKept ==
  ASSUME IInv, Serial(env), [Next]_vars
  PROVE  Serial(env')
<1>1. env \in Scene
  BY DEF IInv, TypeInv, PeerOK
<1>2. ASSUME UNCHANGED env PROVE Serial(env')
  BY <1>2
<1>3. CASE env' = [env EXCEPT !.user = @ - 1]
  BY <1>1, <1>3 DEF Scene, Serial
<1>4. CASE env' = [env EXCEPT !.peer = @ - 1]
  BY <1>1, <1>4 DEF Scene, Serial
<1>5. ASSUME NEW t \in Ril, RilRequest(t) PROVE Serial(env')
  BY <1>3, <1>5 DEF RilRequest
<1>6. ASSUME NEW h \in Handlers, NEW c \in Dialog,
             \/ incomingInvite(h, c) \/ reinvite(h, c) \/ incomingBye(h, c)
             \/ incomingRefer(h, c) \/ incomingNotify(h, c)
      PROVE  Serial(env')
  <2>1. env' = [env EXCEPT !.peer = @ - 1]
    BY <1>6 DEF incomingInvite, reinvite, incomingBye, incomingRefer, incomingNotify,
                Arrives
  <2> QED
    BY <1>4, <2>1
<1>7. ASSUME NEW q \in inflight, NEW ok \in BOOLEAN, response(q, ok) PROVE UNCHANGED env
  BY <1>7 DEF response
<1>8. ASSUME NEW c \in Mo, ringing(c) PROVE UNCHANGED env
  BY <1>8 DEF ringing
<1>9. ASSUME NEW t \in Task, timeout(t) PROVE UNCHANGED env
  BY <1>9 DEF timeout
<1>10. ASSUME NEW t \in Task, Step(t) PROVE UNCHANGED env
  <2>1. CASE dial(t) \/ dialDone(t) \/ answer(t) \/ hangup(t) \/ hangupDone(t)
    BY <2>1 DEF dial, dialDone, answer, hangup, hangupDone, RadioUnchanged
  <2>2. CASE hangupAll(t) \/ hangupIf(t) \/ clearCalls(t) \/ switch(t)
    BY <2>2 DEF hangupAll, hangupIf, clearCalls, switch, RadioUnchanged
  <2>3. CASE switchScan(t) \/ separate(t) \/ ect(t) \/ ectDone(t)
    BY <2>3 DEF switchScan, separate, ect, ectDone, RadioUnchanged
  <2>4. CASE initiate(t) \/ inviteResult(t) \/ mediaStarted(t) \/ answerCall(t)
    BY <2>4 DEF initiate, inviteResult, mediaStarted, answerCall, ManagerUnchanged
  <2>5. CASE holdResume(t) \/ holdResumeDone(t) \/ conference(t) \/ transfer(t)
    BY <2>5 DEF holdResume, holdResumeDone, conference, transfer, ManagerUnchanged
  <2>6. CASE transferDone(t) \/ hangupCall(t) \/ mediaStopped(t) \/ bye(t)
    BY <2>6 DEF transferDone, hangupCall, mediaStopped, bye, ManagerUnchanged
  <2>7. CASE byeDone(t) \/ stop(t) \/ notify(t) \/ inviteIndex(t) \/ byeTail(t)
    BY <2>7 DEF byeDone, stop, notify, inviteIndex, byeTail, ManagerUnchanged
  <2> QED
    BY <1>10, <2>1, <2>2, <2>3, <2>4, <2>5, <2>6, <2>7 DEF Step
<1>11. CASE UNCHANGED vars
  BY <1>2, <1>11 DEF vars
<1> QED
  BY <1>2, <1>5, <1>6, <1>7, <1>8, <1>9, <1>10, <1>11
  DEF Next, Request, Network, AwaitEvent

\* The invariant holds at first.
LEMMA InitSerial ==
  ASSUME Init
  PROVE  Orderly
<1>1. /\ voice_calls = <<>> /\ table = <<>> /\ aborted = {} /\ started /\ inflight = {}
      /\ \A t \in Task : stack[t] = <<>>
      /\ \A c \in Dialog : calls[c].media = "none"
  BY DEF Init, NoneCall
<1>2. ToSet(<<>>) = {}
  BY DEF ToSet
<1>3. Paired({}, {})
  BY <1>1, <1>2 DEF Paired
<1>4. MediaOK({}) /\ UpOK({})
  BY <1>1, <1>2 DEF MediaOK, MediaGood, UpOK
<1> QED
  BY <1>1, <1>3, <1>4 DEF Orderly, Quiescent, Steady, Match

\* Every step keeps it.
LEMMA NextSerial == IInv /\ IInv' /\ SerialInv /\ [Next]_vars => SerialInv'
<1> SUFFICES ASSUME IInv, IInv', Serial(env), Orderly, [Next]_vars PROVE SerialInv'
  BY DEF SerialInv
<1>1. ASSUME NEW t \in Ril, RilRequest(t) PROVE Orderly'
  BY <1>1, RilRequestSerial
<1>2. ASSUME Network PROVE Orderly'
  BY <1>2, NetworkSerial
<1>3. ASSUME UNCHANGED vars PROVE Orderly'
  BY <1>3, StutterSerial
<1>4. ASSUME NEW t \in Task, timeout(t) PROVE Orderly'
  BY <1>4, timeoutSerial
<1>5. ASSUME NEW t \in Task, Step(t) PROVE Orderly'
  BY <1>5, StepSerial
<1>6. Orderly'
  BY <1>1, <1>2, <1>3, <1>4, <1>5 DEF Next, Request, AwaitEvent
<1> QED
  BY <1>6, EnvKept DEF SerialInv

\* While requests are serial, the work is orderly.
LEMMA AlwaysOrderly == Spec /\ Serial(env) => [](IInv /\ SerialInv)
<1>1. Init /\ Serial(env) => SerialInv
  BY InitSerial DEF SerialInv
<1> QED
  BY <1>1, NextSerial, Invariant, PTL DEF Spec

-----------------------------------------------------------------------------
(* What that means between requests. *)

\* With nothing to do the lists mirror each other.
LEMMA AtRest ==
  ASSUME Orderly, Quiescent
  PROVE  Steady
<1>1. ASSUME NEW t \in Task, AtWork(t) PROVE FALSE
  <2>1. PICK f \in Frames, r \in Seq(Frames) : stack[t] = <<f>> \o r
    BY <1>1 DEF AtWork
  <2> QED
    BY <2>1, Joined DEF Quiescent
<1> QED
  BY <1>1 DEF Orderly

\* A list without repetitions is as long as it has members.
LEMMA ListLength ==
  ASSUME NEW S, NEW s \in Seq(S), IsInjective(s)
  PROVE  IsFiniteSet(ToSet(s)) /\ Cardinality(ToSet(s)) = Len(s)
<1> DEFINE D == 1 .. Len(s)
           T == ToSet(s)
<1>1. Len(s) \in Nat /\ DOMAIN s = D
  OBVIOUS
<1>2. IsFiniteSet(D) /\ Cardinality(D) = Len(s)
  <2>1. ASSUME NEW n \in Nat PROVE IsFiniteSet(1 .. n) /\ Cardinality(1 .. n) = n
    <3>1. /\ IsFiniteSet(1 .. n)
          /\ Cardinality(1 .. n) = IF 1 > n THEN 0 ELSE n - 1 + 1
      BY FS_Interval
    <3> QED
      BY <3>1
  <2> QED
    BY <1>1, <2>1
<1>3. s \in [D -> T] /\ \A x \in T : \E k \in D : s[k] = x
  BY <1>1 DEF ToSet
<1> HIDE DEF D, T
<1>4. s \in Injection(D, T) /\ s \in Surjection(D, T)
  BY <1>3 DEF Injection, Surjection
<1>5. IsFiniteSet(T) /\ Cardinality(T) = Cardinality(D)
  BY <1>2, <1>4, FS_Surjection
<1> QED
  BY <1>2, <1>5 DEF T

\* Lists that mirror each other have the same calls.
LEMMA Mirrored ==
  ASSUME IInv, Steady
  PROVE  /\ {radio[i].sip : i \in ToSet(voice_calls)} = ToSet(table)
         /\ Len(voice_calls) = Len(table)
         /\ \A i \in ToSet(voice_calls) :
              calls[radio[i].sip].state \in Mirror(radio[i].state)
<1> DEFINE V == ToSet(voice_calls)
           C == ToSet(table)
<1>1. /\ \A i \in V : radio[i].sip \in C /\ calls[radio[i].sip].idx = i
      /\ \A c \in C : calls[c].idx \in V /\ radio[calls[c].idx].sip = c
  BY Partner DEF Steady, Match, Linked
<1>2. \A i \in V : calls[radio[i].sip].state \in Mirror(radio[i].state)
  BY Partner DEF Steady, Match, Agree, Mirror
<1>3. IsFiniteSet(V) /\ Cardinality(V) = Len(voice_calls)
  <2> DEFINE S == 1 .. MaxIndex
  <2>1. voice_calls \in Seq(S)
    BY DEF IInv, TypeInv, RadioOK
  <2>2. IsInjective(voice_calls)
    BY DEF IInv, TypeInv, RadioOK
  <2> HIDE DEF S
  <2> QED
    BY <2>1, <2>2, ListLength
<1>4. IsFiniteSet(C) /\ Cardinality(C) = Len(table)
  <2>1. table \in Seq(Dialog) /\ IsInjective(table)
    BY DEF IInv, TypeInv, TableOK
  <2> QED
    BY <2>1, ListLength
<1> HIDE DEF V, C
<1> DEFINE f == [i \in V |-> radio[i].sip]
<1>5. f \in Injection(V, C) /\ f \in Surjection(V, C)
  <2>1. f \in [V -> C]
    BY <1>1
  <2>2. \A i, j \in V : f[i] = f[j] => i = j
    BY <1>1
  <2>3. \A c \in C : \E i \in V : f[i] = c
    BY <1>1
  <2> HIDE DEF f
  <2> QED
    BY <2>1, <2>2, <2>3 DEF Injection, Surjection, IsInjective
<1>6. Cardinality(C) = Cardinality(V)
  <2> HIDE DEF f
  <2> QED
    BY <1>3, <1>5, FS_Surjection
<1>7. {radio[i].sip : i \in V} = C
  BY <1>1
<1> QED
  BY <1>2, <1>3, <1>4, <1>6, <1>7 DEF V, C

-----------------------------------------------------------------------------
(* The theorems. *)

\* However long the sequence of requests of the phone and of the far end, each
\* finished before the next, RadioHAL's call list and VoLTECallManager's table
\* hold the same calls in matching states whenever no request is unfinished.
THEOREM ListsAgree == Spec /\ Serial(env) => []RadioMirrorsSip
<1>1. IInv /\ SerialInv => RadioMirrorsSip
  BY AtRest, Mirrored DEF SerialInv, RadioMirrorsSip
<1> QED
  BY <1>1, AlwaysOrderly, PTL

\* Between such requests a held call's media session is paused, only an active
\* call transmits, and no session outlives its call.
THEOREM MediaInStep == Spec /\ Serial(env) => []MediaFollowsState
<1>1. IInv /\ SerialInv => MediaFollowsState
  BY AtRest DEF SerialInv, MediaFollowsState, Steady, Match, MediaOK, MediaGood
<1> QED
  BY <1>1, AlwaysOrderly, PTL

\* No such request dies of a KeyError, ValueError or IndexError.
THEOREM NothingAborts == Spec /\ Serial(env) => []NoAbort
<1>1. IInv /\ SerialInv => NoAbort
  BY DEF SerialInv, Orderly, NoAbort
<1> QED
  BY <1>1, AlwaysOrderly, PTL
=============================================================================
