-------------------------- MODULE VolteCalls_proofs --------------------------
(***************************************************************************)
(* What holds of VolteCalls for any number of calls, clients and handlers, *)
(* whatever requests and messages come and however they interleave.        *)
(***************************************************************************)
EXTENDS VolteCalls, SequenceTheorems, FiniteSetTheorems, TLAPS

(***************************************************************************)
(* The inductive invariant.  What the stack of any task looks like: only   *)
(* the innermost coroutine is suspended; hangup_call goes on after its     *)
(* media have stopped, and dial after its initiate_call.                   *)
(***************************************************************************)
Frames == [op: AwaitOps \cup MediaOps \cup RunOps, c: Dialog \cup {NoCall},
           i: 0 .. MaxIndex + 1, j: 0 .. MaxIndex]

FrameOK(f) ==
  /\ f \in Frames
  /\ f.op \in AwaitOps \cup MediaOps \cup
              {"bye", "notify", "holdDone", "resumeDone"}
       => f.c \in Dialog
  /\ f.op = "inviteIndex" => f.c \in Mt
  /\ f.op \in {"hangupIf", "dialDone"} => f.i \in 1 .. MaxIndex
  /\ f.op = "initiate" => f.i \in 0 .. MaxIndex
  /\ f.op = "switchScan" => f.i \in Nat \ {0} /\ f.j \in 1 .. MaxIndex

StackOK(s) ==
  /\ s \in Seq(Frames)
  /\ \A k \in 1 .. Len(s) :
       /\ FrameOK(s[k])
       /\ k > 1 => s[k].op \in RunOps
       /\ k > 1 /\ s[k].op = "bye" => k = 2 /\ s[1].op = "STOP"
       /\ k > 1 /\ s[k].op = "dialDone" =>
            /\ k = 2 /\ s[1].op \in {"initiate", "INVITE", "START"}
            /\ s[1].op = "initiate" => s[1].i = s[2].i
       /\ s[k].op = "initiate" /\ s[k].i # 0 =>
            k = 1 /\ Len(s) > 1 /\ s[2].op = "dialDone"

StacksOK ==
  /\ stack \in [Task -> Seq(Frames)]
  /\ \A t \in Task : StackOK(stack[t])

\* The radio's calls have different indexes that were handed out.
RadioOK ==
  /\ voice_calls \in Seq(1 .. MaxIndex) /\ IsInjective(voice_calls)
  /\ \A i \in ToSet(voice_calls) : i < nextIndex
  /\ radio \in [1 .. MaxIndex -> [state: RadioStates, mpty: BOOLEAN,
                                  sip: Dialog \cup {NoCall}]]
  /\ nextIndex \in 1 .. MaxIndex + 1

TableOK ==
  /\ table \in Seq(Dialog) /\ IsInjective(table)
  /\ calls \in [Dialog -> [state: SipStates, idx: 0 .. MaxIndex,
                           media: {"none", "on", "paused"}, xfer: BOOLEAN]]
  /\ started \in BOOLEAN
  /\ activeCalls \in 0 .. Cardinality(Dialog)

WaitOK ==
  /\ pending \in [Dialog -> Task \cup {Idle}]
  /\ resp \in [Task -> [m: AwaitOps \cup {"none", "timeout"}, ok: BOOLEAN]]
  /\ ret \in [Task -> Dialog \cup {NoCall}]
  /\ cpu \in Task \cup {Idle}
  /\ inflight \subseteq [c: Dialog, m: AwaitOps, t: Task]

PeerOK ==
  /\ up \subseteq Dialog /\ referred \subseteq Dialog /\ torn \subseteq Dialog
  /\ rung \subseteq Mo /\ answered \subseteq Mt
  /\ closed \in [Dialog -> {"no", "us", "peer"}]
  /\ aborted \subseteq Task
  /\ env \in Scene

TypeInv == StacksOK /\ RadioOK /\ TableOK /\ WaitOK /\ PeerOK

\* Task t still has to do this in call c, or with radio index i.
Has(t, op, c) == \E f \in ToSet(stack[t]) : f.op = op /\ f.c = c
Begins(t, c) == Has(t, "INVITE", c) \/ Has(t, "START", c)
Dialling(t, i) == \E f \in ToSet(stack[t]) : f.op = "dialDone" /\ f.i = i

\* A call that nobody has made yet has left no trace.
FreshOK ==
  \A c \in Dialog : calls[c].state = "none" =>
    /\ c \notin ToSet(table) /\ closed[c] = "no" /\ calls[c].media = "none"
    /\ \A t \in Task : ~ Has(t, "bye", c) /\ ~ Begins(t, c)

\* Only the task that took the call out of the table says BYE, and once.
ByeOK ==
  /\ \A c \in ToSet(table) : closed[c] = "no" /\ \A t \in Task : ~ Has(t, "bye", c)
  /\ \A c \in Dialog : \A t \in Task : Has(t, "bye", c) =>
       /\ closed[c] = "no"
       /\ \A u \in Task : Has(u, "bye", c) => u = t

\* A call that is being set up is in the table or was torn down; an INVITE
\* of the phone has no media and nobody else at work on them.
SetupOK ==
  /\ \A c \in Dialog : calls[c].state = "RINGING_IN" => c \in Mt
  /\ \A c \in Dialog : \A t \in Task : Begins(t, c) => c \in ToSet(table) \cup torn
  /\ \A c \in Dialog : \A t \in Task : Has(t, "INVITE", c) =>
       /\ c \in Mo /\ calls[c].media = "none"
       /\ ~ Has(t, "START", c)
       /\ \A u \in Task : Begins(u, c) => u = t

\* The call that dial will find when initiate_call returns.
Callee(t) == LET f == Head(stack[t]) IN
  CASE f.op = "dialDone" -> ret[t] [] f.op \in {"INVITE", "START"} -> f.c
    [] OTHER -> NoCall

\* While dial has not stored the Call-ID, its entry is its own, and no call
\* but the one it makes has that index.
DialOK ==
  \A t \in Task : \A i \in 1 .. MaxIndex : Dialling(t, i) =>
    /\ i < nextIndex /\ radio[i].sip = NoCall
    /\ \A u \in Task : Dialling(u, i) => u = t
    /\ \A d \in ToSet(table) : calls[d].idx = i => d = Callee(t)

\* Calls have indexes that were handed out; a forwarded call has left the
\* table when it is given the index of another one.
IndexOK ==
  /\ \A c \in ToSet(table) : calls[c].idx < nextIndex
  /\ \A c \in ToSet(table) : \A t \in Task : Has(t, "inviteIndex", c) =>
       Head(stack[t]).op = "hangupCall" /\ Head(stack[t]).c = c

IInv ==
  /\ TypeInv /\ PendingHasWaiter /\ FreshOK /\ ByeOK /\ SetupOK
  /\ LeakNeedsEarlyTeardown /\ DialOK /\ IndexOK /\ UpdatesReachOwnCall

-----------------------------------------------------------------------------
(* Sequences. *)

\* A nonempty set of natural numbers has a least one.
LEMMA LeastNumber ==
  ASSUME NEW I \in SUBSET Nat, I # {}
  PROVE  \E m \in I : \A j \in I : m <= j
<1> DEFINE R == OpToRel(<, Nat)
<1>1. IsWellFoundedOn(R, Nat)
  BY NatLessThanWellFounded
<1>2. \A p, q \in Nat : p < q => <<p, q>> \in R
  BY DEF OpToRel
<1> HIDE DEF R
<1>3. PICK m \in I : \A j \in I : ~ <<j, m>> \in R
  <2>1. I \subseteq Nat /\ I # {}
    OBVIOUS
  <2> QED
    BY <1>1, <2>1, WFMin, Zenon
<1>4. ASSUME NEW j \in I PROVE m <= j
  <2>1. j \in Nat /\ m \in Nat
    OBVIOUS
  <2>2. ~ (j < m)
    BY <1>2, <1>3, <2>1
  <2> QED
    BY <2>1, <2>2
<1> QED
  BY <1>3, <1>4

\* The first of some positions of a sequence.
LEMMA FirstPosition ==
  ASSUME NEW n \in Nat, NEW I \in SUBSET (1 .. n), I # {}
  PROVE  Min(I) \in I
<1>1. PICK m \in I : \A j \in I : m <= j
  BY LeastNumber
<1> QED
  BY <1>1 DEF Min

\* The last of some positions of a sequence.
LEMMA LastPosition ==
  ASSUME NEW n \in Nat, NEW I \in SUBSET (1 .. n), I # {}
  PROVE  Max(I) \in I
<1> DEFINE Up == {n - i : i \in I}
<1>1. Up \in SUBSET Nat /\ Up # {}
  <2>1. PICK j \in I : TRUE
    OBVIOUS
  <2>2. n - j \in Up
    OBVIOUS
  <2> QED
    BY <2>2
<1>2. PICK m \in Up : \A j \in Up : m <= j
  BY <1>1, LeastNumber
<1>3. PICK i \in I : m = n - i
  BY <1>2
<1>4. ASSUME NEW j \in I PROVE i >= j
  <2>1. i \in Nat /\ j \in Nat /\ n - j \in Up
    OBVIOUS
  <2>2. n - i <= n - j
    BY <1>2, <1>3, <2>1
  <2> QED
    BY <2>1, <2>2
<1> HIDE DEF Up
<1>5. \E x \in I : \A j \in I : x >= j
  BY <1>4
<1> QED
  BY <1>5 DEF Max

\* The members of a sequence.
LEMMA Members ==
  ASSUME NEW S, NEW s \in Seq(S)
  PROVE  \A x \in ToSet(s) : x \in S
BY DEF ToSet

\* What RemoveAt leaves.
LEMMA RemoveAtProperties ==
  ASSUME NEW S, NEW s \in Seq(S), NEW k \in 1 .. Len(s)
  PROVE  /\ RemoveAt(s, k) \in Seq(S)
         /\ ToSet(RemoveAt(s, k)) \subseteq ToSet(s)
         /\ IsInjective(s) =>
              /\ IsInjective(RemoveAt(s, k))
              /\ ToSet(RemoveAt(s, k)) = ToSet(s) \ {s[k]}
<1> DEFINE r == RemoveAt(s, k)
<1>1. /\ r \in Seq(S) /\ Len(r) = Len(s) - 1
      /\ \A i \in 1 .. Len(r) : r[i] = IF i < k THEN s[i] ELSE s[i + 1]
  <2> DEFINE a == SubSeq(s, 1, k - 1)
             b == SubSeq(s, k + 1, Len(s))
  <2>1. /\ a \in Seq(S) /\ Len(a) = k - 1
        /\ \A i \in 1 .. k - 1 : a[i] = s[i]
    OBVIOUS
  <2>2. /\ b \in Seq(S) /\ Len(b) = Len(s) - k
        /\ \A i \in 1 .. Len(s) - k : b[i] = s[k + i]
    OBVIOUS
  <2>3. r = a \o b
    BY DEF RemoveAt
  <2> HIDE DEF a, b, r
  <2>4. r \in Seq(S) /\ Len(r) = Len(s) - 1
    BY <2>1, <2>2, <2>3
  <2>5. ASSUME NEW i \in 1 .. Len(r), i < k PROVE r[i] = s[i]
    BY <2>1, <2>2, <2>3, <2>4, <2>5
  <2>6. ASSUME NEW i \in 1 .. Len(r), ~ (i < k) PROVE r[i] = s[i + 1]
    <3>1. i - (k - 1) \in 1 .. Len(s) - k /\ k + (i - (k - 1)) = i + 1
      BY <2>4, <2>6
    <3>2. r[i] = b[i - (k - 1)]
      BY <2>1, <2>2, <2>3, <2>4, <2>6
    <3> QED
      BY <2>2, <3>1, <3>2
  <2> QED
    BY <2>4, <2>5, <2>6
<1> HIDE DEF r
<1>2. ToSet(r) \subseteq ToSet(s)
  BY <1>1 DEF ToSet
<1>3. ASSUME IsInjective(s) PROVE IsInjective(r) /\ ToSet(r) = ToSet(s) \ {s[k]}
  <2>1. IsInjective(r)
    BY <1>1, <1>3 DEF IsInjective
  <2>2. s[k] \notin ToSet(r)
    BY <1>1, <1>3 DEF IsInjective, ToSet
  <2>3. ASSUME NEW i \in 1 .. Len(s), i # k PROVE s[i] \in ToSet(r)
    <3>1. CASE i < k
      BY <1>1, <3>1 DEF ToSet
    <3>2. CASE i > k
      <4>1. i - 1 \in 1 .. Len(r) /\ r[i - 1] = s[i]
        BY <1>1, <3>2
      <4> QED
        BY <4>1 DEF ToSet
    <3> QED
      BY <2>3, <3>1, <3>2
  <2> QED
    <3>1. ToSet(s) \ {s[k]} \subseteq ToSet(r)
      <4> SUFFICES ASSUME NEW i \in 1 .. Len(s), s[i] # s[k]
                   PROVE  s[i] \in ToSet(r)
        BY DEF ToSet
      <4> QED
        BY <2>3
    <3> QED
      BY <1>2, <2>1, <2>2, <3>1
<1> QED
  BY <1>1, <1>2, <1>3 DEF r

\* What RemoveFirst leaves.
LEMMA RemoveFirstProperties ==
  ASSUME NEW S, NEW s \in Seq(S), NEW e
  PROVE  /\ RemoveFirst(s, e) \in Seq(S)
         /\ ToSet(RemoveFirst(s, e)) \subseteq ToSet(s)
         /\ IsInjective(s) =>
              /\ IsInjective(RemoveFirst(s, e))
              /\ ToSet(RemoveFirst(s, e)) = ToSet(s) \ {e}
<1> DEFINE I == {i \in 1 .. Len(s) : s[i] = e}
<1>1. CASE I = {}
  <2>1. RemoveFirst(s, e) = s /\ e \notin ToSet(s)
    BY <1>1 DEF RemoveFirst, ToSet
  <2> QED
    BY <2>1
<1>2. CASE I # {}
  <2>1. RemoveFirst(s, e) = RemoveAt(s, Min(I))
    BY <1>2 DEF RemoveFirst, SelectInSeq
  <2>2. I \in SUBSET (1 .. Len(s)) /\ Len(s) \in Nat /\ \A i \in I : s[i] = e
    OBVIOUS
  <2> HIDE DEF I
  <2>3. Min(I) \in I
    BY <1>2, <2>2, FirstPosition
  <2> DEFINE k == Min(I)
  <2>4. k \in 1 .. Len(s) /\ s[k] = e /\ RemoveFirst(s, e) = RemoveAt(s, k)
    BY <2>1, <2>2, <2>3
  <2> HIDE DEF k
  <2> QED
    BY <2>4, RemoveAtProperties
<1> QED
  BY <1>1, <1>2

\* An element not yet in the sequence is appended.
LEMMA AppendProperty ==
  ASSUME NEW S, NEW s \in Seq(S), NEW e \in S
  PROVE  /\ Append(s, e) \in Seq(S)
         /\ ToSet(Append(s, e)) = ToSet(s) \cup {e}
         /\ IsInjective(s) /\ e \notin ToSet(s) => IsInjective(Append(s, e))
<1> DEFINE r == Append(s, e)
<1>1. /\ r \in Seq(S) /\ Len(r) = Len(s) + 1 /\ r[Len(s) + 1] = e
      /\ \A i \in 1 .. Len(s) : r[i] = s[i]
  OBVIOUS
<1> HIDE DEF r
<1>2. ToSet(r) = ToSet(s) \cup {e}
  <2>1. ToSet(r) \subseteq ToSet(s) \cup {e}
    BY <1>1 DEF ToSet
  <2>2. \A i \in 1 .. Len(s) : s[i] \in ToSet(r)
    BY <1>1 DEF ToSet
  <2>3. e \in ToSet(r)
    BY <1>1 DEF ToSet
  <2> QED
    BY <2>1, <2>2, <2>3 DEF ToSet
<1>3. IsInjective(s) /\ e \notin ToSet(s) => IsInjective(r)
  BY <1>1 DEF ToSet, IsInjective
<1> QED
  BY <1>1, <1>2, <1>3 DEF r

-----------------------------------------------------------------------------
(* Stacks. *)

\* The coroutines that await the innermost one.
Below(s) == {s[k] : k \in 2 .. Len(s)}
\* What dial may be waiting for.
OpensMedia == {"initiate", "INVITE", "START"}

\* A suspended or running coroutine is replaced by the coroutines F.
LEMMA Replaced ==
  ASSUME NEW s \in Seq(Frames), s # <<>>, NEW F \in Seq(Frames)
  PROVE  LET n == F \o Tail(s) IN
         /\ n \in Seq(Frames) /\ Len(n) = Len(F) + Len(s) - 1
         /\ \A k \in 1 .. Len(F) : n[k] = F[k]
         /\ \A k \in Len(F) + 1 .. Len(n) : n[k] = s[k - Len(F) + 1]
         /\ ToSet(n) = ToSet(F) \cup Below(s)
         /\ F # <<>> => n # <<>> /\ Head(n) = Head(F)
         /\ F = <<>> /\ n # <<>> => Len(s) > 1 /\ Head(n) = s[2]
<1> DEFINE n == F \o Tail(s)
           r == Tail(s)
<1>1. /\ r \in Seq(Frames) /\ Len(r) = Len(s) - 1
      /\ \A k \in 1 .. Len(r) : r[k] = s[k + 1]
  OBVIOUS
<1>2. n = F \o r
  OBVIOUS
<1> HIDE DEF r, n
<1>3. n \in Seq(Frames) /\ Len(n) = Len(F) + Len(s) - 1
  BY <1>1, <1>2
<1>4. \A k \in 1 .. Len(F) : n[k] = F[k]
  BY <1>1, <1>2
<1>5. ASSUME NEW k \in Len(F) + 1 .. Len(n) PROVE n[k] = s[k - Len(F) + 1]
  <2>1. n[k] = r[k - Len(F)]
    BY <1>1, <1>2, <1>3
  <2>2. k - Len(F) \in 1 .. Len(r)
    BY <1>1, <1>3
  <2> QED
    BY <1>1, <2>1, <2>2
<1>6. ToSet(n) = ToSet(F) \cup Below(s)
  <2>1. \A k \in 1 .. Len(n) : n[k] \in ToSet(F) \cup Below(s)
    <3> TAKE k \in 1 .. Len(n)
    <3>1. CASE k <= Len(F)
      BY <1>4, <3>1 DEF ToSet
    <3>2. CASE k > Len(F)
      <4>1. k - Len(F) + 1 \in 2 .. Len(s)
        BY <1>3, <3>2
      <4> QED
        BY <1>5, <3>2, <4>1 DEF Below
    <3> QED
      BY <3>1, <3>2
  <2>2. \A k \in 1 .. Len(F) : F[k] \in ToSet(n)
    BY <1>3, <1>4 DEF ToSet
  <2>3. ASSUME NEW k \in 2 .. Len(s) PROVE s[k] \in ToSet(n)
    <3>1. /\ k + Len(F) - 1 \in Len(F) + 1 .. Len(n)
          /\ (k + Len(F) - 1) - Len(F) + 1 = k
      BY <1>3
    <3>2. n[k + Len(F) - 1] = s[k]
      BY <1>5, <3>1
    <3> QED
      BY <1>3, <3>1, <3>2 DEF ToSet
  <2>4. ToSet(n) \subseteq ToSet(F) \cup Below(s)
    BY <1>3, <2>1 DEF ToSet
  <2>5. ToSet(F) \subseteq ToSet(n)
    BY <2>2 DEF ToSet
  <2>6. Below(s) \subseteq ToSet(n)
    BY <2>3 DEF Below
  <2> QED
    BY <2>4, <2>5, <2>6
<1>7. F # <<>> => n # <<>> /\ Head(n) = Head(F)
  BY <1>3, <1>4
<1>8. ASSUME F = <<>>, n # <<>> PROVE Len(s) > 1 /\ Head(n) = s[2]
  BY <1>3, <1>5, <1>8
<1> QED
  BY <1>3, <1>4, <1>5, <1>6, <1>7, <1>8 DEF n

\* What may lie below the innermost coroutine.
LEMMA BelowHead ==
  ASSUME NEW s, StackOK(s), s # <<>>
  PROVE  /\ ToSet(s) = {Head(s)} \cup Below(s)
         /\ Head(s) \in Frames /\ FrameOK(Head(s))
         /\ \A f \in Below(s) :
              /\ f \in Frames /\ FrameOK(f) /\ f.op \in RunOps
              /\ f.op = "bye" => Head(s).op = "STOP"
              /\ f.op = "dialDone" => Head(s).op \in OpensMedia
              /\ f.op = "initiate" => f.i = 0
<1>1. s \in Seq(Frames) /\ Len(s) > 0 /\ Head(s) = s[1]
  BY DEF StackOK
<1>2. FrameOK(s[1]) /\ s[1] \in Frames
  BY <1>1 DEF StackOK, FrameOK
<1>3. \A k \in 1 .. Len(s) : k = 1 \/ k \in 2 .. Len(s)
  BY <1>1
<1>4. ToSet(s) = {Head(s)} \cup Below(s)
  BY <1>1, <1>3 DEF ToSet, Below
<1>5. ASSUME NEW k \in 2 .. Len(s)
      PROVE  /\ s[k] \in Frames /\ FrameOK(s[k]) /\ s[k].op \in RunOps
             /\ s[k].op = "bye" => s[1].op = "STOP"
             /\ s[k].op = "dialDone" => s[1].op \in OpensMedia
             /\ s[k].op = "initiate" => s[k].i = 0
  <2>1. k \in 1 .. Len(s) /\ k > 1
    BY <1>1
  <2> QED
    BY <1>1, <2>1 DEF StackOK, FrameOK, OpensMedia
<1> QED
  BY <1>1, <1>2, <1>4, <1>5 DEF Below

\* The innermost coroutine returns.
LEMMA StackPopped ==
  ASSUME NEW s, StackOK(s), s # <<>>
  PROVE  StackOK(<<>> \o Tail(s))
<1> DEFINE n == <<>> \o Tail(s)
<1>1. s \in Seq(Frames) /\ Len(<<>>) = 0 /\ <<>> \in Seq(Frames)
  BY DEF StackOK
<1>2. /\ n \in Seq(Frames) /\ Len(n) = Len(s) - 1
      /\ \A k \in 1 .. Len(n) : n[k] = s[k + 1]
  BY <1>1, Replaced
<1> HIDE DEF n
<1> SUFFICES ASSUME NEW k \in 1 .. Len(n)
             PROVE  /\ FrameOK(n[k]) /\ n[k].op \in RunOps
                    /\ k > 1 => n[k].op \notin {"bye", "dialDone"}
                    /\ n[k].op = "initiate" => n[k].i = 0
  BY <1>2 DEF StackOK, n
<1>3. k + 1 \in 1 .. Len(s) /\ k + 1 > 1 /\ n[k] = s[k + 1]
  BY <1>1, <1>2
<1> QED
  BY <1>3 DEF StackOK

\* The innermost coroutine awaits others.
LEMMA StackPushed ==
  ASSUME NEW s, StackOK(s), s # <<>>, NEW F, StackOK(F), F # <<>>,
         Head(s).op \notin OpensMedia \cup {"STOP"}
  PROVE  StackOK(F \o Tail(s))
<1> DEFINE n == F \o Tail(s)
<1>1. s \in Seq(Frames) /\ F \in Seq(Frames) /\ Len(F) > 0 /\ Head(s) = s[1]
  BY DEF StackOK
<1>2. /\ n \in Seq(Frames) /\ Len(n) = Len(F) + Len(s) - 1
      /\ \A k \in 1 .. Len(F) : n[k] = F[k]
      /\ \A k \in Len(F) + 1 .. Len(n) : n[k] = s[k - Len(F) + 1]
  BY <1>1, Replaced
<1> HIDE DEF n
<1>3. ASSUME NEW k \in 1 .. Len(F)
      PROVE  /\ FrameOK(n[k])
             /\ k > 1 => n[k].op \in RunOps
             /\ k > 1 /\ n[k].op = "bye" => k = 2 /\ n[1].op = "STOP"
             /\ k > 1 /\ n[k].op = "dialDone" =>
                  /\ k = 2 /\ n[1].op \in {"initiate", "INVITE", "START"}
                  /\ n[1].op = "initiate" => n[1].i = n[2].i
             /\ n[k].op = "initiate" /\ n[k].i # 0 =>
                  k = 1 /\ Len(n) > 1 /\ n[2].op = "dialDone"
  <2>1. n[k] = F[k] /\ n[1] = F[1] /\ (Len(F) > 1 => n[2] = F[2])
    BY <1>1, <1>2
  <2>2. Len(F) > 1 => Len(n) > 1
    BY <1>1, <1>2
  <2> QED
    BY <1>1, <2>1, <2>2 DEF StackOK
<1>4. ASSUME NEW k \in Len(F) + 1 .. Len(n)
      PROVE  /\ FrameOK(n[k]) /\ n[k].op \in RunOps
             /\ n[k].op \notin {"bye", "dialDone"}
             /\ n[k].op = "initiate" => n[k].i = 0
  <2>1. k - Len(F) + 1 \in 2 .. Len(s) /\ n[k] = s[k - Len(F) + 1]
    BY <1>1, <1>2
  <2>2. n[k] \in Below(s)
    BY <2>1 DEF Below
  <2> QED
    BY <2>2, BelowHead DEF OpensMedia
<1>5. \A k \in 1 .. Len(n) : k \in 1 .. Len(F) \/ k \in Len(F) + 1 .. Len(n)
  BY <1>1, <1>2
<1>6. StackOK(n)
  BY <1>1, <1>2, <1>3, <1>4, <1>5 DEF StackOK
<1> QED
  BY <1>6 DEF n

\* initiate_call sends its INVITE; answered, it starts the media.
LEMMA StackAdvanced ==
  ASSUME NEW s, StackOK(s), s # <<>>, Head(s).op \in {"initiate", "INVITE"},
         NEW f, FrameOK(f), f.op \in {"INVITE", "START"}
  PROVE  StackOK(<<f>> \o Tail(s))
<1> DEFINE n == <<f>> \o Tail(s)
           F == <<f>>
<1>1. s \in Seq(Frames) /\ F \in Seq(Frames) /\ Len(F) = 1 /\ F[1] = f
      /\ Head(s) = s[1] /\ Len(s) > 0
  BY DEF StackOK, FrameOK
<1> HIDE DEF F
<1>2. /\ n \in Seq(Frames) /\ Len(n) = Len(s) /\ n[1] = f
      /\ \A k \in 2 .. Len(n) : n[k] = s[k]
  <2>1. n = F \o Tail(s)
    BY DEF F
  <2> HIDE DEF n
  <2>2. /\ n \in Seq(Frames) /\ Len(n) = Len(F) + Len(s) - 1
        /\ \A k \in 1 .. Len(F) : n[k] = F[k]
        /\ \A k \in Len(F) + 1 .. Len(n) : n[k] = s[k - Len(F) + 1]
    BY <1>1, <2>1, Replaced
  <2>3. Len(n) = Len(s) /\ n[1] = f
    BY <1>1, <2>2
  <2>4. ASSUME NEW k \in 2 .. Len(n) PROVE n[k] = s[k]
    <3>1. k \in Len(F) + 1 .. Len(n) /\ k - Len(F) + 1 = k
      BY <1>1
    <3> QED
      BY <2>2, <3>1
  <2> QED
    BY <2>2, <2>3, <2>4
<1> HIDE DEF n
<1>3. ASSUME NEW k \in 2 .. Len(n)
      PROVE  /\ FrameOK(n[k]) /\ n[k].op \in RunOps /\ n[k].op # "bye"
             /\ n[k].op = "dialDone" => k = 2
             /\ n[k].op = "initiate" => n[k].i = 0
  <2>1. k \in 1 .. Len(s) /\ k > 1 /\ n[k] = s[k]
    BY <1>1, <1>2
  <2> QED
    BY <1>1, <2>1 DEF StackOK
<1>4. \A k \in 1 .. Len(n) : k = 1 \/ k \in 2 .. Len(n)
  BY <1>2
<1>5. StackOK(n)
  BY <1>2, <1>3, <1>4 DEF StackOK
<1> QED
  BY <1>5 DEF n

-----------------------------------------------------------------------------
(* Most steps are calm: they neither set up nor tear down a call, and what *)
(* they add to a task's stack is of no concern to the calls' life cycle.   *)

\* The coroutines that carry a call through its life.
LifeOps == {"bye", "INVITE", "START", "inviteIndex"}

\* No task gets further in the life of a call, and no dial is touched.
CalmStacks ==
  \A u \in Task :
    \/ stack'[u] = stack[u] /\ ret'[u] = ret[u]
    \/ /\ \A f \in ToSet(stack'[u]) :
            f.op # "dialDone" /\ (f.op \in LifeOps => f \in ToSet(stack[u]))
       /\ \A f \in ToSet(stack[u]) : f.op # "STOP"
       /\ stack[u] # <<>> => Head(stack[u]).op # "hangupCall"

\* No call gets another index, gets or loses media, or starts to ring.
CalmCalls ==
  \A c \in Dialog :
    /\ calls'[c].idx = calls[c].idx
    /\ calls'[c].media = "none" <=> calls[c].media = "none"
    /\ calls'[c].state \in {"none", "RINGING_IN"} => calls'[c].state = calls[c].state

\* No index is handed out, and no entry gets a Call-ID.
CalmRadio ==
  /\ nextIndex' = nextIndex
  /\ ToSet(voice_calls') \subseteq ToSet(voice_calls)
  /\ \A i \in 1 .. MaxIndex : radio'[i].sip = radio[i].sip

\* A step that makes or ends no call.
Calm ==
  /\ CalmStacks /\ CalmCalls /\ CalmRadio
  /\ UNCHANGED <<table, closed, torn>>

\* The parts of the invariant that a calm step cannot disturb.
LifeInv ==
  /\ FreshOK /\ ByeOK /\ SetupOK /\ LeakNeedsEarlyTeardown
  /\ DialOK /\ IndexOK /\ UpdatesReachOwnCall

\* What is listed is a call, or an index that was handed out.
LEMMA Known ==
  ASSUME TypeInv
  PROVE  /\ \A c \in ToSet(table) : c \in Dialog
         /\ \A i \in ToSet(voice_calls) : i \in 1 .. MaxIndex /\ i < nextIndex
<1>1. table \in Seq(Dialog) /\ voice_calls \in Seq(1 .. MaxIndex)
  BY DEF TypeInv, TableOK, RadioOK
<1>2. \A i \in ToSet(voice_calls) : i < nextIndex
  BY DEF TypeInv, RadioOK
<1> QED
  BY <1>1, <1>2, Members

\* Under a calm step nobody is in a worse position than before.
LEMMA CalmHas ==
  ASSUME CalmStacks, NEW u \in Task, NEW c, NEW op \in LifeOps, Has(u, op, c)'
  PROVE  Has(u, op, c)
BY DEF CalmStacks, Has

\* A calm step cannot disturb what the invariant says of the calls.
LEMMA CalmKeepsLife ==
  ASSUME TypeInv, LifeInv, Calm
  PROVE  LifeInv'
<1> USE DEF Calm
<1>1. ASSUME NEW u \in Task, NEW c PROVE Begins(u, c)' => Begins(u, c)
  BY CalmHas DEF Begins, LifeOps
<1>2. ASSUME NEW u \in Task, NEW c PROVE Has(u, "bye", c)' => Has(u, "bye", c)
  BY CalmHas DEF LifeOps
<1>3. ASSUME NEW u \in Task, NEW c PROVE Has(u, "INVITE", c)' => Has(u, "INVITE", c)
  BY CalmHas DEF LifeOps
<1>4. ASSUME NEW u \in Task, NEW c PROVE Has(u, "START", c)' => Has(u, "START", c)
  BY CalmHas DEF LifeOps
<1>5. FreshOK'
  BY <1>1, <1>2 DEF FreshOK, CalmCalls, LifeInv
<1>6. ByeOK'
  BY <1>2 DEF ByeOK, LifeInv
<1>7. SetupOK'
  BY <1>1, <1>3, <1>4 DEF SetupOK, CalmCalls, LifeInv
<1>8. LeakNeedsEarlyTeardown'
  <2> SUFFICES ASSUME NEW c \in Dialog, c \notin ToSet(table) \cup torn,
                      calls'[c].media # "none"
               PROVE  \E t \in Task : \E k \in DOMAIN stack'[t] :
                        stack'[t][k] = FrC("STOP", c)
    BY DEF LeakNeedsEarlyTeardown
  <2>1. PICK t \in Task : \E k \in DOMAIN stack[t] : stack[t][k] = FrC("STOP", c)
    BY DEF LeakNeedsEarlyTeardown, LifeInv, CalmCalls
  <2>2. FrC("STOP", c) \in ToSet(stack[t]) /\ FrC("STOP", c).op = "STOP"
    BY <2>1 DEF ToSet, FrC, Fr
  <2>3. stack'[t] = stack[t]
    BY <2>2 DEF CalmStacks
  <2> QED
    BY <2>1, <2>3
<1>9. DialOK'
  <2> SUFFICES ASSUME NEW t \in Task, NEW i \in 1 .. MaxIndex, Dialling(t, i)'
               PROVE  /\ i < nextIndex /\ radio'[i].sip = NoCall
                      /\ \A u \in Task : Dialling(u, i)' => u = t
                      /\ \A d \in ToSet(table) : calls'[d].idx = i =>
                           d = Callee(t)'
    BY DEF DialOK, CalmRadio
  <2>1. ASSUME NEW u \in Task, Dialling(u, i)'
        PROVE  stack'[u] = stack[u] /\ ret'[u] = ret[u] /\ Dialling(u, i)
    BY <2>1 DEF Dialling, CalmStacks
  <2>2. Callee(t)' = Callee(t) /\ Dialling(t, i)
    BY <2>1 DEF Callee
  <2> QED
    BY <2>1, <2>2, Known DEF DialOK, LifeInv, CalmCalls, CalmRadio
<1>10. IndexOK'
  <2> SUFFICES ASSUME NEW c \in ToSet(table)
               PROVE  /\ calls'[c].idx < nextIndex
                      /\ \A t \in Task : Has(t, "inviteIndex", c)' =>
                           Head(stack'[t]).op = "hangupCall" /\ Head(stack'[t]).c = c
    BY DEF IndexOK, CalmRadio
  <2>1. c \in Dialog
    BY Known
  <2>2. ASSUME NEW t \in Task, Has(t, "inviteIndex", c)'
        PROVE  Head(stack'[t]).op = "hangupCall" /\ Head(stack'[t]).c = c
    <3>1. Has(t, "inviteIndex", c)
      BY <2>2, CalmHas DEF LifeOps
    <3>2. Head(stack[t]).op = "hangupCall" /\ Head(stack[t]).c = c
      BY <3>1 DEF IndexOK, LifeInv
    <3>3. stack[t] # <<>>
      BY <3>1 DEF Has, ToSet
    <3> QED
      BY <3>2, <3>3 DEF CalmStacks
  <2> QED
    BY <2>1, <2>2 DEF IndexOK, LifeInv, CalmCalls
<1>11. UpdatesReachOwnCall'
  <2> QED
    BY Known DEF UpdatesReachOwnCall, LifeInv, CalmCalls, CalmRadio
<1> QED
  BY <1>5, <1>6, <1>7, <1>8, <1>9, <1>10, <1>11 DEF LifeInv

-----------------------------------------------------------------------------
(* The ways in which a step changes the stacks. *)

\* A coroutine that may start anywhere, and several of them.
Plain(f) == f \in Frames /\ FrameOK(f) /\ f.op \notin LifeOps \cup {"dialDone", "initiate"}
PlainRun(F) ==
  /\ F \in Seq(Frames)
  /\ \A k \in 1 .. Len(F) : Plain(F[k]) /\ (k > 1 => F[k].op \in RunOps)

\* Plain coroutines make a well-formed stack.
LEMMA PlainStack ==
  ASSUME NEW F, PlainRun(F)
  PROVE  StackOK(F)
BY DEF PlainRun, Plain, StackOK, LifeOps

\* No coroutine, one, or two.
LEMMA PlainFew ==
  /\ PlainRun(<<>>)
  /\ \A f : Plain(f) => PlainRun(<<f>>)
  /\ \A f, g : Plain(f) /\ Plain(g) /\ g.op \in RunOps => PlainRun(<<f, g>>)
<1>1. PlainRun(<<>>)
  BY DEF PlainRun
<1>2. ASSUME NEW f, Plain(f) PROVE PlainRun(<<f>>)
  <2>1. f \in Frames
    BY <1>2 DEF Plain
  <2>2. <<f>> \in Seq(Frames) /\ Len(<<f>>) = 1 /\ <<f>>[1] = f
    BY <2>1
  <2> QED
    BY <1>2, <2>2 DEF PlainRun
<1>3. ASSUME NEW f, NEW g, Plain(f), Plain(g), g.op \in RunOps
      PROVE  PlainRun(<<f, g>>)
  <2>1. f \in Frames /\ g \in Frames
    BY <1>3 DEF Plain
  <2> DEFINE F == <<f, g>>
  <2>2. F \in Seq(Frames) /\ Len(F) = 2 /\ F[1] = f /\ F[2] = g
    BY <2>1
  <2> HIDE DEF F
  <2>3. PlainRun(F)
    BY <1>3, <2>2 DEF PlainRun
  <2> QED
    BY <2>3 DEF F
<1> QED
  BY <1>1, <1>2, <1>3

\* Plain coroutines followed by others.
LEMMA PlainConcat ==
  ASSUME NEW F, PlainRun(F), NEW G, PlainRun(G), \A k \in 1 .. Len(G) : G[k].op \in RunOps
  PROVE  PlainRun(F \o G)
<1> DEFINE H == F \o G
<1>1. /\ F \in Seq(Frames) /\ G \in Seq(Frames)
      /\ H \in Seq(Frames) /\ Len(H) = Len(F) + Len(G)
  BY DEF PlainRun
<1>2. \A k \in 1 .. Len(F) : H[k] = F[k]
  BY <1>1
<1>3. \A k \in Len(F) + 1 .. Len(H) : H[k] = G[k - Len(F)] /\ k - Len(F) \in 1 .. Len(G)
  BY <1>1
<1> HIDE DEF H
<1>4. ASSUME NEW k \in 1 .. Len(H)
      PROVE  Plain(H[k]) /\ (k > 1 => H[k].op \in RunOps)
  <2>1. CASE k <= Len(F)
    BY <1>1, <1>2, <2>1 DEF PlainRun
  <2>2. CASE k > Len(F)
    <3>1. k \in Len(F) + 1 .. Len(H)
      BY <1>1, <2>2
    <3> QED
      BY <1>3, <3>1 DEF PlainRun
  <2> QED
    BY <1>1, <2>1, <2>2
<1>5. PlainRun(H)
  BY <1>1, <1>4 DEF PlainRun
<1> QED
  BY <1>5 DEF H

\* The fields of frames.
LEMMA FrameFields ==
  /\ \A op, c, i, j : LET f == Fr(op, c, i, j) IN
       f.op = op /\ f.c = c /\ f.i = i /\ f.j = j
  /\ \A op, c : FrC(op, c).op = op /\ FrC(op, c).c = c /\ FrC(op, c).i = 0
  /\ \A op, i : FrI(op, i).op = op /\ FrI(op, i).c = NoCall /\ FrI(op, i).i = i
BY DEF FrC, FrI, Fr

\* Frames that are plain whatever their arguments, and those that are not.
LooseOps == RunOps \ {"bye", "initiate", "dialDone", "inviteIndex", "notify",
                      "holdDone", "resumeDone", "hangupIf", "switchScan"}
\* The coroutines that requests and handlers await are plain.
LEMMA PlainFrames ==
  /\ \A op \in LooseOps : \A c \in Dialog \cup {NoCall} :
       \A i \in 0 .. MaxIndex + 1 : \A j \in 0 .. MaxIndex : Plain(Fr(op, c, i, j))
  /\ \A op \in LooseOps : \A c \in Dialog \cup {NoCall} : Plain(FrC(op, c))
  /\ \A op \in LooseOps : \A i \in 0 .. MaxIndex + 1 : Plain(FrI(op, i))
  /\ \A op \in (AwaitOps \ {"INVITE"}) \cup
                {"STOP", "notify", "holdDone", "resumeDone"} :
       \A c \in Dialog : Plain(FrC(op, c))
  /\ \A i \in 1 .. MaxIndex : Plain(FrI("hangupIf", i))
  /\ \A k \in 1 .. MaxIndex + 1 : \A w \in 1 .. MaxIndex :
       Plain(Fr("switchScan", NoCall, k, w))
<1> USE CallsAssumption
    DEF FrC, FrI, Fr, Plain, Frames, FrameOK, RunOps, AwaitOps, MediaOps, LifeOps, LooseOps
<1>1. ASSUME NEW op \in LooseOps, NEW c \in Dialog \cup {NoCall},
             NEW i \in 0 .. MaxIndex + 1, NEW j \in 0 .. MaxIndex
      PROVE  Plain(Fr(op, c, i, j))
  OBVIOUS
<1>2. 0 \in 0 .. MaxIndex /\ 0 \in 0 .. MaxIndex + 1 /\ NoCall \in Dialog \cup {NoCall}
  OBVIOUS
<1>3. ASSUME NEW op \in (AwaitOps \ {"INVITE"}) \cup
                         {"STOP", "notify", "holdDone", "resumeDone"},
             NEW c \in Dialog
      PROVE  Plain(FrC(op, c))
  OBVIOUS
<1>4. ASSUME NEW i \in 1 .. MaxIndex PROVE Plain(FrI("hangupIf", i))
  OBVIOUS
<1>5. ASSUME NEW k \in 1 .. MaxIndex + 1, NEW w \in 1 .. MaxIndex
      PROVE  Plain(Fr("switchScan", NoCall, k, w))
  OBVIOUS
<1>6. \A op \in LooseOps : \A c \in Dialog \cup {NoCall} : Plain(FrC(op, c))
  BY <1>1, <1>2
<1>7. \A op \in LooseOps : \A i \in 0 .. MaxIndex + 1 : Plain(FrI(op, i))
  BY <1>1, <1>2
<1> QED
  BY <1>1, <1>3, <1>4, <1>5, <1>6, <1>7

\* The running coroutine of t awaits plain ones, or suspends.
LEMMA CalmPut ==
  ASSUME StacksOK, NEW t \in Task, stack[t] # <<>>, NEW F, PlainRun(F),
         Head(stack[t]).op \notin OpensMedia \cup {"STOP", "hangupCall"},
         stack' = [stack EXCEPT ![t] = F \o Tail(stack[t])],
         \A u \in Task \ {t} : ret'[u] = ret[u]
  PROVE  StacksOK' /\ CalmStacks
<1>1. StackOK(stack[t]) /\ stack[t] \in Seq(Frames) /\ StackOK(F)
  BY PlainStack DEF StacksOK
<1>2. StackOK(F \o Tail(stack[t]))
  <2>1. CASE F = <<>>
    BY <1>1, <2>1, StackPopped
  <2>2. CASE F # <<>>
    BY <1>1, <2>2, StackPushed
  <2> QED
    BY <2>1, <2>2
<1>3. StacksOK'
  BY <1>2 DEF StacksOK, StackOK
<1>4. ToSet(stack'[t]) = ToSet(F) \cup Below(stack[t])
  BY <1>1, Replaced DEF StacksOK, PlainRun
<1>5. \A f \in ToSet(F) : f.op \notin LifeOps \cup {"dialDone"}
  BY DEF PlainRun, Plain, ToSet
<1>6. /\ ToSet(stack[t]) = {Head(stack[t])} \cup Below(stack[t])
      /\ \A f \in Below(stack[t]) : f.op \in RunOps /\ f.op # "dialDone"
  BY <1>1, BelowHead
<1>7. \A f \in ToSet(stack[t]) : f.op # "STOP"
  BY <1>6 DEF RunOps
<1>8. \A f \in ToSet(stack'[t]) :
        f.op # "dialDone" /\ (f.op \in LifeOps => f \in ToSet(stack[t]))
  BY <1>4, <1>5, <1>6
<1>9. \A u \in Task \ {t} : stack'[u] = stack[u]
  BY DEF StacksOK
<1> QED
  BY <1>3, <1>7, <1>8, <1>9 DEF CalmStacks

\* A task begins with plain coroutines.
LEMMA CalmBegin ==
  ASSUME StacksOK, NEW t \in Task, stack[t] = <<>>, NEW F, PlainRun(F),
         stack' = [stack EXCEPT ![t] = F], ret' = ret
  PROVE  StacksOK' /\ CalmStacks
<1>1. StackOK(F) /\ F \in Seq(Frames)
  BY PlainStack DEF PlainRun
<1>2. StacksOK'
  BY <1>1 DEF StacksOK
<1>3. \A f \in ToSet(F) : f.op \notin LifeOps \cup {"dialDone"}
  BY DEF PlainRun, Plain, ToSet
<1>4. ToSet(stack[t]) = {}
  BY DEF ToSet
<1>5. stack'[t] = F /\ \A u \in Task \ {t} : stack'[u] = stack[u]
  BY DEF StacksOK
<1> QED
  BY <1>2, <1>3, <1>4, <1>5 DEF CalmStacks

\* A task dies of an exception.
LEMMA CalmEnd ==
  ASSUME StacksOK, NEW t \in Task, stack[t] # <<>>,
         Head(stack[t]).op \notin {"STOP", "hangupCall"},
         stack' = [stack EXCEPT ![t] = <<>>], ret' = ret
  PROVE  StacksOK' /\ CalmStacks
<1>1. StacksOK'
  BY DEF StacksOK, StackOK
<1>2. ToSet(stack'[t]) = {} /\ \A u \in Task \ {t} : stack'[u] = stack[u]
  BY DEF StacksOK, ToSet
<1>3. \A f \in ToSet(stack[t]) : f.op # "STOP"
  BY BelowHead DEF StacksOK, RunOps
<1> QED
  BY <1>1, <1>2, <1>3 DEF CalmStacks

-----------------------------------------------------------------------------
(* Futures.  A task that goes on is not waited for by any future, so that  *)
(* only a new request, a response or a timeout can matter.                 *)

\* What a step of task t does to the futures: nothing, or it sends a request.
Waits(t) ==
  /\ \A u \in Task \ {t} : stack'[u] = stack[u] /\ resp'[u] = resp[u]
  /\ stack[t] = <<>> \/ Frame(t).op \notin AwaitOps \/ resp[t] # NoResp
  /\ \/ pending' = pending
     \/ \E c \in Dialog :
          /\ pending' = [pending EXCEPT ![c] = t] /\ resp'[t] = NoResp
          /\ stack'[t] # <<>> /\ Head(stack'[t]).op \in AwaitOps
          /\ Head(stack'[t]).c = c

\* A registered future keeps its waiter.
LEMMA WaitsKeepsFutures ==
  ASSUME WaitOK, NEW t \in Task, Waits(t), PendingHasWaiter
  PROVE  PendingHasWaiter'
<1>1. \A c \in Dialog : pending[c] # t \/ Idle = t
  BY DEF Waits, PendingHasWaiter
<1> SUFFICES ASSUME NEW c \in Dialog, pending'[c] # Idle
             PROVE  /\ stack'[pending'[c]] # <<>>
                    /\ Head(stack'[pending'[c]]).op \in AwaitOps
                    /\ Head(stack'[pending'[c]]).c = c
                    /\ resp'[pending'[c]] = NoResp
  BY DEF PendingHasWaiter, Frame
<1>2. CASE pending'[c] = pending[c]
  <2>1. pending[c] \in Task \ {t}
    BY <1>1, <1>2 DEF WaitOK
  <2> QED
    BY <1>2, <2>1 DEF Waits, PendingHasWaiter, Frame
<1>3. CASE pending'[c] # pending[c]
  BY <1>3 DEF Waits, WaitOK
<1> QED
  BY <1>2, <1>3

-----------------------------------------------------------------------------
(* RadioHAL's requests.  Each lemma shows that an action keeps the types   *)
(* and is calm.                                                            *)

\* A step of task t that keeps the life of every call.
CalmStep(t) == TypeInv' /\ Calm /\ Waits(t)

\* The operations below which nothing of a call's life cycle is waiting.
CalmOps == (RunOps \ {"initiate", "hangupCall"}) \cup (AwaitOps \ {"INVITE"})

\* The innermost coroutine of t goes on and awaits plain ones.
LEMMA CalmBecome ==
  ASSUME TypeInv, NEW t \in Task, stack[t] # <<>>, Frame(t).op \in CalmOps,
         NEW F, PlainRun(F), Become(t, F), \A u \in Task \ {t} : ret'[u] = ret[u]
  PROVE  /\ StacksOK' /\ CalmStacks /\ cpu' \in Task \cup {Idle}
         /\ \A u \in Task \ {t} : stack'[u] = stack[u]
<1>1. stack' = [stack EXCEPT ![t] = F \o Tail(stack[t])]
  BY DEF Become, Runs
<1>2. cpu' \in Task \cup {Idle}
  BY DEF Become, Runs
<1>3. Head(stack[t]).op \notin OpensMedia \cup {"STOP", "hangupCall"}
  BY DEF Frame, CalmOps, RunOps, AwaitOps, OpensMedia
<1>4. StacksOK' /\ CalmStacks
  BY <1>1, <1>3, CalmPut DEF TypeInv
<1>5. \A u \in Task \ {t} : stack'[u] = stack[u]
  BY <1>1 DEF TypeInv, StacksOK
<1> QED
  BY <1>2, <1>4, <1>5

\* It suspends.
LEMMA CalmSuspend ==
  ASSUME TypeInv, NEW t \in Task, stack[t] # <<>>, Frame(t).op \in CalmOps,
         NEW f, PlainRun(<<f>>), Suspend(t, f), \A u \in Task \ {t} : ret'[u] = ret[u]
  PROVE  /\ StacksOK' /\ CalmStacks /\ cpu' \in Task \cup {Idle}
         /\ \A u \in Task \ {t} : stack'[u] = stack[u]
         /\ stack'[t] # <<>> /\ Head(stack'[t]) = f
<1>1. stack' = [stack EXCEPT ![t] = <<f>> \o Tail(stack[t])] /\ cpu' = Idle
  BY DEF Suspend
<1>2. Head(stack[t]).op \notin OpensMedia \cup {"STOP", "hangupCall"}
  BY DEF Frame, CalmOps, RunOps, AwaitOps, OpensMedia
<1>3. StacksOK' /\ CalmStacks
  BY <1>1, <1>2, CalmPut DEF TypeInv
<1>4. \A u \in Task \ {t} : stack'[u] = stack[u]
  BY <1>1 DEF TypeInv, StacksOK
<1>5. stack'[t] = <<f>> \o Tail(stack[t])
  BY <1>1 DEF TypeInv, StacksOK
<1>6. stack[t] \in Seq(Frames) /\ <<f>> \in Seq(Frames)
  BY DEF TypeInv, StacksOK, PlainRun
<1>7. stack'[t] # <<>> /\ Head(stack'[t]) = f
  BY <1>5, <1>6
<1> QED
  BY <1>1, <1>3, <1>4, <1>7

\* A task that is not suspended in a request is in no future's way.
LEMMA Unawaited ==
  ASSUME NEW t \in Task, stack[t] # <<>>, Frame(t).op \in RunOps,
         \A u \in Task \ {t} : stack'[u] = stack[u], UNCHANGED <<pending, resp>>
  PROVE  Waits(t)
BY DEF Waits, RunOps, AwaitOps

\* Steps that change nothing but the stack of t.
LEMMA StackOnly ==
  ASSUME TypeInv, NEW t \in Task, stack[t] # <<>>,
         Frame(t).op \in RunOps \ {"initiate", "hangupCall"},
         NEW F, PlainRun(F), Become(t, F),
         UNCHANGED <<radioVars, sipVars, waitVars, ret, peerVars, histVars, env>>
  PROVE  CalmStep(t)
<1> USE DEF radioVars, sipVars, waitVars, peerVars, histVars
<1>1. /\ StacksOK' /\ CalmStacks /\ cpu' \in Task \cup {Idle}
      /\ \A u \in Task \ {t} : stack'[u] = stack[u]
  BY CalmBecome DEF CalmOps
<1>2. RadioOK' /\ CalmRadio
  BY DEF TypeInv, RadioOK, CalmRadio
<1>3. TableOK' /\ CalmCalls
  BY DEF TypeInv, TableOK, CalmCalls
<1>4. WaitOK'
  BY <1>1 DEF TypeInv, WaitOK
<1>5. PeerOK'
  BY DEF TypeInv, PeerOK
<1>6. Waits(t)
  BY <1>1, Unawaited
<1> QED
  BY <1>1, <1>2, <1>3, <1>4, <1>5, <1>6 DEF CalmStep, TypeInv, Calm

\* hangup ends nothing by itself: hangup_call does.
LEMMA hangupCalm ==
  ASSUME TypeInv, NEW t \in Task, hangup(t)
  PROVE  CalmStep(t)
<1> DEFINE i == Frame(t).i
           F == (IF radio[i].sip = NoCall THEN <<>>
                 ELSE <<FrC("hangupCall", radio[i].sip)>>) \o <<FrI("hangupDone", i)>>
<1>1. stack[t] # <<>> /\ Frame(t).op \in RunOps \ {"initiate", "hangupCall"}
  BY DEF hangup, Running, Frame, RunOps
<1>2. UNCHANGED <<radioVars, sipVars, waitVars, ret, peerVars, histVars, env>>
  BY DEF hangup, RadioUnchanged
<1>3. CASE i \notin ToSet(voice_calls) /\ Return(t)
  BY <1>1, <1>2, <1>3, StackOnly, PlainFew DEF Return
<1>4. CASE i \in ToSet(voice_calls) /\ Become(t, F)
  <2>1. i \in 1 .. MaxIndex /\ radio[i].sip \in Dialog \cup {NoCall}
    BY <1>4, Known DEF TypeInv, RadioOK
  <2>2. PlainRun(F)
    <3> DEFINE f == FrC("hangupCall", radio[i].sip)
               g == FrI("hangupDone", i)
    <3>1. Plain(f) /\ Plain(g) /\ g.op \in RunOps
      <4>1. i \in 0 .. MaxIndex + 1 /\ {"hangupCall", "hangupDone"} \subseteq LooseOps
        BY <2>1, CallsAssumption DEF LooseOps, RunOps
      <4> QED
        BY <2>1, <4>1, PlainFrames DEF LooseOps, FrI, Fr
    <3> HIDE DEF f, g
    <3>2. PlainRun(<<>>) /\ PlainRun(<<f>>) /\ PlainRun(<<g>>)
      BY <3>1, PlainFew
    <3>3. \A k \in 1 .. Len(<<g>>) : <<g>>[k].op \in RunOps
      BY <3>1
    <3>4. PlainRun((IF radio[i].sip = NoCall THEN <<>> ELSE <<f>>) \o <<g>>)
      BY <3>2, <3>3, PlainConcat
    <3> QED
      BY <3>4 DEF f, g
  <2> QED
    BY <1>1, <1>2, <1>4, <2>2, StackOnly
<1> QED
  BY <1>3, <1>4 DEF hangup

\* The frame at work is well-formed.
LEMMA HeadFrame ==
  ASSUME TypeInv, NEW t \in Task, stack[t] # <<>>
  PROVE  Frame(t) \in Frames /\ FrameOK(Frame(t))
BY BelowHead DEF TypeInv, StacksOK, Frame

\* The entries of radio's calls refer to calls or to nothing.
LEMMA RadioSips ==
  ASSUME TypeInv
  PROVE  \A i \in 1 .. MaxIndex : radio[i].sip \in Dialog \cup {NoCall}
BY DEF TypeInv, RadioOK

\* The positions of a call in a certain state are positions of the table.
LEMMA CallPositions ==
  ASSUME TypeInv, NEW s
  PROVE  /\ FirstIn(s) # 0 => FirstIn(s) \in 1 .. Len(table) /\ table[FirstIn(s)] \in Dialog
         /\ LastIn(s) # 0 => LastIn(s) \in 1 .. Len(table) /\ table[LastIn(s)] \in Dialog
         /\ LastIn(s) # 0 => table[LastIn(s)] \in ToSet(table)
                               /\ calls[table[LastIn(s)]].state = s
<1> DEFINE I == {k \in 1 .. Len(table) : calls[table[k]].state = s}
<1>1. /\ FirstIn(s) = IF I # {} THEN Min(I) ELSE 0
      /\ LastIn(s) = IF I # {} THEN Max(I) ELSE 0
  BY DEF FirstIn, LastIn, SelectInSeq, SelectLastInSeq
<1>2. table \in Seq(Dialog) /\ Len(table) \in Nat
  BY DEF TypeInv, TableOK
<1>3. I \in SUBSET (1 .. Len(table)) /\ \A k \in I : calls[table[k]].state = s
  OBVIOUS
<1> HIDE DEF I
<1>4. I # {} => Min(I) \in I /\ Max(I) \in I
  BY <1>2, <1>3, FirstPosition, LastPosition
<1>5. \A k \in 1 .. Len(table) : table[k] \in Dialog /\ table[k] \in ToSet(table)
  BY <1>2 DEF ToSet
<1> QED
  BY <1>1, <1>3, <1>4, <1>5

\* hangup_all only lists what it is going to hang up.
LEMMA hangupAllCalm ==
  ASSUME TypeInv, NEW t \in Task, hangupAll(t)
  PROVE  CalmStep(t)
<1> DEFINE G == [k \in 1 .. Len(voice_calls) |-> FrI("hangupIf", voice_calls[k])]
           g == FrI("clear", 1)
<1>1. stack[t] # <<>> /\ Frame(t).op \in RunOps \ {"initiate", "hangupCall"}
  BY DEF hangupAll, Running, Frame, RunOps
<1>2. UNCHANGED <<radioVars, sipVars, waitVars, ret, peerVars, histVars, env>>
  BY DEF hangupAll, RadioUnchanged
<1>3. voice_calls \in Seq(1 .. MaxIndex) /\ MaxIndex \in Nat
  BY CallsAssumption DEF TypeInv, RadioOK
<1>4. PlainRun(G)
  <2>1. \A k \in 1 .. Len(voice_calls) : voice_calls[k] \in 1 .. MaxIndex
    BY <1>3
  <2>2. \A k \in 1 .. Len(voice_calls) : Plain(G[k]) /\ G[k].op \in RunOps
    BY <2>1, PlainFrames DEF FrI, Fr, RunOps
  <2>3. G \in Seq(Frames) /\ Len(G) = Len(voice_calls)
    BY <1>3, <2>2 DEF Plain
  <2> HIDE DEF G
  <2> QED
    BY <2>2, <2>3 DEF PlainRun
<1>5. Plain(g) /\ g.op \in RunOps
  <2>1. "clear" \in LooseOps /\ 1 \in 0 .. MaxIndex + 1
    BY <1>3 DEF LooseOps, RunOps
  <2> QED
    BY <2>1, PlainFrames DEF LooseOps, FrI, Fr
<1>6. Become(t, G \o <<g>>)
  BY DEF hangupAll
<1> HIDE DEF G, g
<1>7. PlainRun(<<g>>) /\ \A k \in 1 .. Len(<<g>>) : <<g>>[k].op \in RunOps
  BY <1>5, PlainFew
<1>8. PlainRun(G \o <<g>>)
  BY <1>4, <1>7, PlainConcat
<1> QED
  BY <1>1, <1>2, <1>6, <1>8, StackOnly

\* One round of the loop of hangup_all.
LEMMA hangupIfCalm ==
  ASSUME TypeInv, NEW t \in Task, hangupIf(t)
  PROVE  CalmStep(t)
<1> DEFINE c == radio[Frame(t).i].sip
           F == IF c = NoCall THEN <<>> ELSE <<FrC("hangupCall", c)>>
<1>1. /\ stack[t] # <<>> /\ Frame(t).op = "hangupIf"
      /\ Frame(t).op \in RunOps \ {"initiate", "hangupCall"}
  BY DEF hangupIf, Running, Frame, RunOps
<1>2. UNCHANGED <<radioVars, sipVars, waitVars, ret, peerVars, histVars, env>>
  BY DEF hangupIf, RadioUnchanged
<1>3. Frame(t).i \in 1 .. MaxIndex
  BY <1>1, HeadFrame DEF FrameOK
<1>4. c \in Dialog \cup {NoCall}
  BY <1>3, RadioSips
<1>5. Become(t, F)
  BY DEF hangupIf
<1> HIDE DEF c
<1>6. PlainRun(F)
  BY <1>4, PlainFrames, PlainFew DEF LooseOps, RunOps
<1> HIDE DEF F
<1> QED
  BY <1>1, <1>2, <1>5, <1>6, StackOnly

\* switch_waiting_or_holding_and_active only chooses what to await.
LEMMA switchCalm ==
  ASSUME TypeInv, NEW t \in Task, switch(t)
  PROVE  CalmStep(t)
<1> DEFINE I == {k \in 1 .. Len(voice_calls) : radio[voice_calls[k]].state = "WAITING"}
           w == IF I # {} THEN Min(I) ELSE 0
           a == FirstIn("ACTIVE")
           h == FirstIn("HELD")
           sw == IF a = 0 THEN <<>> ELSE <<FrC("hold", table[a])>>
           rs == IF h = 0 THEN <<>> ELSE <<FrC("resume", table[h])>>
           scan == Fr("switchScan", NoCall, 1, voice_calls[w])
<1>1. stack[t] # <<>> /\ Frame(t).op \in RunOps \ {"initiate", "hangupCall"}
  BY DEF switch, Running, Frame, RunOps
<1>2. UNCHANGED <<radioVars, sipVars, waitVars, ret, peerVars, histVars, env>>
  BY DEF switch, RadioUnchanged
<1>3. Become(t, IF w # 0 THEN <<scan>> ELSE sw \o rs)
  BY DEF switch, SelectInSeq
<1>4. voice_calls \in Seq(1 .. MaxIndex) /\ MaxIndex \in Nat /\ Len(voice_calls) \in Nat
  BY CallsAssumption DEF TypeInv, RadioOK
<1>5. CASE w # 0
  <2>1. I \in SUBSET (1 .. Len(voice_calls)) /\ I # {} /\ w = Min(I)
    BY <1>5
  <2> HIDE DEF I, w
  <2>2. w \in 1 .. Len(voice_calls)
    BY <1>4, <2>1, FirstPosition
  <2>3. voice_calls[w] \in 1 .. MaxIndex /\ 1 \in 1 .. MaxIndex + 1
    BY <1>4, <2>2
  <2>4. Plain(scan)
    BY <2>3, PlainFrames
  <2> HIDE DEF scan
  <2>5. PlainRun(<<scan>>)
    BY <2>4, PlainFew
  <2> QED
    BY <1>1, <1>2, <1>3, <1>5, <2>5, StackOnly
<1>6. CASE w = 0
  <2>1. PlainRun(sw)
    BY CallPositions, PlainFrames, PlainFew DEF LooseOps, RunOps
  <2>2. PlainRun(rs) /\ \A k \in 1 .. Len(rs) : rs[k].op \in RunOps
    <3>1. CASE h = 0
      BY <3>1, PlainFew
    <3>2. CASE h # 0
      <4> DEFINE g == FrC("resume", table[h])
      <4>1. Plain(g) /\ g.op \in RunOps
        BY <3>2, CallPositions, PlainFrames DEF LooseOps, RunOps, FrC, Fr
      <4>2. rs = <<g>>
        BY <3>2
      <4> HIDE DEF g, rs
      <4> QED
        BY <4>1, <4>2, PlainFew
    <3> QED
      BY <3>1, <3>2
  <2> HIDE DEF sw, rs, w
  <2>3. PlainRun(sw \o rs)
    BY <2>1, <2>2, PlainConcat
  <2>4. Become(t, sw \o rs)
    BY <1>3, <1>6
  <2> QED
    BY <1>1, <1>2, <2>3, <2>4, StackOnly
<1> QED
  BY <1>5, <1>6

\* explicit_call_transfer up to the transfer.
LEMMA ectCalm ==
  ASSUME TypeInv, NEW t \in Task, ect(t)
  PROVE  CalmStep(t)
<1> DEFINE A == {k \in 1 .. Len(voice_calls) : radio[voice_calls[k]].state = "ACTIVE"}
           H == {k \in 1 .. Len(voice_calls) : radio[voice_calls[k]].state = "HOLDING"}
           a == IF A # {} THEN Max(A) ELSE 0
           h == IF H # {} THEN Max(H) ELSE 0
           f == FrC("transfer", radio[voice_calls[h]].sip)
           g == Fr("ectDone", NoCall, voice_calls[a], voice_calls[h])
<1>1. stack[t] # <<>> /\ Frame(t).op \in RunOps \ {"initiate", "hangupCall"}
  BY DEF ect, Running, Frame, RunOps
<1>2. UNCHANGED <<radioVars, sipVars, waitVars, ret, peerVars, histVars, env>>
  BY DEF ect, RadioUnchanged
<1>3. Become(t, IF a = 0 \/ h = 0 THEN <<>> ELSE <<f, g>>)
  BY DEF ect, SelectLastInSeq
<1>4. voice_calls \in Seq(1 .. MaxIndex) /\ MaxIndex \in Nat /\ Len(voice_calls) \in Nat
  BY CallsAssumption DEF TypeInv, RadioOK
<1>5. /\ a # 0 => a \in 1 .. Len(voice_calls)
      /\ h # 0 => h \in 1 .. Len(voice_calls)
  <2>1. A \in SUBSET (1 .. Len(voice_calls)) /\ H \in SUBSET (1 .. Len(voice_calls))
    OBVIOUS
  <2> HIDE DEF A, H
  <2> QED
    BY <1>4, <2>1, LastPosition
<1> HIDE DEF a, h
<1>6. CASE a = 0 \/ h = 0
  BY <1>1, <1>2, <1>3, <1>6, StackOnly, PlainFew
<1>7. CASE a # 0 /\ h # 0
  <2>1. voice_calls[a] \in 1 .. MaxIndex /\ voice_calls[h] \in 1 .. MaxIndex
    BY <1>4, <1>5, <1>7
  <2>2. radio[voice_calls[h]].sip \in Dialog \cup {NoCall}
    BY <2>1, RadioSips
  <2>3. Plain(f)
    BY <2>2, PlainFrames DEF LooseOps, RunOps
  <2>4. Plain(g) /\ g.op \in RunOps
    <3>1. /\ "ectDone" \in LooseOps /\ "ectDone" \in RunOps
          /\ voice_calls[a] \in 0 .. MaxIndex + 1 /\ voice_calls[h] \in 0 .. MaxIndex
          /\ NoCall \in Dialog \cup {NoCall}
      BY <1>4, <2>1 DEF LooseOps, RunOps
    <3> QED
      BY <3>1, PlainFrames, FrameFields
  <2> HIDE DEF f, g
  <2>5. PlainRun(<<f, g>>)
    BY <2>3, <2>4, PlainFew
  <2> QED
    BY <1>1, <1>2, <1>3, <1>7, <2>5, StackOnly
<1> QED
  BY <1>6, <1>7

\* A task dies at work, not while it stops media.
LEMMA CalmAbort ==
  ASSUME TypeInv, NEW t \in Task, stack[t] # <<>>, Frame(t).op \in CalmOps \cup {"INVITE"},
         Abort(t), ret' = ret
  PROVE  /\ StacksOK' /\ CalmStacks /\ cpu' \in Task \cup {Idle}
         /\ \A u \in Task \ {t} : stack'[u] = stack[u]
         /\ aborted' \subseteq Task
<1>1. stack' = [stack EXCEPT ![t] = <<>>] /\ cpu' = Idle /\ aborted' = aborted \cup {t}
  BY DEF Abort
<1>2. Head(stack[t]).op \notin {"STOP", "hangupCall"}
  BY DEF Frame, CalmOps, RunOps, AwaitOps
<1>3. StacksOK' /\ CalmStacks
  BY <1>1, <1>2, CalmEnd DEF TypeInv
<1> QED
  BY <1>1, <1>3 DEF TypeInv, StacksOK, PeerOK

\* Steps of RadioHAL that change nothing but the list of calls.
LEMMA RadioOnly ==
  ASSUME TypeInv, NEW t \in Task, stack[t] # <<>>, Frame(t).op \in RunOps,
         StacksOK', CalmStacks, cpu' \in Task \cup {Idle},
         \A u \in Task \ {t} : stack'[u] = stack[u],
         RadioOK', CalmRadio, answered' \subseteq Mt, aborted' \subseteq Task,
         UNCHANGED <<sipVars, waitVars, ret, peerVars, closed, torn, env>>
  PROVE  CalmStep(t)
<1> USE DEF sipVars, waitVars, peerVars
<1>1. TableOK' /\ CalmCalls
  BY DEF TypeInv, TableOK, CalmCalls
<1>2. WaitOK' /\ PeerOK'
  BY DEF TypeInv, WaitOK, PeerOK
<1>3. Waits(t)
  BY Unawaited
<1> QED
  BY <1>1, <1>2, <1>3 DEF CalmStep, TypeInv, Calm

\* Entries are removed from the list.
LEMMA Shorter ==
  ASSUME TypeInv, UNCHANGED <<radio, nextIndex>>,
         voice_calls' \in Seq(1 .. MaxIndex), IsInjective(voice_calls'),
         ToSet(voice_calls') \subseteq ToSet(voice_calls)
  PROVE  RadioOK' /\ CalmRadio
BY DEF TypeInv, RadioOK, CalmRadio

\* Entries change their state.
LEMMA Restated ==
  ASSUME TypeInv, UNCHANGED <<voice_calls, nextIndex>>,
         radio' \in [1 .. MaxIndex -> [state: RadioStates, mpty: BOOLEAN,
                                       sip: Dialog \cup {NoCall}]],
         \A i \in 1 .. MaxIndex : radio'[i].sip = radio[i].sip
  PROVE  RadioOK' /\ CalmRadio
BY DEF TypeInv, RadioOK, CalmRadio

\* One entry changes its state.
LEMMA RadioWrite ==
  ASSUME TypeInv, UNCHANGED <<voice_calls, nextIndex>>,
         NEW i \in 1 .. MaxIndex, NEW s \in RadioStates,
         radio' = [radio EXCEPT ![i].state = s]
  PROVE  RadioOK' /\ CalmRadio
<1> DEFINE Entry == [state: RadioStates, mpty: BOOLEAN, sip: Dialog \cup {NoCall}]
           E == 1 .. MaxIndex
<1>1. radio \in [E -> Entry]
  BY DEF TypeInv, RadioOK
<1>2. \A e \in Entry : [e EXCEPT !.state = s] \in Entry /\ [e EXCEPT !.state = s].sip = e.sip
  OBVIOUS
<1>3. i \in E /\ radio' = [radio EXCEPT ![i] = [radio[i] EXCEPT !.state = s]]
  OBVIOUS
<1> HIDE DEF Entry, E
<1>4. radio' \in [E -> Entry] /\ \A e \in E : radio'[e].sip = radio[e].sip
  BY <1>1, <1>2, <1>3
<1> QED
  BY <1>4, Restated DEF E, Entry

\* answer changes the state of a radio call, never its Call-ID.
LEMMA answerCalm ==
  ASSUME TypeInv, NEW t \in Task, answer(t)
  PROVE  CalmStep(t)
<1> DEFINE I == {k \in 1 .. Len(voice_calls) : radio[voice_calls[k]].state = "INCOMING"}
           k == IF I # {} THEN Min(I) ELSE 0
           i == voice_calls[k]
<1>1. stack[t] # <<>> /\ Frame(t).op \in CalmOps /\ Frame(t).op \in RunOps
  BY DEF answer, Running, Frame, CalmOps, RunOps
<1>2. /\ UNCHANGED <<voice_calls, nextIndex, ret, closed, torn, aborted>>
      /\ UNCHANGED <<sipVars, waitVars, peerVars, env>>
      /\ aborted' \subseteq Task
  BY DEF answer, RadioUnchanged, TypeInv, PeerOK
<1>3. \/ k = 0 /\ Return(t) /\ UNCHANGED <<radio, answered>>
      \/ /\ k # 0
         /\ radio' = [radio EXCEPT ![i].state = "ACTIVE"]
         /\ answered' = answered \cup ({radio[i].sip} \cap Mt)
         /\ Become(t, <<FrC("answerCall", radio[i].sip)>>)
  BY DEF answer, SelectInSeq
<1>4. voice_calls \in Seq(1 .. MaxIndex) /\ MaxIndex \in Nat /\ Len(voice_calls) \in Nat
  BY CallsAssumption DEF TypeInv, RadioOK
<1>5. k # 0 => k \in 1 .. Len(voice_calls)
  <2>1. I \in SUBSET (1 .. Len(voice_calls))
    OBVIOUS
  <2> HIDE DEF I
  <2> QED
    BY <1>4, <2>1, FirstPosition
<1> HIDE DEF k
<1>6. CASE k = 0
  <2>1. Become(t, <<>>) /\ UNCHANGED <<radio, answered>>
    BY <1>3, <1>6 DEF Return
  <2>2. RadioOK' /\ CalmRadio /\ answered' \subseteq Mt
    BY <1>2, <2>1 DEF TypeInv, RadioOK, CalmRadio, PeerOK
  <2>3. PlainRun(<<>>)
    BY PlainFew
  <2>4. /\ StacksOK' /\ CalmStacks /\ cpu' \in Task \cup {Idle}
        /\ \A u \in Task \ {t} : stack'[u] = stack[u]
    BY <1>1, <1>2, <2>1, <2>3, CalmBecome
  <2> QED
    BY <1>1, <1>2, <2>2, <2>4, RadioOnly
<1>7. CASE k # 0
  <2>1. i \in 1 .. MaxIndex
    BY <1>4, <1>5, <1>7
  <2> HIDE DEF i
  <2>2. radio[i].sip \in Dialog \cup {NoCall}
    BY <2>1, RadioSips
  <2>3. PlainRun(<<FrC("answerCall", radio[i].sip)>>)
    BY <2>2, PlainFrames, PlainFew DEF LooseOps, RunOps
  <2>4. RadioOK' /\ CalmRadio
    BY <1>2, <1>3, <1>7, <2>1, RadioWrite DEF RadioStates
  <2>5. answered' \subseteq Mt
    BY <1>3, <1>7 DEF TypeInv, PeerOK
  <2>6. /\ StacksOK' /\ CalmStacks /\ cpu' \in Task \cup {Idle}
        /\ \A u \in Task \ {t} : stack'[u] = stack[u]
    BY <1>1, <1>2, <1>3, <1>7, <2>3, CalmBecome
  <2> QED
    BY <1>1, <1>2, <2>4, <2>5, <2>6, RadioOnly
<1> QED
  BY <1>6, <1>7

\* The radio call that was hung up leaves the list.
LEMMA hangupDoneCalm ==
  ASSUME TypeInv, NEW t \in Task, hangupDone(t)
  PROVE  CalmStep(t)
<1>1. stack[t] # <<>> /\ Frame(t).op \in CalmOps /\ Frame(t).op \in RunOps
  BY DEF hangupDone, Running, Frame, CalmOps, RunOps
<1>2. /\ UNCHANGED <<radio, nextIndex, ret, closed, answered, torn>>
      /\ UNCHANGED <<sipVars, waitVars, peerVars, env>>
      /\ answered' \subseteq Mt /\ aborted \subseteq Task
  BY DEF hangupDone, RadioUnchanged, TypeInv, PeerOK
<1>3. voice_calls \in Seq(1 .. MaxIndex) /\ IsInjective(voice_calls)
  BY DEF TypeInv, RadioOK
<1>4. RadioOK' /\ CalmRadio
  <2>1. \/ voice_calls' = voice_calls
        \/ voice_calls' = RemoveFirst(voice_calls, Frame(t).i)
    BY DEF hangupDone
  <2> QED
    BY <1>2, <1>3, <2>1, Shorter, RemoveFirstProperties
<1>5. /\ StacksOK' /\ CalmStacks /\ cpu' \in Task \cup {Idle}
      /\ \A u \in Task \ {t} : stack'[u] = stack[u]
      /\ aborted' \subseteq Task
  <2>1. CASE Return(t) /\ UNCHANGED aborted
    BY <1>1, <1>2, <2>1, CalmBecome, PlainFew DEF Return
  <2>2. CASE Abort(t)
    BY <1>1, <1>2, <2>2, CalmAbort
  <2> QED
    BY <2>1, <2>2 DEF hangupDone
<1> QED
  BY <1>1, <1>2, <1>4, <1>5, RadioOnly

\* The whole list is dropped.
LEMMA clearCallsCalm ==
  ASSUME TypeInv, NEW t \in Task, clearCalls(t)
  PROVE  CalmStep(t)
<1>1. stack[t] # <<>> /\ Frame(t).op \in CalmOps /\ Frame(t).op \in RunOps
  BY DEF clearCalls, Running, Frame, CalmOps, RunOps
<1>2. /\ UNCHANGED <<radio, nextIndex, ret, histVars>>
      /\ UNCHANGED <<sipVars, waitVars, peerVars, env>>
      /\ Become(t, <<>>) /\ voice_calls' = <<>>
  BY DEF clearCalls, RadioUnchanged, Return
<1>3. answered' \subseteq Mt /\ aborted' \subseteq Task
  BY <1>2 DEF TypeInv, PeerOK, histVars
<1>4. RadioOK' /\ CalmRadio
  <2>1. voice_calls' \in Seq(1 .. MaxIndex) /\ ToSet(voice_calls') = {}
    BY <1>2 DEF ToSet
  <2>2. IsInjective(voice_calls')
    BY <1>2 DEF IsInjective
  <2> QED
    BY <1>2, <2>1, <2>2, Shorter
<1>5. /\ StacksOK' /\ CalmStacks /\ cpu' \in Task \cup {Idle}
      /\ \A u \in Task \ {t} : stack'[u] = stack[u]
  BY <1>1, <1>2, CalmBecome, PlainFew
<1> QED
  BY <1>1, <1>2, <1>3, <1>4, <1>5, RadioOnly DEF histVars

\* There are no more calls in the list than indexes.
LEMMA RadioLength ==
  ASSUME TypeInv
  PROVE  Len(voice_calls) \in Nat /\ Len(voice_calls) <= MaxIndex
<1>1. /\ voice_calls \in Seq(1 .. MaxIndex) /\ IsInjective(voice_calls)
      /\ MaxIndex \in Nat /\ Len(voice_calls) \in Nat
  BY CallsAssumption DEF TypeInv, RadioOK
<1> DEFINE S == 1 .. Len(voice_calls)
           T == 1 .. MaxIndex
<1>2. ASSUME NEW n \in Nat PROVE IsFiniteSet(1 .. n) /\ Cardinality(1 .. n) = n
  <2>1. /\ IsFiniteSet(1 .. n)
        /\ Cardinality(1 .. n) = IF 1 > n THEN 0 ELSE n - 1 + 1
    BY FS_Interval
  <2> QED
    BY <2>1
<1>3. voice_calls \in [S -> T]
  BY <1>1
<1>4. voice_calls \in Injection(S, T)
  BY <1>1, <1>3 DEF Injection
<1>5. /\ IsFiniteSet(T) /\ Cardinality(T) = MaxIndex
      /\ Cardinality(S) = Len(voice_calls)
  BY <1>1, <1>2
<1> HIDE DEF S, T
<1>6. Cardinality(S) <= Cardinality(T)
  BY <1>4, <1>5, FS_Injection
<1> QED
  BY <1>1, <1>5, <1>6

\* The loop that holds active calls and takes the waiting one.
LEMMA switchScanCalm ==
  ASSUME TypeInv, NEW t \in Task, switchScan(t)
  PROVE  CalmStep(t)
<1> DEFINE k == Frame(t).i
           w == Frame(t).j
           i == voice_calls[k]
           next == Fr("switchScan", NoCall, k + 1, w)
<1>1. /\ stack[t] # <<>> /\ Frame(t).op \in CalmOps /\ Frame(t).op \in RunOps
      /\ Frame(t).op = "switchScan"
  BY DEF switchScan, Running, Frame, CalmOps, RunOps
<1>2. /\ UNCHANGED <<voice_calls, nextIndex, ret, closed, torn, aborted>>
      /\ UNCHANGED <<sipVars, waitVars, peerVars, env>>
      /\ aborted' \subseteq Task /\ answered \subseteq Mt
  BY DEF switchScan, RadioUnchanged, TypeInv, PeerOK
<1>3. \/ /\ k <= Len(voice_calls) /\ radio[i].state = "ACTIVE" /\ UNCHANGED answered
         /\ radio' = [radio EXCEPT ![i].state = "HOLDING"]
         /\ Become(t, <<FrC("hold", radio[i].sip), next>>)
      \/ /\ k <= Len(voice_calls) /\ UNCHANGED <<radio, answered>>
         /\ Become(t, <<next>>)
      \/ /\ k > Len(voice_calls)
         /\ radio' = [radio EXCEPT ![w].state = "ACTIVE"]
         /\ answered' = answered \cup ({radio[w].sip} \cap Mt)
         /\ Become(t, <<FrC("answerCall", radio[w].sip)>>)
  BY DEF switchScan
<1>4. k \in Nat \ {0} /\ w \in 1 .. MaxIndex
  BY <1>1, HeadFrame DEF FrameOK
<1>5. /\ voice_calls \in Seq(1 .. MaxIndex) /\ MaxIndex \in Nat
      /\ Len(voice_calls) \in Nat /\ Len(voice_calls) <= MaxIndex
  BY CallsAssumption, RadioLength DEF TypeInv, RadioOK
<1> HIDE DEF k, w
<1>6. ASSUME k <= Len(voice_calls)
      PROVE  i \in 1 .. MaxIndex /\ Plain(next) /\ next.op \in RunOps
  <2>1. i \in 1 .. MaxIndex /\ k + 1 \in 1 .. MaxIndex + 1
    BY <1>4, <1>5, <1>6
  <2> QED
    BY <1>4, <2>1, PlainFrames, FrameFields DEF RunOps
<1> HIDE DEF next, i
<1>7. CASE /\ k <= Len(voice_calls) /\ radio[i].state = "ACTIVE" /\ UNCHANGED answered
           /\ radio' = [radio EXCEPT ![i].state = "HOLDING"]
           /\ Become(t, <<FrC("hold", radio[i].sip), next>>)
  <2>1. Plain(FrC("hold", radio[i].sip))
    BY <1>6, <1>7, RadioSips, PlainFrames DEF LooseOps, RunOps
  <2>2. PlainRun(<<FrC("hold", radio[i].sip), next>>)
    BY <1>6, <1>7, <2>1, PlainFew
  <2>3. RadioOK' /\ CalmRadio
    BY <1>2, <1>6, <1>7, RadioWrite DEF RadioStates
  <2>4. /\ StacksOK' /\ CalmStacks /\ cpu' \in Task \cup {Idle}
        /\ \A u \in Task \ {t} : stack'[u] = stack[u]
    BY <1>1, <1>2, <1>7, <2>2, CalmBecome
  <2> QED
    BY <1>1, <1>2, <1>7, <2>3, <2>4, RadioOnly
<1>8. CASE /\ k <= Len(voice_calls) /\ UNCHANGED <<radio, answered>>
           /\ Become(t, <<next>>)
  <2>1. PlainRun(<<next>>)
    BY <1>6, <1>8, PlainFew
  <2>2. RadioOK' /\ CalmRadio
    BY <1>2, <1>8 DEF TypeInv, RadioOK, CalmRadio
  <2>3. /\ StacksOK' /\ CalmStacks /\ cpu' \in Task \cup {Idle}
        /\ \A u \in Task \ {t} : stack'[u] = stack[u]
    BY <1>1, <1>2, <1>8, <2>1, CalmBecome
  <2> QED
    BY <1>1, <1>2, <1>8, <2>2, <2>3, RadioOnly
<1>9. CASE /\ k > Len(voice_calls)
           /\ radio' = [radio EXCEPT ![w].state = "ACTIVE"]
           /\ answered' = answered \cup ({radio[w].sip} \cap Mt)
           /\ Become(t, <<FrC("answerCall", radio[w].sip)>>)
  <2>1. PlainRun(<<FrC("answerCall", radio[w].sip)>>)
    BY <1>4, RadioSips, PlainFrames, PlainFew DEF LooseOps, RunOps
  <2>2. RadioOK' /\ CalmRadio
    BY <1>2, <1>4, <1>9, RadioWrite DEF RadioStates
  <2>3. answered' \subseteq Mt
    BY <1>2, <1>9
  <2>4. /\ StacksOK' /\ CalmStacks /\ cpu' \in Task \cup {Idle}
        /\ \A u \in Task \ {t} : stack'[u] = stack[u]
    BY <1>1, <1>2, <1>9, <2>1, CalmBecome
  <2> QED
    BY <1>1, <1>2, <2>2, <2>3, <2>4, RadioOnly
<1> QED
  BY <1>3, <1>7, <1>8, <1>9

\* A call leaves the conference.
LEMMA separateCalm ==
  ASSUME TypeInv, NEW t \in Task, separate(t)
  PROVE  CalmStep(t)
<1> DEFINE i == Frame(t).i
<1>1. stack[t] # <<>> /\ Frame(t).op \in CalmOps /\ Frame(t).op \in RunOps
  BY DEF separate, Running, Frame, CalmOps, RunOps
<1>2. /\ UNCHANGED <<voice_calls, nextIndex, ret, histVars>>
      /\ UNCHANGED <<sipVars, waitVars, peerVars, env>>
  BY DEF separate, RadioUnchanged
<1>3. answered' \subseteq Mt /\ aborted' \subseteq Task
  BY <1>2 DEF TypeInv, PeerOK, histVars
<1>4. \/ /\ i \in ToSet(voice_calls)
         /\ radio' = [radio EXCEPT ![i].mpty = FALSE, ![i].state = "HOLDING"]
         /\ Become(t, <<FrC("hold", radio[i].sip)>>)
      \/ Become(t, <<>>) /\ UNCHANGED radio
  BY DEF separate, Return
<1> HIDE DEF i
<1>5. CASE /\ i \in ToSet(voice_calls)
           /\ radio' = [radio EXCEPT ![i].mpty = FALSE, ![i].state = "HOLDING"]
           /\ Become(t, <<FrC("hold", radio[i].sip)>>)
  <2> DEFINE Entry == [state: RadioStates, mpty: BOOLEAN, sip: Dialog \cup {NoCall}]
             E == 1 .. MaxIndex
             held == [radio[i] EXCEPT !.mpty = FALSE, !.state = "HOLDING"]
  <2>1. i \in E /\ radio \in [E -> Entry]
    BY <1>5, Known DEF TypeInv, RadioOK
  <2>2. \A e \in Entry : LET h == [e EXCEPT !.mpty = FALSE, !.state = "HOLDING"] IN
          h \in Entry /\ h.sip = e.sip
    BY DEF RadioStates
  <2>3. held \in Entry /\ held.sip = radio[i].sip
    BY <2>1, <2>2
  <2>4. radio' = [radio EXCEPT ![i] = held]
    BY <1>5, <2>1
  <2> HIDE DEF Entry, E, held
  <2>5. radio' \in [E -> Entry] /\ \A e \in E : radio'[e].sip = radio[e].sip
    BY <2>1, <2>3, <2>4
  <2>6. RadioOK' /\ CalmRadio
    BY <1>2, <2>5, Restated DEF E, Entry
  <2>7. PlainRun(<<FrC("hold", radio[i].sip)>>)
    BY <1>5, Known, RadioSips, PlainFrames, PlainFew DEF LooseOps, RunOps
  <2>8. /\ StacksOK' /\ CalmStacks /\ cpu' \in Task \cup {Idle}
        /\ \A u \in Task \ {t} : stack'[u] = stack[u]
    BY <1>1, <1>2, <1>5, <2>7, CalmBecome
  <2> QED
    BY <1>1, <1>2, <1>3, <2>6, <2>8, RadioOnly DEF histVars
<1>6. CASE Become(t, <<>>) /\ UNCHANGED radio
  <2>1. RadioOK' /\ CalmRadio
    BY <1>2, <1>6 DEF TypeInv, RadioOK, CalmRadio
  <2>2. /\ StacksOK' /\ CalmStacks /\ cpu' \in Task \cup {Idle}
        /\ \A u \in Task \ {t} : stack'[u] = stack[u]
    BY <1>1, <1>2, <1>6, CalmBecome, PlainFew
  <2> QED
    BY <1>1, <1>2, <1>3, <2>1, <2>2, RadioOnly DEF histVars
<1> QED
  BY <1>4, <1>5, <1>6

\* Both radio calls of a transfer leave the list.
LEMMA ectDoneCalm ==
  ASSUME TypeInv, NEW t \in Task, ectDone(t)
  PROVE  CalmStep(t)
<1> DEFINE gone == <<Frame(t).i, Frame(t).j>>
<1>1. stack[t] # <<>> /\ Frame(t).op \in CalmOps /\ Frame(t).op \in RunOps
  BY DEF ectDone, Running, Frame, CalmOps, RunOps
<1>2. /\ UNCHANGED <<radio, nextIndex, ret, closed, answered, torn>>
      /\ UNCHANGED <<sipVars, waitVars, peerVars, env>>
      /\ answered' \subseteq Mt /\ aborted \subseteq Task
  BY DEF ectDone, RadioUnchanged, TypeInv, PeerOK
<1>3. voice_calls \in Seq(1 .. MaxIndex) /\ IsInjective(voice_calls)
  BY DEF TypeInv, RadioOK
<1>4. RadioOK' /\ CalmRadio
  <2> DEFINE one == RemoveFirst(voice_calls, gone[1])
             two == RemoveFirst(one, gone[2])
  <2>1. voice_calls' = voice_calls \/ voice_calls' = two
    BY DEF ectDone
  <2>2. /\ one \in Seq(1 .. MaxIndex) /\ IsInjective(one)
        /\ ToSet(one) \subseteq ToSet(voice_calls)
    BY <1>3, RemoveFirstProperties
  <2> HIDE DEF one
  <2>3. /\ two \in Seq(1 .. MaxIndex) /\ IsInjective(two)
        /\ ToSet(two) \subseteq ToSet(voice_calls)
    BY <2>2, RemoveFirstProperties
  <2> HIDE DEF two
  <2> QED
    BY <1>2, <1>3, <2>1, <2>3, Shorter
<1>5. /\ StacksOK' /\ CalmStacks /\ cpu' \in Task \cup {Idle}
      /\ \A u \in Task \ {t} : stack'[u] = stack[u]
      /\ aborted' \subseteq Task
  <2>1. CASE Return(t) /\ UNCHANGED aborted
    BY <1>1, <1>2, <2>1, CalmBecome, PlainFew DEF Return
  <2>2. CASE Abort(t)
    BY <1>1, <1>2, <2>2, CalmAbort
  <2> QED
    BY <2>1, <2>2 DEF ectDone
<1> QED
  BY <1>1, <1>2, <1>4, <1>5, RadioOnly

-----------------------------------------------------------------------------
(* VoLTECallManager's operations that neither make nor end a call.         *)

\* VoLTECall objects.
CallEntry == [state: SipStates, idx: 0 .. MaxIndex,
              media: {"none", "on", "paused"}, xfer: BOOLEAN]

\* The number of active calls stays in its range.
LEMMA Counted ==
  ASSUME NEW tb, tb = table, TypeInv, NEW cs
  PROVE  CountActive(tb, cs) \in 0 .. Cardinality(Dialog)
<1> DEFINE A == {c \in ToSet(tb) : cs[c].state = "ACTIVE"}
<1>1. A \subseteq Dialog
  BY Known
<1>2. IsFiniteSet(Dialog)
  BY CallsAssumption
<1> HIDE DEF A
<1>3. /\ IsFiniteSet(A) /\ Cardinality(A) <= Cardinality(Dialog)
  BY <1>1, <1>2, FS_Subset
<1>4. Cardinality(A) \in Nat /\ Cardinality(Dialog) \in Nat
  BY <1>2, <1>3, FS_CardinalityType
<1>5. Cardinality(A) \in 0 .. Cardinality(Dialog)
  BY <1>3, <1>4
<1> QED
  BY <1>5 DEF CountActive, A

\* One call changes, but not its index, nor whether it has media.
LEMMA CallWrite ==
  ASSUME TypeInv, NEW c \in Dialog, NEW e \in CallEntry,
         calls' = [calls EXCEPT ![c] = e], e.idx = calls[c].idx,
         e.media = "none" <=> calls[c].media = "none",
         e.state \in {"none", "RINGING_IN"} => e.state = calls[c].state
  PROVE  calls' \in [Dialog -> CallEntry] /\ CalmCalls
<1>1. calls \in [Dialog -> CallEntry]
  BY DEF TypeInv, TableOK, CallEntry
<1> QED
  BY <1>1 DEF CalmCalls

\* No call changes.
LEMMA CallsKept ==
  ASSUME TypeInv, UNCHANGED calls
  PROVE  calls' \in [Dialog -> CallEntry] /\ CalmCalls
BY DEF TypeInv, TableOK, CallEntry, CalmCalls

\* update_call_state writes at most one state.
LEMMA RadioUpdated ==
  ASSUME TypeInv, UNCHANGED <<voice_calls, nextIndex>>, NEW i, NEW s \in RadioStates,
         radio' = RadioUpdate(i, s)
  PROVE  RadioOK' /\ CalmRadio
<1>1. CASE i \in ToSet(voice_calls)
  BY <1>1, Known, RadioWrite DEF RadioUpdate
<1>2. CASE i \notin ToSet(voice_calls)
  BY <1>2 DEF RadioUpdate, TypeInv, RadioOK, CalmRadio
<1> QED
  BY <1>1, <1>2

\* The radio's calls are left alone.
LEMMA RadioKept ==
  ASSUME TypeInv, UNCHANGED radioVars
  PROVE  RadioOK' /\ CalmRadio
BY DEF TypeInv, RadioOK, CalmRadio, radioVars

\* A request is sent.
LEMMA Sent ==
  ASSUME TypeInv, NEW t \in Task, NEW c \in Dialog, NEW m \in AwaitOps,
         SendRequest(t, c, m), ret' \in [Task -> Dialog \cup {NoCall}],
         cpu' \in Task \cup {Idle}
  PROVE  /\ WaitOK' /\ pending' = [pending EXCEPT ![c] = t] /\ resp'[t] = NoResp
         /\ \A u \in Task \ {t} : resp'[u] = resp[u]
<1>1. NoResp \in [m: AwaitOps \cup {"none", "timeout"}, ok: BOOLEAN]
  BY DEF NoResp
<1>2. [c |-> c, m |-> m, t |-> t] \in [c: Dialog, m: AwaitOps, t: Task]
  OBVIOUS
<1> HIDE DEF NoResp
<1> QED
  BY <1>1, <1>2 DEF SendRequest, TypeInv, WaitOK

\* What the parts of a calm step are.
LEMMA CalmParts ==
  ASSUME NEW t \in Task, StacksOK', CalmStacks, RadioOK', CalmRadio,
         TypeInv, calls' \in [Dialog -> CallEntry], CalmCalls, WaitOK', PeerOK', Waits(t),
         started' \in BOOLEAN, activeCalls' \in 0 .. Cardinality(Dialog),
         UNCHANGED <<table, closed, torn>>
  PROVE  CalmStep(t)
<1>1. TableOK'
  BY DEF TypeInv, TableOK, CallEntry
<1> QED
  BY <1>1 DEF CalmStep, Calm, TypeInv

\* The running coroutine sends a request, not an INVITE, and waits for it.
LEMMA Requested ==
  ASSUME TypeInv, NEW t \in Task, stack[t] # <<>>,
         Frame(t).op \in CalmOps, Frame(t).op \in RunOps,
         NEW c \in Dialog, NEW m \in AwaitOps, m # "INVITE",
         SendRequest(t, c, m), Suspend(t, FrC(m, c)), UNCHANGED ret
  PROVE  StacksOK' /\ CalmStacks /\ WaitOK' /\ Waits(t)
<1> DEFINE f == FrC(m, c)
<1>1. f.op = m /\ f.c = c
  BY FrameFields
<1>2. PlainRun(<<f>>)
  BY PlainFrames, PlainFew
<1> HIDE DEF f
<1>3. Suspend(t, f)
  BY DEF f
<1>4. /\ StacksOK' /\ CalmStacks /\ cpu' \in Task \cup {Idle}
      /\ \A u \in Task \ {t} : stack'[u] = stack[u]
      /\ stack'[t] # <<>> /\ Head(stack'[t]) = f
  BY <1>2, <1>3, CalmSuspend
<1>5. /\ WaitOK' /\ pending' = [pending EXCEPT ![c] = t] /\ resp'[t] = NoResp
      /\ \A u \in Task \ {t} : resp'[u] = resp[u]
  BY <1>4, Sent DEF TypeInv, WaitOK
<1>6. Frame(t).op \notin AwaitOps
  BY DEF RunOps, AwaitOps
<1>7. Head(stack'[t]).op \in AwaitOps /\ Head(stack'[t]).c = c
  BY <1>1, <1>4
<1>8. Waits(t)
  BY <1>4, <1>5, <1>6, <1>7 DEF Waits
<1> QED
  BY <1>4, <1>5, <1>8

\* It goes on with plain coroutines, and no future changes.
LEMMA Continued ==
  ASSUME TypeInv, NEW t \in Task, stack[t] # <<>>,
         Frame(t).op \in CalmOps, Frame(t).op \in RunOps,
         NEW F, PlainRun(F), Become(t, F), UNCHANGED waitVars,
         ret' \in [Task -> Dialog \cup {NoCall}], \A u \in Task \ {t} : ret'[u] = ret[u]
  PROVE  StacksOK' /\ CalmStacks /\ WaitOK' /\ Waits(t)
<1>1. /\ StacksOK' /\ CalmStacks /\ cpu' \in Task \cup {Idle}
      /\ \A u \in Task \ {t} : stack'[u] = stack[u]
  BY CalmBecome
<1>2. WaitOK' /\ Waits(t)
  BY <1>1, Unawaited DEF TypeInv, WaitOK, waitVars
<1> QED
  BY <1>1, <1>2

\* A task is woken: its response is consumed.
LEMMA Resumed ==
  ASSUME TypeInv, NEW t \in Task, stack[t] # <<>>, Frame(t).op \in CalmOps,
         Frame(t).op \in AwaitOps => resp[t] # NoResp, Return(t),
         resp' = [resp EXCEPT ![t] = NoResp], UNCHANGED <<pending, inflight>>,
         ret' \in [Task -> Dialog \cup {NoCall}], \A u \in Task \ {t} : ret'[u] = ret[u]
  PROVE  StacksOK' /\ CalmStacks /\ WaitOK' /\ Waits(t)
<1>1. PlainRun(<<>>) /\ Become(t, <<>>)
  BY PlainFew DEF Return
<1>2. /\ StacksOK' /\ CalmStacks /\ cpu' \in Task \cup {Idle}
      /\ \A u \in Task \ {t} : stack'[u] = stack[u]
  BY <1>1, CalmBecome
<1>3. NoResp \in [m: AwaitOps \cup {"none", "timeout"}, ok: BOOLEAN]
  BY DEF NoResp
<1>4. WaitOK' /\ \A u \in Task \ {t} : resp'[u] = resp[u]
  BY <1>2, <1>3 DEF TypeInv, WaitOK
<1>5. Waits(t)
  BY <1>2, <1>4 DEF Waits
<1> QED
  BY <1>2, <1>4, <1>5

\* Holding or resuming makes and ends no call.
LEMMA holdResumeCalm ==
  ASSUME TypeInv, NEW t \in Task, holdResume(t)
  PROVE  CalmStep(t)
<1> DEFINE c == Frame(t).c
<1>1. PICK op \in {"hold", "resume"} : LET
              m == IF op = "hold" THEN "HOLD" ELSE "RESUME"
              from == IF op = "hold" THEN "ACTIVE" ELSE "HELD"
              to == IF op = "hold" THEN "HELD" ELSE "ACTIVE"
              ready == InTable(c) /\ calls[c].state = from
          IN
          /\ Running(t, op)
          /\ \/ ~ready /\ Return(t) /\ UNCHANGED <<calls, waitVars>>
             \/ /\ ready
                /\ calls' = [calls EXCEPT ![c].state = to,
                               ![c].media = IF op = "hold" THEN Paused(@)
                                            ELSE Playing(@)]
                /\ IF started
                   THEN SendRequest(t, c, m) /\ Suspend(t, FrC(m, c))
                   ELSE Become(t, <<FrC(HeldBack(op), c)>>) /\ UNCHANGED waitVars
  BY DEF holdResume
<1> DEFINE m == IF op = "hold" THEN "HOLD" ELSE "RESUME"
           to == IF op = "hold" THEN "HELD" ELSE "ACTIVE"
           back == FrC(HeldBack(op), c)
<1>2. stack[t] # <<>> /\ Frame(t).op \in CalmOps /\ Frame(t).op \in RunOps
  BY <1>1 DEF Running, Frame, CalmOps, RunOps
<1>3. /\ UNCHANGED <<radioVars, table, started, activeCalls, ret, closed, torn>>
      /\ RadioOK' /\ CalmRadio /\ PeerOK' /\ ret' \in [Task -> Dialog \cup {NoCall}]
      /\ started' \in BOOLEAN /\ activeCalls' \in 0 .. Cardinality(Dialog)
  <2>1. /\ UNCHANGED <<radioVars, table, started, activeCalls, ret, closed, torn, aborted>>
        /\ UNCHANGED <<peerVars, env, answered>>
    BY DEF holdResume, ManagerUnchanged
  <2> QED
    BY <2>1, RadioKept DEF TypeInv, PeerOK, TableOK, WaitOK, peerVars
<1>4. CASE Return(t) /\ UNCHANGED <<calls, waitVars>>
  <2>1. PlainRun(<<>>) /\ Become(t, <<>>)
    BY <1>4, PlainFew DEF Return
  <2>2. StacksOK' /\ CalmStacks /\ WaitOK' /\ Waits(t)
    BY <1>2, <1>3, <1>4, <2>1, Continued
  <2>3. calls' \in [Dialog -> CallEntry] /\ CalmCalls
    BY <1>4, CallsKept
  <2> QED
    BY <1>3, <2>2, <2>3, CalmParts
<1>5. CASE /\ InTable(c)
           /\ calls' = [calls EXCEPT ![c].state = to,
                          ![c].media = IF op = "hold" THEN Paused(@) ELSE Playing(@)]
           /\ IF started
              THEN SendRequest(t, c, m) /\ Suspend(t, FrC(m, c))
              ELSE Become(t, <<back>>) /\ UNCHANGED waitVars
  <2>1. c \in Dialog /\ calls \in [Dialog -> CallEntry]
    BY <1>5, Known DEF InTable, TypeInv, TableOK, CallEntry
  <2>2. calls' \in [Dialog -> CallEntry] /\ CalmCalls
    <3> DEFINE e == [calls[c] EXCEPT !.state = to,
                       !.media = IF op = "hold" THEN Paused(@) ELSE Playing(@)]
    <3>1. calls' = [calls EXCEPT ![c] = e]
      BY <1>5, <2>1
    <3>2. calls[c] \in CallEntry
      BY <2>1
    <3>3. /\ e \in CallEntry /\ e.idx = calls[c].idx
          /\ e.media = "none" <=> calls[c].media = "none"
          /\ e.state \notin {"none", "RINGING_IN"}
      BY <3>2 DEF CallEntry, Paused, Playing, SipStates
    <3> HIDE DEF e
    <3> QED
      BY <2>1, <3>1, <3>3, CallWrite
  <2>3. CASE started
    <3>1. m \in AwaitOps /\ m # "INVITE"
      BY DEF AwaitOps
    <3>2. SendRequest(t, c, m) /\ Suspend(t, FrC(m, c))
      BY <1>5, <2>3
    <3> HIDE DEF m, c
    <3>3. StacksOK' /\ CalmStacks /\ WaitOK' /\ Waits(t)
      BY <1>2, <1>3, <2>1, <3>1, <3>2, Requested
    <3> QED
      BY <1>3, <2>2, <3>3, CalmParts
  <2>4. CASE ~ started
    <3>1. HeldBack(op) \in {"holdDone", "resumeDone"}
      BY DEF HeldBack
    <3>2. Become(t, <<back>>) /\ UNCHANGED waitVars
      BY <1>5, <2>4
    <3>3. PlainRun(<<back>>)
      BY <2>1, <3>1, PlainFrames, PlainFew
    <3> HIDE DEF back
    <3>4. StacksOK' /\ CalmStacks /\ WaitOK' /\ Waits(t)
      BY <1>2, <1>3, <3>2, <3>3, Continued
    <3> QED
      BY <1>3, <2>2, <3>4, CalmParts
  <2> QED
    BY <2>3, <2>4
<1> QED
  BY <1>1, <1>4, <1>5

\* A step of a task that leaves the network's side and history alone.
LEMMA ManagerCalm ==
  ASSUME TypeInv, ManagerUnchanged, UNCHANGED aborted, UNCHANGED closed, UNCHANGED torn
  PROVE  PeerOK'
BY DEF TypeInv, PeerOK, ManagerUnchanged, peerVars

\* The radio is told of a hold or resume.
LEMMA holdResumeDoneCalm ==
  ASSUME TypeInv, NEW t \in Task, holdResumeDone(t)
  PROVE  CalmStep(t)
<1>1. PICK op \in {"hold", "resume"} :
        /\ \/ Woken(t, IF op = "hold" THEN "HOLD" ELSE "RESUME")
           \/ Running(t, HeldBack(op))
        /\ radio' = RadioUpdate(calls[Frame(t).c].idx,
                                IF op = "hold" THEN "HOLDING" ELSE "ACTIVE")
  BY DEF holdResumeDone
<1>2. /\ UNCHANGED <<voice_calls, nextIndex, table, calls, started, pending,
                     inflight, ret, closed, torn, aborted>>
      /\ activeCalls' = CountActive(table, calls) /\ ManagerUnchanged
      /\ resp' = [resp EXCEPT ![t] = NoResp] /\ Return(t)
  BY DEF holdResumeDone
<1>3. /\ stack[t] # <<>> /\ Frame(t).op \in CalmOps
      /\ Frame(t).op \in AwaitOps => resp[t] # NoResp
  <2>1. CASE Woken(t, IF op = "hold" THEN "HOLD" ELSE "RESUME")
    BY <2>1 DEF Woken, CalmOps, RunOps, AwaitOps
  <2>2. CASE Running(t, HeldBack(op))
    BY <2>2 DEF Running, HeldBack, Frame, CalmOps, RunOps, AwaitOps
  <2> QED
    BY <1>1, <2>1, <2>2
<1>4. ret' \in [Task -> Dialog \cup {NoCall}] /\ started' \in BOOLEAN
  BY <1>2 DEF TypeInv, WaitOK, TableOK
<1>5. StacksOK' /\ CalmStacks /\ WaitOK' /\ Waits(t)
  BY <1>2, <1>3, <1>4, Resumed
<1>6. RadioOK' /\ CalmRadio
  <2> DEFINE i == calls[Frame(t).c].idx
             s == IF op = "hold" THEN "HOLDING" ELSE "ACTIVE"
  <2>1. s \in RadioStates /\ radio' = RadioUpdate(i, s)
    BY <1>1 DEF RadioStates
  <2> HIDE DEF i, s
  <2> QED
    BY <1>2, <2>1, RadioUpdated
<1>7. activeCalls' \in 0 .. Cardinality(Dialog)
  BY <1>2, Counted
<1>8. calls' \in [Dialog -> CallEntry] /\ CalmCalls
  BY <1>2, CallsKept
<1>9. PeerOK'
  BY <1>2, ManagerCalm
<1> QED
  BY <1>2, <1>4, <1>5, <1>6, <1>7, <1>8, <1>9, CalmParts

\* Merging two calls makes and ends none.
LEMMA conferenceCalm ==
  ASSUME TypeInv, NEW t \in Task, conference(t)
  PROVE  CalmStep(t)
<1>1. stack[t] # <<>> /\ Frame(t).op \in CalmOps /\ Frame(t).op \in RunOps
  BY DEF conference, Running, Frame, CalmOps, RunOps
<1>2. /\ UNCHANGED <<voice_calls, nextIndex, table, started, waitVars, ret, closed,
                     torn, aborted>>
      /\ Become(t, <<>>) /\ ManagerUnchanged
  BY DEF conference, Return
<1>3. ret' \in [Task -> Dialog \cup {NoCall}] /\ started' \in BOOLEAN
  BY <1>2 DEF TypeInv, WaitOK, TableOK
<1>4. StacksOK' /\ CalmStacks /\ WaitOK' /\ Waits(t)
  BY <1>1, <1>2, <1>3, PlainFew, Continued
<1>5. PeerOK'
  BY <1>2, ManagerCalm
<1>6. CASE UNCHANGED <<radio, calls, activeCalls>>
  <2>1. RadioOK' /\ CalmRadio
    BY <1>2, <1>6, RadioKept DEF radioVars
  <2>2. calls' \in [Dialog -> CallEntry] /\ CalmCalls
    BY <1>6, CallsKept
  <2> QED
    BY <1>2, <1>3, <1>4, <1>5, <1>6, <2>1, <2>2, CalmParts DEF TypeInv, TableOK
<1> DEFINE a == table[LastIn("ACTIVE")]
           h == table[LastIn("HELD")]
<1>7. CASE /\ LastIn("HELD") # 0
           /\ calls' = [calls EXCEPT ![h].state = "ACTIVE", ![h].media = Playing(@)]
           /\ radio' = [i \in DOMAIN radio |->
                IF i \in ToSet(voice_calls) /\ radio[i].sip \in {a, h}
                THEN [radio[i] EXCEPT !.mpty = TRUE, !.state = "ACTIVE"]
                ELSE radio[i]]
           /\ activeCalls' = CountActive(table, calls')
  <2>1. h \in Dialog
    BY <1>7, CallPositions
  <2> HIDE DEF a, h
  <2>2. calls' \in [Dialog -> CallEntry] /\ CalmCalls
    <3> DEFINE e == [calls[h] EXCEPT !.state = "ACTIVE", !.media = Playing(@)]
    <3>1. calls \in [Dialog -> CallEntry]
      BY DEF TypeInv, TableOK, CallEntry
    <3>2. calls' = [calls EXCEPT ![h] = e] /\ calls[h] \in CallEntry
      BY <1>7, <2>1, <3>1
    <3>3. /\ e \in CallEntry /\ e.idx = calls[h].idx
          /\ e.media = "none" <=> calls[h].media = "none"
          /\ e.state \notin {"none", "RINGING_IN"}
      BY <3>2 DEF CallEntry, Playing, SipStates
    <3> HIDE DEF e
    <3> QED
      BY <2>1, <3>2, <3>3, CallWrite
  <2>3. RadioOK' /\ CalmRadio
    <3> DEFINE Entry == [state: RadioStates, mpty: BOOLEAN, sip: Dialog \cup {NoCall}]
               E == 1 .. MaxIndex
               In(i) == i \in ToSet(voice_calls) /\ radio[i].sip \in {a, h}
               merged(e) == [e EXCEPT !.mpty = TRUE, !.state = "ACTIVE"]
    <3>1. radio \in [E -> Entry]
      BY DEF TypeInv, RadioOK
    <3>2. \A e \in Entry : merged(e) \in Entry /\ merged(e).sip = e.sip
      BY DEF RadioStates
    <3>3. radio' = [i \in E |-> IF In(i) THEN merged(radio[i]) ELSE radio[i]]
      BY <1>7, <3>1
    <3> HIDE DEF E, Entry, In, merged
    <3>4. radio' \in [E -> Entry] /\ \A i \in E : radio'[i].sip = radio[i].sip
      BY <3>1, <3>2, <3>3
    <3> QED
      BY <1>2, <3>4, Restated DEF E, Entry
  <2>4. activeCalls' \in 0 .. Cardinality(Dialog)
    BY <1>7, Counted
  <2> QED
    BY <1>2, <1>3, <1>4, <1>5, <2>2, <2>3, <2>4, CalmParts
<1> QED
  BY <1>6, <1>7 DEF conference

\* A step that changes neither the radio's calls nor the table.
LEMMA LocalCalm ==
  ASSUME TypeInv, NEW t \in Task, StacksOK', CalmStacks, WaitOK', Waits(t),
         UNCHANGED <<radioVars, sipVars, closed, torn, aborted>>, ManagerUnchanged
  PROVE  CalmStep(t)
<1>1. RadioOK' /\ CalmRadio
  BY RadioKept
<1>2. calls' \in [Dialog -> CallEntry] /\ CalmCalls
  BY CallsKept DEF sipVars
<1>3. PeerOK' /\ started' \in BOOLEAN /\ activeCalls' \in 0 .. Cardinality(Dialog)
  BY ManagerCalm DEF sipVars, TypeInv, TableOK
<1>4. UNCHANGED <<table, closed, torn>>
  BY DEF sipVars
<1> QED
  BY <1>1, <1>2, <1>3, <1>4, CalmParts

\* A REFER is sent for a call of the table, or nothing.
LEMMA transferCalm ==
  ASSUME TypeInv, NEW t \in Task, transfer(t)
  PROVE  CalmStep(t)
<1>1. stack[t] # <<>> /\ Frame(t).op \in CalmOps /\ Frame(t).op \in RunOps
  BY DEF transfer, Running, Frame, CalmOps, RunOps
<1>2. UNCHANGED <<radioVars, sipVars, closed, torn, aborted>> /\ ManagerUnchanged
  BY DEF transfer
<1>3. /\ ret \in [Task -> Dialog \cup {NoCall}]
      /\ \A c \in ToSet(table) : c \in Dialog
  BY Known DEF TypeInv, WaitOK
<1>4. ASSUME NEW c \in Dialog, NEW m \in {"REFER", "ATTENDED"},
             SendRequest(t, c, m), Suspend(t, FrC(m, c)), UNCHANGED ret
      PROVE  StacksOK' /\ CalmStacks /\ WaitOK' /\ Waits(t)
  <2>1. m \in AwaitOps /\ m # "INVITE"
    BY DEF AwaitOps
  <2> QED
    BY <1>1, <1>4, <2>1, Requested
<1>5. ASSUME Return(t), UNCHANGED waitVars,
             \/ UNCHANGED ret
             \/ ret' = [ret EXCEPT ![t] = NoCall]
      PROVE  StacksOK' /\ CalmStacks /\ WaitOK' /\ Waits(t)
  <2>1. /\ ret' \in [Task -> Dialog \cup {NoCall}]
        /\ \A u \in Task \ {t} : ret'[u] = ret[u]
    BY <1>3, <1>5
  <2>2. PlainRun(<<>>) /\ Become(t, <<>>)
    BY <1>5, PlainFew DEF Return
  <2> QED
    BY <1>1, <1>5, <2>1, <2>2, Continued
<1>6. \/ \E c \in Dialog : \E m \in {"REFER", "ATTENDED"} :
           SendRequest(t, c, m) /\ Suspend(t, FrC(m, c)) /\ UNCHANGED ret
      \/ /\ Return(t) /\ UNCHANGED waitVars
         /\ UNCHANGED ret \/ ret' = [ret EXCEPT ![t] = NoCall]
  BY <1>3 DEF transfer, InTable
<1>7. StacksOK' /\ CalmStacks /\ WaitOK' /\ Waits(t)
  BY <1>4, <1>5, <1>6
<1> QED
  BY <1>2, <1>7, LocalCalm

\* An accepted REFER marks the call.
LEMMA transferDoneCalm ==
  ASSUME TypeInv, NEW t \in Task, transferDone(t)
  PROVE  CalmStep(t)
<1> DEFINE c == Frame(t).c
<1>1. PICK op \in {"REFER", "ATTENDED"} :
        /\ Woken(t, op)
        /\ \/ /\ calls' = [calls EXCEPT ![c].xfer = TRUE,
                             ![c].state = IF op = "REFER" THEN "ACTIVE" ELSE @]
              /\ ret' = [ret EXCEPT ![t] = c]
           \/ ret' = [ret EXCEPT ![t] = NoCall] /\ UNCHANGED calls
  BY DEF transferDone
<1>2. /\ UNCHANGED <<radioVars, table, started, activeCalls, pending, inflight,
                     closed, torn, aborted>>
      /\ ManagerUnchanged /\ Return(t) /\ resp' = [resp EXCEPT ![t] = NoResp]
  BY DEF transferDone
<1>3. /\ stack[t] # <<>> /\ Frame(t).op \in CalmOps /\ Frame(t).op \in AwaitOps
      /\ resp[t] # NoResp
  BY <1>1 DEF Woken, CalmOps, RunOps, AwaitOps
<1>4. c \in Dialog
  BY <1>3, HeadFrame DEF FrameOK
<1> HIDE DEF c
<1>5. ret' \in [Task -> Dialog \cup {NoCall}] /\ \A u \in Task \ {t} : ret'[u] = ret[u]
  BY <1>1, <1>4 DEF TypeInv, WaitOK
<1>6. StacksOK' /\ CalmStacks /\ WaitOK' /\ Waits(t)
  BY <1>2, <1>3, <1>5, Resumed
<1>7. calls' \in [Dialog -> CallEntry] /\ CalmCalls
  <2> DEFINE e == [calls[c] EXCEPT !.xfer = TRUE,
                     !.state = IF op = "REFER" THEN "ACTIVE" ELSE @]
  <2>1. calls \in [Dialog -> CallEntry]
    BY DEF TypeInv, TableOK, CallEntry
  <2>2. calls' = calls \/ calls' = [calls EXCEPT ![c] = e]
    BY <1>1, <1>4, <2>1
  <2>3. calls[c] \in CallEntry
    BY <1>4, <2>1
  <2>4. /\ e \in CallEntry /\ e.idx = calls[c].idx
        /\ e.media = "none" <=> calls[c].media = "none"
        /\ e.state \in {"none", "RINGING_IN"} => e.state = calls[c].state
    BY <2>3 DEF CallEntry, SipStates
  <2> HIDE DEF e
  <2> QED
    BY <1>4, <2>2, <2>4, CallWrite, CallsKept
<1>8. RadioOK' /\ CalmRadio
  BY <1>2, RadioKept
<1>9. PeerOK' /\ started' \in BOOLEAN /\ activeCalls' \in 0 .. Cardinality(Dialog)
  BY <1>2, ManagerCalm DEF TypeInv, TableOK
<1> QED
  BY <1>2, <1>6, <1>7, <1>8, <1>9, CalmParts

\* The BYE was answered; active calls are counted again.
LEMMA byeDoneCalm ==
  ASSUME TypeInv, NEW t \in Task, byeDone(t)
  PROVE  CalmStep(t)
<1>1. /\ UNCHANGED <<radioVars, table, calls, started, pending, inflight, ret,
                     closed, torn, aborted>>
      /\ ManagerUnchanged /\ Return(t) /\ resp' = [resp EXCEPT ![t] = NoResp]
      /\ activeCalls' = CountActive(table, calls)
  BY DEF byeDone
<1>2. stack[t] # <<>> /\ Frame(t).op \in CalmOps /\ resp[t] # NoResp
  BY DEF byeDone, Woken, CalmOps, RunOps, AwaitOps
<1>3. ret' \in [Task -> Dialog \cup {NoCall}] /\ started' \in BOOLEAN
  BY <1>1 DEF TypeInv, WaitOK, TableOK
<1>4. StacksOK' /\ CalmStacks /\ WaitOK' /\ Waits(t)
  BY <1>1, <1>2, <1>3, Resumed
<1>5. RadioOK' /\ CalmRadio /\ calls' \in [Dialog -> CallEntry] /\ CalmCalls
  BY <1>1, RadioKept, CallsKept
<1>6. PeerOK' /\ activeCalls' \in 0 .. Cardinality(Dialog)
  BY <1>1, ManagerCalm, Counted
<1> QED
  BY <1>1, <1>3, <1>4, <1>5, <1>6, CalmParts

\* stop hangs up through hangup_call, one call after the other.
LEMMA stopCalm ==
  ASSUME TypeInv, NEW t \in Task, stop(t)
  PROVE  CalmStep(t)
<1> DEFINE G == [k \in 1 .. Len(table) |-> FrC("stopEach", table[k])]
           g == FrC("stopDone", NoCall)
           c == Frame(t).c
           F == IF calls[c].state \in {"ACTIVE", "RINGING_OUT"}
                THEN <<FrC("hangupCall", c)>> ELSE <<>>
<1>1. stack[t] # <<>> /\ Frame(t).op \in CalmOps /\ Frame(t).op \in RunOps
  BY DEF stop, Running, Frame, CalmOps, RunOps
<1>2. /\ UNCHANGED <<radioVars, table, calls, activeCalls, waitVars, ret, closed,
                     torn, aborted>>
      /\ ManagerUnchanged /\ started' \in BOOLEAN
  BY DEF stop, TypeInv, TableOK
<1>3. Become(t, G \o <<g>>) \/ Become(t, F) \/ Become(t, <<>>)
  BY DEF stop, Return
<1>4. table \in Seq(Dialog) /\ ret' \in [Task -> Dialog \cup {NoCall}]
  BY <1>2 DEF TypeInv, TableOK, WaitOK
<1>5. PlainRun(G \o <<g>>)
  <2>1. \A k \in 1 .. Len(table) : table[k] \in Dialog
    BY <1>4
  <2>2. "stopEach" \in LooseOps /\ "stopDone" \in LooseOps
    BY DEF LooseOps, RunOps
  <2>3. \A k \in 1 .. Len(table) : Plain(G[k]) /\ G[k].op = "stopEach"
    BY <2>1, <2>2, PlainFrames, FrameFields
  <2>4. Plain(g) /\ g.op = "stopDone"
    BY <2>2, PlainFrames, FrameFields
  <2>5. G \in Seq(Frames) /\ Len(G) = Len(table)
    BY <1>4, <2>3 DEF Plain
  <2> HIDE DEF G, g
  <2>6. PlainRun(G)
    BY <2>3, <2>5 DEF PlainRun, RunOps
  <2>7. PlainRun(<<g>>) /\ \A k \in 1 .. Len(<<g>>) : <<g>>[k].op \in RunOps
    BY <2>4, PlainFew DEF RunOps
  <2> QED
    BY <2>6, <2>7, PlainConcat
<1>6. PlainRun(F)
  <2>1. c \in Dialog \cup {NoCall}
    BY <1>1, HeadFrame DEF Frames
  <2> HIDE DEF c
  <2> QED
    BY <2>1, PlainFrames, PlainFew DEF LooseOps, RunOps
<1> HIDE DEF F, G, g
<1>7. StacksOK' /\ CalmStacks /\ WaitOK' /\ Waits(t)
  BY <1>1, <1>2, <1>3, <1>4, <1>5, <1>6, PlainFew, Continued
<1>8. RadioOK' /\ CalmRadio /\ calls' \in [Dialog -> CallEntry] /\ CalmCalls
  BY <1>2, RadioKept, CallsKept
<1>9. PeerOK' /\ activeCalls' \in 0 .. Cardinality(Dialog)
  BY <1>2, ManagerCalm DEF TypeInv, TableOK
<1> QED
  BY <1>2, <1>7, <1>8, <1>9, CalmParts

\* A NOTIFY is sent or was answered.
LEMMA notifyCalm ==
  ASSUME TypeInv, NEW t \in Task, notify(t)
  PROVE  CalmStep(t)
<1>1. UNCHANGED <<radioVars, sipVars, ret, closed, torn, aborted>> /\ ManagerUnchanged
  BY DEF notify
<1>2. ret' \in [Task -> Dialog \cup {NoCall}]
  BY <1>1 DEF TypeInv, WaitOK
<1>3. CASE /\ Running(t, "notify") /\ SendRequest(t, Frame(t).c, "NOTIFY")
           /\ Suspend(t, FrC("NOTIFY", Frame(t).c))
  <2>1. /\ stack[t] # <<>> /\ Frame(t).op = "notify"
        /\ Frame(t).op \in CalmOps /\ Frame(t).op \in RunOps
    BY <1>3 DEF Running, Frame, CalmOps, RunOps
  <2>2. Frame(t).c \in Dialog /\ "NOTIFY" \in AwaitOps
    BY <2>1, HeadFrame DEF FrameOK, AwaitOps
  <2>3. StacksOK' /\ CalmStacks /\ WaitOK' /\ Waits(t)
    BY <1>1, <1>3, <2>1, <2>2, Requested
  <2> QED
    BY <1>1, <2>3, LocalCalm
<1>4. CASE /\ Woken(t, "NOTIFY") /\ resp' = [resp EXCEPT ![t] = NoResp] /\ Return(t)
           /\ UNCHANGED <<pending, inflight>>
  <2>1. stack[t] # <<>> /\ Frame(t).op \in CalmOps /\ resp[t] # NoResp
    BY <1>4 DEF Woken, CalmOps, RunOps, AwaitOps
  <2>2. StacksOK' /\ CalmStacks /\ WaitOK' /\ Waits(t)
    BY <1>1, <1>2, <1>4, <2>1, Resumed
  <2> QED
    BY <1>1, <2>2, LocalCalm
<1> QED
  BY <1>3, <1>4 DEF notify

\* After a BYE of the far end one radio call leaves the list.
LEMMA byeTailCalm ==
  ASSUME TypeInv, NEW t \in Task, byeTail(t)
  PROVE  CalmStep(t)
<1> DEFINE c == Frame(t).c
           I == {i \in 1 .. Len(voice_calls) : radio[voice_calls[i]].sip = c}
           k == IF c = NoCall THEN 0 ELSE IF I # {} THEN Min(I) ELSE 0
<1>1. stack[t] # <<>> /\ Frame(t).op \in CalmOps /\ Frame(t).op \in RunOps
  BY DEF byeTail, Running, Frame, CalmOps, RunOps
<1>2. /\ UNCHANGED <<radio, nextIndex, table, calls, started, waitVars, ret, closed,
                     torn, aborted>>
      /\ ManagerUnchanged /\ Become(t, <<>>)
      /\ activeCalls' = CountActive(table, calls) \/ activeCalls' = activeCalls
  BY DEF byeTail, Return
<1>3. voice_calls' = IF k = 0 THEN voice_calls ELSE RemoveAt(voice_calls, k)
  BY DEF byeTail, SelectInSeq
<1>4. /\ voice_calls \in Seq(1 .. MaxIndex) /\ IsInjective(voice_calls)
      /\ Len(voice_calls) \in Nat
  BY DEF TypeInv, RadioOK
<1>5. k # 0 => k \in 1 .. Len(voice_calls)
  <2>1. I \in SUBSET (1 .. Len(voice_calls))
    OBVIOUS
  <2> HIDE DEF I
  <2> QED
    BY <1>4, <2>1, FirstPosition
<1> HIDE DEF k
<1>6. RadioOK' /\ CalmRadio
  <2>1. CASE k = 0
    BY <1>2, <1>3, <2>1, RadioKept DEF radioVars
  <2>2. CASE k # 0
    <3>1. /\ voice_calls' \in Seq(1 .. MaxIndex) /\ IsInjective(voice_calls')
          /\ ToSet(voice_calls') \subseteq ToSet(voice_calls)
      BY <1>3, <1>4, <1>5, <2>2, RemoveAtProperties
    <3> QED
      BY <1>2, <3>1, Shorter
  <2> QED
    BY <2>1, <2>2
<1>7. ret' \in [Task -> Dialog \cup {NoCall}] /\ started' \in BOOLEAN
  BY <1>2 DEF TypeInv, WaitOK, TableOK
<1>8. StacksOK' /\ CalmStacks /\ WaitOK' /\ Waits(t)
  BY <1>1, <1>2, <1>7, PlainFew, Continued
<1>9. /\ PeerOK' /\ activeCalls' \in 0 .. Cardinality(Dialog)
      /\ calls' \in [Dialog -> CallEntry] /\ CalmCalls
  BY <1>2, ManagerCalm, Counted, CallsKept DEF TypeInv, TableOK
<1> QED
  BY <1>2, <1>6, <1>7, <1>8, <1>9, CalmParts

-----------------------------------------------------------------------------
(* Responses, timeouts, and the requests that start a task.                *)

\* An event of SIPClient that does so.
CalmTurn == TypeInv' /\ Calm /\ PendingHasWaiter'

\* The stacks are left alone.
LEMMA StacksKept ==
  ASSUME TypeInv, UNCHANGED <<stack, ret>>
  PROVE  StacksOK' /\ CalmStacks
BY DEF TypeInv, StacksOK, CalmStacks

\* A response resolves a future and removes it from the table.
LEMMA responseCalm ==
  ASSUME TypeInv, PendingHasWaiter, NEW r \in inflight, NEW ok \in BOOLEAN,
         response(r, ok)
  PROVE  CalmTurn
<1>1. UNCHANGED <<radioVars, sipVars, ret, stack, cpu, rung, histVars, env>>
  BY DEF response
<1>2. r.c \in Dialog /\ r.m \in AwaitOps
  BY DEF TypeInv, WaitOK
<1>3. StacksOK' /\ CalmStacks /\ RadioOK' /\ CalmRadio
  BY <1>1, StacksKept, RadioKept
<1>4. TableOK' /\ CalmCalls /\ UNCHANGED <<table, closed, torn>>
  BY <1>1 DEF TypeInv, TableOK, CalmCalls, sipVars, histVars
<1>5. inflight' \subseteq inflight
  BY DEF response
<1>6. ASSUME UNCHANGED <<pending, resp>> PROVE WaitOK' /\ PendingHasWaiter'
  <2>1. WaitOK'
    BY <1>1, <1>5, <1>6 DEF TypeInv, WaitOK
  <2>2. PendingHasWaiter'
    BY <1>1, <1>6 DEF PendingHasWaiter, Frame
  <2> QED
    BY <2>1, <2>2
<1>7. ASSUME pending[r.c] # Idle,
             resp' = [resp EXCEPT ![pending[r.c]] = [m |-> r.m, ok |-> ok]],
             pending' = [pending EXCEPT ![r.c] = Idle]
      PROVE  WaitOK' /\ PendingHasWaiter'
  <2>1. WaitOK'
    <3>1. [m |-> r.m, ok |-> ok] \in [m: AwaitOps \cup {"none", "timeout"}, ok: BOOLEAN]
      BY <1>2
    <3> QED
      BY <1>1, <1>2, <1>5, <1>7, <3>1 DEF TypeInv, WaitOK
  <2>2. PendingHasWaiter'
    <3> SUFFICES ASSUME NEW d \in Dialog, pending'[d] # Idle
                 PROVE  /\ stack[pending'[d]] # <<>>
                        /\ Head(stack[pending'[d]]).op \in AwaitOps
                        /\ Head(stack[pending'[d]]).c = d
                        /\ resp'[pending'[d]] = NoResp
      BY <1>1 DEF PendingHasWaiter, Frame
    <3>1. d # r.c /\ pending'[d] = pending[d] /\ pending[d] \in Task
      BY <1>2, <1>7 DEF TypeInv, WaitOK
    <3>2. Head(stack[pending[d]]).c = d /\ Head(stack[pending[r.c]]).c = r.c
      BY <1>2, <1>7, <3>1 DEF PendingHasWaiter, Frame
    <3>3. resp'[pending[d]] = resp[pending[d]]
      BY <1>7, <3>1, <3>2 DEF TypeInv, WaitOK
    <3> QED
      BY <3>1, <3>3 DEF PendingHasWaiter, Frame
  <2> QED
    BY <2>1, <2>2
<1>8. WaitOK' /\ PendingHasWaiter'
  BY <1>6, <1>7 DEF response
<1>9. PeerOK'
  BY <1>1, <1>2 DEF response, TypeInv, PeerOK, histVars
<1> QED
  BY <1>3, <1>4, <1>8, <1>9 DEF CalmTurn, Calm, TypeInv

\* A 180 changes the state of a call.
LEMMA ringingCalm ==
  ASSUME TypeInv, PendingHasWaiter, NEW c \in Mo, ringing(c)
  PROVE  CalmTurn
<1>1. UNCHANGED <<voice_calls, nextIndex, table, started, activeCalls, waitVars,
                  ret, stack, cpu, up, referred, histVars, env>>
  BY DEF ringing
<1>2. c \in Dialog /\ rung' \subseteq Mo
  BY DEF Dialog, ringing, TypeInv, PeerOK
<1>3. StacksOK' /\ CalmStacks
  BY <1>1, StacksKept
<1>4. RadioOK' /\ CalmRadio
  <2>1. radio' = radio \/ radio' = RadioUpdate(calls[c].idx, "ALERTING")
    BY DEF ringing
  <2>2. "ALERTING" \in RadioStates
    BY DEF RadioStates
  <2>3. CASE radio' = radio
    BY <1>1, <2>3, RadioKept DEF radioVars
  <2>4. CASE radio' = RadioUpdate(calls[c].idx, "ALERTING")
    <3> DEFINE i == calls[c].idx
    <3>1. radio' = RadioUpdate(i, "ALERTING")
      BY <2>4
    <3> HIDE DEF i
    <3> QED
      BY <1>1, <2>2, <3>1, RadioUpdated
  <2> QED
    BY <2>1, <2>3, <2>4
<1>5. calls' \in [Dialog -> CallEntry] /\ CalmCalls
  <2> DEFINE e == [calls[c] EXCEPT !.state = "RINGING_OUT"]
  <2>1. calls \in [Dialog -> CallEntry]
    BY DEF TypeInv, TableOK, CallEntry
  <2>2. calls' = calls \/ calls' = [calls EXCEPT ![c] = e]
    BY <1>2, <2>1 DEF ringing
  <2>3. calls[c] \in CallEntry
    BY <1>2, <2>1
  <2>4. /\ e \in CallEntry /\ e.idx = calls[c].idx
        /\ e.media = "none" <=> calls[c].media = "none"
        /\ e.state \notin {"none", "RINGING_IN"}
    BY <2>3 DEF CallEntry, SipStates
  <2> HIDE DEF e
  <2> QED
    BY <1>2, <2>2, <2>4, CallWrite, CallsKept
<1>6. TableOK' /\ WaitOK'
  BY <1>1, <1>5 DEF TypeInv, TableOK, WaitOK, CallEntry, waitVars
<1>7. PeerOK'
  BY <1>1, <1>2 DEF TypeInv, PeerOK, histVars
<1>8. PendingHasWaiter'
  BY <1>1 DEF PendingHasWaiter, Frame, waitVars
<1>9. UNCHANGED <<table, closed, torn>>
  BY <1>1 DEF histVars
<1> QED
  BY <1>3, <1>4, <1>5, <1>6, <1>7, <1>8, <1>9 DEF CalmTurn, Calm, TypeInv

\* A timeout deletes the future of its Call-ID, or ends the task.
LEMMA timeoutCalm ==
  ASSUME TypeInv, PendingHasWaiter, NEW t \in Task, timeout(t)
  PROVE  CalmTurn
<1> DEFINE c == Frame(t).c
<1>1. /\ UNCHANGED <<radioVars, sipVars, inflight, ret, peerVars, closed, answered,
                     torn, env>>
      /\ stack[t] # <<>> /\ Frame(t).op \in AwaitOps
      /\ \/ /\ pending[c] # Idle
            /\ pending' = [pending EXCEPT ![c] = Idle]
            /\ resp' = [resp EXCEPT ![t] = [m |-> "timeout", ok |-> FALSE]]
            /\ cpu' = t /\ UNCHANGED <<stack, aborted>>
         \/ pending[c] = Idle /\ Abort(t) /\ UNCHANGED <<pending, resp>>
  BY DEF timeout
<1>2. c \in Dialog /\ Frame(t).op \in CalmOps \cup {"INVITE"}
  BY <1>1, HeadFrame DEF FrameOK, CalmOps
<1>3. \A d \in Dialog : pending[d] = t => d = c
  BY CallsAssumption DEF PendingHasWaiter
<1> HIDE DEF c
<1>4. RadioOK' /\ CalmRadio /\ TableOK' /\ CalmCalls /\ UNCHANGED <<table, closed, torn>>
  BY <1>1, RadioKept DEF TypeInv, TableOK, CalmCalls, sipVars
<1>5. CASE /\ pending' = [pending EXCEPT ![c] = Idle]
           /\ resp' = [resp EXCEPT ![t] = [m |-> "timeout", ok |-> FALSE]]
           /\ cpu' = t /\ UNCHANGED <<stack, aborted>>
  <2>1. StacksOK' /\ CalmStacks
    BY <1>1, <1>5, StacksKept
  <2>2. [m |-> "timeout", ok |-> FALSE] \in
          [m: AwaitOps \cup {"none", "timeout"}, ok: BOOLEAN]
    OBVIOUS
  <2>3. WaitOK' /\ PeerOK'
    BY <1>1, <1>2, <1>5, <2>2 DEF TypeInv, WaitOK, PeerOK, peerVars
  <2>4. PendingHasWaiter'
    BY <1>2, <1>3, <1>5 DEF PendingHasWaiter, Frame, TypeInv, WaitOK
  <2> QED
    BY <1>4, <2>1, <2>3, <2>4 DEF CalmTurn, Calm, TypeInv
<1>6. CASE pending[c] = Idle /\ Abort(t) /\ UNCHANGED <<pending, resp>>
  <2>1. /\ StacksOK' /\ CalmStacks /\ cpu' \in Task \cup {Idle}
        /\ \A u \in Task \ {t} : stack'[u] = stack[u]
        /\ aborted' \subseteq Task
    BY <1>1, <1>2, <1>6, CalmAbort
  <2>2. WaitOK' /\ PeerOK'
    BY <1>1, <1>6, <2>1 DEF TypeInv, WaitOK, PeerOK, peerVars
  <2>3. \A d \in Dialog : pending[d] # Idle => pending[d] \in Task \ {t}
    BY <1>3, <1>6 DEF TypeInv, WaitOK
  <2>4. PendingHasWaiter'
    BY <1>6, <2>1, <2>3 DEF PendingHasWaiter, Frame
  <2> QED
    BY <1>4, <2>1, <2>2, <2>4 DEF CalmTurn, Calm, TypeInv
<1> QED
  BY <1>1, <1>5, <1>6

\* A task begins.
LEMMA Started ==
  ASSUME TypeInv, NEW t \in Task, stack[t] = <<>>, NEW F, PlainRun(F),
         stack' = [stack EXCEPT ![t] = F], cpu' \in Task \cup {Idle},
         UNCHANGED <<waitVars, ret>>
  PROVE  StacksOK' /\ CalmStacks /\ WaitOK' /\ Waits(t)
<1>1. StacksOK' /\ CalmStacks
  BY CalmBegin DEF TypeInv
<1>2. \A u \in Task \ {t} : stack'[u] = stack[u]
  BY DEF TypeInv, StacksOK
<1>3. WaitOK' /\ Waits(t)
  BY <1>2 DEF TypeInv, WaitOK, Waits, waitVars
<1> QED
  BY <1>1, <1>3

\* A request of a RIL client starts a task.
LEMMA RilRequestCalm ==
  ASSUME TypeInv, NEW t \in Ril, RilRequest(t)
  PROVE  CalmStep(t)
<1>1. /\ UNCHANGED <<radioVars, sipVars, waitVars, ret, peerVars, histVars>>
      /\ stack[t] = <<>> /\ cpu' = t /\ env.user > 0
      /\ env' = [env EXCEPT !.user = @ - 1]
  BY DEF RilRequest
<1>2. t \in Task /\ env \in Scene
  BY DEF Task, TypeInv, PeerOK
<1>3. PICK op \in env.ops, i \in 0 .. MaxIndex : stack' = [stack EXCEPT ![t] = <<FrI(op, i)>>]
  <2>1. PICK op \in env.ops :
          \E i \in IF op \in {"hangup", "separate"} THEN 1 .. MaxIndex ELSE {0} :
            stack' = [stack EXCEPT ![t] = <<FrI(op, i)>>]
    BY DEF RilRequest
  <2>2. PICK i \in IF op \in {"hangup", "separate"} THEN 1 .. MaxIndex ELSE {0} :
          stack' = [stack EXCEPT ![t] = <<FrI(op, i)>>]
    BY <2>1
  <2>3. i \in 0 .. MaxIndex
    BY CallsAssumption
  <2> QED
    BY <2>2, <2>3
<1>4. PlainRun(<<FrI(op, i)>>)
  <2>1. op \in LooseOps
    BY <1>2 DEF Scene, LooseOps, RunOps
  <2>2. i \in 0 .. MaxIndex + 1
    BY CallsAssumption
  <2> QED
    BY <2>1, <2>2, PlainFrames, PlainFew
<1>5. StacksOK' /\ CalmStacks /\ WaitOK' /\ Waits(t)
  BY <1>1, <1>2, <1>3, <1>4, Started
<1>6. env' \in Scene
  BY <1>1, <1>2 DEF Scene
<1>7. PeerOK'
  BY <1>1, <1>6 DEF TypeInv, PeerOK, peerVars, histVars
<1>8. /\ RadioOK' /\ CalmRadio /\ calls' \in [Dialog -> CallEntry] /\ CalmCalls
      /\ started' \in BOOLEAN /\ activeCalls' \in 0 .. Cardinality(Dialog)
      /\ UNCHANGED <<table, closed, torn>>
  BY <1>1, RadioKept, CallsKept DEF TypeInv, TableOK, sipVars, histVars
<1> QED
  BY <1>2, <1>5, <1>7, <1>8, CalmParts

\* What a request from the network uses up.
LEMMA Arrived ==
  ASSUME TypeInv, NEW h \in Handlers, NEW m, Arrives(h, m)
  PROVE  /\ h \in Task /\ stack[h] = <<>> /\ env' \in Scene
         /\ UNCHANGED <<answered, aborted, rung>>
<1>1. env \in Scene /\ env.peer > 0 /\ env' = [env EXCEPT !.peer = @ - 1]
  BY DEF Arrives, TypeInv, PeerOK
<1>2. env' \in Scene
  BY <1>1 DEF Scene
<1> QED
  BY <1>2 DEF Arrives, Task

\* A re-INVITE changes the state of a call.
LEMMA reinviteCalm ==
  ASSUME TypeInv, NEW h \in Handlers, NEW c \in Dialog, reinvite(h, c)
  PROVE  CalmStep(h)
<1>1. /\ UNCHANGED <<voice_calls, nextIndex, table, started, activeCalls, waitVars,
                     ret, referred, closed, torn>>
      /\ Arrives(h, "REINVITE") /\ Runs(h, <<>>) /\ up' = up \cup {c}
  BY DEF reinvite
<1>2. PICK hold \in BOOLEAN :
        /\ calls' = [calls EXCEPT ![c].state = IF hold THEN "HELD" ELSE "ACTIVE",
                       ![c].media = IF hold THEN Paused(@) ELSE Playing(@)]
        /\ radio' = RadioUpdate(calls[c].idx, IF hold THEN "HOLDING" ELSE "ACTIVE")
  <2>1. \A S : S \in {BOOLEAN, {FALSE}} => \A hold \in S : hold \in BOOLEAN
    OBVIOUS
  <2> QED
    BY <2>1 DEF reinvite
<1>3. /\ h \in Task /\ stack[h] = <<>> /\ env' \in Scene
      /\ UNCHANGED <<answered, aborted, rung>>
  BY <1>1, Arrived
<1>4. /\ PlainRun(<<>>) /\ stack' = [stack EXCEPT ![h] = <<>>]
      /\ cpu' \in Task \cup {Idle}
  BY <1>1, PlainFew DEF Runs
<1>5. StacksOK' /\ CalmStacks /\ WaitOK' /\ Waits(h)
  BY <1>1, <1>3, <1>4, Started
<1>6. PeerOK'
  BY <1>1, <1>3 DEF TypeInv, PeerOK
<1>7. RadioOK' /\ CalmRadio
  <2> DEFINE i == calls[c].idx
             s == IF hold THEN "HOLDING" ELSE "ACTIVE"
  <2>1. radio' = RadioUpdate(i, s) /\ s \in RadioStates
    BY <1>2 DEF RadioStates
  <2> HIDE DEF i, s
  <2> QED
    BY <1>1, <2>1, RadioUpdated
<1>8. calls' \in [Dialog -> CallEntry] /\ CalmCalls
  <2>1. calls \in [Dialog -> CallEntry] /\ calls[c] \in CallEntry
    BY DEF TypeInv, TableOK, CallEntry
  <2>2. CASE hold
    <3> DEFINE e == [calls[c] EXCEPT !.state = "HELD", !.media = Paused(@)]
    <3>1. calls' = [calls EXCEPT ![c] = e]
      BY <1>2, <2>1, <2>2
    <3>2. /\ e \in CallEntry /\ e.idx = calls[c].idx
          /\ e.media = "none" <=> calls[c].media = "none"
          /\ e.state \notin {"none", "RINGING_IN"}
      BY <2>1 DEF CallEntry, Paused, SipStates
    <3> HIDE DEF e
    <3> QED
      BY <3>1, <3>2, CallWrite
  <2>3. CASE ~ hold
    <3> DEFINE e == [calls[c] EXCEPT !.state = "ACTIVE", !.media = Playing(@)]
    <3>1. calls' = [calls EXCEPT ![c] = e]
      BY <1>2, <2>1, <2>3
    <3>2. /\ e \in CallEntry /\ e.idx = calls[c].idx
          /\ e.media = "none" <=> calls[c].media = "none"
          /\ e.state \notin {"none", "RINGING_IN"}
      BY <2>1 DEF CallEntry, Playing, SipStates
    <3> HIDE DEF e
    <3> QED
      BY <3>1, <3>2, CallWrite
  <2> QED
    BY <2>2, <2>3
<1>9. started' \in BOOLEAN /\ activeCalls' \in 0 .. Cardinality(Dialog)
  BY <1>1 DEF TypeInv, TableOK
<1> QED
  BY <1>1, <1>3, <1>5, <1>6, <1>7, <1>8, <1>9, CalmParts

\* A REFER starts a handler.
LEMMA incomingReferCalm ==
  ASSUME TypeInv, NEW h \in Handlers, NEW c \in Dialog, incomingRefer(h, c)
  PROVE  CalmStep(h)
<1> DEFINE a == FrC("notify", c)
           b == FrC("hangupCall", c)
           d == FrI("dial", 0)
           F == <<a, b, d, a>>
<1>1. /\ UNCHANGED <<radioVars, sipVars, waitVars, ret, up, referred, closed, torn>>
      /\ Arrives(h, "REFER") /\ Runs(h, IF ~ InTable(c) THEN <<>> ELSE F)
  BY DEF incomingRefer
<1>2. /\ h \in Task /\ stack[h] = <<>> /\ env' \in Scene
      /\ UNCHANGED <<answered, aborted, rung>>
  BY <1>1, Arrived
<1>3. PlainRun(F)
  <2>1. /\ "hangupCall" \in LooseOps /\ "dial" \in LooseOps
        /\ 0 \in 0 .. MaxIndex + 1
    BY CallsAssumption DEF LooseOps, RunOps
  <2>2. /\ Plain(a) /\ Plain(b) /\ Plain(d)
        /\ a.op = "notify" /\ b.op = "hangupCall" /\ d.op = "dial"
    BY <2>1, PlainFrames, FrameFields
  <2> HIDE DEF a, b, d
  <2>3. a \in Frames /\ b \in Frames /\ d \in Frames
    BY <2>2 DEF Plain
  <2>4. /\ F \in Seq(Frames) /\ Len(F) = 4
        /\ F[1] = a /\ F[2] = b /\ F[3] = d /\ F[4] = a
    BY <2>3
  <2> HIDE DEF F
  <2>5. \A k \in 1 .. Len(F) : k = 1 \/ k = 2 \/ k = 3 \/ k = 4
    BY <2>4
  <2> QED
    BY <2>2, <2>4, <2>5 DEF PlainRun, RunOps
<1> DEFINE G == IF ~ InTable(c) THEN <<>> ELSE F
<1> HIDE DEF F
<1>4. PlainRun(G)
  BY <1>3, PlainFew
<1>5. stack' = [stack EXCEPT ![h] = G] /\ cpu' \in Task \cup {Idle}
  BY <1>1, <1>2 DEF Runs
<1> HIDE DEF G
<1>6. StacksOK' /\ CalmStacks /\ WaitOK' /\ Waits(h)
  BY <1>1, <1>2, <1>4, <1>5, Started
<1>7. PeerOK'
  BY <1>1, <1>2 DEF TypeInv, PeerOK
<1>8. /\ RadioOK' /\ CalmRadio /\ calls' \in [Dialog -> CallEntry] /\ CalmCalls
      /\ started' \in BOOLEAN /\ activeCalls' \in 0 .. Cardinality(Dialog)
      /\ UNCHANGED <<table, closed, torn>>
  BY <1>1, RadioKept, CallsKept DEF TypeInv, TableOK, sipVars
<1> QED
  BY <1>2, <1>6, <1>7, <1>8, CalmParts

\* A NOTIFY starts a handler, or clears the transfer.
LEMMA incomingNotifyCalm ==
  ASSUME TypeInv, NEW h \in Handlers, NEW c \in Dialog, incomingNotify(h, c)
  PROVE  CalmStep(h)
<1> DEFINE F == IF InTable(c) /\ calls[c].xfer THEN <<FrC("hangupCall", c)>> ELSE <<>>
<1>1. /\ UNCHANGED <<radioVars, table, started, activeCalls, waitVars, ret, up,
                     closed, torn>>
      /\ Arrives(h, "NOTIFY") /\ referred' = referred \cup {c}
      /\ \/ Runs(h, F) /\ UNCHANGED calls
         \/ Runs(h, <<>>) /\ calls' = [calls EXCEPT ![c].xfer = FALSE]
  BY DEF incomingNotify
<1>2. /\ h \in Task /\ stack[h] = <<>> /\ env' \in Scene
      /\ UNCHANGED <<answered, aborted, rung>>
  BY <1>1, Arrived
<1>3. PlainRun(F) /\ PlainRun(<<>>)
  BY PlainFrames, PlainFew DEF LooseOps, RunOps
<1> HIDE DEF F
<1>4. PICK G \in {F, <<>>} : Runs(h, G)
  BY <1>1
<1>5. /\ PlainRun(G) /\ stack' = [stack EXCEPT ![h] = G]
      /\ cpu' \in Task \cup {Idle}
  BY <1>2, <1>3, <1>4 DEF Runs
<1>6. StacksOK' /\ CalmStacks /\ WaitOK' /\ Waits(h)
  BY <1>1, <1>2, <1>5, Started
<1>7. PeerOK'
  BY <1>1, <1>2 DEF TypeInv, PeerOK
<1>8. calls' \in [Dialog -> CallEntry] /\ CalmCalls
  <2> DEFINE e == [calls[c] EXCEPT !.xfer = FALSE]
  <2>1. calls \in [Dialog -> CallEntry] /\ calls[c] \in CallEntry
    BY DEF TypeInv, TableOK, CallEntry
  <2>2. calls' = calls \/ calls' = [calls EXCEPT ![c] = e]
    BY <1>1, <2>1
  <2>3. /\ e \in CallEntry /\ e.idx = calls[c].idx
        /\ e.media = "none" <=> calls[c].media = "none"
        /\ e.state \in {"none", "RINGING_IN"} => e.state = calls[c].state
    BY <2>1 DEF CallEntry, SipStates
  <2> HIDE DEF e
  <2> QED
    BY <2>2, <2>3, CallWrite, CallsKept
<1>9. /\ RadioOK' /\ CalmRadio
      /\ started' \in BOOLEAN /\ activeCalls' \in 0 .. Cardinality(Dialog)
  BY <1>1, RadioKept DEF TypeInv, TableOK
<1> QED
  BY <1>1, <1>2, <1>6, <1>7, <1>8, <1>9, CalmParts

-----------------------------------------------------------------------------
(* The steps that make, change or end one call: the others keep.           *)

\* What the invariant says of one call.
LifeOf(c) ==
  /\ calls[c].state = "none" =>
       /\ c \notin ToSet(table) /\ closed[c] = "no" /\ calls[c].media = "none"
       /\ \A t \in Task : ~ Has(t, "bye", c) /\ ~ Begins(t, c)
  /\ c \in ToSet(table) => closed[c] = "no" /\ \A t \in Task : ~ Has(t, "bye", c)
  /\ \A t \in Task : Has(t, "bye", c) =>
       closed[c] = "no" /\ \A u \in Task : Has(u, "bye", c) => u = t
  /\ calls[c].state = "RINGING_IN" => c \in Mt
  /\ \A t \in Task : Begins(t, c) => c \in ToSet(table) \cup torn
  /\ \A t \in Task : Has(t, "INVITE", c) =>
       /\ c \in Mo /\ calls[c].media = "none" /\ ~ Has(t, "START", c)
       /\ \A u \in Task : Begins(u, c) => u = t
  /\ c \notin ToSet(table) \cup torn /\ calls[c].media # "none" =>
       \E t \in Task : FrC("STOP", c) \in ToSet(stack[t])
  /\ c \in ToSet(table) =>
       /\ calls[c].idx < nextIndex
       /\ \A t \in Task : Has(t, "inviteIndex", c) =>
            Head(stack[t]).op = "hangupCall" /\ Head(stack[t]).c = c

\* The invariant says this of every call,
LEMMA LifeOfCalls ==
  ASSUME TypeInv, LifeInv, NEW c \in Dialog
  PROVE  LifeOf(c)
<1>1. c \notin ToSet(table) \cup torn /\ calls[c].media # "none" =>
        \E t \in Task : FrC("STOP", c) \in ToSet(stack[t])
  BY DEF LifeInv, LeakNeedsEarlyTeardown, ToSet
<1> QED
  BY <1>1 DEF LifeInv, FreshOK, ByeOK, SetupOK, IndexOK, LifeOf

\* and is made of what it says of every call.
LEMMA LifeFromCalls ==
  ASSUME TypeInv', DialOK', UpdatesReachOwnCall', \A c \in Dialog : LifeOf(c)'
  PROVE  LifeInv'
<1>1. \A c \in ToSet(table') : c \in Dialog
  BY Members DEF TypeInv, TableOK
<1>2. FreshOK'
  BY DEF FreshOK, LifeOf
<1>3. ByeOK'
  BY <1>1 DEF ByeOK, LifeOf
<1>4. SetupOK'
  BY DEF SetupOK, LifeOf
<1>5. LeakNeedsEarlyTeardown'
  BY DEF LeakNeedsEarlyTeardown, LifeOf, ToSet
<1>6. IndexOK'
  BY <1>1 DEF IndexOK, LifeOf
<1> QED
  BY <1>2, <1>3, <1>4, <1>5, <1>6 DEF LifeInv

\* A call that a step has nothing to do with.
LEMMA CallKept ==
  ASSUME TypeInv, LifeInv, NEW c \in Dialog,
         \A u \in Task : \A f \in ToSet(stack'[u]) :
           f.op \in LifeOps /\ f.c = c => f \in ToSet(stack[u]),
         \A u \in Task : FrC("STOP", c) \in ToSet(stack[u]) =>
           FrC("STOP", c) \in ToSet(stack'[u]),
         \A u \in Task : stack'[u] = stack[u] \/ stack[u] = <<>>
                         \/ Frame(u).op # "hangupCall" \/ Frame(u).c # c
                         \/ c \notin ToSet(table),
         calls'[c] = calls[c], nextIndex' \in Int, nextIndex \in Int, nextIndex <= nextIndex',
         c \in ToSet(table') <=> c \in ToSet(table),
         c \in torn' <=> c \in torn, closed'[c] = closed[c]
  PROVE  LifeOf(c)'
<1>1. ASSUME NEW u \in Task, NEW op \in LifeOps PROVE Has(u, op, c)' => Has(u, op, c)
  BY DEF Has
<1>2. ASSUME NEW u \in Task PROVE Begins(u, c)' => Begins(u, c)
  BY <1>1 DEF Begins, LifeOps
<1>3. LifeOf(c)
  BY LifeOfCalls
<1>4. calls[c].idx \in Int
  BY CallsAssumption DEF TypeInv, TableOK
<1>5. ASSUME NEW u \in Task, c \in ToSet(table), Has(u, "inviteIndex", c)'
      PROVE  Head(stack'[u]).op = "hangupCall" /\ Head(stack'[u]).c = c
  <2>1. Has(u, "inviteIndex", c) /\ stack[u] # <<>>
    BY <1>1, <1>5 DEF Has, ToSet, LifeOps
  <2>2. Head(stack[u]).op = "hangupCall" /\ Head(stack[u]).c = c
    BY <1>3, <1>5, <2>1 DEF LifeOf
  <2> QED
    BY <1>5, <2>1, <2>2 DEF Frame
<1> QED
  BY <1>1, <1>2, <1>3, <1>4, <1>5 DEF LifeOf, LifeOps

\* A step of task t that makes, changes or ends a call.
LifeStep(t) == TypeInv' /\ LifeInv' /\ Waits(t)

\* How replacing the innermost coroutine of t changes the stacks.
LEMMA Stacked ==
  ASSUME TypeInv, NEW t \in Task, stack[t] # <<>>, NEW F \in Seq(Frames),
         stack' = [stack EXCEPT ![t] = F \o Tail(stack[t])]
  PROVE  /\ \A u \in Task \ {t} : stack'[u] = stack[u]
         /\ stack'[t] = F \o Tail(stack[t])
         /\ ToSet(stack'[t]) = ToSet(F) \cup Below(stack[t])
         /\ ToSet(stack[t]) = {Frame(t)} \cup Below(stack[t])
         /\ FrameOK(Frame(t)) /\ Frame(t) \in Frames
         /\ \A f \in Below(stack[t]) :
              /\ f.op \in RunOps
              /\ f.op = "bye" => Frame(t).op = "STOP"
              /\ f.op = "dialDone" => Frame(t).op \in OpensMedia
         /\ F # <<>> => stack'[t] # <<>> /\ Head(stack'[t]) = Head(F)
<1>1. stack[t] \in Seq(Frames) /\ StackOK(stack[t])
  BY DEF TypeInv, StacksOK
<1>2. /\ \A u \in Task \ {t} : stack'[u] = stack[u]
      /\ stack'[t] = F \o Tail(stack[t])
  BY DEF TypeInv, StacksOK
<1>3. /\ ToSet(F \o Tail(stack[t])) = ToSet(F) \cup Below(stack[t])
      /\ F # <<>> => /\ F \o Tail(stack[t]) # <<>>
                     /\ Head(F \o Tail(stack[t])) = Head(F)
  BY <1>1, Replaced
<1> QED
  BY <1>1, <1>2, <1>3, BelowHead DEF Frame

\* The members of short sequences of coroutines.
LEMMA FewFrames ==
  /\ <<>> \in Seq(Frames) /\ ToSet(<<>>) = {}
  /\ \A f \in Frames : <<f>> \in Seq(Frames) /\ ToSet(<<f>>) = {f} /\ Head(<<f>>) = f
  /\ \A f, g \in Frames : /\ <<f, g>> \in Seq(Frames) /\ ToSet(<<f, g>>) = {f, g}
                          /\ Head(<<f, g>>) = f
<1>1. <<>> \in Seq(Frames) /\ ToSet(<<>>) = {}
  BY DEF ToSet
<1>2. ASSUME NEW f \in Frames
      PROVE  <<f>> \in Seq(Frames) /\ ToSet(<<f>>) = {f} /\ Head(<<f>>) = f
  <2> DEFINE F == <<f>>
  <2>1. F \in Seq(Frames) /\ Len(F) = 1 /\ F[1] = f /\ Head(F) = f
    OBVIOUS
  <2> HIDE DEF F
  <2>2. \A k \in 1 .. Len(F) : k = 1
    BY <2>1
  <2>3. ToSet(F) = {f}
    BY <2>1, <2>2 DEF ToSet
  <2> QED
    BY <2>1, <2>3 DEF F
<1>3. ASSUME NEW f \in Frames, NEW g \in Frames
      PROVE  /\ <<f, g>> \in Seq(Frames) /\ ToSet(<<f, g>>) = {f, g}
             /\ Head(<<f, g>>) = f
  <2> DEFINE F == <<f, g>>
  <2>1. F \in Seq(Frames) /\ Len(F) = 2 /\ F[1] = f /\ F[2] = g /\ Head(F) = f
    OBVIOUS
  <2> HIDE DEF F
  <2>2. \A k \in 1 .. Len(F) : k = 1 \/ k = 2
    BY <2>1
  <2>3. ToSet(F) = {f, g}
    BY <2>1, <2>2 DEF ToSet
  <2> QED
    BY <2>1, <2>3 DEF F
<1> QED
  BY <1>1, <1>2, <1>3

\* One task's stack changes to a well-formed one.
LEMMA StacksWritten ==
  ASSUME TypeInv, NEW t \in Task, NEW s, StackOK(s), stack' = [stack EXCEPT ![t] = s]
  PROVE  StacksOK'
<1>1. s \in Seq(Frames)
  BY DEF StackOK
<1> QED
  BY <1>1 DEF TypeInv, StacksOK

\* dial appends an entry under a new index; nobody has that index yet.
LEMMA dialLife ==
  ASSUME TypeInv, LifeInv, NEW t \in Task, dial(t)
  PROVE  LifeStep(t)
<1> DEFINE n == nextIndex
           f == FrI("initiate", n)
           g == FrI("dialDone", n)
           F == <<f, g>>
           new == [state |-> "DIALING", mpty |-> FALSE, sip |-> NoCall]
<1>1. /\ stack[t] # <<>> /\ Frame(t).op = "dial" /\ n <= MaxIndex
      /\ radio' = [radio EXCEPT ![n] = new] /\ voice_calls' = Append(voice_calls, n)
      /\ nextIndex' = n + 1 /\ Become(t, F)
      /\ UNCHANGED <<sipVars, waitVars, ret, peerVars, histVars, env>>
  BY DEF dial, Running, Frame, RadioUnchanged
<1>2. n \in 1 .. MaxIndex /\ MaxIndex \in Nat
  BY <1>1, CallsAssumption DEF TypeInv, RadioOK
<1>3. /\ f.op = "initiate" /\ f.i = n /\ f.c = NoCall
      /\ g.op = "dialDone" /\ g.i = n /\ g.c = NoCall
  BY FrameFields
<1>4. f \in Frames /\ g \in Frames /\ FrameOK(f) /\ FrameOK(g)
  BY <1>2 DEF FrI, Fr, Frames, FrameOK, RunOps, AwaitOps, MediaOps
<1> HIDE DEF f, g
<1>5. StackOK(F)
  <2>1. F \in Seq(Frames) /\ Len(F) = 2 /\ F[1] = f /\ F[2] = g
    BY <1>4
  <2> HIDE DEF F
  <2>2. \A k \in 1 .. Len(F) : k = 1 \/ k = 2
    BY <2>1
  <2> QED
    BY <1>3, <1>4, <2>1, <2>2 DEF StackOK, RunOps
<1>6. stack' = [stack EXCEPT ![t] = F \o Tail(stack[t])] /\ cpu' \in Task \cup {Idle}
  BY <1>1 DEF Become, Runs
<1>7. /\ F \in Seq(Frames) /\ ToSet(F) = {f, g} /\ F # <<>> /\ Head(F) = f
  BY <1>4, FewFrames
<1> HIDE DEF F
<1>8. StacksOK'
  <2>1. StackOK(F \o Tail(stack[t]))
    BY <1>1, <1>5, <1>7, StackPushed DEF TypeInv, StacksOK, Frame, OpensMedia
  <2> QED
    BY <1>6, <2>1, StacksWritten
<1>9. /\ \A u \in Task \ {t} : stack'[u] = stack[u]
      /\ ToSet(stack'[t]) = {f, g} \cup Below(stack[t])
      /\ ToSet(stack[t]) = {Frame(t)} \cup Below(stack[t])
      /\ \A h \in Below(stack[t]) : h.op \in RunOps /\ h.op # "bye" /\ h.op # "dialDone"
  BY <1>1, <1>6, <1>7, Stacked DEF OpensMedia
<1>10. RadioOK'
  <2>1. n \notin ToSet(voice_calls)
    BY Known, <1>2
  <2>2. /\ voice_calls' \in Seq(1 .. MaxIndex) /\ IsInjective(voice_calls')
        /\ ToSet(voice_calls') = ToSet(voice_calls) \cup {n}
    BY <1>1, <1>2, <2>1, AppendProperty DEF TypeInv, RadioOK
  <2>3. \A i \in ToSet(voice_calls') : i < nextIndex'
    BY <1>1, <1>2, <2>2, Known
  <2>4. new \in [state: RadioStates, mpty: BOOLEAN, sip: Dialog \cup {NoCall}]
    BY DEF RadioStates
  <2> HIDE DEF new
  <2>5. nextIndex' \in 1 .. MaxIndex + 1
    BY <1>1, <1>2
  <2> QED
    BY <1>1, <1>2, <2>2, <2>3, <2>4, <2>5 DEF TypeInv, RadioOK
<1>11. TypeInv'
  BY <1>1, <1>6, <1>8, <1>10
     DEF TypeInv, TableOK, WaitOK, PeerOK, sipVars, waitVars, peerVars, histVars
<1>12. ASSUME NEW c \in Dialog PROVE LifeOf(c)'
  <2>1. \A u \in Task : \A h \in ToSet(stack'[u]) :
          h.op \in LifeOps /\ h.c = c => h \in ToSet(stack[u])
    BY <1>3, <1>9 DEF LifeOps
  <2>2. \A u \in Task : FrC("STOP", c) \in ToSet(stack[u]) =>
          FrC("STOP", c) \in ToSet(stack'[u])
    BY <1>1, <1>9, FrameFields
  <2>3. nextIndex' \in Int /\ nextIndex \in Int /\ nextIndex <= nextIndex'
    BY <1>1, <1>2
  <2> QED
    BY <1>1, <1>9, <2>1, <2>2, <2>3, CallKept DEF sipVars, histVars
<1>13. /\ radio'[n].sip = NoCall
       /\ \A i \in 1 .. MaxIndex : i # n => radio'[i] = radio[i]
       /\ \A c \in ToSet(table) : c \in Dialog /\ calls[c].idx < n
       /\ UNCHANGED <<table, calls, ret>>
  BY <1>1, <1>2, Known DEF TypeInv, RadioOK, LifeInv, IndexOK, sipVars
<1>14. DialOK'
  <2> SUFFICES ASSUME NEW u \in Task, NEW i \in 1 .. MaxIndex, Dialling(u, i)'
               PROVE  /\ i < nextIndex' /\ radio'[i].sip = NoCall
                      /\ \A v \in Task : Dialling(v, i)' => v = u
                      /\ \A d \in ToSet(table') : calls'[d].idx = i => d = Callee(u)'
    BY DEF DialOK
  <2>1. \A v \in Task \ {t} : \A j \in 1 .. MaxIndex : Dialling(v, j) => j < n
    BY DEF LifeInv, DialOK
  <2>2. ASSUME NEW j \in 1 .. MaxIndex, Dialling(t, j)' PROVE j = n
    BY <1>3, <1>9, <2>2 DEF Dialling
  <2>3. CASE u = t
    <3>1. i = n
      BY <2>2, <2>3
    <3>2. ASSUME NEW v \in Task, Dialling(v, i)' PROVE v = t
      BY <1>2, <1>9, <2>1, <3>1, <3>2 DEF Dialling
    <3> QED
      BY <1>1, <1>2, <1>13, <2>3, <3>1, <3>2
  <2>4. CASE u # t
    <3>1. Dialling(u, i) /\ i < n /\ i # n
      BY <1>2, <1>9, <2>1, <2>4 DEF Dialling
    <3>2. Callee(u)' = Callee(u)
      BY <1>9, <1>13, <2>4 DEF Callee
    <3>3. ASSUME NEW v \in Task, Dialling(v, i)' PROVE v = u
      <4>1. v # t
        BY <2>2, <3>1, <3>3
      <4>2. Dialling(v, i)
        BY <1>9, <3>3, <4>1 DEF Dialling
      <4> QED
        BY <3>1, <4>2 DEF LifeInv, DialOK
    <3> QED
      BY <1>1, <1>2, <1>13, <3>1, <3>2, <3>3 DEF LifeInv, DialOK
  <2> QED
    BY <2>3, <2>4
<1>15. UpdatesReachOwnCall'
  <2>1. ToSet(voice_calls') = ToSet(voice_calls) \cup {n}
    BY <1>1, <1>2, AppendProperty DEF TypeInv, RadioOK
  <2> QED
    BY <1>2, <1>13, <2>1, Known DEF LifeInv, UpdatesReachOwnCall
<1>16. Waits(t)
  BY <1>1, <1>9, Unawaited DEF waitVars, RunOps
<1> QED
  BY <1>11, <1>12, <1>14, <1>15, <1>16, LifeFromCalls DEF LifeStep

\* A task without a dialDone, whose step leaves indexes and table alone,
\* disturbs no other dial.
LEMMA DialsKept ==
  ASSUME TypeInv, LifeInv, NEW t \in Task,
         \A u \in Task \ {t} : stack'[u] = stack[u] /\ ret'[u] = ret[u],
         \A f \in ToSet(stack'[t]) : f.op # "dialDone",
         \A i \in 1 .. MaxIndex : i < nextIndex =>
           radio'[i].sip = radio[i].sip \/ Dialling(t, i) \/ radio'[i].sip = NoCall,
         nextIndex' = nextIndex,
         \A c \in ToSet(table') : c \in ToSet(table) /\ calls'[c].idx = calls[c].idx
  PROVE  DialOK'
<1> SUFFICES ASSUME NEW u \in Task, NEW i \in 1 .. MaxIndex, Dialling(u, i)'
             PROVE  /\ i < nextIndex' /\ radio'[i].sip = NoCall
                    /\ \A v \in Task : Dialling(v, i)' => v = u
                    /\ \A d \in ToSet(table') : calls'[d].idx = i => d = Callee(u)'
  BY DEF DialOK
<1>1. u # t /\ Dialling(u, i)
  BY DEF Dialling
<1>2. Callee(u)' = Callee(u)
  BY <1>1 DEF Callee
<1>3. /\ i < nextIndex /\ radio[i].sip = NoCall
      /\ \A v \in Task : Dialling(v, i) => v = u
      /\ \A d \in ToSet(table) : calls[d].idx = i => d = Callee(u)
  BY <1>1 DEF LifeInv, DialOK
<1>4. ASSUME NEW v \in Task, Dialling(v, i)' PROVE v = u
  <2>1. v # t /\ Dialling(v, i)
    BY <1>4 DEF Dialling
  <2> QED
    BY <1>3, <2>1
<1>5. radio'[i].sip = NoCall
  BY <1>1, <1>3
<1> QED
  BY <1>2, <1>3, <1>4, <1>5

\* Nothing new is listed.
LEMMA UpdatesKept ==
  ASSUME TypeInv, LifeInv, ToSet(table') \subseteq ToSet(table),
         ToSet(voice_calls') \subseteq ToSet(voice_calls),
         \A c \in ToSet(table') : calls'[c].idx = calls[c].idx,
         \A i \in ToSet(voice_calls) : radio'[i].sip = radio[i].sip
  PROVE  UpdatesReachOwnCall'
BY DEF LifeInv, UpdatesReachOwnCall

\* dial stores the Call-ID in its own entry, or drops it.
LEMMA dialDoneLife ==
  ASSUME TypeInv, LifeInv, NEW t \in Task, dialDone(t)
  PROVE  LifeStep(t)
<1> DEFINE i == Frame(t).i
<1>1. /\ stack[t] # <<>> /\ Frame(t).op = "dialDone"
      /\ UNCHANGED <<nextIndex, ret, closed, answered, torn>>
      /\ UNCHANGED <<sipVars, waitVars, peerVars, env>>
  BY DEF dialDone, Running, Frame, RadioUnchanged
<1>2. \/ /\ ret[t] # NoCall /\ radio' = [radio EXCEPT ![i].sip = ret[t]]
         /\ Become(t, <<>>) /\ UNCHANGED <<voice_calls, aborted>>
      \/ /\ voice_calls' = RemoveFirst(voice_calls, i)
         /\ Become(t, <<>>) /\ UNCHANGED <<radio, aborted>>
      \/ Abort(t) /\ UNCHANGED <<radio, voice_calls>>
  BY DEF dialDone, StoreCallId, Return
<1>3. /\ i \in 1 .. MaxIndex /\ Dialling(t, i)
      /\ stack[t] \in Seq(Frames) /\ StackOK(stack[t])
      /\ ToSet(stack[t]) = {Frame(t)} \cup Below(stack[t])
      /\ \A f \in Below(stack[t]) :
           f.op \in RunOps /\ f.op # "bye" /\ f.op # "dialDone"
  <2>1. StackOK(stack[t]) /\ stack[t] \in Seq(Frames)
    BY DEF TypeInv, StacksOK
  <2>2. i \in 1 .. MaxIndex
    BY <1>1, HeadFrame DEF FrameOK
  <2> QED
    BY <1>1, <2>1, <2>2, BelowHead DEF Frame, OpensMedia, Dialling
<1>4. PICK s : /\ stack' = [stack EXCEPT ![t] = s] /\ StackOK(s)
               /\ ToSet(s) \subseteq Below(stack[t])
  <2>1. CASE Become(t, <<>>)
    <3>1. stack' = [stack EXCEPT ![t] = <<>> \o Tail(stack[t])]
      BY <2>1 DEF Become, Runs
    <3>2. StackOK(<<>> \o Tail(stack[t]))
      BY <1>1, <1>3, StackPopped
    <3>3. ToSet(<<>> \o Tail(stack[t])) = ToSet(<<>>) \cup Below(stack[t])
      BY <1>1, <1>3, FewFrames, Replaced
    <3> QED
      BY <3>1, <3>2, <3>3, FewFrames
  <2>2. CASE Abort(t)
    <3>1. stack' = [stack EXCEPT ![t] = <<>>] /\ StackOK(<<>>)
      BY <2>2 DEF Abort, StackOK
    <3> QED
      BY <3>1, FewFrames
  <2> QED
    BY <1>2, <2>1, <2>2
<1>5. StacksOK' /\ stack'[t] = s /\ \A u \in Task \ {t} : stack'[u] = stack[u]
  BY <1>4, StacksWritten DEF TypeInv, StacksOK
<1>6. cpu' \in Task \cup {Idle} /\ aborted' \subseteq Task
  BY <1>2 DEF Become, Runs, Abort, TypeInv, PeerOK
<1>7. /\ \A j \in 1 .. MaxIndex : j # i => radio'[j] = radio[j]
      /\ radio'[i].sip \in {ret[t], radio[i].sip}
      /\ RadioOK' /\ ToSet(voice_calls') \subseteq ToSet(voice_calls)
  <2> DEFINE Entry == [state: RadioStates, mpty: BOOLEAN, sip: Dialog \cup {NoCall}]
             e == [radio[i] EXCEPT !.sip = ret[t]]
  <2>1. radio \in [1 .. MaxIndex -> Entry] /\ ret[t] \in Dialog \cup {NoCall}
    BY DEF TypeInv, RadioOK, WaitOK
  <2>2. e \in Entry /\ e.sip = ret[t]
    BY <1>3, <2>1
  <2>3. radio' = radio \/ radio' = [radio EXCEPT ![i] = e]
    BY <1>2, <1>3, <2>1
  <2> HIDE DEF Entry, e
  <2>4. /\ radio' \in [1 .. MaxIndex -> Entry]
        /\ \A j \in 1 .. MaxIndex : j # i => radio'[j] = radio[j]
        /\ radio'[i].sip \in {ret[t], radio[i].sip}
    BY <1>3, <2>1, <2>2, <2>3
  <2>5. voice_calls' = voice_calls \/ voice_calls' = RemoveFirst(voice_calls, i)
    BY <1>2
  <2>6. /\ voice_calls' \in Seq(1 .. MaxIndex) /\ IsInjective(voice_calls')
        /\ ToSet(voice_calls') \subseteq ToSet(voice_calls)
    BY <2>5, RemoveFirstProperties DEF TypeInv, RadioOK
  <2> QED
    BY <1>1, <2>4, <2>6 DEF TypeInv, RadioOK, Entry
<1>8. TypeInv'
  BY <1>1, <1>5, <1>6, <1>7
     DEF TypeInv, TableOK, WaitOK, PeerOK, sipVars, waitVars, peerVars
<1>9. UNCHANGED <<table, calls, ret, nextIndex, torn, closed>>
  BY <1>1 DEF sipVars
<1>10. ASSUME NEW c \in Dialog PROVE LifeOf(c)'
  <2>1. \A u \in Task : \A h \in ToSet(stack'[u]) :
          h.op \in LifeOps /\ h.c = c => h \in ToSet(stack[u])
    BY <1>3, <1>4, <1>5
  <2>2. \A u \in Task : FrC("STOP", c) \in ToSet(stack[u]) =>
          FrC("STOP", c) \in ToSet(stack'[u])
    BY <1>1, <1>3, <1>5, FrameFields DEF RunOps
  <2>3. nextIndex \in Int
    BY CallsAssumption DEF TypeInv, RadioOK
  <2> QED
    BY <1>1, <1>5, <1>9, <2>1, <2>2, <2>3, CallKept
<1>11. DialOK'
  BY <1>3, <1>4, <1>5, <1>7, <1>9, DialsKept
<1>12. UpdatesReachOwnCall'
  <2> SUFFICES ASSUME NEW c \in ToSet(table), NEW j \in ToSet(voice_calls'), calls[c].idx = j
               PROVE  radio'[j].sip \in {c, NoCall}
    BY <1>9 DEF UpdatesReachOwnCall
  <2>1. j \in ToSet(voice_calls) /\ j \in 1 .. MaxIndex
    BY <1>7, Known
  <2>2. radio[j].sip \in {c, NoCall}
    BY <2>1 DEF LifeInv, UpdatesReachOwnCall
  <2>3. j = i => c = ret[t]
    BY <1>1, <1>3 DEF LifeInv, DialOK, Callee, Frame
  <2> QED
    BY <1>7, <2>1, <2>2, <2>3
<1>13. Waits(t)
  BY <1>1, <1>5, Unawaited DEF waitVars, RunOps
<1> QED
  BY <1>8, <1>10, <1>11, <1>12, <1>13, LifeFromCalls DEF LifeStep

\* The coroutine below initiate_call, or below what it awaits.
LEMMA DialBelow ==
  ASSUME TypeInv, NEW t \in Task, NEW i, Dialling(t, i),
         Frame(t).op \in OpensMedia
  PROVE  /\ Len(stack[t]) > 1 /\ stack[t][2].op = "dialDone" /\ stack[t][2].i = i
         /\ Frame(t).op = "initiate" => Frame(t).i = i
<1>1. StackOK(stack[t]) /\ stack[t] \in Seq(Frames)
  BY DEF TypeInv, StacksOK
<1>2. PICK k \in 1 .. Len(stack[t]) : stack[t][k].op = "dialDone" /\ stack[t][k].i = i
  BY DEF Dialling, ToSet
<1>3. stack[t] # <<>> /\ Frame(t) = stack[t][1] /\ k # 1
  BY <1>1, <1>2 DEF Frame, OpensMedia
<1>4. k > 1
  BY <1>1, <1>3
<1>5. k = 2 /\ (stack[t][1].op = "initiate" => stack[t][1].i = stack[t][2].i)
  BY <1>1, <1>2, <1>4 DEF StackOK
<1> QED
  BY <1>1, <1>2, <1>3, <1>5

\* initiate_call returns to the dial that awaited it.
LEMMA DialReturns ==
  ASSUME TypeInv, NEW t \in Task, stack[t] # <<>>, Frame(t).op \in OpensMedia,
         stack' = [stack EXCEPT ![t] = <<>> \o Tail(stack[t])],
         NEW i, Dialling(t, i)'
  PROVE  Dialling(t, i) /\ Callee(t)' = ret'[t]
<1>1. StackOK(stack[t]) /\ stack[t] \in Seq(Frames) /\ <<>> \in Seq(Frames)
  BY DEF TypeInv, StacksOK
<1>2. /\ stack'[t] = <<>> \o Tail(stack[t])
      /\ ToSet(stack'[t]) = ToSet(<<>>) \cup Below(stack[t])
      /\ ToSet(stack[t]) = {Frame(t)} \cup Below(stack[t])
  BY <1>1, Stacked
<1>3. Dialling(t, i)
  BY <1>2, FewFrames DEF Dialling
<1>4. stack'[t] # <<>>
  BY DEF Dialling, ToSet
<1>5. Head(stack'[t]) = stack[t][2]
  <2> DEFINE F == <<>>
             n == F \o Tail(stack[t])
  <2>1. F = <<>> /\ F \in Seq(Frames) /\ n = stack'[t]
    BY <1>1, <1>2
  <2>2. F = <<>> /\ n # <<>> => Len(stack[t]) > 1 /\ Head(n) = stack[t][2]
    <3> HIDE DEF F
    <3> QED
      BY <1>1, <2>1, Replaced
  <2> HIDE DEF F, n
  <2> QED
    BY <1>4, <2>1, <2>2
<1>6. Head(stack'[t]).op = "dialDone"
  BY <1>3, <1>5, DialBelow
<1> QED
  BY <1>3, <1>6 DEF Callee

\* When initiate_call returns, dial gets the call it has made.
LEMMA DialsReturned ==
  ASSUME TypeInv, LifeInv, NEW t \in Task, stack[t] # <<>>, Frame(t).op \in OpensMedia,
         stack' = [stack EXCEPT ![t] = <<>> \o Tail(stack[t])],
         \A u \in Task \ {t} : ret'[u] = ret[u], nextIndex' = nextIndex,
         \A i \in 1 .. MaxIndex : radio'[i].sip = radio[i].sip,
         \A c \in ToSet(table') :
           /\ c \in ToSet(table) /\ calls'[c].idx = calls[c].idx
           /\ c = Callee(t) => c = ret'[t]
  PROVE  DialOK'
<1> SUFFICES ASSUME NEW u \in Task, NEW i \in 1 .. MaxIndex, Dialling(u, i)'
             PROVE  /\ i < nextIndex' /\ radio'[i].sip = NoCall
                    /\ \A v \in Task : Dialling(v, i)' => v = u
                    /\ \A d \in ToSet(table') : calls'[d].idx = i => d = Callee(u)'
  BY DEF DialOK
<1>1. \A v \in Task \ {t} : stack'[v] = stack[v]
  BY DEF TypeInv, StacksOK
<1>2. ASSUME NEW v \in Task, Dialling(v, i)' PROVE Dialling(v, i)
  <2>1. CASE v = t
    BY <1>2, <2>1, DialReturns
  <2>2. CASE v # t
    BY <1>1, <1>2, <2>2 DEF Dialling
  <2> QED
    BY <2>1, <2>2
<1>3. /\ i < nextIndex /\ radio[i].sip = NoCall
      /\ \A v \in Task : Dialling(v, i) => v = u
      /\ \A d \in ToSet(table) : calls[d].idx = i => d = Callee(u)
  BY <1>2 DEF LifeInv, DialOK
<1>4. ASSUME NEW d \in ToSet(table'), calls'[d].idx = i PROVE d = Callee(u)'
  <2>1. d = Callee(u)
    BY <1>3, <1>4
  <2>2. CASE u = t
    BY <2>1, <2>2, DialReturns
  <2>3. CASE u # t
    BY <1>1, <2>1, <2>3 DEF Callee
  <2> QED
    BY <2>2, <2>3
<1> QED
  BY <1>2, <1>3, <1>4

\* The running coroutine of t returns; it was not hangup_call or a STOP.
LEMMA CallsAfterReturn ==
  ASSUME TypeInv, LifeInv, NEW t \in Task, stack[t] # <<>>,
         Frame(t).op \notin {"STOP", "hangupCall"},
         \A u \in Task \ {t} : stack'[u] = stack[u],
         nextIndex' = nextIndex, UNCHANGED closed, NEW c \in Dialog,
         Below(stack[t]) \subseteq ToSet(stack'[t]),
         \A f \in ToSet(stack'[t]) :
           f \in Below(stack[t]) \/ f.op \notin LifeOps \/ f.c # c,
         calls'[c] = calls[c],
         c \in ToSet(table') <=> c \in ToSet(table), c \in torn' <=> c \in torn
  PROVE  LifeOf(c)'
<1>1. /\ ToSet(stack[t]) = {Frame(t)} \cup Below(stack[t])
      /\ \A f \in Below(stack[t]) : f.op \in RunOps
  BY BelowHead DEF TypeInv, StacksOK, Frame
<1>2. \A u \in Task : \A h \in ToSet(stack'[u]) :
        h.op \in LifeOps /\ h.c = c => h \in ToSet(stack[u])
  BY <1>1
<1>3. \A u \in Task : FrC("STOP", c) \in ToSet(stack[u]) =>
        FrC("STOP", c) \in ToSet(stack'[u])
  <2>1. FrC("STOP", c).op = "STOP"
    BY FrameFields
  <2> QED
    BY <1>1, <2>1 DEF RunOps
<1>4. nextIndex \in Int
  BY CallsAssumption DEF TypeInv, RadioOK
<1> QED
  BY <1>2, <1>3, <1>4, CallKept

\* initiate_call takes a new Call-ID under the index of its own dial.
LEMMA initiateLife ==
  ASSUME TypeInv, LifeInv, NEW t \in Task, initiate(t)
  PROVE  LifeStep(t)
<1> DEFINE i == Frame(t).i
<1>1. /\ stack[t] # <<>> /\ Frame(t).op = "initiate"
      /\ UNCHANGED <<radioVars, started, activeCalls, closed, torn, aborted>>
      /\ UNCHANGED <<peerVars, env, answered>>
  BY DEF initiate, Running, Frame, ManagerUnchanged
<1>2. /\ StackOK(stack[t]) /\ stack[t] \in Seq(Frames)
      /\ ToSet(stack[t]) = {Frame(t)} \cup Below(stack[t])
      /\ \A f \in Below(stack[t]) : f.op \in RunOps /\ f.op # "bye"
      /\ i \in 0 .. MaxIndex
  <2>1. StackOK(stack[t]) /\ stack[t] \in Seq(Frames)
    BY DEF TypeInv, StacksOK
  <2> QED
    BY <1>1, <2>1, BelowHead, HeadFrame DEF FrameOK, Frame
<1>3. i # 0 => Dialling(t, i)
  <2>1. Len(stack[t]) \in Nat /\ 1 \in 1 .. Len(stack[t]) /\ Frame(t) = stack[t][1]
    BY <1>1, <1>2 DEF Frame
  <2>2. ASSUME i # 0 PROVE Len(stack[t]) > 1 /\ stack[t][2].op = "dialDone"
    BY <1>1, <1>2, <2>1, <2>2 DEF StackOK
  <2>3. ASSUME i # 0 PROVE stack[t][2].i = i
    BY <1>1, <1>2, <2>1, <2>2, <2>3 DEF StackOK
  <2>4. ASSUME i # 0 PROVE stack[t][2] \in ToSet(stack[t])
    BY <2>1, <2>2, <2>4 DEF ToSet
  <2> QED
    BY <2>2, <2>3, <2>4 DEF Dialling
<1> HIDE DEF i
<1>4. RadioOK' /\ CalmRadio /\ nextIndex' = nextIndex
  BY <1>1, RadioKept DEF CalmRadio
<1>5. PeerOK'
  BY <1>1 DEF TypeInv, PeerOK, peerVars
<1>6. ASSUME Return(t), ret' = [ret EXCEPT ![t] = NoCall],
             UNCHANGED <<table, calls, waitVars>>
      PROVE  LifeStep(t)
  <2>1. stack' = [stack EXCEPT ![t] = <<>> \o Tail(stack[t])] /\ cpu' \in Task \cup {Idle}
    BY <1>6 DEF Return, Become, Runs
  <2>2. StacksOK'
    BY <1>1, <1>2, <2>1, StackPopped, StacksWritten
  <2>3. /\ \A u \in Task \ {t} : stack'[u] = stack[u] /\ ret'[u] = ret[u]
        /\ ToSet(stack'[t]) = Below(stack[t])
    BY <1>1, <1>6, <2>1, FewFrames, Stacked DEF TypeInv, WaitOK
  <2>4. TypeInv'
    BY <1>1, <1>4, <1>5, <1>6, <2>1, <2>2 DEF TypeInv, TableOK, WaitOK, waitVars
  <2>5. ASSUME NEW c \in Dialog PROVE LifeOf(c)'
    BY <1>1, <1>4, <1>6, <2>3, CallsAfterReturn
  <2>6. \A c \in ToSet(table) : c # Callee(t)
    BY <1>1, Known, CallsAssumption DEF Callee, Frame
  <2>7. DialOK'
    BY <1>1, <1>4, <1>6, <2>1, <2>3, <2>6, DialsReturned DEF OpensMedia, CalmRadio
  <2>8. UpdatesReachOwnCall'
    BY <1>1, <1>4, <1>6, Known, UpdatesKept DEF CalmRadio
  <2>9. Waits(t)
    BY <1>1, <1>6, <2>3, Unawaited DEF RunOps, waitVars
  <2> QED
    BY <2>4, <2>5, <2>7, <2>8, <2>9, LifeFromCalls DEF LifeStep
<1>7. ASSUME NEW c \in Mo, calls[c].state = "none",
             calls' = [calls EXCEPT ![c] =
                         [NoneCall EXCEPT !.state = "INITIATING", !.idx = i]],
             table' = Append(table, c), SendRequest(t, c, "INVITE"),
             Suspend(t, FrC("INVITE", c)), UNCHANGED ret
      PROVE  LifeStep(t)
  <2> DEFINE f == FrC("INVITE", c)
             new == [NoneCall EXCEPT !.state = "INITIATING", !.idx = i]
  <2>1. c \in Dialog /\ c # NoCall
    BY CallsAssumption DEF Dialog
  <2>2. f.op = "INVITE" /\ f.c = c /\ f \in Frames /\ FrameOK(f)
    BY <2>1, CallsAssumption DEF FrC, Fr, Frames, FrameOK, AwaitOps, RunOps, MediaOps
  <2> HIDE DEF f
  <2>3. stack' = [stack EXCEPT ![t] = <<f>> \o Tail(stack[t])] /\ cpu' = Idle
    BY <1>7 DEF Suspend, f
  <2>4. StacksOK'
    <3>1. StackOK(<<f>> \o Tail(stack[t]))
      BY <1>1, <1>2, <2>2, StackAdvanced DEF Frame
    <3> QED
      BY <2>3, <3>1, StacksWritten
  <2>5. /\ \A u \in Task \ {t} : stack'[u] = stack[u]
        /\ ToSet(stack'[t]) = {f} \cup Below(stack[t])
        /\ stack'[t] # <<>> /\ Head(stack'[t]) = f
    <3>1. <<f>> \in Seq(Frames) /\ ToSet(<<f>>) = {f} /\ Head(<<f>>) = f /\ <<f>> # <<>>
      BY <2>2, FewFrames
    <3> QED
      BY <1>1, <2>3, <3>1, Stacked
  <2>6. /\ new \in CallEntry /\ new.state = "INITIATING" /\ new.idx = i
        /\ new.media = "none"
    BY <1>2, CallsAssumption DEF NoneCall, CallEntry, SipStates
  <2> HIDE DEF new
  <2>7. /\ calls' \in [Dialog -> CallEntry] /\ calls'[c] = new
        /\ \A d \in Dialog : d # c => calls'[d] = calls[d]
    BY <1>7, <2>1, <2>6 DEF TypeInv, TableOK, CallEntry, new
  <2>8. /\ LifeOf(c) /\ c \notin ToSet(table)
        /\ \A u \in Task : ~ Has(u, "bye", c) /\ ~ Begins(u, c)
    BY <1>7, <2>1, LifeOfCalls DEF LifeOf
  <2>9. /\ table' \in Seq(Dialog) /\ IsInjective(table')
        /\ ToSet(table') = ToSet(table) \cup {c}
    BY <1>7, <2>1, <2>8, AppendProperty DEF TypeInv, TableOK
  <2>10. /\ WaitOK' /\ pending' = [pending EXCEPT ![c] = t] /\ resp'[t] = NoResp
         /\ \A u \in Task \ {t} : resp'[u] = resp[u]
    BY <1>7, <2>1, <2>3, Sent DEF TypeInv, WaitOK, AwaitOps
  <2>11. TypeInv'
    BY <1>1, <1>4, <1>5, <2>4, <2>7, <2>9, <2>10 DEF TypeInv, TableOK, CallEntry
  <2>12. Waits(t)
    <3>1. Frame(t).op \notin AwaitOps /\ Head(stack'[t]).op \in AwaitOps
      BY <1>1, <2>2, <2>5 DEF AwaitOps
    <3> QED
      BY <2>1, <2>2, <2>5, <2>10, <3>1 DEF Waits
  <2>13. \A d \in ToSet(table) : d \in Dialog /\ d # c
    BY <2>8, Known
  <2>14. LifeOf(c)'
    <3>1. ASSUME NEW u \in Task PROVE ~ Has(u, "bye", c)' /\ ~ Has(u, "START", c)'
      BY <1>2, <2>2, <2>5, <2>8 DEF Has, Begins, RunOps
    <3>2. ASSUME NEW u \in Task, Begins(u, c)' PROVE u = t
      <4>1. ASSUME u # t PROVE Begins(u, c)
        BY <2>5, <3>2, <4>1 DEF Begins, Has
      <4> QED
        BY <2>8, <4>1
    <3>3. ASSUME NEW u \in Task PROVE ~ Has(u, "inviteIndex", c)'
      <4>1. ASSUME NEW v \in Task PROVE ~ Has(v, "inviteIndex", c)
        <5>1. \A h \in ToSet(stack[v]) : FrameOK(h)
          BY DEF TypeInv, StacksOK, StackOK, ToSet
        <5> QED
          BY <5>1, CallsAssumption DEF Has, FrameOK
      <4> QED
        BY <1>2, <2>2, <2>5, <4>1 DEF Has
    <3>4. i < nextIndex
      <4>1. i = 0 => i < nextIndex
        BY CallsAssumption DEF TypeInv, RadioOK
      <4>2. i # 0 => i < nextIndex
        BY <1>2, <1>3, CallsAssumption DEF LifeInv, DialOK
      <4> QED
        BY <4>1, <4>2
    <3>5. closed'[c] = "no"
      BY <1>1, <1>7, <2>8 DEF LifeOf
    <3>6. /\ calls'[c].state = "INITIATING" /\ calls'[c].media = "none"
          /\ calls'[c].idx < nextIndex' /\ c \in ToSet(table') /\ c \in Mo
      BY <1>4, <2>6, <2>7, <2>9, <3>4
    <3> QED
      BY <3>1, <3>2, <3>3, <3>5, <3>6 DEF LifeOf, Begins
  <2>15. ASSUME NEW d \in Dialog PROVE LifeOf(d)'
    <3>1. CASE d # c
      BY <1>1, <1>4, <2>2, <2>5, <2>7, <2>9, <3>1, CallsAfterReturn
    <3> QED
      BY <2>14, <3>1
  <2>16. DialOK'
    <3> SUFFICES ASSUME NEW u \in Task, NEW j \in 1 .. MaxIndex, Dialling(u, j)'
                 PROVE  /\ j < nextIndex' /\ radio'[j].sip = NoCall
                        /\ \A v \in Task : Dialling(v, j)' => v = u
                        /\ \A d \in ToSet(table') : calls'[d].idx = j => d = Callee(u)'
      BY DEF DialOK
    <3>1. ASSUME NEW v \in Task, Dialling(v, j)' PROVE Dialling(v, j)
      BY <1>2, <2>2, <2>5, <3>1 DEF Dialling
    <3>2. /\ j < nextIndex /\ radio[j].sip = NoCall
          /\ \A v \in Task : Dialling(v, j) => v = u
          /\ \A d \in ToSet(table) : calls[d].idx = j => d = Callee(u)
      BY <3>1 DEF LifeInv, DialOK
    <3>3. ASSUME NEW d \in ToSet(table'), calls'[d].idx = j PROVE d = Callee(u)'
      <4>1. CASE u = t
        <5>1. Callee(t)' = c
          BY <2>2, <2>5 DEF Callee
        <5>2. Callee(t) = NoCall
          BY <1>1 DEF Callee, Frame
        <5> QED
          BY <2>7, <2>9, <2>13, <3>2, <3>3, <4>1, <5>1, <5>2, CallsAssumption
      <4>2. CASE u # t
        <5>1. Callee(u)' = Callee(u)
          BY <1>7, <2>5, <4>2 DEF Callee
        <5>2. d # c
          <6>1. d = c => i = j
            BY <2>6, <2>7, <3>3
          <6>2. j # 0
            OBVIOUS
          <6> QED
            BY <1>3, <3>2, <4>2, <6>1, <6>2
        <5> QED
          BY <2>7, <2>9, <2>13, <3>2, <3>3, <5>1, <5>2
      <4> QED
        BY <4>1, <4>2
    <3> QED
      BY <1>4, <3>1, <3>2, <3>3 DEF CalmRadio
  <2>17. UpdatesReachOwnCall'
    <3> SUFFICES ASSUME NEW d \in ToSet(table'), NEW j \in ToSet(voice_calls'),
                        calls'[d].idx = j
                 PROVE  radio'[j].sip \in {d, NoCall}
      BY DEF UpdatesReachOwnCall
    <3>1. j \in ToSet(voice_calls) /\ j \in 1 .. MaxIndex /\ radio'[j].sip = radio[j].sip
      BY <1>4, Known DEF CalmRadio
    <3>2. CASE d = c
      <4>1. i = j /\ i # 0
        BY <2>6, <2>7, <3>1, <3>2
      <4> QED
        BY <1>3, <3>1, <4>1 DEF LifeInv, DialOK
    <3>3. CASE d # c
      BY <2>7, <2>9, <2>13, <3>1, <3>3 DEF LifeInv, UpdatesReachOwnCall
    <3> QED
      BY <3>2, <3>3
  <2> QED
    BY <2>11, <2>12, <2>15, <2>16, <2>17, LifeFromCalls DEF LifeStep
<1> QED
  BY <1>6, <1>7 DEF initiate, i

\* A call of the phone is never given another index.
LEMMA NoIndexForMo ==
  ASSUME TypeInv, NEW t \in Task, NEW c \in Mo
  PROVE  ~ Has(t, "inviteIndex", c)
<1>1. \A h \in ToSet(stack[t]) : FrameOK(h)
  BY DEF TypeInv, StacksOK, StackOK, ToSet
<1> QED
  BY <1>1, CallsAssumption DEF Has, FrameOK

\* A coroutine that sets up a call.
LEMMA SettingUp ==
  ASSUME TypeInv, LifeInv, NEW t \in Task, stack[t] # <<>>,
         Frame(t).op \in {"INVITE", "START"}
  PROVE  \E c \in Dialog :
         /\ Frame(t).c = c /\ Has(t, Frame(t).op, c) /\ Begins(t, c)
         /\ c \in ToSet(table) \cup torn /\ calls[c].state # "none"
         /\ Callee(t) = c /\ LifeOf(c)
         /\ StackOK(stack[t]) /\ stack[t] \in Seq(Frames)
         /\ ToSet(stack[t]) = {Frame(t)} \cup Below(stack[t])
         /\ \A f \in Below(stack[t]) : f.op \in RunOps /\ f.op # "bye"
<1> DEFINE c == Frame(t).c
<1>1. StackOK(stack[t]) /\ stack[t] \in Seq(Frames)
  BY DEF TypeInv, StacksOK
<1>2. /\ ToSet(stack[t]) = {Frame(t)} \cup Below(stack[t])
      /\ \A f \in Below(stack[t]) : f.op \in RunOps /\ f.op # "bye"
  BY <1>1, BelowHead DEF Frame
<1>3. c \in Dialog
  BY HeadFrame DEF FrameOK, AwaitOps, MediaOps
<1>4. Has(t, Frame(t).op, c) /\ Begins(t, c)
  BY <1>2 DEF Has, Begins
<1>5. Callee(t) = c
  BY DEF Callee, Frame
<1> HIDE DEF c
<1>6. LifeOf(c)
  BY <1>3, LifeOfCalls
<1>7. c \in ToSet(table) \cup torn /\ calls[c].state # "none"
  BY <1>4, <1>6 DEF LifeOf
<1> QED
  BY <1>1, <1>2, <1>3, <1>4, <1>5, <1>6, <1>7 DEF c

\* The INVITE was answered: media are started, or the call is removed.
LEMMA inviteResultLife ==
  ASSUME TypeInv, LifeInv, NEW t \in Task, inviteResult(t)
  PROVE  LifeStep(t)
<1>1. /\ stack[t] # <<>> /\ Frame(t).op = "INVITE" /\ resp[t] # NoResp
      /\ UNCHANGED <<voice_calls, nextIndex, started, pending, inflight, closed, torn>>
      /\ UNCHANGED <<peerVars, env, answered>> /\ resp' = [resp EXCEPT ![t] = NoResp]
  BY DEF inviteResult, Woken, ManagerUnchanged
<1>2. PICK c \in Dialog :
      /\ Frame(t).c = c /\ Has(t, "INVITE", c) /\ Begins(t, c)
      /\ c \in ToSet(table) \cup torn /\ calls[c].state # "none"
      /\ Callee(t) = c /\ LifeOf(c)
      /\ StackOK(stack[t]) /\ stack[t] \in Seq(Frames)
      /\ ToSet(stack[t]) = {Frame(t)} \cup Below(stack[t])
      /\ \A f \in Below(stack[t]) : f.op \in RunOps /\ f.op # "bye"
  BY <1>1, SettingUp
<1>3. /\ c \in Mo /\ calls[c].media = "none" /\ ~ Has(t, "START", c)
      /\ \A u \in Task : Begins(u, c) => u = t
      /\ \A u \in Task : ~ Has(u, "inviteIndex", c)
  BY <1>2, NoIndexForMo DEF LifeOf
<1>4. Frame(t).c = c /\ c # NoCall
  BY <1>2, CallsAssumption
<1>5. \/ /\ calls' = [calls EXCEPT ![c].state = "ACTIVE"]
         /\ radio' = RadioUpdate(calls[c].idx, "ACTIVE")
         /\ activeCalls' = CountActive(table, calls')
         /\ Suspend(t, FrC("START", c)) /\ UNCHANGED <<table, ret, aborted>>
      \/ /\ InTable(c) /\ table' = WithoutKey(table, c)
         /\ ret' = [ret EXCEPT ![t] = NoCall] /\ Return(t)
         /\ UNCHANGED <<calls, radio, activeCalls, aborted>>
      \/ Abort(t) /\ UNCHANGED <<table, calls, radio, activeCalls, ret>>
  BY <1>2 DEF inviteResult
<1>6. NoResp \in [m: AwaitOps \cup {"none", "timeout"}, ok: BOOLEAN]
  BY DEF NoResp
<1>7. \A u \in Task \ {t} : resp'[u] = resp[u]
  BY <1>1 DEF TypeInv, WaitOK
<1>8. ASSUME calls' = [calls EXCEPT ![c].state = "ACTIVE"],
             radio' = RadioUpdate(calls[c].idx, "ACTIVE"),
             activeCalls' = CountActive(table, calls'),
             Suspend(t, FrC("START", c)), UNCHANGED <<table, ret, aborted>>
      PROVE  LifeStep(t)
  <2> DEFINE f == FrC("START", c)
             e == [calls[c] EXCEPT !.state = "ACTIVE"]
  <2>1. f.op = "START" /\ f.c = c /\ f \in Frames /\ FrameOK(f)
    BY <1>2, CallsAssumption DEF FrC, Fr, Frames, FrameOK, AwaitOps, RunOps, MediaOps
  <2> HIDE DEF f
  <2>2. stack' = [stack EXCEPT ![t] = <<f>> \o Tail(stack[t])] /\ cpu' = Idle
    BY <1>8 DEF Suspend, f
  <2>3. StacksOK'
    <3>1. StackOK(<<f>> \o Tail(stack[t]))
      BY <1>1, <1>2, <2>1, StackAdvanced DEF Frame
    <3> QED
      BY <2>2, <3>1, StacksWritten
  <2>4. /\ \A u \in Task \ {t} : stack'[u] = stack[u]
        /\ ToSet(stack'[t]) = {f} \cup Below(stack[t])
        /\ stack'[t] # <<>> /\ Head(stack'[t]) = f
    <3>1. <<f>> \in Seq(Frames) /\ ToSet(<<f>>) = {f} /\ Head(<<f>>) = f /\ <<f>> # <<>>
      BY <2>1, FewFrames
    <3> QED
      BY <1>1, <2>2, <3>1, Stacked
  <2>5. /\ calls[c] \in CallEntry /\ e \in CallEntry /\ e.state = "ACTIVE"
        /\ e.idx = calls[c].idx /\ e.media = calls[c].media
    BY <1>2 DEF TypeInv, TableOK, CallEntry, SipStates
  <2>6. calls' = [calls EXCEPT ![c] = e]
    BY <1>2, <1>8 DEF TypeInv, TableOK
  <2> HIDE DEF e
  <2>7. /\ calls' \in [Dialog -> CallEntry] /\ CalmCalls /\ calls'[c] = e
        /\ \A d \in Dialog : d # c => calls'[d] = calls[d]
    BY <1>2, <2>5, <2>6, CallWrite DEF TypeInv, TableOK, CallEntry
  <2>8. RadioOK' /\ CalmRadio
    <3> DEFINE i == calls[c].idx
    <3>1. radio' = RadioUpdate(i, "ACTIVE") /\ "ACTIVE" \in RadioStates
      BY <1>8 DEF RadioStates
    <3> HIDE DEF i
    <3> QED
      BY <1>1, <3>1, RadioUpdated
  <2>9. activeCalls' \in 0 .. Cardinality(Dialog)
    BY <1>8, Counted
  <2>10. WaitOK' /\ PeerOK'
    BY <1>1, <1>6, <1>8, <2>2 DEF TypeInv, WaitOK, PeerOK, peerVars
  <2>11. TypeInv'
    BY <1>1, <1>8, <2>3, <2>7, <2>8, <2>9, <2>10 DEF TypeInv, TableOK, CallEntry
  <2>12. LifeOf(c)'
    <3>1. ASSUME NEW u \in Task PROVE Has(u, "bye", c)' => Has(u, "bye", c)
      BY <1>2, <2>1, <2>4 DEF Has
    <3>2. ASSUME NEW u \in Task PROVE ~ Has(u, "INVITE", c)'
      <4>1. CASE u = t
        BY <1>2, <2>1, <2>4, <4>1 DEF Has, RunOps
      <4>2. CASE u # t
        BY <1>3, <2>4, <4>2 DEF Has, Begins
      <4> QED
        BY <4>1, <4>2
    <3>3. ASSUME NEW u \in Task PROVE ~ Has(u, "inviteIndex", c)'
      BY <1>3, <2>11, NoIndexForMo, <1>2, <2>1, <2>4 DEF Has
    <3>4. /\ calls'[c].state = "ACTIVE" /\ calls'[c].media = "none"
          /\ calls'[c].idx = calls[c].idx /\ nextIndex' = nextIndex
          /\ c \in ToSet(table') \cup torn' /\ table' = table /\ torn' = torn
          /\ closed' = closed
      BY <1>1, <1>2, <1>3, <1>8, <2>5, <2>7
    <3> QED
      BY <1>2, <3>1, <3>2, <3>3, <3>4 DEF LifeOf
  <2>13. ASSUME NEW d \in Dialog PROVE LifeOf(d)'
    <3>1. CASE d # c
      BY <1>1, <1>8, <2>1, <2>4, <2>7, <3>1, CallsAfterReturn
    <3> QED
      BY <2>12, <3>1
  <2>14. DialOK'
    <3> SUFFICES ASSUME NEW u \in Task, NEW j \in 1 .. MaxIndex, Dialling(u, j)'
                 PROVE  /\ j < nextIndex' /\ radio'[j].sip = NoCall
                        /\ \A v \in Task : Dialling(v, j)' => v = u
                        /\ \A d \in ToSet(table') : calls'[d].idx = j => d = Callee(u)'
      BY DEF DialOK
    <3>1. ASSUME NEW v \in Task, Dialling(v, j)' PROVE Dialling(v, j)
      BY <1>2, <2>1, <2>4, <3>1 DEF Dialling
    <3>2. /\ j < nextIndex /\ radio[j].sip = NoCall
          /\ \A v \in Task : Dialling(v, j) => v = u
          /\ \A d \in ToSet(table) : calls[d].idx = j => d = Callee(u)
      BY <3>1 DEF LifeInv, DialOK
    <3>3. Callee(u)' = Callee(u)
      <4>1. CASE u = t
        BY <1>2, <2>1, <2>4, <4>1 DEF Callee
      <4>2. CASE u # t
        BY <1>8, <2>4, <4>2 DEF Callee
      <4> QED
        BY <4>1, <4>2
    <3> QED
      BY <1>1, <1>8, <2>7, <2>8, <3>1, <3>2, <3>3, Known DEF CalmRadio, CalmCalls
  <2>15. UpdatesReachOwnCall'
    BY <1>8, <2>7, <2>8, Known, UpdatesKept DEF CalmRadio, CalmCalls
  <2>16. Waits(t)
    BY <1>1, <1>7, <2>4 DEF Waits
  <2> QED
    BY <2>11, <2>13, <2>14, <2>15, <2>16, LifeFromCalls DEF LifeStep
<1>9. ASSUME InTable(c), table' = WithoutKey(table, c),
             ret' = [ret EXCEPT ![t] = NoCall], Return(t),
             UNCHANGED <<calls, radio, activeCalls, aborted>>
      PROVE  LifeStep(t)
  <2>1. stack' = [stack EXCEPT ![t] = <<>> \o Tail(stack[t])] /\ cpu' \in Task \cup {Idle}
    BY <1>9 DEF Return, Become, Runs
  <2>2. StacksOK'
    BY <1>1, <1>2, <2>1, StackPopped, StacksWritten
  <2>3. /\ \A u \in Task \ {t} : stack'[u] = stack[u] /\ ret'[u] = ret[u]
        /\ ToSet(stack'[t]) = Below(stack[t])
    BY <1>1, <1>9, <2>1, FewFrames, Stacked DEF TypeInv, WaitOK
  <2>4. RadioOK' /\ CalmRadio
    BY <1>1, <1>9, RadioKept DEF radioVars
  <2>5. /\ table' \in Seq(Dialog) /\ IsInjective(table')
        /\ ToSet(table') = ToSet(table) \ {c}
    BY <1>9, RemoveFirstProperties DEF WithoutKey, TypeInv, TableOK
  <2>6. ret' \in [Task -> Dialog \cup {NoCall}] /\ ret'[t] = NoCall
    BY <1>9 DEF TypeInv, WaitOK
  <2>7. WaitOK' /\ PeerOK'
    BY <1>1, <1>6, <1>9, <2>1, <2>6 DEF TypeInv, WaitOK, PeerOK, peerVars
  <2>8. TypeInv'
    BY <1>1, <1>9, <2>2, <2>4, <2>5, <2>7 DEF TypeInv, TableOK
  <2>9. LifeOf(c)'
    <3>1. ASSUME NEW u \in Task PROVE Has(u, "bye", c)' => Has(u, "bye", c)
      BY <1>2, <2>3 DEF Has
    <3>2. ASSUME NEW u \in Task PROVE ~ Has(u, "INVITE", c)' /\ ~ Has(u, "START", c)'
      <4>1. CASE u = t
        BY <1>2, <2>3, <4>1 DEF Has, RunOps
      <4>2. CASE u # t
        BY <1>3, <2>3, <4>2 DEF Has, Begins
      <4> QED
        BY <4>1, <4>2
    <3>3. /\ calls'[c] = calls[c] /\ calls[c].media = "none" /\ calls[c].state # "none"
          /\ c \notin ToSet(table') /\ closed' = closed
      BY <1>1, <1>2, <1>3, <1>9, <2>5
    <3> QED
      BY <1>2, <3>1, <3>2, <3>3 DEF LifeOf, Begins
  <2>10. ASSUME NEW d \in Dialog PROVE LifeOf(d)'
    <3>1. CASE d # c
      BY <1>1, <1>9, <2>3, <2>5, <3>1, CallsAfterReturn
    <3> QED
      BY <2>9, <3>1
  <2>11. DialOK'
    BY <1>1, <1>2, <1>9, <2>1, <2>3, <2>4, <2>5, DialsReturned DEF OpensMedia, CalmRadio
  <2>12. UpdatesReachOwnCall'
    BY <1>1, <1>9, <2>4, <2>5, Known, UpdatesKept DEF CalmRadio
  <2>13. Waits(t)
    BY <1>1, <1>7, <2>3 DEF Waits
  <2> QED
    BY <2>8, <2>10, <2>11, <2>12, <2>13, LifeFromCalls DEF LifeStep
<1>10. ASSUME Abort(t), UNCHANGED <<table, calls, radio, activeCalls, ret>>
       PROVE  LifeStep(t)
  <2>1. /\ StacksOK' /\ CalmStacks /\ cpu' \in Task \cup {Idle}
        /\ \A u \in Task \ {t} : stack'[u] = stack[u]
        /\ aborted' \subseteq Task
    BY <1>1, <1>10, CalmAbort
  <2>2. RadioOK' /\ CalmRadio /\ TableOK' /\ CalmCalls
    BY <1>1, <1>10, RadioKept DEF radioVars, TypeInv, TableOK, CalmCalls
  <2>3. WaitOK' /\ PeerOK'
    BY <1>1, <1>6, <1>10, <2>1 DEF TypeInv, WaitOK, PeerOK, peerVars
  <2>4. TypeInv' /\ Calm
    BY <1>1, <1>10, <2>1, <2>2, <2>3 DEF TypeInv, Calm
  <2>5. Waits(t)
    BY <1>1, <1>7, <2>1 DEF Waits
  <2> QED
    BY <2>4, <2>5, CalmKeepsLife DEF LifeStep
<1> QED
  BY <1>5, <1>8, <1>9, <1>10

\* One entry of the call table is written.
LEMMA EntryWritten ==
  ASSUME TypeInv, NEW c \in Dialog, NEW e \in CallEntry, calls' = [calls EXCEPT ![c] = e]
  PROVE  /\ calls' \in [Dialog -> CallEntry] /\ calls'[c] = e
         /\ \A d \in Dialog : d # c => calls'[d] = calls[d]
BY DEF TypeInv, TableOK, CallEntry

\* The media of a call are on; initiate_call or answer_call returns.
LEMMA mediaStartedLife ==
  ASSUME TypeInv, LifeInv, NEW t \in Task, mediaStarted(t)
  PROVE  LifeStep(t)
<1>1. /\ stack[t] # <<>> /\ Frame(t).op = "START"
      /\ UNCHANGED <<radioVars, table, started, activeCalls, waitVars, closed, torn>>
      /\ UNCHANGED <<aborted, peerVars, env, answered>>
      /\ ret' = [ret EXCEPT ![t] = Frame(t).c]
  BY DEF mediaStarted, ManagerUnchanged
<1>2. PICK c \in Dialog :
      /\ Frame(t).c = c /\ Has(t, "START", c) /\ Begins(t, c)
      /\ c \in ToSet(table) \cup torn /\ calls[c].state # "none"
      /\ Callee(t) = c /\ LifeOf(c)
      /\ StackOK(stack[t]) /\ stack[t] \in Seq(Frames)
      /\ ToSet(stack[t]) = {Frame(t)} \cup Below(stack[t])
      /\ \A f \in Below(stack[t]) : f.op \in RunOps /\ f.op # "bye"
  BY <1>1, SettingUp
<1>3. \A u \in Task : ~ Has(u, "INVITE", c)
  BY <1>2 DEF LifeOf
<1>4. stack' = [stack EXCEPT ![t] = <<>> \o Tail(stack[t])] /\ cpu' \in Task \cup {Idle}
  BY DEF mediaStarted, Return, Become, Runs
<1>5. StacksOK'
  BY <1>1, <1>2, <1>4, StackPopped, StacksWritten
<1>6. /\ \A u \in Task \ {t} : stack'[u] = stack[u] /\ ret'[u] = ret[u]
      /\ ToSet(stack'[t]) = Below(stack[t]) /\ ret'[t] = c
      /\ ret' \in [Task -> Dialog \cup {NoCall}]
  BY <1>1, <1>2, <1>4, FewFrames, Stacked DEF TypeInv, WaitOK
<1>7. PICK e \in CallEntry : /\ calls' = [calls EXCEPT ![c] = e]
                             /\ e.state = calls[c].state /\ e.idx = calls[c].idx
  <2>1. calls[c] \in CallEntry /\ calls = [calls EXCEPT ![c] = calls[c]]
    BY <1>2 DEF TypeInv, TableOK, CallEntry
  <2>2. PICK m \in {"on", calls[c].media} : calls' = [calls EXCEPT ![c].media = m]
    BY <1>2, <2>1 DEF mediaStarted, CallEntry
  <2>3. [calls[c] EXCEPT !.media = m] \in CallEntry
    BY <2>1 DEF CallEntry
  <2> QED
    BY <2>1, <2>2, <2>3 DEF CallEntry
<1>8. /\ calls' \in [Dialog -> CallEntry] /\ calls'[c] = e
      /\ \A d \in Dialog : d # c => calls'[d] = calls[d]
  BY <1>7, EntryWritten
<1>9. RadioOK' /\ CalmRadio
  BY <1>1, RadioKept
<1>10. TypeInv'
  BY <1>1, <1>4, <1>5, <1>6, <1>8, <1>9
     DEF TypeInv, TableOK, WaitOK, PeerOK, CallEntry, waitVars, peerVars
<1>11. LifeOf(c)'
  <2>1. ASSUME NEW u \in Task PROVE /\ Has(u, "bye", c)' => Has(u, "bye", c)
                                    /\ Has(u, "inviteIndex", c)' => Has(u, "inviteIndex", c)
                                    /\ ~ Has(u, "INVITE", c)'
    BY <1>2, <1>3, <1>6 DEF Has
  <2>2. ASSUME NEW u \in Task, Has(u, "inviteIndex", c), c \in ToSet(table)
        PROVE  u # t /\ Head(stack[u]).op = "hangupCall" /\ Head(stack[u]).c = c
    BY <1>1, <1>2, <2>2 DEF LifeOf, Frame
  <2>3. /\ calls'[c].state = calls[c].state /\ calls'[c].idx = calls[c].idx
        /\ nextIndex' = nextIndex /\ closed' = closed /\ table' = table /\ torn' = torn
    BY <1>1, <1>7, <1>8, <1>9 DEF CalmRadio
  <2> QED
    BY <1>2, <1>6, <2>1, <2>2, <2>3 DEF LifeOf
<1>12. ASSUME NEW d \in Dialog PROVE LifeOf(d)'
  <2>1. CASE d # c
    BY <1>1, <1>6, <1>8, <1>9, <2>1, CallsAfterReturn DEF CalmRadio
  <2> QED
    BY <1>11, <2>1
<1>13. table' = table /\ \A d \in ToSet(table) : calls'[d].idx = calls[d].idx
  BY <1>1, <1>7, <1>8, Known
<1>14. DialOK'
  BY <1>1, <1>2, <1>4, <1>6, <1>9, <1>13, DialsReturned DEF OpensMedia, CalmRadio
<1>15. UpdatesReachOwnCall'
  BY <1>9, <1>13, Known, UpdatesKept DEF CalmRadio
<1>16. Waits(t)
  BY <1>1, <1>6 DEF Waits, waitVars, AwaitOps
<1> QED
  BY <1>10, <1>12, <1>14, <1>15, <1>16, LifeFromCalls DEF LifeStep

\* answer_call takes an incoming call of the table.
LEMMA answerCallLife ==
  ASSUME TypeInv, LifeInv, NEW t \in Task, answerCall(t)
  PROVE  LifeStep(t)
<1>1. /\ stack[t] # <<>> /\ Frame(t).op = "answerCall"
      /\ UNCHANGED <<radioVars, table, started, waitVars, ret, rung, referred>>
      /\ UNCHANGED <<histVars, env>>
  BY DEF answerCall, Running, Frame
<1>2. RadioOK' /\ CalmRadio
  BY <1>1, RadioKept
<1>3. ASSUME Return(t), UNCHANGED <<calls, activeCalls, up>>
      PROVE  LifeStep(t)
  <2>1. CalmStep(t)
    BY <1>1, <1>3, PlainFew, StackOnly DEF RunOps, sipVars, peerVars, Return
  <2> QED
    BY <2>1, CalmKeepsLife DEF LifeStep, CalmStep
<1>4. ASSUME NEW c, c = Frame(t).c, InTable(c), calls[c].state = "RINGING_IN",
             calls' = [calls EXCEPT ![c].state = "ACTIVE"],
             activeCalls' = CountActive(table, calls'), up' = up \cup {c},
             Suspend(t, FrC("START", c))
      PROVE  LifeStep(t)
  <2> DEFINE f == FrC("START", c)
             e == [calls[c] EXCEPT !.state = "ACTIVE"]
  <2>1. c \in Dialog /\ c \in ToSet(table)
    BY <1>4, Known DEF InTable
  <2>2. f.op = "START" /\ f.c = c /\ f \in Frames /\ FrameOK(f)
    BY <2>1, CallsAssumption DEF FrC, Fr, Frames, FrameOK, AwaitOps, RunOps, MediaOps
  <2> HIDE DEF f
  <2>3. stack' = [stack EXCEPT ![t] = <<f>> \o Tail(stack[t])] /\ cpu' = Idle
    BY <1>4 DEF Suspend, f
  <2>4. /\ <<f>> \in Seq(Frames) /\ ToSet(<<f>>) = {f} /\ Head(<<f>>) = f
        /\ <<f>> # <<>> /\ StackOK(<<f>>)
    <3>1. /\ <<f>> \in Seq(Frames) /\ ToSet(<<f>>) = {f} /\ Head(<<f>>) = f
      BY <2>2, FewFrames
    <3> DEFINE F == <<f>>
    <3>2. Len(F) = 1 /\ F[1] = f /\ F # <<>>
      OBVIOUS
    <3>3. StackOK(F)
      <4>1. F \in Seq(Frames)
        BY <3>1
      <4> HIDE DEF F
      <4>2. \A k \in 1 .. Len(F) : k = 1
        BY <3>2
      <4> QED
        BY <2>2, <3>2, <4>1, <4>2 DEF StackOK
    <3> QED
      BY <3>1, <3>2, <3>3
  <2>5. StacksOK'
    <3>1. StackOK(<<f>> \o Tail(stack[t]))
      BY <1>1, <2>4, StackPushed DEF TypeInv, StacksOK, Frame, OpensMedia
    <3> QED
      BY <2>3, <3>1, StacksWritten
  <2>6. /\ \A u \in Task \ {t} : stack'[u] = stack[u]
        /\ ToSet(stack'[t]) = {f} \cup Below(stack[t])
        /\ stack'[t] # <<>> /\ Head(stack'[t]) = f
        /\ ToSet(stack[t]) = {Frame(t)} \cup Below(stack[t])
        /\ \A h \in Below(stack[t]) : h.op \in RunOps /\ h.op # "bye" /\ h.op # "dialDone"
    BY <1>1, <2>3, <2>4, Stacked DEF OpensMedia
  <2>7. /\ e \in CallEntry /\ e.state = "ACTIVE" /\ e.idx = calls[c].idx
        /\ e.media = calls[c].media
    BY <2>1 DEF TypeInv, TableOK, CallEntry, SipStates
  <2>8. calls' = [calls EXCEPT ![c] = e]
    BY <1>4, <2>1 DEF TypeInv, TableOK
  <2> HIDE DEF e
  <2>9. /\ calls' \in [Dialog -> CallEntry] /\ calls'[c] = e
        /\ \A d \in Dialog : d # c => calls'[d] = calls[d]
    BY <2>1, <2>7, <2>8, EntryWritten
  <2>10. activeCalls' \in 0 .. Cardinality(Dialog)
    BY <1>4, Counted
  <2>11. WaitOK' /\ PeerOK'
    BY <1>1, <1>4, <2>1, <2>3 DEF TypeInv, WaitOK, PeerOK, waitVars, histVars
  <2>12. TypeInv'
    BY <1>1, <1>2, <2>5, <2>9, <2>10, <2>11 DEF TypeInv, TableOK, CallEntry
  <2>13. LifeOf(c) /\ c \in Mt /\ c \notin Mo
    BY <1>4, <2>1, LifeOfCalls, CallsAssumption DEF LifeOf
  <2>14. LifeOf(c)'
    <3>1. ASSUME NEW u \in Task PROVE /\ Has(u, "bye", c)' => Has(u, "bye", c)
                                      /\ Has(u, "inviteIndex", c)' => Has(u, "inviteIndex", c)
                                      /\ Has(u, "INVITE", c)' => Has(u, "INVITE", c)
      BY <2>2, <2>6 DEF Has
    <3>2. ASSUME NEW u \in Task, Has(u, "inviteIndex", c)
          PROVE  u # t /\ Head(stack[u]).op = "hangupCall" /\ Head(stack[u]).c = c
      BY <1>1, <2>1, <2>13, <3>2 DEF LifeOf, Frame
    <3>3. \A u \in Task : ~ Has(u, "INVITE", c)'
      BY <2>13, <3>1 DEF LifeOf
    <3>4. /\ calls'[c].state = "ACTIVE" /\ calls'[c].idx = calls[c].idx
          /\ nextIndex' = nextIndex /\ closed' = closed /\ table' = table /\ torn' = torn
      BY <1>1, <2>7, <2>9 DEF radioVars, histVars
    <3> QED
      BY <2>1, <2>6, <2>13, <3>1, <3>2, <3>3, <3>4 DEF LifeOf
  <2>15. ASSUME NEW d \in Dialog PROVE LifeOf(d)'
    <3>1. CASE d # c
      BY <1>1, <2>2, <2>6, <2>9, <3>1, CallsAfterReturn DEF radioVars, histVars
    <3> QED
      BY <2>14, <3>1
  <2>16. table' = table /\ \A d \in ToSet(table) : calls'[d].idx = calls[d].idx
    BY <1>1, <2>7, <2>9, Known
  <2>17. DialOK'
    BY <1>1, <1>2, <2>2, <2>6, <2>16, DialsKept DEF CalmRadio
  <2>18. UpdatesReachOwnCall'
    BY <1>2, <2>16, Known, UpdatesKept DEF CalmRadio
  <2>19. Waits(t)
    BY <1>1, <2>6, Unawaited DEF waitVars, RunOps
  <2> QED
    BY <2>12, <2>15, <2>17, <2>18, <2>19, LifeFromCalls DEF LifeStep
<1> QED
  BY <1>3, <1>4 DEF answerCall

\* What hangup_call has left to do once it has taken the call.
LEMMA HangingUp ==
  ASSUME TypeInv, NEW c \in Dialog
  PROVE  LET F == StopMedia(c) \o <<FrC("bye", c)>> IN
         /\ F \in Seq(Frames) /\ F # <<>> /\ StackOK(F)
         /\ ToSet(F) \subseteq {FrC("STOP", c), FrC("bye", c)}
         /\ calls[c].media # "none" => FrC("STOP", c) \in ToSet(F)
<1> DEFINE f == FrC("STOP", c)
           g == FrC("bye", c)
           A == StopMedia(c)
           B == <<g>>
           F == A \o B
<1>1. /\ f.op = "STOP" /\ g.op = "bye" /\ f.c = c /\ g.c = c
      /\ f \in Frames /\ g \in Frames /\ FrameOK(f) /\ FrameOK(g)
  BY CallsAssumption DEF FrC, Fr, Frames, FrameOK, AwaitOps, RunOps, MediaOps
<1> HIDE DEF f, g
<1>2. /\ A \in Seq(Frames) /\ Len(A) \in {0, 1}
      /\ Len(A) = 1 => A[1] = f
      /\ calls[c].media # "none" => Len(A) = 1
  <2>1. \/ A = <<>> /\ calls[c].media = "none"
        \/ A = <<f>> /\ calls[c].media # "none"
    BY DEF StopMedia, f
  <2>2. /\ <<>> \in Seq(Frames) /\ Len(<<>>) = 0
        /\ <<f>> \in Seq(Frames) /\ Len(<<f>>) = 1 /\ <<f>>[1] = f
    BY <1>1
  <2> HIDE DEF A
  <2>3. CASE A = <<>> /\ calls[c].media = "none"
    BY <2>2, <2>3
  <2>4. CASE A = <<f>> /\ calls[c].media # "none"
    BY <2>2, <2>4
  <2> QED
    BY <2>1, <2>3, <2>4 DEF A
<1>3. B \in Seq(Frames) /\ Len(B) = 1 /\ B[1] = g
  BY <1>1
<1> HIDE DEF A, B
<1>4. /\ F \in Seq(Frames) /\ Len(F) = Len(A) + 1
      /\ \A k \in 1 .. Len(F) : F[k] = IF k <= Len(A) THEN A[k] ELSE B[k - Len(A)]
  <2>0. A \in Seq(Frames) /\ B \in Seq(Frames)
    BY <1>2, <1>3
  <2>1. F \in Seq(Frames) /\ Len(F) = Len(A) + Len(B)
    BY <2>0
  <2>2. \A k \in 1 .. Len(A) + Len(B) :
          (A \o B)[k] = IF k <= Len(A) THEN A[k] ELSE B[k - Len(A)]
    BY <2>0
  <2> QED
    BY <1>3, <2>1, <2>2
<1>5. /\ Len(F) \in {1, 2} /\ F # <<>>
      /\ Len(F) = 1 => F[1] = g
      /\ Len(F) = 2 => F[1] = f /\ F[2] = g
      /\ calls[c].media # "none" => Len(F) = 2
  <2>1. CASE Len(A) = 0
    BY <1>2, <1>3, <1>4, <2>1
  <2>2. CASE Len(A) = 1
    BY <1>2, <1>3, <1>4, <2>2
  <2> QED
    BY <1>2, <2>1, <2>2
<1>6. F \in Seq(Frames)
  BY <1>4
<1> HIDE DEF F
<1>7. \A k \in 1 .. Len(F) : k = 1 \/ (k = 2 /\ Len(F) = 2)
  <2>1. CASE Len(F) = 1
    BY <2>1
  <2>2. CASE Len(F) = 2
    BY <2>2
  <2> QED
    BY <1>5, <2>1, <2>2
<1>8. StackOK(F)
  BY <1>1, <1>5, <1>6, <1>7 DEF StackOK, RunOps
<1>9. /\ ToSet(F) \subseteq {f, g}
      /\ calls[c].media # "none" => f \in ToSet(F)
  BY <1>5, <1>6, <1>7 DEF ToSet
<1> QED
  BY <1>5, <1>6, <1>8, <1>9 DEF F, A, B, f, g

\* Taking a call out of the table marks it when it is still being set up.
LEMMA TornCalls ==
  ASSUME TypeInv, NEW c \in Dialog, torn' = TornBy(c)
  PROVE  /\ torn' \subseteq Dialog /\ \A d \in Dialog : d # c => (d \in torn' <=> d \in torn)
         /\ torn \subseteq torn'
         /\ \A u \in Task : Begins(u, c) => c \in torn'
<1>1. ASSUME NEW u \in Task, Begins(u, c) PROVE Unfinished(c)
  BY <1>1 DEF Begins, Has, Unfinished, ToSet
<1> QED
  BY <1>1 DEF TypeInv, PeerOK, TornBy

\* hangup_call takes the call out of the table before it says BYE.
LEMMA hangupCallLife ==
  ASSUME TypeInv, LifeInv, NEW t \in Task, hangupCall(t)
  PROVE  LifeStep(t)
<1>1. /\ stack[t] # <<>> /\ Frame(t).op = "hangupCall"
      /\ UNCHANGED <<radioVars, calls, started, activeCalls, waitVars, ret, closed>>
      /\ UNCHANGED <<aborted, peerVars, env, answered>>
  BY DEF hangupCall, Running, Frame, ManagerUnchanged
<1>2. PICK c : c = Frame(t).c
  OBVIOUS
<1>3. RadioOK' /\ CalmRadio
  BY <1>1, RadioKept
<1>4. nextIndex \in Int /\ nextIndex' = nextIndex
  BY <1>3, CallsAssumption DEF TypeInv, RadioOK, CalmRadio
<1>5. ASSUME c \notin ToSet(table), Return(t), UNCHANGED <<table, torn>>
      PROVE  LifeStep(t)
  <2>1. stack' = [stack EXCEPT ![t] = <<>> \o Tail(stack[t])] /\ cpu' \in Task \cup {Idle}
    BY <1>5 DEF Return, Become, Runs
  <2>2. StacksOK'
    BY <1>1, <2>1, StackPopped, StacksWritten DEF TypeInv, StacksOK
  <2>3. /\ \A u \in Task \ {t} : stack'[u] = stack[u]
        /\ ToSet(stack'[t]) = Below(stack[t])
        /\ ToSet(stack[t]) = {Frame(t)} \cup Below(stack[t])
        /\ \A f \in Below(stack[t]) : f.op # "dialDone"
    BY <1>1, <2>1, FewFrames, Stacked DEF OpensMedia
  <2>4. TypeInv'
    BY <1>1, <1>3, <1>5, <2>1, <2>2
       DEF TypeInv, TableOK, WaitOK, PeerOK, waitVars, peerVars
  <2>5. ASSUME NEW d \in Dialog PROVE LifeOf(d)'
    <3>1. \A u \in Task : \A f \in ToSet(stack'[u]) : f \in ToSet(stack[u])
      BY <2>3
    <3>2. \A u \in Task : FrC("STOP", d) \in ToSet(stack[u]) =>
            FrC("STOP", d) \in ToSet(stack'[u])
      BY <1>1, <2>3, FrameFields
    <3>3. \A u \in Task : stack'[u] = stack[u] \/ stack[u] = <<>>
                          \/ Frame(u).op # "hangupCall" \/ Frame(u).c # d
                          \/ d \notin ToSet(table)
      BY <1>2, <1>5, <2>3
    <3> QED
      BY <1>1, <1>4, <1>5, <3>1, <3>2, <3>3, CallKept
  <2>6. DialOK'
    BY <1>1, <1>3, <1>5, <2>3, DialsKept DEF CalmRadio
  <2>7. UpdatesReachOwnCall'
    BY <1>1, <1>3, <1>5, Known, UpdatesKept DEF CalmRadio
  <2>8. Waits(t)
    BY <1>1, <2>3, Unawaited DEF waitVars, RunOps
  <2> QED
    BY <2>4, <2>5, <2>6, <2>7, <2>8, LifeFromCalls DEF LifeStep
<1>6. ASSUME c \in ToSet(table), table' = WithoutKey(table, c), torn' = TornBy(c),
             Become(t, StopMedia(c) \o <<FrC("bye", c)>>)
      PROVE  LifeStep(t)
  <2> DEFINE F == StopMedia(c) \o <<FrC("bye", c)>>
  <2>1. c \in Dialog
    BY <1>6, Known
  <2>2. /\ F \in Seq(Frames) /\ F # <<>> /\ StackOK(F)
        /\ ToSet(F) \subseteq {FrC("STOP", c), FrC("bye", c)}
        /\ calls[c].media # "none" => FrC("STOP", c) \in ToSet(F)
    BY <2>1, HangingUp
  <2>3. stack' = [stack EXCEPT ![t] = F \o Tail(stack[t])] /\ cpu' \in Task \cup {Idle}
    BY <1>6 DEF Become, Runs
  <2> HIDE DEF F
  <2>4. \A f \in ToSet(F) : f.c = c /\ f.op \in {"STOP", "bye"}
    BY <2>2, FrameFields
  <2>5. StacksOK'
    <3>1. StackOK(F \o Tail(stack[t]))
      BY <1>1, <2>2, StackPushed DEF TypeInv, StacksOK, Frame, OpensMedia
    <3> QED
      BY <2>3, <3>1, StacksWritten
  <2>6. /\ \A u \in Task \ {t} : stack'[u] = stack[u]
        /\ ToSet(stack'[t]) = ToSet(F) \cup Below(stack[t])
        /\ ToSet(stack[t]) = {Frame(t)} \cup Below(stack[t])
        /\ \A f \in Below(stack[t]) : f.op # "dialDone" /\ f.op # "bye"
    BY <1>1, <2>2, <2>3, Stacked DEF OpensMedia
  <2>7. /\ table' \in Seq(Dialog) /\ IsInjective(table')
        /\ ToSet(table') = ToSet(table) \ {c}
    BY <1>6, RemoveFirstProperties DEF WithoutKey, TypeInv, TableOK
  <2>8. /\ torn' \subseteq Dialog /\ \A d \in Dialog : d # c => (d \in torn' <=> d \in torn)
        /\ \A u \in Task : Begins(u, c) => c \in torn'
    BY <1>6, <2>1, TornCalls
  <2>9. TypeInv'
    BY <1>1, <1>3, <2>3, <2>5, <2>7, <2>8
       DEF TypeInv, TableOK, WaitOK, PeerOK, waitVars, peerVars
  <2>10. LifeOf(c) /\ calls[c].state # "none"
    BY <1>6, <2>1, LifeOfCalls DEF LifeOf
  <2>11. LifeOf(c)'
    <3>1. ASSUME NEW u \in Task, NEW op \in {"INVITE", "START"}, Has(u, op, c)'
          PROVE  Has(u, op, c)
      BY <2>4, <2>6, <3>1 DEF Has
    <3>2. ASSUME NEW u \in Task, Has(u, "bye", c)' PROVE u = t
      <4>1. u # t => Has(u, "bye", c)
        BY <2>6, <3>2 DEF Has
      <4> QED
        BY <1>6, <2>10, <4>1 DEF LifeOf
    <3>3. ASSUME NEW u \in Task, Begins(u, c)' PROVE Begins(u, c)
      BY <3>1, <3>3 DEF Begins
    <3>4. calls[c].media # "none" => FrC("STOP", c) \in ToSet(stack'[t])
      BY <2>2, <2>6
    <3>5. c \notin ToSet(table') /\ closed'[c] = "no" /\ calls' = calls
      BY <1>1, <1>6, <2>7, <2>10 DEF LifeOf
    <3> QED
      BY <2>8, <2>10, <3>1, <3>2, <3>3, <3>4, <3>5 DEF LifeOf
  <2>12. ASSUME NEW d \in Dialog PROVE LifeOf(d)'
    <3>1. CASE d # c
      <4>1. \A u \in Task : \A f \in ToSet(stack'[u]) :
              f.op \in LifeOps /\ f.c = d => f \in ToSet(stack[u])
        BY <2>4, <2>6, <3>1
      <4>2. \A u \in Task : FrC("STOP", d) \in ToSet(stack[u]) =>
              FrC("STOP", d) \in ToSet(stack'[u])
        BY <1>1, <2>6, FrameFields
      <4>3. \A u \in Task : stack'[u] = stack[u] \/ stack[u] = <<>>
                            \/ Frame(u).op # "hangupCall" \/ Frame(u).c # d
                            \/ d \notin ToSet(table)
        BY <1>2, <2>6, <3>1
      <4> QED
        BY <1>1, <1>4, <2>7, <2>8, <3>1, <4>1, <4>2, <4>3, CallKept
    <3> QED
      BY <2>11, <3>1
  <2>13. DialOK'
    BY <1>1, <1>3, <2>4, <2>6, <2>7, DialsKept DEF CalmRadio
  <2>14. UpdatesReachOwnCall'
    BY <1>1, <1>3, <2>7, Known, UpdatesKept DEF CalmRadio
  <2>15. Waits(t)
    BY <1>1, <2>6, Unawaited DEF waitVars, RunOps
  <2> QED
    BY <2>9, <2>12, <2>13, <2>14, <2>15, LifeFromCalls DEF LifeStep
<1> QED
  BY <1>2, <1>5, <1>6 DEF hangupCall, InTable

\* The media of a call are off.
LEMMA mediaStoppedLife ==
  ASSUME TypeInv, LifeInv, NEW t \in Task, mediaStopped(t)
  PROVE  LifeStep(t)
<1>1. /\ stack[t] # <<>> /\ Frame(t).op = "STOP"
      /\ UNCHANGED <<radioVars, table, started, activeCalls, waitVars, ret, closed>>
      /\ UNCHANGED <<torn, aborted, peerVars, env, answered>>
  BY DEF mediaStopped, ManagerUnchanged
<1>2. PICK c \in Dialog : c = Frame(t).c
  BY <1>1, HeadFrame DEF FrameOK, MediaOps
<1>3. RadioOK' /\ CalmRadio
  BY <1>1, RadioKept
<1>4. nextIndex \in Int /\ nextIndex' = nextIndex
  BY <1>3, CallsAssumption DEF TypeInv, RadioOK, CalmRadio
<1>5. stack' = [stack EXCEPT ![t] = <<>> \o Tail(stack[t])] /\ cpu' \in Task \cup {Idle}
  BY DEF mediaStopped, Return, Become, Runs
<1>6. StacksOK'
  BY <1>1, <1>5, StackPopped, StacksWritten DEF TypeInv, StacksOK
<1>7. /\ \A u \in Task \ {t} : stack'[u] = stack[u]
      /\ ToSet(stack'[t]) = Below(stack[t])
      /\ ToSet(stack[t]) = {Frame(t)} \cup Below(stack[t])
      /\ \A f \in Below(stack[t]) : f.op # "dialDone"
  <2>1. /\ \A u \in Task \ {t} : stack'[u] = stack[u]
        /\ ToSet(stack'[t]) = Below(stack[t])
        /\ ToSet(stack[t]) = {Frame(t)} \cup Below(stack[t])
        /\ \A f \in Below(stack[t]) : f.op = "dialDone" => Frame(t).op \in OpensMedia
    <3>1. <<>> \in Seq(Frames) /\ ToSet(<<>>) = {}
      BY FewFrames
    <3> QED
      BY <1>1, <1>5, <3>1, Stacked
  <2> QED
    BY <1>1, <2>1 DEF OpensMedia
<1>8. PICK e \in CallEntry : /\ calls' = [calls EXCEPT ![c] = e] /\ e.media = "none"
                             /\ e.state = calls[c].state /\ e.idx = calls[c].idx
  <2>1. calls[c] \in CallEntry
    BY <1>2 DEF TypeInv, TableOK, CallEntry
  <2>2. calls' = [calls EXCEPT ![c].media = "none"]
    BY <1>2 DEF mediaStopped
  <2>3. [calls[c] EXCEPT !.media = "none"] \in CallEntry
    BY <2>1 DEF CallEntry
  <2> QED
    BY <2>1, <2>2, <2>3 DEF CallEntry
<1>9. /\ calls' \in [Dialog -> CallEntry] /\ calls'[c] = e
      /\ \A d \in Dialog : d # c => calls'[d] = calls[d]
  BY <1>8, EntryWritten
<1>10. TypeInv'
  BY <1>1, <1>3, <1>5, <1>6, <1>9
     DEF TypeInv, TableOK, WaitOK, PeerOK, CallEntry, waitVars, peerVars
<1>11. LifeOf(c)'
  <2>1. LifeOf(c)
    BY LifeOfCalls
  <2>2. ASSUME NEW u \in Task, NEW op PROVE Has(u, op, c)' => Has(u, op, c)
    BY <1>7 DEF Has
  <2>3. ASSUME NEW u \in Task PROVE Begins(u, c)' => Begins(u, c)
    BY <2>2 DEF Begins
  <2>4. ASSUME NEW u \in Task, Has(u, "inviteIndex", c), c \in ToSet(table)
        PROVE  u # t /\ Head(stack[u]).op = "hangupCall" /\ Head(stack[u]).c = c
    BY <1>1, <2>1, <2>4 DEF LifeOf, Frame
  <2>5. /\ calls'[c].media = "none" /\ calls'[c].state = calls[c].state
        /\ calls'[c].idx = calls[c].idx /\ nextIndex' = nextIndex
        /\ table' = table /\ closed' = closed /\ torn' = torn
    BY <1>1, <1>4, <1>8, <1>9
  <2> QED
    BY <1>7, <2>1, <2>2, <2>3, <2>4, <2>5 DEF LifeOf
<1>12. ASSUME NEW d \in Dialog PROVE LifeOf(d)'
  <2>1. CASE d # c
    <3>1. \A u \in Task : \A f \in ToSet(stack'[u]) : f \in ToSet(stack[u])
      BY <1>7
    <3>2. \A u \in Task : FrC("STOP", d) \in ToSet(stack[u]) =>
            FrC("STOP", d) \in ToSet(stack'[u])
      BY <1>2, <1>7, <2>1, FrameFields
    <3>3. \A u \in Task : stack'[u] = stack[u] \/ stack[u] = <<>>
                          \/ Frame(u).op # "hangupCall" \/ Frame(u).c # d
                          \/ d \notin ToSet(table)
      BY <1>1, <1>7
    <3> QED
      BY <1>1, <1>4, <1>9, <2>1, <3>1, <3>2, <3>3, CallKept
  <2> QED
    BY <1>11, <2>1
<1>13. table' = table /\ \A d \in ToSet(table) : calls'[d].idx = calls[d].idx
  BY <1>1, <1>8, <1>9, Known
<1>14. DialOK'
  BY <1>1, <1>3, <1>7, <1>13, DialsKept DEF CalmRadio
<1>15. UpdatesReachOwnCall'
  BY <1>3, <1>13, Known, UpdatesKept DEF CalmRadio
<1>16. Waits(t)
  BY <1>1, <1>7 DEF Waits, waitVars, AwaitOps
<1> QED
  BY <1>10, <1>12, <1>14, <1>15, <1>16, LifeFromCalls DEF LifeStep

\* The BYE is sent, once, for a call that is not in the table.
LEMMA byeLife ==
  ASSUME TypeInv, LifeInv, NEW t \in Task, bye(t)
  PROVE  LifeStep(t)
<1>1. /\ stack[t] # <<>> /\ Frame(t).op = "bye"
      /\ UNCHANGED <<radioVars, table, started, activeCalls, ret, torn, aborted>>
      /\ UNCHANGED <<peerVars, env, answered>>
  BY DEF bye, Running, Frame, ManagerUnchanged
<1>2. PICK c \in Dialog : c = Frame(t).c
  BY <1>1, HeadFrame DEF FrameOK
<1>3. RadioOK' /\ CalmRadio
  BY <1>1, RadioKept
<1>4. nextIndex \in Int /\ nextIndex' = nextIndex
  BY <1>3, CallsAssumption DEF TypeInv, RadioOK, CalmRadio
<1>5. ASSUME Return(t), UNCHANGED <<calls, waitVars, closed>>
      PROVE  LifeStep(t)
  <2>1. CalmStep(t)
    BY <1>1, <1>5, PlainFew, StackOnly DEF RunOps, sipVars, histVars, Return
  <2> QED
    BY <2>1, CalmKeepsLife DEF LifeStep, CalmStep
<1>6. ASSUME calls' = [calls EXCEPT ![c].state = "TERMINATING"],
             SendRequest(t, c, "BYE"), closed' = [closed EXCEPT ![c] = "us"],
             Suspend(t, FrC("BYE", c))
      PROVE  LifeStep(t)
  <2> DEFINE f == FrC("BYE", c)
             e == [calls[c] EXCEPT !.state = "TERMINATING"]
  <2>1. f.op = "BYE" /\ f.c = c /\ f \in Frames /\ Plain(f)
    BY <1>2, FrameFields, PlainFrames DEF Plain, AwaitOps
  <2>2. StacksOK' /\ WaitOK' /\ Waits(t)
    BY <1>1, <1>6, Requested DEF CalmOps, RunOps, AwaitOps
  <2> HIDE DEF f
  <2>3. stack' = [stack EXCEPT ![t] = <<f>> \o Tail(stack[t])]
    BY <1>6 DEF Suspend, f
  <2>4. /\ \A u \in Task \ {t} : stack'[u] = stack[u]
        /\ ToSet(stack'[t]) = {f} \cup Below(stack[t])
        /\ ToSet(stack[t]) = {Frame(t)} \cup Below(stack[t])
        /\ \A h \in Below(stack[t]) : h.op \in RunOps /\ h.op # "bye" /\ h.op # "dialDone"
    <3>1. <<f>> \in Seq(Frames) /\ ToSet(<<f>>) = {f}
      BY <2>1, FewFrames
    <3> QED
      BY <1>1, <2>3, <3>1, Stacked DEF OpensMedia
  <2>5. /\ e \in CallEntry /\ e.state = "TERMINATING" /\ e.idx = calls[c].idx
        /\ e.media = calls[c].media
    BY <1>2 DEF TypeInv, TableOK, CallEntry, SipStates
  <2>6. calls' = [calls EXCEPT ![c] = e]
    BY <1>2, <1>6 DEF TypeInv, TableOK
  <2> HIDE DEF e
  <2>7. /\ calls' \in [Dialog -> CallEntry] /\ calls'[c] = e
        /\ \A d \in Dialog : d # c => calls'[d] = calls[d]
    BY <2>5, <2>6, EntryWritten
  <2>8. /\ closed' \in [Dialog -> {"no", "us", "peer"}]
        /\ \A d \in Dialog : d # c => closed'[d] = closed[d]
    BY <1>2, <1>6 DEF TypeInv, PeerOK
  <2>9. TypeInv'
    BY <1>1, <1>3, <2>2, <2>7, <2>8 DEF TypeInv, TableOK, PeerOK, CallEntry, peerVars
  <2>10. /\ LifeOf(c) /\ Has(t, "bye", c)
    BY <1>1, <1>2, <2>4, LifeOfCalls DEF Has
  <2>11. /\ c \notin ToSet(table)
         /\ \A u \in Task : Has(u, "bye", c) => u = t
    BY <2>10 DEF LifeOf
  <2>12. LifeOf(c)'
    <3>1. ASSUME NEW u \in Task PROVE /\ Has(u, "INVITE", c)' => Has(u, "INVITE", c)
                                      /\ Has(u, "START", c)' => Has(u, "START", c)
      BY <2>1, <2>4 DEF Has
    <3>2. ASSUME NEW u \in Task PROVE Begins(u, c)' => Begins(u, c)
      BY <3>1 DEF Begins
    <3>3. ASSUME NEW u \in Task PROVE ~ Has(u, "bye", c)'
      <4>1. CASE u = t
        BY <2>1, <2>4, <4>1 DEF Has
      <4>2. CASE u # t
        BY <2>4, <2>11, <4>2 DEF Has
      <4> QED
        BY <4>1, <4>2
    <3>4. \A u \in Task : FrC("STOP", c) \in ToSet(stack[u]) =>
            FrC("STOP", c) \in ToSet(stack'[u])
      BY <1>1, <2>4, FrameFields
    <3>5. /\ calls'[c].state = "TERMINATING" /\ calls'[c].media = calls[c].media
          /\ table' = table /\ torn' = torn
      BY <1>1, <2>5, <2>7
    <3> QED
      BY <2>10, <2>11, <3>1, <3>2, <3>3, <3>4, <3>5 DEF LifeOf
  <2>13. ASSUME NEW d \in Dialog PROVE LifeOf(d)'
    <3>1. CASE d # c
      <4>1. \A u \in Task : \A h \in ToSet(stack'[u]) :
              h.op \in LifeOps /\ h.c = d => h \in ToSet(stack[u])
        BY <2>1, <2>4, <3>1
      <4>2. \A u \in Task : FrC("STOP", d) \in ToSet(stack[u]) =>
              FrC("STOP", d) \in ToSet(stack'[u])
        BY <1>1, <2>4, FrameFields
      <4>3. \A u \in Task : stack'[u] = stack[u] \/ stack[u] = <<>>
                            \/ Frame(u).op # "hangupCall" \/ Frame(u).c # d
                            \/ d \notin ToSet(table)
        BY <1>1, <2>4
      <4> QED
        BY <1>1, <1>4, <2>7, <2>8, <3>1, <4>1, <4>2, <4>3, CallKept
    <3> QED
      BY <2>12, <3>1
  <2>14. table' = table /\ \A d \in ToSet(table) : calls'[d].idx = calls[d].idx
    BY <1>1, <2>5, <2>7, Known
  <2>15. DialOK'
    BY <1>1, <1>3, <2>1, <2>4, <2>14, DialsKept DEF CalmRadio
  <2>16. UpdatesReachOwnCall'
    BY <1>3, <2>14, Known, UpdatesKept DEF CalmRadio
  <2> QED
    BY <2>2, <2>9, <2>13, <2>15, <2>16, LifeFromCalls DEF LifeStep
<1> QED
  BY <1>2, <1>5, <1>6 DEF bye

\* A forwarded call is given an index after it has left the table.
LEMMA inviteIndexLife ==
  ASSUME TypeInv, LifeInv, NEW t \in Task, inviteIndex(t)
  PROVE  LifeStep(t)
<1>1. /\ stack[t] # <<>> /\ Frame(t).op = "inviteIndex"
      /\ UNCHANGED <<radioVars, table, started, activeCalls, waitVars, ret, closed>>
      /\ UNCHANGED <<torn, peerVars, env, answered>>
  BY DEF inviteIndex, Running, Frame, ManagerUnchanged
<1>2. PICK c \in Mt : c = Frame(t).c
  BY <1>1, HeadFrame DEF FrameOK
<1>3. RadioOK' /\ CalmRadio
  BY <1>1, RadioKept
<1>4. nextIndex \in Int /\ nextIndex' = nextIndex
  BY <1>3, CallsAssumption DEF TypeInv, RadioOK, CalmRadio
<1>5. ASSUME Abort(t), UNCHANGED calls
      PROVE  LifeStep(t)
  <2>1. /\ StacksOK' /\ CalmStacks /\ cpu' \in Task \cup {Idle}
        /\ aborted' \subseteq Task /\ \A u \in Task \ {t} : stack'[u] = stack[u]
    BY <1>1, <1>5, CalmAbort DEF CalmOps, RunOps
  <2>2. answered' \subseteq Mt
    BY <1>1 DEF TypeInv, PeerOK
  <2>3. CalmStep(t)
    BY <1>1, <1>3, <1>5, <2>1, <2>2, RadioOnly DEF RunOps, sipVars
  <2> QED
    BY <2>3, CalmKeepsLife DEF LifeStep, CalmStep
<1>6. ASSUME voice_calls # <<>>, Return(t), UNCHANGED aborted,
             calls' = [calls EXCEPT ![c].idx = voice_calls[Len(voice_calls)]]
      PROVE  LifeStep(t)
  <2> DEFINE i == voice_calls[Len(voice_calls)]
             e == [calls[c] EXCEPT !.idx = i]
  <2>1. c \in Dialog
    BY DEF Dialog
  <2>2. i \in 0 .. MaxIndex
    <3>1. voice_calls \in Seq(1 .. MaxIndex) /\ MaxIndex \in Nat
      BY CallsAssumption DEF TypeInv, RadioOK
    <3>2. Len(voice_calls) \in 1 .. Len(voice_calls)
      BY <1>6, <3>1
    <3> QED
      BY <3>1, <3>2
  <2> HIDE DEF i
  <2>3. /\ e \in CallEntry /\ e.state = calls[c].state /\ e.media = calls[c].media
    BY <2>1, <2>2 DEF TypeInv, TableOK, CallEntry
  <2>4. calls' = [calls EXCEPT ![c] = e]
    BY <1>6, <2>1 DEF TypeInv, TableOK, i
  <2> HIDE DEF e
  <2>5. /\ calls' \in [Dialog -> CallEntry] /\ calls'[c] = e
        /\ \A d \in Dialog : d # c => calls'[d] = calls[d]
    BY <2>1, <2>3, <2>4, EntryWritten
  <2>6. stack' = [stack EXCEPT ![t] = <<>> \o Tail(stack[t])] /\ cpu' \in Task \cup {Idle}
    BY <1>6 DEF Return, Become, Runs
  <2>7. StacksOK'
    BY <1>1, <2>6, StackPopped, StacksWritten DEF TypeInv, StacksOK
  <2>8. /\ \A u \in Task \ {t} : stack'[u] = stack[u]
        /\ ToSet(stack'[t]) = Below(stack[t])
        /\ ToSet(stack[t]) = {Frame(t)} \cup Below(stack[t])
        /\ \A f \in Below(stack[t]) : f.op # "dialDone"
    BY <1>1, <2>6, FewFrames, Stacked DEF OpensMedia
  <2>9. TypeInv'
    BY <1>1, <1>3, <1>6, <2>5, <2>6, <2>7
       DEF TypeInv, TableOK, WaitOK, PeerOK, CallEntry, waitVars, peerVars
  <2>10. LifeOf(c) /\ Has(t, "inviteIndex", c)
    BY <1>1, <1>2, <2>1, <2>8, LifeOfCalls DEF Has
  <2>11. c \notin ToSet(table)
    BY <1>1, <2>10 DEF LifeOf, Frame
  <2>12. LifeOf(c)'
    <3>1. ASSUME NEW u \in Task, NEW op PROVE Has(u, op, c)' => Has(u, op, c)
      BY <2>8 DEF Has
    <3>2. ASSUME NEW u \in Task PROVE Begins(u, c)' => Begins(u, c)
      BY <3>1 DEF Begins
    <3>3. \A u \in Task : FrC("STOP", c) \in ToSet(stack[u]) =>
            FrC("STOP", c) \in ToSet(stack'[u])
      BY <1>1, <2>8, FrameFields
    <3>4. /\ calls'[c].media = calls[c].media /\ calls'[c].state = calls[c].state
          /\ table' = table /\ closed' = closed /\ torn' = torn
      BY <1>1, <2>3, <2>5
    <3> QED
      BY <2>10, <2>11, <3>1, <3>2, <3>3, <3>4 DEF LifeOf
  <2>13. ASSUME NEW d \in Dialog PROVE LifeOf(d)'
    <3>1. CASE d # c
      BY <1>1, <1>4, <2>5, <2>8, <3>1, CallsAfterReturn
    <3> QED
      BY <2>12, <3>1
  <2>14. table' = table /\ \A d \in ToSet(table) : calls'[d].idx = calls[d].idx
    BY <1>1, <2>5, <2>11, Known
  <2>15. DialOK'
    BY <1>1, <1>3, <2>8, <2>14, DialsKept DEF CalmRadio
  <2>16. UpdatesReachOwnCall'
    BY <1>3, <2>14, Known, UpdatesKept DEF CalmRadio
  <2>17. Waits(t)
    BY <1>1, <2>8, Unawaited DEF waitVars, RunOps
  <2> QED
    BY <2>9, <2>13, <2>15, <2>16, <2>17, LifeFromCalls DEF LifeStep
<1> QED
  BY <1>2, <1>5, <1>6 DEF inviteIndex

\* There is an index for the call that comes in.
LEMMA IndexLeft ==
  ASSUME TypeInv, RoomForIndex
  PROVE  nextIndex \in 1 .. MaxIndex
<1> DEFINE P == {tk \in Task \X (1 .. 8) :
                   /\ tk[2] \in DOMAIN stack[tk[1]]
                   /\ stack[tk[1]][tk[2]].op \in {"dial"}}
<1>1. IsFiniteSet(1 .. 8)
  <2>1. PICK n \in Int : n = 8
    OBVIOUS
  <2>2. IsFiniteSet(1 .. n)
    BY FS_Interval
  <2> QED
    BY <2>1, <2>2
<1>2. IsFiniteSet(Task \X (1 .. 8))
  BY <1>1, FS_Product, CallsAssumption
<1>3. P \in SUBSET (Task \X (1 .. 8))
  OBVIOUS
<1> HIDE DEF P
<1>4. Cardinality(P) \in Nat
  BY <1>2, <1>3, FS_Subset, FS_CardinalityType
<1>5. nextIndex + Cardinality(P) <= MaxIndex
  BY DEF RoomForIndex, Promised, P
<1> QED
  BY <1>4, <1>5, CallsAssumption DEF TypeInv, RadioOK

\* The entry a call starts from.
LEMMA BlankCall ==
  NoneCall \in CallEntry /\ NoneCall.media = "none" /\ NoneCall.idx = 0
<1>1. 0 \in 0 .. MaxIndex
  BY CallsAssumption
<1> QED
  BY <1>1 DEF NoneCall, CallEntry, SipStates

\* What a new INVITE leaves, whether the call is forwarded or listed.
LEMMA InviteTaken ==
  ASSUME TypeInv, NEW h \in Handlers, NEW c \in Mt, incomingInvite(h, c)
  PROVE  /\ cpu' \in Task \cup {Idle} /\ RadioOK' /\ nextIndex <= nextIndex'
         /\ \A j \in 1 .. MaxIndex : j < nextIndex => radio'[j] = radio[j]
         /\ \E e \in CallEntry :
              /\ calls' = [calls EXCEPT ![c] = e] /\ e.idx < nextIndex'
              /\ e.state = "RINGING_IN" /\ e.media = "none"
              /\ \/ e.idx = 0 /\ voice_calls' = voice_calls
                 \/ /\ e.idx = nextIndex /\ radio'[nextIndex].sip = c
                    /\ ToSet(voice_calls') = ToSet(voice_calls) \cup {nextIndex}
         /\ \E F : /\ stack' = [stack EXCEPT ![h] = F] /\ StackOK(F)
                   /\ \A f \in ToSet(F) :
                        /\ f.op \in {"hangupCall", "initiate", "inviteIndex"}
                        /\ f.op = "inviteIndex" => f.c = c /\ Head(F) = FrC("hangupCall", c)
<1>1. c \in Dialog /\ c # NoCall /\ MaxIndex \in Nat /\ nextIndex \in 1 .. MaxIndex + 1
  BY CallsAssumption DEF Dialog, TypeInv, RadioOK
<1>2. \/ /\ calls' = [calls EXCEPT ![c] = [NoneCall EXCEPT !.state = "RINGING_IN"]]
         /\ Runs(h, <<FrC("hangupCall", c), FrI("initiate", 0), FrC("inviteIndex", c)>>)
         /\ UNCHANGED radioVars
      \/ /\ RoomForIndex
         /\ calls' = [calls EXCEPT ![c] =
              [NoneCall EXCEPT !.state = "RINGING_IN", !.idx = nextIndex]]
         /\ radio' = [radio EXCEPT ![nextIndex] = incoming_call(c)]
         /\ voice_calls' = Append(voice_calls, nextIndex)
         /\ nextIndex' = nextIndex + 1
         /\ Runs(h, <<>>)
  BY DEF incomingInvite
<1>3. h \in Task
  BY DEF Task
<1>4. ASSUME calls' = [calls EXCEPT ![c] = [NoneCall EXCEPT !.state = "RINGING_IN"]],
             Runs(h, <<FrC("hangupCall", c), FrI("initiate", 0), FrC("inviteIndex", c)>>),
             UNCHANGED radioVars
      PROVE  /\ cpu' \in Task \cup {Idle} /\ RadioOK' /\ nextIndex' = nextIndex
             /\ radio' = radio /\ voice_calls' = voice_calls
             /\ \E e \in CallEntry :
                  /\ calls' = [calls EXCEPT ![c] = e] /\ e.idx < nextIndex' /\ e.idx = 0
                  /\ e.state = "RINGING_IN" /\ e.media = "none"
             /\ \E F : /\ stack' = [stack EXCEPT ![h] = F] /\ StackOK(F)
                       /\ \A f \in ToSet(F) :
                            /\ f.op \in {"hangupCall", "initiate", "inviteIndex"}
                            /\ f.op = "inviteIndex" =>
                                 f.c = c /\ Head(F) = FrC("hangupCall", c)
  <2> DEFINE f == FrC("hangupCall", c)
             g == FrI("initiate", 0)
             k == FrC("inviteIndex", c)
             F == <<f, g, k>>
             e == [NoneCall EXCEPT !.state = "RINGING_IN"]
  <2>1. /\ f.op = "hangupCall" /\ g.op = "initiate" /\ g.i = 0 /\ k.op = "inviteIndex"
        /\ k.c = c
    BY FrameFields
  <2>2. f \in Frames /\ g \in Frames /\ k \in Frames
    BY <1>1 DEF FrC, FrI, Fr, Frames, RunOps
  <2>3. FrameOK(f) /\ FrameOK(g) /\ FrameOK(k)
    BY <1>1, <2>1, <2>2 DEF FrameOK, AwaitOps, MediaOps
  <2>4. stack' = [stack EXCEPT ![h] = F] /\ cpu' \in Task \cup {Idle}
    BY <1>3, <1>4 DEF Runs
  <2>5. e \in CallEntry /\ e.state = "RINGING_IN" /\ e.media = "none" /\ e.idx = 0
    <3>1. "RINGING_IN" \in SipStates
      BY DEF SipStates
    <3> QED
      BY <1>1, <3>1, BlankCall DEF CallEntry
  <2>6. calls' = [calls EXCEPT ![c] = e]
    BY <1>4
  <2> HIDE DEF f, g, k, e
  <2>7. /\ F \in Seq(Frames) /\ Len(F) = 3 /\ F[1] = f /\ F[2] = g /\ F[3] = k
        /\ Head(F) = f
    BY <2>2
  <2> HIDE DEF F
  <2>8. \A n \in 1 .. Len(F) : n = 1 \/ n = 2 \/ n = 3
    BY <2>7
  <2>9. StackOK(F)
    BY <2>1, <2>3, <2>7, <2>8 DEF StackOK, RunOps
  <2>10. \A x \in ToSet(F) : x = f \/ x = g \/ x = k
    BY <2>7, <2>8 DEF ToSet
  <2>11. /\ RadioOK' /\ nextIndex' = nextIndex /\ radio' = radio
         /\ voice_calls' = voice_calls
    BY <1>4 DEF radioVars, TypeInv, RadioOK
  <2>12. \A x \in ToSet(F) :
           /\ x.op \in {"hangupCall", "initiate", "inviteIndex"}
           /\ x.op = "inviteIndex" => x.c = c /\ Head(F) = FrC("hangupCall", c)
    BY <2>1, <2>7, <2>10 DEF f
  <2>13. e.idx < nextIndex'
    BY <1>1, <2>5, <2>11
  <2> QED
    BY <2>4, <2>5, <2>6, <2>9, <2>11, <2>12, <2>13
<1>5. ASSUME RoomForIndex,
             calls' = [calls EXCEPT ![c] =
               [NoneCall EXCEPT !.state = "RINGING_IN", !.idx = nextIndex]],
             radio' = [radio EXCEPT ![nextIndex] = incoming_call(c)],
             voice_calls' = Append(voice_calls, nextIndex),
             nextIndex' = nextIndex + 1, Runs(h, <<>>)
      PROVE  /\ cpu' \in Task \cup {Idle} /\ RadioOK' /\ nextIndex <= nextIndex'
             /\ \A j \in 1 .. MaxIndex : j < nextIndex => radio'[j] = radio[j]
             /\ \E e \in CallEntry :
                  /\ calls' = [calls EXCEPT ![c] = e] /\ e.idx < nextIndex'
                  /\ e.state = "RINGING_IN" /\ e.media = "none"
                  /\ e.idx = nextIndex /\ radio'[nextIndex].sip = c
                  /\ ToSet(voice_calls') = ToSet(voice_calls) \cup {nextIndex}
             /\ stack' = [stack EXCEPT ![h] = <<>>]
  <2>1. PICK n : n = nextIndex
    OBVIOUS
  <2>2. n \in 1 .. MaxIndex
    BY <1>5, <2>1, IndexLeft
  <2> DEFINE e == [NoneCall EXCEPT !.state = "RINGING_IN", !.idx = n]
             new == incoming_call(c)
             Entry == [state: RadioStates, mpty: BOOLEAN, sip: Dialog \cup {NoCall}]
  <2>3. e \in CallEntry /\ e.state = "RINGING_IN" /\ e.media = "none" /\ e.idx = n
    <3>1. n \in 0 .. MaxIndex /\ "RINGING_IN" \in SipStates
      BY <1>1, <2>2 DEF SipStates
    <3> QED
      BY <3>1, BlankCall DEF CallEntry
  <2>4. calls' = [calls EXCEPT ![c] = e]
    BY <1>5, <2>1
  <2>5. new \in Entry /\ new.sip = c
    <3> DEFINE s == IF \E i \in ToSet(voice_calls) : radio[i].state = "ACTIVE"
                    THEN "WAITING" ELSE "INCOMING"
    <3>1. s \in RadioStates
      BY DEF RadioStates
    <3>2. new = [state |-> s, mpty |-> FALSE, sip |-> c]
      BY DEF incoming_call
    <3> HIDE DEF s, new
    <3> QED
      BY <1>1, <3>1, <3>2
  <2> HIDE DEF e, new, Entry
  <2>6. radio \in [1 .. MaxIndex -> Entry] /\ radio' = [radio EXCEPT ![n] = new]
    BY <1>5, <2>1 DEF TypeInv, RadioOK, new, Entry
  <2>7. /\ radio' \in [1 .. MaxIndex -> Entry] /\ radio'[n] = new
        /\ \A j \in 1 .. MaxIndex : j # n => radio'[j] = radio[j]
    BY <2>2, <2>5, <2>6
  <2>8. /\ voice_calls' \in Seq(1 .. MaxIndex) /\ IsInjective(voice_calls')
        /\ ToSet(voice_calls') = ToSet(voice_calls) \cup {n}
    <3>1. n \notin ToSet(voice_calls)
      BY <2>1, <2>2, Known
    <3>2. /\ voice_calls \in Seq(1 .. MaxIndex) /\ IsInjective(voice_calls)
          /\ voice_calls' = Append(voice_calls, n)
      BY <1>5, <2>1 DEF TypeInv, RadioOK
    <3> DEFINE S == 1 .. MaxIndex
    <3>3. voice_calls \in Seq(S) /\ n \in S
      BY <2>2, <3>2
    <3> HIDE DEF S
    <3>4. /\ voice_calls' \in Seq(S)
          /\ ToSet(voice_calls') = ToSet(voice_calls) \cup {n}
      BY <3>2, <3>3, AppendProperty
    <3>5. IsInjective(voice_calls')
      BY <3>1, <3>2, <3>3, AppendProperty
    <3> QED
      BY <3>4, <3>5 DEF S
  <2>9. nextIndex' = n + 1 /\ nextIndex' \in 1 .. MaxIndex + 1
    BY <1>1, <1>5, <2>1, <2>2
  <2>10. \A i \in ToSet(voice_calls') : i < nextIndex'
    BY <2>1, <2>2, <2>8, <2>9, Known
  <2>11. RadioOK'
    BY <2>7, <2>8, <2>9, <2>10 DEF RadioOK, Entry
  <2>12. stack' = [stack EXCEPT ![h] = <<>>] /\ cpu' \in Task \cup {Idle}
    BY <1>5 DEF Runs
  <2>13. \A j \in 1 .. MaxIndex : j < n => radio'[j] = radio[j]
    BY <2>2, <2>7
  <2>14. n <= nextIndex' /\ e.idx < nextIndex'
    BY <2>2, <2>3, <2>9
  <2> QED
    BY <2>1, <2>3, <2>4, <2>5, <2>7, <2>8, <2>11, <2>12, <2>13, <2>14
<1>6. StackOK(<<>>) /\ ToSet(<<>>) = {}
  BY FewFrames DEF StackOK
<1> QED
  <2>1. CASE UNCHANGED radioVars /\ nextIndex' = nextIndex
    BY <1>1, <1>2, <1>4, <1>5, <2>1
  <2>2. CASE nextIndex' = nextIndex + 1
    BY <1>1, <1>2, <1>4, <1>5, <1>6, <2>2
  <2> QED
    BY <1>2, <2>1, <2>2 DEF radioVars

\* A new Call-ID arrives: no task is at work on it.
LEMMA incomingInviteLife ==
  ASSUME TypeInv, LifeInv, NEW h \in Handlers, NEW c \in Dialog, incomingInvite(h, c)
  PROVE  LifeStep(h)
<1>1. /\ c \in Mt /\ c \notin ToSet(table) /\ closed' = [closed EXCEPT ![c] = "no"]
      /\ table' = Append(table, c) /\ Arrives(h, "INVITE")
      /\ UNCHANGED <<started, activeCalls, waitVars, ret, up, referred, torn>>
  BY DEF incomingInvite, InTable
<1>2. h \in Task /\ stack[h] = <<>> /\ env' \in Scene /\ UNCHANGED <<answered, aborted, rung>>
  BY <1>1, Arrived
<1>3. \A u \in Task : \A f \in ToSet(stack[u]) : f.c # c
  BY DEF incomingInvite, ToSet
<1>4. /\ cpu' \in Task \cup {Idle} /\ RadioOK' /\ nextIndex <= nextIndex'
      /\ \A j \in 1 .. MaxIndex : j < nextIndex => radio'[j] = radio[j]
  BY <1>1, InviteTaken
<1>5. PICK e \in CallEntry :
        /\ calls' = [calls EXCEPT ![c] = e] /\ e.idx < nextIndex'
        /\ e.state = "RINGING_IN" /\ e.media = "none"
        /\ \/ e.idx = 0 /\ voice_calls' = voice_calls
           \/ /\ e.idx = nextIndex /\ radio'[nextIndex].sip = c
              /\ ToSet(voice_calls') = ToSet(voice_calls) \cup {nextIndex}
  BY <1>1, InviteTaken
<1>6. PICK F : /\ stack' = [stack EXCEPT ![h] = F] /\ StackOK(F)
               /\ \A f \in ToSet(F) :
                    /\ f.op \in {"hangupCall", "initiate", "inviteIndex"}
                    /\ f.op = "inviteIndex" => f.c = c /\ Head(F) = FrC("hangupCall", c)
  BY <1>1, InviteTaken
<1>7. StacksOK' /\ stack'[h] = F /\ \A u \in Task \ {h} : stack'[u] = stack[u]
  BY <1>2, <1>6, StacksWritten DEF TypeInv, StacksOK
<1>8. /\ calls' \in [Dialog -> CallEntry] /\ calls'[c] = e
      /\ \A d \in Dialog : d # c => calls'[d] = calls[d]
  BY <1>5, EntryWritten
<1>9. /\ table' \in Seq(Dialog) /\ IsInjective(table')
      /\ ToSet(table') = ToSet(table) \cup {c}
  BY <1>1, AppendProperty DEF TypeInv, TableOK
<1>10. /\ closed' \in [Dialog -> {"no", "us", "peer"}] /\ closed'[c] = "no"
       /\ \A d \in Dialog : d # c => closed'[d] = closed[d]
  BY <1>1 DEF TypeInv, PeerOK
<1>11. TypeInv'
  BY <1>1, <1>2, <1>4, <1>7, <1>8, <1>9, <1>10
     DEF TypeInv, TableOK, WaitOK, PeerOK, CallEntry, waitVars
<1>12. nextIndex \in Int /\ nextIndex' \in Int /\ nextIndex \in 1 .. MaxIndex + 1
  BY <1>4, CallsAssumption DEF TypeInv, RadioOK
<1>13. LifeOf(c)'
  <2>1. ASSUME NEW u \in Task, NEW op \in LifeOps, Has(u, op, c)'
        PROVE  u = h /\ op = "inviteIndex"
    <3>1. u = h
      BY <1>3, <1>7, <2>1 DEF Has
    <3>2. PICK f \in ToSet(F) : f.op = op
      BY <1>7, <2>1, <3>1 DEF Has
    <3> QED
      BY <1>6, <3>1, <3>2 DEF LifeOps
  <2>2. \A u \in Task : ~ Has(u, "bye", c)' /\ ~ Has(u, "INVITE", c)' /\ ~ Begins(u, c)'
    BY <2>1 DEF Begins, LifeOps
  <2>3. ASSUME NEW u \in Task, Has(u, "inviteIndex", c)'
        PROVE  Head(stack'[u]).op = "hangupCall" /\ Head(stack'[u]).c = c
    <3>1. u = h
      BY <2>1, <2>3 DEF LifeOps
    <3>2. Head(stack'[u]) = FrC("hangupCall", c)
      BY <1>6, <1>7, <2>3, <3>1 DEF Has
    <3> QED
      BY <3>2, FrameFields
  <2> QED
    BY <1>1, <1>5, <1>8, <1>9, <1>10, <2>2, <2>3 DEF LifeOf
<1>14. ASSUME NEW d \in Dialog PROVE LifeOf(d)'
  <2>1. CASE d # c
    <3>1. \A u \in Task : \A f \in ToSet(stack'[u]) :
            f.op \in LifeOps /\ f.c = d => f \in ToSet(stack[u])
      <4>1. \A f \in ToSet(F) : f.op \in LifeOps => f.op = "inviteIndex"
        BY <1>6 DEF LifeOps
      <4>2. ASSUME NEW f \in ToSet(F), f.op = "inviteIndex" PROVE f.c # d
        <5>1. f.c = c
          BY <1>6, <4>2, <2>1
        <5> QED
          BY <2>1, <5>1
      <4> QED
        BY <1>7, <4>1, <4>2
    <3>2. \A u \in Task : FrC("STOP", d) \in ToSet(stack[u]) =>
            FrC("STOP", d) \in ToSet(stack'[u])
      BY <1>2, <1>7, FewFrames
    <3>3. \A u \in Task : stack'[u] = stack[u] \/ stack[u] = <<>>
                          \/ Frame(u).op # "hangupCall" \/ Frame(u).c # d
                          \/ d \notin ToSet(table)
      BY <1>2, <1>7
    <3> QED
      BY <1>1, <1>4, <1>8, <1>9, <1>10, <1>12, <2>1, <3>1, <3>2, <3>3, CallKept
  <2> QED
    BY <1>13, <2>1
<1>15. DialOK'
  <2> SUFFICES ASSUME NEW u \in Task, NEW j \in 1 .. MaxIndex, Dialling(u, j)'
               PROVE  /\ j < nextIndex' /\ radio'[j].sip = NoCall
                      /\ \A v \in Task : Dialling(v, j)' => v = u
                      /\ \A d \in ToSet(table') : calls'[d].idx = j => d = Callee(u)'
    BY DEF DialOK
  <2>1. ASSUME NEW v \in Task, Dialling(v, j)' PROVE v # h /\ Dialling(v, j)
    BY <1>6, <1>7, <2>1 DEF Dialling
  <2>2. /\ j < nextIndex /\ radio[j].sip = NoCall
        /\ \A v \in Task : Dialling(v, j) => v = u
        /\ \A d \in ToSet(table) : calls[d].idx = j => d = Callee(u)
    BY <2>1 DEF LifeInv, DialOK
  <2>3. Callee(u)' = Callee(u)
    BY <1>1, <1>7, <2>1 DEF Callee
  <2>4. ASSUME NEW d \in ToSet(table'), calls'[d].idx = j PROVE d = Callee(u)
    <3>1. d # c
      BY <1>5, <1>8, <1>12, <2>2, <2>4
    <3> QED
      BY <1>8, <1>9, <2>2, <2>4, <3>1, Known
  <2> QED
    BY <1>4, <1>12, <2>1, <2>2, <2>3, <2>4
<1>16. UpdatesReachOwnCall'
  <2> SUFFICES ASSUME NEW d \in ToSet(table'), NEW j \in ToSet(voice_calls'),
                      calls'[d].idx = j
               PROVE  radio'[j].sip \in {d, NoCall}
    BY DEF UpdatesReachOwnCall
  <2>1. CASE j \in ToSet(voice_calls)
    <3>1. j \in 1 .. MaxIndex /\ j < nextIndex /\ radio'[j] = radio[j]
      BY <1>4, <2>1, Known
    <3>2. d # c
      BY <1>5, <1>8, <1>12, <3>1
    <3>3. d \in ToSet(table) /\ calls[d].idx = j
      BY <1>8, <1>9, <3>2, Known
    <3> QED
      BY <2>1, <3>1, <3>3 DEF LifeInv, UpdatesReachOwnCall
  <2>2. CASE j \notin ToSet(voice_calls)
    <3>1. j = nextIndex /\ radio'[j].sip = c
      BY <1>5, <2>2
    <3>2. ASSUME d # c PROVE FALSE
      <4>1. d \in ToSet(table) /\ calls[d].idx = nextIndex
        BY <1>8, <1>9, <3>1, <3>2, Known
      <4>2. calls[d].idx < nextIndex
        BY <4>1 DEF LifeInv, IndexOK
      <4> QED
        BY <1>12, <4>1, <4>2
    <3> QED
      BY <3>1, <3>2
  <2> QED
    BY <2>1, <2>2
<1>17. Waits(h)
  BY <1>1, <1>2, <1>7 DEF Waits, waitVars
<1> QED
  BY <1>11, <1>14, <1>15, <1>16, <1>17, LifeFromCalls DEF LifeStep

\* The media of a call are stopped before anything else is done.
LEMMA TearingDown ==
  ASSUME TypeInv, NEW c \in Dialog, NEW g, Plain(g), g.op \in RunOps
  PROVE  LET F == StopMedia(c) \o <<g>> IN
         /\ PlainRun(F)
         /\ calls[c].media # "none" => FrC("STOP", c) \in ToSet(F)
<1> DEFINE f == FrC("STOP", c)
           A == StopMedia(c)
           B == <<g>>
           F == A \o B
<1>1. f \in Frames /\ Plain(f)
  BY PlainFrames DEF Plain
<1> HIDE DEF f
<1>2. /\ PlainRun(A) /\ A \in Seq(Frames)
      /\ calls[c].media # "none" => Len(A) = 1 /\ A[1] = f
  <2>1. \/ A = <<>> /\ calls[c].media = "none"
        \/ A = <<f>> /\ calls[c].media # "none"
    BY DEF StopMedia, f
  <2>2. /\ <<>> \in Seq(Frames) /\ PlainRun(<<>>)
        /\ <<f>> \in Seq(Frames) /\ Len(<<f>>) = 1 /\ <<f>>[1] = f /\ PlainRun(<<f>>)
    BY <1>1, PlainFew
  <2> HIDE DEF A
  <2> QED
    BY <2>1, <2>2
<1>3. /\ PlainRun(B) /\ B \in Seq(Frames) /\ Len(B) = 1
      /\ \A k \in 1 .. Len(B) : B[k].op \in RunOps
  <2>1. PlainRun(B) /\ g \in Frames
    BY PlainFew DEF Plain
  <2>2. B \in Seq(Frames) /\ Len(B) = 1 /\ B[1] = g
    BY <2>1
  <2> HIDE DEF B
  <2> QED
    BY <2>1, <2>2
<1> HIDE DEF A, B
<1>4. PlainRun(F)
  BY <1>2, <1>3, PlainConcat
<1>5. ASSUME calls[c].media # "none" PROVE f \in ToSet(F)
  <2>1. A \in Seq(Frames) /\ B \in Seq(Frames)
    BY <1>2, <1>3
  <2>2. F \in Seq(Frames) /\ Len(F) = Len(A) + Len(B)
    BY <2>1
  <2>3. \A k \in 1 .. Len(A) : F[k] = A[k]
    BY <2>1
  <2> HIDE DEF F
  <2>4. 1 \in 1 .. Len(F) /\ F[1] = f
    BY <1>2, <1>3, <1>5, <2>2, <2>3
  <2> QED
    BY <2>2, <2>4 DEF ToSet
<1> QED
  BY <1>4, <1>5 DEF F, A, B, f

\* The far end ends a call that is in the table, or an unknown one.
LEMMA incomingByeLife ==
  ASSUME TypeInv, LifeInv, NEW h \in Handlers, NEW c \in Dialog, incomingBye(h, c)
  PROVE  LifeStep(h)
<1>1. PICK m \in {"BYE", "CANCEL"} :
        /\ Arrives(h, m)
        /\ up' = IF m = "BYE" THEN up \cup {c} ELSE up
        /\ LET tail == Fr("byeTail", c, 0, IF m = "BYE" THEN 1 ELSE 0)
               gone == Fr("byeTail", NoCall, 0, tail.j)
           IN Runs(h, IF InTable(c) THEN StopMedia(c) \o <<tail>> ELSE <<gone>>)
  BY DEF incomingBye
<1>2. /\ UNCHANGED <<radioVars, calls, started, activeCalls, waitVars, ret, referred>>
      /\ IF c \in ToSet(table)
         THEN /\ table' = WithoutKey(table, c)
              /\ torn' = TornBy(c)
              /\ closed' = [closed EXCEPT ![c] = "peer"]
         ELSE UNCHANGED <<table, torn, closed>>
  BY DEF incomingBye, InTable
<1>3. h \in Task /\ stack[h] = <<>> /\ env' \in Scene /\ UNCHANGED <<answered, aborted, rung>>
  BY <1>1, Arrived
<1>4. PICK j \in {0, 1} : j = IF m = "BYE" THEN 1 ELSE 0
  OBVIOUS
<1>5. j \in 0 .. MaxIndex /\ 0 \in 0 .. MaxIndex + 1
  BY CallsAssumption
<1> DEFINE tail == Fr("byeTail", c, 0, j)
           gone == Fr("byeTail", NoCall, 0, j)
<1>6. /\ Plain(tail) /\ tail.op = "byeTail" /\ Plain(gone) /\ tail.j = j
      /\ "byeTail" \in RunOps
  <2>1. "byeTail" \in LooseOps /\ "byeTail" \in RunOps
    BY DEF LooseOps, RunOps
  <2> QED
    BY <1>5, <2>1, FrameFields, PlainFrames
<1>7. Runs(h, IF c \in ToSet(table) THEN StopMedia(c) \o <<tail>> ELSE <<gone>>)
  BY <1>1, <1>4, <1>6 DEF InTable
<1> HIDE DEF tail, gone
<1>8. PICK F : /\ PlainRun(F) /\ Runs(h, F)
               /\ c \in ToSet(table) /\ calls[c].media # "none" =>
                    FrC("STOP", c) \in ToSet(F)
  <2>1. CASE c \in ToSet(table)
    BY <1>6, <1>7, <2>1, TearingDown
  <2>2. CASE c \notin ToSet(table)
    BY <1>6, <1>7, <2>2, PlainFew
  <2> QED
    BY <2>1, <2>2
<1>9. stack' = [stack EXCEPT ![h] = F] /\ cpu' \in Task \cup {Idle}
  BY <1>3, <1>8 DEF Runs
<1>10. StacksOK' /\ CalmStacks /\ WaitOK' /\ Waits(h)
  BY <1>2, <1>3, <1>8, <1>9, Started
<1>11. RadioOK' /\ CalmRadio
  BY <1>2, RadioKept
<1>12. calls' = calls /\ calls' \in [Dialog -> CallEntry] /\ CalmCalls
  BY <1>2, CallsKept
<1>13. ASSUME c \notin ToSet(table)
       PROVE  LifeStep(h)
  <2>1. UNCHANGED <<table, torn, closed>>
    BY <1>2, <1>13
  <2>2. PeerOK'
    BY <1>1, <1>2, <1>3, <2>1 DEF TypeInv, PeerOK
  <2>3. started' \in BOOLEAN /\ activeCalls' \in 0 .. Cardinality(Dialog)
    BY <1>2 DEF TypeInv, TableOK
  <2>4. CalmStep(h)
    BY <1>3, <1>10, <1>11, <1>12, <2>1, <2>2, <2>3, CalmParts
  <2> QED
    BY <2>4, CalmKeepsLife DEF LifeStep, CalmStep
<1>14. ASSUME c \in ToSet(table)
       PROVE  LifeStep(h)
  <2>1. /\ table' = WithoutKey(table, c) /\ torn' = TornBy(c)
        /\ closed' = [closed EXCEPT ![c] = "peer"]
    BY <1>2, <1>14
  <2>2. /\ table' \in Seq(Dialog) /\ IsInjective(table')
        /\ ToSet(table') = ToSet(table) \ {c}
    BY <2>1, RemoveFirstProperties DEF WithoutKey, TypeInv, TableOK
  <2>3. /\ torn' \subseteq Dialog /\ \A d \in Dialog : d # c => (d \in torn' <=> d \in torn)
        /\ \A u \in Task : Begins(u, c) => c \in torn'
    BY <2>1, TornCalls
  <2>4. /\ closed' \in [Dialog -> {"no", "us", "peer"}]
        /\ \A d \in Dialog : d # c => closed'[d] = closed[d]
    BY <2>1 DEF TypeInv, PeerOK
  <2>5. PeerOK'
    BY <1>1, <1>2, <1>3, <2>3, <2>4 DEF TypeInv, PeerOK
  <2>6. TypeInv'
    BY <1>2, <1>10, <1>11, <1>12, <2>2, <2>5 DEF TypeInv, TableOK
  <2>7. /\ \A u \in Task \ {h} : stack'[u] = stack[u]
        /\ stack'[h] = F /\ \A f \in ToSet(F) : f.op \notin LifeOps \cup {"dialDone"}
    BY <1>3, <1>8, <1>9 DEF TypeInv, StacksOK, PlainRun, Plain, ToSet
  <2>8. LifeOf(c) /\ calls[c].state # "none"
    BY <1>14, LifeOfCalls DEF LifeOf
  <2>9. LifeOf(c)'
    <3>1. ASSUME NEW u \in Task, NEW op \in LifeOps, Has(u, op, c)' PROVE Has(u, op, c)
      BY <1>10, <3>1, CalmHas
    <3>2. ASSUME NEW u \in Task, Begins(u, c)' PROVE Begins(u, c)
      BY <3>1, <3>2 DEF Begins, LifeOps
    <3>3. \A u \in Task : ~ Has(u, "bye", c)'
      BY <1>14, <2>8, <3>1 DEF LifeOf, LifeOps
    <3>4. calls[c].media # "none" => FrC("STOP", c) \in ToSet(stack'[h])
      BY <1>8, <1>14, <2>7
    <3>5. ASSUME NEW u \in Task, Has(u, "INVITE", c)'
          PROVE  Has(u, "INVITE", c) /\ (Has(u, "START", c)' => Has(u, "START", c))
      BY <3>1, <3>5 DEF LifeOps
    <3> QED
      BY <1>3, <1>12, <2>2, <2>3, <2>8, <3>2, <3>3, <3>4, <3>5 DEF LifeOf
  <2>10. ASSUME NEW d \in Dialog PROVE LifeOf(d)'
    <3>1. CASE d # c
      <4>1. \A u \in Task : \A f \in ToSet(stack'[u]) :
              f.op \in LifeOps /\ f.c = d => f \in ToSet(stack[u])
        BY <2>7
      <4>2. \A u \in Task : FrC("STOP", d) \in ToSet(stack[u]) =>
              FrC("STOP", d) \in ToSet(stack'[u])
        BY <1>3, <2>7, FewFrames
      <4>3. \A u \in Task : stack'[u] = stack[u] \/ stack[u] = <<>>
                            \/ Frame(u).op # "hangupCall" \/ Frame(u).c # d
                            \/ d \notin ToSet(table)
        BY <1>3, <2>7
      <4>4. nextIndex \in Int /\ nextIndex' = nextIndex
        BY <1>11, CallsAssumption DEF TypeInv, RadioOK, CalmRadio
      <4> QED
        BY <1>12, <2>2, <2>3, <2>4, <3>1, <4>1, <4>2, <4>3, <4>4, CallKept
    <3> QED
      BY <2>9, <3>1
  <2>11. DialOK'
    BY <1>2, <1>3, <1>11, <1>12, <2>2, <2>7, DialsKept DEF CalmRadio
  <2>12. UpdatesReachOwnCall'
    BY <1>11, <1>12, <2>2, Known, UpdatesKept DEF CalmRadio
  <2> QED
    BY <1>10, <2>6, <2>10, <2>11, <2>12, LifeFromCalls DEF LifeStep
<1> QED
  BY <1>13, <1>14

-----------------------------------------------------------------------------
(* The invariant. *)

\* It holds when the phone starts.
LEMMA InitInv == Init => IInv
<1> SUFFICES ASSUME Init PROVE IInv
  OBVIOUS
<1>1. /\ voice_calls = <<>> /\ table = <<>> /\ nextIndex = 1 /\ activeCalls = 0
      /\ \A t \in Task : stack[t] = <<>>
      /\ \A c \in Dialog : calls[c] = NoneCall /\ closed[c] = "no" /\ pending[c] = Idle
  BY DEF Init
<1>2. ToSet(<<>>) = {} /\ StackOK(<<>>) /\ <<>> \in Seq(Frames)
  BY FewFrames DEF StackOK
<1>3. \A t \in Task : \A op, c : ~ Has(t, op, c)
  BY <1>1, <1>2 DEF Has
<1>4. TypeInv
  <2>1. StacksOK
    BY <1>2 DEF Init, StacksOK
  <2>2. RadioOK
    <3>1. 1 \in 1 .. MaxIndex + 1
      BY CallsAssumption
    <3>2. /\ voice_calls \in Seq(1 .. MaxIndex) /\ IsInjective(voice_calls)
          /\ \A i \in ToSet(voice_calls) : i < nextIndex
      BY <1>1, <1>2 DEF IsInjective
    <3>3. [state |-> "DIALING", mpty |-> FALSE, sip |-> NoCall]
            \in [state: RadioStates, mpty: BOOLEAN, sip: Dialog \cup {NoCall}]
      BY DEF RadioStates
    <3> QED
      BY <1>1, <3>1, <3>2, <3>3 DEF Init, RadioOK
  <2>3. TableOK
    <3>1. Cardinality(Dialog) \in Nat
      BY CallsAssumption, FS_CardinalityType
    <3>2. table \in Seq(Dialog) /\ IsInjective(table)
      BY <1>1 DEF IsInjective
    <3>3. calls \in [Dialog -> CallEntry]
      BY BlankCall DEF Init
    <3>4. started \in BOOLEAN /\ activeCalls \in 0 .. Cardinality(Dialog)
      BY <1>1, <3>1 DEF Init
    <3> QED
      BY <3>2, <3>3, <3>4 DEF TableOK, CallEntry
  <2>4. WaitOK
    BY DEF Init, WaitOK, NoResp
  <2>5. PeerOK
    BY CallsAssumption DEF Init, PeerOK
  <2> QED
    BY <2>1, <2>2, <2>3, <2>4, <2>5 DEF TypeInv
<1>5. \A c \in Dialog : calls[c].media = "none" /\ calls[c].state = "none"
  BY <1>1 DEF NoneCall
<1>6. PendingHasWaiter
  BY <1>1 DEF PendingHasWaiter
<1>7. FreshOK /\ ByeOK /\ SetupOK /\ IndexOK
  BY <1>1, <1>2, <1>3, <1>5 DEF FreshOK, ByeOK, SetupOK, IndexOK, Begins
<1>8. LeakNeedsEarlyTeardown
  BY <1>5 DEF LeakNeedsEarlyTeardown
<1>9. DialOK /\ UpdatesReachOwnCall
  BY <1>1, <1>2 DEF DialOK, Dialling, UpdatesReachOwnCall
<1> QED
  BY <1>4, <1>6, <1>7, <1>8, <1>9 DEF IInv

\* A calm step of one task keeps it.
LEMMA CalmInv ==
  ASSUME IInv, NEW t \in Task, CalmStep(t)
  PROVE  IInv'
<1>1. TypeInv /\ LifeInv /\ PendingHasWaiter /\ WaitOK
  BY DEF IInv, LifeInv, TypeInv
<1>2. LifeInv' /\ TypeInv'
  BY <1>1, CalmKeepsLife DEF CalmStep
<1>3. PendingHasWaiter'
  BY <1>1, WaitsKeepsFutures DEF CalmStep
<1> QED
  BY <1>2, <1>3 DEF IInv, LifeInv

\* So does a step of one task that makes, changes or ends one call.
LEMMA StepInv ==
  ASSUME IInv, NEW t \in Task, LifeStep(t)
  PROVE  IInv'
<1>1. PendingHasWaiter /\ WaitOK
  BY DEF IInv, TypeInv
<1>2. PendingHasWaiter'
  BY <1>1, WaitsKeepsFutures DEF LifeStep
<1> QED
  BY <1>2 DEF IInv, LifeInv, LifeStep

\* And an event of SIPClient.
LEMMA TurnInv ==
  ASSUME IInv, CalmTurn
  PROVE  IInv'
<1>1. TypeInv /\ LifeInv
  BY DEF IInv, LifeInv
<1>2. LifeInv'
  BY <1>1, CalmKeepsLife DEF CalmTurn
<1> QED
  BY <1>2 DEF IInv, LifeInv, CalmTurn

\* The steps of a task.
LEMMA TaskInv ==
  ASSUME IInv, NEW t \in Task, Step(t)
  PROVE  IInv'
<1>1. TypeInv /\ LifeInv
  BY DEF IInv, LifeInv
<1>2. CASE dial(t)
  BY <1>1, <1>2, dialLife, StepInv
<1>3. CASE dialDone(t)
  BY <1>1, <1>3, dialDoneLife, StepInv
<1>4. CASE answer(t)
  BY <1>1, <1>4, answerCalm, CalmInv
<1>5. CASE hangup(t)
  BY <1>1, <1>5, hangupCalm, CalmInv
<1>6. CASE hangupDone(t)
  BY <1>1, <1>6, hangupDoneCalm, CalmInv
<1>7. CASE hangupAll(t)
  BY <1>1, <1>7, hangupAllCalm, CalmInv
<1>8. CASE hangupIf(t)
  BY <1>1, <1>8, hangupIfCalm, CalmInv
<1>9. CASE clearCalls(t)
  BY <1>1, <1>9, clearCallsCalm, CalmInv
<1>10. CASE switch(t)
  BY <1>1, <1>10, switchCalm, CalmInv
<1>11. CASE switchScan(t)
  BY <1>1, <1>11, switchScanCalm, CalmInv
<1>12. CASE separate(t)
  BY <1>1, <1>12, separateCalm, CalmInv
<1>13. CASE ect(t)
  BY <1>1, <1>13, ectCalm, CalmInv
<1>14. CASE ectDone(t)
  BY <1>1, <1>14, ectDoneCalm, CalmInv
<1>15. CASE initiate(t)
  BY <1>1, <1>15, initiateLife, StepInv
<1>16. CASE inviteResult(t)
  BY <1>1, <1>16, inviteResultLife, StepInv
<1>17. CASE mediaStarted(t)
  BY <1>1, <1>17, mediaStartedLife, StepInv
<1>18. CASE answerCall(t)
  BY <1>1, <1>18, answerCallLife, StepInv
<1>19. CASE holdResume(t)
  BY <1>1, <1>19, holdResumeCalm, CalmInv
<1>20. CASE holdResumeDone(t)
  BY <1>1, <1>20, holdResumeDoneCalm, CalmInv
<1>21. CASE conference(t)
  BY <1>1, <1>21, conferenceCalm, CalmInv
<1>22. CASE transfer(t)
  BY <1>1, <1>22, transferCalm, CalmInv
<1>23. CASE transferDone(t)
  BY <1>1, <1>23, transferDoneCalm, CalmInv
<1>24. CASE hangupCall(t)
  BY <1>1, <1>24, hangupCallLife, StepInv
<1>25. CASE mediaStopped(t)
  BY <1>1, <1>25, mediaStoppedLife, StepInv
<1>26. CASE bye(t)
  BY <1>1, <1>26, byeLife, StepInv
<1>27. CASE byeDone(t)
  BY <1>1, <1>27, byeDoneCalm, CalmInv
<1>28. CASE stop(t)
  BY <1>1, <1>28, stopCalm, CalmInv
<1>29. CASE notify(t)
  BY <1>1, <1>29, notifyCalm, CalmInv
<1>30. CASE inviteIndex(t)
  BY <1>1, <1>30, inviteIndexLife, StepInv
<1>31. CASE byeTail(t)
  BY <1>1, <1>31, byeTailCalm, CalmInv
<1> QED
  BY <1>2, <1>3, <1>4, <1>5, <1>6, <1>7, <1>8, <1>9, <1>10, <1>11, <1>12, <1>13, <1>14,
     <1>15, <1>16, <1>17, <1>18, <1>19, <1>20, <1>21, <1>22, <1>23, <1>24, <1>25, <1>26,
     <1>27, <1>28, <1>29, <1>30, <1>31 DEF Step

\* What the network sends.
LEMMA NetworkInv ==
  ASSUME IInv, Network
  PROVE  IInv'
<1>1. TypeInv /\ LifeInv /\ PendingHasWaiter
  BY DEF IInv, LifeInv
<1>2. ASSUME NEW r \in inflight, NEW ok \in BOOLEAN, response(r, ok) PROVE IInv'
  BY <1>1, <1>2, responseCalm, TurnInv
<1>3. ASSUME NEW c \in Mo, ringing(c) PROVE IInv'
  BY <1>1, <1>3, ringingCalm, TurnInv
<1>4. ASSUME NEW h \in Handlers, NEW c \in Dialog,
             \/ incomingInvite(h, c) \/ reinvite(h, c) \/ incomingBye(h, c)
             \/ incomingRefer(h, c) \/ incomingNotify(h, c)
      PROVE  IInv'
  <2>1. h \in Task
    BY DEF Task
  <2>2. CASE incomingInvite(h, c)
    BY <1>1, <2>1, <2>2, incomingInviteLife, StepInv
  <2>3. CASE reinvite(h, c)
    BY <1>1, <2>1, <2>3, reinviteCalm, CalmInv
  <2>4. CASE incomingBye(h, c)
    BY <1>1, <2>1, <2>4, incomingByeLife, StepInv
  <2>5. CASE incomingRefer(h, c)
    BY <1>1, <2>1, <2>5, incomingReferCalm, CalmInv
  <2>6. CASE incomingNotify(h, c)
    BY <1>1, <2>1, <2>6, incomingNotifyCalm, CalmInv
  <2> QED
    BY <1>4, <2>2, <2>3, <2>4, <2>5, <2>6
<1> QED
  BY <1>2, <1>3, <1>4 DEF Network

\* A step that changes nothing.
LEMMA StutterInv ==
  ASSUME IInv, UNCHANGED vars
  PROVE  IInv'
<1>1. TypeInv'
  BY DEF IInv, TypeInv, StacksOK, RadioOK, TableOK, WaitOK, PeerOK, vars, radioVars,
         sipVars, waitVars, peerVars, histVars
<1>2. UNCHANGED <<stack, ret, radioVars, table, closed, torn, pending, resp, calls>>
  BY DEF vars, sipVars, waitVars, histVars
<1>3. TypeInv /\ PendingHasWaiter
  BY DEF IInv
<1>4. CalmStacks /\ CalmRadio /\ CalmCalls
  BY <1>2, <1>3, StacksKept, RadioKept, CallsKept
<1>5. PendingHasWaiter'
  BY <1>2, <1>3 DEF PendingHasWaiter, Frame
<1> QED
  BY <1>1, <1>2, <1>4, <1>5, TurnInv DEF CalmTurn, Calm

\* Every step keeps the invariant.
LEMMA NextInv == IInv /\ [Next]_vars => IInv'
<1> SUFFICES ASSUME IInv, [Next]_vars PROVE IInv'
  OBVIOUS
<1>1. TypeInv /\ LifeInv /\ PendingHasWaiter
  BY DEF IInv, LifeInv
<1>2. ASSUME NEW t \in Ril, RilRequest(t) PROVE IInv'
  <2>1. t \in Task
    BY DEF Task
  <2> QED
    BY <1>1, <1>2, <2>1, RilRequestCalm, CalmInv
<1>3. CASE Network
  BY <1>3, NetworkInv
<1>4. CASE UNCHANGED vars
  BY <1>4, StutterInv
<1>5. ASSUME NEW t \in Task, timeout(t) PROVE IInv'
  BY <1>1, <1>5, timeoutCalm, TurnInv
<1>6. ASSUME NEW t \in Task, Step(t) PROVE IInv'
  BY <1>6, TaskInv
<1> QED
  BY <1>2, <1>3, <1>4, <1>5, <1>6 DEF Next, Request, AwaitEvent

\* What can be said of every reachable state.
LEMMA Invariant == Spec => []IInv
BY InitInv, NextInv, PTL DEF Spec

-----------------------------------------------------------------------------
(* The theorems. *)

\* Every variable keeps its type: in particular no coroutine is resumed with
\* an index or a Call-ID that was never handed out.
THEOREM TypeCorrect == Spec => []TypeOK
<1>1. IInv => TypeOK
  BY DEF IInv, TypeInv, StacksOK, RadioOK, TableOK, WaitOK, PeerOK, TypeOK, Frames
<1> QED
  BY <1>1, Invariant, PTL

\* A future in SIPClient's table belongs to a task that is still suspended in
\* send_request on that Call-ID, however the futures overwrite each other.
THEOREM FuturesHaveWaiters == Spec => []PendingHasWaiter
<1>1. IInv => PendingHasWaiter
  BY DEF IInv
<1> QED
  BY <1>1, Invariant, PTL

\* A call reports its state only under its own radio index, also while dial
\* has not stored the Call-ID or a forwarded call is given an index late.
THEOREM UpdatesStayApart == Spec => []UpdatesReachOwnCall
<1>1. IInv => UpdatesReachOwnCall
  BY DEF IInv
<1> QED
  BY <1>1, Invariant, PTL

\* Media outlive a call only when it was removed during its set-up.
THEOREM MediaLeaks == Spec => []LeakNeedsEarlyTeardown
<1>1. IInv => LeakNeedsEarlyTeardown
  BY DEF IInv
<1> QED
  BY <1>1, Invariant, PTL

-----------------------------------------------------------------------------
(* What is sent when. *)

\* A step sends nothing that its call's end forbids.
SentInTime == \A r \in inflight' \ inflight :
  /\ closed[r.c] = "us" => r.m = "NOTIFY"
  /\ closed[r.c] = "peer" => r.m \in {"NOTIFY", "BYE"}

\* Sending one request.
LEMMA OneRequest ==
  ASSUME NEW t, NEW c, NEW m, SendRequest(t, c, m), closed[c] = "no" \/ m = "NOTIFY"
  PROVE  SentInTime
<1>1. \A r \in inflight' \ inflight : r.c = c /\ r.m = m
  BY DEF SendRequest
<1> QED
  BY <1>1 DEF SentInTime

\* Sending none.
LEMMA NoRequest ==
  ASSUME inflight' \subseteq inflight
  PROVE  SentInTime
BY DEF SentInTime

\* Most steps of a task send nothing.
LEMMA TasksSendInTime ==
  ASSUME IInv, NEW t \in Task, Step(t)
  PROVE  SentInTime
<1>1. TypeInv /\ LifeInv
  BY DEF IInv, LifeInv
<1>2. \A c \in ToSet(table) : closed[c] = "no"
  BY <1>1 DEF LifeInv, ByeOK
<1>3. CASE dial(t)
  BY <1>3, NoRequest DEF dial, RadioUnchanged, waitVars
<1>4. CASE dialDone(t)
  BY <1>4, NoRequest DEF dialDone, RadioUnchanged, waitVars
<1>5. CASE answer(t)
  BY <1>5, NoRequest DEF answer, RadioUnchanged, waitVars
<1>6. CASE hangup(t)
  BY <1>6, NoRequest DEF hangup, RadioUnchanged, waitVars
<1>7. CASE hangupDone(t)
  BY <1>7, NoRequest DEF hangupDone, RadioUnchanged, waitVars
<1>8. CASE hangupAll(t)
  BY <1>8, NoRequest DEF hangupAll, RadioUnchanged, waitVars
<1>9. CASE hangupIf(t)
  BY <1>9, NoRequest DEF hangupIf, RadioUnchanged, waitVars
<1>10. CASE clearCalls(t)
  BY <1>10, NoRequest DEF clearCalls, RadioUnchanged, waitVars
<1>11. CASE switch(t)
  BY <1>11, NoRequest DEF switch, RadioUnchanged, waitVars
<1>12. CASE switchScan(t)
  BY <1>12, NoRequest DEF switchScan, RadioUnchanged, waitVars
<1>13. CASE separate(t)
  BY <1>13, NoRequest DEF separate, RadioUnchanged, waitVars
<1>14. CASE ect(t)
  BY <1>14, NoRequest DEF ect, RadioUnchanged, waitVars
<1>15. CASE ectDone(t)
  BY <1>15, NoRequest DEF ectDone, RadioUnchanged, waitVars
<1>16. CASE inviteResult(t)
  BY <1>16, NoRequest DEF inviteResult, waitVars
<1>17. CASE mediaStarted(t)
  BY <1>17, NoRequest DEF mediaStarted, waitVars
<1>18. CASE answerCall(t)
  BY <1>18, NoRequest DEF answerCall, waitVars
<1>19. CASE holdResumeDone(t)
  BY <1>19, NoRequest DEF holdResumeDone, waitVars
<1>20. CASE conference(t)
  BY <1>20, NoRequest DEF conference, waitVars
<1>21. CASE transferDone(t)
  BY <1>21, NoRequest DEF transferDone, waitVars
<1>22. CASE hangupCall(t)
  BY <1>22, NoRequest DEF hangupCall, waitVars
<1>23. CASE mediaStopped(t)
  BY <1>23, NoRequest DEF mediaStopped, waitVars
<1>24. CASE byeDone(t)
  BY <1>24, NoRequest DEF byeDone, waitVars
<1>25. CASE stop(t)
  BY <1>25, NoRequest DEF stop, waitVars
<1>26. CASE inviteIndex(t)
  BY <1>26, NoRequest DEF inviteIndex, waitVars
<1>27. CASE byeTail(t)
  BY <1>27, NoRequest DEF byeTail, waitVars
<1>28. CASE initiate(t)
  <2>1. CASE UNCHANGED waitVars
    BY <2>1, NoRequest DEF waitVars
  <2>2. ASSUME NEW c \in Mo, calls[c].state = "none", SendRequest(t, c, "INVITE")
        PROVE  SentInTime
    <3>1. closed[c] = "no"
      BY <1>1, <2>2 DEF LifeInv, FreshOK, Dialog
    <3> QED
      BY <2>2, <3>1, OneRequest
  <2> QED
    BY <1>28, <2>1, <2>2 DEF initiate
<1>29. CASE holdResume(t)
  <2>1. CASE UNCHANGED waitVars
    BY <2>1, NoRequest DEF waitVars
  <2>2. ASSUME NEW c \in ToSet(table), NEW m, SendRequest(t, c, m)
        PROVE  SentInTime
    BY <1>2, <2>2, OneRequest
  <2> QED
    BY <1>29, <2>1, <2>2 DEF holdResume, InTable
<1>30. CASE transfer(t)
  <2>1. CASE UNCHANGED waitVars
    BY <2>1, NoRequest DEF waitVars
  <2>2. ASSUME NEW c \in ToSet(table), NEW m, SendRequest(t, c, m)
        PROVE  SentInTime
    BY <1>2, <2>2, OneRequest
  <2> QED
    BY <1>30, <2>1, <2>2 DEF transfer, InTable
<1>31. CASE bye(t)
  <2>1. CASE UNCHANGED waitVars
    BY <2>1, NoRequest DEF waitVars
  <2>2. stack[t] # <<>> /\ Frame(t).op = "bye"
    BY <1>31 DEF bye, Running, Frame
  <2>3. PICK c \in Dialog : c = Frame(t).c
    BY <1>1, <2>2, HeadFrame DEF FrameOK
  <2>4. Frame(t) \in ToSet(stack[t])
    BY <1>1, <2>2, BelowHead DEF TypeInv, StacksOK, Frame
  <2>5. closed[c] = "no"
    BY <1>1, <2>2, <2>3, <2>4 DEF LifeInv, ByeOK, Has
  <2>6. UNCHANGED waitVars \/ SendRequest(t, c, "BYE")
    BY <1>31, <2>3 DEF bye
  <2> QED
    BY <2>1, <2>5, <2>6, OneRequest
<1>32. CASE notify(t)
  <2>1. inflight' = inflight \/ SendRequest(t, Frame(t).c, "NOTIFY")
    BY <1>32 DEF notify
  <2> QED
    BY <2>1, NoRequest, OneRequest
<1> QED
  BY <1>3, <1>4, <1>5, <1>6, <1>7, <1>8, <1>9, <1>10, <1>11, <1>12, <1>13, <1>14, <1>15,
     <1>16, <1>17, <1>18, <1>19, <1>20, <1>21, <1>22, <1>23, <1>24, <1>25, <1>26, <1>27,
     <1>28, <1>29, <1>30, <1>31, <1>32 DEF Step

\* Once the phone has sent its BYE it sends no second BYE, no re-INVITE and no
\* REFER in that dialog, and after the far end's BYE no re-INVITE and no REFER.
THEOREM ByeIsLast == Spec => NothingAfterBye
<1>1. IInv /\ [Next]_vars => SentInTime
  <2> SUFFICES ASSUME IInv, [Next]_vars PROVE SentInTime
    OBVIOUS
  <2>1. ASSUME NEW t \in Ril, RilRequest(t) PROVE SentInTime
    BY <2>1, NoRequest DEF RilRequest, waitVars
  <2>2. ASSUME NEW r \in inflight, NEW ok \in BOOLEAN, response(r, ok) PROVE SentInTime
    BY <2>2, NoRequest DEF response
  <2>3. ASSUME NEW c \in Mo, ringing(c) PROVE SentInTime
    BY <2>3, NoRequest DEF ringing, waitVars
  <2>4. ASSUME NEW h \in Handlers, NEW c \in Dialog,
               \/ incomingInvite(h, c) \/ reinvite(h, c) \/ incomingBye(h, c)
               \/ incomingRefer(h, c) \/ incomingNotify(h, c)
        PROVE  SentInTime
    <3>1. UNCHANGED waitVars
      BY <2>4 DEF incomingInvite, reinvite, incomingBye, incomingRefer, incomingNotify
    <3> QED
      BY <3>1, NoRequest DEF waitVars
  <2>5. CASE UNCHANGED vars
    BY <2>5, NoRequest DEF vars, waitVars
  <2>6. ASSUME NEW t \in Task, timeout(t) PROVE SentInTime
    BY <2>6, NoRequest DEF timeout
  <2>7. ASSUME NEW t \in Task, Step(t) PROVE SentInTime
    BY <2>7, TasksSendInTime
  <2> QED
    BY <2>1, <2>2, <2>3, <2>4, <2>5, <2>6, <2>7 DEF Next, Request, Network, AwaitEvent
<1> QED
  BY <1>1, Invariant, PTL DEF Spec, NothingAfterBye, SentInTime
=============================================================================
