------------------------ MODULE RspDownload_proofs ------------------------
(***************************************************************************)
(* Proofs about RspDownload, for any connections, profiles and budgets.    *)
(***************************************************************************)
EXTENDS RspDownload, SequenceTheorems, TLAPS

-----------------------------------------------------------------------------
(* The inductive invariant. *)

Download == {"info", "initiate", "authenticate", "prepare", "bpp", "load", "notify"}

\* Types; a command names a session that was opened, and has a profile in hand
\* when it calls the daemon for one.
TypeInv ==
  /\ TypeOK
  /\ \A c \in Connection :
       /\ conn[c].txn \in 0 .. Len(session)
       /\ conn[c].at \in {"load", "direct", "delete"} => conn[c].iccid \in Iccid

\* The command k is in a session.
InSession(k) ==
  \/ k.at \in {"authenticate", "prepare", "bpp", "load", "notify"}
  \/ k.at = "initiate" /\ k.reply = "ok"

\* The daemon has installed the profile for k; it has installed none.
Loaded(k) ==
  (k.at = "load" /\ k.reply = "ok") \/ (k.at = "notify" /\ k.code = "OK")
Untouched(k) ==
  \/ k.at \in {"info", "initiate", "authenticate", "prepare", "bpp"}
  \/ k.at = "load" /\ (k.reply = "none" \/ (k.reply = "raised" /\ ~k.broken))
  \/ k.at = "notify" /\ k.code # "OK"

\* A session belongs to one command; the profile in hand is that of the session;
\* and the command knows what was installed and notified, unless its answer was
\* lost.
CommandOK(c) == LET k == conn[c] IN
  /\ InSession(k) => k.txn # 0
  /\ k.at = "info" \/ (k.at = "initiate" /\ k.reply = "none") => k.txn = 0
  /\ k.txn # 0 => k.at \in Download /\ session[k.txn].by = c
  /\ k.at \in Download /\ k.iccid # None => k.txn # 0 /\ k.iccid = session[k.txn].iccid
  /\ Loaded(k) => <<k.txn, k.iccid>> \in installs
  /\ Untouched(k) /\ k.txn # 0 => \A i \in Iccid : <<k.txn, i>> \notin installs
  /\ k.at = "notify" /\ k.reply = "ok" => session[k.txn].told = k.code
  /\ k.at = "notify" /\ k.reply = "raised" => k.broken

\* A session whose result was reported is not used again, and the result is
\* true.
ResultOK(r) ==
  /\ r.txn # 0 => \A c \in Connection : conn[c].txn # r.txn
  /\ r.success => /\ r.txn # 0
                  /\ <<r.txn, session[r.txn].iccid>> \in installs
                  /\ session[r.txn].told = "OK"
  /\ ~r.success /\ r.txn # 0 /\ ~r.broken => \A i \in Iccid : <<r.txn, i>> \notin installs

SessionOK(t) ==
  /\ \A i \in Iccid : <<t, i>> \in installs => i = session[t].iccid
  /\ session[t].told = "OK" =>
       session[t].about = session[t].iccid /\ <<t, session[t].iccid>> \in installs

CommandsOK == \A c \in Connection : CommandOK(c)
SessionsOK == \A t \in 1 .. Len(session) : SessionOK(t)
ResultsOK == \A r \in results : ResultOK(r)
IInv == TypeInv /\ CommandsOK /\ SessionsOK /\ ResultsOK

-----------------------------------------------------------------------------
(* What a step does to the command of a connection. *)

Replies == {"none", "ok", "raised"}
Calls == {"idle"} \cup Es9 \cup Es10
Codes == {"none", "OK", "INTERNAL_ERROR"}

Becomes(c, a, r, t, i, o, b) ==
  /\ conn' \in [Connection -> CommandType]
  /\ \A d \in Connection : d # c => conn'[d] = conn[d]
  /\ conn'[c].at = a /\ conn'[c].reply = r /\ conn'[c].txn = t
  /\ conn'[c].iccid = i /\ conn'[c].code = o /\ conn'[c].broken = b

LEMMA Replied ==
  ASSUME conn \in [Connection -> CommandType], NEW c \in Connection, NEW r \in Replies,
         conn' = [conn EXCEPT ![c].reply = r]
  PROVE  Becomes(c, conn[c].at, r, conn[c].txn, conn[c].iccid, conn[c].code, conn[c].broken)
BY DEF Becomes, CommandType, Replies

LEMMA Broken ==
  ASSUME conn \in [Connection -> CommandType], NEW c \in Connection, NEW r \in Replies,
         NEW b \in BOOLEAN, conn' = [conn EXCEPT ![c].reply = r, ![c].broken = b]
  PROVE  Becomes(c, conn[c].at, r, conn[c].txn, conn[c].iccid, conn[c].code, b)
BY DEF Becomes, CommandType, Replies

LEMMA GivenSession ==
  ASSUME conn \in [Connection -> CommandType], NEW c \in Connection, NEW t \in Nat,
         conn' = [conn EXCEPT ![c].reply = "ok", ![c].txn = t]
  PROVE  Becomes(c, conn[c].at, "ok", t, conn[c].iccid, conn[c].code, conn[c].broken)
BY DEF Becomes, CommandType

LEMMA GivenProfile ==
  ASSUME conn \in [Connection -> CommandType], NEW c \in Connection,
         NEW i \in Iccid \cup {None},
         conn' = [conn EXCEPT ![c].reply = "ok", ![c].iccid = i]
  PROVE  Becomes(c, conn[c].at, "ok", conn[c].txn, i, conn[c].code, conn[c].broken)
BY DEF Becomes, CommandType

LEMMA Calling ==
  ASSUME conn \in [Connection -> CommandType], NEW c \in Connection, NEW a \in Calls,
         conn' = [conn EXCEPT ![c].at = a, ![c].reply = "none"]
  PROVE  Becomes(c, a, "none", conn[c].txn, conn[c].iccid, conn[c].code, conn[c].broken)
BY DEF Becomes, CommandType, Calls

LEMMA CallingWith ==
  ASSUME conn \in [Connection -> CommandType], NEW c \in Connection, NEW a \in Calls,
         NEW o \in Codes,
         conn' = [conn EXCEPT ![c].at = a, ![c].reply = "none", ![c].code = o]
  PROVE  Becomes(c, a, "none", conn[c].txn, conn[c].iccid, o, conn[c].broken)
BY DEF Becomes, CommandType, Calls, Codes

LEMMA Begun ==
  ASSUME conn \in [Connection -> CommandType], NEW c \in Connection, NEW a \in Calls,
         NEW i \in Iccid \cup {None}, Call(c, a, i)
  PROVE  Becomes(c, a, "none", 0, i, "none", FALSE)
BY DEF Becomes, CommandType, Idle, Call, Calls

LEMMA Ended ==
  ASSUME conn \in [Connection -> CommandType], NEW c \in Connection,
         conn' = [conn EXCEPT ![c] = Idle]
  PROVE  Becomes(c, "idle", "none", 0, None, "none", FALSE)
BY DEF Becomes, CommandType, Idle

-----------------------------------------------------------------------------
(* What a step of one command leaves alone. *)

\* Other commands, who opened which session for which profile, and what other
\* sessions were told and had installed.
Frame(c) ==
  /\ \A d \in Connection : d # c => conn'[d] = conn[d]
  /\ Len(session') \in Nat /\ Len(session) <= Len(session')
  /\ \A t \in 1 .. Len(session) :
       /\ session'[t].by = session[t].by /\ session'[t].iccid = session[t].iccid
       /\ t # conn[c].txn => session'[t].told = session[t].told
                             /\ session'[t].about = session[t].about
  /\ installs \subseteq installs'
  /\ \A t \in Nat, i \in Iccid :
       <<t, i>> \in installs' => <<t, i>> \in installs \/ t = conn[c].txn
  /\ conn'[c].txn \in {0, conn[c].txn} \/ conn'[c].txn > Len(session)

LEMMA OthersKept ==
  ASSUME TypeInv, CommandsOK, NEW c \in Connection, Frame(c),
         NEW d \in Connection, d # c
  PROVE  CommandOK(d)'
<1>1. /\ conn'[d] = conn[d] /\ CommandOK(d) /\ CommandOK(c)
      /\ conn[d].txn \in 0 .. Len(session) /\ conn[c].txn \in 0 .. Len(session)
      /\ Len(session) \in Nat
  BY DEF Frame, CommandsOK, TypeInv, TypeOK
<1>2. conn[d].txn # 0 => /\ conn[d].txn # conn[c].txn
                         /\ conn[d].txn \in 1 .. Len(session)
  BY <1>1 DEF CommandOK
<1>3. conn[d].txn # 0 =>
        /\ session'[conn[d].txn].by = session[conn[d].txn].by
        /\ session'[conn[d].txn].iccid = session[conn[d].txn].iccid
        /\ session'[conn[d].txn].told = session[conn[d].txn].told
        /\ \A i \in Iccid :
             <<conn[d].txn, i>> \in installs' <=> <<conn[d].txn, i>> \in installs
  BY <1>1, <1>2 DEF Frame
<1>4. <<conn[d].txn, conn[d].iccid>> \in installs => <<conn[d].txn, conn[d].iccid>> \in installs'
  BY DEF Frame
<1> QED
  BY <1>1, <1>3, <1>4 DEF CommandOK, Loaded, Untouched, InSession

LEMMA ResultsKept ==
  ASSUME TypeInv, CommandsOK, ResultsOK, NEW c \in Connection, Frame(c),
         NEW r \in results
  PROVE  ResultOK(r)'
<1>1. /\ r.txn \in 0 .. Len(session) /\ Len(session) \in Nat /\ ResultOK(r)
      /\ conn[c].txn \in 0 .. Len(session)
  BY DEF TypeInv, TypeOK, ResultsOK
<1>2. r.txn # 0 => r.txn \in 1 .. Len(session) /\ r.txn # conn[c].txn
  BY <1>1 DEF ResultOK
<1>3. r.txn # 0 => \A d \in Connection : conn'[d].txn # r.txn
  BY <1>1, <1>2 DEF Frame, ResultOK
<1>4. r.txn # 0 =>
        /\ session'[r.txn].iccid = session[r.txn].iccid
        /\ session'[r.txn].told = session[r.txn].told
        /\ \A i \in Iccid : <<r.txn, i>> \in installs' <=> <<r.txn, i>> \in installs
  BY <1>1, <1>2 DEF Frame
<1>5. <<r.txn, session[r.txn].iccid>> \in installs => <<r.txn, session[r.txn].iccid>> \in installs'
  BY DEF Frame
<1> QED
  BY <1>1, <1>3, <1>4, <1>5 DEF ResultOK

LEMMA SessionsKept ==
  ASSUME TypeInv, SessionsOK, NEW c \in Connection, Frame(c),
         NEW t \in 1 .. Len(session), t # conn[c].txn
  PROVE  SessionOK(t)'
<1>1. SessionOK(t) /\ t \in Nat
  BY DEF SessionsOK, TypeInv, TypeOK
<1>2. /\ session'[t].iccid = session[t].iccid /\ session'[t].told = session[t].told
      /\ session'[t].about = session[t].about
  BY DEF Frame
<1>3. \A i \in Iccid : <<t, i>> \in installs' => <<t, i>> \in installs
  BY <1>1 DEF Frame
<1>4. <<t, session[t].iccid>> \in installs => <<t, session[t].iccid>> \in installs'
  BY DEF Frame
<1> QED
  BY <1>1, <1>2, <1>3, <1>4 DEF SessionOK

-----------------------------------------------------------------------------
(* The invariant after a step of one command. *)

\* The types of the rest: the LPA, sessions, profiles and results.
RestTyped ==
  /\ state \in {"IDLE", "AUTHENTICATING", "DOWNLOADING", "INSTALLING", "ERROR"}
  /\ session \in Seq(SessionType)
  /\ current \in 0 .. Len(session)
  /\ installed \subseteq Iccid
  /\ installs \subseteq (0 .. Len(session)) \X Iccid
  /\ results \subseteq [txn: 0 .. Len(session), success: BOOLEAN, broken: BOOLEAN]

CommandTyped(c) ==
  /\ conn[c].txn \in 0 .. Len(session)
  /\ conn[c].at \in {"load", "direct", "delete"} => conn[c].iccid \in Iccid

LEMMA TypeKept ==
  ASSUME TypeInv, NEW c \in Connection, Frame(c),
         conn' \in [Connection -> CommandType], CommandTyped(c)', RestTyped'
  PROVE  TypeInv'
<1>1. ASSUME NEW d \in Connection PROVE CommandTyped(d)'
  BY DEF TypeInv, TypeOK, Frame, CommandTyped
<1> QED
  BY <1>1 DEF TypeInv, TypeOK, RestTyped, CommandTyped

LEMMA InvKept ==
  ASSUME IInv, NEW c \in Connection, Frame(c),
         conn' \in [Connection -> CommandType], CommandTyped(c)', RestTyped',
         CommandOK(c)',
         \A t \in 1 .. Len(session) : t = conn[c].txn => SessionOK(t)',
         \A t \in 1 .. Len(session') : t > Len(session) => SessionOK(t)',
         \A r \in results' : r \in results \/ ResultOK(r)'
  PROVE  IInv'
<1>1. TypeInv'
  BY TypeKept DEF IInv
<1>2. CommandsOK'
  <2>1. \A d \in Connection : d # c => CommandOK(d)'
    BY OthersKept DEF IInv
  <2> QED
    BY <2>1 DEF CommandsOK
<1>3. ASSUME NEW t \in 1 .. Len(session') PROVE SessionOK(t)'
  <2>1. Len(session) \in Nat /\ Len(session') \in Nat
    BY DEF IInv, TypeInv, TypeOK, Frame
  <2>2. CASE t > Len(session)
    BY <2>2
  <2>3. CASE t \in 1 .. Len(session) /\ t = conn[c].txn
    BY <2>3
  <2>4. CASE t \in 1 .. Len(session) /\ t # conn[c].txn
    BY <2>4, SessionsKept DEF IInv
  <2> QED
    BY <2>1, <2>2, <2>3, <2>4
<1>4. ASSUME NEW r \in results' PROVE ResultOK(r)'
  BY <1>4, ResultsKept DEF IInv
<1> QED
  BY <1>1, <1>2, <1>3, <1>4 DEF IInv, SessionsOK, ResultsOK

\* The same of a step that leaves sessions and installed profiles alone.
LEMMA QuietKept ==
  ASSUME IInv, NEW c \in Connection, UNCHANGED <<session, installs>>,
         conn' \in [Connection -> CommandType],
         \A d \in Connection : d # c => conn'[d] = conn[d],
         conn'[c].txn \in {0, conn[c].txn},
         conn'[c].at \in {"load", "direct", "delete"} => conn'[c].iccid \in Iccid,
         RestTyped', CommandOK(c)',
         \A r \in results' : r \in results \/ ResultOK(r)'
  PROVE  IInv'
<1>1. /\ Len(session) \in Nat /\ conn[c].txn \in 0 .. Len(session)
      /\ installs \subseteq (0 .. Len(session)) \X Iccid
  BY DEF IInv, TypeInv, TypeOK
<1>2. Frame(c)
  BY <1>1 DEF Frame
<1>3. CommandTyped(c)'
  BY <1>1 DEF CommandTyped
<1>4. \A t \in 1 .. Len(session) : SessionOK(t)'
  BY DEF IInv, SessionsOK, SessionOK
<1>5. \A t \in 1 .. Len(session') : t > Len(session) => SessionOK(t)'
  BY <1>1
<1> QED
  BY <1>2, <1>3, <1>4, <1>5, InvKept

LEMMA Initially == Init => IInv
BY ProfileAssumption
   DEF Init, IInv, TypeInv, TypeOK, CommandsOK, CommandOK, SessionsOK, ResultsOK,
       Idle, CommandType, SessionType, InSession, Loaded, Untouched

-----------------------------------------------------------------------------
(* Steps of one command that leave sessions and installed profiles alone. *)

LEMMA Facts ==
  ASSUME IInv, NEW c \in Connection
  PROVE  /\ conn \in [Connection -> CommandType] /\ conn[c] \in CommandType
         /\ conn[c].at \in Calls /\ conn[c].reply \in Replies /\ conn[c].code \in Codes
         /\ conn[c].iccid \in Iccid \cup {None} /\ conn[c].broken \in BOOLEAN
         /\ CommandTyped(c) /\ RestTyped /\ CommandOK(c) /\ Len(session) \in Nat
BY DEF IInv, TypeInv, TypeOK, RestTyped, CommandTyped, CommandsOK, CommandType,
       Calls, Replies, Codes

LEMMA BeginKept ==
  ASSUME IInv, NEW c \in Connection,
         \/ download_profile(c)
         \/ \E i \in Iccid : install_profile_direct(c, i) \/ delete_profile(c, i)
  PROVE  IInv'
<1>1. CASE \E a \in {"info", "direct", "delete"}, i \in Iccid \cup {None} :
             /\ Call(c, a, i) /\ (a # "info" => i \in Iccid) /\ (a = "info" => i = None)
             /\ UNCHANGED <<current, session, installed, installs, results>>
             /\ state' \in {"AUTHENTICATING", state}
  <2>1. PICK a \in {"info", "direct", "delete"}, i \in Iccid \cup {None} :
             /\ Call(c, a, i) /\ (a # "info" => i \in Iccid) /\ (a = "info" => i = None)
             /\ UNCHANGED <<current, session, installed, installs, results>>
             /\ state' \in {"AUTHENTICATING", state}
    BY <1>1
  <2>2. Becomes(c, a, "none", 0, i, "none", FALSE)
    BY <2>1, Facts, Begun DEF Calls, Es10
  <2>3. RestTyped'
    BY <2>1, Facts DEF RestTyped
  <2>4. CommandOK(c)'
    BY <2>1, <2>2 DEF CommandOK, Becomes, InSession, Loaded, Untouched, Download
  <2> QED
    BY <2>1, <2>2, <2>3, <2>4, QuietKept DEF Becomes
<1>2. CASE /\ state' = "ERROR"
           /\ results' = results \cup {[txn |-> 0, success |-> FALSE, broken |-> FALSE]}
           /\ UNCHANGED <<conn, current, session, installed, installs>>
  <2>1. RestTyped'
    <3>1. [txn |-> 0, success |-> FALSE, broken |-> FALSE]
            \in [txn: 0 .. Len(session), success: BOOLEAN, broken: BOOLEAN]
      BY Facts
    <3> QED
      BY <1>2, <3>1, Facts DEF RestTyped
  <2>2. \A r \in results' : r \in results \/ ResultOK(r)'
    BY <1>2 DEF ResultOK
  <2>3. CommandOK(c)'
    BY <1>2, Facts DEF CommandOK, InSession, Loaded, Untouched
  <2> QED
    BY <1>2, <2>1, <2>2, <2>3, Facts, QuietKept DEF CommandTyped
<1> QED
  BY <1>1, <1>2 DEF download_profile, install_profile_direct, delete_profile, lpa

\* An answer that changes nothing, or a call that fails.
LEMMA ReplyKept ==
  ASSUME IInv, NEW c \in Connection,
         \/ euicc_answers(c) \/ euicc_deletes(c) \/ call_times_out(c) \/ call_fails(c)
  PROVE  IInv'
<1>1. PICK r \in Replies, b \in BOOLEAN :
        Becomes(c, conn[c].at, r, conn[c].txn, conn[c].iccid, conn[c].code, b)
          /\ CommandOK(c)'
  <2>1. CASE euicc_answers(c) \/ euicc_deletes(c)
    <3>1. PICK r \in {"ok", "raised"} : Returns(c, r)
      BY <2>1 DEF euicc_answers, euicc_deletes
    <3>2. Becomes(c, conn[c].at, r, conn[c].txn, conn[c].iccid, conn[c].code, conn[c].broken)
      BY <3>1, Facts, Replied DEF Returns, Replies
    <3>3. CommandOK(c)'
      BY <2>1, <3>2, Facts
         DEF euicc_answers, euicc_deletes, Pending, Becomes, CommandOK, InSession, Loaded, Untouched
    <3> QED
      BY <3>2, <3>3, Facts DEF Replies
  <2>2. CASE call_times_out(c)
    <3> DEFINE b == conn[c].at = "notify"
    <3>0. conn' = [conn EXCEPT ![c].reply = "raised", ![c].broken = b]
      BY <2>2 DEF call_times_out
    <3>1. Becomes(c, conn[c].at, "raised", conn[c].txn, conn[c].iccid, conn[c].code, b)
      <4> b \in BOOLEAN
        OBVIOUS
      <4> HIDE DEF b
      <4> QED
        BY <3>0, Facts, Broken DEF Replies
    <3>2. b => conn'[c].broken
      BY <3>1, Zenon DEF Becomes
    <3>3. /\ conn'[c].at = conn[c].at /\ conn'[c].reply = "raised"
          /\ conn'[c].txn = conn[c].txn /\ conn'[c].iccid = conn[c].iccid
          /\ conn'[c].code = conn[c].code
      BY <3>1 DEF Becomes
    <3>4. CommandOK(c) /\ session' = session /\ installs' = installs
      BY <2>2, Facts DEF call_times_out
    <3>5. CommandOK(c)'
      BY <2>2, <3>2, <3>3, <3>4
         DEF call_times_out, Es9, CommandOK, InSession, Loaded, Untouched
    <3> QED
      BY <3>1, <3>5 DEF Replies
  <2>3. CASE call_fails(c)
    <3> DEFINE b == conn[c].reply = "ok" /\ conn[c].at \in {"load", "notify"}
    <3>0. conn' = [conn EXCEPT ![c].reply = "raised", ![c].broken = b]
      BY <2>3 DEF call_fails
    <3>1. Becomes(c, conn[c].at, "raised", conn[c].txn, conn[c].iccid, conn[c].code, b)
      <4> b \in BOOLEAN
        OBVIOUS
      <4> HIDE DEF b
      <4> QED
        BY <3>0, Facts, Broken DEF Replies
    <3>2. b => conn'[c].broken
      BY <3>1, Zenon DEF Becomes
    <3>3. /\ conn'[c].at = conn[c].at /\ conn'[c].reply = "raised"
          /\ conn'[c].txn = conn[c].txn /\ conn'[c].iccid = conn[c].iccid
          /\ conn'[c].code = conn[c].code
      BY <3>1 DEF Becomes
    <3>4. CommandOK(c) /\ session' = session /\ installs' = installs
      BY <2>3, Facts DEF call_fails
    <3>5. CommandOK(c)'
      BY <2>3, <3>2, <3>3, <3>4
         DEF call_fails, Es10, CommandOK, InSession, Loaded, Untouched
    <3> QED
      BY <3>1, <3>5 DEF Replies
  <2> QED
    BY <2>1, <2>2, <2>3
<1>2. /\ UNCHANGED <<session, installs, results>> /\ RestTyped'
  BY Facts DEF euicc_answers, euicc_deletes, call_times_out, call_fails, RestTyped, lpa
<1> QED
  BY <1>1, <1>2, Facts, QuietKept DEF Becomes, CommandTyped

\* The next call of a download.
LEMMA CallKept ==
  ASSUME IInv, NEW c \in Connection,
         download_goes_on(c) \/ download_bound(c) \/ download_loaded(c)
  PROVE  IInv'
<1>0. CommandOK(c) /\ conn[c].at \in Calls
  BY Facts
<1>1. UNCHANGED <<session, installs, results>>
  BY DEF download_goes_on, download_bound, download_loaded
<1>2. RestTyped'
  <2>1. current' \in 0 .. Len(session)
    BY Facts DEF download_goes_on, download_bound, download_loaded, lpa, RestTyped, CommandTyped
  <2> QED
    BY <1>1, <2>1, Facts DEF download_goes_on, download_bound, download_loaded, lpa, RestTyped
<1>3. CASE download_goes_on(c)
  <2>1. PICK a \in {"initiate", "authenticate", "prepare", "bpp"} :
          /\ conn' = [conn EXCEPT ![c].at = a, ![c].reply = "none"]
          /\ conn[c].at \in {"info", "initiate", "authenticate", "prepare"}
          /\ conn[c].reply = "ok" /\ (a = "initiate" <=> conn[c].at = "info")
    <3>1. /\ conn' = [conn EXCEPT ![c].at = After[conn[c].at], ![c].reply = "none"]
          /\ conn[c].at \in {"info", "initiate", "authenticate", "prepare"}
          /\ conn[c].reply = "ok"
      BY <1>3 DEF download_goes_on, After
    <3>2. /\ After["info"] = "initiate" /\ After["initiate"] = "authenticate"
          /\ After["authenticate"] = "prepare" /\ After["prepare"] = "bpp"
      BY DEF After
    <3>3. CASE conn[c].at = "info"
      BY <3>1, <3>2, <3>3
    <3>4. CASE conn[c].at = "initiate"
      BY <3>1, <3>2, <3>4
    <3>5. CASE conn[c].at = "authenticate"
      BY <3>1, <3>2, <3>5
    <3>6. CASE conn[c].at = "prepare"
      BY <3>1, <3>2, <3>6
    <3> QED
      BY <3>1, <3>3, <3>4, <3>5, <3>6
  <2>2. Becomes(c, a, "none", conn[c].txn, conn[c].iccid, conn[c].code, conn[c].broken)
    BY <2>1, Facts, Calling DEF Calls, Es9, Es10
  <2>3. CommandOK(c)'
    BY <1>0, <1>1, <2>1, <2>2
       DEF Becomes, CommandOK, InSession, Loaded, Untouched, Download
  <2> QED
    BY <1>1, <1>2, <2>1, <2>2, <2>3, QuietKept DEF Becomes
<1>4. CASE download_bound(c) /\ conn[c].iccid # None
  <2>1. Becomes(c, "load", "none", conn[c].txn, conn[c].iccid, conn[c].code, conn[c].broken)
    <3>1. conn' = [conn EXCEPT ![c].at = "load", ![c].reply = "none"]
      BY <1>4 DEF download_bound
    <3> QED
      BY <3>1, Facts, Calling DEF Calls, Es10
  <2>2. CommandOK(c)'
    BY <1>0, <1>1, <1>4, <2>1
       DEF download_bound, Becomes, CommandOK, InSession, Loaded, Untouched, Download
  <2>3. conn[c].iccid \in Iccid
    BY <1>4, Facts
  <2> QED
    BY <1>1, <1>2, <2>1, <2>2, <2>3, QuietKept DEF Becomes
<1>5. CASE download_bound(c) /\ conn[c].iccid = None
  <2>1. Becomes(c, "notify", "none", conn[c].txn, conn[c].iccid, "INTERNAL_ERROR",
                conn[c].broken)
    <3>1. conn' = [conn EXCEPT ![c].at = "notify", ![c].reply = "none",
                               ![c].code = "INTERNAL_ERROR"]
      BY <1>5 DEF download_bound
    <3> QED
      BY <3>1, Facts, CallingWith DEF Calls, Es9, Codes
  <2>2. CommandOK(c)'
    BY <1>0, <1>1, <1>5, <2>1
       DEF download_bound, Becomes, CommandOK, InSession, Loaded, Untouched, Download
  <2> QED
    BY <1>1, <1>2, <2>1, <2>2, QuietKept DEF Becomes
<1>6. CASE download_loaded(c)
  <2>1. Becomes(c, "notify", "none", conn[c].txn, conn[c].iccid, "OK", conn[c].broken)
    <3>1. conn' = [conn EXCEPT ![c].at = "notify", ![c].reply = "none", ![c].code = "OK"]
      BY <1>6 DEF download_loaded, LoadResult
    <3> QED
      BY <3>1, Facts, CallingWith DEF Calls, Es9, Codes
  <2>2. CommandOK(c)'
    BY <1>0, <1>1, <1>6, <2>1
       DEF download_loaded, Becomes, CommandOK, InSession, Loaded, Untouched, Download
  <2> QED
    BY <1>1, <1>2, <2>1, <2>2, QuietKept DEF Becomes
<1> QED
  BY <1>3, <1>4, <1>5, <1>6

\* A command ends, a download with its result.
LEMMA EndKept ==
  ASSUME IInv, NEW c \in Connection,
         download_notified(c) \/ download_failed(c) \/ command_ends(c)
  PROVE  IInv'
<1>0. CommandOK(c) /\ TypeInv /\ CommandsOK /\ SessionsOK
  BY Facts DEF IInv
<1>1. UNCHANGED <<session, installed, installs>>
  BY DEF download_notified, download_failed, command_ends
<1>2. Becomes(c, "idle", "none", 0, None, "none", FALSE)
  BY Facts, Ended DEF download_notified, download_failed, command_ends
<1>3. CommandOK(c)'
  BY <1>2 DEF Becomes, CommandOK, InSession, Loaded, Untouched, Download
<1>4. CASE command_ends(c)
  <2>1. RestTyped' /\ results' = results
    BY <1>4, Facts DEF command_ends, lpa, RestTyped
  <2> QED
    BY <1>1, <1>2, <1>3, <2>1, QuietKept DEF Becomes
<1>5. ASSUME NEW success \in BOOLEAN, Result(c, success),
             success => conn[c].at = "notify" /\ conn[c].reply = "ok" /\ conn[c].code = "OK",
             ~success /\ ~conn[c].broken => Untouched(conn[c]),
             state' \in {"IDLE", "ERROR"}, current' \in {0, current}
      PROVE  IInv'
  <2>1. PICK q \in [txn: 0 .. Len(session), success: BOOLEAN, broken: BOOLEAN] :
          /\ results' = results \cup {q}
          /\ q.txn = conn[c].txn /\ q.success = success /\ q.broken = conn[c].broken
    <3>1. [txn |-> conn[c].txn, success |-> success, broken |-> conn[c].broken]
            \in [txn: 0 .. Len(session), success: BOOLEAN, broken: BOOLEAN]
      BY Facts DEF CommandTyped
    <3> QED
      BY <1>5, <3>1 DEF Result
  <2>2. RestTyped'
    BY <1>1, <1>5, <2>1, Facts DEF RestTyped
  <2>3. q.txn # 0 => \A d \in Connection : conn'[d].txn # q.txn
    <3>1. ASSUME q.txn # 0, NEW d \in Connection, d # c PROVE conn'[d].txn # q.txn
      <4>1. CommandOK(d) /\ conn'[d] = conn[d]
        BY <1>0, <1>2, <3>1 DEF CommandsOK, Becomes
      <4> QED
        BY <1>0, <2>1, <3>1, <4>1 DEF CommandOK
    <3>2. conn'[c].txn = 0
      BY <1>2 DEF Becomes
    <3> QED
      BY <3>1, <3>2
  <2>4. ASSUME success
        PROVE  /\ q.txn # 0 /\ <<q.txn, session[q.txn].iccid>> \in installs
               /\ session[q.txn].told = "OK"
    <3>1. q.txn # 0 /\ session[q.txn].told = "OK"
      BY <1>0, <1>5, <2>1, <2>4 DEF CommandOK, InSession
    <3>2. q.txn \in 1 .. Len(session)
      BY <3>1, Facts
    <3>3. SessionOK(q.txn)
      BY <1>0, <3>2 DEF SessionsOK
    <3> QED
      BY <3>1, <3>3 DEF SessionOK
  <2>5. ~success /\ q.txn # 0 /\ ~conn[c].broken =>
          \A i \in Iccid : <<q.txn, i>> \notin installs
    BY <1>0, <1>5, <2>1 DEF CommandOK
  <2>6. ResultOK(q)'
    BY <1>1, <2>1, <2>3, <2>4, <2>5 DEF ResultOK
  <2> QED
    BY <1>1, <1>2, <1>3, <2>1, <2>2, <2>6, QuietKept DEF Becomes
<1>6. CASE download_notified(c)
  <2> DEFINE success == conn[c].code = "OK"
  <2>1. /\ conn[c].at = "notify" /\ conn[c].reply = "ok" /\ Result(c, success)
        /\ state' = "IDLE" /\ current' = 0
    BY <1>6 DEF download_notified, Success
  <2>2. ~success => Untouched(conn[c])
    BY <2>1 DEF Untouched
  <2>3. success \in BOOLEAN /\ (success => conn[c].code = "OK")
    OBVIOUS
  <2> HIDE DEF success
  <2> QED
    BY <1>5, <2>1, <2>2, <2>3
<1>7. CASE download_failed(c)
  <2>1. /\ conn[c].at \in Download /\ conn[c].reply = "raised"
        /\ Result(c, FALSE) /\ state' = "ERROR" /\ current' = current
    BY <1>7 DEF download_failed, After, Download
  <2>2. ~conn[c].broken => Untouched(conn[c])
    BY <1>0, <2>1 DEF CommandOK, Untouched, Download
  <2> QED
    BY <1>5, <2>1, <2>2
<1> QED
  BY <1>4, <1>6, <1>7

-----------------------------------------------------------------------------
(* Steps at the SM-DP+ and the installation. *)

LEMMA Opened ==
  ASSUME session \in Seq(SessionType), NEW e \in SessionType,
         session' = Append(session, e)
  PROVE  /\ session' \in Seq(SessionType) /\ Len(session') = Len(session) + 1
         /\ session'[Len(session')] = e
         /\ \A t \in 1 .. Len(session) : session'[t] = session[t]
<1>1. /\ session' \in Seq(SessionType) /\ Len(session') = Len(session) + 1
      /\ Len(session) \in Nat
      /\ \A t \in 1 .. Len(session') :
           session'[t] = IF t = Len(session) + 1 THEN e ELSE session[t]
  BY AppendProperties
<1> QED
  BY <1>1

LEMMA Stepped ==
  ASSUME session \in Seq(SessionType), NEW t \in DOMAIN session,
         NEW to \in {"initiated", "authenticated", "bound"},
         session' = [session EXCEPT ![t].step = to]
  PROVE  /\ session' \in Seq(SessionType) /\ Len(session') = Len(session)
         /\ \A u \in 1 .. Len(session) :
              /\ session'[u].by = session[u].by /\ session'[u].iccid = session[u].iccid
              /\ session'[u].told = session[u].told /\ session'[u].about = session[u].about
<1>1. /\ Len(session) \in Nat /\ DOMAIN session = 1 .. Len(session)
      /\ session \in [1 .. Len(session) -> SessionType]
  OBVIOUS
<1>2. [session[t] EXCEPT !.step = to] \in SessionType
  <2>1. session[t] \in SessionType
    BY <1>1
  <2> QED
    BY <2>1 DEF SessionType
<1>3. session' = [session EXCEPT ![t] = [session[t] EXCEPT !.step = to]]
  OBVIOUS
<1>4. session' \in Seq(SessionType) /\ Len(session') = Len(session)
  BY <1>2, <1>3, ExceptSeq
<1>5. \A u \in 1 .. Len(session) :
        session'[u] = IF u = t THEN [session[t] EXCEPT !.step = to] ELSE session[u]
  BY <1>1, <1>3
<1>6. ASSUME NEW u \in 1 .. Len(session)
      PROVE  /\ session'[u].by = session[u].by /\ session'[u].iccid = session[u].iccid
             /\ session'[u].told = session[u].told /\ session'[u].about = session[u].about
  <2>1. session[t] \in SessionType
    BY <1>1
  <2> QED
    BY <1>5, <2>1 DEF SessionType
<1> QED
  BY <1>4, <1>6

LEMMA Told ==
  ASSUME session \in Seq(SessionType), NEW t \in DOMAIN session, NEW o \in Codes,
         NEW i \in Iccid \cup {None},
         session' = [session EXCEPT ![t].told = o, ![t].about = i]
  PROVE  /\ session' \in Seq(SessionType) /\ Len(session') = Len(session)
         /\ session'[t].told = o /\ session'[t].about = i
         /\ \A u \in 1 .. Len(session) :
              /\ session'[u].by = session[u].by /\ session'[u].iccid = session[u].iccid
              /\ u # t => session'[u].told = session[u].told
                          /\ session'[u].about = session[u].about
<1> DEFINE e == [session[t] EXCEPT !.told = o, !.about = i]
<1>1. /\ Len(session) \in Nat /\ DOMAIN session = 1 .. Len(session)
      /\ session \in [1 .. Len(session) -> SessionType]
  OBVIOUS
<1>2. /\ e \in SessionType /\ e.told = o /\ e.about = i
      /\ e.by = session[t].by /\ e.iccid = session[t].iccid
  <2>1. session[t] \in SessionType
    BY <1>1
  <2> QED
    BY <2>1 DEF SessionType, Codes
<1>3. session' = [session EXCEPT ![t] = e]
  OBVIOUS
<1> HIDE DEF e
<1>4. session' \in Seq(SessionType) /\ Len(session') = Len(session)
  <2>1. t \in 1 .. Len(session) /\ e \in SessionType
    BY <1>1, <1>2
  <2>2. [session EXCEPT ![t] = e] \in Seq(SessionType) /\ Len([session EXCEPT ![t] = e]) = Len(session)
    BY <2>1, ExceptSeq
  <2> QED
    BY <1>3, <2>2
<1>5. session'[t] = e /\ \A u \in 1 .. Len(session) : u # t => session'[u] = session[u]
  BY <1>1, <1>3
<1>6. ASSUME NEW u \in 1 .. Len(session), u = t
      PROVE  session'[u].by = session[u].by /\ session'[u].iccid = session[u].iccid
  BY <1>2, <1>5, <1>6
<1> QED
  BY <1>2, <1>4, <1>5, <1>6

LEMMA InitiateKept ==
  ASSUME IInv, NEW c \in Connection, smdp_initiates(c)
  PROVE  IInv'
<1> DEFINE n == Len(session) + 1
<1>0. /\ CommandOK(c) /\ Len(session) \in Nat
      /\ conn[c].at = "initiate" /\ conn[c].reply = "none"
      /\ installs \subseteq (0 .. Len(session)) \X Iccid
      /\ UNCHANGED <<state, current, installed, installs, results>>
  BY Facts DEF smdp_initiates, Pending, RestTyped, lpa
<1>1. PICK i \in Iccid :
        session' = Append(session, [by |-> c, iccid |-> i, step |-> "initiated",
                                    told |-> "none", about |-> None])
  BY DEF smdp_initiates
<1>2. /\ session' \in Seq(SessionType) /\ Len(session') = n
      /\ session'[n].by = c /\ session'[n].told = "none"
      /\ \A t \in 1 .. Len(session) : session'[t] = session[t]
  <2>1. [by |-> c, iccid |-> i, step |-> "initiated", told |-> "none", about |-> None]
          \in SessionType
    BY DEF SessionType
  <2> QED
    <3> DEFINE e == [by |-> c, iccid |-> i, step |-> "initiated",
                     told |-> "none", about |-> None]
    <3>1. e \in SessionType /\ session' = Append(session, e)
      BY <1>1, <2>1
    <3>4. e.by = c /\ e.told = "none"
      OBVIOUS
    <3>2. session \in Seq(SessionType)
      BY Facts DEF RestTyped
    <3> HIDE DEF e
    <3>3. /\ session' \in Seq(SessionType) /\ Len(session') = n
          /\ session'[Len(session')] = e
          /\ \A t \in 1 .. Len(session) : session'[t] = session[t]
      BY <3>1, <3>2, Opened
    <3>5. session'[n] = e
      BY <3>3
    <3> HIDE DEF n
    <3> QED
      BY <3>3, <3>4, <3>5
<1>3. Becomes(c, "initiate", "ok", n, conn[c].iccid, conn[c].code, conn[c].broken)
  <2>1. conn' = [conn EXCEPT ![c].reply = "ok", ![c].txn = n]
    BY <1>2 DEF smdp_initiates
  <2>2. n \in Nat
    BY <1>0
  <2> HIDE DEF n
  <2> QED
    BY <1>0, <2>1, <2>2, Facts, GivenSession
<1>4. Frame(c)
  BY <1>0, <1>2, <1>3 DEF Frame, Becomes
<1>5. CommandOK(c)'
  <2>1. conn[c].iccid = None
    BY <1>0 DEF CommandOK, Download
  <2>2. \A j \in Iccid : <<n, j>> \notin installs
    BY <1>0
  <2> QED
    BY <1>0, <1>2, <1>3, <2>1, <2>2
       DEF Becomes, CommandOK, InSession, Loaded, Untouched, Download
<1>6. CommandTyped(c)' /\ RestTyped'
  BY <1>0, <1>2, <1>3, Facts DEF CommandTyped, RestTyped, Becomes
<1>7. ASSUME NEW t \in 1 .. Len(session') PROVE SessionOK(t)'
  <2>1. CASE t = n
    BY <1>0, <1>2, <2>1 DEF SessionOK
  <2>2. CASE t \in 1 .. Len(session)
    BY <1>0, <1>2, <2>2 DEF IInv, SessionsOK, SessionOK
  <2> QED
    BY <1>0, <1>2, <2>1, <2>2
<1>8. \A t \in 1 .. Len(session) : t \in 1 .. Len(session')
  BY <1>0, <1>2
<1> QED
  BY <1>0, <1>3, <1>4, <1>5, <1>6, <1>7, <1>8, InvKept DEF Becomes

LEMMA GoesOnKept ==
  ASSUME IInv, NEW c \in Connection,
         NEW what \in {"authenticate", "bpp"}, NEW from,
         NEW to \in {"initiated", "authenticated", "bound"},
         smdp_goes_on(c, what, from, to)
  PROVE  IInv'
<1> DEFINE t == conn[c].txn
<1>0. /\ CommandOK(c) /\ Len(session) \in Nat /\ session \in Seq(SessionType)
      /\ conn[c].at = what /\ conn[c].reply = "none"
      /\ UNCHANGED <<state, current, installed, installs, results>>
  BY Facts DEF smdp_goes_on, Pending, RestTyped, lpa
<1>1. CASE t \in DOMAIN session /\ session[t].step = from
  <2>1. session' = [session EXCEPT ![t].step = to]
    BY <1>1 DEF smdp_goes_on, Transaction
  <2>2. /\ session' \in Seq(SessionType) /\ Len(session') = Len(session)
        /\ \A u \in 1 .. Len(session) :
             /\ session'[u].by = session[u].by /\ session'[u].iccid = session[u].iccid
             /\ session'[u].told = session[u].told /\ session'[u].about = session[u].about
    <3> HIDE DEF t
    <3> QED
      BY <1>0, <1>1, <2>1, Stepped
  <2>3. PICK i \in Iccid \cup {None} :
          /\ Becomes(c, what, "ok", t, i, conn[c].code, conn[c].broken)
          /\ i \in {conn[c].iccid, session[t].iccid, None}
    <3>1. session[t].iccid \in Iccid
      <4>1. session[t] \in SessionType
        BY <1>0, <1>1
      <4> QED
        BY <4>1 DEF SessionType
    <3>2. CASE what = "bpp"
      <4>1. PICK i \in {session[t].iccid, None} :
              conn' = [conn EXCEPT ![c].reply = "ok", ![c].iccid = i]
        BY <1>1, <3>2 DEF smdp_goes_on, Transaction
      <4> QED
        BY <1>0, <3>1, <4>1, Facts, GivenProfile
    <3>3. CASE what # "bpp"
      <4>1. conn' = [conn EXCEPT ![c].reply = "ok"]
        BY <1>1, <3>3 DEF smdp_goes_on, Transaction, Returns
      <4> QED
        BY <1>0, <4>1, Facts, Replied DEF Replies
    <3> QED
      BY <3>2, <3>3
  <2>4. t \in 1 .. Len(session)
    BY <1>0, <1>1
  <2>5. Frame(c)
    BY <1>0, <2>2, <2>3 DEF Frame, Becomes
  <2>6. CommandOK(c)'
    BY <1>0, <2>2, <2>3, <2>4
       DEF Becomes, CommandOK, InSession, Loaded, Untouched, Download
  <2>7. CommandTyped(c)' /\ RestTyped'
    BY <1>0, <2>2, <2>3, Facts DEF CommandTyped, RestTyped, Becomes
  <2>8. \A u \in 1 .. Len(session) : SessionOK(u)'
    BY <1>0, <2>2 DEF IInv, SessionsOK, SessionOK
  <2>9. \A u \in 1 .. Len(session') : ~(u > Len(session))
    BY <1>0, <2>2
  <2> QED
    BY <1>0, <2>3, <2>5, <2>6, <2>7, <2>8, <2>9, InvKept DEF Becomes
<1>2. CASE ~(t \in DOMAIN session /\ session[t].step = from)
  <2>1. conn' = [conn EXCEPT ![c].reply = "raised"] /\ session' = session
    BY <1>2 DEF smdp_goes_on, Transaction, Returns
  <2>2. Becomes(c, what, "raised", t, conn[c].iccid, conn[c].code, conn[c].broken)
    BY <1>0, <2>1, Facts, Replied DEF Replies
  <2>3. CommandOK(c)'
    BY <1>0, <2>1, <2>2 DEF Becomes, CommandOK, InSession, Loaded, Untouched
  <2>4. RestTyped'
    BY <1>0, <2>1, Facts DEF RestTyped
  <2> QED
    BY <1>0, <2>1, <2>2, <2>3, <2>4, QuietKept DEF Becomes
<1> QED
  BY <1>1, <1>2

\* The notification reaches its session: a success, the profile that was
\* installed in it.
LEMMA NotifyKept ==
  ASSUME IInv, NEW c \in Connection, smdp_is_notified(c)
  PROVE  IInv'
<1>a. PICK t, o, i : t = conn[c].txn /\ o = conn[c].code /\ i = conn[c].iccid
  OBVIOUS
<1>0. /\ CommandOK(c) /\ Len(session) \in Nat /\ session \in Seq(SessionType)
      /\ conn[c].at = "notify" /\ conn[c].reply = "none"
      /\ t \in 0 .. Len(session) /\ i \in Iccid \cup {None} /\ o \in Codes
      /\ installs \subseteq (0 .. Len(session)) \X Iccid
      /\ UNCHANGED <<state, current, installed, installs, results>>
  BY <1>a, Facts DEF smdp_is_notified, Pending, RestTyped, CommandTyped, lpa
<1>1. t # 0 /\ t \in 1 .. Len(session) /\ t \in DOMAIN session
  <2>1. t # 0
    BY <1>0, <1>a DEF CommandOK, InSession
  <2> QED
    BY <1>0, <2>1
<1>2. /\ session' = [session EXCEPT ![t].told = o, ![t].about = i]
      /\ conn' = [conn EXCEPT ![c].reply = "ok"]
  BY <1>1, <1>a DEF smdp_is_notified, Transaction, Returns
<1>3. /\ session' \in Seq(SessionType) /\ Len(session') = Len(session)
      /\ session'[t].told = o /\ session'[t].about = i
      /\ \A u \in 1 .. Len(session) :
           /\ session'[u].by = session[u].by /\ session'[u].iccid = session[u].iccid
           /\ u # t => session'[u].told = session[u].told
                       /\ session'[u].about = session[u].about
  BY <1>0, <1>1, <1>2, Told
<1>4. Becomes(c, "notify", "ok", t, i, o, conn[c].broken)
  BY <1>0, <1>a, <1>2, Facts, Replied DEF Replies
<1>5. Frame(c)
  BY <1>0, <1>a, <1>3, <1>4 DEF Frame, Becomes
<1>6. CommandOK(c)'
  BY <1>0, <1>a, <1>1, <1>3, <1>4
     DEF Becomes, CommandOK, InSession, Loaded, Untouched, Download
<1>7. CommandTyped(c)' /\ RestTyped'
  BY <1>0, <1>3, <1>4, Facts DEF CommandTyped, RestTyped, Becomes
<1>8. SessionOK(t)'
  <2>1. o = "OK" => <<t, i>> \in installs /\ i = session[t].iccid
    BY <1>0, <1>a, ProfileAssumption DEF CommandOK, Loaded, Download
  <2>2. \A j \in Iccid : <<t, j>> \in installs => j = session[t].iccid
    BY <1>1 DEF IInv, SessionsOK, SessionOK
  <2> QED
    BY <1>0, <1>1, <1>3, <2>1, <2>2 DEF SessionOK
<1>9. \A u \in 1 .. Len(session') : ~(u > Len(session))
  BY <1>0, <1>3
<1> QED
  BY <1>0, <1>a, <1>4, <1>5, <1>6, <1>7, <1>8, <1>9, InvKept DEF Becomes

LEMMA InstallKept ==
  ASSUME IInv, NEW c \in Connection, euicc_installs(c)
  PROVE  IInv'
<1>a. PICK t, i : t = conn[c].txn /\ i = conn[c].iccid
  OBVIOUS
<1>0. /\ CommandOK(c) /\ Len(session) \in Nat
      /\ conn[c].at \in {"load", "direct"} /\ conn[c].reply = "none"
      /\ t \in 0 .. Len(session) /\ i \in Iccid
      /\ installs \subseteq (0 .. Len(session)) \X Iccid
      /\ UNCHANGED <<state, current, session, results>>
  BY <1>a, Facts DEF euicc_installs, Pending, RestTyped, CommandTyped, lpa
<1>1. CASE i \in installed
  <2>1. conn' = [conn EXCEPT ![c].reply = "raised"] /\ UNCHANGED <<installed, installs>>
    BY <1>a, <1>1 DEF euicc_installs, Returns
  <2>2. Becomes(c, conn[c].at, "raised", t, i, conn[c].code, conn[c].broken)
    BY <1>a, <2>1, Facts, Replied DEF Replies
  <2>3. CommandOK(c)'
    BY <1>0, <1>a, <2>1, <2>2 DEF Becomes, CommandOK, InSession, Loaded, Untouched
  <2>4. RestTyped'
    BY <1>0, <2>1, Facts DEF RestTyped
  <2> QED
    BY <1>0, <1>a, <2>1, <2>2, <2>3, <2>4, QuietKept DEF Becomes
<1>2. CASE i \notin installed
  <2>1. /\ conn' = [conn EXCEPT ![c].reply = "ok"]
        /\ installed' = installed \cup {i} /\ installs' = installs \cup {<<t, i>>}
    BY <1>a, <1>2 DEF euicc_installs, Returns
  <2>2. Becomes(c, conn[c].at, "ok", t, i, conn[c].code, conn[c].broken)
    BY <1>a, <2>1, Facts, Replied DEF Replies
  <2>3. Frame(c)
    BY <1>0, <1>a, <2>1, <2>2 DEF Frame, Becomes
  <2>4. CommandOK(c)'
    BY <1>0, <1>a, <2>1, <2>2
       DEF Becomes, CommandOK, InSession, Loaded, Untouched, Download
  <2>5. CommandTyped(c)'
    BY <1>0, <1>a, <2>2 DEF CommandTyped, Becomes
  <2>6. RestTyped'
    BY <1>0, <2>1, Facts DEF RestTyped
  <2>7. ASSUME t \in 1 .. Len(session) PROVE SessionOK(t)'
    <3>1. SessionOK(t)
      BY <2>7 DEF IInv, SessionsOK
    <3>2. i = session[t].iccid
      BY <1>0, <1>a, <2>7, ProfileAssumption DEF CommandOK, Download
    <3> QED
      BY <1>0, <2>1, <3>1, <3>2 DEF SessionOK
  <2>8. \A u \in 1 .. Len(session') : ~(u > Len(session))
    BY <1>0
  <2> QED
    BY <1>0, <1>a, <2>2, <2>3, <2>4, <2>5, <2>6, <2>7, <2>8, InvKept DEF Becomes
<1> QED
  BY <1>1, <1>2

-----------------------------------------------------------------------------
(* The restart, and the invariant of the specification. *)

LEMMA RestartKept ==
  ASSUME IInv, restart
  PROVE  IInv'
<1>1. /\ conn' = [c \in Connection |-> Idle] /\ state' = "IDLE" /\ current' = 0
      /\ UNCHANGED <<session, installed, installs, results>>
  BY DEF restart
<1>2. conn' \in [Connection -> CommandType]
  BY <1>1 DEF CommandType, Idle
<1>3. \A c \in Connection : CommandTyped(c)' /\ CommandOK(c)'
  BY <1>1 DEF Idle, CommandTyped, CommandOK, InSession, Loaded, Untouched, IInv, TypeInv, TypeOK
<1>4. TypeInv'
  BY <1>1, <1>2, <1>3 DEF IInv, TypeInv, TypeOK, CommandTyped
<1>5. SessionsOK'
  BY <1>1 DEF IInv, SessionsOK, SessionOK
<1>6. ResultsOK'
  BY <1>1 DEF IInv, ResultsOK, ResultOK, Idle
<1> QED
  BY <1>3, <1>4, <1>5, <1>6 DEF IInv, CommandsOK

LEMMA StutterKept ==
  ASSUME IInv, UNCHANGED vars
  PROVE  IInv'
<1>1. /\ conn' = conn /\ state' = state /\ current' = current /\ session' = session
      /\ installed' = installed /\ installs' = installs /\ results' = results
  BY DEF vars, lpa
<1> QED
  BY <1>1 DEF IInv, TypeInv, TypeOK, CommandsOK, CommandOK, InSession, Loaded,
              Untouched, SessionsOK, SessionOK, ResultsOK, ResultOK

LEMMA NextKept == IInv /\ [Next]_vars => IInv'
<1> SUFFICES ASSUME IInv, [Next]_vars PROVE IInv'
  OBVIOUS
<1>1. ASSUME NEW c \in Connection, Served(c) PROVE IInv'
  <2>1. CASE euicc_answers(c) \/ euicc_deletes(c)
    BY <2>1, ReplyKept
  <2>2. CASE smdp_initiates(c)
    BY <2>2, InitiateKept
  <2>3. CASE smdp_goes_on(c, "authenticate", "initiated", "authenticated")
    BY <2>3, GoesOnKept
  <2>4. CASE smdp_goes_on(c, "bpp", "authenticated", "bound")
    BY <2>4, GoesOnKept
  <2>5. CASE smdp_is_notified(c)
    BY <2>5, NotifyKept
  <2>6. CASE euicc_installs(c)
    BY <2>6, InstallKept
  <2> QED
    BY <1>1, <2>1, <2>2, <2>3, <2>4, <2>5, <2>6 DEF Served
<1>2. ASSUME NEW c \in Connection, GoesOn(c) PROVE IInv'
  BY <1>2, CallKept, EndKept DEF GoesOn
<1>3. ASSUME NEW c \in Connection,
             \/ download_profile(c)
             \/ \E i \in Iccid : install_profile_direct(c, i) \/ delete_profile(c, i)
      PROVE IInv'
  BY <1>3, BeginKept
<1>4. ASSUME NEW c \in Connection, call_times_out(c) \/ call_fails(c) PROVE IInv'
  BY <1>4, ReplyKept
<1> QED
  BY <1>1, <1>2, <1>3, <1>4, RestartKept, StutterKept DEF Next

LEMMA Invariant == Spec => []IInv
BY Initially, NextKept, PTL DEF Spec

\* The LPA, the RSP service's commands and both other ends keep their types; in
\* particular LPA._current_transaction names a session of the SM-DP+ or none.
THEOREM TypeCorrect == Spec => []TypeOK
BY Invariant, PTL DEF IInv, TypeInv

\* Downloads of any number of connections keep apart in the one LPA they share
\* (LPA.download_profile): what a download installs is the profile its own
\* session was bound to, and the SM-DP+ hears of a success only in that session,
\* about that profile, and after the installation.
THEOREM SessionsKeptApart == Spec => []OwnSession
<1>1. IInv => OwnSession
  <2>1. IInv => DOMAIN session = 1 .. Len(session)
    BY DEF IInv, TypeInv, TypeOK
  <2> QED
    BY <2>1 DEF IInv, SessionsOK, SessionOK, OwnSession
<1> QED
  BY <1>1, Invariant, PTL

\* The result a client of LPA.download_profile gets is true: success means
\* installed and notified, and an error that none was installed, unless the
\* daemon's answer or the notification was lost.
THEOREM ResultsAreTrue == Spec => []ResultIsTrue
<1>1. IInv => ResultIsTrue
  BY DEF IInv, ResultsOK, ResultOK, ResultIsTrue
<1> QED
  BY <1>1, Invariant, PTL
=============================================================================
