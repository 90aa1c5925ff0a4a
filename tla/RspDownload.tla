---------------------------- MODULE RspDownload ----------------------------
(***************************************************************************)
(* Profile downloads: the connections of the RSP service (rsp/service.py), *)
(* each with one command at a time, share one LPA (rsp/lpa.py), which      *)
(* calls the SM-DP+ (ES9+) and the eUICC daemon (ES10).                    *)
(*                                                                         *)
(* A call is made, carried out at the other end, and returns or raises;    *)
(* the coroutine waits in between.  Neither the activation code's matching *)
(* ID nor a confirmation code leaves the LPA, so the SM-DP+ binds a        *)
(* session to any of its profiles.                                         *)
(***************************************************************************)
EXTENDS Integers, Sequences

CONSTANTS
  Connection,    \* clients of the RSP service
  Iccid,         \* profiles
  None,
  Scenes         \* budgets: records [commands, faults, restarts]

ASSUME ProfileAssumption == None \notin Iccid

VARIABLES
  conn,          \* the command of each connection, and its pending call
  state,         \* LPA.state
  current,       \* LPA._current_transaction, 0 for None
  session,       \* sessions of the SM-DP+; a transaction is its index
  installed,     \* profiles of the eUICC
  installs,      \* history: <<transaction, profile>>, 0 without a session
  results,       \* history: the results of downloads
  scene          \* what is left of the budgets

lpa == <<state, current>>
vars == <<conn, lpa, session, installed, installs, results, scene>>

Es9 == {"initiate", "authenticate", "bpp", "notify"}
Es10 == {"info", "prepare", "load", "direct", "delete"}

\* at: the pending call; reply: none yet, or what it returned; iccid: the
\* profile in hand; code: the result code; broken: history, a call has failed
\* that had been carried out, or the notification.
Idle == [at |-> "idle", reply |-> "none", txn |-> 0, iccid |-> None,
         code |-> "none", broken |-> FALSE]
CommandType ==
  [at: {"idle"} \cup Es9 \cup Es10, reply: {"none", "ok", "raised"}, txn: Nat,
   iccid: Iccid \cup {None}, code: {"none", "OK", "INTERNAL_ERROR"},
   broken: BOOLEAN]
SessionType ==
  [by: Connection, iccid: Iccid, step: {"initiated", "authenticated", "bound"},
   told: {"none", "OK", "INTERNAL_ERROR"}, about: Iccid \cup {None}]

Init ==
  /\ conn = [c \in Connection |-> Idle]
  /\ state = "IDLE" /\ current = 0
  /\ session = <<>> /\ installed = {}
  /\ installs = {} /\ results = {}
  /\ scene \in Scenes

Spend(what) == scene[what] > 0 /\ scene' = [scene EXCEPT ![what] = @ - 1]

-----------------------------------------------------------------------------
(* Commands. *)

Call(c, what, i) == conn' = [conn EXCEPT ![c] = [Idle EXCEPT !.at = what, !.iccid = i]]

\* download_profile up to its first call; an activation code that cannot be
\* parsed ends it.
download_profile(c) ==
  /\ conn[c].at = "idle" /\ Spend("commands")
  /\ \/ Call(c, "info", None) /\ state' = "AUTHENTICATING" /\ UNCHANGED results
     \/ /\ state' = "ERROR"
        /\ results' = results \cup {[txn |-> 0, success |-> FALSE, broken |-> FALSE]}
        /\ UNCHANGED conn
  /\ UNCHANGED <<current, session, installed, installs>>

install_profile_direct(c, i) ==
  /\ conn[c].at = "idle" /\ Spend("commands") /\ Call(c, "direct", i)
  /\ UNCHANGED <<lpa, session, installed, installs, results>>

delete_profile(c, i) ==
  /\ conn[c].at = "idle" /\ Spend("commands") /\ Call(c, "delete", i)
  /\ UNCHANGED <<lpa, session, installed, installs, results>>

\* Mutant: the calls name the transaction of the LPA.
Transaction_Current(c) == current
\* The transaction a download names in its calls.
Transaction(c) == conn[c].txn

-----------------------------------------------------------------------------
(* The other ends carry calls out. *)

Returns(c, reply) == conn' = [conn EXCEPT ![c].reply = reply]
Pending(c, what) == conn[c].at = what /\ conn[c].reply = "none"

\* The SM-DP+ refuses what is out of order.
smdp_initiates(c) ==
  /\ Pending(c, "initiate")
  /\ \E i \in Iccid :
       session' = Append(session, [by |-> c, iccid |-> i, step |-> "initiated",
                                   told |-> "none", about |-> None])
  /\ conn' = [conn EXCEPT ![c].reply = "ok", ![c].txn = Len(session')]
  /\ UNCHANGED <<lpa, installed, installs, results, scene>>

smdp_goes_on(c, what, from, to) ==
  LET t == Transaction(c) IN
  /\ Pending(c, what)
  /\ IF t \in DOMAIN session /\ session[t].step = from
     THEN /\ session' = [session EXCEPT ![t].step = to]
          /\ IF what = "bpp"
             THEN \E metadata \in {session[t].iccid, None} :
                    conn' = [conn EXCEPT ![c].reply = "ok", ![c].iccid = metadata]
             ELSE Returns(c, "ok")
     ELSE Returns(c, "raised") /\ UNCHANGED session
  /\ UNCHANGED <<lpa, installed, installs, results, scene>>

smdp_is_notified(c) ==
  LET t == Transaction(c) IN
  /\ Pending(c, "notify")
  /\ IF t \in DOMAIN session
     THEN /\ session' = [session EXCEPT ![t].told = conn[c].code, ![t].about = conn[c].iccid]
          /\ Returns(c, "ok")
     ELSE Returns(c, "raised") /\ UNCHANGED session
  /\ UNCHANGED <<lpa, installed, installs, results, scene>>

\* get_info, STORE DATA: nothing changes.
euicc_answers(c) ==
  /\ Pending(c, "info") \/ Pending(c, "prepare")
  /\ Returns(c, "ok")
  /\ UNCHANGED <<lpa, session, installed, installs, results, scene>>

\* VirtualEUICC.install_profile; when it raises the daemon closes the connection.
euicc_installs(c) ==
  LET i == conn[c].iccid IN
  /\ Pending(c, "load") \/ Pending(c, "direct")
  /\ IF i \in installed THEN Returns(c, "raised") /\ UNCHANGED <<installed, installs>>
     ELSE /\ installed' = installed \cup {i}
          /\ installs' = installs \cup {<<conn[c].txn, i>>}
          /\ Returns(c, "ok")
  /\ UNCHANGED <<lpa, session, results, scene>>

euicc_deletes(c) ==
  /\ Pending(c, "delete")
  /\ installed' = installed \ {conn[c].iccid}
  /\ Returns(c, IF conn[c].iccid \in installed THEN "ok" ELSE "raised")
  /\ UNCHANGED <<lpa, session, installs, results, scene>>

\* Mutant: httpx without a timeout.
call_times_out_Never(c) == FALSE /\ UNCHANGED vars
\* The SM-DP+ does not answer.
call_times_out(c) ==
  /\ conn[c].at \in Es9 /\ conn[c].reply = "none"
  /\ conn' = [conn EXCEPT ![c].reply = "raised", ![c].broken = (conn[c].at = "notify")]
  /\ UNCHANGED <<lpa, session, installed, installs, results, scene>>

\* The daemon cannot be reached, or the answer of a call that was carried out is
\* lost (a connection closes, the daemon cannot save the profile).
call_fails(c) ==
  /\ \/ conn[c].at \in Es10 /\ conn[c].reply = "none"
     \/ conn[c].reply = "ok"
  /\ Spend("faults")
  /\ conn' = [conn EXCEPT ![c].reply = "raised",
                ![c].broken = (conn[c].reply = "ok" /\ conn[c].at \in {"load", "notify"})]
  /\ UNCHANGED <<lpa, session, installed, installs, results>>

-----------------------------------------------------------------------------
(* The LPA goes on. *)

Result(c, success) ==
  results' = results \cup {[txn |-> conn[c].txn, success |-> success,
                            broken |-> conn[c].broken]}

\* The next call of a download.
After == [info |-> "initiate", initiate |-> "authenticate",
          authenticate |-> "prepare", prepare |-> "bpp"]

download_goes_on(c) ==
  /\ conn[c].at \in DOMAIN After /\ conn[c].reply = "ok"
  /\ conn' = [conn EXCEPT ![c].at = After[conn[c].at], ![c].reply = "none"]
  /\ IF conn[c].at = "initiate" THEN current' = conn[c].txn /\ state' = "DOWNLOADING"
     ELSE UNCHANGED lpa
  /\ UNCHANGED <<session, installed, installs, results, scene>>

\* load_bound_profile_package makes no call for a package without metadata.
download_bound(c) ==
  /\ conn[c].at = "bpp" /\ conn[c].reply = "ok"
  /\ state' = "INSTALLING"
  /\ conn' = [conn EXCEPT ![c] =
       IF @.iccid # None THEN [@ EXCEPT !.at = "load", !.reply = "none"]
       ELSE [@ EXCEPT !.at = "notify", !.reply = "none", !.code = "INTERNAL_ERROR"]]
  /\ UNCHANGED <<current, session, installed, installs, results, scene>>

\* Mutant: the daemon's reply is misread.
LoadResult_Misread == "INTERNAL_ERROR"
\* The daemon replies only if it has installed the profile.
LoadResult == "OK"

download_loaded(c) ==
  /\ conn[c].at = "load" /\ conn[c].reply = "ok"
  /\ conn' = [conn EXCEPT ![c].at = "notify", ![c].reply = "none", ![c].code = LoadResult]
  /\ UNCHANGED <<lpa, session, installed, installs, results, scene>>

\* Mutant: whatever was notified is a success.
Success_Always(code) == TRUE
\* The result's "success".
Success(code) == code = "OK"

download_notified(c) ==
  /\ conn[c].at = "notify" /\ conn[c].reply = "ok"
  /\ state' = "IDLE" /\ current' = 0
  /\ Result(c, Success(conn[c].code))
  /\ conn' = [conn EXCEPT ![c] = Idle]
  /\ UNCHANGED <<session, installed, installs, scene>>

\* The handler of download_profile.
download_failed(c) ==
  /\ conn[c].at \in DOMAIN After \cup {"bpp", "load", "notify"}
  /\ conn[c].reply = "raised"
  /\ state' = "ERROR"
  /\ Result(c, FALSE)
  /\ conn' = [conn EXCEPT ![c] = Idle]
  /\ UNCHANGED <<current, session, installed, installs, scene>>

\* The other commands end with the call; if it raised, with the connection.
command_ends(c) ==
  /\ conn[c].at \in {"direct", "delete"} /\ conn[c].reply # "none"
  /\ conn' = [conn EXCEPT ![c] = Idle]
  /\ UNCHANGED <<lpa, session, installed, installs, results, scene>>

\* supervisord starts the service again.
restart ==
  /\ Spend("restarts")
  /\ conn' = [c \in Connection |-> Idle] /\ state' = "IDLE" /\ current' = 0
  /\ UNCHANGED <<session, installed, installs, results>>

-----------------------------------------------------------------------------
Served(c) ==
  \/ smdp_initiates(c) \/ smdp_is_notified(c)
  \/ smdp_goes_on(c, "authenticate", "initiated", "authenticated")
  \/ smdp_goes_on(c, "bpp", "authenticated", "bound")
  \/ euicc_answers(c) \/ euicc_installs(c) \/ euicc_deletes(c)

GoesOn(c) ==
  \/ download_goes_on(c) \/ download_bound(c) \/ download_loaded(c)
  \/ download_notified(c) \/ download_failed(c) \/ command_ends(c)

Next ==
  \/ \E c \in Connection :
       \/ download_profile(c)
       \/ \E i \in Iccid : install_profile_direct(c, i) \/ delete_profile(c, i)
       \/ Served(c) \/ GoesOn(c)
       \/ call_times_out(c) \/ call_fails(c)
  \/ restart

Spec == Init /\ [][Next]_vars

\* The event loop and the daemon run, and httpx ends a call that is not answered;
\* nothing is assumed of the SM-DP+ or of the clients.
FairSpec ==
  /\ Spec
  /\ \A c \in Connection :
       /\ WF_vars(GoesOn(c)) /\ WF_vars(call_times_out(c))
       /\ WF_vars(euicc_answers(c)) /\ WF_vars(euicc_installs(c)) /\ WF_vars(euicc_deletes(c))

-----------------------------------------------------------------------------
(* Properties. *)

\* Type invariant of the connections, the LPA and the two other ends.
TypeOK ==
  /\ conn \in [Connection -> CommandType]
  /\ state \in {"IDLE", "AUTHENTICATING", "DOWNLOADING", "INSTALLING", "ERROR"}
  /\ session \in Seq(SessionType)
  /\ current \in 0 .. Len(session)
  /\ installed \subseteq Iccid
  /\ installs \subseteq (0 .. Len(session)) \X Iccid
  /\ results \subseteq [txn: 0 .. Len(session), success: BOOLEAN, broken: BOOLEAN]

\* Concurrent downloads keep apart: a download installs the profile its own
\* session was bound to, and the SM-DP+ is told of a success in the session of
\* the profile, after it was installed.
OwnSession ==
  /\ \A t \in DOMAIN session :
       /\ \A i \in Iccid : <<t, i>> \in installs => i = session[t].iccid
       /\ session[t].told = "OK" =>
            session[t].about = session[t].iccid /\ <<t, session[t].iccid>> \in installs

\* A download that reports success has installed the profile of its session, and
\* the SM-DP+ knows; one that reports an error has installed none, unless the
\* daemon's answer or the notification got lost (lpa.py raises for both).
ResultIsTrue ==
  \A r \in results :
    /\ r.success => /\ <<r.txn, session[r.txn].iccid>> \in installs
                    /\ session[r.txn].told = "OK"
    /\ ~r.success /\ r.txn # 0 /\ ~r.broken => \A i \in Iccid : <<r.txn, i>> \notin installs

\* Every command ends.
CommandsEnd == \A c \in Connection : conn[c].at # "idle" ~> conn[c].at = "idle"
=============================================================================
