----------------------------- MODULE ImsService -----------------------------
(***************************************************************************)
(* The IMS service: main (ims/service.py) takes the VoWiFi tunnel up,      *)
(* registers and starts the call manager; supervisord starts it again when *)
(* it ends.  In the other scenes the classes are used by a caller of their *)
(* own: a VoLTESession that registers and deregisters, and a tunnel that   *)
(* is connected and disconnected at any time.                              *)
(***************************************************************************)
EXTENDS VowifiTunnel, ImsRegistration

CONSTANT Scenes   \* the scenes to explore, records as in SceneType

VARIABLES
  main,     \* where main is
  proxy,    \* it has the address of a P-CSCF
  scene     \* budgets of the behaviour

vars == <<tunnelVars, registrationVars, main, proxy, scene>>

\* kind: who uses the classes; epdg, pcscf: configured addresses; calls: calls
\* of the user; starts: restarts of the service; faults: failing swanctl
\* processes, databases and helpers, lost and repeated datagrams; drops: SAs
\* lost.
SceneType ==
  [kind: {"service", "session", "tunnel"}, epdg: BOOLEAN, pcscf: BOOLEAN,
   calls: Nat, starts: Nat, faults: Nat, drops: Nat]

ASSUME ServiceAssumption == Scenes \subseteq SceneType

TypeOK ==
  /\ VowifiTypeOK /\ RegistrationTypeOK
  /\ main \in {"none", "epdg", "proxy", "registering", "volte", "running",
               "idle", "ended"}
  /\ proxy \in BOOLEAN /\ scene \in SceneType

ServiceInit ==
  /\ scene \in Scenes
  /\ main = IF scene.kind # "service" THEN "none"
            ELSE IF scene.epdg THEN "epdg" ELSE "proxy"
  /\ proxy = scene.pcscf

Init == TunnelInit /\ RegistrationInit /\ ServiceInit

Spend(what) == scene[what] > 0 /\ scene' = [scene EXCEPT ![what] = @ - 1]
Busy == task["connect"] # "none"

-----------------------------------------------------------------------------
(* main *)

main_connect ==
  /\ main = "epdg" /\ main' = "proxy"
  /\ (connect /\ UNCHANGED scene) \/ (connect_unwritten /\ Spend("faults"))
  /\ UNCHANGED <<registrationVars, proxy>>

\* The tunnel may name a P-CSCF; without a tunnel the configured one is used.
main_proxy ==
  /\ main = "proxy" /\ ~Busy
  /\ \E found \in IF tunnel = "CONNECTED" /\ scene.epdg THEN BOOLEAN ELSE {FALSE} :
       /\ proxy' = (proxy \/ found)
       /\ main' = IF proxy' THEN "registering" ELSE "idle"
  /\ IF proxy' THEN register(dialog + 1) ELSE UNCHANGED registrationVars
  /\ UNCHANGED <<tunnelVars, scene>>

main_registered ==
  /\ main = "registering" /\ waiting = "none" /\ main' = "volte"
  /\ UNCHANGED <<tunnelVars, registrationVars, proxy, scene>>

\* VoLTECallManager.start binds the port; main does not catch what it raises,
\* and its process ends.
main_volte ==
  /\ main = "volte"
  /\ IF CanBind
     THEN main' = "running" /\ UNCHANGED <<tunnelVars, registrationVars>>
     ELSE main' = "ended" /\ TunnelRestart /\ RegistrationRestart
  /\ UNCHANGED <<proxy, scene>>

\* The process is killed.
main_killed ==
  /\ main \notin {"none", "ended"} /\ main' = "ended" /\ Spend("faults")
  /\ TunnelRestart /\ RegistrationRestart
  /\ UNCHANGED proxy

supervisor_starts ==
  /\ main = "ended" /\ Spend("starts")
  /\ main' = IF scene.epdg THEN "epdg" ELSE "proxy"
  /\ proxy' = scene.pcscf
  /\ UNCHANGED <<tunnelVars, registrationVars>>

-----------------------------------------------------------------------------
(* Callers of their own. *)

session_register ==
  /\ scene.kind = "session" /\ Spend("calls")
  /\ waiting = "none" /\ register(dialog + 1)
  /\ UNCHANGED <<tunnelVars, main, proxy>>

session_deregister ==
  /\ scene.kind = "session" /\ Spend("calls") /\ deregister
  /\ UNCHANGED <<tunnelVars, main, proxy>>

tunnel_call ==
  /\ scene.kind = "tunnel" /\ Spend("calls")
  /\ connect \/ connect_unwritten \/ disconnect
  /\ UNCHANGED <<registrationVars, main, proxy>>

-----------------------------------------------------------------------------
(* What goes on by itself, and what goes wrong. *)

TunnelGoesOn ==
  TunnelStep /\ UNCHANGED <<registrationVars, main, proxy, scene>>

TunnelFaults ==
  /\ \/ swanctl_alone /\ UNCHANGED scene
     \/ sa_lost /\ Spend("drops")
     \/ \E x \in Monitor \cup Caller : swanctl_fails(x) /\ Spend("faults")
  /\ UNCHANGED <<registrationVars, main, proxy>>

\* Datagrams arrive; `again' leaves a copy behind.
Delivered(again) ==
  \/ \E s \in net : challenged(s, again) \/ answered(s, again) \/ left(s, again)
  \/ \E q \in net : challenge(q, again, TRUE) \/ verify(q, again)

RegistrationGoesOn ==
  /\ \/ Delivered(FALSE) \/ _reregister \/ contact_expires
     \/ \E s \in net : ignored(s)
  /\ UNCHANGED <<tunnelVars, main, proxy, scene>>

RegistrationTimeout ==
  timeout /\ UNCHANGED <<tunnelVars, main, proxy, scene>>

RegistrationFaults ==
  /\ \/ Delivered(TRUE)
     \/ \E x \in net : lose(x) \/ no_vector(x, FALSE) \/ challenge(x, FALSE, FALSE)
                    \/ no_verdict(x, FALSE)
     \/ helper_restart
  /\ Spend("faults")
  /\ UNCHANGED <<tunnelVars, main, proxy>>

Main == main_connect \/ main_proxy \/ main_registered \/ main_volte

Next ==
  \/ Main \/ main_killed \/ supervisor_starts
  \/ session_register \/ session_deregister \/ tunnel_call
  \/ TunnelGoesOn \/ TunnelFaults
  \/ RegistrationGoesOn \/ RegistrationTimeout \/ RegistrationFaults

Spec == Init /\ [][Next]_vars

\* The event loop runs every task that can go on, swanctl ends, and sleeps and
\* timers fire.  Nothing is assumed of the network, of callers or of faults.
Fairness ==
  /\ WF_vars(Main)
  /\ WF_vars(TunnelGoesOn)
  /\ \A x \in Monitor \cup Caller : WF_vars(swanctl(x) /\ TunnelGoesOn)
  /\ \A m \in Monitor : WF_vars(_dpd_monitor(m) /\ TunnelGoesOn)
  /\ WF_vars(RegistrationTimeout)

FairSpec == Spec /\ Fairness

-----------------------------------------------------------------------------
(* What the repository says of the program; this fails. *)

\* "Keep the service running and update state" (ims/service.py:261): main does
\* not end by itself.
KeepsRunning == [][~(main = "volte" /\ main' = "ended" /\ scene' = scene)]_vars
=============================================================================
