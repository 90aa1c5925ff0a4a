---------------------------- MODULE VowifiTunnel ----------------------------
(***************************************************************************)
(* The VoWiFi tunnel: connect, disconnect and the DPD monitors, which run  *)
(* as tasks of one event loop and await swanctl processes.                 *)
(*                                                                         *)
(* strongSwan is outside: it has the IKE SA or not.  A swanctl process has *)
(* its effect there first and is noticed by its task later; it goes on     *)
(* when the task is cancelled.  Configuration files, addresses and logging *)
(* are left out.                                                           *)
(***************************************************************************)
EXTENDS Naturals, FiniteSets

CONSTANTS Monitor       \* DPD monitors that may be alive at a time

Caller == {"connect", "disconnect"}

ASSUME TunnelAssumption == IsFiniteSet(Monitor) /\ Monitor \cap Caller = {}

VARIABLES
  tunnel,      \* state
  shown,       \* _vowifi_state: state and tunnel_up
  task,        \* what connect, disconnect and each monitor await
  result,      \* what the process a task awaits has come to, if it has
  dpd,         \* _dpd_task, a set of at most one monitor
  sa,          \* strongSwan: the SA is established
  initiating,  \* swanctl --initiate processes that nobody awaits any more
  odd          \* history: what went on that explains disagreements

tunnelVars == <<tunnel, shown, task, result, dpd, sa, initiating, odd>>

TunnelState == {"DISCONNECTED", "CONNECTING", "AUTHENTICATING", "CONNECTED",
                "FAILED"}
Alive(m) == task[m] # "none"
Initiates(x) == task[x] = "initiate" /\ result[x] = "pending"

VowifiTypeOK ==
  /\ tunnel \in TunnelState
  /\ shown \in [state: TunnelState, up: BOOLEAN]
  /\ task \in [Monitor \cup Caller ->
                 {"none", "sleep", "load", "list", "initiate", "extract",
                  "terminate"}]
  /\ result \in [Monitor \cup Caller -> {"pending", "ok", "failed", "raised"}]
  /\ dpd \subseteq Monitor /\ Cardinality(dpd) <= 1
  /\ sa \in BOOLEAN /\ initiating \in Nat
  /\ odd \subseteq {"crossed", "abandoned", "kept"}

TunnelInit ==
  /\ tunnel = "DISCONNECTED"
  /\ shown = [state |-> "DISCONNECTED", up |-> FALSE]
  /\ task = [x \in Monitor \cup Caller |-> "none"]
  /\ result = [x \in Monitor \cup Caller |-> "pending"]
  /\ dpd = {} /\ sa = FALSE /\ initiating = 0 /\ odd = {}

\* A new process of the service; strongSwan is another one and goes on.
TunnelRestart ==
  /\ tunnel' = "DISCONNECTED"
  /\ shown' = [state |-> "DISCONNECTED", up |-> FALSE]
  /\ initiating' = initiating
       + Cardinality({x \in Monitor \cup Caller : Initiates(x)})
  /\ task' = [x \in Monitor \cup Caller |-> "none"]
  /\ result' = [x \in Monitor \cup Caller |-> "pending"]
  /\ dpd' = {} /\ odd' = odd \cup {"kept"}
  /\ UNCHANGED sa

-----------------------------------------------------------------------------
(* Tasks and processes. *)

\* Task x goes on to await what is next.
Await(x, next) ==
  /\ task' = [task EXCEPT ![x] = next]
  /\ result' = [result EXCEPT ![x] = "pending"]

Done(x, what) == task[x] = what /\ result[x] = "ok"
Failed(x, what) == task[x] = what /\ result[x] = "failed"
Raised(x, what) == task[x] = what /\ result[x] = "raised"

Set(s, up) == tunnel' = s /\ shown' = [state |-> s, up |-> up]

\* Task x is told the outcome; a process that cannot be started raises.
Outcome(x, r) ==
  /\ result[x] = "pending" /\ result' = [result EXCEPT ![x] = r]
  /\ UNCHANGED <<tunnel, shown, task, dpd, initiating>>

_load_swanctl_config(x) ==
  /\ task[x] = "load" /\ Outcome(x, "ok") /\ UNCHANGED <<sa, odd>>

_initiate_connection(x) ==
  /\ task[x] = "initiate" /\ Outcome(x, "ok") /\ sa' = TRUE /\ UNCHANGED odd

\* What --list-sas shows of an SA is read whether there is one or not.
_extract_tunnel_info(x) ==
  /\ task[x] = "extract" /\ Outcome(x, "ok") /\ UNCHANGED <<sa, odd>>

list_sas(x) ==
  /\ task[x] = "list" /\ Outcome(x, IF sa THEN "ok" ELSE "failed")
  /\ UNCHANGED <<sa, odd>>

terminate ==
  /\ task["disconnect"] = "terminate" /\ Outcome("disconnect", "ok")
  /\ sa' = FALSE /\ UNCHANGED odd

swanctl(x) ==
  \/ _load_swanctl_config(x) \/ _initiate_connection(x)
  \/ _extract_tunnel_info(x) \/ list_sas(x) \/ (x = "disconnect" /\ terminate)

\* It fails or cannot be started; --list-sas only the latter.
swanctl_fails(x) ==
  /\ task[x] \notin {"none", "sleep"}
  /\ \E r \in IF task[x] \in {"extract", "list"} THEN {"raised"} ELSE {"failed", "raised"} :
       Outcome(x, r)
  /\ odd' = IF task[x] = "terminate" THEN odd \cup {"kept"} ELSE odd
  /\ UNCHANGED sa

\* One whose task was cancelled.
swanctl_alone ==
  /\ initiating > 0 /\ initiating' = initiating - 1
  /\ sa' \in {sa, TRUE}
  /\ UNCHANGED <<tunnel, shown, task, result, dpd, odd>>

\* The ePDG or the path to it fails.
sa_lost ==
  /\ sa /\ sa' = FALSE
  /\ UNCHANGED <<tunnel, shown, task, result, dpd, initiating, odd>>

-----------------------------------------------------------------------------
(* connect *)

\* Calls cross when connect is called in the middle of disconnect or with a
\* monitor alive, or disconnect in the middle of connect.
Crosses(other) ==
  IF task[other] # "none" \/ (other = "disconnect" /\ \E m \in Monitor : Alive(m))
  THEN {"crossed"} ELSE {}

connect ==
  /\ task["connect"] = "none"
  /\ tunnel' = "CONNECTING" /\ shown' = [shown EXCEPT !.state = "CONNECTING"]
  /\ Await("connect", "load")
  /\ odd' = odd \cup Crosses("disconnect")
  /\ UNCHANGED <<dpd, sa, initiating>>

\* _write_swanctl_config, _write_strongswan_conf: a file cannot be written.
connect_unwritten ==
  /\ task["connect"] = "none" /\ Set("FAILED", FALSE)
  /\ UNCHANGED <<task, result, dpd, sa, initiating>>
  /\ odd' = odd \cup Crosses("disconnect")

connect_loaded ==
  /\ Done("connect", "load") /\ Await("connect", "initiate")
  /\ tunnel' = "AUTHENTICATING"
  /\ shown' = [shown EXCEPT !.state = "AUTHENTICATING"]
  /\ UNCHANGED <<dpd, sa, initiating, odd>>

\* The state is published only after the addresses were read.
connect_initiated ==
  /\ Done("connect", "initiate") /\ Await("connect", "extract")
  /\ tunnel' = "CONNECTED"
  /\ UNCHANGED <<shown, dpd, sa, initiating, odd>>

\* Mutant: the monitor is not started when no address was found.
StartMonitor_Late(m) == dpd' = {m} /\ task' = [task EXCEPT !["connect"] = "none"]
StartMonitor(m) ==
  dpd' = {m} /\ task' = [task EXCEPT !["connect"] = "none", ![m] = "sleep"]

connect_done ==
  /\ Done("connect", "extract")
  /\ shown' = [state |-> tunnel, up |-> TRUE]
  /\ \E m \in Monitor : ~Alive(m) /\ StartMonitor(m)
  /\ result' = [result EXCEPT !["connect"] = "pending"]
  /\ UNCHANGED <<tunnel, sa, initiating, odd>>

\* swanctl cannot load or initiate, or the addresses cannot be read.
Caught(what) == Failed("connect", what) \/ Raised("connect", what)

connect_failed ==
  /\ \E what \in {"load", "initiate", "extract"} : Caught(what)
  /\ Await("connect", "none")
  /\ Set("FAILED", FALSE)
  /\ UNCHANGED <<dpd, sa, initiating, odd>>

-----------------------------------------------------------------------------
(* disconnect *)

\* The monitor is cancelled wherever it is.  Mutant: it is only forgotten.
Cancelled_Not == [task EXCEPT !["disconnect"] = "terminate"]
Cancelled ==
  [x \in Monitor \cup Caller |->
     IF x \in dpd THEN "none"
     ELSE IF x = "disconnect" THEN "terminate" ELSE task[x]]

disconnect ==
  /\ task["disconnect"] = "none"
  /\ task' = Cancelled /\ dpd' = {}
  /\ result' = [x \in Monitor \cup Caller |->
                  IF x \in dpd \cup {"disconnect"} THEN "pending" ELSE result[x]]
  /\ initiating' = initiating + Cardinality({m \in dpd : Initiates(m)})
  /\ odd' = odd \cup Crosses("connect")
            \cup IF \E m \in dpd : Initiates(m) THEN {"abandoned"} ELSE {}
  /\ UNCHANGED <<tunnel, shown, sa>>

\* Mutant: the process is not waited for.
Terminated_Started == task["disconnect"] = "terminate"
Terminated == task["disconnect"] = "terminate" /\ result["disconnect"] # "pending"

disconnect_done ==
  /\ Terminated
  /\ Await("disconnect", "none")
  /\ Set("DISCONNECTED", FALSE)
  /\ UNCHANGED <<dpd, sa, initiating, odd>>

-----------------------------------------------------------------------------
(* _dpd_monitor *)

monitor_wakes(m) ==
  /\ task[m] = "sleep" /\ Await(m, "list")
  /\ UNCHANGED <<tunnel, shown, dpd, sa, initiating, odd>>

\* The SA is there, or it is not and this is no time to reconnect.
monitor_idle(m) ==
  /\ \/ Done(m, "list") \/ Raised(m, "list")
     \/ (Failed(m, "list") /\ tunnel # "CONNECTED")
  /\ Await(m, "sleep")
  /\ UNCHANGED <<tunnel, shown, dpd, sa, initiating, odd>>

\* Mutant: what is published is left as it was.
Reconnecting_Unpublished == tunnel' = "CONNECTING" /\ UNCHANGED shown
Reconnecting == Set("CONNECTING", FALSE)

monitor_reconnects(m) ==
  /\ Failed(m, "list") /\ tunnel = "CONNECTED"
  /\ Reconnecting
  /\ Await(m, "initiate")
  /\ UNCHANGED <<dpd, sa, initiating, odd>>

monitor_initiated(m) ==
  /\ Done(m, "initiate") /\ Await(m, "extract")
  /\ tunnel' = "CONNECTED"
  /\ UNCHANGED <<shown, dpd, sa, initiating, odd>>

monitor_failed(m) ==
  /\ Await(m, "sleep")
  /\ \/ Failed(m, "initiate") /\ Set("FAILED", FALSE)
     \/ Raised(m, "initiate") /\ UNCHANGED <<tunnel, shown>>
  /\ UNCHANGED <<dpd, sa, initiating, odd>>

\* An error while the addresses are read is logged and the loop goes on.
monitor_done(m) ==
  /\ task[m] = "extract" /\ result[m] # "pending" /\ Await(m, "sleep")
  /\ shown' = IF result[m] = "ok" THEN [state |-> tunnel, up |-> TRUE] ELSE shown
  /\ UNCHANGED <<tunnel, dpd, sa, initiating, odd>>

_dpd_monitor(m) ==
  \/ monitor_wakes(m) \/ monitor_idle(m) \/ monitor_reconnects(m)
  \/ monitor_initiated(m) \/ monitor_failed(m) \/ monitor_done(m)

\* Steps of the tasks, and of the processes they await.
TunnelStep ==
  \/ connect_loaded \/ connect_initiated \/ connect_done \/ connect_failed
  \/ disconnect_done
  \/ \E m \in Monitor : _dpd_monitor(m)
  \/ \E x \in Monitor \cup Caller : swanctl(x)

-----------------------------------------------------------------------------
(* Properties. *)

\* What the management API is shown agrees with the tunnel: up only while it is
\* connected, and in the state it is in unless a reconnection is being looked
\* up, unless calls crossed.
ShownIsSo ==
  "crossed" \notin odd =>
    /\ shown.up => tunnel = "CONNECTED"
    /\ shown.state # tunnel => tunnel = "CONNECTED" /\ ~shown.up

\* There is one monitor at most and disconnect can cancel it; a tunnel that was
\* disconnected has none, unless calls crossed.
MonitorIsKnown ==
  "crossed" \notin odd =>
    /\ {m \in Monitor : Alive(m)} \subseteq dpd
    /\ tunnel = "DISCONNECTED" => dpd = {}

\* After disconnect strongSwan holds no SA, except where the code can leave one
\* behind: calls crossed, a cancelled monitor left --initiate running,
\* --terminate failed, or the process ended.
TornDown == tunnel = "DISCONNECTED" /\ sa => odd # {}

\* A connected tunnel that loses its SA is connected again or no longer called
\* connected.
LossNoticed == tunnel = "CONNECTED" /\ ~sa ~> sa \/ tunnel # "CONNECTED"
=============================================================================
