# Virtual phone: specifications

TLA+ models of the virtual Android phone: the RIL path from Android, voice calls
and SMS over IMS, registration, the VoWiFi tunnel, the eUICC and its remote
provisioning, and the media path, with configurations for TLC and proofs for
TLAPS. The
models are translated from the Python and C code under `src/`; `PROJECT.json`
maps every definition to the lines it stands for.

    tlc -config calls_serial.cfg MCVolteCalls.tla      # any run: see the table
    tlapm EuiccProfiles_proofs.tla

## 1. The system

The phone is a set of services in one container. Python services run on one
asyncio event loop each and talk over TCP or Unix sockets, SIP (UDP) and HTTP.

| component | state it keeps | operations | talks to |
|---|---|---|---|
| RIL shim (`ril_shim/ril_shim.c`) | clients, bridge socket, retry counter | client requests, responses, unsolicited indications | Android rild socket, RIL bridge |
| RIL bridge (`hal/ril_bridge.py`, `hal/service.py`) | connected writers | dispatch of requests, broadcast of indications | shim, RadioHAL |
| RadioHAL (`hal/radio_hal.py`) | radio power, registration, `voice_calls`, call index counter | power, SIM, dial, answer, hangup, hold, conference, transfer, SMS, USSD | bridge, call manager, eUICC |
| VoLTECallManager (`ims/volte.py`) | `_calls` by Call-ID, `_started`, media session per call, `_volte_state` | start/stop, initiate, answer, hang up, hold, resume, swap, conference, transfer; one handler per incoming SIP method | RadioHAL, SIPClient, MediaSession |
| SIPClient (`ims/sip_client.py`) | `_pending_responses` by Call-ID, transport | `send_request` with 32 s timer, `resolve_response`, dispatch of datagrams | P-CSCF |
| MediaSession, JitterBuffer (`ims/media.py`, `ims/rtp.py`, `ims/codec.py`) | sockets, RTP/RTCP tasks, direction, packet buffer and counters | start, stop, hold, resume, DTMF, put, get, reset | call manager, far end |
| IMS registration (`ims/registration.py`, `ims/service.py`) | state machine, SQN, expiry, re-registration task | register, deregister, re-register | SIPClient, milenage, S-CSCF |
| S-CSCF auth helper (`scripts/scscf_auth_helper.py`) | one cached vector per IMSI, SQN in a database | authentication vectors | Kamailio, MongoDB |
| VoWiFi (`ims/vowifi.py`) | tunnel state, DPD task | connect, disconnect, monitor | strongSwan |
| SMS over IMS (`ims/sms.py`, `sms_bridge.py`, `sms_pdu.py`) | `_started`, SIPClient, RP reference, callback | start, stop, send, receive, webhook | SIPClient, RadioHAL, PSTN provider |
| Supplementary services (`ims/supplementary.py`) | call forwarding rules, USSD session | register, erase, query, decide | RadioHAL, management API |
| Virtual eUICC (`euicc/euicc.py`, `isdp.py`, `daemon.py`) | profiles, `_active_iccid`, free memory, one file per profile | install, enable, disable, delete, authenticate, restart | LPA, RadioHAL |
| APDU handler, ISD-R (`euicc/apdu/handler.py`, `isdr.py`) | selected file, pending response | SELECT, READ, AUTHENTICATE, STORE DATA | eUICC |
| SCP03 (`euicc/crypto/scp03.py`) | counter, MAC chaining value | open channel, wrap, unwrap | LPA |
| Remote provisioning (`rsp/*.py`) | LPA state, current transaction, notifications | download, install, enable, delete | SM-DP+, eUICC |
| Management API (`hal/management_api.py`) | none of its own but a forwarding manager | HTTP requests | all of the above |

Hard behaviour, and where it lives:

* **Awaits in the middle of an operation.** `dial`, `hangup`, hold, transfer and
  the SIP handlers each await responses, sockets or tasks half way through,
  and other tasks run meanwhile on the same call list and call table.
* **Two tables for one thing.** RadioHAL's list (by index) and the call table
  (by Call-ID) are kept in step by hand; responses are matched by Call-ID only.
* **An unreliable network.** INVITEs are repeated, a 180 is overtaken by the
  200, answers never come, RTP packets are late, repeated, reordered and lost.
* **Connections.** The shim takes whatever comes next on its connection for the
  answer, and repeats a request on a new connection when the old one closes.
* **One port.** Registration, call manager and SMS service each bind 5060.
* **Counters at two ends.** The SQN of the phone and that of the network grow
  by different steps, in memory and in a database that may fail.
* **Two-sided success.** A profile is installed by the eUICC and acknowledged to
  the SM-DP+; each call may fail after it had its effect.
* **Files.** The eUICC daemon may die between truncating and writing a profile,
  between disabling one profile and enabling another, or fail to write.

What makes each component correct is stated with its model in section 3; the
hazards in `PROJECT.json` name the lines where it could go wrong.

## 2. Modules

| module | contents |
|---|---|
| `VolteCalls` | RadioHAL's calls, VoLTECallManager, SIPClient's pending responses and the media sessions' life cycle, on one event loop |
| `MCVolteCalls` | the scenes TLC explores |
| `VolteCalls_proofs` | inductive invariant and theorems |
| `VolteSerial_proofs` | extends it: theorems about requests that do not overlap |
| `EuiccProfiles` | the profiles of the eUICC in memory and on disk |
| `ProfileSlot` | abstract: a directory of profiles of which at most one is enabled |
| `EuiccProfiles_proofs` | inductive invariant and theorems |
| `MCEuiccProfiles` | symmetry |
| `JitterBuffer`, `MCJitterBuffer`, `JitterBuffer_proofs` | the jitter buffer behind an unreliable network, and its theorems |
| `RadioPower` | power, SIM presence and simulated registration of RadioHAL |
| `RilChannel`, `MCRilChannel`, `RilChannel_proofs` | extends `RadioPower` by the C shim, its connections and the bridge; the theorems are about both |
| `VowifiTunnel` | connect, disconnect and the DPD monitors, with strongSwan |
| `ImsRegistration` | registration with AKA: phone, datagrams, S-CSCF, authentication helper |
| `ImsService`, `MCImsService`, `ImsService_proofs` | composes the two: main of the IMS service under supervisord, or callers of their own; the theorems are about the composition, the tunnel's invariant first |
| `SmsPdu` | the SMS codec, as operators on octets |
| `SmsOverIms`, `MCSmsOverIms`, `SmsOverIms_proofs` | extends `SmsPdu` by the SMS service, the network, the webhook and long texts; the theorems are about both |
| `RspDownload`, `MCRspDownload`, `RspDownload_proofs` | remote provisioning: service, LPA, SM-DP+ and daemon, and its theorems |

`EuiccProfiles` implements `ProfileSlot` under the mapping that reads each
ICCID's file: absent, or the state in it.

## 3. The models

### VolteCalls

**Tasks.** Every coroutine in this code runs until it awaits something that
really suspends. `cpu` is the running task, `stack[t]` the coroutines task `t`
still has to finish, innermost first; an action is the code from one await (or
from the entry of a coroutine) to the next. Between actions of one task no
other task runs unless `cpu = Idle`, which the model sets exactly at a
suspending await: waiting for a SIP response (`Suspend` with the request's
name), for the RTP sockets (`START`), for the RTCP task to end (`STOP`). UDP
sends and indications to the RIL bridge do not suspend.

**Who starts tasks.** `Ril` tasks are RIL clients: several of them, because the
shim sends a request again after a lost connection while the bridge is still
serving the first, and because the bridge accepts any number of clients.
`Handlers` are the tasks spawned per datagram. `env`, a `Scene`, says which
requests come, how many, how many tasks may overlap, and whether the network
repeats INVITEs or lets a 200 overtake a 180.

**State.** `voice_calls` and `radio` are RadioHAL's list and its `VoiceCall`
objects (removed ones are kept, as Python keeps an object that is referenced);
`table` and `calls` are `_calls` in insertion order and the `VoLTECall` objects;
`pending` is `_pending_responses`; `resp` is what a task's future was given.
`closed`, `answered`, `torn`, `aborted` are history that only properties read. An uncaught exception (`list.remove`, `del`, an index) ends
the task: `Abort`.

**Abstractions.** SDP, addresses and headers are left out, so starting media
either succeeds or is caught. A Call-ID that the network used is used again
(a repeated INVITE) only when no suspended task still refers to the old call.
RTP port numbers are left out. Messages reach `_handle_incoming_sip`: `SIPClient.start` has the UDP
protocol capture its own handler, so the one `VoLTECallManager.start` sets
afterwards (`volte.py:159`) is not called by a real socket; the model starts
where it is called, as the tests do.

**Checked.**

| run | scenes | properties |
|---|---|---|
| `calls_serial` | up to 5 requests and 3 SIP messages, one at a time, one outgoing and one incoming call | `RadioMirrorsSip`: between requests both tables list the same calls in matching states. `MediaFollowsState`: only active calls transmit, a held one's session is paused, none outlives its call. `NoAbort`: no request dies of an exception. |
| `calls_overlap` | five scenes: plain calls, blind and attended transfer, incoming REFER, forwarding, end of service; up to three tasks at once | `TypeOK`. `PendingHasWaiter`: a future belongs to a task suspended on that Call-ID. `UpdatesReachOwnCall`: a state change never lands on another call's radio entry. `LeakNeedsEarlyTeardown`: a media session outlives its call only if the call was removed while being set up. `NothingAfterBye`: nothing is sent in a dialog the phone has closed, and no re-INVITE or REFER in one the far end has closed. |
| `calls_finish` | two clients, a far end that may hang up, fairness | `RequestsEnd`: every request and handler ends. |

`calls_serial` leaves out explicit call transfer, REFER and forwarding because
`RadioMirrorsSip` really fails for them: `explicit_call_transfer` drops both
radio entries and hangs up neither leg (only the transferred one is, when
NOTIFY comes); REFER hangs up by Call-ID and leaves the radio entry; a forwarded
leg has radio index 0 and no entry. It leaves out late 180s for the same reason: they
put an active call back to RINGING_OUT when a re-INVITE is pending. All of these
behaviours are actions of the model and happen in `calls_overlap`. Repeated INVITEs,
which are taken for re-INVITEs, do the two lists no harm (section 4).

`fails_answer` shows a statement of the repository that the code does not keep: a
repeated INVITE answers a ringing call. Two more divergences are visible in the
model without a run: a call hung up before its INVITE was answered is dropped
from the radio's list without any signalling and becomes active when the 200
comes (`radio_hal.py:493`), and responses are matched by Call-ID alone, so a
task is handed the answer to another task's request (`sip_client.py:376`).

**Bounds.** `MaxIndex` bounds radio indexes, the scene bounds requests, SIP
messages and initiated calls; `RoomForIndex` and `RoomForCall` keep requests
that the bounds could not finish from starting. Two calls are what every
operation on calls (swap, conference, transfer, waiting) takes; three tasks
are enough for one to wait, a second to overwrite its future and a third to
remove the call under both.

**Fairness.** `FairSpec` assumes that a task that can run is run (the event loop
schedules every ready task) and that `wait_for` timers fire. Nothing is assumed
of clients or of the network: they may stay silent for ever.

### EuiccProfiles

The daemon serves one message at a time and never suspends inside one, so
requests do not interleave. What can come between two steps is the end of the
process (`terminate`, then `initialize` with what the files say) and an
`OSError` while saving (`save_fails`). Saving is two steps because the code's
`open(path, "w")` truncates the file before `json.dump` writes it. `enable`
saves twice, the current profile first; `saving.next` is its target. `acked`
is what the last reply promises of each profile and `unsaved` the profiles whose
last save failed.

| property | meaning |
|---|---|
| `OneEnabled` | an enabled profile is the one `_active_iccid` names, after any number of kills and failed saves |
| `DirectoryIsSlot` | the directory implements `ProfileSlot` |
| `ActiveIsEnabled` | between requests the active profile is the enabled one, once failed saves have been made up for |
| `AcknowledgedSurvives` | what was acknowledged is what the next start finds, unless a later request on that profile failed or is going on |

The condition on `unsaved` is needed: after a failed save `enable_profile` and
`disable_profile` find the wanted state already in memory, so a retry returns
success without saving, and a disabled profile stays active. Three divergences
are visible in the model without a run: a daemon killed while rewriting a
profile loses it, because `_save_profile` truncates the only copy before it
writes (`euicc.py:118`); `free_nvram` starts from
512 KB in each process whatever is installed, and the sequence number that
AUTHENTICATE raises is not saved, so a restart brings the old one back.

Run `euicc` has three ICCIDs (a current profile, a target and a bystander) and
memory for two, so that an installation is refused; packages of one size are
enough for that. `unlink` is assumed not to fail.

### JitterBuffer

`put`, `get` and `reset` behind a network that sends `Packets` packets, delivers
up to `Copies` copies of each and lets each be overtaken by `Overtake` others.
A packet is the number of its transmission; the code sees only its sequence
number, which wraps. In run `jitter` it wraps after two packets, the buffer
holds three, and one packet is a telephone event, so that every branch of `put`
and `get` is taken (duplicate, insertion, a full deque that refuses an
insertion or evicts on append, late, gap, playout). `Modulus` 16 stands for
2^16: what counts is only that the packets under way span less than half of it.
`target_depth` is a constant because nothing in the code adapts it.

`Sorted`: no two packets of one sequence
number, in ascending order. `PlayedInOrder`: packets are released in the order
they were sent and at most once, also across the wrap. `LossIsMissingInOrder`:
while the buffer does not straddle a wrap, what is reported lost is not in it.
Across a wrap it may be: `put` compares sequence numbers as integers
(`media.py:245`). The model also shows that a full deque refuses a reordered packet
with `IndexError` (`refused`) and that telephone events, which never enter the
buffer, are counted as lost. `Conservation`, the counters with terms for what the
deque refused, evicted or lost in a reset, is proved and not run.

### RadioPower and RilChannel

A request goes from RILJ to the thread of its client in the shim, over a TCP
connection to the bridge, through `_process_request` to RadioHAL, and back.
`shim[k]` is where the thread of client `k` is (`client_thread`,
`handle_request`, `bridge_request`), `fd[k]` its connection; `server[n]` is what
`_handle_client` does with connection `n`; `up` and `down` are the bytes in the
two directions, as messages. `RadioPower` has RadioHAL's side of power: the only
requests that await something (the eUICC daemon) between two changes of state.
Requests on calls run without an await here, or raise, which closes their
connection; what they do is the subject of `VolteCalls`. The bridge may be killed
and started again (`crash`, `start`); `cut` is the history of requests lost with
a connection. A connection the shim closes (`shut`) ends at the bridge in one of two
ways: `end_of_stream`, when everything sent was read, or `connection_lost`, when
the shim left something unread or the bridge wrote to it afterwards: then the
connection is reset (`Reset`) and `drain` or `readexactly` may raise at any
moment, with requests still in the reader's buffer. The shim leaves indications
unread whenever RILJ goes, because the greeting alone puts one more message on
the connection than it reads.

Run `ril` (one client, two connections, one loss, programs in which power
requests overlap or wait behind one that raises or awaits):

| property | meaning |
|---|---|
| `OffIsIdle` | a radio that is off is not registered, has no data call and no task that will register it, unless power requests overtook one another |
| `AnswersInOrder` | no answer is handed out twice, overtaken, or given before its request, however often a connection is lost |
| `RequestsRunInOrder` | a repeated request never runs after a later one |
| `RequestsAnswered` | every request is answered, with a failure after the last attempt |
| `AcknowledgedRuns` | an acknowledged request runs, unless its connection was lost: by a kill, by a request that raises, or reset because the shim closed it with something unread |

Nothing stronger than `AnswersInOrder` can be asked, although `ril_shim.c:353` says
"Send request and get response from the bridge.": the bridge greets each connection with an indication, and `bridge_request` takes the
next message for the response (`ril_shim.c:366`), so every answer is that to the
request before. `OffIsIdle` has its exception (`orphaned`) because
`power_on` awaits the eUICC: a second `power_on` meanwhile starts a second
registration task that no `power_off` cancels, and one overtaken by `power_off`
starts its task with the radio off (`radio_hal.py:204`).

*Bounds:* `MaxRequests` is the length of the longest program, and `RoomForTask`
keeps a `power_on` that would need one more registration task than there are from
starting. `Retries` is 2 for the code's 4 and `Attempts` 1 for 30; the loops
treat each turn alike, and two turns reach the first, the repeated and the last
one. One client is enough because threads share nothing but RadioHAL, whose
other users are the boot task and the unfinished request of a lost connection,
of which two connections give every order. *Fairness:* threads are scheduled, the
event loop runs what is ready, and the eUICC's socket answers or fails. The
bridge may stay down for ever.

### VowifiTunnel, ImsRegistration and ImsService

**VowifiTunnel.** `task[x]` is the swanctl process that connect, disconnect or a
DPD monitor awaits, `result[x]` its outcome once it has ended: a process has its
effect on strongSwan (`sa`) before its task learns of it, and goes on when the
task was cancelled (`initiating`). `odd` is a history of what explains a
disagreement: calls that crossed, a process that was left alone, a failing
`--terminate` or a killed service.

**ImsRegistration.** `register` binds port 5060 and awaits the response to its
first and second REGISTER; `net` holds datagrams that are lost, repeated and
reordered; the network side is the REGISTER route of `scscf.cfg` with the
helper's `generate_auth_vector` and `verify_digest_response`. A challenge is a
number whose SQN `vectors` keeps: digests of different challenges never match,
which is what milenage provides. A helper that is not reached, and a contact that
cannot be saved, end in a 500 (`no_vector`, `no_verdict`). The phone accepts an SQN that is not smaller
than its own and then adds one; the helper adds 32 per vector, whether or not the
database took it.

**ImsService** composes them in the scenes of `MCImsService`: main with and
without ePDG and P-CSCF, killed and started again by supervisord; a
`VoLTESession` that registers and deregisters; a tunnel connected and disconnected
at any time. Each has a budget of faults.

Run `ims`:

| property | meaning |
|---|---|
| `ShownIsSo` | what the management API is shown of the tunnel is so, unless calls crossed |
| `MonitorIsKnown` | at most one monitor is alive and disconnect can cancel it, unless calls crossed |
| `TornDown` | after disconnect strongSwan holds no SA, except for the reasons in `odd` |
| `LossNoticed` | a lost SA is set up again or the tunnel is no longer called connected |
| `FailedNeedsFault` | a registration fails only if a datagram was lost, late or repeated, or helper or database failed: the two ways of counting SQNs never collide by themselves, also across restarts |
| `RegisteredIsSaved` | a phone that says REGISTERED has a contact in the S-CSCF |
| `NotAheadOfNetwork` | the phone's SQN is at most one ahead of the database's |
| `RegisteringEnds` | a registration ends, unless the port was taken |

`fails_service` shows that main does not keep running (`service.py:261`): the
registration's SIPClient keeps 0.0.0.0:5060, and `VoLTECallManager.start` cannot
bind it (`service.py:227`). More that the model shows without a run:

* `_reregister` makes a new SIPClient while the old one has the port, so a
  re-registration never sends and leaves REGISTERING (`registration.py:296-308`,
  the exception in `RegisteringEnds`); a failed registration keeps the port too.
* `deregister` sends no Authorization and takes any answer, also the 401 it gets,
  for success; the contact is not removed (`registration.py:165-177`).
* A cancelled monitor leaves `swanctl --initiate` running, which sets up an SA
  after disconnect; a reconnection that fails leaves FAILED, which the monitor
  never retries (`vowifi.py:497`).

*Bounds:* three challenges are two registrations and a repeated REGISTER; two
monitors are one more than the code should have. *Fairness:* main, the tasks of
the tunnel and the swanctl processes they await go on, and timers fire. Nothing
is assumed of the network.

### SmsPdu and SmsOverIms

`SmsPdu` translates the codec octet by octet: GSM 7-bit packing, BCD, UCS-2,
addresses, submit and deliver TPDUs, RP-DATA, RIL PDUs, and messages of several
parts. What raises in the code has no result. `SmsOverIms` runs it inside the
service: Android or the management API sends, the network accepts or rejects and
may send a message for this phone on to it, others send to the phone by SIP or
through the provider's webhook. The service starts, stops and starts again, and
shares the port with other clients.

A message is never taken from `net` when it could come again, so every message
may be lost (never taken), delayed, reordered or repeated.

A MESSAGE reaches the handler through `SIPMessage.parse`, which decodes the
datagram as UTF-8 with replacement and encodes the body again
(`sip_client.py:104,135`). `Utf8` is that conversion on octets: well-formed
sequences stay, and everything else becomes U+FFFD, three octets for each maximal
part, as CPython replaces it. `Read` gives the RP-DATA reader what is left of the
body. `heard` keeps by which way a message came: a post, a MESSAGE with plain text,
or one in RP-DATA. The network reads the phone's own MESSAGEs with this codec's
readers and intact octets, since `serialize` sends the body as it is.

| property (run `sms`) | meaning |
|---|---|
| `TextArrives` | what Android shows of a post or of a MESSAGE with plain text is what was written, under that number, up to characters outside the alphabet |
| `AnsweredIsGiven` | with the callback set, a post that has a sender and a text, answered with 200, was given to Android as written (whatever the callback raised before); so was a MESSAGE with plain text, unless its sender is a name or its text longer than 255 characters |
| `CarriedIsWritten` | a MESSAGE under way holds the number and the text its call of `send_sms` was given: RIL PDU, submit TPDU, RP-DATA and back |
| `SuccessIsAccepted` | success of a running service means that the network took that message for that number, whatever late responses and restarts there were |
| `ReassembledIsWhole` | the text comes out exactly when every part has come once; parts fit into 140 octets |
| `SendsEnd` | every `send_sms` returns |

Texts have 0, 7, 8, 9, 160 and 256 septets (those that leave a free bit, fill
their octets, need one more, fill a message, exceed a length octet), UCS-2 texts
2, 3 and 71 characters; long texts split in two and three parts. Two senders are
enough for one to meet the other's response, two starts for an earlier client's.
The posts include one without a sender and one without a text, which
`_webhook_handler` answers and drops (`sms_bridge.py:220`, `Forwarded`).
`RefModulus` 2 makes the RP reference wrap within a run. *Fairness:* a response
that has come is noticed and timers fire.

`fails_rpdata` (`RpDataIsGiven`) shows what `TextArrives` and `AnsweredIsGiven` must
leave out: every type of address is above 127 (0x91 for an international number), so
the parser changes every deliver TPDU whose length octets are those of a real
number, and the message is answered with 200 and then lost, or shown with another
number or text.

What the run does not say, because the code does otherwise:

* `main` never sets the SMS service's callback and nothing calls
  `deliver_incoming_sms` from it, so incoming messages are dropped after the 200;
  the model has whoever wires the service set it (`set_mt_callback`).
* The UDP protocol has captured the client's handler before `sms.py:99` sets the
  service's (`sip_client.py:221`); the model starts at the service's handler.
* `deliver_incoming_sms` codes every text in GSM 7-bit: others' characters become
  '?', texts of more than 160 characters exceed a message, and more than 255, or
  an alphanumeric sender, raise: after the 200 by SIP, with a 500 and endless
  repetition by the webhook, which never answers such a post with 200.
* `split_multipart` puts no fill bit after the header and counts the text only in
  the length (`sms_pdu.py:246`), so another phone could not read its parts.
  Nothing but the tests calls it.
* Alphanumeric addresses of seven characters and more are not read as written
  (`sms_pdu.py:97`). The model's names have letters alone; one of digits could be
  taken for a number. UCS-2 characters beyond 16 bits take two units, and 70 of
  them exceed 140 octets.
* A service that is not started returns a placeholder success (`sms.py:135`);
  `SuccessIsAccepted` speaks of the others.

### RspDownload

Connections of the RSP service, each with one command at a time, share one LPA.
`conn[c]` is the command with its pending call and reply; a call is carried out
at the other end (SM-DP+ session, eUICC daemon) and returns or raises later, so
that a call may fail although it had its effect. `session` is the SM-DP+'s side;
it binds a session to any of its profiles, as the code sends neither matching ID
nor confirmation code.

| property (run `rsp`) | meaning |
|---|---|
| `OwnSession` | concurrent downloads keep apart: each installs its session's profile, and a success is told in that session after the installation |
| `ResultIsTrue` | a reported success is installed and known to the SM-DP+; a reported error installed nothing, unless an answer was lost |
| `CommandsEnd` | every command ends, also when the SM-DP+ is silent |

Two connections and two profiles make two downloads of the same and of different
profiles meet; the scenes add two faults, a fault and a restart, or a third
command. *Fairness:* the event loop, the daemon and httpx's timeout.

More that the model shows: the daemon answers an installation only if it
succeeded and closes the connection otherwise, so `handle_notification` never
reports a failed one; `_current_transaction` is not cleared by an error;
`LPA.state` is that of whichever download changed it last, and may say IDLE while
another runs.

## 4. Proofs

Every module of proofs has one inductive invariant, a conjunction of named parts,
and a lemma for each action (or each kind of action) saying that it is kept. The
theorems hold for all values of the constants that the named assumptions admit.

`VolteCalls_proofs`, for any finite sets of calls, clients and handlers and any
number of radio indexes, in every scene: any requests, messages and number of
overlapping tasks, from `CallsAssumption` (calls of the phone and of the far end
differ, as do clients and handlers; there is at least one radio index):

| theorem | states |
|---|---|
| `TypeCorrect` | `Spec => []TypeOK`: call list, call table, futures, stacks |
| `FuturesHaveWaiters` | `Spec => []PendingHasWaiter` |
| `UpdatesStayApart` | `Spec => []UpdatesReachOwnCall` |
| `MediaLeaks` | `Spec => []LeakNeedsEarlyTeardown` |
| `ByeIsLast` | `Spec => NothingAfterBye`, an action property |

None of the last four is inductive, since what a task does next is on its stack.
The parts of `IInv` are:

* `StackOK`, the shape of each stack: only the innermost coroutine is suspended;
  a `bye` waits only under the media being stopped; a `dial` waits directly under
  its `initiate_call`, or under what that awaits.
* `FreshOK`: a call that nobody has made is in no table, has no media and no task.
* `ByeOK`: only the task that took a call out of the table has its BYE to say, one
  task for each call, and the dialog is still open then. `NothingAfterBye` comes
  from this: requests are sent for calls in the table, or by that task.
* `SetupOK`: a call that is being set up is in the table or was removed (`torn`);
  while its INVITE is awaited it has no media and no other task begins it.
* `DialOK`: while `dial` has not stored the Call-ID, its radio entry names no
  call and no call but the one it makes has that index. `UpdatesReachOwnCall`
  needs it for the moment at which the Call-ID is stored.
* `IndexOK`: calls have indexes that were handed out, and a forwarded call has
  left the table before it is given the index of another one.

Most steps are *calm* (`Calm`): they touch neither the set-up, the media nor the
end of a call, and `CalmKeepsLife` proves once that those keep every part. The
other nine (`initiate` to `mediaStarted`, `answer_call`, `hangup_call` to `bye`,
incoming INVITE and BYE) work on one call; `LifeOf(c)` is the invariant of one
call, and `CallKept` keeps it for the calls a step leaves alone.

`VolteSerial_proofs`, for any number of calls, clients, handlers, radio indexes,
requests and messages, from the same assumption and the hypothesis `Serial(env)`: every
request and message is finished before the next one (`overlap` is 0), requests are dial,
answer, hangup, hang up all, switch, conference, separate and attended transfer,
messages INVITE, re-INVITE, BYE and CANCEL; nothing is forwarded, and a 180 does not
come after the call was answered:

| theorem | states |
|---|---|
| `ListsAgree` | `Spec /\ Serial(env) => []RadioMirrorsSip` |
| `MediaInStep` | `Spec /\ Serial(env) => []MediaFollowsState` |
| `NothingAborts` | `Spec /\ Serial(env) => []NoAbort` |

The hypothesis is no stronger than the code requires. TLC, with the instance of
`calls_serial` and one part of `Serial` left out at a time, finds `RadioMirrorsSip` violated
each time: by explicit transfer, power off, the end of the service, REFER, NOTIFY after an
attended transfer, one overlapping request, forwarding, and a late 180. A request that
overlaps another also breaks the other two properties. Repeated INVITEs break none of
them, so the theorems allow them.

The properties speak of the moments between requests, but a request takes several steps
and the network may answer, repeat or stay silent in the middle of it. `SerialInv` says of the
one task at work (`AtWork`) what the rest of its stack still has to put right
(`PhaseOf`). `Paired(I, C)` is the measure: the lists mirror each other but for the
entries in `I` and the calls in `C`. `dial` has an entry without a call until
`initiate_call` returns (`InviteAt`, `DialDoneAt`); `answer` shows a call as answered
that still rings (`AnswerAt`); `hangup` and an incoming BYE take the call out
of the table first and its entry out of the list last (`StopAt`, `Leaving`, `ByeTailAt`);
hang up all must still have on its stack every call that is left (`Clearing`); a hold
or resume changes the call, sends a re-INVITE, then changes the entry, and may be
called by a swap that goes on with the next call (`HoldAt`, `ReinviteAt`, `Continues`).
There is a lemma for each action (`dialSerial` to `incomingByeSerial`): it finds the phase
its coroutine was at and shows the phase of the next one, or, when the stack is empty,
that nothing is left to put right (`Steady`). `NoAbort` follows on the way, because the
phase names the table entry that `del` and `list.remove` need. `ListsAgree` finally
takes the step from the mapping of entries to calls to equally long lists without
repetitions (`ListLength`, `Mirrored`).

`RilChannel_proofs`, for any number of clients, programs, connections, losses,
retries and registration tasks, from `ChannelAssumption` (the programs' lengths are
bounded by `MaxRequests`; both loops have at least one turn) and `RadioAssumption`
(the boot task is no connection; there is a registration task):

| theorem | states |
|---|---|
| `TypeCorrect` | `Spec => []TypeOK` |
| `OffMeansIdle` | `Spec => []OffIsIdle` |
| `AnswersGoForward` | `Spec => []AnswersInOrder` |
| `RequestsRunForward` | `Spec => RequestsRunInOrder`, an action property |

`OffIsIdle` needs `CurrentKnown`: the only unfinished registration task is the one
`power_off` cancels, unless requests overtook one another. The channel's
invariant says who owns a connection and in what order things are on it.
`LinkOK` and `OwnerOK`: a connection is used by one thread, and the requests that may
still run are those of the thread that has it, on one connection only. `PipeOK`: along
a connection tokens ascend from what was answered to what is written, served, still to
be read, and the request the client is at. `AnswerOK` and `RanOK` tie this to what the
client was given and to what has run: a request that is repeated on a new
connection is the client's current one, and nothing later has run. `TriesTyped`
bounds the counters of both loops.

`ImsService_proofs`, which begins with the tunnel's part, for any finite set of monitors, any SQNs, step and number of vectors, and any scenes, from
`TunnelAssumption` (monitors and callers differ), `RegistrationAssumption` (the phone's
first SQN is not ahead of the database's, the step is positive) and
`ServiceAssumption` (scenes are scenes):

| theorem | states |
|---|---|
| `TypeCorrect` | `Spec => []TypeOK` |
| `ShownStateIsTrue` | `Spec => []ShownIsSo` |
| `MonitorsAreKnown` | `Spec => []MonitorIsKnown` |
| `DisconnectTearsDown` | `Spec => []TornDown` |
| `OnlyFaultsFail` | `Spec => []FailedNeedsFault` |
| `ContactIsSaved` | `Spec => []RegisteredIsSaved` |
| `SqnsStayTogether` | `Spec => []NotAheadOfNetwork` |

The tunnel: unless calls crossed, nothing else runs while `connect` does, and the
state says how far it is (`ConnectOK`); a monitor lives exactly while `_dpd_task`
names it, and then it alone moves the tunnel (`MonitorOK`); with no task at work the
tunnel is down and shown so (`IdleOK`). `TornOK` adds that with nothing to explain it
no process was left alone and a finished `--terminate` has removed the SA. The
registration: `SqnOK` compares every vector and the phone's SQN with the database's;
they may be one further apart when an update was lost. `Exchange` is what makes
`FailedNeedsFault` true: without faults there is exactly one datagram of the current
dialog, the one that is awaited, and the 401 on its way carries a vector that the
helper still has and the phone accepts. `SavedOK`: a 200 that can still be taken for
the answer was sent after the contact was saved. `ServiceOK` says where main may be
when a registration is under way.

`EuiccProfiles_proofs`, for every set of ICCIDs, package sizes, memory and
challenges:

| theorem | states |
|---|---|
| `TypeCorrect` | `Spec => []TypeOK` |
| `AtMostOneEnabled` | `Spec => []OneEnabled` |
| `ActiveProfile` | `Spec => []ActiveIsEnabled` |
| `AcknowledgementsHold` | `Spec => []AcknowledgedSurvives` |
| `DirectoryRefinesSlot` | `Spec => DirectoryIsSlot`: every step of the daemon is a step of `ProfileSlot` or changes no file |

The only assumption is `ProfilesAssumption` (`None` is no ICCID; sizes, memory
and challenges are natural numbers). None of the properties is inductive: that
at most one profile is enabled after a restart depends on the files, which
depend on the order in which `enable_profile` saves. The inductive invariant
`IInv` adds `SavingOK` (only a running daemon saves, and only installed
profiles; while a target waits to be enabled, the profile being saved is the
active one, disabled in memory), `DirectoryOK` (a file that says ENABLED belongs
to the active profile, and there is at most one), `SavedOK` (memory and
directory agree on every profile except the one being saved and those whose
save failed) and `ActiveOK` (a disabled profile is active only while that is
being saved or could not be). Each has a lemma with one step per action; the
refinement uses `IInv` for the one step that matters, `close_file`.

`JitterBuffer_proofs`, for every modulus, depth, capacity and network, from
`JitterAssumption`:

| theorem | states |
|---|---|
| `TypeCorrect` | `Spec => []TypeOK`: the deque never exceeds its capacity |
| `EveryPacketCounted` | `Spec => []Conservation` |
| `BufferSorted` | `Spec => []Sorted` |
| `OrderOfPlay` | `Spec /\ []Fresh => PlayedInOrder`, an action property |
| `LossesAreMissing` | `Spec /\ []Fresh => LossIsMissingInOrder`, an action property |
| `ShortStreams` | both hold of `Spec` if `2 * Packets < Modulus` |

The lemmas say what inserting at a position, discarding a prefix and a full
deque's append do to a sequence (`InsertedProperties`, `RestProperties`), what
each handler adds to which counter (`PutCounts`, `GetCounts`), and that the
place the insertion loop finds splits a sorted buffer into smaller and larger
sequence numbers (`PlaceSplits`); `TypeOK` is inductive, and the other two are
inductive relative to it. The last two are
not true for every value of the constants: a network that sends half a turn of the
sequence numbers or more while a packet is in the buffer confuses late with early.
`Fresh` excludes just that: every packet in the buffer is less than half a turn older
than the last one sent. At 50 packets a second half of 2^16 is eleven minutes, so the number
of packets in a call is not bounded by it; a stream that never gets to half a turn is
always fresh (`ShortStreams`, which covers run `jitter`). The lemmas are about arithmetic
modulo `Modulus`: `SeqDistance` and `SeqApart` say that the distance `get` computes is the
number of packets sent in between. `NextSent` is the invariant: `next_seq` is that of
a packet newer than the last one played and no newer than the next one to be sent. A
buffered packet before that one would be half a turn old, so `get` plays none of them
(`OrderStep`) and, where the packets are in the order they were sent, gives up none of
them (`LossStep`).

`RspDownload_proofs`, for every set of connections, every set of profiles and
every budget of commands, faults and restarts, from `ProfileAssumption` (`None`
is no ICCID):

| theorem | states |
|---|---|
| `TypeCorrect` | `Spec => []TypeOK`: `_current_transaction` names a session or none |
| `SessionsKeptApart` | `Spec => []OwnSession` |
| `ResultsAreTrue` | `Spec => []ResultIsTrue` |

Neither property is inductive: both speak of sessions and results, and what makes
them true is what a pending call still knows. The inductive invariant `IInv` adds,
for every connection (`CommandOK`), that its session was opened by it, that the
profile in hand is that session's, that a call past the installation implies the
installation (`Loaded`) and one before it excludes it (`Untouched`) unless an
answer was lost, and that an answered notification reached the session; and
for every result (`ResultOK`), that no command uses its session again. `Frame`
says what a step of one command may change, which keeps the invariant of the
others (`OthersKept`, `ResultsKept`, `SessionsKept`); each action then has to be
looked at for its own command only.

`SmsOverIms_proofs`, for any callers, texts, numbers and scenes and every modulus of
RP references, from `RefAssumption` (references fit an octet) and `ScenesAssumption`:
the scenes are scenes, a number has less than 256 digits (its length is one octet:
`to_bytes` raises otherwise), a name has letters alone, a text characters of 16 bits:

| theorem | states |
|---|---|
| `SuccessMeansAccepted` | `Spec => []SuccessIsAccepted` |
| `ShownWasWritten` | `Spec => []TextArrives` |
| `AnsweredReachesAndroid` | `Spec => []AnsweredIsGiven` |
| `CarriesWhatWasWritten` | `Spec => []CarriedIsWritten` |
| `RpDataRoundTrip` | of the codec alone, on the octets it wrote: RP-DATA with a deliver TPDU is read as its number and text; a name that is read cannot be coded for Android |
| `GsmRoundTrip`, `Ucs2RoundTrip`, `BcdRoundTrip` | decoding what was encoded gives it back, for every text and number |

The first half of the module is about the codec. Packing is periodic: seven octets
for eight septets (`PackedPeriod`), so that a septet is unpacked in one of eight
positions (`Unpacked`), and `GsmRoundTrip` holds for every length. `decode_bcd` is a
recursive function; `DigitsFound` exhibits the function that satisfies its equation.
`Layout` says where the fields of a TPDU are; from it come `SubmitRead`, `DeliverRead`,
`RpRead` and `RilRead`: each reader gives what the writer was given. Where
`deliver_incoming_sms` raises is `NamesRaise`, where it does not `IncomingFits`.

`ShownWasWritten` and `AnsweredReachesAndroid` are about posts and MESSAGEs with
plain text; `RpDataRoundTrip` is no statement about a state, since the octets the
handler gets are not those that were written.

`NetOK` says of a MESSAGE that the network reads in it what its sender was given, for
that number (`Carried`); of a response with 200 that the network took that call's
message (`Taken`); and of a request to the phone with plain text (`RequestOK`) that
whatever it gives to Android shows its author's text, and that it gives something
unless `deliver_incoming_sms` raises. `TaskOK` carries `Taken` from the response
to the end of the call. What is shown only grows, by such requests, by posts and
by RP-DATA, of which nothing is claimed (`MessageGiven`).

Only model-checked:

* `ReassembledIsWhole` of `SmsOverIms`: what sorting and joining parts gives is
  defined by recursion in the library (`SortSeq`, `FlattenSeq`), which takes an
  induction over the parts. For the same reason `TypeOK` of `SmsOverIms` is proved
  (as `Typed`) except for the numbers in `accepted` and the octets in `indications`,
  which are what the codec makes of any octets that Android may hand over or that
  the parser leaves (`Utf8` joins pieces with `FlattenSeq`).
* Liveness under fairness, out of the prover's reach as is ENABLED: `RequestsEnd`,
  `RequestsAnswered`, `AcknowledgedRuns`, `LossNoticed`, `RegisteringEnds`, `SendsEnd`,
  `CommandsEnd`.

## 5. Not modelled

* Third-party servers (Kamailio, Open5GS, strongSwan, SM-DP+) are environment,
  except for the REGISTER route of `scscf.cfg`.
* Cryptography (milenage, SCP03, EAP-AKA key derivation) is out of a model
  checker's reach; what the models need of it (fresh SQN, digests that match their
  challenge only) is stated where it is used. Nothing opens an SCP03 channel.
* The management API forwards requests and keeps no state; `/sms/send` is an
  action of `SmsOverIms`, the others are the requests of the models they go to.
* RTP headers, DTMF events and AMR framing, parcels and JSON of the RIL, SDP, and
  configuration files are formats that no property reads.
* The call forwarding table and the files behind the APDU handler have one
  sequential user each; unit tests reach them.

## 6. What is left

* `ReassembledIsWhole`, from a definition of `reassemble_multipart` by the position
  of each part instead of a sort, if that stays faithful.
