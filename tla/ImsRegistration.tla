-------------------------- MODULE ImsRegistration ---------------------------
(***************************************************************************)
(* IMS registration with AKA: IMSRegistration and its SIPClient, datagrams *)
(* that are lost, delayed or repeated, the S-CSCF (scscf.cfg) and its      *)
(* authentication helper.                                                  *)
(*                                                                         *)
(* A challenge is a number; what matters of it is the SQN inside AUTN and  *)
(* whether the helper still holds its vector, as digests of one challenge  *)
(* never match those of another.  A dialog is the Call-ID of one           *)
(* IMSRegistration object.                                                 *)
(***************************************************************************)
EXTENDS Naturals, Sequences, FiniteSets

CONSTANTS
  PhoneSqn,     \* SQN of the profile in the eUICC
  NetworkSqn,   \* SQN of the subscriber in the database
  Step,         \* what a vector adds to it: 32
  MaxChallenge  \* bound on vectors made

ASSUME RegistrationAssumption ==
  /\ PhoneSqn \in Nat /\ NetworkSqn \in Nat /\ PhoneSqn <= NetworkSqn
  /\ Step \in Nat \ {0} /\ MaxChallenge \in Nat

Challenge == 1 .. MaxChallenge
Sqn == 0 .. NetworkSqn + Step * MaxChallenge + 1

VARIABLES
  reg_state,    \* IMSRegistration.state
  sqn,          \* creds.sqn
  waiting,      \* the request whose response register or deregister awaits
  timer,        \* the dialog whose _registration_timer sleeps, 0 if none
  port,         \* the local port 5060: free, or bound by a SIPClient
  dialog,       \* IMSRegistration objects made so far
  net,          \* datagrams on their way
  db_sqn,       \* security.sqn of the subscriber
  vectors,      \* SQN of each challenge made
  cache,        \* the challenges in _vector_cache: one at most
  location,     \* the S-CSCF has saved a contact
  stuck,        \* history: register raised, the port being taken
  faulty        \* history: something was lost, late, repeated or unavailable

registrationVars == <<reg_state, sqn, waiting, timer, port, dialog, net, db_sqn,
                      vectors, cache, location, stuck, faulty>>
phoneVars == <<reg_state, sqn, waiting, timer, port, dialog, stuck>>
networkVars == <<db_sqn, vectors, cache, location>>

\* Challenge 0 is none: a request without Authorization, a 401 without nonce.
Request == [to: {"network"}, dialog: Nat, m: {"REGISTER", "LEAVE"},
            ch: Challenge \cup {0}]
Response == [to: {"phone"}, dialog: Nat, status: {200, 401, 403, 500},
             ch: Challenge \cup {0}]

RegistrationTypeOK ==
  /\ reg_state \in {"NOT_REGISTERED", "REGISTERING", "REGISTERED",
                    "DEREGISTERING", "FAILED"}
  /\ sqn \in Sqn
  /\ waiting \in {"none", "first", "second", "leave"}
  /\ timer \in 0 .. dialog /\ port \in {"free", "registration"}
  /\ dialog \in Nat /\ net \subseteq Request \cup Response
  /\ db_sqn \in Sqn /\ \A n \in DOMAIN vectors : vectors[n] \in Sqn
  /\ DOMAIN vectors \in {1 .. n : n \in 0 .. MaxChallenge}
  /\ cache \subseteq DOMAIN vectors /\ Cardinality(cache) <= 1
  /\ location \in BOOLEAN /\ stuck \in BOOLEAN /\ faulty \in BOOLEAN
  /\ waiting # "none" => port = "registration"
  /\ waiting \in {"first", "second"} => reg_state = "REGISTERING"
  /\ waiting = "leave" <=> reg_state = "DEREGISTERING"

RegistrationInit ==
  /\ reg_state = "NOT_REGISTERED" /\ sqn = PhoneSqn /\ waiting = "none"
  /\ timer = 0 /\ port = "free" /\ dialog = 0 /\ net = {}
  /\ db_sqn = NetworkSqn /\ vectors = <<>> /\ cache = {} /\ location = FALSE
  /\ stuck = FALSE /\ faulty = FALSE

\* The phone's process ends and starts again, reading its SQN from the eUICC.
RegistrationRestart ==
  /\ reg_state' = "NOT_REGISTERED" /\ sqn' = PhoneSqn /\ waiting' = "none"
  /\ timer' = 0 /\ port' = "free"
  /\ UNCHANGED <<dialog, net, db_sqn, vectors, cache, location, stuck, faulty>>

-----------------------------------------------------------------------------
(* The phone. *)

\* _send_register on dialog d: what is sent replaces what was received, rest.
Sends(rest, d, m, ch) ==
  net' = rest \cup {[to |-> "network", dialog |-> d, m |-> m, ch |-> ch]}

\* A SIPClient can be started: each of them binds the same port.
CanBind == port = "free"

\* register() of a new IMSRegistration: SIPClient.start raises when the port is
\* taken, outside the try, and the state stays as it is.
register(d) ==
  /\ reg_state' = "REGISTERING" /\ dialog' = d
  /\ IF CanBind
     THEN /\ port' = "registration" /\ waiting' = "first"
          /\ Sends(net, d, "REGISTER", 0)
          /\ UNCHANGED stuck
     ELSE stuck' = TRUE /\ UNCHANGED <<port, waiting, net>>
  /\ UNCHANGED <<sqn, timer, networkVars, faulty>>

\* The timer's registration makes a new SIPClient while that of the first one
\* has the port.  An object that was replaced registers to no effect.
_reregister ==
  /\ timer # 0 /\ timer' = 0
  /\ IF timer = dialog /\ reg_state = "REGISTERED"
     THEN reg_state' = "REGISTERING" /\ stuck' = ~CanBind
     ELSE UNCHANGED <<reg_state, stuck>>
  /\ UNCHANGED <<sqn, waiting, port, dialog, net, networkVars, faulty>>

\* A response to the dialog resolves whatever request is pending on it; it may
\* be delivered once more.
Receives(s, again) ==
  /\ s \in net /\ s.to = "phone" /\ s.dialog = dialog
  /\ faulty' = (faulty \/ again)

\* Milenage.authenticate.  Mutant: an SQN is accepted once it is larger.
Fresh_Larger(ch) == vectors[ch] > sqn
Fresh(ch) == vectors[ch] >= sqn

\* Mutant: the phone follows the SQN of the network.
Counted_Far == sqn' = sqn + 2 * Step
Counted == sqn' = sqn + 1

challenged(s, again) ==
  /\ Receives(s, again) /\ waiting = "first" /\ s.status = 401
  /\ LET rest == IF again THEN net ELSE net \ {s} IN
     IF s.ch # 0 /\ Fresh(s.ch)
     THEN /\ Counted
          /\ waiting' = "second"
          /\ Sends(rest, dialog, "REGISTER", s.ch)
          /\ UNCHANGED reg_state
     ELSE /\ reg_state' = "FAILED" /\ waiting' = "none" /\ net' = rest
          /\ UNCHANGED sqn
  /\ UNCHANGED <<timer, port, dialog, stuck, networkVars>>

\* Mutant: anything but an error of the server will do.
Accepted_Any(s) == s.status < 500
Accepted(s) == s.status = 200

answered(s, again) ==
  /\ Receives(s, again) /\ waiting \in {"first", "second"}
  /\ ~(waiting = "first" /\ s.status = 401)
  /\ net' = IF again THEN net ELSE net \ {s}
  /\ waiting' = "none"
  /\ reg_state' = IF Accepted(s) THEN "REGISTERED" ELSE "FAILED"
  /\ timer' = IF Accepted(s) THEN dialog ELSE timer
  /\ UNCHANGED <<sqn, port, dialog, stuck, networkVars>>

deregister ==
  /\ reg_state = "REGISTERED" /\ reg_state' = "DEREGISTERING"
  /\ timer' = IF timer = dialog THEN 0 ELSE timer
  /\ waiting' = "leave"
  /\ Sends(net, dialog, "LEAVE", 0)
  /\ UNCHANGED <<sqn, port, dialog, stuck, networkVars, faulty>>

\* Any answer will do, and the client is stopped.
left(s, again) ==
  /\ Receives(s, again) /\ waiting = "leave"
  /\ net' = IF again THEN net ELSE net \ {s}
  /\ waiting' = "none" /\ reg_state' = "NOT_REGISTERED" /\ port' = "free"
  /\ UNCHANGED <<sqn, timer, dialog, stuck, networkVars>>

\* A response nobody waits for.
ignored(s) ==
  /\ s \in net /\ s.to = "phone" /\ (s.dialog # dialog \/ waiting = "none")
  /\ net' = net \ {s}
  /\ UNCHANGED <<phoneVars, networkVars, faulty>>

\* Mutant: a request is waited for without a limit.
Expires_Never == FALSE
Expires == waiting # "none"

\* No response within 32 seconds.
timeout ==
  /\ Expires /\ waiting' = "none" /\ faulty' = TRUE
  /\ reg_state' = "FAILED"
  /\ port' = IF waiting = "leave" THEN "free" ELSE port
  /\ UNCHANGED <<sqn, timer, dialog, stuck, net, networkVars>>

-----------------------------------------------------------------------------
(* The network. *)

Replies(q, again, status, ch) ==
  net' = (IF again THEN net ELSE net \ {q})
           \cup {[to |-> "phone", dialog |-> q.dialog, status |-> status, ch |-> ch]}

\* Late is one of an earlier registration.
Arrives(q, again, fails) ==
  /\ q \in net /\ q.to = "network"
  /\ faulty' = (faulty \/ again \/ fails \/ q.dialog # dialog)

\* The vector is handed out whether or not the update of the SQN succeeds, and
\* replaces the one cached.
Cached(n) == {n}

generate_auth_vector(n, updated) ==
  /\ vectors' = Append(vectors, db_sqn) /\ cache' = Cached(n)
  /\ db_sqn' = IF updated THEN db_sqn + Step ELSE db_sqn

challenge(q, again, updated) ==
  /\ Arrives(q, again, ~updated) /\ q.ch = 0 /\ Len(vectors) < MaxChallenge
  /\ LET n == Len(vectors) + 1 IN
     generate_auth_vector(n, updated) /\ Replies(q, again, 401, n)
  /\ UNCHANGED <<phoneVars, location>>

\* No subscriber, or no database: a 401 without nonce, or an error.
no_vector(q, again) ==
  /\ Arrives(q, again, TRUE) /\ q.ch = 0
  /\ \E status \in {401, 500} : Replies(q, again, status, 0)
  /\ UNCHANGED <<phoneVars, networkVars>>

\* The digest was computed from the vector that is cached.
verify_digest_response(q) == q.ch \in cache

\* The contact is saved on success.
verify(q, again) ==
  /\ Arrives(q, again, FALSE) /\ q.ch # 0
  /\ IF verify_digest_response(q)
     THEN location' = TRUE /\ Replies(q, again, 200, 0)
     ELSE UNCHANGED location /\ Replies(q, again, 403, 0)
  /\ UNCHANGED <<phoneVars, db_sqn, vectors, cache>>

\* The helper is not reached, or the contact cannot be saved.
no_verdict(q, again) ==
  /\ Arrives(q, again, TRUE) /\ q.ch # 0 /\ Replies(q, again, 500, 0)
  /\ UNCHANGED <<phoneVars, networkVars>>

lose(x) ==
  /\ x \in net /\ net' = net \ {x} /\ faulty' = TRUE
  /\ UNCHANGED <<phoneVars, networkVars>>

helper_restart ==
  /\ cache # {} /\ cache' = {} /\ faulty' = TRUE
  /\ UNCHANGED <<phoneVars, net, db_sqn, vectors, location>>

\* The phone re-registers, or tries to, well before the contact expires, which
\* is long after an answer is waited for.
contact_expires ==
  /\ location /\ waiting = "none"
  /\ ~(reg_state = "REGISTERED" /\ timer = dialog)
  /\ location' = FALSE
  /\ UNCHANGED <<phoneVars, net, db_sqn, vectors, cache, faulty>>

-----------------------------------------------------------------------------
(* Properties. *)

\* A registration fails only if a datagram was lost, late or repeated, or a
\* service behind the S-CSCF failed: the phone's way of counting SQNs and the
\* network's agree, from one registration to the next and across restarts.
FailedNeedsFault == reg_state = "FAILED" => faulty

\* A phone that says it is registered has a contact saved in the S-CSCF.
RegisteredIsSaved == reg_state = "REGISTERED" /\ timer = dialog => location

\* The phone's SQN is at most one ahead of the network's, so one vector whose
\* SQN was stored brings them together again.
NotAheadOfNetwork == sqn <= db_sqn + 1

\* A registration ends, unless the port was taken.
RegisteringEnds == reg_state = "REGISTERING" ~> reg_state # "REGISTERING" \/ stuck
=============================================================================
