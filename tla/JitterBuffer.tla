---------------------------- MODULE JitterBuffer ----------------------------
(***************************************************************************)
(* The jitter buffer of a media session: put is called for every RTP       *)
(* packet received, get by the consumer of the audio.                      *)
(*                                                                         *)
(* A packet is the number of its transmission, from 0; the code sees only  *)
(* its sequence number, which wraps at Modulus (2^16).  The network delays, *)
(* repeats, overtakes and loses packets.  Arrival times and the jitter     *)
(* estimate, which nothing reads, are left out.                            *)
(***************************************************************************)
EXTENDS Integers, Sequences

CONSTANTS
  Modulus,   \* sequence numbers are modulo this: 2^16
  First,     \* sequence number of packet 0
  Target,    \* target_depth
  Capacity,  \* maxlen of the deque: 2 * max_depth
  Dtmf,      \* the packets that carry telephone events
  Packets,   \* bound on packets sent
  Copies,    \* bound on copies of one packet that arrive
  Overtake   \* bound on packets that may overtake a packet

ASSUME JitterAssumption ==
  /\ Modulus \in Nat \ {0} /\ First \in 0 .. Modulus - 1
  /\ Target \in Nat \ {0} /\ Capacity \in Nat \ {0}
  /\ Dtmf \subseteq Nat
  /\ Packets \in Nat /\ Copies \in Nat /\ Overtake \in Nat

VARIABLES
  sent, arrived,       \* network: packets sent, copies that arrived
  buffer,              \* _buffer
  next_seq,            \* _next_seq, -1 for None
  received, played, lost, late, duplicate,     \* the packets_* counters
  refused, evicted, cleared,  \* history: IndexError, dropped by the deque, reset
  last                 \* history: the last packet played since reset, or -1

network == <<sent, arrived>>
history == <<refused, evicted, cleared>>
vars == <<network, buffer, next_seq, received, played, lost, late, duplicate,
          history, last>>

Packet == 0 .. Packets - 1
seq(n) == (First + n) % Modulus

TypeOK ==
  /\ sent \in 0 .. Packets /\ arrived \in [Packet -> 0 .. Copies]
  /\ buffer \in Seq(Packet) /\ Len(buffer) <= Capacity
  /\ next_seq \in -1 .. Modulus - 1
  /\ {received, played, lost, late, duplicate} \subseteq Nat
  /\ {refused, evicted, cleared} \subseteq Nat
  /\ last \in -1 .. Packets - 1

Init ==
  /\ sent = 0 /\ arrived = [n \in Packet |-> 0]
  /\ buffer = <<>> /\ next_seq = -1
  /\ received = 0 /\ played = 0 /\ lost = 0 /\ late = 0 /\ duplicate = 0
  /\ refused = 0 /\ evicted = 0 /\ cleared = 0
  /\ last = -1

Send ==
  /\ sent < Packets /\ sent' = sent + 1
  /\ UNCHANGED <<arrived, buffer, next_seq, received, played, lost, late,
                 duplicate, history, last>>

\* One more copy of packet n reaches _on_rtp_received.
Arrives(n) ==
  /\ n < sent /\ sent - n <= Overtake + 1 /\ arrived[n] < Copies
  /\ arrived' = [arrived EXCEPT ![n] = @ + 1]
  /\ UNCHANGED sent

\* Telephone events do not go to the jitter buffer.
dtmf(n) ==
  /\ n \in Dtmf /\ Arrives(n)
  /\ UNCHANGED <<buffer, next_seq, received, played, lost, late, duplicate,
                 history, last>>

-----------------------------------------------------------------------------
(* put *)

\* Where packet n is inserted: before the first packet with a larger sequence
\* number, or after the last.  Mutant: always after the last.
Place_Last(n, i) == i = Len(buffer) + 1
Place(n, i) ==
  /\ \A j \in 1 .. i - 1 : seq(buffer[j]) <= seq(n)
  /\ i <= Len(buffer) => seq(buffer[i]) > seq(n)

Inserted(n, i) ==
  SubSeq(buffer, 1, i - 1) \o <<n>> \o SubSeq(buffer, i, Len(buffer))

\* A full deque refuses an insertion (IndexError); an append to it silently
\* drops its first packet.  Mutant: the buffer has no maximum length.
Insert_Unbounded(n, i) ==
  /\ buffer' = Inserted(n, i)
  /\ UNCHANGED <<refused, evicted>>

Insert(n, i) ==
  \/ /\ Len(buffer) < Capacity
     /\ buffer' = Inserted(n, i)
     /\ UNCHANGED <<refused, evicted>>
  \/ /\ Len(buffer) = Capacity /\ i <= Len(buffer)
     /\ refused' = refused + 1
     /\ UNCHANGED <<buffer, evicted>>
  \/ /\ Len(buffer) = Capacity /\ i > Len(buffer)
     /\ buffer' = Append(Tail(buffer), n)
     /\ evicted' = evicted + 1
     /\ UNCHANGED refused

\* The first packet says which one to play next.  Mutant: every one does.
Expected_Latest(n) == seq(n)
Expected(n) == IF next_seq = -1 THEN seq(n) ELSE next_seq

put(n) ==
  /\ n \notin Dtmf /\ Arrives(n)
  /\ received' = received + 1
  /\ next_seq' = Expected(n)
  /\ \/ /\ \E j \in DOMAIN buffer : seq(buffer[j]) = seq(n)
        /\ duplicate' = duplicate + 1
        /\ UNCHANGED <<buffer, refused, evicted>>
     \/ /\ \A j \in DOMAIN buffer : seq(buffer[j]) # seq(n)
        /\ \E i \in 1 .. Len(buffer) + 1 : Place(n, i) /\ Insert(n, i)
        /\ UNCHANGED duplicate
  /\ UNCHANGED <<played, lost, late, cleared, last>>

-----------------------------------------------------------------------------
(* get *)

Distance(n) == (seq(n) - next_seq) % Modulus
Old(n) == Distance(n) > Modulus \div 2

\* get calls itself after each old packet it discards: k are discarded, then
\* too few packets are left or the first one is not old.
\* Mutant: nothing is ever old.
Discards_None(k) == k = 0
Discards(k) ==
  /\ \A j \in 1 .. k : Len(buffer) - j + 1 >= Target /\ Old(buffer[j])
  /\ Len(buffer) - k >= Target => ~Old(buffer[k + 1])

get ==
  \E k \in 0 .. Len(buffer) :
    /\ Discards(k)
    /\ late' = late + k
    /\ LET rest == SubSeq(buffer, k + 1, Len(buffer)) IN
       \/ /\ Len(rest) < Target                               \* None
          /\ buffer' = rest
          /\ UNCHANGED <<next_seq, lost, played, last>>
       \/ /\ Len(rest) >= Target /\ Distance(rest[1]) > 0     \* a gap
          /\ buffer' = rest
          /\ lost' = lost + 1 /\ next_seq' = (next_seq + 1) % Modulus
          /\ UNCHANGED <<played, last>>
       \/ /\ Len(rest) >= Target /\ Distance(rest[1]) = 0
          /\ buffer' = Tail(rest)
          /\ next_seq' = (seq(rest[1]) + 1) % Modulus
          /\ played' = played + 1 /\ last' = rest[1]
          /\ UNCHANGED lost
    /\ UNCHANGED <<network, received, duplicate, history>>

reset ==
  /\ buffer' = <<>> /\ next_seq' = -1
  /\ cleared' = cleared + Len(buffer) /\ last' = -1
  /\ UNCHANGED <<network, received, played, lost, late, duplicate, refused,
                 evicted>>

Next ==
  \/ Send \/ get \/ reset
  \/ \E n \in Packet : put(n) \/ dtmf(n)

Spec == Init /\ [][Next]_vars
-----------------------------------------------------------------------------
(* Properties. *)

\* Every packet received is played, late, a duplicate or still buffered,
\* unless the deque was full or reset: the statistics of the RTCP reports add
\* up however the network treats the packets.
Conservation ==
  received = played + late + duplicate + Len(buffer) + refused + evicted + cleared

\* The buffer holds no two packets of one sequence number and is sorted, which
\* get takes for granted when it looks at the first packet only.
Sorted ==
  \A i, j \in DOMAIN buffer : i < j => seq(buffer[i]) < seq(buffer[j])

\* Until the next reset packets are released in the order they were sent, each
\* at most once, also where sequence numbers wrap.
PlayedInOrder == [][played' # played => last' > last]_vars

\* What get reports as lost is not in the buffer.
LossReported ==
  lost' # lost => \A i \in DOMAIN buffer : seq(buffer[i]) # next_seq

\* That is so while the sequence numbers in the buffer do not wrap, however
\* late, early or often the packets came.
LossIsMissingInOrder ==
  [][(\A i, j \in DOMAIN buffer : i < j => buffer[i] < buffer[j])
       => LossReported]_vars
=============================================================================
